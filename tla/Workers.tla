------------------------------ MODULE Workers ------------------------------
(***************************************************************************)
(* The process around the reactors: run of server.rs starts one thread per *)
(* worker, each of which builds a listener on the same port and a ring of  *)
(* its own, serves, and begins again with a fresh Server when sq_poll      *)
(* returns an error. Module Reactor is the inside of one "serve"; here a   *)
(* worker accepts and closes connections and fails at any moment.          *)
(*                                                                         *)
(* What the workers share is the reuseport group of their listeners and    *)
(* the descriptor table of the process. file is the kernel's view of that  *)
(* table, the other variables are what the workers believe they hold.      *)
(***************************************************************************)
EXTENDS Integers, Sequences, FiniteSets

CONSTANTS
  NumCpus,      \* num_cpus::get()
  U8,           \* the values of a u8 (256)
  Cores,        \* core_affinity::get_core_ids().len()
  AcceptMulti,  \* DEFAULT_ACCEPT_MULTIPLICATOR (16)
  Fds,          \* descriptor numbers below RLIMIT_NOFILE that the process may get
  CursedFd,     \* the 0xFF of close_connection
  Conns,        \* connections that peers open
  MaxRestarts   \* bound: errors and panics of sq_poll, and the count of restarts

(* Server::new: num_cpus::get().max(1) as u8                               *)
workers == (IF NumCpus > 1 THEN NumCpus ELSE 1) % U8
Threads == 0 .. workers - 1

ASSUME WorkersAssumption ==
  /\ NumCpus \in Nat /\ U8 \in Nat \ {0} /\ Cores \in Nat /\ AcceptMulti \in Nat
  /\ Fds \subseteq Nat \ {0} /\ CursedFd \in Nat /\ MaxRestarts \in Nat \ {0}

NoFd == -1
NoThread == -1
Free == <<"free", NoThread>>

VARIABLES
  alive,        \* does the process run?
  aborts,       \* is it built with panic = "abort", as Cargo.toml has it for release?
  conflict,     \* are realtime and ub_kernel_dma both set?
  spawned,      \* threads that run has started
  state,        \* thread: "none", "loop", "build", "serve" or "dead"
  listener, ring,   \* the descriptors of a thread's instance
  client_fds,   \* its clients: pairs of a connection and its descriptor
  accepts,      \* multishot accepts armed in a thread's ring
  late,         \* ends of removed clients that the ring has yet to report again
  file,         \* descriptor -> what it refers to
  group,        \* threads whose listeners are in the reuseport group
  steered,      \* is the CPU program attached to the group?
  stage,        \* connection: "none", "waiting", "open", "closed" or "lost"
  at,           \* the listener that a waiting connection is queued at
  leaked,       \* the clients of instances that are gone
  exhausted,    \* has a call ever found no free descriptor?
  restarts      \* times sq_poll was left
tableVars == <<listener, ring, client_fds, accepts, late>>
connVars == <<stage, at>>
vars == <<alive, aborts, conflict, spawned, state, tableVars, file, group, steered, connVars,
          leaked, exhausted, restarts>>

FreeFds == {f \in Fds : file[f] = Free}
Lowest(f) == f \in FreeFds /\ \A g \in FreeFds : f <= g
Full == FreeFds = {}

Init ==
  /\ alive = TRUE /\ aborts \in BOOLEAN /\ conflict \in BOOLEAN /\ spawned = 0
  /\ state = [t \in Threads |-> "none"]
  /\ listener = [t \in Threads |-> NoFd] /\ ring = [t \in Threads |-> NoFd]
  /\ client_fds = [t \in Threads |-> {}]
  /\ accepts = [t \in Threads |-> 0] /\ late = [t \in Threads |-> 0]
  /\ file = [f \in Fds |-> Free]
  /\ group = <<>> /\ steered = FALSE
  /\ stage = [c \in Conns |-> "none"] /\ at = [c \in Conns |-> NoThread]
  /\ leaked = {} /\ exhausted = FALSE /\ restarts = 0

-----------------------------------------------------------------------------
(* The main thread                                                         *)

Die ==
  /\ alive' = FALSE
  /\ UNCHANGED <<aborts, conflict, spawned, state, tableVars, file, group, steered, connVars,
                 leaked, exhausted, restarts>>

(* The flags exclude each other: the process is killed before any thread.  *)
log_kernel_error == alive /\ conflict /\ Die

(* for thread in 0..workers. A slip: one round too many.                   *)
OneTooMany == spawned <= workers
MoreToSpawn == spawned < workers

(* A thread that cannot be spawned ends run with an error, and main's      *)
(* unwrap ends the process.                                                *)
SpawnFails == alive /\ ~conflict /\ MoreToSpawn /\ Die

(* A panic ends the thread or, where panics abort, the process.            *)
Panic(t) == state' = [state EXCEPT ![t] = "dead"] /\ alive' = ~aborts

(* core_ids[thread] panics when there are fewer cores than workers.        *)
Spawn ==
  /\ alive /\ ~conflict /\ MoreToSpawn
  /\ spawned' = spawned + 1
  /\ IF spawned < Cores THEN state' = [state EXCEPT ![spawned] = "loop"] /\ UNCHANGED alive
     ELSE Panic(spawned)
  /\ UNCHANGED <<aborts, conflict, tableVars, file, group, steered, connVars, leaked,
                 exhausted, restarts>>

-----------------------------------------------------------------------------
(* A worker                                                                *)

Open(f, what) == file' = [file EXCEPT ![f] = what]

(* The numbers in numbers are closed, whatever they refer to by now, and   *)
(* the listeners of gone disappear with the connections that wait there.   *)
Close(numbers, gone) ==
  /\ file' = [f \in Fds |-> IF f \in numbers THEN Free ELSE file[f]]
  /\ stage' = [c \in Conns |->
       CASE \E f \in Fds \cap numbers : file[f] = <<"conn", c>> -> "closed"
         [] stage[c] = "waiting" /\ at[c] \in gone -> "lost"
         [] OTHER -> stage[c]]

(* The listener joins the group as the last one. Any of its calls may      *)
(* fail, the first for want of a descriptor; unwrap then panics.           *)
build_listener(t) ==
  /\ alive /\ state[t] = "loop"
  /\ \/ \E f \in Fds :
          /\ Lowest(f) /\ Open(f, <<"listener", t>>)
          /\ listener' = [listener EXCEPT ![t] = f]
          /\ group' = Append(group, t)
          /\ state' = [state EXCEPT ![t] = "build"]
          /\ UNCHANGED <<alive, exhausted>>
     \/ Panic(t) /\ exhausted' = (exhausted \/ Full) /\ UNCHANGED <<file, listener, group>>
  /\ UNCHANGED <<aborts, conflict, spawned, ring, client_fds, accepts, late, steered, connVars,
                 leaked, restarts>>

(* reuseport_detach_sock: the last listener takes the place of the one     *)
(* that leaves, and the program goes with the last one of all.             *)
InGroup(t) == \E n \in DOMAIN group : group[n] = t
Without(g, t) ==
  LET n == CHOOSE n \in DOMAIN g : g[n] = t IN
  SubSeq([g EXCEPT ![n] = g[Len(g)]], 1, Len(g) - 1)
Leave(t) ==
  /\ group' = IF InGroup(t) THEN Without(group, t) ELSE group
  /\ steered' = (steered /\ group' # <<>>)

(* The descriptors that dropping an instance closes. A RawFd in client_fds *)
(* is only a number. A slip: the listener was moved out of the instance.   *)
ListenerKept(t) == {ring[t]}
Dropped(t) == {listener[t], ring[t]}

(* What the supervisor does after sq_poll has returned an error: go round  *)
(* its loop. A slip: the loop is left.                                     *)
GiveUp == "dead"
AfterError == "loop"

(* sq_poll is left and the instance dropped: connections that wait for the *)
(* listener are lost, those that are open stay open.                       *)
EndInstance(t) ==
  /\ Close(Dropped(t), {t}) /\ Leave(t)
  /\ leaked' = leaked \cup client_fds[t]
  /\ listener' = [listener EXCEPT ![t] = NoFd] /\ ring' = [ring EXCEPT ![t] = NoFd]
  /\ client_fds' = [client_fds EXCEPT ![t] = {}] /\ accepts' = [accepts EXCEPT ![t] = 0]
  /\ late' = [late EXCEPT ![t] = 0]
  /\ UNCHANGED <<aborts, conflict, spawned, at>>

Return(t) == state' = [state EXCEPT ![t] = AfterError] /\ UNCHANGED alive

(* build_uring, attach_reuseport_cbpf and the accepts. Nothing looks at    *)
(* what attaching the program returned, nor at accepts that fail because   *)
(* the listener's number is no longer its own. A slip: the accepts are     *)
(* armed by the first instance only.                                       *)
ArmedOnce == IF restarts = 0 THEN AcceptMulti ELSE 0
Armed == AcceptMulti

sq_poll(t) ==
  /\ alive /\ state[t] = "build"
  /\ \E f \in Fds :
       /\ Lowest(f) /\ Open(f, <<"ring", t>>)
       /\ ring' = [ring EXCEPT ![t] = f]
  /\ state' = [state EXCEPT ![t] = "serve"]
  /\ LET mine == file[listener[t]] = <<"listener", t>> IN
       /\ accepts' = [accepts EXCEPT ![t] = IF mine THEN Armed ELSE 0]
       /\ steered' \in {steered, steered \/ mine}
  /\ UNCHANGED <<alive, aborts, conflict, spawned, listener, client_fds, late, group, connVars,
                 leaked, exhausted, restarts>>

build_uring_fails(t) ==
  /\ alive /\ state[t] = "build" /\ Full
  /\ EndInstance(t) /\ Return(t) /\ exhausted' = TRUE /\ UNCHANGED restarts

(* The ring cannot be built for another reason, io_uring_enter fails, or   *)
(* an unwrap panics.                                                       *)
sq_poll_ends(t) ==
  /\ alive /\ state[t] \in {"build", "serve"} /\ restarts < MaxRestarts
  /\ EndInstance(t) /\ (Return(t) \/ Panic(t))
  /\ restarts' = restarts + 1 /\ UNCHANGED exhausted

(* The ring's number was closed behind the worker's back: its next call of *)
(* io_uring_enter fails, also when the number is another worker's ring by  *)
(* now (setup_single_issuer).                                              *)
ring_lost(t) ==
  /\ alive /\ state[t] = "serve" /\ file[ring[t]] # <<"ring", t>>
  /\ EndInstance(t) /\ Return(t)
  /\ restarts' = IF restarts < MaxRestarts THEN restarts + 1 ELSE restarts
  /\ UNCHANGED exhausted

(* An armed accept keeps its listener alive. When neither an accept nor a  *)
(* number refers to it any more, the listener is gone.                     *)
ListenerGone(t) ==
  /\ alive /\ InGroup(t) /\ accepts[t] = 0 /\ \A f \in Fds : file[f] # <<"listener", t>>
  /\ Close({}, {t}) /\ Leave(t)
  /\ UNCHANGED <<alive, aborts, conflict, spawned, state, tableVars, at, leaked, exhausted,
                 restarts>>

(* Without a descriptor the accept ends with EMFILE and is not armed again;*)
(* the connection goes on waiting.                                         *)
accept(t) ==
  /\ alive /\ state[t] = "serve" /\ accepts[t] > 0
  /\ \E c \in Conns :
       /\ stage[c] = "waiting" /\ at[c] = t
       /\ \/ \E f \in Fds :
               /\ Lowest(f) /\ Open(f, <<"conn", c>>)
               /\ client_fds' = [client_fds EXCEPT ![t] = @ \cup {<<c, f>>}]
               /\ stage' = [stage EXCEPT ![c] = "open"]
               /\ UNCHANGED <<accepts, exhausted>>
          \/ /\ Full /\ exhausted' = TRUE
             /\ accepts' = [accepts EXCEPT ![t] = @ - 1]
             /\ UNCHANGED <<file, client_fds, stage>>
  /\ UNCHANGED <<alive, aborts, conflict, spawned, state, listener, ring, late, group,
                 steered, at, leaked, restarts>>

(* client_fds.remove of close_connection. A slip: the entry is only read.  *)
StillListed(t, e) == client_fds[t]
Removed(t, e) == client_fds[t] \ {e}

(* A peer leaves. The end of a connection can be reported twice, by a send *)
(* and by the receive; a second report that finds the identity given out   *)
(* again closes the new client, like a first one.                          *)
close_connection(t) ==
  /\ alive /\ state[t] = "serve"
  /\ \E e \in client_fds[t] :
       Close({e[2]}, {}) /\ client_fds' = [client_fds EXCEPT ![t] = Removed(t, e)]
  /\ late' \in {late, [late EXCEPT ![t] = @ + 1]}
  /\ UNCHANGED <<alive, aborts, conflict, spawned, state, listener, ring, accepts, group, steered,
                 at, leaked, exhausted, restarts>>

(* A second report that finds no client closes the number 0xFF, whoever    *)
(* holds it.                                                               *)
close_again(t) ==
  /\ alive /\ state[t] = "serve" /\ late[t] > 0
  /\ Close({CursedFd}, {})
  /\ late' = [late EXCEPT ![t] = @ - 1]
  /\ UNCHANGED <<alive, aborts, conflict, spawned, state, listener, ring, client_fds, accepts,
                 group, steered, at, leaked, exhausted, restarts>>

-----------------------------------------------------------------------------
(* A peer connects on some CPU. attach_reuseport_cbpf: the CPU number is   *)
(* the place in the group; beyond its end, or without the program, the     *)
(* kernel chooses by a hash.                                               *)
Chosen(cpu) ==
  IF steered /\ cpu < Len(group) THEN {group[cpu + 1]} ELSE {group[n] : n \in DOMAIN group}

Connect ==
  /\ alive
  /\ \E c \in Conns, cpu \in 0 .. NumCpus - 1 :
       /\ stage[c] = "none"
       /\ \E t \in Chosen(cpu) :
            stage' = [stage EXCEPT ![c] = "waiting"] /\ at' = [at EXCEPT ![c] = t]
  /\ UNCHANGED <<alive, aborts, conflict, spawned, state, tableVars, file, group, steered, leaked,
                 exhausted, restarts>>

Thread(t) ==
  \/ build_listener(t) \/ sq_poll(t) \/ build_uring_fails(t) \/ accept(t)

(* All that may happen has happened, or the process is over.               *)
Over ==
  /\ \/ ~alive
     \/ spawned = workers /\ \A t \in Threads : state[t] \in {"serve", "dead"}
  /\ UNCHANGED vars

Next ==
  \/ log_kernel_error \/ SpawnFails \/ Spawn \/ Connect \/ Over
  \/ \E t \in Threads : 
       \/ Thread(t) \/ sq_poll_ends(t) \/ ring_lost(t) \/ ListenerGone(t)
       \/ close_connection(t) \/ close_again(t)

(* Threads are scheduled and the kernel lets go of what nobody refers to;  *)
(* nothing makes peers connect or leave.                                   *)
Spec ==
  /\ Init /\ [][Next]_vars
  /\ \A t \in Threads : WF_vars(Thread(t)) /\ WF_vars(ListenerGone(t))

-----------------------------------------------------------------------------
(* Type invariant of the process.                                          *)
TypeOK ==
  /\ {alive, aborts, conflict, steered, exhausted} \subseteq BOOLEAN
  /\ spawned \in 0 .. workers
  /\ state \in [Threads -> {"none", "loop", "build", "serve", "dead"}]
  /\ listener \in [Threads -> Fds \cup {NoFd}] /\ ring \in [Threads -> Fds \cup {NoFd}]
  /\ client_fds \in [Threads -> SUBSET (Conns \X Fds)]
  /\ accepts \in [Threads -> 0 .. AcceptMulti] /\ late \in [Threads -> Nat]
  /\ file \in [Fds -> {Free} \cup ({"listener", "ring"} \X Threads) \cup ({"conn"} \X Conns)]
  /\ group \in Seq(Threads)
  /\ stage \in [Conns -> {"none", "waiting", "open", "closed", "lost"}]
  /\ at \in [Conns -> Threads \cup {NoThread}]
  /\ leaked \subseteq Conns \X Fds /\ restarts \in 0 .. MaxRestarts

(* What a worker holds is open and its own: its listener, its ring, and    *)
(* for each client the connection that was accepted with that number.      *)
HeldIsOwn(t, f) ==
  /\ listener[t] = f => file[f] = <<"listener", t>>
  /\ ring[t] = f => file[f] = <<"ring", t>>
  /\ \A c \in Conns : <<c, f>> \in client_fds[t] => file[f] = <<"conn", c>>

(* All workers open and close numbers of one table, and yet every number   *)
(* but 0xFF is its holder's own: the close of 0xFF in close_connection,    *)
(* which may take that number from any worker, and all that follows from   *)
(* it stay with that one number (run cursed_close). No client is held      *)
(* by two workers or still held after it was leaked, and no two numbers    *)
(* refer to the same thing.                                                *)
DescriptorsApart ==
  /\ \A t \in Threads, f \in Fds \ {CursedFd} : HeldIsOwn(t, f)
  /\ \A t \in Threads : client_fds[t] \cap leaked = {}
  /\ \A s, t \in Threads : s # t => client_fds[s] \cap client_fds[t] = {}
  /\ \A f, g \in Fds : file[f] = file[g] /\ file[f] # Free => f = g

(* Every open descriptor is held by the worker it belongs to, 0xFF too, or *)
(* it was a client of an instance that ended with an error: only a restart *)
(* leaks, it leaks nothing but clients, and they stay open.                *)
OnlyRestartsLeak ==
  /\ \A f \in Fds, t \in Threads : /\ file[f] = <<"listener", t>> => listener[t] = f
                                   /\ file[f] = <<"ring", t>> => ring[t] = f
  /\ \A f \in Fds, c \in Conns : file[f] = <<"conn", c>> =>
       <<c, f>> \in leaked \/ \E t \in Threads : <<c, f>> \in client_fds[t]
  /\ \A c \in Conns, f \in Fds : <<c, f>> \in leaked =>
       restarts > 0 /\ (f # CursedFd => file[f] = <<"conn", c>>)

(* A worker whose listener is open is in the kernel's group, no worker is  *)
(* in it twice, and one that is gone is not in it: no connection is steered*)
(* to it, in whatever order workers start, fail and come back.             *)
GroupIsListening ==
  /\ \A f \in Fds, t \in Threads : file[f] = <<"listener", t>> => InGroup(t)
  /\ \A m, n \in DOMAIN group : group[m] = group[n] => m = n
  /\ \A t \in Threads : InGroup(t) => state[t] \in {"build", "serve"}

(* Where panics abort, as in the release build, a worker that was started  *)
(* is in service again after sq_poll has failed, unless descriptors ran    *)
(* out or the process is over.                                             *)
WorkersComeBack ==
  \A t \in Threads :
    aborts /\ state[t] # "none" ~> state[t] = "serve" \/ exhausted \/ ~alive

(* A connection in the backlog of a worker is accepted, or lost with the   *)
(* listener, unless descriptors ran out: of the errors of an accept that   *)
(* are modelled, only EMFILE leaves it waiting.                            *)
BacklogIsServed ==
  \A c \in Conns : stage[c] = "waiting" ~> stage[c] # "waiting" \/ exhausted \/ ~alive
=============================================================================
