--------------------------- MODULE WorkersProofs ---------------------------
(***************************************************************************)
(* Workers that share one descriptor table keep apart, for every number of *)
(* workers, descriptors and connections and any order of their failures.   *)
(***************************************************************************)
EXTENDS Workers, TLAPS

Listening(t) == state[t] \in {"build", "serve"}

(* What a worker believes it holds follows from where it is.               *)
HoldsAsItIs ==
  /\ \A t \in Threads : /\ listener[t] # NoFd <=> Listening(t)
                        /\ ring[t] # NoFd <=> state[t] = "serve"
                        /\ client_fds[t] # {} => state[t] = "serve"
  /\ \A t \in Threads : t >= spawned => state[t] = "none"

(* A descriptor of a connection is there only while the connection is open.*)
OnlyOpenHaveFds == \A f \in Fds, c \in Conns : file[f] = <<"conn", c>> => stage[c] = "open"

(* A connection that is listed anywhere was accepted, and is so only once. *)
Was == {"open", "closed"}
ListedWereAccepted ==
  \A c \in Conns, f \in Fds :
    /\ <<c, f>> \in leaked => stage[c] \in Was
    /\ \A t \in Threads : <<c, f>> \in client_fds[t] => stage[c] \in Was

(* The inductive invariant: none of the last three is inductive without    *)
(* what ties a thread's state and a connection's to their descriptors.     *)
WorkersInv ==
  /\ TypeOK /\ HoldsAsItIs /\ OnlyOpenHaveFds /\ ListedWereAccepted
  /\ DescriptorsApart /\ OnlyRestartsLeak /\ GroupIsListening

(* What a descriptor may refer to.                                         *)
Files == {Free} \cup ({"listener", "ring"} \X Threads) \cup ({"conn"} \X Conns)

(* Workers are numbered from 0 (num_cpus::get().max(1) as u8).             *)
LEMMA ThreadNumbers ==
  workers \in Nat /\ Threads \subseteq Nat /\ \A n \in Nat : n < workers => n \in Threads
<1>1. (IF NumCpus > 1 THEN NumCpus ELSE 1) \in Nat
  BY WorkersAssumption
<1>2. workers \in Nat
  BY <1>1, WorkersAssumption DEF workers
<1> QED
  BY <1>2 DEF Threads

(* A descriptor is never the number that stands for none.                  *)
LEMMA Numbers == NoFd \notin Fds /\ Fds \subseteq Nat
BY WorkersAssumption DEF NoFd

(* What a descriptor refers to tells its kind and its owner.               *)
LEMMA Kinds ==
  /\ \A s, t \in Threads : /\ <<"listener", s>> # <<"ring", t>>
                           /\ <<"listener", s>> = <<"listener", t>> => s = t
                           /\ <<"ring", s>> = <<"ring", t>> => s = t
                           /\ <<"listener", t>> # Free /\ <<"ring", t>> # Free
  /\ \A t \in Threads, c \in Conns :
       <<"listener", t>> # <<"conn", c>> /\ <<"ring", t>> # <<"conn", c>>
  /\ \A c, d \in Conns : <<"conn", c>> = <<"conn", d>> => c = d
  /\ \A c \in Conns : <<"conn", c>> # Free
BY DEF Free

(* What is opened is one of the things a descriptor may refer to.          *)
LEMMA FileKinds ==
  /\ \A t \in Threads : <<"listener", t>> \in Files /\ <<"ring", t>> \in Files
  /\ \A c \in Conns : <<"conn", c>> \in Files /\ <<"conn", c>> \in {"conn"} \X Conns
  /\ \A x \in {"conn"} \X Conns : \E c \in Conns : x = <<"conn", c>>
  /\ Free \in Files
BY DEF Files

(* The last listener takes the place of the one that leaves.               *)
LEMMA WithoutTakesOne ==
  ASSUME NEW g \in Seq(Threads), NEW t \in Threads,
         \E n \in DOMAIN g : g[n] = t,
         \A m, n \in DOMAIN g : g[m] = g[n] => m = n
  PROVE  /\ Without(g, t) \in Seq(Threads)
         /\ \A m, n \in DOMAIN Without(g, t) : Without(g, t)[m] = Without(g, t)[n] => m = n
         /\ \A s \in Threads :
              (\E n \in DOMAIN Without(g, t) : Without(g, t)[n] = s)
                <=> (s # t /\ \E n \in DOMAIN g : g[n] = s)
<1> DEFINE p == CHOOSE n \in DOMAIN g : g[n] = t
           L == Len(g)
           e == [g EXCEPT ![p] = g[L]]
           h == SubSeq(e, 1, L - 1)
<1>1. p \in DOMAIN g /\ g[p] = t
  OBVIOUS
<1>2. L \in Nat /\ DOMAIN g = 1 .. L /\ p \in 1 .. L /\ L >= 1
  BY <1>1
<1> HIDE DEF p
<1>3. e \in Seq(Threads) /\ Len(e) = L /\ \A n \in 1 .. L : e[n] = IF n = p THEN g[L] ELSE g[n]
  BY <1>2
<1> HIDE DEF e
<1>4. /\ h \in Seq(Threads) /\ DOMAIN h = 1 .. L - 1
      /\ \A n \in 1 .. L - 1 : h[n] = e[n]
  BY <1>2, <1>3
<1>5. Without(g, t) = h
  BY DEF Without, p, e
<1> HIDE DEF h, L
<1>0. L \in Nat /\ p \in 1 .. L /\ L >= 1
  BY <1>2
<1>6. \A n \in 1 .. L - 1 : h[n] = IF n = p THEN g[L] ELSE g[n]
  BY <1>2, <1>3, <1>4
<1>7. ASSUME NEW m \in 1 .. L - 1, NEW n \in 1 .. L - 1, h[m] = h[n] PROVE m = n
  <2>1. m \in 1 .. L /\ n \in 1 .. L /\ L \in 1 .. L /\ m # L /\ n # L
    BY <1>0
  <2> QED
    BY <1>2, <1>6, <1>7, <2>1
<1>8. ASSUME NEW s \in Threads, NEW n \in 1 .. L - 1, h[n] = s
      PROVE  s # t /\ \E m \in 1 .. L : g[m] = s
  <2>1. n \in 1 .. L /\ L \in 1 .. L /\ n # L
    BY <1>0
  <2>2. CASE n = p
    BY <1>1, <1>2, <1>6, <1>8, <2>1, <2>2
  <2>3. CASE n # p
    BY <1>1, <1>2, <1>6, <1>8, <2>1, <2>3
  <2> QED
    BY <2>2, <2>3
<1>9. ASSUME NEW s \in Threads, s # t, NEW m \in 1 .. L, g[m] = s
      PROVE  \E n \in 1 .. L - 1 : h[n] = s
  <2>1. m # p
    BY <1>1, <1>9
  <2>2. CASE m = L
    <3>1. p \in 1 .. L - 1
      BY <1>0, <2>1, <2>2
    <3>2. h[p] = g[L]
      BY <1>6, <3>1
    <3> QED
      BY <1>9, <2>2, <3>1, <3>2
  <2>3. CASE m # L
    <3>1. m \in 1 .. L - 1
      BY <1>0, <2>3
    <3>2. h[m] = g[m]
      BY <1>6, <2>1, <3>1
    <3> QED
      BY <1>9, <3>1, <3>2
  <2> QED
    BY <2>2, <2>3
<1> QED
  BY <1>2, <1>4, <1>5, <1>7, <1>8, <1>9

(* A listener that goes leaves the group to the others.                    *)
LEMMA LeaveStep ==
  ASSUME WorkersInv, NEW t \in Threads, Leave(t)
  PROVE  /\ group' \in Seq(Threads) /\ steered' \in BOOLEAN
         /\ \A m, n \in DOMAIN group' : group'[m] = group'[n] => m = n
         /\ \A s \in Threads : InGroup(s)' <=> s # t /\ InGroup(s)
<1>1. group \in Seq(Threads) /\ \A m, n \in DOMAIN group : group[m] = group[n] => m = n
  BY DEF WorkersInv, TypeOK, GroupIsListening
<1>2. steered' \in BOOLEAN
  BY DEF Leave
<1>3. CASE InGroup(t)
  <2>1. group' = Without(group, t)
    BY <1>3 DEF Leave
  <2>2. /\ Without(group, t) \in Seq(Threads)
        /\ \A m, n \in DOMAIN Without(group, t) :
             Without(group, t)[m] = Without(group, t)[n] => m = n
        /\ \A s \in Threads :
             (\E n \in DOMAIN Without(group, t) : Without(group, t)[n] = s)
               <=> (s # t /\ \E n \in DOMAIN group : group[n] = s)
    BY <1>1, <1>3, WithoutTakesOne DEF InGroup
  <2> QED
    BY <1>2, <2>1, <2>2 DEF InGroup
<1>4. CASE ~InGroup(t)
  BY <1>1, <1>2, <1>4 DEF Leave, InGroup
<1> QED
  BY <1>3, <1>4

-----------------------------------------------------------------------------
(* A step that leaves the descriptors alone.                               *)
LEMMA TableUnchanged ==
  ASSUME WorkersInv, TypeOK',
         file' = file, listener' = listener, ring' = ring, client_fds' = client_fds,
         group' = group, leaked' = leaked, restarts' = restarts,
         \A t \in Threads : /\ state'[t] \in {"build", "serve"} <=> state[t] \in {"build", "serve"}
                            /\ state'[t] = "serve" <=> state[t] = "serve"
                            /\ t >= spawned' => state'[t] = "none",
         \A c \in Conns : stage[c] \in Was => stage'[c] = stage[c]
  PROVE  WorkersInv'
<1>1. HoldsAsItIs'
  BY DEF WorkersInv, HoldsAsItIs, Listening
<1>2. OnlyOpenHaveFds' /\ ListedWereAccepted'
  BY DEF WorkersInv, OnlyOpenHaveFds, ListedWereAccepted, Was
<1>3. DescriptorsApart'
  BY DEF WorkersInv, DescriptorsApart, HeldIsOwn
<1>4. OnlyRestartsLeak'
  BY DEF WorkersInv, OnlyRestartsLeak
<1>5. GroupIsListening'
  BY DEF WorkersInv, GroupIsListening, InGroup
<1> QED
  BY <1>1, <1>2, <1>3, <1>4, <1>5 DEF WorkersInv

(* A number that is free is held by nobody, unless it is 0xFF; opening it  *)
(* for something that no other number refers to keeps the table without    *)
(* doubles.                                                                *)
LEMMA OpenTakesFree ==
  ASSUME WorkersInv, NEW f \in Fds, Lowest(f), NEW what \in Files,
         \A g \in Fds : file[g] # what, Open(f, what)
  PROVE  /\ f # CursedFd => \A t \in Threads : listener[t] # f /\ ring[t] # f
         /\ f # CursedFd => \A t \in Threads, c \in Conns : <<c, f>> \notin client_fds[t]
         /\ f # CursedFd => \A c \in Conns : <<c, f>> \notin leaked
         /\ file' \in [Fds -> Files] /\ file'[f] = what /\ \A g \in Fds \ {f} : file'[g] = file[g]
         /\ \A g, h \in Fds : file'[g] = file'[h] /\ file'[g] # Free => g = h
<1>0. file \in [Fds -> Files] /\ file[f] = Free
  BY DEF WorkersInv, TypeOK, Files, Lowest, FreeFds
<1>1. file' \in [Fds -> Files] /\ file'[f] = what /\ \A g \in Fds \ {f} : file'[g] = file[g]
  BY <1>0 DEF Open
<1>2. \A g, h \in Fds : file[g] = file[h] /\ file[g] # Free => g = h
  BY DEF WorkersInv, DescriptorsApart
<1>3. \A g, h \in Fds : file'[g] = file'[h] /\ file'[g] # Free => g = h
  <2> SUFFICES ASSUME NEW g \in Fds, NEW h \in Fds, file'[g] = file'[h], file'[g] # Free
               PROVE  g = h
    OBVIOUS
  <2>1. CASE g = f
    BY <1>1, <2>1
  <2>2. CASE h = f
    BY <1>1, <2>2
  <2>3. CASE g # f /\ h # f
    BY <1>1, <1>2, <2>3
  <2> QED
    BY <2>1, <2>2, <2>3
<1>4. ASSUME f # CursedFd, NEW t \in Threads
      PROVE  /\ listener[t] # f /\ ring[t] # f
             /\ \A c \in Conns : <<c, f>> \notin client_fds[t]
  <2>1. HeldIsOwn(t, f)
    BY <1>4 DEF WorkersInv, DescriptorsApart
  <2> QED
    BY <1>0, <2>1, Kinds DEF HeldIsOwn
<1>5. f # CursedFd => \A c \in Conns : <<c, f>> \notin leaked
  BY <1>0, Kinds DEF WorkersInv, OnlyRestartsLeak
<1> QED
  BY <1>1, <1>3, <1>4, <1>5

(* Closing numbers, whosever they are, frees them and ends the connections *)
(* they refer to.                                                          *)
LEMMA CloseFrees ==
  ASSUME WorkersInv, NEW numbers, NEW gone, Close(numbers, gone)
  PROVE  /\ file' \in [Fds -> Files] /\ \A f \in Fds : f \in numbers => file'[f] = Free
         /\ \A f \in Fds : f \notin numbers => file'[f] = file[f]
         /\ \A f \in Fds : file'[f] # Free => file'[f] = file[f]
         /\ \A f, g \in Fds : file'[f] = file'[g] /\ file'[f] # Free => f = g
         /\ stage' \in [Conns -> {"none", "waiting", "open", "closed", "lost"}]
         /\ \A c \in Conns : stage[c] \in Was => stage'[c] \in Was
         /\ OnlyOpenHaveFds'
<1>0. /\ file \in [Fds -> Files] /\ Free \in Files
      /\ stage \in [Conns -> {"none", "waiting", "open", "closed", "lost"}]
  BY FileKinds DEF WorkersInv, TypeOK, Files
<1>1. file' = [f \in Fds |-> IF f \in numbers THEN Free ELSE file[f]]
  BY DEF Close
<1>2. /\ file' \in [Fds -> Files] /\ \A f \in Fds : f \in numbers => file'[f] = Free
      /\ \A f \in Fds : f \notin numbers => file'[f] = file[f]
      /\ \A f \in Fds : file'[f] # Free => file'[f] = file[f]
  BY <1>0, <1>1
<1>3. \A f, g \in Fds : file[f] = file[g] /\ file[f] # Free => f = g
  BY DEF WorkersInv, DescriptorsApart
<1>4. \A f, g \in Fds : file'[f] = file'[g] /\ file'[f] # Free => f = g
  BY <1>2, <1>3
<1>5. ASSUME NEW c \in Conns
      PROVE  /\ stage'[c] \in {"closed", "lost", stage[c]}
             /\ stage[c] \in Was => stage'[c] \in Was
             /\ stage'[c] # stage[c] /\ stage[c] = "open" =>
                  \E f \in Fds \cap numbers : file[f] = <<"conn", c>>
  <2> DEFINE ends == \E f \in Fds \cap numbers : file[f] = <<"conn", c>>
             waits == stage[c] = "waiting" /\ at[c] \in gone
  <2>1. stage'[c] = CASE ends -> "closed" [] waits -> "lost" [] OTHER -> stage[c]
    BY DEF Close
  <2>2. CASE ends
    <3>1. PICK f \in Fds : file[f] = <<"conn", c>>
      BY <2>2
    <3>2. stage[c] = "open"
      BY <3>1 DEF WorkersInv, OnlyOpenHaveFds
    <3>3. stage'[c] = "closed"
      BY <2>1, <2>2, <3>2
    <3> QED
      BY <2>2, <3>3 DEF Was
  <2>3. CASE ~ends /\ waits
    BY <2>1, <2>3 DEF Was
  <2>4. CASE ~ends /\ ~waits
    BY <2>1, <2>4
  <2> QED
    BY <2>2, <2>3, <2>4
<1>6. stage' \in [Conns -> {"none", "waiting", "open", "closed", "lost"}]
  <2>1. \E e : stage' = [c \in Conns |-> e[c]]
    <3> DEFINE e == [c \in Conns |->
                 CASE \E f \in Fds \cap numbers : file[f] = <<"conn", c>> -> "closed"
                   [] stage[c] = "waiting" /\ at[c] \in gone -> "lost"
                   [] OTHER -> stage[c]]
    <3>1. stage' = e
      BY DEF Close
    <3>2. e = [c \in Conns |-> e[c]]
      OBVIOUS
    <3> HIDE DEF e
    <3> QED
      BY <3>1, <3>2
  <2> QED
    BY <1>0, <1>5, <2>1
<1>7. OnlyOpenHaveFds'
  <2> SUFFICES ASSUME NEW f \in Fds, NEW c \in Conns, file'[f] = <<"conn", c>>
               PROVE  stage'[c] = "open"
    BY DEF OnlyOpenHaveFds
  <2>1. file[f] = <<"conn", c>> /\ file[f] # Free /\ f \notin numbers
    BY <1>2, Kinds
  <2>2. stage[c] = "open"
    BY <2>1 DEF WorkersInv, OnlyOpenHaveFds
  <2>3. ~(\E g \in Fds \cap numbers : file[g] = <<"conn", c>>)
    BY <1>3, <2>1
  <2> QED
    BY <1>5, <2>2, <2>3
<1> QED
  BY <1>2, <1>4, <1>5, <1>6, <1>7

(* build_listener opens a free number and joins the group, or panics.      *)
LEMMA ListenPreserves ==
  ASSUME WorkersInv, NEW t \in Threads, build_listener(t)
  PROVE  WorkersInv'
<1>0. /\ state[t] = "loop" /\ aborts' = aborts /\ conflict' = conflict /\ spawned' = spawned
      /\ ring' = ring /\ client_fds' = client_fds /\ accepts' = accepts /\ late' = late
      /\ steered' = steered /\ stage' = stage /\ at' = at /\ leaked' = leaked
      /\ restarts' = restarts
  BY DEF build_listener, connVars
<1>1. /\ state \in [Threads -> {"none", "loop", "build", "serve", "dead"}]
      /\ listener \in [Threads -> Fds \cup {NoFd}] /\ group \in Seq(Threads)
  BY DEF WorkersInv, TypeOK
<1>2. ~(t >= spawned) /\ listener[t] = NoFd
  BY <1>0 DEF WorkersInv, HoldsAsItIs, Listening
<1>3. CASE Panic(t) /\ exhausted' = (exhausted \/ Full) /\ UNCHANGED <<file, listener, group>>
  <2>1. state' = [state EXCEPT ![t] = "dead"] /\ alive' = ~aborts
    BY <1>3 DEF Panic
  <2>2. alive' \in BOOLEAN /\ exhausted' \in BOOLEAN
    BY <1>3, <2>1
  <2>3. TypeOK'
    BY <1>0, <1>1, <1>3, <2>1, <2>2 DEF WorkersInv, TypeOK
  <2>4. \A s \in Threads : /\ state'[s] \in {"build", "serve"} <=> state[s] \in {"build", "serve"}
                           /\ state'[s] = "serve" <=> state[s] = "serve"
                           /\ s >= spawned' => state'[s] = "none"
    BY <1>0, <1>1, <1>2, <2>1 DEF WorkersInv, HoldsAsItIs
  <2> QED
    BY <1>0, <1>3, <2>3, <2>4, TableUnchanged
<1>4. ASSUME NEW f \in Fds, Lowest(f), Open(f, <<"listener", t>>),
             listener' = [listener EXCEPT ![t] = f], group' = Append(group, t),
             state' = [state EXCEPT ![t] = "build"], UNCHANGED <<alive, exhausted>>
      PROVE  WorkersInv'
  <2>2. \A g \in Fds : file[g] # <<"listener", t>>
    BY <1>2, Numbers DEF WorkersInv, OnlyRestartsLeak
  <2>3. /\ f # CursedFd => \A s \in Threads : listener[s] # f /\ ring[s] # f
        /\ f # CursedFd => \A s \in Threads, c \in Conns : <<c, f>> \notin client_fds[s]
        /\ f # CursedFd => \A c \in Conns : <<c, f>> \notin leaked
        /\ file' \in [Fds -> Files] /\ file'[f] = <<"listener", t>>
        /\ \A g \in Fds \ {f} : file'[g] = file[g]
        /\ \A g, h \in Fds : file'[g] = file'[h] /\ file'[g] # Free => g = h
    BY <1>4, <2>2, OpenTakesFree, FileKinds
  <2>4. /\ listener'[t] = f /\ \A s \in Threads \ {t} : listener'[s] = listener[s]
        /\ state'[t] = "build" /\ \A s \in Threads \ {t} : state'[s] = state[s]
        /\ listener' \in [Threads -> Fds \cup {NoFd}]
        /\ state' \in [Threads -> {"none", "loop", "build", "serve", "dead"}]
    BY <1>1, <1>4
  <2>5. /\ group' \in Seq(Threads) /\ DOMAIN group' = 1 .. Len(group) + 1
        /\ group'[Len(group) + 1] = t /\ \A n \in 1 .. Len(group) : group'[n] = group[n]
        /\ DOMAIN group = 1 .. Len(group) /\ Len(group) \in Nat
    BY <1>1, <1>4
  <2>6. TypeOK'
    BY <1>0, <1>4, <2>3, <2>4, <2>5 DEF WorkersInv, TypeOK, Files
  <2>7. HoldsAsItIs'
    BY <1>0, <1>2, <2>4, Numbers DEF WorkersInv, HoldsAsItIs, Listening
  <2>8. OnlyOpenHaveFds' /\ ListedWereAccepted'
    BY <1>0, <2>3, Kinds DEF WorkersInv, OnlyOpenHaveFds, ListedWereAccepted
  <2>9. DescriptorsApart'
    <3>1. ASSUME NEW s \in Threads, NEW g \in Fds \ {CursedFd} PROVE HeldIsOwn(s, g)'
      <4>1. HeldIsOwn(s, g)
        BY DEF WorkersInv, DescriptorsApart
      <4>2. CASE g = f
        BY <1>0, <2>3, <2>4, <4>1, <4>2 DEF HeldIsOwn
      <4>3. CASE g # f
        BY <1>0, <2>3, <2>4, <4>1, <4>3 DEF HeldIsOwn
      <4> QED
        BY <4>2, <4>3
    <3> QED
      BY <1>0, <2>3, <3>1 DEF WorkersInv, DescriptorsApart
  <2>10. OnlyRestartsLeak'
    <3>1. ASSUME NEW g \in Fds, NEW s \in Threads
          PROVE  /\ file'[g] = <<"listener", s>> => listener'[s] = g
                 /\ file'[g] = <<"ring", s>> => ring'[s] = g
      <4>1. CASE g = f
        BY <2>3, <2>4, <4>1, Kinds
      <4>2. CASE g # f
        BY <1>0, <2>2, <2>3, <2>4, <4>2 DEF WorkersInv, OnlyRestartsLeak
      <4> QED
        BY <4>1, <4>2
    <3>2. ASSUME NEW g \in Fds, NEW c \in Conns, file'[g] = <<"conn", c>>
          PROVE  <<c, g>> \in leaked' \/ \E s \in Threads : <<c, g>> \in client_fds'[s]
      BY <1>0, <2>3, <3>2, Kinds DEF WorkersInv, OnlyRestartsLeak
    <3>3. ASSUME NEW c \in Conns, NEW g \in Fds, <<c, g>> \in leaked'
          PROVE  restarts' > 0 /\ (g # CursedFd => file'[g] = <<"conn", c>>)
      BY <1>0, <2>3, <3>3 DEF WorkersInv, OnlyRestartsLeak
    <3> QED
      BY <3>1, <3>2, <3>3 DEF OnlyRestartsLeak
  <2>11. GroupIsListening'
    <3>0. ~InGroup(t)
      BY <1>0 DEF WorkersInv, GroupIsListening
    <3>1. \A s \in Threads : InGroup(s)' <=> s = t \/ InGroup(s)
      BY <2>5 DEF InGroup
    <3>2. \A m, n \in DOMAIN group' : group'[m] = group'[n] => m = n
      <4>1. \A m, n \in DOMAIN group : group[m] = group[n] => m = n
        BY DEF WorkersInv, GroupIsListening
      <4>2. \A n \in DOMAIN group' : n \in DOMAIN group \/ n = Len(group) + 1
        BY <2>5
      <4> QED
        BY <2>5, <3>0, <4>1, <4>2 DEF InGroup
    <3>3. ASSUME NEW g \in Fds, NEW s \in Threads, file'[g] = <<"listener", s>> PROVE InGroup(s)'
      BY <2>3, <3>1, <3>3, Kinds DEF WorkersInv, GroupIsListening
    <3>4. \A s \in Threads : InGroup(s)' => state'[s] \in {"build", "serve"}
      BY <2>4, <3>1 DEF WorkersInv, GroupIsListening
    <3> QED
      BY <3>2, <3>3, <3>4 DEF GroupIsListening
  <2> QED
    BY <2>6, <2>7, <2>8, <2>9, <2>10, <2>11 DEF WorkersInv
<1> QED
  BY <1>3, <1>4 DEF build_listener

(* build_uring opens a free number; the instance had no ring before.       *)
LEMMA ServePreserves ==
  ASSUME WorkersInv, NEW t \in Threads, sq_poll(t)
  PROVE  WorkersInv'
<1>0. /\ state[t] = "build" /\ alive' = alive /\ aborts' = aborts /\ conflict' = conflict
      /\ spawned' = spawned /\ listener' = listener /\ client_fds' = client_fds /\ late' = late
      /\ group' = group /\ stage' = stage /\ at' = at /\ leaked' = leaked
      /\ exhausted' = exhausted /\ restarts' = restarts
      /\ state' = [state EXCEPT ![t] = "serve"]
  BY DEF sq_poll, connVars
<1>1. PICK f \in Fds : Lowest(f) /\ Open(f, <<"ring", t>>) /\ ring' = [ring EXCEPT ![t] = f]
  BY DEF sq_poll
<1>2. ring[t] = NoFd
  BY <1>0 DEF WorkersInv, HoldsAsItIs
<1>3. \A g \in Fds : file[g] # <<"ring", t>>
  BY <1>2, Numbers DEF WorkersInv, OnlyRestartsLeak
<1>4. /\ f # CursedFd => \A s \in Threads : listener[s] # f /\ ring[s] # f
      /\ f # CursedFd => \A s \in Threads, c \in Conns : <<c, f>> \notin client_fds[s]
      /\ f # CursedFd => \A c \in Conns : <<c, f>> \notin leaked
      /\ file' \in [Fds -> Files] /\ file'[f] = <<"ring", t>>
      /\ \A g \in Fds \ {f} : file'[g] = file[g]
      /\ \A g, h \in Fds : file'[g] = file'[h] /\ file'[g] # Free => g = h
  BY <1>1, <1>3, OpenTakesFree, FileKinds
<1>5. /\ state \in [Threads -> {"none", "loop", "build", "serve", "dead"}]
      /\ ring \in [Threads -> Fds \cup {NoFd}] /\ accepts \in [Threads -> 0 .. AcceptMulti]
      /\ steered \in BOOLEAN
  BY DEF WorkersInv, TypeOK
<1>6. /\ ring'[t] = f /\ \A s \in Threads \ {t} : ring'[s] = ring[s]
      /\ state'[t] = "serve" /\ \A s \in Threads \ {t} : state'[s] = state[s]
      /\ ring' \in [Threads -> Fds \cup {NoFd}]
      /\ state' \in [Threads -> {"none", "loop", "build", "serve", "dead"}]
  BY <1>0, <1>1, <1>5
<1>7. accepts' \in [Threads -> 0 .. AcceptMulti] /\ steered' \in BOOLEAN
  <2>1. 0 \in 0 .. AcceptMulti /\ AcceptMulti \in 0 .. AcceptMulti
    BY WorkersAssumption
  <2>2. PICK n \in {0, AcceptMulti} : accepts' = [accepts EXCEPT ![t] = n]
    BY DEF sq_poll, Armed
  <2>3. steered' \in BOOLEAN
    BY <1>5 DEF sq_poll
  <2> QED
    BY <1>5, <2>1, <2>2, <2>3
<1>8. TypeOK'
  BY <1>0, <1>4, <1>6, <1>7 DEF WorkersInv, TypeOK, Files
<1>9. HoldsAsItIs'
  BY <1>0, <1>6, Numbers DEF WorkersInv, HoldsAsItIs, Listening
<1>10. OnlyOpenHaveFds' /\ ListedWereAccepted'
  BY <1>0, <1>4, Kinds DEF WorkersInv, OnlyOpenHaveFds, ListedWereAccepted
<1>11. DescriptorsApart'
  <2>1. ASSUME NEW s \in Threads, NEW g \in Fds \ {CursedFd} PROVE HeldIsOwn(s, g)'
    <3>1. HeldIsOwn(s, g)
      BY DEF WorkersInv, DescriptorsApart
    <3>2. CASE g = f
      BY <1>0, <1>4, <1>6, <3>1, <3>2 DEF HeldIsOwn
    <3>3. CASE g # f
      BY <1>0, <1>4, <1>6, <3>1, <3>3 DEF HeldIsOwn
    <3> QED
      BY <3>2, <3>3
  <2> QED
    BY <1>0, <1>4, <2>1 DEF WorkersInv, DescriptorsApart
<1>12. OnlyRestartsLeak'
  <2>1. ASSUME NEW g \in Fds, NEW s \in Threads
        PROVE  /\ file'[g] = <<"listener", s>> => listener'[s] = g
               /\ file'[g] = <<"ring", s>> => ring'[s] = g
    <3>1. CASE g = f
      BY <1>4, <1>6, <3>1, Kinds
    <3>2. CASE g # f
      BY <1>0, <1>3, <1>4, <1>6, <3>2 DEF WorkersInv, OnlyRestartsLeak
    <3> QED
      BY <3>1, <3>2
  <2>2. ASSUME NEW g \in Fds, NEW c \in Conns, file'[g] = <<"conn", c>>
        PROVE  <<c, g>> \in leaked' \/ \E s \in Threads : <<c, g>> \in client_fds'[s]
    BY <1>0, <1>4, <2>2, Kinds DEF WorkersInv, OnlyRestartsLeak
  <2>3. ASSUME NEW c \in Conns, NEW g \in Fds, <<c, g>> \in leaked'
        PROVE  restarts' > 0 /\ (g # CursedFd => file'[g] = <<"conn", c>>)
    BY <1>0, <1>4, <2>3 DEF WorkersInv, OnlyRestartsLeak
  <2> QED
    BY <2>1, <2>2, <2>3 DEF OnlyRestartsLeak
<1>13. GroupIsListening'
  <2>1. \A s \in Threads : state[s] \in {"build", "serve"} => state'[s] \in {"build", "serve"}
    BY <1>0, <1>6
  <2>2. \A g \in Fds, s \in Threads : file'[g] = <<"listener", s>> => file[g] = <<"listener", s>>
    BY <1>4, Kinds
  <2> QED
    BY <1>0, <2>1, <2>2 DEF WorkersInv, GroupIsListening, InGroup
<1> QED
  BY <1>8, <1>9, <1>10, <1>11, <1>12, <1>13 DEF WorkersInv

(* An accept opens a free number for a connection that had none, or fails  *)
(* with EMFILE and leaves the table alone.                                 *)
LEMMA AcceptPreserves ==
  ASSUME WorkersInv, NEW t \in Threads, accept(t)
  PROVE  WorkersInv'
<1>0. /\ state[t] = "serve" /\ accepts[t] > 0 /\ alive' = alive /\ aborts' = aborts
      /\ conflict' = conflict /\ spawned' = spawned /\ state' = state /\ listener' = listener
      /\ ring' = ring /\ late' = late /\ group' = group /\ steered' = steered /\ at' = at
      /\ leaked' = leaked /\ restarts' = restarts
  BY DEF accept
<1>1. PICK c \in Conns :
        /\ stage[c] = "waiting" /\ at[c] = t
        /\ \/ \E f \in Fds :
                /\ Lowest(f) /\ Open(f, <<"conn", c>>)
                /\ client_fds' = [client_fds EXCEPT ![t] = @ \cup {<<c, f>>}]
                /\ stage' = [stage EXCEPT ![c] = "open"]
                /\ UNCHANGED <<accepts, exhausted>>
           \/ /\ Full /\ exhausted' = TRUE
              /\ accepts' = [accepts EXCEPT ![t] = @ - 1]
              /\ UNCHANGED <<file, client_fds, stage>>
  BY DEF accept
<1>2. CASE exhausted' = TRUE /\ accepts' = [accepts EXCEPT ![t] = @ - 1]
           /\ UNCHANGED <<file, client_fds, stage>>
  <2>1. accepts \in [Threads -> 0 .. AcceptMulti]
    BY DEF WorkersInv, TypeOK
  <2>2. accepts[t] - 1 \in 0 .. AcceptMulti
    BY <1>0, <2>1, WorkersAssumption
  <2>3. accepts' \in [Threads -> 0 .. AcceptMulti]
    BY <1>2, <2>1, <2>2
  <2>4. TypeOK'
    BY <1>0, <1>2, <2>3 DEF WorkersInv, TypeOK
  <2>5. \A s \in Threads : s >= spawned' => state'[s] = "none"
    BY <1>0 DEF WorkersInv, HoldsAsItIs
  <2> QED
    BY <1>0, <1>2, <2>4, <2>5, TableUnchanged
<1>3. ASSUME NEW f \in Fds, Lowest(f), Open(f, <<"conn", c>>),
             client_fds' = [client_fds EXCEPT ![t] = @ \cup {<<c, f>>}],
             stage' = [stage EXCEPT ![c] = "open"], UNCHANGED <<accepts, exhausted>>
      PROVE  WorkersInv'
  <2>2. \A g \in Fds : file[g] # <<"conn", c>>
    BY <1>1 DEF WorkersInv, OnlyOpenHaveFds
  <2>3. /\ f # CursedFd => \A s \in Threads : listener[s] # f /\ ring[s] # f
        /\ f # CursedFd => \A s \in Threads, d \in Conns : <<d, f>> \notin client_fds[s]
        /\ f # CursedFd => \A d \in Conns : <<d, f>> \notin leaked
        /\ file' \in [Fds -> Files] /\ file'[f] = <<"conn", c>>
        /\ \A g \in Fds \ {f} : file'[g] = file[g]
        /\ \A g, h \in Fds : file'[g] = file'[h] /\ file'[g] # Free => g = h
    BY <1>3, <2>2, OpenTakesFree, FileKinds
  <2>4. client_fds \in [Threads -> SUBSET (Conns \X Fds)] /\ <<c, f>> \in Conns \X Fds
        /\ stage \in [Conns -> {"none", "waiting", "open", "closed", "lost"}]
    BY DEF WorkersInv, TypeOK
  <2>5. /\ client_fds'[t] = client_fds[t] \cup {<<c, f>>}
        /\ \A s \in Threads \ {t} : client_fds'[s] = client_fds[s]
        /\ client_fds' \in [Threads -> SUBSET (Conns \X Fds)]
    BY <1>3, <2>4
  <2>6. /\ stage'[c] = "open" /\ \A d \in Conns \ {c} : stage'[d] = stage[d]
        /\ stage' \in [Conns -> {"none", "waiting", "open", "closed", "lost"}]
    BY <1>3, <2>4
  <2>7. TypeOK'
    BY <1>0, <1>3, <2>3, <2>5, <2>6 DEF WorkersInv, TypeOK, Files
  <2>8. HoldsAsItIs'
    BY <1>0, <2>5 DEF WorkersInv, HoldsAsItIs, Listening
  <2>9. OnlyOpenHaveFds'
    BY <2>3, <2>6, Kinds DEF WorkersInv, OnlyOpenHaveFds
  <2>10. <<c, f>> \notin leaked /\ \A s \in Threads : <<c, f>> \notin client_fds[s]
    BY <1>1 DEF WorkersInv, ListedWereAccepted, Was
  <2>11. \A d \in Conns, g \in Fds, s \in Threads :
           <<d, g>> \in client_fds'[s] => <<d, g>> \in client_fds[s] \/ (d = c /\ g = f /\ s = t)
    BY <2>5
  <2>12. ListedWereAccepted'
    BY <1>0, <1>1, <2>6, <2>11 DEF WorkersInv, ListedWereAccepted, Was
  <2>13. DescriptorsApart'
    <3>1. ASSUME NEW s \in Threads, NEW g \in Fds \ {CursedFd} PROVE HeldIsOwn(s, g)'
      <4>1. HeldIsOwn(s, g)
        BY DEF WorkersInv, DescriptorsApart
      <4>2. CASE g = f
        BY <1>0, <2>3, <2>11, <4>1, <4>2 DEF HeldIsOwn
      <4>3. CASE g # f
        BY <1>0, <2>3, <2>11, <4>1, <4>3 DEF HeldIsOwn
      <4> QED
        BY <4>2, <4>3
    <3>2. /\ \A s \in Threads : client_fds'[s] \cap leaked' = {}
          /\ \A r, s \in Threads : r # s => client_fds'[r] \cap client_fds'[s] = {}
      <4>1. /\ \A s \in Threads : client_fds[s] \cap leaked = {}
            /\ \A r, s \in Threads : r # s => client_fds[r] \cap client_fds[s] = {}
        BY DEF WorkersInv, DescriptorsApart
      <4> QED
        BY <1>0, <2>5, <2>10, <4>1
    <3> QED
      BY <2>3, <3>1, <3>2 DEF DescriptorsApart
  <2>14. OnlyRestartsLeak'
    <3>1. ASSUME NEW g \in Fds, NEW s \in Threads
          PROVE  /\ file'[g] = <<"listener", s>> => listener'[s] = g
                 /\ file'[g] = <<"ring", s>> => ring'[s] = g
      BY <1>0, <2>3, Kinds DEF WorkersInv, OnlyRestartsLeak
    <3>2. ASSUME NEW g \in Fds, NEW d \in Conns, file'[g] = <<"conn", d>>
          PROVE  <<d, g>> \in leaked' \/ \E s \in Threads : <<d, g>> \in client_fds'[s]
      <4>1. CASE g = f
        BY <2>3, <2>5, <3>2, <4>1, Kinds
      <4>2. CASE g # f
        <5>1. <<d, g>> \in leaked \/ \E s \in Threads : <<d, g>> \in client_fds[s]
          BY <2>3, <3>2, <4>2 DEF WorkersInv, OnlyRestartsLeak
        <5>2. \A s \in Threads : client_fds[s] \subseteq client_fds'[s]
          BY <2>5
        <5> QED
          BY <1>0, <5>1, <5>2
      <4> QED
        BY <4>1, <4>2
    <3>3. ASSUME NEW d \in Conns, NEW g \in Fds, <<d, g>> \in leaked'
          PROVE  restarts' > 0 /\ (g # CursedFd => file'[g] = <<"conn", d>>)
      BY <1>0, <2>3, <3>3 DEF WorkersInv, OnlyRestartsLeak
    <3> QED
      BY <3>1, <3>2, <3>3 DEF OnlyRestartsLeak
  <2>15. GroupIsListening'
    <3>1. \A g \in Fds, s \in Threads : file'[g] = <<"listener", s>> => file[g] = <<"listener", s>>
      BY <2>3, Kinds
    <3> QED
      BY <1>0, <3>1 DEF WorkersInv, GroupIsListening, InGroup
  <2> QED
    BY <2>7, <2>8, <2>9, <2>12, <2>13, <2>14, <2>15 DEF WorkersInv
<1> QED
  BY <1>1, <1>2, <1>3

(* close_connection frees the number of a client and nothing else, or the  *)
(* number 0xFF: whoever holds another number keeps what it is.             *)
LEMMA CloseOnePreserves ==
  ASSUME WorkersInv, NEW t \in Threads, NEW f, Close({f}, {}), state[t] = "serve",
         alive' = alive, aborts' = aborts, conflict' = conflict, spawned' = spawned,
         state' = state, listener' = listener, ring' = ring, accepts' = accepts,
         late' \in [Threads -> Nat], group' = group, steered' = steered, at' = at,
         leaked' = leaked, exhausted' = exhausted, restarts' = restarts,
         \/ f = CursedFd /\ client_fds' = client_fds
         \/ \E c \in Conns : /\ <<c, f>> \in client_fds[t]
                             /\ client_fds' = [client_fds EXCEPT ![t] = @ \ {<<c, f>>}]
  PROVE  WorkersInv'
<1>1. /\ file' \in [Fds -> Files] /\ \A g \in Fds : g = f => file'[g] = Free
      /\ \A g \in Fds : g # f => file'[g] = file[g]
      /\ \A g \in Fds : file'[g] # Free => file'[g] = file[g]
      /\ \A g, h \in Fds : file'[g] = file'[h] /\ file'[g] # Free => g = h
      /\ stage' \in [Conns -> {"none", "waiting", "open", "closed", "lost"}]
      /\ \A c \in Conns : stage[c] \in Was => stage'[c] \in Was
      /\ OnlyOpenHaveFds'
  BY CloseFrees
<1>2. client_fds \in [Threads -> SUBSET (Conns \X Fds)]
  BY DEF WorkersInv, TypeOK
<1>3. /\ client_fds' \in [Threads -> SUBSET (Conns \X Fds)]
      /\ \A s \in Threads : client_fds'[s] \subseteq client_fds[s]
      /\ \A d \in Conns, g \in Fds, s \in Threads :
           <<d, g>> \in client_fds[s] /\ g # f => <<d, g>> \in client_fds'[s]
  <2>1. CASE f = CursedFd /\ client_fds' = client_fds
    BY <1>2, <2>1
  <2>2. ASSUME NEW c \in Conns, <<c, f>> \in client_fds[t],
               client_fds' = [client_fds EXCEPT ![t] = @ \ {<<c, f>>}]
        PROVE  /\ client_fds' \in [Threads -> SUBSET (Conns \X Fds)]
               /\ \A s \in Threads : client_fds'[s] \subseteq client_fds[s]
               /\ \A d \in Conns, g \in Fds, s \in Threads :
                    <<d, g>> \in client_fds[s] /\ g # f => <<d, g>> \in client_fds'[s]
    BY <1>2, <2>2
  <2> QED
    BY <2>1, <2>2
<1>4. ASSUME NEW s \in Threads, f # CursedFd, f \in Fds
      PROVE  listener[s] # f /\ ring[s] # f /\ \A d \in Conns : <<d, f>> \notin client_fds'[s]
  <2>1. PICK c \in Conns : /\ <<c, f>> \in client_fds[t]
                           /\ client_fds' = [client_fds EXCEPT ![t] = @ \ {<<c, f>>}]
    BY <1>4
  <2>2. HeldIsOwn(t, f) /\ HeldIsOwn(s, f)
    BY <1>4 DEF WorkersInv, DescriptorsApart
  <2>3. file[f] = <<"conn", c>>
    BY <2>1, <2>2 DEF HeldIsOwn
  <2>4. listener[s] # f /\ ring[s] # f
    BY <2>2, <2>3, Kinds DEF HeldIsOwn
  <2>5. ASSUME NEW d \in Conns, <<d, f>> \in client_fds'[s] PROVE FALSE
    <3>1. <<d, f>> \in client_fds[s]
      BY <1>3, <2>5
    <3>2. d = c
      BY <2>2, <2>3, <3>1, Kinds DEF HeldIsOwn
    <3>3. s = t
      BY <2>1, <3>1, <3>2 DEF WorkersInv, DescriptorsApart
    <3> QED
      BY <1>2, <2>1, <2>5, <3>2, <3>3
  <2> QED
    BY <2>4, <2>5
<1>5. ASSUME f # CursedFd, f \in Fds, NEW d \in Conns PROVE <<d, f>> \notin leaked
  <2>1. PICK c \in Conns : <<c, f>> \in client_fds[t]
    BY <1>5
  <2>2. file[f] = <<"conn", c>>
    BY <1>5, <2>1 DEF WorkersInv, DescriptorsApart, HeldIsOwn
  <2>3. <<d, f>> \in leaked => d = c
    BY <1>5, <2>2, Kinds DEF WorkersInv, OnlyRestartsLeak
  <2> QED
    BY <2>1, <2>3 DEF WorkersInv, DescriptorsApart
<1>6. TypeOK'
  BY <1>1, <1>3 DEF WorkersInv, TypeOK, Files
<1>7. HoldsAsItIs'
  BY <1>3 DEF WorkersInv, HoldsAsItIs, Listening
<1>8. ListedWereAccepted'
  BY <1>1, <1>3 DEF WorkersInv, ListedWereAccepted
<1>9. DescriptorsApart'
  <2>1. ASSUME NEW s \in Threads, NEW g \in Fds \ {CursedFd} PROVE HeldIsOwn(s, g)'
    <3>1. HeldIsOwn(s, g)
      BY DEF WorkersInv, DescriptorsApart
    <3>2. CASE g = f
      BY <1>4, <3>2 DEF HeldIsOwn
    <3>3. CASE g # f
      BY <1>1, <1>3, <3>1, <3>3 DEF HeldIsOwn
    <3> QED
      BY <3>2, <3>3
  <2>2. /\ \A s \in Threads : client_fds'[s] \cap leaked' = {}
        /\ \A r, s \in Threads : r # s => client_fds'[r] \cap client_fds'[s] = {}
    BY <1>3 DEF WorkersInv, DescriptorsApart
  <2> QED
    BY <1>1, <2>1, <2>2 DEF DescriptorsApart
<1>10. OnlyRestartsLeak'
  <2>1. ASSUME NEW g \in Fds, NEW s \in Threads
        PROVE  /\ file'[g] = <<"listener", s>> => listener'[s] = g
               /\ file'[g] = <<"ring", s>> => ring'[s] = g
    <3>1. <<"listener", s>> # Free /\ <<"ring", s>> # Free
      BY Kinds
    <3>2. /\ file[g] = <<"listener", s>> => listener[s] = g
          /\ file[g] = <<"ring", s>> => ring[s] = g
      BY DEF WorkersInv, OnlyRestartsLeak
    <3>3. file'[g] # Free => file'[g] = file[g]
      BY <1>1
    <3> QED
      BY <3>1, <3>2, <3>3
  <2>2. ASSUME NEW g \in Fds, NEW d \in Conns, file'[g] = <<"conn", d>>
        PROVE  <<d, g>> \in leaked' \/ \E s \in Threads : <<d, g>> \in client_fds'[s]
    <3>1. g # f /\ file[g] = <<"conn", d>>
      BY <1>1, <2>2, Kinds
    <3>2. <<d, g>> \in leaked \/ \E s \in Threads : <<d, g>> \in client_fds[s]
      BY <3>1 DEF WorkersInv, OnlyRestartsLeak
    <3> QED
      BY <1>3, <3>1, <3>2
  <2>3. ASSUME NEW d \in Conns, NEW g \in Fds, <<d, g>> \in leaked'
        PROVE  restarts' > 0 /\ (g # CursedFd => file'[g] = <<"conn", d>>)
    <3>1. restarts > 0 /\ (g # CursedFd => file[g] = <<"conn", d>>)
      BY <2>3 DEF WorkersInv, OnlyRestartsLeak
    <3> QED
      BY <1>1, <1>5, <2>3, <3>1
  <2> QED
    BY <2>1, <2>2, <2>3 DEF OnlyRestartsLeak
<1>11. GroupIsListening'
  <2>1. \A g \in Fds, s \in Threads : file'[g] = <<"listener", s>> => file[g] = <<"listener", s>>
    BY <1>1, Kinds
  <2> QED
    BY <2>1 DEF WorkersInv, GroupIsListening, InGroup
<1> QED
  BY <1>1, <1>6, <1>7, <1>8, <1>9, <1>10, <1>11 DEF WorkersInv

(* The first and the second report of a connection's end.                  *)
LEMMA ClosePreserves ==
  ASSUME WorkersInv, NEW t \in Threads, close_connection(t) \/ close_again(t)
  PROVE  WorkersInv'
<1>0. late \in [Threads -> Nat] /\ client_fds \in [Threads -> SUBSET (Conns \X Fds)]
  BY DEF WorkersInv, TypeOK
<1>1. CASE close_connection(t)
  <2>1. PICK e \in client_fds[t] :
          Close({e[2]}, {}) /\ client_fds' = [client_fds EXCEPT ![t] = client_fds[t] \ {e}]
    BY <1>1 DEF close_connection, Removed
  <2>2. PICK c \in Conns, f \in Fds : e = <<c, f>>
    BY <1>0, <2>1
  <2>3. /\ Close({f}, {}) /\ <<c, f>> \in client_fds[t]
        /\ client_fds' = [client_fds EXCEPT ![t] = @ \ {<<c, f>>}]
    BY <1>0, <2>1, <2>2
  <2>4. late' \in [Threads -> Nat]
    BY <1>0, <1>1 DEF close_connection
  <2> QED
    BY <1>1, <2>3, <2>4, CloseOnePreserves DEF close_connection
<1>2. CASE close_again(t)
  <2>1. late' \in [Threads -> Nat]
    BY <1>0, <1>2 DEF close_again
  <2> QED
    BY <1>2, <2>1, CloseOnePreserves DEF close_again
<1> QED
  BY <1>1, <1>2

(* A listener that nothing refers to is no descriptor's: only the group    *)
(* and the connections that waited for it change.                          *)
LEMMA GonePreserves ==
  ASSUME WorkersInv, NEW t \in Threads, ListenerGone(t)
  PROVE  WorkersInv'
<1>0. /\ alive' = alive /\ aborts' = aborts /\ conflict' = conflict /\ spawned' = spawned
      /\ state' = state /\ listener' = listener /\ ring' = ring /\ client_fds' = client_fds
      /\ accepts' = accepts /\ late' = late /\ at' = at /\ leaked' = leaked
      /\ exhausted' = exhausted /\ restarts' = restarts
      /\ Close({}, {t}) /\ Leave(t) /\ \A f \in Fds : file[f] # <<"listener", t>>
  BY DEF ListenerGone, tableVars
<1>1. /\ file' \in [Fds -> Files] /\ \A f \in Fds : file'[f] = file[f]
      /\ stage' \in [Conns -> {"none", "waiting", "open", "closed", "lost"}]
      /\ \A c \in Conns : stage[c] \in Was => stage'[c] \in Was
      /\ OnlyOpenHaveFds'
  BY <1>0, CloseFrees
<1>2. /\ group' \in Seq(Threads) /\ steered' \in BOOLEAN
      /\ \A m, n \in DOMAIN group' : group'[m] = group'[n] => m = n
      /\ \A s \in Threads : InGroup(s)' <=> s # t /\ InGroup(s)
  BY <1>0, LeaveStep
<1>3. TypeOK'
  BY <1>0, <1>1, <1>2 DEF WorkersInv, TypeOK, Files
<1>4. HoldsAsItIs'
  BY <1>0 DEF WorkersInv, HoldsAsItIs, Listening
<1>5. ListedWereAccepted'
  BY <1>0, <1>1 DEF WorkersInv, ListedWereAccepted
<1>6. DescriptorsApart'
  BY <1>0, <1>1 DEF WorkersInv, DescriptorsApart, HeldIsOwn
<1>7. OnlyRestartsLeak'
  BY <1>0, <1>1 DEF WorkersInv, OnlyRestartsLeak
<1>8. GroupIsListening'
  BY <1>0, <1>1, <1>2 DEF WorkersInv, GroupIsListening
<1> QED
  BY <1>1, <1>3, <1>4, <1>5, <1>6, <1>7, <1>8 DEF WorkersInv

(* An instance ends and its descriptors go, but for its clients, which     *)
(* nobody holds from then on.                                              *)
LEMMA EndPreserves ==
  ASSUME WorkersInv, NEW t \in Threads, state[t] \in {"build", "serve"}, EndInstance(t),
         NEW next \in {"loop", "dead"}, state' = [state EXCEPT ![t] = next],
         alive' \in BOOLEAN, exhausted' \in BOOLEAN, restarts' \in 0 .. MaxRestarts,
         restarts' >= restarts, client_fds[t] # {} => restarts' > 0
  PROVE  WorkersInv'
<1>0. /\ aborts' = aborts /\ conflict' = conflict /\ spawned' = spawned /\ at' = at
      /\ leaked' = leaked \cup client_fds[t] /\ Leave(t) /\ Close({listener[t], ring[t]}, {t})
      /\ listener' = [listener EXCEPT ![t] = NoFd] /\ ring' = [ring EXCEPT ![t] = NoFd]
      /\ client_fds' = [client_fds EXCEPT ![t] = {}] /\ accepts' = [accepts EXCEPT ![t] = 0]
      /\ late' = [late EXCEPT ![t] = 0]
  BY DEF EndInstance, Dropped
<1>1. /\ state \in [Threads -> {"none", "loop", "build", "serve", "dead"}]
      /\ listener \in [Threads -> Fds \cup {NoFd}] /\ ring \in [Threads -> Fds \cup {NoFd}]
      /\ client_fds \in [Threads -> SUBSET (Conns \X Fds)]
      /\ accepts \in [Threads -> 0 .. AcceptMulti] /\ late \in [Threads -> Nat]
      /\ leaked \subseteq Conns \X Fds /\ restarts \in 0 .. MaxRestarts
  BY DEF WorkersInv, TypeOK
<1>2. /\ listener'[t] = NoFd /\ \A s \in Threads \ {t} : listener'[s] = listener[s]
      /\ listener' \in [Threads -> Fds \cup {NoFd}]
      /\ ring'[t] = NoFd /\ \A s \in Threads \ {t} : ring'[s] = ring[s]
      /\ ring' \in [Threads -> Fds \cup {NoFd}]
  BY <1>0, <1>1
<1>3. /\ client_fds'[t] = {} /\ \A s \in Threads \ {t} : client_fds'[s] = client_fds[s]
      /\ client_fds' \in [Threads -> SUBSET (Conns \X Fds)]
  BY <1>0, <1>1
<1>4. /\ state'[t] \in {"loop", "dead"} /\ \A s \in Threads \ {t} : state'[s] = state[s]
      /\ state' \in [Threads -> {"none", "loop", "build", "serve", "dead"}]
  BY <1>1
<1>5. accepts' \in [Threads -> 0 .. AcceptMulti] /\ late' \in [Threads -> Nat]
  BY <1>0, <1>1, WorkersAssumption
<1>6. /\ file' \in [Fds -> Files]
      /\ \A f \in Fds : f \in {listener[t], ring[t]} => file'[f] = Free
      /\ \A f \in Fds : f \notin {listener[t], ring[t]} => file'[f] = file[f]
      /\ \A f \in Fds : file'[f] # Free => file'[f] = file[f]
      /\ \A f, g \in Fds : file'[f] = file'[g] /\ file'[f] # Free => f = g
      /\ stage' \in [Conns -> {"none", "waiting", "open", "closed", "lost"}]
      /\ \A c \in Conns : stage[c] \in Was => stage'[c] \in Was
      /\ OnlyOpenHaveFds'
  BY <1>0, CloseFrees
<1>7. /\ group' \in Seq(Threads) /\ steered' \in BOOLEAN
      /\ \A m, n \in DOMAIN group' : group'[m] = group'[n] => m = n
      /\ \A s \in Threads : InGroup(s)' <=> s # t /\ InGroup(s)
  BY <1>0, LeaveStep
<1>8. ASSUME NEW f \in Fds, f # CursedFd, f \in {listener[t], ring[t]}
      PROVE  file[f] = <<"listener", t>> \/ file[f] = <<"ring", t>>
  <2>1. HeldIsOwn(t, f)
    BY <1>8 DEF WorkersInv, DescriptorsApart
  <2> QED
    BY <1>8, <2>1 DEF HeldIsOwn
<1>9. TypeOK'
  <2>1. leaked' \subseteq Conns \X Fds
    BY <1>0, <1>1
  <2> QED
    BY <1>0, <1>2, <1>3, <1>4, <1>5, <1>6, <1>7, <2>1 DEF WorkersInv, TypeOK, Files
<1>10. HoldsAsItIs'
  <2>1. ~(t >= spawned)
    BY DEF WorkersInv, HoldsAsItIs
  <2> QED
    BY <1>0, <1>2, <1>3, <1>4, <2>1 DEF WorkersInv, HoldsAsItIs, Listening
<1>11. ListedWereAccepted'
  <2>1. \A s \in Threads : client_fds'[s] \subseteq client_fds[s]
    BY <1>3
  <2> QED
    BY <1>0, <1>6, <2>1 DEF WorkersInv, ListedWereAccepted
<1>12. DescriptorsApart'
  <2>1. ASSUME NEW s \in Threads, NEW f \in Fds \ {CursedFd} PROVE HeldIsOwn(s, f)'
    <3>1. CASE s = t
      BY <1>2, <1>3, <3>1, Numbers DEF HeldIsOwn
    <3>2. CASE s # t
      <4>1. /\ HeldIsOwn(s, f) /\ listener'[s] = listener[s] /\ ring'[s] = ring[s]
            /\ client_fds'[s] = client_fds[s]
        BY <1>2, <1>3, <3>2 DEF WorkersInv, DescriptorsApart
      <4>2. CASE f \in {listener[t], ring[t]}
        <5>1. listener[s] # f /\ ring[s] # f /\ \A c \in Conns : <<c, f>> \notin client_fds[s]
          BY <1>8, <3>2, <4>1, <4>2, Kinds DEF HeldIsOwn
        <5> QED
          BY <4>1, <5>1 DEF HeldIsOwn
      <4>3. CASE f \notin {listener[t], ring[t]}
        BY <1>6, <4>1, <4>3 DEF HeldIsOwn
      <4> QED
        BY <4>2, <4>3
    <3> QED
      BY <3>1, <3>2
  <2>2. /\ \A s \in Threads : client_fds'[s] \cap leaked' = {}
        /\ \A r, s \in Threads : r # s => client_fds'[r] \cap client_fds'[s] = {}
    <3>1. /\ \A s \in Threads : client_fds[s] \cap leaked = {}
          /\ \A r, s \in Threads : r # s => client_fds[r] \cap client_fds[s] = {}
      BY DEF WorkersInv, DescriptorsApart
    <3> QED
      BY <1>0, <1>3, <3>1
  <2> QED
    BY <1>6, <2>1, <2>2 DEF DescriptorsApart
<1>13. OnlyRestartsLeak'
  <2>1. ASSUME NEW f \in Fds, NEW s \in Threads
        PROVE  /\ file'[f] = <<"listener", s>> => listener'[s] = f
               /\ file'[f] = <<"ring", s>> => ring'[s] = f
    <3>0. /\ <<"listener", s>> # Free /\ <<"ring", s>> # Free
          /\ file'[f] # Free => file'[f] = file[f]
          /\ file[f] = <<"listener", s>> => listener[s] = f
          /\ file[f] = <<"ring", s>> => ring[s] = f
      BY <1>6, Kinds DEF WorkersInv, OnlyRestartsLeak
    <3>1. CASE s = t
      <4>1. f = listener[t] \/ f = ring[t] => file'[f] = Free
        BY <1>6
      <4> QED
        BY <3>0, <3>1, <4>1
    <3>2. CASE s # t
      BY <1>2, <3>0, <3>2
    <3> QED
      BY <3>1, <3>2
  <2>2. ASSUME NEW f \in Fds, NEW c \in Conns, file'[f] = <<"conn", c>>
        PROVE  <<c, f>> \in leaked' \/ \E s \in Threads : <<c, f>> \in client_fds'[s]
    <3>1. file[f] = <<"conn", c>>
      BY <1>6, <2>2, Kinds
    <3>2. <<c, f>> \in leaked \/ \E s \in Threads : <<c, f>> \in client_fds[s]
      BY <3>1 DEF WorkersInv, OnlyRestartsLeak
    <3> QED
      BY <1>0, <1>3, <3>2
  <2>3. ASSUME NEW c \in Conns, NEW f \in Fds, <<c, f>> \in leaked'
        PROVE  restarts' > 0 /\ (f # CursedFd => file'[f] = <<"conn", c>>)
    <3>1. <<c, f>> \in leaked \/ <<c, f>> \in client_fds[t]
      BY <1>0, <2>3
    <3>2. restarts' > 0
      <4>1. CASE <<c, f>> \in leaked
        <5>1. restarts > 0
          BY <4>1 DEF WorkersInv, OnlyRestartsLeak
        <5> QED
          BY <1>1, <5>1
      <4>2. CASE <<c, f>> \in client_fds[t]
        BY <4>2
      <4> QED
        BY <3>1, <4>1, <4>2
    <3>3. ASSUME f # CursedFd PROVE file'[f] = <<"conn", c>>
      <4>1. file[f] = <<"conn", c>>
        BY <3>1, <3>3 DEF WorkersInv, OnlyRestartsLeak, DescriptorsApart, HeldIsOwn
      <4>2. f \notin {listener[t], ring[t]}
        BY <1>8, <3>3, <4>1, Kinds
      <4> QED
        BY <1>6, <4>1, <4>2
    <3> QED
      BY <3>2, <3>3
  <2> QED
    BY <2>1, <2>2, <2>3 DEF OnlyRestartsLeak
<1>14. GroupIsListening'
  <2>1. ASSUME NEW f \in Fds, NEW s \in Threads, file'[f] = <<"listener", s>> PROVE InGroup(s)'
    <3>1. listener'[s] = f
      BY <1>13, <2>1 DEF OnlyRestartsLeak
    <3>2. s # t
      BY <1>2, <3>1, Numbers
    <3>3. file[f] = <<"listener", s>>
      BY <1>6, <2>1, Kinds
    <3> QED
      BY <1>7, <3>2, <3>3 DEF WorkersInv, GroupIsListening
  <2>2. \A s \in Threads : InGroup(s)' => state'[s] \in {"build", "serve"}
    BY <1>4, <1>7 DEF WorkersInv, GroupIsListening
  <2> QED
    BY <1>7, <2>1, <2>2 DEF GroupIsListening
<1> QED
  BY <1>6, <1>9, <1>10, <1>11, <1>12, <1>13, <1>14 DEF WorkersInv

(* Whatever way sq_poll is left, the instance is dropped the same way.     *)
LEMMA FailurePreserves ==
  ASSUME WorkersInv, NEW t \in Threads, build_uring_fails(t) \/ sq_poll_ends(t) \/ ring_lost(t)
  PROVE  WorkersInv'
<1>0. /\ restarts \in 0 .. MaxRestarts /\ alive \in BOOLEAN /\ aborts \in BOOLEAN
      /\ exhausted \in BOOLEAN /\ MaxRestarts \in Nat \ {0}
  BY WorkersAssumption DEF WorkersInv, TypeOK
<1>1. CASE build_uring_fails(t)
  <2>1. /\ state[t] = "build" /\ EndInstance(t) /\ state' = [state EXCEPT ![t] = "loop"]
        /\ alive' = alive /\ exhausted' = TRUE /\ restarts' = restarts
    BY <1>1 DEF build_uring_fails, Return, AfterError
  <2>2. client_fds[t] = {}
    BY <2>1 DEF WorkersInv, HoldsAsItIs
  <2>3. "loop" \in {"loop", "dead"} /\ restarts' >= restarts
    BY <1>0, <2>1
  <2> QED
    BY <1>0, <2>1, <2>2, <2>3, EndPreserves
<1>2. CASE sq_poll_ends(t)
  <2>1. /\ state[t] \in {"build", "serve"} /\ EndInstance(t) /\ restarts < MaxRestarts
        /\ restarts' = restarts + 1 /\ exhausted' = exhausted
    BY <1>2 DEF sq_poll_ends
  <2>2. PICK next \in {"loop", "dead"} : state' = [state EXCEPT ![t] = next]
    BY <1>2 DEF sq_poll_ends, Return, AfterError, Panic
  <2>3. alive' \in BOOLEAN
    BY <1>0, <1>2 DEF sq_poll_ends, Return, Panic
  <2>4. restarts' \in 0 .. MaxRestarts /\ restarts' >= restarts /\ restarts' > 0
    BY <1>0, <2>1
  <2> QED
    BY <1>0, <2>1, <2>2, <2>3, <2>4, EndPreserves
<1>3. CASE ring_lost(t)
  <2>1. /\ state[t] = "serve" /\ EndInstance(t) /\ state' = [state EXCEPT ![t] = "loop"]
        /\ alive' = alive /\ exhausted' = exhausted
        /\ restarts' = IF restarts < MaxRestarts THEN restarts + 1 ELSE restarts
    BY <1>3 DEF ring_lost, Return, AfterError
  <2>2. restarts' \in 0 .. MaxRestarts /\ restarts' >= restarts /\ restarts' > 0
    BY <1>0, <2>1
  <2>3. "loop" \in {"loop", "dead"} /\ state[t] \in {"build", "serve"}
    BY <2>1
  <2> QED
    BY <1>0, <2>1, <2>2, <2>3, EndPreserves
<1> QED
  BY <1>1, <1>2, <1>3

(* The steps of the main thread and of peers leave the table alone.        *)
LEMMA OthersPreserve ==
  ASSUME WorkersInv, log_kernel_error \/ SpawnFails \/ Spawn \/ Connect \/ UNCHANGED vars
  PROVE  WorkersInv'
<1>0. TypeOK /\ \A t \in Threads : t >= spawned => state[t] = "none"
  BY DEF WorkersInv, HoldsAsItIs
<1>1. CASE log_kernel_error \/ SpawnFails
  <2>1. Die
    BY <1>1 DEF log_kernel_error, SpawnFails
  <2>2. TypeOK'
    BY <1>0, <2>1 DEF Die, tableVars, connVars, TypeOK
  <2> QED
    BY <1>0, <2>1, <2>2, TableUnchanged DEF Die, tableVars, connVars
<1>2. CASE Spawn
  <2>1. /\ spawned < workers /\ spawned' = spawned + 1 /\ aborts' = aborts /\ conflict' = conflict
        /\ listener' = listener /\ ring' = ring /\ client_fds' = client_fds /\ accepts' = accepts
        /\ late' = late /\ file' = file /\ group' = group /\ steered' = steered
        /\ stage' = stage /\ at' = at /\ leaked' = leaked /\ exhausted' = exhausted
        /\ restarts' = restarts
    BY <1>2 DEF Spawn, MoreToSpawn, tableVars, connVars
  <2>2. PICK next \in {"loop", "dead"} : state' = [state EXCEPT ![spawned] = next]
    BY <1>2 DEF Spawn, Panic
  <2>3. alive' \in BOOLEAN
    BY <1>0, <1>2 DEF Spawn, Panic, TypeOK
  <2>4. spawned \in Threads /\ spawned \in Nat /\ workers \in Nat
    BY <1>0, <2>1, ThreadNumbers DEF TypeOK
  <2>5. /\ state' \in [Threads -> {"none", "loop", "build", "serve", "dead"}]
        /\ state'[spawned] \in {"loop", "dead"} /\ state[spawned] = "none"
        /\ \A t \in Threads \ {spawned} : state'[t] = state[t]
    BY <1>0, <2>2, <2>4 DEF TypeOK
  <2>6. spawned' \in 0 .. workers
    BY <2>1, <2>4
  <2>7. TypeOK'
    BY <1>0, <2>1, <2>3, <2>5, <2>6 DEF TypeOK
  <2>8. ASSUME NEW t \in Threads, t >= spawned' PROVE state'[t] = "none"
    <3>1. t # spawned /\ t >= spawned
      BY <2>1, <2>4, <2>8, ThreadNumbers
    <3> QED
      BY <1>0, <2>5, <3>1
  <2>9. \A t \in Threads : /\ state'[t] \in {"build", "serve"} <=> state[t] \in {"build", "serve"}
                           /\ state'[t] = "serve" <=> state[t] = "serve"
    BY <2>5
  <2> QED
    BY <2>1, <2>7, <2>8, <2>9, TableUnchanged
<1>3. CASE Connect
  <2>1. /\ alive' = alive /\ aborts' = aborts /\ conflict' = conflict /\ spawned' = spawned
        /\ state' = state /\ listener' = listener /\ ring' = ring /\ client_fds' = client_fds
        /\ accepts' = accepts /\ late' = late /\ file' = file /\ group' = group
        /\ steered' = steered
        /\ leaked' = leaked /\ exhausted' = exhausted /\ restarts' = restarts
    BY <1>3 DEF Connect, tableVars
  <2>2. PICK c \in Conns, cpu \in 0 .. NumCpus - 1 :
          stage[c] = "none" /\ \E t \in Chosen(cpu) :
            stage' = [stage EXCEPT ![c] = "waiting"] /\ at' = [at EXCEPT ![c] = t]
    BY <1>3 DEF Connect
  <2>3. PICK t \in Chosen(cpu) :
          stage' = [stage EXCEPT ![c] = "waiting"] /\ at' = [at EXCEPT ![c] = t]
    BY <2>2
  <2>4. t \in Threads
    <3>1. group \in Seq(Threads)
      BY <1>0 DEF TypeOK
    <3>2. CASE steered /\ cpu < Len(group)
      <4>1. cpu + 1 \in 1 .. Len(group)
        BY <2>2, <3>1, <3>2, WorkersAssumption
      <4> QED
        BY <2>3, <3>1, <3>2, <4>1 DEF Chosen
    <3>3. CASE ~(steered /\ cpu < Len(group))
      BY <2>3, <3>1, <3>3 DEF Chosen
    <3> QED
      BY <3>2, <3>3
  <2>5. /\ stage' \in [Conns -> {"none", "waiting", "open", "closed", "lost"}]
        /\ at' \in [Conns -> Threads \cup {NoThread}]
        /\ \A d \in Conns : stage[d] \in Was => stage'[d] = stage[d]
    BY <1>0, <2>2, <2>3, <2>4 DEF TypeOK, Was
  <2>6. TypeOK'
    BY <1>0, <2>1, <2>5 DEF TypeOK
  <2> QED
    BY <1>0, <2>1, <2>5, <2>6, TableUnchanged
<1>4. CASE UNCHANGED vars
  <2>1. TypeOK'
    BY <1>0, <1>4 DEF vars, tableVars, connVars, TypeOK
  <2> QED
    BY <1>0, <1>4, <2>1, TableUnchanged DEF vars, tableVars, connVars
<1> QED
  BY <1>1, <1>2, <1>3, <1>4

(* Before run has started a thread nothing is open.                        *)
LEMMA WorkersInit == Init => WorkersInv
<1> SUFFICES ASSUME Init PROVE WorkersInv
  OBVIOUS
<1>1. TypeOK
  <2>1. {alive, aborts, conflict, steered, exhausted} \subseteq BOOLEAN
    BY DEF Init
  <2>2. spawned \in 0 .. workers /\ restarts \in 0 .. MaxRestarts /\ late \in [Threads -> Nat]
    BY WorkersAssumption, ThreadNumbers DEF Init
  <2>3. accepts \in [Threads -> 0 .. AcceptMulti]
    BY WorkersAssumption DEF Init
  <2>4. file \in [Fds -> Files]
    BY FileKinds DEF Init
  <2>5. /\ state \in [Threads -> {"none", "loop", "build", "serve", "dead"}]
        /\ listener \in [Threads -> Fds \cup {NoFd}] /\ ring \in [Threads -> Fds \cup {NoFd}]
        /\ client_fds \in [Threads -> SUBSET (Conns \X Fds)] /\ group \in Seq(Threads)
        /\ stage \in [Conns -> {"none", "waiting", "open", "closed", "lost"}]
        /\ at \in [Conns -> Threads \cup {NoThread}] /\ leaked \subseteq Conns \X Fds
    BY DEF Init
  <2> QED
    BY <2>1, <2>2, <2>3, <2>4, <2>5 DEF TypeOK, Files
<1>2. HoldsAsItIs /\ OnlyOpenHaveFds /\ ListedWereAccepted
  BY Kinds DEF Init, HoldsAsItIs, Listening, OnlyOpenHaveFds, ListedWereAccepted
<1>3. DescriptorsApart /\ OnlyRestartsLeak
  BY Kinds, Numbers DEF Init, DescriptorsApart, HeldIsOwn, OnlyRestartsLeak
<1>4. GroupIsListening
  BY Kinds DEF Init, GroupIsListening, InGroup
<1> QED
  BY <1>1, <1>2, <1>3, <1>4 DEF WorkersInv

(* Every step of the process preserves the invariant.                      *)
LEMMA WorkersStep == WorkersInv /\ [Next]_vars => WorkersInv'
<1> SUFFICES ASSUME WorkersInv, [Next]_vars PROVE WorkersInv'
  OBVIOUS
<1>1. ASSUME NEW t \in Threads,
             \/ Thread(t) \/ sq_poll_ends(t) \/ ring_lost(t) \/ ListenerGone(t)
             \/ close_connection(t) \/ close_again(t)
      PROVE  WorkersInv'
  BY <1>1, ListenPreserves, ServePreserves, AcceptPreserves, ClosePreserves, GonePreserves,
     FailurePreserves DEF Thread
<1>2. CASE log_kernel_error \/ SpawnFails \/ Spawn \/ Connect \/ UNCHANGED vars
  BY <1>2, OthersPreserve
<1> QED
  BY <1>1, <1>2 DEF Next, Over

-----------------------------------------------------------------------------
(* The whole of it is an invariant of the process.                         *)
THEOREM WorkersInvariant == Spec => []WorkersInv
BY WorkersInit, WorkersStep, PTL DEF Spec

(* Server::run: the tables of the workers keep their types.                *)
THEOREM WorkersTyped == Spec => []TypeOK
<1>1. WorkersInv => TypeOK
  BY DEF WorkersInv
<1> QED
  BY <1>1, WorkersInvariant, PTL

(* accept, close and restart: whatever order any number of workers open,   *)
(* close and lose descriptors of the one table of the process in, each     *)
(* number but 0xFF that a worker holds is open, its own, and held by no    *)
(* other, although close_connection may close 0xFF at any time.            *)
THEOREM WorkersKeepApart == Spec => []DescriptorsApart
<1>1. WorkersInv => DescriptorsApart
  BY DEF WorkersInv
<1> QED
  BY <1>1, WorkersInvariant, PTL

(* The drop of a Server that sq_poll has left: it closes all but client    *)
(* descriptors, and no other step of the process loses one, not even when  *)
(* 0xFF is closed and opened again behind its holder's back.               *)
THEOREM OnlyRestartsEverLeak == Spec => []OnlyRestartsLeak
<1>1. WorkersInv => OnlyRestartsLeak
  BY DEF WorkersInv
<1> QED
  BY <1>1, WorkersInvariant, PTL

(* build_listener and its drop: through every order of starts and failures *)
(* the reuseport group has every open listener, each once, and none of a   *)
(* worker that is gone.                                                    *)
THEOREM GroupIsAlwaysListening == Spec => []GroupIsListening
<1>1. WorkersInv => GroupIsListening
  BY DEF WorkersInv
<1> QED
  BY <1>1, WorkersInvariant, PTL
=============================================================================
