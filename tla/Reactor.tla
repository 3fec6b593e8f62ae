------------------------------ MODULE Reactor ------------------------------
(***************************************************************************)
(* One Tachyon worker: the io_uring reactor of server.rs (sq_poll and all  *)
(* that it calls), run against the environment of module Kernel.           *)
(*                                                                         *)
(* The worker is one thread. Its control state is pc; every io_uring_enter *)
(* (submit, submit_and_wait) is the pair of states "enter" (nothing        *)
(* consumed yet) and "inside" (the kernel is executing submissions), with  *)
(* `then' the place where the call returns to. All other handlers run      *)
(* between two system calls and are single steps; the kernel and the peers *)
(* interleave with them freely.                                            *)
(***************************************************************************)
EXTENDS Kernel

CONSTANTS
  UringSize,      \* set_uring_size (main.rs: 4096)
  SqMargin,       \* the 4 of sq.capacity() - 4
  AcceptMulti,    \* DEFAULT_ACCEPT_MULTIPLICATOR (16)
  ReservedIds,    \* reserve_writes_buffer(100)
  ReservedFd,     \* the 0xFFFF the reserved ids map to
  CursedFd,       \* the 0xFF of close_connection
  ub_kernel_dma,  \* --ubdma
  MaxRestarts     \* bound: io_uring calls that fail

ASSUME ReactorAssumption ==
  /\ UringSize \in Nat /\ BUFFERS_COUNT + AcceptMulti <= UringSize
  /\ SqMargin \in Nat
  /\ AcceptMulti \in Nat
  /\ ReservedIds \in Nat \ {0} /\ ReservedIds <= OutCap
  /\ ReservedFd \in Nat \ Fds
  /\ CursedFd \in Nat \ {0}
  /\ ub_kernel_dma \in BOOLEAN
  /\ MaxRestarts \in Nat

Part == (2 * BUFFERS_COUNT) \div 3      \* (BUFFERS_COUNT as f64 / 1.5) as usize

VARIABLES
  pc,                \* where the worker is
  then,              \* where the current io_uring_enter returns to
  back,              \* where the current release_buffers returns to
  client_fds,        \* id -> descriptor; NoFd where the slot is empty
  next_id,           \* the id that the next client_fds.push gets
  out,               \* ids whose client_out_buffers slot is occupied
  lakes,             \* the memory of the output slots and their pos
  released_buffers,  \* buffers to hand back to the kernel
  sync_now,
  rps, rpsNow,       \* are rps and _rps non-zero?
  kbuf,              \* CURRENT_KERNEL_BUF, NoBuf when null
  restarts           \* failed enters so far

tableVars  == <<client_fds, next_id, out>>
rateVars   == <<rps, rpsNow>>
serverVars == <<pc, then, back, tableVars, lakes, released_buffers, sync_now,
                rateVars, kbuf, restarts>>
vars == <<serverVars, kernelVars>>

(* A response buffer (SmallLake). A write past the end clobbers memory     *)
(* that is not modelled, and leaves pos beyond the capacity. A slip: pos   *)
(* stays where it was.                                                     *)
Lakes == [mem : [1 .. LakeCap -> Memory], pos : Nat]
EmptyLake == [mem |-> [i \in 1 .. LakeCap |-> NoUnit], pos |-> 0]
PosNotAdvanced(lake, u) ==
  IF lake.pos < LakeCap THEN [lake EXCEPT !.mem[lake.pos + 1] = u] ELSE lake
LakeWrite(lake, u) ==
  [mem |-> IF lake.pos < LakeCap THEN [lake.mem EXCEPT ![lake.pos + 1] = u] ELSE lake.mem,
   pos |-> lake.pos + 1]

(* Server::new begins with sync_now: true. A slip: it begins with false.   *)
NoInitialSync == FALSE
InitialSync == TRUE

(* Server::new                                                             *)
ServerInit ==
  /\ pc = "boot" /\ then = "arm" /\ back = "top"
  /\ client_fds = [i \in Ids |-> NoFd] /\ next_id = 0
  /\ out = {}
  /\ lakes = [i \in Ids |-> EmptyLake]
  /\ released_buffers = <<>>
  /\ sync_now = InitialSync
  /\ rps = FALSE /\ rpsNow = FALSE
  /\ kbuf = NoBuf
  /\ restarts = 0

Init == ServerInit /\ KernelInit

-----------------------------------------------------------------------------
(* The submission queue, as the worker sees it.                            *)

HasRoom(n) == SqLen + n <= UringSize        \* push, push_multiple succeed

(* A slip: the new tail is published, the head not read.                   *)
PushAndPublish(es) ==
  /\ sqShared' = sqShared \o sqLocal \o es
  /\ sqLocal' = <<>>
  /\ UNCHANGED sqStale

(* Push es, then sq.sync(): publish all that was pushed and read how far   *)
(* the kernel has come.                                                    *)
PushAndSync(es) ==
  /\ sqShared' = sqShared \o sqLocal \o es
  /\ sqLocal' = <<>>
  /\ sqStale' = 0

(* submit, submit_and_wait: the call itself takes the steps further down.  *)
Submit(return) == pc' = "enter" /\ then' = return

(* The entries of kernel_cmds.rs that the server uses. A slip: the receive *)
(* of a new client is left out.                                            *)
provide_buffer(b) == Sqe("provide", NoId, NoFd, b)
accept_multi == Sqe("accept", NoId, NoFd, NoBuf)
NoRecv(id, fd) == <<>>
recv_multi(id, fd) == <<Sqe("recv", id, fd, NoBuf)>>
poll_add(id, fd) == <<Sqe("poll", id, fd, NoBuf)>>
send(id, fd, len) == Sqe("send", id, fd, len)

Provides(bs) == [i \in 1 .. Len(bs) |-> provide_buffer(bs[i])]

-----------------------------------------------------------------------------
(* Start of sq_poll                                                        *)

register_buffers ==
  /\ pc = "boot"
  /\ PushAndSync(Provides([i \in 1 .. BUFFERS_COUNT |-> i - 1]))
  /\ Submit("arm")
  /\ UNCHANGED <<cqLocal, cqShared, bufVars, sockVars, back, tableVars, lakes,
                 released_buffers, sync_now, rateVars, kbuf, restarts>>

(* The accepts are pushed and not synced: this submit has nothing to hand  *)
(* over.                                                                   *)
start_accepts ==
  /\ pc = "arm"
  /\ sqLocal' = sqLocal \o [i \in 1 .. AcceptMulti |-> accept_multi]
  /\ Submit("reserve")
  /\ UNCHANGED <<sqShared, sqStale, cqLocal, cqShared, bufVars, sockVars, back, tableVars,
                 lakes, released_buffers, sync_now, rateVars, kbuf, restarts>>

reserve_writes_buffer ==
  /\ pc = "reserve"
  /\ client_fds' = [i \in Ids |-> IF i < ReservedIds THEN ReservedFd ELSE client_fds[i]]
  /\ next_id' = ReservedIds
  /\ pc' = "top"
  /\ UNCHANGED <<kernelVars, then, back, out, lakes, released_buffers, sync_now,
                 rateVars, kbuf, restarts>>

-----------------------------------------------------------------------------
(* The top of the loop: wideband_send, sq.sync, cq.sync, then the choice   *)
(* between blocking, submitting and neither.                               *)

Pending == {i \in out : lakes[i].pos # 0}          \* data_lake.len() != 0
Sendable == {i \in Pending : client_fds[i] # NoFd}
Overrun == \E i \in Sendable : lakes[i].pos > LakeCap

(* The slots in the order of their ids, which is the order of iter_mut().  *)
InIdOrder(S) ==
  {s \in [1 .. Cardinality(S) -> S] : \A i, j \in DOMAIN s : i < j => s[i] < s[j]}

SendEntry(i) == send(i, client_fds[i], lakes[i].pos)

(* data_lake.reset_pos() of every slot sent. A slip: it is forgotten.      *)
LakesNotReset == lakes
LakesFlushed == [i \in Ids |-> IF i \in Sendable THEN [lakes[i] EXCEPT !.pos = 0] ELSE lakes[i]]

(* &data_lake.buf[..pos] and push_multiple(..).unwrap() panic: the thread  *)
(* is gone.                                                                *)
wideband_send_panics ==
  /\ pc = "top" /\ CqIsEmpty
  /\ Overrun \/ ~HasRoom(Cardinality(Sendable))
  /\ pc' = "aborted"
  /\ UNCHANGED <<kernelVars, then, back, tableVars, lakes, released_buffers, sync_now,
                 rateVars, kbuf, restarts>>

(* wideband_send then the sync of the loop: es are the send entries. With  *)
(* no output slot at all wideband_send leaves sync_now as it was.          *)
FlushNow == sync_now \/ out # {}
Flush(es) ==
  /\ IF FlushNow
     THEN PushAndSync(es)
     ELSE UNCHANGED <<sqLocal, sqShared, sqStale>>
  /\ lakes' = LakesFlushed
  /\ sync_now' = FALSE

(* The per-second update of the rates, at any moment.                      *)
Tick == \/ rps' = rpsNow /\ rpsNow' = FALSE
        \/ UNCHANGED rateVars

NearlyFull == SqLen >= UringSize - SqMargin         \* sq.len() >= sq.capacity() - 4

LoopTop ==
  /\ pc = "top" /\ CqIsEmpty
  /\ ~Overrun /\ HasRoom(Cardinality(Sendable))
  /\ Tick
  /\ \E ids \in InIdOrder(Sendable) : Flush([i \in DOMAIN ids |-> SendEntry(ids[i])])
  /\ cqLocal' = cqShared /\ cqShared' = <<>>
  /\ \/ cqShared = <<>> /\ Submit("wait")
     \/ cqShared # <<>> /\ NearlyFull' /\ Submit("drain")
     \/ cqShared # <<>> /\ ~NearlyFull' /\ pc' = "drain" /\ UNCHANGED then
  /\ UNCHANGED <<bufVars, sockVars, back, tableVars, released_buffers, kbuf, restarts>>

-----------------------------------------------------------------------------
(* io_uring_enter                                                          *)

(* The kernel executes the published submissions in order.                 *)
Execute ==
  /\ pc \in {"enter", "inside"} /\ sqShared # <<>>
  /\ pc' = "inside"
  /\ ExecProvide \/ ExecAccept \/ ExecArm \/ ExecSend(lakes)
  /\ UNCHANGED <<then, back, tableVars, lakes, released_buffers, sync_now, rateVars,
                 kbuf, restarts>>

(* submit_and_wait(1) sleeps until there is a completion. The waits of     *)
(* register_buffers and release_buffers are for the provides they submit,  *)
(* which complete while they are executed.                                 *)
Return ==
  /\ pc \in {"enter", "inside"} /\ sqShared = <<>>
  /\ then = "wait" => cqShared # <<>>
  /\ pc' = IF then = "wait" THEN "drain" ELSE then
  /\ UNCHANGED <<kernelVars, then, back, tableVars, lakes, released_buffers, sync_now,
                 rateVars, kbuf, restarts>>

(* An enter that consumed nothing fails (EINTR, EBUSY, EAGAIN), or         *)
(* register_files does, after reserve_writes_buffer, whose table goes with *)
(* the instance; every `?' hands the error up to run.                      *)
EnterFails ==
  /\ pc \in {"enter", "reserve"} /\ restarts < MaxRestarts
  /\ restarts' = restarts + 1
  /\ pc' = "failed"
  /\ UNCHANGED <<kernelVars, then, back, tableVars, lakes, released_buffers, sync_now,
                 rateVars, kbuf>>

(* The loop of run: a fresh clone of the configured Server and a new       *)
(* listener. The thread-local CURRENT_KERNEL_BUF survives; the clone takes *)
(* the stack slot of its predecessor, so it points to a zeroed buffer.     *)
Restart ==
  /\ pc = "failed"
  /\ pc' = "boot" /\ then' = "arm" /\ back' = "top"
  /\ client_fds' = [i \in Ids |-> NoFd] /\ next_id' = 0
  /\ out' = {}
  /\ lakes' = [i \in Ids |-> EmptyLake]
  /\ released_buffers' = <<>>
  /\ sync_now' = InitialSync
  /\ rps' = FALSE /\ rpsNow' = FALSE
  /\ UNCHANGED <<kbuf, restarts>>
  /\ KernelReset

-----------------------------------------------------------------------------
(* release_buffers. It begins by submitting what was published, then       *)
(* pushes the provides (retrying until there is room), syncs, submits and  *)
(* waits, and only then forgets the list.                                  *)

release_buffers(released, return) ==
  IF released = <<>>
  THEN pc' = return /\ UNCHANGED <<then, back>>
  ELSE Submit("relPush") /\ back' = return

(* The retry loop reads no kernel state: while there is no room it spins.  *)
release_push ==
  /\ pc = "relPush" /\ HasRoom(Len(released_buffers))
  /\ PushAndSync(Provides(released_buffers))
  /\ Submit("relClear")
  /\ UNCHANGED <<cqLocal, cqShared, bufVars, sockVars, back, tableVars, lakes,
                 released_buffers, sync_now, rateVars, kbuf, restarts>>

(* released_buffers.clear(). A slip: it is forgotten.                      *)
NotCleared == released_buffers
Cleared == <<>>

release_clear ==
  /\ pc = "relClear"
  /\ released_buffers' = Cleared
  /\ pc' = back
  /\ UNCHANGED <<kernelVars, then, back, tableVars, lakes, sync_now, rateVars, kbuf, restarts>>

-----------------------------------------------------------------------------
(* process_entry: one completion of the batch that the worker can see.     *)

Entry == Head(cqLocal)
Next_cqe == pc = "drain" /\ cqLocal # <<>> /\ cqLocal' = Tail(cqLocal)

(* Completions that are only logged or dropped: a registered buffer, a     *)
(* failed accept, EAGAIN, EBADF, EPIPE (-32), any other error.             *)
Ignored(e) ==
  \/ e.op = "provide"
  \/ e.op = "accept" /\ e.res # "ok"
  \/ e.res \in {"EAGAIN", "EBADF", "EPIPE", "ETIMEDOUT"}

process_ignored ==
  /\ Next_cqe /\ Ignored(Entry)
  /\ UNCHANGED <<sqLocal, sqShared, sqStale, cqShared, bufVars, sockVars, serverVars>>

(* client_fds.push and client_out_buffers.insert for a new client; the     *)
(* second has a fixed capacity and panics beyond it. Slips: no check of    *)
(* the capacity; the id of a client that left is used again.               *)
NoRoomCheck == TRUE
RoomForClient == next_id < OutCap

LowestFreeId ==
  CHOOSE i \in ReservedIds .. next_id :
    /\ i = next_id \/ client_fds[i] = NoFd
    /\ \A j \in ReservedIds .. i - 1 : client_fds[j] # NoFd
PushIndex == next_id

accept_panics ==
  /\ Next_cqe /\ Entry.op = "accept" /\ Entry.res = "ok"
  /\ ~RoomForClient
  /\ pc' = "aborted"
  /\ UNCHANGED <<sqLocal, sqShared, sqStale, cqShared, bufVars, sockVars, then, back,
                 tableVars, lakes, released_buffers, sync_now, rateVars, kbuf, restarts>>

(* The poll (ubdma only) is pushed and synced, the recv only pushed: the   *)
(* loop syncs it because of sync_now. A push that finds the queue full is  *)
(* silently dropped.                                                       *)
process_entry_accept ==
  LET fd == Entry.arg
      id == PushIndex
  IN
  /\ Next_cqe /\ Entry.op = "accept" /\ Entry.res = "ok"
  /\ RoomForClient
  /\ client_fds' = [client_fds EXCEPT ![id] = fd]
  /\ next_id' = next_id + 1
  /\ out' = out \cup {id}
  /\ lakes' = [lakes EXCEPT ![id] = EmptyLake]
  /\ IF ub_kernel_dma
     THEN LET polled == IF HasRoom(1) THEN poll_add(id, fd) ELSE <<>>
              shared == sqShared \o sqLocal \o polled
          IN /\ sqShared' = shared
             /\ sqStale' = 0
             /\ sqLocal' = IF Len(shared) < UringSize THEN recv_multi(id, fd) ELSE <<>>
     ELSE /\ sqLocal' = IF HasRoom(1) THEN sqLocal \o recv_multi(id, fd) ELSE sqLocal
          /\ UNCHANGED <<sqShared, sqStale>>
  /\ sync_now' = TRUE
  /\ UNCHANGED <<cqShared, bufVars, sockVars, pc, then, back, released_buffers, rateVars,
                 kbuf, restarts>>

(* ENOBUFS: buffers are returned; the recv that ended is not armed again.  *)
process_no_buffers ==
  /\ Next_cqe /\ Entry.res = "ENOBUFS"
  /\ release_buffers(released_buffers, "drain")
  /\ UNCHANGED <<sqLocal, sqShared, sqStale, cqShared, bufVars, sockVars, tableVars, lakes,
                 released_buffers, sync_now, rateVars, kbuf, restarts>>

(* A zero result that is not a send's, or ECONNRESET.                      *)
Closes(e) == (e.res = "eof" /\ e.op # "send") \/ e.res = "ECONNRESET"

(* client_out_buffers.remove. A slip: the slot stays.                      *)
SlotStays(id) == out
SlotRemoved(id) == out \ {id}

(* close_connection(.., force = true); an unknown client closes 0xFF.      *)
close_connection ==
  LET id == Entry.id
      cfd == IF client_fds[id] # NoFd THEN client_fds[id] ELSE CursedFd
  IN
  /\ Next_cqe /\ Closes(Entry)
  /\ client_fds' = [client_fds EXCEPT ![id] = NoFd]
  /\ out' = SlotRemoved(id)
  /\ CloseFd(cfd)
  /\ UNCHANGED <<sqLocal, sqShared, sqStale, cqShared, bufVars, accepts, stage, peer, inbox,
                 sent, recv, poll, ready, got, pc, then, back, next_id, lakes,
                 released_buffers, sync_now, rateVars, kbuf, restarts>>

(* shift_ub_inplace: the chunk moves to the end of the buffer and the      *)
(* front is zeroed, if the last byte was zero.                             *)
Shifted(b) ==
  IF ub_kernel_dma /\ bufmem[b].tail = NoUnit
  THEN [bufmem EXCEPT ![b] = [front |-> NoUnit, tail |-> bufmem[b].front]]
  ELSE bufmem

(* A chunk arrived: its responses go to the client's output slot (without  *)
(* a check that the slot is occupied) and the buffer to released_buffers.  *)
(* The early return for more than BUFFER_SIZE bytes is left out: no buffer *)
(* is provided with more. A slip: the buffer is not listed.                *)
NotHoarded(b) == released_buffers
Hoard(b) == Append(released_buffers, b)

request_reply ==
  LET id == Entry.id
      b == Entry.arg
  IN
  /\ Next_cqe /\ Entry.op = "recv" /\ Entry.res = "ok"
  /\ kbuf' = b
  /\ lakes' = [lakes EXCEPT ![id] = LakeWrite(@, bufmem[b].front)]
  /\ rpsNow' = TRUE
  /\ sync_now' = TRUE
  /\ released_buffers' = Hoard(b)
  /\ bufmem' = Shifted(b)
  /\ IF Len(Hoard(b)) = Part
     THEN release_buffers(Hoard(b), "drain")
     ELSE UNCHANGED <<pc, then, back>>
  /\ UNCHANGED <<sqLocal, sqShared, sqStale, cqShared, pool, sockVars, tableVars, rps, restarts>>

(* What ubdma finds in the buffer that was processed last, in two places.  *)
(* A slip: it answers where the buffer holds no request too.               *)
HasRequests(b) == bufmem[b].front # NoUnit \/ bufmem[b].tail # NoUnit
WriteAlways(lake, u) == LakeWrite(lake, u)
WriteIfAny(lake, u) == IF u = NoUnit THEN lake ELSE LakeWrite(lake, u)
Replayed(lake, b) == WriteIfAny(WriteIfAny(lake, bufmem[b].front), bufmem[b].tail)

(* A poll event. Nothing happens without a buffer, with five requests or   *)
(* fewer (the model does not count them), for a client that is gone, or if *)
(* responses are already waiting; otherwise the requests of the last       *)
(* buffer are answered to this client.                                     *)
ubdma ==
  LET id == Entry.id IN
  /\ Next_cqe /\ Entry.op = "poll" /\ Entry.res = "ok"
  /\ \/ /\ ub_kernel_dma /\ kbuf # NoBuf /\ HasRequests(kbuf)
        /\ id \in out /\ lakes[id].pos = 0
        /\ lakes' = [lakes EXCEPT ![id] = Replayed(@, kbuf)]
        /\ rpsNow' = TRUE
        /\ sync_now' = TRUE
     \/ UNCHANGED <<lakes, rpsNow, sync_now>>
  /\ UNCHANGED <<sqLocal, sqShared, sqStale, cqShared, bufVars, sockVars, pc, then, back,
                 tableVars, released_buffers, rps, kbuf, restarts>>

(* The batch is done; at zero RPS the buffers are returned.                *)
EndOfBatch ==
  /\ pc = "drain" /\ cqLocal = <<>>
  /\ IF rps THEN pc' = "top" /\ UNCHANGED <<then, back>>
            ELSE release_buffers(released_buffers, "top")
  /\ UNCHANGED <<kernelVars, tableVars, lakes, released_buffers, sync_now, rateVars, kbuf,
                 restarts>>

process_entry ==
  \/ process_ignored
  \/ accept_panics \/ process_entry_accept
  \/ process_no_buffers
  \/ close_connection
  \/ request_reply
  \/ ubdma

-----------------------------------------------------------------------------
Alive == pc \notin {"failed", "aborted"}

Worker ==
  \/ register_buffers \/ start_accepts \/ reserve_writes_buffer
  \/ wideband_send_panics \/ LoopTop
  \/ Execute \/ Return
  \/ release_push \/ release_clear
  \/ process_entry \/ EndOfBatch
  \/ Restart

Environment(c) ==
  /\ Alive
  /\ KernelAccept(c) \/ KernelRecv(c) \/ KernelPoll(c)
     \/ PeerConnect(c) \/ PeerSend(c) \/ PeerLeave(c)
  /\ UNCHANGED serverVars

(* States from which nothing further happens: the worker sleeps, spins in  *)
(* release_buffers or is dead, and the peers are done.                     *)
Blocked ==
  \/ pc \in {"enter", "inside"} /\ sqShared = <<>> /\ then = "wait" /\ cqShared = <<>>
  \/ pc = "relPush" /\ ~HasRoom(Len(released_buffers))
  \/ pc = "aborted"
Rest == Blocked /\ UNCHANGED vars

Next ==
  \/ Worker
  \/ EnterFails
  \/ \E c \in Conns : Environment(c)
  \/ Rest

Spec == Init /\ [][Next]_vars

(* The worker thread always runs; the kernel delivers what it has armed.   *)
(* Nothing is assumed of the peers.                                        *)
FairSpec ==
  /\ Spec
  /\ WF_vars(Worker)
  /\ \A c \in Conns :
       /\ WF_vars(Alive /\ KernelAccept(c) /\ UNCHANGED serverVars)
       /\ WF_vars(Alive /\ KernelRecv(c) /\ UNCHANGED serverVars)
       /\ WF_vars(Alive /\ KernelPoll(c) /\ UNCHANGED serverVars)

-----------------------------------------------------------------------------
ServerTypeOK ==
  /\ pc \in {"boot", "arm", "reserve", "top", "enter", "inside", "drain",
             "relPush", "relClear", "failed", "aborted"}
  /\ then \in {"arm", "reserve", "wait", "drain", "relPush", "relClear"}
  /\ back \in {"drain", "top"}
  /\ client_fds \in [Ids -> Fds \cup {NoFd, ReservedFd}]
  /\ next_id \in 0 .. OutCap
  /\ out \subseteq Ids
  /\ lakes \in [Ids -> Lakes]
  /\ released_buffers \in Seq(Buffers)
  /\ sync_now \in BOOLEAN
  /\ rps \in BOOLEAN /\ rpsNow \in BOOLEAN
  /\ kbuf \in Buffers \cup {NoBuf}
  /\ restarts \in 0 .. MaxRestarts

(* Type correctness of the worker and of its environment: every entry of   *)
(* the rings carries what its kind of operation needs, every client id has *)
(* an output slot, every send fits its slot.                               *)
TypeOK == KernelTypeOK /\ ServerTypeOK

Queued == sqShared \o sqLocal              \* submissions not yet executed
Completed == cqLocal \o cqShared           \* completions not yet processed
InSystemCall == pc \in {"enter", "inside"}

(* Between the push of the provides and released_buffers.clear() the list  *)
(* still names buffers that were already offered again.                    *)
Reoffered == (InSystemCall /\ then = "relClear") \/ pc = "relClear"

Offers(b) == {i \in DOMAIN Queued : Queued[i].op = "provide" /\ Queued[i].arg = b}
Fills(b) == {i \in DOMAIN Completed :
              Completed[i].op = "recv" /\ Completed[i].res = "ok" /\ Completed[i].arg = b}
Hoards(b) == IF Reoffered THEN {} ELSE {i \in DOMAIN released_buffers : released_buffers[i] = b}

(* A receive buffer is never lost and never in two hands: once registered  *)
(* it is offered by exactly one queued provide, or held by the kernel, or  *)
(* filled by exactly one unprocessed completion, or listed exactly once in *)
(* released_buffers (register_buffers, request_reply, release_buffers).    *)
BufferOwnedOnce ==
  pc \notin {"boot", "failed", "aborted"} =>
    \A b \in Buffers :
      Cardinality(Offers(b)) + Cardinality(Fills(b)) + Cardinality(Hoards(b))
        + (IF b \in pool THEN 1 ELSE 0) = 1

OwnerOf(b) ==
  IF b \in pool THEN "kernel"
  ELSE IF Offers(b) # {} THEN "ring"
  ELSE IF Fills(b) # {} THEN "cqe"
  ELSE "worker"
Provided == INSTANCE BufferPool WITH owner <- [b \in Buffers |-> OwnerOf(b)]

(* The reactor implements the buffer cycle of module BufferPool: buffers   *)
(* change hands only worker -> ring -> kernel -> completion -> worker.     *)
BufferProtocol == Provided!Spec

(* client_fds, client_out_buffers and the descriptor table agree: every    *)
(* client has an output slot and an open descriptor of its own, and every  *)
(* open descriptor is a client's or is in an accept completion still to be *)
(* processed (process_entry_accept, close_connection).                     *)
TablesAgree ==
  /\ \A i \in Ids : i \in out <=> client_fds[i] \in Fds
  /\ \A i \in out : fdTable[client_fds[i]] # NoConn
  /\ \A i, j \in out : client_fds[i] = client_fds[j] => i = j
  /\ Alive /\ restarts = 0 =>
       \A f \in Fds : fdTable[f] # NoConn =>
         \/ \E i \in out : client_fds[i] = f
         \/ \E n \in DOMAIN Completed :
              Completed[n].op = "accept" /\ Completed[n].res = "ok" /\ Completed[n].arg = f

(* An operation armed for a client that is still known was armed on that   *)
(* client's connection, never on one that got its descriptor later, and    *)
(* what waits in its output slot answers chunks of that connection, oldest *)
(* first (process_entry_accept, request_reply). The order can only be      *)
(* wrong with MaxReq > 1.                                                  *)
ClientsAreSeparate ==
  \A i \in out :
    LET c == fdTable[client_fds[i]] IN
    /\ \A d \in Conns : recv[d] = i \/ poll[d] = i => d = c
    /\ ~ub_kernel_dma =>
         \A k \in 1 .. lakes[i].pos :
           k <= LakeCap =>
             /\ lakes[i].mem[k][1] = c
             /\ \A j \in 1 .. k - 1 : lakes[i].mem[j][2] < lakes[i].mem[k][2]

(* While the worker sleeps in submit_and_wait(1) it has nothing left to    *)
(* do: no submission unpublished, no visible completion unprocessed and no *)
(* response unsent (the sync_now protocol of sq_poll).                     *)
NoSleepWithWork ==
  InSystemCall /\ then = "wait" =>
    /\ sqLocal = <<>>
    /\ cqLocal = <<>>
    /\ Pending = {}

Listening(i) ==
  \/ \E c \in Conns : recv[c] = i
  \/ \E n \in DOMAIN Queued : Queued[n].op = "recv" /\ Queued[n].id = i
  \/ \E n \in DOMAIN Completed :
       Completed[n].op = "recv" /\ Completed[n].res # "ok" /\ Completed[n].id = i

(* No client is forgotten: as long as the peer is there, its receive is    *)
(* queued or armed, or its end is still to be processed                    *)
(* (process_entry_accept; nothing else arms a receive).                    *)
NoDeafClient ==
  \A i \in out : peer[fdTable[client_fds[i]]] = "up" => Listening(i)

(* The worker thread survives: no slice, push_multiple().unwrap() or       *)
(* insert of wideband_send and process_entry_accept panics.                *)
NoPanic == pc # "aborted"

(* Every client gets the responses to its own requests in their order:     *)
(* what ServiceKept, below, says of each state.                            *)
ResponsesMatchRequests ==
  \A c \in Conns : \A n \in DOMAIN got[c] : got[c][n] = <<c, n>>

Promised == INSTANCE Service WITH asked <- sent, answers <- got

(* The reactor implements module Service for the peers that wait for each  *)
(* answer: no answer comes twice, out of turn, unasked for or together     *)
(* with another (request_reply, wideband_send).                            *)
ServiceKept == Promised!Spec

OnItsWay(i) ==
  \/ \E n \in DOMAIN Completed :
       Completed[n].op = "recv" /\ Completed[n].res = "ok" /\ Completed[n].id = i
  \/ lakes[i].pos # 0
  \/ \E n \in DOMAIN Queued : Queued[n].op = "send" /\ Queued[n].id = i

(* No request is lost: what was received from a client and not answered is *)
(* in a completion, in the client's output slot or in a queued send        *)
(* (request_reply, wideband_send). The rest of EveryRequestAnswered is     *)
(* that the worker goes on.                                                *)
NothingLost ==
  \A i \in out :
    LET c == fdTable[client_fds[i]] IN
    sent[c] - Len(inbox[c]) > Len(got[c]) => OnItsWay(i)

(* The retry loop of release_buffers does not spin: when it pushes there   *)
(* is room in the worker's view of the queue. The run release_spins shows  *)
(* what happens without it.                                                *)
ReleaseHasRoom == pc = "relPush" => HasRoom(Len(released_buffers))

(* No peer is sent bytes that nobody wrote, the zeros of a fresh slot: a   *)
(* send that is still queued when its client is closed keeps pointing to   *)
(* memory that holds its response, also when ids are given out again, and  *)
(* with ub_kernel_dma a replay of a buffer that is long released, shifted, *)
(* refilled or of the instance before answers only requests that were      *)
(* received (wideband_send, close_connection, process_entry_accept, ubdma).*)
NoBlankResponse == \A c \in Conns : \A n \in DOMAIN got[c] : got[c][n] # NoUnit

(* Every chunk that a peer has sent is answered in the end (sq_poll).      *)
EveryRequestAnswered ==
  \A c \in Conns : \A n \in 1 .. MaxReq : sent[c] >= n ~> Len(got[c]) >= n

(* The worker always comes back to its loop, from every completion, system *)
(* call and buffer release, unless it sleeps in the loop's own wait.       *)
AlwaysBackToLoop ==
  []<>(pc = "top" \/ (InSystemCall /\ then = "wait"))

-----------------------------------------------------------------------------
(* Claims of the code's comments that its behaviour does not keep.         *)

(* The default descriptor of close_connection is never the one closed:     *)
(* a completion that closes a connection names a client that is known.     *)
NeverCursed ==
  pc = "drain" /\ cqLocal # <<>> /\ Closes(Entry) => client_fds[Entry.id] # NoFd

(* The retry loop of release_buffers ends: the ring finally takes the      *)
(* buffers.                                                                *)
ReleaseFinishes == pc = "relPush" ~> pc # "relPush"

(* Every submission is flushed immediately: no response is written into an *)
(* output slot while a send from that slot still waits in the ring.        *)
FlushedImmediately ==
  \A n \in DOMAIN Queued : Queued[n].op = "send" => lakes[Queued[n].id].pos = 0

(* wideband_send sends to clients it still knows: no peer is sent the      *)
(* responses to another.                                                   *)
OwnResponsesOnly == \A c \in Conns : \A n \in DOMAIN got[c] : got[c][n][1] = c
=============================================================================
