---------------------------- MODULE ClientProofs ----------------------------
(***************************************************************************)
(* The clients of a worker, for every number of clients, descriptors and   *)
(* connections: the client tables agree (TablesAgree), the operations and  *)
(* the responses of one client never get mixed up with another's           *)
(* (ClientsAreSeparate), no peer is sent bytes that nobody wrote           *)
(* (NoBlankResponse). Peers that wait for each answer and stay get their   *)
(* own answers, in order (ResponsesMatchRequests), and see the service of  *)
(* module Service (ServiceKept); none of their requests is lost once it is *)
(* received (NothingLost). If the queue, the tables and the buffers        *)
(* suffice for the descriptors there are, the worker survives (NoPanic),   *)
(* goes on listening to every one of them (NoDeafClient) and returns its   *)
(* buffers without spinning (ReleaseHasRoom).                              *)
(***************************************************************************)
EXTENDS BufferProofs

-----------------------------------------------------------------------------
(* What is in the rings, as sets                                           *)

Waiting == Range(Queued)
Done == Range(Completed)

LEMMA RangeConcat ==
  ASSUME NEW T, NEW s \in Seq(T), NEW t \in Seq(T)
  PROVE  Range(s \o t) = Range(s) \cup Range(t)
<1> DEFINE u == s \o t
<1>1. /\ \A k \in DOMAIN s : k \in DOMAIN u /\ u[k] = s[k]
      /\ \A k \in DOMAIN t : Len(s) + k \in DOMAIN u /\ u[Len(s) + k] = t[k]
  OBVIOUS
<1>2. \A k \in DOMAIN u : \/ k \in DOMAIN s /\ u[k] = s[k]
                          \/ k - Len(s) \in DOMAIN t /\ u[k] = t[k - Len(s)]
  OBVIOUS
<1> HIDE DEF u
<1>3. \A x : x \in Range(u) <=> x \in Range(s) \/ x \in Range(t)
  BY <1>1, <1>2 DEF Range
<1> QED
  BY <1>3 DEF u

LEMMA RangeTail ==
  ASSUME NEW T, NEW s \in Seq(T), s # <<>>
  PROVE  Head(s) \in Range(s) /\ Range(Tail(s)) \subseteq Range(s)
<1>1. /\ 1 \in DOMAIN s /\ Head(s) = s[1]
      /\ \A k \in DOMAIN Tail(s) : k + 1 \in DOMAIN s /\ Tail(s)[k] = s[k + 1]
  OBVIOUS
<1> QED
  BY <1>1 DEF Range

LEMMA RangeAppend ==
  ASSUME NEW T, NEW s \in Seq(T), NEW e \in T
  PROVE  Range(Append(s, e)) = Range(s) \cup {e}
<1>1. Append(s, e) = s \o <<e>>
  BY AppendIsConcat
<1>2. PICK t \in Seq(T) : t = <<e>>
  <2>1. <<e>> \in Seq(T)
    OBVIOUS
  <2> QED
    BY <2>1, Zenon
<1>3. Range(t) = {e}
  BY <1>2 DEF Range
<1>4. Range(s \o t) = Range(s) \cup Range(t)
  BY RangeConcat
<1> QED
  BY <1>1, <1>2, <1>3, <1>4

LEMMA RingTypes ==
  ASSUME TypeOK
  PROVE  Waiting \subseteq SQE /\ Done \subseteq CQE
BY Rings, RangeOfSeq DEF Waiting, Done

LEMMA SameRings ==
  /\ UNCHANGED <<sqLocal, sqShared>> => Waiting' = Waiting
  /\ UNCHANGED <<cqLocal, cqShared>> => Done' = Done
BY DEF Waiting, Done, Queued, Completed

LEMMA WaitingGrows ==
  ASSUME TypeOK, NEW es \in Seq(SQE), Queued' = Queued \o es
  PROVE  Waiting' = Waiting \cup Range(es)
<1>1. Queued \in Seq(SQE)
  BY Rings
<1>2. Range(Queued \o es) = Range(Queued) \cup Range(es)
  BY <1>1, RangeConcat
<1> QED
  BY <1>2 DEF Waiting

LEMMA WaitingPush ==
  ASSUME TypeOK, NEW es \in Seq(SQE), PushAndSync(es)
  PROVE  Waiting' = Waiting \cup Range(es)
BY QueuedPush, WaitingGrows

LEMMA WaitingTake ==
  ASSUME TypeOK, sqShared # <<>>, TakeSqe
  PROVE  Waiting' \subseteq Waiting /\ Head(sqShared) \in Waiting /\ Head(sqShared) \in SQE
BY QueuedTake, Rings, RangeTail DEF Waiting

LEMMA DoneTake ==
  ASSUME TypeOK, Next_cqe, cqShared' = cqShared
  PROVE  Done' \subseteq Done /\ Entry \in Done /\ Entry \in CQE
BY CompletedTake, Rings, RangeTail DEF Done

-----------------------------------------------------------------------------
(* What the steps add to the rings                                         *)

IdOps == {"recv", "poll", "send"}
Armings(id, fd) == {e \in SQE : e.op \in {"recv", "poll"} /\ e.id = id /\ e.fd = fd}
Sends == {e \in SQE : /\ e.op = "send" /\ e.id \in out
                      /\ e.arg = lakes[e.id].pos /\ e.arg <= LakeCap}

LEMMA StartAdds ==
  ASSUME TypeOK, register_buffers \/ release_push \/ start_accepts
  PROVE  /\ \A e \in Waiting' : e \in Waiting \/ e.op \in {"provide", "accept"}
         /\ Done' = Done
<1>1. CASE register_buffers \/ release_push
  <2>1. PICK bs \in Seq(Buffers) : PushAndSync(Provides(bs))
    <3>1. [k \in 1 .. BUFFERS_COUNT |-> k - 1] \in Seq(Buffers)
      BY KernelAssumption DEF Buffers
    <3> QED
      BY <1>1, <3>1 DEF register_buffers, release_push, TypeOK, ServerTypeOK
  <2>2. Provides(bs) \in Seq(SQE) /\ \A e \in Range(Provides(bs)) : e.op = "provide"
    BY ProvidesType DEF Provides, provide_buffer, Sqe, Range
  <2>3. Waiting' = Waiting \cup Range(Provides(bs))
    BY <2>1, <2>2, WaitingPush
  <2> QED
    BY <1>1, <2>2, <2>3, SameRings DEF register_buffers, release_push
<1>2. CASE start_accepts
  <2> DEFINE es == [k \in 1 .. AcceptMulti |-> accept_multi]
  <2>1. es \in Seq(SQE) /\ \A e \in Range(es) : e.op = "accept"
    BY SqeTypes, ReactorAssumption DEF accept_multi, Sqe, Range
  <2>2. sqLocal' = sqLocal \o es /\ UNCHANGED <<sqShared, cqLocal, cqShared>>
    BY <1>2 DEF start_accepts
  <2> HIDE DEF es
  <2>3. Waiting' = Waiting \cup Range(es)
    BY <2>1, <2>2, QueuedGrows, WaitingGrows
  <2> QED
    BY <2>1, <2>2, <2>3, SameRings
<1> QED
  BY <1>1, <1>2

LEMMA LoopTopAdds ==
  ASSUME TypeOK, LoopTop
  PROVE  /\ Waiting' \subseteq Waiting \cup Sends
         /\ Completed' = Completed /\ Done' = Done
<1>1. PICK ids \in InIdOrder(Sendable) : Flush([k \in DOMAIN ids |-> SendEntry(ids[k])])
  BY DEF LoopTop
<1> DEFINE es == [k \in DOMAIN ids |-> SendEntry(ids[k])]
<1>2. es \in Seq(SQE)
  BY SendsType DEF LoopTop
<1>3. Range(es) \subseteq Sends
  <2> SUFFICES ASSUME NEW k \in DOMAIN ids
               PROVE  SendEntry(ids[k]) \in Sends
    BY DEF Range
  <2>1. ids[k] \in Sendable /\ es[k] = SendEntry(ids[k]) /\ es[k] \in SQE
    <3>1. DOMAIN es = DOMAIN ids /\ es[k] = SendEntry(ids[k])
      OBVIOUS
    <3> HIDE DEF es
    <3>2. es[k] \in SQE
      BY <1>2, <3>1
    <3> QED
      BY <3>1, <3>2 DEF InIdOrder
  <2>2. ids[k] \in out /\ lakes[ids[k]].pos <= LakeCap
    <3>1. ids[k] \in Ids
      BY <2>1 DEF Sendable, Pending, TypeOK, ServerTypeOK
    <3>2. lakes[ids[k]].pos \in Nat
      BY <3>1 DEF TypeOK, ServerTypeOK, Lakes
    <3> QED
      BY <2>1, <3>2, KernelAssumption DEF LoopTop, Overrun, Sendable, Pending
  <2> QED
    BY <2>1, <2>2 DEF SendEntry, send, Sqe, Sends
<1> HIDE DEF es
<1>4. Waiting' \subseteq Waiting \cup Sends
  <2>1. CASE FlushNow
    BY <1>1, <1>2, <1>3, <2>1, WaitingPush DEF Flush, es
  <2>2. CASE ~FlushNow
    BY <1>1, <2>2, SameRings DEF Flush
  <2> QED
    BY <2>1, <2>2
<1>5. Completed' = Completed
  <2>1. cqLocal = <<>> /\ cqLocal' = cqShared /\ cqShared' = <<>>
    BY DEF LoopTop, CqIsEmpty
  <2> QED
    BY <2>1, Rings, ConcatEmptySeq DEF Completed
<1> QED
  BY <1>4, <1>5 DEF Done

LEMMA AcceptAdds ==
  ASSUME TypeOK, process_entry_accept
  PROVE  /\ Waiting' \subseteq Waiting \cup Armings(next_id, Entry.arg)
         /\ Done' \subseteq Done
         /\ Entry \in Done /\ Entry.op = "accept" /\ Entry.res = "ok" /\ Entry.arg \in Fds
         /\ next_id \in Ids /\ next_id' = next_id + 1 /\ out' = out \cup {next_id}
         /\ client_fds' = [client_fds EXCEPT ![next_id] = Entry.arg]
         /\ lakes' = [lakes EXCEPT ![next_id] = EmptyLake]
         /\ UNCHANGED <<bufmem, sockVars, pc, then, restarts>>
<1>1. /\ Next_cqe /\ cqShared' = cqShared /\ Entry.op = "accept" /\ Entry.res = "ok"
      /\ next_id < OutCap
  BY DEF process_entry_accept, RoomForClient
<1>2. Done' \subseteq Done /\ Entry \in Done /\ Entry \in CQE
  BY <1>1, DoneTake
<1>3. Entry.arg \in Fds
  BY <1>1, <1>2, CqeKinds
<1>4. next_id \in Ids
  BY <1>1, KernelAssumption DEF Ids, TypeOK, ServerTypeOK
<1>5. Waiting' \subseteq Waiting \cup Armings(next_id, Entry.arg)
  <2>1. PICK es \in Seq(SQE) :
           /\ Queued' = Queued \o es
           /\ \A k \in DOMAIN es : /\ es[k].op \in {"recv", "poll"}
                                   /\ es[k].id = next_id /\ es[k].fd = Entry.arg
    BY AcceptPushes
  <2>2. Range(es) \subseteq Armings(next_id, Entry.arg)
    BY <2>1 DEF Range, Armings
  <2> QED
    BY <2>1, <2>2, WaitingGrows
<1>6. /\ next_id' = next_id + 1 /\ out' = out \cup {next_id}
      /\ client_fds' = [client_fds EXCEPT ![next_id] = Entry.arg]
      /\ lakes' = [lakes EXCEPT ![next_id] = EmptyLake]
      /\ UNCHANGED <<bufmem, sockVars, pc, then, restarts>>
  BY DEF process_entry_accept, PushIndex, bufVars
<1> QED
  BY <1>1, <1>2, <1>3, <1>4, <1>5, <1>6

(* A submission is executed: the ring shrinks, and at most one completion  *)
(* is posted, for the client that the submission names.                    *)
Reports(x) ==
  /\ x.op # "accept" /\ ~IsFill(x)
  /\ x.op \in IdOps => \E e \in Waiting : e.op \in IdOps /\ e.id = x.id

LEMMA ExecAdds ==
  ASSUME TypeOK, Execute
  PROVE  /\ Waiting' \subseteq Waiting
         /\ Head(sqShared) \in Waiting /\ Head(sqShared) \in SQE /\ TakeSqe
         /\ \/ Completed' = Completed
            \/ \E x \in CQE : Reports(x) /\ Completed' = Append(Completed, x)
<1> DEFINE e == Head(sqShared)
<1>1. sqShared # <<>> /\ TakeSqe
  BY DEF Execute, ExecProvide, ExecAccept, ExecArm, ExecSend
<1>2. Waiting' \subseteq Waiting /\ e \in Waiting /\ e \in SQE
  BY <1>1, WaitingTake
<1>3. cqLocal' = cqLocal
  BY <1>1 DEF TakeSqe
<1>4. \/ cqShared' = cqShared
      \/ \E x \in CQE : Reports(x) /\ Post(x)
  <2>1. CASE ExecProvide
    <3>1. Reports(Cqe("provide", NoId, "ok", NoBuf))
      BY DEF Reports, IsFill, Cqe, IdOps
    <3> QED
      BY <2>1, <3>1, CqeTypes DEF ExecProvide
  <2>2. CASE ExecAccept
    BY <2>2 DEF ExecAccept
  <2>3. CASE ExecArm
    <3>1. e.op \in {"recv", "poll"} /\ e.id \in Ids
      BY <1>2, <2>3, SqeKinds DEF ExecArm
    <3>2. Cqe(e.op, e.id, "EBADF", NoBuf) \in CQE
      BY <3>1, CqeTypes DEF Failures
    <3>3. Reports(Cqe(e.op, e.id, "EBADF", NoBuf))
      BY <1>2, <3>1 DEF Reports, IsFill, Cqe, IdOps
    <3>4. cqShared' = cqShared \/ Post(Cqe(e.op, e.id, "EBADF", NoBuf))
      BY <2>3 DEF ExecArm
    <3> QED
      BY <3>2, <3>3, <3>4
  <2>4. CASE ExecSend(lakes)
    <3>1. e.op = "send" /\ e.id \in Ids
      BY <1>2, <2>4, SqeKinds DEF ExecSend
    <3>2. \A res \in Failures : /\ Cqe("send", e.id, res, NoBuf) \in CQE
                                /\ Reports(Cqe("send", e.id, res, NoBuf))
      BY <1>2, <3>1, CqeTypes DEF Reports, IsFill, Cqe, IdOps
    <3>3. SocketError(Target(e)) \in Failures
      BY DEF SocketError, Failures
    <3>4. \/ \E res \in Failures : Post(Cqe("send", e.id, res, NoBuf))
          \/ cqShared' = cqShared
      BY <2>4, <3>3 DEF ExecSend, Failures
    <3> QED
      BY <3>2, <3>4
  <2> QED
    BY <2>1, <2>2, <2>3, <2>4 DEF Execute
<1>5. \/ Completed' = Completed
      \/ \E x \in CQE : Reports(x) /\ Completed' = Append(Completed, x)
  <2>1. CASE cqShared' = cqShared
    BY <1>3, <2>1 DEF Completed
  <2>2. CASE \E x \in CQE : Reports(x) /\ Post(x)
    BY <1>3, <2>2, CompletedPost
  <2> QED
    BY <1>4, <2>1, <2>2
<1> QED
  BY <1>1, <1>2, <1>5

LEMMA DoneAppend ==
  ASSUME TypeOK, NEW x \in CQE, Completed' = Append(Completed, x)
  PROVE  Done' = Done \cup {x}
BY Rings, RangeAppend DEF Done

(* The completions that the kernel posts on its own.                       *)
LEMMA AcceptPosts ==
  ASSUME TypeOK, NEW c \in Conns, KernelAccept(c)
  PROVE  \/ \E f \in Fds : /\ fdTable[f] = NoConn /\ fdTable' = [fdTable EXCEPT ![f] = c]
                           /\ Cqe("accept", NoId, "ok", f) \in CQE
                           /\ Completed' = Append(Completed, Cqe("accept", NoId, "ok", f))
         \/ /\ fdTable' = fdTable
            /\ Cqe("accept", NoId, "error", NoBuf) \in CQE
            /\ Completed' = Append(Completed, Cqe("accept", NoId, "error", NoBuf))
<1>1. cqLocal' = cqLocal
  BY DEF KernelAccept
<1>2. \/ \E f \in Fds : /\ fdTable[f] = NoConn /\ fdTable' = [fdTable EXCEPT ![f] = c]
                        /\ Post(Cqe("accept", NoId, "ok", f))
      \/ fdTable' = fdTable /\ Post(Cqe("accept", NoId, "error", NoBuf))
  BY DEF KernelAccept
<1> QED
  BY <1>1, <1>2, CqeTypes, CompletedPost

LEMMA RecvPosts ==
  ASSUME TypeOK, NEW c \in Conns, KernelRecv(c)
  PROVE  /\ recv[c] \in Ids
         /\ \/ /\ inbox[c] # <<>> /\ inbox' = [inbox EXCEPT ![c] = Tail(@)] /\ recv' = recv
               /\ \E b \in pool :
                    /\ bufmem' = [bufmem EXCEPT ![b].front = Head(inbox[c])]
                    /\ Cqe("recv", recv[c], "ok", b) \in CQE
                    /\ Completed' = Append(Completed, Cqe("recv", recv[c], "ok", b))
            \/ /\ UNCHANGED <<bufmem, inbox>> /\ recv' = [recv EXCEPT ![c] = NoId]
               /\ \E res \in Failures :
                    /\ Cqe("recv", recv[c], res, NoBuf) \in CQE
                    /\ Completed' = Append(Completed, Cqe("recv", recv[c], res, NoBuf))
<1>1. recv[c] \in Ids /\ pool \subseteq Buffers
  BY DEF KernelRecv, TypeOK, KernelTypeOK
<1>2. cqLocal' = cqLocal
  BY DEF KernelRecv
<1>3. SocketError(c) \in Failures
  BY DEF SocketError, Failures
<1>4. \/ /\ inbox[c] # <<>> /\ inbox' = [inbox EXCEPT ![c] = Tail(@)] /\ recv' = recv
         /\ \E b \in pool :
              /\ bufmem' = [bufmem EXCEPT ![b].front = Head(inbox[c])]
              /\ Post(Cqe("recv", recv[c], "ok", b))
      \/ /\ UNCHANGED <<bufmem, inbox>> /\ recv' = [recv EXCEPT ![c] = NoId]
         /\ \E res \in Failures : Post(Cqe("recv", recv[c], res, NoBuf))
  BY <1>3 DEF KernelRecv, Failures
<1>5. \A b \in pool : Cqe("recv", recv[c], "ok", b) \in CQE
  BY <1>1, CqeTypes
<1>6. \A res \in Failures : Cqe("recv", recv[c], res, NoBuf) \in CQE
  BY <1>1, CqeTypes
<1>7. \A x \in CQE : Post(x) => Completed' = Append(Completed, x)
  BY <1>2, CompletedPost
<1> QED
  BY <1>1, <1>4, <1>5, <1>6, <1>7

LEMMA PollPosts ==
  ASSUME TypeOK, NEW c \in Conns, KernelPoll(c)
  PROVE  /\ poll[c] \in Ids /\ Cqe("poll", poll[c], "ok", NoBuf) \in CQE
         /\ Completed' = Append(Completed, Cqe("poll", poll[c], "ok", NoBuf))
<1>1. poll[c] \in Ids /\ cqLocal' = cqLocal
  BY DEF KernelPoll, TypeOK, KernelTypeOK
<1>2. Cqe("poll", poll[c], "ok", NoBuf) \in CQE
  BY <1>1, CqeTypes
<1> QED
  BY <1>1, <1>2, CompletedPost DEF KernelPoll

-----------------------------------------------------------------------------
(* Client ids are given out in order and never twice                       *)

Starting == pc \in {"boot", "arm", "reserve"} \/ (InSystemCall /\ then \in {"arm", "reserve"})

Known ==
  /\ Starting => out = {} /\ next_id = 0
  /\ \A i \in out : i < next_id
  /\ \A e \in Waiting : e.op \in IdOps => e.id < next_id
  /\ \A e \in Done : e.op \in IdOps => e.id < next_id
  /\ \A c \in Conns : recv[c] < next_id /\ poll[c] < next_id

LEMMA KnownFrame ==
  ASSUME Known, next_id' = next_id, out' \subseteq out, Starting' => Starting,
         \A e \in Waiting' : e \in Waiting \/ (e.op \in IdOps => e.id < next_id),
         \A e \in Done' : e \in Done \/ (e.op \in IdOps => e.id < next_id),
         \A c \in Conns : recv'[c] < next_id /\ poll'[c] < next_id
  PROVE  Known'
BY DEF Known

LEMMA EmptyRings ==
  sqLocal = <<>> /\ sqShared = <<>> /\ cqLocal = <<>> /\ cqShared = <<>>
    => Waiting = {} /\ Done = {} /\ Completed = <<>> /\ Queued = <<>>
BY DEF Waiting, Done, Queued, Completed, Range

LEMMA KnownInit == Init => Known
<1> SUFFICES ASSUME Init
             PROVE  Known
  OBVIOUS
<1>1. Waiting = {} /\ Done = {}
  BY EmptyRings DEF Init, KernelInit
<1> QED
  BY <1>1 DEF Init, KernelInit, ServerInit, Known, NoId

LEMMA StartKnown ==
  ASSUME TypeOK, Known, register_buffers \/ release_push \/ start_accepts
  PROVE  Known'
<1>1. /\ Starting' => Starting
      /\ UNCHANGED <<next_id, out, recv, poll>>
  BY DEF register_buffers, release_push, start_accepts, Submit, Starting, InSystemCall,
     tableVars, sockVars
<1>2. /\ \A e \in Waiting' : e \in Waiting \/ (e.op \in IdOps => e.id < next_id)
      /\ Done' = Done
  BY StartAdds DEF IdOps
<1> QED
  BY <1>1, <1>2, KnownFrame DEF Known

LEMMA ReserveKnown ==
  ASSUME TypeOK, Known, reserve_writes_buffer
  PROVE  Known'
<1>1. /\ next_id = 0 /\ out = {} /\ next_id' = ReservedIds /\ ~Starting'
      /\ UNCHANGED <<out, recv, poll, sqLocal, sqShared, cqLocal, cqShared>>
  BY DEF reserve_writes_buffer, Known, Starting, InSystemCall, kernelVars, ringVars, sockVars
<1>2. Waiting' = Waiting /\ Done' = Done
  BY <1>1, SameRings
<1>3. Waiting \subseteq SQE /\ Done \subseteq CQE
  BY RingTypes
<1>4. ReservedIds \in Nat
  BY ReactorAssumption
<1>5. \A e \in Waiting : e.op \in IdOps => e.id < ReservedIds
  <2>1. \A e \in Waiting : e.op \in IdOps => e.id \in Ids /\ e.id < 0
    BY <1>1, <1>3, SqeKinds DEF Known, IdOps
  <2> QED
    BY <2>1 DEF Ids
<1>6. \A e \in Done : e.op \in IdOps => e.id < ReservedIds
  <2>1. \A e \in Done : e.op \in IdOps => e.id \in Ids /\ e.id < 0
    BY <1>1, <1>3 DEF Known, IdOps, CQE
  <2> QED
    BY <2>1 DEF Ids
<1>7. \A c \in Conns : recv[c] < ReservedIds /\ poll[c] < ReservedIds
  <2>1. \A k \in Ids \cup {NoId} : k < 0 => k < ReservedIds
    BY <1>4, KernelAssumption DEF Ids, NoId
  <2>2. \A c \in Conns : recv[c] \in Ids \cup {NoId} /\ poll[c] \in Ids \cup {NoId}
    BY DEF TypeOK, KernelTypeOK
  <2> QED
    BY <1>1, <2>1, <2>2 DEF Known
<1> QED
  BY <1>1, <1>2, <1>5, <1>6, <1>7 DEF Known

LEMMA LoopTopKnown ==
  ASSUME TypeOK, Known, LoopTop
  PROVE  Known'
<1>1. /\ Starting' => Starting
      /\ UNCHANGED <<next_id, out, recv, poll>>
  BY DEF LoopTop, Submit, Starting, InSystemCall, tableVars, sockVars
<1>2. \A e \in Waiting' : e \in Waiting \/ (e.op \in IdOps => e.id < next_id)
  BY LoopTopAdds DEF Sends, Known
<1>3. Done' = Done
  BY LoopTopAdds
<1> QED
  BY <1>1, <1>2, <1>3, KnownFrame DEF Known

LEMMA ExecuteKnown ==
  ASSUME TypeOK, Known, Execute
  PROVE  Known'
<1>1. /\ Starting' => Starting
      /\ UNCHANGED <<next_id, out>>
  BY DEF Execute, Starting, InSystemCall, tableVars
<1>2. Waiting' \subseteq Waiting /\ Head(sqShared) \in Waiting
  BY ExecAdds
<1>3. \A e \in Done' : e \in Done \/ (e.op \in IdOps => e.id < next_id)
  <2>1. CASE Completed' = Completed
    BY <2>1 DEF Done
  <2>2. CASE \E x \in CQE : Reports(x) /\ Completed' = Append(Completed, x)
    BY <2>2, DoneAppend DEF Reports, Known
  <2> QED
    BY <2>1, <2>2, ExecAdds
<1>4. \A c \in Conns : recv'[c] < next_id /\ poll'[c] < next_id
  <2>1. CASE ExecArm
    <3>1. Head(sqShared).id < next_id
      BY <1>2, <2>1 DEF ExecArm, Known, IdOps
    <3>2. recv' = recv \/ recv' = [recv EXCEPT ![Target(Head(sqShared))] = Head(sqShared).id]
      BY <2>1 DEF ExecArm
    <3>3. poll' = poll \/ poll' = [poll EXCEPT ![Target(Head(sqShared))] = Head(sqShared).id]
      BY <2>1 DEF ExecArm
    <3> QED
      BY <3>1, <3>2, <3>3 DEF Known, TypeOK, KernelTypeOK
  <2>2. CASE ~ExecArm
    <3>1. UNCHANGED <<recv, poll>>
      BY <2>2 DEF Execute, ExecProvide, ExecAccept, ExecSend, sockVars
    <3> QED
      BY <3>1 DEF Known
  <2> QED
    BY <2>1, <2>2
<1> QED
  BY <1>1, <1>2, <1>3, <1>4, KnownFrame

LEMMA ControlKnown ==
  ASSUME TypeOK, Known,
         \/ wideband_send_panics \/ Return \/ EnterFails \/ release_clear \/ EndOfBatch
         \/ UNCHANGED vars
  PROVE  Known'
<1>1. UNCHANGED <<next_id, out, recv, poll, sqLocal, sqShared, cqLocal, cqShared>>
  BY DEF wideband_send_panics, Return, EnterFails, release_clear, EndOfBatch, vars, serverVars,
     tableVars, kernelVars, ringVars, sockVars
<1>2. Starting' => Starting
  <2>1. CASE UNCHANGED vars
    BY <2>1 DEF vars, serverVars, Starting, InSystemCall
  <2>2. CASE ~UNCHANGED vars
    BY <2>2 DEF wideband_send_panics, Return, EnterFails, release_clear, EndOfBatch,
       release_buffers, Submit, Starting, InSystemCall, TypeOK, ServerTypeOK
  <2> QED
    BY <2>1, <2>2
<1> QED
  BY <1>1, <1>2, SameRings, KnownFrame DEF Known

LEMMA RestartKnown ==
  ASSUME Restart
  PROVE  Known'
<1>1. Waiting' = {} /\ Done' = {}
  BY DEF Restart, KernelReset, Waiting, Done, Queued, Completed, Range
<1> QED
  BY <1>1 DEF Restart, KernelReset, Known, NoId

LEMMA EntryKnown ==
  ASSUME TypeOK, Known, process_entry
  PROVE  Known'
<1>1. CASE process_entry_accept
  <2>1. ~Starting /\ ~Starting'
    BY <1>1, AcceptAdds DEF process_entry_accept, Next_cqe, Starting, InSystemCall
  <2>2. next_id \in Int /\ next_id' = next_id + 1 /\ UNCHANGED <<recv, poll>>
    BY <1>1, AcceptAdds DEF Ids, sockVars
  <2>3. \A k \in Ids \cup {NoId} : k < next_id => k < next_id'
    BY <2>2, KernelAssumption DEF Ids, NoId
  <2>4. Waiting \subseteq SQE /\ Done \subseteq CQE
    BY RingTypes
  <2>5. \A i \in out' : i < next_id'
    BY <1>1, <2>2, <2>3, AcceptAdds DEF Known, TypeOK, ServerTypeOK
  <2>6. \A e \in Waiting' : e.op \in IdOps => e.id < next_id'
    <3>1. \A e \in Waiting : e.op \in IdOps => e.id \in Ids
      BY <2>4, SqeKinds DEF IdOps
    <3> QED
      BY <1>1, <2>2, <2>3, <3>1, AcceptAdds DEF Known, Armings
  <2>7. \A e \in Done' : e.op \in IdOps => e.id < next_id'
    <3>1. \A e \in Done : e.op \in IdOps => e.id \in Ids
      BY <2>4 DEF IdOps, CQE
    <3> QED
      BY <1>1, <2>3, <3>1, AcceptAdds DEF Known
  <2>8. \A c \in Conns : recv'[c] < next_id' /\ poll'[c] < next_id'
    BY <2>2, <2>3 DEF Known, TypeOK, KernelTypeOK
  <2> QED
    BY <2>1, <2>5, <2>6, <2>7, <2>8 DEF Known
<1>2. CASE ~process_entry_accept
  <2>1. /\ Next_cqe /\ cqShared' = cqShared
        /\ UNCHANGED <<next_id, recv, poll, sqLocal, sqShared>> /\ out' \subseteq out
    BY <1>2 DEF process_entry, process_ignored, accept_panics, process_no_buffers,
       close_connection, SlotRemoved, request_reply, ubdma, serverVars, tableVars, sockVars
  <2>2. Starting' => Starting
    BY <1>2 DEF process_entry, process_ignored, accept_panics, process_no_buffers,
       close_connection, request_reply, ubdma, release_buffers, Submit, Next_cqe, serverVars,
       Starting, InSystemCall
  <2>3. Done' \subseteq Done /\ Waiting' = Waiting
    BY <2>1, DoneTake, SameRings
  <2> QED
    BY <2>1, <2>2, <2>3, KnownFrame DEF Known
<1> QED
  BY <1>1, <1>2

LEMMA EnvironmentKnown ==
  ASSUME TypeOK, Known, NEW c \in Conns, Environment(c)
  PROVE  Known'
<1>1. UNCHANGED <<pc, then, next_id, out, sqLocal, sqShared, poll>>
  BY DEF Environment, serverVars, tableVars, KernelAccept, KernelRecv, KernelPoll, PeerConnect,
     PeerSend, PeerLeave, ringVars
<1>2. Waiting' = Waiting /\ (Starting' => Starting)
  BY <1>1, SameRings DEF Starting, InSystemCall
<1>3. \A d \in Conns : recv'[d] < next_id /\ poll'[d] < next_id
  <2>1. recv' = recv \/ recv' = [recv EXCEPT ![c] = NoId]
    BY DEF Environment, KernelAccept, KernelRecv, KernelPoll, PeerConnect, PeerSend, PeerLeave
  <2>2. NoId < next_id
    BY DEF NoId, TypeOK, ServerTypeOK
  <2> QED
    BY <1>1, <2>1, <2>2 DEF Known, TypeOK, KernelTypeOK
<1>4. \A e \in Done' : e \in Done \/ (e.op \in IdOps => e.id < next_id)
  <2>1. CASE KernelAccept(c)
    <3>1. PICK x \in CQE : x.op = "accept" /\ Completed' = Append(Completed, x)
      BY <2>1, AcceptPosts DEF Cqe
    <3> QED
      BY <3>1, DoneAppend DEF IdOps
  <2>2. CASE KernelRecv(c)
    <3>1. PICK x \in CQE : x.id = recv[c] /\ Completed' = Append(Completed, x)
      BY <2>2, RecvPosts DEF Cqe
    <3> QED
      BY <3>1, DoneAppend DEF Known
  <2>3. CASE KernelPoll(c)
    <3>1. PICK x \in CQE : x.id = poll[c] /\ Completed' = Append(Completed, x)
      BY <2>3, PollPosts DEF Cqe
    <3> QED
      BY <3>1, DoneAppend DEF Known
  <2>4. CASE PeerConnect(c) \/ PeerSend(c) \/ PeerLeave(c)
    BY <2>4, SameRings DEF PeerConnect, PeerSend, PeerLeave, ringVars
  <2> QED
    BY <2>1, <2>2, <2>3, <2>4 DEF Environment
<1> QED
  BY <1>1, <1>2, <1>3, <1>4, KnownFrame

LEMMA KnownNext == TypeOK /\ Known /\ [Next]_vars => Known'
<1> SUFFICES ASSUME TypeOK, Known, [Next]_vars
             PROVE  Known'
  OBVIOUS
<1>1. CASE Worker
  BY <1>1, StartKnown, ReserveKnown, LoopTopKnown, ExecuteKnown, ControlKnown, RestartKnown,
     EntryKnown
  DEF Worker
<1>2. CASE \E c \in Conns : Environment(c)
  BY <1>2, EnvironmentKnown
<1> QED
  BY <1>1, <1>2, ControlKnown DEF Next, Rest

-----------------------------------------------------------------------------
(* A buffer that the kernel may fill, or that was just handed back, is     *)
(* named by no completion.                                                 *)

LEMMA PoolUnfilled ==
  ASSUME TypeOK, BufInv, Alive, NEW b \in pool
  PROVE  \A e \in Done : IsFill(e) => e.arg # b
<1>1. pc # "boot" /\ b \in Buffers
  BY DEF BufInv, BootClean, TypeOK, KernelTypeOK
<1>2. ~InCqe(b)
  BY <1>1 DEF BufInv, HeldOnce, Alive, Held
<1>3. Done \subseteq CQE
  BY RingTypes
<1> QED
  BY <1>2, <1>3 DEF InCqe, Has, FillOf, IsFill, Done, Range

LEMMA ReplyFrees ==
  ASSUME TypeOK, BufInv, request_reply
  PROVE  /\ Entry \in Done /\ IsFill(Entry) /\ Entry.id \in Ids /\ Entry.arg \in Buffers
         /\ Done' \subseteq Done
         /\ \A e \in Done' : IsFill(e) => e.arg # Entry.arg
<1> DEFINE b == Entry.arg
<1>1. Next_cqe /\ cqShared' = cqShared /\ IsFill(Entry)
  BY DEF request_reply, IsFill
<1>2. Done' \subseteq Done /\ Entry \in Done /\ Entry \in CQE
  BY <1>1, DoneTake
<1>3. Entry.id \in Ids /\ b \in Buffers
  BY <1>1, <1>2, CqeKinds DEF IsFill
<1>4. /\ Completed \in Seq(CQE) /\ Completed # <<>> /\ Head(Completed) = Entry
      /\ Completed' = Tail(Completed)
  BY <1>1, CompletedTake, Rings
<1>5. Once(Completed, FillOf(b))
  BY <1>1, <1>3 DEF BufInv, HeldOnce, Single, Next_cqe
<1>6. Entry \in FillOf(b)
  BY <1>1, <1>2 DEF FillOf, IsFill
<1>7. ~Has(Completed', FillOf(b))
  BY <1>4, <1>5, <1>6, TailHas
<1>8. Done \subseteq CQE
  BY RingTypes
<1> QED
  BY <1>1, <1>2, <1>3, <1>7, <1>8 DEF Has, FillOf, IsFill, Done, Range

-----------------------------------------------------------------------------
(* No blank response                                                       *)

(* The part of an output slot that was written, and what remains written.  *)
Full(lake) == \A k \in 1 .. LakeCap : k <= lake.pos => lake.mem[k] # NoUnit
Keeps(old, new) == \A k \in 1 .. LakeCap : old.mem[k] # NoUnit => new.mem[k] # NoUnit

LEMMA WriteFull ==
  ASSUME NEW lake \in Lakes, NEW u \in Memory, u # NoUnit, Full(lake)
  PROVE  Full(LakeWrite(lake, u)) /\ Keeps(lake, LakeWrite(lake, u))
<1>1. lake.pos \in Nat /\ lake.mem \in [1 .. LakeCap -> Memory] /\ LakeCap \in Nat
  BY KernelAssumption DEF Lakes
<1>2. CASE lake.pos < LakeCap
  <2>1. /\ LakeWrite(lake, u).pos = lake.pos + 1
        /\ LakeWrite(lake, u).mem = [lake.mem EXCEPT ![lake.pos + 1] = u]
    BY <1>2 DEF LakeWrite
  <2>2. \A k \in 1 .. LakeCap :
          LakeWrite(lake, u).mem[k] = IF k = lake.pos + 1 THEN u ELSE lake.mem[k]
    BY <1>1, <2>1
  <2> QED
    BY <1>1, <2>1, <2>2 DEF Full, Keeps
<1>3. CASE ~(lake.pos < LakeCap)
  <2>1. LakeWrite(lake, u).mem = lake.mem
    BY <1>3 DEF LakeWrite
  <2> QED
    BY <1>1, <1>3, <2>1 DEF Full, Keeps
<1> QED
  BY <1>2, <1>3

LEMMA ReplayFull ==
  ASSUME TypeOK, NEW lake \in Lakes, Full(lake), NEW b \in Buffers
  PROVE  Full(Replayed(lake, b)) /\ Keeps(lake, Replayed(lake, b))
<1> DEFINE u == bufmem[b].front
           v == bufmem[b].tail
           mid == WriteIfAny(lake, u)
<1>1. u \in Memory /\ v \in Memory
  BY DEF TypeOK, KernelTypeOK
<1>2. mid \in Lakes /\ Full(mid) /\ Keeps(lake, mid)
  BY <1>1, WriteFull, LakeWriteType DEF WriteIfAny, Keeps
<1> HIDE DEF mid
<1>3. Full(WriteIfAny(mid, v)) /\ Keeps(mid, WriteIfAny(mid, v))
  BY <1>1, <1>2, WriteFull DEF WriteIfAny, Keeps
<1> QED
  BY <1>2, <1>3 DEF Replayed, Keeps, mid

(* Every chunk in a completion, every response in an output slot and every *)
(* response in a queued send was written.                                  *)
FillsWritten == \A e \in Done : IsFill(e) => bufmem[e.arg].front # NoUnit
SlotsWritten == \A i \in Ids : Full(lakes[i])
SendsWritten ==
  \A e \in Waiting : e.op = "send" => \A k \in 1 .. e.arg : lakes[e.id].mem[k] # NoUnit
Written == FillsWritten /\ SlotsWritten /\ SendsWritten /\ NoBlankResponse

LEMMA EmptyFull == Full(EmptyLake)
BY DEF Full, EmptyLake

LEMMA WrittenInit == Init => Written
<1> SUFFICES ASSUME Init
             PROVE  Written
  OBVIOUS
<1>1. Waiting = {} /\ Done = {}
  BY EmptyRings DEF Init, KernelInit
<1>2. \A i \in Ids : Full(lakes[i])
  BY EmptyFull DEF Init, ServerInit
<1>3. NoBlankResponse
  BY DEF Init, KernelInit, NoBlankResponse
<1> QED
  BY <1>1, <1>2, <1>3 DEF Written, FillsWritten, SlotsWritten, SendsWritten

(* The slots change, no send is queued.                                    *)
LEMMA LakesWritten ==
  ASSUME TypeOK, Written, Waiting' \subseteq Waiting, got' = got, FillsWritten',
         \A i \in Ids : Full(lakes'[i]) /\ Keeps(lakes[i], lakes'[i])
  PROVE  Written'
<1>1. SlotsWritten'
  BY DEF SlotsWritten, Full
<1>2. SendsWritten'
  <2> SUFFICES ASSUME NEW e \in Waiting', e.op = "send", NEW k \in 1 .. e.arg
               PROVE  lakes'[e.id].mem[k] # NoUnit
    BY DEF SendsWritten
  <2>1. e \in SQE /\ e \in Waiting
    BY RingTypes
  <2>2. e.id \in Ids /\ e.arg \in 1 .. LakeCap
    BY <2>1, SqeKinds
  <2>3. k \in 1 .. LakeCap
    BY <2>2, KernelAssumption
  <2> QED
    BY <2>1, <2>2, <2>3 DEF Written, SendsWritten, Keeps
<1> QED
  BY <1>1, <1>2 DEF Written, NoBlankResponse

LEMMA FrameWritten ==
  ASSUME TypeOK, Written, lakes' = lakes, got' = got, bufmem' = bufmem,
         \A e \in Waiting' : e \in Waiting \/ e.op # "send",
         \A e \in Done' : e \in Done \/ ~IsFill(e)
  PROVE  Written'
<1>1. FillsWritten'
  BY DEF Written, FillsWritten, IsFill
<1>2. SendsWritten'
  BY DEF Written, SendsWritten
<1> QED
  BY <1>1, <1>2 DEF Written, SlotsWritten, Full, NoBlankResponse

LEMMA LoopTopWritten ==
  ASSUME TypeOK, Written, LoopTop
  PROVE  Written'
<1>1. UNCHANGED <<got, bufmem, out>> /\ lakes' = LakesFlushed
  BY DEF LoopTop, Flush, sockVars, bufVars, tableVars
<1>2. ASSUME NEW i \in Ids
      PROVE  Full(lakes'[i]) /\ lakes'[i].mem = lakes[i].mem
  <2>1. lakes[i] \in Lakes
    BY DEF TypeOK, ServerTypeOK
  <2>2. CASE i \in Sendable
    <3>1. lakes'[i] = [lakes[i] EXCEPT !.pos = 0]
      BY <1>1, <2>2 DEF LakesFlushed
    <3> QED
      BY <2>1, <3>1 DEF Lakes, Full
  <2>3. CASE i \notin Sendable
    <3>1. lakes'[i] = lakes[i]
      BY <1>1, <2>3 DEF LakesFlushed
    <3> QED
      BY <3>1 DEF Written, SlotsWritten
  <2> QED
    BY <2>2, <2>3
<1>3. FillsWritten'
  BY <1>1, LoopTopAdds DEF Written, FillsWritten
<1>4. SendsWritten'
  <2> SUFFICES ASSUME NEW e \in Waiting', e.op = "send", NEW k \in 1 .. e.arg
               PROVE  lakes'[e.id].mem[k] # NoUnit
    BY DEF SendsWritten
  <2>1. e \in SQE /\ (e \in Waiting \/ e \in Sends)
    BY LoopTopAdds, RingTypes DEF Sends
  <2>2. e.id \in Ids /\ e.arg \in 1 .. LakeCap
    BY <2>1, SqeKinds
  <2>3. CASE e \in Waiting
    BY <1>2, <2>2, <2>3 DEF Written, SendsWritten
  <2>4. CASE e \in Sends
    <3>1. k \in 1 .. LakeCap /\ k <= lakes[e.id].pos
      BY <2>2, <2>4, KernelAssumption DEF Sends
    <3> QED
      BY <1>2, <2>2, <3>1 DEF Written, SlotsWritten, Full
  <2> QED
    BY <2>1, <2>3, <2>4
<1> QED
  BY <1>1, <1>2, <1>3, <1>4 DEF Written, SlotsWritten, Full, NoBlankResponse

LEMMA ExecuteWritten ==
  ASSUME TypeOK, Written, Execute
  PROVE  Written'
<1>1. lakes' = lakes /\ bufmem' = bufmem
  BY DEF Execute, ExecProvide, ExecAccept, ExecArm, ExecSend, bufVars
<1>2. \A e \in Waiting' : e \in Waiting
  BY ExecAdds
<1>3. \A e \in Done' : e \in Done \/ ~IsFill(e)
  <2>1. CASE Completed' = Completed
    BY <2>1 DEF Done
  <2>2. CASE \E x \in CQE : Reports(x) /\ Completed' = Append(Completed, x)
    BY <2>2, DoneAppend DEF Reports
  <2> QED
    BY <2>1, <2>2, ExecAdds
<1>4. CASE got' = got
  BY <1>1, <1>2, <1>3, <1>4, FrameWritten
<1>5. CASE got' # got
  <2> DEFINE e == Head(sqShared)
             c == Target(e)
  <2>1. ExecSend(lakes)
    BY <1>5 DEF Execute, ExecProvide, ExecAccept, ExecArm, sockVars
  <2>2. e \in Waiting /\ e \in SQE /\ e.op = "send"
    BY <2>1, ExecAdds DEF ExecSend
  <2>3. e.id \in Ids /\ e.arg \in 1 .. LakeCap
    BY <2>2, SqeKinds
  <2>4. PICK n \in (IF LossySend THEN 0 .. e.arg ELSE {e.arg}) :
               got' = [got EXCEPT ![c] = @ \o [i \in 1 .. n |-> lakes[e.id].mem[i]]]
    BY <1>5, <2>1, Zenon DEF ExecSend
  <2>5. n \in 0 .. e.arg /\ n \in Nat
    BY <2>3, <2>4, KernelAssumption
  <2> DEFINE new == [i \in 1 .. n |-> lakes[e.id].mem[i]]
  <2>6. \A i \in DOMAIN new : new[i] # NoUnit
    BY <2>2, <2>3, <2>5 DEF Written, SendsWritten
  <2>7. new \in Seq(Memory)
    BY <2>3, <2>5, KernelAssumption DEF TypeOK, ServerTypeOK, Lakes
  <2> HIDE DEF new
  <2>8. NoBlankResponse'
    <3> SUFFICES ASSUME NEW d \in Conns, NEW k \in DOMAIN got'[d]
                 PROVE  got'[d][k] # NoUnit
      BY DEF NoBlankResponse
    <3>1. got[d] \in Seq(Memory) /\ \A m \in DOMAIN got[d] : got[d][m] # NoUnit
      BY DEF TypeOK, KernelTypeOK, Written, NoBlankResponse
    <3>2. got'[d] = got[d] \/ got'[d] = got[d] \o new
      BY <2>4 DEF TypeOK, KernelTypeOK, new
    <3>3. CASE got'[d] = got[d]
      BY <3>1, <3>3
    <3>4. CASE got'[d] = got[d] \o new
      <4>1. \/ k \in DOMAIN got[d] /\ got'[d][k] = got[d][k]
            \/ k - Len(got[d]) \in DOMAIN new /\ got'[d][k] = new[k - Len(got[d])]
        BY <2>7, <3>1, <3>4
      <4> QED
        BY <2>6, <3>1, <4>1
    <3> QED
      BY <3>2, <3>3, <3>4
  <2> QED
    BY <1>1, <1>2, <1>3, <2>8
    DEF Written, FillsWritten, SlotsWritten, SendsWritten, Full, IsFill
<1> QED
  BY <1>4, <1>5

(* A new client's slot is fresh; a send that is still queued belongs to an *)
(* earlier one.                                                            *)
LEMMA AcceptWritten ==
  ASSUME TypeOK, Known, Written, process_entry_accept
  PROVE  Written'
<1>1. /\ lakes' = [lakes EXCEPT ![next_id] = EmptyLake] /\ next_id \in Ids
      /\ UNCHANGED <<bufmem, got>> /\ Done' \subseteq Done
      /\ Waiting' \subseteq Waiting \cup Armings(next_id, Entry.arg)
  BY AcceptAdds DEF sockVars
<1>2. \A i \in Ids : lakes'[i] = IF i = next_id THEN EmptyLake ELSE lakes[i]
  BY <1>1 DEF TypeOK, ServerTypeOK
<1>3. SlotsWritten'
  BY <1>2, EmptyFull DEF Written, SlotsWritten, Full
<1>4. SendsWritten'
  <2> SUFFICES ASSUME NEW e \in Waiting', e.op = "send"
               PROVE  \A k \in 1 .. e.arg : lakes'[e.id].mem[k] # NoUnit
    BY DEF SendsWritten
  <2>1. e \in Waiting
    BY <1>1 DEF Armings
  <2>2. e.id \in Ids
    BY <2>1, RingTypes, SqeKinds
  <2>3. e.id < next_id
    BY <2>1 DEF Known, IdOps
  <2>4. e.id # next_id
    BY <1>1, <2>2, <2>3 DEF Ids
  <2> QED
    BY <1>2, <2>1, <2>2, <2>4 DEF Written, SendsWritten
<1> QED
  BY <1>1, <1>3, <1>4 DEF Written, FillsWritten, NoBlankResponse, IsFill

LEMMA ReplyWritten ==
  ASSUME TypeOK, BufInv, Written, request_reply
  PROVE  Written'
<1> DEFINE id == Entry.id
           b == Entry.arg
<1>1. id \in Ids /\ b \in Buffers /\ Entry \in Done /\ IsFill(Entry)
  BY ReplyFrees
<1>2. /\ lakes' = [lakes EXCEPT ![id] = LakeWrite(@, bufmem[b].front)]
      /\ bufmem' = Shifted(b) /\ UNCHANGED <<sqLocal, sqShared, got>>
  BY DEF request_reply, sockVars
<1>3. bufmem[b].front \in Memory /\ bufmem[b].front # NoUnit
  BY <1>1 DEF TypeOK, KernelTypeOK, Written, FillsWritten
<1>4. ASSUME NEW i \in Ids
      PROVE  Full(lakes'[i]) /\ Keeps(lakes[i], lakes'[i])
  <2>1. lakes[i] \in Lakes /\ Full(lakes[i])
    BY DEF TypeOK, ServerTypeOK, Written, SlotsWritten
  <2>2. lakes'[i] = IF i = id THEN LakeWrite(lakes[i], bufmem[b].front) ELSE lakes[i]
    BY <1>1, <1>2 DEF TypeOK, ServerTypeOK
  <2> QED
    BY <1>3, <2>1, <2>2, WriteFull DEF Keeps
<1>5. FillsWritten'
  <2> SUFFICES ASSUME NEW e \in Done', IsFill(e)
               PROVE  bufmem'[e.arg].front # NoUnit
    BY DEF FillsWritten, IsFill
  <2>1. e \in Done /\ e.arg # b /\ e.arg \in Buffers
    BY ReplyFrees, RingTypes, CqeKinds DEF IsFill
  <2>2. bufmem'[e.arg] = bufmem[e.arg]
    BY <1>2, <2>1 DEF Shifted, TypeOK, KernelTypeOK
  <2> QED
    BY <2>1, <2>2 DEF Written, FillsWritten
<1>6. Waiting' = Waiting
  BY <1>2, SameRings
<1> QED
  BY <1>2, <1>4, <1>5, <1>6, LakesWritten

LEMMA UbdmaWritten ==
  ASSUME TypeOK, Written, ubdma
  PROVE  Written'
<1>1. /\ Next_cqe /\ cqShared' = cqShared /\ Entry.op = "poll"
      /\ UNCHANGED <<sqLocal, sqShared, bufmem, got>>
  BY DEF ubdma, bufVars, sockVars
<1>2. Done' \subseteq Done /\ Entry \in CQE /\ Waiting' = Waiting
  BY <1>1, DoneTake, SameRings
<1>3. FillsWritten'
  BY <1>1, <1>2 DEF Written, FillsWritten, IsFill
<1>4. ASSUME NEW i \in Ids
      PROVE  Full(lakes'[i]) /\ Keeps(lakes[i], lakes'[i])
  <2>1. lakes[i] \in Lakes /\ Full(lakes[i])
    BY DEF TypeOK, ServerTypeOK, Written, SlotsWritten
  <2>2. \/ lakes' = lakes
        \/ /\ kbuf # NoBuf
           /\ lakes' = [lakes EXCEPT ![Entry.id] = Replayed(@, kbuf)]
    BY DEF ubdma
  <2>3. CASE lakes' = lakes
    BY <2>1, <2>3 DEF Keeps
  <2>4. CASE kbuf # NoBuf /\ lakes' = [lakes EXCEPT ![Entry.id] = Replayed(@, kbuf)]
    <3>1. kbuf \in Buffers
      BY <2>4 DEF TypeOK, ServerTypeOK
    <3>2. lakes'[i] = lakes[i] \/ lakes'[i] = Replayed(lakes[i], kbuf)
      BY <2>4 DEF TypeOK, ServerTypeOK
    <3> QED
      BY <2>1, <3>1, <3>2, ReplayFull DEF Keeps
  <2> QED
    BY <2>2, <2>3, <2>4
<1> QED
  BY <1>1, <1>2, <1>3, <1>4, LakesWritten

LEMMA EnvironmentWritten ==
  ASSUME TypeOK, BufInv, Written, NEW c \in Conns, Environment(c)
  PROVE  Written'
<1>1. UNCHANGED <<lakes, got, sqLocal, sqShared>> /\ Alive
  BY DEF Environment, serverVars, KernelAccept, KernelRecv, KernelPoll, PeerConnect, PeerSend,
     PeerLeave, ringVars
<1>2. Waiting' = Waiting
  BY <1>1, SameRings
<1>3. CASE KernelAccept(c)
  <2>1. PICK x \in CQE : ~IsFill(x) /\ Completed' = Append(Completed, x)
    BY <1>3, AcceptPosts DEF Cqe, IsFill
  <2> QED
    BY <1>1, <1>2, <1>3, <2>1, DoneAppend, FrameWritten DEF KernelAccept, bufVars
<1>4. CASE KernelPoll(c)
  <2>1. PICK x \in CQE : ~IsFill(x) /\ Completed' = Append(Completed, x)
    BY <1>4, PollPosts DEF Cqe, IsFill
  <2> QED
    BY <1>1, <1>2, <1>4, <2>1, DoneAppend, FrameWritten DEF KernelPoll, bufVars
<1>5. CASE PeerConnect(c) \/ PeerSend(c) \/ PeerLeave(c)
  BY <1>1, <1>2, <1>5, SameRings, FrameWritten DEF PeerConnect, PeerSend, PeerLeave, ringVars,
     bufVars
<1>6. CASE KernelRecv(c) /\ bufmem' = bufmem
             /\ \E x \in CQE : ~IsFill(x) /\ Completed' = Append(Completed, x)
  BY <1>1, <1>2, <1>6, DoneAppend, FrameWritten
<1>7. CASE KernelRecv(c) /\ inbox[c] # <<>>
             /\ \E b \in pool :
                  /\ bufmem' = [bufmem EXCEPT ![b].front = Head(inbox[c])]
                  /\ Cqe("recv", recv[c], "ok", b) \in CQE
                  /\ Completed' = Append(Completed, Cqe("recv", recv[c], "ok", b))
  <2>1. PICK b \in pool :
               /\ inbox[c] # <<>>
               /\ bufmem' = [bufmem EXCEPT ![b].front = Head(inbox[c])]
               /\ Cqe("recv", recv[c], "ok", b) \in CQE
               /\ Completed' = Append(Completed, Cqe("recv", recv[c], "ok", b))
    BY <1>7
  <2>2. Head(inbox[c]) \in Units
    BY <2>1, HeadTailProperties DEF TypeOK, KernelTypeOK
  <2>3. Head(inbox[c]) # NoUnit
    BY <2>2 DEF Units, NoUnit
  <2>4. Done' = Done \cup {Cqe("recv", recv[c], "ok", b)}
    BY <2>1, DoneAppend
  <2>5. b \in Buffers /\ bufmem'[b].front = Head(inbox[c])
    BY <2>1 DEF TypeOK, KernelTypeOK
  <2>6. FillsWritten'
    <3> SUFFICES ASSUME NEW e \in Done', IsFill(e)
                 PROVE  bufmem'[e.arg].front # NoUnit
      BY DEF FillsWritten, IsFill
    <3>1. CASE e \in Done
      <4>1. e.arg # b /\ e.arg \in Buffers
        BY <1>1, <3>1, PoolUnfilled, RingTypes, CqeKinds DEF IsFill
      <4>2. bufmem'[e.arg] = bufmem[e.arg]
        BY <2>1, <4>1 DEF TypeOK, KernelTypeOK
      <4> QED
        BY <3>1, <4>2 DEF Written, FillsWritten
    <3>2. CASE e = Cqe("recv", recv[c], "ok", b)
      BY <2>3, <2>5, <3>2 DEF Cqe
    <3> QED
      BY <2>4, <3>1, <3>2
  <2>7. \A i \in Ids : Full(lakes'[i]) /\ Keeps(lakes[i], lakes'[i])
    BY <1>1 DEF Written, SlotsWritten, Keeps
  <2> QED
    BY <1>1, <1>2, <2>6, <2>7, LakesWritten
<1>8. ASSUME KernelRecv(c)
      PROVE  \/ bufmem' = bufmem /\ \E x \in CQE : ~IsFill(x) /\ Completed' = Append(Completed, x)
             \/ /\ inbox[c] # <<>>
                /\ \E b \in pool :
                     /\ bufmem' = [bufmem EXCEPT ![b].front = Head(inbox[c])]
                     /\ Cqe("recv", recv[c], "ok", b) \in CQE
                     /\ Completed' = Append(Completed, Cqe("recv", recv[c], "ok", b))
  <2>1. \A res \in Failures : ~IsFill(Cqe("recv", recv[c], res, NoBuf))
    BY DEF IsFill, Cqe, Failures
  <2> QED
    BY <1>8, <2>1, RecvPosts
<1> QED
  BY <1>3, <1>4, <1>5, <1>6, <1>7, <1>8 DEF Environment

LEMMA WrittenNext == TypeOK /\ BufInv /\ Known /\ Written /\ [Next]_vars => Written'
<1> SUFFICES ASSUME TypeOK, BufInv, Known, Written, [Next]_vars
             PROVE  Written'
  OBVIOUS
<1>1. CASE register_buffers \/ release_push \/ start_accepts
  <2>1. UNCHANGED <<lakes, got, bufmem>>
    BY <1>1 DEF register_buffers, release_push, start_accepts, sockVars, bufVars
  <2>2. Done' = Done /\ \A e \in Waiting' : e \in Waiting \/ e.op # "send"
    BY <1>1, StartAdds
  <2> QED
    BY <2>1, <2>2, FrameWritten
<1>2. CASE \/ wideband_send_panics \/ Return \/ EnterFails \/ release_clear \/ EndOfBatch
           \/ UNCHANGED vars \/ reserve_writes_buffer
  <2>1. UNCHANGED <<lakes, kernelVars>>
    BY <1>2 DEF wideband_send_panics, Return, EnterFails, release_clear, EndOfBatch, vars,
       serverVars, reserve_writes_buffer
  <2>2. Done' = Done /\ Waiting' = Waiting
    BY <2>1, SameRings DEF kernelVars, ringVars
  <2> QED
    BY <2>1, <2>2, FrameWritten DEF kernelVars, bufVars, sockVars
<1>3. CASE process_ignored \/ accept_panics \/ process_no_buffers \/ close_connection
  <2>1. /\ Next_cqe /\ cqShared' = cqShared
        /\ UNCHANGED <<lakes, got, bufmem, sqLocal, sqShared>>
    BY <1>3 DEF process_ignored, accept_panics, process_no_buffers, close_connection,
       serverVars, bufVars, sockVars
  <2>2. Done' \subseteq Done /\ Waiting' = Waiting
    BY <2>1, DoneTake, SameRings
  <2> QED
    BY <2>1, <2>2, FrameWritten
<1>4. CASE Restart
  <2>1. Waiting' = {} /\ Done' = {}
    BY <1>4 DEF Restart, KernelReset, Waiting, Done, Queued, Completed, Range
  <2>2. (\A i \in Ids : Full(lakes'[i])) /\ got' = got
    BY <1>4, EmptyFull DEF Restart, KernelReset
  <2> QED
    BY <2>1, <2>2 DEF Written, FillsWritten, SlotsWritten, SendsWritten, Full, NoBlankResponse
<1>5. CASE \E c \in Conns : Environment(c)
  BY <1>5, EnvironmentWritten
<1> QED
  BY <1>1, <1>2, <1>3, <1>4, <1>5, LoopTopWritten, ExecuteWritten, AcceptWritten, ReplyWritten,
     UbdmaWritten
  DEF Next, Worker, process_entry, Rest

(* No peer is ever sent the zeros of a fresh output slot, whatever the     *)
(* order of sends, closes and accepts: a send that is queued when its      *)
(* client is closed still points to memory that holds its response, as ids *)
(* are never given out again (wideband_send, close_connection,             *)
(* process_entry_accept), also with ubdma's replays.                       *)
THEOREM NoBlankResponses == Spec => []NoBlankResponse
<1>1. Written => NoBlankResponse
  BY DEF Written
<1> QED
  BY <1>1, TypeInit, TypeNext, BufInit, BufNext, KnownInit, KnownNext, WrittenInit, WrittenNext,
     PTL
  DEF Spec

-----------------------------------------------------------------------------
(* The client tables                                                       *)

AcceptOf(f) == {e \in CQE : e.op = "accept" /\ e.res = "ok" /\ e.arg = f}
Arrived(f) == Has(Completed, AcceptOf(f))
IsClient(f) == \E i \in out : client_fds[i] = f

(* The default descriptor of close_connection, 0xFF, is no client's. With  *)
(* a client there, the close of an unknown client closes the client's      *)
(* connection and the tables disagree (run cursed_close).                  *)
Uncursed == CursedFd \notin Fds

(* A descriptor is in the completion of its accept until it is in the      *)
(* tables, and then in exactly one place of them.                          *)
Tables ==
  /\ \A i \in Ids : i \in out <=> client_fds[i] \in Fds
  /\ \A i \in out : fdTable[client_fds[i]] # NoConn
  /\ \A i, j \in out : client_fds[i] = client_fds[j] => i = j
  /\ \A f \in Fds : Once(Completed, AcceptOf(f))
  /\ \A f \in Fds : Arrived(f) => fdTable[f] # NoConn /\ ~IsClient(f)
  /\ Alive /\ restarts = 0 =>
       \A f \in Fds : fdTable[f] # NoConn => IsClient(f) \/ Arrived(f)
  /\ pc = "failed" => restarts # 0

LEMMA TablesInit == Init => Tables
<1> SUFFICES ASSUME Init
             PROVE  Tables
  OBVIOUS
<1>1. Completed = <<>>
  BY EmptyRings DEF Init, KernelInit
<1>2. \A f \in Fds : ~Arrived(f) /\ Once(Completed, AcceptOf(f))
  BY <1>1, EmptyHas DEF Arrived
<1>3. NoFd \notin Fds
  BY KernelAssumption DEF NoFd
<1> QED
  BY <1>2, <1>3 DEF Init, KernelInit, ServerInit, Tables

LEMMA EntryPlaces ==
  ASSUME TypeOK, Next_cqe, cqShared' = cqShared, NEW S
  PROVE  /\ Has(Completed, S) <=> Entry \in S \/ Has(Completed', S)
         /\ Once(Completed, S) => Once(Completed', S) /\ ~(Entry \in S /\ Has(Completed', S))
<1>1. /\ Completed \in Seq(CQE) /\ Completed # <<>> /\ Head(Completed) = Entry
      /\ Completed' = Tail(Completed)
  BY CompletedTake, Rings
<1> QED
  BY <1>1, TailHas

LEMMA PostPlaces ==
  ASSUME TypeOK, NEW x \in CQE, Completed' = Append(Completed, x), NEW S
  PROVE  /\ Has(Completed', S) <=> Has(Completed, S) \/ x \in S
         /\ Once(Completed, S) /\ ~(Has(Completed, S) /\ x \in S) => Once(Completed', S)
BY Rings, AppendHas

(* A step that leaves the tables alone.                                    *)
LEMMA TablesFrame ==
  ASSUME Tables, UNCHANGED <<client_fds, out, fdTable>>,
         \A f \in Fds : /\ Arrived(f)' => Arrived(f)
                        /\ Once(Completed, AcceptOf(f)) => Once(Completed, AcceptOf(f))'
                        /\ Alive' /\ Arrived(f) => Arrived(f)',
         Alive' /\ restarts' = 0 => Alive /\ restarts = 0,
         pc' = "failed" => restarts' # 0
  PROVE  Tables'
BY DEF Tables, IsClient

(* The completions of accepts are where they were.                         *)
LEMMA ArrivedSame ==
  ASSUME Completed' = Completed
  PROVE  \A f \in Fds : /\ Arrived(f)' <=> Arrived(f)
                        /\ Once(Completed, AcceptOf(f)) => Once(Completed, AcceptOf(f))'
BY DEF Arrived, Has, Once

LEMMA ArrivedPost ==
  ASSUME TypeOK, NEW x \in CQE, Completed' = Append(Completed, x), x.op # "accept" \/ x.res # "ok"
  PROVE  \A f \in Fds : /\ Arrived(f)' <=> Arrived(f)
                        /\ Once(Completed, AcceptOf(f)) => Once(Completed, AcceptOf(f))'
<1> SUFFICES ASSUME NEW f \in Fds
             PROVE  /\ Arrived(f)' <=> Arrived(f)
                    /\ Once(Completed, AcceptOf(f)) => Once(Completed, AcceptOf(f))'
  OBVIOUS
<1>1. x \notin AcceptOf(f)
  BY DEF AcceptOf
<1> QED
  BY <1>1, PostPlaces DEF Arrived

LEMMA AcceptTables ==
  ASSUME TypeOK, Known, Tables, process_entry_accept
  PROVE  Tables'
<1> DEFINE fd == Entry.arg
           id == next_id
<1>1. /\ Entry.op = "accept" /\ Entry.res = "ok" /\ fd \in Fds /\ id \in Ids
      /\ out' = out \cup {id} /\ client_fds' = [client_fds EXCEPT ![id] = fd]
      /\ UNCHANGED <<fdTable, pc, restarts>>
  BY AcceptAdds DEF sockVars
<1>2. Next_cqe /\ cqShared' = cqShared /\ Entry \in CQE
  BY EntryType DEF process_entry_accept
<1>3. id \notin out
  BY <1>1 DEF Known, Ids
<1>4. \A i \in Ids : client_fds'[i] = IF i = id THEN fd ELSE client_fds[i]
  BY <1>1 DEF TypeOK, ServerTypeOK
<1>5. \A f \in Fds : Entry \in AcceptOf(f) <=> f = fd
  BY <1>1, <1>2 DEF AcceptOf
<1>6. /\ Arrived(fd)
      /\ \A f \in Fds : Arrived(f)' <=> Arrived(f) /\ f # fd
      /\ \A f \in Fds : Once(Completed, AcceptOf(f))'
  <2>1. \A f \in Fds : /\ Arrived(f) <=> f = fd \/ Arrived(f)'
                       /\ Once(Completed, AcceptOf(f))' /\ ~(f = fd /\ Arrived(f)')
    <3> SUFFICES ASSUME NEW f \in Fds
                 PROVE  /\ Arrived(f) <=> f = fd \/ Arrived(f)'
                        /\ Once(Completed, AcceptOf(f))' /\ ~(f = fd /\ Arrived(f)')
      OBVIOUS
    <3>1. Entry \in AcceptOf(f) <=> f = fd
      BY <1>5
    <3>2. Once(Completed, AcceptOf(f))
      BY DEF Tables
    <3>3. /\ Has(Completed, AcceptOf(f)) <=> Entry \in AcceptOf(f) \/ Has(Completed', AcceptOf(f))
          /\ Once(Completed', AcceptOf(f))
          /\ ~(Entry \in AcceptOf(f) /\ Has(Completed', AcceptOf(f)))
      BY <1>2, <3>2, EntryPlaces
    <3> QED
      BY <3>1, <3>3 DEF Arrived
  <2> QED
    BY <1>1, <2>1
<1>7. \A f \in Fds : IsClient(f)' <=> IsClient(f) \/ f = fd
  <2>1. out \subseteq Ids
    BY DEF TypeOK, ServerTypeOK
  <2>2. \A i \in out' : i = id \/ (i \in out /\ client_fds'[i] = client_fds[i])
    BY <1>1, <1>4, <2>1
  <2>3. \A i \in out : i \in out' /\ client_fds'[i] = client_fds[i]
    BY <1>1, <1>3, <1>4, <2>1
  <2>4. id \in out' /\ client_fds'[id] = fd
    BY <1>1, <1>4
  <2> QED
    BY <2>2, <2>3, <2>4 DEF IsClient
<1>8. fdTable[fd] # NoConn /\ ~IsClient(fd)
  BY <1>1, <1>6 DEF Tables
<1>9. \A i \in Ids : i \in out' <=> client_fds'[i] \in Fds
  BY <1>1, <1>4 DEF Tables
<1>10. \A i \in out' : i \in Ids /\ fdTable'[client_fds'[i]] # NoConn
  BY <1>1, <1>4, <1>8 DEF Tables, TypeOK, ServerTypeOK
<1>11. \A i, j \in out' : client_fds'[i] = client_fds'[j] => i = j
  <2> SUFFICES ASSUME NEW i \in out', NEW j \in out', client_fds'[i] = client_fds'[j]
               PROVE  i = j
    OBVIOUS
  <2>1. \A k \in out' : /\ k \in out \cup {id}
                        /\ client_fds'[k] = IF k = id THEN fd ELSE client_fds[k]
    BY <1>1, <1>4, <1>10
  <2>2. \A k \in out : client_fds[k] # fd
    BY <1>8 DEF IsClient
  <2>3. CASE i = id \/ j = id
    BY <2>1, <2>2, <2>3
  <2>4. CASE i # id /\ j # id
    BY <2>1, <2>4 DEF Tables
  <2> QED
    BY <2>3, <2>4
<1>12. \A f \in Fds : Arrived(f)' => fdTable'[f] # NoConn /\ ~IsClient(f)'
  BY <1>1, <1>6, <1>7 DEF Tables
<1>13. Alive' /\ restarts' = 0 =>
         \A f \in Fds : fdTable'[f] # NoConn => IsClient(f)' \/ Arrived(f)'
  BY <1>1, <1>6, <1>7 DEF Tables, Alive
<1> QED
  BY <1>1, <1>6, <1>9, <1>10, <1>11, <1>12, <1>13 DEF Tables

LEMMA CloseTables ==
  ASSUME TypeOK, Uncursed, Tables, close_connection
  PROVE  Tables'
<1> DEFINE id == Entry.id
           f0 == client_fds[id]
<1>1. Next_cqe /\ cqShared' = cqShared /\ Closes(Entry) /\ UNCHANGED <<pc, restarts>>
  BY DEF close_connection
<1>2. Entry \in CQE /\ id \in Ids
  BY <1>1, EntryType, CqeKinds
<1>3. out' = out \ {id} /\ client_fds' = [client_fds EXCEPT ![id] = NoFd]
  BY DEF close_connection, SlotRemoved
<1>4. \A i \in Ids : client_fds'[i] = IF i = id THEN NoFd ELSE client_fds[i]
  BY <1>2, <1>3 DEF TypeOK, ServerTypeOK
<1>5. /\ f0 \in Fds => fdTable' = [fdTable EXCEPT ![f0] = NoConn]
      /\ f0 \notin Fds => fdTable' = fdTable
  <2>1. NoFd \notin Fds /\ ReservedFd \notin Fds
    BY KernelAssumption, ReactorAssumption DEF NoFd
  <2> QED
    BY <2>1 DEF close_connection, CloseFd, Uncursed
<1>6. \A f \in Fds : Entry \notin AcceptOf(f)
  BY <1>1, <1>2 DEF AcceptOf, Closes
<1>7. \A f \in Fds : (Arrived(f)' <=> Arrived(f)) /\ Once(Completed, AcceptOf(f))'
  BY <1>1, <1>6, EntryPlaces DEF Arrived, Tables
<1>8. \A f \in Fds : fdTable'[f] = IF f = f0 THEN NoConn ELSE fdTable[f]
  BY <1>5 DEF TypeOK, KernelTypeOK
<1>9. id \in out <=> f0 \in Fds
  BY <1>2 DEF Tables
<1>10. \A f \in Fds : IsClient(f)' <=> IsClient(f) /\ f # f0
  <2>1. \A i \in out' : i \in out /\ i \in Ids /\ i # id /\ client_fds'[i] = client_fds[i]
    BY <1>3, <1>4 DEF TypeOK, ServerTypeOK
  <2>2. \A i \in out : i # id => i \in out' /\ client_fds'[i] = client_fds[i]
    BY <1>3, <1>4 DEF TypeOK, ServerTypeOK
  <2> QED
    BY <1>9, <2>1, <2>2 DEF IsClient, Tables
<1>11. NoFd \notin Fds
  BY KernelAssumption DEF NoFd
<1>12. \A i \in Ids : i \in out' <=> client_fds'[i] \in Fds
  BY <1>3, <1>4, <1>11 DEF Tables
<1>13. \A i \in out' : fdTable'[client_fds'[i]] # NoConn
  <2> SUFFICES ASSUME NEW i \in out'
               PROVE  fdTable'[client_fds'[i]] # NoConn
    OBVIOUS
  <2>1. i \in out /\ i \in Ids /\ i # id /\ client_fds'[i] = client_fds[i]
    BY <1>3, <1>4 DEF TypeOK, ServerTypeOK
  <2>2. client_fds[i] \in Fds /\ client_fds[i] # f0
    BY <1>9, <2>1 DEF Tables
  <2> QED
    BY <1>8, <2>1, <2>2 DEF Tables
<1>14. \A i, j \in out' : client_fds'[i] = client_fds'[j] => i = j
  BY <1>3, <1>4 DEF Tables, TypeOK, ServerTypeOK
<1>15. \A f \in Fds : Arrived(f)' => fdTable'[f] # NoConn /\ ~IsClient(f)'
  <2>1. f0 \in Fds => ~Arrived(f0)
    BY <1>9 DEF Tables, IsClient
  <2> QED
    BY <1>7, <1>8, <1>10, <2>1 DEF Tables
<1>16. Alive' /\ restarts' = 0 =>
         \A f \in Fds : fdTable'[f] # NoConn => IsClient(f)' \/ Arrived(f)'
  BY <1>1, <1>7, <1>8, <1>10 DEF Tables, Alive
<1> QED
  BY <1>1, <1>7, <1>12, <1>13, <1>14, <1>15, <1>16 DEF Tables

LEMMA KernelAcceptTables ==
  ASSUME TypeOK, Tables, NEW c \in Conns, KernelAccept(c),
         UNCHANGED <<client_fds, out, pc, restarts>>
  PROVE  Tables'
<1>1. CASE \E f \in Fds : /\ fdTable[f] = NoConn /\ fdTable' = [fdTable EXCEPT ![f] = c]
                          /\ Cqe("accept", NoId, "ok", f) \in CQE
                          /\ Completed' = Append(Completed, Cqe("accept", NoId, "ok", f))
  <2>1. PICK f \in Fds : /\ fdTable[f] = NoConn /\ fdTable' = [fdTable EXCEPT ![f] = c]
                         /\ Cqe("accept", NoId, "ok", f) \in CQE
                         /\ Completed' = Append(Completed, Cqe("accept", NoId, "ok", f))
    BY <1>1
  <2>2. \A g \in Fds : Cqe("accept", NoId, "ok", f) \in AcceptOf(g) <=> g = f
    BY <2>1 DEF AcceptOf, Cqe
  <2>3. ~Arrived(f) /\ ~IsClient(f)
    BY <2>1 DEF Tables, IsClient
  <2>4. \A g \in Fds : /\ Arrived(g)' <=> Arrived(g) \/ g = f
                       /\ Once(Completed, AcceptOf(g))'
    BY <2>1, <2>2, <2>3, PostPlaces DEF Arrived, Tables
  <2>5. \A g \in Fds : fdTable'[g] = IF g = f THEN c ELSE fdTable[g]
    BY <2>1 DEF TypeOK, KernelTypeOK
  <2>6. c # NoConn
    BY KernelAssumption
  <2>7. \A g \in Fds : IsClient(g)' <=> IsClient(g)
    BY DEF IsClient
  <2>8. \A i \in out : fdTable'[client_fds[i]] # NoConn
    BY <2>5, <2>6 DEF Tables, TypeOK, ServerTypeOK
  <2>9. \A g \in Fds : Arrived(g)' => fdTable'[g] # NoConn /\ ~IsClient(g)'
    BY <2>3, <2>4, <2>5, <2>6, <2>7 DEF Tables
  <2>10. Alive' /\ restarts' = 0 =>
           \A g \in Fds : fdTable'[g] # NoConn => IsClient(g)' \/ Arrived(g)'
    BY <2>4, <2>5, <2>7 DEF Tables, Alive
  <2> QED
    BY <2>4, <2>8, <2>9, <2>10 DEF Tables
<1>2. CASE /\ fdTable' = fdTable
           /\ Cqe("accept", NoId, "error", NoBuf) \in CQE
           /\ Completed' = Append(Completed, Cqe("accept", NoId, "error", NoBuf))
  <2>1. Cqe("accept", NoId, "error", NoBuf).res # "ok"
    BY DEF Cqe
  <2> QED
    BY <1>2, <2>1, ArrivedPost, TablesFrame DEF Tables, Alive
<1> QED
  BY <1>1, <1>2, AcceptPosts

LEMMA RestartTables ==
  ASSUME TypeOK, Tables, Restart
  PROVE  Tables'
<1>1. /\ out' = {} /\ client_fds' = [i \in Ids |-> NoFd] /\ fdTable' = fdTable
      /\ restarts' = restarts /\ pc = "failed" /\ pc' = "boot" /\ Completed' = <<>>
  BY DEF Restart, KernelReset, Completed
<1>2. \A f \in Fds : ~Arrived(f)' /\ Once(Completed, AcceptOf(f))'
  BY <1>1, EmptyHas DEF Arrived
<1>3. NoFd \notin Fds
  BY KernelAssumption DEF NoFd
<1> QED
  BY <1>1, <1>2, <1>3 DEF Tables

LEMMA ReserveTables ==
  ASSUME TypeOK, Known, Tables, reserve_writes_buffer
  PROVE  Tables'
<1>1. /\ out = {} /\ out' = out /\ pc' = "top" /\ Alive
      /\ client_fds' = [i \in Ids |-> IF i < ReservedIds THEN ReservedFd ELSE client_fds[i]]
      /\ UNCHANGED <<fdTable, restarts, cqLocal, cqShared>>
  BY DEF reserve_writes_buffer, Known, Starting, Alive, kernelVars, ringVars, sockVars
<1>2. Completed' = Completed
  BY <1>1 DEF Completed
<1>3. \A f \in Fds : (Arrived(f)' <=> Arrived(f)) /\ Once(Completed, AcceptOf(f))'
  BY <1>2, ArrivedSame DEF Tables
<1>4. \A i \in Ids : client_fds'[i] \notin Fds
  BY <1>1, ReactorAssumption DEF Tables
<1> QED
  BY <1>1, <1>3, <1>4 DEF Tables, IsClient

LEMMA EntryTables ==
  ASSUME TypeOK, Uncursed \/ ~close_connection, Known, Tables, process_entry
  PROVE  Tables'
<1>1. CASE accept_panics
  <2>1. /\ UNCHANGED <<client_fds, out, fdTable, restarts>> /\ pc' = "aborted"
        /\ Next_cqe /\ cqShared' = cqShared
    BY <1>1 DEF accept_panics, tableVars, sockVars
  <2>2. \A f \in Fds : /\ Arrived(f)' => Arrived(f)
                       /\ Once(Completed, AcceptOf(f)) => Once(Completed, AcceptOf(f))'
    BY <2>1, EntryPlaces DEF Arrived
  <2>3. ~Alive'
    BY <2>1 DEF Alive
  <2> QED
    BY <2>1, <2>2, <2>3, TablesFrame
<1>2. CASE process_ignored \/ process_no_buffers \/ request_reply \/ ubdma
  <2>1. /\ UNCHANGED <<client_fds, out, fdTable, restarts>>
        /\ Next_cqe /\ cqShared' = cqShared
    BY <1>2 DEF process_ignored, process_no_buffers, request_reply, ubdma, serverVars, tableVars,
       sockVars
  <2>2. Alive /\ pc' # "failed"
    BY <1>2 DEF process_ignored, process_no_buffers, request_reply, ubdma, release_buffers,
       Submit, Next_cqe, serverVars, Alive
  <2>3. Entry \in CQE /\ (Entry.op # "accept" \/ Entry.res # "ok")
    BY <1>2, <2>1, EntryType
    DEF process_ignored, process_no_buffers, request_reply, ubdma, Ignored
  <2>4. \A f \in Fds : Entry \notin AcceptOf(f)
    BY <2>3 DEF AcceptOf
  <2>5. \A f \in Fds : /\ Arrived(f)' <=> Arrived(f)
                       /\ Once(Completed, AcceptOf(f)) => Once(Completed, AcceptOf(f))'
    BY <2>1, <2>4, EntryPlaces DEF Arrived
  <2> QED
    BY <2>1, <2>2, <2>5, TablesFrame
<1> QED
  BY <1>1, <1>2, AcceptTables, CloseTables DEF process_entry

LEMMA WorkerTables ==
  ASSUME TypeOK, Tables,
         \/ register_buffers \/ start_accepts \/ LoopTop \/ Execute \/ wideband_send_panics
         \/ Return \/ EnterFails \/ release_push \/ release_clear \/ EndOfBatch
         \/ UNCHANGED vars
  PROVE  Tables'
<1>1. UNCHANGED <<client_fds, out, fdTable>>
  <2>1. CASE Execute
    BY <2>1 DEF Execute, ExecProvide, ExecAccept, ExecArm, ExecSend, tableVars, sockVars
  <2>2. CASE ~Execute
    BY <2>2 DEF register_buffers, start_accepts, LoopTop, wideband_send_panics, Return,
       EnterFails, release_push, release_clear, EndOfBatch, tableVars, kernelVars, sockVars, vars,
       serverVars
  <2> QED
    BY <2>1, <2>2
<1>2. \A f \in Fds : /\ Arrived(f)' <=> Arrived(f)
                     /\ Once(Completed, AcceptOf(f)) => Once(Completed, AcceptOf(f))'
  <2>1. CASE Execute
    BY <2>1, ExecAdds, ArrivedSame, ArrivedPost DEF Reports
  <2>2. CASE LoopTop
    BY <2>2, LoopTopAdds, ArrivedSame
  <2>3. CASE ~Execute /\ ~LoopTop
    <3>1. UNCHANGED <<cqLocal, cqShared>>
      BY <2>3 DEF register_buffers, start_accepts, wideband_send_panics, Return, EnterFails,
         release_push, release_clear, EndOfBatch, kernelVars, ringVars, vars
    <3> QED
      BY <3>1, ArrivedSame DEF Completed
  <2> QED
    BY <2>1, <2>2, <2>3
<1>3. CASE EnterFails
  <2>1. ~Alive' /\ restarts' # 0
    BY <1>3 DEF EnterFails, Alive, TypeOK, ServerTypeOK
  <2> QED
    BY <1>1, <1>2, <2>1, TablesFrame
<1>4. CASE UNCHANGED vars
  <2>1. UNCHANGED <<pc, restarts>>
    BY <1>4 DEF vars, serverVars
  <2> QED
    BY <1>1, <1>2, <2>1, TablesFrame DEF Tables, Alive
<1>5. CASE ~EnterFails /\ ~UNCHANGED vars
  <2>1. Alive /\ restarts' = restarts /\ pc' # "failed"
    <3>1. CASE register_buffers \/ start_accepts \/ LoopTop \/ Execute
      BY <3>1 DEF register_buffers, start_accepts, LoopTop, Execute, Submit, Alive
    <3>2. CASE wideband_send_panics \/ Return \/ release_push \/ release_clear \/ EndOfBatch
      BY <3>2 DEF wideband_send_panics, Return, release_push, release_clear, EndOfBatch,
         release_buffers, Submit, Alive, TypeOK, ServerTypeOK
    <3> QED
      BY <1>5, <3>1, <3>2
  <2> QED
    BY <1>1, <1>2, <2>1, TablesFrame
<1> QED
  BY <1>3, <1>4, <1>5

LEMMA EnvironmentTables ==
  ASSUME TypeOK, Tables, NEW c \in Conns, Environment(c)
  PROVE  Tables'
<1>1. UNCHANGED <<client_fds, out, pc, restarts>>
  BY DEF Environment, serverVars, tableVars
<1>2. CASE ~KernelAccept(c)
  <2>1. fdTable' = fdTable
    BY <1>2 DEF Environment, KernelRecv, KernelPoll, PeerConnect, PeerSend, PeerLeave
  <2>2. \A f \in Fds : /\ Arrived(f)' <=> Arrived(f)
                       /\ Once(Completed, AcceptOf(f)) => Once(Completed, AcceptOf(f))'
    <3>1. \/ Completed' = Completed
          \/ \E x \in CQE : Completed' = Append(Completed, x) /\ x.op # "accept"
      <4>1. CASE KernelRecv(c)
        <5>1. \A res, b : Cqe("recv", recv[c], res, b).op # "accept"
          BY DEF Cqe
        <5> QED
          BY <4>1, <5>1, RecvPosts
      <4>2. CASE KernelPoll(c)
        <5>1. Cqe("poll", poll[c], "ok", NoBuf).op # "accept"
          BY DEF Cqe
        <5> QED
          BY <4>2, <5>1, PollPosts
      <4>3. CASE PeerConnect(c) \/ PeerSend(c) \/ PeerLeave(c)
        BY <4>3 DEF PeerConnect, PeerSend, PeerLeave, ringVars, Completed
      <4> QED
        BY <1>2, <4>1, <4>2, <4>3 DEF Environment
    <3> QED
      BY <3>1, ArrivedSame, ArrivedPost
  <2> QED
    BY <1>1, <2>1, <2>2, TablesFrame DEF Tables, Alive
<1> QED
  BY <1>1, <1>2, KernelAcceptTables

LEMMA TablesNext ==
  ASSUME TypeOK, Uncursed \/ ~close_connection, Known, Tables, [Next]_vars
  PROVE  Tables'
<1>1. CASE \E c \in Conns : Environment(c)
  BY <1>1, EnvironmentTables
<1>2. CASE Restart \/ reserve_writes_buffer \/ process_entry
  BY <1>2, RestartTables, ReserveTables, EntryTables
<1>3. CASE Rest \/ UNCHANGED vars
  BY <1>3, WorkerTables DEF Rest
<1> QED
  BY <1>1, <1>2, <1>3, WorkerTables DEF Next, Worker

(* The client tables agree with each other and with the open descriptors,  *)
(* for every number of clients, as long as 0xFF is no client's descriptor: *)
(* the default of close_connection for a client that is gone must not be a *)
(* client (process_entry_accept, close_connection, reserve_writes_buffer). *)
THEOREM TablesAlwaysAgree == Spec => [](Uncursed => TablesAgree)
<1> DEFINE Inv == Uncursed => Tables
<1>1. Init => Inv
  BY TablesInit
<1>2. TypeOK /\ Known /\ Inv /\ [Next]_vars => Inv'
  BY TablesNext DEF Uncursed
<1>3. TypeOK /\ Inv => (Uncursed => TablesAgree)
  <2> SUFFICES ASSUME TypeOK, Tables
               PROVE  TablesAgree
    OBVIOUS
  <2>1. \A f \in Fds : Arrived(f) =>
          \E n \in DOMAIN Completed :
            Completed[n].op = "accept" /\ Completed[n].res = "ok" /\ Completed[n].arg = f
    BY DEF Arrived, Has, AcceptOf
  <2> QED
    BY <2>1 DEF Tables, TablesAgree, IsClient
<1> QED
  BY <1>1, <1>2, <1>3, TypeInit, TypeNext, KnownInit, KnownNext, PTL DEF Spec

-----------------------------------------------------------------------------
(* The operations of a client are its own                                  *)

ConnOf(i) == fdTable[client_fds[i]]

(* A client keeps its descriptor and its connection.                       *)
LEMMA ConnStable ==
  ASSUME TypeOK, Uncursed \/ ~close_connection, Known, Tables, [Next]_vars, NEW i \in out'
  PROVE  \/ i \in out /\ client_fds'[i] = client_fds[i] /\ ConnOf(i)' = ConnOf(i)
         \/ process_entry_accept /\ i = next_id
<1>1. CASE process_entry_accept
  <2>1. /\ out' = out \cup {next_id} /\ client_fds' = [client_fds EXCEPT ![next_id] = Entry.arg]
        /\ fdTable' = fdTable
    BY <1>1, AcceptAdds DEF sockVars
  <2>2. i # next_id => i \in out /\ i \in Ids /\ client_fds'[i] = client_fds[i]
    BY <2>1 DEF TypeOK, ServerTypeOK
  <2> QED
    BY <1>1, <2>1, <2>2 DEF ConnOf
<1>2. CASE close_connection
  <2> DEFINE id == Entry.id
             f0 == client_fds[id]
  <2>1. id \in Ids
    BY <1>2, EntryType, CqeKinds DEF close_connection
  <2>2. i \in out /\ i # id /\ i \in Ids /\ client_fds'[i] = client_fds[i]
    BY <1>2, <2>1 DEF close_connection, SlotRemoved, TypeOK, ServerTypeOK
  <2>3. client_fds[i] \in Fds /\ (f0 \in Fds => f0 # client_fds[i])
    BY <2>1, <2>2 DEF Tables
  <2>4. \/ f0 \in Fds /\ fdTable' = [fdTable EXCEPT ![f0] = NoConn]
        \/ fdTable' = fdTable
    <3>1. NoFd \notin Fds /\ ReservedFd \notin Fds
      BY KernelAssumption, ReactorAssumption DEF NoFd
    <3> QED
      BY <1>2, <3>1 DEF close_connection, CloseFd, Uncursed
  <2>5. fdTable'[client_fds[i]] = fdTable[client_fds[i]]
    BY <2>3, <2>4 DEF TypeOK, KernelTypeOK
  <2> QED
    BY <2>2, <2>5 DEF ConnOf
<1>3. CASE Restart \/ reserve_writes_buffer
  BY <1>3 DEF Restart, reserve_writes_buffer, Known, Starting
<1>4. CASE \E c \in Conns : Environment(c)
  <2>1. PICK c \in Conns : Environment(c)
    BY <1>4
  <2>2. UNCHANGED <<client_fds, out>>
    BY <2>1 DEF Environment, serverVars, tableVars
  <2>3. client_fds[i] \in Fds /\ fdTable[client_fds[i]] # NoConn
    BY <2>2 DEF Tables, TypeOK, ServerTypeOK
  <2>4. \/ fdTable' = fdTable
        \/ \E f \in Fds : fdTable[f] = NoConn /\ fdTable' = [fdTable EXCEPT ![f] = c]
    <3>1. CASE KernelAccept(c)
      BY <3>1, AcceptPosts
    <3>2. CASE ~KernelAccept(c)
      BY <2>1, <3>2 DEF Environment, KernelRecv, KernelPoll, PeerConnect, PeerSend, PeerLeave
    <3> QED
      BY <3>1, <3>2
  <2>5. fdTable'[client_fds[i]] = fdTable[client_fds[i]]
    BY <2>3, <2>4 DEF TypeOK, KernelTypeOK
  <2> QED
    BY <2>2, <2>5 DEF ConnOf
<1>5. CASE Execute
  BY <1>5 DEF Execute, ExecProvide, ExecAccept, ExecArm, ExecSend, tableVars, sockVars, ConnOf
<1>6. CASE \/ process_ignored \/ accept_panics \/ process_no_buffers \/ request_reply \/ ubdma
  BY <1>6 DEF process_ignored, accept_panics, process_no_buffers, request_reply, ubdma,
     serverVars, tableVars, sockVars, ConnOf
<1>7. CASE \/ register_buffers \/ start_accepts \/ LoopTop \/ wideband_send_panics
           \/ Return \/ EnterFails \/ release_push \/ release_clear \/ EndOfBatch
           \/ Rest \/ UNCHANGED vars
  BY <1>7 DEF register_buffers, start_accepts, LoopTop, wideband_send_panics, Return, EnterFails,
     release_push, release_clear, EndOfBatch, Rest, tableVars, kernelVars, sockVars, vars,
     serverVars, ConnOf
<1> QED
  BY <1>1, <1>2, <1>3, <1>4, <1>5, <1>6, <1>7 DEF Next, Worker, process_entry

ArmOps == {"recv", "poll"}

(* Only process_entry_accept queues receives and polls.                    *)
LEMMA QueuedArmings ==
  ASSUME TypeOK, [Next]_vars, NEW e \in Waiting', e.op \in ArmOps
  PROVE  e \in Waiting \/ (process_entry_accept /\ e \in Armings(next_id, Entry.arg))
<1>1. CASE register_buffers \/ release_push \/ start_accepts
  BY <1>1, StartAdds DEF ArmOps
<1>2. CASE LoopTop
  BY <1>2, LoopTopAdds DEF ArmOps, Sends
<1>3. CASE Execute
  BY <1>3, ExecAdds
<1>4. CASE process_entry_accept
  BY <1>4, AcceptAdds
<1>5. CASE Restart
  BY <1>5 DEF Restart, KernelReset, Waiting, Queued, Range
<1>6. CASE UNCHANGED <<sqLocal, sqShared>>
  BY <1>6, SameRings
<1>7. CASE \E c \in Conns : Environment(c)
  BY <1>6, <1>7 DEF Environment, KernelAccept, KernelRecv, KernelPoll, PeerConnect, PeerSend,
     PeerLeave, ringVars
<1>8. CASE \/ process_ignored \/ accept_panics \/ process_no_buffers \/ close_connection
           \/ request_reply \/ ubdma
  BY <1>6, <1>8 DEF process_ignored, accept_panics, process_no_buffers, close_connection,
     request_reply, ubdma
<1>9. CASE \/ reserve_writes_buffer \/ wideband_send_panics \/ Return \/ EnterFails
           \/ release_clear \/ EndOfBatch \/ Rest \/ UNCHANGED vars
  BY <1>6, <1>9 DEF reserve_writes_buffer, wideband_send_panics, Return, EnterFails,
     release_clear, EndOfBatch, Rest, vars, kernelVars, ringVars
<1> QED
  BY <1>1, <1>2, <1>3, <1>4, <1>5, <1>7, <1>8, <1>9 DEF Next, Worker, process_entry

(* Only the execution of a queued receive or poll arms it, on the          *)
(* connection that its descriptor names at that moment.                    *)
LEMMA ArmedBy ==
  ASSUME TypeOK, [Next]_vars, NEW d \in Conns, NEW i \in Ids, recv'[d] = i \/ poll'[d] = i
  PROVE  \/ recv[d] = i \/ poll[d] = i
         \/ \E e \in Waiting : e.op \in ArmOps /\ e.id = i /\ d = Target(e)
<1> DEFINE e == Head(sqShared)
<1>1. NoId # i
  BY KernelAssumption DEF NoId, Ids
<1>2. CASE Execute /\ ExecArm
  <2>1. e \in Waiting /\ e.op \in ArmOps
    BY <1>2, ExecAdds DEF ExecArm, ArmOps
  <2>2. /\ recv' = recv \/ recv' = [recv EXCEPT ![Target(e)] = e.id]
        /\ poll' = poll \/ poll' = [poll EXCEPT ![Target(e)] = e.id]
    BY <1>2 DEF ExecArm
  <2>3. CASE d = Target(e) /\ e.id = i
    BY <2>1, <2>3
  <2>4. CASE d # Target(e) \/ e.id # i
    BY <2>2, <2>4 DEF TypeOK, KernelTypeOK
  <2> QED
    BY <2>3, <2>4
<1>3. CASE \E c \in Conns : Environment(c)
  <2>1. PICK c \in Conns : Environment(c)
    BY <1>3
  <2>2. poll' = poll /\ (recv' = recv \/ recv' = [recv EXCEPT ![c] = NoId])
    BY <2>1 DEF Environment, KernelAccept, KernelRecv, KernelPoll, PeerConnect, PeerSend,
       PeerLeave
  <2> QED
    BY <1>1, <2>2 DEF TypeOK, KernelTypeOK
<1>4. CASE Restart
  BY <1>1, <1>4 DEF Restart, KernelReset
<1>5. CASE UNCHANGED <<recv, poll>>
  BY <1>5
<1>6. CASE Execute /\ ~ExecArm
  BY <1>5, <1>6 DEF Execute, ExecProvide, ExecAccept, ExecSend, sockVars
<1>7. CASE process_entry
  BY <1>5, <1>7 DEF process_entry, process_ignored, accept_panics, process_no_buffers,
     process_entry_accept, close_connection, request_reply, ubdma, sockVars
<1>8. CASE \/ register_buffers \/ start_accepts \/ LoopTop \/ release_push
           \/ reserve_writes_buffer \/ wideband_send_panics \/ Return \/ EnterFails
           \/ release_clear \/ EndOfBatch \/ Rest \/ UNCHANGED vars
  BY <1>5, <1>8 DEF register_buffers, start_accepts, LoopTop, release_push,
     reserve_writes_buffer, wideband_send_panics, Return, EnterFails,
     release_clear, EndOfBatch, Rest, vars, kernelVars, sockVars
<1> QED
  BY <1>2, <1>3, <1>4, <1>6, <1>7, <1>8 DEF Next, Worker

(* The receives and polls of a client are queued for its descriptor and    *)
(* armed on its connection.                                                *)
Armed ==
  \A i \in out :
    /\ \A e \in Waiting : e.op \in ArmOps /\ e.id = i => e.fd = client_fds[i]
    /\ \A d \in Conns : recv[d] = i \/ poll[d] = i => d = ConnOf(i)

LEMMA ArmedNext ==
  ASSUME TypeOK, Uncursed \/ ~close_connection, Known, Tables, Armed, [Next]_vars
  PROVE  Armed'
<1> SUFFICES ASSUME NEW i \in out'
             PROVE  /\ \A e \in Waiting' : e.op \in ArmOps /\ e.id = i => e.fd = client_fds'[i]
                    /\ \A d \in Conns : recv'[d] = i \/ poll'[d] = i => d = ConnOf(i)'
  BY DEF Armed, ArmOps
<1>1. CASE process_entry_accept /\ i = next_id
  <2>1. /\ next_id \in Ids /\ client_fds' = [client_fds EXCEPT ![next_id] = Entry.arg]
        /\ UNCHANGED <<recv, poll>>
    BY <1>1, AcceptAdds DEF sockVars
  <2>2. client_fds'[i] = Entry.arg
    BY <1>1, <2>1 DEF TypeOK, ServerTypeOK
  <2>3. i \in Int /\ \A k \in Int : k < next_id => k # i
    BY <1>1, <2>1 DEF Ids
  <2>4. \A d \in Conns : recv'[d] # i /\ poll'[d] # i
    <3>1. \A d \in Conns : recv[d] \in Int /\ poll[d] \in Int
      BY KernelAssumption DEF TypeOK, KernelTypeOK, Ids, NoId
    <3> QED
      BY <2>1, <2>3, <3>1 DEF Known
  <2>5. ASSUME NEW e \in Waiting', e.op \in ArmOps, e.id = i
        PROVE  e.fd = client_fds'[i]
    <3>1. e \notin Waiting
      BY <2>3, <2>5 DEF Known, IdOps, ArmOps
    <3> QED
      BY <2>2, <2>5, <3>1, QueuedArmings DEF Armings
  <2> QED
    BY <2>4, <2>5
<1>2. CASE i \in out /\ client_fds'[i] = client_fds[i] /\ ConnOf(i)' = ConnOf(i)
  <2>1. i \in Ids /\ client_fds[i] \in Fds
    BY <1>2 DEF Tables, TypeOK, ServerTypeOK
  <2>2. ASSUME NEW e \in Waiting', e.op \in ArmOps, e.id = i
        PROVE  e.fd = client_fds'[i]
    <3>1. CASE e \in Waiting
      BY <1>2, <2>2, <3>1 DEF Armed
    <3>2. CASE process_entry_accept /\ e \in Armings(next_id, Entry.arg)
      <4>1. e.id = next_id /\ i < next_id /\ next_id \in Int
        BY <1>2, <3>2, AcceptAdds DEF Armings, Known, Ids
      <4> QED
        BY <2>1, <2>2, <4>1 DEF Ids
    <3> QED
      BY <2>2, <3>1, <3>2, QueuedArmings
  <2>3. ASSUME NEW d \in Conns, recv'[d] = i \/ poll'[d] = i
        PROVE  d = ConnOf(i)
    <3>1. CASE recv[d] = i \/ poll[d] = i
      BY <1>2, <3>1 DEF Armed
    <3>2. CASE \E e \in Waiting : e.op \in ArmOps /\ e.id = i /\ d = Target(e)
      BY <1>2, <2>1, <3>2 DEF Armed, Target, ConnOf
    <3> QED
      BY <2>1, <2>3, <3>1, <3>2, ArmedBy
  <2> QED
    BY <1>2, <2>2, <2>3
<1> QED
  BY <1>1, <1>2, ConnStable

-----------------------------------------------------------------------------
(* What a connection has sent, in order                                    *)

(* The number of chunks of a connection that the kernel has delivered.     *)
Taken(c) == sent[c] - Len(inbox[c])
Inboxes == \A c \in Conns : \A k \in DOMAIN inbox[c] : inbox[c][k] = <<c, Taken(c) + k>>

LEMMA InboxStep ==
  ASSUME TypeOK, [Next]_vars, NEW c \in Conns
  PROVE  \/ inbox'[c] = inbox[c] /\ sent'[c] = sent[c]
         \/ /\ inbox'[c] = Append(inbox[c], <<c, sent[c] + 1>>) /\ sent'[c] = sent[c] + 1
            /\ PeerSend(c)
         \/ /\ inbox[c] # <<>> /\ inbox'[c] = Tail(inbox[c]) /\ sent'[c] = sent[c]
            /\ Environment(c) /\ KernelRecv(c)
<1>1. CASE UNCHANGED <<inbox, sent>>
  BY <1>1
<1>2. CASE \E d \in Conns : Environment(d)
  <2>1. PICK d \in Conns : Environment(d)
    BY <1>2
  <2>2. CASE KernelRecv(d)
    <3>1. /\ sent' = sent
          /\ inbox' = inbox \/ (inbox[d] # <<>> /\ inbox' = [inbox EXCEPT ![d] = Tail(@)])
      BY <2>2 DEF KernelRecv
    <3> QED
      BY <2>1, <2>2, <3>1 DEF TypeOK, KernelTypeOK
  <2>3. CASE PeerSend(d)
    <3>1. /\ sent' = [sent EXCEPT ![d] = @ + 1]
          /\ inbox' = [inbox EXCEPT ![d] = Append(@, <<d, sent[d] + 1>>)]
      BY <2>3 DEF PeerSend
    <3> QED
      BY <2>3, <3>1 DEF TypeOK, KernelTypeOK
  <2>4. CASE KernelAccept(d) \/ KernelPoll(d) \/ PeerConnect(d) \/ PeerLeave(d)
    BY <1>1, <2>4 DEF KernelAccept, KernelPoll, PeerConnect, PeerLeave
  <2> QED
    BY <2>1, <2>2, <2>3, <2>4 DEF Environment
<1>3. CASE Execute
  BY <1>1, <1>3 DEF Execute, ExecProvide, ExecAccept, ExecArm, ExecSend, sockVars
<1>4. CASE process_entry
  BY <1>1, <1>4 DEF process_entry, process_ignored, accept_panics, process_no_buffers,
     process_entry_accept, close_connection, request_reply, ubdma, sockVars
<1>5. CASE \/ register_buffers \/ start_accepts \/ LoopTop \/ release_push
           \/ reserve_writes_buffer \/ wideband_send_panics \/ Return \/ EnterFails
           \/ release_clear \/ EndOfBatch \/ Restart \/ Rest \/ UNCHANGED vars
  BY <1>1, <1>5 DEF register_buffers, start_accepts, LoopTop, release_push,
     reserve_writes_buffer, wideband_send_panics, Return, EnterFails,
     release_clear, EndOfBatch, Restart, KernelReset, Rest, vars, kernelVars, sockVars
<1> QED
  BY <1>2, <1>3, <1>4, <1>5 DEF Next, Worker

LEMMA InboxAppend ==
  ASSUME TypeOK, NEW c \in Conns
  PROVE  LET x == <<c, sent[c] + 1>>
             s == Append(inbox[c], x)
         IN  /\ Len(s) = Len(inbox[c]) + 1 /\ DOMAIN s = 1 .. Len(inbox[c]) + 1
             /\ s[Len(inbox[c]) + 1] = x
             /\ \A k \in DOMAIN inbox[c] : s[k] = inbox[c][k]
<1> DEFINE T == Conns \X Nat
           q == inbox[c]
           x == <<c, sent[c] + 1>>
<1>1. q \in Seq(T) /\ x \in T
  <2>1. Units \subseteq T /\ q \in Seq(Units) /\ sent[c] \in Nat
    BY KernelAssumption DEF TypeOK, KernelTypeOK, Units
  <2> QED
    BY <2>1
<1> HIDE DEF T, q, x
<1>2. /\ Len(Append(q, x)) = Len(q) + 1 /\ DOMAIN Append(q, x) = 1 .. Len(q) + 1
      /\ Append(q, x)[Len(q) + 1] = x
      /\ \A k \in DOMAIN q : Append(q, x)[k] = q[k]
  BY <1>1
<1> QED
  BY <1>2 DEF q, x

LEMMA BothMore ==
  ASSUME NEW a \in Nat, NEW b \in Nat
  PROVE  a - b \in Int /\ (a + 1) - (b + 1) = a - b
OBVIOUS

LEMMA TakenStep ==
  ASSUME TypeOK, [Next]_vars, NEW c \in Conns
  PROVE  /\ Taken(c) \in Int /\ Taken(c)' \in Int
         /\ \/ Taken(c)' = Taken(c)
            \/ /\ Taken(c)' = Taken(c) + 1 /\ Environment(c) /\ KernelRecv(c)
               /\ inbox[c] # <<>>
<1>1. inbox[c] \in Seq(Units) /\ sent[c] \in Nat
  BY KernelAssumption DEF TypeOK, KernelTypeOK
<1>2. CASE inbox'[c] = inbox[c] /\ sent'[c] = sent[c]
  BY <1>1, <1>2 DEF Taken
<1>3. CASE inbox'[c] = Append(inbox[c], <<c, sent[c] + 1>>) /\ sent'[c] = sent[c] + 1
  <2>1. /\ sent'[c] = sent[c] + 1 /\ Len(inbox'[c]) = Len(inbox[c]) + 1
        /\ sent[c] \in Nat /\ Len(inbox[c]) \in Nat
    BY <1>1, <1>3, InboxAppend, LenProperties, Zenon
  <2>2. /\ sent[c] - Len(inbox[c]) \in Int
        /\ sent'[c] - Len(inbox'[c]) = sent[c] - Len(inbox[c])
    BY <2>1, BothMore, Zenon
  <2> QED
    BY <2>2 DEF Taken
<1>4. CASE /\ inbox[c] # <<>> /\ inbox'[c] = Tail(inbox[c]) /\ sent'[c] = sent[c]
           /\ Environment(c) /\ KernelRecv(c)
  <2>1. Len(inbox'[c]) = Len(inbox[c]) - 1
    BY <1>1, <1>4
  <2> QED
    BY <1>1, <1>4, <2>1 DEF Taken
<1> QED
  BY <1>2, <1>3, <1>4, InboxStep

LEMMA InboxesInit == Init => Inboxes
BY DEF Init, KernelInit, Inboxes

LEMMA InboxesNext ==
  ASSUME TypeOK, Inboxes, [Next]_vars
  PROVE  Inboxes'
<1> SUFFICES ASSUME NEW c \in Conns, NEW k \in DOMAIN inbox'[c]
             PROVE  inbox'[c][k] = <<c, (sent'[c] - Len(inbox'[c])) + k>>
  BY DEF Inboxes, Taken
<1>1. inbox[c] \in Seq(Units) /\ sent[c] \in Nat
  BY KernelAssumption DEF TypeOK, KernelTypeOK
<1>2. \A j \in DOMAIN inbox[c] : inbox[c][j] = <<c, (sent[c] - Len(inbox[c])) + j>>
  BY DEF Inboxes, Taken
<1>3. CASE inbox'[c] = inbox[c] /\ sent'[c] = sent[c]
  BY <1>2, <1>3
<1>4. CASE inbox'[c] = Append(inbox[c], <<c, sent[c] + 1>>) /\ sent'[c] = sent[c] + 1
  <2>1. /\ Len(inbox'[c]) = Len(inbox[c]) + 1 /\ k \in 1 .. Len(inbox[c]) + 1
        /\ inbox'[c][Len(inbox[c]) + 1] = <<c, sent[c] + 1>>
        /\ k \in DOMAIN inbox[c] => inbox'[c][k] = inbox[c][k]
    <3> DEFINE x == <<c, sent[c] + 1>>
    <3>1. /\ inbox'[c] = Append(inbox[c], x)
          /\ Len(Append(inbox[c], x)) = Len(inbox[c]) + 1
          /\ DOMAIN Append(inbox[c], x) = 1 .. Len(inbox[c]) + 1
          /\ Append(inbox[c], x)[Len(inbox[c]) + 1] = x
          /\ \A j \in DOMAIN inbox[c] : Append(inbox[c], x)[j] = inbox[c][j]
      BY <1>4, InboxAppend, Zenon
    <3> HIDE DEF x
    <3>2. /\ Len(inbox'[c]) = Len(inbox[c]) + 1 /\ k \in 1 .. Len(inbox[c]) + 1
          /\ inbox'[c][Len(inbox[c]) + 1] = x
          /\ k \in DOMAIN inbox[c] => inbox'[c][k] = inbox[c][k]
      BY <3>1, Zenon
    <3> QED
      BY <3>2, Zenon DEF x
  <2>2. sent'[c] - Len(inbox'[c]) = sent[c] - Len(inbox[c])
    <3>1. /\ sent'[c] = sent[c] + 1 /\ Len(inbox'[c]) = Len(inbox[c]) + 1
          /\ sent[c] \in Nat /\ Len(inbox[c]) \in Nat
      BY <1>1, <1>4, <2>1, LenProperties, Zenon
    <3> QED
      BY <3>1, BothMore, Zenon
  <2>3. CASE k \in DOMAIN inbox[c]
    BY <1>2, <2>1, <2>2, <2>3
  <2>4. CASE k = Len(inbox[c]) + 1
    <3>1. (sent[c] - Len(inbox[c])) + k = sent[c] + 1
      BY <1>1, <2>4
    <3> QED
      BY <2>1, <2>2, <2>4, <3>1
  <2> QED
    BY <1>1, <2>1, <2>3, <2>4
<1>5. CASE inbox[c] # <<>> /\ inbox'[c] = Tail(inbox[c]) /\ sent'[c] = sent[c]
  <2>1. /\ Len(inbox'[c]) = Len(inbox[c]) - 1 /\ k \in Nat
        /\ k + 1 \in DOMAIN inbox[c] /\ inbox'[c][k] = inbox[c][k + 1]
    BY <1>1, <1>5
  <2>2. (sent[c] - Len(inbox[c])) + (k + 1) = (sent'[c] - Len(inbox'[c])) + k
    BY <1>1, <1>5, <2>1
  <2> QED
    BY <1>2, <2>1, <2>2
<1> QED
  BY <1>3, <1>4, <1>5, InboxStep

-----------------------------------------------------------------------------
(* The order of the completions                                            *)

Older(a, b) == \E m, n \in DOMAIN Completed : m < n /\ Completed[m] = a /\ Completed[n] = b

LEMMA OlderSame ==
  ASSUME Completed' = Completed, NEW a, NEW b
  PROVE  Older(a, b)' => Older(a, b)
BY DEF Older

LEMMA OlderTake ==
  ASSUME TypeOK, Next_cqe, cqShared' = cqShared, NEW a, NEW b
  PROVE  /\ Older(a, b)' => Older(a, b)
         /\ b \in Done' => Older(Entry, b)
<1>1. /\ Completed \in Seq(CQE) /\ Completed # <<>> /\ Head(Completed) = Entry
      /\ Completed' = Tail(Completed)
  BY CompletedTake, Rings
<1>2. /\ 1 \in DOMAIN Completed /\ Completed[1] = Entry
      /\ DOMAIN Completed' \subseteq Nat
      /\ \A k \in DOMAIN Completed' :
           k + 1 \in DOMAIN Completed /\ 1 < k + 1 /\ Completed'[k] = Completed[k + 1]
  BY <1>1
<1>3. ASSUME NEW m \in DOMAIN Completed', NEW n \in DOMAIN Completed', m < n,
             Completed'[m] = a, Completed'[n] = b
      PROVE  Older(a, b)
  <2>1. m + 1 < n + 1
    BY <1>2, <1>3
  <2> QED
    BY <1>2, <1>3, <2>1 DEF Older
<1>4. b \in Done' => Older(Entry, b)
  BY <1>2 DEF Older, Done, Range
<1> QED
  BY <1>3, <1>4 DEF Older

LEMMA OlderAppend ==
  ASSUME TypeOK, NEW x \in CQE, Completed' = Append(Completed, x), NEW a, NEW b, Older(a, b)'
  PROVE  Older(a, b) \/ (a \in Done /\ b = x)
<1>1. Completed \in Seq(CQE)
  BY Rings
<1>2. /\ DOMAIN Completed = 1 .. Len(Completed) /\ DOMAIN Completed' = 1 .. Len(Completed) + 1
      /\ Len(Completed) \in Nat
      /\ Completed'[Len(Completed) + 1] = x
      /\ \A k \in DOMAIN Completed : Completed'[k] = Completed[k]
  BY <1>1
<1>3. PICK m, n \in DOMAIN Completed' : m < n /\ Completed'[m] = a /\ Completed'[n] = b
  BY DEF Older
<1>4. m \in DOMAIN Completed
  BY <1>2, <1>3
<1>5. CASE n \in DOMAIN Completed
  BY <1>2, <1>3, <1>4, <1>5 DEF Older
<1>6. CASE n = Len(Completed) + 1
  BY <1>2, <1>3, <1>4, <1>6 DEF Done, Range
<1> QED
  BY <1>2, <1>5, <1>6

-----------------------------------------------------------------------------
(* The responses of a client are its own                                   *)

FillFor(e, i) == IsFill(e) /\ e.id = i
Chunk(e) == bufmem[e.arg].front
Own(i, u) == u \in Units /\ u[1] = ConnOf(i) /\ u[2] <= Taken(ConnOf(i))
Slots(lake) == {k \in 1 .. LakeCap : k <= lake.pos}

(* The completed chunks of a client and then the responses that wait in    *)
(* its slot are chunks of its connection, and the older come first.        *)
Answered(i) ==
  /\ \A e \in Done : FillFor(e, i) => Own(i, Chunk(e))
  /\ \A a, b \in Done :
       FillFor(a, i) /\ FillFor(b, i) /\ Older(a, b) => Chunk(a)[2] < Chunk(b)[2]
  /\ \A k \in Slots(lakes[i]) : Own(i, lakes[i].mem[k])
  /\ \A k \in Slots(lakes[i]) : \A j \in 1 .. k - 1 : lakes[i].mem[j][2] < lakes[i].mem[k][2]
  /\ \A k \in Slots(lakes[i]) : \A e \in Done :
       FillFor(e, i) => lakes[i].mem[k][2] < Chunk(e)[2]
Answers == \A i \in out : Answered(i)

(* The client i goes on as before.                                         *)
Stays(i) == i \in out /\ ConnOf(i) \in Conns /\ ConnOf(i)' = ConnOf(i)

LEMMA OwnStays ==
  ASSUME TypeOK, [Next]_vars, NEW i, Stays(i), NEW u, Own(i, u)
  PROVE  Own(i, u)'
<1> DEFINE c == ConnOf(i)
<1>1. c \in Conns /\ ConnOf(i)' = c
  BY DEF Stays
<1>2. Taken(c) \in Int /\ (\A d \in Conns : d = c => Taken(d)' \in Int /\ Taken(c) <= Taken(d)')
  <2>1. \A d \in Conns : Taken(d) \in Int /\ Taken(d)' \in Int /\ Taken(d) <= Taken(d)'
    BY TakenStep
  <2> QED
    BY <1>1, <2>1
<1>3. u \in Units /\ u[1] = c /\ u[2] <= Taken(c) /\ u[2] \in Int
  BY KernelAssumption DEF Own, Units
<1> HIDE DEF c
<1>4. \A d \in Conns : d = c => u[2] <= Taken(d)'
  BY <1>2, <1>3
<1> QED
  BY <1>1, <1>3, <1>4 DEF Own, Taken

LEMMA AnsweredFrame ==
  ASSUME TypeOK, [Next]_vars, NEW i \in Ids, Stays(i), Answered(i),
         lakes'[i] = lakes[i] \/ lakes'[i].pos = 0,
         \A e \in Done' : FillFor(e, i) => e \in Done /\ bufmem'[e.arg].front = Chunk(e),
         \A a, b \in Done' : FillFor(a, i) /\ FillFor(b, i) /\ Older(a, b)' => Older(a, b)
  PROVE  Answered(i)'
<1>1. \A u : Own(i, u) => Own(i, u)'
  BY OwnStays
<1>2. \A k \in Slots(lakes'[i]) : k \in Slots(lakes[i]) /\ lakes'[i] = lakes[i]
  BY DEF Slots
<1>3. \A e \in Done' : FillFor(e, i) => Own(i, Chunk(e)) /\ e \in Done /\ Chunk(e)' = Chunk(e)
  BY DEF Answered, Chunk
<1>4. \A e \in Done' : FillFor(e, i) => Own(i, Chunk(e))'
  BY <1>1, <1>3
<1>5. \A a, b \in Done' :
        FillFor(a, i) /\ FillFor(b, i) /\ Older(a, b)' => Chunk(a)'[2] < Chunk(b)'[2]
  BY <1>3 DEF Answered
<1>6. \A k \in Slots(lakes'[i]) : Own(i, lakes[i].mem[k])' /\ lakes'[i] = lakes[i]
  BY <1>1, <1>2 DEF Answered
<1> QED
  BY <1>2, <1>3, <1>4, <1>5, <1>6 DEF Answered, FillFor, IsFill, Slots

(* Only the kernel's receive adds chunks, at the end.                      *)
LEMMA FillsStep ==
  ASSUME TypeOK, [Next]_vars, \A c \in Conns : ~(Environment(c) /\ KernelRecv(c)), ~Restart
  PROVE  /\ \A e \in Done' : IsFill(e) => e \in Done
         /\ \A a, b : IsFill(b) /\ Older(a, b)' => Older(a, b)
<1>1. CASE Completed' = Completed
  BY <1>1, OlderSame DEF Done
<1>2. CASE Next_cqe /\ cqShared' = cqShared
  BY <1>2, OlderTake, DoneTake
<1>3. CASE \E x \in CQE : ~IsFill(x) /\ Completed' = Append(Completed, x)
  BY <1>3, OlderAppend, DoneAppend
<1>4. CASE Execute
  BY <1>1, <1>3, <1>4, ExecAdds DEF Reports
<1>5. CASE LoopTop
  BY <1>1, <1>5, LoopTopAdds
<1>6. CASE process_entry
  BY <1>2, <1>6 DEF process_entry, process_ignored, accept_panics, process_no_buffers,
     process_entry_accept, close_connection, request_reply, ubdma
<1>7. CASE \E c \in Conns : Environment(c)
  <2>1. PICK c \in Conns : Environment(c) /\ ~KernelRecv(c)
    BY <1>7
  <2>2. CASE KernelAccept(c)
    <3>1. PICK x \in CQE : ~IsFill(x) /\ Completed' = Append(Completed, x)
      BY <2>2, AcceptPosts DEF Cqe, IsFill
    <3> QED
      BY <1>3, <3>1
  <2>3. CASE KernelPoll(c)
    <3>1. PICK x \in CQE : ~IsFill(x) /\ Completed' = Append(Completed, x)
      BY <2>3, PollPosts DEF Cqe, IsFill
    <3> QED
      BY <1>3, <3>1
  <2>4. CASE PeerConnect(c) \/ PeerSend(c) \/ PeerLeave(c)
    BY <1>1, <2>4 DEF PeerConnect, PeerSend, PeerLeave, ringVars, Completed
  <2> QED
    BY <2>1, <2>2, <2>3, <2>4 DEF Environment
<1>8. CASE \/ register_buffers \/ start_accepts \/ release_push
           \/ reserve_writes_buffer \/ wideband_send_panics \/ Return \/ EnterFails
           \/ release_clear \/ EndOfBatch \/ Rest \/ UNCHANGED vars
  BY <1>1, <1>8 DEF register_buffers, start_accepts, release_push,
     reserve_writes_buffer, wideband_send_panics, Return, EnterFails,
     release_clear, EndOfBatch, Rest, vars, kernelVars, ringVars, Completed
<1> QED
  BY <1>4, <1>5, <1>6, <1>7, <1>8 DEF Next, Worker

LEMMA OlderDone ==
  ASSUME NEW a, NEW b, Older(a, b)
  PROVE  a \in Done /\ b \in Done
BY DEF Older, Done, Range

(* The chunk that the kernel delivers is the next of its connection.       *)
LEMMA RecvNext ==
  ASSUME TypeOK, Inboxes, NEW c \in Conns, KernelRecv(c), inbox[c] # <<>>,
         inbox' = [inbox EXCEPT ![c] = Tail(@)]
  PROVE  /\ Head(inbox[c]) \in Units /\ Head(inbox[c])[1] = c
         /\ Head(inbox[c])[2] = Taken(c) + 1
         /\ Taken(c) \in Int /\ Taken(c)' = Taken(c) + 1
<1>1. inbox[c] \in Seq(Units) /\ sent[c] \in Nat /\ sent'[c] = sent[c]
  BY KernelAssumption DEF TypeOK, KernelTypeOK, KernelRecv
<1>2. inbox'[c] = Tail(inbox[c])
  BY DEF TypeOK, KernelTypeOK
<1>3. Head(inbox[c]) \in Units /\ Head(inbox[c]) = inbox[c][1] /\ 1 \in DOMAIN inbox[c]
  BY <1>1
<1>4. Head(inbox[c]) = <<c, Taken(c) + 1>>
  BY <1>3 DEF Inboxes
<1>5. Len(inbox'[c]) = Len(inbox[c]) - 1 /\ Len(inbox[c]) \in Nat
  <2>1. Len(Tail(inbox[c])) = Len(inbox[c]) - 1 /\ Len(inbox[c]) \in Nat
    BY <1>1, <1>3, HeadTailProperties, LenProperties
  <2> QED
    BY <1>2, <2>1
<1>6. Taken(c) \in Int /\ Taken(c)' = Taken(c) + 1
  BY <1>1, <1>5 DEF Taken
<1> QED
  BY <1>3, <1>4, <1>6

LEMMA RecvAnswered ==
  ASSUME TypeOK, BufInv, Armed, Inboxes, [Next]_vars, NEW c \in Conns, Environment(c),
         KernelRecv(c), NEW i \in Ids, Stays(i), Answered(i)
  PROVE  Answered(i)'
<1>1. lakes' = lakes /\ Alive
  BY DEF Environment, serverVars
<1>2. CASE /\ bufmem' = bufmem
           /\ \E x \in CQE : ~IsFill(x) /\ Completed' = Append(Completed, x)
  <2>1. PICK x \in CQE : ~IsFill(x) /\ Completed' = Append(Completed, x)
    BY <1>2
  <2>2. \A e \in Done' : FillFor(e, i) => e \in Done /\ bufmem'[e.arg].front = Chunk(e)
    BY <1>2, <2>1, DoneAppend DEF FillFor, Chunk
  <2>3. \A a, b \in Done' : FillFor(a, i) /\ FillFor(b, i) /\ Older(a, b)' => Older(a, b)
    BY <2>1, OlderAppend DEF FillFor
  <2> QED
    BY <1>1, <2>2, <2>3, AnsweredFrame
<1>3. ASSUME NEW b \in pool, inbox[c] # <<>>, inbox' = [inbox EXCEPT ![c] = Tail(@)],
             bufmem' = [bufmem EXCEPT ![b].front = Head(inbox[c])],
             Cqe("recv", recv[c], "ok", b) \in CQE,
             Completed' = Append(Completed, Cqe("recv", recv[c], "ok", b))
      PROVE  Answered(i)'
  <2>0. PICK x \in CQE : x = Cqe("recv", recv[c], "ok", b)
    BY <1>3
  <2>1. Done' = Done \cup {x} /\ Completed' = Append(Completed, x)
    BY <1>3, <2>0, DoneAppend
  <2>2. x.id = recv[c] /\ x.arg = b /\ IsFill(x)
    BY <2>0 DEF Cqe, IsFill
  <2>3. ASSUME NEW e \in Done, IsFill(e)
        PROVE  e # x /\ bufmem'[e.arg].front = Chunk(e)
    <3>1. e.arg # b /\ e.arg \in Buffers
      BY <1>1, <2>3, PoolUnfilled, RingTypes, CqeKinds DEF IsFill
    <3>2. bufmem'[e.arg] = bufmem[e.arg]
      BY <1>3, <3>1 DEF TypeOK, KernelTypeOK
    <3> QED
      BY <2>2, <3>1, <3>2 DEF Chunk
  <2>4. \A a, d : Older(a, d)' => Older(a, d) \/ (a \in Done /\ d = x)
    BY <2>1, OlderAppend
  <2>5. CASE recv[c] # i
    <3>1. \A e \in Done' : FillFor(e, i) => e \in Done /\ bufmem'[e.arg].front = Chunk(e)
      BY <2>1, <2>2, <2>3, <2>5 DEF FillFor
    <3>2. \A a, d \in Done' : FillFor(a, i) /\ FillFor(d, i) /\ Older(a, d)' => Older(a, d)
      BY <2>2, <2>4, <2>5 DEF FillFor
    <3> QED
      BY <1>1, <3>1, <3>2, AnsweredFrame
  <2>6. CASE recv[c] = i
    <3>1. c = ConnOf(i) /\ ConnOf(i)' = c
      BY <2>6 DEF Armed, Stays
    <3>2. PICK u \in Units : /\ u = Head(inbox[c]) /\ u[1] = c /\ u[2] = Taken(c) + 1
                             /\ Taken(c) \in Int /\ Taken(c)' = Taken(c) + 1
      BY <1>3, RecvNext
    <3>3. bufmem'[b].front = u
      BY <1>3, <3>2 DEF TypeOK, KernelTypeOK
    <3>4. \A v : Own(i, v) => Own(i, v)' /\ v[2] < u[2]
      <4>1. \A v : Own(i, v) => v[2] \in Int /\ v[2] <= Taken(c)
        BY <3>1 DEF Own, Units
      <4> QED
        BY <3>2, <4>1, OwnStays
    <3>5. \A v : v = u => Own(i, v)'
      <4>1. Taken(ConnOf(i))' = Taken(c) + 1
        BY <3>1, <3>2 DEF Taken
      <4> QED
        BY <3>1, <3>2, <4>1 DEF Own
    <3>6. \A e \in Done : FillFor(e, i) => Own(i, Chunk(e)) /\ Chunk(e)' = Chunk(e)
      BY <2>3 DEF Answered, FillFor, Chunk
    <3>7. Chunk(x)' = u
      BY <2>2, <3>3 DEF Chunk
    <3>8. \A e \in Done' : FillFor(e, i) => Own(i, Chunk(e))'
      BY <2>1, <3>4, <3>5, <3>6, <3>7
    <3>9. \A a, d \in Done' :
            FillFor(a, i) /\ FillFor(d, i) /\ Older(a, d)' => Chunk(a)'[2] < Chunk(d)'[2]
      <4>1. \A a, d : FillFor(a, i) /\ FillFor(d, i) /\ Older(a, d) => Chunk(a)'[2] < Chunk(d)'[2]
        BY <3>6, OlderDone DEF Answered
      <4>2. \A a \in Done : FillFor(a, i) => Chunk(a)'[2] < Chunk(x)'[2]
        BY <3>4, <3>6, <3>7
      <4> QED
        BY <2>4, <4>1, <4>2
    <3>10. \A k \in Slots(lakes'[i]) : Own(i, lakes[i].mem[k])' /\ lakes[i].mem[k][2] < u[2]
      BY <1>1, <3>4 DEF Answered
    <3>11. \A k \in Slots(lakes'[i]) : \A e \in Done' :
             FillFor(e, i) => lakes[i].mem[k][2] < Chunk(e)'[2]
      BY <1>1, <2>1, <3>6, <3>7, <3>10 DEF Answered
    <3> QED
      BY <1>1, <3>8, <3>9, <3>10, <3>11 DEF Answered, FillFor, IsFill, Slots
  <2> QED
    BY <2>5, <2>6
<1>4. \A res \in Failures : ~IsFill(Cqe("recv", recv[c], res, NoBuf))
  BY DEF IsFill, Cqe, Failures
<1> QED
  BY <1>2, <1>3, <1>4, RecvPosts

LEMMA WriteSlots ==
  ASSUME NEW lake \in Lakes, NEW u \in Memory, NEW k \in Slots(LakeWrite(lake, u))
  PROVE  \/ /\ k \in Slots(lake)
            /\ \A j \in 1 .. k : LakeWrite(lake, u).mem[j] = lake.mem[j]
         \/ /\ LakeWrite(lake, u).mem[k] = u
            /\ \A j \in 1 .. k - 1 : j \in Slots(lake) /\ LakeWrite(lake, u).mem[j] = lake.mem[j]
<1>1. lake.pos \in Nat /\ lake.mem \in [1 .. LakeCap -> Memory] /\ LakeCap \in Nat
  BY KernelAssumption DEF Lakes
<1>2. LakeWrite(lake, u).pos = lake.pos + 1
  BY DEF LakeWrite
<1>3. k \in 1 .. LakeCap /\ k <= lake.pos + 1
  BY <1>2 DEF Slots
<1>4. CASE lake.pos < LakeCap
  <2>1. \A j \in 1 .. LakeCap :
          LakeWrite(lake, u).mem[j] = IF j = lake.pos + 1 THEN u ELSE lake.mem[j]
    BY <1>1, <1>4 DEF LakeWrite
  <2>2. CASE k = lake.pos + 1
    <3>1. \A j \in 1 .. k - 1 : j \in 1 .. LakeCap /\ j <= lake.pos /\ j # lake.pos + 1
      BY <1>1, <1>4, <2>2
    <3> QED
      BY <1>3, <2>1, <2>2, <3>1 DEF Slots
  <2>3. CASE k # lake.pos + 1
    <3>1. k <= lake.pos /\ \A j \in 1 .. k : j \in 1 .. LakeCap /\ j # lake.pos + 1
      BY <1>1, <1>3, <2>3
    <3> QED
      BY <1>3, <2>1, <3>1 DEF Slots
  <2> QED
    BY <2>2, <2>3
<1>5. CASE ~(lake.pos < LakeCap)
  <2>1. LakeWrite(lake, u).mem = lake.mem
    BY <1>5 DEF LakeWrite
  <2>2. k <= lake.pos
    BY <1>1, <1>3, <1>5
  <2> QED
    BY <1>3, <2>1, <2>2 DEF Slots
<1> QED
  BY <1>4, <1>5

LEMMA ReplyAnswered ==
  ASSUME TypeOK, BufInv, ~ub_kernel_dma, [Next]_vars, request_reply,
         NEW i \in Ids, Stays(i), Answered(i)
  PROVE  Answered(i)'
<1>1. PICK x \in Done : x = Entry
  BY ReplyFrees
<1>2. IsFill(x) /\ x.id \in Ids /\ Done' \subseteq Done /\ bufmem' = bufmem
  BY <1>1, ReplyFrees DEF request_reply, Shifted
<1>3. PICK u : u = Chunk(x)
  OBVIOUS
<1>4. lakes' = [lakes EXCEPT ![x.id] = LakeWrite(@, u)]
  BY <1>1, <1>3 DEF request_reply, Chunk
<1>5. /\ \A a, b : Older(a, b)' => Older(a, b)
      /\ \A b \in Done' : Older(x, b)
  BY <1>1, OlderTake DEF request_reply
<1>6. \A e : Chunk(e)' = Chunk(e)
  BY <1>2 DEF Chunk
<1>7. CASE x.id # i
  <2>1. lakes'[i] = lakes[i]
    BY <1>4, <1>7 DEF TypeOK, ServerTypeOK
  <2>2. \A e \in Done' : FillFor(e, i) => e \in Done /\ bufmem'[e.arg].front = Chunk(e)
    BY <1>2 DEF Chunk
  <2>3. \A a, b \in Done' : FillFor(a, i) /\ FillFor(b, i) /\ Older(a, b)' => Older(a, b)
    BY <1>5
  <2> QED
    BY <2>1, <2>2, <2>3, AnsweredFrame
<1>8. CASE x.id = i
  <2>1. lakes[i] \in Lakes /\ lakes'[i] = LakeWrite(lakes[i], u)
    BY <1>4, <1>8 DEF TypeOK, ServerTypeOK
  <2>2. FillFor(x, i) /\ Own(i, u) /\ u \in Memory
    BY <1>1, <1>2, <1>3, <1>8 DEF FillFor, Answered, Own, Memory
  <2>3. \A v : Own(i, v) => Own(i, v)'
    BY OwnStays
  <2>4. \A e \in Done' : FillFor(e, i) => Own(i, Chunk(e))' /\ u[2] < Chunk(e)'[2]
    BY <1>1, <1>2, <1>3, <1>5, <1>6, <2>2, <2>3 DEF Answered
  <2>5. \A a, b \in Done' :
          FillFor(a, i) /\ FillFor(b, i) /\ Older(a, b)' => Chunk(a)'[2] < Chunk(b)'[2]
    BY <1>2, <1>5, <1>6 DEF Answered
  <2>6. ASSUME NEW k \in Slots(lakes'[i])
        PROVE  /\ Own(i, lakes[i].mem[k])'
               /\ \A j \in 1 .. k - 1 : lakes'[i].mem[j][2] < lakes'[i].mem[k][2]
               /\ \A e \in Done' : FillFor(e, i) => lakes'[i].mem[k][2] < Chunk(e)'[2]
    <3>0. k \in Nat
      BY KernelAssumption DEF Slots
    <3>1. CASE k \in Slots(lakes[i]) /\ \A j \in 1 .. k : lakes'[i].mem[j] = lakes[i].mem[j]
      <4>1. k \in 1 .. k /\ \A j \in 1 .. k - 1 : j \in 1 .. k
        BY <3>1 DEF Slots
      <4>2. PICK v : v = lakes[i].mem[k]
        OBVIOUS
      <4>3. Own(i, v) /\ lakes'[i].mem[k] = v
        BY <3>1, <4>1, <4>2 DEF Answered
      <4>4. Own(i, v)'
        BY <2>3, <4>3
      <4> QED
        BY <1>2, <1>6, <3>1, <4>1, <4>2, <4>3, <4>4 DEF Answered
    <3>2. CASE /\ lakes'[i].mem[k] = u
               /\ \A j \in 1 .. k - 1 :
                    j \in Slots(lakes[i]) /\ lakes'[i].mem[j] = lakes[i].mem[j]
      <4>1. \A j \in 1 .. k - 1 : lakes[i].mem[j][2] < u[2]
        BY <1>1, <1>3, <2>2, <3>2 DEF Answered
      <4>2. Own(i, u)'
        BY <2>2, <2>3
      <4> QED
        BY <2>4, <3>2, <4>1, <4>2
    <3> QED
      BY <2>1, <2>2, <2>6, <3>1, <3>2, WriteSlots
  <2> QED
    BY <2>4, <2>5, <2>6 DEF Answered, FillFor, IsFill, Slots
<1> QED
  BY <1>7, <1>8

LEMMA AcceptAnswered ==
  ASSUME TypeOK, Known, process_entry_accept, NEW i \in Ids, i = next_id
  PROVE  Answered(i)'
<1>1. lakes'[i].pos = 0 /\ Done' \subseteq Done
  BY AcceptAdds DEF EmptyLake, TypeOK, ServerTypeOK
<1>2. \A e \in Done' : ~FillFor(e, i)
  <2>1. \A e \in Done : IsFill(e) => e.id \in Ids /\ e.id < next_id
    BY RingTypes, CqeKinds DEF Known, IsFill, IdOps
  <2> QED
    BY <1>1, <2>1 DEF FillFor, Ids
<1>3. Slots(lakes'[i]) = {}
  BY <1>1, KernelAssumption DEF Slots
<1> QED
  BY <1>2, <1>3 DEF Answered, FillFor, IsFill, Slots

(* Only request_reply, LoopTop and process_entry_accept touch the slots.   *)
LEMMA SlotsStep ==
  ASSUME TypeOK, [Next]_vars, ~ub_kernel_dma, ~request_reply, ~Restart,
         \A c \in Conns : ~(Environment(c) /\ KernelRecv(c)), NEW i \in Ids
  PROVE  /\ bufmem' = bufmem
         /\ \/ lakes'[i] = lakes[i]
            \/ LoopTop /\ lakes'[i] = LakesFlushed[i]
            \/ process_entry_accept /\ i = next_id /\ lakes'[i] = EmptyLake
<1>1. CASE LoopTop
  BY <1>1 DEF LoopTop, Flush, bufVars
<1>2. CASE process_entry_accept
  <2>1. bufmem' = bufmem /\ lakes' = [lakes EXCEPT ![next_id] = EmptyLake]
    BY <1>2, AcceptAdds
  <2> QED
    BY <1>2, <2>1 DEF TypeOK, ServerTypeOK
<1>3. CASE UNCHANGED <<bufmem, lakes>>
  BY <1>3
<1>4. CASE Execute
  BY <1>3, <1>4 DEF Execute, ExecProvide, ExecAccept, ExecArm, ExecSend, bufVars
<1>5. CASE \/ process_ignored \/ accept_panics \/ process_no_buffers \/ close_connection
           \/ ubdma
  BY <1>3, <1>5 DEF process_ignored, accept_panics, process_no_buffers, close_connection,
     ubdma, bufVars, serverVars
<1>6. CASE \E c \in Conns : Environment(c)
  BY <1>3, <1>6 DEF Environment, KernelAccept, KernelPoll, PeerConnect, PeerSend,
     PeerLeave, bufVars, serverVars
<1>7. CASE \/ register_buffers \/ start_accepts \/ release_push
           \/ reserve_writes_buffer \/ wideband_send_panics \/ Return \/ EnterFails
           \/ release_clear \/ EndOfBatch \/ Rest \/ UNCHANGED vars
  BY <1>3, <1>7 DEF register_buffers, start_accepts, release_push,
     reserve_writes_buffer, wideband_send_panics, Return, EnterFails, release_clear,
     EndOfBatch, Rest, vars, kernelVars, serverVars, bufVars
<1> QED
  BY <1>1, <1>2, <1>4, <1>5, <1>6, <1>7 DEF Next, Worker, process_entry

LEMMA AnswersNext ==
  ASSUME TypeOK, BufInv, Uncursed \/ ~close_connection, Known, Tables, Armed, Inboxes,
         ~ub_kernel_dma, Answers, [Next]_vars
  PROVE  Answers'
<1> SUFFICES ASSUME NEW i \in out'
             PROVE  Answered(i)'
  BY DEF Answers
<1>1. CASE process_entry_accept /\ i = next_id
  BY <1>1, AcceptAdds, AcceptAnswered
<1>2. CASE i \in out /\ client_fds'[i] = client_fds[i] /\ ConnOf(i)' = ConnOf(i)
  <2>1. i \in Ids /\ Stays(i) /\ Answered(i)
    <3>1. i \in Ids /\ client_fds[i] \in Fds /\ fdTable[client_fds[i]] # NoConn
      BY <1>2 DEF Tables, TypeOK, ServerTypeOK
    <3> QED
      BY <1>2, <3>1 DEF Stays, ConnOf, Answers, TypeOK, KernelTypeOK
  <2>2. CASE \E c \in Conns : Environment(c) /\ KernelRecv(c)
    BY <2>1, <2>2, RecvAnswered
  <2>3. CASE request_reply
    BY <2>1, <2>3, ReplyAnswered
  <2>4. CASE ~request_reply /\ \A c \in Conns : ~(Environment(c) /\ KernelRecv(c))
    <3>1. ~Restart
      BY DEF Restart
    <3>2. /\ \A e \in Done' : IsFill(e) => e \in Done
          /\ \A a, b : IsFill(b) /\ Older(a, b)' => Older(a, b)
      BY <2>4, <3>1, FillsStep
    <3>3. bufmem' = bufmem /\ (lakes'[i] = lakes[i] \/ lakes'[i].pos = 0)
      <4>1. lakes[i] \in Lakes
        BY <2>1 DEF TypeOK, ServerTypeOK
      <4>2. LakesFlushed[i] = lakes[i] \/ LakesFlushed[i].pos = 0
        BY <2>1, <4>1 DEF LakesFlushed, Lakes
      <4>3. EmptyLake.pos = 0
        BY DEF EmptyLake
      <4>4. /\ bufmem' = bufmem
            /\ lakes'[i] \in {lakes[i], LakesFlushed[i], EmptyLake}
        BY <2>1, <2>4, <3>1, SlotsStep
      <4> QED
        BY <4>2, <4>3, <4>4
    <3>4. \A e \in Done' : FillFor(e, i) => e \in Done /\ bufmem'[e.arg].front = Chunk(e)
      BY <3>2, <3>3 DEF FillFor, Chunk
    <3>5. \A a, b \in Done' : FillFor(a, i) /\ FillFor(b, i) /\ Older(a, b)' => Older(a, b)
      BY <3>2 DEF FillFor
    <3> QED
      BY <2>1, <3>3, <3>4, <3>5, AnsweredFrame
  <2> QED
    BY <2>2, <2>3, <2>4
<1> QED
  BY <1>1, <1>2, ConnStable

(* The receives and polls of a client are armed on its own connection, and *)
(* the responses that wait in its slot answer its own chunks, oldest       *)
(* first, however descriptors are closed and reused by later connections,  *)
(* as long as 0xFF is no client's descriptor; with ubdma, which replays    *)
(* the last buffer to whoever polls, only the former                       *)
(* (process_entry_accept, request_reply, close_connection).                *)
THEOREM ClientsSeparate == Spec => [](Uncursed => ClientsAreSeparate)
<1> DEFINE Apart == Tables /\ Armed /\ (~ub_kernel_dma => Answers)
           Inv == Uncursed => Apart
<1>1. Init => Inv /\ Inboxes
  BY TablesInit, InboxesInit DEF Init, ServerInit, Armed, Answers
<1>2. TypeOK /\ BufInv /\ Known /\ Inboxes /\ Inv /\ [Next]_vars => Inv' /\ Inboxes'
  BY TablesNext, ArmedNext, InboxesNext, AnswersNext DEF Uncursed
<1>3. TypeOK /\ Inv => (Uncursed => ClientsAreSeparate)
  <2> SUFFICES ASSUME TypeOK, Apart, NEW i \in out
               PROVE  /\ \A d \in Conns : recv[d] = i \/ poll[d] = i => d = ConnOf(i)
                      /\ ~ub_kernel_dma =>
                           \A k \in 1 .. lakes[i].pos :
                             k <= LakeCap =>
                               /\ lakes[i].mem[k][1] = ConnOf(i)
                               /\ \A j \in 1 .. k - 1 : lakes[i].mem[j][2] < lakes[i].mem[k][2]
    BY DEF ClientsAreSeparate, ConnOf
  <2>1. lakes[i].pos \in Nat
    BY DEF TypeOK, ServerTypeOK, Lakes
  <2>2. \A k \in 1 .. lakes[i].pos : k <= LakeCap => k \in Slots(lakes[i])
    BY <2>1, KernelAssumption DEF Slots
  <2> QED
    BY <2>2 DEF Armed, Answers, Answered, Own
<1> QED
  BY <1>1, <1>2, <1>3, TypeInit, TypeNext, BufInit, BufNext, KnownInit, KnownNext, PTL DEF Spec

-----------------------------------------------------------------------------
(* Peers that stay, and that wait for each answer                          *)

(* The conditions under which every client gets its own responses in their *)
(* order: one chunk of a connection at a time, nobody leaves, no send is   *)
(* cut short or refused, and no ubdma. Without the first a response is     *)
(* overwritten before it is sent (run lazy_batching), without the second a *)
(* response goes to whoever has the descriptor now (run stray_response).   *)
Lockstep == Pipeline = 1 /\ Leaves = {} /\ ~LossySend /\ ~ub_kernel_dma

PeersStay ==
  /\ \A c \in Conns : peer[c] = "up"
  /\ \A e \in Done : ~Closes(e)

LEMMA NothingCloses == TypeOK /\ PeersStay => ~close_connection
<1> SUFFICES ASSUME TypeOK, PeersStay, close_connection PROVE FALSE
  OBVIOUS
<1>1. Entry \in Done /\ Closes(Entry)
  BY DoneTake DEF close_connection
<1> QED
  BY <1>1 DEF PeersStay

LEMMA StayNext ==
  ASSUME TypeOK, Leaves = {}, PeersStay, [Next]_vars
  PROVE  PeersStay'
<1>1. CASE peer' = peer /\ Done' \subseteq Done
  BY <1>1 DEF PeersStay, Closes
<1>2. CASE peer' = peer /\ \E x \in CQE : ~Closes(x) /\ Completed' = Append(Completed, x)
  BY <1>2, DoneAppend DEF PeersStay, Closes
<1>3. CASE Execute
  <2> DEFINE e == Head(sqShared)
  <2>1. e \in SQE /\ cqLocal' = cqLocal
    BY <1>3, ExecAdds DEF TakeSqe
  <2>2. /\ peer' = peer
        /\ cqShared' = cqShared \/ \E x \in CQE : ~Closes(x) /\ Post(x)
    <3>1. CASE ExecProvide
      BY <3>1, CqeTypes DEF ExecProvide, sockVars, Closes, Cqe
    <3>2. CASE ExecAccept
      BY <3>2 DEF ExecAccept
    <3>3. CASE ExecArm
      <4>1. e.op \in {"recv", "poll"} /\ e.id \in Ids
        BY <2>1, <3>3, SqeKinds DEF ExecArm
      <4>2. Cqe(e.op, e.id, "EBADF", NoBuf) \in CQE /\ ~Closes(Cqe(e.op, e.id, "EBADF", NoBuf))
        BY <4>1, CqeTypes DEF Failures, Closes, Cqe
      <4>3. peer' = peer /\ (cqShared' = cqShared \/ Post(Cqe(e.op, e.id, "EBADF", NoBuf)))
        BY <3>3 DEF ExecArm
      <4> QED
        BY <4>2, <4>3
    <3>4. CASE ExecSend(lakes)
      <4>1. e.op = "send" /\ e.id \in Ids
        BY <2>1, <3>4, SqeKinds DEF ExecSend
      <4>2. \A res \in {"EBADF", "EAGAIN"} :
              Cqe("send", e.id, res, NoBuf) \in CQE /\ ~Closes(Cqe("send", e.id, res, NoBuf))
        BY <4>1, CqeTypes DEF Failures, Closes, Cqe
      <4>3. Target(e) = NoConn \/ peer[Target(e)] = "up"
        <5>1. Target(e) \in Conns \cup {NoConn}
          BY DEF Target, TypeOK, KernelTypeOK
        <5> QED
          BY <5>1 DEF PeersStay
      <4>4. /\ peer' = peer
            /\ \/ cqShared' = cqShared
               \/ \E res \in {"EBADF", "EAGAIN"} : Post(Cqe("send", e.id, res, NoBuf))
        BY <3>4, <4>3 DEF ExecSend
      <4> QED
        BY <4>2, <4>4
    <3> QED
      BY <1>3, <3>1, <3>2, <3>3, <3>4 DEF Execute
  <2>3. CASE cqShared' = cqShared
    BY <1>1, <2>1, <2>2, <2>3, SameRings
  <2>4. CASE \E x \in CQE : ~Closes(x) /\ Post(x)
    BY <1>2, <2>1, <2>2, <2>4, CompletedPost
  <2> QED
    BY <2>2, <2>3, <2>4
<1>4. CASE \E c \in Conns : Environment(c)
  <2>1. PICK c \in Conns : Environment(c)
    BY <1>4
  <2>2. CASE KernelAccept(c)
    <3>1. peer' = peer /\ \E x \in CQE : ~Closes(x) /\ Completed' = Append(Completed, x)
      BY <2>2, AcceptPosts DEF Cqe, Closes, KernelAccept
    <3> QED
      BY <1>2, <3>1
  <2>3. CASE KernelRecv(c)
    <3>1. recv[c] \in Ids /\ peer[c] = "up" /\ pool \subseteq Buffers
      BY <2>3 DEF KernelRecv, PeersStay, TypeOK, KernelTypeOK
    <3>2. /\ peer' = peer /\ cqLocal' = cqLocal
          /\ \/ \E b \in pool : Post(Cqe("recv", recv[c], "ok", b))
             \/ Post(Cqe("recv", recv[c], "ENOBUFS", NoBuf))
      BY <2>3, <3>1 DEF KernelRecv
    <3>3. /\ \A b \in pool : Cqe("recv", recv[c], "ok", b) \in CQE
          /\ Cqe("recv", recv[c], "ENOBUFS", NoBuf) \in CQE
      BY <3>1, CqeTypes DEF Failures
    <3>4. \E x \in CQE : ~Closes(x) /\ Post(x)
      BY <3>2, <3>3 DEF Closes, Cqe
    <3> QED
      BY <1>2, <3>2, <3>4, CompletedPost
  <2>4. CASE KernelPoll(c)
    <3>1. peer' = peer /\ \E x \in CQE : ~Closes(x) /\ Completed' = Append(Completed, x)
      BY <2>4, PollPosts DEF Cqe, Closes, KernelPoll
    <3> QED
      BY <1>2, <3>1
  <2>5. CASE PeerConnect(c) \/ PeerSend(c)
    <3>1. peer' = peer /\ UNCHANGED <<cqLocal, cqShared>>
      BY <2>5 DEF PeerConnect, PeerSend, ringVars
    <3> QED
      BY <1>1, <3>1, SameRings
  <2>6. ~PeerLeave(c)
    BY DEF PeerLeave
  <2> QED
    BY <2>1, <2>2, <2>3, <2>4, <2>5, <2>6 DEF Environment
<1>5. CASE process_entry
  <2>1. Next_cqe /\ cqShared' = cqShared /\ peer' = peer
    BY <1>5 DEF process_entry, process_ignored, accept_panics, process_no_buffers,
       process_entry_accept, close_connection, request_reply, ubdma, sockVars
  <2> QED
    BY <1>1, <2>1, DoneTake
<1>6. CASE LoopTop
  BY <1>1, <1>6, LoopTopAdds DEF LoopTop, sockVars
<1>7. CASE Restart
  <2>1. peer' = peer /\ Done' = {}
    BY <1>7 DEF Restart, KernelReset, Done, Completed, Range
  <2> QED
    BY <1>1, <2>1
<1>8. CASE \/ register_buffers \/ start_accepts \/ release_push
           \/ reserve_writes_buffer \/ wideband_send_panics \/ Return \/ EnterFails
           \/ release_clear \/ EndOfBatch \/ Rest \/ UNCHANGED vars
  <2>1. UNCHANGED <<peer, cqLocal, cqShared>>
    BY <1>8 DEF register_buffers, start_accepts, release_push,
       reserve_writes_buffer, wideband_send_panics, Return, EnterFails, release_clear,
       EndOfBatch, Rest, vars, kernelVars, ringVars, sockVars
  <2> QED
    BY <1>1, <2>1, SameRings
<1> QED
  BY <1>3, <1>4, <1>5, <1>6, <1>7, <1>8 DEF Next, Worker

(* A connection has one descriptor.                                        *)
OneFd ==
  /\ \A f \in Fds : fdTable[f] # NoConn => stage[fdTable[f]] = "open"
  /\ \A f, g \in Fds : fdTable[f] = fdTable[g] /\ fdTable[f] # NoConn => f = g

LEMMA OneFdNext ==
  ASSUME TypeOK, OneFd, [Next]_vars
  PROVE  OneFd'
<1>1. CASE UNCHANGED <<fdTable, stage>>
  BY <1>1 DEF OneFd
<1>2. CASE \E c \in Conns : Environment(c)
  <2>1. PICK c \in Conns : Environment(c)
    BY <1>2
  <2>2. CASE KernelAccept(c)
    <3>1. CASE UNCHANGED <<fdTable, stage>>
      BY <1>1, <3>1
    <3>2. CASE \E f \in Fds : fdTable' = [fdTable EXCEPT ![f] = c]
                              /\ stage' = [stage EXCEPT ![c] = "open"]
      <4>1. PICK f \in Fds : fdTable' = [fdTable EXCEPT ![f] = c]
                             /\ stage' = [stage EXCEPT ![c] = "open"]
        BY <3>2
      <4>2. \A g \in Fds : fdTable[g] # c
        BY <2>2, KernelAssumption DEF KernelAccept, OneFd
      <4> QED
        BY <4>1, <4>2 DEF OneFd, TypeOK, KernelTypeOK
    <3> QED
      BY <2>2, <3>1, <3>2 DEF KernelAccept
  <2>3. CASE PeerConnect(c)
    BY <2>3, KernelAssumption DEF PeerConnect, OneFd, TypeOK, KernelTypeOK
  <2>4. CASE KernelRecv(c) \/ KernelPoll(c) \/ PeerSend(c) \/ PeerLeave(c)
    BY <1>1, <2>4 DEF KernelRecv, KernelPoll, PeerSend, PeerLeave
  <2> QED
    BY <2>1, <2>2, <2>3, <2>4 DEF Environment
<1>3. CASE Execute
  BY <1>1, <1>3 DEF Execute, ExecProvide, ExecAccept, ExecArm, ExecSend, sockVars
<1>4. CASE close_connection
  <2>1. stage' = stage
    BY <1>4 DEF close_connection
  <2>2. \A f \in Fds : fdTable'[f] # NoConn => fdTable'[f] = fdTable[f]
    BY <1>4 DEF close_connection, CloseFd, TypeOK, KernelTypeOK
  <2> QED
    BY <2>1, <2>2 DEF OneFd
<1>5. CASE \/ process_ignored \/ accept_panics \/ process_no_buffers \/ process_entry_accept
           \/ request_reply \/ ubdma
  BY <1>1, <1>5 DEF process_ignored, accept_panics, process_no_buffers, process_entry_accept,
     request_reply, ubdma, sockVars
<1>6. CASE Restart
  BY <1>6 DEF Restart, KernelReset, OneFd, TypeOK, KernelTypeOK
<1>7. CASE \/ register_buffers \/ start_accepts \/ LoopTop \/ release_push
           \/ reserve_writes_buffer \/ wideband_send_panics \/ Return \/ EnterFails
           \/ release_clear \/ EndOfBatch \/ Rest \/ UNCHANGED vars
  BY <1>1, <1>7 DEF register_buffers, start_accepts, LoopTop, release_push,
     reserve_writes_buffer, wideband_send_panics, Return, EnterFails, release_clear,
     EndOfBatch, Rest, vars, kernelVars, sockVars
<1> QED
  BY <1>2, <1>3, <1>4, <1>5, <1>6, <1>7 DEF Next, Worker, process_entry

(* The sends that wait in the ring for client i.                           *)
SendsOf(i) == {e \in SQE : e.op = "send" /\ e.id = i}
Sending(i) == Has(Queued, SendsOf(i))

LEMMA SendingWaits ==
  ASSUME TypeOK, NEW i
  PROVE  Sending(i) <=> \E e \in Waiting : e.op = "send" /\ e.id = i
BY Rings DEF Sending, Has, SendsOf, Waiting, Range

LEMMA NoSendsPushed ==
  ASSUME TypeOK, NEW es \in Seq(SQE), Queued' = Queued \o es,
         \A k \in DOMAIN es : es[k].op # "send", NEW i
  PROVE  /\ \A e \in Waiting' : e.op = "send" => e \in Waiting
         /\ Once(Queued, SendsOf(i)) => Once(Queued', SendsOf(i))
<1>1. Once(es, SendsOf(i)) /\ ~Has(es, SendsOf(i))
  BY DEF Once, Has, SendsOf
<1>2. Queued \in Seq(SQE)
  BY Rings
<1>3. Once(Queued, SendsOf(i)) => Once(Queued', SendsOf(i))
  BY <1>1, <1>2, ConcatHas
<1>4. Waiting' = Waiting \cup Range(es)
  BY WaitingGrows
<1> QED
  BY <1>3, <1>4 DEF Range

(* Only LoopTop queues sends.                                              *)
LEMMA SendsStep ==
  ASSUME TypeOK, [Next]_vars, ~LoopTop, NEW i
  PROVE  /\ \A e \in Waiting' : e.op = "send" => e \in Waiting
         /\ Once(Queued, SendsOf(i)) => Once(Queued', SendsOf(i))
<1>1. CASE UNCHANGED <<sqLocal, sqShared>>
  BY <1>1 DEF Waiting, Queued
<1>2. CASE register_buffers \/ release_push
  <2>1. PICK bs \in Seq(Buffers) : PushAndSync(Provides(bs))
    <3>1. [k \in 1 .. BUFFERS_COUNT |-> k - 1] \in Seq(Buffers)
      BY KernelAssumption DEF Buffers
    <3> QED
      BY <1>2, <3>1 DEF register_buffers, release_push, TypeOK, ServerTypeOK
  <2>2. Provides(bs) \in Seq(SQE) /\ \A k \in DOMAIN Provides(bs) : Provides(bs)[k].op # "send"
    BY ProvidesType DEF Provides, provide_buffer, Sqe
  <2> QED
    BY <2>1, <2>2, QueuedPush, NoSendsPushed
<1>3. CASE start_accepts
  <2> DEFINE es == [k \in 1 .. AcceptMulti |-> accept_multi]
  <2>1. es \in Seq(SQE) /\ \A k \in DOMAIN es : es[k].op # "send"
    BY SqeTypes, ReactorAssumption DEF accept_multi, Sqe
  <2>2. sqLocal' = sqLocal \o es /\ sqShared' = sqShared
    BY <1>3 DEF start_accepts
  <2> HIDE DEF es
  <2> QED
    BY <2>1, <2>2, QueuedGrows, NoSendsPushed
<1>4. CASE process_entry_accept
  <2>1. PICK es \in Seq(SQE) :
           /\ Queued' = Queued \o es
           /\ \A k \in DOMAIN es : es[k].op \in {"recv", "poll"}
    BY <1>4, AcceptPushes
  <2>2. \A k \in DOMAIN es : es[k].op # "send"
    BY <2>1
  <2> QED
    BY <2>1, <2>2, NoSendsPushed
<1>5. CASE Execute
  <2>1. sqShared # <<>> /\ TakeSqe
    BY <1>5, ExecAdds DEF Execute
  <2>2. Queued \in Seq(SQE) /\ Queued # <<>> /\ Queued' = Tail(Queued)
    BY <2>1, Rings, QueuedTake
  <2> QED
    BY <1>5, <2>2, ExecAdds, TailHas
<1>6. CASE Restart
  BY <1>6, EmptyHas DEF Restart, KernelReset, Waiting, Queued, Range, Once
<1>7. CASE \E c \in Conns : Environment(c)
  BY <1>1, <1>7 DEF Environment, KernelAccept, KernelRecv, KernelPoll, PeerConnect, PeerSend,
     PeerLeave, ringVars
<1>8. CASE \/ process_ignored \/ accept_panics \/ process_no_buffers \/ close_connection
           \/ request_reply \/ ubdma
  BY <1>1, <1>8 DEF process_ignored, accept_panics, process_no_buffers, close_connection,
     request_reply, ubdma
<1>9. CASE \/ reserve_writes_buffer \/ wideband_send_panics \/ Return \/ EnterFails
           \/ release_clear \/ EndOfBatch \/ Rest \/ UNCHANGED vars
  BY <1>1, <1>9 DEF reserve_writes_buffer, wideband_send_panics, Return, EnterFails,
     release_clear, EndOfBatch, Rest, vars, kernelVars, ringVars
<1> QED
  BY <1>2, <1>3, <1>4, <1>5, <1>6, <1>7, <1>8, <1>9 DEF Next, Worker, process_entry

LEMMA LoopTopSends ==
  ASSUME TypeOK, LoopTop, NEW i \in Ids
  PROVE  /\ \A e \in Waiting' : e.op = "send" /\ e.id = i =>
              e \in Waiting \/ (i \in Sendable /\ e = SendEntry(i))
         /\ Once(Queued, SendsOf(i)) /\ (Sending(i) => i \notin Sendable)
              => Once(Queued', SendsOf(i))
<1>1. PICK ids \in InIdOrder(Sendable) : Flush([k \in DOMAIN ids |-> SendEntry(ids[k])])
  BY DEF LoopTop
<1> DEFINE es == [k \in DOMAIN ids |-> SendEntry(ids[k])]
<1>2. es \in Seq(SQE)
  BY SendsType DEF LoopTop
<1>3. /\ DOMAIN es = DOMAIN ids
      /\ \A k \in DOMAIN ids : /\ es[k] = SendEntry(ids[k]) /\ es[k].id = ids[k]
                               /\ ids[k] \in Sendable
  BY DEF InIdOrder, SendEntry, send, Sqe
<1>4. \A k, j \in DOMAIN ids : ids[k] = ids[j] => k = j
  <2>1. /\ DOMAIN ids \subseteq Int /\ \A k \in DOMAIN ids : ids[k] \in Int
    <3>1. Sendable \subseteq Int
      BY KernelAssumption DEF Sendable, Pending, TypeOK, ServerTypeOK, Ids
    <3>2. DOMAIN ids = 1 .. Cardinality(Sendable)
      BY DEF InIdOrder
    <3>3. DOMAIN ids \subseteq Int
      BY <3>2
    <3> QED
      BY <1>3, <3>1, <3>3
  <2>2. \A k, j \in DOMAIN ids : k < j => ids[k] < ids[j]
    BY DEF InIdOrder
  <2> QED
    BY <2>1, <2>2
<1> HIDE DEF es
<1>5. CASE FlushNow
  <2>1. Queued' = Queued \o es /\ Waiting' = Waiting \cup Range(es)
    BY <1>1, <1>2, <1>5, QueuedPush, WaitingPush DEF Flush, es
  <2>2. \A e \in Range(es) : e.id = i => i \in Sendable /\ e = SendEntry(i)
    BY <1>3 DEF Range
  <2>3. Once(es, SendsOf(i)) /\ (Has(es, SendsOf(i)) => i \in Sendable)
    BY <1>3, <1>4 DEF Once, Has, SendsOf
  <2>4. Queued \in Seq(SQE)
    BY Rings
  <2>5. Once(Queued, SendsOf(i)) /\ Once(es, SendsOf(i))
          /\ ~(Has(Queued, SendsOf(i)) /\ Has(es, SendsOf(i))) => Once(Queued', SendsOf(i))
    BY <1>2, <2>1, <2>4, ConcatHas
  <2> QED
    BY <2>1, <2>2, <2>3, <2>5 DEF Sending
<1>6. CASE ~FlushNow
  BY <1>1, <1>6 DEF Flush, Waiting, Queued
<1> QED
  BY <1>5, <1>6

(* The responses that peer c got are those to its first chunks, and at     *)
(* most one more chunk of it is anywhere in the system.                    *)
Turn ==
  \A c \in Conns :
    /\ \A n \in DOMAIN got[c] : got[c][n] = <<c, n>>
    /\ Len(got[c]) <= Taken(c)
    /\ sent[c] <= Len(got[c]) + 1

(* Where that chunk of client i is: in a completion, in the slot, or in a  *)
(* queued send, whose response is still in the memory it points to.        *)
Served(i) == Len(got[ConnOf(i)])
InFlight(i) ==
  /\ lakes[i].pos = 0 /\ lakes[i].mem[1] = <<ConnOf(i), Served(i) + 1>>
  /\ Taken(ConnOf(i)) = Served(i) + 1
  /\ \A e \in Done : ~FillFor(e, i)
Due(i) ==
  /\ lakes[i].pos <= 1
  /\ lakes[i].pos # 0 => lakes[i].mem[1][2] > Served(i)
  /\ \A e \in Done : FillFor(e, i) => Chunk(e)[2] > Served(i)
  /\ \A e \in Waiting : e.op = "send" /\ e.id = i =>
       e.arg = 1 /\ e.fd = client_fds[i] /\ InFlight(i)
  /\ Once(Queued, SendsOf(i))

SendsKnown == \A e \in Waiting : e.op = "send" => e.id \in out

Lock == Turn /\ SendsKnown /\ \A i \in out : Due(i)

LEMMA Numbers ==
  ASSUME TypeOK, NEW c \in Conns
  PROVE  /\ Len(got[c]) \in Nat /\ sent[c] \in Nat /\ Len(inbox[c]) \in Nat
         /\ Taken(c) \in Int /\ Taken(c) <= sent[c]
         /\ got[c] \in Seq(Memory) /\ DOMAIN got[c] = 1 .. Len(got[c])
<1>1. /\ got[c] \in Seq(Memory) /\ inbox[c] \in Seq(Units) /\ sent[c] \in Nat
  BY KernelAssumption DEF TypeOK, KernelTypeOK
<1>2. Len(got[c]) \in Nat /\ Len(inbox[c]) \in Nat /\ DOMAIN got[c] = 1 .. Len(got[c])
  BY <1>1
<1> QED
  BY <1>1, <1>2 DEF Taken

(* A chunk of client i that was delivered and not answered is its last.    *)
LEMMA LastChunk ==
  ASSUME TypeOK, Turn, NEW i, ConnOf(i) \in Conns, NEW u, Own(i, u), u[2] > Served(i)
  PROVE  /\ u = <<ConnOf(i), Served(i) + 1>>
         /\ Taken(ConnOf(i)) = Served(i) + 1 /\ sent[ConnOf(i)] = Served(i) + 1
<1> DEFINE c == ConnOf(i)
<1>1. /\ Len(got[c]) \in Nat /\ sent[c] \in Nat /\ Taken(c) \in Int /\ Taken(c) <= sent[c]
  BY Numbers
<1>2. sent[c] <= Len(got[c]) + 1
  BY DEF Turn
<1>3. /\ u \in Conns \X (1 .. MaxReq) /\ u[1] = c /\ u[2] <= Taken(c) /\ u[2] > Len(got[c])
      /\ u[2] \in Int
  BY KernelAssumption DEF Own, Units, Served
<1> HIDE DEF c
<1>4. u[2] = Len(got[c]) + 1 /\ Taken(c) = Len(got[c]) + 1 /\ sent[c] = Len(got[c]) + 1
  BY <1>1, <1>2, <1>3
<1>5. u = <<u[1], u[2]>>
  BY <1>3
<1> QED
  BY <1>3, <1>4, <1>5 DEF c, Served

(* The slot and the completions hold no two of them.                       *)
LEMMA OneAtATime ==
  ASSUME TypeOK, Turn, NEW i \in out, ConnOf(i) \in Conns, Answered(i), Due(i)
  PROVE  /\ lakes[i].pos # 0 =>
              /\ lakes[i].pos = 1 /\ 1 \in Slots(lakes[i])
              /\ lakes[i].mem[1] = <<ConnOf(i), Served(i) + 1>>
              /\ Taken(ConnOf(i)) = Served(i) + 1
              /\ \A e \in Done : ~FillFor(e, i)
         /\ \A e \in Done : FillFor(e, i) =>
              /\ Chunk(e) = <<ConnOf(i), Served(i) + 1>>
              /\ Taken(ConnOf(i)) = Served(i) + 1
         /\ \A a, b \in Done : FillFor(a, i) /\ FillFor(b, i) => ~Older(a, b)
<1>0. lakes[i].pos \in Nat /\ Served(i) \in Int
  BY Numbers DEF Served, TypeOK, ServerTypeOK, Lakes
<1>1. \A e \in Done : FillFor(e, i) =>
         /\ Chunk(e) = <<ConnOf(i), Served(i) + 1>>
         /\ Taken(ConnOf(i)) = Served(i) + 1
  BY LastChunk DEF Answered, Due
<1>2. ASSUME lakes[i].pos # 0
      PROVE  /\ lakes[i].pos = 1 /\ 1 \in Slots(lakes[i])
             /\ lakes[i].mem[1] = <<ConnOf(i), Served(i) + 1>>
             /\ Taken(ConnOf(i)) = Served(i) + 1
  <2>1. lakes[i].pos = 1
    BY <1>0, <1>2 DEF Due
  <2>2. 1 \in Slots(lakes[i])
    BY <2>1, KernelAssumption DEF Slots
  <2>3. Own(i, lakes[i].mem[1]) /\ lakes[i].mem[1][2] > Served(i)
    BY <1>2, <2>2 DEF Answered, Due
  <2> QED
    BY <2>1, <2>2, <2>3, LastChunk
<1>3. ASSUME lakes[i].pos # 0, NEW e \in Done, FillFor(e, i)
      PROVE  FALSE
  <2>1. lakes[i].mem[1][2] = Served(i) + 1 /\ Chunk(e)[2] = Served(i) + 1
    BY <1>1, <1>2, <1>3
  <2>2. lakes[i].mem[1][2] < Chunk(e)[2]
    BY <1>2, <1>3 DEF Answered
  <2> QED
    BY <1>0, <2>1, <2>2
<1>4. ASSUME NEW a \in Done, NEW b \in Done, FillFor(a, i), FillFor(b, i), Older(a, b)
      PROVE  FALSE
  <2>1. Chunk(a)[2] = Served(i) + 1 /\ Chunk(b)[2] = Served(i) + 1
    BY <1>1, <1>4
  <2>2. Chunk(a)[2] < Chunk(b)[2]
    BY <1>4 DEF Answered
  <2> QED
    BY <1>0, <2>1, <2>2
<1> QED
  BY <1>1, <1>2, <1>3, <1>4

LEMMA GotStep ==
  ASSUME [Next]_vars
  PROVE  got' = got \/ (Execute /\ ExecSend(lakes))
<1>1. CASE Execute
  BY <1>1 DEF Execute, ExecProvide, ExecAccept, ExecArm, sockVars
<1>2. CASE \E c \in Conns : Environment(c)
  BY <1>2 DEF Environment, KernelAccept, KernelRecv, KernelPoll, PeerConnect, PeerSend, PeerLeave
<1>3. CASE process_entry
  BY <1>3 DEF process_entry, process_ignored, accept_panics, process_no_buffers,
     process_entry_accept, close_connection, request_reply, ubdma, sockVars
<1>4. CASE \/ register_buffers \/ start_accepts \/ LoopTop \/ release_push
           \/ reserve_writes_buffer \/ wideband_send_panics \/ Return \/ EnterFails
           \/ release_clear \/ EndOfBatch \/ Restart \/ Rest \/ UNCHANGED vars
  BY <1>4 DEF register_buffers, start_accepts, LoopTop, release_push,
     reserve_writes_buffer, wideband_send_panics, Return, EnterFails, release_clear,
     EndOfBatch, Restart, KernelReset, Rest, vars, kernelVars, sockVars
<1> QED
  BY <1>1, <1>2, <1>3, <1>4 DEF Next, Worker

LEMMA ClientConn ==
  ASSUME TypeOK, Tables, NEW i \in out
  PROVE  i \in Ids /\ client_fds[i] \in Fds /\ ConnOf(i) \in Conns
BY DEF Tables, TypeOK, ServerTypeOK, KernelTypeOK, ConnOf

LEMMA ConnsDiffer ==
  ASSUME TypeOK, Tables, OneFd, NEW i \in out, NEW j \in out, ConnOf(i) = ConnOf(j)
  PROVE  i = j
<1>1. /\ client_fds[i] \in Fds /\ client_fds[j] \in Fds /\ fdTable[client_fds[i]] # NoConn
  BY ClientConn, KernelAssumption DEF ConnOf
<1>2. client_fds[i] = client_fds[j]
  BY <1>1 DEF OneFd, ConnOf
<1> QED
  BY <1>2 DEF Tables

(* A send that is executed is the answer that its client waits for.        *)
LEMMA SendExecuted ==
  ASSUME TypeOK, Lockstep, Tables, PeersStay, Lock, Execute, ExecSend(lakes)
  PROVE  \E i \in out :
           /\ i = Head(sqShared).id /\ InFlight(i) /\ ~Sending(i)'
           /\ got' = [got EXCEPT ![ConnOf(i)] = Append(@, <<ConnOf(i), Served(i) + 1>>)]
<1> DEFINE e == Head(sqShared)
<1>1. e \in Waiting /\ e \in SQE /\ e.op = "send" /\ sqShared # <<>> /\ TakeSqe
  BY ExecAdds DEF ExecSend, Execute
<1>2. PICK i \in out : i = e.id
  BY <1>1 DEF Lock, SendsKnown
<1> DEFINE c == ConnOf(i)
           x == <<c, Served(i) + 1>>
<1>3. Due(i) /\ e.arg = 1 /\ e.fd = client_fds[i] /\ InFlight(i)
  BY <1>1, <1>2 DEF Lock, Due
<1>4. i \in Ids /\ client_fds[i] \in Fds /\ c \in Conns
  BY <1>2, ClientConn
<1>5. Target(e) = c /\ c # NoConn /\ peer[c] = "up"
  BY <1>3, <1>4, KernelAssumption DEF Target, ConnOf, PeersStay
<1>6. got' = [got EXCEPT ![c] = @ \o [k \in 1 .. 1 |-> lakes[i].mem[k]]]
  <2>1. \E k \in (IF LossySend THEN 0 .. e.arg ELSE {e.arg}) :
          got' = [got EXCEPT ![c] = @ \o [n \in 1 .. k |-> lakes[e.id].mem[n]]]
    BY <1>5 DEF ExecSend
  <2>2. (IF LossySend THEN 0 .. e.arg ELSE {e.arg}) = {1}
    BY <1>3 DEF Lockstep
  <2>3. \E k \in {1} :
          got' = [got EXCEPT ![c] = @ \o [n \in 1 .. k |-> lakes[e.id].mem[n]]]
    BY <2>1, <2>2, Zenon
  <2>4. got' = [got EXCEPT ![c] = @ \o [n \in 1 .. 1 |-> lakes[e.id].mem[n]]]
    BY <2>3, Zenon
  <2> QED
    BY <1>2, <2>4
<1>7. lakes[i].mem[1] = x /\ x \in Memory
  <2>1. lakes[i].mem[1] = x
    BY <1>3 DEF InFlight
  <2>2. lakes[i].mem[1] \in Memory
    BY <1>4, KernelAssumption DEF TypeOK, ServerTypeOK, Lakes
  <2> QED
    BY <2>1, <2>2
<1>8. [k \in 1 .. 1 |-> lakes[i].mem[k]] = <<lakes[i].mem[1]>>
  OBVIOUS
<1>9. got[c] \o <<lakes[i].mem[1]>> = Append(got[c], x)
  BY <1>4, <1>7, Numbers, AppendIsConcat
<1>10. got' = [got EXCEPT ![c] = Append(@, x)]
  BY <1>6, <1>8, <1>9
<1>11. ~Sending(i)'
  <2>1. Queued \in Seq(SQE) /\ Queued # <<>> /\ Head(Queued) = e /\ Queued' = Tail(Queued)
    BY <1>1, Rings, QueuedTake
  <2>2. Once(Queued, SendsOf(i)) /\ e \in SendsOf(i)
    BY <1>1, <1>2, <1>3 DEF Due, SendsOf
  <2>3. ~Has(Queued', SendsOf(i))
    BY <2>1, <2>2, TailHas
  <2> QED
    BY <2>3 DEF Sending, SendsOf
<1> QED
  BY <1>2, <1>3, <1>10, <1>11

(* Peers send only when they have all answers; the kernel delivers only    *)
(* what they sent.                                                         *)
LEMMA TurnNext ==
  ASSUME TypeOK, TypeOK', Lockstep, Tables, PeersStay, Lock, [Next]_vars
  PROVE  Turn'
<1> SUFFICES ASSUME NEW c \in Conns
             PROVE  /\ \A n \in DOMAIN got'[c] : got'[c][n] = <<c, n>>
                    /\ Len(got'[c]) <= Taken(c)'
                    /\ sent'[c] <= Len(got'[c]) + 1
  BY DEF Turn, Taken
<1>1. /\ Len(got[c]) \in Nat /\ sent[c] \in Nat /\ Taken(c) \in Int
      /\ got[c] \in Seq(Memory) /\ DOMAIN got[c] = 1 .. Len(got[c])
  BY Numbers
<1>2. /\ \A n \in DOMAIN got[c] : got[c][n] = <<c, n>>
      /\ Len(got[c]) <= Taken(c) /\ sent[c] <= Len(got[c]) + 1
  BY DEF Lock, Turn
<1>3. Taken(c)' \in Int /\ Taken(c) <= Taken(c)'
  BY TakenStep
<1>4. CASE got'[c] = got[c]
  <2>1. sent'[c] <= Len(got[c]) + 1
    <3>1. CASE sent'[c] = sent[c]
      BY <1>2, <3>1
    <3>2. CASE sent'[c] = sent[c] + 1 /\ PeerSend(c)
      <4>1. sent[c] - Len(got[c]) < 1
        BY <3>2 DEF PeerSend, Lockstep
      <4> QED
        BY <1>1, <3>2, <4>1
    <3> QED
      BY <3>1, <3>2, InboxStep
  <2>2. Len(got[c]) <= Taken(c)'
    BY <1>1, <1>2, <1>3
  <2> QED
    BY <1>2, <1>4, <2>1, <2>2
<1>5. CASE Execute /\ ExecSend(lakes)
  <2>1. PICK i \in out :
          /\ InFlight(i)
          /\ got' = [got EXCEPT ![ConnOf(i)] = Append(@, <<ConnOf(i), Served(i) + 1>>)]
    BY <1>5, SendExecuted
  <2>2. CASE ConnOf(i) # c
    <3>1. got'[c] = got[c]
      BY <2>1, <2>2 DEF TypeOK, KernelTypeOK
    <3> QED
      BY <1>4, <3>1
  <2>3. CASE ConnOf(i) = c
    <3>1. got'[c] = Append(got[c], <<c, Len(got[c]) + 1>>) /\ Taken(c) = Len(got[c]) + 1
      BY <2>1, <2>3 DEF TypeOK, KernelTypeOK, InFlight, Served
    <3>2. /\ Len(got'[c]) = Len(got[c]) + 1
          /\ DOMAIN got'[c] = 1 .. Len(got[c]) + 1
          /\ got'[c][Len(got[c]) + 1] = <<c, Len(got[c]) + 1>>
          /\ \A n \in 1 .. Len(got[c]) : got'[c][n] = got[c][n]
      <4>1. <<c, Len(got[c]) + 1>> \in Memory
        <5>1. lakes[i].mem[1] = <<c, Len(got[c]) + 1>>
          BY <2>1, <2>3 DEF InFlight, Served
        <5>2. lakes[i].mem[1] \in Memory
          BY ClientConn, KernelAssumption DEF TypeOK, ServerTypeOK, Lakes
        <5> QED
          BY <5>1, <5>2
      <4> QED
        BY <1>1, <3>1, <4>1
    <3>3. sent'[c] = sent[c]
      BY <1>5 DEF Execute, ExecSend
    <3>4. \A n \in 1 .. Len(got[c]) + 1 : n \in 1 .. Len(got[c]) \/ n = Len(got[c]) + 1
      BY <1>1
    <3>5. \A n \in DOMAIN got'[c] : got'[c][n] = <<c, n>>
      BY <1>1, <1>2, <3>2, <3>4
    <3>6. Len(got'[c]) <= Taken(c)' /\ sent'[c] <= Len(got'[c]) + 1
      BY <1>1, <1>2, <1>3, <3>1, <3>2, <3>3
    <3> QED
      BY <3>5, <3>6
  <2> QED
    BY <2>2, <2>3
<1> QED
  BY <1>4, <1>5, GotStep

(* The client i goes on, with nothing of it moved but what is listed.      *)
LEMMA DueFrame ==
  ASSUME NEW i, Due(i), Stays(i), client_fds'[i] = client_fds[i], lakes'[i] = lakes[i],
         got'[ConnOf(i)] = got[ConnOf(i)],
         \A e \in Done' : FillFor(e, i) => Chunk(e)'[2] > Served(i),
         \A e \in Waiting' : e.op = "send" /\ e.id = i =>
           /\ e \in Waiting /\ Taken(ConnOf(i))' = Taken(ConnOf(i))
           /\ \A x \in Done' : FillFor(x, i) => x \in Done,
         Once(Queued, SendsOf(i)) => Once(Queued', SendsOf(i))
  PROVE  Due(i)'
<1>1. ConnOf(i)' = ConnOf(i) /\ Served(i)' = Served(i)
  BY DEF Stays, Served
<1>2. \A e \in Waiting' : e.op = "send" /\ e.id = i =>
        e.arg = 1 /\ e.fd = client_fds'[i] /\ InFlight(i)'
  BY <1>1 DEF Due, InFlight, FillFor, IsFill
<1>3. /\ lakes'[i].pos <= 1
      /\ lakes'[i].pos # 0 => lakes'[i].mem[1][2] > Served(i)'
      /\ \A e \in Done' : FillFor(e, i) => Chunk(e)'[2] > Served(i)'
  BY <1>1 DEF Due
<1>4. Once(Queued', SendsOf(i))
  BY DEF Due
<1> QED
  BY <1>2, <1>3, <1>4 DEF Due, FillFor, IsFill, SendsOf

LEMMA TakenSame ==
  ASSUME TypeOK, [Next]_vars, NEW i, Stays(i),
         \A c \in Conns : ~(Environment(c) /\ KernelRecv(c))
  PROVE  Taken(ConnOf(i))' = Taken(ConnOf(i))
<1>1. \A c \in Conns : Taken(c)' = Taken(c)
  BY TakenStep
<1> QED
  BY <1>1 DEF Stays, Taken

(* The next chunk of a connection finds nothing of it on the way.          *)
LEMMA RecvDue ==
  ASSUME TypeOK, BufInv, Armed, Inboxes, Turn, [Next]_vars, NEW c \in Conns, Environment(c),
         KernelRecv(c), NEW i \in out, Stays(i), Due(i)
  PROVE  Due(i)'
<1>1. /\ lakes' = lakes /\ client_fds' = client_fds /\ Alive /\ got' = got
      /\ UNCHANGED <<sqLocal, sqShared>> /\ sent' = sent
  BY DEF Environment, serverVars, tableVars, KernelRecv
<1>2. Waiting' = Waiting /\ Queued' = Queued
  BY <1>1 DEF Waiting, Queued
<1>3. CASE /\ bufmem' = bufmem /\ inbox' = inbox
           /\ \E x \in CQE : ~IsFill(x) /\ Completed' = Append(Completed, x)
  <2>1. \A e \in Done' : FillFor(e, i) => e \in Done /\ Chunk(e)' = Chunk(e)
    BY <1>3, DoneAppend DEF FillFor, Chunk
  <2>2. \A e \in Done' : FillFor(e, i) => Chunk(e)'[2] > Served(i)
    BY <2>1 DEF Due
  <2>3. Taken(ConnOf(i))' = Taken(ConnOf(i))
    BY <1>1, <1>3 DEF Taken, Stays
  <2> QED
    BY <1>1, <1>2, <2>1, <2>2, <2>3, DueFrame
<1>4. ASSUME NEW b \in pool, inbox[c] # <<>>, inbox' = [inbox EXCEPT ![c] = Tail(@)],
             bufmem' = [bufmem EXCEPT ![b].front = Head(inbox[c])],
             Cqe("recv", recv[c], "ok", b) \in CQE,
             Completed' = Append(Completed, Cqe("recv", recv[c], "ok", b))
      PROVE  Due(i)'
  <2>0. PICK x \in CQE : x = Cqe("recv", recv[c], "ok", b)
    BY <1>4
  <2>1. Done' = Done \cup {x}
    BY <1>4, <2>0, DoneAppend
  <2>2. x.id = recv[c] /\ x.arg = b /\ IsFill(x)
    BY <2>0 DEF Cqe, IsFill
  <2>3. ASSUME NEW e \in Done, IsFill(e)
        PROVE  Chunk(e)' = Chunk(e)
    <3>1. e.arg # b /\ e.arg \in Buffers
      BY <1>1, <2>3, PoolUnfilled, RingTypes, CqeKinds DEF IsFill
    <3>2. bufmem'[e.arg] = bufmem[e.arg]
      BY <1>4, <3>1 DEF TypeOK, KernelTypeOK
    <3> QED
      BY <3>2 DEF Chunk
  <2>4. \A e \in Done : FillFor(e, i) => Chunk(e)'[2] > Served(i)
    BY <2>3 DEF Due, FillFor
  <2>5. CASE ConnOf(i) # c
    <3>1. recv[c] # i
      BY <2>5 DEF Armed
    <3>2. \A e \in Done' : FillFor(e, i) => e \in Done
      BY <2>1, <2>2, <3>1 DEF FillFor
    <3>3. inbox'[ConnOf(i)] = inbox[ConnOf(i)]
      BY <1>4, <2>5 DEF Stays, TypeOK, KernelTypeOK
    <3>4. Taken(ConnOf(i))' = Taken(ConnOf(i))
      BY <1>1, <3>3 DEF Taken, Stays
    <3> QED
      BY <1>1, <1>2, <2>4, <3>2, <3>4, DueFrame
  <2>6. CASE ConnOf(i) = c
    <3>1. /\ Head(inbox[c])[2] = Taken(c) + 1 /\ Taken(c) \in Int
          /\ Len(got[c]) \in Nat /\ Len(got[c]) <= Taken(c)
      BY <1>4, RecvNext, Numbers DEF Turn
    <3>2. Chunk(x)'[2] > Served(i)
      <4>1. Chunk(x)' = Head(inbox[c])
        BY <1>4, <2>2 DEF Chunk, TypeOK, KernelTypeOK
      <4> QED
        BY <2>6, <3>1, <4>1 DEF Served
    <3>3. \A e \in Done' : FillFor(e, i) => Chunk(e)'[2] > Served(i)
      BY <2>1, <2>4, <3>2
    <3>4. ASSUME NEW e \in Waiting, e.op = "send", e.id = i
          PROVE  FALSE
      <4>1. Taken(c) = Len(got[c]) + 1 /\ sent[c] <= Len(got[c]) + 1
        BY <2>6, <3>4 DEF Due, InFlight, Served, Turn
      <4>2. Len(inbox[c]) # 0 /\ Len(inbox[c]) \in Nat /\ sent[c] \in Nat
        BY <1>4, Numbers, EmptySeq DEF TypeOK, KernelTypeOK
      <4> QED
        BY <3>1, <4>1, <4>2 DEF Taken
    <3> QED
      BY <1>1, <1>2, <3>3, <3>4, DueFrame
  <2> QED
    BY <2>5, <2>6
<1>5. \A res \in Failures : ~IsFill(Cqe("recv", recv[c], res, NoBuf))
  BY DEF IsFill, Cqe, Failures
<1> QED
  BY <1>3, <1>4, <1>5, RecvPosts

(* A chunk is answered: its slot was empty, and no send of it is queued.   *)
LEMMA ReplyDue ==
  ASSUME TypeOK, BufInv, Lockstep, Turn, [Next]_vars, request_reply,
         NEW i \in out, Stays(i), Answered(i), Due(i)
  PROVE  Due(i)'
<1>0. i \in Ids /\ lakes[i] \in Lakes
  BY DEF TypeOK, ServerTypeOK
<1>1. PICK x \in Done : x = Entry
  BY ReplyFrees
<1>2. IsFill(x) /\ x.id \in Ids /\ Done' \subseteq Done /\ bufmem' = bufmem
  BY <1>1, ReplyFrees DEF request_reply, Shifted, Lockstep
<1>3. /\ lakes' = [lakes EXCEPT ![x.id] = LakeWrite(@, Chunk(x))]
      /\ UNCHANGED <<client_fds, got, inbox, sent, sqLocal, sqShared>>
  BY <1>1 DEF request_reply, Chunk, tableVars, sockVars
<1>4. /\ Waiting' = Waiting /\ Queued' = Queued
      /\ Taken(ConnOf(i))' = Taken(ConnOf(i)) /\ \A e : Chunk(e)' = Chunk(e)
  BY <1>2, <1>3 DEF Waiting, Queued, Taken, Stays, Chunk
<1>5. \A e \in Done' : FillFor(e, i) => Chunk(e)'[2] > Served(i)
  BY <1>2, <1>4 DEF Due
<1>6. CASE x.id # i
  <2>1. lakes'[i] = lakes[i]
    BY <1>0, <1>3, <1>6 DEF TypeOK, ServerTypeOK
  <2> QED
    BY <1>2, <1>3, <1>4, <1>5, <2>1, DueFrame
<1>7. CASE x.id = i
  <2>1. FillFor(x, i)
    BY <1>2, <1>7 DEF FillFor
  <2>2. lakes[i].pos = 0 /\ Chunk(x)[2] > Served(i)
    BY <1>1, <2>1, OneAtATime DEF Due, Stays
  <2>3. \A e \in Waiting : ~(e.op = "send" /\ e.id = i)
    BY <1>1, <2>1 DEF Due, InFlight
  <2>4. lakes'[i] = LakeWrite(lakes[i], Chunk(x))
    BY <1>3, <1>7 DEF TypeOK, ServerTypeOK
  <2>5. lakes'[i].pos = 1 /\ lakes'[i].mem[1] = Chunk(x)
    BY <1>0, <2>2, <2>4, KernelAssumption DEF LakeWrite, Lakes
  <2>6. Served(i)' = Served(i)
    BY <1>3 DEF Served, Stays
  <2>7. Once(Queued', SendsOf(i))
    BY <1>4 DEF Due
  <2> QED
    BY <1>4, <1>5, <2>2, <2>3, <2>5, <2>6, <2>7 DEF Due, FillFor, IsFill, SendsOf
<1> QED
  BY <1>6, <1>7

(* The responses are handed to the ring: what was in the slot is in        *)
(* flight.                                                                 *)
LEMMA LoopTopDue ==
  ASSUME TypeOK, Lockstep, Turn, [Next]_vars, LoopTop,
         NEW i \in out, Stays(i), Answered(i), Due(i)
  PROVE  Due(i)'
<1>0. i \in Ids /\ lakes[i] \in Lakes
  BY DEF TypeOK, ServerTypeOK
<1>1. UNCHANGED <<client_fds, out, got, bufmem, sent, inbox>> /\ lakes' = LakesFlushed
  BY DEF LoopTop, Flush, tableVars, sockVars, bufVars
<1>2. Done' = Done /\ Taken(ConnOf(i))' = Taken(ConnOf(i)) /\ \A e : Chunk(e)' = Chunk(e)
  BY <1>1, LoopTopAdds DEF Taken, Stays, Chunk
<1>3. /\ \A e \in Waiting' : e.op = "send" /\ e.id = i =>
           e \in Waiting \/ (i \in Sendable /\ e = SendEntry(i))
      /\ Once(Queued, SendsOf(i)) /\ (Sending(i) => i \notin Sendable)
           => Once(Queued', SendsOf(i))
  BY <1>0, LoopTopSends
<1>4. Sending(i) => i \notin Sendable
  <2>1. Sending(i) => lakes[i].pos = 0
    BY SendingWaits DEF Due, InFlight
  <2> QED
    BY <2>1 DEF Sendable, Pending
<1>5. Once(Queued', SendsOf(i))
  BY <1>3, <1>4 DEF Due
<1>6. \A e \in Done' : FillFor(e, i) => Chunk(e)'[2] > Served(i)
  BY <1>2 DEF Due
<1>7. CASE i \notin Sendable
  <2>1. lakes'[i] = lakes[i]
    BY <1>0, <1>1, <1>7 DEF LakesFlushed
  <2> QED
    BY <1>1, <1>2, <1>3, <1>5, <1>6, <1>7, <2>1, DueFrame
<1>8. CASE i \in Sendable
  <2>1. lakes[i].pos # 0
    BY <1>8 DEF Sendable, Pending
  <2>2. /\ lakes[i].pos = 1 /\ lakes[i].mem[1] = <<ConnOf(i), Served(i) + 1>>
        /\ Taken(ConnOf(i)) = Served(i) + 1 /\ \A e \in Done : ~FillFor(e, i)
    BY <2>1, OneAtATime DEF Stays
  <2>3. lakes'[i].pos = 0 /\ lakes'[i].mem = lakes[i].mem
    BY <1>0, <1>1, <1>8 DEF LakesFlushed, Lakes
  <2>4. Served(i)' = Served(i) /\ ConnOf(i)' = ConnOf(i)
    BY <1>1 DEF Served, Stays
  <2>5. InFlight(i)'
    BY <1>2, <2>2, <2>3, <2>4 DEF InFlight, FillFor, IsFill
  <2>6. \A e \in Waiting : ~(e.op = "send" /\ e.id = i)
    BY <2>1 DEF Due, InFlight
  <2>7. \A e \in Waiting' : e.op = "send" /\ e.id = i => e.arg = 1 /\ e.fd = client_fds'[i]
    BY <1>1, <1>3, <2>2, <2>6 DEF SendEntry, send, Sqe
  <2> QED
    BY <1>5, <1>6, <2>3, <2>4, <2>5, <2>7 DEF Due, FillFor, IsFill, SendsOf
<1> QED
  BY <1>7, <1>8

(* A send is executed: its client waits for nothing more.                  *)
LEMMA SendDue ==
  ASSUME TypeOK, Lockstep, Tables, OneFd, PeersStay, Lock, [Next]_vars, Execute,
         ExecSend(lakes), NEW i \in out, Stays(i)
  PROVE  Due(i)'
<1>0. Due(i) /\ i \in Ids /\ ConnOf(i) \in Conns
  BY ClientConn DEF Lock
<1>1. UNCHANGED <<client_fds, out, lakes, bufmem, sent, inbox>>
  BY DEF Execute, ExecSend, tableVars, bufVars
<1>2. PICK j \in out :
        /\ InFlight(j) /\ ~Sending(j)'
        /\ got' = [got EXCEPT ![ConnOf(j)] = Append(@, <<ConnOf(j), Served(j) + 1>>)]
  BY SendExecuted
<1>3. /\ ~LoopTop /\ ~Restart /\ \A c \in Conns : ~(Environment(c) /\ KernelRecv(c))
  <2>1. ~LoopTop /\ ~Restart
    BY DEF Execute, LoopTop, Restart
  <2>2. got' # got
    <3>1. ConnOf(j) \in Conns
      BY <1>2, ClientConn
    <3>2. Len(got[ConnOf(j)]) \in Nat /\ got[ConnOf(j)] \in Seq(Memory)
      BY <3>1, Numbers
    <3>3. Len(got'[ConnOf(j)]) = Len(got[ConnOf(j)]) + 1
      BY <1>2, <3>1, <3>2 DEF TypeOK, KernelTypeOK
    <3> QED
      BY <3>2, <3>3
  <2> QED
    BY <2>1, <2>2 DEF KernelRecv
<1>4. \A e \in Done' : IsFill(e) => e \in Done /\ Chunk(e)' = Chunk(e)
  BY <1>1, <1>3, FillsStep DEF Chunk
<1>5. /\ \A e \in Waiting' : e.op = "send" => e \in Waiting
      /\ Once(Queued, SendsOf(i)) => Once(Queued', SendsOf(i))
  BY <1>3, SendsStep
<1>6. CASE j = i
  <2>1. lakes'[i].pos = 0 /\ \A e \in Done' : ~FillFor(e, i)
    BY <1>1, <1>2, <1>4, <1>6 DEF InFlight, FillFor
  <2>2. \A e \in Waiting' : ~(e.op = "send" /\ e.id = i)
    <3>1. \A e \in Waiting' : e.op = "send" /\ e.id = i => e \in SendsOf(i)
      BY <1>5, RingTypes DEF SendsOf
    <3>2. ~Has(Queued', SendsOf(i))
      BY <1>2, <1>6 DEF Sending, SendsOf
    <3> QED
      BY <3>1, <3>2 DEF Has, Waiting, Range
  <2>3. Once(Queued', SendsOf(i))
    BY <1>0, <1>5 DEF Due
  <2> QED
    BY <2>1, <2>2, <2>3 DEF Due, FillFor, IsFill, SendsOf
<1>7. CASE j # i
  <2>1. ConnOf(j) # ConnOf(i)
    BY <1>2, <1>7, ConnsDiffer
  <2>2. got'[ConnOf(i)] = got[ConnOf(i)]
    BY <1>0, <1>2, <2>1 DEF TypeOK, KernelTypeOK
  <2>3. \A e \in Done' : FillFor(e, i) => e \in Done /\ Chunk(e)'[2] > Served(i)
    BY <1>0, <1>4 DEF Due, FillFor
  <2>4. Taken(ConnOf(i))' = Taken(ConnOf(i))
    BY <1>1 DEF Taken, Stays
  <2> QED
    BY <1>0, <1>1, <1>5, <2>2, <2>3, <2>4, DueFrame
<1> QED
  BY <1>6, <1>7

(* A new client begins with an empty slot and nothing on the way.          *)
LEMMA AcceptDue ==
  ASSUME TypeOK, Known, process_entry_accept, NEW i \in Ids, i = next_id
  PROVE  Due(i)'
<1>1. /\ lakes'[i].pos = 0 /\ Done' \subseteq Done
      /\ Waiting' \subseteq Waiting \cup Armings(next_id, Entry.arg)
  BY AcceptAdds DEF EmptyLake, TypeOK, ServerTypeOK
<1>2. \A e \in Done' : ~FillFor(e, i)
  <2>1. \A e \in Done : IsFill(e) => e.id \in Ids /\ e.id < next_id
    BY RingTypes, CqeKinds DEF Known, IsFill, IdOps
  <2> QED
    BY <1>1, <2>1 DEF FillFor, Ids
<1>3. \A e \in Waiting : ~(e.op = "send" /\ e.id = i)
  <2>1. \A e \in Waiting : e.op = "send" => e.id \in Ids /\ e.id < next_id
    BY RingTypes, SqeKinds DEF Known, IdOps
  <2> QED
    BY <2>1 DEF Ids
<1>4. \A e \in Waiting' : ~(e.op = "send" /\ e.id = i)
  BY <1>1, <1>3 DEF Armings
<1>5. Once(Queued', SendsOf(i))
  <2>1. \A k \in DOMAIN Queued' : Queued'[k] \in Waiting'
    BY DEF Waiting, Range
  <2> QED
    BY <1>4, <2>1 DEF Once, SendsOf
<1> QED
  BY <1>1, <1>2, <1>4, <1>5 DEF Due, FillFor, IsFill, SendsOf

(* All other steps leave the clients alone.                                *)
LEMMA SteadyDue ==
  ASSUME TypeOK, Lockstep, Known, [Next]_vars, ~LoopTop, ~request_reply, ~Restart,
         ~(Execute /\ ExecSend(lakes)), \A c \in Conns : ~(Environment(c) /\ KernelRecv(c)),
         NEW i \in out, Stays(i), client_fds'[i] = client_fds[i], Due(i)
  PROVE  Due(i)'
<1>1. i \in Ids /\ i # next_id
  BY KernelAssumption DEF Known, TypeOK, ServerTypeOK, Ids
<1>2. bufmem' = bufmem /\ lakes'[i] = lakes[i]
  BY <1>1, SlotsStep DEF Lockstep
<1>3. \A e \in Done' : FillFor(e, i) => e \in Done /\ Chunk(e)' = Chunk(e)
  BY <1>2, FillsStep DEF FillFor, Chunk
<1>4. \A e \in Done' : FillFor(e, i) => Chunk(e)'[2] > Served(i)
  BY <1>3 DEF Due
<1>5. got' = got /\ Taken(ConnOf(i))' = Taken(ConnOf(i))
  BY GotStep, TakenSame
<1>6. /\ \A e \in Waiting' : e.op = "send" => e \in Waiting
      /\ Once(Queued, SendsOf(i)) => Once(Queued', SendsOf(i))
  BY SendsStep
<1> QED
  BY <1>2, <1>3, <1>4, <1>5, <1>6, DueFrame

LEMMA OutGrows ==
  ASSUME TypeOK, PeersStay, [Next]_vars, ~Restart
  PROVE  out \subseteq out' /\ (out' = out \/ process_entry_accept)
<1>1. ~close_connection
  BY NothingCloses
<1>2. CASE process_entry_accept
  BY <1>2 DEF process_entry_accept
<1>3. CASE Execute \/ \E c \in Conns : Environment(c)
  BY <1>3 DEF Execute, Environment, serverVars, tableVars
<1>4. CASE \/ process_ignored \/ accept_panics \/ process_no_buffers \/ request_reply
           \/ ubdma
  BY <1>4 DEF process_ignored, accept_panics, process_no_buffers, request_reply,
     ubdma, serverVars, tableVars
<1>5. CASE \/ register_buffers \/ start_accepts \/ LoopTop \/ release_push
           \/ reserve_writes_buffer \/ wideband_send_panics \/ Return \/ EnterFails
           \/ release_clear \/ EndOfBatch \/ Rest \/ UNCHANGED vars
  BY <1>5 DEF register_buffers, start_accepts, LoopTop, release_push,
     reserve_writes_buffer, wideband_send_panics, Return, EnterFails, release_clear,
     EndOfBatch, Rest, vars, serverVars, tableVars
<1> QED
  BY <1>1, <1>2, <1>3, <1>4, <1>5 DEF Next, Worker, process_entry

LEMMA SendsKnownNext ==
  ASSUME TypeOK, PeersStay, SendsKnown, [Next]_vars
  PROVE  SendsKnown'
<1>1. CASE Restart
  BY <1>1 DEF Restart, KernelReset, SendsKnown, Waiting, Queued, Range
<1>2. CASE ~Restart
  <2>1. out \subseteq out'
    BY <1>2, OutGrows
  <2>2. \A e \in Waiting' : e.op = "send" => e \in Waiting \/ e.id \in out
    <3>1. CASE LoopTop
      BY <3>1, LoopTopAdds DEF Sends
    <3>2. CASE ~LoopTop
      BY <3>2, SendsStep
    <3> QED
      BY <3>1, <3>2
  <2> QED
    BY <2>1, <2>2 DEF SendsKnown
<1> QED
  BY <1>1, <1>2

LEMMA LockInit == Init => PeersStay /\ OneFd /\ Lock
<1> SUFFICES ASSUME Init PROVE PeersStay /\ OneFd /\ Lock
  OBVIOUS
<1>1. Waiting = {} /\ Done = {}
  BY EmptyRings DEF Init, KernelInit
<1>2. PeersStay /\ OneFd
  BY <1>1 DEF Init, KernelInit, PeersStay, OneFd
<1>3. Turn
  BY DEF Init, KernelInit, Turn, Taken
<1> QED
  BY <1>1, <1>2, <1>3 DEF Lock, SendsKnown, Init, ServerInit

LEMMA LockNext ==
  ASSUME TypeOK, TypeOK', BufInv, Known, Tables, Armed, Inboxes, Answers, Lockstep, PeersStay,
         OneFd, Lock, [Next]_vars
  PROVE  Lock'
<1>1. Turn' /\ SendsKnown'
  BY TurnNext, SendsKnownNext DEF Lock
<1>2. ASSUME NEW i \in out'
      PROVE  Due(i)'
  <2>1. CASE process_entry_accept /\ i = next_id
    BY <2>1, AcceptAdds, AcceptDue
  <2>2. CASE i \in out /\ client_fds'[i] = client_fds[i] /\ ConnOf(i)' = ConnOf(i)
    <3>1. i \in Ids /\ Stays(i) /\ Answered(i) /\ Due(i) /\ Turn
      BY <2>2, ClientConn DEF Stays, Answers, Lock
    <3>2. CASE \E c \in Conns : Environment(c) /\ KernelRecv(c)
      BY <2>2, <3>1, <3>2, RecvDue
    <3>3. CASE request_reply
      BY <2>2, <3>1, <3>3, ReplyDue
    <3>4. CASE LoopTop
      BY <2>2, <3>1, <3>4, LoopTopDue
    <3>5. CASE Execute /\ ExecSend(lakes)
      BY <2>2, <3>1, <3>5, SendDue
    <3>6. CASE Restart
      BY <1>2, <3>6 DEF Restart
    <3> QED
      BY <2>2, <3>1, <3>2, <3>3, <3>4, <3>5, <3>6, SteadyDue
  <2>3. ~close_connection
    BY NothingCloses
  <2> QED
    BY <2>1, <2>2, <2>3, ConnStable
<1> QED
  BY <1>1, <1>2 DEF Lock

(* What lockstep keeps.                                                    *)
Locked == Tables /\ Armed /\ Answers /\ PeersStay /\ OneFd /\ Lock
LockBase == TypeOK /\ BufInv /\ Known /\ Inboxes /\ (Lockstep => Locked)

LEMMA LockstepHolds == Spec => []LockBase
<1> DEFINE Inv == Lockstep => Locked
<1>1. Init => Inv /\ Inboxes
  BY TablesInit, InboxesInit, LockInit DEF Init, ServerInit, Armed, Answers, Locked
<1>2. TypeOK /\ TypeOK' /\ BufInv /\ Known /\ Inboxes /\ Inv /\ [Next]_vars
        => Inv' /\ Inboxes'
  <2> SUFFICES ASSUME TypeOK, TypeOK', BufInv, Known, Inboxes, Inv, [Next]_vars
               PROVE  Inv' /\ Inboxes'
    OBVIOUS
  <2>1. Inboxes'
    BY InboxesNext
  <2>2. CASE ~Lockstep
    BY <2>1, <2>2 DEF Lockstep
  <2>3. CASE Lockstep
    <3>0. Tables /\ Armed /\ Answers /\ PeersStay /\ OneFd /\ Lock
      BY <2>3 DEF Locked
    <3>1. ~close_connection /\ ~ub_kernel_dma /\ Leaves = {}
      BY <2>3, <3>0, NothingCloses DEF Lockstep
    <3>2. Tables' /\ Armed' /\ Answers'
      BY <3>0, <3>1, TablesNext, ArmedNext, AnswersNext
    <3>3. PeersStay' /\ OneFd'
      BY <3>0, <3>1, StayNext, OneFdNext
    <3>4. Lock'
      BY <2>3, <3>0, LockNext
    <3> QED
      BY <2>1, <3>2, <3>3, <3>4 DEF Lockstep, Locked
  <2> QED
    BY <2>2, <2>3
<1> QED
  BY <1>1, <1>2, TypeInit, TypeNext, BufInit, BufNext, KnownInit, KnownNext, PTL
     DEF Spec, LockBase

(* Every client gets the responses to its own chunks, each once and in the *)
(* order of the chunks, under the conditions of Lockstep: however the      *)
(* connections interleave, however often the worker restarts, and also     *)
(* when 0xFF is a client's descriptor, since nothing closes it             *)
(* (request_reply, wideband_send, release_buffers).                        *)
THEOREM LockstepAnswers == Spec => [](Lockstep => ResponsesMatchRequests)
<1>1. LockBase => (Lockstep => ResponsesMatchRequests)
  BY DEF LockBase, Locked, Lock, Turn, ResponsesMatchRequests
<1> QED
  BY <1>1, LockstepHolds, PTL

-----------------------------------------------------------------------------
(* A ring and tables that are large enough                                 *)

F == Cardinality(Fds)

(* How long a queue is, by the places of its entries.                      *)
LEMMA UnionBound ==
  ASSUME NEW S, IsFiniteSet(S), NEW T, IsFiniteSet(T)
  PROVE  /\ IsFiniteSet(S \cup T) /\ Cardinality(S \cup T) \in Nat
         /\ Cardinality(S \cup T) <= Cardinality(S) + Cardinality(T)
<1>1. IsFiniteSet(S \cup T) /\ IsFiniteSet(S \cap T)
  <2>1. S \cap T \in SUBSET S
    OBVIOUS
  <2> QED
    BY <2>1, FS_Union, FS_Subset, Zenon
<1>2. Cardinality(S \cup T) = Cardinality(S) + Cardinality(T) - Cardinality(S \cap T)
  BY FS_Union
<1>3. /\ Cardinality(S) \in Nat /\ Cardinality(T) \in Nat
      /\ Cardinality(S \cap T) \in Nat /\ Cardinality(S \cup T) \in Nat
  BY <1>1, FS_CardinalityType
<1> QED
  BY <1>1, <1>2, <1>3

LEMMA CountedBy ==
  ASSUME NEW K, NEW S, IsFiniteSet(S), NEW f \in [K -> S], \A k, j \in K : f[k] = f[j] => k = j
  PROVE  /\ IsFiniteSet(K) /\ Cardinality(K) \in Nat /\ Cardinality(S) \in Nat
         /\ Cardinality(K) <= Cardinality(S)
<1>1. f \in Injection(K, S)
  BY DEF Injection, IsInjective
<1>2. IsFiniteSet(K) /\ Cardinality(K) <= Cardinality(S)
  BY <1>1, FS_Injection
<1> QED
  BY <1>2, FS_CardinalityType

LEMMA OneTo ==
  ASSUME NEW n \in Nat
  PROVE  IsFiniteSet(1 .. n) /\ Cardinality(1 .. n) = n
<1>1. Cardinality(1 .. n) = (IF 1 > n THEN 0 ELSE n - 1 + 1) /\ IsFiniteSet(1 .. n)
  BY FS_Interval
<1> QED
  BY <1>1

LEMMA BufferCount ==
  /\ IsFiniteSet(Buffers) /\ Cardinality(Buffers) = BUFFERS_COUNT /\ BUFFERS_COUNT \in Nat
<1>1. 0 \in Int /\ BUFFERS_COUNT - 1 \in Int /\ BUFFERS_COUNT > 0 /\ BUFFERS_COUNT \in Nat
  BY KernelAssumption
<1>2. /\ IsFiniteSet(0 .. BUFFERS_COUNT - 1)
      /\ Cardinality(0 .. BUFFERS_COUNT - 1)
           = IF 0 > BUFFERS_COUNT - 1 THEN 0 ELSE BUFFERS_COUNT - 1 - 0 + 1
  BY <1>1, FS_Interval
<1> QED
  BY <1>1, <1>2 DEF Buffers

ArmsOf(i) == {e \in SQE : e.op \in ArmOps /\ e.id = i}
AcceptsFirst(q) == \A k \in DOMAIN q : q[k].op = "accept" => k <= AcceptMulti
IdsIn(q, S) == \A k \in DOMAIN q : q[k].op \in IdOps => q[k].id \in S

LEMMA QueueLength ==
  ASSUME NEW q \in Seq(SQE), NEW B \in SUBSET Buffers, IsFiniteSet(B), NEW S, IsFiniteSet(S),
         NEW T, IsFiniteSet(T), AcceptsFirst(q), IdsIn(q, S),
         \A k \in DOMAIN q : q[k].op = "provide" => q[k].arg \in B,
         \A k \in DOMAIN q : q[k].op = "send" => q[k].id \in T,
         \A b \in B : Once(q, OfferOf(b)),
         \A i \in S : Once(q, ArmsOf(i)),
         \A i \in T : Once(q, SendsOf(i))
  PROVE  /\ Len(q) \in Nat /\ Cardinality(B) \in Nat /\ Cardinality(S) \in Nat
         /\ Cardinality(T) \in Nat
         /\ Len(q) <= AcceptMulti + Cardinality(B) + Cardinality(S) + Cardinality(T)
<1> DEFINE Kp == {k \in DOMAIN q : q[k].op = "provide"}
           Ks == {k \in DOMAIN q : q[k].op = "send"}
           Ka == {k \in DOMAIN q : q[k].op \in ArmOps}
           K1 == 1 .. AcceptMulti
           U1 == K1 \cup Kp
           U2 == U1 \cup Ks
           U3 == U2 \cup Ka
<1>0. /\ Len(q) \in Nat /\ DOMAIN q = 1 .. Len(q) /\ \A k \in DOMAIN q : q[k] \in SQE
  OBVIOUS
<1>1. /\ IsFiniteSet(Kp) /\ Cardinality(Kp) \in Nat /\ Cardinality(B) \in Nat
      /\ Cardinality(Kp) <= Cardinality(B)
  <2> DEFINE f == [k \in Kp |-> q[k].arg]
  <2>1. f \in [Kp -> B]
    OBVIOUS
  <2>2. ASSUME NEW k \in Kp, NEW j \in Kp, f[k] = f[j] PROVE k = j
    <3>1. q[k].arg = q[j].arg /\ q[k].arg \in B
      BY <2>2
    <3>2. q[k] \in OfferOf(q[k].arg) /\ q[j] \in OfferOf(q[k].arg)
      BY <1>0, <3>1 DEF OfferOf
    <3> QED
      BY <3>1, <3>2 DEF Once
  <2> HIDE DEF f, Kp
  <2> QED
    BY <2>1, <2>2, CountedBy
<1>2. /\ IsFiniteSet(Ks) /\ Cardinality(Ks) \in Nat /\ Cardinality(T) \in Nat
      /\ Cardinality(Ks) <= Cardinality(T)
  <2> DEFINE f == [k \in Ks |-> q[k].id]
  <2>1. f \in [Ks -> T]
    OBVIOUS
  <2>2. ASSUME NEW k \in Ks, NEW j \in Ks, f[k] = f[j] PROVE k = j
    <3>1. q[k].id = q[j].id /\ q[k].id \in T
      BY <2>2
    <3>2. q[k] \in SendsOf(q[k].id) /\ q[j] \in SendsOf(q[k].id)
      BY <1>0, <3>1 DEF SendsOf
    <3> QED
      BY <3>1, <3>2 DEF Once
  <2> HIDE DEF f, Ks
  <2> QED
    BY <2>1, <2>2, CountedBy
<1>3. /\ IsFiniteSet(Ka) /\ Cardinality(Ka) \in Nat /\ Cardinality(S) \in Nat
      /\ Cardinality(Ka) <= Cardinality(S)
  <2> DEFINE f == [k \in Ka |-> q[k].id]
  <2>1. f \in [Ka -> S]
    BY DEF IdsIn, IdOps, ArmOps
  <2>2. ASSUME NEW k \in Ka, NEW j \in Ka, f[k] = f[j] PROVE k = j
    <3>1. q[k].id = q[j].id /\ q[k].id \in S
      BY <2>2 DEF IdsIn, IdOps, ArmOps
    <3>2. q[k] \in ArmsOf(q[k].id) /\ q[j] \in ArmsOf(q[k].id)
      BY <1>0, <3>1 DEF ArmsOf
    <3> QED
      BY <3>1, <3>2 DEF Once
  <2> HIDE DEF f, Ka
  <2> QED
    BY <2>1, <2>2, CountedBy
<1>4. IsFiniteSet(K1) /\ Cardinality(K1) = AcceptMulti /\ AcceptMulti \in Nat
  BY ReactorAssumption, OneTo
<1>5. DOMAIN q \in SUBSET U3
  <2> SUFFICES ASSUME NEW k \in DOMAIN q PROVE k \in U3
    OBVIOUS
  <2>1. q[k].op \in {"provide", "accept", "recv", "poll", "send"}
    BY <1>0 DEF SQE
  <2>2. q[k].op = "accept" => k \in K1
    BY <1>0, ReactorAssumption DEF AcceptsFirst
  <2> QED
    BY <2>1, <2>2 DEF ArmOps
<1> HIDE DEF K1, Kp, Ks, Ka
<1>6. /\ IsFiniteSet(U1) /\ Cardinality(U1) \in Nat
      /\ Cardinality(U1) <= Cardinality(K1) + Cardinality(Kp)
  BY <1>1, <1>4, UnionBound
<1> HIDE DEF U1
<1>7. /\ IsFiniteSet(U2) /\ Cardinality(U2) \in Nat
      /\ Cardinality(U2) <= Cardinality(U1) + Cardinality(Ks)
  BY <1>2, <1>6, UnionBound
<1> HIDE DEF U2
<1>8. /\ IsFiniteSet(U3) /\ Cardinality(U3) \in Nat
      /\ Cardinality(U3) <= Cardinality(U2) + Cardinality(Ka)
  BY <1>3, <1>7, UnionBound
<1> HIDE DEF U3
<1>9. Cardinality(DOMAIN q) <= Cardinality(U3) /\ Cardinality(DOMAIN q) = Len(q)
  <2>1. Cardinality(DOMAIN q) <= Cardinality(U3)
    BY <1>5, <1>8, FS_Subset
  <2>2. Cardinality(1 .. Len(q)) = Len(q)
    BY <1>0, OneTo
  <2> QED
    BY <1>0, <2>1, <2>2
<1>10. /\ Cardinality(U1) <= AcceptMulti + Cardinality(B)
       /\ Cardinality(U3) <= Cardinality(U1) + Cardinality(S) + Cardinality(T)
  <2>1. Cardinality(U1) <= AcceptMulti + Cardinality(B)
    BY <1>1, <1>4, <1>6
  <2>2. Cardinality(U3) <= Cardinality(U1) + Cardinality(S) + Cardinality(T)
    BY <1>2, <1>3, <1>6, <1>7, <1>8
  <2> QED
    BY <2>1, <2>2
<1>11. /\ Len(q) \in Nat /\ Cardinality(U1) \in Nat /\ Cardinality(B) \in Nat
       /\ Cardinality(S) \in Nat /\ Cardinality(T) \in Nat /\ AcceptMulti \in Nat
       /\ Len(q) <= Cardinality(U3) /\ Cardinality(U3) \in Nat
  BY <1>0, <1>1, <1>2, <1>3, <1>4, <1>6, <1>8, <1>9
<1>12. ASSUME NEW n \in Nat, NEW u \in Nat, NEW v \in Nat, NEW a \in Nat, NEW b \in Nat,
              NEW s \in Nat, NEW r \in Nat, n <= v, u <= a + b, v <= u + s + r
       PROVE  n <= a + b + s + r
  BY <1>12
<1> QED
  BY <1>10, <1>11, <1>12

LEMMA QueueStep ==
  ASSUME TypeOK, [Next]_vars
  PROVE  \/ Queued' = Queued
         \/ Execute /\ Queued # <<>> /\ Queued' = Tail(Queued)
         \/ \E es \in Seq(SQE) :
              /\ Queued' = Queued \o es
              /\ \/ \A k \in DOMAIN es : es[k].op = "provide"
                 \/ start_accepts /\ es = [k \in 1 .. AcceptMulti |-> accept_multi]
                 \/ LoopTop /\ \A k \in DOMAIN es : es[k].op = "send"
                 \/ process_entry_accept
                    /\ \A k \in DOMAIN es : es[k].op \in {"recv", "poll"} /\ es[k].id = next_id
         \/ Restart /\ Queued' = <<>>
<1>1. CASE UNCHANGED <<sqLocal, sqShared>>
  BY <1>1 DEF Queued
<1>2. CASE register_buffers \/ release_push
  <2>1. PICK bs \in Seq(Buffers) : PushAndSync(Provides(bs))
    <3>1. [k \in 1 .. BUFFERS_COUNT |-> k - 1] \in Seq(Buffers)
      BY KernelAssumption DEF Buffers
    <3> QED
      BY <1>2, <3>1 DEF register_buffers, release_push, TypeOK, ServerTypeOK
  <2>2. Provides(bs) \in Seq(SQE) /\ \A k \in DOMAIN Provides(bs) : Provides(bs)[k].op = "provide"
    BY ProvidesType DEF Provides, provide_buffer, Sqe
  <2>3. Queued' = Queued \o Provides(bs)
    BY <2>1, <2>2, QueuedPush
  <2> QED
    BY <2>2, <2>3
<1>3. CASE start_accepts
  <2> DEFINE es == [k \in 1 .. AcceptMulti |-> accept_multi]
  <2>1. es \in Seq(SQE)
    BY SqeTypes, ReactorAssumption DEF accept_multi, Sqe
  <2>2. sqLocal' = sqLocal \o es /\ sqShared' = sqShared
    BY <1>3 DEF start_accepts
  <2> HIDE DEF es
  <2>3. Queued' = Queued \o es
    BY <2>1, <2>2, QueuedGrows
  <2> QED
    BY <1>3, <2>1, <2>3 DEF es
<1>4. CASE LoopTop
  <2>1. PICK ids \in InIdOrder(Sendable) : Flush([k \in DOMAIN ids |-> SendEntry(ids[k])])
    BY <1>4 DEF LoopTop
  <2> DEFINE es == [k \in DOMAIN ids |-> SendEntry(ids[k])]
  <2>2. es \in Seq(SQE) /\ \A k \in DOMAIN es : es[k].op = "send"
    BY <1>4, SendsType DEF LoopTop, SendEntry, send, Sqe
  <2> HIDE DEF es
  <2>3. CASE FlushNow
    <3>1. Queued' = Queued \o es
      BY <2>1, <2>2, <2>3, QueuedPush DEF Flush, es
    <3> QED
      BY <1>4, <2>2, <3>1
  <2>4. CASE ~FlushNow
    BY <1>1, <2>1, <2>4 DEF Flush
  <2> QED
    BY <2>3, <2>4
<1>5. CASE process_entry_accept
  <2>1. PICK es \in Seq(SQE) :
           /\ Queued' = Queued \o es
           /\ \A k \in DOMAIN es : es[k].op \in {"recv", "poll"} /\ es[k].id = next_id
    BY <1>5, AcceptPushes
  <2> QED
    BY <1>5, <2>1
<1>6. CASE Execute
  <2>1. sqShared # <<>> /\ TakeSqe
    BY <1>6, ExecAdds DEF Execute
  <2> QED
    BY <1>6, <2>1, QueuedTake
<1>7. CASE Restart
  BY <1>7, EmptySeq DEF Restart, KernelReset, Queued
<1>8. CASE \E c \in Conns : Environment(c)
  BY <1>1, <1>8 DEF Environment, KernelAccept, KernelRecv, KernelPoll, PeerConnect, PeerSend,
     PeerLeave, ringVars
<1>9. CASE \/ process_ignored \/ accept_panics \/ process_no_buffers \/ close_connection
           \/ request_reply \/ ubdma
  BY <1>1, <1>9 DEF process_ignored, accept_panics, process_no_buffers, close_connection,
     request_reply, ubdma
<1>10. CASE \/ reserve_writes_buffer \/ wideband_send_panics \/ Return \/ EnterFails
            \/ release_clear \/ EndOfBatch \/ Rest \/ UNCHANGED vars
  BY <1>1, <1>10 DEF reserve_writes_buffer, wideband_send_panics, Return, EnterFails,
     release_clear, EndOfBatch, Rest, vars, kernelVars, ringVars
<1> QED
  BY <1>2, <1>3, <1>4, <1>5, <1>6, <1>7, <1>8, <1>9, <1>10 DEF Next, Worker, process_entry

LEMMA FirstStays ==
  ASSUME NEW q \in Seq(SQE), AcceptsFirst(q)
  PROVE  /\ q # <<>> => AcceptsFirst(Tail(q))
         /\ \A es \in Seq(SQE) :
              (\A k \in DOMAIN es : es[k].op # "accept") => AcceptsFirst(q \o es)
<1>1. ASSUME q # <<>> PROVE AcceptsFirst(Tail(q))
  <2>1. \A k \in DOMAIN Tail(q) : k \in Int /\ k + 1 \in DOMAIN q /\ Tail(q)[k] = q[k + 1]
    BY <1>1
  <2> QED
    BY <2>1, ReactorAssumption DEF AcceptsFirst
<1>2. ASSUME NEW es \in Seq(SQE), \A k \in DOMAIN es : es[k].op # "accept"
      PROVE  AcceptsFirst(q \o es)
  <2>1. \A k \in DOMAIN (q \o es) : \/ k \in DOMAIN q /\ (q \o es)[k] = q[k]
                                    \/ k - Len(q) \in DOMAIN es
                                       /\ (q \o es)[k] = es[k - Len(q)]
    OBVIOUS
  <2> QED
    BY <1>2, <2>1 DEF AcceptsFirst
<1> QED
  BY <1>1, <1>2

(* The accepts are pushed to an empty ring.                                *)
RingCold ==
  /\ InSystemCall /\ then = "arm" => sqLocal = <<>>
  /\ pc = "arm" => sqLocal = <<>> /\ sqShared = <<>>

LEMMA ColdNext ==
  ASSUME TypeOK, BufInv, RingCold, [Next]_vars
  PROVE  RingCold'
<1>1. CASE register_buffers
  BY <1>1 DEF register_buffers, PushAndSync, Submit, RingCold, InSystemCall
<1>2. CASE Execute
  BY <1>2, ExecAdds DEF Execute, TakeSqe, RingCold, InSystemCall
<1>3. CASE Return
  BY <1>3 DEF Return, RingCold, InSystemCall, kernelVars, ringVars
<1>4. CASE process_entry
  <2>1. pc = "drain" /\ (pc' \in {"drain", "aborted"} \/ (pc' = "enter" /\ then' = "relPush"))
    BY <1>4 DEF process_entry, process_ignored, accept_panics, process_entry_accept,
       process_no_buffers, close_connection, request_reply, ubdma, Next_cqe, release_buffers,
       Submit, serverVars
  <2> QED
    BY <2>1 DEF RingCold, InSystemCall
<1>5. CASE \E c \in Conns : Environment(c)
  BY <1>5 DEF Environment, KernelAccept, KernelRecv, KernelPoll, PeerConnect, PeerSend,
     PeerLeave, ringVars, serverVars, RingCold, InSystemCall
<1>6. CASE \/ start_accepts \/ LoopTop \/ release_push \/ EndOfBatch \/ release_clear
           \/ Restart \/ reserve_writes_buffer \/ wideband_send_panics \/ EnterFails
  <2>1. \/ pc' \in {"top", "drain", "boot", "failed", "aborted"}
        \/ pc' = "enter" /\ then' \in {"reserve", "wait", "drain", "relPush", "relClear"}
    BY <1>6 DEF start_accepts, LoopTop, release_push, EndOfBatch, release_clear, Restart,
       reserve_writes_buffer, wideband_send_panics, EnterFails, release_buffers, Submit,
       TypeOK, ServerTypeOK
  <2> QED
    BY <2>1 DEF RingCold, InSystemCall
<1>7. CASE Rest \/ UNCHANGED vars
  BY <1>7 DEF Rest, vars, serverVars, kernelVars, ringVars, RingCold, InSystemCall
<1> QED
  BY <1>1, <1>2, <1>3, <1>4, <1>5, <1>6, <1>7 DEF Next, Worker

LEMMA FirstNext ==
  ASSUME TypeOK, RingCold, AcceptsFirst(Queued), [Next]_vars
  PROVE  AcceptsFirst(Queued')
<1>0. Queued \in Seq(SQE)
  BY Rings
<1>1. CASE Queued' = Queued
  BY <1>1
<1>2. CASE Queued # <<>> /\ Queued' = Tail(Queued)
  BY <1>0, <1>2, FirstStays
<1>3. ASSUME NEW es \in Seq(SQE), Queued' = Queued \o es,
             \/ \A k \in DOMAIN es : es[k].op = "provide"
             \/ \A k \in DOMAIN es : es[k].op = "send"
             \/ \A k \in DOMAIN es : es[k].op \in {"recv", "poll"}
      PROVE  AcceptsFirst(Queued')
  <2>1. \A k \in DOMAIN es : es[k].op # "accept"
    BY <1>3
  <2> QED
    BY <1>0, <1>3, <2>1, FirstStays
<1>4. ASSUME start_accepts, Queued' = Queued \o [k \in 1 .. AcceptMulti |-> accept_multi]
      PROVE  AcceptsFirst(Queued')
  <2> DEFINE es == [k \in 1 .. AcceptMulti |-> accept_multi]
  <2>1. es \in Seq(SQE) /\ DOMAIN es = 1 .. AcceptMulti
    BY SqeTypes, ReactorAssumption DEF accept_multi, Sqe
  <2>2. Queued = <<>>
    BY <1>4, EmptySeq DEF start_accepts, RingCold, Queued
  <2> HIDE DEF es
  <2>3. Queued' = es
    BY <1>4, <2>1, <2>2, ConcatEmptySeq DEF es
  <2> QED
    BY <2>1, <2>3, ReactorAssumption DEF AcceptsFirst
<1>5. CASE Queued' = <<>>
  BY <1>5 DEF AcceptsFirst
<1> QED
  BY <1>1, <1>2, <1>3, <1>4, <1>5, QueueStep

(* Sends are published as they are pushed.                                 *)
SendsShared == \A k \in DOMAIN sqLocal : sqLocal[k].op # "send"

LEMMA SharedNext ==
  ASSUME TypeOK, SendsShared, [Next]_vars
  PROVE  SendsShared'
<1>0. sqLocal \in Seq(SQE)
  BY Rings
<1>1. CASE sqLocal' = sqLocal \/ sqLocal' = <<>>
  BY <1>1 DEF SendsShared
<1>2. ASSUME NEW es \in Seq(SQE), \A k \in DOMAIN es : es[k].op # "send", sqLocal' = sqLocal \o es
      PROVE  SendsShared'
  <2>1. \A k \in DOMAIN sqLocal' :
          \/ k \in DOMAIN sqLocal /\ sqLocal'[k] = sqLocal[k]
          \/ k - Len(sqLocal) \in DOMAIN es /\ sqLocal'[k] = es[k - Len(sqLocal)]
    BY <1>0, <1>2, ConcatProperties
  <2> QED
    BY <1>2, <2>1 DEF SendsShared
<1>3. CASE start_accepts
  <2> DEFINE es == [k \in 1 .. AcceptMulti |-> accept_multi]
  <2>1. es \in Seq(SQE) /\ \A k \in DOMAIN es : es[k].op # "send"
    BY SqeTypes, ReactorAssumption DEF accept_multi, Sqe
  <2>2. sqLocal' = sqLocal \o es
    BY <1>3 DEF start_accepts
  <2> HIDE DEF es
  <2> QED
    BY <1>2, <2>1, <2>2
<1>4. CASE process_entry_accept
  <2> DEFINE es == recv_multi(next_id, Entry.arg)
  <2>1. es[1].op = "recv" /\ DOMAIN es = {1}
    BY DEF recv_multi, Sqe
  <2>2. es \in Seq(SQE)
    <3>1. next_id \in Ids /\ Entry.arg \in Fds
      BY <1>4, AcceptAdds
    <3>2. Sqe("recv", next_id, Entry.arg, NoBuf) \in SQE
      BY <3>1, SqeTypes, KernelAssumption
    <3> QED
      BY <3>2 DEF recv_multi
  <2>3. sqLocal' \in {sqLocal, <<>>, es, sqLocal \o es}
    BY <1>4 DEF process_entry_accept, PushIndex
  <2> HIDE DEF es
  <2> QED
    BY <1>1, <1>2, <2>1, <2>2, <2>3 DEF SendsShared
<1>5. CASE LoopTop
  BY <1>1, <1>5 DEF LoopTop, Flush, PushAndSync
<1>6. CASE register_buffers \/ release_push \/ Restart
  BY <1>1, <1>6 DEF register_buffers, release_push, PushAndSync, Restart, KernelReset
<1>7. CASE Execute
  BY <1>1, <1>7 DEF Execute, ExecProvide, ExecAccept, ExecArm, ExecSend, TakeSqe
<1>8. CASE \E c \in Conns : Environment(c)
  BY <1>1, <1>8 DEF Environment, KernelAccept, KernelRecv, KernelPoll, PeerConnect, PeerSend,
     PeerLeave, ringVars
<1>9. CASE process_entry /\ ~process_entry_accept
  BY <1>1, <1>9 DEF process_entry, process_ignored, accept_panics, process_no_buffers,
     close_connection, request_reply, ubdma
<1>10. CASE \/ reserve_writes_buffer \/ wideband_send_panics \/ Return \/ EnterFails
            \/ release_clear \/ EndOfBatch \/ Rest \/ UNCHANGED vars
  BY <1>1, <1>10 DEF reserve_writes_buffer, wideband_send_panics, Return, EnterFails,
     release_clear, EndOfBatch, Rest, vars, kernelVars, ringVars
<1> QED
  BY <1>3, <1>4, <1>5, <1>6, <1>7, <1>8, <1>9, <1>10 DEF Next, Worker

(* One receive is pushed for a new client, or none.                        *)
LEMMA AcceptPushesOne ==
  ASSUME TypeOK, ~ub_kernel_dma, process_entry_accept
  PROVE  \/ Queued' = Queued /\ ~HasRoom(1)
         \/ Queued' = Queued \o recv_multi(next_id, Entry.arg)
            /\ recv_multi(next_id, Entry.arg) \in Seq(SQE)
<1>1. recv_multi(next_id, Entry.arg) \in Seq(SQE)
  <2>1. next_id \in Ids /\ Entry.arg \in Fds
    BY AcceptAdds
  <2>2. Sqe("recv", next_id, Entry.arg, NoBuf) \in SQE
    BY <2>1, SqeTypes, KernelAssumption
  <2> QED
    BY <2>2 DEF recv_multi
<1>2. /\ sqShared' = sqShared
      /\ sqLocal' = IF HasRoom(1) THEN sqLocal \o recv_multi(next_id, Entry.arg) ELSE sqLocal
  BY DEF process_entry_accept, PushIndex
<1>3. CASE HasRoom(1)
  BY <1>1, <1>2, <1>3, QueuedGrows
<1>4. CASE ~HasRoom(1)
  BY <1>2, <1>4 DEF Queued
<1> QED
  BY <1>3, <1>4

(* The queued receives are of known clients, one of each.                  *)
ArmsKnown ==
  /\ \A e \in Waiting : e.op \in ArmOps => e.id \in out
  /\ \A i \in out : Once(Queued, ArmsOf(i))

LEMMA ArmsNext ==
  ASSUME TypeOK, ~ub_kernel_dma, PeersStay, Known, ArmsKnown, [Next]_vars
  PROVE  ArmsKnown'
<1>0. Queued \in Seq(SQE)
  BY Rings
<1>1. CASE Restart
  BY <1>1, EmptyHas DEF Restart, KernelReset, ArmsKnown, Waiting, Queued, Range
<1>2. CASE ~Restart
  <2>1. \A e \in Waiting' : e.op \in ArmOps => e.id \in out'
    <3>1. \A e \in Waiting' : e.op \in ArmOps =>
            e \in Waiting \/ (process_entry_accept /\ e.id = next_id)
      BY QueuedArmings DEF Armings
    <3>2. process_entry_accept => next_id \in out'
      BY AcceptAdds
    <3> QED
      BY <1>2, <3>1, <3>2, OutGrows DEF ArmsKnown
  <2>2. ASSUME NEW i \in out' PROVE Once(Queued', ArmsOf(i))
    <3>1. CASE process_entry_accept
      <4>1. CASE i \in out
        <5>1. Once(Queued, ArmsOf(i)) /\ i # next_id
          BY <4>1, KernelAssumption DEF ArmsKnown, Known, TypeOK, ServerTypeOK, Ids
        <5>2. PICK es \in Seq(SQE) :
                Queued' = Queued \o es /\ \A k \in DOMAIN es : es[k].id = next_id
          BY <3>1, AcceptPushes
        <5>3. ~Has(es, ArmsOf(i)) /\ Once(es, ArmsOf(i))
          BY <5>1, <5>2 DEF Has, Once, ArmsOf
        <5> QED
          BY <1>0, <5>1, <5>2, <5>3, ConcatHas
      <4>2. CASE i = next_id
        <5>1. ~Has(Queued, ArmsOf(i)) /\ Once(Queued, ArmsOf(i))
          <6>1. \A k \in DOMAIN Queued : Queued[k] \in Waiting
            BY DEF Waiting, Range
          <6>2. \A e \in Waiting : e.op \in ArmOps => e.id # i
            <7>1. \A e \in Waiting : e.op \in ArmOps => e.id \in Ids /\ e.id < next_id
              BY RingTypes, SqeKinds DEF Known, IdOps, ArmOps
            <7> QED
              BY <4>2, <7>1 DEF Ids
          <6> QED
            BY <6>1, <6>2 DEF Has, Once, ArmsOf
        <5>2. PICK es \in Seq(SQE) :
                 \/ Queued' = Queued
                 \/ Queued' = Queued \o es /\ es = recv_multi(next_id, Entry.arg)
          BY <3>1, AcceptPushesOne, EmptySeq
        <5>3. es = recv_multi(next_id, Entry.arg) => Once(es, ArmsOf(i))
          BY OneHas DEF recv_multi
        <5> QED
          BY <1>0, <5>1, <5>2, <5>3, ConcatHas
      <4> QED
        BY <2>2, <3>1, <4>1, <4>2, AcceptAdds
    <3>2. CASE ~process_entry_accept
      <4>1. Once(Queued, ArmsOf(i))
        BY <1>2, <2>2, <3>2, OutGrows DEF ArmsKnown
      <4>2. ASSUME NEW es \in Seq(SQE), Queued' = Queued \o es,
                   \A k \in DOMAIN es : es[k].op \notin ArmOps
            PROVE  Once(Queued', ArmsOf(i))
        <5>1. ~Has(es, ArmsOf(i)) /\ Once(es, ArmsOf(i))
          BY <4>2 DEF Has, Once, ArmsOf
        <5> QED
          BY <1>0, <4>1, <4>2, <5>1, ConcatHas
      <4>3. CASE Queued # <<>> /\ Queued' = Tail(Queued)
        BY <1>0, <4>1, <4>3, TailHas
      <4>4. accept_multi.op = "accept"
        BY DEF accept_multi, Sqe
      <4>5. CASE \E es \in Seq(SQE) :
              /\ Queued' = Queued \o es
              /\ \/ \A k \in DOMAIN es : es[k].op = "provide"
                 \/ es = [k \in 1 .. AcceptMulti |-> accept_multi]
                 \/ \A k \in DOMAIN es : es[k].op = "send"
        <5>1. PICK es \in Seq(SQE) :
              /\ Queued' = Queued \o es
              /\ \/ \A k \in DOMAIN es : es[k].op = "provide"
                 \/ es = [k \in 1 .. AcceptMulti |-> accept_multi]
                 \/ \A k \in DOMAIN es : es[k].op = "send"
          BY <4>5
        <5>2. \A k \in DOMAIN es : es[k].op \notin ArmOps
          BY <4>4, <5>1 DEF ArmOps
        <5> QED
          BY <4>2, <5>1, <5>2
      <4> QED
        BY <1>2, <3>2, <4>1, <4>3, <4>5, QueueStep
    <3> QED
      BY <3>1, <3>2
  <2> QED
    BY <2>1, <2>2 DEF ArmsKnown, ArmsOf
<1> QED
  BY <1>1, <1>2

(* As long as nobody leaves, the ids given out are those of the clients.   *)
Numbered == ~Starting /\ Alive => next_id = ReservedIds + Cardinality(out)

LEMMA NumberedNext ==
  ASSUME TypeOK, PeersStay, Known, Numbered, [Next]_vars
  PROVE  Numbered'
<1>0. IsFiniteSet(out) /\ Cardinality(out) \in Nat /\ next_id \notin out
  <2>1. 0 \in Int /\ OutCap - 1 \in Int
    BY KernelAssumption
  <2>2. IsFiniteSet(0 .. OutCap - 1)
    BY <2>1, FS_Interval
  <2>3. IsFiniteSet(out)
    BY <2>2, FS_Subset DEF TypeOK, ServerTypeOK, Ids
  <2>4. next_id \notin out
    BY KernelAssumption DEF Known, TypeOK, ServerTypeOK
  <2> QED
    BY <2>3, <2>4, FS_CardinalityType
<1>1. CASE process_entry_accept
  <2>1. /\ out' = out \cup {next_id} /\ next_id' = next_id + 1 /\ pc' = pc /\ then' = then
        /\ next_id \in Int
    BY <1>1, AcceptAdds, KernelAssumption DEF TypeOK, ServerTypeOK
  <2>2. Cardinality(out \cup {next_id}) = Cardinality(out) + 1
    BY <1>0, FS_AddElement
  <2> QED
    BY <1>0, <2>1, <2>2, ReactorAssumption DEF Numbered, Starting, InSystemCall, Alive
<1>2. CASE reserve_writes_buffer
  <2>1. out = {} /\ out' = out /\ next_id' = ReservedIds
    BY <1>2 DEF reserve_writes_buffer, Known, Starting
  <2>2. Cardinality(out') = 0
    BY <2>1, FS_EmptySet
  <2> QED
    BY <2>1, <2>2, ReactorAssumption DEF Numbered
<1>3. CASE Restart
  BY <1>3 DEF Restart, Numbered, Starting
<1>4. ASSUME UNCHANGED <<next_id, out>>, ~Starting' /\ Alive' => ~Starting /\ Alive
      PROVE  Numbered'
  BY <1>4 DEF Numbered
<1>5. CASE process_entry /\ ~process_entry_accept
  <2>1. pc = "drain" /\ UNCHANGED next_id
    BY <1>5 DEF process_entry, process_ignored, accept_panics,
       process_no_buffers, close_connection, request_reply, ubdma, Next_cqe, serverVars, tableVars
  <2>2. out' = out
    BY <1>5, <2>1, OutGrows DEF Restart
  <2> QED
    BY <1>4, <2>1, <2>2 DEF Starting, InSystemCall, Alive
<1>6. CASE \E c \in Conns : Environment(c)
  BY <1>4, <1>6 DEF Environment, serverVars, tableVars, Starting, InSystemCall, Alive
<1>7. CASE register_buffers \/ start_accepts \/ Execute \/ Return \/ EnterFails
  <2>1. UNCHANGED <<next_id, out>>
    BY <1>7 DEF register_buffers, start_accepts, Execute, Return, EnterFails, tableVars
  <2>2. ~Starting' /\ Alive' => ~Starting /\ Alive
    BY <1>7 DEF register_buffers, start_accepts, Execute, Return, EnterFails, Submit,
       Starting, InSystemCall, Alive
  <2> QED
    BY <1>4, <2>1, <2>2
<1>8. CASE \/ LoopTop \/ release_push \/ EndOfBatch \/ release_clear \/ wideband_send_panics
  <2>1. UNCHANGED <<next_id, out>> /\ pc \in {"top", "relPush", "drain", "relClear"}
    BY <1>8 DEF LoopTop, release_push, EndOfBatch, release_clear, wideband_send_panics, tableVars
  <2> QED
    BY <1>4, <2>1 DEF Starting, InSystemCall, Alive
<1>9. CASE Rest \/ UNCHANGED vars
  BY <1>4, <1>9 DEF Rest, vars, serverVars, tableVars, Starting, InSystemCall, Alive
<1> QED
  BY <1>1, <1>2, <1>3, <1>5, <1>6, <1>7, <1>8, <1>9 DEF Next, Worker

LEMMA ClientsFit ==
  ASSUME TypeOK, Tables, IsFiniteSet(Fds)
  PROVE  /\ IsFiniteSet(out) /\ Cardinality(out) \in Nat /\ F \in Nat /\ Cardinality(out) <= F
         /\ \A f \in Fds : ~IsClient(f) => Cardinality(out) <= F - 1
<1> DEFINE g == [i \in out |-> client_fds[i]]
<1>1. \A i \in out : client_fds[i] \in Fds
  BY DEF Tables, TypeOK, ServerTypeOK
<1>2. \A i, j \in out : g[i] = g[j] => i = j
  BY DEF Tables
<1>3. g \in [out -> Fds]
  BY <1>1
<1>4. /\ IsFiniteSet(out) /\ Cardinality(out) \in Nat /\ F \in Nat /\ Cardinality(out) <= F
  BY <1>2, <1>3, CountedBy DEF F
<1>5. ASSUME NEW f \in Fds, ~IsClient(f)
      PROVE  Cardinality(out) <= F - 1
  <2>1. g \in [out -> Fds \ {f}]
    BY <1>1, <1>5 DEF IsClient
  <2>2. IsFiniteSet(Fds \ {f}) /\ Cardinality(Fds \ {f}) = F - 1
    BY FS_RemoveElement DEF F
  <2> HIDE DEF g
  <2>3. Cardinality(out) <= Cardinality(Fds \ {f})
    BY <1>2, <2>1, <2>2, CountedBy
  <2> QED
    BY <2>2, <2>3
<1> QED
  BY <1>4, <1>5

(* No more is queued than the start, the buffers and the clients account   *)
(* for.                                                                    *)
Most == AcceptMulti + BUFFERS_COUNT + 2 * F
Short ==
  Alive /\ pc # "boot" => Len(Queued) <= Most /\ Len(sqLocal) <= AcceptMulti + F
Published == sqStale + Len(sqShared) <= Most

LEMMA IsShort ==
  ASSUME TypeOK, BufInv, Tables, IsFiniteSet(Fds), AcceptsFirst(Queued), SendsShared, ArmsKnown,
         Lock
  PROVE  Short
<1> SUFFICES ASSUME Alive, pc # "boot"
             PROVE  Len(Queued) <= Most /\ Len(sqLocal) <= AcceptMulti + F
  BY DEF Short
<1>1. /\ IsFiniteSet(out) /\ Cardinality(out) \in Nat /\ F \in Nat /\ Cardinality(out) <= F
  BY ClientsFit
<1>2. IsFiniteSet(Buffers) /\ Cardinality(Buffers) = BUFFERS_COUNT
  BY BufferCount
<1>3. Queued \in Seq(SQE) /\ sqShared \in Seq(SQE) /\ sqLocal \in Seq(SQE)
  BY Rings
<1>4. /\ \A i \in out : Once(Queued, SendsOf(i)) /\ Once(Queued, ArmsOf(i))
      /\ \A b \in Buffers : Once(Queued, OfferOf(b))
  BY DEF Lock, Due, ArmsKnown, BufInv, HeldOnce, Single, Alive
<1>5. IdsIn(Queued, out)
  <2>1. \A k \in DOMAIN Queued : Queued[k] \in Waiting
    BY DEF Waiting, Range
  <2> QED
    BY <2>1 DEF IdsIn, IdOps, ArmOps, ArmsKnown, Lock, SendsKnown
<1>6. Len(Queued) <= AcceptMulti + Cardinality(Buffers) + Cardinality(out) + Cardinality(out)
  <2>1. \A k \in DOMAIN Queued :
          /\ Queued[k].op = "provide" => Queued[k].arg \in Buffers
          /\ Queued[k].op = "send" => Queued[k].id \in out
    BY <1>3, <1>5, SqeKinds DEF IdsIn, IdOps
  <2> QED
    BY <1>1, <1>2, <1>3, <1>4, <1>5, <2>1, QueueLength
<1>7. Len(Queued) <= Most
  BY <1>1, <1>2, <1>3, <1>6, KernelAssumption, ReactorAssumption DEF Most
<1>8. Len(sqLocal) <= AcceptMulti + Cardinality({}) + Cardinality(out) + Cardinality({})
  <2> DEFINE n == Len(sqShared)
  <2>1. /\ n \in Nat
        /\ \A k \in DOMAIN sqLocal :
             k \in Int /\ n + k \in DOMAIN Queued /\ Queued[n + k] = sqLocal[k]
    BY <1>3 DEF Queued
  <2> HIDE DEF n
  <2>2. AcceptsFirst(sqLocal)
    <3>1. \A k \in DOMAIN sqLocal : sqLocal[k].op = "accept" => n + k <= AcceptMulti
      BY <2>1 DEF AcceptsFirst
    <3> QED
      BY <2>1, <3>1, ReactorAssumption DEF AcceptsFirst
  <2>3. IdsIn(sqLocal, out)
    BY <1>5, <2>1 DEF IdsIn
  <2>4. \A i \in out : Once(sqLocal, ArmsOf(i))
    <3>1. ASSUME NEW S, Once(Queued, S)
          PROVE  Once(sqLocal, S)
      <4> SUFFICES ASSUME NEW k \in DOMAIN sqLocal, NEW j \in DOMAIN sqLocal,
                          sqLocal[k] \in S, sqLocal[j] \in S
                   PROVE  k = j
        BY DEF Once
      <4>1. n + k = n + j
        BY <2>1, <3>1 DEF Once
      <4>2. k \in Int /\ j \in Int /\ n \in Int
        BY <2>1
      <4>3. \A a, b, c \in Int : a + b = a + c => b = c
        OBVIOUS
      <4> QED
        BY <4>1, <4>2, <4>3, Zenon
    <3> SUFFICES ASSUME NEW i \in out PROVE Once(sqLocal, ArmsOf(i))
      OBVIOUS
    <3>2. Once(Queued, ArmsOf(i))
      BY <1>4
    <3> QED
      BY <3>1, <3>2, Zenon
  <2>5. \A k \in DOMAIN sqLocal : sqLocal[k].op # "provide" /\ sqLocal[k].op # "send"
    BY DEF BufInv, OneBatch, Bland, SendsShared
  <2>6. {} \in SUBSET Buffers /\ IsFiniteSet({})
    BY FS_EmptySet
  <2> QED
    BY <1>1, <1>3, <2>2, <2>3, <2>4, <2>5, <2>6, QueueLength
<1>9. Cardinality({}) = 0
  BY FS_EmptySet
<1>10. Len(sqLocal) <= AcceptMulti + F
  <2>1. Len(sqLocal) \in Nat /\ AcceptMulti \in Nat
    BY <1>3, ReactorAssumption
  <2> QED
    BY <1>1, <1>8, <1>9, <2>1
<1> QED
  BY <1>7, <1>10

LEMMA PublishedNext ==
  ASSUME TypeOK, ~ub_kernel_dma, F \in Nat, Published, Short', [Next]_vars
  PROVE  Published'
<1>0. /\ sqShared \in Seq(SQE) /\ sqLocal \in Seq(SQE) /\ Len(sqShared) \in Nat
      /\ sqStale \in Nat /\ Most \in Nat
  BY Rings, KernelAssumption, ReactorAssumption DEF Most, TypeOK, KernelTypeOK
<1>1. CASE UNCHANGED <<sqStale, sqShared>>
  BY <1>1 DEF Published, Most, F
<1>2. ASSUME NEW es \in Seq(SQE), PushAndSync(es), Alive', pc' # "boot"
      PROVE  Published'
  <2>1. sqStale' = 0 /\ sqLocal' = <<>> /\ sqShared' = sqShared \o sqLocal \o es
    BY <1>2 DEF PushAndSync
  <2>2. sqShared' \in Seq(SQE)
    BY <1>0, <1>2, <2>1, ConcatProperties
  <2>3. Queued' = sqShared'
    BY <2>1, <2>2, ConcatEmptySeq DEF Queued
  <2>4. Len(sqShared') <= Most /\ Len(sqShared') \in Nat
    BY <1>2, <2>2, <2>3 DEF Short, Most, F
  <2> QED
    BY <2>1, <2>4 DEF Published, Most, F
<1>3. CASE register_buffers \/ release_push
  <2>1. PICK bs \in Seq(Buffers) : PushAndSync(Provides(bs))
    <3>1. [k \in 1 .. BUFFERS_COUNT |-> k - 1] \in Seq(Buffers)
      BY KernelAssumption DEF Buffers
    <3> QED
      BY <1>3, <3>1 DEF register_buffers, release_push, TypeOK, ServerTypeOK
  <2>2. Provides(bs) \in Seq(SQE)
    BY ProvidesType
  <2>3. pc' = "enter"
    BY <1>3 DEF register_buffers, release_push, Submit
  <2> QED
    BY <1>2, <2>1, <2>2, <2>3 DEF Alive
<1>4. CASE LoopTop
  <2>1. PICK ids \in InIdOrder(Sendable) : Flush([k \in DOMAIN ids |-> SendEntry(ids[k])])
    BY <1>4 DEF LoopTop
  <2> DEFINE es == [k \in DOMAIN ids |-> SendEntry(ids[k])]
  <2>2. es \in Seq(SQE)
    BY <1>4, SendsType DEF LoopTop
  <2>3. pc' \in {"enter", "drain"}
    BY <1>4 DEF LoopTop, Submit
  <2> HIDE DEF es
  <2>4. CASE FlushNow
    BY <1>2, <2>1, <2>2, <2>3, <2>4 DEF Flush, es, Alive
  <2>5. CASE ~FlushNow
    BY <1>1, <2>1, <2>5 DEF Flush
  <2> QED
    BY <2>4, <2>5
<1>5. CASE Execute
  <2>1. sqShared # <<>> /\ sqShared' = Tail(sqShared) /\ sqStale' = sqStale + 1
    BY <1>5, ExecAdds DEF Execute, TakeSqe
  <2>2. Len(sqShared') = Len(sqShared) - 1
    BY <1>0, <2>1
  <2> QED
    BY <1>0, <2>1, <2>2 DEF Published, Most, F
<1>6. CASE Restart
  <2>1. sqStale' = 0 /\ Len(sqShared') = 0
    BY <1>6 DEF Restart, KernelReset
  <2> QED
    BY <1>0, <2>1 DEF Published, Most, F
<1>7. CASE process_entry
  BY <1>1, <1>7 DEF process_entry, process_ignored, accept_panics, process_entry_accept,
     process_no_buffers, close_connection, request_reply, ubdma
<1>8. CASE \E c \in Conns : Environment(c)
  BY <1>1, <1>8 DEF Environment, KernelAccept, KernelRecv, KernelPoll, PeerConnect, PeerSend,
     PeerLeave, ringVars
<1>9. CASE \/ start_accepts \/ reserve_writes_buffer \/ wideband_send_panics \/ Return
           \/ EnterFails \/ release_clear \/ EndOfBatch \/ Rest \/ UNCHANGED vars
  BY <1>1, <1>9 DEF start_accepts, reserve_writes_buffer, wideband_send_panics, Return,
     EnterFails, release_clear, EndOfBatch, Rest, vars, kernelVars, ringVars
<1> QED
  BY <1>3, <1>4, <1>5, <1>6, <1>7, <1>8, <1>9 DEF Next, Worker

(* The sizes under which the worker survives: an id and a slot for every   *)
(* descriptor, and a submission queue for all that can be pushed between   *)
(* two looks at its head.                                                  *)
Ample ==
  /\ IsFiniteSet(Fds)
  /\ ReservedIds + F <= OutCap
  /\ 2 * AcceptMulti + BUFFERS_COUNT + 4 * F <= UringSize

LEMMA RoomLeft ==
  ASSUME TypeOK, Ample, F \in Nat, Short, Published, Alive, pc # "boot"
  PROVE  /\ SqLen + F <= UringSize
         /\ \A n \in Nat : n <= F => HasRoom(n)
<1>1. Len(sqLocal) \in Nat /\ Len(sqShared) \in Nat /\ sqStale \in Nat
  BY Rings DEF TypeOK, KernelTypeOK
<1>2. /\ Len(sqLocal) <= AcceptMulti + F
      /\ sqStale + Len(sqShared) <= AcceptMulti + BUFFERS_COUNT + 2 * F
      /\ 2 * AcceptMulti + BUFFERS_COUNT + 4 * F <= UringSize
  BY DEF Short, Published, Most, Ample
<1>3. AcceptMulti \in Nat /\ BUFFERS_COUNT \in Nat /\ UringSize \in Nat
  BY KernelAssumption, ReactorAssumption
<1>4. SqLen + F <= UringSize /\ SqLen \in Nat
  BY <1>1, <1>2, <1>3 DEF SqLen
<1> QED
  BY <1>3, <1>4 DEF HasRoom

LEMMA PanicFree ==
  ASSUME TypeOK, Tables, Known, Lock, Ample, Short, Published, Numbered, NoPanic, [Next]_vars
  PROVE  NoPanic'
<1>0. /\ IsFiniteSet(out) /\ Cardinality(out) \in Nat /\ F \in Nat /\ Cardinality(out) <= F
      /\ \A f \in Fds : ~IsClient(f) => Cardinality(out) <= F - 1
  BY ClientsFit DEF Ample
<1>1. ASSUME wideband_send_panics PROVE FALSE
  <2>1. pc = "top"
    BY <1>1 DEF wideband_send_panics
  <2>2. ~Overrun
    <3> SUFFICES ASSUME NEW i \in Sendable, lakes[i].pos > LakeCap PROVE FALSE
      BY DEF Overrun
    <3>1. lakes[i].pos <= 1 /\ lakes[i].pos \in Nat
      BY DEF Sendable, Pending, Lock, Due, TypeOK, ServerTypeOK, Lakes
    <3> QED
      BY <3>1, KernelAssumption
  <2>3. Cardinality(Sendable) \in Nat /\ Cardinality(Sendable) <= F
    <3>1. Sendable \in SUBSET out
      BY DEF Sendable, Pending
    <3>2. IsFiniteSet(Sendable) /\ Cardinality(Sendable) <= Cardinality(out)
      BY <1>0, <3>1, FS_Subset
    <3>3. Cardinality(Sendable) \in Nat
      BY <3>2, FS_CardinalityType
    <3> QED
      BY <1>0, <3>2, <3>3
  <2>4. HasRoom(Cardinality(Sendable))
    BY <1>0, <2>1, <2>3, RoomLeft DEF Alive
  <2> QED
    BY <1>1, <2>2, <2>4 DEF wideband_send_panics
<1>2. ASSUME accept_panics PROVE FALSE
  <2>1. /\ pc = "drain" /\ Next_cqe /\ cqShared' = cqShared /\ Entry.op = "accept"
        /\ Entry.res = "ok" /\ ~(next_id < OutCap)
    BY <1>2 DEF accept_panics, Next_cqe, RoomForClient
  <2>2. Completed # <<>> /\ Head(Completed) = Entry /\ Entry \in CQE /\ Completed \in Seq(CQE)
    BY <2>1, CompletedTake, Rings
  <2>3. Entry.arg \in Fds
    BY <2>1, <2>2, CqeKinds
  <2>4. Arrived(Entry.arg)
    BY <2>1, <2>2 DEF Arrived, Has, AcceptOf
  <2>5. Cardinality(out) <= F - 1
    BY <1>0, <2>3, <2>4 DEF Tables
  <2>6. next_id = ReservedIds + Cardinality(out)
    BY <2>1 DEF Numbered, Starting, InSystemCall, Alive
  <2>7. ReservedIds \in Nat /\ OutCap \in Nat /\ ReservedIds + F <= OutCap
    BY KernelAssumption, ReactorAssumption DEF Ample
  <2> QED
    BY <1>0, <2>1, <2>5, <2>6, <2>7
<1>3. CASE process_entry
  BY <1>2, <1>3 DEF process_entry, process_ignored, process_entry_accept,
     process_no_buffers, close_connection, request_reply, ubdma, Next_cqe, release_buffers,
     Submit, serverVars, NoPanic
<1>4. CASE \E c \in Conns : Environment(c)
  BY <1>4 DEF Environment, serverVars, NoPanic
<1>5. CASE \/ register_buffers \/ start_accepts \/ reserve_writes_buffer \/ LoopTop \/ Execute
           \/ Return \/ EnterFails \/ Restart \/ Rest \/ UNCHANGED vars
  BY <1>5 DEF register_buffers, start_accepts, reserve_writes_buffer, LoopTop, Execute, Return,
     EnterFails, Restart, Rest, vars, serverVars, Submit, NoPanic, TypeOK, ServerTypeOK
<1>6. CASE release_push \/ release_clear \/ EndOfBatch
  BY <1>6 DEF release_push, release_clear, EndOfBatch, release_buffers, Submit, NoPanic,
     TypeOK, ServerTypeOK
<1> QED
  BY <1>1, <1>3, <1>4, <1>5, <1>6 DEF Next, Worker

(* How the queues grow, and what they and the counters keep.               *)
Tidy == RingCold /\ AcceptsFirst(Queued) /\ SendsShared /\ ArmsKnown
Sparing == Numbered /\ Published /\ NoPanic

LEMMA TidyInit == Init => Tidy
<1> SUFFICES ASSUME Init PROVE Tidy
  OBVIOUS
<1>1. Queued = <<>> /\ Waiting = {}
  BY EmptyRings DEF Init, KernelInit
<1>2. pc = "boot" /\ out = {}
  BY DEF Init, ServerInit
<1> QED
  BY <1>1, <1>2 DEF Tidy, RingCold, InSystemCall, AcceptsFirst, SendsShared,
     ArmsKnown, Init, KernelInit

LEMMA SparingInit == Init /\ IsFiniteSet(Fds) => Sparing
<1> SUFFICES ASSUME Init, IsFiniteSet(Fds) PROVE Sparing
  OBVIOUS
<1>1. pc = "boot" /\ sqStale = 0 /\ Len(sqShared) = 0
  BY DEF Init, ServerInit, KernelInit
<1>2. Most \in Nat
  BY FS_CardinalityType, KernelAssumption, ReactorAssumption DEF Most, F
<1>3. Published
  BY <1>1, <1>2 DEF Published
<1> QED
  BY <1>1, <1>3 DEF Sparing, Numbered, Starting, NoPanic

RoomInv == (Lockstep => Tidy) /\ (Lockstep /\ Ample => Short /\ Sparing)

LEMMA RoomHolds == Spec => []RoomInv
<1> DEFINE Queues == Lockstep => Tidy
           Bounded == Lockstep /\ Ample => Short
           Inv == Lockstep /\ Ample => Sparing
<1>1. Init => Queues /\ Inv
  BY TidyInit, SparingInit DEF Ample
<1>2. LockBase /\ Queues /\ [Next]_vars => Queues'
  <2> SUFFICES ASSUME LockBase, Lockstep, Tidy, [Next]_vars
               PROVE  Tidy'
    BY DEF Lockstep
  <2> QED
    BY ColdNext, FirstNext, SharedNext, ArmsNext
    DEF Tidy, Lockstep, LockBase, Locked, AcceptsFirst, SendsShared
<1>3. LockBase /\ Queues => Bounded
  BY IsShort DEF Tidy, LockBase, Locked, Ample
<1>4. LockBase /\ Bounded /\ Bounded' /\ Inv /\ [Next]_vars => Inv'
  <2> SUFFICES ASSUME LockBase, Bounded, Bounded', Lockstep, Ample, Sparing, [Next]_vars
               PROVE  Sparing'
    BY DEF Lockstep, Ample, F
  <2>1. Short /\ Short'
    BY DEF Lockstep, Ample, F
  <2>2. F \in Nat
    BY ClientsFit DEF LockBase, Locked, Ample
  <2> QED
    BY <2>1, <2>2, NumberedNext, PublishedNext, PanicFree DEF Sparing, Lockstep, LockBase, Locked
<1>5. Queues /\ Bounded /\ Inv => RoomInv
  BY DEF RoomInv
<1> QED
  BY <1>1, <1>2, <1>3, <1>4, <1>5, LockstepHolds, PTL DEF Spec

(* In lockstep, and with the sizes of Ample, the worker thread survives:   *)
(* every client it accepts has an id and a slot, the responses fit their   *)
(* slot, and the submission queue takes all the sends of a round, however  *)
(* the kernel lags behind (wideband_send, process_entry_accept).           *)
THEOREM NeverPanics == Spec => [](Lockstep /\ Ample => NoPanic)
<1>1. RoomInv => (Lockstep /\ Ample => NoPanic)
  BY DEF RoomInv, Sparing
<1> QED
  BY <1>1, RoomHolds, PTL

-----------------------------------------------------------------------------
(* A buffer for every chunk                                                *)

(* As long as nobody leaves, what is armed is armed for clients, and the   *)
(* buffers are filled for clients.                                         *)
Receivers ==
  /\ \A c \in Conns : {recv[c], poll[c]} \subseteq out \cup {NoId}
  /\ \A e \in Done : IsFill(e) => e.id \in out

LEMMA ReceiversNext ==
  ASSUME TypeOK, TypeOK', ~ub_kernel_dma, PeersStay, ArmsKnown, Receivers, [Next]_vars
  PROVE  Receivers'
<1>1. CASE Restart
  BY <1>1 DEF Restart, KernelReset, Receivers, Done, Completed, Range
<1>2. CASE ~Restart
  <2>1. out \subseteq out'
    BY <1>2, OutGrows
  <2>2. ASSUME NEW c \in Conns, NEW i \in {recv'[c], poll'[c]}, i # NoId
        PROVE  i \in out'
    <3>0. recv'[c] \in Ids \cup {NoId} /\ poll'[c] \in Ids \cup {NoId}
      BY DEF TypeOK, KernelTypeOK
    <3>1. i \in Ids
      BY <2>2, <3>0
    <3>2. \/ recv[c] = i \/ poll[c] = i
          \/ \E e \in Waiting : e.op \in ArmOps /\ e.id = i /\ c = Target(e)
      BY <2>2, <3>1, ArmedBy
    <3> QED
      BY <2>1, <2>2, <3>2 DEF Receivers, ArmsKnown
  <2>3. ASSUME NEW e \in Done', IsFill(e) PROVE e.id \in out'
    <3>1. CASE \E c \in Conns : Environment(c) /\ KernelRecv(c)
      <4>1. PICK c \in Conns : KernelRecv(c)
        BY <3>1
      <4>2. PICK x \in CQE : Completed' = Append(Completed, x) /\ x.id = recv[c] /\ recv[c] \in Ids
        BY <4>1, RecvPosts DEF Cqe
      <4>3. e \in Done \/ e = x
        BY <2>3, <4>2, DoneAppend
      <4>4. recv[c] # NoId
        BY <4>2, KernelAssumption DEF Ids, NoId
      <4> QED
        BY <2>1, <2>3, <4>2, <4>3, <4>4 DEF Receivers
    <3>2. CASE ~\E c \in Conns : Environment(c) /\ KernelRecv(c)
      BY <1>2, <2>1, <2>3, <3>2, FillsStep DEF Receivers
    <3> QED
      BY <3>1, <3>2
  <2> QED
    BY <2>2, <2>3 DEF Receivers
<1> QED
  BY <1>1, <1>2

(* Fewer than Part buffers are listed, but while release_buffers returns   *)
(* them: then one client has the response to its only chunk in its slot.   *)
Hoarded ==
  Alive => /\ Len(released_buffers) <= Part
           /\ Len(released_buffers) = Part => Releasing /\ \E d \in out : lakes[d].pos # 0

LEMMA HoardedNext ==
  ASSUME TypeOK, BufInv, ~ub_kernel_dma, Part \in Nat \ {0}, PeersStay, Known, Receivers,
         Hoarded, [Next]_vars
  PROVE  Hoarded'
<1>0. Len(released_buffers) \in Nat /\ Part' = Part
  BY DEF TypeOK, ServerTypeOK, Part
<1>1. CASE request_reply
  <2> DEFINE b == Entry.arg
  <2>1. /\ pc = "drain" /\ released_buffers' = Append(released_buffers, b) /\ out' = out
        /\ lakes' = [lakes EXCEPT ![Entry.id] = LakeWrite(@, bufmem[b].front)]
        /\ Len(Hoard(b)) = Part => release_buffers(Hoard(b), "drain")
    BY <1>1 DEF request_reply, Next_cqe, Hoard, tableVars
  <2>2. Entry.id \in out /\ Entry.id \in Ids /\ b \in Buffers
    BY <1>1, ReplyFrees DEF Receivers
  <2>3. Len(released_buffers) < Part
    BY <1>0, <2>1 DEF Hoarded, Releasing, Alive, InSystemCall
  <2>4. Hoard(b) # <<>> /\ Len(Hoard(b)) = Len(released_buffers) + 1 /\ released_buffers' = Hoard(b)
    BY <2>1, <2>2 DEF Hoard, TypeOK, ServerTypeOK
  <2>5. lakes'[Entry.id].pos # 0
    BY <2>1, <2>2 DEF LakeWrite, TypeOK, ServerTypeOK, Lakes
  <2>6. Len(Hoard(b)) = Part => pc' = "enter" /\ then' = "relPush"
    BY <2>1, <2>4 DEF release_buffers, Submit
  <2> HIDE DEF b
  <2> QED
    BY <1>0, <2>1, <2>2, <2>3, <2>4, <2>5, <2>6 DEF Hoarded, Releasing, InSystemCall
<1>2. CASE release_clear \/ Restart
  <2>1. Len(released_buffers') = 0
    BY <1>2 DEF release_clear, Cleared, Restart
  <2> QED
    BY <1>0, <2>1 DEF Hoarded
<1>3. ASSUME released_buffers' = released_buffers, Alive' => Alive,
             Alive' /\ Releasing => Releasing' /\ out \subseteq out' /\ lakes' = lakes
      PROVE  Hoarded'
  BY <1>0, <1>3 DEF Hoarded
<1>4. CASE process_entry /\ ~request_reply
  <2>1. pc = "drain" /\ released_buffers' = released_buffers
    BY <1>4 DEF process_entry, process_ignored, accept_panics, process_entry_accept,
       process_no_buffers, close_connection, ubdma, Next_cqe, serverVars
  <2> QED
    BY <1>3, <2>1 DEF Releasing, Alive, InSystemCall
<1>5. CASE Execute \/ Return \/ release_push
  <2>1. released_buffers' = released_buffers /\ out' = out /\ lakes' = lakes /\ Alive
    BY <1>5 DEF Execute, Return, release_push, tableVars, Alive
  <2>2. Releasing => Releasing'
    BY <1>5 DEF Execute, Return, release_push, Submit, Releasing, InSystemCall
  <2> QED
    BY <1>3, <2>1, <2>2
<1>6. CASE \E c \in Conns : Environment(c)
  BY <1>3, <1>6 DEF Environment, serverVars, tableVars, Releasing, InSystemCall
<1>7. CASE \/ register_buffers \/ start_accepts \/ reserve_writes_buffer \/ LoopTop
           \/ EndOfBatch
  <2>1. released_buffers' = released_buffers /\ Alive /\ ~Releasing
    BY <1>7 DEF register_buffers, start_accepts, reserve_writes_buffer, LoopTop, EndOfBatch,
       Alive, Releasing, InSystemCall
  <2> QED
    BY <1>3, <2>1
<1>8. CASE wideband_send_panics \/ EnterFails
  BY <1>8 DEF wideband_send_panics, EnterFails, Hoarded, Alive
<1>9. CASE Rest \/ UNCHANGED vars
  BY <1>3, <1>9 DEF Rest, vars, serverVars, tableVars, Releasing, InSystemCall, Alive
<1> QED
  BY <1>1, <1>2, <1>4, <1>5, <1>6, <1>7, <1>8, <1>9 DEF Next, Worker

(* What release_buffers has pushed it still lists.                         *)
OffersListed ==
  Alive /\ ~Starting => \A e \in Waiting : e.op = "provide" => Listed(e.arg)

LEMMA OffersAdded ==
  ASSUME TypeOK, [Next]_vars, NEW e \in Waiting', e.op = "provide"
  PROVE  e \in Waiting \/ register_buffers \/ (release_push /\ Listed(e.arg))
<1>1. CASE release_push
  <2>1. released_buffers \in Seq(Buffers) /\ PushAndSync(Provides(released_buffers))
    BY <1>1 DEF release_push, TypeOK, ServerTypeOK
  <2>2. Waiting' = Waiting \cup Range(Provides(released_buffers))
    BY <2>1, ProvidesType, WaitingPush
  <2>3. ASSUME e \in Range(Provides(released_buffers)) PROVE Listed(e.arg)
    BY <2>1, <2>3 DEF Provides, provide_buffer, Sqe, Listed, Has, Range
  <2> QED
    BY <1>1, <2>2, <2>3
<1>2. CASE start_accepts
  <2> DEFINE es == [k \in 1 .. AcceptMulti |-> accept_multi]
  <2>1. es \in Seq(SQE)
    BY SqeTypes, ReactorAssumption DEF accept_multi, Sqe
  <2>2. sqLocal' = sqLocal \o es /\ sqShared' = sqShared
    BY <1>2 DEF start_accepts
  <2>3. \A x \in Range(es) : x.op # "provide"
    BY DEF accept_multi, Sqe, Range
  <2> HIDE DEF es
  <2>4. Waiting' = Waiting \cup Range(es)
    BY <2>1, <2>2, QueuedGrows, WaitingGrows
  <2> QED
    BY <2>3, <2>4
<1>3. CASE LoopTop
  BY <1>3, LoopTopAdds DEF Sends
<1>4. CASE process_entry_accept
  BY <1>4, AcceptAdds DEF Armings
<1>5. CASE Execute
  BY <1>5, ExecAdds
<1>6. CASE Restart
  BY <1>6 DEF Restart, KernelReset, Waiting, Queued, Range
<1>7. CASE UNCHANGED <<sqLocal, sqShared>>
  BY <1>7, SameRings
<1>8. CASE \E c \in Conns : Environment(c)
  BY <1>7, <1>8 DEF Environment, KernelAccept, KernelRecv, KernelPoll, PeerConnect, PeerSend,
     PeerLeave, ringVars
<1>9. CASE \/ process_ignored \/ accept_panics \/ process_no_buffers \/ close_connection
           \/ request_reply \/ ubdma
  BY <1>7, <1>9 DEF process_ignored, accept_panics, process_no_buffers, close_connection,
     request_reply, ubdma
<1>10. CASE \/ reserve_writes_buffer \/ wideband_send_panics \/ Return \/ EnterFails
            \/ release_clear \/ EndOfBatch \/ Rest \/ UNCHANGED vars
  BY <1>7, <1>10 DEF reserve_writes_buffer, wideband_send_panics, Return, EnterFails,
     release_clear, EndOfBatch, Rest, vars, kernelVars, ringVars
<1> QED
  BY <1>1, <1>2, <1>3, <1>4, <1>5, <1>6, <1>8, <1>9, <1>10 DEF Next, Worker, process_entry

LEMMA OffersListedNext ==
  ASSUME TypeOK, BufInv, OffersListed, [Next]_vars
  PROVE  OffersListed'
<1> SUFFICES ASSUME Alive', ~Starting', NEW e \in Waiting', e.op = "provide"
             PROVE  Listed(e.arg)'
  BY DEF OffersListed
<1>1. CASE e \in Waiting
  <2>1. /\ Alive
        /\ \/ Offering /\ ~Starting /\ released_buffers' = released_buffers
           \/ ~Offering
    <3>1. CASE process_entry \/ LoopTop \/ release_push \/ release_clear \/ EndOfBatch
               \/ wideband_send_panics \/ reserve_writes_buffer \/ start_accepts
      <4>1. pc \in {"drain", "top", "relPush", "relClear", "reserve", "arm"}
        BY <3>1 DEF process_entry, process_ignored, accept_panics, process_entry_accept,
           process_no_buffers, close_connection, request_reply, ubdma, Next_cqe, LoopTop,
           release_push, release_clear, EndOfBatch, wideband_send_panics,
           reserve_writes_buffer, start_accepts
      <4> QED
        BY <4>1 DEF Alive, Offering, InSystemCall
    <3>2. CASE Execute \/ Return
      BY <3>2 DEF Execute, Return, Alive, Offering, InSystemCall, Starting
    <3>3. CASE Restart \/ register_buffers
      BY <3>3 DEF Restart, register_buffers, Submit, Starting, InSystemCall
    <3>4. CASE EnterFails
      BY <3>4 DEF EnterFails, Alive
    <3>5. CASE \E c \in Conns : Environment(c)
      BY <3>5 DEF Environment, serverVars, Alive, Starting, InSystemCall
    <3>6. CASE Rest \/ UNCHANGED vars
      BY <3>6 DEF Rest, vars, serverVars, Alive, Starting, InSystemCall
    <3> QED
      BY <3>1, <3>2, <3>3, <3>4, <3>5, <3>6 DEF Next, Worker
  <2>2. CASE ~Offering
    <3>1. Bland(sqShared) /\ Bland(sqLocal)
      BY <2>1, <2>2 DEF BufInv, OneBatch
    <3>2. Waiting = Range(sqShared) \cup Range(sqLocal)
      BY Rings, RangeConcat DEF Waiting, Queued
    <3> QED
      BY <1>1, <3>1, <3>2 DEF Bland, Range
  <2>3. CASE Offering
    BY <1>1, <2>1, <2>3 DEF OffersListed, Listed
  <2> QED
    BY <2>2, <2>3
<1>2. CASE register_buffers
  BY <1>2 DEF register_buffers, Submit, Starting, InSystemCall
<1>3. CASE release_push /\ Listed(e.arg)
  BY <1>3 DEF release_push, Listed
<1> QED
  BY <1>1, <1>2, <1>3, OffersAdded

(* A client whose chunk has not been taken has no other under way.         *)
LEMMA NextChunk ==
  ASSUME TypeOK, Tables, Answers, Lock, NEW i \in out, inbox[ConnOf(i)] # <<>>
  PROVE  lakes[i].pos = 0 /\ \A e \in Done : ~FillFor(e, i)
<1> DEFINE c == ConnOf(i)
<1>1. c \in Conns
  BY ClientConn
<1> HIDE DEF c
<1>2. /\ Len(got[c]) \in Nat /\ sent[c] \in Nat /\ Len(inbox[c]) \in Nat
      /\ sent[c] <= Len(got[c]) + 1
  BY <1>1, Numbers DEF Lock, Turn
<1>3. Len(inbox[c]) > 0
  BY <1>1, <1>2 DEF c, TypeOK, KernelTypeOK
<1>4. Taken(c) # Served(i) + 1
  BY <1>2, <1>3 DEF Taken, Served, c
<1> QED
  BY <1>1, <1>4, OneAtATime DEF Answers, Lock, c

(* A buffer is filled for each client of S at most, and each listed buffer *)
(* has a place in the list.                                                *)
Filled == {b \in Buffers : InCqe(b)}
Stock == {b \in Buffers : Listed(b)}

LEMMA FewFilled ==
  ASSUME TypeOK, Tables, Answers, Lock, Receivers,
         NEW S, IsFiniteSet(S), \A e \in Done : IsFill(e) => e.id \in S
  PROVE  /\ IsFiniteSet(Filled) /\ Cardinality(Filled) \in Nat /\ Cardinality(S) \in Nat
         /\ Cardinality(Filled) <= Cardinality(S)
<1> DEFINE place(b) == CHOOSE k \in DOMAIN Completed : Completed[k] \in FillOf(b)
           f == [b \in Filled |-> Completed[place(b)].id]
<1>1. ASSUME NEW b \in Filled
      PROVE  /\ place(b) \in DOMAIN Completed /\ Completed[place(b)] \in Done
             /\ IsFill(Completed[place(b)]) /\ Completed[place(b)].arg = b
  <2>1. \E k \in DOMAIN Completed : Completed[k] \in FillOf(b)
    BY <1>1 DEF Filled, InCqe, Has
  <2>2. place(b) \in DOMAIN Completed /\ Completed[place(b)] \in FillOf(b)
    BY <2>1
  <2> QED
    BY <2>2 DEF FillOf, IsFill, Done, Range
<1> HIDE DEF place
<1>2. f \in [Filled -> S]
  BY <1>1
<1>3. ASSUME NEW a \in Filled, NEW b \in Filled, f[a] = f[b] PROVE a = b
  <2> DEFINE x == Completed[place(a)]
             y == Completed[place(b)]
             i == f[a]
  <2>1. /\ place(a) \in DOMAIN Completed /\ place(b) \in DOMAIN Completed
        /\ x \in Done /\ y \in Done /\ IsFill(x) /\ IsFill(y) /\ x.arg = a /\ y.arg = b
        /\ x.id = i /\ y.id = i
    BY <1>1, <1>3
  <2>2. i \in out /\ ConnOf(i) \in Conns /\ Answered(i) /\ Due(i) /\ Turn
    <3>1. i \in out
      BY <2>1 DEF Receivers
    <3> QED
      BY <3>1, ClientConn DEF Answers, Lock
  <2>3. FillFor(x, i) /\ FillFor(y, i)
    BY <2>1 DEF FillFor
  <2>4. ~Older(x, y) /\ ~Older(y, x)
    BY <2>1, <2>2, <2>3, OneAtATime
  <2>5. place(a) \in Int /\ place(b) \in Int
    BY <2>1, Rings
  <2>6. place(a) = place(b)
    BY <2>1, <2>4, <2>5 DEF Older
  <2> QED
    BY <2>1, <2>6
<1> HIDE DEF f
<1> QED
  BY <1>2, <1>3, CountedBy

LEMMA FewListed ==
  ASSUME TypeOK
  PROVE  /\ IsFiniteSet(Stock) /\ Cardinality(Stock) \in Nat
         /\ Len(released_buffers) \in Nat /\ Cardinality(Stock) <= Len(released_buffers)
<1> DEFINE place(b) == CHOOSE k \in DOMAIN released_buffers : released_buffers[k] = b
           f == [b \in Stock |-> place(b)]
           n == Len(released_buffers)
<1>0. n \in Nat /\ DOMAIN released_buffers = 1 .. n
  BY DEF TypeOK, ServerTypeOK
<1>1. ASSUME NEW b \in Stock
      PROVE  place(b) \in DOMAIN released_buffers /\ released_buffers[place(b)] = b
  BY <1>1 DEF Stock, Listed, Has
<1> HIDE DEF place, n
<1>2. f \in [Stock -> 1 .. n]
  BY <1>0, <1>1
<1>3. \A a, b \in Stock : f[a] = f[b] => a = b
  BY <1>1
<1>4. IsFiniteSet(1 .. n) /\ Cardinality(1 .. n) = n
  BY <1>0, OneTo
<1> HIDE DEF f
<1>5. /\ IsFiniteSet(Stock) /\ Cardinality(Stock) \in Nat
      /\ Cardinality(Stock) <= Cardinality(1 .. n)
  BY <1>2, <1>3, <1>4, CountedBy
<1> QED
  BY <1>0, <1>4, <1>5 DEF n

(* The number of clients for which there are always buffers.               *)
Plenty == Part >= 1 /\ F <= BUFFERS_COUNT - Part + 1

LEMMA Fed ==
  ASSUME TypeOK, BufInv, Known, Tables, Answers, Lock, Receivers, Hoarded, OffersListed,
         IsFiniteSet(Fds), Plenty, Alive, NEW i \in out, inbox[ConnOf(i)] # <<>>
  PROVE  pool # {}
<1> SUFFICES ASSUME pool = {} PROVE FALSE
  OBVIOUS
<1>0. /\ IsFiniteSet(out) /\ Cardinality(out) \in Nat /\ F \in Nat /\ Cardinality(out) <= F
  BY ClientsFit
<1>1. Buffers = Stock \cup Filled
  <2> SUFFICES ASSUME NEW b \in Buffers PROVE Listed(b) \/ InCqe(b)
    BY DEF Stock, Filled
  <2>1. ~Starting
    BY DEF Known
  <2>2. Held(b)
    BY <2>1 DEF BufInv, HeldOnce, Alive, Starting
  <2>3. ASSUME InRing(b) PROVE Listed(b)
    <3>1. PICK e \in Waiting : e \in OfferOf(b)
      BY <2>3 DEF InRing, Has, Waiting, Range
    <3> QED
      BY <2>1, <3>1 DEF OffersListed, OfferOf
  <2> QED
    BY <2>2, <2>3 DEF Held
<1>2. IsFiniteSet(Buffers) /\ Cardinality(Buffers) = BUFFERS_COUNT /\ BUFFERS_COUNT \in Nat
  BY BufferCount
<1>3. /\ IsFiniteSet(Stock) /\ Cardinality(Stock) \in Nat
      /\ Len(released_buffers) \in Nat /\ Cardinality(Stock) <= Len(released_buffers)
  BY FewListed
<1>4. lakes[i].pos = 0 /\ \A e \in Done : ~FillFor(e, i)
  BY NextChunk
<1>5. ASSUME NEW S, IsFiniteSet(S), \A e \in Done : IsFill(e) => e.id \in S
      PROVE  /\ Cardinality(S) \in Nat
             /\ BUFFERS_COUNT <= Len(released_buffers) + Cardinality(S)
  <2>1. /\ IsFiniteSet(Filled) /\ Cardinality(Filled) \in Nat /\ Cardinality(S) \in Nat
        /\ Cardinality(Filled) <= Cardinality(S)
    BY <1>5, FewFilled
  <2>2. Cardinality(Buffers) <= Cardinality(Stock) + Cardinality(Filled)
    BY <1>1, <1>3, <2>1, UnionBound
  <2> QED
    BY <1>2, <1>3, <2>1, <2>2
<1>6. Part \in Nat
  BY KernelAssumption DEF Part
<1>7. /\ IsFiniteSet(out \ {i}) /\ Cardinality(out \ {i}) = Cardinality(out) - 1
      /\ \A e \in Done : IsFill(e) => e.id \in out \ {i}
  BY <1>0, <1>4, FS_RemoveElement DEF Receivers, FillFor
<1>8. CASE Len(released_buffers) < Part
  <2>1. BUFFERS_COUNT <= Len(released_buffers) + Cardinality(out \ {i})
    BY <1>5, <1>7
  <2> QED
    BY <1>0, <1>2, <1>3, <1>6, <1>7, <1>8, <2>1 DEF Plenty
<1>9. CASE Len(released_buffers) = Part
  <2>1. PICK d \in out : lakes[d].pos # 0
    BY <1>9 DEF Hoarded
  <2>2. ConnOf(d) \in Conns /\ Answered(d) /\ Due(d) /\ Turn
    BY ClientConn DEF Answers, Lock
  <2>3. d # i /\ \A e \in Done : ~FillFor(e, d)
    BY <1>4, <2>1, <2>2, OneAtATime
  <2>4. /\ IsFiniteSet((out \ {i}) \ {d})
        /\ Cardinality((out \ {i}) \ {d}) = Cardinality(out \ {i}) - 1
    <3>1. d \in out \ {i}
      BY <2>3
    <3> QED
      BY <1>7, <3>1, FS_RemoveElement
  <2>5. \A e \in Done : IsFill(e) => e.id \in (out \ {i}) \ {d}
    BY <1>7, <2>3 DEF FillFor
  <2>6. BUFFERS_COUNT <= Len(released_buffers) + Cardinality((out \ {i}) \ {d})
    BY <1>5, <2>4, <2>5
  <2> QED
    BY <1>0, <1>2, <1>3, <1>6, <1>7, <1>9, <2>4, <2>6 DEF Plenty
<1> QED
  BY <1>3, <1>6, <1>8, <1>9 DEF Hoarded

(* The receive of every client is armed on its connection, or queued.      *)
Listens ==
  \A i \in out : recv[ConnOf(i)] = i \/ \E e \in Waiting : e.op = "recv" /\ e.id = i

(* Only the end of the receive and another receive disarm a receive, and   *)
(* only its execution takes it from the queue.                             *)
LEMMA ListensStep ==
  ASSUME TypeOK, [Next]_vars, ~Restart, NEW c \in Conns
  PROVE  /\ \/ recv'[c] = recv[c]
            \/ Execute /\ ExecArm /\ Target(Head(sqShared)) = c
            \/ Environment(c) /\ KernelRecv(c) /\ recv' # recv
         /\ \A e \in Waiting : e \in Waiting' \/ (Execute /\ e = Head(sqShared))
<1>0. Queued \in Seq(SQE)
  BY Rings
<1>1. ASSUME NEW e \in Waiting, ~(Execute /\ e = Head(sqShared)) PROVE e \in Waiting'
  <2>1. CASE Queued' = Queued
    BY <2>1 DEF Waiting
  <2>2. CASE Execute
    <3>1. sqShared # <<>> /\ TakeSqe
      BY <2>2, ExecAdds DEF Execute
    <3>2. Queued # <<>> /\ Queued' = Tail(Queued) /\ Head(Queued) = Head(sqShared)
      BY <3>1, QueuedTake, Rings DEF Queued
    <3>3. PICK k \in DOMAIN Queued : Queued[k] = e
      BY DEF Waiting, Range
    <3>4. k # 1
      BY <1>0, <1>1, <2>2, <3>2, <3>3
    <3>5. k - 1 \in DOMAIN Tail(Queued) /\ Tail(Queued)[k - 1] = Queued[k]
      BY <1>0, <3>2, <3>3, <3>4
    <3> QED
      BY <3>2, <3>3, <3>5 DEF Waiting, Range
  <2>3. ASSUME NEW es \in Seq(SQE), Queued' = Queued \o es PROVE e \in Waiting'
    BY <2>3, WaitingGrows
  <2> QED
    BY <2>1, <2>2, <2>3, QueueStep
<1>2. ASSUME recv'[c] # recv[c]
      PROVE  \/ Execute /\ ExecArm /\ Target(Head(sqShared)) = c
             \/ Environment(c) /\ KernelRecv(c) /\ recv' # recv
  <2>1. CASE Execute /\ ExecArm
    <3>1. recv' = recv \/ recv' = [recv EXCEPT ![Target(Head(sqShared))] = Head(sqShared).id]
      BY <2>1 DEF ExecArm
    <3> QED
      BY <1>2, <2>1, <3>1 DEF TypeOK, KernelTypeOK
  <2>2. CASE Execute /\ ~ExecArm
    BY <1>2, <2>2 DEF Execute, ExecProvide, ExecAccept, ExecSend, sockVars
  <2>3. CASE \E d \in Conns : Environment(d)
    <3>1. PICK d \in Conns : Environment(d)
      BY <2>3
    <3>2. recv' = recv \/ (KernelRecv(d) /\ recv' = [recv EXCEPT ![d] = NoId])
      BY <3>1 DEF Environment, KernelAccept, KernelRecv, KernelPoll, PeerConnect, PeerSend,
         PeerLeave
    <3> QED
      BY <1>2, <3>1, <3>2 DEF TypeOK, KernelTypeOK
  <2>4. CASE process_entry
    BY <1>2, <2>4 DEF process_entry, process_ignored, accept_panics, process_no_buffers,
       process_entry_accept, close_connection, request_reply, ubdma, sockVars
  <2>5. CASE \/ register_buffers \/ start_accepts \/ LoopTop \/ release_push
             \/ reserve_writes_buffer \/ wideband_send_panics \/ Return \/ EnterFails
             \/ release_clear \/ EndOfBatch \/ Rest \/ UNCHANGED vars
    BY <1>2, <2>5 DEF register_buffers, start_accepts, LoopTop, release_push,
       reserve_writes_buffer, wideband_send_panics, Return, EnterFails,
       release_clear, EndOfBatch, Rest, vars, kernelVars, sockVars
  <2> QED
    BY <2>1, <2>2, <2>3, <2>4, <2>5 DEF Next, Worker
<1> QED
  BY <1>1, <1>2

LEMMA ListensNext ==
  ASSUME TypeOK, BufInv, Known, Tables, Armed, Answers, PeersStay, OneFd, Lock, ~ub_kernel_dma,
         ArmsKnown, Receivers, Hoarded, OffersListed, Ample, Plenty, Short, Published,
         Listens, [Next]_vars
  PROVE  Listens'
<1>1. CASE Restart
  BY <1>1 DEF Restart, Listens
<1>2. ASSUME ~Restart, NEW i \in out'
      PROVE  recv'[ConnOf(i)'] = i \/ \E e \in Waiting' : e.op = "recv" /\ e.id = i
  <2>0. ~close_connection
    BY NothingCloses
  <2>1. CASE process_entry_accept /\ i = next_id
    <3>1. Entry.arg \in Fds /\ pc = "drain"
      BY <2>1, AcceptAdds DEF process_entry_accept, Next_cqe
    <3>2. F \in Nat /\ F >= 1
      <4>1. Fds # {} /\ F \in Nat
        BY <3>1, FS_CardinalityType DEF Ample, F
      <4>2. F # 0
        BY <4>1, FS_EmptySet DEF Ample, F
      <4> QED
        BY <4>1, <4>2
    <3>3. HasRoom(1)
      BY <3>1, <3>2, RoomLeft DEF Alive
    <3>4. /\ Queued' = Queued \o recv_multi(next_id, Entry.arg)
          /\ recv_multi(next_id, Entry.arg) \in Seq(SQE)
      BY <2>1, <3>3, AcceptPushesOne
    <3>5. Sqe("recv", next_id, Entry.arg, NoBuf) \in Waiting'
      <4>1. Waiting' = Waiting \cup Range(recv_multi(next_id, Entry.arg))
        BY <3>4, WaitingGrows
      <4>2. recv_multi(next_id, Entry.arg)[1] = Sqe("recv", next_id, Entry.arg, NoBuf)
            /\ 1 \in DOMAIN recv_multi(next_id, Entry.arg)
        BY DEF recv_multi
      <4> QED
        BY <4>1, <4>2 DEF Range
    <3> QED
      BY <2>1, <3>5 DEF Sqe
  <2>2. CASE i \in out /\ ConnOf(i)' = ConnOf(i)
    <3> DEFINE c == ConnOf(i)
               h == Head(sqShared)
    <3>0. c \in Conns /\ client_fds[i] \in Fds /\ c # NoConn
      BY <2>2, ClientConn, KernelAssumption
    <3>1. ASSUME Execute, h.op = "recv", h.id = i PROVE recv'[c] = i
      <4>1. h \in Waiting /\ h \in SQE
        BY <3>1, ExecAdds
      <4>2. h.fd = client_fds[i]
        BY <2>2, <3>1, <4>1 DEF Armed, ArmOps
      <4>3. Target(h) = c
        BY <3>0, <4>2 DEF Target, ConnOf
      <4>4. recv' = [recv EXCEPT ![c] = i]
        BY <3>0, <3>1, <4>3 DEF Execute, ExecArm, ExecProvide, ExecAccept, ExecSend
      <4> QED
        BY <3>0, <4>4 DEF TypeOK, KernelTypeOK
    <3>2. CASE recv[c] = i
      <4>1. CASE Execute /\ ExecArm /\ Target(h) = c
        <5>1. h \in Waiting /\ h.op \in ArmOps
          BY <4>1, ExecAdds DEF ExecArm, ArmOps
        <5>2. h.id \in out /\ h.fd = client_fds[h.id] /\ client_fds[h.id] \in Fds
          BY <5>1, ClientConn DEF ArmsKnown, Armed
        <5>3. ConnOf(h.id) = c
          BY <4>1, <5>2 DEF Target, ConnOf
        <5>4. h.id = i
          BY <2>2, <5>2, <5>3, ConnsDiffer
        <5>5. CASE h.op = "recv"
          BY <2>2, <3>1, <4>1, <5>4, <5>5
        <5>6. CASE h.op # "recv"
          <6>1. recv' = recv
            BY <4>1, <5>6 DEF ExecArm
          <6> QED
            BY <2>2, <3>2, <6>1
        <5> QED
          BY <5>5, <5>6
      <4>2. CASE Environment(c) /\ KernelRecv(c) /\ recv' # recv
        <5>1. inbox[c] # <<>> /\ pool = {}
          BY <3>0, <4>2 DEF KernelRecv, PeersStay
        <5> QED
          BY <2>2, <4>2, <5>1, Fed DEF Environment, Ample
      <4>3. CASE recv'[c] = recv[c]
        BY <2>2, <3>2, <4>3
      <4> QED
        BY <1>2, <3>0, <4>1, <4>2, <4>3, ListensStep
    <3>3. CASE \E e \in Waiting : e.op = "recv" /\ e.id = i
      <4>1. PICK e \in Waiting : e.op = "recv" /\ e.id = i
        BY <3>3
      <4>2. CASE e \in Waiting'
        BY <4>1, <4>2
      <4>3. CASE Execute /\ e = h
        BY <2>2, <3>1, <4>1, <4>3
      <4> QED
        BY <1>2, <3>0, <4>2, <4>3, ListensStep
    <3> QED
      BY <2>2, <3>2, <3>3 DEF Listens
  <2> QED
    BY <1>2, <2>0, <2>1, <2>2, ConnStable
<1> QED
  BY <1>1, <1>2 DEF Listens

LEMMA ListensHeard ==
  ASSUME TypeOK, Tables, Listens
  PROVE  NoDeafClient
<1> SUFFICES ASSUME NEW i \in out PROVE Listening(i)
  BY DEF NoDeafClient
<1>1. CASE recv[ConnOf(i)] = i
  BY <1>1, ClientConn DEF Listening
<1>2. CASE \E e \in Waiting : e.op = "recv" /\ e.id = i
  BY <1>2 DEF Listening, Waiting, Range
<1> QED
  BY <1>1, <1>2 DEF Listens

(* In lockstep, and with the sizes of Ample and Plenty, no client is       *)
(* forgotten: its receive is queued when it is accepted, is executed on    *)
(* its own connection and never ends for want of a buffer, whatever the    *)
(* order in which chunks arrive and buffers are returned                   *)
(* (process_entry_accept, request_reply, release_buffers).                 *)
THEOREM NeverDeaf == Spec => [](Lockstep /\ Ample /\ Plenty => NoDeafClient)
<1> DEFINE Sized == Lockstep /\ Ample /\ Plenty
           Inv == Sized => Receivers /\ Hoarded /\ OffersListed /\ Listens
<1>1. Init => Inv
  <2> SUFFICES ASSUME Init, Plenty PROVE Receivers /\ Hoarded /\ OffersListed /\ Listens
    OBVIOUS
  <2>1. pc = "boot" /\ out = {} /\ Len(released_buffers) = 0
    BY DEF Init, ServerInit
  <2>2. Done = {} /\ \A c \in Conns : recv[c] = NoId /\ poll[c] = NoId
    BY EmptyRings DEF Init, KernelInit
  <2>3. Part \in Nat /\ Part >= 1
    BY KernelAssumption DEF Plenty, Part
  <2> QED
    BY <2>1, <2>2, <2>3 DEF Receivers, Hoarded, OffersListed, Starting, Listens
<1>2. LockBase /\ LockBase' /\ RoomInv /\ Inv /\ [Next]_vars => Inv'
  <2> SUFFICES ASSUME LockBase, LockBase', RoomInv, Inv, [Next]_vars, Sized
               PROVE  (Receivers /\ Hoarded /\ OffersListed /\ Listens)'
    BY DEF Lockstep, Ample, Plenty, F, Part
  <2>1. /\ TypeOK /\ TypeOK' /\ BufInv /\ Known /\ Locked /\ Tidy /\ Short /\ Sparing
        /\ Receivers /\ Hoarded /\ OffersListed /\ Listens /\ ~ub_kernel_dma
    BY DEF LockBase, RoomInv, Lockstep
  <2>2. Part \in Nat \ {0}
    BY KernelAssumption DEF Plenty, Part
  <2>3. Receivers' /\ Hoarded' /\ OffersListed'
    BY <2>1, <2>2, ReceiversNext, HoardedNext, OffersListedNext DEF Locked, Tidy
  <2>4. Listens'
    BY <2>1, ListensNext DEF Locked, Tidy, Sparing
  <2> QED
    BY <2>3, <2>4
<1>3. LockBase /\ Inv => (Sized => NoDeafClient)
  BY ListensHeard DEF LockBase, Locked
<1> HIDE DEF Inv
<1> QED
  BY <1>1, <1>2, <1>3, LockstepHolds, RoomHolds, PTL DEF Spec

-----------------------------------------------------------------------------
(* Room for the buffers that go back                                       *)

(* A submission queue that also takes one release of Part buffers.         *)
Roomy == Part >= 1 /\ 2 * AcceptMulti + BUFFERS_COUNT + 3 * F + Part <= UringSize

LEMMA RoomForRelease ==
  ASSUME TypeOK, Roomy, F \in Nat, Short, Published, Hoarded
  PROVE  ReleaseHasRoom
<1> SUFFICES ASSUME pc = "relPush" PROVE HasRoom(Len(released_buffers))
  BY DEF ReleaseHasRoom
<1>1. /\ Len(sqLocal) \in Nat /\ Len(sqShared) \in Nat /\ sqStale \in Nat
      /\ Len(released_buffers) \in Nat
  BY Rings DEF TypeOK, KernelTypeOK, ServerTypeOK
<1>2. AcceptMulti \in Nat /\ BUFFERS_COUNT \in Nat /\ UringSize \in Nat /\ Part \in Nat
  BY KernelAssumption, ReactorAssumption DEF Roomy, Part
<1>3. /\ Len(sqLocal) <= AcceptMulti + F
      /\ sqStale + Len(sqShared) <= AcceptMulti + BUFFERS_COUNT + 2 * F
      /\ Len(released_buffers) <= Part
      /\ 2 * AcceptMulti + BUFFERS_COUNT + 3 * F + Part <= UringSize
  BY DEF Short, Published, Most, Hoarded, Roomy, Alive
<1> QED
  BY <1>1, <1>2, <1>3 DEF HasRoom, SqLen

(* In lockstep, and with the sizes of Ample and Roomy, release_buffers     *)
(* never spins: when it comes to push, the queue takes every buffer it     *)
(* lists, though the worker has not read the head since its last sync      *)
(* and the receives of new clients wait in the queue too                   *)
(* (release_buffers, request_reply, process_entry_accept).                 *)
THEOREM ReleaseNeverSpins == Spec => [](Lockstep /\ Ample /\ Roomy => ReleaseHasRoom)
<1> DEFINE Sized == Lockstep /\ Ample /\ Roomy
           Inv == Sized => Receivers /\ Hoarded
<1>1. Init => Inv
  <2> SUFFICES ASSUME Init, Roomy PROVE Receivers /\ Hoarded
    OBVIOUS
  <2>1. Len(released_buffers) = 0
    BY DEF Init, ServerInit
  <2>2. Done = {} /\ \A c \in Conns : recv[c] = NoId /\ poll[c] = NoId
    BY EmptyRings DEF Init, KernelInit
  <2>3. Part \in Nat /\ Part >= 1
    BY KernelAssumption DEF Roomy, Part
  <2> QED
    BY <2>1, <2>2, <2>3 DEF Receivers, Hoarded
<1>2. LockBase /\ LockBase' /\ RoomInv /\ Inv /\ [Next]_vars => Inv'
  <2> SUFFICES ASSUME LockBase, LockBase', RoomInv, Inv, [Next]_vars, Sized
               PROVE  (Receivers /\ Hoarded)'
    BY DEF Lockstep, Ample, Roomy, F, Part
  <2>1. /\ TypeOK /\ TypeOK' /\ BufInv /\ Known /\ Locked /\ Tidy
        /\ Receivers /\ Hoarded /\ ~ub_kernel_dma
    BY DEF LockBase, RoomInv, Lockstep
  <2>2. Part \in Nat \ {0}
    BY KernelAssumption DEF Roomy, Part
  <2> QED
    BY <2>1, <2>2, ReceiversNext, HoardedNext DEF Locked, Tidy
<1>3. LockBase /\ RoomInv /\ Inv => (Sized => ReleaseHasRoom)
  <2> SUFFICES ASSUME LockBase, RoomInv, Inv, Sized PROVE ReleaseHasRoom
    OBVIOUS
  <2>1. TypeOK /\ Tables /\ Short /\ Published /\ Receivers /\ Hoarded
    BY DEF LockBase, Locked, RoomInv, Sparing
  <2>2. F \in Nat
    BY FS_CardinalityType DEF Ample, F
  <2> QED
    BY <2>1, <2>2, RoomForRelease
<1> HIDE DEF Inv
<1> QED
  BY <1>1, <1>2, <1>3, LockstepHolds, RoomHolds, PTL DEF Spec

-----------------------------------------------------------------------------
(* What was received is answered                                           *)

(* A connection that is open stays open, and no further accept names it.   *)
LEMMA Arrivals ==
  ASSUME TypeOK, ~close_connection, [Next]_vars, NEW c \in Conns, stage[c] = "open"
  PROVE  /\ stage'[c] = "open"
         /\ \A f \in Fds : Arrived(f)' /\ fdTable'[f] = c => Arrived(f) /\ fdTable[f] = c
<1>1. ASSUME stage' = stage, fdTable' = fdTable, \A f \in Fds : Arrived(f)' => Arrived(f)
      PROVE  /\ stage'[c] = "open"
             /\ \A f \in Fds : Arrived(f)' /\ fdTable'[f] = c => Arrived(f) /\ fdTable[f] = c
  BY <1>1
<1>2. CASE \E d \in Conns : Environment(d)
  <2>1. PICK d \in Conns : Environment(d)
    BY <1>2
  <2>2. CASE KernelAccept(d)
    <3>0. d # c
      BY <2>2 DEF KernelAccept
    <3>1. stage'[c] = "open"
      BY <2>2, <3>0 DEF KernelAccept, TypeOK, KernelTypeOK
    <3>2. ASSUME NEW g \in Fds, fdTable' = [fdTable EXCEPT ![g] = d],
                 Cqe("accept", NoId, "ok", g) \in CQE,
                 Completed' = Append(Completed, Cqe("accept", NoId, "ok", g)),
                 NEW f \in Fds, Arrived(f)', fdTable'[f] = c
          PROVE  Arrived(f) /\ fdTable[f] = c
      <4>1. f # g /\ fdTable[f] = c
        BY <3>0, <3>2 DEF TypeOK, KernelTypeOK
      <4>2. Cqe("accept", NoId, "ok", g) \notin AcceptOf(f)
        BY <4>1 DEF AcceptOf, Cqe
      <4> QED
        BY <3>2, <4>1, <4>2, PostPlaces DEF Arrived
    <3>3. CASE /\ fdTable' = fdTable
               /\ Cqe("accept", NoId, "error", NoBuf) \in CQE
               /\ Completed' = Append(Completed, Cqe("accept", NoId, "error", NoBuf))
      <4>1. Cqe("accept", NoId, "error", NoBuf).res # "ok"
        BY DEF Cqe
      <4> QED
        BY <3>1, <3>3, <4>1, ArrivedPost
    <3> QED
      BY <2>2, <3>1, <3>2, <3>3, AcceptPosts
  <2>3. CASE KernelRecv(d)
    <3>1. \A res, b : Cqe("recv", recv[d], res, b).op # "accept"
      BY DEF Cqe
    <3>2. \A f \in Fds : Arrived(f)' => Arrived(f)
      BY <2>3, <3>1, RecvPosts, ArrivedPost
    <3> QED
      BY <1>1, <2>3, <3>2 DEF KernelRecv
  <2>4. CASE KernelPoll(d)
    <3>1. Cqe("poll", poll[d], "ok", NoBuf).op # "accept"
      BY DEF Cqe
    <3>2. \A f \in Fds : Arrived(f)' => Arrived(f)
      BY <2>4, <3>1, PollPosts, ArrivedPost
    <3> QED
      BY <1>1, <2>4, <3>2 DEF KernelPoll
  <2>5. CASE PeerConnect(d) \/ PeerSend(d) \/ PeerLeave(d)
    <3>1. fdTable' = fdTable /\ Completed' = Completed
      BY <2>5 DEF PeerConnect, PeerSend, PeerLeave, ringVars, Completed
    <3>2. stage'[c] = "open"
      BY <2>5 DEF PeerConnect, PeerSend, PeerLeave, TypeOK, KernelTypeOK
    <3> QED
      BY <3>1, <3>2, ArrivedSame
  <2> QED
    BY <2>1, <2>2, <2>3, <2>4, <2>5 DEF Environment
<1>3. CASE process_entry
  <2>1. Next_cqe /\ UNCHANGED <<cqShared, stage, fdTable>>
    BY <1>3 DEF process_entry, process_ignored, accept_panics, process_entry_accept,
       process_no_buffers, request_reply, ubdma, sockVars
  <2> QED
    BY <1>1, <2>1, EntryPlaces DEF Arrived
<1>4. CASE Restart
  <2>1. Completed' = <<>> /\ stage'[c] = "open"
    BY <1>4 DEF Restart, KernelReset, Completed
  <2> QED
    BY <2>1, EmptyHas DEF Arrived
<1>5. CASE Execute
  <2>1. UNCHANGED <<stage, fdTable>>
    BY <1>5 DEF Execute, ExecProvide, ExecAccept, ExecArm, ExecSend, sockVars
  <2> QED
    BY <1>1, <1>5, <2>1, ExecAdds, ArrivedSame, ArrivedPost DEF Reports
<1>6. CASE LoopTop
  BY <1>1, <1>6, LoopTopAdds, ArrivedSame DEF LoopTop, sockVars
<1>7. CASE \/ register_buffers \/ start_accepts \/ release_push
           \/ reserve_writes_buffer \/ wideband_send_panics \/ Return \/ EnterFails
           \/ release_clear \/ EndOfBatch \/ Rest \/ UNCHANGED vars
  <2>1. UNCHANGED <<stage, fdTable, cqLocal, cqShared>>
    BY <1>7 DEF register_buffers, start_accepts, release_push, reserve_writes_buffer,
       wideband_send_panics, Return, EnterFails, release_clear, EndOfBatch, Rest, vars,
       kernelVars, sockVars, ringVars
  <2> QED
    BY <1>1, <2>1, ArrivedSame DEF Completed
<1> QED
  BY <1>2, <1>3, <1>4, <1>5, <1>6, <1>7 DEF Next, Worker

(* Nothing is received from a connection before it is a client's.          *)
Fresh ==
  \A c \in Conns : Taken(c) # 0 =>
    stage[c] = "open" /\ \A f \in Fds : Arrived(f) => fdTable[f] # c

LEMMA FreshNext ==
  ASSUME TypeOK, Tables, Armed, PeersStay, OneFd, Receivers, Fresh, [Next]_vars
  PROVE  Fresh'
<1> SUFFICES ASSUME NEW c \in Conns, Taken(c)' # 0
             PROVE  stage'[c] = "open" /\ \A f \in Fds : Arrived(f)' => fdTable'[f] # c
  BY DEF Fresh, Taken
<1>1. stage[c] = "open" /\ \A f \in Fds : Arrived(f) => fdTable[f] # c
  <2>1. CASE Taken(c)' = Taken(c)
    BY <2>1 DEF Fresh
  <2>2. CASE KernelRecv(c)
    <3>1. PICK i \in out : i = recv[c]
      BY <2>2, RecvPosts, KernelAssumption DEF Receivers, Ids, NoId
    <3>2. ConnOf(i) = c /\ client_fds[i] \in Fds
      BY <3>1, ClientConn DEF Armed
    <3>3. fdTable[client_fds[i]] = c /\ c # NoConn
      BY <3>2, KernelAssumption DEF ConnOf
    <3>4. stage[c] = "open" /\ \A f \in Fds : fdTable[f] = c => f = client_fds[i]
      BY <3>2, <3>3 DEF OneFd
    <3> QED
      BY <3>1, <3>4 DEF Tables, IsClient
  <2> QED
    BY <2>1, <2>2, TakenStep
<1>2. ~close_connection
  BY NothingCloses
<1> QED
  BY <1>1, <1>2, Arrivals

(* What was received from client i and not answered.                       *)
Kept(i) ==
  Taken(ConnOf(i)) > Served(i) =>
    (\E e \in Done : FillFor(e, i)) \/ lakes[i].pos # 0 \/ Sending(i)

LEMMA KeptFrame ==
  ASSUME NEW i, Kept(i), Stays(i), Taken(ConnOf(i))' = Taken(ConnOf(i)),
         got'[ConnOf(i)] = got[ConnOf(i)],
         \A e \in Done : FillFor(e, i) => e \in Done',
         lakes'[i].pos = lakes[i].pos, Sending(i) => Sending(i)'
  PROVE  Kept(i)'
BY DEF Kept, Served, Stays, FillFor, IsFill

(* The completion of a receive is there until it is processed, and a send  *)
(* is queued until it is executed.                                         *)
LEMMA FillsKept ==
  ASSUME TypeOK, [Next]_vars, ~Restart, NEW e \in Done, IsFill(e)
  PROVE  e \in Done' \/ (request_reply /\ e = Entry)
<1>1. CASE Completed' = Completed
  BY <1>1 DEF Done
<1>2. ASSUME NEW x \in CQE, Completed' = Append(Completed, x)
      PROVE  e \in Done'
  BY <1>2, DoneAppend
<1>3. CASE process_entry
  <2>1. Next_cqe /\ cqShared' = cqShared
    BY <1>3 DEF process_entry, process_ignored, accept_panics, process_entry_accept,
       process_no_buffers, close_connection, request_reply, ubdma
  <2>2. e = Entry \/ e \in Done'
    <3>1. Has(Completed, {e})
      BY DEF Has, Done, Range
    <3>2. Entry \in {e} \/ Has(Completed', {e})
      BY <2>1, <3>1, EntryPlaces
    <3> QED
      BY <3>2 DEF Has, Done, Range
  <2>3. e = Entry => request_reply
    BY <1>3 DEF process_entry, process_ignored, accept_panics, process_entry_accept,
       process_no_buffers, close_connection, ubdma, Ignored, Closes, IsFill
  <2> QED
    BY <2>2, <2>3
<1>4. CASE Execute
  BY <1>1, <1>2, <1>4, ExecAdds
<1>5. CASE LoopTop
  BY <1>1, <1>5, LoopTopAdds
<1>6. CASE \E c \in Conns : Environment(c)
  <2>1. PICK c \in Conns : Environment(c)
    BY <1>6
  <2>2. CASE PeerConnect(c) \/ PeerSend(c) \/ PeerLeave(c)
    BY <1>1, <2>2 DEF PeerConnect, PeerSend, PeerLeave, ringVars, Completed
  <2> QED
    BY <1>2, <2>1, <2>2, AcceptPosts, RecvPosts, PollPosts DEF Environment
<1>7. CASE \/ register_buffers \/ start_accepts \/ release_push
           \/ reserve_writes_buffer \/ wideband_send_panics \/ Return \/ EnterFails
           \/ release_clear \/ EndOfBatch \/ Rest \/ UNCHANGED vars
  BY <1>1, <1>7 DEF register_buffers, start_accepts, release_push, reserve_writes_buffer,
     wideband_send_panics, Return, EnterFails, release_clear, EndOfBatch, Rest, vars,
     kernelVars, ringVars, Completed
<1> QED
  BY <1>3, <1>4, <1>5, <1>6, <1>7 DEF Next, Worker

LEMMA SendingKept ==
  ASSUME TypeOK, [Next]_vars, ~Restart, NEW i, ConnOf(i) \in Conns, Sending(i)
  PROVE  Sending(i)' \/ (Execute /\ ExecSend(lakes) /\ Head(sqShared).id = i)
<1>1. PICK e \in Waiting : e.op = "send" /\ e.id = i
  BY SendingWaits
<1>2. CASE e \in Waiting'
  <2>1. e \in SendsOf(i)
    BY <1>1, RingTypes DEF SendsOf
  <2>2. Has(Queued', SendsOf(i))
    BY <1>2, <2>1 DEF Has, Waiting, Range
  <2> QED
    BY <2>2 DEF Sending, SendsOf
<1>3. CASE Execute /\ e = Head(sqShared)
  BY <1>1, <1>3 DEF Execute, ExecProvide, ExecAccept, ExecArm
<1> QED
  BY <1>2, <1>3, ListensStep

(* The list of slots to send has every slot that is not empty.             *)
LEMMA AllListed ==
  ASSUME TypeOK, NEW ids \in InIdOrder(Sendable), NEW i \in Sendable
  PROVE  \E k \in DOMAIN ids : ids[k] = i
<1> DEFINE n == Cardinality(Sendable)
<1>1. Sendable \subseteq 0 .. OutCap - 1 /\ IsFiniteSet(Sendable)
  <2>1. Sendable \subseteq 0 .. OutCap - 1
    BY DEF Sendable, Pending, TypeOK, ServerTypeOK, Ids
  <2>2. IsFiniteSet(0 .. OutCap - 1)
    BY FS_Interval, KernelAssumption
  <2> QED
    BY <2>1, <2>2, FS_Subset
<1>2. n \in Nat
  BY <1>1, FS_CardinalityType
<1>3. /\ ids \in [1 .. n -> Sendable]
      /\ \A k, j \in 1 .. n : k < j => ids[k] < ids[j]
  BY DEF InIdOrder
<1> HIDE DEF n
<1>4. \A k, j \in 1 .. n : ids[k] = ids[j] => k = j
  <2> SUFFICES ASSUME NEW k \in 1 .. n, NEW j \in 1 .. n, ids[k] = ids[j] PROVE k = j
    OBVIOUS
  <2>1. ids[k] \in 0 .. OutCap - 1 /\ ids[j] \in 0 .. OutCap - 1
    BY <1>1, <1>3
  <2>2. ids[k] \in Int /\ ids[j] \in Int /\ k \in Int /\ j \in Int
    BY <1>2, <2>1, KernelAssumption
  <2> QED
    BY <1>3, <2>2
<1>5. ids \in Injection(1 .. n, Sendable)
  BY <1>3, <1>4 DEF Injection, IsInjective
<1>6. ids \in Surjection(1 .. n, Sendable)
  BY <1>1, <1>2, <1>5, OneTo, FS_Injection DEF n
<1> QED
  BY <1>3, <1>6 DEF Surjection

LEMMA RecvKept ==
  ASSUME TypeOK, Tables, Armed, OneFd, Receivers, [Next]_vars, NEW c \in Conns, Environment(c),
         KernelRecv(c), NEW i \in out, Stays(i), Kept(i)
  PROVE  Kept(i)'
<1>1. lakes' = lakes /\ got' = got /\ sent' = sent /\ Queued' = Queued
  BY DEF Environment, serverVars, KernelRecv, Queued
<1>2. Sending(i) => Sending(i)'
  BY <1>1 DEF Sending, Has, SendsOf
<1>3. ~Restart /\ ~request_reply
  BY DEF Environment, Alive, Restart, request_reply, Next_cqe, KernelRecv, serverVars
<1>4. \A e \in Done : FillFor(e, i) => e \in Done'
  BY <1>3, FillsKept DEF FillFor
<1>5. CASE Taken(ConnOf(i))' = Taken(ConnOf(i))
  BY <1>1, <1>2, <1>4, <1>5, KeptFrame
<1>6. CASE Taken(ConnOf(i))' # Taken(ConnOf(i))
  <2>1. inbox'[ConnOf(i)] # inbox[ConnOf(i)]
    BY <1>1, <1>6 DEF Taken, Stays
  <2>2. PICK b \in pool : /\ Cqe("recv", recv[c], "ok", b) \in CQE
                          /\ Completed' = Append(Completed, Cqe("recv", recv[c], "ok", b))
                          /\ inbox' = [inbox EXCEPT ![c] = Tail(@)]
    BY <2>1, RecvPosts
  <2>3. ConnOf(i) = c
    BY <2>1, <2>2 DEF Stays, TypeOK, KernelTypeOK
  <2>4. PICK j \in out : j = recv[c]
    BY RecvPosts, KernelAssumption DEF Receivers, Ids, NoId
  <2>5. ConnOf(j) = c
    BY <2>4 DEF Armed
  <2>6. recv[c] = i
    BY <2>3, <2>4, <2>5, ConnsDiffer
  <2>7. PICK x \in CQE : x = Cqe("recv", i, "ok", b)
    BY <2>2, <2>6
  <2>8. x \in Done'
    BY <2>2, <2>6, <2>7, DoneAppend
  <2>9. FillFor(x, i)
    BY <2>7 DEF FillFor, IsFill, Cqe
  <2> QED
    BY <2>8, <2>9 DEF Kept, FillFor, IsFill
<1> QED
  BY <1>5, <1>6

LEMMA ReplyKept ==
  ASSUME TypeOK, BufInv, [Next]_vars, request_reply, NEW i \in out, Stays(i), Kept(i)
  PROVE  Kept(i)'
<1>0. i \in Ids /\ lakes[i] \in Lakes /\ Entry.id \in Ids
  BY ReplyFrees DEF TypeOK, ServerTypeOK
<1>1. /\ lakes' = [lakes EXCEPT ![Entry.id] = LakeWrite(@, Chunk(Entry))]
      /\ UNCHANGED <<got, inbox, sent, sqLocal, sqShared>>
  BY DEF request_reply, Chunk, sockVars
<1>2. Taken(ConnOf(i))' = Taken(ConnOf(i)) /\ (Sending(i) => Sending(i)')
  BY <1>1 DEF Taken, Stays, Sending, Has, SendsOf, Queued
<1>3. CASE Entry.id = i
  <2>1. lakes'[i].pos = lakes[i].pos + 1
    BY <1>0, <1>1, <1>3 DEF LakeWrite, TypeOK, ServerTypeOK
  <2>2. lakes'[i].pos # 0
    BY <1>0, <2>1 DEF Lakes
  <2> QED
    BY <2>2 DEF Kept
<1>4. CASE Entry.id # i
  <2>1. lakes'[i] = lakes[i]
    BY <1>0, <1>1, <1>4 DEF TypeOK, ServerTypeOK
  <2>2. ~Restart
    BY DEF request_reply, Next_cqe, Restart
  <2>3. \A e \in Done : FillFor(e, i) => e \in Done'
    BY <1>4, <2>2, FillsKept DEF FillFor
  <2> QED
    BY <1>1, <1>2, <2>1, <2>3, KeptFrame
<1> QED
  BY <1>3, <1>4

(* The top of the loop turns what is in the slots into sends.              *)
LEMMA LoopTopKept ==
  ASSUME TypeOK, [Next]_vars, LoopTop, NEW i \in out, Stays(i), Kept(i)
  PROVE  Kept(i)'
<1>0. i \in Ids /\ lakes[i] \in Lakes
  BY DEF TypeOK, ServerTypeOK
<1>1. UNCHANGED <<got, sent, inbox>> /\ lakes' = LakesFlushed /\ Done' = Done
  BY LoopTopAdds DEF LoopTop, Flush, sockVars
<1>2. Taken(ConnOf(i))' = Taken(ConnOf(i))
  BY <1>1 DEF Taken, Stays
<1>3. PICK ids \in InIdOrder(Sendable) : Flush([k \in DOMAIN ids |-> SendEntry(ids[k])])
  BY DEF LoopTop
<1> DEFINE es == [k \in DOMAIN ids |-> SendEntry(ids[k])]
<1>4. es \in Seq(SQE)
  BY SendsType DEF LoopTop
<1>5. Waiting' = Waiting \cup Range(es)
  BY <1>3, <1>4, WaitingPush DEF Flush, FlushNow
<1>6. ASSUME NEW e \in Waiting', e \in SQE, e.op = "send", e.id = i PROVE Sending(i)'
  <2>1. Has(Queued', SendsOf(i))
    BY <1>6 DEF Has, Waiting, Range, SendsOf
  <2> QED
    BY <2>1 DEF Sending, SendsOf
<1>7. CASE i \in Sendable
  <2>1. PICK k \in DOMAIN ids : ids[k] = i
    BY <1>7, AllListed
  <2>2. es[k] = SendEntry(i) /\ k \in DOMAIN es
    BY <2>1
  <2>3. es[k] \in SQE /\ es[k].op = "send" /\ es[k].id = i
    BY <1>4, <2>2 DEF SendEntry, send, Sqe
  <2>4. Sending(i)'
    BY <1>5, <1>6, <2>2, <2>3 DEF Range
  <2> QED
    BY <2>4 DEF Kept
<1>8. CASE i \notin Sendable
  <2>1. lakes'[i] = lakes[i]
    BY <1>0, <1>1, <1>8 DEF LakesFlushed
  <2>2. Sending(i) => Sending(i)'
    BY <1>5, <1>6, SendingWaits, RingTypes
  <2> QED
    BY <1>1, <1>2, <2>1, <2>2, KeptFrame
<1> QED
  BY <1>7, <1>8

LEMMA SendKept ==
  ASSUME TypeOK, Lockstep, Tables, OneFd, PeersStay, Lock, [Next]_vars, Execute,
         ExecSend(lakes), NEW i \in out, Stays(i), Kept(i)
  PROVE  Kept(i)'
<1>0. i \in Ids /\ ConnOf(i) \in Conns
  BY ClientConn
<1>1. UNCHANGED <<lakes, sent, inbox>> /\ ~Restart /\ ~request_reply
  BY DEF Execute, ExecSend, Restart, request_reply, Next_cqe
<1>2. PICK j \in out :
        /\ j = Head(sqShared).id /\ InFlight(j)
        /\ got' = [got EXCEPT ![ConnOf(j)] = Append(@, <<ConnOf(j), Served(j) + 1>>)]
  BY SendExecuted
<1>3. Taken(ConnOf(i))' = Taken(ConnOf(i))
  BY <1>1 DEF Taken, Stays
<1>4. CASE j = i
  <2>1. Taken(ConnOf(i)) = Served(i) + 1
    BY <1>2, <1>4 DEF InFlight
  <2>2. Len(got[ConnOf(i)]) \in Nat /\ got[ConnOf(i)] \in Seq(Memory)
    BY <1>0, Numbers
  <2>3. Served(i)' = Served(i) + 1
    <3>1. got'[ConnOf(i)] = Append(got[ConnOf(i)], <<ConnOf(i), Served(i) + 1>>)
      BY <1>0, <1>2, <1>4 DEF TypeOK, KernelTypeOK
    <3>2. Len(got'[ConnOf(i)]) = Len(got[ConnOf(i)]) + 1
      BY <2>2, <3>1
    <3> QED
      BY <3>2 DEF Served, Stays
  <2>4. ~(Taken(ConnOf(i))' > Served(i)')
    BY <1>3, <2>1, <2>2, <2>3 DEF Served
  <2> QED
    BY <2>4 DEF Kept
<1>5. CASE j # i
  <2>1. ConnOf(j) # ConnOf(i)
    BY <1>2, <1>5, ConnsDiffer
  <2>2. got'[ConnOf(i)] = got[ConnOf(i)]
    BY <1>0, <1>2, <2>1 DEF TypeOK, KernelTypeOK
  <2>3. \A e \in Done : FillFor(e, i) => e \in Done'
    BY <1>1, FillsKept DEF FillFor
  <2>4. Sending(i) => Sending(i)'
    BY <1>0, <1>1, <1>2, <1>5, SendingKept
  <2> QED
    BY <1>1, <1>3, <2>2, <2>3, <2>4, KeptFrame
<1> QED
  BY <1>4, <1>5

(* A new client has sent nothing that was received.                        *)
LEMMA AcceptKept ==
  ASSUME TypeOK, TypeOK', Tables, Fresh, [Next]_vars, process_entry_accept,
         NEW i \in Ids, i = next_id
  PROVE  Kept(i)'
<1>1. /\ Entry \in Done /\ Entry \in AcceptOf(Entry.arg) /\ Entry.arg \in Fds
      /\ client_fds'[i] = Entry.arg /\ UNCHANGED sockVars
  BY AcceptAdds, RingTypes DEF AcceptOf, TypeOK, ServerTypeOK
<1>2. Arrived(Entry.arg)
  BY <1>1 DEF Arrived, Has, Done, Range
<1> DEFINE c == fdTable[Entry.arg]
<1>3. c \in Conns
  BY <1>1, <1>2 DEF Tables, TypeOK, KernelTypeOK
<1>4. Taken(c) = 0
  BY <1>1, <1>2, <1>3 DEF Fresh
<1>5. ConnOf(i)' = c /\ Taken(ConnOf(i))' = 0
  BY <1>1, <1>4 DEF ConnOf, Taken, sockVars
<1>6. Served(i)' \in Nat
  BY <1>1, <1>3, <1>5, Numbers DEF Served, sockVars
<1> QED
  BY <1>5, <1>6 DEF Kept

LEMMA KeptNext ==
  ASSUME TypeOK, TypeOK', BufInv, Known, Tables, Armed, Lockstep, PeersStay, OneFd, Lock,
         Receivers, Fresh, \A i \in out : Kept(i), [Next]_vars, NEW i \in out'
  PROVE  Kept(i)'
<1>1. ~close_connection
  BY NothingCloses
<1>2. CASE process_entry_accept /\ i = next_id
  BY <1>2, AcceptAdds, AcceptKept
<1>3. CASE i \in out /\ client_fds'[i] = client_fds[i] /\ ConnOf(i)' = ConnOf(i)
  <2>1. i \in Ids /\ Stays(i) /\ Kept(i) /\ i # next_id /\ ConnOf(i) \in Conns
    BY <1>3, ClientConn, KernelAssumption DEF Stays, Known, TypeOK, ServerTypeOK, Ids
  <2>2. CASE \E c \in Conns : Environment(c) /\ KernelRecv(c)
    BY <1>3, <2>1, <2>2, RecvKept
  <2>3. CASE request_reply
    BY <1>3, <2>1, <2>3, ReplyKept
  <2>4. CASE LoopTop
    BY <1>3, <2>1, <2>4, LoopTopKept
  <2>5. CASE Execute /\ ExecSend(lakes)
    BY <1>3, <2>1, <2>5, SendKept
  <2>6. CASE Restart
    BY <2>6 DEF Restart
  <2>7. CASE /\ ~LoopTop /\ ~request_reply /\ ~Restart /\ ~(Execute /\ ExecSend(lakes))
             /\ \A c \in Conns : ~(Environment(c) /\ KernelRecv(c))
    <3>1. lakes'[i] = lakes[i]
      BY <2>1, <2>7, SlotsStep DEF Lockstep
    <3>2. got' = got /\ Taken(ConnOf(i))' = Taken(ConnOf(i))
      BY <2>1, <2>7, GotStep, TakenSame
    <3>3. \A e \in Done : FillFor(e, i) => e \in Done'
      BY <2>7, FillsKept DEF FillFor
    <3>4. Sending(i) => Sending(i)'
      BY <2>1, <2>7, SendingKept
    <3> QED
      BY <2>1, <3>1, <3>2, <3>3, <3>4, KeptFrame
  <2> QED
    BY <2>2, <2>3, <2>4, <2>5, <2>6, <2>7
<1> QED
  BY <1>1, <1>2, <1>3, ConnStable

(* In lockstep no request is lost between the kernel and its answer,       *)
(* however the connections interleave and whatever the sizes are: also     *)
(* when the worker runs out of buffers, spins in release_buffers or        *)
(* panics, what it received is still where it can be found                 *)
(* (request_reply, wideband_send).                                         *)
THEOREM NothingIsLost == Spec => [](Lockstep => NothingLost)
<1> DEFINE Inv == Lockstep => Receivers /\ Fresh /\ \A i \in out : Kept(i)
<1>1. Init => Inv
  <2> SUFFICES ASSUME Init PROVE Receivers /\ Fresh /\ out = {}
    OBVIOUS
  <2>1. Done = {} /\ out = {} /\ \A c \in Conns : recv[c] = NoId /\ poll[c] = NoId
    BY EmptyRings DEF Init, KernelInit, ServerInit
  <2>2. \A c \in Conns : Taken(c) = 0
    BY DEF Init, KernelInit, Taken
  <2> QED
    BY <2>1, <2>2 DEF Receivers, Fresh
<1>2. LockBase /\ LockBase' /\ RoomInv /\ Inv /\ [Next]_vars => Inv'
  <2> SUFFICES ASSUME LockBase, LockBase', RoomInv, Inv, [Next]_vars, Lockstep
               PROVE  Receivers' /\ Fresh' /\ \A i \in out' : Kept(i)'
    BY DEF Lockstep
  <2>1. /\ TypeOK /\ TypeOK' /\ BufInv /\ Known /\ Locked /\ Tidy /\ ~ub_kernel_dma
        /\ Receivers /\ Fresh /\ \A i \in out : Kept(i)
    BY DEF LockBase, RoomInv, Lockstep
  <2>2. Receivers' /\ Fresh'
    BY <2>1, ReceiversNext, FreshNext DEF Locked, Tidy
  <2>3. \A i \in out' : Kept(i)'
    BY <2>1, KeptNext DEF Locked
  <2> QED
    BY <2>2, <2>3
<1>3. LockBase /\ Inv => (Lockstep => NothingLost)
  <2> SUFFICES ASSUME LockBase, Inv, Lockstep, NEW i \in out,
                      Taken(ConnOf(i)) > Served(i)
               PROVE  OnItsWay(i)
    BY DEF NothingLost, Taken, Served, ConnOf
  <2>1. (\E e \in Done : FillFor(e, i)) \/ lakes[i].pos # 0 \/ Sending(i)
    BY DEF Kept
  <2>2. Sending(i) => \E e \in Waiting : e.op = "send" /\ e.id = i
    BY SendingWaits DEF LockBase
  <2> QED
    BY <2>1, <2>2 DEF OnItsWay, FillFor, IsFill, Done, Waiting, Range
<1> HIDE DEF Inv
<1> QED
  BY <1>1, <1>2, <1>3, LockstepHolds, RoomHolds, PTL DEF Spec

-----------------------------------------------------------------------------
(* The service that the peers see                                          *)

LEMMA SentStep ==
  ASSUME [Next]_vars
  PROVE  sent' = sent \/ \E c \in Conns : PeerSend(c)
<1>1. CASE \E c \in Conns : Environment(c)
  BY <1>1 DEF Environment, KernelAccept, KernelRecv, KernelPoll, PeerConnect, PeerLeave
<1>2. CASE Execute
  BY <1>2 DEF Execute, ExecProvide, ExecAccept, ExecArm, ExecSend, sockVars
<1>3. CASE process_entry
  BY <1>3 DEF process_entry, process_ignored, accept_panics, process_no_buffers,
     process_entry_accept, close_connection, request_reply, ubdma, sockVars
<1>4. CASE \/ register_buffers \/ start_accepts \/ LoopTop \/ release_push
           \/ reserve_writes_buffer \/ wideband_send_panics \/ Return \/ EnterFails
           \/ release_clear \/ EndOfBatch \/ Restart \/ Rest \/ UNCHANGED vars
  BY <1>4 DEF register_buffers, start_accepts, LoopTop, release_push,
     reserve_writes_buffer, wideband_send_panics, Return, EnterFails, release_clear,
     EndOfBatch, Restart, KernelReset, Rest, vars, kernelVars, sockVars
<1> QED
  BY <1>1, <1>2, <1>3, <1>4 DEF Next, Worker

(* A send that the kernel executes is an answer that is owed.              *)
LEMMA SendAnswers ==
  ASSUME TypeOK, Lockstep, Tables, PeersStay, Lock, Execute, ExecSend(lakes)
  PROVE  \E c \in Conns : Promised!Answer(c)
<1>1. PICK i \in out :
         /\ InFlight(i)
         /\ got' = [got EXCEPT ![ConnOf(i)] = Append(@, <<ConnOf(i), Served(i) + 1>>)]
  BY SendExecuted
<1> DEFINE c == ConnOf(i)
<1>2. c \in Conns
  BY ClientConn
<1>3. Taken(c) = Len(got[c]) + 1
  BY <1>1 DEF InFlight, Served
<1>4. Len(got[c]) \in Nat /\ sent[c] \in Nat /\ Taken(c) <= sent[c]
  BY <1>2, Numbers
<1>5. Len(got[c]) < sent[c]
  BY <1>3, <1>4
<1>6. sent' = sent
  BY DEF ExecSend
<1>7. got' = [got EXCEPT ![c] = Append(@, <<c, Len(@) + 1>>)]
  BY <1>1 DEF Served
<1> QED
  BY <1>2, <1>5, <1>6, <1>7 DEF Promised!Answer

LEMMA ServiceInit == Init => Promised!Init
BY DEF Init, KernelInit, Promised!Init

LEMMA ServiceNext ==
  ASSUME TypeOK, Lockstep, Tables, PeersStay, Lock, [Next]_vars
  PROVE  [Promised!Next]_<<sent, got>>
<1>1. CASE got' # got
  BY <1>1, GotStep, SendAnswers DEF Promised!Next
<1>2. CASE \E c \in Conns : PeerSend(c)
  BY <1>2 DEF PeerSend, Promised!Ask, Promised!Next
<1>3. CASE got' = got /\ sent' = sent
  BY <1>3
<1> QED
  BY <1>1, <1>2, <1>3, SentStep

(* For peers that wait for each answer and stay, a worker is the service   *)
(* of module Service, whatever its sizes and however its rings, buffers    *)
(* and clients interleave: every chunk a peer asks is a question of its    *)
(* own, every send the kernel executes hands over exactly the one answer   *)
(* that this peer waits for, and no other step, also not an error of       *)
(* io_uring_enter and the restart that follows, is seen at all             *)
(* (request_reply, wideband_send, run).                                    *)
THEOREM WorkerIsService == Lockstep => (Spec => ServiceKept)
<1> SUFFICES ASSUME Lockstep PROVE Spec => ServiceKept
  OBVIOUS
<1>1. LockBase /\ [Next]_vars => [Promised!Next]_<<sent, got>>
  BY ServiceNext DEF LockBase, Locked
<1> QED
  BY <1>1, ServiceInit, LockstepHolds, PTL DEF Spec, ServiceKept, Promised!Spec
=============================================================================
