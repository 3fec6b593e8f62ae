--------------------------- MODULE ReactorProofs ---------------------------
(***************************************************************************)
(* Theorems about the reactor, for every number of buffers, clients and    *)
(* connections, every ring size and every mode: type correctness, and that *)
(* the worker never sleeps with work left to do.                           *)
(***************************************************************************)
EXTENDS Reactor, SequenceTheorems, FiniteSetTheorems, TLAPS

-----------------------------------------------------------------------------
(* The entries of the two rings                                            *)

LEMMA SqeTypes ==
  /\ \A b \in Buffers : Sqe("provide", NoId, NoFd, b) \in SQE
  /\ Sqe("accept", NoId, NoFd, NoBuf) \in SQE
  /\ \A id \in Ids, fd \in Nat : /\ Sqe("recv", id, fd, NoBuf) \in SQE
                                 /\ Sqe("poll", id, fd, NoBuf) \in SQE
  /\ \A id \in Ids, fd \in Nat, n \in 1 .. LakeCap : Sqe("send", id, fd, n) \in SQE
  BY DEF SQE, Sqe

LEMMA SqeKinds ==
  ASSUME NEW e \in SQE
  PROVE  /\ e.op \in {"provide", "accept", "recv", "poll", "send"}
         /\ e.op = "provide" => e.arg \in Buffers
         /\ e.op \in {"recv", "poll", "send"} => e.id \in Ids
         /\ e.op = "send" => e.arg \in 1 .. LakeCap
  BY DEF SQE

Failures == {"eof", "EAGAIN", "EBADF", "ENOBUFS", "EPIPE", "ECONNRESET", "ETIMEDOUT"}

LEMMA CqeTypes ==
  /\ Cqe("provide", NoId, "ok", NoBuf) \in CQE
  /\ \A f \in Fds : Cqe("accept", NoId, "ok", f) \in CQE
  /\ Cqe("accept", NoId, "error", NoBuf) \in CQE
  /\ \A id \in Ids, b \in Buffers : Cqe("recv", id, "ok", b) \in CQE
  /\ \A id \in Ids : Cqe("poll", id, "ok", NoBuf) \in CQE
  /\ \A id \in Ids, op \in {"recv", "poll", "send"}, res \in Failures :
       Cqe(op, id, res, NoBuf) \in CQE
  BY DEF CQE, Cqe, Failures

LEMMA CqeKinds ==
  ASSUME NEW e \in CQE
  PROVE  /\ e.op = "accept" /\ e.res = "ok" => e.arg \in Fds
         /\ e.op = "recv" /\ e.res = "ok" => e.id \in Ids /\ e.arg \in Buffers
         /\ e.op = "poll" => e.id \in Ids
         /\ Closes(e) => e.id \in Ids
  BY DEF CQE, Closes

-----------------------------------------------------------------------------
(* The environment keeps its type                                          *)

LEMMA PostType ==
  ASSUME KernelTypeOK, NEW e \in CQE, Post(e)
  PROVE  cqShared' \in Seq(CQE)
  BY AppendProperties DEF KernelTypeOK, Post

LEMMA TakeType ==
  ASSUME KernelTypeOK, sqShared # <<>>, TakeSqe
  PROVE  /\ Head(sqShared) \in SQE
         /\ sqShared' \in Seq(SQE) /\ sqStale' \in Nat
         /\ sqLocal' \in Seq(SQE) /\ cqLocal' \in Seq(CQE)
  BY HeadTailProperties DEF KernelTypeOK, TakeSqe

LEMMA ExecProvideType ==
  ASSUME KernelTypeOK, sqShared # <<>>, ExecProvide
  PROVE  KernelTypeOK'
<1>1. Head(sqShared).arg \in Buffers /\ TakeSqe
  BY TakeType, SqeKinds DEF ExecProvide
<1>2. cqShared' \in Seq(CQE)
  BY CqeTypes, PostType DEF ExecProvide
<1>3. QED
  BY <1>1, <1>2, TakeType DEF KernelTypeOK, ExecProvide, sockVars

LEMMA ExecAcceptType ==
  ASSUME KernelTypeOK, sqShared # <<>>, ExecAccept
  PROVE  KernelTypeOK'
<1>1. TakeSqe
  BY DEF ExecAccept
<1>2. QED
  BY <1>1, TakeType DEF KernelTypeOK, ExecAccept, bufVars

LEMMA ExecArmType ==
  ASSUME KernelTypeOK, sqShared # <<>>, ExecArm
  PROVE  KernelTypeOK'
<1> DEFINE e == Head(sqShared)
           c == Target(e)
<1>1. TakeSqe /\ e.op \in {"recv", "poll"} /\ e.id \in Ids
  BY TakeType, SqeKinds DEF ExecArm
<1>2. c \in Conns \cup {NoConn}
  BY DEF Target, KernelTypeOK
<1>3. CASE c = NoConn
  <2>1. cqShared' \in Seq(CQE)
    <3>1. Cqe(e.op, e.id, "EBADF", NoBuf) \in CQE
      BY <1>1, CqeTypes DEF Failures
    <3>2. QED
      BY <1>3, <3>1, PostType DEF ExecArm
  <2>2. QED
    BY <1>1, <1>3, <2>1, TakeType DEF KernelTypeOK, ExecArm, bufVars
<1>4. CASE c # NoConn
  BY <1>1, <1>2, <1>4, TakeType DEF KernelTypeOK, ExecArm, bufVars
<1>5. QED
  BY <1>3, <1>4

LEMMA ExecSendType ==
  ASSUME KernelTypeOK, ServerTypeOK, sqShared # <<>>, ExecSend(lakes)
  PROVE  KernelTypeOK'
<1> DEFINE e == Head(sqShared)
           c == Target(e)
<1>1. TakeSqe /\ e.id \in Ids /\ e.arg \in 1 .. LakeCap
  BY TakeType, SqeKinds DEF ExecSend
<1>2. c \in Conns \cup {NoConn}
  BY DEF Target, KernelTypeOK
<1>3. \A res \in Failures : Post(Cqe("send", e.id, res, NoBuf)) => cqShared' \in Seq(CQE)
  BY <1>1, CqeTypes, PostType
<1>4. cqShared' \in Seq(CQE)
  <2>1. SocketError(c) \in Failures
    BY DEF SocketError, Failures
  <2>2. \/ \E res \in Failures : Post(Cqe("send", e.id, res, NoBuf))
        \/ cqShared' = cqShared
    BY <2>1 DEF ExecSend, Failures
  <2>3. QED
    BY <1>3, <2>2 DEF KernelTypeOK
<1>5. peer' \in [Conns -> {"up", "fin", "rst", "timeout", "gone"}]
  BY <1>2 DEF ExecSend, KernelTypeOK
<1>6. got' \in [Conns -> Seq(Memory)]
  <2>1. CASE got' = got
    BY <2>1 DEF KernelTypeOK
  <2>2. CASE \E n \in 0 .. e.arg :
               got' = [got EXCEPT ![c] = @ \o [i \in 1 .. n |-> lakes[e.id].mem[i]]]
    <3>1. PICK n \in 0 .. e.arg :
               got' = [got EXCEPT ![c] = @ \o [i \in 1 .. n |-> lakes[e.id].mem[i]]]
      BY <2>2
    <3>2. [i \in 1 .. n |-> lakes[e.id].mem[i]] \in Seq(Memory)
      BY <1>1, KernelAssumption DEF ServerTypeOK, Lakes
    <3>3. \A d \in Conns : got[d] \o [i \in 1 .. n |-> lakes[e.id].mem[i]] \in Seq(Memory)
      BY <3>2, ConcatProperties DEF KernelTypeOK
    <3>4. QED
      BY <3>1, <3>3 DEF KernelTypeOK
  <2>3. (IF LossySend THEN 0 .. e.arg ELSE {e.arg}) \subseteq 0 .. e.arg
    BY <1>1, KernelAssumption
  <2>4. \/ got' = got
        \/ \E n \in (IF LossySend THEN 0 .. e.arg ELSE {e.arg}) :
               got' = [got EXCEPT ![c] = @ \o [i \in 1 .. n |-> lakes[e.id].mem[i]]]
    BY Zenon DEF ExecSend
  <2>5. QED
    BY <2>1, <2>2, <2>3, <2>4
<1>7. QED
  BY <1>1, <1>4, <1>5, <1>6, TakeType DEF KernelTypeOK, ExecSend, bufVars

LEMMA KernelAcceptType ==
  ASSUME KernelTypeOK, NEW c \in Conns, KernelAccept(c)
  PROVE  KernelTypeOK'
<1>1. /\ fdTable' \in [Fds -> Conns \cup {NoConn}]
      /\ stage' \in [Conns -> {"none", "backlog", "open", "lost"}]
      /\ accepts' \in Nat
  <2>1. CASE \E f \in Fds : /\ fdTable' = [fdTable EXCEPT ![f] = c]
                            /\ stage' = [stage EXCEPT ![c] = "open"]
                            /\ UNCHANGED accepts
    BY <2>1 DEF KernelTypeOK
  <2>2. CASE accepts > 0 /\ accepts' = accepts - 1 /\ UNCHANGED <<fdTable, stage>>
    BY <2>2 DEF KernelTypeOK
  <2>3. QED
    BY <2>1, <2>2 DEF KernelAccept
<1>2. cqShared' \in Seq(CQE)
  <2>1. \/ \E f \in Fds : Post(Cqe("accept", NoId, "ok", f))
        \/ Post(Cqe("accept", NoId, "error", NoBuf))
    BY DEF KernelAccept
  <2>2. QED
    BY <2>1, CqeTypes, PostType
<1>3. QED
  BY <1>1, <1>2 DEF KernelAccept, KernelTypeOK, bufVars

LEMMA KernelRecvType ==
  ASSUME KernelTypeOK, NEW c \in Conns, KernelRecv(c)
  PROVE  KernelTypeOK'
<1>1. recv[c] \in Ids
  BY DEF KernelRecv, KernelTypeOK
<1>2. cqShared' \in Seq(CQE)
  <2>1. SocketError(c) \in Failures
    BY DEF SocketError, Failures
  <2>2. \/ \E b \in pool : Post(Cqe("recv", recv[c], "ok", b))
        \/ \E res \in Failures : Post(Cqe("recv", recv[c], res, NoBuf))
    BY <2>1 DEF KernelRecv, Failures
  <2>3. QED
    BY <1>1, <2>2, CqeTypes, PostType DEF KernelTypeOK
<1>3. inbox[c] # <<>> => Head(inbox[c]) \in Units /\ Tail(inbox[c]) \in Seq(Units)
  BY HeadTailProperties DEF KernelTypeOK
<1>4. inbox' \in [Conns -> Seq(Units)]
  BY <1>3 DEF KernelRecv, KernelTypeOK
<1>5. /\ pool' \subseteq Buffers
      /\ bufmem' \in [Buffers -> [front : Memory, tail : Memory]]
  <2>1. CASE pool' = pool /\ bufmem' = bufmem
    BY <2>1 DEF KernelTypeOK
  <2>2. CASE /\ inbox[c] # <<>>
             /\ \E b \in pool : /\ pool' = pool \ {b}
                                /\ bufmem' = [bufmem EXCEPT ![b].front = Head(inbox[c])]
    BY <1>3, <2>2 DEF KernelTypeOK, Memory
  <2>3. QED
    BY <2>1, <2>2 DEF KernelRecv
<1>6. /\ recv' \in [Conns -> Ids \cup {NoId}]
      /\ peer' \in [Conns -> {"up", "fin", "rst", "timeout", "gone"}]
  BY DEF KernelRecv, KernelTypeOK
<1>7. QED
  BY <1>2, <1>4, <1>5, <1>6 DEF KernelRecv, KernelTypeOK

LEMMA KernelPollType ==
  ASSUME KernelTypeOK, NEW c \in Conns, KernelPoll(c)
  PROVE  KernelTypeOK'
<1>1. poll[c] \in Ids
  BY DEF KernelPoll, KernelTypeOK
<1>2. cqShared' \in Seq(CQE)
  BY <1>1, CqeTypes, PostType DEF KernelPoll
<1>3. QED
  BY <1>2 DEF KernelPoll, KernelTypeOK, bufVars

LEMMA PeerType ==
  ASSUME KernelTypeOK, NEW c \in Conns, PeerConnect(c) \/ PeerSend(c) \/ PeerLeave(c)
  PROVE  KernelTypeOK'
<1>1. CASE PeerConnect(c)
  BY <1>1 DEF PeerConnect, KernelTypeOK, ringVars, bufVars
<1>2. CASE PeerSend(c)
  <2>1. sent[c] \in Nat /\ sent[c] + 1 \in 1 .. MaxReq
    BY <1>2, KernelAssumption DEF PeerSend, KernelTypeOK
  <2>2. <<c, sent[c] + 1>> \in Units
    BY <2>1 DEF Units
  <2>3. inbox' \in [Conns -> Seq(Units)]
    BY <1>2, <2>2, AppendProperties DEF PeerSend, KernelTypeOK
  <2>4. QED
    BY <1>2, <2>1, <2>3 DEF PeerSend, KernelTypeOK, ringVars, bufVars
<1>3. CASE PeerLeave(c)
  BY <1>3, KernelAssumption DEF PeerLeave, KernelTypeOK, ringVars, bufVars
<1>4. QED
  BY <1>1, <1>2, <1>3

-----------------------------------------------------------------------------
(* What the worker puts into the ring and into its output slots            *)

LEMMA PushType ==
  ASSUME KernelTypeOK, NEW es \in Seq(SQE), PushAndSync(es)
  PROVE  /\ sqShared' \in Seq(SQE) /\ sqLocal' \in Seq(SQE) /\ sqStale' \in Nat
         /\ sqLocal' = <<>>
  BY ConcatProperties, EmptySeq DEF KernelTypeOK, PushAndSync

LEMMA ProvidesType ==
  ASSUME NEW bs \in Seq(Buffers)
  PROVE  Provides(bs) \in Seq(SQE)
<1>1. \A i \in 1 .. Len(bs) : bs[i] \in Buffers
  BY ElementOfSeq
<1>2. \A i \in 1 .. Len(bs) : Sqe("provide", NoId, NoFd, bs[i]) \in SQE
  BY <1>1, SqeTypes
<1>3. Len(bs) \in Nat
  BY LenProperties
<1>4. QED
  BY <1>2, <1>3 DEF Provides, provide_buffer

LEMMA EmptyLakeType == EmptyLake \in Lakes
  BY DEF EmptyLake, Lakes, Memory

LEMMA LakeWriteType ==
  ASSUME NEW lake \in Lakes, NEW u \in Memory
  PROVE  LakeWrite(lake, u) \in Lakes
<1>1. lake.pos + 1 \in Nat /\ lake.mem \in [1 .. LakeCap -> Memory]
  BY DEF Lakes
<1>2. [lake.mem EXCEPT ![lake.pos + 1] = u] \in [1 .. LakeCap -> Memory]
  BY <1>1
<1>3. QED
  BY <1>1, <1>2 DEF LakeWrite, Lakes

(* The sends of wideband_send fit their slots and name known clients.      *)
LEMMA SendsType ==
  ASSUME TypeOK, ~Overrun, NEW ids \in InIdOrder(Sendable)
  PROVE  [i \in DOMAIN ids |-> SendEntry(ids[i])] \in Seq(SQE)
<1>1. Sendable \subseteq Ids
  BY DEF Sendable, Pending, TypeOK, ServerTypeOK
<1>2. Cardinality(Sendable) \in Nat
  <2>1. IsFiniteSet(Ids)
    BY FS_Interval, KernelAssumption DEF Ids
  <2>2. QED
    BY <1>1, <2>1, FS_Subset, FS_CardinalityType
<1>3. \A i \in Sendable : SendEntry(i) \in SQE
  <2> SUFFICES ASSUME NEW i \in Sendable
               PROVE  SendEntry(i) \in SQE
    OBVIOUS
  <2>1. i \in Ids /\ lakes[i].pos \in Nat /\ lakes[i].pos # 0
    BY <1>1 DEF Sendable, Pending, TypeOK, ServerTypeOK, Lakes
  <2>2. lakes[i].pos \in 1 .. LakeCap
    BY <2>1, KernelAssumption DEF Overrun
  <2>3. client_fds[i] \in Nat
    BY <2>1, KernelAssumption, ReactorAssumption DEF Sendable, TypeOK, ServerTypeOK
  <2>4. QED
    BY <2>1, <2>2, <2>3, SqeTypes DEF SendEntry, send
<1>4. /\ DOMAIN ids = 1 .. Cardinality(Sendable)
      /\ \A i \in DOMAIN ids : ids[i] \in Sendable
  BY DEF InIdOrder
<1>5. QED
  BY <1>2, <1>3, <1>4

-----------------------------------------------------------------------------
(* Every step of the worker keeps the type                                 *)

LEMMA StartType ==
  ASSUME TypeOK, register_buffers \/ start_accepts \/ reserve_writes_buffer
  PROVE  TypeOK'
<1>1. CASE register_buffers
  <2>1. [i \in 1 .. BUFFERS_COUNT |-> i - 1] \in Seq(Buffers)
    BY KernelAssumption DEF Buffers
  <2>2. sqShared' \in Seq(SQE) /\ sqLocal' \in Seq(SQE) /\ sqStale' \in Nat
    BY <1>1, <2>1, ProvidesType, PushType DEF register_buffers, TypeOK
  <2>3. KernelTypeOK'
    BY <1>1, <2>2 DEF register_buffers, TypeOK, KernelTypeOK, bufVars, sockVars
  <2>4. ServerTypeOK'
    BY <1>1 DEF register_buffers, Submit, TypeOK, ServerTypeOK, tableVars, rateVars
  <2>5. QED
    BY <2>3, <2>4 DEF TypeOK
<1>2. CASE start_accepts
  <2>1. [i \in 1 .. AcceptMulti |-> accept_multi] \in Seq(SQE)
    BY SqeTypes, ReactorAssumption DEF accept_multi
  <2>2. sqLocal' \in Seq(SQE)
    BY <1>2, <2>1, ConcatProperties DEF start_accepts, TypeOK, KernelTypeOK
  <2>3. KernelTypeOK'
    BY <1>2, <2>2 DEF start_accepts, TypeOK, KernelTypeOK, bufVars, sockVars
  <2>4. ServerTypeOK'
    BY <1>2 DEF start_accepts, Submit, TypeOK, ServerTypeOK, tableVars, rateVars
  <2>5. QED
    BY <2>3, <2>4 DEF TypeOK
<1>3. CASE reserve_writes_buffer
  <2>1. KernelTypeOK'
    BY <1>3 DEF reserve_writes_buffer, TypeOK, KernelTypeOK, kernelVars, ringVars, bufVars,
       sockVars
  <2>2. ServerTypeOK'
    BY <1>3, KernelAssumption, ReactorAssumption
    DEF reserve_writes_buffer, TypeOK, ServerTypeOK, rateVars
  <2>3. QED
    BY <2>1, <2>2 DEF TypeOK
<1>4. QED
  BY <1>1, <1>2, <1>3

LEMMA LoopTopType ==
  ASSUME TypeOK, LoopTop
  PROVE  TypeOK'
<1>1. PICK ids \in InIdOrder(Sendable) : Flush([i \in DOMAIN ids |-> SendEntry(ids[i])])
  BY DEF LoopTop
<1>2. [i \in DOMAIN ids |-> SendEntry(ids[i])] \in Seq(SQE)
  BY SendsType DEF LoopTop
<1>3. sqShared' \in Seq(SQE) /\ sqLocal' \in Seq(SQE) /\ sqStale' \in Nat
  BY <1>1, <1>2, PushType DEF Flush, TypeOK, KernelTypeOK
<1>4. KernelTypeOK'
  BY <1>3, EmptySeq DEF LoopTop, TypeOK, KernelTypeOK, bufVars, sockVars
<1>5. lakes' \in [Ids -> Lakes] /\ sync_now' \in BOOLEAN
  BY <1>1 DEF Flush, LakesFlushed, TypeOK, ServerTypeOK, Lakes
<1>6. pc' \in {"enter", "drain"} /\ then' \in {"wait", "drain", then}
  BY DEF LoopTop, Submit
<1>7. rps' \in BOOLEAN /\ rpsNow' \in BOOLEAN
  BY DEF LoopTop, Tick, rateVars, TypeOK, ServerTypeOK
<1>8. ServerTypeOK'
  BY <1>5, <1>6, <1>7 DEF LoopTop, TypeOK, ServerTypeOK, tableVars
<1>9. QED
  BY <1>4, <1>8 DEF TypeOK

LEMMA ExecuteType ==
  ASSUME TypeOK, Execute
  PROVE  TypeOK'
<1>1. KernelTypeOK'
  BY ExecProvideType, ExecAcceptType, ExecArmType, ExecSendType DEF Execute, TypeOK
<1>2. ServerTypeOK'
  BY DEF Execute, TypeOK, ServerTypeOK, tableVars, rateVars
<1>3. QED
  BY <1>1, <1>2 DEF TypeOK

(* The steps that leave the environment alone and move the control only.   *)
LEMMA ControlType ==
  ASSUME TypeOK,
         \/ wideband_send_panics \/ Return \/ EnterFails \/ release_clear \/ EndOfBatch
  PROVE  TypeOK'
<1>1. KernelTypeOK'
  <2>1. UNCHANGED kernelVars
    BY DEF wideband_send_panics, Return, EnterFails, release_clear, EndOfBatch
  <2>2. QED
    BY <2>1 DEF TypeOK, KernelTypeOK, kernelVars, ringVars, bufVars, sockVars
<1>2. ServerTypeOK'
  <2>1. CASE wideband_send_panics
    BY <2>1 DEF wideband_send_panics, TypeOK, ServerTypeOK, tableVars, rateVars
  <2>2. CASE Return
    BY <2>2 DEF Return, TypeOK, ServerTypeOK, tableVars, rateVars
  <2>3. CASE EnterFails
    BY <2>3, ReactorAssumption DEF EnterFails, TypeOK, ServerTypeOK, tableVars, rateVars
  <2>4. CASE release_clear
    BY <2>4, EmptySeq DEF release_clear, Cleared, TypeOK, ServerTypeOK, tableVars, rateVars
  <2>5. CASE EndOfBatch
    BY <2>5 DEF EndOfBatch, release_buffers, Submit, TypeOK, ServerTypeOK, tableVars, rateVars
  <2>6. QED
    BY <2>1, <2>2, <2>3, <2>4, <2>5
<1>3. QED
  BY <1>1, <1>2 DEF TypeOK

LEMMA ReleasePushType ==
  ASSUME TypeOK, release_push
  PROVE  TypeOK'
<1>1. released_buffers \in Seq(Buffers) /\ PushAndSync(Provides(released_buffers))
  BY DEF release_push, TypeOK, ServerTypeOK
<1>2. sqShared' \in Seq(SQE) /\ sqLocal' \in Seq(SQE) /\ sqStale' \in Nat
  BY <1>1, ProvidesType, PushType DEF TypeOK
<1>3. KernelTypeOK'
  BY <1>2 DEF release_push, TypeOK, KernelTypeOK, bufVars, sockVars
<1>4. ServerTypeOK'
  BY DEF release_push, Submit, TypeOK, ServerTypeOK, tableVars, rateVars
<1>5. QED
  BY <1>3, <1>4 DEF TypeOK

LEMMA RestartType ==
  ASSUME TypeOK, Restart
  PROVE  TypeOK'
<1>1. KernelTypeOK'
  <2>1. \A c \in Conns : (IF stage[c] = "backlog" THEN "lost" ELSE stage[c])
                         \in {"none", "backlog", "open", "lost"}
    BY DEF TypeOK, KernelTypeOK
  <2>2. NoUnit \in Memory
    BY DEF Memory
  <2>3. QED
    BY <2>1, <2>2, EmptySeq DEF Restart, KernelReset, TypeOK, KernelTypeOK
<1>2. ServerTypeOK'
  <2>1. lakes' \in [Ids -> Lakes]
    BY EmptyLakeType DEF Restart
  <2>2. client_fds' \in [Ids -> Fds \cup {NoFd, ReservedFd}] /\ next_id' \in 0 .. OutCap
    BY KernelAssumption DEF Restart
  <2>3. released_buffers' \in Seq(Buffers) /\ out' \subseteq Ids
    BY EmptySeq DEF Restart
  <2>4. sync_now' \in BOOLEAN /\ rps' \in BOOLEAN /\ rpsNow' \in BOOLEAN
    BY DEF Restart, InitialSync
  <2>5. QED
    BY <2>1, <2>2, <2>3, <2>4 DEF Restart, TypeOK, ServerTypeOK
<1>3. QED
  BY <1>1, <1>2 DEF TypeOK

-----------------------------------------------------------------------------
(* The completions                                                         *)

LEMMA EntryType ==
  ASSUME TypeOK, Next_cqe
  PROVE  /\ Entry \in CQE
         /\ cqLocal' \in Seq(CQE)
  BY HeadTailProperties DEF Next_cqe, Entry, TypeOK, KernelTypeOK

LEMMA IgnoredType ==
  ASSUME TypeOK, process_ignored \/ accept_panics \/ process_no_buffers
  PROVE  TypeOK'
<1>1. KernelTypeOK'
  <2>1. /\ Next_cqe
        /\ UNCHANGED <<sqLocal, sqShared, sqStale, cqShared, bufVars, sockVars>>
    BY DEF process_ignored, accept_panics, process_no_buffers
  <2>2. QED
    BY <2>1, EntryType DEF TypeOK, KernelTypeOK, bufVars, sockVars
<1>2. ServerTypeOK'
  <2>1. CASE process_ignored
    BY <2>1 DEF process_ignored, TypeOK, ServerTypeOK, serverVars, tableVars, rateVars
  <2>2. CASE accept_panics
    BY <2>2 DEF accept_panics, TypeOK, ServerTypeOK, tableVars, rateVars
  <2>3. CASE process_no_buffers
    BY <2>3 DEF process_no_buffers, Next_cqe, release_buffers, Submit, TypeOK, ServerTypeOK,
       tableVars, rateVars
  <2>4. QED
    BY <2>1, <2>2, <2>3
<1>3. QED
  BY <1>1, <1>2 DEF TypeOK

LEMMA AcceptType ==
  ASSUME TypeOK, process_entry_accept
  PROVE  TypeOK'
<1> DEFINE fd == Entry.arg
           id == next_id
<1>1. Next_cqe /\ fd \in Fds
  BY EntryType, CqeKinds DEF process_entry_accept
<1>2. fd \in Nat
  BY <1>1, KernelAssumption
<1>3. id \in Ids /\ next_id + 1 \in 0 .. OutCap
  BY KernelAssumption DEF process_entry_accept, RoomForClient, Ids, TypeOK, ServerTypeOK
<1>4. /\ recv_multi(id, fd) \in Seq(SQE)
      /\ poll_add(id, fd) \in Seq(SQE)
      /\ <<>> \in Seq(SQE)
  BY <1>2, <1>3, SqeTypes, EmptySeq DEF recv_multi, poll_add
<1>5. sqShared' \in Seq(SQE) /\ sqLocal' \in Seq(SQE) /\ sqStale' \in Nat
  <2>1. sqLocal \in Seq(SQE) /\ sqShared \in Seq(SQE) /\ sqStale \in Nat
    BY DEF TypeOK, KernelTypeOK
  <2>2. CASE ub_kernel_dma
    <3>1. sqLocal' \in {recv_multi(id, fd), <<>>} /\ sqStale' = 0
      BY <2>2 DEF process_entry_accept, PushIndex
    <3> DEFINE polled == IF HasRoom(1) THEN poll_add(id, fd) ELSE <<>>
    <3>2. sqShared' = sqShared \o sqLocal \o polled
      BY <2>2 DEF process_entry_accept, PushIndex
    <3>3. polled \in Seq(SQE)
      BY <1>4
    <3> HIDE DEF polled
    <3>4. QED
      BY <1>4, <2>1, <3>1, <3>2, <3>3, ConcatProperties
  <2>3. CASE ~ub_kernel_dma
    <3>1. /\ sqLocal' \in {sqLocal \o recv_multi(id, fd), sqLocal}
          /\ UNCHANGED <<sqShared, sqStale>>
      BY <2>3 DEF process_entry_accept, PushIndex
    <3>2. QED
      BY <1>4, <2>1, <3>1, ConcatProperties
  <2>4. QED
    BY <2>2, <2>3
<1>6. KernelTypeOK'
  BY <1>1, <1>5, EntryType DEF process_entry_accept, TypeOK, KernelTypeOK, bufVars, sockVars
<1>7. ServerTypeOK'
  BY <1>1, <1>3, EmptyLakeType
  DEF process_entry_accept, PushIndex, TypeOK, ServerTypeOK, rateVars
<1>8. QED
  BY <1>6, <1>7 DEF TypeOK

LEMMA CloseType ==
  ASSUME TypeOK, close_connection
  PROVE  TypeOK'
<1>1. Next_cqe /\ Entry.id \in Ids
  BY EntryType, CqeKinds DEF close_connection
<1>2. fdTable' \in [Fds -> Conns \cup {NoConn}]
  BY DEF close_connection, CloseFd, TypeOK, KernelTypeOK
<1>3. KernelTypeOK'
  BY <1>1, <1>2, EntryType DEF close_connection, TypeOK, KernelTypeOK, bufVars
<1>4. ServerTypeOK'
  BY <1>1 DEF close_connection, SlotRemoved, TypeOK, ServerTypeOK, rateVars
<1>5. QED
  BY <1>3, <1>4 DEF TypeOK

LEMMA RequestReplyType ==
  ASSUME TypeOK, request_reply
  PROVE  TypeOK'
<1> DEFINE id == Entry.id
           b == Entry.arg
<1>1. Next_cqe /\ id \in Ids /\ b \in Buffers
  BY EntryType, CqeKinds DEF request_reply
<1>2. bufmem[b] \in [front : Memory, tail : Memory] /\ NoUnit \in Memory
  BY <1>1 DEF TypeOK, KernelTypeOK, Memory
<1>3. Shifted(b) \in [Buffers -> [front : Memory, tail : Memory]]
  BY <1>1, <1>2 DEF Shifted, TypeOK, KernelTypeOK
<1>4. KernelTypeOK'
  BY <1>1, <1>3, EntryType DEF request_reply, TypeOK, KernelTypeOK, sockVars
<1>5. Hoard(b) \in Seq(Buffers)
  BY <1>1, AppendProperties DEF Hoard, TypeOK, ServerTypeOK
<1>6. LakeWrite(lakes[id], bufmem[b].front) \in Lakes
  BY <1>1, <1>2, LakeWriteType DEF TypeOK, ServerTypeOK
<1>7. /\ pc' \in {pc, "drain", "enter"} /\ then' \in {then, "relPush"}
      /\ back' \in {back, "drain"}
  BY DEF request_reply, release_buffers, Submit
<1>8. ServerTypeOK'
  BY <1>1, <1>5, <1>6, <1>7 DEF request_reply, TypeOK, ServerTypeOK, tableVars
<1>9. QED
  BY <1>4, <1>8 DEF TypeOK

LEMMA UbdmaType ==
  ASSUME TypeOK, ubdma
  PROVE  TypeOK'
<1> DEFINE id == Entry.id
<1>1. Next_cqe /\ id \in Ids
  BY EntryType, CqeKinds DEF ubdma
<1>2. KernelTypeOK'
  BY <1>1, EntryType DEF ubdma, TypeOK, KernelTypeOK, bufVars, sockVars
<1>3. kbuf # NoBuf => Replayed(lakes[id], kbuf) \in Lakes
  <2> SUFFICES ASSUME kbuf # NoBuf
               PROVE  Replayed(lakes[id], kbuf) \in Lakes
    OBVIOUS
  <2>1. /\ lakes[id] \in Lakes
        /\ bufmem[kbuf].front \in Memory /\ bufmem[kbuf].tail \in Memory
    BY <1>1 DEF TypeOK, ServerTypeOK, KernelTypeOK
  <2>2. \A lake \in Lakes, u \in Memory : WriteIfAny(lake, u) \in Lakes
    BY LakeWriteType DEF WriteIfAny
  <2>3. QED
    BY <2>1, <2>2 DEF Replayed
<1>4. /\ lakes' \in [Ids -> Lakes]
      /\ rpsNow' \in BOOLEAN /\ sync_now' \in BOOLEAN
  BY <1>1, <1>3 DEF ubdma, TypeOK, ServerTypeOK
<1>5. ServerTypeOK'
  BY <1>4 DEF ubdma, TypeOK, ServerTypeOK, tableVars
<1>6. QED
  BY <1>2, <1>5 DEF TypeOK

-----------------------------------------------------------------------------
LEMMA EnvironmentType ==
  ASSUME TypeOK, NEW c \in Conns, Environment(c)
  PROVE  TypeOK'
<1>1. KernelTypeOK'
  BY KernelAcceptType, KernelRecvType, KernelPollType, PeerType DEF Environment, TypeOK
<1>2. ServerTypeOK'
  BY DEF Environment, serverVars, tableVars, rateVars, TypeOK, ServerTypeOK
<1>3. QED
  BY <1>1, <1>2 DEF TypeOK

LEMMA TypeInit == Init => TypeOK
<1> SUFFICES ASSUME Init
             PROVE  TypeOK
  OBVIOUS
<1>1. KernelTypeOK
  BY EmptySeq, KernelAssumption DEF Init, KernelInit, KernelTypeOK, Memory
<1>2. ServerTypeOK
  <2>1. lakes \in [Ids -> Lakes]
    BY EmptyLakeType DEF Init, ServerInit
  <2>2. client_fds \in [Ids -> Fds \cup {NoFd, ReservedFd}] /\ next_id \in 0 .. OutCap
    BY KernelAssumption DEF Init, ServerInit
  <2>3. released_buffers \in Seq(Buffers) /\ out \subseteq Ids
    BY EmptySeq DEF Init, ServerInit
  <2>4. sync_now \in BOOLEAN /\ rps \in BOOLEAN /\ rpsNow \in BOOLEAN
    BY DEF Init, ServerInit, InitialSync
  <2>5. restarts \in 0 .. MaxRestarts
    BY ReactorAssumption DEF Init, ServerInit
  <2>6. QED
    BY <2>1, <2>2, <2>3, <2>4, <2>5 DEF Init, ServerInit, ServerTypeOK
<1>3. QED
  BY <1>1, <1>2 DEF TypeOK

LEMMA TypeNext == TypeOK /\ [Next]_vars => TypeOK'
<1> SUFFICES ASSUME TypeOK, [Next]_vars
             PROVE  TypeOK'
  OBVIOUS
<1>1. CASE Worker
  BY <1>1, StartType, LoopTopType, ExecuteType, ControlType, ReleasePushType, RestartType,
     IgnoredType, AcceptType, CloseType, RequestReplyType, UbdmaType
  DEF Worker, process_entry
<1>2. CASE EnterFails
  BY <1>2, ControlType
<1>3. CASE \E c \in Conns : Environment(c)
  BY <1>3, EnvironmentType
<1>4. CASE UNCHANGED vars
  BY <1>4 DEF vars, serverVars, kernelVars, tableVars, rateVars, ringVars, bufVars, sockVars,
     TypeOK, KernelTypeOK, ServerTypeOK
<1>5. QED
  BY <1>1, <1>2, <1>3, <1>4 DEF Next, Rest

(* The worker and its environment are type correct: every completion the   *)
(* handlers of process_entry take apart carries a client id with an output *)
(* slot, a descriptor or a buffer of the group, as they assume, and every  *)
(* send that wideband_send queues fits the client's slot.                  *)
THEOREM TypeCorrect == Spec => []TypeOK
  BY TypeInit, TypeNext, PTL DEF Spec

-----------------------------------------------------------------------------
(* The inductive strengthening of NoSleepWithWork                          *)

(* A submission that is not published is remembered by sync_now; at the    *)
(* start, sync_now has to survive until the accepts have been pushed.      *)
SyncRemembered ==
  /\ sqLocal # <<>> => sync_now
  /\ pc \in {"boot", "arm"} \/ (InSystemCall /\ then = "arm") => sync_now

(* An occupied output slot belongs to a client with a descriptor, so that  *)
(* wideband_send skips none.                                               *)
SlotsHaveClients == \A i \in out : client_fds[i] # NoFd

(* The worker comes to the top of its loop with its batch processed, which *)
(* is why the first cq.is_empty() of an iteration is always true.          *)
Releasing == pc \in {"relPush", "relClear"} \/ (InSystemCall /\ then \in {"relPush", "relClear"})
BatchDone ==
  /\ pc \in {"boot", "arm", "reserve", "top"} => cqLocal = <<>>
  /\ InSystemCall /\ then \in {"arm", "reserve", "wait"} => cqLocal = <<>>
  /\ Releasing /\ back = "top" => cqLocal = <<>>

SleepInv == SyncRemembered /\ SlotsHaveClients /\ BatchDone /\ NoSleepWithWork

LEMMA SleepInit == Init => SleepInv
  BY DEF Init, ServerInit, KernelInit, InitialSync, SleepInv, SyncRemembered, SlotsHaveClients,
     BatchDone, Releasing, NoSleepWithWork, InSystemCall

(* Neither the kernel nor a peer touches what the invariant speaks of.     *)
LEMMA QuietSleep ==
  ASSUME SleepInv, UNCHANGED <<serverVars, sqLocal, cqLocal>>
  PROVE  SleepInv'
  BY DEF SleepInv, SyncRemembered, SlotsHaveClients, BatchDone, Releasing, NoSleepWithWork,
     InSystemCall, Pending, serverVars, tableVars

LEMMA ExecuteSleep ==
  ASSUME SleepInv, Execute
  PROVE  SleepInv'
<1>1. UNCHANGED <<sqLocal, cqLocal>>
  BY DEF Execute, ExecProvide, ExecAccept, ExecArm, ExecSend, TakeSqe
<1>2. /\ pc \in {"enter", "inside"} /\ pc' = "inside"
      /\ UNCHANGED <<then, back, out, client_fds, lakes, sync_now>>
  BY DEF Execute, tableVars
<1>3. QED
  BY <1>1, <1>2 DEF SleepInv, SyncRemembered, SlotsHaveClients, BatchDone, Releasing,
     NoSleepWithWork, InSystemCall, Pending

(* wideband_send empties every slot and the sync that follows publishes    *)
(* all that was pushed, before the worker may go to sleep.                 *)
LEMMA LoopTopSleep ==
  ASSUME TypeOK, SleepInv, LoopTop
  PROVE  SleepInv'
<1>1. PICK ids \in InIdOrder(Sendable) : Flush([i \in DOMAIN ids |-> SendEntry(ids[i])])
  BY DEF LoopTop
<1>2. sqLocal' = <<>>
  BY <1>1 DEF Flush, FlushNow, PushAndSync, SleepInv, SyncRemembered
<1>3. SlotsHaveClients'
  BY DEF LoopTop, tableVars, SleepInv, SlotsHaveClients
<1>4. Pending' = {}
  <2>1. Sendable = Pending
    BY DEF Sendable, Pending, SleepInv, SlotsHaveClients
  <2>2. out' = out /\ out \subseteq Ids /\ lakes \in [Ids -> Lakes]
    BY DEF LoopTop, tableVars, TypeOK, ServerTypeOK
  <2>3. lakes' = [i \in Ids |-> IF i \in Pending THEN [lakes[i] EXCEPT !.pos = 0] ELSE lakes[i]]
    BY <1>1, <2>1 DEF Flush, LakesFlushed
  <2>4. \A i \in out : lakes'[i].pos = 0
    BY <2>2, <2>3 DEF Pending, Lakes
  <2>5. QED
    BY <2>2, <2>4 DEF Pending
<1>5. /\ pc' \in {"enter", "drain"}
      /\ pc' = "enter" => then' \in {"wait", "drain"}
      /\ pc' = "enter" /\ then' = "wait" => cqLocal' = <<>>
  BY DEF LoopTop, Submit
<1>6. QED
  BY <1>2, <1>3, <1>4, <1>5
  DEF SleepInv, SyncRemembered, BatchDone, Releasing, NoSleepWithWork, InSystemCall

(* A step whose control state afterwards is not the loop's own wait.       *)
LEMMA AwakeSleep ==
  ASSUME SyncRemembered', SlotsHaveClients', BatchDone', ~(InSystemCall' /\ then' = "wait")
  PROVE  SleepInv'
  BY DEF SleepInv, NoSleepWithWork

LEMMA StartSleep ==
  ASSUME TypeOK, SleepInv, register_buffers \/ start_accepts \/ reserve_writes_buffer
  PROVE  SleepInv'
<1>1. CASE register_buffers
  BY <1>1, AwakeSleep DEF register_buffers, PushAndSync, Submit, tableVars, SleepInv,
     SyncRemembered, SlotsHaveClients, BatchDone, Releasing, InSystemCall
<1>2. CASE start_accepts
  BY <1>2, AwakeSleep DEF start_accepts, Submit, tableVars, SleepInv, SyncRemembered,
     SlotsHaveClients, BatchDone, Releasing, InSystemCall
<1>3. CASE reserve_writes_buffer
  <2>1. SlotsHaveClients'
    BY <1>3, ReactorAssumption DEF reserve_writes_buffer, SleepInv, SlotsHaveClients, NoFd,
       TypeOK, ServerTypeOK
  <2>2. SyncRemembered' /\ BatchDone' /\ ~InSystemCall'
    BY <1>3 DEF reserve_writes_buffer, kernelVars, ringVars, SleepInv, SyncRemembered,
       BatchDone, Releasing, InSystemCall
  <2>3. QED
    BY <2>1, <2>2, AwakeSleep
<1>4. QED
  BY <1>1, <1>2, <1>3

LEMMA ControlSleep ==
  ASSUME TypeOK, SleepInv,
         \/ wideband_send_panics \/ Return \/ EnterFails \/ release_clear \/ EndOfBatch
  PROVE  SleepInv'
<1>1. UNCHANGED <<sqLocal, cqLocal, out, client_fds, sync_now>>
  BY DEF wideband_send_panics, Return, EnterFails, release_clear, EndOfBatch, kernelVars,
     ringVars, tableVars
<1>2. SlotsHaveClients'
  BY <1>1 DEF SleepInv, SlotsHaveClients
<1>3. /\ SyncRemembered' /\ BatchDone'
      /\ ~(InSystemCall' /\ then' = "wait")
  <2>1. CASE wideband_send_panics
    BY <1>1, <2>1 DEF wideband_send_panics, SleepInv, SyncRemembered, BatchDone, Releasing,
       InSystemCall
  <2>2. CASE Return
    BY <1>1, <2>2 DEF Return, SleepInv, SyncRemembered, BatchDone, Releasing, InSystemCall,
       TypeOK, ServerTypeOK
  <2>3. CASE EnterFails
    BY <1>1, <2>3 DEF EnterFails, SleepInv, SyncRemembered, BatchDone, Releasing, InSystemCall
  <2>4. CASE release_clear
    BY <1>1, <2>4 DEF release_clear, SleepInv, SyncRemembered, BatchDone, Releasing,
       InSystemCall, TypeOK, ServerTypeOK
  <2>5. CASE EndOfBatch
    BY <1>1, <2>5 DEF EndOfBatch, release_buffers, Submit, SleepInv, SyncRemembered, BatchDone,
       Releasing, InSystemCall
  <2>6. QED
    BY <2>1, <2>2, <2>3, <2>4, <2>5
<1>4. QED
  BY <1>2, <1>3, AwakeSleep

LEMMA ReleasePushSleep ==
  ASSUME SleepInv, release_push
  PROVE  SleepInv'
  BY AwakeSleep DEF release_push, PushAndSync, Submit, tableVars, SleepInv, SyncRemembered,
     SlotsHaveClients, BatchDone, Releasing, InSystemCall

LEMMA RestartSleep ==
  ASSUME SleepInv, Restart
  PROVE  SleepInv'
  BY AwakeSleep DEF Restart, KernelReset, InitialSync, SyncRemembered, SlotsHaveClients,
     BatchDone, Releasing, InSystemCall

(* A completion is processed in the batch: the worker stays there, dies or *)
(* goes to release buffers and comes back.                                 *)
LEMMA EntrySleep ==
  ASSUME TypeOK, SleepInv, process_entry
  PROVE  SleepInv'
<1>1. /\ pc = "drain"
      /\ \/ pc' \in {"drain", "aborted"}
         \/ pc' = "enter" /\ then' = "relPush" /\ back' = "drain"
  BY DEF process_entry, process_ignored, accept_panics, process_entry_accept,
     process_no_buffers, close_connection, request_reply, ubdma, release_buffers, Submit,
     Next_cqe, serverVars
<1>2. BatchDone' /\ ~(InSystemCall' /\ then' = "wait")
  BY <1>1 DEF BatchDone, Releasing, InSystemCall
<1>3. SyncRemembered'
  <2>1. \/ sqLocal' = sqLocal /\ (sync_now => sync_now')
        \/ sync_now'
    BY DEF process_entry, process_ignored, accept_panics, process_entry_accept,
       process_no_buffers, close_connection, request_reply, ubdma, serverVars
  <2>2. QED
    BY <1>1, <2>1 DEF SleepInv, SyncRemembered, InSystemCall
<1>4. SlotsHaveClients'
  <2>1. CASE process_entry_accept
    <3>1. next_id \in Ids /\ Entry.arg \in Fds
      BY <2>1, EntryType, CqeKinds, KernelAssumption
      DEF process_entry_accept, RoomForClient, Ids, TypeOK, ServerTypeOK
    <3>2. client_fds' = [client_fds EXCEPT ![next_id] = Entry.arg]
      BY <2>1 DEF process_entry_accept, PushIndex
    <3>3. out' = out \cup {next_id}
      BY <2>1 DEF process_entry_accept, PushIndex
    <3>4. Entry.arg # NoFd
      BY <3>1, KernelAssumption DEF NoFd
    <3>5. QED
      BY <3>1, <3>2, <3>3, <3>4 DEF SleepInv, SlotsHaveClients, TypeOK, ServerTypeOK
  <2>2. CASE close_connection
    BY <2>2 DEF close_connection, SlotRemoved, SleepInv, SlotsHaveClients, TypeOK, ServerTypeOK
  <2>3. CASE ~process_entry_accept /\ ~close_connection
    <3>1. UNCHANGED <<out, client_fds>>
      BY <2>3 DEF process_entry, process_ignored, accept_panics, process_no_buffers,
         request_reply, ubdma, serverVars, tableVars
    <3>2. QED
      BY <3>1 DEF SleepInv, SlotsHaveClients
  <2>4. QED
    BY <2>1, <2>2, <2>3
<1>5. QED
  BY <1>2, <1>3, <1>4, AwakeSleep

LEMMA SleepNext == TypeOK /\ SleepInv /\ [Next]_vars => SleepInv'
<1> SUFFICES ASSUME TypeOK, SleepInv, [Next]_vars
             PROVE  SleepInv'
  OBVIOUS
<1>1. CASE Worker
  BY <1>1, StartSleep, LoopTopSleep, ExecuteSleep, ControlSleep, ReleasePushSleep,
     RestartSleep, EntrySleep
  DEF Worker
<1>2. CASE EnterFails
  BY <1>2, ControlSleep
<1>3. CASE \E c \in Conns : Environment(c)
  <2>1. PICK c \in Conns : Environment(c)
    BY <1>3
  <2>2. UNCHANGED <<serverVars, sqLocal, cqLocal>>
    BY <2>1 DEF Environment, KernelAccept, KernelRecv, KernelPoll, PeerConnect, PeerSend,
       PeerLeave, ringVars
  <2>3. QED
    BY <2>2, QuietSleep
<1>4. CASE UNCHANGED vars
  BY <1>4, QuietSleep DEF vars, kernelVars, ringVars
<1>5. QED
  BY <1>1, <1>2, <1>3, <1>4 DEF Next, Rest

(* The worker never sleeps in submit_and_wait(1) with work of its own left *)
(* to do: an unpublished submission, an unprocessed completion or an       *)
(* unsent response (the sync_now protocol of sq_poll, wideband_send and    *)
(* process_entry_accept).                                                  *)
THEOREM NeverSleepsWithWork == Spec => []NoSleepWithWork
<1>1. SleepInv => NoSleepWithWork
  BY DEF SleepInv
<1>2. QED
  BY <1>1, TypeInit, TypeNext, SleepInit, SleepNext, PTL DEF Spec

(* The first cq.is_empty() of an iteration of sq_poll is always true: each *)
(* iteration begins by sending what the last batch has produced.           *)
THEOREM LoopStartsDrained == Spec => [](pc = "top" => CqIsEmpty)
<1>1. SleepInv => (pc = "top" => CqIsEmpty)
  BY DEF SleepInv, BatchDone, CqIsEmpty
<1>2. QED
  BY <1>1, TypeInit, TypeNext, SleepInit, SleepNext, PTL DEF Spec
=============================================================================
