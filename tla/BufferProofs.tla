---------------------------- MODULE BufferProofs ----------------------------
(***************************************************************************)
(* The receive buffers of a worker, for every number of buffers, clients   *)
(* and connections, every ring size and every mode: no buffer is lost or   *)
(* in two hands (BufferOwnedOnce), and the reactor implements the buffer   *)
(* cycle of module BufferPool (BufferProtocol).                            *)
(***************************************************************************)
EXTENDS ReactorProofs

-----------------------------------------------------------------------------
(* Elements of a set S in a sequence s: is there one, is there only one?   *)

Has(s, S) == \E i \in DOMAIN s : s[i] \in S
Once(s, S) == \A i, j \in DOMAIN s : s[i] \in S /\ s[j] \in S => i = j

LEMMA EmptyHas == \A S : ~Has(<<>>, S) /\ Once(<<>>, S)
BY DEF Has, Once

(* What is pushed comes on top of what is there.                           *)
LEMMA ConcatHas ==
  ASSUME NEW T, NEW s \in Seq(T), NEW t \in Seq(T), NEW S
  PROVE  /\ Has(s \o t, S) <=> Has(s, S) \/ Has(t, S)
         /\ Once(s, S) /\ Once(t, S) /\ ~(Has(s, S) /\ Has(t, S)) => Once(s \o t, S)
<1> DEFINE u == s \o t
<1>1. /\ Len(s) \in Nat /\ Len(t) \in Nat /\ DOMAIN s = 1 .. Len(s) /\ DOMAIN t = 1 .. Len(t)
      /\ DOMAIN u = 1 .. Len(s) + Len(t)
      /\ \A i \in DOMAIN s : i \in DOMAIN u /\ u[i] = s[i]
      /\ \A i \in DOMAIN t : Len(s) + i \in DOMAIN u /\ u[Len(s) + i] = t[i]
  OBVIOUS
<1>2. \A k \in DOMAIN u : \/ k \in DOMAIN s /\ u[k] = s[k]
                          \/ k - Len(s) \in DOMAIN t /\ u[k] = t[k - Len(s)]
  OBVIOUS
<1> HIDE DEF u
<1>3. Has(u, S) <=> Has(s, S) \/ Has(t, S)
  BY <1>1, <1>2 DEF Has
<1>4. ASSUME Once(s, S), Once(t, S), ~(Has(s, S) /\ Has(t, S))
      PROVE  Once(u, S)
  <2> SUFFICES ASSUME NEW i \in DOMAIN u, NEW j \in DOMAIN u, u[i] \in S, u[j] \in S
               PROVE  i = j
    BY DEF Once
  <2>1. CASE Has(t, S)
    <3>1. i - Len(s) \in DOMAIN t /\ j - Len(s) \in DOMAIN t
          /\ u[i] = t[i - Len(s)] /\ u[j] = t[j - Len(s)]
      BY <1>2, <1>4, <2>1 DEF Has
    <3>2. i - Len(s) = j - Len(s)
      BY <1>4, <3>1 DEF Once
    <3> QED
      BY <1>1, <3>2
  <2>2. CASE ~Has(t, S)
    BY <1>2, <1>4, <2>2 DEF Has, Once
  <2> QED
    BY <2>1, <2>2
<1> QED
  BY <1>3, <1>4 DEF u

(* A singleton.                                                            *)
LEMMA OneHas ==
  ASSUME NEW e, NEW S
  PROVE  /\ Has(<<e>>, S) <=> e \in S
         /\ Once(<<e>>, S)
BY DEF Has, Once

LEMMA AppendHas ==
  ASSUME NEW T, NEW s \in Seq(T), NEW e \in T, NEW S
  PROVE  /\ Has(Append(s, e), S) <=> Has(s, S) \/ e \in S
         /\ Once(s, S) /\ ~(Has(s, S) /\ e \in S) => Once(Append(s, e), S)
<1>1. <<e>> \in Seq(T)
  OBVIOUS
<1>2. Append(s, e) = s \o <<e>>
  BY AppendIsConcat
<1>3. /\ Has(s \o <<e>>, S) <=> Has(s, S) \/ Has(<<e>>, S)
      /\ Once(s, S) /\ Once(<<e>>, S) /\ ~(Has(s, S) /\ Has(<<e>>, S)) => Once(s \o <<e>>, S)
  BY <1>1, ConcatHas
<1>4. Once(<<e>>, S) /\ (Has(<<e>>, S) <=> e \in S)
  BY OneHas
<1> QED
  BY <1>2, <1>3, <1>4

(* What is taken from the front was there, and is not there any more.      *)
LEMMA TailHas ==
  ASSUME NEW T, NEW s \in Seq(T), s # <<>>, NEW S
  PROVE  /\ Has(s, S) <=> Head(s) \in S \/ Has(Tail(s), S)
         /\ Once(s, S) => Once(Tail(s), S) /\ ~(Head(s) \in S /\ Has(Tail(s), S))
<1> DEFINE u == Tail(s)
<1>1. /\ Len(s) \in Nat \ {0} /\ DOMAIN s = 1 .. Len(s) /\ DOMAIN u = 1 .. Len(s) - 1
      /\ Head(s) = s[1] /\ \A i \in DOMAIN u : u[i] = s[i + 1]
  OBVIOUS
<1> HIDE DEF u
<1>2. 1 \in DOMAIN s /\ \A i \in DOMAIN u : i + 1 \in DOMAIN s /\ i + 1 # 1
  BY <1>1
<1>3. \A k \in DOMAIN s : k = 1 \/ (k - 1 \in DOMAIN u /\ s[k] = u[k - 1])
  BY <1>1
<1>4. Has(s, S) <=> Head(s) \in S \/ Has(u, S)
  BY <1>1, <1>2, <1>3 DEF Has
<1>5. ASSUME Once(s, S) PROVE Once(u, S)
  <2> SUFFICES ASSUME NEW i \in DOMAIN u, NEW j \in DOMAIN u, u[i] \in S, u[j] \in S
               PROVE  i = j
    BY DEF Once
  <2>1. i + 1 = j + 1
    BY <1>1, <1>2, <1>5 DEF Once
  <2> QED
    BY <1>1, <2>1
<1>6. ASSUME Once(s, S), Head(s) \in S, Has(u, S) PROVE FALSE
  BY <1>1, <1>2, <1>6 DEF Once, Has
<1> QED
  BY <1>4, <1>5, <1>6 DEF u

(* How many there are, when there is at most one.                          *)
LEMMA OnceCount ==
  ASSUME NEW s, NEW S, Once(s, S)
  PROVE  /\ Has(s, S) => Cardinality({i \in DOMAIN s : s[i] \in S}) = 1
         /\ ~Has(s, S) => Cardinality({i \in DOMAIN s : s[i] \in S}) = 0
<1> DEFINE A == {i \in DOMAIN s : s[i] \in S}
<1>1. CASE Has(s, S)
  <2>1. PICK i \in DOMAIN s : s[i] \in S
    BY <1>1 DEF Has
  <2>2. A = {i}
    BY <2>1 DEF Once
  <2> QED
    BY <1>1, <2>2, FS_Singleton
<1>2. CASE ~Has(s, S)
  <2>1. A = {}
    BY <1>2 DEF Has
  <2> QED
    BY <1>2, <2>1, FS_EmptySet
<1> QED
  BY <1>1, <1>2

-----------------------------------------------------------------------------
(* How steps change the two rings                                          *)

LEMMA Rings ==
  ASSUME TypeOK
  PROVE  /\ sqShared \in Seq(SQE) /\ sqLocal \in Seq(SQE) /\ Queued \in Seq(SQE)
         /\ cqLocal \in Seq(CQE) /\ cqShared \in Seq(CQE) /\ Completed \in Seq(CQE)
BY ConcatProperties DEF TypeOK, KernelTypeOK, Queued, Completed

(* sq.sync() publishes; nothing overtakes.                                 *)
LEMMA QueuedPush ==
  ASSUME TypeOK, NEW es \in Seq(SQE), PushAndSync(es)
  PROVE  Queued' = Queued \o es
<1>1. sqShared' = sqShared \o sqLocal \o es /\ sqLocal' = <<>>
  BY DEF PushAndSync
<1>2. sqShared \o sqLocal \o es \in Seq(SQE)
  BY Rings, ConcatProperties
<1> QED
  BY <1>1, <1>2, ConcatEmptySeq DEF Queued

LEMMA QueuedGrows ==
  ASSUME TypeOK, NEW es \in Seq(SQE), sqShared' = sqShared, sqLocal' = sqLocal \o es
  PROVE  Queued' = Queued \o es
<1>1. sqShared \in Seq(SQE) /\ sqLocal \in Seq(SQE)
  BY Rings
<1>2. (sqShared \o sqLocal) \o es = sqShared \o (sqLocal \o es)
  BY <1>1, ConcatAssociative, SMTT(30)
<1> QED
  BY <1>2 DEF Queued

(* Taking from the front of two queues in a row.                           *)
LEMMA TailConcat ==
  ASSUME NEW T, NEW s \in Seq(T), NEW t \in Seq(T), s # <<>>
  PROVE  /\ s \o t # <<>> /\ Head(s \o t) = Head(s)
         /\ Tail(s \o t) = Tail(s) \o t
<1> DEFINE u == Tail(s \o t)
           v == Tail(s) \o t
<1>1. Len(s) \in Nat \ {0} /\ Len(t) \in Nat /\ s \o t \in Seq(T)
  OBVIOUS
<1>2. s \o t # <<>> /\ Head(s \o t) = Head(s)
  OBVIOUS
<1>3. /\ Tail(s) \in Seq(T) /\ Len(Tail(s)) = Len(s) - 1
      /\ \A k \in 1 .. Len(s) - 1 : Tail(s)[k] = s[k + 1]
  OBVIOUS
<1>4. /\ v \in Seq(T) /\ Len(v) = Len(s) - 1 + Len(t)
      /\ \A k \in 1 .. Len(s) - 1 + Len(t) :
           v[k] = IF k <= Len(s) - 1 THEN s[k + 1] ELSE t[k - (Len(s) - 1)]
  BY <1>1, <1>3, ConcatProperties
<1>5. /\ u \in Seq(T) /\ Len(u) = Len(s) + Len(t) - 1
      /\ \A k \in 1 .. Len(s) + Len(t) - 1 : u[k] = (s \o t)[k + 1]
  BY <1>1, <1>2, HeadTailProperties, ConcatProperties
<1>6. \A k \in 1 .. Len(s) + Len(t) - 1 : u[k] = v[k]
  BY <1>1, <1>4, <1>5, ConcatProperties
<1>7. u = v
  BY <1>1, <1>4, <1>5, <1>6, SeqEqual
<1> QED
  BY <1>2, <1>7

(* The kernel takes the oldest submission, the worker the oldest           *)
(* completion.                                                             *)
LEMMA QueuedTake ==
  ASSUME TypeOK, sqShared # <<>>, TakeSqe
  PROVE  /\ Queued # <<>> /\ Head(Queued) = Head(sqShared) /\ Head(Queued) \in SQE
         /\ Queued' = Tail(Queued)
<1>1. sqShared \in Seq(SQE) /\ sqLocal \in Seq(SQE)
  BY Rings
<1>2. sqShared' = Tail(sqShared) /\ sqLocal' = sqLocal
  BY DEF TakeSqe
<1>3. Head(sqShared) \in SQE
  BY <1>1, HeadTailProperties
<1> QED
  BY <1>1, <1>2, <1>3, TailConcat DEF Queued

LEMMA CompletedTake ==
  ASSUME TypeOK, Next_cqe, cqShared' = cqShared
  PROVE  /\ Completed # <<>> /\ Head(Completed) = Entry /\ Entry \in CQE
         /\ Completed' = Tail(Completed)
<1>1. cqLocal \in Seq(CQE) /\ cqShared \in Seq(CQE) /\ cqLocal # <<>>
  BY Rings DEF Next_cqe
<1>2. cqLocal' = Tail(cqLocal)
  BY DEF Next_cqe
<1>3. Entry \in CQE
  BY EntryType
<1> QED
  BY <1>1, <1>2, <1>3, TailConcat DEF Completed, Entry

LEMMA CompletedPost ==
  ASSUME TypeOK, NEW e \in CQE, Post(e), cqLocal' = cqLocal
  PROVE  Completed' = Append(Completed, e)
<1>1. cqLocal \in Seq(CQE) /\ cqShared \in Seq(CQE) /\ Completed \in Seq(CQE) /\ <<e>> \in Seq(CQE)
  BY Rings
<1>2. cqShared' = cqShared \o <<e>>
  BY <1>1, AppendIsConcat DEF Post
<1>3. Append(Completed, e) = Completed \o <<e>>
  BY <1>1, AppendIsConcat
<1> QED
  BY <1>1, <1>2, <1>3, ConcatAssociative DEF Completed

-----------------------------------------------------------------------------
(* The places of a buffer                                                  *)

OfferOf(b) == {e \in SQE : e.op = "provide" /\ e.arg = b}
FillOf(b) == {e \in CQE : e.op = "recv" /\ e.res = "ok" /\ e.arg = b}

InRing(b) == Has(Queued, OfferOf(b))
InCqe(b) == Has(Completed, FillOf(b))
Listed(b) == Has(released_buffers, {b})

(* Each kind of place at most once, and one of the four places.            *)
Single(b) ==
  /\ Once(Queued, OfferOf(b)) /\ Once(Completed, FillOf(b))
  /\ ~Reoffered => Once(released_buffers, {b})
Held(b) ==
  \/ InRing(b) /\ ~InCqe(b) /\ b \notin pool /\ (~Reoffered => ~Listed(b))
  \/ ~InRing(b) /\ InCqe(b) /\ b \notin pool /\ (~Reoffered => ~Listed(b))
  \/ ~InRing(b) /\ ~InCqe(b) /\ b \in pool /\ (~Reoffered => ~Listed(b))
  \/ ~InRing(b) /\ ~InCqe(b) /\ b \notin pool /\ ~Reoffered /\ Listed(b)

(* What a step leaves alone in the submission and in the completion ring.  *)
RingQuiet ==
  \A b \in Buffers : /\ InRing(b)' <=> InRing(b)
                     /\ Once(Queued, OfferOf(b)) => Once(Queued, OfferOf(b))'
CqQuiet ==
  \A b \in Buffers : /\ InCqe(b)' <=> InCqe(b)
                     /\ Once(Completed, FillOf(b)) => Once(Completed, FillOf(b))'

LEMMA SameIsQuiet ==
  /\ UNCHANGED <<sqLocal, sqShared>> => RingQuiet
  /\ UNCHANGED <<cqLocal, cqShared>> => CqQuiet
BY DEF RingQuiet, CqQuiet, InRing, InCqe, Queued, Completed, Has, Once

(* Entries other than provides do not matter, nor do completions other     *)
(* than filled buffers.                                                    *)
Bland(es) == \A k \in DOMAIN es : es[k].op # "provide"
IsFill(e) == e.op = "recv" /\ e.res = "ok"

LEMMA PushQuiet ==
  ASSUME TypeOK, NEW es \in Seq(SQE), Bland(es), Queued' = Queued \o es
  PROVE  RingQuiet
<1> SUFFICES ASSUME NEW b \in Buffers
             PROVE  /\ InRing(b)' <=> InRing(b)
                    /\ Once(Queued, OfferOf(b)) => Once(Queued, OfferOf(b))'
  BY DEF RingQuiet
<1>1. ~Has(es, OfferOf(b)) /\ Once(es, OfferOf(b))
  BY DEF Bland, Has, Once, OfferOf
<1>2. Queued \in Seq(SQE)
  BY Rings
<1> QED
  BY <1>1, <1>2, ConcatHas DEF InRing

LEMMA TakeQuiet ==
  ASSUME TypeOK, sqShared # <<>>, TakeSqe, Head(sqShared).op # "provide"
  PROVE  RingQuiet
<1> SUFFICES ASSUME NEW b \in Buffers
             PROVE  /\ InRing(b)' <=> InRing(b)
                    /\ Once(Queued, OfferOf(b)) => Once(Queued, OfferOf(b))'
  BY DEF RingQuiet
<1>1. Queued \in Seq(SQE) /\ Queued # <<>> /\ Queued' = Tail(Queued) /\ Head(Queued).op # "provide"
  BY Rings, QueuedTake
<1>2. Head(Queued) \notin OfferOf(b)
  BY <1>1 DEF OfferOf
<1> QED
  BY <1>1, <1>2, TailHas DEF InRing

LEMMA PostQuiet ==
  ASSUME TypeOK, NEW e \in CQE, Post(e), cqLocal' = cqLocal, ~IsFill(e)
  PROVE  CqQuiet
<1> SUFFICES ASSUME NEW b \in Buffers
             PROVE  /\ InCqe(b)' <=> InCqe(b)
                    /\ Once(Completed, FillOf(b)) => Once(Completed, FillOf(b))'
  BY DEF CqQuiet
<1>1. Completed \in Seq(CQE) /\ Completed' = Append(Completed, e) /\ e \notin FillOf(b)
  BY Rings, CompletedPost DEF FillOf, IsFill
<1> QED
  BY <1>1, AppendHas DEF InCqe

LEMMA EntryQuiet ==
  ASSUME TypeOK, Next_cqe, cqShared' = cqShared, ~IsFill(Entry)
  PROVE  CqQuiet
<1> SUFFICES ASSUME NEW b \in Buffers
             PROVE  /\ InCqe(b)' <=> InCqe(b)
                    /\ Once(Completed, FillOf(b)) => Once(Completed, FillOf(b))'
  BY DEF CqQuiet
<1>1. /\ Completed \in Seq(CQE) /\ Completed # <<>> /\ Completed' = Tail(Completed)
      /\ Head(Completed) \notin FillOf(b)
  BY Rings, CompletedTake DEF FillOf, IsFill
<1> QED
  BY <1>1, TailHas DEF InCqe

-----------------------------------------------------------------------------
(* Most steps move no buffer                                               *)

Quiet == RingQuiet /\ CqQuiet /\ pool' = pool

LEMMA StartQuiet ==
  ASSUME TypeOK, start_accepts \/ reserve_writes_buffer
  PROVE  Quiet
<1>1. CASE start_accepts
  <2> DEFINE es == [k \in 1 .. AcceptMulti |-> accept_multi]
  <2>1. es \in Seq(SQE) /\ Bland(es)
    BY SqeTypes, ReactorAssumption DEF accept_multi, Bland, Sqe
  <2>2. sqLocal' = sqLocal \o es /\ sqShared' = sqShared
    BY <1>1 DEF start_accepts
  <2> HIDE DEF es
  <2>3. Queued' = Queued \o es
    BY <2>1, <2>2, QueuedGrows
  <2>4. UNCHANGED <<cqLocal, cqShared, pool>>
    BY <1>1 DEF start_accepts, bufVars
  <2> QED
    BY <2>1, <2>3, <2>4, PushQuiet, SameIsQuiet DEF Quiet
<1>2. CASE reserve_writes_buffer
  BY <1>2, SameIsQuiet DEF reserve_writes_buffer, kernelVars, ringVars, bufVars, Quiet
<1> QED
  BY <1>1, <1>2

(* wideband_send queues sends only; cq.sync() moves no entry.              *)
LEMMA SendsBland ==
  ASSUME TypeOK, ~Overrun, NEW ids \in InIdOrder(Sendable)
  PROVE  Bland([k \in DOMAIN ids |-> SendEntry(ids[k])])
BY DEF Bland, SendEntry, send, Sqe

LEMMA LoopTopQuiet ==
  ASSUME TypeOK, LoopTop
  PROVE  Quiet
<1>1. PICK ids \in InIdOrder(Sendable) : Flush([k \in DOMAIN ids |-> SendEntry(ids[k])])
  BY DEF LoopTop
<1> DEFINE es == [k \in DOMAIN ids |-> SendEntry(ids[k])]
<1>2. es \in Seq(SQE) /\ Bland(es)
  BY SendsType, SendsBland DEF LoopTop
<1> HIDE DEF es
<1>3. RingQuiet
  <2>1. CASE FlushNow
    BY <1>1, <1>2, <2>1, QueuedPush, PushQuiet DEF Flush, es
  <2>2. CASE ~FlushNow
    BY <1>1, <2>2, SameIsQuiet DEF Flush
  <2> QED
    BY <2>1, <2>2
<1>4. Completed' = Completed
  <2>1. cqLocal = <<>> /\ cqLocal' = cqShared /\ cqShared' = <<>>
    BY DEF LoopTop, CqIsEmpty
  <2> QED
    BY <2>1, Rings, ConcatEmptySeq DEF Completed
<1>5. CqQuiet
  BY <1>4 DEF CqQuiet, InCqe, Has, Once
<1> QED
  BY <1>3, <1>5 DEF Quiet, LoopTop, bufVars

LEMMA ExecQuiet ==
  ASSUME TypeOK, Execute, ~ExecProvide
  PROVE  Quiet
<1>1. sqShared # <<>> /\ Head(sqShared) \in SQE
  BY Rings, HeadTailProperties DEF Execute
<1>2. CASE ExecAccept
  BY <1>1, <1>2, TakeQuiet, SameIsQuiet DEF ExecAccept, TakeSqe, bufVars, Quiet
<1>3. CASE ExecArm
  <2> DEFINE e == Head(sqShared)
  <2>1. e.op \in {"recv", "poll"} /\ e.id \in Ids /\ TakeSqe /\ pool' = pool
    BY <1>1, <1>3, SqeKinds DEF ExecArm, bufVars
  <2>2. Cqe(e.op, e.id, "EBADF", NoBuf) \in CQE /\ ~IsFill(Cqe(e.op, e.id, "EBADF", NoBuf))
    BY <2>1, CqeTypes DEF Failures, IsFill, Cqe
  <2>3. cqLocal' = cqLocal /\ (Post(Cqe(e.op, e.id, "EBADF", NoBuf)) \/ cqShared' = cqShared)
    BY <1>3 DEF ExecArm, TakeSqe
  <2>4. CqQuiet
    BY <2>2, <2>3, PostQuiet, SameIsQuiet
  <2> QED
    BY <1>1, <2>1, <2>4, TakeQuiet DEF Quiet
<1>4. CASE ExecSend(lakes)
  <2> DEFINE e == Head(sqShared)
  <2>1. e.op = "send" /\ e.id \in Ids /\ TakeSqe /\ pool' = pool
    BY <1>1, <1>4, SqeKinds DEF ExecSend, bufVars
  <2>2. \A res \in Failures : Cqe("send", e.id, res, NoBuf) \in CQE
                              /\ ~IsFill(Cqe("send", e.id, res, NoBuf))
    BY <2>1, CqeTypes DEF IsFill, Cqe
  <2>3. SocketError(Target(e)) \in Failures
    BY DEF SocketError, Failures
  <2>4. \/ \E res \in Failures : Post(Cqe("send", e.id, res, NoBuf))
        \/ cqShared' = cqShared
    BY <1>4, <2>3 DEF ExecSend, Failures
  <2>5. CqQuiet
    BY <2>1, <2>2, <2>4, PostQuiet, SameIsQuiet DEF TakeSqe
  <2> QED
    BY <1>1, <2>1, <2>5, TakeQuiet DEF Quiet
<1> QED
  BY <1>2, <1>3, <1>4 DEF Execute

LEMMA ControlQuiet ==
  ASSUME \/ wideband_send_panics \/ Return \/ EnterFails \/ release_clear \/ EndOfBatch
         \/ UNCHANGED vars
  PROVE  Quiet
<1>1. UNCHANGED kernelVars
  BY DEF wideband_send_panics, Return, EnterFails, release_clear, EndOfBatch, vars
<1> QED
  BY <1>1, SameIsQuiet DEF kernelVars, ringVars, bufVars, Quiet

(* A receive is armed for a new client, after the poll in ubdma mode.      *)
LEMMA AcceptPushes ==
  ASSUME TypeOK, process_entry_accept
  PROVE  \E es \in Seq(SQE) :
           /\ Queued' = Queued \o es
           /\ \A k \in DOMAIN es : /\ es[k].op \in {"recv", "poll"}
                                   /\ es[k].id = next_id /\ es[k].fd = Entry.arg
<1> DEFINE fd == Entry.arg
           id == next_id
           polled == IF HasRoom(1) THEN poll_add(id, fd) ELSE <<>>
           Mine(es) == \A k \in DOMAIN es : /\ es[k].op \in {"recv", "poll"}
                                            /\ es[k].id = id /\ es[k].fd = fd
<1>1. Next_cqe /\ fd \in Fds
  BY EntryType, CqeKinds DEF process_entry_accept
<1>2. fd \in Nat /\ id \in Ids
  <2>1. next_id < OutCap
    BY DEF process_entry_accept, RoomForClient
  <2> QED
    BY <1>1, <2>1, KernelAssumption DEF Ids, TypeOK, ServerTypeOK
<1>3. /\ recv_multi(id, fd) \in Seq(SQE) /\ poll_add(id, fd) \in Seq(SQE) /\ <<>> \in Seq(SQE)
      /\ Mine(recv_multi(id, fd)) /\ Mine(poll_add(id, fd)) /\ Mine(<<>>)
  BY <1>2, SqeTypes, EmptySeq DEF recv_multi, poll_add, Sqe
<1>4. polled \in Seq(SQE) /\ Mine(polled)
  BY <1>3
<1>6. CASE ub_kernel_dma
  <2>1. sqShared' = sqShared \o sqLocal \o polled
    BY <1>6 DEF process_entry_accept, PushIndex
  <2>2. sqLocal' \in {recv_multi(id, fd), <<>>}
    BY <1>6 DEF process_entry_accept, PushIndex
  <2> HIDE DEF polled, Mine, recv_multi
  <2>3. sqLocal' \in Seq(SQE) /\ Mine(sqLocal')
    BY <1>3, <2>2
  <2> DEFINE es == polled \o sqLocal'
  <2>4. es \in Seq(SQE) /\ Mine(es)
    BY <1>4, <2>3 DEF Mine
  <2>5. Queued' = Queued \o es
    <3>1. Queued \in Seq(SQE)
      BY Rings
    <3>2. Queued' = (Queued \o polled) \o sqLocal'
      BY <2>1 DEF Queued
    <3> QED
      BY <1>4, <2>3, <3>1, <3>2, ConcatAssociative
  <2> HIDE DEF es
  <2> QED
    BY <2>4, <2>5 DEF Mine
<1>7. CASE ~ub_kernel_dma
  <2>1. sqShared' = sqShared /\ sqLocal' \in {sqLocal \o recv_multi(id, fd), sqLocal}
    BY <1>7 DEF process_entry_accept, PushIndex
  <2> HIDE DEF recv_multi
  <2>2. CASE sqLocal' = sqLocal
    BY <1>3, <2>1, <2>2, Rings, ConcatEmptySeq DEF Queued
  <2>3. CASE sqLocal' = sqLocal \o recv_multi(id, fd)
    BY <1>3, <2>1, <2>3, QueuedGrows
  <2> QED
    BY <2>1, <2>2, <2>3
<1> QED
  BY <1>6, <1>7

LEMMA EntryStepQuiet ==
  ASSUME TypeOK, process_entry, ~request_reply
  PROVE  Quiet
<1>1. Next_cqe /\ cqShared' = cqShared /\ pool' = pool
  BY DEF process_entry, process_ignored, accept_panics, process_entry_accept,
     process_no_buffers, close_connection, ubdma, bufVars
<1>2. Entry \in CQE
  BY <1>1, EntryType
<1>3. ~IsFill(Entry)
  <2>1. IsFill(Entry) => ~(Ignored(Entry) \/ Closes(Entry) \/ Entry.res = "ENOBUFS")
    BY DEF IsFill, Ignored, Closes
  <2> QED
    BY <2>1 DEF process_entry, process_ignored, accept_panics, process_entry_accept,
       process_no_buffers, close_connection, ubdma, IsFill
<1>4. RingQuiet
  <2>1. CASE process_entry_accept
    <3>1. PICK es \in Seq(SQE) : Queued' = Queued \o es /\ Bland(es)
      BY <2>1, AcceptPushes DEF Bland
    <3> QED
      BY <3>1, PushQuiet
  <2>2. CASE ~process_entry_accept
    BY <2>2, SameIsQuiet DEF process_entry, process_ignored, accept_panics,
       process_no_buffers, close_connection, ubdma
  <2> QED
    BY <2>1, <2>2
<1> QED
  BY <1>1, <1>3, <1>4, EntryQuiet DEF Quiet

(* The kernel fills a buffer of its pool, or moves none.                   *)
LEMMA EnvironmentMoves ==
  ASSUME TypeOK, NEW c \in Conns, Environment(c)
  PROVE  \/ Quiet
         \/ /\ RingQuiet
            /\ \E b \in pool : \E e \in FillOf(b) :
                 pool' = pool \ {b} /\ Completed' = Append(Completed, e)
<1>1. CASE PeerConnect(c) \/ PeerSend(c) \/ PeerLeave(c)
  BY <1>1, SameIsQuiet DEF PeerConnect, PeerSend, PeerLeave, ringVars, bufVars, Quiet
<1>2. CASE KernelAccept(c)
  <2>1. PICK e \in CQE : Post(e) /\ ~IsFill(e)
    <3>1. \/ \E f \in Fds : Post(Cqe("accept", NoId, "ok", f))
          \/ Post(Cqe("accept", NoId, "error", NoBuf))
      BY <1>2 DEF KernelAccept
    <3>2. /\ \A f \in Fds : ~IsFill(Cqe("accept", NoId, "ok", f))
          /\ ~IsFill(Cqe("accept", NoId, "error", NoBuf))
      BY DEF IsFill, Cqe
    <3> QED
      BY <3>1, <3>2, CqeTypes
  <2> QED
    BY <1>2, <2>1, PostQuiet, SameIsQuiet DEF KernelAccept, bufVars, Quiet
<1>3. CASE KernelPoll(c)
  <2>1. poll[c] \in Ids
    BY <1>3 DEF KernelPoll, TypeOK, KernelTypeOK
  <2>2. Cqe("poll", poll[c], "ok", NoBuf) \in CQE /\ ~IsFill(Cqe("poll", poll[c], "ok", NoBuf))
    BY <2>1, CqeTypes DEF IsFill, Cqe
  <2> QED
    BY <1>3, <2>2, PostQuiet, SameIsQuiet DEF KernelPoll, bufVars, Quiet
<1>4. CASE KernelRecv(c)
  <2>1. recv[c] \in Ids /\ pool \subseteq Buffers
    BY <1>4 DEF KernelRecv, TypeOK, KernelTypeOK
  <2>2. RingQuiet /\ cqLocal' = cqLocal
    BY <1>4, SameIsQuiet DEF KernelRecv
  <2>3. SocketError(c) \in Failures
    BY DEF SocketError, Failures
  <2>4. \/ \E b \in pool : pool' = pool \ {b} /\ Post(Cqe("recv", recv[c], "ok", b))
        \/ pool' = pool /\ \E res \in Failures : Post(Cqe("recv", recv[c], res, NoBuf))
    BY <1>4, <2>3 DEF KernelRecv, Failures
  <2>5. CASE pool' = pool /\ \E res \in Failures : Post(Cqe("recv", recv[c], res, NoBuf))
    <3>1. PICK res \in Failures : Post(Cqe("recv", recv[c], res, NoBuf))
      BY <2>5
    <3>2. Cqe("recv", recv[c], res, NoBuf) \in CQE /\ ~IsFill(Cqe("recv", recv[c], res, NoBuf))
      BY <2>1, CqeTypes DEF IsFill, Cqe, Failures
    <3> QED
      BY <2>2, <2>5, <3>1, <3>2, PostQuiet DEF Quiet
  <2>6. ASSUME NEW b \in pool, pool' = pool \ {b}, Post(Cqe("recv", recv[c], "ok", b))
        PROVE  \E e \in FillOf(b) : Completed' = Append(Completed, e)
    <3>1. Cqe("recv", recv[c], "ok", b) \in CQE
      BY <2>1, CqeTypes
    <3>2. Cqe("recv", recv[c], "ok", b) \in FillOf(b)
      BY <3>1 DEF FillOf, Cqe
    <3> QED
      BY <2>2, <2>6, <3>1, <3>2, CompletedPost
  <2> QED
    BY <2>2, <2>4, <2>5, <2>6
<1> QED
  BY <1>1, <1>2, <1>3, <1>4 DEF Environment

-----------------------------------------------------------------------------
(* The inductive invariant                                                 *)

HeldOnce == pc \notin {"boot", "failed", "aborted"} => \A b \in Buffers : Single(b) /\ Held(b)

(* Before the buffers are registered nothing can happen to them.           *)
BootClean ==
  pc = "boot" =>
    /\ sqLocal = <<>> /\ sqShared = <<>> /\ cqLocal = <<>> /\ cqShared = <<>>
    /\ pool = {} /\ released_buffers = <<>> /\ accepts = 0
    /\ \A c \in Conns : recv[c] = NoId /\ poll[c] = NoId

(* Provides are published by the call that pushes them, and executed by    *)
(* the io_uring_enter that follows, before anything else is pushed.        *)
Offering == InSystemCall /\ then \in {"arm", "relClear"}
OneBatch == Bland(sqLocal) /\ (Alive /\ ~Offering => Bland(sqShared))

BufInv == HeldOnce /\ BootClean /\ OneBatch

(* A step that moves no buffer and leaves the list, and what it means.     *)
LEMMA QuietHolds ==
  ASSUME HeldOnce, Quiet, released_buffers' = released_buffers,
         pc' \notin {"boot", "failed", "aborted"} =>
           /\ pc \notin {"boot", "failed", "aborted"}
           /\ Reoffered' <=> Reoffered
  PROVE  HeldOnce'
<1> SUFFICES ASSUME pc' \notin {"boot", "failed", "aborted"}, NEW b \in Buffers
             PROVE  Single(b)' /\ Held(b)'
  BY DEF HeldOnce
<1>1. Single(b) /\ Held(b) /\ (Reoffered' <=> Reoffered)
  BY DEF HeldOnce
<1>2. /\ InRing(b)' <=> InRing(b)
      /\ InCqe(b)' <=> InCqe(b)
      /\ b \in pool' <=> b \in pool
      /\ Listed(b)' <=> Listed(b)
      /\ Once(released_buffers, {b})' <=> Once(released_buffers, {b})
      /\ Once(Queued, OfferOf(b)) => Once(Queued, OfferOf(b))'
      /\ Once(Completed, FillOf(b)) => Once(Completed, FillOf(b))'
  BY DEF Quiet, RingQuiet, CqQuiet, Listed, Has, Once
<1>3. Single(b)'
  BY <1>1, <1>2 DEF Single
<1>4. Held(b)'
  BY <1>1, <1>2 DEF Held
<1> QED
  BY <1>3, <1>4

(* The provides of a list of buffers put exactly these into the ring.      *)
LEMMA ProvidesPlaces ==
  ASSUME NEW bs \in Seq(Buffers), NEW b \in Buffers
  PROVE  /\ Provides(bs) \in Seq(SQE)
         /\ Has(Provides(bs), OfferOf(b)) <=> Has(bs, {b})
         /\ Once(Provides(bs), OfferOf(b)) <=> Once(bs, {b})
<1> DEFINE ps == Provides(bs)
<1>1. ps \in Seq(SQE)
  BY ProvidesType
<1>2. DOMAIN ps = DOMAIN bs
  BY DEF Provides
<1>3. \A k \in DOMAIN ps : ps[k] \in SQE /\ ps[k].op = "provide" /\ ps[k].arg = bs[k]
  BY <1>1, <1>2 DEF Provides, provide_buffer, Sqe
<1>4. \A k \in DOMAIN ps : ps[k] \in OfferOf(b) <=> bs[k] \in {b}
  BY <1>3 DEF OfferOf
<1> QED
  BY <1>1, <1>2, <1>4 DEF Has, Once

-----------------------------------------------------------------------------
(* Every step keeps the invariant                                          *)

LEMMA BufInit == Init => BufInv
BY EmptySeq DEF Init, ServerInit, KernelInit, BufInv, HeldOnce, BootClean, OneBatch, Bland

LEMMA BlandConcat ==
  ASSUME NEW s \in Seq(SQE), NEW t \in Seq(SQE), Bland(s), Bland(t)
  PROVE  Bland(s \o t)
<1> SUFFICES ASSUME NEW k \in DOMAIN (s \o t)
             PROVE  (s \o t)[k].op # "provide"
  BY DEF Bland
<1>1. \/ k \in DOMAIN s /\ (s \o t)[k] = s[k]
      \/ k - Len(s) \in DOMAIN t /\ (s \o t)[k] = t[k - Len(s)]
  OBVIOUS
<1> QED
  BY <1>1 DEF Bland

LEMMA BlandParts ==
  ASSUME NEW s \in Seq(SQE), NEW t \in Seq(SQE), Bland(s \o t)
  PROVE  Bland(s) /\ Bland(t)
<1>1. /\ \A k \in DOMAIN s : k \in DOMAIN (s \o t) /\ (s \o t)[k] = s[k]
      /\ \A k \in DOMAIN t : Len(s) + k \in DOMAIN (s \o t) /\ (s \o t)[Len(s) + k] = t[k]
  OBVIOUS
<1> QED
  BY <1>1 DEF Bland

LEMMA BlandTail ==
  ASSUME NEW s \in Seq(SQE), s # <<>>, Bland(s)
  PROVE  Bland(Tail(s)) /\ Head(s).op # "provide"
<1>1. /\ Head(s) = s[1] /\ 1 \in DOMAIN s
      /\ \A k \in DOMAIN Tail(s) : k + 1 \in DOMAIN s /\ Tail(s)[k] = s[k + 1]
  OBVIOUS
<1> QED
  BY <1>1 DEF Bland

(* The ring holds no provide when its queues hold none.                    *)
LEMMA BlandIsEmpty ==
  ASSUME TypeOK, Bland(sqLocal), Bland(sqShared), NEW b \in Buffers
  PROVE  ~InRing(b) /\ Once(Queued, OfferOf(b))
<1>1. Bland(Queued)
  BY Rings, BlandConcat DEF Queued
<1> QED
  BY <1>1 DEF Bland, InRing, Has, Once, OfferOf

LEMMA RegisterHolds ==
  ASSUME TypeOK, BufInv, register_buffers
  PROVE  BufInv'
<1> DEFINE all == [k \in 1 .. BUFFERS_COUNT |-> k - 1]
<1>1. all \in Seq(Buffers)
  BY KernelAssumption DEF Buffers
<1>2. \A b \in Buffers : Has(all, {b}) /\ Once(all, {b})
  <2> SUFFICES ASSUME NEW b \in Buffers
               PROVE  Has(all, {b}) /\ Once(all, {b})
    OBVIOUS
  <2>1. b + 1 \in DOMAIN all /\ all[b + 1] = b
    BY KernelAssumption DEF Buffers
  <2>2. \A k \in DOMAIN all : all[k] = b => k = b + 1
    BY KernelAssumption DEF Buffers
  <2> QED
    BY <2>1, <2>2 DEF Has, Once
<1>3. /\ PushAndSync(Provides(all)) /\ pc = "boot" /\ pc' = "enter" /\ then' = "arm"
      /\ UNCHANGED <<cqLocal, cqShared, pool, released_buffers>>
  BY DEF register_buffers, Submit, bufVars
<1> HIDE DEF all
<1>4. /\ sqLocal = <<>> /\ sqShared = <<>> /\ cqLocal = <<>> /\ cqShared = <<>>
      /\ pool = {} /\ released_buffers = <<>>
  BY <1>3 DEF BufInv, BootClean
<1>5. Provides(all) \in Seq(SQE)
  BY <1>1, ProvidesType
<1>6. Queued' = Provides(all)
  BY <1>3, <1>4, <1>5, QueuedPush, ConcatEmptySeq, EmptySeq DEF Queued
<1>7. Completed' = <<>>
  BY <1>3, <1>4 DEF Completed
<1>8. ASSUME NEW b \in Buffers
      PROVE  Single(b)' /\ Held(b)'
  <2>1. InRing(b)' /\ Once(Queued, OfferOf(b))'
    BY <1>1, <1>2, <1>6, ProvidesPlaces DEF InRing
  <2>2. ~InCqe(b)' /\ Once(Completed, FillOf(b))'
    BY <1>7, EmptyHas DEF InCqe
  <2>3. b \notin pool' /\ ~Listed(b)' /\ Once(released_buffers, {b})'
    BY <1>3, <1>4, EmptyHas DEF Listed
  <2> QED
    BY <2>1, <2>2, <2>3 DEF Single, Held
<1>9. OneBatch'
  BY <1>3 DEF OneBatch, Offering, InSystemCall, PushAndSync, Bland
<1> QED
  BY <1>3, <1>8, <1>9 DEF BufInv, HeldOnce, BootClean

LEMMA ReleasePushHolds ==
  ASSUME TypeOK, BufInv, release_push
  PROVE  BufInv'
<1> DEFINE ps == Provides(released_buffers)
<1>1. /\ PushAndSync(ps) /\ pc = "relPush" /\ pc' = "enter" /\ then' = "relClear"
      /\ UNCHANGED <<cqLocal, cqShared, pool, released_buffers>>
  BY DEF release_push, Submit, bufVars
<1>2. released_buffers \in Seq(Buffers) /\ ps \in Seq(SQE)
  BY ProvidesType DEF TypeOK, ServerTypeOK
<1> HIDE DEF ps
<1>3. Queued' = Queued \o ps /\ Queued \in Seq(SQE)
  BY <1>1, <1>2, QueuedPush, Rings
<1>4. Reoffered' /\ ~Reoffered
  BY <1>1 DEF Reoffered, InSystemCall
<1>5. ASSUME NEW b \in Buffers
      PROVE  Single(b)' /\ Held(b)'
  <2>1. Single(b) /\ Held(b)
    BY <1>1 DEF BufInv, HeldOnce
  <2>2. /\ Has(ps, OfferOf(b)) <=> Listed(b)
        /\ Once(ps, OfferOf(b))
    BY <1>2, <1>4, <2>1, ProvidesPlaces DEF ps, Listed, Single
  <2>3. InRing(b)' <=> InRing(b) \/ Listed(b)
    BY <1>2, <1>3, <2>2, ConcatHas DEF InRing
  <2>4. ~(InRing(b) /\ Listed(b))
    BY <1>4, <2>1 DEF Held
  <2>5. Once(Queued, OfferOf(b))'
    BY <1>2, <1>3, <2>1, <2>2, <2>4, ConcatHas DEF InRing, Single
  <2>6. CqQuiet /\ (b \in pool' <=> b \in pool)
    BY <1>1, SameIsQuiet
  <2>7. (InCqe(b)' <=> InCqe(b)) /\ Once(Completed, FillOf(b))'
    BY <2>1, <2>6 DEF CqQuiet, Single
  <2>8. Single(b)'
    BY <1>4, <2>5, <2>7 DEF Single
  <2>9. Held(b)'
    BY <1>4, <2>1, <2>3, <2>4, <2>6, <2>7 DEF Held
  <2> QED
    BY <2>8, <2>9
<1>6. OneBatch'
  BY <1>1 DEF OneBatch, Offering, InSystemCall, PushAndSync, Bland
<1> QED
  BY <1>1, <1>5, <1>6 DEF BufInv, HeldOnce, BootClean

LEMMA ReleaseClearHolds ==
  ASSUME TypeOK, BufInv, release_clear
  PROVE  BufInv'
<1>1. /\ pc = "relClear" /\ pc' \in {"drain", "top"} /\ released_buffers' = <<>>
      /\ UNCHANGED <<sqLocal, sqShared>>
  BY DEF release_clear, Cleared, TypeOK, ServerTypeOK, kernelVars, ringVars
<1>2. Quiet /\ Reoffered /\ ~Reoffered'
  BY <1>1, ControlQuiet DEF Reoffered, InSystemCall
<1>3. ASSUME NEW b \in Buffers
      PROVE  Single(b)' /\ Held(b)'
  <2>1. Single(b) /\ Held(b)
    BY <1>1 DEF BufInv, HeldOnce
  <2>2. /\ InRing(b)' <=> InRing(b)
        /\ InCqe(b)' <=> InCqe(b)
        /\ b \in pool' <=> b \in pool
        /\ Once(Queued, OfferOf(b))' /\ Once(Completed, FillOf(b))'
    BY <1>2, <2>1 DEF Quiet, RingQuiet, CqQuiet, Single
  <2>3. ~Listed(b)' /\ Once(released_buffers, {b})'
    BY <1>1, EmptyHas DEF Listed
  <2> QED
    BY <1>2, <2>1, <2>2, <2>3 DEF Single, Held
<1>4. OneBatch'
  BY <1>1 DEF BufInv, OneBatch, Offering, InSystemCall, Alive, Bland
<1> QED
  BY <1>1, <1>3, <1>4 DEF BufInv, HeldOnce, BootClean

(* One provide is executed: its buffer moves from the ring to the pool.    *)
LEMMA ProvideMoves ==
  ASSUME TypeOK, sqShared # <<>>, ExecProvide
  PROVE  \E b \in Buffers :
           /\ InRing(b) /\ (Once(Queued, OfferOf(b)) => ~InRing(b)') /\ pool' = pool \cup {b}
           /\ \A d \in Buffers : /\ d # b => (InRing(d)' <=> InRing(d))
                                 /\ Once(Queued, OfferOf(d)) => Once(Queued, OfferOf(d))'
           /\ CqQuiet
<1> DEFINE e == Head(sqShared)
           b == e.arg
<1>1. e \in SQE /\ e.op = "provide" /\ TakeSqe
  BY Rings, HeadTailProperties DEF ExecProvide
<1>2. b \in Buffers
  BY <1>1, SqeKinds
<1>3. Queued \in Seq(SQE) /\ Queued # <<>> /\ Head(Queued) = e /\ Queued' = Tail(Queued)
  BY <1>1, QueuedTake, Rings
<1>4. pool' = pool \cup {b} /\ Post(Cqe("provide", NoId, "ok", NoBuf)) /\ cqLocal' = cqLocal
  BY <1>1 DEF ExecProvide, TakeSqe
<1>5. CqQuiet
  <2>1. Cqe("provide", NoId, "ok", NoBuf) \in CQE /\ ~IsFill(Cqe("provide", NoId, "ok", NoBuf))
    BY CqeTypes DEF IsFill, Cqe
  <2> QED
    BY <1>4, <2>1, PostQuiet
<1> HIDE DEF e
<1>6. \A d \in Buffers : e \in OfferOf(d) <=> d = b
  BY <1>1 DEF OfferOf
<1>7. \A d \in Buffers : /\ InRing(d) <=> e \in OfferOf(d) \/ InRing(d)'
                         /\ Once(Queued, OfferOf(d)) =>
                              /\ Once(Queued, OfferOf(d))'
                              /\ ~(e \in OfferOf(d) /\ InRing(d)')
  BY <1>3, TailHas DEF InRing
<1> QED
  BY <1>2, <1>4, <1>5, <1>6, <1>7

LEMMA ExecuteHolds ==
  ASSUME TypeOK, BufInv, Execute
  PROVE  BufInv'
<1>1. /\ InSystemCall /\ pc' = "inside" /\ then' = then /\ released_buffers' = released_buffers
      /\ sqShared # <<>> /\ sqLocal' = sqLocal /\ sqShared' = Tail(sqShared)
      /\ pc \in {"enter", "inside"}
  BY DEF Execute, InSystemCall, ExecProvide, ExecAccept, ExecArm, ExecSend, TakeSqe
<1>2. Reoffered' <=> Reoffered
  BY <1>1 DEF Reoffered, InSystemCall
<1>3. HeldOnce'
  <2>1. CASE ~ExecProvide
    BY <1>1, <1>2, <2>1, ExecQuiet, QuietHolds DEF BufInv
  <2>2. CASE ExecProvide
    <3>1. PICK b \in Buffers :
           /\ InRing(b) /\ (Once(Queued, OfferOf(b)) => ~InRing(b)') /\ pool' = pool \cup {b}
           /\ \A d \in Buffers : /\ d # b => (InRing(d)' <=> InRing(d))
                                 /\ Once(Queued, OfferOf(d)) => Once(Queued, OfferOf(d))'
           /\ CqQuiet
      BY <1>1, <2>2, ProvideMoves
    <3> SUFFICES ASSUME NEW d \in Buffers
                 PROVE  Single(d)' /\ Held(d)'
      BY DEF HeldOnce
    <3>2. Single(d) /\ Held(d)
      BY <1>1 DEF BufInv, HeldOnce
    <3>3. /\ InCqe(d)' <=> InCqe(d)
          /\ Once(Queued, OfferOf(d))' /\ Once(Completed, FillOf(d))'
          /\ Listed(d)' <=> Listed(d)
          /\ ~Reoffered => Once(released_buffers, {d})'
      BY <1>1, <3>1, <3>2 DEF CqQuiet, Listed, Single
    <3>4. Single(d)'
      BY <1>2, <3>3 DEF Single
    <3>5. Held(d)'
      <4>1. CASE d = b
        BY <1>2, <3>1, <3>2, <3>3, <4>1 DEF Held, Single
      <4>2. CASE d # b
        <5>1. (InRing(d)' <=> InRing(d)) /\ (d \in pool' <=> d \in pool)
          BY <3>1, <4>2
        <5> QED
          BY <1>2, <3>2, <3>3, <5>1 DEF Held
      <4> QED
        BY <4>1, <4>2
    <3> QED
      BY <3>4, <3>5
  <2> QED
    BY <2>1, <2>2
<1>4. OneBatch'
  <2>1. Bland(sqShared) => Bland(Tail(sqShared))
    BY <1>1, Rings, BlandTail
  <2>2. Alive /\ (Offering' <=> Offering)
    BY <1>1 DEF Alive, Offering, InSystemCall
  <2> QED
    BY <1>1, <2>1, <2>2 DEF BufInv, OneBatch
<1> QED
  BY <1>1, <1>3, <1>4 DEF BufInv, BootClean

(* A chunk is processed: its buffer moves from the completion to the list. *)
LEMMA ReplyMoves ==
  ASSUME TypeOK, request_reply
  PROVE  \E b \in Buffers :
           /\ InCqe(b) /\ (Once(Completed, FillOf(b)) => ~InCqe(b)')
           /\ released_buffers' = Append(released_buffers, b)
           /\ \A d \in Buffers : /\ d # b => (InCqe(d)' <=> InCqe(d))
                                 /\ Once(Completed, FillOf(d)) => Once(Completed, FillOf(d))'
           /\ RingQuiet /\ pool' = pool
<1> DEFINE e == Entry
           b == e.arg
<1>1. Next_cqe /\ cqShared' = cqShared /\ e.op = "recv" /\ e.res = "ok"
  BY DEF request_reply
<1>2. e \in CQE /\ b \in Buffers
  BY <1>1, EntryType, CqeKinds
<1>3. /\ Completed \in Seq(CQE) /\ Completed # <<>> /\ Head(Completed) = e
      /\ Completed' = Tail(Completed)
  BY <1>1, CompletedTake, Rings
<1>4. released_buffers' = Append(released_buffers, b) /\ pool' = pool /\ RingQuiet
  BY SameIsQuiet DEF request_reply, Hoard
<1> HIDE DEF e
<1>5. \A d \in Buffers : e \in FillOf(d) <=> d = b
  BY <1>1, <1>2 DEF FillOf
<1>6. \A d \in Buffers : /\ InCqe(d) <=> e \in FillOf(d) \/ InCqe(d)'
                         /\ Once(Completed, FillOf(d)) =>
                              /\ Once(Completed, FillOf(d))'
                              /\ ~(e \in FillOf(d) /\ InCqe(d)')
  BY <1>3, TailHas DEF InCqe
<1> QED
  BY <1>2, <1>4, <1>5, <1>6

LEMMA ReplyHolds ==
  ASSUME TypeOK, BufInv, request_reply
  PROVE  BufInv'
<1>1. /\ pc = "drain" /\ (pc' = "drain" \/ (pc' = "enter" /\ then' = "relPush"))
      /\ UNCHANGED <<sqLocal, sqShared>>
  <2>1. pc = "drain" /\ UNCHANGED <<sqLocal, sqShared>>
    BY DEF request_reply, Next_cqe
  <2>2. pc' = pc \/ pc' = "drain" \/ (pc' = "enter" /\ then' = "relPush")
    BY DEF request_reply, release_buffers, Submit
  <2> QED
    BY <2>1, <2>2
<1>2. ~Reoffered /\ ~Reoffered'
  BY <1>1 DEF Reoffered, InSystemCall
<1>3. HeldOnce'
  <2>1. PICK b \in Buffers :
           /\ InCqe(b) /\ (Once(Completed, FillOf(b)) => ~InCqe(b)')
           /\ released_buffers' = Append(released_buffers, b)
           /\ \A d \in Buffers : /\ d # b => (InCqe(d)' <=> InCqe(d))
                                 /\ Once(Completed, FillOf(d)) => Once(Completed, FillOf(d))'
           /\ RingQuiet /\ pool' = pool
    BY ReplyMoves
  <2> SUFFICES ASSUME NEW d \in Buffers
               PROVE  Single(d)' /\ Held(d)'
    BY DEF HeldOnce
  <2>2. Single(d) /\ Held(d)
    BY <1>1 DEF BufInv, HeldOnce
  <2>3. /\ Listed(d)' <=> Listed(d) \/ d = b
        /\ Once(released_buffers, {d}) /\ ~(Listed(d) /\ d = b) => Once(released_buffers, {d})'
    <3>1. released_buffers \in Seq(Buffers)
      BY DEF TypeOK, ServerTypeOK
    <3> QED
      BY <2>1, <3>1, AppendHas DEF Listed
  <2>4. /\ InRing(d)' <=> InRing(d)
        /\ Once(Queued, OfferOf(d))' /\ Once(Completed, FillOf(d))'
        /\ d \in pool' <=> d \in pool
    BY <2>1, <2>2 DEF RingQuiet, Single
  <2>5. CASE d = b
    BY <1>2, <2>1, <2>2, <2>3, <2>4, <2>5 DEF Held, Single
  <2>6. CASE d # b
    BY <1>2, <2>1, <2>2, <2>3, <2>4, <2>6 DEF Held, Single
  <2> QED
    BY <2>5, <2>6
<1>4. OneBatch'
  BY <1>1 DEF BufInv, OneBatch, Offering, InSystemCall, Alive, Bland
<1> QED
  BY <1>1, <1>3, <1>4 DEF BufInv, BootClean

LEMMA EnvironmentHolds ==
  ASSUME TypeOK, BufInv, NEW c \in Conns, Environment(c)
  PROVE  BufInv'
<1>1. Alive /\ UNCHANGED <<pc, then, released_buffers, sqLocal, sqShared>>
  BY DEF Environment, serverVars, KernelAccept, KernelRecv, KernelPoll, PeerConnect, PeerSend,
     PeerLeave, ringVars
<1>2. BootClean'
  <2> SUFFICES ASSUME pc = "boot"
               PROVE  BootClean'
    BY <1>1 DEF BootClean
  <2>1. accepts = 0 /\ recv[c] = NoId /\ poll[c] = NoId
    BY DEF BufInv, BootClean
  <2>2. PeerConnect(c) \/ PeerSend(c) \/ PeerLeave(c)
    BY <2>1 DEF Environment, KernelAccept, KernelRecv, KernelPoll
  <2> QED
    BY <1>1, <2>2 DEF BufInv, BootClean, PeerConnect, PeerSend, PeerLeave, ringVars, bufVars
<1>3. OneBatch'
  BY <1>1 DEF BufInv, OneBatch, Offering, InSystemCall, Alive, Bland
<1>4. Reoffered' <=> Reoffered
  BY <1>1 DEF Reoffered, InSystemCall
<1>5. HeldOnce'
  <2>1. CASE Quiet
    BY <1>1, <1>4, <2>1, QuietHolds DEF BufInv
  <2>2. CASE /\ RingQuiet
             /\ \E b \in pool : \E e \in FillOf(b) :
                  pool' = pool \ {b} /\ Completed' = Append(Completed, e)
    <3>1. PICK b \in pool : \E e \in FillOf(b) :
                 pool' = pool \ {b} /\ Completed' = Append(Completed, e)
      BY <2>2
    <3>2. PICK e \in FillOf(b) : pool' = pool \ {b} /\ Completed' = Append(Completed, e)
      BY <3>1
    <3>3. e \in CQE /\ Completed \in Seq(CQE) /\ b \in Buffers
      BY <3>2, Rings DEF FillOf, TypeOK, KernelTypeOK
    <3>4. pc # "boot"
      BY <3>1 DEF BufInv, BootClean
    <3> SUFFICES ASSUME pc' \notin {"boot", "failed", "aborted"}, NEW d \in Buffers
                 PROVE  Single(d)' /\ Held(d)'
      BY DEF HeldOnce
    <3>5. Single(d) /\ Held(d)
      BY <1>1 DEF BufInv, HeldOnce
    <3>6. e \in FillOf(d) <=> d = b
      BY <3>2 DEF FillOf
    <3>7. /\ InCqe(d)' <=> InCqe(d) \/ d = b
          /\ Once(Completed, FillOf(d)) /\ ~(InCqe(d) /\ d = b) => Once(Completed, FillOf(d))'
      BY <3>2, <3>3, <3>6, AppendHas DEF InCqe
    <3>8. /\ InRing(d)' <=> InRing(d)
          /\ Once(Queued, OfferOf(d))'
          /\ Listed(d)' <=> Listed(d)
          /\ ~Reoffered => Once(released_buffers, {d})'
      BY <1>1, <2>2, <3>5 DEF RingQuiet, Single, Listed
    <3>9. d \in pool' <=> d \in pool /\ d # b
      BY <3>2
    <3>10. Single(d)'
      BY <1>4, <3>1, <3>5, <3>7, <3>8 DEF Single, Held
    <3>11. Held(d)'
      BY <1>4, <3>1, <3>5, <3>7, <3>8, <3>9 DEF Held
    <3> QED
      BY <3>10, <3>11
  <2> QED
    BY <2>1, <2>2, EnvironmentMoves
<1> QED
  BY <1>2, <1>3, <1>5 DEF BufInv

(* A new Server registers the buffers anew.                                *)
LEMMA RestartHolds ==
  ASSUME Restart
  PROVE  BufInv'
BY EmptySeq DEF Restart, KernelReset, BufInv, HeldOnce, BootClean, OneBatch, Bland

(* The steps that move no buffer.                                          *)
LEMMA QuietStep ==
  ASSUME TypeOK, BufInv, Quiet, released_buffers' = released_buffers,
         pc # "boot", pc' # "boot", pc = "failed" => pc' = "failed",
         pc = "aborted" => pc' = "aborted",
         Alive' => (Reoffered' <=> Reoffered), OneBatch'
  PROVE  BufInv'
<1>1. HeldOnce'
  BY QuietHolds DEF BufInv, Alive
<1> QED
  BY <1>1 DEF BufInv, BootClean

LEMMA StartHolds ==
  ASSUME TypeOK, BufInv, start_accepts \/ reserve_writes_buffer
  PROVE  BufInv'
<1>1. Quiet /\ released_buffers' = released_buffers
  BY StartQuiet DEF start_accepts, reserve_writes_buffer
<1>2. \/ pc = "arm" /\ pc' = "enter" /\ then' = "reserve"
      \/ pc = "reserve" /\ pc' = "top"
  BY DEF start_accepts, reserve_writes_buffer, Submit
<1>3. OneBatch'
  <2>1. Bland(sqLocal) /\ Bland(sqShared)
    BY <1>2 DEF BufInv, OneBatch, Alive, Offering, InSystemCall
  <2>2. sqShared' = sqShared
    BY DEF start_accepts, reserve_writes_buffer, kernelVars, ringVars
  <2>3. Bland(sqLocal')
    <3>1. CASE start_accepts
      <4> DEFINE es == [k \in 1 .. AcceptMulti |-> accept_multi]
      <4>1. es \in Seq(SQE) /\ Bland(es)
        BY SqeTypes, ReactorAssumption DEF accept_multi, Bland, Sqe
      <4>2. sqLocal' = sqLocal \o es
        BY <3>1 DEF start_accepts
      <4> HIDE DEF es
      <4> QED
        BY <2>1, <4>1, <4>2, Rings, BlandConcat
    <3>2. CASE reserve_writes_buffer
      BY <2>1, <3>2 DEF reserve_writes_buffer, kernelVars, ringVars
    <3> QED
      BY <3>1, <3>2
  <2> QED
    BY <2>1, <2>2, <2>3 DEF OneBatch, Bland
<1>4. ~Reoffered /\ ~Reoffered'
  BY <1>2 DEF Reoffered, InSystemCall
<1> QED
  BY <1>1, <1>2, <1>3, <1>4, QuietStep

LEMMA LoopTopHolds ==
  ASSUME TypeOK, BufInv, LoopTop
  PROVE  BufInv'
<1>1. pc = "top" /\ (pc' = "drain" \/ (pc' = "enter" /\ then' \in {"wait", "drain"}))
  BY DEF LoopTop, Submit
<1>2. Quiet /\ released_buffers' = released_buffers
  BY LoopTopQuiet DEF LoopTop
<1>3. Bland(sqLocal) /\ Bland(sqShared)
  BY <1>1 DEF BufInv, OneBatch, Alive, Offering, InSystemCall
<1>4. OneBatch'
  <2>1. PICK ids \in InIdOrder(Sendable) : Flush([k \in DOMAIN ids |-> SendEntry(ids[k])])
    BY DEF LoopTop
  <2> DEFINE es == [k \in DOMAIN ids |-> SendEntry(ids[k])]
  <2>2. es \in Seq(SQE) /\ Bland(es)
    BY SendsType, SendsBland DEF LoopTop
  <2> HIDE DEF es
  <2>3. CASE FlushNow
    <3>1. sqShared' = (sqShared \o sqLocal) \o es /\ sqLocal' = <<>>
      BY <2>1, <2>3 DEF Flush, PushAndSync, es
    <3>2. sqShared \o sqLocal \in Seq(SQE) /\ Bland(sqShared \o sqLocal)
      BY <1>3, Rings, BlandConcat DEF Queued
    <3>3. Bland(sqShared')
      BY <2>2, <3>1, <3>2, BlandConcat
    <3> QED
      BY <3>1, <3>3 DEF OneBatch, Bland
  <2>4. CASE ~FlushNow
    BY <1>3, <2>1, <2>4 DEF Flush, OneBatch, Bland
  <2> QED
    BY <2>3, <2>4
<1>5. ~Reoffered /\ ~Reoffered'
  BY <1>1 DEF Reoffered, InSystemCall
<1> QED
  BY <1>1, <1>2, <1>4, <1>5, QuietStep

LEMMA ControlHolds ==
  ASSUME TypeOK, BufInv, wideband_send_panics \/ Return \/ EnterFails \/ EndOfBatch
  PROVE  BufInv'
<1>1. Quiet /\ UNCHANGED <<released_buffers, sqLocal, sqShared>>
  BY ControlQuiet DEF wideband_send_panics, Return, EnterFails, EndOfBatch, kernelVars, ringVars
<1>2. \/ pc = "top" /\ pc' = "aborted"
      \/ /\ pc \in {"enter", "inside"} /\ sqShared = <<>>
         /\ pc' = IF then = "wait" THEN "drain" ELSE then
      \/ pc \in {"enter", "reserve"} /\ pc' = "failed"
      \/ pc = "drain" /\ (pc' = "top" \/ (pc' = "enter" /\ then' = "relPush"))
  BY DEF wideband_send_panics, Return, EnterFails, EndOfBatch, release_buffers, Submit
<1>3. then \in {"arm", "reserve", "wait", "drain", "relPush", "relClear"}
  BY DEF TypeOK, ServerTypeOK
<1>4. OneBatch'
  BY <1>1, <1>2, <1>3, EmptySeq DEF BufInv, OneBatch, Alive, Offering, InSystemCall, Bland
<1>5. Alive' => (Reoffered' <=> Reoffered)
  BY <1>2, <1>3 DEF Alive, Reoffered, InSystemCall
<1> QED
  BY <1>1, <1>2, <1>3, <1>4, <1>5, QuietStep

LEMMA EntryHolds ==
  ASSUME TypeOK, BufInv, process_entry, ~request_reply
  PROVE  BufInv'
<1>1. Quiet /\ released_buffers' = released_buffers
  BY EntryStepQuiet DEF process_entry, process_ignored, accept_panics, process_entry_accept,
     process_no_buffers, close_connection, ubdma, serverVars
<1>2. /\ pc = "drain"
      /\ \/ pc' \in {"drain", "aborted"}
         \/ pc' = "enter" /\ then' = "relPush"
  BY DEF process_entry, process_ignored, accept_panics, process_entry_accept,
     process_no_buffers, close_connection, ubdma, release_buffers, Submit, Next_cqe, serverVars
<1>3. Bland(sqLocal) /\ Bland(sqShared)
  BY <1>2 DEF BufInv, OneBatch, Alive, Offering, InSystemCall
<1>4. OneBatch'
  <2>1. CASE process_entry_accept
    <3>1. PICK es \in Seq(SQE) : Queued' = Queued \o es /\ Bland(es)
      BY <2>1, AcceptPushes DEF Bland
    <3>2. Bland(Queued')
      BY <1>3, <3>1, Rings, BlandConcat DEF Queued
    <3>3. sqShared' \in Seq(SQE) /\ sqLocal' \in Seq(SQE)
      BY <2>1, AcceptType DEF TypeOK, KernelTypeOK
    <3>4. Bland(sqShared') /\ Bland(sqLocal')
      BY <3>2, <3>3, BlandParts DEF Queued
    <3> QED
      BY <3>4 DEF OneBatch, Bland
  <2>2. CASE ~process_entry_accept
    <3>1. UNCHANGED <<sqLocal, sqShared>>
      BY <2>2 DEF process_entry, process_ignored, accept_panics, process_no_buffers,
         close_connection, ubdma
    <3> QED
      BY <1>3, <3>1 DEF OneBatch, Bland
  <2> QED
    BY <2>1, <2>2
<1>5. ~Reoffered /\ ~Reoffered'
  BY <1>2 DEF Reoffered, InSystemCall
<1> QED
  BY <1>1, <1>2, <1>4, <1>5, QuietStep

LEMMA BufNext == TypeOK /\ BufInv /\ [Next]_vars => BufInv'
<1> SUFFICES ASSUME TypeOK, BufInv, [Next]_vars
             PROVE  BufInv'
  OBVIOUS
<1>1. CASE Worker
  BY <1>1, RegisterHolds, StartHolds, LoopTopHolds, ExecuteHolds, ControlHolds,
     ReleasePushHolds, ReleaseClearHolds, RestartHolds, EntryHolds, ReplyHolds
  DEF Worker
<1>2. CASE EnterFails
  BY <1>2, ControlHolds
<1>3. CASE \E c \in Conns : Environment(c)
  BY <1>3, EnvironmentHolds
<1>4. CASE UNCHANGED vars
  <2>1. UNCHANGED <<pc, then, released_buffers, sqLocal, sqShared, cqLocal, cqShared, pool,
                    accepts, recv, poll>>
    BY <1>4 DEF vars, serverVars, kernelVars, ringVars, bufVars, sockVars
  <2>2. Quiet /\ (Reoffered' <=> Reoffered)
    BY <1>4, <2>1, ControlQuiet DEF Reoffered, InSystemCall
  <2>3. HeldOnce'
    BY <2>1, <2>2, QuietHolds DEF BufInv
  <2> QED
    BY <2>1, <2>3 DEF BufInv, BootClean, OneBatch, Alive, Offering, InSystemCall, Bland
<1> QED
  BY <1>1, <1>2, <1>3, <1>4 DEF Next, Rest

-----------------------------------------------------------------------------
(* From places to the definitions of module Reactor                        *)

LEMMA PlacesOf ==
  ASSUME TypeOK, NEW b \in Buffers
  PROVE  /\ Offers(b) = {k \in DOMAIN Queued : Queued[k] \in OfferOf(b)}
         /\ Fills(b) = {k \in DOMAIN Completed : Completed[k] \in FillOf(b)}
         /\ Hoards(b) = IF Reoffered THEN {}
                        ELSE {k \in DOMAIN released_buffers : released_buffers[k] \in {b}}
<1>1. \A k \in DOMAIN Queued : Queued[k] \in SQE
  BY Rings
<1>2. \A k \in DOMAIN Completed : Completed[k] \in CQE
  BY Rings
<1>3. Offers(b) = {k \in DOMAIN Queued : Queued[k] \in OfferOf(b)}
  BY <1>1 DEF Offers, OfferOf
<1>4. Fills(b) = {k \in DOMAIN Completed : Completed[k] \in FillOf(b)}
  BY <1>2 DEF Fills, FillOf
<1>5. Hoards(b) = IF Reoffered THEN {}
                  ELSE {k \in DOMAIN released_buffers : released_buffers[k] \in {b}}
  BY DEF Hoards
<1> QED
  BY <1>3, <1>4, <1>5

LEMMA OwnedOnce == TypeOK /\ BufInv => BufferOwnedOnce
<1> SUFFICES ASSUME TypeOK, BufInv, pc \notin {"boot", "failed", "aborted"}, NEW b \in Buffers
             PROVE  Cardinality(Offers(b)) + Cardinality(Fills(b)) + Cardinality(Hoards(b))
                      + (IF b \in pool THEN 1 ELSE 0) = 1
  BY DEF BufferOwnedOnce
<1>1. Single(b) /\ Held(b)
  BY DEF BufInv, HeldOnce
<1>2. Cardinality(Offers(b)) = IF InRing(b) THEN 1 ELSE 0
  BY <1>1, PlacesOf, OnceCount DEF Single, InRing
<1>3. Cardinality(Fills(b)) = IF InCqe(b) THEN 1 ELSE 0
  BY <1>1, PlacesOf, OnceCount DEF Single, InCqe
<1>4. Cardinality(Hoards(b)) = IF ~Reoffered /\ Listed(b) THEN 1 ELSE 0
  <2>1. CASE Reoffered
    BY <2>1, PlacesOf, FS_EmptySet
  <2>2. CASE ~Reoffered
    BY <1>1, <2>2, PlacesOf, OnceCount DEF Single, Listed
  <2> QED
    BY <2>1, <2>2
<1> QED
  BY <1>1, <1>2, <1>3, <1>4 DEF Held

(* No receive buffer is ever lost or in two hands, for every number of     *)
(* buffers and clients: the provides of register_buffers and               *)
(* release_buffers, the completions that request_reply takes apart and the *)
(* list released_buffers name each buffer of the group exactly once.       *)
THEOREM BuffersOwnedOnce == Spec => []BufferOwnedOnce
<1> QED
  BY OwnedOnce, TypeInit, TypeNext, BufInit, BufNext, PTL DEF Spec

-----------------------------------------------------------------------------
(* The refinement of BufferPool                                            *)

Place(b) == IF b \in pool THEN "kernel"
            ELSE IF InRing(b) THEN "ring"
            ELSE IF InCqe(b) THEN "cqe" ELSE "worker"
Places == [b \in Buffers |-> Place(b)]
Owners == [b \in Buffers |-> OwnerOf(b)]
SamePlaces == Owners = Places

LEMMA OwnerIsPlace == TypeOK => SamePlaces
<1> SUFFICES ASSUME TypeOK, NEW b \in Buffers
             PROVE  OwnerOf(b) = Place(b)
  BY DEF SamePlaces, Owners, Places
<1>1. Offers(b) # {} <=> InRing(b)
  BY PlacesOf DEF InRing, Has
<1>2. Fills(b) # {} <=> InCqe(b)
  BY PlacesOf DEF InCqe, Has
<1> QED
  BY <1>1, <1>2 DEF OwnerOf, Place

LEMMA OwnerIsPlaceAfter == TypeOK' => SamePlaces'
BY OwnerIsPlace, PTL

(* One batch of buffers changes hands.                                     *)
Moves(S, from, to) ==
  /\ S # {} /\ S \subseteq Buffers /\ \A b \in S : Place(b) = from
  /\ Places' = [b \in Buffers |-> IF b \in S THEN to ELSE Places[b]]

LEMMA QuietStays ==
  ASSUME Quiet
  PROVE  Places' = Places
BY DEF Quiet, RingQuiet, CqQuiet, Places, Place

LEMMA OfferMoves ==
  ASSUME TypeOK, BufInv, register_buffers \/ release_push
  PROVE  \/ Places' = Places
         \/ /\ \A b \in Buffers : Place(b) # "ring"
            /\ \E S \in SUBSET Buffers : Moves(S, "worker", "ring")
<1> DEFINE bs == IF pc = "boot" THEN [k \in 1 .. BUFFERS_COUNT |-> k - 1] ELSE released_buffers
           S == {b \in Buffers : Has(bs, {b})}
<1>1. bs \in Seq(Buffers)
  BY KernelAssumption DEF Buffers, TypeOK, ServerTypeOK
<1>2. /\ pc \in {"boot", "relPush"} /\ PushAndSync(Provides(bs))
      /\ UNCHANGED <<cqLocal, cqShared, pool>>
  BY DEF register_buffers, release_push, bufVars
<1>3. ASSUME NEW b \in Buffers
      PROVE  /\ ~InRing(b)
             /\ Has(bs, {b}) => Place(b) = "worker"
  <2>1. CASE pc = "boot"
    <3>1. /\ sqLocal = <<>> /\ sqShared = <<>> /\ cqLocal = <<>> /\ cqShared = <<>>
          /\ pool = {}
      BY <2>1 DEF BufInv, BootClean
    <3> QED
      BY <3>1 DEF Place, InRing, InCqe, Has, Queued, Completed
  <2>2. CASE pc = "relPush"
    <3>1. Bland(sqLocal) /\ Bland(sqShared) /\ ~Reoffered
      BY <2>2 DEF BufInv, OneBatch, Alive, Offering, Reoffered, InSystemCall
    <3>2. ~InRing(b)
      BY <3>1, BlandIsEmpty
    <3>3. Held(b)
      BY <2>2 DEF BufInv, HeldOnce
    <3>4. bs = released_buffers
      BY <2>2
    <3> QED
      BY <3>1, <3>2, <3>3, <3>4 DEF Held, Listed, Place
  <2> QED
    BY <1>2, <2>1, <2>2
<1> HIDE DEF bs
<1>4. Provides(bs) \in Seq(SQE) /\ Queued \in Seq(SQE)
  BY <1>1, ProvidesType, Rings
<1>5. Queued' = Queued \o Provides(bs)
  BY <1>2, <1>4, QueuedPush
<1>6. ASSUME NEW b \in Buffers
      PROVE  Place(b)' = IF b \in S THEN "ring" ELSE Place(b)
  <2>1. Has(Provides(bs), OfferOf(b)) <=> b \in S
    BY <1>1, ProvidesPlaces
  <2>2. InRing(b)' <=> InRing(b) \/ b \in S
    BY <1>4, <1>5, <2>1, ConcatHas DEF InRing
  <2>3. (InCqe(b)' <=> InCqe(b)) /\ pool' = pool
    BY <1>2, SameIsQuiet DEF CqQuiet
  <2>4. b \in S => b \notin pool
    BY <1>3 DEF Place
  <2> QED
    BY <1>3, <2>2, <2>3, <2>4 DEF Place
<1>7. Places' = [b \in Buffers |-> IF b \in S THEN "ring" ELSE Places[b]]
  BY <1>6 DEF Places
<1>8. CASE S = {}
  BY <1>7, <1>8 DEF Places
<1>9. CASE S # {}
  <2>1. Moves(S, "worker", "ring") /\ S \in SUBSET Buffers
    BY <1>3, <1>7, <1>9 DEF Moves
  <2>2. \A b \in Buffers : Place(b) # "ring"
    BY <1>3 DEF Place
  <2> QED
    BY <2>1, <2>2
<1> QED
  BY <1>8, <1>9

LEMMA TakeMoves ==
  ASSUME TypeOK, BufInv, Execute
  PROVE  \/ Places' = Places
         \/ \E b \in Buffers : Moves({b}, "ring", "kernel")
<1>1. CASE ~ExecProvide
  BY <1>1, ExecQuiet, QuietStays
<1>2. CASE ExecProvide
  <2>1. PICK b \in Buffers :
           /\ InRing(b) /\ (Once(Queued, OfferOf(b)) => ~InRing(b)') /\ pool' = pool \cup {b}
           /\ \A d \in Buffers : /\ d # b => (InRing(d)' <=> InRing(d))
                                 /\ Once(Queued, OfferOf(d)) => Once(Queued, OfferOf(d))'
           /\ CqQuiet
    BY <1>2, ProvideMoves DEF Execute
  <2>2. Held(b)
    BY DEF BufInv, HeldOnce, Execute
  <2>3. Place(b) = "ring" /\ Place(b)' = "kernel"
    BY <2>1, <2>2 DEF Held, Place
  <2>4. \A d \in Buffers : d # b => Place(d)' = Place(d)
    BY <2>1 DEF CqQuiet, Place
  <2>5. Moves({b}, "ring", "kernel")
    BY <2>3, <2>4 DEF Moves, Places
  <2> QED
    BY <2>5
<1> QED
  BY <1>1, <1>2

LEMMA ReapMoves ==
  ASSUME TypeOK, BufInv, process_entry
  PROVE  \/ Places' = Places
         \/ \E b \in Buffers : Moves({b}, "cqe", "worker")
<1>1. CASE ~request_reply
  BY <1>1, EntryStepQuiet, QuietStays
<1>2. CASE request_reply
  <2>1. PICK b \in Buffers :
           /\ InCqe(b) /\ (Once(Completed, FillOf(b)) => ~InCqe(b)')
           /\ released_buffers' = Append(released_buffers, b)
           /\ \A d \in Buffers : /\ d # b => (InCqe(d)' <=> InCqe(d))
                                 /\ Once(Completed, FillOf(d)) => Once(Completed, FillOf(d))'
           /\ RingQuiet /\ pool' = pool
    BY <1>2, ReplyMoves
  <2>2. Held(b) /\ Single(b)
    BY <1>2 DEF BufInv, HeldOnce, request_reply, Next_cqe
  <2>3. Place(b) = "cqe" /\ Place(b)' = "worker"
    BY <2>1, <2>2 DEF Held, Single, Place, RingQuiet
  <2>4. \A d \in Buffers : d # b => Place(d)' = Place(d)
    BY <2>1 DEF RingQuiet, Place
  <2>5. Moves({b}, "cqe", "worker")
    BY <2>3, <2>4 DEF Moves, Places
  <2> QED
    BY <2>5
<1> QED
  BY <1>1, <1>2

LEMMA FillMoves ==
  ASSUME TypeOK, BufInv, NEW c \in Conns, Environment(c)
  PROVE  \/ Places' = Places
         \/ \E b \in Buffers : Moves({b}, "kernel", "cqe")
<1>1. CASE Quiet
  BY <1>1, QuietStays
<1>2. CASE /\ RingQuiet
           /\ \E b \in pool : \E e \in FillOf(b) :
                pool' = pool \ {b} /\ Completed' = Append(Completed, e)
  <2>1. PICK b \in pool : \E e \in FillOf(b) :
               pool' = pool \ {b} /\ Completed' = Append(Completed, e)
    BY <1>2
  <2>2. PICK e \in FillOf(b) : pool' = pool \ {b} /\ Completed' = Append(Completed, e)
    BY <2>1
  <2>3. e \in CQE /\ Completed \in Seq(CQE) /\ b \in Buffers
    BY <2>2, Rings DEF FillOf, TypeOK, KernelTypeOK
  <2>4. \A d \in Buffers : InCqe(d)' <=> InCqe(d) \/ d = b
    <3>1. \A d \in Buffers : e \in FillOf(d) <=> d = b
      BY <2>2 DEF FillOf
    <3> QED
      BY <2>2, <2>3, <3>1, AppendHas DEF InCqe
  <2>5. Held(b)
    BY <2>1, <2>3 DEF BufInv, HeldOnce, BootClean, Environment, Alive
  <2>6. Place(b) = "kernel" /\ Place(b)' = "cqe"
    BY <1>2, <2>1, <2>2, <2>3, <2>4, <2>5 DEF Held, Place, RingQuiet
  <2>7. \A d \in Buffers : d # b => Place(d)' = Place(d)
    BY <1>2, <2>2, <2>4 DEF RingQuiet, Place
  <2>8. Moves({b}, "kernel", "cqe")
    BY <2>3, <2>6, <2>7 DEF Moves, Places
  <2> QED
    BY <2>3, <2>8
<1> QED
  BY <1>1, <1>2, EnvironmentMoves

(* Every step of the reactor is a step of BufferPool or leaves every       *)
(* buffer where it is.                                                     *)
LEMMA StepMoves ==
  ASSUME TypeOK, BufInv, [Next]_vars
  PROVE  \/ Places' = Places
         \/ /\ \A b \in Buffers : Place(b) # "ring"
            /\ \E S \in SUBSET Buffers : Moves(S, "worker", "ring")
         \/ \E b \in Buffers : \/ Moves({b}, "ring", "kernel")
                               \/ Moves({b}, "kernel", "cqe")
                               \/ Moves({b}, "cqe", "worker")
         \/ Places' = [b \in Buffers |-> "worker"]
<1>1. CASE register_buffers \/ release_push
  BY <1>1, OfferMoves
<1>2. CASE start_accepts \/ reserve_writes_buffer
  BY <1>2, StartQuiet, QuietStays
<1>3. CASE LoopTop
  BY <1>3, LoopTopQuiet, QuietStays
<1>4. CASE Execute
  BY <1>4, TakeMoves
<1>5. CASE \/ wideband_send_panics \/ Return \/ EnterFails \/ release_clear \/ EndOfBatch
           \/ UNCHANGED vars
  BY <1>5, ControlQuiet, QuietStays
<1>6. CASE process_entry
  BY <1>6, ReapMoves
<1>7. CASE Restart
  BY <1>7, EmptyHas, ConcatEmptySeq, EmptySeq
  DEF Restart, KernelReset, Places, Place, InRing, InCqe, Queued, Completed
<1>8. CASE \E c \in Conns : Environment(c)
  BY <1>8, FillMoves
<1> QED
  BY <1>1, <1>2, <1>3, <1>4, <1>5, <1>6, <1>7, <1>8 DEF Next, Worker, Rest

LEMMA PoolInit == Init => Provided!Init
<1> SUFFICES ASSUME Init
             PROVE  [b \in Buffers |-> OwnerOf(b)] = [b \in Buffers |-> "worker"]
  BY DEF Provided!Init
<1>1. TypeOK
  BY TypeInit
<1>2. Places = [b \in Buffers |-> "worker"]
  BY DEF Init, KernelInit, Places, Place, InRing, InCqe, Has, Queued, Completed
<1> QED
  BY <1>1, <1>2, OwnerIsPlace DEF SamePlaces, Owners

LEMMA PoolNext ==
  TypeOK /\ TypeOK' /\ BufInv /\ [Next]_vars
    => [Provided!Next]_([b \in Buffers |-> OwnerOf(b)])
<1> SUFFICES ASSUME TypeOK, TypeOK', BufInv, [Next]_vars
             PROVE  [Provided!Next]_([b \in Buffers |-> OwnerOf(b)])
  OBVIOUS
<1> DEFINE own == [b \in Buffers |-> OwnerOf(b)]
<1>1. own = Places /\ own' = Places'
  BY OwnerIsPlace, OwnerIsPlaceAfter DEF SamePlaces, Owners
<1>2. \A b \in Buffers : own[b] = Place(b)
  BY <1>1 DEF Places
<1>3. ASSUME NEW S, NEW from, NEW to, Moves(S, from, to)
      PROVE  Provided!Pass(S, from, to)
  BY <1>1, <1>2, <1>3 DEF Moves, Provided!Pass
<1>4. CASE Places' = Places
  BY <1>1, <1>4
<1>5. CASE /\ \A b \in Buffers : Place(b) # "ring"
           /\ \E S \in SUBSET Buffers : Moves(S, "worker", "ring")
  BY <1>2, <1>3, <1>5 DEF Provided!Next, Provided!Offer
<1>6. CASE \E b \in Buffers : \/ Moves({b}, "ring", "kernel")
                              \/ Moves({b}, "kernel", "cqe")
                              \/ Moves({b}, "cqe", "worker")
  BY <1>3, <1>6 DEF Provided!Next, Provided!Take, Provided!Fill, Provided!Reap
<1>7. CASE Places' = [b \in Buffers |-> "worker"]
  BY <1>1, <1>7 DEF Provided!Next, Provided!Reclaim
<1> QED
  BY <1>4, <1>5, <1>6, <1>7, StepMoves

(* The reactor implements the buffer cycle of BufferPool: whatever the     *)
(* peers, the kernel and failed system calls do, a receive buffer changes  *)
(* hands only worker -> ring -> kernel -> completion -> worker, and no     *)
(* batch is offered while an earlier one is in the ring (register_buffers, *)
(* request_reply, release_buffers).                                        *)
THEOREM BufferProtocolImplemented == Spec => BufferProtocol
<1> QED
  BY PoolInit, PoolNext, TypeInit, TypeNext, BufInit, BufNext, PTL
  DEF Spec, BufferProtocol, Provided!Spec
=============================================================================
