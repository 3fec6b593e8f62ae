------------------------------- MODULE Kernel -------------------------------
(***************************************************************************)
(* What a Tachyon worker talks to: its io_uring instance, the provided     *)
(* buffer group, the sockets, the descriptor table and the remote peers.   *)
(* None of it is code of the repository; it is modelled from the calls the *)
(* worker makes (kernel_cmds.rs, server.rs) and the completions it handles.*)
(*                                                                         *)
(* Two views of each queue matter, because the worker flushes them by hand *)
(* (sq.sync(), cq.sync()):                                                 *)
(*   sqLocal   pushed by the worker, tail not yet published to the kernel  *)
(*   sqShared  published, not yet consumed by the kernel                   *)
(*   sqStale   consumed by the kernel since the worker last read its head  *)
(*   cqLocal   completions the worker can see                              *)
(*   cqShared  completions posted since the worker last read the tail      *)
(***************************************************************************)
EXTENDS Integers, Sequences, FiniteSets

CONSTANTS
  BUFFERS_COUNT,  \* buffers of the provided group (server.rs: 1024)
  OutCap,         \* slots of client_out_buffers (u16::MAX)
  LakeCap,        \* responses that fit an output buffer (DATA_LAKE_SIZE)
  Fds,            \* descriptor numbers the process may get for a client
  Conns,          \* connections that peers may open
  NoConn,         \* "no connection" in the descriptor table
  MaxReq,         \* bound: chunks of requests a peer sends on a connection
  Pipeline,       \* chunks a peer sends ahead of the responses
  Leaves,         \* how peers may leave: "fin", "rst", "timeout"
  LossySend       \* may a non-blocking send be short or refused?

ASSUME KernelAssumption ==
  /\ BUFFERS_COUNT \in Nat \ {0}
  /\ OutCap \in Nat \ {0}
  /\ LakeCap \in Nat \ {0}
  /\ Fds \subseteq Nat \ {0}
  /\ NoConn \notin Conns
  /\ MaxReq \in Nat
  /\ Pipeline \in Nat
  /\ Leaves \subseteq {"fin", "rst", "timeout"}
  /\ LossySend \in BOOLEAN

NoId  == -1                     \* no client id / no operation armed
NoBuf == -1                     \* no buffer, no argument
NoFd  == -1                     \* no descriptor

Buffers == 0 .. BUFFERS_COUNT - 1
Ids     == 0 .. OutCap - 1      \* client ids that have an output slot

(* A unit stands for a chunk of complete requests that connection c sent,  *)
(* its n-th, and for the responses to them. NoUnit is zeroed memory.       *)
Units == Conns \X (1 .. MaxReq)
NoUnit == <<>>
Memory == Units \cup {NoUnit}

(* Submission entries: arg is the buffer (provide) or the length (send).   *)
Sqe(op, id, fd, arg) == [op |-> op, id |-> id, fd |-> fd, arg |-> arg]
SQE ==
  [op : {"provide"}, id : {NoId}, fd : {NoFd}, arg : Buffers]
  \cup [op : {"accept"}, id : {NoId}, fd : {NoFd}, arg : {NoBuf}]
  \cup [op : {"recv", "poll"}, id : Ids, fd : Nat, arg : {NoBuf}]
  \cup [op : {"send"}, id : Ids, fd : Nat, arg : 1 .. LakeCap]

(* Completions: arg is the buffer (recv) or the descriptor (accept).       *)
Cqe(op, id, res, arg) == [op |-> op, id |-> id, res |-> res, arg |-> arg]
CQE ==
  [op : {"provide"}, id : {NoId}, res : {"ok"}, arg : {NoBuf}]
  \cup [op : {"accept"}, id : {NoId}, res : {"ok"}, arg : Fds]
  \cup [op : {"accept"}, id : {NoId}, res : {"error"}, arg : {NoBuf}]
  \cup [op : {"recv"}, id : Ids, res : {"ok"}, arg : Buffers]
  \cup [op : {"poll"}, id : Ids, res : {"ok"}, arg : {NoBuf}]
  \cup [op : {"recv", "poll", "send"}, id : Ids, arg : {NoBuf},
        res : {"eof", "EAGAIN", "EBADF", "ENOBUFS", "EPIPE", "ECONNRESET",
               "ETIMEDOUT"}]

VARIABLES
  sqLocal, sqShared, sqStale, cqLocal, cqShared,    \* the ring
  pool,       \* provided buffers the kernel may fill
  bufmem,     \* the bytes of each buffer: front (last chunk) and tail
  fdTable,    \* descriptor -> connection
  accepts,    \* multishot accepts still armed on the listener
  stage,      \* connection: "none", "backlog", "open", or "lost" with its listener
  peer,       \* "up", "fin", "rst" or "timeout" (not yet reported), "gone"
  inbox,      \* chunks that arrived and were not received yet
  sent,       \* chunks the peer has sent
  recv,       \* client id of the multishot recv armed on the connection
  poll,       \* client id of the multishot poll armed on the connection
  ready,      \* has the poll something new to report?
  got         \* responses the peer has received

ringVars == <<sqLocal, sqShared, sqStale, cqLocal, cqShared>>
bufVars  == <<pool, bufmem>>
sockVars == <<fdTable, accepts, stage, peer, inbox, sent, recv, poll, ready, got>>
kernelVars == <<ringVars, bufVars, sockVars>>

KernelInit ==
  /\ sqLocal = <<>> /\ sqShared = <<>> /\ sqStale = 0
  /\ cqLocal = <<>> /\ cqShared = <<>>
  /\ pool = {}
  /\ bufmem = [b \in Buffers |-> [front |-> NoUnit, tail |-> NoUnit]]
  /\ fdTable = [f \in Fds |-> NoConn]
  /\ accepts = 0
  /\ stage = [c \in Conns |-> "none"]
  /\ peer = [c \in Conns |-> "up"]
  /\ inbox = [c \in Conns |-> <<>>]
  /\ sent = [c \in Conns |-> 0]
  /\ recv = [c \in Conns |-> NoId]
  /\ poll = [c \in Conns |-> NoId]
  /\ ready = [c \in Conns |-> FALSE]
  /\ got = [c \in Conns |-> <<>>]

-----------------------------------------------------------------------------
(* The ring as the io-uring crate presents it.                             *)

SqLen == Len(sqLocal) + Len(sqShared) + sqStale     \* sq.len()
CqIsEmpty == cqLocal = <<>>                         \* cq.is_empty()

(* A completion. The queue has no end here: the completions beyond its     *)
(* 2 * UringSize entries, which the kernel keeps aside (and which end a    *)
(* multishot operation), are left out.                                     *)
Post(e) == cqShared' = Append(cqShared, e)

(* The connection an SQE's descriptor names when the kernel runs the SQE.  *)
Target(e) == IF e.fd \in Fds THEN fdTable[e.fd] ELSE NoConn

(* The error of a broken connection is reported once.                      *)
SocketError(c) == IF peer[c] = "rst" THEN "ECONNRESET" ELSE "ETIMEDOUT"

(* The kernel takes the oldest published submission.                       *)
TakeSqe ==
  /\ sqShared' = Tail(sqShared)
  /\ sqStale' = sqStale + 1
  /\ UNCHANGED <<sqLocal, cqLocal>>

-----------------------------------------------------------------------------
(* Execution of one submission inside io_uring_enter. mem is the memory of *)
(* the output buffers: a send reads it now, not when it was queued.        *)

ExecProvide ==
  LET e == Head(sqShared) IN
  /\ e.op = "provide"
  /\ TakeSqe
  /\ pool' = pool \cup {e.arg}
  /\ Post(Cqe("provide", NoId, "ok", NoBuf))
  /\ UNCHANGED <<bufmem, sockVars>>

ExecAccept ==
  LET e == Head(sqShared) IN
  /\ e.op = "accept"
  /\ TakeSqe
  /\ accepts' = accepts + 1
  /\ UNCHANGED <<cqShared, bufVars, fdTable, stage, peer, inbox, sent, recv, poll, ready, got>>

ExecArm ==
  LET e == Head(sqShared)
      c == Target(e)
  IN
  /\ e.op \in {"recv", "poll"}
  /\ TakeSqe
  /\ IF c = NoConn
     THEN /\ Post(Cqe(e.op, e.id, "EBADF", NoBuf))
          /\ UNCHANGED <<recv, poll, ready>>
     ELSE /\ recv'  = IF e.op = "recv" THEN [recv EXCEPT ![c] = e.id] ELSE recv
          /\ poll'  = IF e.op = "poll" THEN [poll EXCEPT ![c] = e.id] ELSE poll
          /\ ready' = IF e.op = "poll"
                      THEN [ready EXCEPT ![c] = inbox[c] # <<>> \/ peer[c] # "up"]
                      ELSE ready
          /\ UNCHANGED cqShared
  /\ UNCHANGED <<bufVars, fdTable, accepts, stage, peer, inbox, sent, got>>

(* MSG_DONTWAIT and SKIP_SUCCESS: a full socket buffer refuses (EAGAIN) or *)
(* cuts the data, and only failures are reported.                          *)
ExecSend(mem) ==
  LET e == Head(sqShared)
      c == Target(e)
      Fail(res) == Post(Cqe("send", e.id, res, NoBuf))
  IN
  /\ e.op = "send"
  /\ TakeSqe
  /\ \/ c = NoConn /\ Fail("EBADF") /\ UNCHANGED <<peer, got>>
     \/ /\ c # NoConn /\ peer[c] \in {"rst", "timeout"}
        /\ Fail(SocketError(c))
        /\ peer' = [peer EXCEPT ![c] = "gone"]
        /\ UNCHANGED got
     \/ c # NoConn /\ peer[c] = "gone" /\ Fail("EPIPE") /\ UNCHANGED <<peer, got>>
     \/ /\ c # NoConn /\ peer[c] \in {"up", "fin"}
        /\ \E k \in (IF LossySend THEN 0 .. e.arg ELSE {e.arg}) :
             /\ got' = [got EXCEPT ![c] = @ \o [i \in 1 .. k |-> mem[e.id].mem[i]]]
             /\ IF k = 0 THEN Fail("EAGAIN") ELSE UNCHANGED cqShared
        /\ UNCHANGED peer
  /\ UNCHANGED <<bufVars, fdTable, accepts, stage, inbox, sent, recv, poll, ready>>

-----------------------------------------------------------------------------
(* Completions the kernel posts on its own.                                *)

(* Multishot accept: the lowest free descriptor, or EMFILE, which ends one *)
(* of the armed accepts and leaves the connection in the backlog.          *)
KernelAccept(c) ==
  LET Free == {f \in Fds : fdTable[f] = NoConn} IN
  /\ stage[c] = "backlog" /\ accepts > 0
  /\ \/ \E f \in Free :
          /\ \A g \in Free : f <= g
          /\ fdTable' = [fdTable EXCEPT ![f] = c]
          /\ stage' = [stage EXCEPT ![c] = "open"]
          /\ Post(Cqe("accept", NoId, "ok", f))
          /\ UNCHANGED accepts
     \/ /\ Free = {}
        /\ accepts' = accepts - 1
        /\ Post(Cqe("accept", NoId, "error", NoBuf))
        /\ UNCHANGED <<fdTable, stage>>
  /\ UNCHANGED <<sqLocal, sqShared, sqStale, cqLocal, bufVars, peer, inbox, sent, recv, poll, ready, got>>

(* Multishot recv: a chunk goes to a provided buffer; without a buffer, at *)
(* the end of the stream or on an error the recv is over.                  *)
KernelRecv(c) ==
  LET Over(res) == /\ Post(Cqe("recv", recv[c], res, NoBuf))
                   /\ recv' = [recv EXCEPT ![c] = NoId]
                   /\ UNCHANGED <<pool, bufmem, inbox>>
  IN
  /\ recv[c] # NoId
  /\ \/ /\ inbox[c] # <<>>
        /\ \E b \in pool :
             /\ pool' = pool \ {b}
             /\ bufmem' = [bufmem EXCEPT ![b].front = Head(inbox[c])]
             /\ Post(Cqe("recv", recv[c], "ok", b))
        /\ inbox' = [inbox EXCEPT ![c] = Tail(@)]
        /\ UNCHANGED <<recv, peer>>
     \/ inbox[c] # <<>> /\ pool = {} /\ Over("ENOBUFS") /\ UNCHANGED peer
     \/ inbox[c] = <<>> /\ peer[c] \in {"fin", "gone"} /\ Over("eof") /\ UNCHANGED peer
     \/ /\ inbox[c] = <<>> /\ peer[c] \in {"rst", "timeout"}
        /\ Over(SocketError(c))
        /\ peer' = [peer EXCEPT ![c] = "gone"]
  /\ UNCHANGED <<sqLocal, sqShared, sqStale, cqLocal, fdTable, accepts, stage, sent, poll, ready, got>>

(* Multishot poll: reports an event on the connection, again and again.    *)
KernelPoll(c) ==
  /\ poll[c] # NoId /\ ready[c]
  /\ ready' = [ready EXCEPT ![c] = FALSE]
  /\ Post(Cqe("poll", poll[c], "ok", NoBuf))
  /\ UNCHANGED <<sqLocal, sqShared, sqStale, cqLocal, bufVars, fdTable, accepts, stage, peer, inbox, sent, recv, poll, got>>

-----------------------------------------------------------------------------
(* The peers.                                                              *)

PeerConnect(c) ==
  /\ stage[c] = "none"
  /\ stage' = [stage EXCEPT ![c] = "backlog"]
  /\ UNCHANGED <<ringVars, bufVars, fdTable, accepts, peer, inbox, sent, recv, poll, ready, got>>

PeerSend(c) ==
  /\ stage[c] \in {"backlog", "open"} /\ peer[c] = "up"
  /\ sent[c] < MaxReq /\ sent[c] - Len(got[c]) < Pipeline
  /\ sent' = [sent EXCEPT ![c] = @ + 1]
  /\ inbox' = [inbox EXCEPT ![c] = Append(@, <<c, sent[c] + 1>>)]
  /\ ready' = [ready EXCEPT ![c] = poll[c] # NoId]
  /\ UNCHANGED <<ringVars, bufVars, fdTable, accepts, stage, peer, recv, poll, got>>

PeerLeave(c) ==
  /\ stage[c] \in {"backlog", "open"} /\ peer[c] = "up"
  /\ \E how \in Leaves : peer' = [peer EXCEPT ![c] = how]
  /\ ready' = [ready EXCEPT ![c] = poll[c] # NoId]
  /\ UNCHANGED <<ringVars, bufVars, fdTable, accepts, stage, inbox, sent, recv, poll, got>>

-----------------------------------------------------------------------------
(* Descriptors are closed one at a time; an operation armed on the socket  *)
(* keeps the socket alive, so recv and poll are left as they are.          *)
CloseFd(f) ==
  fdTable' = IF f \in Fds THEN [fdTable EXCEPT ![f] = NoConn] ELSE fdTable

(* The ring and the listener of a worker are dropped: operations are       *)
(* cancelled, the backlog is refused, descriptors of clients stay open.    *)
KernelReset ==
  /\ sqLocal' = <<>> /\ sqShared' = <<>> /\ sqStale' = 0
  /\ cqLocal' = <<>> /\ cqShared' = <<>>
  /\ pool' = {}
  /\ bufmem' = [b \in Buffers |-> [front |-> NoUnit, tail |-> NoUnit]]
  /\ accepts' = 0
  /\ stage' = [c \in Conns |-> IF stage[c] = "backlog" THEN "lost" ELSE stage[c]]
  /\ recv' = [c \in Conns |-> NoId]
  /\ poll' = [c \in Conns |-> NoId]
  /\ ready' = [c \in Conns |-> FALSE]
  /\ UNCHANGED <<fdTable, peer, inbox, sent, got>>

-----------------------------------------------------------------------------
KernelTypeOK ==
  /\ sqLocal \in Seq(SQE) /\ sqShared \in Seq(SQE) /\ sqStale \in Nat
  /\ cqLocal \in Seq(CQE) /\ cqShared \in Seq(CQE)
  /\ pool \subseteq Buffers
  /\ bufmem \in [Buffers -> [front : Memory, tail : Memory]]
  /\ fdTable \in [Fds -> Conns \cup {NoConn}]
  /\ accepts \in Nat
  /\ stage \in [Conns -> {"none", "backlog", "open", "lost"}]
  /\ peer \in [Conns -> {"up", "fin", "rst", "timeout", "gone"}]
  /\ inbox \in [Conns -> Seq(Units)]
  /\ sent \in [Conns -> 0 .. MaxReq]
  /\ recv \in [Conns -> Ids \cup {NoId}]
  /\ poll \in [Conns -> Ids \cup {NoId}]
  /\ ready \in [Conns -> BOOLEAN]
  /\ got \in [Conns -> Seq(Memory)]
=============================================================================
