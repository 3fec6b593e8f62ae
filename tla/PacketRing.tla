----------------------------- MODULE PacketRing -----------------------------
(***************************************************************************)
(* The packet capture of network/tsocket.rs: setup_packet_socket,          *)
(* read_packets on the one shared block of a TPACKET_V3 ring, and the      *)
(* parser of module PacketParser on the range that read_packets returns.   *)
(* The repository has the functions and no caller; the caller here reads   *)
(* and parses in a loop.                                                   *)
(*                                                                         *)
(* owner is the block's status: "kernel" while it is being filled, "user"  *)
(* once retired, "free" when given back and not reopened yet. A reader     *)
(* that finds the block not its own returns None and has done nothing.     *)
(***************************************************************************)
EXTENDS PacketParser

CONSTANTS
  ProtoAt,      \* the byte the BPF program loads (23)
  Gap,          \* from the end of a frame to the start of the next
  Sizes,        \* captured lengths of frames
  Sources,      \* source addresses of packets
  IfLists,      \* what getifaddrs may answer
  NoAddr,       \* "no address"
  MaxPkts,      \* bound: packets in a block
  MaxBlocks     \* bound: blocks filled

ASSUME RingAssumption ==
  /\ ProtoAt \in Nat /\ Gap \in Nat /\ Sizes \subseteq Nat
  /\ NoAddr \notin Sources
  /\ MaxPkts \in Nat /\ MaxBlocks \in Nat

VARIABLES
  calls,        \* calls of setup_packet_socket that succeeded
  setup,        \* "running", "ready" or "failed"
  owner, block, \* status and packets of the block
  blocks,       \* blocks opened so far
  reader,       \* "idle", "walk", "parse" or "panicked"
  server_ip,
  cur, turn,    \* packet that base points to; turns of the loop
  first, last   \* range found so far; first is -1 for None
ringVars == <<calls, setup, owner, block, blocks>>
readVars == <<server_ip, cur, turn, first, last>>
vars == <<ringVars, reader, readVars, parserVars>>

(* A captured packet: where its frame starts in the block, its length, its *)
(* ethertype, whether byte ProtoAt is 6, its source.                       *)
Packets(at) == [at : {at}, len : Sizes, v4 : BOOLEAN, six : BOOLEAN, src : Sources]

Init ==
  /\ calls = 0 /\ setup = "running"
  /\ owner = "free" /\ block = <<>> /\ blocks = 0
  /\ reader = "idle" /\ server_ip = NoAddr
  /\ cur = 1 /\ turn = 0 /\ first = -1 /\ last = 0
  /\ ParserIdle

-----------------------------------------------------------------------------
(* setup_packet_socket: seven calls, each of which may fail. The function  *)
(* then returns the error, with the socket still open.                     *)
Calls == <<"socket", "PACKET_VERSION", "PACKET_RX_RING", "if_nametoindex", "bind",
           "SO_ATTACH_FILTER", "mmap">>
Did(call) == \E n \in 1 .. calls : Calls[n] = call

setup_packet_socket ==
  /\ setup = "running"
  /\ \/ /\ calls' = calls + 1
        /\ setup' = IF calls' = Len(Calls) THEN "ready" ELSE "running"
     \/ setup' = "failed" /\ UNCHANGED calls
  /\ UNCHANGED <<owner, block, blocks, reader, readVars, parserVars>>

(* BPF_TCP_FILTER: load byte ProtoAt, accept if it is 6; a packet without  *)
(* such a byte is rejected. A slip: the jump offsets are swapped.          *)
BpfSwapped(p) == ProtoAt < p.len /\ ~p.six
BPF_TCP_FILTER(p) == ProtoAt < p.len /\ p.six

(* The kernel captures from the moment the ring exists, and filters from   *)
(* the moment the program is attached. A block that was given back is      *)
(* opened again for the next packet; a retired one loses packets.          *)
Capture ==
  /\ Did("PACKET_RX_RING") /\ setup # "failed"
  /\ \E p \in Packets(IF owner = "kernel" /\ block # <<>>
                      THEN block[Len(block)].at + block[Len(block)].len + Gap ELSE Gap) :
       /\ Did("SO_ATTACH_FILTER") => BPF_TCP_FILTER(p)
       /\ \/ /\ owner = "kernel" /\ Len(block) < MaxPkts
             /\ block' = Append(block, p) /\ UNCHANGED <<owner, blocks>>
          \/ /\ owner = "free" /\ blocks < MaxBlocks
             /\ block' = <<p>> /\ owner' = "kernel" /\ blocks' = blocks + 1
  /\ UNCHANGED <<calls, setup, reader, readVars, parserVars>>

(* tp_retire_blk_tov, or the block is full.                                *)
Retire ==
  /\ owner = "kernel"
  /\ owner' = "user"
  /\ UNCHANGED <<calls, setup, block, blocks, reader, readVars, parserVars>>

-----------------------------------------------------------------------------
(* read_packets                                                            *)

(* The address of the first entry of that name that has an IPv4 address.   *)
get_ipv4_addr(ifs, name) ==
  LET Match == {n \in DOMAIN ifs : ifs[n].name = name /\ ifs[n].addr # NoAddr} IN
  IF Match = {} THEN NoAddr
  ELSE ifs[CHOOSE n \in Match : \A m \in Match : n <= m].addr

(* block_status & TP_STATUS_USER. A slip: not looked at.                   *)
StatusIgnored == TRUE
StatusUser == owner = "user"

(* The locals as the loop begins.                                          *)
Locals == cur' = 1 /\ turn' = 0 /\ first' = -1 /\ last' = 0

(* The block is the user's. Without an address, expect panics.             *)
ReadBegin ==
  /\ reader = "idle" /\ setup = "ready" /\ StatusUser
  /\ \E ifs \in IfLists : server_ip' = get_ipv4_addr(ifs, "eth0")
  /\ Locals
  /\ reader' = IF server_ip' = NoAddr THEN "panicked" ELSE "walk"
  /\ UNCHANGED <<ringVars, parserVars>>

(* The tests that end in continue.                                         *)
Wanted(p) == EthLen + IpLen <= p.len /\ p.v4 /\ p.src # server_ip

(* for _ in 0..num_pkts                                                    *)
TurnsLeft == turn < Len(block)

(* continue goes on with the next turn and the same packet.                *)
ReadSkip ==
  /\ reader = "walk" /\ TurnsLeft /\ ~Wanted(block[cur])
  /\ turn' = turn + 1
  /\ UNCHANGED <<ringVars, reader, server_ip, cur, first, last, parserVars>>

(* first_offset is set once. A slip: whenever a packet is taken.           *)
FirstMoved == block[cur].at
FirstKept == IF first = -1 THEN block[cur].at ELSE first

(* tp_next_offset is 0 in the last packet: the loop is over.               *)
ReadTake ==
  /\ reader = "walk" /\ TurnsLeft /\ Wanted(block[cur])
  /\ first' = FirstKept
  /\ last' = block[cur].at + block[cur].len
  /\ IF cur = Len(block)
     THEN turn' = Len(block) /\ UNCHANGED cur
     ELSE turn' = turn + 1 /\ cur' = cur + 1
  /\ UNCHANGED <<ringVars, reader, server_ip, parserVars>>

(* The store of TP_STATUS_KERNEL. A slip: only when packets were found.    *)
GivenBackIfFound == IF first = -1 THEN owner ELSE "free"
GivenBack == "free"

(* The block goes back to the kernel, and only then the range to the       *)
(* caller, who parses it.                                                  *)
ReadEnd ==
  /\ reader = "walk" /\ ~TurnsLeft
  /\ owner' = GivenBack /\ block' = <<>>
  /\ IF first = -1
     THEN reader' = "idle" /\ UNCHANGED parserVars
     ELSE reader' = "parse" /\ ParseBegin(last - first)
  /\ server_ip' = NoAddr /\ Locals
  /\ UNCHANGED <<calls, setup, blocks>>

Parse ==
  /\ reader = "parse" /\ (ParseTurn \/ ParseEnd)
  /\ UNCHANGED <<ringVars, reader, readVars>>

ParseReturn ==
  /\ reader = "parse" /\ ~parsing
  /\ reader' = "idle" /\ ParseDone
  /\ UNCHANGED <<ringVars, readVars>>

-----------------------------------------------------------------------------
Reader == ReadBegin \/ ReadSkip \/ ReadTake \/ ReadEnd \/ Parse \/ ParseReturn

(* The set-up failed, the reader is gone, or no more blocks are filled.    *)
Over ==
  /\ \/ setup = "failed"
     \/ reader = "panicked"
     \/ reader = "idle" /\ blocks = MaxBlocks /\ owner = "free"
  /\ UNCHANGED vars

Next == setup_packet_socket \/ Capture \/ Retire \/ Reader \/ Over

(* The calling thread runs; the kernel's timer retires a block.            *)
Spec == Init /\ [][Next]_vars /\ WF_vars(Reader) /\ WF_vars(Retire)

-----------------------------------------------------------------------------
(* Type invariant of the ring, the reader and the parser.                  *)
TypeOK ==
  /\ calls \in 0 .. Len(Calls) /\ setup \in {"running", "ready", "failed"}
  /\ owner \in {"kernel", "user", "free"} /\ blocks \in 0 .. MaxBlocks
  /\ \A n \in DOMAIN block : block[n] \in Packets(block[n].at) /\ block[n].at \in Nat
  /\ reader \in {"idle", "walk", "parse", "panicked"}
  /\ cur \in 1 .. Len(block) + 1 /\ turn \in 0 .. Len(block) /\ first \in Nat \cup {-1} /\ last \in Nat
  /\ blen \in Nat /\ offset \in Nat /\ reach \in Nat /\ turns \in Nat
  /\ parsing \in BOOLEAN

(* read_packets walks only a block that is its own, and never past its     *)
(* last packet.                                                            *)
WalkInBlock == reader = "walk" => owner = "user" /\ cur \in DOMAIN block

(* Every wanted packet that read_packets has passed lies in the range it   *)
(* returns, and the range begins and ends with wanted packets of the block.*)
RangeCoversWanted ==
  reader = "walk" =>
    /\ \A k \in DOMAIN block : k < cur /\ Wanted(block[k]) =>
         first # -1 /\ first <= block[k].at /\ block[k].at + block[k].len <= last
    /\ first # -1 => first < last /\ \E m, n \in DOMAIN block :
         /\ m <= n /\ Wanted(block[m]) /\ Wanted(block[n])
         /\ first = block[m].at /\ last = block[n].at + block[n].len

(* "Iterate over all the packets in this block." (tsocket.rs:274): when    *)
(* the loop is over, base has come to the last packet.                     *)
AllPacketsSeen == reader = "walk" /\ ~TurnsLeft => cur = Len(block)

(* The filter is attached after the capture has begun. What came in before *)
(* is all in the first block that is read: from the second on every packet *)
(* has passed BPF_TCP_FILTER.                                              *)
FilteredFromSecondBlock ==
  blocks > 1 => \A n \in DOMAIN block : ProtoAt < block[n].len /\ block[n].six

(* A retired block goes back to the kernel, unless the reader panics or    *)
(* the set-up never ended.                                                 *)
BlockGoesBack ==
  owner = "user" /\ setup = "ready" ~> owner # "user" \/ reader = "panicked"
=============================================================================
