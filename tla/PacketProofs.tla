---------------------------- MODULE PacketProofs ----------------------------
(***************************************************************************)
(* The reader of the capture block and the parser behind it, for every     *)
(* length of headers, every filter offset and every number of packets.     *)
(***************************************************************************)
EXTENDS PacketRing, TLAPS

Payload == [start : Nat, end : Nat]
PacketType == [at : Nat, len : Sizes, v4 : BOOLEAN, six : BOOLEAN, src : Sources]

(* The frames of a block lie one behind the other.                         *)
InRow(b) == \A k, n \in 1 .. Len(b) : k < n => b[k].at + b[k].len <= b[n].at

RingTypes ==
  /\ calls \in 0 .. Len(Calls) /\ setup \in {"running", "ready", "failed"}
  /\ owner \in {"kernel", "user", "free"} /\ blocks \in 0 .. MaxBlocks
  /\ block \in Seq(PacketType) /\ InRow(block)
  /\ owner # "free" => block # <<>>
  /\ owner = "free" => block = <<>>

(* The filter was attached before the first block was given back.          *)
SetUpFirst ==
  /\ setup = "ready" => calls = Len(Calls)
  /\ setup = "running" => calls < Len(Calls)
  /\ reader # "idle" => setup = "ready"
  /\ blocks > 0 /\ owner = "free" => setup = "ready"
  /\ blocks > 1 => setup = "ready"

(* The range found so far ends with packet k: the one before the current   *)
(* packet, or the last of the block when the loop is over.                 *)
RangeEnds(k) ==
  /\ k = cur - 1 \/ (k = cur /\ turn = Len(block))
  /\ \A n \in 1 .. k : Wanted(block[n])
  /\ first = block[1].at /\ last = block[k].at + block[k].len

WalkState ==
  /\ reader \in {"idle", "walk", "parse", "panicked"}
  /\ reader # "walk" => cur = 1 /\ turn = 0 /\ first = -1 /\ last = 0
  /\ reader = "walk" =>
       /\ owner = "user" /\ cur \in 1 .. Len(block) /\ turn \in 0 .. Len(block)
       /\ \/ first = -1 /\ cur = 1 /\ last = 0
          \/ first \in Nat /\ last \in Nat /\ \E k \in 1 .. Len(block) : RangeEnds(k)

ParserState ==
  /\ blen \in Nat /\ offset \in Nat /\ reach \in Nat /\ turns \in Nat /\ parsing \in BOOLEAN
  /\ packets \in Seq(Payload)
  /\ \A n \in DOMAIN packets : packets[n].end <= offset

RingInv == RingTypes /\ SetUpFirst /\ WalkState /\ FilteredFromSecondBlock
ParserInv == ParserState /\ ReadsInBounds /\ PayloadsDisjoint /\ ParserStops

-----------------------------------------------------------------------------
(* Ends of payloads are numbers below the current offset.                  *)
LEMMA EndsBehind ==
  ASSUME ParserInv
  PROVE  \A n \in DOMAIN packets :
           packets[n].start \in Nat /\ packets[n].end \in Nat /\ packets[n].end <= offset
<1>1. \A n \in DOMAIN packets : packets[n] \in Payload /\ packets[n].end <= offset
  BY DEF ParserInv, ParserState
<1>2. \A x \in Payload : x.start \in Nat /\ x.end \in Nat
  BY DEF Payload
<1> QED
  BY <1>1, <1>2

(* A turn that goes on behind the frame and takes nothing from it.         *)
LEMMA SkipPreserves ==
  ASSUME ParserInv,
         packets' = packets, blen' = blen, parsing' = parsing, turns' = turns + 1,
         offset' \in Nat, offset + 1 <= offset', offset + 1 <= blen,
         reach' \in Nat, reach' <= blen
  PROVE  ParserInv'
<1>1. ParserState'
  <2>1. \A n \in DOMAIN packets' : packets'[n].end <= offset'
    BY EndsBehind DEF ParserInv, ParserState
  <2> QED
    BY <2>1 DEF ParserInv, ParserState
<1>2. ReadsInBounds' /\ PayloadsDisjoint'
  BY DEF ParserInv, ReadsInBounds, PayloadsDisjoint
<1>3. ParserStops'
  BY DEF ParserInv, ParserState, ParserStops
<1> QED
  BY <1>1, <1>2, <1>3 DEF ParserInv

(* A turn of parse_ipv4_tcp_packets, whatever header it meets.             *)
LEMMA TurnPreserves == ParserInv /\ ParseTurn => ParserInv'
<1> SUFFICES ASSUME ParserInv, NEW h \in Headers,
                    SkipFrame(h) \/ SkipPacket(h) \/ PushPacket(h) \/ GiveUp(h)
             PROVE  ParserInv'
  BY DEF ParseTurn
<1>0. /\ blen \in Nat /\ offset \in Nat
      /\ h.total \in Nat /\ h.ihl \in Nat /\ h.doff \in Nat
      /\ EthLen \in Nat \ {0} /\ IpLen \in Nat \ {0} /\ TcpLen \in Nat \ {0} /\ Jump \in Nat \ {0}
  BY ParserAssumption DEF Headers, ParserInv, ParserState
<1>1. CASE SkipFrame(h)
  <2>1. /\ packets' = packets /\ blen' = blen /\ parsing' = parsing /\ turns' = turns + 1
        /\ offset' = offset + Jump /\ reach' = offset + EthLen
        /\ offset + EthLen + IpLen <= blen
    BY <1>1 DEF SkipFrame, More, ip_start
  <2> QED
    BY <1>0, <2>1, SkipPreserves
<1>2. CASE SkipPacket(h)
  <2>1. /\ packets' = packets /\ blen' = blen /\ parsing' = parsing /\ turns' = turns + 1
        /\ offset' = offset + EthLen + h.total /\ reach' = offset + EthLen + IpLen
        /\ offset + EthLen + IpLen <= blen
    BY <1>2 DEF SkipPacket, More, NextFrame, ip_start
  <2> QED
    BY <1>0, <2>1, SkipPreserves
<1>3. CASE PushPacket(h)
  <2> DEFINE new == [start |-> payload_start(h), end |-> payload_end(h)]
  <2> USE <1>0
  <2>0. /\ payload_start(h) = offset + EthLen + h.ihl + h.doff
        /\ payload_end(h) = offset + EthLen + h.total
        /\ NextFrame(h) = offset + EthLen + h.total
        /\ payload_start(h) <= payload_end(h) /\ payload_end(h) <= blen
    BY <1>3 DEF PushPacket, PayloadFits, Fits, NextFrame, payload_start, payload_end, tcp_start, ip_start
  <2>1. /\ offset <= new.start /\ new.start <= new.end /\ new.end <= blen
        /\ new.end = NextFrame(h) /\ new \in Payload
    BY <2>0 DEF Payload
  <2>2. /\ packets' = Append(packets, new) /\ offset' = NextFrame(h) /\ turns' = turns + 1
        /\ reach' = tcp_start(h) + TcpLen /\ blen' = blen /\ parsing' = parsing
    BY <1>3 DEF PushPacket
  <2> HIDE DEF new
  <2>3. offset' \in Nat /\ offset + 1 <= offset' /\ reach' \in Nat /\ turns' \in Nat
    <3>1. turns \in Nat
      BY DEF ParserInv, ParserState
    <3>2. offset' = offset + EthLen + h.total /\ reach' = offset + EthLen + h.ihl + TcpLen
      BY <2>0, <2>2 DEF tcp_start, ip_start
    <3> QED
      BY <2>2, <3>1, <3>2, SMTT(30)
  <2>4. /\ packets' \in Seq(Payload)
        /\ DOMAIN packets' = 1 .. Len(packets) + 1
        /\ packets'[Len(packets) + 1] = new
        /\ \A n \in 1 .. Len(packets) : packets'[n] = packets[n]
    BY <2>1, <2>2 DEF ParserInv, ParserState
  <2>5. \A n \in DOMAIN packets' : packets'[n].end <= offset'
    <3>1. \A n \in 1 .. Len(packets) : packets[n].end \in Nat /\ packets[n].end <= offset
      BY EndsBehind DEF ParserInv, ParserState
    <3> QED
      BY <2>1, <2>2, <2>3, <2>4, <3>1, SMTT(30)
  <2>6. ReadsInBounds'
    BY <1>3, <2>2 DEF PushPacket, TcpFits, ReadsInBounds
  <2>7. ParserStops'
    BY <1>3, <2>2, <2>3 DEF PushPacket, More, ParserStops, ParserInv, ParserState
  <2>8. PayloadsDisjoint'
    <3> SUFFICES ASSUME NEW n \in DOMAIN packets'
                 PROVE  /\ packets'[n].start <= packets'[n].end /\ packets'[n].end <= blen
                        /\ \A m \in 1 .. n - 1 : packets'[m].end <= packets'[n].start
      BY <2>2 DEF PayloadsDisjoint
    <3>1. CASE n \in 1 .. Len(packets)
      <4>1. packets'[n] = packets[n] /\ \A m \in 1 .. n - 1 : packets'[m] = packets[m]
        BY <2>4, <3>1
      <4>2. /\ packets[n].start <= packets[n].end /\ packets[n].end <= blen
            /\ \A m \in 1 .. n - 1 : packets[m].end <= packets[n].start
        <5>1. n \in DOMAIN packets
          BY <3>1 DEF ParserInv, ParserState
        <5> QED
          BY <5>1 DEF PayloadsDisjoint, ParserInv
      <4> QED
        BY <4>1, <4>2
    <3>2. CASE n = Len(packets) + 1
      <4>1. \A m \in 1 .. Len(packets) : packets[m].end \in Nat /\ packets[m].end <= offset
        BY EndsBehind DEF ParserInv, ParserState
      <4>2. new.start \in Nat
        BY <2>1 DEF Payload
      <4>3. \A m \in 1 .. n - 1 : packets'[m].end <= new.start
        BY <2>1, <2>4, <3>2, <4>1, <4>2, SMTT(30)
      <4> QED
        BY <2>1, <2>4, <3>2, <4>3
    <3> QED
      BY <2>4, <3>1, <3>2
  <2> QED
    BY <2>2, <2>3, <2>4, <2>5, <2>6, <2>7, <2>8 DEF ParserInv, ParserState
<1>4. CASE GiveUp(h)
  <2>1. /\ packets' = packets /\ blen' = blen /\ offset' = offset /\ turns' = turns
        /\ parsing' = FALSE
    BY <1>4 DEF GiveUp
  <2>2. reach' = offset + EthLen + IpLen \/ (TcpFits(h) /\ reach' = tcp_start(h) + TcpLen)
    BY <1>4 DEF GiveUp, ip_start
  <2>3. reach' \in Nat /\ reach' <= blen
    BY <1>0, <1>4, <2>2 DEF GiveUp, More, TcpFits, ip_start, tcp_start
  <2> QED
    BY <2>1, <2>3 DEF ReadsInBounds, PayloadsDisjoint, ParserStops, ParserInv, ParserState
<1> QED
  BY <1>1, <1>2, <1>3, <1>4

(* The call, the end of the loop, and the return to the caller.            *)
LEMMA CallPreserves ==
  ASSUME ParserInv,
         \/ ParseEnd
         \/ ParseDone
         \/ \E n \in Nat : ParseBegin(n)
         \/ UNCHANGED parserVars
  PROVE  ParserInv'
<1> USE DEF ParserInv, ParserState, ReadsInBounds, PayloadsDisjoint, ParserStops
<1>1. CASE ParseEnd
  BY <1>1 DEF ParseEnd
<1>2. CASE ParseDone
  BY <1>2 DEF ParseDone
<1>3. CASE \E n \in Nat : ParseBegin(n)
  BY <1>3 DEF ParseBegin
<1>4. CASE UNCHANGED parserVars
  BY <1>4 DEF parserVars
<1> QED
  BY <1>1, <1>2, <1>3, <1>4

-----------------------------------------------------------------------------
LEMMA PacketFields ==
  \A p \in PacketType : /\ p.at \in Nat /\ p.len \in Nat /\ p.len \in Sizes
                        /\ p.v4 \in BOOLEAN /\ p.six \in BOOLEAN /\ p.src \in Sources
BY RingAssumption DEF PacketType

LEMMA BlockFields ==
  ASSUME RingTypes
  PROVE  \A n \in 1 .. Len(block) :
           block[n] \in PacketType /\ block[n].at \in Nat /\ block[n].len \in Nat
<1>1. \A n \in 1 .. Len(block) : block[n] \in PacketType
  BY DEF RingTypes
<1> QED
  BY <1>1, PacketFields

(* A packet that is captured behind the last one keeps the frames in row.  *)
LEMMA AppendInRow ==
  ASSUME RingTypes, block # <<>>, NEW p \in PacketType,
         p.at = block[Len(block)].at + block[Len(block)].len + Gap
  PROVE  Append(block, p) \in Seq(PacketType) /\ InRow(Append(block, p))
<1> DEFINE b == Append(block, p)
           L == Len(block)
<1>1. block \in Seq(PacketType) /\ L \in Nat \ {0}
  BY DEF RingTypes
<1>2. /\ b \in Seq(PacketType) /\ Len(b) = L + 1 /\ b[L + 1] = p
      /\ \A n \in 1 .. L : b[n] = block[n]
  BY <1>1
<1>3. \A n \in 1 .. L : block[n].at + block[n].len <= p.at
  <2> SUFFICES ASSUME NEW n \in 1 .. L
               PROVE  block[n].at + block[n].len <= p.at
    OBVIOUS
  <2>1. /\ block[n].at \in Nat /\ block[n].len \in Nat
        /\ block[L].at \in Nat /\ block[L].len \in Nat /\ p.at \in Nat /\ Gap \in Nat
    BY <1>1, BlockFields, PacketFields, RingAssumption
  <2>2. n < L => block[n].at + block[n].len <= block[L].at
    BY <1>1 DEF RingTypes, InRow
  <2> QED
    BY <1>1, <2>1, <2>2, SMTT(30)
<1>4. ASSUME NEW k \in 1 .. L + 1, NEW n \in 1 .. L + 1, k < n
      PROVE  b[k].at + b[k].len <= b[n].at
  <2> HIDE DEF b
  <2>1. CASE n = L + 1
    BY <1>1, <1>2, <1>3, <1>4, <2>1
  <2>2. CASE n \in 1 .. L
    <3>1. k \in 1 .. L
      BY <1>1, <1>4, <2>2
    <3> QED
      BY <1>2, <1>4, <2>2, <3>1 DEF RingTypes, InRow
  <2> QED
    BY <1>1, <2>1, <2>2
<1> QED
  BY <1>2, <1>4 DEF InRow

LEMMA OneInRow ==
  ASSUME NEW p \in PacketType
  PROVE  <<p>> \in Seq(PacketType) /\ InRow(<<p>>) /\ <<p>> # <<>>
BY DEF InRow

(* Nothing of the walk changes while the block and the locals do not.      *)
LEMMA WalkUnchanged ==
  ASSUME WalkState, reader' = reader, reader = "walk" => owner' = owner /\ block' = block,
         UNCHANGED readVars
  PROVE  WalkState'
BY DEF WalkState, readVars, RangeEnds, Wanted

LEMMA SetUpPreserves == RingInv /\ setup_packet_socket => RingInv'
<1> SUFFICES ASSUME RingInv, setup_packet_socket PROVE RingInv'
  OBVIOUS
<1> USE DEF RingInv
<1>0. /\ owner' = owner /\ block' = block /\ blocks' = blocks /\ reader' = reader
      /\ UNCHANGED readVars /\ setup = "running"
  BY DEF setup_packet_socket
<1>1. Len(Calls) = 7
  BY DEF Calls
<1>2. /\ calls' \in 0 .. Len(Calls) /\ setup' \in {"running", "ready", "failed"}
      /\ setup' = "ready" => calls' = Len(Calls)
      /\ setup' = "running" => calls' < Len(Calls)
  <2>1. calls \in 0 .. 7 /\ calls < 7
    BY <1>0, <1>1 DEF RingTypes, SetUpFirst
  <2>2. CASE calls' = calls + 1 /\ setup' = IF calls' = Len(Calls) THEN "ready" ELSE "running"
    BY <1>1, <2>1, <2>2
  <2>3. CASE setup' = "failed" /\ UNCHANGED calls
    BY <1>1, <2>1, <2>3
  <2> QED
    BY <2>2, <2>3 DEF setup_packet_socket
<1>3. RingTypes'
  BY <1>0, <1>2 DEF RingTypes
<1>4. SetUpFirst'
  BY <1>0, <1>2 DEF SetUpFirst
<1>5. WalkState'
  BY <1>0, WalkUnchanged
<1>6. FilteredFromSecondBlock'
  BY <1>0 DEF FilteredFromSecondBlock
<1> QED
  BY <1>3, <1>4, <1>5, <1>6

LEMMA CapturePreserves == RingInv /\ Capture => RingInv'
<1> SUFFICES ASSUME RingInv, Capture PROVE RingInv'
  OBVIOUS
<1> DEFINE where == IF owner = "kernel" /\ block # <<>>
                    THEN block[Len(block)].at + block[Len(block)].len + Gap ELSE Gap
           Grow(p) == owner = "kernel" /\ block' = Append(block, p) /\ UNCHANGED <<owner, blocks>>
           Start(p) == /\ owner = "free" /\ blocks < MaxBlocks
                       /\ block' = <<p>> /\ owner' = "kernel" /\ blocks' = blocks + 1
<1> USE DEF RingInv
<1>0. /\ calls' = calls /\ setup' = setup /\ reader' = reader /\ UNCHANGED readVars
  BY DEF Capture
<1>1. PICK p \in Packets(where) :
        (Did("SO_ATTACH_FILTER") => BPF_TCP_FILTER(p)) /\ (Grow(p) \/ Start(p))
  BY DEF Capture
<1>2. where \in Nat
  <2>1. CASE owner = "kernel" /\ block # <<>>
    <3>1. Len(block) \in 1 .. Len(block)
      BY <2>1 DEF RingTypes
    <3> QED
      BY <2>1, <3>1, BlockFields, RingAssumption
  <2>2. CASE ~(owner = "kernel" /\ block # <<>>)
    BY <2>2, RingAssumption
  <2> QED
    BY <2>1, <2>2
<1> HIDE DEF where
<1>3. p \in PacketType /\ p.at = where
  BY <1>2 DEF Packets, PacketType
<1>4. setup = "ready" => ProtoAt < p.len /\ p.six
  <2>1. ASSUME setup = "ready" PROVE Did("SO_ATTACH_FILTER")
    <3>1. calls = 7
      BY <2>1 DEF SetUpFirst, Calls
    <3>2. Calls[6] = "SO_ATTACH_FILTER"
      BY DEF Calls
    <3> QED
      BY <3>1, <3>2 DEF Did
  <2> QED
    BY <1>1, <2>1 DEF BPF_TCP_FILTER
<1>5. CASE Grow(p)
  <2>1. owner = "kernel" /\ owner' = owner /\ blocks' = blocks /\ block' = Append(block, p)
    BY <1>5
  <2>2. block # <<>> /\ block \in Seq(PacketType)
    BY <2>1 DEF RingTypes
  <2>3. p.at = block[Len(block)].at + block[Len(block)].len + Gap
    BY <1>3, <2>1, <2>2 DEF where
  <2>4. block' \in Seq(PacketType) /\ InRow(block') /\ block' # <<>>
    BY <1>3, <2>1, <2>2, <2>3, AppendInRow
  <2>5. RingTypes'
    BY <1>0, <2>1, <2>4 DEF RingTypes
  <2>6. SetUpFirst'
    BY <1>0, <2>1 DEF SetUpFirst
  <2>7. WalkState'
    BY <1>0, <2>1, WalkUnchanged DEF WalkState
  <2>8. FilteredFromSecondBlock'
    <3> SUFFICES ASSUME blocks > 1, NEW n \in DOMAIN block'
                 PROVE  ProtoAt < block'[n].len /\ block'[n].six
      BY <2>1 DEF FilteredFromSecondBlock
    <3>1. setup = "ready"
      BY DEF SetUpFirst
    <3>2. CASE n = Len(block) + 1
      BY <1>4, <2>1, <2>2, <3>1, <3>2
    <3>3. CASE n \in 1 .. Len(block)
      BY <2>1, <2>2, <3>3 DEF FilteredFromSecondBlock
    <3> QED
      BY <2>1, <2>2, <3>2, <3>3
  <2> QED
    BY <2>5, <2>6, <2>7, <2>8
<1>6. CASE Start(p)
  <2>1. /\ owner = "free" /\ owner' = "kernel" /\ block' = <<p>> /\ blocks' = blocks + 1
        /\ blocks < MaxBlocks
    BY <1>6
  <2>2. blocks \in 0 .. MaxBlocks /\ blocks' \in 0 .. MaxBlocks
    BY <2>1, RingAssumption DEF RingTypes
  <2>3. RingTypes'
    BY <1>0, <1>3, <2>1, <2>2, OneInRow DEF RingTypes
  <2>4. blocks' > 1 => setup = "ready"
    BY <2>1, <2>2 DEF SetUpFirst
  <2>5. SetUpFirst'
    BY <1>0, <2>1, <2>4 DEF SetUpFirst
  <2>6. WalkState'
    BY <1>0, <2>1, WalkUnchanged DEF WalkState
  <2>7. FilteredFromSecondBlock'
    <3>1. block' = <<p>> /\ DOMAIN <<p>> = {1} /\ <<p>>[1] = p
      BY <2>1
    <3> QED
      BY <1>4, <2>4, <3>1 DEF FilteredFromSecondBlock
  <2> QED
    BY <2>3, <2>5, <2>6, <2>7
<1> QED
  BY <1>1, <1>5, <1>6

LEMMA RetirePreserves == RingInv /\ Retire => RingInv'
<1> SUFFICES ASSUME RingInv, Retire PROVE RingInv'
  OBVIOUS
<1> USE DEF RingInv
<1>0. /\ calls' = calls /\ setup' = setup /\ block' = block /\ blocks' = blocks /\ reader' = reader
      /\ UNCHANGED readVars /\ owner = "kernel" /\ owner' = "user"
  BY DEF Retire
<1>1. RingTypes'
  BY <1>0 DEF RingTypes
<1>2. SetUpFirst'
  BY <1>0 DEF SetUpFirst
<1>3. WalkState'
  BY <1>0, WalkUnchanged DEF WalkState
<1>4. FilteredFromSecondBlock'
  BY <1>0 DEF FilteredFromSecondBlock
<1> QED
  BY <1>1, <1>2, <1>3, <1>4

(* The steps of read_packets leave the types and the filter alone.         *)
LEMMA RingUnchanged ==
  ASSUME RingInv, UNCHANGED ringVars, reader' # "idle" => setup = "ready"
  PROVE  RingTypes' /\ SetUpFirst' /\ FilteredFromSecondBlock'
<1>0. calls' = calls /\ setup' = setup /\ owner' = owner /\ block' = block /\ blocks' = blocks
  BY DEF ringVars
<1>1. RingTypes'
  BY <1>0 DEF RingInv, RingTypes
<1>2. SetUpFirst'
  BY <1>0 DEF RingInv, SetUpFirst
<1>3. FilteredFromSecondBlock'
  BY <1>0 DEF RingInv, FilteredFromSecondBlock
<1> QED
  BY <1>1, <1>2, <1>3

LEMMA ReadBeginPreserves == RingInv /\ ReadBegin => RingInv'
<1> SUFFICES ASSUME RingInv, ReadBegin PROVE RingInv'
  OBVIOUS
<1>0. /\ UNCHANGED ringVars /\ setup = "ready" /\ owner = "user"
      /\ cur' = 1 /\ turn' = 0 /\ first' = -1 /\ last' = 0
      /\ reader' \in {"panicked", "walk"}
  BY DEF ReadBegin, StatusUser, Locals
<1>1. owner' = "user" /\ block' = block /\ block \in Seq(PacketType) /\ block # <<>>
  BY <1>0 DEF RingInv, RingTypes, ringVars
<1>2. 1 \in 1 .. Len(block') /\ 0 \in 0 .. Len(block')
  BY <1>1
<1>3. WalkState'
  BY <1>0, <1>1, <1>2 DEF WalkState
<1> QED
  BY <1>0, <1>3, RingUnchanged DEF RingInv

LEMMA ReadSkipPreserves == RingInv /\ ReadSkip => RingInv'
<1> SUFFICES ASSUME RingInv, ReadSkip PROVE RingInv'
  OBVIOUS
<1>0. /\ UNCHANGED ringVars /\ reader = "walk" /\ reader' = reader /\ server_ip' = server_ip
      /\ first' = first /\ last' = last /\ cur' = cur /\ turn' = turn + 1 /\ turn < Len(block)
  BY DEF ReadSkip, TurnsLeft
<1>1. owner' = owner /\ block' = block /\ setup = "ready"
  BY <1>0 DEF ringVars, RingInv, SetUpFirst
<1>2. /\ owner = "user" /\ cur \in 1 .. Len(block) /\ turn \in 0 .. Len(block)
  BY <1>0 DEF RingInv, WalkState
<1>3. turn' \in 0 .. Len(block)
  BY <1>0, <1>2
<1>4. ASSUME NEW k \in 1 .. Len(block), RangeEnds(k) PROVE RangeEnds(k)'
  BY <1>0, <1>1, <1>2, <1>4 DEF RangeEnds, Wanted
<1>5. WalkState'
  BY <1>0, <1>1, <1>2, <1>3, <1>4 DEF RingInv, WalkState
<1> QED
  BY <1>0, <1>1, <1>5, RingUnchanged DEF RingInv

LEMMA ReadTakePreserves == RingInv /\ ReadTake => RingInv'
<1> SUFFICES ASSUME RingInv, ReadTake PROVE RingInv'
  OBVIOUS
<1>0. /\ UNCHANGED ringVars /\ reader = "walk" /\ reader' = reader /\ server_ip' = server_ip
      /\ turn < Len(block) /\ Wanted(block[cur])
      /\ first' = IF first = -1 THEN block[cur].at ELSE first
      /\ last' = block[cur].at + block[cur].len
  BY DEF ReadTake, FirstKept, TurnsLeft
<1>1. owner' = owner /\ block' = block /\ setup = "ready"
  BY <1>0 DEF ringVars, RingInv, SetUpFirst
<1>2. /\ owner = "user" /\ cur \in 1 .. Len(block) /\ turn \in 0 .. Len(block)
      /\ \/ first = -1 /\ cur = 1 /\ last = 0
         \/ first \in Nat /\ last \in Nat /\ \E k \in 1 .. Len(block) : RangeEnds(k)
  BY <1>0 DEF RingInv, WalkState
<1>3. /\ cur' \in 1 .. Len(block) /\ turn' \in 0 .. Len(block)
      /\ cur = cur' - 1 \/ (cur = cur' /\ turn' = Len(block))
  <2>1. CASE cur = Len(block)
    BY <1>0, <1>2, <2>1 DEF ReadTake
  <2>2. CASE cur # Len(block)
    BY <1>0, <1>2, <2>2 DEF ReadTake
  <2> QED
    BY <2>1, <2>2
<1>4. /\ first' = block[1].at /\ first' \in Nat /\ last' \in Nat
      /\ \A n \in 1 .. cur : Wanted(block[n])
  <2>1. /\ block[cur].at \in Nat /\ block[cur].len \in Nat
    BY <1>2, BlockFields DEF RingInv
  <2>2. CASE first = -1 /\ cur = 1
    BY <1>0, <2>1, <2>2
  <2>3. CASE first \in Nat /\ \E k \in 1 .. Len(block) : RangeEnds(k)
    <3>1. PICK k \in 1 .. Len(block) : RangeEnds(k)
      BY <2>3
    <3>2. k = cur - 1
      BY <1>0, <3>1 DEF RangeEnds
    <3>3. first = block[1].at /\ \A n \in 1 .. cur - 1 : Wanted(block[n])
      BY <3>1, <3>2 DEF RangeEnds
    <3>4. \A n \in 1 .. cur : Wanted(block[n])
      <4>1. \A n \in 1 .. cur : n \in 1 .. cur - 1 \/ n = cur
        BY <1>2
      <4> QED
        BY <1>0, <3>3, <4>1
    <3>5. first' = first /\ last' \in Nat
      BY <1>0, <2>1, <2>3, SMTT(30)
    <3> QED
      BY <2>3, <3>3, <3>4, <3>5
  <2> QED
    BY <1>2, <2>2, <2>3
<1>5. \E k \in 1 .. Len(block) : RangeEnds(k)'
  <2> SUFFICES ASSUME NEW k \in 1 .. Len(block), k = cur
               PROVE  RangeEnds(k)'
    BY <1>2
  <2>1. \A n \in 1 .. k : Wanted(block[n])'
    BY <1>0, <1>1, <1>4 DEF Wanted
  <2> QED
    BY <1>0, <1>1, <1>3, <1>4, <2>1 DEF RangeEnds
<1>6. WalkState'
  BY <1>0, <1>1, <1>2, <1>3, <1>4, <1>5 DEF WalkState
<1> QED
  BY <1>0, <1>1, <1>6, RingUnchanged DEF RingInv

(* While a range is open it is not empty: a packet that is wanted has at   *)
(* least an Ethernet and an IP header.                                     *)
LEMMA RangeIsRun ==
  ASSUME RingInv, reader = "walk", first # -1
  PROVE  /\ first \in Nat /\ last \in Nat /\ first = block[1].at /\ first < last
         /\ \A n \in 1 .. Len(block) :
              block[n].at < last => Wanted(block[n]) /\ block[n].at + block[n].len <= last
<1>0. block \in Seq(PacketType) /\ InRow(block) /\ Len(block) \in Nat
  BY DEF RingInv, RingTypes
<1>1. PICK k \in 1 .. Len(block) : RangeEnds(k)
  BY DEF RingInv, WalkState
<1>2. /\ first \in Nat /\ last \in Nat /\ first = block[1].at /\ last = block[k].at + block[k].len
      /\ \A n \in 1 .. k : Wanted(block[n])
  BY <1>1 DEF RingInv, WalkState, RangeEnds
<1>3. \A n \in 1 .. Len(block) : block[n].at \in Nat /\ block[n].len \in Nat
  BY BlockFields DEF RingInv
<1>4. \A m, n \in 1 .. Len(block) : m < n => block[m].at + block[m].len <= block[n].at
  BY <1>0 DEF InRow
<1>5. block[k].len > 0
  BY <1>2, <1>3, ParserAssumption, SMTT(30) DEF Wanted
<1>6. first < last
  <2>1. CASE k = 1
    BY <1>2, <1>3, <1>5, <2>1
  <2>2. CASE k > 1
    <3>1. block[1].at + block[1].len <= block[k].at
      BY <1>0, <1>4, <2>2
    <3>2. block[1].at \in Nat /\ block[1].len \in Nat /\ block[k].at \in Nat /\ block[k].len \in Nat
      BY <1>0, <1>3
    <3>3. block[1].at < block[k].at + block[k].len
      BY <1>5, <3>1, <3>2
    <3> QED
      BY <1>2, <3>3
  <2> QED
    BY <2>1, <2>2
<1>7. ASSUME NEW n \in 1 .. Len(block), block[n].at < last
      PROVE  Wanted(block[n]) /\ block[n].at + block[n].len <= last
  <2>1. n <= k
    <3> SUFFICES ASSUME k < n PROVE FALSE
      BY <1>0
    <3>1. last <= block[n].at
      BY <1>2, <1>4
    <3> QED
      BY <1>2, <1>3, <1>7, <3>1
  <2>2. CASE n = k
    BY <1>2, <1>3, <2>2
  <2>3. CASE n < k
    <3>1. block[n].at + block[n].len <= block[k].at
      BY <1>4, <2>3
    <3>2. block[n].at \in Nat /\ block[n].len \in Nat /\ block[k].at \in Nat /\ block[k].len \in Nat
      BY <1>3
    <3> QED
      BY <1>2, <2>1, <3>1, <3>2, SMTT(30)
  <2> QED
    BY <2>1, <2>2, <2>3
<1> QED
  BY <1>2, <1>6, <1>7

LEMMA ReadEndPreserves == RingInv /\ ParserInv /\ ReadEnd => RingInv' /\ ParserInv'
<1> SUFFICES ASSUME RingInv, ParserInv, ReadEnd PROVE RingInv' /\ ParserInv'
  OBVIOUS
<1>0. /\ calls' = calls /\ setup' = setup /\ blocks' = blocks /\ reader = "walk"
      /\ owner' = "free" /\ block' = <<>> /\ reader' \in {"idle", "parse"}
      /\ cur' = 1 /\ turn' = 0 /\ first' = -1 /\ last' = 0
  BY DEF ReadEnd, GivenBack, Locals
<1>1. setup = "ready"
  BY <1>0 DEF RingInv, SetUpFirst
<1>2. RingTypes'
  BY <1>0 DEF RingInv, RingTypes, InRow
<1>3. SetUpFirst'
  BY <1>0, <1>1 DEF RingInv, SetUpFirst
<1>4. WalkState'
  BY <1>0 DEF WalkState
<1>5. FilteredFromSecondBlock'
  BY <1>0 DEF FilteredFromSecondBlock
<1>6. ParserInv'
  <2>1. CASE first = -1
    BY <2>1, CallPreserves DEF ReadEnd
  <2>2. CASE first # -1
    <3>1. last - first \in Nat
      BY <1>0, <2>2, RangeIsRun
    <3>2. ParseBegin(last - first)
      BY <2>2 DEF ReadEnd
    <3> QED
      BY <3>1, <3>2, CallPreserves
  <2> QED
    BY <2>1, <2>2
<1> QED
  BY <1>2, <1>3, <1>4, <1>5, <1>6 DEF RingInv

LEMMA ParsePreserves == RingInv /\ ParserInv /\ (Parse \/ ParseReturn) => RingInv' /\ ParserInv'
<1> SUFFICES ASSUME RingInv, ParserInv, Parse \/ ParseReturn PROVE RingInv' /\ ParserInv'
  OBVIOUS
<1>0. /\ UNCHANGED ringVars /\ UNCHANGED readVars /\ reader = "parse" /\ reader' \in {"parse", "idle"}
  BY DEF Parse, ParseReturn
<1>1. cur' = cur /\ turn' = turn /\ first' = first /\ last' = last
  BY <1>0 DEF readVars
<1>2. WalkState'
  BY <1>0, <1>1 DEF RingInv, WalkState
<1>3. setup = "ready"
  BY <1>0 DEF RingInv, SetUpFirst
<1>4. RingInv'
  BY <1>0, <1>2, <1>3, RingUnchanged DEF RingInv
<1>5. ParserInv'
  BY TurnPreserves, CallPreserves DEF Parse, ParseReturn
<1> QED
  BY <1>4, <1>5

-----------------------------------------------------------------------------
LEMMA PacketInit == Init => RingInv /\ ParserInv
<1> SUFFICES ASSUME Init PROVE RingInv /\ ParserInv
  OBVIOUS
<1>1. Len(Calls) = 7
  BY DEF Calls
<1>2. RingTypes
  BY <1>1, RingAssumption DEF Init, RingTypes, InRow
<1>3. SetUpFirst
  BY <1>1 DEF Init, SetUpFirst
<1>4. WalkState
  BY DEF Init, WalkState
<1>5. FilteredFromSecondBlock
  BY DEF Init, FilteredFromSecondBlock
<1>6. ParserInv
  <2>1. ParserState
    <3>1. blen = 0 /\ offset = 0 /\ packets = <<>> /\ reach = 0 /\ turns = 0
      BY DEF Init, ParserIdle
    <3>2. parsing \in BOOLEAN
      BY DEF Init, ParserIdle
    <3>3. packets \in Seq(Payload) /\ \A n \in DOMAIN packets : packets[n].end <= offset
      BY <3>1
    <3> QED
      BY <3>1, <3>2, <3>3 DEF ParserState
  <2>2. ReadsInBounds /\ ParserStops
    BY DEF Init, ParserIdle, ReadsInBounds, ParserStops
  <2>3. PayloadsDisjoint
    BY DEF Init, ParserIdle, PayloadsDisjoint
  <2> QED
    BY <2>1, <2>2, <2>3 DEF ParserInv
<1> QED
  BY <1>2, <1>3, <1>4, <1>5, <1>6 DEF RingInv

LEMMA PacketNext == RingInv /\ ParserInv /\ [Next]_vars => RingInv' /\ ParserInv'
<1> SUFFICES ASSUME RingInv, ParserInv, [Next]_vars PROVE RingInv' /\ ParserInv'
  OBVIOUS
<1>1. CASE setup_packet_socket
  BY <1>1, SetUpPreserves, CallPreserves DEF setup_packet_socket
<1>2. CASE Capture
  BY <1>2, CapturePreserves, CallPreserves DEF Capture
<1>3. CASE Retire
  BY <1>3, RetirePreserves, CallPreserves DEF Retire
<1>4. CASE ReadBegin
  BY <1>4, ReadBeginPreserves, CallPreserves DEF ReadBegin
<1>5. CASE ReadSkip
  BY <1>5, ReadSkipPreserves, CallPreserves DEF ReadSkip
<1>6. CASE ReadTake
  BY <1>6, ReadTakePreserves, CallPreserves DEF ReadTake
<1>7. CASE ReadEnd
  BY <1>7, ReadEndPreserves
<1>8. CASE Parse \/ ParseReturn
  BY <1>8, ParsePreserves
<1>9. CASE UNCHANGED vars
  <2>1. UNCHANGED ringVars /\ UNCHANGED readVars /\ UNCHANGED parserVars /\ reader' = reader
    BY <1>9 DEF vars
  <2>2. WalkState'
    BY <2>1, WalkUnchanged DEF RingInv, ringVars
  <2>3. reader' # "idle" => setup = "ready"
    BY <2>1 DEF RingInv, SetUpFirst
  <2> QED
    BY <2>1, <2>2, <2>3, RingUnchanged, CallPreserves DEF RingInv
<1> QED
  BY <1>1, <1>2, <1>3, <1>4, <1>5, <1>6, <1>7, <1>8, <1>9 DEF Next, Reader, Over

THEOREM PacketInvariant == Spec => [](RingInv /\ ParserInv)
<1>1. Init => RingInv /\ ParserInv
  BY PacketInit
<1>2. RingInv /\ ParserInv /\ [Next]_vars => (RingInv /\ ParserInv)'
  BY PacketNext
<1> QED
  BY <1>1, <1>2, PTL DEF Spec

(* No turn of parse_ipv4_tcp_packets indexes beyond its buffer.            *)
THEOREM ReadsStayInBounds == Spec => []ReadsInBounds
BY PacketInvariant, PTL DEF ParserInv

(* The payloads of parse_ipv4_tcp_packets are disjoint slices in order.    *)
THEOREM PayloadsStayDisjoint == Spec => []PayloadsDisjoint
BY PacketInvariant, PTL DEF ParserInv

(* The loop of parse_ipv4_tcp_packets has no more turns than bytes.        *)
THEOREM ParserAlwaysStops == Spec => []ParserStops
BY PacketInvariant, PTL DEF ParserInv

(* From the second block on every packet has passed BPF_TCP_FILTER.        *)
THEOREM LaterBlocksFiltered == Spec => []FilteredFromSecondBlock
BY PacketInvariant, PTL DEF RingInv

(* read_packets walks only its own block and stays inside it.              *)
THEOREM WalkStaysInBlock == Spec => []WalkInBlock
<1>1. RingInv => WalkInBlock
  BY DEF RingInv, RingTypes, WalkState, WalkInBlock
<1> QED
  BY <1>1, PacketInvariant, PTL

(* The range that read_packets returns covers every wanted packet it has   *)
(* passed, and begins and ends with wanted ones.                           *)
THEOREM RangeAlwaysCovers == Spec => []RangeCoversWanted
<1>1. ASSUME RingInv, reader = "walk"
      PROVE  /\ \A k \in DOMAIN block : k < cur /\ Wanted(block[k]) =>
                  first # -1 /\ first <= block[k].at /\ block[k].at + block[k].len <= last
             /\ first # -1 => first < last /\ \E m, n \in DOMAIN block :
                  /\ m <= n /\ Wanted(block[m]) /\ Wanted(block[n])
                  /\ first = block[m].at /\ last = block[n].at + block[n].len
  <2>0. /\ DOMAIN block = 1 .. Len(block) /\ Len(block) \in Nat /\ cur \in 1 .. Len(block)
        /\ \A m, n \in 1 .. Len(block) : m < n => block[m].at + block[m].len <= block[n].at
    BY <1>1 DEF RingInv, RingTypes, InRow, WalkState
  <2>1. \A n \in 1 .. Len(block) : block[n].at \in Nat /\ block[n].len \in Nat
    BY <1>1, BlockFields DEF RingInv
  <2>2. CASE first = -1 /\ cur = 1
    BY <2>0, <2>2
  <2>3. CASE first \in Nat /\ \E e \in 1 .. Len(block) : RangeEnds(e)
    <3>1. PICK e \in 1 .. Len(block) : RangeEnds(e)
      BY <2>3
    <3>2. /\ \A n \in 1 .. e : Wanted(block[n])
          /\ first = block[1].at /\ last = block[e].at + block[e].len
          /\ e = cur - 1 \/ e = cur
      BY <3>1 DEF RangeEnds
    <3>3. first # -1 /\ first < last
      BY <1>1, <2>3, RangeIsRun
    <3>4. ASSUME NEW k \in 1 .. Len(block), k < cur
          PROVE  first <= block[k].at /\ block[k].at + block[k].len <= last
      <4>1. k <= e /\ 1 \in 1 .. Len(block)
        BY <2>0, <3>2, <3>4
      <4>2. block[1].at <= block[k].at
        <5>1. CASE k = 1
          BY <2>1, <5>1
        <5>2. CASE k # 1
          <6>1. block[1].at + block[1].len <= block[k].at
            BY <2>0, <4>1, <5>2
          <6>2. block[1].at \in Nat /\ block[1].len \in Nat /\ block[k].at \in Nat
            BY <2>1, <4>1
          <6> QED
            BY <6>1, <6>2
        <5> QED
          BY <5>1, <5>2
      <4>3. block[k].at + block[k].len <= block[e].at + block[e].len
        <5>0. /\ block[k].at \in Nat /\ block[k].len \in Nat
              /\ block[e].at \in Nat /\ block[e].len \in Nat
          BY <2>1
        <5>1. CASE k = e
          BY <5>0, <5>1
        <5>2. CASE k # e
          <6>1. block[k].at + block[k].len <= block[e].at
            BY <2>0, <4>1, <5>2
          <6> QED
            BY <5>0, <6>1
        <5> QED
          BY <5>1, <5>2
      <4> QED
        BY <3>2, <4>2, <4>3
    <3>5. /\ 1 \in DOMAIN block /\ e \in DOMAIN block /\ 1 <= e
          /\ Wanted(block[1]) /\ Wanted(block[e])
      BY <2>0, <3>2
    <3> QED
      BY <2>0, <3>2, <3>3, <3>4, <3>5
  <2> QED
    BY <1>1, <2>2, <2>3 DEF RingInv, WalkState
<1>2. RingInv => RangeCoversWanted
  BY <1>1 DEF RangeCoversWanted
<1> QED
  BY <1>2, PacketInvariant, PTL

(* Ring, reader and parser are type correct.                               *)
THEOREM PacketTypes == Spec => []TypeOK
<1>1. RingInv /\ ParserInv => TypeOK
  <2> SUFFICES ASSUME RingInv, ParserInv PROVE TypeOK
    OBVIOUS
  <2>1. block \in Seq(PacketType) /\ Len(block) \in Nat /\ DOMAIN block = 1 .. Len(block)
    BY DEF RingInv, RingTypes
  <2>2. \A n \in DOMAIN block : block[n] \in Packets(block[n].at) /\ block[n].at \in Nat
    <3>1. \A p \in PacketType : p \in Packets(p.at) /\ p.at \in Nat
      BY DEF PacketType, Packets
    <3> QED
      BY <2>1, <3>1
  <2>3. /\ cur \in 1 .. Len(block) + 1 /\ turn \in 0 .. Len(block) /\ first \in Nat \cup {-1}
        /\ last \in Nat
    <3>1. CASE reader = "walk"
      BY <2>1, <3>1 DEF RingInv, WalkState
    <3>2. CASE reader # "walk"
      BY <2>1, <3>2 DEF RingInv, WalkState
    <3> QED
      BY <3>1, <3>2
  <2> QED
    BY <2>2, <2>3 DEF TypeOK, RingInv, RingTypes, WalkState, ParserInv, ParserState
<1> QED
  BY <1>1, PacketInvariant, PTL
=============================================================================
