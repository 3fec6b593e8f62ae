---------------------------- MODULE PacketParser ----------------------------
(***************************************************************************)
(* parse_ipv4_tcp_packets of network/tsocket.rs: the walk over a buffer of *)
(* Ethernet frames that cuts out the payloads of TCP packets.              *)
(*                                                                         *)
(* Nothing is assumed of the bytes: each turn of the loop meets any header *)
(* at all, so the results hold too while somebody else writes the buffer.  *)
(***************************************************************************)
EXTENDS Integers, Sequences

CONSTANTS
  EthLen,     \* an Ethernet header (14)
  IpLen,      \* the part of the IP header that is always there (20)
  TcpLen,     \* the same for TCP (20)
  Jump,       \* how far a frame that is not IPv4 is skipped (64)
  HeaderLens, \* values of ihl * 4 and of the TCP data offset (0, 4 .. 60)
  TotalLens   \* values of the IP packet's total length (16 bits)

ASSUME ParserAssumption ==
  /\ {EthLen, IpLen, TcpLen, Jump} \subseteq Nat \ {0}
  /\ HeaderLens \subseteq Nat
  /\ TotalLens \subseteq Nat

VARIABLES
  blen,       \* buffer.len()
  offset,     \* start of the current frame
  packets,    \* payload slices of the packets found
  reach,      \* one more than the highest index read in the last turn
  turns,      \* turns of the loop that went on with another frame
  parsing     \* is the loop still running?
parserVars == <<blen, offset, packets, reach, turns, parsing>>

Headers == [v4 : BOOLEAN, total : TotalLens, ihl : HeaderLens, tcp : BOOLEAN, doff : HeaderLens]

ip_start == offset + EthLen
payload_end(h) == ip_start + h.total
tcp_start(h) == ip_start + h.ihl
payload_start(h) == tcp_start(h) + h.doff

ParserIdle == blen = 0 /\ offset = 0 /\ packets = <<>> /\ reach = 0 /\ turns = 0 /\ parsing = FALSE

(* The call, with a buffer of n bytes.                                     *)
ParseBegin(n) ==
  /\ blen' = n /\ offset' = 0 /\ packets' = <<>> /\ reach' = 0 /\ turns' = 0
  /\ parsing' = TRUE

ParseDone ==
  /\ blen' = 0 /\ offset' = 0 /\ packets' = <<>> /\ reach' = 0 /\ turns' = 0
  /\ UNCHANGED parsing

More == parsing /\ offset + EthLen + IpLen <= blen

ParseEnd ==
  /\ parsing /\ ~More
  /\ parsing' = FALSE
  /\ UNCHANGED <<blen, offset, packets, reach, turns>>

(* Not IPv4: jump ahead.                                                   *)
SkipFrame(h) ==
  /\ More /\ ~h.v4
  /\ offset' = offset + Jump /\ turns' = turns + 1
  /\ reach' = ip_start
  /\ UNCHANGED <<blen, packets, parsing>>

Fits(h) == payload_end(h) <= blen

(* How the walk leaves an IP packet. A slip: the Ethernet header that came *)
(* before it is not counted.                                               *)
NextFrameShort(h) == offset + h.total
NextFrame(h) == offset + EthLen + h.total

(* An IP packet that is not TCP.                                           *)
SkipPacket(h) ==
  /\ More /\ h.v4 /\ Fits(h) /\ ~h.tcp
  /\ offset' = NextFrame(h) /\ turns' = turns + 1
  /\ reach' = ip_start + IpLen
  /\ UNCHANGED <<blen, packets, parsing>>

(* Is the fixed part of the TCP header in the buffer? A slip: no check.    *)
NoTcpCheck(h) == TRUE
TcpFits(h) == tcp_start(h) + TcpLen <= blen

(* Does the payload lie in its packet? A slip: its end is not compared.    *)
OnlyStartChecked(h) == payload_start(h) <= blen
PayloadFits(h) == payload_start(h) <= blen /\ Fits(h) /\ payload_start(h) <= payload_end(h)

PushPacket(h) ==
  /\ More /\ h.v4 /\ Fits(h) /\ h.tcp /\ TcpFits(h) /\ PayloadFits(h)
  /\ packets' = Append(packets, [start |-> payload_start(h), end |-> payload_end(h)])
  /\ offset' = NextFrame(h) /\ turns' = turns + 1
  /\ reach' = tcp_start(h) + TcpLen
  /\ UNCHANGED <<blen, parsing>>

(* A packet or a header that does not fit ends the walk.                   *)
GiveUp(h) ==
  /\ More /\ h.v4
  /\ \/ ~Fits(h) /\ reach' = ip_start + IpLen
     \/ Fits(h) /\ h.tcp /\ ~TcpFits(h) /\ reach' = ip_start + IpLen
     \/ Fits(h) /\ h.tcp /\ TcpFits(h) /\ ~PayloadFits(h) /\ reach' = tcp_start(h) + TcpLen
  /\ parsing' = FALSE
  /\ UNCHANGED <<blen, offset, packets, turns>>

ParseTurn ==
  \E h \in Headers : SkipFrame(h) \/ SkipPacket(h) \/ PushPacket(h) \/ GiveUp(h)

-----------------------------------------------------------------------------
(* No turn of parse_ipv4_tcp_packets indexes beyond the buffer, whatever   *)
(* lengths the headers claim.                                              *)
ReadsInBounds == reach <= blen

(* The payloads of parse_ipv4_tcp_packets are slices of the buffer, in the *)
(* order of their frames, and no two overlap.                              *)
PayloadsDisjoint ==
  \A n \in DOMAIN packets :
    /\ packets[n].start <= packets[n].end /\ packets[n].end <= blen
    /\ \A m \in 1 .. n - 1 : packets[m].end <= packets[n].start

(* The loop of parse_ipv4_tcp_packets ends, whatever lengths the headers   *)
(* claim: each turn moves the offset, so there are at most blen turns.     *)
ParserStops == turns <= offset /\ turns <= blen
=============================================================================
