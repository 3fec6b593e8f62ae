---------------------------- MODULE MC_PacketRing ----------------------------
(* PacketRing with headers of one and two bytes, so that every length test *)
(* is met from both sides by blocks of two frames.                         *)
EXTENDS PacketRing

(* eth0 with an address behind an entry without one; no eth0, or no list   *)
(* at all because getifaddrs failed.                                       *)
IfListsDef ==
  { <<[name |-> "lo", addr |-> "local"], [name |-> "eth0", addr |-> NoAddr],
      [name |-> "eth0", addr |-> "server"]>>,
    <<[name |-> "lo", addr |-> "local"]>>,
    <<>> }
=============================================================================
