----------------------------- MODULE BufferPool -----------------------------
(***************************************************************************)
(* What the worker and the kernel promise each other about the provided    *)
(* buffers: a buffer has one owner at a time, and changes hands only round *)
(* the cycle                                                               *)
(*                                                                         *)
(*   worker -Offer-> ring -Take-> kernel -Fill-> cqe -Reap-> worker        *)
(*                                                                         *)
(* The worker reads a buffer only while it owns it. A worker that loses    *)
(* its ring gets every buffer back (Reclaim). Offers are made in batches,  *)
(* and never while an earlier batch is still in the ring.                  *)
(***************************************************************************)
CONSTANT Buffers

VARIABLE owner

Owners == {"worker", "ring", "kernel", "cqe"}
TypeOK == owner \in [Buffers -> Owners]

Init == owner = [b \in Buffers |-> "worker"]

Pass(S, from, to) ==
  /\ S # {} /\ \A b \in S : owner[b] = from
  /\ owner' = [b \in Buffers |-> IF b \in S THEN to ELSE owner[b]]

Offer == /\ \A b \in Buffers : owner[b] # "ring"
         /\ \E S \in SUBSET Buffers : Pass(S, "worker", "ring")
Take(b) == Pass({b}, "ring", "kernel")
Fill(b) == Pass({b}, "kernel", "cqe")
Reap(b) == Pass({b}, "cqe", "worker")
Reclaim == owner' = [b \in Buffers |-> "worker"]

Next == \/ Offer \/ Reclaim
        \/ \E b \in Buffers : Take(b) \/ Fill(b) \/ Reap(b)

Spec == Init /\ [][Next]_owner
=============================================================================
