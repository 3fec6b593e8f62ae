----------------------------- MODULE MC_Reactor -----------------------------
(***************************************************************************)
(* Instances of the reactor for TLC.                                       *)
(***************************************************************************)
EXTENDS Reactor, TLC

(* Peers are interchangeable: descriptors are numbers and stay as they are.*)
Symmetry == Permutations(Conns)
=============================================================================
