--------------------------- MODULE MC_RequestPath ---------------------------
(***************************************************************************)
(* The path of every short chunk with any marks and either two spaces      *)
(* anywhere or two at the same offsets behind every mark: enough for every *)
(* outcome of parse_one_manual and for chunks of complete requests. The    *)
(* lengths of the parts of a response are those of main.rs.                *)
(***************************************************************************)
EXTENDS RequestPath

StatusLenDef == [plaintext |-> 17, json |-> 17, not_found |-> 24]
TypeLenDef == [plaintext |-> 41, json |-> 47, not_found |-> 41]
BodyLenDef == [plaintext |-> 13, json |-> 27, not_found |-> 11]

MCInit ==
  /\ len \in 0 .. MaxLen
  /\ hits \in {S \in SUBSET (0 .. len - Mark) : \A p, q \in S : p < q => p + Mark <= q}
  /\ spaces \in {{}} \cup {{a, b} : a, b \in (0 .. len - 1) \ Letters}
                \cup {{p + d : p \in hits, d \in {a, b}} \ Letters : a, b \in Mark .. Width - 1}
  /\ ScanInit /\ PathInit

MCSpec == MCInit /\ [][PathNext]_<<vars, pathVars>>
=============================================================================
