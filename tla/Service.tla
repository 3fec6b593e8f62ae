------------------------------ MODULE Service ------------------------------
(***************************************************************************)
(* What a worker promises the peers that wait for each answer: a peer gets *)
(* the answers to its own chunks of requests, one at a time, in the order  *)
(* in which it asked, each once and none before it has asked.              *)
(***************************************************************************)
EXTENDS Naturals, Sequences

CONSTANT Conns

VARIABLES
  asked,      \* chunks of requests that the peer of a connection has sent
  answers     \* what it has received

Init ==
  /\ asked = [c \in Conns |-> 0]
  /\ answers = [c \in Conns |-> <<>>]

Ask(c) ==
  /\ asked' = [asked EXCEPT ![c] = @ + 1]
  /\ UNCHANGED answers

Answer(c) ==
  /\ Len(answers[c]) < asked[c]
  /\ answers' = [answers EXCEPT ![c] = Append(@, <<c, Len(@) + 1>>)]
  /\ UNCHANGED asked

Next == \E c \in Conns : Ask(c) \/ Answer(c)

Spec == Init /\ [][Next]_<<asked, answers>>
=============================================================================
