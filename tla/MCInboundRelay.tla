--------------------------- MODULE MCInboundRelay ---------------------------
(***************************************************************************)
(* Finite instances of InboundRelay.                                       *)
(***************************************************************************)
EXTENDS InboundRelay, TLC

CONSTANTS p1, p2

\* Every policy routes to the same operators.
SameOperators == [p \in Policies |-> Operators]

\* Deliveries carry the same message, operators play the same part, and policies
\* that route to the same operators differ in their names only.
Interchangeable ==
  Permutations(Deliveries) \cup Permutations(Operators) \cup Permutations(Policies)
=============================================================================
