--------------------------- MODULE MCRequestFlow ---------------------------
(* Instances of RequestFlow for TLC.                                       *)
EXTENDS RequestFlow, TLC

Symmetry == Permutations(Executions)

\* Body "plain" has a primary and a fallback, "unroutable" no route.
Routes == [b \in Bodies |-> IF b = "plain" THEN <<1, 2>> ELSE <<>>]
=============================================================================
