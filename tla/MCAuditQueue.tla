---------------------------- MODULE MCAuditQueue ----------------------------
(* Instances of AuditQueue for TLC.                                        *)
EXTENDS AuditQueue, TLC

\* Processes are interchangeable.
WorkerSymmetry == Permutations(Workers)

\* Classification and extraction make at most one judge call, context QA two.
OneCall  == [j \in Jobs |-> 1]
TwoCalls == [j \in Jobs |-> 2]

\* The oldest job is context QA, the others need one call.
MixedCalls == [j \in Jobs |-> IF j = CHOOSE k \in Jobs : TRUE THEN 2 ELSE 1]
=============================================================================
