---------------------------- MODULE MCProfiles ----------------------------
(* An instance of Profiles for TLC: one contract, two cases on the first   *)
(* model and one on the second, which is the strong one; the profiles are  *)
(* given to RoutingPolicy as a service that loads the file would.          *)
EXTENDS Profiles, RoutingPolicy, SequencesExt

CONSTANTS x1, x2, y

ItemKeys == [i \in Items |-> <<"c", IF i = y THEN 2 ELSE 1>>]
\* --limit 1, no limit, and --models strong.
Pilots   == {{x1}, {x1, x2}, {y}}
Reply(good, total) == [good |-> good, total |-> total, latency |-> 1]
Answers  == [i \in Items |->
               IF i = y THEN {Reply(TRUE, 2)}
               ELSE {Reply(TRUE, IF i = x1 THEN 1 ELSE 2), Reply(i = x2, None)}]

\* One success of one is enough, one of two is not.
Contract == [id |-> "c", min_quality |-> 20]

(* On every file that the scripts write, validated or not, what execute     *)
(* reserves for the models of a route fits the budget it was selected for,  *)
(* though execute looks the price up by contract and alias alone.           *)
ReservationFromFile ==
  \A f \in files, budget \in 0..2 : \A profiles \in SetToSeqs(f.profiles) :
    LET route == Select(profiles, Contract, budget, 1) IN
    route # NoRoute =>
         \A a \in {route.primary, route.fallback} \ {NoFallback} :
           ReservedCost(profiles, Contract, a) <= budget
=============================================================================
