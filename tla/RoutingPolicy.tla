---------------------------- MODULE RoutingPolicy ----------------------------
(***************************************************************************)
(* RoutingPolicy.select, and how AutopilotService.execute finds the        *)
(* expected cost of the alias it got back.  Pure operators on a sequence   *)
(* of profiles [contract, alias, quality, p95, cost, fallback].            *)
(***************************************************************************)
EXTENDS Integers

CONSTANTS Models,       \* aliases of config.models, as numbers in alphabetical order
          NoFallback,
          NoRoute       \* NoEligibleRoute

ASSUME ModelsAssumption ==
  /\ Models \subseteq Nat /\ NoFallback \notin Models
  /\ NoRoute \notin [primary : Models, fallback : Models \cup {NoFallback}, trajectory : Int]

\* The reason for which select discards a profile, or "eligible".
Reason(p, contract, budget, deadline) ==
  CASE p.alias \notin Models -> "unknown_model"
    [] p.alias \in Models /\ p.quality < contract.min_quality -> "quality_below_contract"
    [] p.alias \in Models /\ p.quality >= contract.min_quality /\ p.p95 > deadline -> "deadline"
    [] p.alias \in Models /\ p.quality >= contract.min_quality /\ p.p95 <= deadline
         /\ p.cost > budget -> "budget"
    [] OTHER -> "eligible"

\* Where the profiles stand that are not discarded.
Candidates(profiles, contract, budget, deadline) ==
  {i \in DOMAIN profiles : /\ profiles[i].contract = contract.id
                           /\ Reason(profiles[i], contract, budget, deadline) = "eligible"}

\* Mutant: the worst of the cheapest comes first.
BeforeWorst(p, q) ==
  \/ p.cost < q.cost
  \/ p.cost = q.cost /\ p.quality < q.quality
  \/ p.cost = q.cost /\ p.quality = q.quality /\ p.alias < q.alias

\* The sort key: cheapest, then best, then first in the alphabet.
Before(p, q) ==
  \/ p.cost < q.cost
  \/ p.cost = q.cost /\ p.quality > q.quality
  \/ p.cost = q.cost /\ p.quality = q.quality /\ p.alias < q.alias

\* The head of the stably sorted list, and min() by cost over that list, are
\* both the first profile that no other one precedes.
Best(profiles, places) ==
  LET i == CHOOSE i \in places :
             \A k \in places : /\ ~Before(profiles[k], profiles[i])
                               /\ k < i => Before(profiles[i], profiles[k])
  IN profiles[i]

\* round(escalation_probability * cost), quality in per cent; Python rounds a
\* half to even.
RoundPercent(n) ==
  LET q == n \div 100  r == n % 100
  IN IF r > 50 \/ (r = 50 /\ q % 2 = 1) THEN q + 1 ELSE q

Route(primary, fallback, trajectory) ==
  [primary |-> primary, fallback |-> fallback, trajectory |-> trajectory]

Select(profiles, contract, budget, deadline) ==
  LET cands     == Candidates(profiles, contract, budget, deadline)
      primary   == Best(profiles, cands)
      qualified == {i \in cands : profiles[i].fallback /\ profiles[i].alias # primary.alias}
      second    == Best(profiles, qualified)
  IN CASE cands = {} -> NoRoute
       [] cands # {} /\ qualified = {} -> Route(primary.alias, NoFallback, primary.cost)
       [] cands # {} /\ qualified # {} ->
            Route(primary.alias, second.alias,
                  primary.cost + RoundPercent((100 - primary.quality) * second.cost))

\* execute reserves the cost of the first profile of the contract with that
\* alias, eligible or not.
ReservedCost(profiles, contract, alias) ==
  LET i == CHOOSE i \in DOMAIN profiles :
             /\ profiles[i].contract = contract.id /\ profiles[i].alias = alias
             /\ \A k \in 1..(i - 1) : ~(profiles[k].contract = contract.id /\ profiles[k].alias = alias)
  IN profiles[i].cost
=============================================================================
