----------------------------- MODULE Statistics -----------------------------
(***************************************************************************)
(* What scripts/benchmark.py makes of measured rows: is a candidate right, *)
(* and the figures of a profile.  Pure operators.                          *)
(***************************************************************************)
EXTENDS Integers, FiniteSetsExt, Functions

\* The quotient, rounded up.
CeilDiv(a, b) == (a + b - 1) \div b

\* Mutant: citations are not looked at.
EvaluateUncited(family, cand, right, goldAbstains) ==
  /\ cand.fits
  /\ IF family = "context_qa" THEN cand.abstained = goldAbstains /\ (goldAbstains \/ right) ELSE right

\* evaluate.  A candidate is as in Verifier; right: its fields, its label or
\* the terms of its answer are those of the gold answer; only the gold answer
\* to a question abstains.
Evaluate(family, cand, right, goldAbstains) ==
  /\ cand.fits
  /\ family # "context_qa" => right
  /\ family = "context_qa" =>
       /\ cand.abstained = goldAbstains
       /\ goldAbstains \/ (right /\ cand.cited)

\* Mutant: the plain success rate.
WilsonMidpoint(successes, n) == (100 * successes) \div n

\* wilson_lower in per cent, rounded down, n > 0: the largest q below 1 and at most the
\* rate p, with n(p - q)^2 >= z^2 q(1 - q), where z^2 = 1.96^2 = 2401 / 625.
WilsonLower(successes, n) ==
  Max({q \in 0..99 :
         LET d == 100 * successes - q * n
         IN d >= 0 /\ d * d >= CeilDiv(2401 * n * q * (100 - q), 625)})

\* What comes at this place when the values are sorted.
Ranked(values, rank) ==
  Min({v \in Range(values) : Cardinality({j \in DOMAIN values : values[j] <= v}) >= rank})

\* percentile95 of values that are given by row, at least one.
Percentile95(values) == Ranked(values, Max({1, CeilDiv(95 * Cardinality(DOMAIN values), 100)}))

\* Mutant: the mean is rounded down.
MeanCostDown(costs, unknown) ==
  IF \E j \in DOMAIN costs : costs[j] = unknown THEN unknown
  ELSE SumFunction(costs) \div Cardinality(DOMAIN costs)

\* mean_cost_microusd: unknown as soon as one cost is.
MeanCost(costs, unknown) ==
  IF \E j \in DOMAIN costs : costs[j] = unknown THEN unknown
  ELSE CeilDiv(SumFunction(costs), Cardinality(DOMAIN costs))
=============================================================================
