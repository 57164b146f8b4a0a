---------------------------- MODULE MCExperiment ----------------------------
(* Instances of Experiment for TLC: a gated question that starts on the    *)
(* economy tier, and a case that the judge routes.                         *)
EXTENDS Experiment

ItemArms   == [i \in Items |-> IF i \in GateItems THEN "jev_gated" ELSE "llm_judge_router"]
ItemRoutes == [i \in Items |-> <<"economy", "balanced">>]
Prices     == [t \in Tiers |-> 1]
Reports    == [t \in Tiers |-> {1}]

\* A limited run, and the whole of it.
Prefixes == {GateItems, Items}
=============================================================================
