----------------------------- MODULE Experiment -----------------------------
(***************************************************************************)
(* scripts/final_experiment.py: run_experiment measures every selected     *)
(* pair of a case and an arm with run_case, several at a time.  run_case   *)
(* routes, generates, verifies and, in arm jev_gated, asks the gate,       *)
(* escalating once; each reply of a provider is one step.                  *)
(***************************************************************************)
EXTENDS ResumableRun

CONSTANTS
  ArmOf,            \* ArmOf[i]: one of Arms
  GateItems,        \* items of arm jev_gated whose contract is context_qa_v1
  FixedRoute,       \* FixedRoute[i]: what RoutingPolicy or CONTRACT_RULE_PRIMARY give a jev_gated item
  Price,            \* Price[t]: estimated_call_cost of a tier
  TierCosts,        \* TierCosts[t]: what a call to a tier may be reported to cost
  DecisionEstimate, \* DECISION_CALL_ESTIMATE_MICROUSD
  DecisionCosts,    \* what a decision call may be reported to cost
  VerifyCalls,      \* most decision calls of one verification
  Concurrency,      \* --concurrency
  MaxStarts         \* bound on how often the script is started

Arms  == {"fixed_balanced", "fixed_strong", "llm_judge_router", "jev_gated"}
Tiers == {"economy", "balanced", "strong"}
Calls == {"router", "generation", "verification", "gate"}

ASSUME ArmsAssumption ==
  /\ ArmOf \in [Items -> Arms]
  /\ GateItems \subseteq {i \in Items : ArmOf[i] = "jev_gated"}
  /\ FixedRoute \in [Items -> Seq(Tiers)] /\ \A i \in Items : Len(FixedRoute[i]) \in 1..2
ASSUME PricesAssumption ==
  /\ Price \in [Tiers -> Nat] /\ DecisionCosts \subseteq Nat
  \* the estimate assumes that all of max_output_tokens is used
  /\ TierCosts \in [Tiers -> SUBSET Nat] /\ \A t \in Tiers : TierCosts[t] \subseteq 0..Price[t]
  /\ {DecisionEstimate, VerifyCalls, MaxStarts} \subseteq Nat /\ Concurrency \in Nat \ {0}

VARIABLES
  starts,
  stage,     \* where the task of an item is
  route,     \* aliases still to try, the current one first
  todo, ok,  \* decision calls still to make; no check failed so far
  paid,      \* sum of the reported costs
  hidden     \* the kinds of calls whose cost was not reported

caseVars == <<stage, route, todo, ok, paid, hidden>>
vars     == <<runVars, starts, caseVars>>

\* Waiting for a call, in the semaphore.
InSlot == {"routing", "generating", "verifying", "gating"}
Stage  == {"out", "queued", "writing"} \cup InSlot

TypeOK ==
  /\ RunTypeOK
  /\ starts \in 0..MaxStarts
  /\ stage  \in [Items -> Stage]
  /\ route  \in [Items -> Seq(Tiers)]
  /\ todo   \in [Items -> 0..VerifyCalls]
  /\ ok     \in [Items -> BOOLEAN]
  /\ paid   \in [Items -> Nat]
  /\ hidden \in [Items -> SUBSET Calls]

Init ==
  /\ RunInit
  /\ starts = 0
  /\ stage  = [i \in Items |-> "out"]
  /\ route  = [i \in Items |-> <<>>]
  /\ todo   = [i \in Items |-> 0]
  /\ ok     = [i \in Items |-> FALSE]
  /\ paid   = [i \in Items |-> 0]
  /\ hidden = [i \in Items |-> {}]

-----------------------------------------------------------------------------
\* Mutant: the fallback is left out of the estimate.
PreflightOnce(i) ==
  CASE ArmOf[i] = "fixed_strong"     -> Price["strong"] + 2 * DecisionEstimate
    [] ArmOf[i] = "fixed_balanced"   -> Price["balanced"] + 2 * DecisionEstimate
    [] ArmOf[i] = "llm_judge_router" -> Price["economy"] + Price["strong"] + 2 * DecisionEstimate
    [] ArmOf[i] = "jev_gated"        -> Price["strong"] + 3 * DecisionEstimate

\* preflight_case_cost.
Preflight(i) ==
  CASE ArmOf[i] = "fixed_strong"     -> Price["strong"] + 2 * DecisionEstimate
    [] ArmOf[i] = "fixed_balanced"   -> Price["balanced"] + Price["strong"] + 2 * DecisionEstimate
    [] ArmOf[i] = "llm_judge_router" -> Price["economy"] + 2 * Price["strong"] + 2 * DecisionEstimate
    [] ArmOf[i] = "jev_gated"        -> Price["economy"] + Price["strong"] + 3 * DecisionEstimate

Estimates == [i \in Items |-> Preflight(i)]

\* ESCALATION_TIER: what a primary falls back to.
WithEscalation(tier) ==
  CASE tier = "economy"  -> <<"economy", "balanced">>
    [] tier = "balanced" -> <<"balanced", "strong">>
    [] tier = "strong"   -> <<"strong">>

InitialRoute(i) ==
  CASE ArmOf[i] = "fixed_strong"   -> <<"strong">>
    [] ArmOf[i] = "fixed_balanced" -> <<"balanced", "strong">>
    [] ArmOf[i] = "jev_gated"      -> FixedRoute[i]

Start(S) ==
  /\ starts < MaxStarts
  /\ StartRun(S, Estimates)
  /\ starts' = starts + 1
  /\ stage'  = [i \in Items |-> IF i \in pending' THEN "queued" ELSE "out"]
  /\ UNCHANGED <<route, todo, ok, paid, hidden>>

Goto(i, s) == stage' = [stage EXCEPT ![i] = s]

SlotFree == Cardinality({i \in Items : stage[i] \in InSlot}) < Concurrency

\* The task gets the semaphore, and run_case begins.
BeginCase(i) ==
  /\ stage[i] = "queued" /\ SlotFree
  /\ \/ /\ ArmOf[i] = "llm_judge_router"
        /\ Goto(i, "routing")
        /\ UNCHANGED route
     \/ /\ ArmOf[i] # "llm_judge_router"
        /\ route' = [route EXCEPT ![i] = InitialRoute(i)]
        /\ Goto(i, "generating")
  /\ UNCHANGED <<runVars, starts, todo, ok, paid, hidden>>

\* A call of this kind is accounted for.
Account(i, call, c) ==
  /\ paid'   = [paid EXCEPT ![i] = @ + Known(c)]
  /\ hidden' = IF c = None THEN [hidden EXCEPT ![i] = @ \cup {call}] ELSE hidden

\* classify_tier returns: the tier it chose, or "strong" when it failed.
RouterReturns(i, tier, c) ==
  /\ stage[i] = "routing"
  /\ Account(i, "router", c)
  /\ route' = [route EXCEPT ![i] = WithEscalation(tier)]
  /\ Goto(i, "generating")
  /\ UNCHANGED <<runVars, starts, todo, ok>>

\* Mutant: the same alias is tried again.
TryAgain(i) == UNCHANGED route /\ Goto(i, "generating")

\* On to the next alias, or out of the loop.
TryNext(i) ==
  /\ route' = [route EXCEPT ![i] = Tail(@)]
  /\ Goto(i, IF Len(route[i]) > 1 THEN "generating" ELSE "writing")

GenerationReturns(i, succeeded, c) ==
  /\ stage[i] = "generating"
  /\ Account(i, "generation", c)
  /\ \/ /\ succeeded
        /\ \E n \in 0..VerifyCalls, good \in BOOLEAN :
              todo' = [todo EXCEPT ![i] = n] /\ ok' = [ok EXCEPT ![i] = good]
        /\ Goto(i, "verifying")
        /\ UNCHANGED route
     \/ /\ ~succeeded
        /\ TryNext(i)
        /\ UNCHANGED <<todo, ok>>
  /\ UNCHANGED <<runVars, starts>>

\* Mutant: one decision call too many.
CallDueAlways(i) == stage[i] = "verifying"

CallDue(i) == stage[i] = "verifying" /\ todo[i] > 0

DecisionReturns(i, pass, c) ==
  /\ CallDue(i)
  /\ Account(i, "verification", c)
  /\ todo' = [todo EXCEPT ![i] = @ - 1]
  /\ ok'   = [ok EXCEPT ![i] = @ /\ pass]
  /\ UNCHANGED <<runVars, starts, stage, route>>

\* verify is done.  A candidate that passed may have to pass the gate, unless
\* its case is too long for it; one that did not is tried with the next alias.
Verified(i) ==
  /\ stage[i] = "verifying" /\ todo[i] = 0
  /\ \/ ok[i] /\ i \in GateItems /\ Goto(i, "gating") /\ UNCHANGED route
     \/ ok[i] /\ Goto(i, "writing") /\ UNCHANGED route
     \/ ~ok[i] /\ TryNext(i)
  /\ ok' = [ok EXCEPT ![i] = FALSE]
  /\ UNCHANGED <<runVars, starts, todo, paid, hidden>>

\* evaluate_shadow returns; a gate that failed does not escalate.
GateReturns(i, escalate, c) ==
  /\ stage[i] = "gating"
  /\ Account(i, "gate", c)
  /\ \/ escalate /\ TryNext(i)
     \/ ~escalate /\ Goto(i, "writing") /\ UNCHANGED route
  /\ UNCHANGED <<runVars, starts, todo, ok>>

\* Mutant: the costs of the router are not looked at.
TotalWithoutRouter(i) == IF hidden[i] \subseteq {"gate", "router"} THEN paid[i] ELSE None

\* total_cost: an unknown cost of the gate counts as zero.
Total(i) == IF hidden[i] \subseteq {"gate"} THEN paid[i] ELSE None

\* run_case is done, and its row is appended; its locals are gone.
Write(i) ==
  /\ stage[i] = "writing"
  /\ WriteRow(i, Total(i), Total(i) = None)
  /\ Goto(i, "out")
  /\ route' = [route EXCEPT ![i] = <<>>]
  /\ paid'  = [paid EXCEPT ![i] = 0]
  /\ UNCHANGED <<starts, todo, ok, hidden>>

Finish == FinishRun /\ UNCHANGED <<starts, caseVars>>

Stop ==
  /\ StopRun
  /\ stage'  = [i \in Items |-> "out"]
  /\ route'  = [i \in Items |-> <<>>]
  /\ todo'   = [i \in Items |-> 0]
  /\ ok'     = [i \in Items |-> FALSE]
  /\ paid'   = [i \in Items |-> 0]
  /\ hidden' = [i \in Items |-> IF i \in pending THEN {} ELSE hidden[i]]
  /\ UNCHANGED starts

-----------------------------------------------------------------------------
\* What the current call may be reported to cost.
Reported(i) ==
  {None} \cup
  CASE stage[i] = "routing"    -> TierCosts["economy"]
    [] stage[i] = "generating" -> TierCosts[Head(route[i])]
    [] OTHER                   -> DecisionCosts

CaseStep(i) ==
  \/ BeginCase(i)
  \/ \E c \in Reported(i), tier \in Tiers : RouterReturns(i, tier, c)
  \/ \E c \in Reported(i), b \in BOOLEAN :
        GenerationReturns(i, b, c) \/ DecisionReturns(i, b, c) \/ GateReturns(i, b, c)
  \/ Verified(i)
  \/ Write(i)

Next ==
  \/ \E S \in Selections : Start(S)
  \/ \E i \in Items : CaseStep(i)
  \/ Finish
  \/ Stop

Spec == Init /\ [][Next]_vars

\* The event loop runs every ready task, and every call has a timeout.
FairSpec == Spec /\ WF_vars(Finish) /\ \A i \in Items : WF_vars(CaseStep(i))

-----------------------------------------------------------------------------
(* Properties.                                                             *)

(* The budget covers a run: what its selection is recorded to have cost,    *)
(* what its unfinished cases have paid, and the rest of their preflight.    *)
(* In particular an escalation never exceeds what the preflight counted,    *)
(* as long as decision calls cost at most half of their padded estimate.    *)
WithinPreflight ==
  selected # None =>
    /\ \A i \in pending : stage[i] # "queued" => paid[i] <= Preflight(i)
    /\ spend + SumFunctionOnSet(Estimates, pending) <= Budget

(* A row admits that its cost is unknown exactly when some call of the case *)
(* other than the gate's came back without a cost.                          *)
RowsAdmitUnknown ==
  \A n \in DOMAIN rows :
    rows[n].total = None <=> hidden[rows[n].item] \ {"gate"} # {}

(* Every process ends, with a manifest or stopped.                          *)
RunsEnd == (selected # None) ~> (selected = None)

(* decisions.md:8: "Unknown external spend is NULL, never zero."            *)
UnknownIsNull ==
  \A n \in DOMAIN rows : hidden[rows[n].item] # {} => rows[n].total = None
=============================================================================
