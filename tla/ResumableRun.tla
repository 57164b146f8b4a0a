---------------------------- MODULE ResumableRun ----------------------------
(***************************************************************************)
(* The skeleton that the paid measurement scripts share (run_experiment,   *)
(* run_benchmark, run_shadow): a process measures the selected items that  *)
(* the output file lacks, appends one row for each, and writes a manifest. *)
(* A process that is stopped is started again on the same file.  One       *)
(* process at a time works on a file.                                      *)
(***************************************************************************)
EXTENDS Integers, Sequences, FiniteSets, Functions

CONSTANTS
  Items,        \* what is measured: pairs of a case and an arm
  Selections,   \* what a command line may select (limit, arms)
  Budget,       \* --max-budget-microusd
  None          \* JSON null; no process, no manifest

ASSUME ItemsAssumption ==
  IsFiniteSet(Items) /\ Selections \subseteq SUBSET Items /\ None \notin Selections
ASSUME BudgetAssumption == Budget \in Nat /\ None \notin Int

VARIABLES
  rows,         \* the output file: [item, total]
  selected,     \* what the running process measures, or None
  pending,      \* its items that have no row yet
  spend,        \* actual_spend
  unknownSeen,  \* unknown_cost_seen
  manifest      \* the manifest file, or None

runVars == <<rows, selected, pending, spend, unknownSeen, manifest>>

Row == [item : Items, total : Nat \cup {None}]

RunTypeOK ==
  /\ rows        \in Seq(Row)
  /\ selected    \in Selections \cup {None}
  /\ pending     \in SUBSET Items
  /\ spend       \in Nat
  /\ unknownSeen \in BOOLEAN
  /\ manifest    \in [selected : Selections, observed : Nat, spend : Nat, complete : BOOLEAN] \cup {None}

RunInit ==
  /\ rows = <<>> /\ manifest = None
  /\ selected = None /\ pending = {}
  /\ spend = 0 /\ unknownSeen = FALSE

-----------------------------------------------------------------------------
\* The lines of the file that belong to S.
RowsOf(S) == {n \in DOMAIN rows : rows[n].item \in S}

\* Mutant: everything selected is measured again.
MissingAll(S) == S

\* The selected items that the file has no row for.
Missing(S) == {i \in S : RowsOf({i}) = {}}

Known(c) == IF c = None THEN 0 ELSE c
RowCosts == [n \in DOMAIN rows |-> Known(rows[n].total)]

\* Mutant: what the whole file cost.
RecordedOfAll(S) == SumFunction(RowCosts)

\* What the file says the items of S cost; an unknown cost adds nothing.
Recorded(S) == SumFunctionOnSet(RowCosts, RowsOf(S))

\* The preflight: what was recorded and what is estimated fit the budget.
Affordable(S, estimate) == Recorded(S) + SumFunctionOnSet(estimate, Missing(S)) <= Budget

\* The process exits, and nothing changes, when the preflight fails.
StartRun(S, estimate) ==
  /\ selected = None
  /\ Affordable(S, estimate)
  /\ selected' = S /\ pending' = Missing(S) /\ spend' = Recorded(S)
  /\ unknownSeen' = \E n \in DOMAIN rows : rows[n].total = None
  /\ UNCHANGED <<rows, manifest>>

\* flag: the script takes note that a cost is unknown.
WriteRow(i, total, flag) ==
  /\ i \in pending
  /\ rows'        = Append(rows, [item |-> i, total |-> total])
  /\ pending'     = pending \ {i}
  /\ spend'       = spend + Known(total)
  /\ unknownSeen' = (unknownSeen \/ flag)
  /\ UNCHANGED <<selected, manifest>>

\* Every task is done: the manifest replaces the old one.
FinishRun ==
  /\ selected # None /\ pending = {}
  /\ manifest' = [selected |-> selected, observed |-> Cardinality(RowsOf(selected)),
                  spend |-> spend, complete |-> ~unknownSeen]
  /\ selected' = None
  /\ UNCHANGED <<rows, pending, spend, unknownSeen>>

\* After a call has raised, gather ends and the other tasks are cancelled, or
\* the process is killed: what was paid for without a row yet is forgotten.
StopRun ==
  /\ selected # None
  /\ selected' = None /\ pending' = {}
  /\ UNCHANGED <<rows, spend, unknownSeen, manifest>>

-----------------------------------------------------------------------------
(* Properties.                                                             *)

(* Nothing is measured twice into the file, whatever is selected and        *)
(* wherever earlier processes stopped.                                      *)
RowsUnique == \A m, n \in DOMAIN rows : rows[m].item = rows[n].item => m = n

(* A manifest stays true of the file, through all later runs on it: it      *)
(* counts a row for every item it selects, its spend is what these rows     *)
(* cost, and it is only called complete when all these costs are known.     *)
ManifestHolds ==
  manifest # None =>
    LET S == manifest.selected IN
    /\ manifest.observed = Cardinality(S) /\ Missing(S) = {}
    /\ manifest.spend = Recorded(S)
    /\ manifest.complete => \A n \in RowsOf(S) : rows[n].total # None
=============================================================================
