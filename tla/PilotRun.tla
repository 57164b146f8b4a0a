------------------------------ MODULE PilotRun ------------------------------
(***************************************************************************)
(* scripts/benchmark.py, run_benchmark, and scripts/shadow_jev.py,         *)
(* run_shadow: one call measures an item, several at a time, with the      *)
(* configuration that the process read when it started.                    *)
(***************************************************************************)
EXTENDS ResumableRun

CONSTANTS
  Scripts,      \* the scripts that may run: "benchmark", "shadow"
  Settings,     \* the generation settings a configuration file may hold
  Replies,      \* Replies[i]: what may be noted of its call: [good, total, latency]
  Estimate,     \* estimated_call_cost, estimated_decision_cost
  Concurrency,  \* --concurrency
  MaxStarts     \* bound on how often a script is started

ASSUME ScriptsAssumption == Scripts \subseteq {"benchmark", "shadow"} /\ Settings # {}
ASSUME RepliesAssumption == 
  Replies \in [Items -> SUBSET [good : BOOLEAN, total : Nat \cup {None}, latency : Nat]]
ASSUME PilotAssumption   == {Estimate, MaxStarts} \subseteq Nat /\ Concurrency \in Nat \ {0}

VARIABLES
  script,
  config,   \* the settings in the configuration file
  loaded,   \* those the running, or last, process has read
  starts,
  stage,    \* where the task of an item is
  facts,    \* facts[i]: what the row of i says besides its cost
  lost,     \* calls that were begun and have no row
  raised,   \* those that ended in an exception
  cut       \* processes that were stopped

pilotVars == <<runVars, script, config, loaded, starts, stage, facts, lost, raised, cut>>

\* good: a candidate that is right (success), or signals (jev_status = "evaluated").
Facts == [good : BOOLEAN, latency : Nat, setting : Settings]

PilotTypeOK ==
  /\ RunTypeOK
  /\ script \in Scripts /\ config \in Settings /\ loaded \in Settings
  /\ starts \in 0..MaxStarts
  /\ stage \in [Items -> {"out", "queued", "calling", "raised"}]
  /\ \A i \in Items : stage[i] # "out" <=> i \in pending
  /\ facts \in [Items -> Facts]
  /\ raised \in Nat /\ lost \in Nat /\ cut \in 0..starts

NoFacts == [i \in Items |-> [good |-> FALSE, latency |-> 0, setting |-> CHOOSE s \in Settings : TRUE]]
AllOut  == [i \in Items |-> "out"]

PilotInit ==
  /\ RunInit
  /\ script \in Scripts /\ config \in Settings /\ loaded = config
  /\ starts = 0 /\ stage = AllOut /\ facts = NoFacts /\ lost = 0 /\ raised = 0 /\ cut = 0

-----------------------------------------------------------------------------
Launch(S) ==
  /\ starts < MaxStarts
  /\ StartRun(S, [i \in Items |-> Estimate])
  /\ starts' = starts + 1 /\ loaded' = config
  /\ stage'  = [i \in Items |-> IF i \in pending' THEN "queued" ELSE "out"]
  /\ UNCHANGED <<script, config, facts, lost, raised, cut>>

Calling == {i \in Items : stage[i] = "calling"}

\* Mutant: the semaphore counts from zero.
SlotFreeOneMore == Cardinality(Calling) <= Concurrency

SlotFree == Cardinality(Calling) < Concurrency

BeginCall(i) ==
  /\ stage[i] = "queued" /\ SlotFree
  /\ stage' = [stage EXCEPT ![i] = "calling"]
  /\ UNCHANGED <<runVars, script, config, loaded, starts, facts, lost, raised, cut>>

\* Mutant: the shadow run takes no note.
FlaggedInBenchmark(good, total) == total = None /\ script = "benchmark"

\* Does the process take note that a cost is unknown?  The shadow run minds
\* neither a call that failed nor a case that it skipped.
Flagged(good, total) == total = None /\ (script = "shadow" => good)

\* The call ends; nothing waits between its result and its row.
EndCall(i, reply) ==
  /\ stage[i] = "calling"
  /\ WriteRow(i, reply.total, Flagged(reply.good, reply.total))
  /\ stage' = [stage EXCEPT ![i] = "out"]
  /\ facts' = [facts EXCEPT ![i] = [good |-> reply.good, latency |-> reply.latency, setting |-> loaded]]
  /\ UNCHANGED <<script, config, loaded, starts, lost, raised, cut>>

Complete == FinishRun /\ UNCHANGED <<script, config, loaded, starts, stage, facts, lost, raised, cut>>

\* A call ends in an exception.  Its task leaves the semaphore at once; the
\* exception reaches the main task only a few turns of the event loop later,
\* and meanwhile a queued task may begin its call and other calls may end.
Raise(i) ==
  /\ stage[i] = "calling"
  /\ stage'  = [stage EXCEPT ![i] = "raised"]
  /\ lost'   = lost + 1
  /\ raised' = raised + 1
  /\ UNCHANGED <<runVars, script, config, loaded, starts, facts, cut>>

\* The exception ends asyncio.run, which cancels the calls in flight, or the
\* process dies with them.
Cancel ==
  /\ StopRun
  /\ stage' = AllOut
  /\ lost'  = lost + Cardinality(Calling)
  /\ cut'   = cut + 1
  /\ UNCHANGED <<script, config, loaded, starts, facts, raised>>

\* Somebody edits the configuration file.
EditConfig(s) ==
  /\ config' = s
  /\ UNCHANGED <<runVars, script, loaded, starts, stage, facts, lost, raised, cut>>

\* Somebody gives the next process a new output file.
NewOutput ==
  /\ selected = None /\ rows # <<>>
  /\ rows' = <<>> /\ manifest' = None /\ spend' = 0 /\ unknownSeen' = FALSE /\ facts' = NoFacts
  /\ UNCHANGED <<selected, pending, script, config, loaded, starts, stage, lost, raised, cut>>

Measure ==
  \/ \E S \in Selections : Launch(S)
  \/ \E i \in Items : BeginCall(i) \/ Raise(i) \/ \E reply \in Replies[i] : EndCall(i, reply)
  \/ Complete
  \/ Cancel

-----------------------------------------------------------------------------
(* Properties.                                                             *)

\* The cost of row n is known, or no answer came that would have cost something.
Excused(n) == rows[n].total # None \/ (script = "shadow" /\ ~facts[rows[n].item].good)

(* A manifest that is called complete hides no unknown cost, but those of   *)
(* calls that failed and of cases that were skipped in a shadow run.        *)
ManifestHonest ==
  manifest # None /\ manifest.complete => \A n \in RowsOf(manifest.selected) : Excused(n)

(* The manifest of a benchmark or shadow run stays true of the file: it     *)
(* counts a row for every item it selects, its spend is what they cost, and *)
(* it is honest about unknown costs.                                        *)
PilotManifestHolds ==
  /\ ManifestHonest
  /\ manifest # None =>
       LET S == manifest.selected IN
       /\ manifest.observed = Cardinality(S) /\ Missing(S) = {}
       /\ manifest.spend = Recorded(S)

(* What may have been paid for without a row to show it: each call that     *)
(* raised, and at most one call for each slot of each process that was      *)
(* stopped.  The file and its budget know nothing of it.                    *)
OverspendBounded == lost <= raised + Concurrency * cut
=============================================================================
