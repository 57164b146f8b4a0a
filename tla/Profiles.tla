------------------------------ MODULE Profiles ------------------------------
(***************************************************************************)
(* From measured rows to the profiles that RoutingPolicy reads: the        *)
(* benchmark, benchmark.py build_profiles, and merge_profiles.py, under a  *)
(* configuration file that may be edited between them.                     *)
(***************************************************************************)
EXTENDS PilotRun, Statistics

CONSTANTS
  KeyOf,      \* KeyOf[i] = <<contract, alias>>
  Strong,     \* the alias "strong"
  MaxFiles,   \* bound on how many different profile files there are
  MaxEdits    \* bound on how often the configuration file is edited

ASSUME KeysAssumption ==
  /\ {MaxFiles, MaxEdits} \subseteq Nat
  /\ DOMAIN KeyOf = Items /\ \A i \in Items : KeyOf[i] = <<KeyOf[i][1], KeyOf[i][2]>>

VARIABLES
  files,   \* the profile files.  Two of their fields the scripts do not know: rows, what
           \* the file was made from, and mixed, whether the configuration changed meanwhile
  mixed,   \* the configuration was edited since the results file was begun
  edits

fileVars == <<files, mixed, edits>>
vars     == <<pilotVars, fileVars>>

TypeOK ==
  /\ PilotTypeOK
  /\ mixed \in BOOLEAN /\ edits \in 0..MaxEdits
  /\ \A f \in files :
       /\ f.experiment \in Settings
       /\ {f.validated, f.merged, f.mixed} \subseteq BOOLEAN
       /\ \A row \in f.rows : row.item \in Items /\ row.setting \in Settings
       /\ \A p \in f.profiles :
            /\ <<p.contract, p.alias>> \in {KeyOf[i] : i \in Items}
            /\ p.quality \in 0..100 /\ p.p95 \in Nat /\ p.cost \in Nat

Init == PilotInit /\ files = {} /\ mixed = FALSE /\ edits = 0

-----------------------------------------------------------------------------
MeasuredKeys == {KeyOf[rows[n].item] : n \in DOMAIN rows}

\* Mutant: an unknown mean cost stays null.
PriceOrNull(costs) == MeanCost(costs, None)

\* A mean cost that is unknown becomes 0.
Price(costs) == Known(MeanCost(costs, None))

\* summarize and build_profiles, for one contract and alias.
ProfileOf(key) ==
  LET sample    == {n \in DOMAIN rows : KeyOf[rows[n].item] = key}
      successes == {n \in sample : facts[rows[n].item].good}
  IN [contract |-> key[1], alias |-> key[2],
      quality  |-> WilsonLower(Cardinality(successes), Cardinality(sample)),
      p95      |-> Percentile95([n \in sample |-> facts[rows[n].item].latency]),
      cost     |-> Price([n \in sample |-> rows[n].total]),
      fallback |-> key[2] = Strong]

AddFile(file) ==
  /\ Cardinality(files) < MaxFiles
  /\ files' = files \cup {file}
  /\ UNCHANGED <<pilotVars, mixed, edits>>

MeasuredRows ==
  {[item |-> rows[n].item, total |-> rows[n].total, setting |-> facts[rows[n].item].setting] : n \in DOMAIN rows}

\* build_profiles: the experiment is what the configuration says now.
Build ==
  /\ script = "benchmark" /\ rows # <<>>
  /\ AddFile([experiment |-> config, validated |-> FALSE, merged |-> FALSE,
              profiles |-> {ProfileOf(key) : key \in MeasuredKeys},
              rows |-> MeasuredRows, mixed |-> mixed])

KeysIn(f) == {<<p.contract, p.alias>> : p \in f.profiles}

\* Mutant: the experiments are not compared.
MergeableAnyExperiment(F) ==
  /\ \A f \in F : ~f.validated /\ ~f.merged
  /\ \A f, g \in F : f # g => KeysIn(f) \cap KeysIn(g) = {}

\* Mutant: nothing looks for duplicates.
MergeableDuplicates(F) ==
  /\ \A f \in F : ~f.validated /\ ~f.merged
  /\ \A f, g \in F : f.experiment = g.experiment

\* merge_profiles refuses a validated file and, for want of the hash of its
\* data, a merged one; files of different experiments; and duplicate keys.
Mergeable(F) ==
  /\ \A f \in F : ~f.validated /\ ~f.merged
  /\ \A f, g \in F : f.experiment = g.experiment
  /\ \A f, g \in F : f # g => KeysIn(f) \cap KeysIn(g) = {}

Merge(F) ==
  /\ F # {} /\ Mergeable(F)
  /\ AddFile([experiment |-> (CHOOSE f \in F : TRUE).experiment, validated |-> FALSE, merged |-> TRUE,
              profiles |-> UNION {f.profiles : f \in F},
              rows |-> UNION {f.rows : f \in F}, mixed |-> \E f \in F : f.mixed])

\* Somebody writes a copy of a file with validated_for_active set.
Promote(f) == AddFile([f EXCEPT !.validated = TRUE])

Edit(s) ==
  /\ edits < MaxEdits /\ s # config
  /\ EditConfig(s)
  /\ mixed' = (mixed \/ rows # <<>> \/ selected # None)
  /\ edits' = edits + 1
  /\ UNCHANGED files

NextPilot == NewOutput /\ mixed' = FALSE /\ UNCHANGED <<files, edits>>

Next ==
  \/ Measure /\ UNCHANGED fileVars
  \/ \E s \in Settings : Edit(s)
  \/ NextPilot
  \/ Build
  \/ \E F \in SUBSET files : Merge(F)
  \/ \E f \in files : Promote(f)

Spec == Init /\ [][Next]_vars

-----------------------------------------------------------------------------
(* Properties.                                                             *)

(* A profile file, merged or not, names the settings its rows were measured *)
(* with: merge_profiles compares the experiments of its inputs, and nobody  *)
(* else does.  This holds of pilots during which nobody edited the          *)
(* configuration: a resumed run and build_profiles read it again, and       *)
(* compare it with nothing in the rows.                                     *)
SettingsTold ==
  \A f \in files : ~f.mixed =>
    \A row \in f.rows : row.setting = f.experiment

(* The files that the scripts write have one profile for a contract and an  *)
(* alias, which load_profiles does not ask for but execute relies on.       *)
ProfilesUnique ==
  \A f \in files : \A p, q \in f.profiles :
    p.contract = q.contract /\ p.alias = q.alias => p = q

(* The price in a profile covers what its sample was measured to cost on    *)
(* average, or it is a zero that stands for a cost nobody knows.            *)
PricesMeasured ==
  \A f \in files : \A p \in f.profiles :
    LET sample == {row \in f.rows : KeyOf[row.item] = <<p.contract, p.alias>>} IN
    \/ p.cost * Cardinality(sample) >= SumFunction([row \in sample |-> Known(row.total)])
    \/ p.cost = 0 /\ \E row \in sample : row.total = None
=============================================================================
