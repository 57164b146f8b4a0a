--------------------------- MODULE ProfilesProofs ---------------------------
(***************************************************************************)
(* Theorems about the pilots and the files made from them, for any items,  *)
(* keys, settings, concurrency and numbers of starts, files and edits.     *)
(***************************************************************************)
EXTENDS MCProfiles, ResumableRunProofs

\* The file is in order, and the pilot's own state has its types.
PilotTyped == RunInv /\ facts \in [Items -> Facts] /\ config \in Settings /\ loaded \in Settings

-----------------------------------------------------------------------------
(* The kinds of steps, as far as the file of rows is concerned.            *)

StartStep ==
  /\ \E S \in Selections : selected' = S /\ pending' = Missing(S)
  /\ unknownSeen' = \E n \in DOMAIN rows : rows[n].total = None
  /\ rows' = rows /\ facts' = facts /\ manifest' = manifest /\ loaded' = config /\ config' = config

RowStep ==
  /\ \E i \in pending, total \in Nat \cup {None}, good \in BOOLEAN, latency \in Nat :
       /\ rows'  = Append(rows, [item |-> i, total |-> total])
       /\ facts' = [facts EXCEPT ![i] = [good |-> good, latency |-> latency, setting |-> loaded]]
       /\ pending' = pending \ {i}
       /\ unknownSeen' = (unknownSeen \/ Flagged(good, total))
  /\ selected' = selected /\ manifest' = manifest /\ loaded' = loaded /\ config' = config

EndStep ==
  /\ \/ /\ selected # None /\ pending = {}
        /\ manifest'.selected = selected /\ manifest'.complete = ~unknownSeen
     \/ manifest' = manifest
  /\ selected' = None /\ pending' \subseteq {}
  /\ rows' = rows /\ facts' = facts /\ loaded' = loaded /\ config' = config

ClearStep ==
  /\ selected = None /\ selected' = None /\ pending' = pending
  /\ rows' = <<>> /\ manifest' = None /\ facts' = NoFacts
  /\ loaded' = loaded /\ config' = config

IdleStep ==
  /\ selected' = selected /\ pending' = pending /\ unknownSeen' = unknownSeen
  /\ rows' = rows /\ facts' = facts /\ manifest' = manifest /\ loaded' = loaded

LEMMA RowsOfCalls ==
  ASSUME NEW i \in Items, NEW reply \in Replies[i], PilotTyped, EndCall(i, reply)
  PROVE  RowStep
  <1>1. reply.total \in Nat \cup {None} /\ reply.good \in BOOLEAN /\ reply.latency \in Nat
    BY RepliesAssumption
  <1>2. WriteRow(i, reply.total, Flagged(reply.good, reply.total)) /\ loaded' = loaded /\ config' = config
    BY DEF EndCall
  <1>. QED  BY <1>1, <1>2 DEF EndCall, WriteRow, RowStep

LEMMA StepKinds ==
  ASSUME PilotTyped, [Next]_vars
  PROVE  /\ script' = script
         /\ \/ mixed' = mixed /\ (StartStep \/ RowStep \/ EndStep \/ (IdleStep /\ config' = config))
            \/ ClearStep
            \/ IdleStep /\ config' \in Settings /\ files' = files
                 /\ mixed' = (mixed \/ rows # <<>> \/ selected # None)
  <1>1. ASSUME NEW S \in Selections, Launch(S), UNCHANGED fileVars
        PROVE  StartStep /\ script' = script
    BY <1>1 DEF Launch, StartRun, StartStep
  <1>2. ASSUME NEW i \in Items, BeginCall(i) \/ Raise(i), UNCHANGED fileVars
        PROVE  IdleStep /\ config' = config /\ script' = script
    BY <1>2 DEF BeginCall, Raise, IdleStep, runVars
  <1>3. ASSUME NEW i \in Items, NEW reply \in Replies[i], EndCall(i, reply)
        PROVE  RowStep /\ script' = script
    BY <1>3, RowsOfCalls DEF EndCall
  <1>4. ASSUME Complete \/ Cancel
        PROVE  EndStep /\ script' = script
    BY <1>4 DEF Complete, Cancel, FinishRun, StopRun, EndStep
  <1>5. ASSUME NEW s \in Settings, Edit(s)
        PROVE  /\ IdleStep /\ config' \in Settings /\ script' = script /\ files' = files
               /\ mixed' = (mixed \/ rows # <<>> \/ selected # None)
    BY <1>5 DEF Edit, EditConfig, IdleStep, runVars
  <1>6. ASSUME NextPilot  PROVE ClearStep /\ script' = script
    BY <1>6 DEF NextPilot, NewOutput, ClearStep
  <1>7. ASSUME NEW file, AddFile(file)
        PROVE  IdleStep /\ config' = config /\ script' = script /\ mixed' = mixed
    BY <1>7 DEF AddFile, pilotVars, runVars, IdleStep
  <1>8. CASE Measure /\ UNCHANGED fileVars
    BY <1>1, <1>2, <1>3, <1>4, <1>8 DEF Measure, fileVars
  <1>9. CASE UNCHANGED vars
    BY <1>9 DEF vars, fileVars, pilotVars, runVars, IdleStep
  <1>10. CASE Build
    BY <1>7, <1>10 DEF Build
  <1>11. ASSUME NEW F \in SUBSET files, Merge(F)
         PROVE  IdleStep /\ config' = config /\ script' = script /\ mixed' = mixed
    BY <1>7, <1>11 DEF Merge
  <1>12. ASSUME NEW f \in files, Promote(f)
         PROVE  IdleStep /\ config' = config /\ script' = script /\ mixed' = mixed
    BY <1>7, <1>12 DEF Promote
  <1>. QED  BY <1>5, <1>6, <1>8, <1>9, <1>10, <1>11, <1>12 DEF Next

\* Both scripts treat their file as ResumableRun says.
LEMMA RunSteps == ASSUME [Next]_vars  PROVE RunStep
  <1>1. ASSUME NEW S \in Selections, Launch(S)  PROVE RunStep
    <2>1. [i \in Items |-> Estimate] \in [Items -> Nat]  BY PilotAssumption
    <2>. QED  BY <1>1, <2>1 DEF Launch, RunStep
  <1>2. ASSUME NEW i \in Items, BeginCall(i) \/ Raise(i)  PROVE RunStep
    BY <1>2 DEF BeginCall, Raise, RunStep
  <1>3. ASSUME NEW i \in Items, NEW reply \in Replies[i], EndCall(i, reply)  PROVE RunStep
    <2>1. reply.total \in Nat \cup {None}
      BY RepliesAssumption
    <2>2. Flagged(reply.good, reply.total) \in BOOLEAN
      BY Zenon DEF Flagged
    <2>. QED  BY <1>3, <2>1, <2>2 DEF EndCall, RunStep
  <1>4. CASE Complete \/ Cancel
    BY <1>4 DEF Complete, Cancel, RunStep
  <1>5. CASE NextPilot
    BY <1>5 DEF NextPilot, NewOutput, NewFile, RunStep
  <1>6. CASE UNCHANGED runVars
    BY <1>6 DEF RunStep
  <1>7. ASSUME NEW file, AddFile(file)  PROVE UNCHANGED runVars
    BY <1>7 DEF AddFile, pilotVars
  <1>8. CASE Build \/ (\E F \in SUBSET files : Merge(F)) \/ (\E f \in files : Promote(f))
    BY <1>6, <1>7, <1>8 DEF Build, Merge, Promote
  <1>9. (\E t \in Settings : Edit(t)) \/ UNCHANGED vars => UNCHANGED runVars
    BY DEF Edit, EditConfig, vars, pilotVars
  <1>. QED  BY <1>1, <1>2, <1>3, <1>4, <1>5, <1>6, <1>8, <1>9 DEF Next, Measure

LEMMA PilotTypedInit == Init => PilotTyped
  BY ScriptsAssumption, RunStarts DEF Init, PilotInit, NoFacts, Facts, PilotTyped

LEMMA PilotTypedStep ==
  ASSUME PilotTyped, [Next]_vars
  PROVE  PilotTyped'
  <1>. RunInv'
    BY RunSteps, RunKept DEF PilotTyped
  <1>1. CASE StartStep
    BY <1>1 DEF PilotTyped, StartStep
  <1>2. CASE RowStep
    <2>1. PICK i \in pending, total \in Nat \cup {None}, good \in BOOLEAN, latency \in Nat :
            facts' = [facts EXCEPT ![i] = [good |-> good, latency |-> latency, setting |-> loaded]]
      BY <1>2 DEF RowStep
    <2>2. facts' \in [Items -> Facts]           BY <2>1 DEF PilotTyped, Facts
    <2>. QED  BY <1>2, <2>2 DEF PilotTyped, RowStep
  <1>3. CASE EndStep
    BY <1>3 DEF PilotTyped, EndStep
  <1>4. CASE ClearStep
    BY <1>4, ScriptsAssumption DEF PilotTyped, ClearStep, NoFacts, Facts
  <1>5. CASE IdleStep /\ config' \in Settings
    BY <1>5 DEF PilotTyped, IdleStep
  <1>. QED  BY <1>1, <1>2, <1>3, <1>4, <1>5, StepKinds DEF PilotTyped

-----------------------------------------------------------------------------
(* Manifests.  Their honesty is inductive only together with what a process *)
(* knows of the file: which rows have a cost that nobody took note of.      *)

FlagTells == selected # None /\ ~unknownSeen => \A n \in DOMAIN rows : Excused(n)

ManifestInv == FlagTells /\ ManifestHonest

LEMMA ManifestInit == Init => ManifestInv
  BY DEF Init, PilotInit, RunInit, ManifestInv, FlagTells, ManifestHonest

\* A new row leaves the old ones as they were.
LEMMA ManifestRowStep ==
  ASSUME PilotTyped, ManifestInv, RowStep, script' = script
  PROVE  ManifestInv'
  <1>. USE DEF PilotTyped, RunInv, RunTypeOK
  <1>1. PICK i \in pending, total \in Nat \cup {None}, good \in BOOLEAN, latency \in Nat :
          /\ rows'  = Append(rows, [item |-> i, total |-> total])
          /\ facts' = [facts EXCEPT ![i] = [good |-> good, latency |-> latency, setting |-> loaded]]
          /\ pending' = pending \ {i}
          /\ unknownSeen' = (unknownSeen \/ Flagged(good, total))
    BY DEF RowStep
  <1>2. PICK last : /\ last \notin DOMAIN rows /\ DOMAIN rows' = DOMAIN rows \cup {last}
                    /\ rows'[last] = [item |-> i, total |-> total]
                    /\ \A n \in DOMAIN rows : rows'[n] = rows[n]
    BY <1>1, RowAdded
  <1>3. \A n \in DOMAIN rows : rows[n].item \in Items /\ rows[n].item # i
    BY <1>1, RowsTyped DEF PendingUnmeasured
  <1>4. \A n \in DOMAIN rows : Excused(n)' <=> Excused(n)
    BY <1>1, <1>2, <1>3 DEF Excused
  <1>5. Flagged(good, total) \/ Excused(last)'
    <2>1. i \in Items /\ facts'[i].good = good
      BY <1>1
    <2>. QED  BY <1>2, <2>1 DEF Flagged, Excused
  <1>6. FlagTells'
    BY <1>1, <1>2, <1>4, <1>5 DEF ManifestInv, FlagTells, RowStep
  <1>7. manifest # None => i \notin manifest.selected
    BY <1>3 DEF ManifestAddsUp, Missing, RowsOf
  <1>8. ManifestHonest'
    BY <1>2, <1>4, <1>7 DEF ManifestInv, ManifestHonest, RowsOf, RowStep
  <1>. QED  BY <1>6, <1>8 DEF ManifestInv

LEMMA ManifestStep ==
  ASSUME PilotTyped, ManifestInv, [Next]_vars
  PROVE  ManifestInv'
  <1>1. CASE StartStep /\ script' = script
    <2>1. /\ rows' = rows /\ facts' = facts /\ manifest' = manifest
          /\ unknownSeen' = \E n \in DOMAIN rows : rows[n].total = None
      BY <1>1 DEF StartStep
    <2>2. FlagTells'        BY <2>1 DEF FlagTells, Excused
    <2>3. ManifestHonest'   BY <1>1, <2>1 DEF ManifestInv, ManifestHonest, RowsOf, Excused
    <2>. QED  BY <2>2, <2>3 DEF ManifestInv
  <1>2. CASE RowStep /\ script' = script
    BY <1>2, ManifestRowStep
  <1>3. CASE EndStep /\ script' = script
    <2>1. /\ rows' = rows /\ facts' = facts /\ selected' = None
          /\ \A n : Excused(n)' <=> Excused(n)
          /\ \A S : RowsOf(S)' = RowsOf(S)
      BY <1>3 DEF EndStep, Excused, RowsOf
    <2>2. FlagTells'
      BY <2>1 DEF FlagTells
    <2>3. CASE manifest' = manifest
      BY <2>1, <2>2, <2>3 DEF ManifestInv, ManifestHonest
    <2>4. CASE selected # None /\ manifest'.selected = selected /\ manifest'.complete = ~unknownSeen
      BY <2>1, <2>2, <2>4 DEF ManifestInv, FlagTells, ManifestHonest, RowsOf
    <2>. QED  BY <1>3, <2>3, <2>4 DEF EndStep
  <1>4. CASE ClearStep
    BY <1>4 DEF ClearStep, ManifestInv, FlagTells, ManifestHonest
  <1>5. CASE IdleStep /\ script' = script
    BY <1>5 DEF IdleStep, ManifestInv, FlagTells, ManifestHonest, Excused, RowsOf
  <1>. QED  BY <1>1, <1>2, <1>3, <1>4, <1>5, StepKinds

(* A manifest that is called complete hides no unknown cost, whatever was   *)
(* measured, stopped and resumed before and after it: run_benchmark and     *)
(* run_shadow.  It counts one row for each item it selects, and its spend   *)
(* is what they cost, through all later runs on the same output file.       *)
THEOREM ManifestsHold == Spec => []PilotManifestHolds
  <1>1. Init => PilotTyped /\ ManifestInv
    BY PilotTypedInit, ManifestInit
  <1>2. PilotTyped /\ ManifestInv /\ [Next]_vars => (PilotTyped /\ ManifestInv)'
    BY PilotTypedStep, ManifestStep
  <1>3. PilotTyped /\ ManifestInv => PilotManifestHolds
    BY DEF PilotTyped, RunInv, ManifestAddsUp, ManifestInv, PilotManifestHolds
  <1>. QED  BY <1>1, <1>2, <1>3, PTL DEF Spec

-----------------------------------------------------------------------------
(* Profile files.  While nobody edits the configuration, what a process has *)
(* read is what the file says, and so are the settings of all rows.         *)

Shaped(f) == {"experiment", "profiles", "rows", "mixed"} \subseteq DOMAIN f

SettingsKnown ==
  ~mixed => /\ \A n \in DOMAIN rows : facts[rows[n].item].setting = config
            /\ selected # None => loaded = config

FilesInv == (\A f \in files : Shaped(f)) /\ SettingsTold /\ ProfilesUnique

LEMMA SettingsKnownStep ==
  ASSUME PilotTyped, SettingsKnown, [Next]_vars
  PROVE  SettingsKnown'
  <1>1. CASE StartStep /\ mixed' = mixed
    BY <1>1 DEF StartStep, SettingsKnown
  <1>2. CASE RowStep /\ mixed' = mixed
    <2>1. PICK i \in pending, total \in Nat \cup {None}, good \in BOOLEAN, latency \in Nat :
            /\ rows'  = Append(rows, [item |-> i, total |-> total])
            /\ facts' = [facts EXCEPT ![i] = [good |-> good, latency |-> latency, setting |-> loaded]]
      BY <1>2 DEF RowStep
    <2>2. /\ selected' = selected /\ selected # None /\ loaded' = loaded /\ config' = config
          /\ i \in Items /\ facts'[i].setting = loaded
      BY <1>2, <2>1 DEF RowStep, PilotTyped, RunInv, RunTypeOK, InStep
    <2>3. \A n \in DOMAIN rows' : \/ n \in DOMAIN rows /\ rows'[n] = rows[n]
                                 \/ rows'[n].item = i
      BY <2>1 DEF PilotTyped, RunInv, RunTypeOK
    <2>4. \A n \in DOMAIN rows : rows[n] \in Row
      BY DEF PilotTyped, RunInv, RunTypeOK
    <2>5. \A j \in Items : facts'[j] = facts[j] \/ j = i
      BY <2>1 DEF PilotTyped
    <2>. QED  BY <1>2, <2>2, <2>3, <2>4, <2>5 DEF SettingsKnown, Row
  <1>3. CASE EndStep /\ mixed' = mixed
    BY <1>3 DEF EndStep, SettingsKnown
  <1>4. CASE ClearStep
    BY <1>4 DEF ClearStep, SettingsKnown
  <1>5. CASE IdleStep /\ config' = config /\ mixed' = mixed
    BY <1>5 DEF IdleStep, SettingsKnown
  <1>6. CASE IdleStep /\ mixed' = (mixed \/ rows # <<>> \/ selected # None)
    <2>1. ~mixed' => rows = <<>> /\ selected = None  BY <1>6
    <2>. QED  BY <1>6, <2>1 DEF IdleStep, SettingsKnown
  <1>. QED  BY <1>1, <1>2, <1>3, <1>4, <1>5, <1>6, StepKinds

LEMMA FilesStep ==
  ASSUME PilotTyped, SettingsKnown, FilesInv, [Next]_vars
  PROVE  FilesInv'
  <1>. DEFINE Good(f) == /\ Shaped(f)
                         /\ ~f.mixed => \A row \in f.rows : row.setting = f.experiment
                         /\ \A p, q \in f.profiles : p.contract = q.contract /\ p.alias = q.alias => p = q
  <1>1. FilesInv <=> \A f \in files : Good(f)
    BY DEF FilesInv, SettingsTold, ProfilesUnique
  <1>2. FilesInv' <=> \A f \in files' : Good(f)
    BY DEF FilesInv, SettingsTold, ProfilesUnique, Shaped
  <1>3. ASSUME NEW file, AddFile(file), Good(file)
        PROVE  FilesInv'
    BY <1>1, <1>2, <1>3 DEF AddFile
  <1>4. CASE files' = files
    BY <1>1, <1>2, <1>4
  <1>5. CASE Build
    <2>. DEFINE file == [experiment |-> config, validated |-> FALSE, merged |-> FALSE,
                         profiles |-> {ProfileOf(key) : key \in MeasuredKeys},
                         rows |-> MeasuredRows, mixed |-> mixed]
    <2>1. Shaped(file)
      BY DEF Shaped
    <2>2. ~mixed => \A row \in MeasuredRows : row.setting = config
      BY DEF MeasuredRows, SettingsKnown
    <2>3. \A key \in MeasuredKeys : key = <<key[1], key[2]>>
      <3>1. \A n \in DOMAIN rows : rows[n].item \in Items  BY RowsTyped DEF PilotTyped, RunInv
      <3>. QED  BY <3>1, KeysAssumption DEF MeasuredKeys
    <2>4. \A key : ProfileOf(key).contract = key[1] /\ ProfileOf(key).alias = key[2]
      BY DEF ProfileOf
    <2>5. \A p, q \in file.profiles : p.contract = q.contract /\ p.alias = q.alias => p = q
      BY <2>3, <2>4
    <2>6. Good(file)
      BY <2>1, <2>2, <2>5
    <2>7. AddFile(file)
      BY <1>5 DEF Build
    <2>. QED  BY <1>3, <2>6, <2>7
  <1>6. ASSUME NEW F \in SUBSET files, Merge(F)
        PROVE  FilesInv'
    <2>. DEFINE first == CHOOSE f \in F : TRUE
                file  == [experiment |-> first.experiment, validated |-> FALSE, merged |-> TRUE,
                          profiles |-> UNION {f.profiles : f \in F},
                          rows |-> UNION {f.rows : f \in F}, mixed |-> \E f \in F : f.mixed]
    <2>1. F # {} /\ Mergeable(F) /\ AddFile(file)  BY <1>6 DEF Merge
    <2>2. first \in F                             BY <2>1
    <2>3. Shaped(file)                            BY DEF Shaped
    <2>4. \A f \in F : Good(f) /\ f.experiment = first.experiment
      BY <1>1, <2>1, <2>2 DEF Mergeable
    <2>5. ~file.mixed => \A row \in file.rows : row.setting = file.experiment
      BY <2>4
    <2>6. ASSUME NEW f \in F, NEW g \in F, NEW p \in f.profiles, NEW q \in g.profiles,
                 p.contract = q.contract, p.alias = q.alias
          PROVE  p = q
      <3>1. <<p.contract, p.alias>> \in KeysIn(f) \cap KeysIn(g)  BY <2>6 DEF KeysIn
      <3>2. f = g                                                BY <2>1, <3>1 DEF Mergeable
      <3>. QED  BY <2>4, <2>6, <3>2
    <2>7. \A p, q \in file.profiles : p.contract = q.contract /\ p.alias = q.alias => p = q
      BY <2>6
    <2>8. Good(file)
      BY <2>3, <2>5, <2>7
    <2>. QED  BY <1>3, <2>1, <2>8
  <1>7. ASSUME NEW f \in files, Promote(f)
        PROVE  FilesInv'
    <2>. DEFINE copy == [f EXCEPT !.validated = TRUE]
    <2>1. Good(f)  BY <1>1
    <2>2. /\ Shaped(copy) /\ copy.mixed = f.mixed /\ copy.rows = f.rows
          /\ copy.experiment = f.experiment /\ copy.profiles = f.profiles
      BY <2>1 DEF Shaped
    <2>3. Good(copy)  BY <2>1, <2>2
    <2>. QED  BY <1>3, <1>7, <2>3 DEF Promote
  <1>. QED
    BY <1>4, <1>5, <1>6, <1>7 DEF Next, Measure, Edit, NextPilot, vars, fileVars

(* A profile file tells the settings that its rows were measured with, as   *)
(* long as nobody edits the configuration during a pilot: build_profiles    *)
(* and merge_profiles, for any number of files.                             *)
THEOREM FilesTellSettings == Spec => []SettingsTold
  <1>1. Init => PilotTyped /\ SettingsKnown /\ FilesInv
    BY PilotTypedInit DEF Init, PilotInit, RunInit, SettingsKnown, FilesInv, SettingsTold, ProfilesUnique
  <1>2. PilotTyped /\ SettingsKnown /\ FilesInv /\ [Next]_vars => (PilotTyped /\ SettingsKnown /\ FilesInv)'
    BY PilotTypedStep, SettingsKnownStep, FilesStep
  <1>3. FilesInv => SettingsTold
    BY DEF FilesInv
  <1>. QED  BY <1>1, <1>2, <1>3, PTL DEF Spec

(* However files are built, merged and promoted, one has a single profile   *)
(* for a contract and an alias; AutopilotService.execute looks the price up *)
(* by these two alone.                                                      *)
THEOREM OneProfilePerKey == Spec => []ProfilesUnique
  <1>1. Init => PilotTyped /\ SettingsKnown /\ FilesInv
    BY PilotTypedInit DEF Init, PilotInit, RunInit, SettingsKnown, FilesInv, SettingsTold, ProfilesUnique
  <1>2. PilotTyped /\ SettingsKnown /\ FilesInv /\ [Next]_vars => (PilotTyped /\ SettingsKnown /\ FilesInv)'
    BY PilotTypedStep, SettingsKnownStep, FilesStep
  <1>3. FilesInv => ProfilesUnique
    BY DEF FilesInv
  <1>. QED  BY <1>1, <1>2, <1>3, PTL DEF Spec

-----------------------------------------------------------------------------
(* Calls in flight: the semaphore bounds what one stop can lose; a call    *)
(* that raised gives its slot away before the stop, and counts for itself. *)

SlotsHeld ==
  /\ stage \in [Items -> {"out", "queued", "calling", "raised"}]
  /\ Cardinality(Calling) \in 0..Concurrency
  /\ lost \in Nat /\ raised \in Nat /\ cut \in Nat /\ OverspendBounded

LEMMA CallingFinite ==
  /\ IsFiniteSet(Calling)
  /\ Cardinality(Calling) \in Nat
  BY ItemsAssumption, FS_Subset, FS_CardinalityType DEF Calling

LEMMA FewerCalling ==
  ASSUME Calling' \subseteq Calling, Cardinality(Calling) \in 0..Concurrency
  PROVE  Cardinality(Calling') \in 0..Concurrency
  <1>1. IsFiniteSet(Calling')  BY CallingFinite, FS_Subset
  <1>2. Cardinality(Calling') \in Nat /\ Cardinality(Calling') <= Cardinality(Calling)
    BY <1>1, CallingFinite, FS_Subset, FS_CardinalityType
  <1>. QED  BY <1>2, PilotAssumption

LEMMA NoneCalling ==
  ASSUME \A i \in Items : stage'[i] # "calling"
  PROVE  Calling' \subseteq Calling
  BY DEF Calling

LEMMA SlotsStep ==
  ASSUME SlotsHeld, [Next]_vars
  PROVE  SlotsHeld'
  <1>1. ASSUME NEW S \in Selections, Launch(S)
        PROVE  SlotsHeld'
    <2>1. /\ stage' = [i \in Items |-> IF i \in pending' THEN "queued" ELSE "out"]
          /\ lost' = lost /\ raised' = raised /\ cut' = cut
      BY <1>1 DEF Launch
    <2>2. Calling' \subseteq Calling  BY <2>1, NoneCalling
    <2>. QED  BY <2>1, <2>2, FewerCalling DEF SlotsHeld, OverspendBounded
  <1>2. ASSUME NEW i \in Items, BeginCall(i)
        PROVE  SlotsHeld'
    <2>1. /\ stage' = [stage EXCEPT ![i] = "calling"] /\ Cardinality(Calling) < Concurrency
          /\ lost' = lost /\ raised' = raised /\ cut' = cut
      BY <1>2 DEF BeginCall, SlotFree
    <2>2. Calling' = Calling \cup {i}  BY <2>1 DEF SlotsHeld, Calling
    <2>3. Cardinality(Calling') \in Nat /\ Cardinality(Calling') <= Cardinality(Calling) + 1
      BY <2>2, CallingFinite, FS_AddElement
    <2>. QED  BY <2>1, <2>3, CallingFinite, PilotAssumption DEF SlotsHeld, OverspendBounded
  <1>3. ASSUME NEW i \in Items, NEW reply \in Replies[i], EndCall(i, reply)
        PROVE  SlotsHeld'
    <2>1. stage' = [stage EXCEPT ![i] = "out"] /\ lost' = lost /\ raised' = raised /\ cut' = cut
      BY <1>3 DEF EndCall
    <2>2. Calling' \subseteq Calling  BY <2>1 DEF Calling, SlotsHeld
    <2>. QED  BY <2>1, <2>2, FewerCalling DEF SlotsHeld, OverspendBounded
  <1>4. CASE Cancel
    <2>1. stage' = AllOut /\ lost' = lost + Cardinality(Calling) /\ raised' = raised /\ cut' = cut + 1
      BY <1>4 DEF Cancel
    <2>2. Calling' \subseteq Calling  BY <2>1, NoneCalling DEF AllOut
    <2>3. Concurrency * (cut + 1) = Concurrency * cut + Concurrency
      BY PilotAssumption DEF SlotsHeld
    <2>4. Concurrency * cut \in Nat
      BY PilotAssumption DEF SlotsHeld
    <2>5. lost' \in Nat /\ cut' \in Nat /\ OverspendBounded'
      BY <2>1, <2>3, <2>4, PilotAssumption DEF SlotsHeld, OverspendBounded
    <2>. QED  BY <2>1, <2>2, <2>5, FewerCalling DEF SlotsHeld, AllOut
  <1>5. ASSUME NEW i \in Items, Raise(i)
        PROVE  SlotsHeld'
    <2>1. stage' = [stage EXCEPT ![i] = "raised"] /\ lost' = lost + 1 /\ raised' = raised + 1 /\ cut' = cut
      BY <1>5 DEF Raise
    <2>2. Calling' \subseteq Calling  BY <2>1 DEF Calling, SlotsHeld
    <2>3. Concurrency * cut \in Nat
      BY PilotAssumption DEF SlotsHeld
    <2>4. OverspendBounded'
      BY <2>1, <2>3 DEF SlotsHeld, OverspendBounded
    <2>. QED  BY <2>1, <2>2, <2>4, FewerCalling DEF SlotsHeld
  <1>6. CASE UNCHANGED <<stage, lost, raised, cut>>
    BY <1>6 DEF SlotsHeld, OverspendBounded, Calling
  <1>. QED
    BY <1>1, <1>2, <1>3, <1>4, <1>5, <1>6
    DEF Next, Measure, Complete, Edit, EditConfig, NextPilot, NewOutput, Build, Merge, Promote, AddFile,
        vars, pilotVars

(* Without a row are the calls that raised, and at most one for each slot   *)
(* of each process that was stopped: a slot that an exception frees may be  *)
(* taken once more before the process stops, and the semaphore bounds what  *)
(* is in flight then.                                                       *)
THEOREM Overspend == Spec => []OverspendBounded
  <1>1. ASSUME Init  PROVE SlotsHeld
    <2>1. stage = [i \in Items |-> "out"] /\ lost = 0 /\ raised = 0 /\ cut = 0
      BY <1>1 DEF Init, PilotInit, AllOut
    <2>2. Calling = {}
      BY <2>1 DEF Calling
    <2>3. Cardinality(Calling) \in 0..Concurrency
      BY <2>2, FS_EmptySet, PilotAssumption
    <2>4. Concurrency * 0 = 0
      BY PilotAssumption
    <2>. QED  BY <2>1, <2>3, <2>4 DEF SlotsHeld, OverspendBounded
  <1>2. SlotsHeld /\ [Next]_vars => SlotsHeld'
    BY SlotsStep
  <1>3. SlotsHeld => OverspendBounded
    BY DEF SlotsHeld
  <1>. QED  BY <1>1, <1>2, <1>3, PTL DEF Spec

-----------------------------------------------------------------------------
(* The figures of a profile.                                               *)

\* The rows of a contract and an alias, as places in the output file.
PlacesOf(key) == {n \in DOMAIN rows : KeyOf[rows[n].item] = key}

CostsOf(key) == [n \in PlacesOf(key) |-> rows[n].total]

LEMMA PlacesTyped ==
  ASSUME PilotTyped, NEW key \in MeasuredKeys
  PROVE  /\ IsFiniteSet(PlacesOf(key)) /\ Cardinality(PlacesOf(key)) \in Nat \ {0}
         /\ \A n \in PlacesOf(key) : rows[n].item \in Items /\ rows[n].total \in Nat \cup {None}
         /\ key \in {KeyOf[i] : i \in Items} /\ key = <<key[1], key[2]>>
  <1>1. IsFiniteSet(DOMAIN rows) /\ \A n \in DOMAIN rows : rows[n].item \in Items /\ rows[n].total \in Nat \cup {None}
    BY RowsTyped DEF PilotTyped, RunInv
  <1>2. PlacesOf(key) \in SUBSET DOMAIN rows /\ PlacesOf(key) # {}
    BY DEF PlacesOf, MeasuredKeys
  <1>3. IsFiniteSet(PlacesOf(key))
    BY <1>1, <1>2, FS_Subset
  <1>4. Cardinality(PlacesOf(key)) \in Nat \ {0}
    BY <1>2, <1>3, FS_EmptySet, FS_CardinalityType
  <1>5. PICK i \in Items : key = KeyOf[i]
    BY <1>1 DEF MeasuredKeys
  <1>. QED  BY <1>1, <1>2, <1>3, <1>4, <1>5, KeysAssumption

\* The price covers the mean of the known costs; an unknown one makes it 0.
LEMMA PriceCovers ==
  ASSUME PilotTyped, NEW key \in MeasuredKeys
  PROVE  /\ Price(CostsOf(key)) \in Nat
         /\ (\E n \in PlacesOf(key) : rows[n].total = None) => Price(CostsOf(key)) = 0
         /\ (\A n \in PlacesOf(key) : rows[n].total # None) =>
              /\ \A n \in PlacesOf(key) : CostsOf(key)[n] \in Nat
              /\ Price(CostsOf(key)) * Cardinality(PlacesOf(key)) >= SumFunctionOnSet(CostsOf(key), PlacesOf(key))
  <1>. DEFINE costs == CostsOf(key)  D == PlacesOf(key)  unit == Cardinality(D)
  <1>1. DOMAIN costs = D /\ \A n \in D : costs[n] = rows[n].total
    BY DEF CostsOf
  <1>2. IsFiniteSet(D) /\ unit \in Nat \ {0} /\ \A n \in D : rows[n].total \in Nat \cup {None}
    BY PlacesTyped
  <1>. HIDE DEF costs, D
  <1>3. CASE \E n \in D : rows[n].total = None
    <2>1. Price(costs) = 0
      BY <1>1, <1>3 DEF Price, MeanCost, Known
    <2>. QED  BY <1>3, <2>1 DEF costs, D
  <1>4. CASE \A n \in D : rows[n].total # None
    <2>1. \A n \in D : costs[n] \in Nat
      BY <1>1, <1>2, <1>4
    <2>2. PICK sum \in Nat : sum = SumFunctionOnSet(costs, D)
      BY <1>2, <2>1, SumIsNat
    <2>3. MeanCost(costs, None) = CeilDiv(sum, unit)
      BY <1>1, <1>4, <2>2 DEF MeanCost, SumFunction
    <2>4. CeilDiv(sum, unit) \in Nat /\ unit * CeilDiv(sum, unit) >= sum
      BY <1>2, <2>2, CeilDivLeast
    <2>5. Price(costs) = CeilDiv(sum, unit)
      BY <2>3, <2>4, BudgetAssumption DEF Price, Known
    <2>6. Price(costs) * unit >= sum
      BY <1>2, <2>4, <2>5
    <2>. QED  BY <1>4, <2>1, <2>2, <2>4, <2>5, <2>6 DEF costs, D
  <1>. QED  BY <1>3, <1>4 DEF D

\* What build_profiles makes of the rows of a contract and an alias.
LEMMA FiguresTyped ==
  ASSUME PilotTyped, NEW key \in MeasuredKeys
  PROVE  LET p == ProfileOf(key) IN
         /\ <<p.contract, p.alias>> = key /\ p.cost = Price(CostsOf(key))
         /\ p.quality \in 0..100 /\ p.p95 \in Nat
  <1>. DEFINE D == PlacesOf(key)
              successes == {n \in D : facts[rows[n].item].good}
              latencies == [n \in D |-> facts[rows[n].item].latency]
  <1>1. IsFiniteSet(D) /\ Cardinality(D) \in Nat \ {0} /\ key = <<key[1], key[2]>>
        /\ \A n \in D : rows[n].item \in Items
    BY PlacesTyped
  <1>2. Cardinality(successes) \in Nat
    BY <1>1, FS_Subset, FS_CardinalityType
  <1>3. latencies \in [D -> Nat] /\ D # {}
    <2>1. D # {}
      BY <1>1, FS_EmptySet
    <2>2. \A i \in Items : facts[i].latency \in Nat
      BY DEF PilotTyped, Facts
    <2>. HIDE DEF D
    <2>. QED  BY <1>1, <2>1, <2>2
  <1>4. Percentile95(latencies) \in Nat
    <2>. HIDE DEF D, latencies
    <2>. QED  BY <1>1, <1>3, PercentileCovers
  <1>5. WilsonLower(Cardinality(successes), Cardinality(D)) \in 0..99
    BY <1>1, <1>2, WilsonIsGreatest
  <1>6. ProfileOf(key) =
          [contract |-> key[1], alias |-> key[2], quality |-> WilsonLower(Cardinality(successes), Cardinality(D)),
           p95 |-> Percentile95(latencies), cost |-> Price(CostsOf(key)), fallback |-> key[2] = Strong]
    BY DEF ProfileOf, PlacesOf, CostsOf
  <1>. HIDE DEF D, successes, latencies
  <1>. QED  BY <1>1, <1>4, <1>5, <1>6

-----------------------------------------------------------------------------
(* What is in a profile file.                                              *)

SampleIn(f, p) == {row \in f.rows : KeyOf[row.item] = <<p.contract, p.alias>>}

PriceTold(p, sample) ==
  \/ p.cost * Cardinality(sample) >= SumFunction([row \in sample |-> Known(row.total)])
  \/ p.cost = 0 /\ \E row \in sample : row.total = None

\* Its profiles are those of its rows, which makes prices survive a merge.
FilePriced(f) ==
  /\ KeysIn(f) = {KeyOf[row.item] : row \in f.rows}
  /\ \A p \in f.profiles : PriceTold(p, SampleIn(f, p))

FileTyped(f) ==
  /\ DOMAIN f = {"experiment", "validated", "merged", "profiles", "rows", "mixed"}
  /\ f.experiment \in Settings
  /\ f.validated \in BOOLEAN /\ f.merged \in BOOLEAN /\ f.mixed \in BOOLEAN
  /\ \A row \in f.rows : row.item \in Items /\ row.setting \in Settings
  /\ \A p \in f.profiles :
       /\ <<p.contract, p.alias>> \in {KeyOf[i] : i \in Items}
       /\ p.quality \in 0..100 /\ p.p95 \in Nat /\ p.cost \in Nat

FilesGood == \A f \in files : FileTyped(f) /\ FilePriced(f)

\* The rows that go into a file, for the places in the output file.
RowAt(n) == [item |-> rows[n].item, total |-> rows[n].total, setting |-> facts[rows[n].item].setting]

LEMMA BuiltPriced ==
  ASSUME PilotTyped, NEW key \in MeasuredKeys
  PROVE  PriceTold(ProfileOf(key), {row \in MeasuredRows : KeyOf[row.item] = key})
  <1>. DEFINE D      == PlacesOf(key)
              sample == {row \in MeasuredRows : KeyOf[row.item] = key}
              h      == [n \in D |-> RowAt(n)]
              g      == [row \in sample |-> Known(row.total)]
              p      == ProfileOf(key)
  <1>1. /\ IsFiniteSet(D) /\ Cardinality(D) \in Nat \ {0}
        /\ \A n \in D : rows[n].total \in Nat \cup {None}
    BY PlacesTyped
  <1>2. sample = {h[n] : n \in D} /\ \A n \in D : h[n].item = rows[n].item /\ h[n].total = rows[n].total
    <2>1. \A n : RowAt(n).item = rows[n].item /\ RowAt(n).total = rows[n].total
      BY DEF RowAt
    <2>2. MeasuredRows = {RowAt(n) : n \in DOMAIN rows}
      BY DEF MeasuredRows, RowAt
    <2>3. sample = {RowAt(n) : n \in D}
      BY <2>1, <2>2 DEF PlacesOf
    <2>4. \A n \in D : h[n] = RowAt(n)
      OBVIOUS
    <2>. HIDE DEF sample, h, D
    <2>. QED  BY <2>1, <2>3, <2>4
  <1>3. \A m, n \in D : h[m] = h[n] => m = n
    <2>1. \A m, n \in D : rows[m].item = rows[n].item => m = n
      BY DEF PilotTyped, RunInv, RowsUnique, PlacesOf
    <2>. HIDE DEF h, D
    <2>. QED  BY <1>2, <2>1
  <1>4. Cardinality(sample) = Cardinality(D)
    <2>1. h \in Bijection(D, sample)
      BY <1>2, <1>3 DEF Bijection, Injection, Surjection, IsInjective
    <2>2. ExistsBijection(D, sample)
      BY <2>1, Zenon DEF ExistsBijection
    <2>. QED  BY <1>1, <2>2, FS_Bijection
  <1>5. p.cost = Price(CostsOf(key))
    BY FiguresTyped
  <1>6. CASE \E n \in D : rows[n].total = None
    <2>1. p.cost = 0
      BY <1>5, <1>6, PriceCovers
    <2>2. \E row \in sample : row.total = None
      BY <1>2, <1>6
    <2>. QED  BY <2>1, <2>2 DEF PriceTold
  <1>7. CASE \A n \in D : rows[n].total # None
    <2>1. /\ \A n \in D : CostsOf(key)[n] \in Nat /\ CostsOf(key)[n] = rows[n].total
          /\ p.cost * Cardinality(D) >= SumFunctionOnSet(CostsOf(key), D)
      BY <1>5, <1>7, PriceCovers DEF CostsOf
    <2>2. \A n \in D : g[h[n]] = CostsOf(key)[n]
      BY <1>2, <1>7, <2>1 DEF Known
    <2>3. SumFunctionOnSet(CostsOf(key), D) = SumFunctionOnSet(g, {h[n] : n \in D})
      <3>. HIDE DEF g, h, D
      <3>. QED  BY <1>1, <1>3, <2>1, <2>2, SumRenamed
    <2>4. SumFunction(g) = SumFunctionOnSet(CostsOf(key), D)
      <3>1. DOMAIN g = sample
        OBVIOUS
      <3>. QED  BY <1>2, <2>3, <3>1 DEF SumFunction
    <2>. QED  BY <1>4, <2>1, <2>4 DEF PriceTold
  <1>. QED  BY <1>6, <1>7

LEMMA BuiltGood ==
  ASSUME PilotTyped, mixed \in BOOLEAN, NEW file,
         file = [experiment |-> config, validated |-> FALSE, merged |-> FALSE,
                 profiles |-> {ProfileOf(key) : key \in MeasuredKeys},
                 rows |-> MeasuredRows, mixed |-> mixed]
  PROVE  FileTyped(file) /\ FilePriced(file)
  <1>1. \A n \in DOMAIN rows : rows[n].item \in Items /\ facts[rows[n].item].setting \in Settings
    <2>1. \A n \in DOMAIN rows : rows[n].item \in Items
      BY RowsTyped DEF PilotTyped, RunInv
    <2>. QED  BY <2>1 DEF PilotTyped, Facts
  <1>2. \A row \in MeasuredRows : row.item \in Items /\ row.setting \in Settings
    BY <1>1 DEF MeasuredRows
  <1>3. \A key \in MeasuredKeys :
          /\ <<ProfileOf(key).contract, ProfileOf(key).alias>> = key
          /\ key \in {KeyOf[i] : i \in Items}
          /\ ProfileOf(key).quality \in 0..100 /\ ProfileOf(key).p95 \in Nat /\ ProfileOf(key).cost \in Nat
    BY FiguresTyped, PriceCovers, PlacesTyped
  <1>4. FileTyped(file)
    <2>1. /\ DOMAIN file = {"experiment", "validated", "merged", "profiles", "rows", "mixed"}
          /\ file.experiment = config /\ file.rows = MeasuredRows
          /\ file.profiles = {ProfileOf(key) : key \in MeasuredKeys}
      OBVIOUS
    <2>2. file.validated \in BOOLEAN /\ file.merged \in BOOLEAN /\ file.mixed \in BOOLEAN
      OBVIOUS
    <2>. QED  BY <1>2, <1>3, <2>1, <2>2 DEF FileTyped, PilotTyped
  <1>5. KeysIn(file) = MeasuredKeys
    BY <1>3 DEF KeysIn
  <1>6. MeasuredKeys = {KeyOf[row.item] : row \in MeasuredRows}
    <2>1. \A n \in DOMAIN rows : RowAt(n) \in MeasuredRows /\ RowAt(n).item = rows[n].item
      BY DEF MeasuredRows, RowAt
    <2>2. \A row \in MeasuredRows : \E n \in DOMAIN rows : row.item = rows[n].item
      BY DEF MeasuredRows
    <2>. QED  BY <2>1, <2>2 DEF MeasuredKeys
  <1>7. \A key \in MeasuredKeys : PriceTold(ProfileOf(key), SampleIn(file, ProfileOf(key)))
    BY <1>3, BuiltPriced DEF SampleIn
  <1>. QED  BY <1>4, <1>5, <1>6, <1>7 DEF FilePriced

\* A profile keeps its sample, for no other file has rows with its key.
LEMMA MergedGood ==
  ASSUME FilesGood, NEW F \in SUBSET files, F # {}, Mergeable(F), NEW file,
         file = [experiment |-> (CHOOSE f \in F : TRUE).experiment, validated |-> FALSE, merged |-> TRUE,
                 profiles |-> UNION {f.profiles : f \in F},
                 rows |-> UNION {f.rows : f \in F}, mixed |-> \E f \in F : f.mixed]
  PROVE  FileTyped(file) /\ FilePriced(file)
  <1>1. \A f \in F : FileTyped(f) /\ FilePriced(f)
    BY DEF FilesGood
  <1>2. FileTyped(file)
    <2>1. (CHOOSE f \in F : TRUE) \in F
      OBVIOUS
    <2>2. file.validated \in BOOLEAN /\ file.merged \in BOOLEAN /\ file.mixed \in BOOLEAN
      OBVIOUS
    <2>. QED  BY <1>1, <2>1, <2>2 DEF FileTyped
  <1>3. KeysIn(file) = UNION {KeysIn(f) : f \in F}
    BY DEF KeysIn
  <1>4. KeysIn(file) = {KeyOf[row.item] : row \in file.rows}
    BY <1>1, <1>3 DEF FilePriced
  <1>5. ASSUME NEW f \in F, NEW p \in f.profiles  PROVE SampleIn(file, p) = SampleIn(f, p)
    <2>1. <<p.contract, p.alias>> \in KeysIn(f)
      BY DEF KeysIn
    <2>2. ASSUME NEW g \in F, NEW row \in g.rows, KeyOf[row.item] = <<p.contract, p.alias>>  PROVE g = f
      <3>1. <<p.contract, p.alias>> \in KeysIn(g)
        BY <1>1, <2>2 DEF FilePriced
      <3>. QED  BY <2>1, <3>1 DEF Mergeable
    <2>. QED  BY <2>2 DEF SampleIn
  <1>6. \A p \in file.profiles : PriceTold(p, SampleIn(file, p))
    BY <1>1, <1>5 DEF FilePriced
  <1>. QED  BY <1>2, <1>4, <1>6 DEF FilePriced

LEMMA GoodStep ==
  ASSUME PilotTyped, mixed \in BOOLEAN, FilesGood, [Next]_vars
  PROVE  FilesGood'
  <1>1. FilesGood' <=> \A f \in files' : FileTyped(f) /\ FilePriced(f)
    BY DEF FilesGood
  <1>2. ASSUME NEW file, AddFile(file), FileTyped(file), FilePriced(file)  PROVE FilesGood'
    BY <1>1, <1>2 DEF AddFile, FilesGood
  <1>3. CASE files' = files
    BY <1>1, <1>3 DEF FilesGood
  <1>4. CASE Build
    BY <1>2, <1>4, BuiltGood DEF Build
  <1>5. ASSUME NEW F \in SUBSET files, Merge(F)  PROVE FilesGood'
    BY <1>2, <1>5, MergedGood DEF Merge
  <1>6. ASSUME NEW f \in files, Promote(f)  PROVE FilesGood'
    <2>. DEFINE copy == [f EXCEPT !.validated = TRUE]
    <2>1. FileTyped(f) /\ FilePriced(f)
      BY DEF FilesGood
    <2>2. /\ DOMAIN copy = DOMAIN f /\ copy.validated \in BOOLEAN
          /\ copy.experiment = f.experiment /\ copy.merged = f.merged /\ copy.profiles = f.profiles
          /\ copy.rows = f.rows /\ copy.mixed = f.mixed
      BY <2>1 DEF FileTyped
    <2>. HIDE DEF copy
    <2>3. FileTyped(copy) /\ FilePriced(copy)
      BY <2>1, <2>2 DEF FileTyped, FilePriced, KeysIn, SampleIn
    <2>. QED  BY <1>2, <1>6, <2>3 DEF Promote, copy
  <1>. QED  BY <1>3, <1>4, <1>5, <1>6 DEF Next, Measure, Edit, NextPilot, vars, fileVars

-----------------------------------------------------------------------------
(* The other variables.                                                    *)

Counted ==
  /\ script \in Scripts /\ starts \in 0..MaxStarts
  /\ stage \in [Items -> {"out", "queued", "calling", "raised"}]
  /\ \A i \in Items : stage[i] # "out" <=> i \in pending
  /\ lost \in Nat /\ raised \in Nat /\ cut \in 0..starts /\ (selected # None => cut < starts)
  /\ mixed \in BOOLEAN /\ edits \in 0..MaxEdits

LEMMA CountedStep ==
  ASSUME PilotTyped, Counted, [Next]_vars
  PROVE  Counted'
  <1>. USE PilotAssumption, KeysAssumption
  <1>1. ASSUME NEW S \in Selections, Launch(S), UNCHANGED fileVars  PROVE Counted'
    BY <1>1 DEF Launch, StartRun, fileVars, Counted
  <1>2. ASSUME NEW i \in Items, BeginCall(i) \/ Raise(i), UNCHANGED fileVars  PROVE Counted'
    BY <1>2 DEF BeginCall, Raise, runVars, fileVars, Counted
  <1>3. ASSUME NEW i \in Items, NEW reply \in Replies[i], EndCall(i, reply), UNCHANGED fileVars  PROVE Counted'
    BY <1>3 DEF EndCall, WriteRow, fileVars, Counted
  <1>4. CASE Complete /\ UNCHANGED fileVars
    BY <1>4 DEF Complete, FinishRun, fileVars, Counted
  <1>5. CASE Cancel /\ UNCHANGED fileVars
    <2>1. lost' \in Nat
      BY <1>5, CallingFinite DEF Cancel, Counted
    <2>. QED  BY <1>5, <2>1 DEF Cancel, StopRun, AllOut, fileVars, Counted
  <1>6. ASSUME NEW s \in Settings, Edit(s)  PROVE Counted'
    <2>1. mixed' \in BOOLEAN
      BY <1>6, Zenon DEF Edit
    <2>. QED  BY <1>6, <2>1 DEF Edit, EditConfig, runVars, Counted
  <1>7. CASE NextPilot
    <2>1. mixed' \in BOOLEAN
      BY <1>7, Zenon DEF NextPilot
    <2>. QED  BY <1>7, <2>1 DEF NextPilot, NewOutput, Counted
  <1>8. ASSUME NEW file, AddFile(file)  PROVE Counted'
    BY <1>8 DEF AddFile, pilotVars, runVars, Counted
  <1>9. CASE UNCHANGED vars
    BY <1>9 DEF vars, pilotVars, runVars, fileVars, Counted
  <1>. QED  BY <1>1, <1>2, <1>3, <1>4, <1>5, <1>6, <1>7, <1>8, <1>9 DEF Next, Measure, Build, Merge, Promote

ProfilesInv == PilotTyped /\ Counted /\ FilesGood

LEMMA ProfilesInvariant == Spec => []ProfilesInv
  <1>1. Init => ProfilesInv
    <2>1. Init => Counted
      <3>1. Init => mixed \in BOOLEAN
        BY Zenon DEF Init
      <3>. QED  BY <3>1, PilotAssumption, KeysAssumption DEF Init, PilotInit, RunInit, AllOut, Counted
    <2>. QED  BY <2>1, PilotTypedInit DEF Init, ProfilesInv, FilesGood
  <1>2. ProfilesInv /\ [Next]_vars => ProfilesInv'
    <2>. SUFFICES ASSUME ProfilesInv, [Next]_vars  PROVE ProfilesInv'
      OBVIOUS
    <2>1. PilotTyped /\ Counted /\ FilesGood /\ mixed \in BOOLEAN
      BY DEF ProfilesInv, Counted
    <2>. QED  BY <2>1, PilotTypedStep, CountedStep, GoodStep DEF ProfilesInv
  <1>. QED  BY <1>1, <1>2, PTL DEF Spec

(* The rows, the state of the scripts and every profile file that is built, *)
(* merged or promoted keep their types; in particular the quality is a per  *)
(* cent, and latency and price are numbers, whatever was measured.          *)
THEOREM ProfilesTypeCorrect == Spec => []TypeOK
  <1>1. ProfilesInv => TypeOK
    BY DEF ProfilesInv, PilotTyped, RunInv, Counted, FilesGood, FileTyped, TypeOK, PilotTypeOK
  <1>. QED  BY <1>1, ProfilesInvariant, PTL

(* summarize and merge_profiles: the price of a profile covers what its     *)
(* sample cost on average, or is the 0 that stands for an unknown cost,     *)
(* however many files were merged into its own.                             *)
THEOREM PricesCoverSamples == Spec => []PricesMeasured
  <1>1. ProfilesInv => PricesMeasured
    BY DEF ProfilesInv, FilesGood, FilePriced, PriceTold, SampleIn, PricesMeasured
  <1>. QED  BY <1>1, ProfilesInvariant, PTL

-----------------------------------------------------------------------------
(* From a file to a route and a reservation.                                *)

FilesFinite == IsFiniteSet(files) /\ \A f \in files : IsFiniteSet(f.profiles)

LEMMA FiniteStep ==
  ASSUME PilotTyped, FilesGood, FilesFinite, [Next]_vars
  PROVE  FilesFinite'
  <1>1. ASSUME NEW file, AddFile(file), IsFiniteSet(file.profiles)  PROVE FilesFinite'
    <2>1. IsFiniteSet(files \cup {file})
      BY FS_AddElement DEF FilesFinite
    <2>. QED  BY <1>1, <2>1 DEF AddFile, FilesFinite
  <1>2. CASE files' = files
    BY <1>2 DEF FilesFinite
  <1>3. CASE Build
    <2>. DEFINE key  == [n \in DOMAIN rows |-> KeyOf[rows[n].item]]
                made == [k \in MeasuredKeys |-> ProfileOf(k)]
    <2>1. IsFiniteSet(DOMAIN rows)
      BY RowsTyped DEF PilotTyped, RunInv
    <2>2. IsFiniteSet(MeasuredKeys)
      <3>1. MeasuredKeys = {key[n] : n \in DOMAIN rows}
        BY DEF MeasuredKeys
      <3>. HIDE DEF key
      <3>. QED  BY <2>1, <3>1, ImageFinite
    <2>3. IsFiniteSet({ProfileOf(k) : k \in MeasuredKeys})
      <3>1. {ProfileOf(k) : k \in MeasuredKeys} = {made[k] : k \in MeasuredKeys}
        OBVIOUS
      <3>. HIDE DEF made
      <3>. QED  BY <2>2, <3>1, ImageFinite
    <2>. QED  BY <1>1, <1>3, <2>3 DEF Build
  <1>4. ASSUME NEW F \in SUBSET files, Merge(F)  PROVE FilesFinite'
    <2>. DEFINE content == [f \in F |-> f.profiles]  T == {content[f] : f \in F}
    <2>1. IsFiniteSet(F) /\ \A f \in F : IsFiniteSet(f.profiles)
      BY FS_Subset DEF FilesFinite
    <2>2. \A t \in T : IsFiniteSet(t)
      BY <2>1
    <2>3. UNION T = UNION {f.profiles : f \in F}
      OBVIOUS
    <2>4. IsFiniteSet(T)
      <3>. HIDE DEF content
      <3>. QED  BY <2>1, ImageFinite
    <2>. HIDE DEF T
    <2>5. IsFiniteSet(UNION T)
      BY <2>2, <2>4, FS_UNION
    <2>. QED  BY <1>1, <1>4, <2>3, <2>5 DEF Merge
  <1>5. ASSUME NEW f \in files, Promote(f)  PROVE FilesFinite'
    <2>. DEFINE copy == [f EXCEPT !.validated = TRUE]
    <2>1. copy.profiles = f.profiles
      BY DEF FilesGood, FileTyped
    <2>. QED  BY <1>1, <1>5, <2>1 DEF Promote, FilesFinite
  <1>. QED  BY <1>2, <1>3, <1>4, <1>5 DEF Next, Measure, Edit, NextPilot, vars, fileVars

(* What stands first in the router's list is one of its profiles.           *)
LEMMA BestIsOne ==
  ASSUME NEW profiles, NEW places \in SUBSET Nat, places # {},
         \A i \in places : /\ profiles[i].cost \in Nat /\ profiles[i].quality \in 0..100
                           /\ profiles[i].alias \in Nat
  PROVE  \E i \in places : Best(profiles, places) = profiles[i]
  <1>. DEFINE First(i) == \A k \in places : /\ ~Before(profiles[k], profiles[i])
                                            /\ k < i => Before(profiles[i], profiles[k])
              cost    == [i \in places |-> profiles[i].cost]
              quality == [i \in places |-> profiles[i].quality]
              alias   == [i \in places |-> profiles[i].alias]
  <1>1. cost \in [places -> Nat] /\ quality \in [places -> 0..100] /\ alias \in [places -> Nat]
    OBVIOUS
  <1>2. \A i \in places : /\ cost[i] = profiles[i].cost /\ quality[i] = profiles[i].quality
                          /\ alias[i] = profiles[i].alias
    OBVIOUS
  <1>. HIDE DEF cost, quality, alias
  <1>3. PICK i \in places : \A k \in places : /\ ~Ahead(cost, quality, alias, k, i)
                                              /\ k < i => Ahead(cost, quality, alias, i, k)
    BY <1>1, Foremost
  <1>4. First(i)
    BY <1>2, <1>3 DEF Before, Ahead
  <1>. DEFINE best == CHOOSE j \in places : First(j)
  <1>5. best \in places
    <2>. HIDE DEF First
    <2>. QED  BY <1>4
  <1>6. Best(profiles, places) = profiles[best]
    BY Zenon DEF Best
  <1>. QED  BY <1>5, <1>6

(* The models of a route are those of eligible profiles (policy.py).        *)
LEMMA RouteIsEligible ==
  ASSUME NEW profiles, NEW contract, NEW budget, NEW deadline,
         DOMAIN profiles \in SUBSET Nat,
         \A i \in DOMAIN profiles : profiles[i].cost \in Nat /\ profiles[i].quality \in 0..100,
         NEW route, route = Select(profiles, contract, budget, deadline), route # NoRoute,
         NEW a \in {route.primary, route.fallback} \ {NoFallback}
  PROVE  \E i \in Candidates(profiles, contract, budget, deadline) : profiles[i].alias = a
  <1>. DEFINE cands == Candidates(profiles, contract, budget, deadline)
  <1>1. \A S \in SUBSET cands : S \in SUBSET Nat /\ \A i \in S :
          profiles[i].cost \in Nat /\ profiles[i].quality \in 0..100 /\ profiles[i].alias \in Nat
    BY ModelsAssumption DEF Candidates, Reason
  <1>2. cands # {}
    BY DEF Select
  <1>3. PICK i \in cands : Best(profiles, cands) = profiles[i]
    BY <1>1, <1>2, BestIsOne
  <1>. DEFINE qualified == {k \in cands : profiles[k].fallback /\ profiles[k].alias # profiles[i].alias}
  <1>4. CASE qualified = {}
    <2>1. route = Route(profiles[i].alias, NoFallback, profiles[i].cost)
      BY <1>2, <1>3, <1>4 DEF Select
    <2>. QED  BY <2>1 DEF Route
  <1>5. CASE qualified # {}
    <2>1. PICK j \in qualified : Best(profiles, qualified) = profiles[j]
      <3>. HIDE DEF qualified
      <3>1. qualified \in SUBSET cands
        BY DEF qualified
      <3>. QED  BY <1>1, <1>5, <3>1, BestIsOne
    <2>2. route = Route(profiles[i].alias, profiles[j].alias,
                        profiles[i].cost + RoundPercent((100 - profiles[i].quality) * profiles[j].cost))
      BY <1>2, <1>3, <1>5, <2>1 DEF Select
    <2>. QED  BY <2>1, <2>2 DEF Route
  <1>. QED  BY <1>4, <1>5

(* The reserved cost is that of a profile of the contract with that alias,  *)
(* the first one (service.py, execute).                                     *)
LEMMA ReservedIsOne ==
  ASSUME NEW n \in Nat, NEW profiles, DOMAIN profiles = 1..n, NEW contract, NEW a,
         NEW i \in DOMAIN profiles, profiles[i].contract = contract.id, profiles[i].alias = a
  PROVE  \E j \in DOMAIN profiles : /\ profiles[j].contract = contract.id
                                    /\ profiles[j].alias = a
                                    /\ ReservedCost(profiles, contract, a) = profiles[j].cost
  <1>. DEFINE Fits(j) == profiles[j].contract = contract.id /\ profiles[j].alias = a
              T       == {j \in 1..n : Fits(j)}
              First(j) == /\ profiles[j].contract = contract.id /\ profiles[j].alias = a
                          /\ \A k \in 1..(j - 1) : ~(profiles[k].contract = contract.id /\ profiles[k].alias = a)
              first   == CHOOSE j \in DOMAIN profiles : First(j)
  <1>1. T \in SUBSET Nat /\ T # {}
    OBVIOUS
  <1>2. PICK j \in T : \A k \in T : j <= k
    <2>. HIDE DEF T
    <2>. QED  BY <1>1, LeastNumber
  <1>3. j \in DOMAIN profiles /\ First(j)
    BY <1>2
  <1>4. first \in DOMAIN profiles /\ First(first)
    <2>. HIDE DEF First
    <2>. QED  BY <1>3
  <1>5. ReservedCost(profiles, contract, a) = profiles[first].cost
    BY Zenon DEF ReservedCost
  <1>. QED  BY <1>4, <1>5

(* On every file that the scripts write, in whatever order its profiles     *)
(* stand, the cost that execute reserves for a model of the route fits the  *)
(* budget: it looks the price up by contract and alias, and the only        *)
(* profile it can find there is the one that was eligible.                  *)
THEOREM ReservationsFit == Spec => []ReservationFromFile
  <1>1. ProfilesInv /\ FilesFinite /\ ProfilesUnique => ReservationFromFile
    <2>. SUFFICES ASSUME ProfilesInv, FilesFinite, ProfilesUnique,
                         NEW f \in files, NEW budget \in 0..2, NEW profiles \in SetToSeqs(f.profiles),
                         NEW route, route = Select(profiles, Contract, budget, 1), route # NoRoute,
                         NEW a \in {route.primary, route.fallback} \ {NoFallback}
                  PROVE  ReservedCost(profiles, Contract, a) <= budget
      BY DEF ReservationFromFile
    <2>. DEFINE n     == Cardinality(f.profiles)
                cands == Candidates(profiles, Contract, budget, 1)
    <2>1. n \in Nat
      BY FS_CardinalityType DEF FilesFinite
    <2>2. profiles \in [1..n -> f.profiles]
      BY DEF SetToSeqs
    <2>. HIDE DEF n
    <2>3. /\ DOMAIN profiles = 1..n
          /\ \A i \in 1..n : /\ profiles[i] \in f.profiles /\ profiles[i].cost \in Nat
                             /\ profiles[i].quality \in 0..100 /\ profiles[i].p95 \in Nat
      BY <2>2 DEF ProfilesInv, FilesGood, FileTyped
    <2>4. PICK i \in cands : profiles[i].alias = a
      <3>1. DOMAIN profiles \in SUBSET Nat
        BY <2>1, <2>3
      <3>2. \A k \in DOMAIN profiles : profiles[k].cost \in Nat /\ profiles[k].quality \in 0..100
        BY <2>3
      <3>. QED  BY <3>1, <3>2, RouteIsEligible
    <2>5. i \in 1..n /\ profiles[i].contract = Contract.id /\ profiles[i].cost <= budget
      <3>1. /\ i \in DOMAIN profiles /\ profiles[i].contract = Contract.id
            /\ Reason(profiles[i], Contract, budget, 1) = "eligible"
        BY <2>4 DEF Candidates
      <3>2. ASSUME NEW p, p.cost \in Nat, p.quality \in 0..100, p.p95 \in Nat,
                   Reason(p, Contract, budget, 1) = "eligible"
            PROVE  p.cost <= budget
        BY <3>2 DEF Reason, Contract
      <3>. QED  BY <2>3, <3>1, <3>2
    <2>6. PICK j \in DOMAIN profiles : /\ profiles[j].contract = Contract.id
                                      /\ profiles[j].alias = a
                                      /\ ReservedCost(profiles, Contract, a) = profiles[j].cost
      <3>. HIDE DEF cands
      <3>1. i \in DOMAIN profiles /\ profiles[i].contract = Contract.id /\ profiles[i].alias = a
        BY <2>3, <2>4, <2>5
      <3>2. DOMAIN profiles = 1..n
        BY <2>3
      <3>. QED  BY <2>1, <3>1, <3>2, ReservedIsOne
    <2>7. profiles[i] = profiles[j]
      BY <2>3, <2>4, <2>5, <2>6 DEF ProfilesUnique
    <2>. QED  BY <2>5, <2>6, <2>7
  <1>2. Init => FilesFinite
    BY FS_EmptySet DEF Init, FilesFinite
  <1>3. ProfilesInv /\ FilesFinite /\ [Next]_vars => FilesFinite'
    BY FiniteStep DEF ProfilesInv
  <1>. QED  BY <1>1, <1>2, <1>3, ProfilesInvariant, OneProfilePerKey, PTL DEF Spec
=============================================================================
