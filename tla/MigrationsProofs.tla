-------------------------- MODULE MigrationsProofs --------------------------
(***************************************************************************)
(* Any number of processes may migrate at once, any number of scripts, and *)
(* die anywhere: who comes up has the whole schema, and no two apply the   *)
(* same statement that cannot be repeated.                                 *)
(***************************************************************************)
EXTENDS Migrations, TLAPS

\* What was performed is done: by who applies a script, and by who recorded it.
PassedIsDone ==
  \A p \in Processes : pc[p] = "applying" => 1..(at[p] - 1) \subseteq done[version[p]]
RecordedIsDone == \A v \in recorded : done[v] = 1..Length[v]

\* A process has only left recorded scripts behind.
BehindRecorded ==
  \A p \in Processes :
    /\ \A v \in 1..(version[p] - 1) : v \in recorded
    /\ pc[p] = "up" => version[p] = Last + 1

IInv == TypeOK /\ PassedIsDone /\ RecordedIsDone /\ BehindRecorded /\ AltersExclude

-----------------------------------------------------------------------------
\* The empty schema satisfies the invariant.
LEMMA InitInvariant == Init => IInv
BY ScriptsAssumption
   DEF Init, IInv, TypeOK, PassedIsDone, RecordedIsDone, BehindRecorded, AltersExclude, Past, Step, Versions

\* What Perform does when it does not fail, with script and statement named.
Performs(p, v, n) ==
  /\ pc[p] = "applying" /\ version[p] = v /\ at[p] = n /\ n \in 1..Length[v]
  /\ n \notin Alters[v] \cap done[v]
  /\ done' \in [Versions -> SUBSET Nat]
  /\ \A u \in Versions : done'[u] = IF u = v THEN done[u] \cup {n} ELSE done[u]
  /\ at'   \in [Processes -> Nat]
  /\ \A q \in Processes : at'[q] = IF q = p THEN n + 1 ELSE at[q]
  /\ UNCHANGED <<pc, recorded, version>>

\* Every step is of one of six kinds.
LEMMA StepKinds ==
  ASSUME TypeOK, [Next]_vars
  PROVE  \/ \E p \in Processes, v \in Versions : \E n \in 1..Length[v] : Performs(p, v, n)
         \/ \E p \in Processes : Record(p) \/ Check(p)
         \/ \E p \in Processes, s \in Step \ {"applying", "up"} :
               pc' = [pc EXCEPT ![p] = s] /\ UNCHANGED <<done, recorded, version, at>>
         \/ \E p \in Processes : ComeUp(p)
         \/ UNCHANGED vars
<1>1. ASSUME NEW p \in Processes, Perform(p), ~Fails(p)
      PROVE  \E v \in Versions : \E n \in 1..Length[v] : Performs(p, v, n)
  <2>1. PICK v \in Versions : v = version[p]
    BY <1>1 DEF Perform, TypeOK
  <2>2. PICK n \in 1..Length[v] : n = at[p]
    BY <1>1, <2>1, ScriptsAssumption DEF Perform, TypeOK
  <2>3. done' = [done EXCEPT ![v] = @ \cup {n}] /\ at' = [at EXCEPT ![p] = n + 1]
    BY <1>1, <2>1, <2>2 DEF Perform
  <2>4. n \in Nat /\ n + 1 \in Nat /\ done[v] \cup {n} \in SUBSET Nat
    BY <2>2, ScriptsAssumption DEF TypeOK
  <2>5. done' \in [Versions -> SUBSET Nat]
    BY <2>3, <2>4 DEF TypeOK
  <2>6. \A u \in Versions : done'[u] = IF u = v THEN done[u] \cup {n} ELSE done[u]
    BY <2>3 DEF TypeOK
  <2>7. at' \in [Processes -> Nat] /\ \A q \in Processes : at'[q] = IF q = p THEN n + 1 ELSE at[q]
    BY <2>3, <2>4 DEF TypeOK
  <2>8. Performs(p, v, n)
    BY <1>1, <2>1, <2>2, <2>5, <2>6, <2>7 DEF Performs, Perform, Fails
  <2> QED
    BY <2>8
<1>2. ASSUME NEW p \in Processes, Perform(p), Fails(p)
      PROVE  pc' = [pc EXCEPT ![p] = "refused"] /\ UNCHANGED <<done, recorded, version, at>>
  BY <1>2 DEF Perform
<1>3. {"new", "checking", "refused", "dead"} \subseteq Step \ {"applying", "up"}
  BY DEF Step
<1> QED
  BY <1>1, <1>2, <1>3 DEF Next, Migrate, Begin, Die

\* A step keeps the types, and with them what is done and recorded.
LEMMA StepTyped == TypeOK /\ [Next]_vars => TypeOK'
<1> SUFFICES ASSUME TypeOK, [Next]_vars  PROVE TypeOK'
  OBVIOUS
<1> USE ScriptsAssumption DEF TypeOK, Versions
<1>1. ASSUME NEW p \in Processes, NEW v \in Versions, NEW n \in 1..Length[v], Performs(p, v, n)
      PROVE  TypeOK'
  <2>1. \A u \in Versions : done'[u] \subseteq 1..Length[u]
    BY <1>1 DEF Performs
  <2>2. at'[p] = n + 1 /\ n + 1 \in 1..(Length[v] + 1)
    BY <1>1 DEF Performs
  <2> QED
    BY <1>1, <2>1, <2>2 DEF Performs
<1>2. ASSUME NEW p \in Processes, Check(p), version[p] \notin recorded  PROVE TypeOK'
  <2>1. PICK v \in Versions : v = version[p]
    BY <1>2 DEF Check, MoreScripts
  <2>2. Length[v] \in Nat /\ 1 \in 1..(Length[v] + 1)
    OBVIOUS
  <2>3. pc' \in [Processes -> Step] /\ at' \in [Processes -> Nat]
    BY <1>2 DEF Check, Step
  <2> QED
    BY <1>2, <2>1, <2>2, <2>3 DEF Check
<1>3. ASSUME NEW p \in Processes, Record(p) \/ (Check(p) /\ version[p] \in recorded)  PROVE TypeOK'
  <2>1. version[p] \in Versions /\ version[p] + 1 \in 1..(Last + 1)
    BY <1>3 DEF Record, Check, MoreScripts
  <2> QED
    BY <1>3, <2>1 DEF Record, Check, Step
<1>4. ASSUME NEW p \in Processes, NEW s \in Step \ {"applying"}, pc' = [pc EXCEPT ![p] = s],
             UNCHANGED <<done, recorded, version, at>>
      PROVE  TypeOK'
  BY <1>4
<1>5. ASSUME NEW p \in Processes, ComeUp(p)  PROVE TypeOK'
  BY <1>5, <1>4 DEF ComeUp, Step
<1>6. CASE UNCHANGED vars
  BY <1>6 DEF vars
<1> QED
  BY <1>1, <1>2, <1>3, <1>4, <1>5, <1>6, StepKinds

\* A step keeps the relation of places, effects and records.
LEMMA StepDone ==
  IInv /\ [Next]_vars => PassedIsDone' /\ RecordedIsDone' /\ BehindRecorded'
<1> SUFFICES ASSUME IInv, [Next]_vars  PROVE PassedIsDone' /\ RecordedIsDone' /\ BehindRecorded'
  OBVIOUS
<1> USE ScriptsAssumption DEF IInv, TypeOK, Versions, PassedIsDone, RecordedIsDone, BehindRecorded
<1> DEFINE Kept == PassedIsDone' /\ RecordedIsDone' /\ BehindRecorded'
<1>1. ASSUME NEW p \in Processes, NEW v \in Versions, NEW n \in 1..Length[v], Performs(p, v, n)
      PROVE  Kept
  <2>1. PassedIsDone'
    <3>1. 1..(n - 1) \subseteq done[v]
      BY <1>1 DEF Performs
    <3>2. 1..n \subseteq done'[v]
      BY <1>1, <3>1 DEF Performs
    <3>3. (n + 1) - 1 = n
      OBVIOUS
    <3>4. \A u \in Versions : done[u] \subseteq done'[u]
      BY <1>1 DEF Performs
    <3> QED
      BY <1>1, <3>2, <3>3, <3>4 DEF Performs
  <2>2. RecordedIsDone'
    <3>1. \A u \in recorded : done'[u] = done[u]
      <4> SUFFICES ASSUME NEW u \in recorded  PROVE done'[u] = done[u]
        OBVIOUS
      <4>1. u = v => n \in done[u]
        BY <1>1 DEF Performs
      <4>2. u \in Versions /\ (n \in done[u] => done[u] \cup {n} = done[u])
        OBVIOUS
      <4>3. done'[u] = IF u = v THEN done[u] \cup {n} ELSE done[u]
        BY <1>1, <4>2 DEF Performs
      <4> QED
        BY <4>1, <4>2, <4>3
    <3> QED
      BY <1>1, <3>1 DEF Performs
  <2> QED
    BY <1>1, <2>1, <2>2 DEF Performs
<1>2. ASSUME NEW p \in Processes, Check(p)  PROVE Kept
  <2>1. CASE version[p] \in recorded
    <3>1. PICK v \in recorded : v = version[p]
      BY <2>1
    <3>2. pc[p] = "checking" /\ \A q \in Processes : version'[q] = IF q = p THEN v + 1 ELSE version[q]
      BY <1>2, <2>1, <3>1 DEF Check
    <3>3. BehindRecorded'
      BY <1>2, <2>1, <3>1, <3>2 DEF Check
    <3>4. PassedIsDone' /\ RecordedIsDone'
      BY <1>2, <2>1, <3>2 DEF Check
    <3> QED
      BY <3>3, <3>4
  <2>2. CASE version[p] \notin recorded
    <3>1. at'[p] = 1 /\ 1..(1 - 1) = {}
      BY <1>2, <2>2 DEF Check
    <3> QED
      BY <1>2, <2>2, <3>1 DEF Check
  <2> QED
    BY <2>1, <2>2
<1>3. ASSUME NEW p \in Processes, Record(p)  PROVE Kept
  <2>1. PICK v \in Versions : v = version[p]
    BY <1>3 DEF Record
  <2>2. at[p] = Length[v] + 1
    BY <1>3, <2>1 DEF Record, Performed
  <2>3. done[v] = 1..Length[v]
    <3>1. at[p] - 1 = Length[v]
      BY <2>2
    <3>2. 1..Length[v] \subseteq done[v]
      BY <1>3, <2>1, <3>1 DEF Record
    <3> QED
      BY <3>2
  <2>4. \A q \in Processes : version'[q] = IF q = p THEN v + 1 ELSE version[q]
    BY <1>3, <2>1 DEF Record
  <2>5. BehindRecorded'
    BY <1>3, <2>1, <2>4 DEF Record
  <2>6. RecordedIsDone'
    BY <1>3, <2>1, <2>3 DEF Record
  <2>7. PassedIsDone'
    BY <1>3, <2>4 DEF Record
  <2> QED
    BY <2>5, <2>6, <2>7
<1>4. ASSUME NEW p \in Processes, NEW s \in Step \ {"applying", "up"}, pc' = [pc EXCEPT ![p] = s],
             UNCHANGED <<done, recorded, version, at>>
      PROVE  Kept
  BY <1>4
<1>5. ASSUME NEW p \in Processes, ComeUp(p)  PROVE Kept
  BY <1>5 DEF ComeUp, MoreScripts
<1>6. CASE UNCHANGED vars
  BY <1>6 DEF vars
<1> QED
  BY <1>1, <1>2, <1>3, <1>4, <1>5, <1>6, StepKinds

\* Who passes a statement that cannot be repeated is the first to do so.
LEMMA StepExclude == IInv /\ [Next]_vars => AltersExclude'
<1> SUFFICES ASSUME IInv, [Next]_vars  PROVE AltersExclude'
  OBVIOUS
<1>1. ASSUME NEW p \in Processes, NEW v \in Versions, NEW n \in 1..Length[v], Performs(p, v, n)
      PROVE  AltersExclude'
  <2> SUFFICES ASSUME NEW u \in Versions, NEW m \in Alters[u], NEW q \in Processes, NEW r \in Processes,
                      Past(q, u, m)', Past(r, u, m)'
               PROVE  q = r
    BY DEF AltersExclude
  <2>1. m \in Nat
    BY ScriptsAssumption
  <2>2. \A x \in Processes : Past(x, u, m)' => Past(x, u, m) \/ (x = p /\ u = v /\ m = n)
    BY <1>1, <2>1 DEF Performs, Past, IInv, TypeOK
  <2>3. \A x \in Processes : Past(x, v, n) => n \in done[v]
    BY <1>1 DEF Past, IInv, TypeOK, PassedIsDone
  <2> QED
    BY <1>1, <2>2, <2>3 DEF Performs, IInv, AltersExclude
<1>2. ASSUME \A x \in Processes, u \in Versions, m \in Nat : Past(x, u, m)' => Past(x, u, m)
      PROVE  AltersExclude'
  BY <1>2, ScriptsAssumption DEF IInv, AltersExclude
<1>3. ASSUME NEW p \in Processes, Check(p)  PROVE AltersExclude'
  BY <1>2, <1>3, ScriptsAssumption DEF Check, Past, IInv, TypeOK, AltersExclude
<1>4. ASSUME NEW p \in Processes, Record(p) \/ ComeUp(p)  PROVE AltersExclude'
  BY <1>2, <1>4 DEF Record, ComeUp, Past, IInv, TypeOK
<1>5. ASSUME NEW p \in Processes, NEW s \in Step \ {"applying", "up"}, pc' = [pc EXCEPT ![p] = s],
             UNCHANGED <<done, recorded, version, at>>
      PROVE  AltersExclude'
  BY <1>2, <1>5 DEF Past, IInv, TypeOK
<1>6. CASE UNCHANGED vars
  BY <1>2, <1>6 DEF vars, Past
<1> QED
  BY <1>1, <1>3, <1>4, <1>5, <1>6, StepKinds DEF IInv

\* The invariant holds of every behaviour.
LEMMA Invariance == Spec => []IInv
<1>1. IInv /\ [Next]_vars => IInv'
  BY StepTyped, StepDone, StepExclude DEF IInv
<1> QED
  BY <1>1, InitInvariant, PTL DEF Spec

(* migrate: a process comes up only with every statement of every script in *)
(* effect, whether it, another process or a dead one applied it.            *)
THEOREM SchemaComplete == Spec => []UpMeansMigrated
<1>1. IInv => UpMeansMigrated
  BY ScriptsAssumption DEF IInv, TypeOK, BehindRecorded, RecordedIsDone, UpMeansMigrated, Versions
<1> QED
  BY <1>1, Invariance, PTL

(* executescript: two processes that both found a script unrecorded are     *)
(* never both past the same ALTER TABLE.                                    *)
THEOREM AltersAreLocks == Spec => []AltersExclude
<1>1. IInv => AltersExclude
  BY DEF IInv
<1> QED
  BY <1>1, Invariance, PTL

(* The schema, the recorded versions and the processes keep their types: no *)
(* script is recorded that is not one, and no process reads past its end.   *)
THEOREM TypeCorrect == Spec => []TypeOK
<1>1. IInv => TypeOK
  BY DEF IInv
<1> QED
  BY <1>1, Invariance, PTL

\* Nobody gets past the statement again, so nobody records the script.
LEMMA CutOffStays ==
  ASSUME NEW v \in Versions, IInv, CutOff(v), [Next]_vars
  PROVE  CutOff(v)'
<1>1. PICK n \in Alters[v] : n \in done[v] /\ \A p \in Processes : ~Past(p, v, n)
  BY DEF CutOff
<1>2. v \notin recorded /\ n \in Nat /\ n \in 1..Length[v]
  BY ScriptsAssumption DEF CutOff
<1>. SUFFICES v \notin recorded' /\ n \in done'[v] /\ \A p \in Processes : ~Past(p, v, n)'
  BY DEF CutOff
<1>. USE DEF IInv, TypeOK
<1>3. ASSUME recorded' = recorded, done' = done, \A p \in Processes : Past(p, v, n)' => Past(p, v, n)
      PROVE  v \notin recorded' /\ n \in done'[v] /\ \A p \in Processes : ~Past(p, v, n)'
  BY <1>1, <1>2, <1>3
<1>4. ASSUME NEW p \in Processes, NEW u \in Versions, NEW m \in 1..Length[u], Performs(p, u, m)
      PROVE  v \notin recorded' /\ n \in done'[v] /\ \A q \in Processes : ~Past(q, v, n)'
  <2>1. v \notin recorded' /\ n \in done'[v]
    BY <1>1, <1>2, <1>4 DEF Performs
  <2>2. ~(u = v /\ m = n)
    BY <1>1, <1>4 DEF Performs
  <2>3. \A q \in Processes : Past(q, v, n)' => Past(q, v, n)
    BY <1>2, <1>4, <2>2 DEF Performs, Past
  <2>. QED  BY <1>1, <2>1, <2>3
<1>5. ASSUME NEW p \in Processes, Record(p)
      PROVE  v \notin recorded' /\ n \in done'[v] /\ \A q \in Processes : ~Past(q, v, n)'
  <2>1. version[p] # v
    <3>1. version[p] = v => Past(p, v, n)
      BY <1>2, <1>5, ScriptsAssumption DEF Record, Performed, Past
    <3>. QED  BY <1>1, <3>1
  <2>. QED  BY <1>1, <1>2, <1>5, <2>1 DEF Record, Past
<1>6. ASSUME NEW p \in Processes, Check(p) \/ ComeUp(p)
      PROVE  v \notin recorded' /\ n \in done'[v] /\ \A q \in Processes : ~Past(q, v, n)'
  BY <1>2, <1>3, <1>6 DEF Check, ComeUp, Past
<1>7. ASSUME NEW p \in Processes, NEW s \in Step \ {"applying", "up"}, pc' = [pc EXCEPT ![p] = s],
             UNCHANGED <<done, recorded, version, at>>
      PROVE  v \notin recorded' /\ n \in done'[v] /\ \A q \in Processes : ~Past(q, v, n)'
  BY <1>3, <1>7 DEF Past
<1>8. CASE UNCHANGED vars
  BY <1>3, <1>8 DEF vars, Past
<1>. QED  BY <1>4, <1>5, <1>6, <1>7, <1>8, StepKinds

(* migrate: once a script was cut off between a statement that cannot be    *)
(* repeated and its record, no process ever comes up again.                 *)
THEOREM NeverMended == Spec => CutOffForEver
<1>. SUFFICES ASSUME NEW v \in Versions
              PROVE  Spec => [](CutOff(v) => [](\A p \in Processes : pc[p] # "up"))
  BY Zenon DEF CutOffForEver
<1>. DEFINE NoneUp == \A p \in Processes : pc[p] # "up"  Cut == CutOff(v)
<1>1. IInv /\ Cut => NoneUp
  BY ScriptsAssumption DEF IInv, TypeOK, BehindRecorded, CutOff, Versions
<1>2. IInv /\ Cut /\ [Next]_vars => Cut'
  BY CutOffStays
<1>. HIDE DEF NoneUp, Cut
<1>3. Spec => [](Cut => []NoneUp)
  BY <1>1, <1>2, Invariance, PTL DEF Spec
<1>. QED  BY <1>3 DEF NoneUp, Cut
=============================================================================
