----------------------------- MODULE Migrations -----------------------------
(***************************************************************************)
(* Store.migrate: every process that starts (the API on its first request, *)
(* a worker) applies the scripts of migrations/ that are not recorded yet. *)
(* executescript commits each statement by itself, so other processes and  *)
(* a crash come between the check, the statements and the record.          *)
(*                                                                         *)
(* An element of Processes is one start; a restart is another element.     *)
(***************************************************************************)
EXTENDS Integers, FiniteSets

CONSTANTS
  Processes,
  Last,      \* the scripts are numbered 1..Last
  Length,    \* Length[v]: number of statements of script v
  Alters     \* Alters[v]: those that fail when repeated (ALTER TABLE ADD COLUMN)

Versions == 1..Last

ASSUME ScriptsAssumption ==
  /\ Last \in Nat /\ Length \in [Versions -> Nat]
  /\ Alters \in [Versions -> SUBSET Nat] /\ \A v \in Versions : Alters[v] \subseteq 1..Length[v]

VARIABLES
  done,       \* done[v]: the statements of v that took effect
  recorded,   \* the rows of schema_migrations
  pc,
  version,    \* the script a process looks at
  at          \* the statement of it that comes next

vars == <<done, recorded, pc, version, at>>

Step == {"new", "checking", "applying", "up", "refused", "dead"}

TypeOK ==
  /\ done     \in [Versions -> SUBSET Nat] /\ \A v \in Versions : done[v] \subseteq 1..Length[v]
  /\ recorded \in SUBSET Versions
  /\ pc       \in [Processes -> Step]
  /\ version  \in [Processes -> 1..(Last + 1)]
  /\ at       \in [Processes -> Nat]
  /\ \A p \in Processes : pc[p] = "applying" => version[p] \in Versions /\ at[p] \in 1..(Length[version[p]] + 1)

Init ==
  /\ done     = [v \in Versions |-> {}]
  /\ recorded = {}
  /\ pc       = [p \in Processes |-> "new"]
  /\ version  = [p \in Processes |-> 1]
  /\ at       = [p \in Processes |-> 1]

-----------------------------------------------------------------------------
\* CREATE TABLE IF NOT EXISTS schema_migrations.
Begin(p) ==
  /\ pc[p] = "new"
  /\ pc' = [pc EXCEPT ![p] = "checking"]
  /\ UNCHANGED <<done, recorded, version, at>>

\* Mutant: one script too many.
MoreScriptsByOne(p) == version[p] <= Last + 1

MoreScripts(p) == version[p] <= Last

\* The SELECT, which is not repeated after the statements began.
Check(p) ==
  /\ pc[p] = "checking" /\ MoreScripts(p)
  /\ \/ /\ version[p] \in recorded
        /\ version' = [version EXCEPT ![p] = @ + 1]
        /\ UNCHANGED <<pc, at>>
     \/ /\ version[p] \notin recorded
        /\ pc' = [pc EXCEPT ![p] = "applying"]
        /\ at' = [at EXCEPT ![p] = 1]
        /\ UNCHANGED version
  /\ UNCHANGED <<done, recorded>>

\* Mutants: ADD COLUMN may be repeated, and nothing may be.
FailsNever(p)    == FALSE
FailsRepeated(p) == at[p] \in done[version[p]]

\* The statement that comes next has taken effect and cannot be repeated.
Fails(p) == at[p] \in Alters[version[p]] \cap done[version[p]]

\* One statement of executescript.  An exception ends the start.
Perform(p) ==
  /\ pc[p] = "applying" /\ at[p] <= Length[version[p]]
  /\ \/ /\ Fails(p)
        /\ pc' = [pc EXCEPT ![p] = "refused"]
        /\ UNCHANGED <<done, at>>
     \/ /\ ~Fails(p)
        /\ done' = [done EXCEPT ![version[p]] = @ \cup {at[p]}]
        /\ at'   = [at EXCEPT ![p] = @ + 1]
        /\ UNCHANGED pc
  /\ UNCHANGED <<recorded, version>>

\* Mutant: the version is recorded before its last statement.
PerformedMost(p) == at[p] >= Length[version[p]]

Performed(p) == at[p] > Length[version[p]]

\* INSERT OR IGNORE INTO schema_migrations.
Record(p) ==
  /\ pc[p] = "applying" /\ Performed(p)
  /\ recorded' = recorded \cup {version[p]}
  /\ version'  = [version EXCEPT ![p] = @ + 1]
  /\ pc'       = [pc EXCEPT ![p] = "checking"]
  /\ UNCHANGED <<done, at>>

ComeUp(p) ==
  /\ pc[p] = "checking" /\ ~MoreScripts(p)
  /\ pc' = [pc EXCEPT ![p] = "up"]
  /\ UNCHANGED <<done, recorded, version, at>>

\* The process is killed, or waits for the lock longer than busy_timeout.
Die(p) ==
  /\ pc[p] \in {"checking", "applying"}
  /\ pc' = [pc EXCEPT ![p] = "dead"]
  /\ UNCHANGED <<done, recorded, version, at>>

Migrate(p) == Check(p) \/ Perform(p) \/ Record(p) \/ ComeUp(p)

Next == \E p \in Processes : Begin(p) \/ Migrate(p) \/ Die(p)

Spec == Init /\ [][Next]_vars

\* A start that has begun goes on; nothing makes anybody start.
FairSpec == Spec /\ \A p \in Processes : WF_vars(Migrate(p))

-----------------------------------------------------------------------------
(* Properties.                                                             *)

(* A process serves only with the whole schema, whoever applied it.         *)
UpMeansMigrated ==
  \A p \in Processes : pc[p] = "up" => \A v \in Versions : done[v] = 1..Length[v]

\* p is past statement n of script v, and has not recorded v.
Past(p, v, n) == pc[p] = "applying" /\ version[p] = v /\ at[p] > n

(* The statements that cannot be repeated keep processes out of each        *)
(* other's way, where the check does not: no two are past the same one.     *)
AltersExclude ==
  \A v \in Versions : \A n \in Alters[v] : \A p, q \in Processes :
    Past(p, v, n) /\ Past(q, v, n) => p = q

\* A script was cut off between such a statement and its record.
CutOff(v) ==
  /\ v \notin recorded
  /\ \E n \in Alters[v] : n \in done[v] /\ \A p \in Processes : ~Past(p, v, n)

(* A start is refused only when it lost a race: unless the winner's script  *)
(* is cut off, it gets recorded, and the next start finds it so.            *)
RefusedMayRetry ==
  [](\A v \in Versions : ~CutOff(v)) =>
    \A p \in Processes : (pc[p] = "refused") ~> (version[p] \in recorded)

(* A script that was cut off is never mended: no process comes up again.    *)
CutOffForEver ==
  \A v \in Versions : [](CutOff(v) => [](\A p \in Processes : pc[p] # "up"))
=============================================================================
