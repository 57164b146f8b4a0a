----------------------------- MODULE AuditQueue -----------------------------
(***************************************************************************)
(* The audit queue: the rows of table audit_jobs, the transactions of      *)
(* app/persistence/store.py on them, and the worker processes of           *)
(* app/worker.py that run run_once.  Every transaction is one step         *)
(* (BEGIN IMMEDIATE serialises writers); between two of them other workers *)
(* run, the clock ticks, payloads expire, and the process may die.         *)
(*                                                                         *)
(* An element of Workers is one process: `owner` is fresh for every        *)
(* process (hostname and start time), so a restarted worker is another     *)
(* element, and a dead one never comes back.                               *)
(*                                                                         *)
(* Times are kept relative to now: lease[j] is lease_until - now and       *)
(* ttl[j] is payload_expires_at - now, so that time is unbounded and the   *)
(* state space is not; lease[j] is 0 while j is not leased, for no query   *)
(* looks at lease_until then.                                              *)
(***************************************************************************)
EXTENDS Integers, Sequences, FiniteSets

CONSTANTS
  Jobs,               \* audit job ids
  Workers,            \* worker processes, those started by a restart included
  None,               \* no owner, no job, no result (SQL NULL)
  MaxAttempts,        \* config.audit_max_attempts
  ClaimLease,         \* lease_seconds of claim_job (30 s)
  CallTimeout,        \* timeout_s of one judge call (30 s)
  LeaseMargin,        \* what the heartbeat adds to the timeout (5 s)
  LockWait,           \* longest wait for SQLite's write lock (busy_timeout, 10 s)
  Retention,          \* life of a payload (7 days)
  JudgeCalls,         \* JudgeCalls[j]: sequential judge calls that j's checks need
  UnknownContracts    \* jobs whose contract the workers have not loaded

ASSUME AttemptsAssumption == MaxAttempts \in Nat \ {0}
ASSUME TimesAssumption ==
  {ClaimLease, CallTimeout, LeaseMargin, LockWait, Retention} \subseteq Nat
ASSUME WorkersAssumption == IsFiniteSet(Workers) /\ None \notin Workers
ASSUME JobsAssumption ==
  None \notin Jobs /\ JudgeCalls \in [Jobs -> Nat] /\ UnknownContracts \subseteq Jobs

VARIABLES
  \* columns of audit_jobs
  status, owner, lease, attempts,
  payload,    \* payload_json IS NOT NULL
  ttl,
  result,     \* the status field of result_json
  human,      \* needs_human_review
  review,     \* human_review_json IS NOT NULL
  created,    \* the rows in the order of created_at
  \* worker processes
  pc,         \* the store operation or call the worker is about to make
  held,       \* the job of the row claim_job returned
  timer,      \* time spent in the current step
  calls       \* judge calls still to make

jobVars    == <<status, owner, lease, attempts, payload, ttl, result, human, review, created>>
workerVars == <<pc, held, timer, calls>>
vars       == <<jobVars, workerVars>>

-----------------------------------------------------------------------------
Terminal == {"complete", "exhausted", "skipped"}
Status   == {"absent", "pending", "leased"} \cup Terminal
Result   == {"payload_expired", "pending_human_review", "judge_reviewed", "exhausted"}
\* After claim_job a worker is in one of these steps until its last transaction.
Holding  == {"skipping", "parking", "extending", "judging", "failing"}
Step     == {"idle", "claiming", "dead"} \cup Holding

TypeOK ==
  /\ status   \in [Jobs -> Status]
  /\ owner    \in [Jobs -> Workers \cup {None}]
  /\ lease    \in [Jobs -> Int]
  /\ attempts \in [Jobs -> Nat]
  /\ payload  \in [Jobs -> BOOLEAN]
  /\ ttl      \in [Jobs -> Int]
  /\ result   \in [Jobs -> Result \cup {None}]
  /\ human    \in [Jobs -> BOOLEAN]
  /\ review   \in [Jobs -> BOOLEAN]
  /\ created  \in Seq(Jobs)
  /\ pc       \in [Workers -> Step]
  /\ held     \in [Workers -> Jobs \cup {None}]
  /\ timer    \in [Workers -> Nat]
  /\ calls    \in [Workers -> Nat]

Init ==
  /\ status   = [j \in Jobs |-> "absent"]
  /\ owner    = [j \in Jobs |-> None]
  /\ lease    = [j \in Jobs |-> 0]
  /\ attempts = [j \in Jobs |-> 0]
  /\ payload  = [j \in Jobs |-> FALSE]
  /\ ttl      = [j \in Jobs |-> 0]
  /\ result   = [j \in Jobs |-> None]
  /\ human    = [j \in Jobs |-> FALSE]
  /\ review   = [j \in Jobs |-> FALSE]
  /\ created  = <<>>
  /\ pc       = [w \in Workers |-> "idle"]
  /\ held     = [w \in Workers |-> None]
  /\ timer    = [w \in Workers |-> 0]
  /\ calls    = [w \in Workers |-> 0]

-----------------------------------------------------------------------------
(* The API and the human reviewer.                                         *)

\* finish(..., audit): an accepted request that was sampled gets its job.
Enqueue(j, needsHuman) ==
  /\ status[j] = "absent"
  /\ status'  = [status EXCEPT ![j] = "pending"]
  /\ payload' = [payload EXCEPT ![j] = TRUE]
  /\ ttl'     = [ttl EXCEPT ![j] = Retention]
  /\ human'   = [human EXCEPT ![j] = needsHuman]
  /\ created' = Append(created, j)
  /\ UNCHANGED <<owner, lease, attempts, result, review, workerVars>>

\* record_human_review asks for needs_human_review only: the row may be in
\* any status, and a second verdict replaces the first.
RecordHumanReview(j) ==
  /\ status[j] # "absent" /\ human[j]
  /\ review' = [review EXCEPT ![j] = TRUE]
  /\ UNCHANGED <<status, owner, lease, attempts, payload, ttl, result, human, created, workerVars>>

-----------------------------------------------------------------------------
(* The worker.  A step moves one worker; Goto also restarts its timer.     *)

Goto(w, step) ==
  /\ pc'    = [pc EXCEPT ![w] = step]
  /\ timer' = [timer EXCEPT ![w] = 0]

\* The worker keeps `held` when it dies: it tells which job it died holding.
Die(w) == Goto(w, "dead")

Release(w) == Goto(w, "idle") /\ held' = [held EXCEPT ![w] = None]

Expired(j) == payload[j] /\ ttl[j] < 0

\* Mutant: the sweep settles leased jobs too.
ExpirePayloadsOfAnyStatus(w) ==
  /\ pc[w] = "idle"
  /\ payload' = [j \in Jobs |-> payload[j] /\ ~Expired(j)]
  /\ status'  = [j \in Jobs |-> IF Expired(j) /\ status[j] \notin Terminal THEN "skipped" ELSE status[j]]
  /\ Goto(w, "claiming")
  /\ UNCHANGED <<owner, lease, attempts, ttl, result, human, review, created, held, calls>>

\* Mutant: the sweep erases the payloads of pending jobs only.
ExpirePendingPayloads(w) ==
  /\ pc[w] = "idle"
  /\ payload' = [j \in Jobs |-> payload[j] /\ ~(Expired(j) /\ status[j] = "pending")]
  /\ status'  = [j \in Jobs |-> IF Expired(j) /\ status[j] = "pending" THEN "skipped" ELSE status[j]]
  /\ Goto(w, "claiming")
  /\ UNCHANGED <<owner, lease, attempts, ttl, result, human, review, created, held, calls>>

\* expire_payloads, after which claim_job reads the clock, before it waits
\* for the write lock: from here on timer[w] is the age of that reading.
ExpirePayloads(w) ==
  /\ pc[w] = "idle"
  /\ payload' = [j \in Jobs |-> payload[j] /\ ~Expired(j)]
  /\ status'  = [j \in Jobs |-> IF Expired(j) /\ status[j] = "pending" THEN "skipped" ELSE status[j]]
  /\ Goto(w, "claiming")
  /\ UNCHANGED <<owner, lease, attempts, ttl, result, human, review, created, held, calls>>

\* Mutant: expired leases are not taken over.
ClaimablePending(w, j) == status[j] = "pending"

\* lease_until < now, for the `now` that w read timer[w] ago.
Claimable(w, j) ==
  \/ status[j] = "pending"
  \/ status[j] = "leased" /\ lease[j] < -timer[w]

\* ORDER BY created_at LIMIT 1.
Oldest(w, j) ==
  \E n \in 1..Len(created) :
     /\ created[n] = j
     /\ \A m \in 1..(n - 1) : ~Claimable(w, created[m])

\* What run_once does with the row it got, in the order of its tests.
Branch(j) ==
  CASE ~payload[j]             -> "skipping"
    [] payload[j] /\ human[j]  -> "parking"
    [] payload[j] /\ ~human[j] /\ j \in UnknownContracts    -> "failing"
    [] payload[j] /\ ~human[j] /\ j \notin UnknownContracts -> "extending"

ClaimJob(w, j) ==
  /\ pc[w] = "claiming"
  /\ Claimable(w, j) /\ Oldest(w, j)
  /\ status'   = [status EXCEPT ![j] = "leased"]
  /\ owner'    = [owner EXCEPT ![j] = w]
  /\ lease'    = [lease EXCEPT ![j] = ClaimLease - timer[w]]
  /\ attempts' = [attempts EXCEPT ![j] = @ + 1]
  /\ held'     = [held EXCEPT ![w] = j]
  /\ Goto(w, Branch(j))
  /\ UNCHANGED <<payload, ttl, result, human, review, created, calls>>

\* claim_job returned None; main sleeps and polls again.
ClaimNothing(w) ==
  /\ pc[w] = "claiming"
  /\ \A j \in Jobs : ~Claimable(w, j)
  /\ Goto(w, "idle")
  /\ UNCHANGED <<jobVars, held, calls>>

\* Mutants: the WHERE clauses without the owner.
OwnsAnybody(w, j)       == status[j] = "leased"
HoldsLeaseAnybody(w, j) == status[j] = "leased" /\ lease[j] >= 0

\* What the WHERE clause of fail_job asks for, and the stronger one of
\* complete_job and heartbeat_job.
Owns(w, j)       == status[j] = "leased" /\ owner[j] = w
HoldsLease(w, j) == Owns(w, j) /\ lease[j] >= 0

\* complete_job; when it changes no row run_once raises RuntimeError, which
\* main does not catch.
CompleteJob(w, j, outcome) ==
  \/ /\ HoldsLease(w, j)
     /\ status' = [status EXCEPT ![j] = "complete"]
     /\ result' = [result EXCEPT ![j] = outcome]
     /\ lease'  = [lease EXCEPT ![j] = 0]
     /\ Release(w)
     /\ UNCHANGED <<owner, attempts, payload, ttl, human, review, created, calls>>
  \/ /\ ~HoldsLease(w, j)
     /\ Die(w)
     /\ UNCHANGED <<jobVars, held, calls>>

SkipExpired(w) ==
  pc[w] = "skipping" /\ CompleteJob(w, held[w], "payload_expired")

ParkForHuman(w) ==
  pc[w] = "parking" /\ CompleteJob(w, held[w], "pending_human_review")

\* Mutant: the heartbeat renews the lease of the claim.
JudgeLeaseOfClaim == ClaimLease

JudgeLease ==
  IF ClaimLease > CallTimeout + LeaseMargin THEN ClaimLease ELSE CallTimeout + LeaseMargin

\* heartbeat_job; its answer is ignored, so the judge is called in any case.
\* A candidate that fails the schema needs no judge call.
ExtendLease(w) ==
  LET j == held[w] IN
  /\ pc[w] = "extending"
  /\ lease' = IF HoldsLease(w, j) THEN [lease EXCEPT ![j] = JudgeLease] ELSE lease
  /\ \E n \in {0, JudgeCalls[j]} : calls' = [calls EXCEPT ![w] = n]
  /\ Goto(w, "judging")
  /\ UNCHANGED <<status, owner, attempts, payload, ttl, result, human, review, created, held>>

\* Mutant: one judge call is always made.
InFlightAlways(w) == pc[w] = "judging"

InFlight(w) == pc[w] = "judging" /\ calls[w] > 0

\* One judge call of verify returns, with an answer, an error or a timeout.
JudgeAnswers(w) ==
  /\ InFlight(w)
  /\ calls' = [calls EXCEPT ![w] = @ - 1]
  /\ Goto(w, "judging")
  /\ UNCHANGED <<jobVars, held>>

\* verify raises (a malformed body, a bad schema): fail_job comes next.
JudgeRaises(w) ==
  /\ pc[w] = "judging"
  /\ Goto(w, "failing")
  /\ calls' = [calls EXCEPT ![w] = 0]
  /\ UNCHANGED <<jobVars, held>>

JudgeReviewed(w) ==
  pc[w] = "judging" /\ calls[w] = 0 /\ CompleteJob(w, held[w], "judge_reviewed")

\* Mutant: one attempt too many.
SpentLate(j) == attempts[j] > MaxAttempts

Spent(j) == attempts[j] >= MaxAttempts

\* fail_job asks for the owner only, not for a live lease; it raises when
\* the job has another owner, and main does not catch that either.
FailJob(w, j) ==
  /\ \/ /\ Owns(w, j) /\ Spent(j)
        /\ status' = [status EXCEPT ![j] = "exhausted"]
        /\ result' = [result EXCEPT ![j] = "exhausted"]
        /\ lease'  = [lease EXCEPT ![j] = 0]
        /\ Release(w)
        /\ UNCHANGED owner
     \/ /\ Owns(w, j) /\ ~Spent(j)
        /\ status' = [status EXCEPT ![j] = "pending"]
        /\ owner'  = [owner EXCEPT ![j] = None]
        /\ lease'  = [lease EXCEPT ![j] = 0]
        /\ Release(w)
        /\ UNCHANGED result
     \/ /\ ~Owns(w, j)
        /\ Die(w)
        /\ UNCHANGED <<status, result, owner, lease, held>>
  /\ UNCHANGED <<attempts, payload, ttl, human, review, created, calls>>

ReportFailure(w) == pc[w] = "failing" /\ FailJob(w, held[w])

\* The process is killed, loses the machine, or an exception reaches main
\* (SQLite's busy timeout among them).
Crash(w) ==
  /\ pc[w] # "dead"
  /\ Die(w)
  /\ calls' = [calls EXCEPT ![w] = 0]
  /\ UNCHANGED <<jobVars, held>>

-----------------------------------------------------------------------------
(* Time.  A step lasts at most until its timeout fires: SQLite's busy      *)
(* timeout, or the call's own, which is taken to bound the whole call      *)
(* (httpx bounds connecting, sending and each read by it, so a response    *)
(* that trickles in takes longer).  Countdowns stop where no guard tells   *)
(* smaller values apart; a lease counts only while its row is leased.      *)

StepLimit(w) == IF InFlight(w) THEN CallTimeout ELSE LockWait
Busy(w) == pc[w] \notin {"idle", "dead"}

CountDown(t, floor) == IF t > floor THEN t - 1 ELSE t

Tick ==
  /\ \A w \in Workers : Busy(w) => timer[w] < StepLimit(w)
  /\ timer' = [w \in Workers |-> IF Busy(w) THEN timer[w] + 1 ELSE timer[w]]
  /\ lease' = [j \in Jobs |-> IF status[j] = "leased" THEN CountDown(lease[j], -(LockWait + 1)) ELSE lease[j]]
  /\ ttl'   = [j \in Jobs |-> IF payload[j] THEN CountDown(ttl[j], -1) ELSE ttl[j]]
  /\ UNCHANGED <<status, owner, attempts, payload, result, human, review, created, pc, held, calls>>

-----------------------------------------------------------------------------
\* run_once and the loop of main, without the ways to die.
WorkerStep(w) ==
  \/ ExpirePayloads(w)
  \/ \E j \in Jobs : ClaimJob(w, j)
  \/ ClaimNothing(w)
  \/ SkipExpired(w)
  \/ ParkForHuman(w)
  \/ ExtendLease(w)
  \/ JudgeAnswers(w)
  \/ JudgeRaises(w)
  \/ JudgeReviewed(w)
  \/ ReportFailure(w)

Next ==
  \/ \E j \in Jobs, b \in BOOLEAN : Enqueue(j, b)
  \/ \E j \in Jobs : RecordHumanReview(j)
  \/ \E w \in Workers : WorkerStep(w) \/ Crash(w)
  \/ Tick

Spec == Init /\ [][Next]_vars

\* Time passes, and a live worker keeps running: main loops for ever, every
\* call has a timeout, and SQLite's lock wait is bounded.
Fairness ==
  /\ WF_vars(Tick)
  /\ \A w \in Workers : WF_vars(WorkerStep(w))

FairSpec == Spec /\ Fairness

-----------------------------------------------------------------------------
(* Properties.                                                             *)

\* The workers that took j and from which another worker took it over.
Lost(j) == {w \in Workers : held[w] = j /\ owner[j] # w}

(* A worker has a job exactly from claim_job to its last transaction, or to *)
(* its death.                                                               *)
HoldersKnown ==
  \A w \in Workers :
    /\ pc[w] \in Holding => held[w] \in Jobs
    /\ pc[w] \in {"idle", "claiming"} => held[w] = None

(* A leased job is held by the worker its row names, and a worker that the  *)
(* row names works on a leased job: no sweep, completion or failure of      *)
(* another worker takes the row away under a worker that still owns it.     *)
OwnerHolds ==
  \A j \in Jobs :
    /\ status[j] = "leased" => owner[j] \in Workers /\ held[owner[j]] = j
    /\ \A w \in Workers : held[w] = j /\ owner[j] = w => status[j] = "leased"

(* The retry limit.  fail_job compares attempts with audit_max_attempts     *)
(* only when a failure is reported, so claims that follow a lost lease are  *)
(* not limited: every attempt beyond the limit is paid for by a worker that *)
(* lost the job to another one.                                             *)
AttemptsPaidFor ==
  \A j \in Jobs : attempts[j] <= MaxAttempts + Cardinality(Lost(j))

\* A job goes back to pending only with attempts to spare.
AttemptsToSpare ==
  \A j \in Jobs : status[j] \in {"absent", "pending"} => attempts[j] < MaxAttempts

\* The inductive invariant.
IInv == TypeOK /\ HoldersKnown /\ OwnerHolds /\ AttemptsToSpare /\ AttemptsPaidFor

(* Fencing: no step of a worker from which j was taken over changes the     *)
(* row of j, however late its answer, heartbeat or failure report comes.    *)
Row(j) == <<status[j], owner[j], lease[j], attempts[j], payload[j], result[j], review[j]>>
FencedRow ==
  [][\A j \in Jobs : \A w \in Lost(j) : pc'[w] # pc[w] => Row(j)' = Row(j)]_vars

(* "Extend the lease before the network call so a slow judge is not         *)
(* reclaimed by another worker mid-flight" (worker.py:42).                  *)
HeldInFlight == \A w \in Workers : InFlight(w) => owner[held[w]] = w

(* What decisions.md says of audit_max_attempts: retries are bounded by it. *)
AttemptsWithinLimit == \A j \in Jobs : attempts[j] <= MaxAttempts

\* Some process stays alive for ever.
SomeWorkerSurvives == \E w \in Workers : [](pc[w] # "dead")

(* Every accepted request that was sampled is settled, whatever the other   *)
(* workers do and wherever they die (PLAN-Final.md:308, pending audits      *)
(* survive restarts), as long as one process survives.                      *)
AuditsSettle ==
  SomeWorkerSurvives => \A j \in Jobs : (status[j] = "pending") ~> (status[j] \in Terminal)

(* Retention: a payload past its expiry is erased, whatever state its job   *)
(* is in, as long as one process survives.                                  *)
PayloadsErased ==
  SomeWorkerSurvives => \A j \in Jobs : Expired(j) ~> ~payload[j]

(* The queue implements the promise of WorkItems.                           *)
PhaseOf(s) == CASE s = "absent"     -> "absent"
                [] s = "pending"    -> "open"
                [] s = "leased"     -> "held"
                [] s \in Terminal  -> "settled"
WorkPhase  == [j \in Jobs |-> PhaseOf(status[j])]
WorkHolder == [j \in Jobs |-> IF status[j] = "leased" THEN owner[j] ELSE None]

Promise == INSTANCE WorkItems WITH
  Outcomes <- Result, outcome <- result, phase <- WorkPhase, holder <- WorkHolder

(* Each job is settled at most once, by the worker that took it last, and   *)
(* only untaken jobs are dropped.                                           *)
KeepsPromise == Promise!Spec
=============================================================================
