-------------------------- MODULE AuditQueueProofs --------------------------
(***************************************************************************)
(* Proofs about AuditQueue, for every set of jobs, every finite set of     *)
(* worker processes and every value of the time constants.                 *)
(***************************************************************************)
EXTENDS AuditQueue, FiniteSetTheorems, TLAPS

-----------------------------------------------------------------------------
(* Type correctness.                                                       *)

\* The empty queue is typed.
LEMMA InitTyped == Init => TypeOK
  BY AttemptsAssumption, TimesAssumption
  DEF Init, TypeOK, Status, Terminal, Step

\* complete_job keeps the types, whichever way it ends.
LEMMA CompleteTyped ==
  ASSUME TypeOK, NEW w \in Workers, NEW j \in Jobs, NEW r \in Result,
         CompleteJob(w, j, r)
  PROVE  TypeOK'
<1>1. CASE HoldsLease(w, j) /\ status' = [status EXCEPT ![j] = "complete"]
  <2>1. /\ result' = [result EXCEPT ![j] = r]
        /\ lease' = [lease EXCEPT ![j] = 0]
        /\ pc' = [pc EXCEPT ![w] = "idle"]
        /\ timer' = [timer EXCEPT ![w] = 0]
        /\ held' = [held EXCEPT ![w] = None]
        /\ UNCHANGED <<owner, attempts, payload, ttl, human, review, created, calls>>
    BY <1>1 DEF CompleteJob, Release, Goto
  <2>. QED  BY <1>1, <2>1 DEF TypeOK, Status, Terminal, Step
<1>2. CASE ~HoldsLease(w, j) /\ Die(w) /\ UNCHANGED <<jobVars, held, calls>>
  <2>1. pc' = [pc EXCEPT ![w] = "dead"] /\ timer' = [timer EXCEPT ![w] = 0]
    BY <1>2 DEF Die, Goto
  <2>. QED  BY <1>2, <2>1 DEF jobVars, TypeOK, Step
<1>. QED  BY <1>1, <1>2 DEF CompleteJob

\* So does fail_job.
LEMMA FailTyped ==
  ASSUME TypeOK, NEW w \in Workers, NEW j \in Jobs, FailJob(w, j)
  PROVE  TypeOK'
<1>0. /\ UNCHANGED <<attempts, payload, ttl, human, review, created, calls>>
      /\ timer' = [timer EXCEPT ![w] = 0]
  BY DEF FailJob, Release, Die, Goto
<1>1. CASE Owns(w, j)
  <2>1. /\ status' = [status EXCEPT ![j] = "exhausted"] \/ status' = [status EXCEPT ![j] = "pending"]
        /\ result' = result \/ result' = [result EXCEPT ![j] = "exhausted"]
        /\ owner' = owner \/ owner' = [owner EXCEPT ![j] = None]
        /\ lease' = [lease EXCEPT ![j] = 0]
        /\ pc' = [pc EXCEPT ![w] = "idle"] /\ held' = [held EXCEPT ![w] = None]
    BY <1>1 DEF FailJob, Release, Goto
  <2>2. status' \in [Jobs -> Status]
    BY <2>1 DEF TypeOK, Status, Terminal
  <2>5. lease' \in [Jobs -> Int]
    BY <2>1 DEF TypeOK
  <2>3. result' \in [Jobs -> Result \cup {None}] /\ owner' \in [Jobs -> Workers \cup {None}]
    BY <2>1 DEF TypeOK, Result
  <2>4. pc' \in [Workers -> Step] /\ held' \in [Workers -> Jobs \cup {None}]
    BY <2>1 DEF TypeOK, Step
  <2>. QED  BY <1>0, <2>2, <2>3, <2>4, <2>5 DEF TypeOK
<1>2. CASE ~Owns(w, j)
  <2>1. /\ UNCHANGED <<status, result, owner, lease, held>>
        /\ pc' = [pc EXCEPT ![w] = "dead"]
    BY <1>2 DEF FailJob, Die, Goto
  <2>. QED  BY <1>0, <2>1 DEF TypeOK, Step
<1>. QED  BY <1>1, <1>2

\* Every step keeps the types.
LEMMA StepTyped == TypeOK /\ HoldersKnown /\ [Next]_vars => TypeOK'
<1>. SUFFICES ASSUME TypeOK, HoldersKnown, [Next]_vars PROVE TypeOK'
  OBVIOUS
<1>1. ASSUME NEW j \in Jobs, NEW b \in BOOLEAN, Enqueue(j, b) PROVE TypeOK'
  BY <1>1, TimesAssumption DEF Enqueue, workerVars, TypeOK, Status
<1>2. ASSUME NEW j \in Jobs, RecordHumanReview(j) PROVE TypeOK'
  BY <1>2 DEF RecordHumanReview, workerVars, TypeOK
<1>3. ASSUME NEW w \in Workers, ExpirePayloads(w) PROVE TypeOK'
  <2>1. payload' \in [Jobs -> BOOLEAN] /\ status' \in [Jobs -> Status]
    BY <1>3 DEF ExpirePayloads, TypeOK, Status, Terminal
  <2>. QED  BY <1>3, <2>1 DEF ExpirePayloads, Goto, TypeOK, Step
<1>4. ASSUME NEW w \in Workers, NEW j \in Jobs, ClaimJob(w, j) PROVE TypeOK'
  <2>1. Branch(j) \in Step
    BY DEF Branch, Step, Holding, TypeOK
  <2>2. ClaimLease - timer[w] \in Int
    BY TimesAssumption DEF TypeOK
  <2>. QED  BY <1>4, <2>1, <2>2 DEF ClaimJob, Goto, TypeOK, Status
<1>5. ASSUME NEW w \in Workers, ClaimNothing(w) PROVE TypeOK'
  BY <1>5 DEF ClaimNothing, Goto, jobVars, TypeOK, Step
<1>6. ASSUME NEW w \in Workers, SkipExpired(w) \/ ParkForHuman(w) \/ JudgeReviewed(w)
      PROVE  TypeOK'
  <2>1. held[w] \in Jobs
    BY <1>6 DEF HoldersKnown, SkipExpired, ParkForHuman, JudgeReviewed, Holding
  <2>. QED  BY <1>6, <2>1, CompleteTyped DEF SkipExpired, ParkForHuman, JudgeReviewed, Result
<1>7. ASSUME NEW w \in Workers, ExtendLease(w) PROVE TypeOK'
  <2>0. held[w] \in Jobs
    BY <1>7 DEF HoldersKnown, ExtendLease, Holding
  <2>1. JudgeLease \in Int
    BY TimesAssumption DEF JudgeLease
  <2>2. lease' \in [Jobs -> Int]
    BY <1>7, <2>1 DEF ExtendLease, TypeOK
  <2>3. PICK n \in {0, JudgeCalls[held[w]]} : calls' = [calls EXCEPT ![w] = n]
    BY <1>7 DEF ExtendLease
  <2>4. n \in Nat
    BY <2>0, JobsAssumption
  <2>5. /\ pc' = [pc EXCEPT ![w] = "judging"] /\ timer' = [timer EXCEPT ![w] = 0]
        /\ UNCHANGED <<status, owner, attempts, payload, ttl, result, human, review, created, held>>
    BY <1>7 DEF ExtendLease, Goto
  <2>. QED  BY <2>2, <2>3, <2>4, <2>5 DEF TypeOK, Step, Holding
<1>8. ASSUME NEW w \in Workers, JudgeAnswers(w) PROVE TypeOK'
  <2>1. calls[w] - 1 \in Nat
    BY <1>8 DEF JudgeAnswers, InFlight, TypeOK
  <2>2. calls' \in [Workers -> Nat]
    BY <1>8, <2>1 DEF JudgeAnswers, TypeOK
  <2>. QED  BY <1>8, <2>2 DEF JudgeAnswers, Goto, jobVars, TypeOK, Step, Holding
<1>9. ASSUME NEW w \in Workers, JudgeRaises(w) PROVE TypeOK'
  BY <1>9 DEF JudgeRaises, Goto, jobVars, TypeOK, Step, Holding
<1>10. ASSUME NEW w \in Workers, ReportFailure(w) PROVE TypeOK'
  <2>1. held[w] \in Jobs /\ FailJob(w, held[w])
    BY <1>10 DEF HoldersKnown, ReportFailure, Holding
  <2>. QED  BY <2>1, FailTyped
<1>11. ASSUME NEW w \in Workers, Crash(w) PROVE TypeOK'
  BY <1>11 DEF Crash, Die, Goto, jobVars, TypeOK, Step
<1>12. CASE Tick
  <2>1. -(LockWait + 1) \in Int
    BY TimesAssumption
  <2>2. \A t \in Int, f \in Int : CountDown(t, f) \in Int
    BY DEF CountDown
  <2>3. lease' \in [Jobs -> Int]
    BY <1>12, <2>1, <2>2 DEF Tick, TypeOK
  <2>4. ttl' \in [Jobs -> Int]
    BY <1>12, <2>2 DEF Tick, TypeOK
  <2>5. timer' \in [Workers -> Nat]
    BY <1>12 DEF Tick, TypeOK
  <2>. QED  BY <1>12, <2>3, <2>4, <2>5 DEF Tick, TypeOK
<1>13. CASE UNCHANGED vars
  BY <1>13 DEF vars, jobVars, workerVars, TypeOK
<1>. QED  BY <1>1, <1>2, <1>3, <1>4, <1>5, <1>6, <1>7, <1>8, <1>9, <1>10, <1>11, <1>12, <1>13
          DEF Next, WorkerStep

-----------------------------------------------------------------------------
(* Who works on what.                                                      *)

\* Every step keeps it known which workers have a job.
LEMMA StepHoldersKnown == TypeOK /\ HoldersKnown /\ [Next]_vars => HoldersKnown'
<1>. SUFFICES ASSUME TypeOK, HoldersKnown, [Next]_vars PROVE HoldersKnown'
  OBVIOUS
<1>. USE DEF Holding
<1>1. ASSUME UNCHANGED <<pc, held>> PROVE HoldersKnown'
  BY <1>1 DEF HoldersKnown
\* The worker lets go of its job, takes none, or keeps the one it has.
<1>2. ASSUME NEW w \in Workers, NEW s \in Step, pc' = [pc EXCEPT ![w] = s],
             \/ s = "idle" /\ held' = [held EXCEPT ![w] = None]
             \/ s = "dead" /\ UNCHANGED held
             \/ s \in {"idle", "claiming"} /\ held[w] = None /\ UNCHANGED held
             \/ s \in Holding /\ held[w] \in Jobs /\ UNCHANGED held
      PROVE  HoldersKnown'
  BY <1>2 DEF HoldersKnown, TypeOK, Step
<1>3. ASSUME NEW w \in Workers, NEW j \in Jobs, ClaimJob(w, j) PROVE HoldersKnown'
  <2>1. Branch(j) \in Holding
    BY DEF Branch, TypeOK
  <2>. QED  BY <1>3, <2>1 DEF ClaimJob, Goto, HoldersKnown, TypeOK
<1>4. ASSUME NEW w \in Workers, ExpirePayloads(w) \/ ClaimNothing(w) PROVE HoldersKnown'
  <2>1. held[w] = None /\ UNCHANGED held
    BY <1>4 DEF ExpirePayloads, ClaimNothing, HoldersKnown
  <2>2. PICK s \in {"idle", "claiming"} : pc' = [pc EXCEPT ![w] = s]
    BY <1>4 DEF ExpirePayloads, ClaimNothing, Goto
  <2>. QED  BY <1>2, <2>1, <2>2 DEF Step
<1>5. ASSUME NEW w \in Workers, NEW j, NEW r, CompleteJob(w, j, r) \/ FailJob(w, j) PROVE HoldersKnown'
  <2>1. Release(w) \/ (Die(w) /\ UNCHANGED held)
    BY <1>5 DEF CompleteJob, FailJob
  <2>. QED  BY <1>2, <2>1 DEF Release, Die, Goto, Step
<1>6. ASSUME NEW w \in Workers, ExtendLease(w) \/ JudgeAnswers(w) \/ JudgeRaises(w)
      PROVE  HoldersKnown'
  <2>1. held[w] \in Jobs /\ UNCHANGED held
    BY <1>6 DEF ExtendLease, JudgeAnswers, JudgeRaises, InFlight, HoldersKnown
  <2>2. PICK s \in {"judging", "failing"} : pc' = [pc EXCEPT ![w] = s]
    BY <1>6 DEF ExtendLease, JudgeAnswers, JudgeRaises, Goto
  <2>. QED  BY <1>2, <2>1, <2>2 DEF Step
<1>7. ASSUME NEW w \in Workers, Crash(w) PROVE HoldersKnown'
  BY <1>2, <1>7 DEF Crash, Die, Goto, Step
<1>8. CASE UNCHANGED vars \/ Tick
  BY <1>1, <1>8 DEF vars, workerVars, Tick
<1>9. ASSUME NEW j \in Jobs, NEW b \in BOOLEAN, Enqueue(j, b) \/ RecordHumanReview(j)
      PROVE  HoldersKnown'
  BY <1>1, <1>9 DEF Enqueue, RecordHumanReview, workerVars
<1>. QED
  BY <1>3, <1>4, <1>5, <1>6, <1>7, <1>8, <1>9
  DEF Next, WorkerStep, SkipExpired, ParkForHuman, JudgeReviewed, ReportFailure

(***************************************************************************)
(* The invariants and the promise depend on a step only through the six    *)
(* ways it can change who owns what.                                       *)
(***************************************************************************)
AddStep(j) ==
  /\ status[j] = "absent"
  /\ status' = [status EXCEPT ![j] = "pending"]
  /\ UNCHANGED <<owner, held, attempts, result>>

DropStep(D) ==
  /\ \A j \in D : status[j] = "pending"
  /\ status' = [j \in Jobs |-> IF j \in D THEN "skipped" ELSE status[j]]
  /\ UNCHANGED <<owner, held, attempts, result>>

TakeStep(w, j) ==
  /\ held[w] = None
  /\ status[j] \in {"pending", "leased"}
  /\ status'   = [status EXCEPT ![j] = "leased"]
  /\ owner'    = [owner EXCEPT ![j] = w]
  /\ held'     = [held EXCEPT ![w] = j]
  /\ attempts' = [attempts EXCEPT ![j] = @ + 1]
  /\ UNCHANGED result

ReturnStep(w, j) ==
  /\ held[w] = j /\ Owns(w, j) /\ attempts[j] < MaxAttempts
  /\ status' = [status EXCEPT ![j] = "pending"]
  /\ owner'  = [owner EXCEPT ![j] = None]
  /\ held'   = [held EXCEPT ![w] = None]
  /\ UNCHANGED <<attempts, result>>

SettleStep(w, j, s, r) ==
  /\ held[w] = j /\ Owns(w, j)
  /\ status' = [status EXCEPT ![j] = s]
  /\ result' = [result EXCEPT ![j] = r]
  /\ held'   = [held EXCEPT ![w] = None]
  /\ UNCHANGED <<owner, attempts>>

StutterStep == UNCHANGED <<status, owner, held, attempts, result>>

OwnershipStep ==
  \/ \E j \in Jobs : AddStep(j)
  \/ \E D \in SUBSET Jobs : DropStep(D)
  \/ \E w \in Workers, j \in Jobs :
        \/ TakeStep(w, j)
        \/ ReturnStep(w, j)
        \/ \E s \in {"complete", "exhausted"}, r \in Result : SettleStep(w, j, s, r)
  \/ StutterStep

\* Every step is one of the few kinds that matter to ownership.
LEMMA StepKinds == TypeOK /\ HoldersKnown /\ [Next]_vars => OwnershipStep
<1>. SUFFICES ASSUME TypeOK, HoldersKnown, [Next]_vars PROVE OwnershipStep
  OBVIOUS
<1>1. ASSUME NEW j \in Jobs, NEW b \in BOOLEAN, Enqueue(j, b) PROVE OwnershipStep
  <2>1. AddStep(j)
    BY <1>1 DEF Enqueue, AddStep, workerVars
  <2>. QED  BY <2>1 DEF OwnershipStep
<1>2. ASSUME NEW w \in Workers, ExpirePayloads(w) PROVE OwnershipStep
  <2>. DEFINE D == {j \in Jobs : Expired(j) /\ status[j] = "pending"}
  <2>1. DropStep(D)
    BY <1>2 DEF ExpirePayloads, DropStep
  <2>. QED  BY <2>1 DEF OwnershipStep
<1>3. ASSUME NEW w \in Workers, NEW j \in Jobs, ClaimJob(w, j) PROVE OwnershipStep
  <2>1. TakeStep(w, j)
    BY <1>3 DEF ClaimJob, Claimable, TakeStep, HoldersKnown
  <2>. QED  BY <2>1 DEF OwnershipStep
<1>4. ASSUME NEW w \in Workers, held[w] \in Jobs, NEW r \in Result, CompleteJob(w, held[w], r)
      PROVE  OwnershipStep
  <2>1. CASE HoldsLease(w, held[w])
    <3>1. SettleStep(w, held[w], "complete", r)
      BY <1>4, <2>1 DEF CompleteJob, HoldsLease, SettleStep, Release
    <3>. QED  BY <1>4, <3>1 DEF OwnershipStep
  <2>2. CASE ~HoldsLease(w, held[w])
    BY <1>4, <2>2 DEF CompleteJob, jobVars, OwnershipStep, StutterStep
  <2>. QED  BY <2>1, <2>2
<1>5. ASSUME NEW w \in Workers, held[w] \in Jobs, FailJob(w, held[w]) PROVE OwnershipStep
  <2>1. CASE Owns(w, held[w]) /\ Spent(held[w])
    <3>1. SettleStep(w, held[w], "exhausted", "exhausted")
      BY <1>5, <2>1, AttemptsAssumption DEF FailJob, SettleStep, Release, TypeOK
    <3>. QED  BY <1>5, <3>1 DEF OwnershipStep, Result
  <2>2. CASE Owns(w, held[w]) /\ ~Spent(held[w])
    <3>1. ReturnStep(w, held[w])
      BY <1>5, <2>2, AttemptsAssumption DEF FailJob, ReturnStep, Spent, Release, TypeOK
    <3>. QED  BY <1>5, <3>1 DEF OwnershipStep
  <2>3. CASE ~Owns(w, held[w])
    BY <1>5, <2>3 DEF FailJob, OwnershipStep, StutterStep
  <2>. QED  BY <1>5, <2>1, <2>2, <2>3 DEF FailJob
<1>6. ASSUME NEW w \in Workers,
             SkipExpired(w) \/ ParkForHuman(w) \/ JudgeReviewed(w) \/ ReportFailure(w)
      PROVE  OwnershipStep
  <2>1. held[w] \in Jobs
    BY <1>6 DEF HoldersKnown, Holding, SkipExpired, ParkForHuman, JudgeReviewed, ReportFailure
  <2>. QED  BY <1>4, <1>5, <1>6, <2>1 DEF SkipExpired, ParkForHuman, JudgeReviewed, ReportFailure, Result
<1>7. ASSUME NEW w \in Workers,
             ClaimNothing(w) \/ ExtendLease(w) \/ JudgeAnswers(w) \/ JudgeRaises(w) \/ Crash(w)
      PROVE  StutterStep
  BY <1>7 DEF ClaimNothing, ExtendLease, JudgeAnswers, JudgeRaises, Crash, jobVars, StutterStep
<1>8. ASSUME NEW j \in Jobs, RecordHumanReview(j) PROVE StutterStep
  BY <1>8 DEF RecordHumanReview, workerVars, StutterStep
<1>9. CASE UNCHANGED vars \/ Tick
  BY <1>9 DEF vars, jobVars, workerVars, Tick, OwnershipStep, StutterStep
<1>. QED
  BY <1>1, <1>2, <1>3, <1>6, <1>7, <1>8, <1>9 DEF Next, WorkerStep, OwnershipStep

\* Each of these kinds keeps row and worker in agreement.
LEMMA StepOwnerHolds == TypeOK /\ OwnerHolds /\ OwnershipStep => OwnerHolds'
<1>. SUFFICES ASSUME TypeOK, OwnerHolds, OwnershipStep PROVE OwnerHolds'
  OBVIOUS
<1>. USE WorkersAssumption, JobsAssumption
<1>1. ASSUME NEW j \in Jobs, AddStep(j) PROVE OwnerHolds'
  BY <1>1 DEF AddStep, OwnerHolds, TypeOK
<1>2. ASSUME NEW D \in SUBSET Jobs, DropStep(D) PROVE OwnerHolds'
  BY <1>2 DEF DropStep, OwnerHolds, TypeOK
<1>3. ASSUME NEW w \in Workers, NEW j \in Jobs, TakeStep(w, j) PROVE OwnerHolds'
  BY <1>3 DEF TakeStep, OwnerHolds, TypeOK
<1>4. ASSUME NEW w \in Workers, NEW j \in Jobs, ReturnStep(w, j) PROVE OwnerHolds'
  BY <1>4 DEF ReturnStep, Owns, OwnerHolds, TypeOK
<1>5. ASSUME NEW w \in Workers, NEW j \in Jobs, NEW s \in {"complete", "exhausted"}, NEW r,
             SettleStep(w, j, s, r)
      PROVE  OwnerHolds'
  BY <1>5 DEF SettleStep, Owns, OwnerHolds, TypeOK
<1>6. CASE StutterStep
  BY <1>6 DEF StutterStep, OwnerHolds
<1>. QED  BY <1>1, <1>2, <1>3, <1>4, <1>5, <1>6 DEF OwnershipStep

-----------------------------------------------------------------------------
(* The retry limit.                                                        *)

\* The workers that lost a job are finitely many, and at most one more is
\* counted when the set grows.
LEMMA LostCount ==
  /\ \A j : IsFiniteSet(Lost(j)) /\ Cardinality(Lost(j)) \in Nat
  /\ \A S, T \in SUBSET Workers :
        S \subseteq T => Cardinality(S) <= Cardinality(T)
  /\ \A S \in SUBSET Workers : \A w \in Workers \ S :
        Cardinality(S \cup {w}) = Cardinality(S) + 1
<1>1. ASSUME NEW S \in SUBSET Workers PROVE IsFiniteSet(S) /\ Cardinality(S) \in Nat
  BY <1>1, WorkersAssumption, FS_Subset, FS_CardinalityType
<1>2. \A j : Lost(j) \in SUBSET Workers
  BY DEF Lost
<1>3. ASSUME NEW S \in SUBSET Workers, NEW T \in SUBSET Workers, S \subseteq T
      PROVE  Cardinality(S) <= Cardinality(T)
  BY <1>1, <1>3, FS_Subset
<1>4. ASSUME NEW S \in SUBSET Workers, NEW w \in Workers \ S
      PROVE  Cardinality(S \cup {w}) = Cardinality(S) + 1
  BY <1>1, FS_AddElement
<1>. QED  BY <1>1, <1>2, <1>3, <1>4

\* A claim that exceeds the limit takes the job from a worker, and lost workers stay lost.
LEMMA StepAttempts ==
  TypeOK /\ OwnerHolds /\ AttemptsToSpare /\ AttemptsPaidFor /\ OwnershipStep
    => AttemptsToSpare' /\ AttemptsPaidFor'
<1>. SUFFICES ASSUME TypeOK, OwnerHolds, AttemptsToSpare, AttemptsPaidFor, OwnershipStep
              PROVE  AttemptsToSpare' /\ AttemptsPaidFor'
  OBVIOUS
<1>. USE WorkersAssumption, JobsAssumption, AttemptsAssumption
\* Attempts that do not change stay paid for if no lost worker is forgotten.
<1>1. ASSUME NEW k \in Jobs, attempts'[k] = attempts[k], Lost(k) \subseteq Lost(k)'
      PROVE  attempts'[k] <= MaxAttempts + Cardinality(Lost(k)')
  <2>1. Lost(k) \in SUBSET Workers /\ Lost(k)' \in SUBSET Workers
    BY DEF Lost
  <2>2. Cardinality(Lost(k)) <= Cardinality(Lost(k)')
    BY <1>1, <2>1, LostCount
  <2>3. IsFiniteSet(Lost(k)') /\ Cardinality(Lost(k)') \in Nat
    BY <2>1, WorkersAssumption, FS_Subset, FS_CardinalityType
  <2>. QED  BY <1>1, <2>2, <2>3, LostCount DEF AttemptsPaidFor, TypeOK
<1>2. ASSUME NEW j \in Jobs, AddStep(j) PROVE AttemptsToSpare' /\ AttemptsPaidFor'
  <2>1. \A k \in Jobs : Lost(k)' = Lost(k) /\ attempts'[k] = attempts[k]
    BY <1>2 DEF AddStep, Lost
  <2>. QED  BY <1>1, <1>2, <2>1 DEF AddStep, AttemptsToSpare, AttemptsPaidFor, TypeOK
<1>3. ASSUME NEW D \in SUBSET Jobs, DropStep(D) PROVE AttemptsToSpare' /\ AttemptsPaidFor'
  <2>1. \A k \in Jobs : Lost(k)' = Lost(k) /\ attempts'[k] = attempts[k]
    BY <1>3 DEF DropStep, Lost
  <2>. QED  BY <1>1, <1>3, <2>1 DEF DropStep, AttemptsToSpare, AttemptsPaidFor, TypeOK
<1>4. ASSUME NEW w \in Workers, NEW j \in Jobs, TakeStep(w, j)
      PROVE  AttemptsToSpare' /\ AttemptsPaidFor'
  <2>1. AttemptsToSpare'
    BY <1>4 DEF TakeStep, AttemptsToSpare, TypeOK
  <2>2. \A k \in Jobs : k # j => Lost(k)' = Lost(k) /\ attempts'[k] = attempts[k]
    BY <1>4 DEF TakeStep, Lost, TypeOK
  <2>3. attempts'[j] = attempts[j] + 1 /\ Lost(j)' \in SUBSET Workers
    BY <1>4 DEF TakeStep, Lost, TypeOK
  <2>4. Cardinality(Lost(j)') \in Nat
    BY <2>3, WorkersAssumption, FS_Subset, FS_CardinalityType
  <2>5. CASE status[j] = "pending"
    <3>1. attempts[j] + 1 <= MaxAttempts
      BY <2>5 DEF AttemptsToSpare, TypeOK
    <3>2. attempts'[j] <= MaxAttempts + Cardinality(Lost(j)')
      BY <2>3, <2>4, <3>1 DEF TypeOK
    <3>3. ASSUME NEW k \in Jobs PROVE attempts'[k] <= MaxAttempts + Cardinality(Lost(k)')
      BY <1>1, <2>2, <3>2
    <3>. QED  BY <2>1, <3>3 DEF AttemptsPaidFor
  \* The previous owner joins the workers that lost the job.
  <2>6. CASE status[j] = "leased"
    <3>1. owner[j] \in Workers \ Lost(j) /\ owner[j] # w
      BY <1>4, <2>6 DEF OwnerHolds, TakeStep, Lost
    <3>2. Lost(j) \cup {owner[j]} \subseteq Lost(j)'
      BY <1>4, <2>6, <3>1 DEF OwnerHolds, TakeStep, Lost, TypeOK
    <3>3. Lost(j) \in SUBSET Workers
      BY DEF Lost
    <3>4. Cardinality(Lost(j) \cup {owner[j]}) = Cardinality(Lost(j)) + 1
      BY <3>1, <3>3, LostCount
    <3>5. Cardinality(Lost(j) \cup {owner[j]}) <= Cardinality(Lost(j)')
      BY <2>3, <3>1, <3>2, <3>3, LostCount
    <3>6. attempts[j] + 1 <= MaxAttempts + Cardinality(Lost(j)')
      BY <2>4, <3>4, <3>5, LostCount DEF AttemptsPaidFor, TypeOK
    <3>7. ASSUME NEW k \in Jobs PROVE attempts'[k] <= MaxAttempts + Cardinality(Lost(k)')
      BY <1>1, <2>2, <2>3, <3>6
    <3>. QED  BY <2>1, <3>7 DEF AttemptsPaidFor
  <2>. QED  BY <1>4, <2>5, <2>6 DEF TakeStep
<1>5. ASSUME NEW w \in Workers, NEW j \in Jobs, ReturnStep(w, j)
      PROVE  AttemptsToSpare' /\ AttemptsPaidFor'
  <2>1. \A k \in Jobs : Lost(k) \subseteq Lost(k)' /\ attempts'[k] = attempts[k]
    BY <1>5 DEF ReturnStep, Owns, Lost, TypeOK
  <2>. QED  BY <1>1, <1>5, <2>1 DEF ReturnStep, AttemptsToSpare, AttemptsPaidFor, TypeOK
<1>6. ASSUME NEW w \in Workers, NEW j \in Jobs, NEW s \in {"complete", "exhausted"}, NEW r,
             SettleStep(w, j, s, r)
      PROVE  AttemptsToSpare' /\ AttemptsPaidFor'
  <2>1. \A k \in Jobs : Lost(k) \subseteq Lost(k)' /\ attempts'[k] = attempts[k]
    BY <1>6 DEF SettleStep, Owns, Lost, TypeOK
  <2>. QED  BY <1>1, <1>6, <2>1 DEF SettleStep, AttemptsToSpare, AttemptsPaidFor, TypeOK
<1>7. CASE StutterStep
  BY <1>7 DEF StutterStep, AttemptsToSpare, AttemptsPaidFor, Lost
<1>. QED  BY <1>2, <1>3, <1>4, <1>5, <1>6, <1>7 DEF OwnershipStep

-----------------------------------------------------------------------------
(* The inductive invariant.                                                *)

\* The inductive invariant holds at first ...
LEMMA InitInvariant == Init => IInv
<1>. SUFFICES ASSUME Init PROVE IInv
  OBVIOUS
<1>1. TypeOK
  BY InitTyped
<1>2. HoldersKnown /\ OwnerHolds
  BY JobsAssumption DEF Init, HoldersKnown, OwnerHolds, Holding
<1>3. AttemptsToSpare
  BY AttemptsAssumption DEF Init, AttemptsToSpare
<1>4. AttemptsPaidFor
  BY <1>1, LostCount, AttemptsAssumption DEF Init, AttemptsPaidFor, TypeOK
<1>. QED  BY <1>1, <1>2, <1>3, <1>4 DEF IInv

\* ... and is kept by every step.
LEMMA StepInvariant == IInv /\ [Next]_vars => IInv'
  BY StepTyped, StepHoldersKnown, StepKinds, StepOwnerHolds, StepAttempts DEF IInv

(* The inductive invariant holds in every reachable state.                  *)
THEOREM Invariance == Spec => []IInv
<1>1. Init => IInv
  BY InitInvariant
<1>2. IInv /\ [Next]_vars => IInv'
  BY StepInvariant
<1>. QED  BY <1>1, <1>2, PTL DEF Spec

(* Every column and every worker variable keeps its type.                   *)
THEOREM TypeCorrect == Spec => []TypeOK
<1>1. IInv => TypeOK
  BY DEF IInv
<1>. QED  BY <1>1, Invariance, PTL

(* The row of a leased job and the worker it names agree, for any number of *)
(* workers that claim, sweep, complete, fail, die and come back.            *)
THEOREM OwnershipAgrees == Spec => []OwnerHolds
<1>1. IInv => OwnerHolds
  BY DEF IInv
<1>. QED  BY <1>1, Invariance, PTL

(* audit_max_attempts is exceeded only by as many claims as there are       *)
(* workers that lost the job: with no lost lease it is a strict limit.      *)
THEOREM RetryLimit == Spec => []AttemptsPaidFor
<1>1. IInv => AttemptsPaidFor
  BY DEF IInv
<1>. QED  BY <1>1, Invariance, PTL

-----------------------------------------------------------------------------
(* Fencing.                                                                *)

\* A step of a worker that lost j leaves the row of j alone.
LEMMA StepFenced ==
  ASSUME IInv, [Next]_vars, NEW j \in Jobs, NEW w \in Lost(j), pc'[w] # pc[w]
  PROVE  Row(j)' = Row(j)
<1>1. w \in Workers /\ held[w] = j /\ owner[j] # w
  BY DEF Lost
<1>2. pc[w] \notin {"idle", "claiming"}
  BY <1>1, JobsAssumption DEF IInv, HoldersKnown
<1>3. ~Owns(w, j) /\ ~HoldsLease(w, j)
  BY <1>1 DEF Owns, HoldsLease
\* Only w itself moves w.
<1>4. WorkerStep(w) \/ Crash(w)
  <2>1. ASSUME NEW v \in Workers, v # w, WorkerStep(v) \/ Crash(v) PROVE FALSE
    <3>1. \/ \E s : Goto(v, s)
          \/ UNCHANGED pc
      BY <2>1 DEF WorkerStep, Crash, ExpirePayloads, ClaimJob, ClaimNothing, SkipExpired,
                  ParkForHuman, JudgeReviewed, CompleteJob, ExtendLease, JudgeAnswers,
                  JudgeRaises, ReportFailure, FailJob, Release, Die
    <3>2. pc'[w] = pc[w]
      BY <1>1, <2>1, <3>1 DEF Goto, IInv, TypeOK
    <3>. QED  BY <3>2
  <2>2. CASE UNCHANGED pc
    BY <2>2
  <2>. QED
    BY <2>1, <2>2 DEF Next, vars, workerVars, Enqueue, RecordHumanReview, Tick
<1>5. CASE SkipExpired(w) \/ ParkForHuman(w) \/ JudgeReviewed(w)
  BY <1>1, <1>3, <1>5 DEF SkipExpired, ParkForHuman, JudgeReviewed, CompleteJob, jobVars, Row
<1>6. CASE ReportFailure(w)
  BY <1>1, <1>3, <1>6 DEF ReportFailure, FailJob, Row
<1>7. CASE ExtendLease(w)
  BY <1>1, <1>3, <1>7 DEF ExtendLease, Row
<1>8. CASE JudgeAnswers(w) \/ JudgeRaises(w) \/ Crash(w)
  BY <1>8 DEF JudgeAnswers, JudgeRaises, Crash, jobVars, Row
<1>9. CASE ExpirePayloads(w) \/ ClaimNothing(w) \/ \E k \in Jobs : ClaimJob(w, k)
  BY <1>2, <1>9 DEF ExpirePayloads, ClaimNothing, ClaimJob
<1>. QED  BY <1>4, <1>5, <1>6, <1>7, <1>8, <1>9 DEF WorkerStep

(* Whatever a worker does after its job was taken over - a late completion, *)
(* heartbeat or failure report - leaves the row of that job alone.          *)
THEOREM Fencing == Spec => FencedRow
<1>1. IInv /\ [Next]_vars => [\A j \in Jobs : \A w \in Lost(j) : pc'[w] # pc[w] => Row(j)' = Row(j)]_vars
  BY StepFenced
<1>. QED  BY <1>1, Invariance, PTL DEF Spec, FencedRow

-----------------------------------------------------------------------------
(* The promise.                                                            *)

\* The phases of the promise, read off the status.
LEMMA Phases ==
  /\ PhaseOf("absent") = "absent" /\ PhaseOf("pending") = "open" /\ PhaseOf("leased") = "held"
  /\ \A s \in Terminal : PhaseOf(s) = "settled"
  BY DEF PhaseOf, Terminal

\* The provers do not push a prime through an operator they do not expand.
LEMMA PhaseMap ==
  /\ WorkPhase  = [j \in Jobs |-> PhaseOf(status[j])]
  /\ WorkPhase' = [j \in Jobs |-> PhaseOf(status'[j])]
  BY DEF WorkPhase, PhaseOf

\* How the mapped variables follow one row of the table.
LEMMA PhaseChange ==
  ASSUME TypeOK, NEW j \in Jobs, NEW s \in Status, status' = [status EXCEPT ![j] = s]
  PROVE  WorkPhase' = [WorkPhase EXCEPT ![j] = PhaseOf(s)]
<1>1. /\ status'[j] = s
      /\ \A k \in Jobs : k # j => status'[k] = status[k]
  BY DEF TypeOK
<1>2. WorkPhase = [k \in Jobs |-> PhaseOf(status[k])] /\ WorkPhase' = [k \in Jobs |-> PhaseOf(status'[k])]
  BY PhaseMap
<1>. QED  BY <1>1, <1>2

\* How a change of one row changes the holders.
LEMMA HolderChange ==
  ASSUME TypeOK, NEW j \in Jobs, NEW s \in Status, NEW o,
         status' = [status EXCEPT ![j] = s], owner' = [owner EXCEPT ![j] = o]
  PROVE  WorkHolder' = [WorkHolder EXCEPT ![j] = IF s = "leased" THEN o ELSE None]
<1>1. /\ status'[j] = s /\ owner'[j] = o
      /\ \A k \in Jobs : k # j => status'[k] = status[k] /\ owner'[k] = owner[k]
  BY DEF TypeOK
<1>. QED  BY <1>1 DEF WorkHolder

\* The empty queue keeps the promise ...
LEMMA InitPromise == Init => Promise!Init
<1>. SUFFICES ASSUME Init PROVE Promise!Init
  OBVIOUS
<1>1. \A j \in Jobs : status[j] = "absent"
  BY DEF Init
<1>2. WorkPhase = [j \in Jobs |-> "absent"]
  BY <1>1, Phases DEF WorkPhase
<1>3. WorkHolder = [j \in Jobs |-> None]
  BY <1>1 DEF WorkHolder
<1>. QED  BY <1>2, <1>3 DEF Init, Promise!Init

\* ... and every step of it is a step of the promise, or none.
LEMMA StepPromise == IInv /\ IInv' /\ [Next]_vars => [Promise!Next]_(Promise!vars)
<1>. SUFFICES ASSUME IInv, IInv', [Next]_vars
              PROVE  Promise!Next \/ UNCHANGED Promise!vars
  OBVIOUS
<1>0. TypeOK
  BY DEF IInv
<1>1. ASSUME NEW j \in Jobs, AddStep(j) PROVE Promise!Next
  <2>1. WorkPhase' = [WorkPhase EXCEPT ![j] = "open"] /\ WorkPhase[j] = "absent"
    <3>1. status' = [status EXCEPT ![j] = "pending"] /\ "pending" \in Status
      BY <1>1 DEF AddStep, Status, Terminal
    <3>2. WorkPhase' = [WorkPhase EXCEPT ![j] = PhaseOf("pending")]
      BY <1>0, <3>1, PhaseChange
    <3>3. PhaseOf("pending") = "open"
      BY Phases
    <3>. QED  BY <1>1, <3>2, <3>3, PhaseMap, Phases DEF AddStep
  <2>2. WorkHolder' = WorkHolder
    BY <1>1 DEF AddStep, WorkHolder, TypeOK
  <2>3. Promise!Add(j)
    BY <1>1, <2>1, <2>2 DEF AddStep, Promise!Add
  <2>. QED  BY <2>3 DEF Promise!Next
<1>2. ASSUME NEW D \in SUBSET Jobs, DropStep(D) PROVE Promise!Next
  <2>1. /\ \A j \in D : WorkPhase[j] = "open"
        /\ WorkPhase' = [j \in Jobs |-> IF j \in D THEN "settled" ELSE WorkPhase[j]]
    <3>1. \A j \in Jobs : status'[j] = IF j \in D THEN "skipped" ELSE status[j]
      BY <1>2 DEF DropStep
    <3>2. PhaseOf("skipped") = "settled"
      BY Phases DEF Terminal
    <3>. QED  BY <1>2, <3>1, <3>2, PhaseMap, Phases DEF DropStep
  <2>2. WorkHolder' = WorkHolder
    BY <1>2 DEF DropStep, WorkHolder
  <2>3. Promise!Drop(D)
    BY <1>2, <2>1, <2>2 DEF DropStep, Promise!Drop
  <2>. QED  BY <2>3 DEF Promise!Next
<1>3. ASSUME NEW w \in Workers, NEW j \in Jobs, TakeStep(w, j) PROVE Promise!Next
  <2>1. WorkPhase' = [WorkPhase EXCEPT ![j] = "held"] /\ WorkPhase[j] \in {"open", "held"}
    <3>1. status' = [status EXCEPT ![j] = "leased"] /\ "leased" \in Status
      BY <1>3 DEF TakeStep, Status, Terminal
    <3>2. WorkPhase' = [WorkPhase EXCEPT ![j] = PhaseOf("leased")]
      BY <1>0, <3>1, PhaseChange
    <3>3. PhaseOf("leased") = "held"
      BY Phases
    <3>. QED  BY <1>3, <3>2, <3>3, PhaseMap, Phases DEF TakeStep
  <2>2. WorkHolder' = [WorkHolder EXCEPT ![j] = w]
    BY <1>0, <1>3, HolderChange DEF TakeStep, Status
  <2>3. Promise!Take(w, j)
    BY <1>3, <2>1, <2>2 DEF TakeStep, Promise!Take
  <2>. QED  BY <2>3 DEF Promise!Next
<1>4. ASSUME NEW w \in Workers, NEW j \in Jobs, ReturnStep(w, j) PROVE Promise!Next
  <2>1. WorkPhase' = [WorkPhase EXCEPT ![j] = "open"] /\ WorkHolder[j] = w
    <3>1. status' = [status EXCEPT ![j] = "pending"] /\ "pending" \in Status
      BY <1>4 DEF ReturnStep, Status, Terminal
    <3>2. WorkPhase' = [WorkPhase EXCEPT ![j] = PhaseOf("pending")]
      BY <1>0, <3>1, PhaseChange
    <3>3. PhaseOf("pending") = "open"
      BY Phases
    <3>. QED  BY <1>4, <3>2, <3>3 DEF ReturnStep, Owns, WorkHolder
  <2>2. WorkHolder' = [WorkHolder EXCEPT ![j] = None]
    BY <1>0, <1>4, HolderChange DEF ReturnStep, Status
  <2>3. Promise!Return(w, j)
    BY <1>4, <2>1, <2>2 DEF ReturnStep, Promise!Return
  <2>. QED  BY <2>3 DEF Promise!Next
<1>5. ASSUME NEW w \in Workers, NEW j \in Jobs, NEW s \in {"complete", "exhausted"},
             NEW r \in Result, SettleStep(w, j, s, r)
      PROVE  Promise!Next
  <2>1. WorkPhase' = [WorkPhase EXCEPT ![j] = "settled"] /\ WorkHolder[j] = w
    <3>1. status' = [status EXCEPT ![j] = s] /\ s \in Status
      BY <1>5 DEF SettleStep, Status, Terminal
    <3>2. WorkPhase' = [WorkPhase EXCEPT ![j] = PhaseOf(s)]
      BY <1>0, <3>1, PhaseChange
    <3>3. PhaseOf(s) = "settled"
      BY Phases DEF Terminal
    <3>. QED  BY <1>5, <3>2, <3>3 DEF SettleStep, Owns, WorkHolder
  <2>2. WorkHolder' = [WorkHolder EXCEPT ![j] = None]
    <3>1. owner' = [owner EXCEPT ![j] = owner[j]] /\ s \in Status
      BY <1>0, <1>5 DEF SettleStep, TypeOK, Status, Terminal
    <3>. QED  BY <1>0, <1>5, <3>1, HolderChange DEF SettleStep
  <2>3. Promise!Settle(w, j, r)
    BY <1>5, <2>1, <2>2 DEF SettleStep, Promise!Settle
  <2>. QED  BY <2>3 DEF Promise!Next
<1>6. CASE StutterStep
  BY <1>6 DEF StutterStep, Promise!vars, WorkPhase, WorkHolder
<1>. QED  BY <1>1, <1>2, <1>3, <1>4, <1>5, <1>6, StepKinds DEF OwnershipStep, IInv

(* The queue implements WorkItems: leases, clocks, retries, deaths and late *)
(* answers never settle a job twice, never let a worker settle or return a  *)
(* job another one has taken over, and never drop a job that was taken.     *)
THEOREM Refinement == Spec => KeepsPromise
<1>1. Init => Promise!Init
  BY InitPromise
<1>2. IInv /\ IInv' /\ [Next]_vars => [Promise!Next]_(Promise!vars)
  BY StepPromise
<1>. QED  BY <1>1, <1>2, Invariance, PTL DEF Spec, KeepsPromise, Promise!Spec

-----------------------------------------------------------------------------
(* When the heartbeat of worker.py keeps its promise: a job whose checks   *)
(* need one judge call is not taken over during that call, provided that   *)
(* two waits for SQLite's write lock fit into the lease of a claim (they   *)
(* do: 10 s each, 30 s).  AuditQueue_qa_reclaim shows that the condition   *)
(* on the number of calls is needed.                                       *)

OneJudgeCall == \A j \in Jobs : JudgeCalls[j] <= 1
LocksAreShort == 2 * LockWait <= ClaimLease

-----------------------------------------------------------------------------
(* A worker between its claim and the end of its judge call is on guard:   *)
(* what is left of its lease outlasts the step it is in.                   *)

OnGuard(w) == pc[w] = "extending" \/ InFlight(w)
Lasting(w) == IF pc[w] = "extending" THEN ClaimLease - LockWait ELSE CallTimeout

TimersBounded == \A w \in Workers : Busy(w) => timer[w] <= StepLimit(w)

LeaseKept(w) ==
  OnGuard(w) =>
    /\ held[w] \in Jobs /\ Owns(w, held[w])
    /\ lease[held[w]] + timer[w] >= Lasting(w)
    /\ InFlight(w) => calls[w] = 1

LeasesKept == \A w \in Workers : LeaseKept(w)

\* Nothing changes of the worker and of the row it holds.
Alike(w) ==
  /\ pc'[w] = pc[w] /\ held'[w] = held[w] /\ timer'[w] = timer[w] /\ calls'[w] = calls[w]
  /\ held[w] \in Jobs /\ Owns(w, held[w]) =>
       UNCHANGED <<status[held[w]], owner[held[w]], lease[held[w]]>>

LEMMA AlikeKept ==
  ASSUME NEW w \in Workers, LeaseKept(w), Alike(w)
  PROVE  LeaseKept(w)'
  BY DEF LeaseKept, Alike, OnGuard, InFlight, Lasting, Owns

\* A lease on guard has not run out.
LEMMA LeaseLeft ==
  ASSUME TypeOK, TimersBounded, LocksAreShort, NEW w \in Workers, OnGuard(w), LeaseKept(w)
  PROVE  HoldsLease(w, held[w])
  <1>1. Busy(w)
    BY DEF OnGuard, InFlight, Busy
  <1>2. /\ held[w] \in Jobs /\ Owns(w, held[w]) /\ lease[held[w]] \in Int /\ timer[w] \in Nat
        /\ lease[held[w]] + timer[w] >= Lasting(w)
    BY DEF LeaseKept, TypeOK
  <1>3. timer[w] <= StepLimit(w)
    BY <1>1 DEF TimersBounded
  <1>4. StepLimit(w) <= Lasting(w)
    <2>1. CASE pc[w] = "extending"
      BY <2>1, TimesAssumption DEF StepLimit, Lasting, InFlight, LocksAreShort
    <2>2. CASE InFlight(w)
      BY <2>2, TimesAssumption DEF StepLimit, Lasting, InFlight
    <2>. QED  BY <2>1, <2>2 DEF OnGuard
  <1>5. StepLimit(w) \in Int /\ Lasting(w) \in Int
    BY TimesAssumption DEF StepLimit, Lasting
  <1>. QED  BY <1>2, <1>3, <1>4, <1>5 DEF HoldsLease

-----------------------------------------------------------------------------
(* Timers.                                                                 *)

\* A worker that takes a step has just begun the next one.
Restarts(w) == \E s \in Step : pc' = [pc EXCEPT ![w] = s] /\ timer' = [timer EXCEPT ![w] = 0]

LEMMA StepRestarts ==
  ASSUME TypeOK, NEW w \in Workers, WorkerStep(w) \/ Crash(w)
  PROVE  Restarts(w) /\ \A v \in Workers : v # w => calls'[v] = calls[v] /\ held'[v] = held[v]
  <1>. USE DEF Goto, Step, Holding
  <1>1. CASE ExpirePayloads(w)
    BY <1>1 DEF ExpirePayloads, Restarts
  <1>2. ASSUME NEW j \in Jobs, ClaimJob(w, j)
        PROVE  Restarts(w) /\ \A v \in Workers : v # w => calls'[v] = calls[v] /\ held'[v] = held[v]
    <2>1. Branch(j) \in Step
      BY DEF Branch, TypeOK
    <2>. QED  BY <1>2, <2>1 DEF ClaimJob, Restarts, TypeOK
  <1>3. CASE ClaimNothing(w)
    BY <1>3 DEF ClaimNothing, Restarts
  <1>4. ASSUME NEW j, NEW r, CompleteJob(w, j, r) \/ FailJob(w, j)
        PROVE  Restarts(w) /\ \A v \in Workers : v # w => calls'[v] = calls[v] /\ held'[v] = held[v]
    <2>1. Release(w) \/ (Die(w) /\ UNCHANGED held)
      BY <1>4 DEF CompleteJob, FailJob
    <2>2. UNCHANGED calls
      BY <1>4 DEF CompleteJob, FailJob
    <2>. QED  BY <2>1, <2>2 DEF Release, Die, Restarts, TypeOK
  <1>5. CASE ExtendLease(w) \/ JudgeAnswers(w) \/ JudgeRaises(w) \/ Crash(w)
    BY <1>5 DEF ExtendLease, JudgeAnswers, JudgeRaises, Crash, Die, Restarts, TypeOK
  <1>. QED
    BY <1>1, <1>2, <1>3, <1>4, <1>5
    DEF WorkerStep, SkipExpired, ParkForHuman, JudgeReviewed, ReportFailure

LEMMA StepTimers ==
  ASSUME TypeOK, TimersBounded, [Next]_vars
  PROVE  TimersBounded'
  <1>1. ASSUME NEW w \in Workers, WorkerStep(w) \/ Crash(w)
        PROVE  TimersBounded'
    <2>1. PICK s \in Step : pc' = [pc EXCEPT ![w] = s] /\ timer' = [timer EXCEPT ![w] = 0]
      BY <1>1, StepRestarts DEF Restarts
    <2>2. timer'[w] <= StepLimit(w)'
      BY <2>1, TimesAssumption DEF StepLimit, TypeOK
    <2>3. ASSUME NEW v \in Workers, v # w, Busy(v)'
          PROVE  timer'[v] <= StepLimit(v)'
      BY <1>1, <2>1, <2>3, StepRestarts DEF TimersBounded, Busy, StepLimit, InFlight, TypeOK
    <2>. QED  BY <2>2, <2>3 DEF TimersBounded
  <1>2. CASE Tick
    <2>1. ASSUME NEW w \in Workers, Busy(w)
          PROVE  timer'[w] <= StepLimit(w)
      <3>1. timer'[w] = timer[w] + 1 /\ timer[w] < StepLimit(w) /\ timer[w] \in Nat
        BY <1>2, <2>1 DEF Tick, TypeOK
      <3>. QED  BY <3>1, TimesAssumption DEF StepLimit
    <2>. QED  BY <1>2, <2>1 DEF Tick, TimersBounded, Busy, StepLimit, InFlight
  <1>3. CASE UNCHANGED <<pc, timer, calls>>
    BY <1>3 DEF TimersBounded, Busy, StepLimit, InFlight
  <1>. QED
    BY <1>1, <1>2, <1>3 DEF Next, Enqueue, RecordHumanReview, vars, workerVars

-----------------------------------------------------------------------------
(* Leases.                                                                 *)

\* What a worker does leaves the job of another worker on guard alone.
LEMMA OthersAlike ==
  ASSUME TypeOK, HoldersKnown, TimersBounded, LocksAreShort,
         NEW w \in Workers, NEW v \in Workers, v # w, OnGuard(v), LeaseKept(v),
         WorkerStep(w) \/ Crash(w)
  PROVE  Alike(v)
  <1>. DEFINE i == held[v]
  <1>1. i \in Jobs /\ HoldsLease(v, i)
    BY LeaseLeft DEF LeaseKept
  <1>2. /\ status[i] = "leased" /\ owner[i] = v /\ lease[i] \in Int /\ lease[i] >= 0
    BY <1>1 DEF HoldsLease, Owns, TypeOK
  <1>3. pc'[v] = pc[v] /\ held'[v] = held[v] /\ timer'[v] = timer[v] /\ calls'[v] = calls[v]
    BY StepRestarts DEF Restarts, TypeOK
  <1>4. SUFFICES status'[i] = status[i] /\ owner'[i] = owner[i] /\ lease'[i] = lease[i]
    BY <1>3 DEF Alike
  <1>5. ASSUME NEW j \in Jobs, ClaimJob(w, j)
        PROVE  status'[i] = status[i] /\ owner'[i] = owner[i] /\ lease'[i] = lease[i]
    <2>1. timer[w] \in Nat
      BY DEF TypeOK
    <2>2. ~Claimable(w, i)
      BY <1>2, <2>1 DEF Claimable
    <2>. QED  BY <1>1, <1>5, <2>2 DEF ClaimJob, TypeOK
  <1>6. ASSUME NEW j \in Jobs, NEW r, CompleteJob(w, j, r) \/ FailJob(w, j)
        PROVE  status'[i] = status[i] /\ owner'[i] = owner[i] /\ lease'[i] = lease[i]
    BY <1>1, <1>2, <1>6 DEF CompleteJob, FailJob, HoldsLease, Owns, jobVars, TypeOK
  <1>7. ASSUME SkipExpired(w) \/ ParkForHuman(w) \/ JudgeReviewed(w) \/ ReportFailure(w)
        PROVE  status'[i] = status[i] /\ owner'[i] = owner[i] /\ lease'[i] = lease[i]
    <2>1. held[w] \in Jobs
      BY <1>7 DEF HoldersKnown, Holding, SkipExpired, ParkForHuman, JudgeReviewed, ReportFailure
    <2>. QED  BY <1>6, <1>7, <2>1 DEF SkipExpired, ParkForHuman, JudgeReviewed, ReportFailure
  <1>8. CASE ExtendLease(w)
    <2>1. ~HoldsLease(w, i)
      BY <1>2 DEF HoldsLease, Owns
    <2>. QED  BY <1>1, <1>8, <2>1 DEF ExtendLease, TypeOK
  <1>9. CASE ExpirePayloads(w)
    BY <1>1, <1>2, <1>9 DEF ExpirePayloads
  <1>10. CASE ClaimNothing(w) \/ JudgeAnswers(w) \/ JudgeRaises(w) \/ Crash(w)
    BY <1>10 DEF ClaimNothing, JudgeAnswers, JudgeRaises, Crash, jobVars
  <1>. QED
    BY <1>5, <1>7, <1>8, <1>9, <1>10 DEF WorkerStep

\* What a worker does keeps its own lease lasting.
LEMMA ActorsLease ==
  ASSUME TypeOK, HoldersKnown, TimersBounded, LocksAreShort, OneJudgeCall,
         NEW w \in Workers, LeaseKept(w), WorkerStep(w) \/ Crash(w)
  PROVE  LeaseKept(w)'
  <1>. USE DEF Goto
  <1>1. ASSUME NEW j \in Jobs, ClaimJob(w, j)
        PROVE  LeaseKept(w)'
    <2>1. /\ held'[w] = j /\ status'[j] = "leased" /\ owner'[j] = w /\ timer'[w] = 0
          /\ lease'[j] = ClaimLease - timer[w] /\ pc'[w] = Branch(j)
      BY <1>1 DEF ClaimJob, TypeOK
    <2>2. timer[w] \in Nat /\ timer[w] <= LockWait
      BY <1>1 DEF ClaimJob, TimersBounded, Busy, StepLimit, InFlight, TypeOK
    <2>3. Branch(j) # "judging"
      BY DEF Branch, TypeOK
    <2>. QED  BY <2>1, <2>2, <2>3, TimesAssumption DEF LeaseKept, OnGuard, InFlight, Lasting, Owns
  <1>2. CASE ExtendLease(w)
    <2>. DEFINE j == held[w]
    <2>1. j \in Jobs /\ HoldsLease(w, j)
      BY <1>2, LeaseLeft DEF ExtendLease, OnGuard, LeaseKept
    <2>2. PICK n \in {0, JudgeCalls[j]} : calls' = [calls EXCEPT ![w] = n]
      BY <1>2 DEF ExtendLease
    <2>3. n <= 1 /\ n \in Nat
      BY <2>1, <2>2, JobsAssumption DEF OneJudgeCall
    <2>4. /\ held'[w] = j /\ pc'[w] = "judging" /\ timer'[w] = 0 /\ calls'[w] = n
          /\ status' = status /\ owner' = owner /\ lease'[j] = JudgeLease
      BY <1>2, <2>1, <2>2 DEF ExtendLease, TypeOK
    <2>5. JudgeLease \in Int /\ JudgeLease >= CallTimeout
      BY TimesAssumption DEF JudgeLease
    <2>. QED  BY <2>1, <2>3, <2>4, <2>5, TimesAssumption
              DEF LeaseKept, OnGuard, InFlight, Lasting, HoldsLease, Owns
  <1>3. CASE JudgeAnswers(w)
    <2>1. calls[w] = 1
      BY <1>3 DEF JudgeAnswers, OnGuard, LeaseKept
    <2>2. calls'[w] = 0 /\ pc'[w] = "judging"
      BY <1>3, <2>1 DEF JudgeAnswers, TypeOK
    <2>. QED  BY <2>2 DEF LeaseKept, OnGuard, InFlight
  <1>4. ASSUME pc'[w] \notin {"extending", "judging"}
        PROVE  LeaseKept(w)'
    BY <1>4 DEF LeaseKept, OnGuard, InFlight
  <1>5. ASSUME NEW j, NEW r, CompleteJob(w, j, r) \/ FailJob(w, j)
        PROVE  LeaseKept(w)'
    <2>1. Release(w) \/ Die(w)
      BY <1>5 DEF CompleteJob, FailJob
    <2>. QED  BY <1>4, <2>1 DEF Release, Die, TypeOK
  <1>6. CASE ExpirePayloads(w) \/ ClaimNothing(w) \/ JudgeRaises(w) \/ Crash(w)
    <2>1. pc'[w] \in {"claiming", "idle", "failing", "dead"}
      BY <1>6 DEF ExpirePayloads, ClaimNothing, JudgeRaises, Crash, Die, TypeOK
    <2>. QED  BY <1>4, <2>1
  <1>. QED
    BY <1>1, <1>2, <1>3, <1>5, <1>6
    DEF WorkerStep, SkipExpired, ParkForHuman, JudgeReviewed, ReportFailure

\* The clock runs for the lease and for the step alike.
LEMMA TickLeases ==
  ASSUME TypeOK, LeasesKept, Tick
  PROVE  LeasesKept'
  <1>1. ASSUME NEW t \in Int, NEW floor
        PROVE  CountDown(t, floor) \in {t, t - 1}
    BY DEF CountDown
  <1>2. ASSUME NEW j \in Jobs
        PROVE  lease[j] \in Int /\ lease'[j] \in {lease[j], lease[j] - 1}
    BY <1>1 DEF Tick, TypeOK
  <1>3. \A j \in Jobs : lease'[j] >= lease[j] - 1 /\ lease'[j] \in Int /\ lease[j] \in Int
    BY <1>2
  <1>4. ASSUME NEW w \in Workers, OnGuard(w)'
        PROVE  LeaseKept(w)'
    <2>1. /\ OnGuard(w) /\ Busy(w) /\ LeaseKept(w)
          /\ UNCHANGED <<pc, held, calls, status, owner>>
      BY <1>4 DEF Tick, OnGuard, InFlight, Busy, LeasesKept
    <2>2. timer'[w] = timer[w] + 1 /\ timer[w] \in Nat
      BY <2>1 DEF Tick, TypeOK
    <2>3. Lasting(w) \in Int
      BY TimesAssumption DEF Lasting
    <2>4. lease'[held[w]] + timer'[w] >= Lasting(w)
      BY <1>3, <2>1, <2>2, <2>3 DEF LeaseKept
    <2>. QED  BY <2>1, <2>4 DEF LeaseKept, OnGuard, InFlight, Lasting, Owns
  <1>. QED  BY <1>4 DEF LeasesKept, LeaseKept

LEMMA StepLeases ==
  ASSUME TypeOK, HoldersKnown, TimersBounded, LeasesKept, OneJudgeCall, LocksAreShort, [Next]_vars
  PROVE  LeasesKept'
  <1>1. ASSUME NEW w \in Workers, WorkerStep(w) \/ Crash(w), NEW v \in Workers
        PROVE  LeaseKept(v)'
    <2>1. CASE v = w
      BY <1>1, <2>1, ActorsLease DEF LeasesKept
    <2>2. CASE v # w /\ OnGuard(v)
      BY <1>1, <2>2, OthersAlike, AlikeKept DEF LeasesKept
    <2>3. CASE v # w /\ ~OnGuard(v)
      BY <1>1, <2>3, StepRestarts DEF LeaseKept, OnGuard, InFlight, Restarts, TypeOK
    <2>. QED  BY <2>1, <2>2, <2>3
  <1>2. ASSUME NEW j \in Jobs, NEW b \in BOOLEAN, Enqueue(j, b) \/ RecordHumanReview(j), NEW v \in Workers
        PROVE  LeaseKept(v)'
    <2>1. Alike(v)
      BY <1>2 DEF Enqueue, RecordHumanReview, workerVars, Alike, Owns, TypeOK
    <2>. QED  BY <2>1, AlikeKept DEF LeasesKept
  <1>3. CASE UNCHANGED vars
    BY <1>3 DEF vars, jobVars, workerVars, LeasesKept, LeaseKept, OnGuard, InFlight, Lasting, Owns
  <1>. QED  BY <1>1, <1>2, <1>3, TickLeases DEF Next, LeasesKept

(* worker.py:42, "so a slow judge is not reclaimed by another worker        *)
(* mid-flight": a worker in a judge call owns the job, for any lease times  *)
(* and any number of workers, if no job needs a second call.                *)
THEOREM HeldDuringOneCall ==
  ASSUME OneJudgeCall, LocksAreShort
  PROVE  Spec => []HeldInFlight
  <1>. DEFINE Inv == IInv /\ TimersBounded /\ LeasesKept
  <1>1. Init => Inv
    <2>1. Init => IInv
      BY InitInvariant
    <2>2. Init => TimersBounded /\ LeasesKept
      BY DEF Init, TimersBounded, LeasesKept, LeaseKept, OnGuard, InFlight, Busy
    <2>. QED  BY <2>1, <2>2
  <1>2. Inv /\ [Next]_vars => Inv'
    BY StepInvariant, StepTimers, StepLeases DEF IInv
  <1>3. Inv => HeldInFlight
    BY DEF LeasesKept, LeaseKept, OnGuard, Owns, HeldInFlight
  <1>. QED  BY <1>1, <1>2, <1>3, PTL DEF Spec
=============================================================================
