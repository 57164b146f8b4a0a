------------------------- MODULE RequestFlowProofs -------------------------
(***************************************************************************)
(* What RequestFlow guarantees for any number of executions, keys, bodies, *)
(* routes, costs and budgets: the inductive invariant IInv, and from it    *)
(* the budget, the agreement of response, row and ledger, and one spender  *)
(* per key.                                                                *)
(***************************************************************************)
EXTENDS RequestFlow, FiniteSetTheorems, TLAPS

USE DEF InCall, Ended

-----------------------------------------------------------------------------
(* The amounts.                                                            *)

\* Whatever may be reserved for a call is a number.
LEMMA EstimatesAreNumbers == Estimates \subseteq Nat
BY NumbersAssumption, RoutesAssumption DEF Estimates

\* What the router estimates for an attempt is an estimate within the budget.
LEMMA AttemptEstimated ==
  ASSUME TypeOK, NEW e \in Executions, body[e] \in Bodies, attempt[e] >= 1, HasAlias(e)
  PROVE  Estimate(e) \in Estimates
<1>1. RouteOf[body[e]] \in Seq(Nat) /\ attempt[e] \in 1..Len(RouteOf[body[e]])
  BY RoutesAssumption, NumbersAssumption DEF TypeOK, HasAlias
<1>. QED  BY <1>1 DEF Estimate, Estimates

\* So is what is reserved for a decision call.
LEMMA DecisionEstimated == DecisionReserve \in Estimates
BY DEF Estimates

-----------------------------------------------------------------------------
(* Types.                                                                  *)

\* Before any request, everything is typed.
LEMMA InitTyped == Init => TypeOK
BY NumbersAssumption DEF Init, TypeOK, Amount, Step

\* A reservation keeps the ledger typed.
LEMMA ReserveTyped ==
  ASSUME TypeOK, NEW e \in Executions, NEW a \in Nat, Reserve(e, a)
  PROVE  /\ used' \in [Executions -> Nat] /\ open' \in [Executions -> Amount]
         /\ spent' \in [Executions -> Nat] /\ nullCost' \in [Executions -> BOOLEAN]
BY DEF TypeOK, Reserve, Amount

\* So does recording a call: what was reserved is part of what is used.
LEMMA RecordTyped ==
  ASSUME TypeOK, LedgerInStep, NEW e \in Executions, pc[e] \in InCall,
         NEW c \in Costs \cup {None}, RecordCall(e, c)
  PROVE  /\ used' \in [Executions -> Nat] /\ open' \in [Executions -> Amount]
         /\ spent' \in [Executions -> Nat] /\ nullCost' \in [Executions -> BOOLEAN]
<1>1. open[e] \in Nat /\ used[e] \in Nat /\ spent[e] \in Nat /\ open[e] <= used[e]
  BY EstimatesAreNumbers DEF LedgerInStep, TypeOK
<1>2. c # None => c \in Nat
  BY NumbersAssumption
<1>3. used[e] - open[e] + Charge(open[e], c) \in Nat /\ spent[e] + Charge(0, c) \in Nat
  BY <1>1, <1>2, NumbersAssumption DEF Charge
<1>4. used' \in [Executions -> Nat] /\ spent' \in [Executions -> Nat]
  BY <1>3 DEF TypeOK, RecordCall
<1>5. open' \in [Executions -> Amount]
  BY DEF TypeOK, RecordCall, Amount
<1>6. nullCost' \in [Executions -> BOOLEAN]
  BY DEF TypeOK, RecordCall
<1>. QED  BY <1>4, <1>5, <1>6

\* total_cost stays a number, or unknown.
LEMMA CountTyped ==
  ASSUME TypeOK, NEW e \in Executions, NEW c \in Costs \cup {None}, CountCost(e, c)
  PROVE  total' \in [Executions -> Amount]
<1>1. AddCost(total[e], c) \in Amount
  BY NumbersAssumption DEF TypeOK, AddCost, Amount
<1>. QED  BY <1>1 DEF CountCost, TypeOK

\* A wait for the write lock keeps the clock typed.
LEMMA WaitTyped ==
  ASSUME TypeOK, NEW e \in Executions, WaitForLock(e)
  PROVE  /\ elapsed' \in [Executions -> Nat]
         /\ \A f \in Executions : f # e => elapsed'[f] = elapsed[f]
         /\ elapsed[e] <= elapsed'[e] /\ elapsed'[e] <= elapsed[e] + LockWait
<1>1. PICK w \in 0..LockWait : elapsed' = [elapsed EXCEPT ![e] = @ + w]
  BY DEF WaitForLock
<1>2. LockWait \in Nat
  BY NumbersAssumption
<1>3. elapsed \in [Executions -> Nat] /\ w \in Nat /\ w <= LockWait
  BY <1>2 DEF TypeOK
<1>. QED  BY <1>1, <1>2, <1>3

\* finish keeps the types.
LEMMA FinishTyped ==
  ASSUME TypeOK, NEW e \in Executions, NEW s \in {"accepted", "rejected"}, NEW a \in BOOLEAN,
         Finish(e, s, a)
  PROVE  TypeOK'
<1>1. row' \in [Executions -> {"none", "running", "accepted", "rejected"}] /\ cost' \in [Executions -> Amount]
  BY DEF TypeOK, Finish
<1>2. answer' \in [Executions -> Response \cup {None}]
  <2>1. [status |-> s, cost |-> total[e]] \in Response
    BY DEF TypeOK, Response
  <2>. QED  BY <2>1 DEF TypeOK, Finish, Reply
<1>3. pc' \in [Executions -> Step] /\ audit' \in [Executions -> BOOLEAN]
  BY DEF TypeOK, Finish, Goto, Step
<1>. QED  BY <1>1, <1>2, <1>3, WaitTyped DEF TypeOK, Finish, ledgerVars

\* The first attempt begins, or the request is rejected for want of a route.
LEMMA AttemptsStarted ==
  ASSUME NEW e \in Executions, NEW b \in Bodies, StartAttempts(e, b)
  PROVE  /\ attempt' = [attempt EXCEPT ![e] = 1]
         /\ \/ pc' = [pc EXCEPT ![e] = "rejecting"]
            \/ pc' = [pc EXCEPT ![e] = "reserving"]
<1>1. CASE RouteOf[b] = <<>>
  BY <1>1 DEF StartAttempts, Goto
<1>2. CASE RouteOf[b] # <<>>
  BY <1>2 DEF StartAttempts, Goto
<1>. QED  BY <1>1, <1>2

\* Every step keeps the types.
LEMMA StepTyped ==
  ASSUME TypeOK, LedgerInStep, RowsInStep, [Next]_vars
  PROVE  TypeOK'
<1>1. ASSUME NEW e \in Executions, NEW k \in Keys \cup {EmptyKey, NoKey}, NEW b \in Bodies, Arrive(e, k, b)
      PROVE  key' \in [Executions -> Keys \cup {EmptyKey, NoKey}] /\ body' \in [Executions -> Bodies \cup {None}]
  BY <1>1 DEF Arrive, TypeOK
<1>2. ASSUME NEW e \in Executions, NEW k \in Keys \cup {EmptyKey, NoKey}, NEW b \in Bodies, RefuseEarly(e, k, b)
      PROVE  TypeOK'
  <2>1. Rejection(0) \in Response /\ pc' \in [Executions -> Step]
    BY <1>2 DEF Rejection, Response, Amount, RefuseEarly, Goto, TypeOK, Step
  <2>. QED  BY <1>1, <1>2, <2>1 DEF RefuseEarly, Reply, ledgerVars, TypeOK
<1>3. ASSUME NEW e \in Executions, NEW k \in Keys \cup {EmptyKey, NoKey}, NEW b \in Bodies, OpenRequest(e, k, b)
      PROVE  TypeOK'
  <2>1. /\ row' \in [Executions -> {"none", "running", "accepted", "rejected"}]
        /\ pc' \in [Executions -> Step] /\ attempt' \in [Executions -> Nat]
    <3>1. CASE Goto(e, "failed") /\ UNCHANGED <<row, attempt>>
      BY <3>1 DEF Goto, TypeOK, Step
    <3>2. CASE row' = [row EXCEPT ![e] = "running"] /\ StartAttempts(e, b)
      BY <3>2, AttemptsStarted DEF TypeOK, Step
    <3>. QED  BY <1>3, <3>1, <3>2 DEF OpenRequest
  <2>. QED  BY <1>1, <1>3, <2>1 DEF OpenRequest, ledgerVars, TypeOK
<1>4. ASSUME NEW e \in Executions, NEW k \in Keys \cup {EmptyKey, NoKey}, NEW b \in Bodies, ReuseKey(e, k, b)
      PROVE  TypeOK'
  <2>1. /\ joined' \in [Executions -> BOOLEAN]
        /\ pc' \in [Executions -> Step] /\ attempt' \in [Executions -> Nat]
    <3>1. CASE (Goto(e, "conflict") \/ Goto(e, "answered")) /\ UNCHANGED <<joined, attempt>>
      BY <3>1 DEF Goto, TypeOK, Step
    <3>2. CASE joined' = [joined EXCEPT ![e] = TRUE] /\ StartAttempts(e, b)
      BY <3>2, AttemptsStarted DEF TypeOK, Step
    <3>. QED  BY <1>4, <3>1, <3>2 DEF ReuseKey
  <2>2. \A r \in Executions : Finished(r) => [status |-> row[r], cost |-> cost[r]] \in Response
    BY DEF Finished, Response, TypeOK
  <2>3. answer' \in [Executions -> Response \cup {None}]
    BY <1>4, <2>2 DEF ReuseKey, KeyRows, Reply, TypeOK
  <2>. QED  BY <1>1, <1>4, <2>1, <2>3 DEF ReuseKey, ledgerVars, TypeOK
<1>5. ASSUME NEW e \in Executions, StopAttempts(e) \/ ReserveForNoRequest(e) \/ LockTimesOut(e) \/ CallRaises(e) \/ Crash(e)
      PROVE  TypeOK'
  <2>1. pc' \in [Executions -> Step]
    BY <1>5 DEF StopAttempts, ReserveForNoRequest, LockTimesOut, CallRaises, Crash, Goto, TypeOK, Step
  <2>2. elapsed' \in [Executions -> Nat]
    <3>1. CASE WaitForLock(e) \/ elapsed' = elapsed
      BY <3>1, WaitTyped DEF TypeOK
    <3>2. CASE LockTimesOut(e)
      <4>1. LockWait \in Nat
        BY NumbersAssumption
      <4>. QED  BY <3>2, <4>1 DEF LockTimesOut, TypeOK
    <3>. QED  BY <1>5, <3>1, <3>2 DEF StopAttempts, ReserveForNoRequest, CallRaises, Crash
  <2>. QED  BY <1>5, <2>1, <2>2 DEF StopAttempts, ReserveForNoRequest, LockTimesOut, CallRaises, Crash, rowVars, ledgerVars, TypeOK
<1>6. ASSUME NEW e \in Executions, StartGeneration(e) PROVE TypeOK'
  <2>1. Estimate(e) \in Nat
    BY <1>6, AttemptEstimated, EstimatesAreNumbers DEF StartGeneration, RowsInStep
  <2>2. TimeLeft(e) \in Nat
    BY <1>6, NumbersAssumption DEF StartGeneration, TimeLeft, TypeOK
  <2>3. /\ pc' \in [Executions -> Step] /\ remaining' \in [Executions -> Nat]
        /\ callTime' \in [Executions -> Nat]
    BY <1>6, <2>2 DEF StartGeneration, BeginCall, Goto, TypeOK, Step
  <2>. QED  BY <1>6, <2>1, <2>3, ReserveTyped, WaitTyped DEF StartGeneration, rowVars, TypeOK
<1>7. ASSUME NEW e \in Executions, NEW good \in BOOLEAN, NEW c \in Costs \cup {None}, GenerationReturns(e, good, c)
      PROVE  TypeOK'
  <2>1. /\ pc' \in [Executions -> Step] /\ attempt' \in [Executions -> Nat]
        /\ todo' \in [Executions -> 0..VerifyCalls] /\ ok' \in [Executions -> BOOLEAN]
    BY <1>7 DEF GenerationReturns, NextAttempt, Goto, TypeOK, Step
  <2>. QED  BY <1>7, <2>1, RecordTyped, CountTyped, WaitTyped DEF GenerationReturns, rowVars, TypeOK
<1>8. ASSUME NEW e \in Executions, NEW good \in BOOLEAN, todo[e] > 0, CheckDone(e, good)
      PROVE  todo' \in [Executions -> 0..VerifyCalls] /\ ok' \in [Executions -> BOOLEAN]
  <2>0. VerifyCalls \in Nat /\ todo[e] \in 0..VerifyCalls
    BY NumbersAssumption DEF TypeOK
  <2>1. todo[e] - 1 \in 0..VerifyCalls
    BY <1>8, <2>0
  <2>2. (ok[e] /\ good) \in BOOLEAN
    BY DEF TypeOK
  <2>. QED  BY <1>8, <2>1, <2>2 DEF CheckDone, TypeOK
<1>9. ASSUME NEW e \in Executions, DecisionNotAfforded(e) PROVE TypeOK'
  BY <1>8, <1>9, WaitTyped DEF DecisionNotAfforded, rowVars, ledgerVars, TypeOK
<1>10. ASSUME NEW e \in Executions, StartDecision(e) PROVE TypeOK'
  <2>1. pc' \in [Executions -> Step] /\ callTime' \in [Executions -> Nat]
    BY <1>10 DEF StartDecision, BeginCall, Goto, TypeOK, Step
  <2>. QED  BY <1>10, <2>1, ReserveTyped, WaitTyped, NumbersAssumption DEF StartDecision, rowVars, TypeOK
<1>11. ASSUME NEW e \in Executions, NEW good \in BOOLEAN, NEW c \in Costs \cup {None}, DecisionReturns(e, good, c)
       PROVE  TypeOK'
  <2>1. pc' \in [Executions -> Step]
    BY <1>11 DEF DecisionReturns, Goto, TypeOK, Step
  <2>2. todo[e] > 0
    BY <1>11 DEF DecisionReturns, RowsInStep
  <2>. QED  BY <1>8, <1>11, <2>1, <2>2, RecordTyped, CountTyped, WaitTyped DEF DecisionReturns, rowVars, TypeOK
<1>12. ASSUME NEW e \in Executions, NotPassed(e) PROVE TypeOK'
  <2>1. pc' \in [Executions -> Step] /\ attempt' \in [Executions -> Nat]
    BY <1>12 DEF NotPassed, NextAttempt, Goto, TypeOK, Step
  <2>. QED  BY <1>12, <2>1 DEF NotPassed, rowVars, ledgerVars, TypeOK
<1>13. ASSUME NEW e \in Executions, Accept(e) \/ Reject(e) PROVE TypeOK'
  BY <1>13, FinishTyped DEF Accept, Reject
<1>14. ASSUME NEW e \in Executions, Elapse(e) \/ Stalled(e) PROVE TypeOK'
  <2>1. elapsed' \in [Executions -> Nat] /\ callTime' \in [Executions -> Nat]
    BY <1>14, NumbersAssumption DEF Elapse, Stalled, TypeOK
  <2>2. stalls' \in [Executions -> Nat]
    BY <1>14 DEF Elapse, Stalled, TypeOK
  <2>. QED  BY <1>14, <2>1, <2>2 DEF Elapse, Stalled, rowVars, ledgerVars, TypeOK
<1>15. ASSUME NEW e \in Executions, NEW k \in Keys \cup {EmptyKey, NoKey}, NEW b \in Bodies, NotOpened(e, k, b)
       PROVE  TypeOK'
  <2>1. pc' \in [Executions -> Step]
    BY <1>15 DEF NotOpened, Goto, TypeOK, Step
  <2>. QED  BY <1>1, <1>15, <2>1 DEF NotOpened, ledgerVars, TypeOK
<1>16. CASE UNCHANGED vars
  BY <1>16 DEF vars, rowVars, ledgerVars, runVars, TypeOK
<1>. QED
  BY <1>2, <1>3, <1>4, <1>5, <1>6, <1>7, <1>9, <1>10, <1>11, <1>12, <1>13, <1>14, <1>15, <1>16
  DEF Next, Receive, Advance

-----------------------------------------------------------------------------
(* The ledger.  To it every step of an execution is one of three: it opens *)
(* a reservation that fits the budget, it records a call, or it leaves the *)
(* ledger alone, and then a call in flight stays so or breaks off.         *)

OpenStep(e) ==
  /\ pc[e] \notin InCall
  /\ \E a \in Estimates : Fits(e, a) /\ Reserve(e, a)
  /\ \E s \in InCall : pc' = [pc EXCEPT ![e] = s]
  /\ pc[e] \notin {"failed", "crashed"}
  /\ UNCHANGED total

RecordStep(e) ==
  /\ pc[e] \in InCall
  /\ \E c \in Costs \cup {None} : RecordCall(e, c) /\ CountCost(e, c)
  /\ \E s \in {"reserving", "verifying"} : pc' = [pc EXCEPT ![e] = s]

QuietStep(e) ==
  /\ UNCHANGED <<used, open, spent, nullCost, total>>
  /\ \E s \in Step :
       /\ pc' = [pc EXCEPT ![e] = s]
       /\ s \in InCall => s = pc[e]
       /\ pc[e] \in InCall => s \in {pc[e], "failed", "crashed"}
       /\ pc[e] \notin {"failed", "crashed"}

\* Every step is one of the few kinds that matter to the ledger.
LEMMA StepKinds ==
  ASSUME TypeOK, LedgerInStep, RowsInStep, [Next]_vars
  PROVE  \/ \E e \in Executions : OpenStep(e) \/ RecordStep(e) \/ QuietStep(e)
         \/ UNCHANGED <<used, open, spent, nullCost, total, pc>>
<1>1. ASSUME NEW e \in Executions, NEW k \in Keys \cup {EmptyKey, NoKey}, NEW b \in Bodies,
             RefuseEarly(e, k, b) \/ NotOpened(e, k, b)
      PROVE  QuietStep(e)
  BY <1>1 DEF RefuseEarly, NotOpened, Arrive, Goto, ledgerVars, QuietStep, Step
<1>2. ASSUME NEW e \in Executions, NEW k \in Keys \cup {EmptyKey, NoKey}, NEW b \in Bodies, OpenRequest(e, k, b)
      PROVE  QuietStep(e)
  <2>1. CASE Goto(e, "failed")
    BY <1>2, <2>1 DEF OpenRequest, Arrive, Goto, ledgerVars, QuietStep, Step
  <2>2. CASE StartAttempts(e, b)
    BY <1>2, <2>2, AttemptsStarted DEF OpenRequest, Arrive, ledgerVars, QuietStep, Step
  <2>. QED  BY <1>2, <2>1, <2>2 DEF OpenRequest
<1>3. ASSUME NEW e \in Executions, NEW k \in Keys \cup {EmptyKey, NoKey}, NEW b \in Bodies, ReuseKey(e, k, b)
      PROVE  QuietStep(e)
  <2>1. CASE Goto(e, "conflict") \/ Goto(e, "answered")
    BY <1>3, <2>1 DEF ReuseKey, Arrive, Goto, ledgerVars, QuietStep, Step
  <2>2. CASE StartAttempts(e, b)
    BY <1>3, <2>2, AttemptsStarted DEF ReuseKey, Arrive, ledgerVars, QuietStep, Step
  <2>. QED  BY <1>3, <2>1, <2>2 DEF ReuseKey
<1>4. ASSUME NEW e \in Executions, StopAttempts(e) \/ ReserveForNoRequest(e) \/ LockTimesOut(e) \/ CallRaises(e) \/ Crash(e)
      PROVE  QuietStep(e)
  BY <1>4 DEF StopAttempts, ReserveForNoRequest, LockTimesOut, TransactionDue, CallRaises, Crash, Goto, ledgerVars, QuietStep, Step
<1>5. ASSUME NEW e \in Executions, StartGeneration(e) PROVE OpenStep(e)
  <2>1. Estimate(e) \in Estimates
    BY <1>5, AttemptEstimated DEF StartGeneration, RowsInStep
  <2>. QED  BY <1>5, <2>1 DEF StartGeneration, Goto, OpenStep
<1>6. ASSUME NEW e \in Executions, NEW good \in BOOLEAN, NEW c \in Costs \cup {None}, GenerationReturns(e, good, c)
      PROVE  RecordStep(e)
  BY <1>6 DEF GenerationReturns, NextAttempt, Goto, RecordStep
<1>7. ASSUME NEW e \in Executions, DecisionNotAfforded(e) PROVE UNCHANGED <<used, open, spent, nullCost, total, pc>>
  BY <1>7 DEF DecisionNotAfforded, ledgerVars
<1>8. ASSUME NEW e \in Executions, StartDecision(e) PROVE OpenStep(e)
  BY <1>8, DecisionEstimated DEF StartDecision, Goto, OpenStep
<1>9. ASSUME NEW e \in Executions, NEW good \in BOOLEAN, NEW c \in Costs \cup {None}, DecisionReturns(e, good, c)
      PROVE  RecordStep(e)
  BY <1>9 DEF DecisionReturns, Goto, RecordStep
<1>10. ASSUME NEW e \in Executions, NotPassed(e) PROVE QuietStep(e)
  BY <1>10 DEF NotPassed, NextAttempt, Goto, ledgerVars, QuietStep, Step
<1>11. ASSUME NEW e \in Executions, Accept(e) \/ Reject(e) PROVE QuietStep(e)
  BY <1>11 DEF Accept, Reject, Finish, Goto, ledgerVars, QuietStep, Step
<1>12. ASSUME NEW e \in Executions, Elapse(e) \/ Stalled(e)
       PROVE  UNCHANGED <<used, open, spent, nullCost, total, pc>>
  BY <1>12 DEF Elapse, Stalled, ledgerVars
<1>13. CASE UNCHANGED vars
  BY <1>13 DEF vars, ledgerVars, runVars
<1>. QED
  BY <1>1, <1>2, <1>3, <1>4, <1>5, <1>6, <1>7, <1>8, <1>9, <1>10, <1>11, <1>12, <1>13
  DEF Next, Receive, Advance

\* Each of these kinds keeps ledger and coroutine in step.
LEMMA StepLedger ==
  ASSUME TypeOK, LedgerInStep, RowsInStep, [Next]_vars
  PROVE  LedgerInStep'
<1>1. ASSUME NEW e \in Executions, OpenStep(e) PROVE LedgerInStep'
  <2>1. PICK a \in Estimates : Fits(e, a) /\ Reserve(e, a)
    BY <1>1 DEF OpenStep
  <2>2. a \in Nat /\ a # None /\ open[e] = None
    BY <1>1, EstimatesAreNumbers, NumbersAssumption DEF OpenStep, LedgerInStep
  <2>3. ASSUME NEW f \in Executions, f # e
        PROVE  /\ used'[f] = used[f] /\ open'[f] = open[f] /\ spent'[f] = spent[f]
               /\ nullCost'[f] = nullCost[f] /\ total'[f] = total[f] /\ pc'[f] = pc[f]
    BY <1>1, <2>1, <2>3 DEF OpenStep, Reserve, TypeOK
  <2>4. /\ used'[e] = used[e] + a /\ open'[e] = a /\ spent'[e] = spent[e]
        /\ nullCost'[e] = nullCost[e] /\ total'[e] = total[e] /\ pc'[e] \in InCall
    BY <1>1, <2>1 DEF OpenStep, Reserve, TypeOK
  <2>5. used[e] \in Nat /\ spent[e] \in Nat /\ used[e] + a <= Budget
    BY <2>1 DEF Fits, TypeOK
  <2>. QED  BY <2>2, <2>3, <2>4, <2>5 DEF LedgerInStep
<1>2. ASSUME NEW e \in Executions, RecordStep(e) PROVE LedgerInStep'
  <2>1. PICK c \in Costs \cup {None} : RecordCall(e, c) /\ CountCost(e, c)
    BY <1>2 DEF RecordStep
  <2>2. open[e] \in Nat /\ open[e] # None
    BY <1>2, EstimatesAreNumbers, NumbersAssumption DEF RecordStep, LedgerInStep
  <2>3. ASSUME NEW f \in Executions, f # e
        PROVE  /\ used'[f] = used[f] /\ open'[f] = open[f] /\ spent'[f] = spent[f]
               /\ nullCost'[f] = nullCost[f] /\ total'[f] = total[f] /\ pc'[f] = pc[f]
    BY <1>2, <2>1, <2>3 DEF RecordStep, RecordCall, CountCost, TypeOK
  <2>4. /\ used'[e] = used[e] - open[e] + Charge(open[e], c) /\ open'[e] = None
        /\ spent'[e] = spent[e] + Charge(0, c) /\ nullCost'[e] = (nullCost[e] \/ c = None)
        /\ total'[e] = AddCost(total[e], c) /\ pc'[e] \notin InCall
    BY <1>2, <2>1 DEF RecordStep, RecordCall, CountCost, TypeOK
  <2>5. /\ used[e] \in Nat /\ spent[e] \in Nat /\ total[e] \in Nat \cup {None} /\ nullCost[e] \in BOOLEAN
        /\ c # None => c \in Nat
        /\ None \notin Nat
    BY NumbersAssumption DEF TypeOK, Amount
  <2>6. total'[e] = None <=> nullCost'[e]
    <3>1. total'[e] = None <=> (total[e] = None \/ c = None)
      BY <2>4, <2>5 DEF AddCost
    <3>2. nullCost'[e] <=> (nullCost[e] \/ c = None)
      BY <2>4, Zenon
    <3>3. total[e] = None <=> nullCost[e]
      BY DEF LedgerInStep
    <3>. QED  BY <3>1, <3>2, <3>3
  <2>7. total'[e] # None => total'[e] = spent'[e] /\ used'[e] = spent'[e]
    BY <2>2, <2>4, <2>5 DEF AddCost, Charge, LedgerInStep
  <2>. QED  BY <2>3, <2>4, <2>6, <2>7 DEF LedgerInStep
<1>3. ASSUME NEW e \in Executions, QuietStep(e) PROVE LedgerInStep'
  <2>1. ASSUME NEW f \in Executions, f # e PROVE pc'[f] = pc[f]
    BY <1>3, <2>1 DEF QuietStep, TypeOK
  <2>2. /\ pc'[e] \in InCall => pc'[e] = pc[e]
        /\ pc[e] \in InCall => pc'[e] \in InCall \cup {"failed", "crashed"}
        /\ pc[e] \notin {"failed", "crashed"}
    BY <1>3 DEF QuietStep, TypeOK
  <2>3. UNCHANGED <<used, open, spent, nullCost, total>>
    BY <1>3 DEF QuietStep
  <2>. QED  BY <2>1, <2>2, <2>3 DEF LedgerInStep
<1>4. CASE UNCHANGED <<used, open, spent, nullCost, total, pc>>
  BY <1>4 DEF LedgerInStep
<1>. QED  BY <1>1, <1>2, <1>3, <1>4, StepKinds

\* Each of them keeps the budget.
LEMMA StepBudget ==
  ASSUME TypeOK, LedgerInStep, RowsInStep, BudgetHeld, [Next]_vars
  PROVE  BudgetHeld'
<1>1. ASSUME NEW e \in Executions, OpenStep(e) PROVE BudgetHeld'
  <2>1. PICK a \in Estimates : Fits(e, a) /\ Reserve(e, a)
    BY <1>1 DEF OpenStep
  <2>2. used'[e] <= Budget /\ \A f \in Executions \ {e} : used'[f] = used[f]
    BY <2>1 DEF Fits, Reserve, TypeOK
  <2>. QED  BY <2>2 DEF BudgetHeld
<1>2. ASSUME NEW e \in Executions, RecordStep(e) PROVE BudgetHeld'
  <2>1. PICK c \in Costs \cup {None} : RecordCall(e, c)
    BY <1>2 DEF RecordStep
  <2>2. /\ used'[e] = used[e] - open[e] + Charge(open[e], c)
        /\ \A f \in Executions \ {e} : used'[f] = used[f]
    BY <2>1 DEF RecordCall, TypeOK
  <2>3. open[e] \in Estimates /\ open[e] \in Nat /\ used[e] \in Nat /\ used[e] <= Budget /\ Budget \in Nat
    BY <1>2, EstimatesAreNumbers, NumbersAssumption DEF RecordStep, LedgerInStep, TypeOK
  <2>4. CASE c = None
    <3>1. used'[e] <= Budget
      BY <2>2, <2>3, <2>4 DEF Charge
    <3>. QED  BY <2>2, <3>1 DEF BudgetHeld
  <2>5. CASE c # None
    <3>1. c \in Costs /\ c \in Nat /\ used'[e] <= Budget - open[e] + c
      BY <2>2, <2>3, <2>5, NumbersAssumption DEF Charge
    <3>. QED  BY <2>2, <2>3, <3>1 DEF BudgetHeld
  <2>. QED  BY <2>4, <2>5
<1>3. CASE UNCHANGED used
  BY <1>3 DEF BudgetHeld
<1>. QED  BY <1>1, <1>2, <1>3, StepKinds DEF QuietStep

-----------------------------------------------------------------------------
(* Rows.  An execution touches its own variables only, whatever it does.   *)

Untouched(f) ==
  /\ row'[f] = row[f] /\ key'[f] = key[f] /\ body'[f] = body[f] /\ cost'[f] = cost[f]
  /\ used'[f] = used[f] /\ open'[f] = open[f] /\ nullCost'[f] = nullCost[f]
  /\ pc'[f] = pc[f] /\ joined'[f] = joined[f] /\ attempt'[f] = attempt[f]
  /\ total'[f] = total[f] /\ todo'[f] = todo[f] /\ answer'[f] = answer[f]

\* RowsInStep, for one execution.
RowInStep(e) ==
  /\ pc[e] = "new" => row[e] = "none" /\ ~joined[e] /\ answer[e] = None /\ total[e] = 0
  /\ pc[e] # "new" => body[e] \in Bodies
  /\ pc[e] \in {"reserving", "rejecting"} => attempt[e] >= 1 /\ (row[e] = "running" \/ joined[e])
  /\ pc[e] \in InCall \cup {"verifying"} => attempt[e] >= 1 /\ row[e] = "running"
  /\ row[e] = "none" => used[e] = 0 /\ ~nullCost[e] /\ open[e] = None
  /\ pc[e] = "deciding" => todo[e] > 0
  /\ joined[e] => row[e] = "none"
  /\ Finished(e) =>
       pc[e] = "answered" /\ open[e] = None /\ answer[e] # None /\ cost[e] = total[e] /\ answer[e].cost = cost[e]

\* RowsInStep, one execution at a time ...
LEMMA RowByRow == RowsInStep <=> \A e \in Executions : RowInStep(e)
BY DEF RowsInStep, RowInStep
\* ... also after a step.
LEMMA NextRowByRow == RowsInStep' <=> \A e \in Executions : RowInStep(e)'
BY DEF RowsInStep, RowInStep

\* An execution of which nothing changes stays in step.
LEMMA UntouchedRow ==
  ASSUME NEW f \in Executions, RowInStep(f), Untouched(f)
  PROVE  RowInStep(f)'
BY DEF RowInStep, Untouched, Finished

\* A step of one execution changes nothing of another one.
LEMMA OthersUntouched ==
  ASSUME TypeOK, NEW e \in Executions,
         Receive(e) \/ Advance(e) \/ Elapse(e) \/ Stalled(e) \/ LockTimesOut(e) \/ CallRaises(e) \/ Crash(e),
         NEW f \in Executions, f # e
  PROVE  Untouched(f)
<1>1. ASSUME NEW k, NEW b, Arrive(e, k, b) PROVE key'[f] = key[f] /\ body'[f] = body[f]
  BY <1>1 DEF Arrive, TypeOK
<1>2. ASSUME NEW b \in Bodies, StartAttempts(e, b) PROVE pc'[f] = pc[f] /\ attempt'[f] = attempt[f]
  BY <1>2, AttemptsStarted DEF TypeOK
<1>3. ASSUME NEW k, NEW b \in Bodies, RefuseEarly(e, k, b) \/ NotOpened(e, k, b) PROVE Untouched(f)
  BY <1>1, <1>3 DEF RefuseEarly, NotOpened, Reply, Goto, ledgerVars, TypeOK, Untouched
<1>4. ASSUME NEW k, NEW b \in Bodies, OpenRequest(e, k, b) PROVE Untouched(f)
  <2>1. pc'[f] = pc[f] /\ attempt'[f] = attempt[f] /\ row'[f] = row[f]
    BY <1>2, <1>4 DEF OpenRequest, Goto, TypeOK
  <2>. QED  BY <1>1, <1>4, <2>1 DEF OpenRequest, ledgerVars, Untouched
<1>5. ASSUME NEW k, NEW b \in Bodies, ReuseKey(e, k, b) PROVE Untouched(f)
  <2>1. pc'[f] = pc[f] /\ attempt'[f] = attempt[f] /\ joined'[f] = joined[f] /\ answer'[f] = answer[f]
    BY <1>2, <1>5 DEF ReuseKey, Goto, Reply, TypeOK
  <2>. QED  BY <1>1, <1>5, <2>1 DEF ReuseKey, ledgerVars, Untouched
<1>6. ASSUME NEW c, RecordCall(e, c), CountCost(e, c)
      PROVE  used'[f] = used[f] /\ open'[f] = open[f] /\ nullCost'[f] = nullCost[f] /\ total'[f] = total[f]
  BY <1>6 DEF RecordCall, CountCost, TypeOK
<1>7. ASSUME NEW a, Reserve(e, a)
      PROVE  used'[f] = used[f] /\ open'[f] = open[f] /\ nullCost'[f] = nullCost[f]
  BY <1>7 DEF Reserve, TypeOK
<1>8. ASSUME StopAttempts(e) \/ ReserveForNoRequest(e) \/ LockTimesOut(e) \/ CallRaises(e) \/ Crash(e) \/ Elapse(e) \/ Stalled(e)
      PROVE  Untouched(f)
  BY <1>8 DEF StopAttempts, ReserveForNoRequest, LockTimesOut, CallRaises, Crash, Elapse, Stalled, Goto, rowVars, ledgerVars,
              TypeOK, Untouched
<1>9. ASSUME StartGeneration(e) \/ StartDecision(e) PROVE Untouched(f)
  BY <1>7, <1>9 DEF StartGeneration, StartDecision, Goto, rowVars, TypeOK, Untouched
<1>10. ASSUME NEW good, NEW c, GenerationReturns(e, good, c) PROVE Untouched(f)
  <2>1. pc'[f] = pc[f] /\ attempt'[f] = attempt[f] /\ todo'[f] = todo[f]
    BY <1>10 DEF GenerationReturns, NextAttempt, Goto, TypeOK
  <2>. QED  BY <1>6, <1>10, <2>1 DEF GenerationReturns, rowVars, Untouched
<1>11. ASSUME NEW good, NEW c, DecisionReturns(e, good, c) PROVE Untouched(f)
  <2>1. pc'[f] = pc[f] /\ todo'[f] = todo[f]
    BY <1>11 DEF DecisionReturns, CheckDone, Goto, TypeOK
  <2>. QED  BY <1>6, <1>11, <2>1 DEF DecisionReturns, rowVars, Untouched
<1>12. ASSUME DecisionNotAfforded(e) \/ NotPassed(e) PROVE Untouched(f)
  BY <1>12 DEF DecisionNotAfforded, NotPassed, NextAttempt, CheckDone, Goto, rowVars, ledgerVars, TypeOK, Untouched
<1>13. ASSUME Accept(e) \/ Reject(e) PROVE Untouched(f)
  <2>1. PICK s, a : Finish(e, s, a)
    BY <1>13 DEF Accept, Reject
  <2>2. row'[f] = row[f] /\ cost'[f] = cost[f]
    BY <2>1 DEF Finish, TypeOK
  <2>. QED  BY <2>1, <2>2 DEF Finish, Reply, Goto, ledgerVars, TypeOK, Untouched
<1>. QED
  BY <1>3, <1>4, <1>5, <1>8, <1>9, <1>10, <1>11, <1>12, <1>13 DEF Receive, Advance

\* The execution that moves stays in step.
LEMMA ActorsRow ==
  ASSUME TypeOK, LedgerInStep, NEW e \in Executions, RowInStep(e),
         Receive(e) \/ Advance(e) \/ Elapse(e) \/ Stalled(e) \/ LockTimesOut(e) \/ CallRaises(e) \/ Crash(e)
  PROVE  RowInStep(e)'
<1>1. ASSUME NEW k, NEW b \in Bodies, Arrive(e, k, b)
      PROVE  /\ pc[e] = "new" /\ body'[e] = b /\ row[e] = "none" /\ ~joined[e]
             /\ used[e] = 0 /\ ~nullCost[e] /\ open[e] = None
  BY <1>1 DEF Arrive, TypeOK, RowInStep
<1>2. ASSUME NEW b \in Bodies, StartAttempts(e, b)
      PROVE  attempt'[e] = 1 /\ pc'[e] \in {"reserving", "rejecting"}
  BY <1>2, AttemptsStarted DEF TypeOK
<1>3. ASSUME NEW k, NEW b \in Bodies, RefuseEarly(e, k, b) PROVE RowInStep(e)'
  <2>1. pc'[e] = "answered" /\ row'[e] = "none" /\ ~joined'[e]
    BY <1>1, <1>3 DEF RefuseEarly, Goto, TypeOK
  <2>. QED  BY <1>1, <1>3, <2>1 DEF RefuseEarly, ledgerVars, RowInStep, Finished
<1>4. ASSUME NEW k, NEW b \in Bodies, OpenRequest(e, k, b) PROVE RowInStep(e)'
  <2>1. \/ pc'[e] = "failed" /\ row'[e] = "none"
        \/ pc'[e] \in {"reserving", "rejecting"} /\ attempt'[e] = 1 /\ row'[e] = "running"
    BY <1>1, <1>2, <1>4 DEF OpenRequest, Goto, TypeOK
  <2>2. ~joined'[e]
    BY <1>1, <1>4 DEF OpenRequest
  <2>. QED  BY <1>1, <1>4, <2>1, <2>2 DEF OpenRequest, ledgerVars, RowInStep, Finished
<1>5. ASSUME NEW k, NEW b \in Bodies, ReuseKey(e, k, b) PROVE RowInStep(e)'
  <2>1. \/ pc'[e] \in {"conflict", "answered"}
        \/ pc'[e] \in {"reserving", "rejecting"} /\ attempt'[e] = 1 /\ joined'[e]
    BY <1>1, <1>2, <1>5 DEF ReuseKey, Goto, TypeOK
  <2>2. row'[e] = "none"
    BY <1>1, <1>5 DEF ReuseKey
  <2>. QED  BY <1>1, <1>5, <2>1, <2>2 DEF ReuseKey, ledgerVars, RowInStep, Finished
<1>12. ASSUME NEW k, NEW b \in Bodies, NotOpened(e, k, b) PROVE RowInStep(e)'
  <2>1. pc'[e] = "failed"
    BY <1>12 DEF NotOpened, Arrive, Goto, TypeOK
  <2>. QED  BY <1>1, <1>12, <2>1 DEF NotOpened, ledgerVars, RowInStep, Finished
<1>6. ASSUME StopAttempts(e) \/ ReserveForNoRequest(e) \/ LockTimesOut(e) \/ CallRaises(e) \/ Crash(e) PROVE RowInStep(e)'
  <2>1. /\ pc[e] \notin {"new", "answered"}
        /\ pc'[e] \in {"failed", "crashed"} \/ (pc[e] = "reserving" /\ pc'[e] = "rejecting")
    BY <1>6 DEF StopAttempts, ReserveForNoRequest, LockTimesOut, TransactionDue, CallRaises, Crash, Goto, TypeOK
  <2>2. UNCHANGED <<row, body, cost, used, open, nullCost, joined, attempt, total, todo, answer>>
    BY <1>6 DEF StopAttempts, ReserveForNoRequest, LockTimesOut, CallRaises, Crash, rowVars, ledgerVars
  <2>. QED  BY <2>1, <2>2 DEF RowInStep, Finished
<1>7. ASSUME StartGeneration(e) \/ StartDecision(e) PROVE RowInStep(e)'
  <2>1. /\ row[e] = "running" /\ attempt[e] >= 1 /\ body[e] \in Bodies
        /\ pc'[e] = "generating" \/ (pc'[e] = "deciding" /\ todo[e] > 0)
    BY <1>7 DEF StartGeneration, StartDecision, Goto, TypeOK, RowInStep
  <2>2. UNCHANGED <<row, body, joined, attempt, todo>>
    BY <1>7 DEF StartGeneration, StartDecision, rowVars
  <2>. QED  BY <2>1, <2>2 DEF RowInStep, Finished
<1>8. ASSUME NEW good, NEW c, GenerationReturns(e, good, c) \/ DecisionReturns(e, good, c) PROVE RowInStep(e)'
  <2>1. /\ row[e] = "running" /\ attempt[e] >= 1 /\ body[e] \in Bodies /\ attempt[e] \in Nat
        /\ pc'[e] \in {"verifying", "reserving"} /\ attempt'[e] >= 1
    BY <1>8 DEF GenerationReturns, DecisionReturns, NextAttempt, Goto, TypeOK, RowInStep
  <2>2. UNCHANGED <<row, body, joined>>
    BY <1>8 DEF GenerationReturns, DecisionReturns, rowVars
  <2>. QED  BY <2>1, <2>2 DEF RowInStep, Finished
<1>9. ASSUME DecisionNotAfforded(e) \/ NotPassed(e) PROVE RowInStep(e)'
  <2>1. /\ row[e] = "running" /\ attempt[e] >= 1 /\ body[e] \in Bodies /\ attempt[e] \in Nat
        /\ pc'[e] \in {"verifying", "reserving"} /\ attempt'[e] >= 1
    <3>1. CASE DecisionNotAfforded(e)
      BY <3>1 DEF DecisionNotAfforded, TypeOK, RowInStep
    <3>2. CASE NotPassed(e)
      BY <3>2 DEF NotPassed, NextAttempt, Goto, TypeOK, RowInStep
    <3>. QED  BY <1>9, <3>1, <3>2
  <2>2. UNCHANGED <<row, body, joined>>
    BY <1>9 DEF DecisionNotAfforded, NotPassed, rowVars
  <2>. QED  BY <2>1, <2>2 DEF RowInStep, Finished
<1>10. ASSUME Accept(e) \/ Reject(e) PROVE RowInStep(e)'
  <2>1. PICK s \in {"accepted", "rejected"}, a \in BOOLEAN : Finish(e, s, a)
    BY <1>10 DEF Accept, Reject
  <2>2. pc[e] \in {"verifying", "rejecting"} /\ open[e] = None /\ body[e] \in Bodies
    BY <1>10 DEF Accept, Reject, RowInStep, LedgerInStep
  <2>3. UNCHANGED <<body, used, open, nullCost, joined, total>> /\ pc'[e] = "answered"
    BY <2>1 DEF Finish, Goto, ledgerVars, TypeOK
  <2>4. answer'[e] = [status |-> s, cost |-> total[e]] /\ answer'[e] # None
    <3>1. answer'[e] = [status |-> s, cost |-> total[e]]
      BY <2>1 DEF Finish, Reply, TypeOK
    <3>2. answer'[e] \in [status : {"accepted", "rejected"}, cost : Nat \cup {None}]
      BY <3>1 DEF TypeOK, Amount
    <3>. QED  BY <3>1, <3>2, NoneAssumption
  <2>5. CASE joined[e]
    BY <2>1, <2>2, <2>3, <2>5 DEF Finish, RowInStep, Finished
  <2>6. CASE ~joined[e]
    <3>1. row'[e] = s /\ cost'[e] = total[e]
      BY <2>1, <2>6 DEF Finish, TypeOK
    <3>. QED  BY <2>2, <2>3, <2>4, <2>6, <3>1 DEF RowInStep, Finished
  <2>. QED  BY <2>5, <2>6
<1>11. ASSUME Elapse(e) \/ Stalled(e) PROVE RowInStep(e)'
  BY <1>11 DEF Elapse, Stalled, rowVars, ledgerVars, RowInStep, Finished
<1>. QED
  BY <1>3, <1>4, <1>5, <1>6, <1>7, <1>8, <1>9, <1>10, <1>11, <1>12 DEF Receive, Advance

\* So every step keeps all of them in step.
LEMMA StepRows ==
  ASSUME TypeOK, LedgerInStep, RowsInStep, [Next]_vars
  PROVE  RowsInStep'
<1>1. \A f \in Executions : RowInStep(f)
  BY RowByRow
<1>2. ASSUME NEW e \in Executions,
             Receive(e) \/ Advance(e) \/ Elapse(e) \/ Stalled(e) \/ LockTimesOut(e) \/ CallRaises(e) \/ Crash(e)
      PROVE  \A f \in Executions : RowInStep(f)'
  BY <1>1, <1>2, ActorsRow, OthersUntouched, UntouchedRow
<1>3. CASE UNCHANGED vars
  BY <1>3 DEF vars, rowVars, ledgerVars, runVars, RowsInStep, Finished
<1>. QED  BY <1>2, <1>3, NextRowByRow DEF Next

-----------------------------------------------------------------------------
(* Keys.  Only OpenRequest gives a key another row, and only the first.    *)

\* e keeps its row, and a row keeps its key.
RowKept(e) ==
  /\ row[e] = "none" <=> row'[e] = "none"
  /\ row[e] # "none" => key'[e] = key[e]

\* Nobody joins or leaves the rows of a key while rows and their keys are kept.
LEMMA KeyRowsKept ==
  ASSUME NEW k, \A f \in Executions : RowKept(f)
  PROVE  KeyRows(k)' = KeyRows(k)
BY DEF RowKept, KeyRows

\* A row is opened only for a key that has none.
LEMMA KeyRowsOpened ==
  ASSUME TypeOK, RowsInStep, SpendOncePerKey,
         NEW e \in Executions, NEW b \in Bodies, NEW k0 \in Keys \cup {EmptyKey, NoKey},
         OpenRequest(e, k0, b), NEW k \in Keys
  PROVE  Cardinality(KeyRows(k))' <= 1
<1>1. row[e] = "none" /\ key'[e] = k0
  BY DEF OpenRequest, Arrive, RowsInStep, TypeOK
<1>2. ASSUME NEW f \in Executions, f # e PROVE row'[f] = row[f] /\ key'[f] = key[f]
  BY <1>2, OthersUntouched DEF Receive, Untouched
<1>3. CASE k = k0
  <2>1. KeyRows(k)' \subseteq {e}
    BY <1>2, <1>3 DEF OpenRequest, KeyRows
  <2>2. KeyRows(k)' = {} \/ KeyRows(k)' = {e}
    BY <2>1
  <2>. QED  BY <2>2, FS_EmptySet, FS_Singleton
<1>4. CASE k # k0
  <2>1. KeyRows(k)' = KeyRows(k)
    BY <1>1, <1>2, <1>4 DEF KeyRows
  <2>. QED  BY <2>1 DEF SpendOncePerKey
<1>. QED  BY <1>3, <1>4

\* So no step gives a key a second row.
LEMMA StepKeys ==
  ASSUME TypeOK, LedgerInStep, RowsInStep, SpendOncePerKey, [Next]_vars
  PROVE  SpendOncePerKey'
<1>1. ASSUME NEW e \in Executions, open'[e] # None \/ used'[e] > 0 \/ nullCost'[e]
      PROVE  row'[e] # "none"
  BY <1>1, StepRows DEF RowsInStep
<1>2. ASSUME NEW e \in Executions, NEW k0 \in Keys \cup {EmptyKey, NoKey}, NEW b \in Bodies,
             RefuseEarly(e, k0, b) \/ ReuseKey(e, k0, b) \/ NotOpened(e, k0, b)
      PROVE  RowKept(e)
  BY <1>2 DEF RefuseEarly, ReuseKey, NotOpened, Arrive, RowsInStep, RowKept
<1>3. ASSUME NEW e \in Executions, Accept(e) \/ Reject(e) PROVE RowKept(e)
  <2>1. PICK s \in {"accepted", "rejected"}, a \in BOOLEAN : Finish(e, s, a)
    BY <1>3 DEF Accept, Reject
  <2>2. UNCHANGED key /\ (joined[e] => UNCHANGED row) /\ (~joined[e] => row'[e] = s)
    BY <2>1 DEF Finish, TypeOK
  <2>3. ~joined[e] => row[e] # "none"
    BY <1>3 DEF Accept, Reject, RowsInStep
  <2>. QED  BY <2>2, <2>3 DEF RowKept
<1>4. ASSUME NEW e \in Executions, Elapse(e) \/ Stalled(e) \/ LockTimesOut(e) \/ CallRaises(e) \/ Crash(e) PROVE RowKept(e)
  BY <1>4 DEF Elapse, Stalled, LockTimesOut, CallRaises, Crash, rowVars, RowKept
<1>5. ASSUME NEW e \in Executions, Advance(e), ~Accept(e), ~Reject(e) PROVE RowKept(e)
  BY <1>5 DEF Advance, StopAttempts, StartGeneration, ReserveForNoRequest, GenerationReturns,
              DecisionNotAfforded, StartDecision, DecisionReturns, NotPassed, rowVars, RowKept
<1>6. ASSUME NEW e \in Executions, RowKept(e),
             Receive(e) \/ Advance(e) \/ Elapse(e) \/ Stalled(e) \/ LockTimesOut(e) \/ CallRaises(e) \/ Crash(e),
             NEW k \in Keys
      PROVE  Cardinality(KeyRows(k))' <= 1
  <2>1. ASSUME NEW f \in Executions PROVE RowKept(f)
    BY <1>6, OthersUntouched DEF Untouched, RowKept
  <2>2. KeyRows(k)' = KeyRows(k)
    BY <2>1, KeyRowsKept
  <2>. QED  BY <2>2 DEF SpendOncePerKey
<1>7. ASSUME NEW e \in Executions, NEW k0 \in Keys \cup {EmptyKey, NoKey}, NEW b \in Bodies,
             OpenRequest(e, k0, b), NEW k \in Keys
      PROVE  Cardinality(KeyRows(k))' <= 1
  BY <1>7, KeyRowsOpened
<1>8. ASSUME UNCHANGED vars, NEW k \in Keys PROVE Cardinality(KeyRows(k))' <= 1
  <2>1. KeyRows(k)' = KeyRows(k)
    BY <1>8, KeyRowsKept DEF vars, rowVars, RowKept
  <2>. QED  BY <2>1 DEF SpendOncePerKey
<1>9. ASSUME NEW k \in Keys PROVE Cardinality(KeyRows(k))' <= 1
  BY <1>2, <1>3, <1>4, <1>5, <1>6, <1>7, <1>8 DEF Next, Receive
<1>. QED  BY <1>1, <1>9 DEF SpendOncePerKey

-----------------------------------------------------------------------------
(* The inductive invariant and what follows from it.                       *)

\* The inductive invariant holds at first ...
LEMMA InitInvariant == Init => IInv
<1>. SUFFICES ASSUME Init PROVE IInv
  OBVIOUS
<1>1. LedgerInStep
  BY NumbersAssumption DEF Init, LedgerInStep
<1>2. RowsInStep
  BY DEF Init, RowsInStep, Finished
<1>3. BudgetHeld
  BY NumbersAssumption DEF Init, BudgetHeld
<1>4. SpendOncePerKey
  <2>1. \A k : KeyRows(k) = {}
    BY DEF Init, KeyRows
  <2>. QED  BY <2>1, FS_EmptySet DEF Init, SpendOncePerKey
<1>. QED  BY <1>1, <1>2, <1>3, <1>4, InitTyped DEF IInv

\* ... and is kept by every step.
LEMMA StepInvariant == IInv /\ [Next]_vars => IInv'
BY StepTyped, StepLedger, StepRows, StepBudget, StepKeys DEF IInv

\* All its parts hold of every execution of the service, at any time.
THEOREM Invariance == Spec => []IInv
BY InitInvariant, StepInvariant, PTL DEF Spec

(* Every column and every local variable of execute keeps its type: in      *)
(* particular the sum that Store.reserve computes never becomes negative.   *)
THEOREM TypeCorrect == Spec => []TypeOK
<1>1. IInv => TypeOK
  BY DEF IInv
<1>. QED  BY <1>1, Invariance, PTL

(* A request never uses more than its budget by more than the excess of one *)
(* call over its estimate, for any estimates and any reported costs.        *)
THEOREM BudgetRespected == Spec => []BudgetHeld
<1>1. IInv => BudgetHeld
  BY DEF IInv
<1>. QED  BY <1>1, Invariance, PTL

(* The row of a finished request reports the exact sum of its calls' costs, *)
(* as does the response, and NULL exactly when one of them is unknown.      *)
THEOREM CostsAgree == Spec => []CostMatchesLedger
<1>1. IInv => CostMatchesLedger
  BY DEF IInv, LedgerInStep, RowsInStep, CostMatchesLedger
<1>. QED  BY <1>1, Invariance, PTL

(* However many executions come with one key, only one has a row, and only  *)
(* that one reserves or pays anything.                                      *)
THEOREM OneSpenderPerKey == Spec => []SpendOncePerKey
<1>1. IInv => SpendOncePerKey
  BY DEF IInv
<1>. QED  BY <1>1, Invariance, PTL

-----------------------------------------------------------------------------
(* What a client of RequestFlow can count on, for any executions, routes,  *)
(* deadlines and numbers of decision calls: an answer within a multiple of *)
(* the deadline, and the same answer whenever the same key and body come   *)
(* again.  RequestFlow implements KeyedRequests.                           *)

USE DEF InCall

-----------------------------------------------------------------------------
(* Time.  Every call of an attempt may take what was left of the deadline  *)
(* before the generation; c calls and n transactions of an attempt, and    *)
(* the stalls of the event loop so far, take at most Limit.                *)

Limit(e, c, n) == c * Deadline + (n + stalls[e]) * LockWait

\* The calls of an attempt so far, the one in flight included.
CallsMade(e) == IF pc[e] = "deciding" THEN 2 + VerifyCalls - todo[e] ELSE 1 + VerifyCalls - todo[e]

InTime(e) ==
  /\ elapsed[e] <= Limit(e, 1 + VerifyCalls, 2 * VerifyCalls + 3)
  /\ pc[e] \in {"new", "reserving", "rejecting"} => elapsed[e] <= Limit(e, 1 + VerifyCalls, 2 * VerifyCalls + 2)
  /\ pc[e] \in InCall \cup {"verifying"} => remaining[e] <= Deadline
  /\ pc[e] = "generating" =>
       /\ elapsed[e] <= Limit(e, 1, 1)
       /\ elapsed[e] + remaining[e] - callTime[e] <= Limit(e, 1, 1)
  /\ pc[e] = "deciding" =>
       /\ elapsed[e] <= Limit(e, CallsMade(e), 2 * CallsMade(e) - 1)
       /\ elapsed[e] + remaining[e] - callTime[e] <= Limit(e, CallsMade(e), 2 * CallsMade(e) - 1)
  /\ pc[e] = "verifying" => elapsed[e] <= Limit(e, CallsMade(e), 2 * CallsMade(e))

LEMMA Products ==
  ASSUME NEW m \in Nat, NEW n \in Nat, NEW d \in Nat, m <= n
  PROVE  m * d \in Nat /\ m * d <= n * d /\ (m + 1) * d = m * d + d
  <1>1. (n - m) * d \in Nat
    OBVIOUS
  <1>2. n * d = m * d + (n - m) * d
    OBVIOUS
  <1>. QED  BY <1>1, <1>2

\* A limit grows with calls and transactions: by a deadline for each call, by
\* a wait for the lock for each transaction.
LEMMA Limits ==
  ASSUME TypeOK, NEW e \in Executions, NEW c \in Nat, NEW n \in Nat
  PROVE  /\ Limit(e, c, n) \in Nat
         /\ Limit(e, c + 1, n) = Limit(e, c, n) + Deadline
         /\ Limit(e, c, n + 1) = Limit(e, c, n) + LockWait
         /\ \A d \in Nat, m \in Nat : c <= d /\ n <= m => Limit(e, c, n) <= Limit(e, d, m)
  <1>1. Deadline \in Nat /\ LockWait \in Nat /\ stalls[e] \in Nat /\ n + stalls[e] \in Nat
    BY NumbersAssumption DEF TypeOK
  <1>2. c * Deadline \in Nat /\ (c + 1) * Deadline = c * Deadline + Deadline
    BY <1>1, Products
  <1>3. /\ (n + stalls[e]) * LockWait \in Nat
        /\ ((n + stalls[e]) + 1) * LockWait = (n + stalls[e]) * LockWait + LockWait
    BY <1>1, Products
  <1>4. (n + 1) + stalls[e] = (n + stalls[e]) + 1
    BY <1>1
  <1>5. ASSUME NEW d \in Nat, NEW m \in Nat, c <= d, n <= m
        PROVE  Limit(e, c, n) <= Limit(e, d, m)
    <2>1. c * Deadline <= d * Deadline /\ d * Deadline \in Nat
      BY <1>1, <1>5, Products
    <2>2. m + stalls[e] \in Nat /\ n + stalls[e] <= m + stalls[e]
      BY <1>1, <1>5
    <2>3. (n + stalls[e]) * LockWait <= (m + stalls[e]) * LockWait /\ (m + stalls[e]) * LockWait \in Nat
      BY <1>1, <2>2, Products
    <2>. QED  BY <1>2, <1>3, <2>1, <2>3 DEF Limit
  <1>. QED  BY <1>1, <1>2, <1>3, <1>4, <1>5 DEF Limit

\* The limit of a step that leaves the stalls alone is the limit before it ...
LEMMA SameLimit ==
  ASSUME NEW e \in Executions, stalls'[e] = stalls[e], NEW c, NEW n
  PROVE  Limit(e, c, n)' = Limit(e, c, n)
  BY DEF Limit

\* ... and a stall moves it by one wait.
LEMMA StalledLimit ==
  ASSUME TypeOK, NEW e \in Executions, stalls'[e] = stalls[e] + 1, NEW c \in Nat, NEW n \in Nat
  PROVE  Limit(e, c, n)' = Limit(e, c, n) + LockWait
  <1>1. stalls[e] \in Nat /\ LockWait \in Nat
    BY NumbersAssumption DEF TypeOK
  <1>2. n + (stalls[e] + 1) = (n + stalls[e]) + 1 /\ n + stalls[e] \in Nat
    BY <1>1
  <1>3. ((n + stalls[e]) + 1) * LockWait = (n + stalls[e]) * LockWait + LockWait /\ (n + stalls[e]) * LockWait \in Nat
    BY <1>1, <1>2, Products
  <1>4. c * Deadline \in Nat
    BY NumbersAssumption, Products
  <1>. QED  BY <1>1, <1>2, <1>3, <1>4 DEF Limit

LEMMA NumbersTyped ==
  ASSUME TypeOK, NEW e \in Executions
  PROVE  {elapsed[e], callTime[e], remaining[e]} \subseteq Nat /\ todo[e] \in 0..VerifyCalls
  BY DEF TypeOK

\* InTime speaks of these alone.
LEMMA SameInTime ==
  ASSUME NEW e \in Executions, InTime(e), elapsed'[e] = elapsed[e], pc'[e] = pc[e], stalls'[e] = stalls[e],
         callTime'[e] = callTime[e], remaining'[e] = remaining[e], todo'[e] = todo[e]
  PROVE  InTime(e)'
  BY DEF InTime, Limit, CallsMade

\* At the end only the total counts.
LEMMA AtTheEnd ==
  ASSUME NEW e \in Executions, pc'[e] \in Ended, stalls'[e] = stalls[e],
         elapsed'[e] <= Limit(e, 1 + VerifyCalls, 2 * VerifyCalls + 3)
  PROVE  InTime(e)'
  BY SameLimit DEF InTime

\* Before an attempt, and before the rejection, there is a transaction less.
LEMMA BetweenAttempts ==
  ASSUME TypeOK, NEW e \in Executions, pc'[e] \in {"reserving", "rejecting"}, stalls'[e] = stalls[e],
         elapsed'[e] \in Nat, elapsed'[e] <= Limit(e, 1 + VerifyCalls, 2 * VerifyCalls + 2)
  PROVE  InTime(e)'
  <1>1. /\ Limit(e, 1 + VerifyCalls, 2 * VerifyCalls + 2) \in Nat /\ Limit(e, 1 + VerifyCalls, 2 * VerifyCalls + 3) \in Nat
        /\ Limit(e, 1 + VerifyCalls, 2 * VerifyCalls + 2) <= Limit(e, 1 + VerifyCalls, 2 * VerifyCalls + 3)
    <2>1. /\ 1 + VerifyCalls \in Nat /\ 2 * VerifyCalls + 2 \in Nat /\ 2 * VerifyCalls + 3 \in Nat
          /\ 2 * VerifyCalls + 2 <= 2 * VerifyCalls + 3
      BY NumbersAssumption
    <2>. QED  BY <2>1, Limits
  <1>2. elapsed'[e] <= Limit(e, 1 + VerifyCalls, 2 * VerifyCalls + 3)
    BY <1>1
  <1>. QED  BY <1>2, SameLimit DEF InTime

LEMMA ReceiveInTime ==
  ASSUME TypeOK, NEW e \in Executions, InTime(e), Receive(e)
  PROVE  InTime(e)'
  <1>1. ASSUME NEW b \in Bodies, StartAttempts(e, b)
        PROVE  pc'[e] \in {"rejecting", "reserving"}
    BY <1>1, AttemptsStarted DEF TypeOK
  <1>2. ASSUME NEW k \in Keys \cup {EmptyKey, NoKey}, NEW b \in Bodies,
               RefuseEarly(e, k, b) \/ OpenRequest(e, k, b) \/ ReuseKey(e, k, b) \/ NotOpened(e, k, b)
        PROVE  /\ pc[e] = "new" /\ elapsed' = elapsed /\ stalls' = stalls
               /\ pc'[e] \in Ended \cup {"rejecting", "reserving"}
    <2>1. pc[e] = "new" /\ elapsed' = elapsed /\ stalls' = stalls
      BY <1>2 DEF RefuseEarly, OpenRequest, ReuseKey, NotOpened, Arrive
    <2>2. CASE RefuseEarly(e, k, b) \/ NotOpened(e, k, b)
      BY <2>1, <2>2 DEF RefuseEarly, NotOpened, Goto, TypeOK
    <2>3. CASE OpenRequest(e, k, b)
      BY <1>1, <2>1, <2>3 DEF OpenRequest, Goto, TypeOK
    <2>4. CASE ReuseKey(e, k, b)
      BY <1>1, <2>1, <2>4 DEF ReuseKey, Goto, TypeOK
    <2>. QED  BY <1>2, <2>1, <2>2, <2>3, <2>4
  <1>3. /\ pc[e] = "new" /\ elapsed' = elapsed /\ stalls' = stalls
        /\ pc'[e] \in Ended \cup {"rejecting", "reserving"}
    BY <1>2 DEF Receive
  <1>4. elapsed[e] \in Nat
    BY NumbersTyped
  <1>. QED  BY <1>3, <1>4, AtTheEnd, BetweenAttempts DEF InTime

\* Each step of an execution takes no more than the limit allows for it.
LEMMA ActorsTime ==
  ASSUME TypeOK, TypeOK', RowsInStep, NEW e \in Executions, InTime(e),
         Advance(e) \/ Elapse(e) \/ Stalled(e) \/ LockTimesOut(e) \/ CallRaises(e) \/ Crash(e)
  PROVE  InTime(e)'
  <1>. USE DEF Goto
  <1>. DEFINE V == VerifyCalls
              Made(t) == 1 + V - t
  <1>a. /\ {elapsed[e], callTime[e], remaining[e], elapsed'[e]} \subseteq Nat /\ todo[e] \in 0..V
        /\ Deadline \in Nat /\ LockWait \in Nat /\ V \in Nat
    BY NumbersTyped, NumbersAssumption DEF TypeOK
  <1>b. /\ Limit(e, 1, 1) \in Nat /\ Limit(e, 1, 2) = Limit(e, 1, 1) + LockWait
        /\ Limit(e, 1, 2) <= Limit(e, 1 + V, 2 * V + 2) /\ Limit(e, 1, 1) <= Limit(e, 1 + V, 2 * V + 2)
        /\ Limit(e, 1 + V, 2 * V + 2) \in Nat
        /\ Limit(e, 1 + V, 2 * V + 3) = Limit(e, 1 + V, 2 * V + 2) + LockWait
        /\ Deadline + LockWait <= Limit(e, 1, 1)
    <2>1. 1 \in Nat /\ 2 \in Nat /\ 1 + 1 = 2 /\ 1 + V \in Nat /\ 2 * V + 2 \in Nat /\ (2 * V + 2) + 1 = 2 * V + 3
          /\ 1 <= 1 + V /\ 1 <= 2 * V + 2 /\ 2 <= 2 * V + 2
      BY <1>a
    <2>2. Limit(e, 1, 1) \in Nat /\ Limit(e, 1, 2) = Limit(e, 1, 1) + LockWait
      BY <2>1, Limits
    <2>3. Limit(e, 1, 2) <= Limit(e, 1 + V, 2 * V + 2) /\ Limit(e, 1, 1) <= Limit(e, 1 + V, 2 * V + 2)
      BY <2>1, Limits
    <2>4. /\ Limit(e, 1 + V, 2 * V + 2) \in Nat
          /\ Limit(e, 1 + V, 2 * V + 3) = Limit(e, 1 + V, 2 * V + 2) + LockWait
      BY <2>1, Limits
    <2>5. 0 \in Nat /\ 0 + 1 = 1
      OBVIOUS
    <2>6. Limit(e, 0, 0) \in Nat /\ Limit(e, 1, 0) = Limit(e, 0, 0) + Deadline /\ Limit(e, 1, 1) = Limit(e, 1, 0) + LockWait
      BY <2>1, <2>5, Limits
    <2>7. Deadline + LockWait <= Limit(e, 1, 1)
      BY <1>a, <2>6
    <2>. QED  BY <2>2, <2>3, <2>4, <2>7
  \* What the calls that are made and the transactions around them may take.
  <1>c. ASSUME NEW t \in 0..V
        PROVE  /\ Limit(e, Made(t), 2 * Made(t)) \in Nat
               /\ Limit(e, Made(t), 2 * Made(t)) <= Limit(e, 1 + V, 2 * V + 2)
               /\ Limit(e, 1, 2) <= Limit(e, Made(t), 2 * Made(t))
    <2>1. /\ Made(t) \in Nat /\ 2 * Made(t) \in Nat /\ 1 \in Nat /\ 2 \in Nat /\ 1 + V \in Nat /\ 2 * V + 2 \in Nat
          /\ 1 <= Made(t) /\ 2 <= 2 * Made(t) /\ Made(t) <= 1 + V /\ 2 * Made(t) <= 2 * V + 2
      BY <1>a
    <2>. QED  BY <2>1, Limits
  <1>d. ASSUME NEW t \in 1..V
        PROVE  /\ t \in 0..V /\ t - 1 \in 0..V
               /\ Limit(e, Made(t - 1), 2 * Made(t - 1) - 1) = Limit(e, Made(t), 2 * Made(t)) + Deadline + LockWait
               /\ Limit(e, Made(t - 1), 2 * Made(t - 1)) = Limit(e, Made(t), 2 * Made(t)) + Deadline + LockWait + LockWait
    <2>0. t \in 0..V /\ t - 1 \in 0..V
      BY <1>a
    <2>. DEFINE c == Made(t)
    <2>1. /\ c \in Nat /\ c + 1 \in Nat /\ 2 * c \in Nat /\ 2 * c + 1 \in Nat
          /\ Made(t - 1) = c + 1 /\ 2 * (c + 1) - 1 = 2 * c + 1 /\ 2 * (c + 1) = (2 * c + 1) + 1
      BY <1>a
    <2>. HIDE DEF c
    <2>2. Limit(e, c, 2 * c) \in Nat /\ Limit(e, c + 1, 2 * c) = Limit(e, c, 2 * c) + Deadline
      BY <2>1, Limits
    <2>3. Limit(e, c + 1, 2 * c + 1) = Limit(e, c + 1, 2 * c) + LockWait
      BY <2>1, Limits
    <2>4. Limit(e, c + 1, (2 * c + 1) + 1) = Limit(e, c + 1, 2 * c + 1) + LockWait
      BY <2>1, Limits
    <2>5. /\ Limit(e, c + 1, 2 * (c + 1) - 1) = Limit(e, c, 2 * c) + Deadline + LockWait
          /\ Limit(e, c + 1, 2 * (c + 1)) = Limit(e, c, 2 * c) + Deadline + LockWait + LockWait
      BY <2>1, <2>2, <2>3, <2>4
    <2>. QED  BY <2>0, <2>1, <2>5 DEF c
  <1>e. WaitForLock(e) => elapsed'[e] <= elapsed[e] + LockWait
    BY WaitTyped
  \* Where an execution stands in terms of these.
  <1>f. pc[e] = "verifying" => elapsed[e] <= Limit(e, Made(todo[e]), 2 * Made(todo[e])) /\ remaining[e] <= Deadline
    BY DEF InTime, CallsMade
  <1>g. pc[e] = "deciding" =>
          /\ todo[e] \in 1..V /\ remaining[e] <= Deadline
          /\ elapsed[e] <= Limit(e, Made(todo[e] - 1), 2 * Made(todo[e] - 1) - 1)
          /\ elapsed[e] + remaining[e] - callTime[e] <= Limit(e, Made(todo[e] - 1), 2 * Made(todo[e] - 1) - 1)
    <2>1. SUFFICES ASSUME pc[e] = "deciding"
                   PROVE  /\ todo[e] \in 1..V /\ remaining[e] <= Deadline
                          /\ elapsed[e] <= Limit(e, Made(todo[e] - 1), 2 * Made(todo[e] - 1) - 1)
                          /\ elapsed[e] + remaining[e] - callTime[e] <= Limit(e, Made(todo[e] - 1), 2 * Made(todo[e] - 1) - 1)
      OBVIOUS
    <2>2. todo[e] \in 1..V
      BY <1>a, <2>1 DEF RowsInStep
    <2>3. CallsMade(e) = Made(todo[e] - 1)
      BY <1>a, <2>1 DEF CallsMade
    <2>. QED  BY <2>1, <2>2, <2>3 DEF InTime
  <1>h. pc[e] \in InCall \cup {"verifying", "reserving", "rejecting"} =>
          elapsed[e] <= Limit(e, 1 + V, 2 * V + 2)
    <2>1. pc[e] = "generating" => elapsed[e] <= Limit(e, 1 + V, 2 * V + 2)
      BY <1>a, <1>b DEF InTime
    <2>2. pc[e] = "deciding" => elapsed[e] <= Limit(e, 1 + V, 2 * V + 2)
      <3>1. SUFFICES ASSUME pc[e] = "deciding" PROVE elapsed[e] <= Limit(e, 1 + V, 2 * V + 2)
        OBVIOUS
      <3>2. todo[e] \in 1..V
        BY <1>g, <3>1
      <3>3. /\ Limit(e, Made(todo[e]), 2 * Made(todo[e])) \in Nat
            /\ Limit(e, Made(todo[e] - 1), 2 * Made(todo[e] - 1)) <= Limit(e, 1 + V, 2 * V + 2)
        BY <3>2, <1>c, <1>d
      <3>4. elapsed[e] <= Limit(e, Made(todo[e]), 2 * Made(todo[e])) + Deadline + LockWait
        BY <3>1, <3>2, <1>d, <1>g
      <3>. QED  BY <1>a, <1>b, <3>2, <3>3, <3>4, <1>d
    <2>3. pc[e] = "verifying" => elapsed[e] <= Limit(e, 1 + V, 2 * V + 2)
      BY <1>a, <1>b, <1>c, <1>f
    <2>4. pc[e] \in {"reserving", "rejecting"} => elapsed[e] <= Limit(e, 1 + V, 2 * V + 2)
      BY DEF InTime
    <2>. QED  BY <2>1, <2>2, <2>3, <2>4
  <1>1. CASE ReserveForNoRequest(e) \/ Accept(e) \/ Reject(e) \/ LockTimesOut(e) \/ CallRaises(e)
    <2>1. /\ pc'[e] \in Ended /\ stalls' = stalls /\ elapsed'[e] <= elapsed[e] + LockWait
          /\ pc[e] \in InCall \cup {"verifying", "reserving", "rejecting"}
      BY <1>1, <1>a, <1>e DEF ReserveForNoRequest, Accept, Reject, Finish, LockTimesOut, TransactionDue, CallRaises, TypeOK
    <2>2. elapsed'[e] <= Limit(e, 1 + V, 2 * V + 3)
      BY <1>a, <1>b, <1>h, <2>1
    <2>. QED  BY <2>1, <2>2, AtTheEnd
  <1>2. CASE Crash(e)
    <2>1. pc'[e] \in Ended /\ stalls' = stalls /\ elapsed' = elapsed
      BY <1>2 DEF Crash, TypeOK
    <2>. QED  BY <2>1, AtTheEnd DEF InTime
  <1>3. CASE NotPassed(e)
    <2>1. pc'[e] = "reserving" /\ pc[e] = "verifying" /\ stalls' = stalls /\ elapsed' = elapsed
      BY <1>3 DEF NotPassed, NextAttempt, TypeOK
    <2>. QED  BY <1>a, <1>h, <2>1, BetweenAttempts
  <1>4. CASE StopAttempts(e)
    <2>1. pc'[e] = "rejecting" /\ pc[e] = "reserving" /\ stalls' = stalls
      BY <1>4 DEF StopAttempts, TypeOK
    <2>2. CASE elapsed' = elapsed
      BY <1>a, <1>h, <2>1, <2>2, BetweenAttempts
    <2>3. CASE TimeLeft(e) > 0 /\ WaitForLock(e)
      <3>1. elapsed'[e] <= Limit(e, 1 + V, 2 * V + 2)
        BY <1>a, <1>b, <1>e, <2>3 DEF TimeLeft
      <3>. QED  BY <1>a, <2>1, <3>1, BetweenAttempts
    <2>. QED  BY <1>4, <2>2, <2>3 DEF StopAttempts
  <1>5. CASE StartGeneration(e)
    <2>1. /\ pc'[e] = "generating" /\ callTime'[e] = 0 /\ stalls' = stalls /\ elapsed'[e] <= elapsed[e] + LockWait
          /\ remaining'[e] = Deadline - elapsed[e] /\ remaining'[e] > 0
      BY <1>5, <1>e DEF StartGeneration, BeginCall, TimeLeft, TypeOK
    <2>2. elapsed'[e] + remaining'[e] - callTime'[e] <= Limit(e, 1, 1) /\ elapsed'[e] <= Limit(e, 1, 1)
      BY <1>a, <1>b, <2>1
    <2>3. elapsed'[e] <= Limit(e, 1 + V, 2 * V + 3)
      BY <1>a, <1>b, <2>2
    <2>. QED  BY <1>a, <2>1, <2>2, <2>3, SameLimit DEF InTime
  <1>6. ASSUME NEW good \in BOOLEAN, NEW c, GenerationReturns(e, good, c)
        PROVE  InTime(e)'
    <2>1. pc[e] = "generating" /\ elapsed'[e] <= elapsed[e] + LockWait /\ remaining' = remaining /\ stalls' = stalls
      BY <1>6, <1>e DEF GenerationReturns
    <2>2. elapsed'[e] <= Limit(e, 1, 2) /\ remaining[e] <= Deadline
      BY <1>a, <1>b, <2>1 DEF InTime
    <2>3. elapsed'[e] <= Limit(e, 1 + V, 2 * V + 2) /\ elapsed'[e] <= Limit(e, 1 + V, 2 * V + 3)
      BY <1>a, <1>b, <2>2
    <2>4. CASE good
      <3>1. pc'[e] = "verifying" /\ todo'[e] \in 0..V
        BY <1>6, <2>4 DEF GenerationReturns, TypeOK
      <3>2. elapsed'[e] <= Limit(e, Made(todo'[e]), 2 * Made(todo'[e]))
        BY <1>a, <1>b, <1>c, <2>2, <3>1
      <3>. QED  BY <2>1, <2>2, <2>3, <3>1, <3>2, SameLimit DEF InTime, CallsMade
    <2>5. CASE ~good
      <3>1. pc'[e] = "reserving"
        BY <1>6, <2>5 DEF GenerationReturns, NextAttempt, TypeOK
      <3>. QED  BY <1>a, <2>1, <2>3, <3>1, BetweenAttempts
    <2>. QED  BY <2>4, <2>5
  <1>7. ASSUME todo[e] \in 1..V, todo'[e] = todo[e] - 1, pc'[e] = "verifying", stalls' = stalls, remaining' = remaining,
               remaining[e] <= Deadline,
               elapsed'[e] <= Limit(e, Made(todo[e]), 2 * Made(todo[e])) + Deadline + LockWait + LockWait
        PROVE  InTime(e)'
    <2>1. elapsed'[e] <= Limit(e, Made(todo'[e]), 2 * Made(todo'[e]))
      BY <1>7, <1>d
    <2>2. elapsed'[e] <= Limit(e, 1 + V, 2 * V + 3)
      BY <1>a, <1>b, <1>c, <1>d, <1>7, <2>1
    <2>. QED  BY <1>7, <2>1, <2>2, SameLimit DEF InTime, CallsMade
  <1>8. CASE DecisionNotAfforded(e)
    <2>1. /\ pc[e] = "verifying" /\ pc' = pc /\ todo[e] \in 1..V /\ todo'[e] = todo[e] - 1
          /\ elapsed'[e] <= elapsed[e] + LockWait /\ remaining' = remaining /\ stalls' = stalls
      BY <1>8, <1>a, <1>e DEF DecisionNotAfforded, CheckDone, TypeOK
    <2>2. Limit(e, Made(todo[e]), 2 * Made(todo[e])) \in Nat
      BY <1>c, <2>1, <1>a
    <2>3. elapsed'[e] <= Limit(e, Made(todo[e]), 2 * Made(todo[e])) + Deadline + LockWait + LockWait
      BY <1>a, <1>f, <2>1, <2>2
    <2>. QED  BY <1>7, <1>f, <2>1, <2>3
  <1>9. CASE StartDecision(e)
    <2>1. /\ pc[e] = "verifying" /\ pc'[e] = "deciding" /\ callTime'[e] = 0 /\ todo[e] \in 1..V
          /\ elapsed'[e] <= elapsed[e] + LockWait /\ todo' = todo /\ remaining' = remaining /\ stalls' = stalls
      BY <1>9, <1>a, <1>e DEF StartDecision, BeginCall, TypeOK
    <2>2. /\ Limit(e, Made(todo[e]), 2 * Made(todo[e])) \in Nat
          /\ Limit(e, Made(todo[e] - 1), 2 * Made(todo[e] - 1) - 1) = Limit(e, Made(todo[e]), 2 * Made(todo[e])) + Deadline + LockWait
      BY <1>a, <1>c, <1>d, <2>1
    <2>3. /\ elapsed'[e] <= Limit(e, Made(todo[e] - 1), 2 * Made(todo[e] - 1) - 1)
          /\ elapsed'[e] + remaining'[e] - callTime'[e] <= Limit(e, Made(todo[e] - 1), 2 * Made(todo[e] - 1) - 1)
      BY <1>a, <1>f, <2>1, <2>2
    <2>4. elapsed'[e] <= Limit(e, 1 + V, 2 * V + 3)
      BY <1>a, <1>b, <1>h, <2>1
    <2>5. CallsMade(e)' = Made(todo[e] - 1)
      BY <1>a, <2>1 DEF CallsMade
    <2>. QED  BY <1>f, <2>1, <2>3, <2>4, <2>5, SameLimit DEF InTime
  <1>10. ASSUME NEW pass \in BOOLEAN, NEW c, DecisionReturns(e, pass, c)
         PROVE  InTime(e)'
    <2>1. /\ pc[e] = "deciding" /\ pc'[e] = "verifying" /\ todo'[e] = todo[e] - 1
          /\ elapsed'[e] <= elapsed[e] + LockWait /\ remaining' = remaining /\ stalls' = stalls
      BY <1>10, <1>e DEF DecisionReturns, CheckDone, TypeOK
    <2>2. todo[e] \in 1..V /\ Limit(e, Made(todo[e]), 2 * Made(todo[e])) \in Nat
      BY <1>a, <1>c, <1>g, <2>1
    <2>3. elapsed'[e] <= Limit(e, Made(todo[e]), 2 * Made(todo[e])) + Deadline + LockWait + LockWait
      BY <1>a, <1>d, <1>g, <2>1, <2>2
    <2>. QED  BY <1>7, <1>g, <2>1, <2>2, <2>3
  <1>11. CASE Elapse(e) \/ Stalled(e)
    <2>. DEFINE w == elapsed'[e] - elapsed[e]
    <2>1. /\ pc[e] \in InCall /\ pc' = pc /\ todo' = todo /\ remaining' = remaining
          /\ w \in Nat /\ elapsed'[e] = elapsed[e] + w /\ callTime'[e] = callTime[e] + w
          /\ \/ stalls' = stalls /\ w = 1 /\ callTime[e] < remaining[e]
             \/ stalls'[e] = stalls[e] + 1 /\ w <= LockWait
      BY <1>11, <1>a DEF Elapse, Stalled, TypeOK
    <2>. HIDE DEF w
    \* What was a limit before the step is one after it.
    <2>2. ASSUME NEW c \in Nat, NEW n \in Nat, elapsed[e] <= Limit(e, c, n),
                 elapsed[e] + remaining[e] - callTime[e] <= Limit(e, c, n)
          PROVE  elapsed'[e] <= Limit(e, c, n)' /\ elapsed'[e] + remaining'[e] - callTime'[e] <= Limit(e, c, n)'
      <3>1. Limit(e, c, n) \in Nat
        BY Limits
      <3>2. CASE stalls' = stalls /\ w = 1 /\ callTime[e] < remaining[e]
        BY <1>a, <2>1, <2>2, <3>1, <3>2, SameLimit
      <3>3. CASE stalls'[e] = stalls[e] + 1 /\ w <= LockWait
        <4>1. Limit(e, c, n)' = Limit(e, c, n) + LockWait
          BY <3>3, StalledLimit
        <4>. QED  BY <1>a, <2>1, <2>2, <3>1, <3>3, <4>1
      <3>. QED  BY <2>1, <3>2, <3>3
    <2>3. \A c \in Nat, n \in Nat, d \in Nat, m \in Nat : c <= d /\ n <= m => Limit(e, c, n)' <= Limit(e, d, m)'
      <3>1. ASSUME NEW c \in Nat, NEW n \in Nat
            PROVE  Limit(e, c, n)' = Limit(e, c, n) \/ Limit(e, c, n)' = Limit(e, c, n) + LockWait
        BY <2>1, SameLimit, StalledLimit
      <3>2. ASSUME NEW c \in Nat, NEW n \in Nat, NEW d \in Nat, NEW m \in Nat, c <= d, n <= m
            PROVE  Limit(e, c, n)' <= Limit(e, d, m)'
        <4>1. Limit(e, c, n) \in Nat /\ Limit(e, d, m) \in Nat /\ Limit(e, c, n) <= Limit(e, d, m)
          BY <3>2, Limits
        <4>2. CASE stalls' = stalls
          BY <4>1, <4>2, SameLimit
        <4>3. CASE stalls'[e] = stalls[e] + 1
          BY <1>a, <4>1, <4>3, StalledLimit
        <4>. QED  BY <2>1, <4>2, <4>3
      <3>. QED  BY <3>2
    <2>4. ASSUME NEW c \in Nat, NEW n \in Nat
          PROVE  Limit(e, c, n)' \in Nat
      <3>1. Limit(e, c, n) \in Nat
        BY Limits
      <3>. QED  BY <1>a, <2>1, <3>1, SameLimit, StalledLimit
    <2>5. CASE pc[e] = "generating"
      <3>1. elapsed'[e] <= Limit(e, 1, 1)' /\ elapsed'[e] + remaining'[e] - callTime'[e] <= Limit(e, 1, 1)'
        BY <2>2, <2>5 DEF InTime
      <3>2. 1 \in Nat /\ 1 + V \in Nat /\ 2 * V + 3 \in Nat /\ 1 <= 1 + V /\ 1 <= 2 * V + 3
        BY <1>a
      <3>3. Limit(e, 1, 1)' \in Nat /\ Limit(e, 1 + V, 2 * V + 3)' \in Nat /\ Limit(e, 1, 1)' <= Limit(e, 1 + V, 2 * V + 3)'
        BY <2>3, <2>4, <3>2
      <3>4. elapsed'[e] <= Limit(e, 1 + V, 2 * V + 3)'
        BY <1>a, <3>1, <3>3
      <3>. QED  BY <2>1, <2>5, <3>1, <3>4 DEF InTime
    <2>6. CASE pc[e] = "deciding"
      <3>. DEFINE c == Made(todo[e] - 1)
      <3>1. todo[e] \in 1..V
        BY <1>g, <2>6
      <3>2. c \in Nat /\ 2 * c - 1 \in Nat /\ 1 + V \in Nat /\ 2 * V + 3 \in Nat /\ c <= 1 + V /\ 2 * c - 1 <= 2 * V + 3
        BY <1>a, <3>1
      <3>3. CallsMade(e)' = c
        BY <1>a, <2>1, <2>6 DEF CallsMade
      <3>4. elapsed[e] <= Limit(e, c, 2 * c - 1) /\ elapsed[e] + remaining[e] - callTime[e] <= Limit(e, c, 2 * c - 1)
        BY <1>g, <2>6
      <3>a. PICK k \in Nat : k = c
        BY <3>2
      <3>. HIDE DEF c
      <3>b. 2 * k - 1 \in Nat /\ k <= 1 + V /\ 2 * k - 1 <= 2 * V + 3
        BY <3>2, <3>a
      <3>5. elapsed'[e] <= Limit(e, k, 2 * k - 1)' /\ elapsed'[e] + remaining'[e] - callTime'[e] <= Limit(e, k, 2 * k - 1)'
        BY <2>2, <3>4, <3>a, <3>b
      <3>6. /\ Limit(e, k, 2 * k - 1)' \in Nat /\ Limit(e, 1 + V, 2 * V + 3)' \in Nat
            /\ Limit(e, k, 2 * k - 1)' <= Limit(e, 1 + V, 2 * V + 3)'
        BY <2>3, <2>4, <3>2, <3>b
      <3>7. elapsed'[e] <= Limit(e, 1 + V, 2 * V + 3)'
        BY <1>a, <3>5, <3>6
      <3>8. CallsMade(e)' = k
        BY <3>3, <3>a
      <3>. QED  BY <1>g, <2>1, <2>6, <3>5, <3>7, <3>8 DEF InTime
    <2>. QED  BY <2>1, <2>5, <2>6
  <1>. QED  BY <1>1, <1>2, <1>3, <1>4, <1>5, <1>6, <1>8, <1>9, <1>10, <1>11 DEF Advance

\* Nobody else's step takes an execution's time, but for its stalls.
LEMMA OthersTime ==
  ASSUME TypeOK, NEW e \in Executions, NEW f \in Executions, f # e,
         Receive(e) \/ Advance(e) \/ Elapse(e) \/ Stalled(e) \/ LockTimesOut(e) \/ CallRaises(e) \/ Crash(e)
  PROVE  /\ elapsed'[f] = elapsed[f] /\ callTime'[f] = callTime[f] /\ remaining'[f] = remaining[f]
         /\ stalls'[f] = stalls[f]
  <1>0. WaitForLock(e) => elapsed'[f] = elapsed[f]
    BY WaitTyped
  <1>1. CASE StartGeneration(e) \/ StartDecision(e)
    BY <1>0, <1>1 DEF StartGeneration, StartDecision, BeginCall, TypeOK
  <1>2. CASE Receive(e)
    BY <1>2 DEF Receive, RefuseEarly, OpenRequest, ReuseKey, NotOpened
  <1>3. CASE Elapse(e) \/ Stalled(e) \/ LockTimesOut(e) \/ CallRaises(e) \/ Crash(e)
    BY <1>3 DEF Elapse, Stalled, LockTimesOut, CallRaises, Crash, TypeOK
  <1>4. CASE Advance(e) /\ ~StartGeneration(e) /\ ~StartDecision(e)
    BY <1>0, <1>4 DEF Advance, StopAttempts, ReserveForNoRequest, GenerationReturns, DecisionNotAfforded,
                DecisionReturns, NotPassed, Accept, Reject, Finish
  <1>. QED  BY <1>1, <1>2, <1>3, <1>4

TimesHeld == \A e \in Executions : InTime(e)

LEMMA StepTimes ==
  ASSUME TypeOK, TypeOK', RowsInStep, TimesHeld, [Next]_vars
  PROVE  TimesHeld'
  <1>1. ASSUME NEW e \in Executions, NEW f \in Executions,
               Receive(e) \/ Advance(e) \/ Elapse(e) \/ Stalled(e) \/ LockTimesOut(e) \/ CallRaises(e) \/ Crash(e)
        PROVE  InTime(f)'
    <2>1. InTime(f)  BY DEF TimesHeld
    <2>2. CASE f = e
      BY <1>1, <2>1, <2>2, ReceiveInTime, ActorsTime
    <2>3. CASE f # e
      <3>1. pc'[f] = pc[f] /\ todo'[f] = todo[f]
        BY <1>1, <2>3, OthersUntouched DEF Untouched
      <3>. QED  BY <1>1, <2>1, <2>3, <3>1, OthersTime, SameInTime
    <2>. QED  BY <2>2, <2>3
  <1>2. ASSUME UNCHANGED vars, NEW f \in Executions
        PROVE  InTime(f)'
    BY <1>2, SameInTime DEF vars, runVars, TimesHeld
  <1>. QED  BY <1>1, <1>2 DEF Next, TimesHeld

(* execute: from its first attempt on a request takes no more time than one *)
(* deadline for its generations and one for each decision call of a         *)
(* verification, a wait for the write lock for each transaction of one      *)
(* attempt and one for each stall by other coroutines: for any route, any   *)
(* number of attempts, any deadline and any wait.                           *)
THEOREM TimeBounded == Spec => []AnswersInTime
  <1>. DEFINE Inv == IInv /\ TimesHeld
  <1>1. Init => Inv
    <2>1. ASSUME Init, TypeOK, NEW e \in Executions  PROVE InTime(e)
      <3>1. elapsed[e] = 0 /\ pc[e] = "new"  BY <2>1 DEF Init
      <3>2. Limit(e, 1 + VerifyCalls, 2 * VerifyCalls + 2) \in Nat /\ Limit(e, 1 + VerifyCalls, 2 * VerifyCalls + 3) \in Nat
        <4>1. 1 + VerifyCalls \in Nat /\ 2 * VerifyCalls + 2 \in Nat /\ 2 * VerifyCalls + 3 \in Nat
          BY NumbersAssumption
        <4>. QED  BY <2>1, <4>1, Limits
      <3>. QED  BY <3>1, <3>2 DEF InTime
    <2>. QED  BY <2>1, InitInvariant, InitTyped DEF TimesHeld
  <1>2. Inv /\ [Next]_vars => Inv'
    BY StepInvariant, StepTimes DEF IInv
  <1>3. Inv => AnswersInTime
    BY DEF TimesHeld, InTime, Limit, AnswersInTime
  <1>. QED  BY <1>1, <1>2, <1>3, PTL DEF Spec

-----------------------------------------------------------------------------
(* Answers.  A body that is refused early, or has no route, is rejected at *)
(* no cost, whoever is asked; any other answer is that of the key's row.   *)

\* An execution that joined a running request gets no further than its route.
JoinedStuck(e) ==
  /\ pc[e] = "new" \/ joined[e] => total[e] = 0
  /\ pc[e] = "new" \/ (joined[e] /\ pc[e] = "reserving") => elapsed[e] = 0
  /\ joined[e] =>
    /\ attempt[e] = 1 /\ body[e] \in Bodies \ Inadmissible
    /\ pc[e] \in {"reserving", "rejecting"} \cup Ended
    /\ pc[e] = "reserving" => RouteOf[body[e]] # <<>>
    /\ pc[e] \in {"rejecting", "answered"} => RouteOf[body[e]] = <<>>

\* A request without a route pays for nothing.
NothingPaid(e) ==
  row[e] # "none" =>
    /\ body[e] \notin Inadmissible
    /\ RouteOf[body[e]] = <<>> =>
         pc[e] \in {"rejecting", "answered", "failed", "crashed"} /\ row[e] # "accepted" /\ total[e] = 0

Answered(e) ==
  answer[e] # None =>
    /\ body[e] \in Bodies
    /\ Hopeless(body[e]) => answer[e] = Rejection(0)
    /\ ~Hopeless(body[e]) /\ key[e] \in Keys =>
         \E r \in Executions : Finished(r) /\ key[r] = key[e] /\ body[r] = body[e] /\ answer[e] = Stored(r)

Agreeing(e) == JoinedStuck(e) /\ NothingPaid(e) /\ Answered(e)

EStep(e) == Receive(e) \/ Advance(e) \/ Elapse(e) \/ Stalled(e) \/ LockTimesOut(e) \/ CallRaises(e) \/ Crash(e)

\* The row of a finished request is final.
LEMMA FinishedFixed ==
  ASSUME TypeOK, RowsInStep, NEW e \in Executions, EStep(e), NEW r \in Executions, Finished(r)
  PROVE  Finished(r)' /\ UNCHANGED <<row[r], cost[r], key[r], body[r]>>
  <1>1. pc[r] = "answered"
    BY DEF RowsInStep
  <1>2. r # e
    BY <1>1 DEF EStep, Receive, RefuseEarly, OpenRequest, ReuseKey, NotOpened, Arrive, Advance, StopAttempts, StartGeneration,
                ReserveForNoRequest, GenerationReturns, DecisionNotAfforded, StartDecision, DecisionReturns,
                NotPassed, Accept, Reject, Elapse, Stalled, LockTimesOut, TransactionDue, CallRaises, Crash, Ended
  <1>. QED  BY <1>2, OthersUntouched DEF EStep, Untouched, Finished

\* So an answer that was right stays right.
LEMMA AnsweredKept ==
  ASSUME TypeOK, RowsInStep, NEW e \in Executions, EStep(e), NEW f \in Executions, Answered(f),
         answer'[f] = answer[f], body'[f] = body[f], key'[f] = key[f]
  PROVE  Answered(f)'
  <1>1. \A r \in Executions : Finished(r) =>
          Finished(r)' /\ key'[r] = key[r] /\ body'[r] = body[r] /\ Stored(r)' = Stored(r)
    BY FinishedFixed DEF Stored
  <1>. QED  BY <1>1 DEF Answered

\* What the stored result of a hopeless body is.
LEMMA HopelessStored ==
  ASSUME RowsInStep, TypeOK, NEW r \in Executions, Finished(r), NothingPaid(r), Hopeless(body[r])
  PROVE  Stored(r) = Rejection(0)
  BY DEF RowsInStep, TypeOK, Finished, NothingPaid, Hopeless, Stored, Rejection

LEMMA AgreeingReceive ==
  ASSUME TypeOK, RowsInStep, NEW e \in Executions, \A f \in Executions : Agreeing(f), Receive(e)
  PROVE  Agreeing(e)'
  <1>0. EStep(e)
    BY DEF EStep
  <1>1. ASSUME NEW k \in Keys \cup {EmptyKey, NoKey}, NEW b \in Bodies, Arrive(e, k, b)
        PROVE  /\ pc[e] = "new" /\ row[e] = "none" /\ ~joined[e] /\ answer[e] = None
               /\ total[e] = 0 /\ elapsed[e] = 0 /\ key'[e] = k /\ body'[e] = b
    BY <1>1 DEF Arrive, RowsInStep, TypeOK, Agreeing, JoinedStuck
  <1>2. ASSUME NEW b \in Bodies, StartAttempts(e, b)
        PROVE  attempt'[e] = 1 /\ pc'[e] = IF RouteOf[b] = <<>> THEN "rejecting" ELSE "reserving"
    BY <1>2 DEF StartAttempts, Goto, TypeOK
  <1>3. ASSUME NEW k \in Keys \cup {EmptyKey, NoKey}, NEW b \in Bodies, RefuseEarly(e, k, b)
        PROVE  Agreeing(e)'
    <2>1. /\ pc'[e] = "answered" /\ ~joined'[e] /\ row'[e] = "none" /\ body'[e] = b
          /\ answer'[e] = Rejection(0) /\ b \in Inadmissible
      BY <1>1, <1>3 DEF RefuseEarly, Goto, Reply, TypeOK
    <2>. QED  BY <2>1 DEF Agreeing, JoinedStuck, NothingPaid, Answered, Hopeless
  <1>4. ASSUME NEW k \in Keys \cup {EmptyKey, NoKey}, NEW b \in Bodies, OpenRequest(e, k, b)
        PROVE  Agreeing(e)'
    <2>1. /\ ~joined'[e] /\ body'[e] = b /\ b \notin Inadmissible /\ answer'[e] = None
          /\ total'[e] = 0 /\ pc'[e] # "new"
          /\ \/ row'[e] = "none"
             \/ row'[e] = "running" /\ pc'[e] = IF RouteOf[b] = <<>> THEN "rejecting" ELSE "reserving"
      BY <1>1, <1>2, <1>4 DEF OpenRequest, Goto, TypeOK
    <2>. QED  BY <2>1 DEF Agreeing, JoinedStuck, NothingPaid, Answered
  <1>5. ASSUME NEW k \in Keys \cup {EmptyKey, NoKey}, NEW b \in Bodies, ReuseKey(e, k, b)
        PROVE  Agreeing(e)'
    <2>1. /\ body'[e] = b /\ key'[e] = k /\ b \notin Inadmissible /\ row'[e] = "none"
          /\ total'[e] = 0 /\ elapsed'[e] = 0
      BY <1>1, <1>5 DEF ReuseKey
    <2>2. NothingPaid(e)'
      BY <2>1 DEF NothingPaid
    <2>3. PICK r \in KeyRows(k) :
            \/ /\ body[r] # b
               /\ Goto(e, "conflict")
               /\ UNCHANGED <<joined, attempt, answer>>
            \/ /\ body[r] = b /\ Finished(r)
               /\ Reply(e, [status |-> row[r], cost |-> cost[r]])
               /\ Goto(e, "answered")
               /\ UNCHANGED <<joined, attempt>>
            \/ /\ body[r] = b /\ ~Finished(r)
               /\ joined' = [joined EXCEPT ![e] = TRUE]
               /\ StartAttempts(e, b)
               /\ UNCHANGED answer
      BY <1>5 DEF ReuseKey
    <2>4. CASE ~Finished(r) \/ body[r] # b
      <3>1. answer'[e] = None /\ pc'[e] \in {"conflict", "rejecting", "reserving"}
        BY <1>1, <1>2, <1>5, <2>3, <2>4 DEF ReuseKey, Goto, TypeOK
      <3>2. joined'[e] => attempt'[e] = 1 /\ pc'[e] = IF RouteOf[b] = <<>> THEN "rejecting" ELSE "reserving"
        BY <1>1, <1>2, <1>5, <2>3, <2>4 DEF ReuseKey, Goto, TypeOK
      <3>. QED  BY <2>1, <2>2, <3>1, <3>2 DEF Agreeing, JoinedStuck, Answered
    <2>5. CASE Finished(r) /\ body[r] = b
      <3>1. pc'[e] = "answered" /\ ~joined'[e] /\ answer'[e] = Stored(r)
        BY <1>1, <1>5, <2>3, <2>5 DEF ReuseKey, Goto, Reply, TypeOK, Stored
      <3>2. r \in Executions /\ key[r] = k /\ NothingPaid(r)
        BY DEF KeyRows, Agreeing
      <3>3. Finished(r)' /\ key'[r] = k /\ body'[r] = b /\ Stored(r)' = Stored(r)
        BY <1>0, <2>5, <3>2, FinishedFixed DEF Stored
      <3>4. Hopeless(b) => Stored(r) = Rejection(0)
        BY <2>5, <3>2, HopelessStored
      <3>5. Answered(e)'
        BY <2>1, <3>1, <3>2, <3>3, <3>4 DEF Answered
      <3>. QED  BY <2>2, <3>1, <3>5 DEF Agreeing, JoinedStuck
    <2>. QED  BY <2>4, <2>5
  <1>6. ASSUME NEW k \in Keys \cup {EmptyKey, NoKey}, NEW b \in Bodies, NotOpened(e, k, b)
        PROVE  Agreeing(e)'
    <2>1. /\ pc'[e] = "failed" /\ ~joined'[e] /\ row'[e] = "none" /\ answer'[e] = None
      BY <1>1, <1>6 DEF NotOpened, Goto, TypeOK
    <2>. QED  BY <2>1 DEF Agreeing, JoinedStuck, NothingPaid, Answered
  <1>. QED  BY <1>3, <1>4, <1>5, <1>6 DEF Receive

LEMMA AgreeingFinish ==
  ASSUME TypeOK, RowsInStep, NEW e \in Executions, Agreeing(e), Accept(e) \/ Reject(e)
  PROVE  Agreeing(e)'
  <1>1. PICK s \in {"accepted", "rejected"}, sampled \in BOOLEAN :
          Finish(e, s, sampled) /\ (s = "accepted" => pc[e] = "verifying") /\ (s = "rejected" => pc[e] = "rejecting")
    BY DEF Accept, Reject
  <1>2. /\ pc'[e] = "answered" /\ answer'[e] = [status |-> s, cost |-> total[e]]
        /\ joined' = joined /\ body' = body /\ key' = key /\ total' = total
        /\ attempt' = attempt /\ body[e] \in Bodies
    BY <1>1 DEF Finish, Goto, Reply, RowsInStep, TypeOK
  <1>3. CASE joined[e]
    <2>1. pc[e] = "rejecting" /\ RouteOf[body[e]] = <<>> /\ total[e] = 0 /\ attempt[e] = 1
          /\ body[e] \in Bodies \ Inadmissible
      BY <1>1, <1>3 DEF Agreeing, JoinedStuck, Ended
    <2>2. row'[e] = "none"
      BY <1>1, <1>3 DEF Finish, RowsInStep
    <2>3. answer'[e] = Rejection(0) /\ Hopeless(body[e])
      BY <1>1, <1>2, <2>1 DEF Rejection, Hopeless
    <2>. QED  BY <1>2, <2>1, <2>2, <2>3 DEF Agreeing, JoinedStuck, NothingPaid, Answered, Ended
  <1>4. CASE ~joined[e]
    <2>1. row[e] = "running"
      BY <1>1, <1>4 DEF RowsInStep
    <2>2. row'[e] = s /\ cost'[e] = total[e]
      BY <1>1, <1>4 DEF Finish, TypeOK
    <2>3. body[e] \notin Inadmissible /\ (RouteOf[body[e]] = <<>> => s = "rejected" /\ total[e] = 0)
      BY <1>1, <2>1 DEF Agreeing, NothingPaid
    <2>4. Finished(e)' /\ Stored(e)' = answer'[e]
      BY <1>2, <2>2 DEF Finished, Stored
    <2>5. Hopeless(body[e]) => answer'[e] = Rejection(0)
      BY <1>2, <2>3 DEF Hopeless, Rejection
    <2>6. Answered(e)'
      BY <1>2, <2>4, <2>5 DEF Answered
    <2>. QED  BY <1>2, <1>4, <2>2, <2>3, <2>6 DEF Agreeing, JoinedStuck, NothingPaid
  <1>. QED  BY <1>3, <1>4

\* A joined execution has an alias and the whole deadline, and fails on its reservation.
LEMMA JoinedFails ==
  ASSUME TypeOK, NEW e \in Executions, JoinedStuck(e), joined[e]
  PROVE  ~StopAttempts(e) /\ ~NotPassed(e)
  <1>1. ASSUME pc[e] = "reserving"
        PROVE  HasAlias(e) /\ TimeLeft(e) > 0
    <2>1. RouteOf[body[e]] # <<>> /\ RouteOf[body[e]] \in Seq(Nat) /\ attempt[e] = 1 /\ elapsed[e] = 0
      BY <1>1, RoutesAssumption DEF JoinedStuck
    <2>2. Len(RouteOf[body[e]]) >= 1
      BY <2>1
    <2>. QED  BY <2>1, <2>2, NumbersAssumption DEF HasAlias, TimeLeft
  <1>2. TimeLeft(e) \in Int
    BY NumbersAssumption DEF TimeLeft, TypeOK
  <1>. QED  BY <1>1, <1>2 DEF StopAttempts, NotPassed, JoinedStuck, Ended

LEMMA AgreeingAdvance ==
  ASSUME TypeOK, RowsInStep, NEW e \in Executions, Agreeing(e),
         (Advance(e) /\ ~Accept(e) /\ ~Reject(e)) \/ Elapse(e) \/ Stalled(e) \/ LockTimesOut(e) \/ CallRaises(e) \/ Crash(e)
  PROVE  Agreeing(e)'
  <1>0. EStep(e)
    BY DEF EStep
  <1>1. UNCHANGED <<row, key, body, joined, answer>>
    BY DEF Advance, StopAttempts, ReserveForNoRequest, StartGeneration, GenerationReturns, DecisionNotAfforded,
           StartDecision, DecisionReturns, NotPassed, Elapse, Stalled, LockTimesOut, CallRaises, Crash, rowVars
  <1>2. Answered(e)'
    BY <1>0, <1>1, AnsweredKept DEF Agreeing
  <1>3. CASE ReserveForNoRequest(e) \/ LockTimesOut(e) \/ Crash(e)
    <2>1. pc'[e] \in {"failed", "crashed"} /\ pc[e] # "new" /\ UNCHANGED <<total, attempt>>
      BY <1>3 DEF ReserveForNoRequest, LockTimesOut, TransactionDue, Crash, Goto, TypeOK
    <2>2. JoinedStuck(e)'
      BY <1>1, <2>1 DEF Agreeing, JoinedStuck, Ended
    <2>3. ReserveForNoRequest(e) => joined[e] /\ row'[e] = "none"
      BY <1>1 DEF ReserveForNoRequest, RowsInStep
    <2>4. NothingPaid(e)'
      BY <1>1, <1>3, <2>1, <2>3 DEF Agreeing, NothingPaid
    <2>. QED  BY <1>2, <2>2, <2>4 DEF Agreeing
  <1>4. CASE ~ReserveForNoRequest(e) /\ ~LockTimesOut(e) /\ ~Crash(e)
    <2>1. pc[e] \in InCall \cup {"verifying", "reserving"}
      BY <1>4 DEF Advance, StopAttempts, StartGeneration, GenerationReturns, DecisionNotAfforded,
                  StartDecision, DecisionReturns, NotPassed, Elapse, Stalled, CallRaises
    <2>2. ~joined[e]
      <3>1. CASE pc[e] = "reserving"
        <4>1. ASSUME joined[e]  PROVE StopAttempts(e)
          BY <1>4, <3>1, <4>1 DEF Advance, StartGeneration, GenerationReturns, DecisionNotAfforded,
                  StartDecision, DecisionReturns, NotPassed, Elapse, Stalled, CallRaises
        <4>. QED  BY <4>1, JoinedFails DEF Agreeing
      <3>2. CASE pc[e] # "reserving"
        BY <2>1, <3>2 DEF RowsInStep
      <3>. QED  BY <3>1, <3>2
    <2>3. row[e] # "none" /\ RouteOf[body[e]] # <<>>
      BY <2>1, <2>2 DEF RowsInStep, Agreeing, NothingPaid
    <2>4. pc'[e] # "new"
      BY <1>4, <2>1 DEF Advance, StopAttempts, StartGeneration, GenerationReturns, DecisionNotAfforded,
                  StartDecision, DecisionReturns, NotPassed, NextAttempt, Elapse, Stalled, CallRaises, Goto, TypeOK
    <2>. QED  BY <1>1, <1>2, <2>2, <2>3, <2>4 DEF Agreeing, JoinedStuck, NothingPaid
  <1>. QED  BY <1>3, <1>4

LEMMA StepAgreeing ==
  ASSUME TypeOK, RowsInStep, \A f \in Executions : Agreeing(f), [Next]_vars
  PROVE  \A f \in Executions : Agreeing(f)'
  <1>1. ASSUME NEW e \in Executions, EStep(e), NEW f \in Executions
        PROVE  Agreeing(f)'
    <2>1. CASE f = e
      BY <1>1, <2>1, AgreeingReceive, AgreeingFinish, AgreeingAdvance DEF EStep
    <2>2. CASE f # e
      <3>1. Untouched(f) /\ elapsed'[f] = elapsed[f]
        BY <1>1, <2>2, OthersUntouched, OthersTime DEF EStep
      <3>2. Answered(f)'
        BY <1>1, <3>1, AnsweredKept DEF Untouched, Agreeing
      <3>. QED  BY <3>1, <3>2 DEF Untouched, Agreeing, JoinedStuck, NothingPaid
    <2>. QED  BY <2>1, <2>2
  <1>2. ASSUME UNCHANGED vars, NEW f \in Executions
        PROVE  Agreeing(f)'
    BY <1>2 DEF vars, rowVars, runVars, Agreeing, JoinedStuck, NothingPaid, Answered, Finished, Stored
  <1>. QED  BY <1>1, <1>2 DEF Next, EStep

\* One row for each key; Cardinality would say so of finite sets only.
OneRow == \A k \in Keys : \A r, s \in KeyRows(k) : r = s

LEMMA StepOneRow ==
  ASSUME TypeOK, RowsInStep, OneRow, [Next]_vars
  PROVE  OneRow'
  <1>1. ASSUME NEW e \in Executions, EStep(e), NEW k \in Keys
        PROVE  \A r \in KeyRows(k)' : r \in KeyRows(k) \/ (r = e /\ KeyRows(k) = {})
    <2>1. ASSUME NEW r \in KeyRows(k)', r # e
          PROVE  r \in KeyRows(k)
      BY <1>1, <2>1, OthersUntouched DEF EStep, Untouched, KeyRows
    <2>2. ASSUME e \in KeyRows(k)', row[e] # "none"
          PROVE  e \in KeyRows(k)
      <3>1. key' = key
        BY <1>1, <2>2 DEF EStep, Receive, RefuseEarly, OpenRequest, ReuseKey, NotOpened, Arrive, RowsInStep, Advance,
               StopAttempts, ReserveForNoRequest, StartGeneration, GenerationReturns, DecisionNotAfforded,
               StartDecision, DecisionReturns, NotPassed, Accept, Reject, Finish, Elapse, Stalled, LockTimesOut, CallRaises, Crash, rowVars
      <3>. QED  BY <2>2, <3>1 DEF KeyRows
    <2>3. ASSUME e \in KeyRows(k)', row[e] = "none"
          PROVE  KeyRows(k) = {}
      <3>1. row' # row
        BY <2>3 DEF KeyRows
      <3>2. ~Accept(e) /\ ~Reject(e)
        BY <2>3, <3>1 DEF Accept, Reject, Finish, RowsInStep
      <3>3. PICK k0 \in Keys \cup {EmptyKey, NoKey}, b \in Bodies : OpenRequest(e, k0, b)
        BY <1>1, <3>1, <3>2 DEF EStep, Receive, RefuseEarly, ReuseKey, NotOpened, Advance, StopAttempts,
               ReserveForNoRequest, StartGeneration, GenerationReturns, DecisionNotAfforded, StartDecision,
               DecisionReturns, NotPassed, Elapse, Stalled, LockTimesOut, CallRaises, Crash, rowVars
      <3>4. KeyRows(k0) = {} /\ key'[e] = k0
        BY <3>3 DEF OpenRequest, Arrive, TypeOK
      <3>. QED  BY <2>3, <3>4 DEF KeyRows
    <2>. QED  BY <2>1, <2>2, <2>3
  <1>2. ASSUME UNCHANGED vars, NEW k \in Keys
        PROVE  KeyRows(k)' = KeyRows(k)
    BY <1>2 DEF vars, rowVars, KeyRows
  <1>. QED  BY <1>1, <1>2 DEF Next, EStep, OneRow

AnswersInv == IInv /\ OneRow /\ \A f \in Executions : Agreeing(f)

LEMMA AnswersInvariance == Spec => []AnswersInv
  <1>1. Init => AnswersInv
    <2>1. Init => OneRow
      BY DEF Init, OneRow, KeyRows
    <2>2. ASSUME Init, NEW f \in Executions  PROVE Agreeing(f)
      BY <2>2 DEF Init, Agreeing, JoinedStuck, NothingPaid, Answered
    <2>. QED  BY <2>1, <2>2, InitInvariant DEF AnswersInv
  <1>2. AnswersInv /\ [Next]_vars => AnswersInv'
    BY StepInvariant, StepOneRow, StepAgreeing DEF IInv, AnswersInv
  <1>. QED  BY <1>1, <1>2, PTL DEF Spec

(* create_request and execute: whoever gets an answer for a key and a body  *)
(* gets the same one, however many executions come with the key, whenever   *)
(* they come, and whichever of them fail or die.                            *)
THEOREM SameAnswers == Spec => []SameKeySameAnswer
  <1>1. ASSUME AnswersInv, NEW e \in Executions, NEW f \in Executions,
               key[e] = key[f], key[e] \in Keys, body[e] = body[f], answer[e] # None, answer[f] # None
        PROVE  answer[e] = answer[f]
    <2>1. Answered(e) /\ Answered(f)
      BY <1>1 DEF AnswersInv, Agreeing
    <2>2. CASE Hopeless(body[e])
      BY <1>1, <2>1, <2>2 DEF Answered
    <2>3. CASE ~Hopeless(body[e])
      <3>1. PICK r \in Executions : Finished(r) /\ key[r] = key[e] /\ answer[e] = Stored(r)
        BY <1>1, <2>1, <2>3 DEF Answered
      <3>2. PICK s \in Executions : Finished(s) /\ key[s] = key[e] /\ answer[f] = Stored(s)
        BY <1>1, <2>1, <2>3 DEF Answered
      <3>3. {r, s} \subseteq KeyRows(key[e])
        BY <1>1, <3>1, <3>2 DEF KeyRows, Finished
      <3>. QED  BY <1>1, <3>1, <3>2, <3>3 DEF OneRow, AnswersInv
    <2>. QED  BY <2>2, <2>3
  <1>2. AnswersInv => SameKeySameAnswer
    BY <1>1 DEF SameKeySameAnswer
  <1>. QED  BY <1>2, AnswersInvariance, PTL

-----------------------------------------------------------------------------
(* The refinement.  What KeyedRequests sees of an execution, in four parts. *)

SameAsker(f)  == /\ Served(f)' <=> Served(f)
                 /\ Served(f) => key'[f] = key[f] /\ (row'[f] # "none" <=> row[f] # "none")
SameResult(f) == Served(f) /\ row[f] # "none" =>
                   (Finished(f)' <=> Finished(f)) /\ (Finished(f) => Stored(f)' = Stored(f))
SameTold(f)   == Served(f) => answer'[f] = answer[f]
SameBill(f)   == Served(f) => Ledger(f)' = Ledger(f)
SameView(f)   == SameAsker(f) /\ SameResult(f) /\ SameTold(f) /\ SameBill(f)

LEMMA UntouchedView ==
  ASSUME NEW f, Untouched(f)
  PROVE  SameView(f)
  BY DEF Untouched, SameView, SameAsker, SameResult, SameTold, SameBill, Served, Finished, Stored, Ledger

LEMMA PayerFound ==
  ASSUME OneRow, NEW k \in Keys, NEW r \in PayingRows(k)
  PROVE  PayingRows(k) = {r} /\ PayingRow(k) = r
  <1>1. \A s \in PayingRows(k) : s = r
    BY DEF PayingRows, KeyRows, OneRow
  <1>2. PayingRow(k) \in PayingRows(k)
    BY DEF PayingRow
  <1>. QED  BY <1>1, <1>2

LEMMA SameAskers ==
  ASSUME \A f \in Executions : SameAsker(f)
  PROVE  Asked' = Asked /\ Payers' = Payers /\ \A k \in Keys : PayingRows(k)' = PayingRows(k)
  <1>1. Asked' = Asked
    BY DEF Asked, SameAsker
  <1>2. \A k \in Keys : PayingRows(k)' = PayingRows(k)
    BY DEF PayingRows, SameAsker
  <1>3. \A k \in Keys : PayingRow(k)' = PayingRow(k)
    BY <1>2 DEF PayingRow
  <1>. QED  BY <1>1, <1>2, <1>3 DEF Payers

LEMMA SameResultOf ==
  ASSUME NEW k \in Keys, PayingRows(k)' = PayingRows(k), \A f \in PayingRows(k) : SameResult(f)
  PROVE  Outcomes'[k] = Outcomes[k]
  <1>1. PayingRow(k)' = PayingRow(k)
    BY DEF PayingRow
  <1>2. CASE PayingRows(k) = {}
    BY <1>2 DEF Outcomes, Settled
  <1>3. CASE PayingRows(k) # {}
    <2>. DEFINE r == PayingRow(k)
    <2>1. r \in PayingRows(k)
      BY <1>3 DEF PayingRow
    <2>2. SameResult(r) /\ Served(r) /\ row[r] # "none"
      BY <2>1 DEF PayingRows
    <2>3. Finished(PayingRow(k))' <=> Finished(PayingRow(k))
      BY <1>1, <2>2 DEF SameResult, Finished
    <2>4. Finished(PayingRow(k)) => Stored(PayingRow(k))' = Stored(PayingRow(k))
      BY <1>1, <2>2 DEF SameResult, Stored
    <2>. QED  BY <1>3, <2>3, <2>4 DEF Outcomes, Settled
  <1>. QED  BY <1>2, <1>3

LEMMA SameOutcomes ==
  ASSUME \A k \in Keys : Outcomes'[k] = Outcomes[k]
  PROVE  Outcomes' = Outcomes
  BY DEF Outcomes

LEMMA SameViews ==
  ASSUME \A f \in Executions : SameView(f)
  PROVE  UNCHANGED Promise!vars
  <1>1. Asked' = Asked /\ Payers' = Payers /\ \A k \in Keys : PayingRows(k)' = PayingRows(k)
    BY SameAskers DEF SameView
  <1>2. \A k \in Keys : PayingRows(k) \subseteq Executions
    BY DEF PayingRows
  <1>3. Outcomes' = Outcomes
    BY <1>1, <1>2, SameResultOf, SameOutcomes DEF SameView
  <1>4. Told' = Told /\ Bills' = Bills
    BY DEF Told, Bills, SameView, SameAsker, SameTold, SameBill
  <1>. QED  BY <1>1, <1>3, <1>4 DEF Promise!vars

\* An execution comes with a key that can be served.
LEMMA Arrived ==
  ASSUME TypeOK, LedgerInStep, RowsInStep, NEW e \in Executions, Receive(e), NEW k \in Keys,
         Served(e)', key'[e] = k, row'[e] = "none"
  PROVE  Promise!Ask(e, k) /\ Payers' = Payers /\ Outcomes' = Outcomes /\ Bills' = Bills
  <1>1. pc[e] = "new" /\ row[e] = "none" /\ ~Served(e) /\ UNCHANGED ledgerVars
    BY DEF Receive, RefuseEarly, OpenRequest, ReuseKey, NotOpened, Arrive, RowsInStep, Served
  <1>2. \A f \in Executions : f # e => SameView(f)
    BY OthersUntouched, UntouchedView
  <1>3. Asked' = [Asked EXCEPT ![e] = k] /\ Asked[e] = None
    BY <1>1, <1>2 DEF Asked, SameView, SameAsker
  <1>4. \A m \in Keys : PayingRows(m)' = PayingRows(m)
    BY <1>1, <1>2 DEF PayingRows, SameView, SameAsker
  <1>5. \A m \in Keys : PayingRow(m)' = PayingRow(m)
    BY <1>4 DEF PayingRow
  <1>6. Payers' = Payers
    BY <1>4, <1>5 DEF Payers
  <1>7. \A m \in Keys : Outcomes'[m] = Outcomes[m]
    <2>1. ASSUME NEW m \in Keys, NEW f \in PayingRows(m)
          PROVE  SameResult(f)
      BY <1>1, <1>2, <2>1 DEF PayingRows, SameView
    <2>. QED  BY <1>4, <2>1, SameResultOf
  <1>8. Ledger(e)' = EmptyLedger
    BY <1>1 DEF RowsInStep, LedgerInStep, ledgerVars, Ledger, EmptyLedger, TypeOK
  <1>9. Bills' = Bills
    BY <1>1, <1>2, <1>8 DEF Bills, SameView, SameAsker, SameBill
  <1>. QED  BY <1>3, <1>6, <1>7, <1>9, SameOutcomes DEF Promise!Ask

LEMMA ReceivePromise ==
  ASSUME AnswersInv, NEW e \in Executions, Receive(e)
  PROVE  [Promise!Next]_(Promise!vars)
  <1>0. TypeOK /\ LedgerInStep /\ RowsInStep /\ OneRow
    BY DEF AnswersInv, IInv
  <1>1. pc[e] = "new" /\ row[e] = "none" /\ answer[e] = None /\ ~Served(e) /\ UNCHANGED ledgerVars
    BY <1>0 DEF Receive, RefuseEarly, OpenRequest, ReuseKey, NotOpened, Arrive, RowsInStep, Served
  <1>2. \A f \in Executions : f # e => SameView(f)
    BY <1>0, OthersUntouched, UntouchedView
  <1>3. CASE ~Served(e)'
    <2>1. SameView(e)
      BY <1>1, <1>3 DEF SameView, SameAsker, SameResult, SameTold, SameBill
    <2>. QED  BY <1>2, <2>1, SameViews
  <1>4. ASSUME Served(e)', row'[e] = "none", answer'[e] = None
        PROVE  Promise!Next
    <2>1. key'[e] \in Keys
      BY <1>4 DEF Served
    <2>2. Told' = Told
      BY <1>1, <1>2, <1>4 DEF Told, SameView, SameAsker, SameTold
    <2>. QED  BY <1>0, <1>4, <2>1, <2>2, Arrived DEF Promise!Next, Promise!TurnAway
  <1>5. ASSUME NEW k \in Keys \cup {EmptyKey, NoKey}, NEW b \in Bodies, OpenRequest(e, k, b), Served(e)'
        PROVE  Promise!Next
    <2>1. key'[e] = k /\ k \in Keys /\ KeyRows(k) = {} /\ answer' = answer
      BY <1>0, <1>5 DEF OpenRequest, Arrive, Served, TypeOK
    <2>2. row'[e] = "running"
      BY <1>0, <1>5, <2>1, KeysAssumption DEF OpenRequest, TypeOK
    <2>3. PayingRows(k) = {} /\ PayingRows(k)' = {e}
      <3>1. \A f \in Executions : Served(f) /\ key[f] = k => row[f] = "none"
        BY <2>1 DEF KeyRows
      <3>. QED  BY <1>2, <1>5, <2>1, <2>2, <3>1 DEF PayingRows, SameView, SameAsker, Served
    <2>4. \A m \in Keys \ {k} : PayingRows(m)' = PayingRows(m)
      BY <1>1, <1>2, <2>1 DEF PayingRows, SameView, SameAsker
    <2>5. Asked' = [Asked EXCEPT ![e] = k] /\ Asked[e] = None
      BY <1>1, <1>2, <1>5, <2>1 DEF Asked, SameView, SameAsker
    <2>6. Payers' = [Payers EXCEPT ![k] = e] /\ Payers[k] = None
      <3>1. \A m \in Keys \ {k} : PayingRow(m)' = PayingRow(m)
        BY <2>4 DEF PayingRow
      <3>2. PayingRow(k)' = e
        BY <2>3 DEF PayingRow
      <3>. QED  BY <2>1, <2>3, <2>4, <3>1, <3>2 DEF Payers
    <2>7. \A m \in Keys : Outcomes'[m] = Outcomes[m]
      <3>1. ASSUME NEW m \in Keys \ {k}, NEW f \in PayingRows(m)
            PROVE  SameResult(f)
        BY <1>1, <1>2, <3>1 DEF PayingRows, SameView
      <3>2. Outcomes[k] = None
        BY <2>1, <2>3 DEF Outcomes, Settled
      <3>3. PayingRow(k)' = e
        BY <2>3 DEF PayingRow
      <3>4. Outcomes'[k] = None
        BY <2>1, <2>2, <3>3 DEF Outcomes, Settled, Finished
      <3>. QED  BY <2>4, <3>1, <3>2, <3>4, SameResultOf
    <2>8. Told' = Told
      BY <1>1, <1>2, <1>5, <2>1 DEF Told, SameView, SameAsker, SameTold
    <2>9. Bills' = Bills
      <3>1. Ledger(e)' = EmptyLedger
        BY <1>0, <1>1 DEF RowsInStep, ledgerVars, Ledger, EmptyLedger, TypeOK
      <3>. QED  BY <1>1, <1>2, <3>1 DEF Bills, SameView, SameAsker, SameBill
    <2>10. Promise!Open(e, k)
      BY <2>5, <2>6, <2>7, <2>8, <2>9, SameOutcomes DEF Promise!Open, Promise!Ask
    <2>. QED  BY <2>1, <2>10 DEF Promise!Next
  <1>6. ASSUME NEW k \in Keys \cup {EmptyKey, NoKey}, NEW b \in Bodies, ReuseKey(e, k, b), Served(e)'
        PROVE  Promise!Next
    <2>1. key'[e] = k /\ body'[e] = b /\ k \in Keys /\ ~Hopeless(b) /\ row'[e] = "none"
      BY <1>0, <1>1, <1>6 DEF ReuseKey, Arrive, Served, TypeOK
    <2>2. CASE answer' = answer
      BY <1>1, <1>4, <1>6, <2>1, <2>2
    <2>3. CASE answer' # answer
      <3>1. PICK r \in KeyRows(k) : body[r] = b /\ Finished(r) /\ Reply(e, [status |-> row[r], cost |-> cost[r]])
        BY <1>6, <2>3 DEF ReuseKey
      <3>2. r \in PayingRows(k) /\ Stored(r) \in Response
        BY <1>0, <2>1, <3>1 DEF KeyRows, PayingRows, Served, RowsInStep, Finished, Stored, Response, TypeOK
      <3>3. Outcomes[k] = Stored(r) /\ Outcomes[k] # None
        <4>1. PayingRow(k) = r /\ PayingRows(k) # {}
          BY <1>0, <2>1, <3>2, PayerFound
        <4>. QED  BY <2>1, <3>1, <3>2, <4>1, NoneAssumption DEF Outcomes, Settled, Response, Amount
      <3>4. Told' = [Told EXCEPT ![e] = Outcomes[k]]
        <4>1. answer'[e] = Outcomes[k]
          BY <1>0, <3>1, <3>3 DEF Reply, Stored, TypeOK
        <4>. QED  BY <1>2, <1>6, <4>1 DEF Told, SameView, SameAsker, SameTold
      <3>5. Promise!Recall(e, k)
        BY <1>0, <1>6, <2>1, <3>3, <3>4, Arrived DEF Promise!Recall
      <3>. QED  BY <2>1, <3>5 DEF Promise!Next
    <2>. QED  BY <2>2, <2>3
  <1>7. ASSUME NEW k \in Keys \cup {EmptyKey, NoKey}, NEW b \in Bodies, RefuseEarly(e, k, b)
        PROVE  ~Served(e)'
    BY <1>0, <1>7 DEF RefuseEarly, Arrive, Served, Hopeless, TypeOK
  <1>8. ASSUME NEW k \in Keys \cup {EmptyKey, NoKey}, NEW b \in Bodies, NotOpened(e, k, b)
        PROVE  row'[e] = "none" /\ answer'[e] = None
    BY <1>1, <1>8 DEF NotOpened
  <1>. QED  BY <1>3, <1>4, <1>5, <1>6, <1>7, <1>8 DEF Receive

\* Whoever has spent something, or could, is the payer of its key.
LEMMA SpenderPays ==
  ASSUME OneRow, NEW e \in Executions, Served(e), row[e] = "running"
  PROVE  Promise!Unsettled(e)
  <1>1. key[e] \in Keys /\ e \in PayingRows(key[e])
    BY DEF Served, PayingRows
  <1>2. PayingRow(key[e]) = e /\ PayingRows(key[e]) # {}
    BY <1>1, PayerFound
  <1>. QED  BY <1>1, <1>2 DEF Promise!Unsettled, Asked, Payers, Outcomes, Settled, Finished

LEMMA FinishPromise ==
  ASSUME AnswersInv, NEW e \in Executions, Accept(e) \/ Reject(e)
  PROVE  [Promise!Next]_(Promise!vars)
  <1>0. TypeOK /\ LedgerInStep /\ RowsInStep /\ OneRow /\ JoinedStuck(e)
    BY DEF AnswersInv, IInv, Agreeing
  <1>1. PICK s \in {"accepted", "rejected"}, sampled \in BOOLEAN :
          Finish(e, s, sampled) /\ (s = "accepted" => pc[e] = "verifying") /\ (s = "rejected" => pc[e] = "rejecting")
    BY DEF Accept, Reject
  <1>2. \A f \in Executions : f # e => SameView(f)
    BY <1>0, OthersUntouched, UntouchedView DEF Advance
  <1>3. (Served(e)' <=> Served(e)) /\ key' = key /\ Ledger(e)' = Ledger(e)
    BY <1>0, <1>1 DEF Finish, Goto, Served, Ledger, ledgerVars, TypeOK
  <1>4. CASE ~Served(e)
    <2>1. SameView(e)
      BY <1>3, <1>4 DEF SameView, SameAsker, SameResult, SameTold, SameBill
    <2>. QED  BY <1>2, <2>1, SameViews
  <1>5. CASE Served(e)
    <2>1. ~joined[e]
      BY <1>0, <1>1, <1>5 DEF JoinedStuck, Served, Hopeless, Ended
    <2>2. row[e] = "running" /\ row'[e] = s /\ cost'[e] = total[e] /\ answer'[e] = [status |-> s, cost |-> total[e]]
      BY <1>0, <1>1, <2>1 DEF Finish, Reply, RowsInStep, TypeOK
    <2>3. answer'[e] = Stored(e)' /\ answer'[e] # None
      BY <1>0, <2>2, NoneAssumption DEF Stored, TypeOK, Amount
    <2>4. Promise!Unsettled(e)
      BY <1>0, <1>5, <2>2, SpenderPays
    <2>5. \A f \in Executions : SameAsker(f)
      BY <1>2, <1>3, <2>2 DEF SameView, SameAsker
    <2>6. Asked' = Asked /\ Payers' = Payers /\ \A k \in Keys : PayingRows(k)' = PayingRows(k)
      BY <2>5, SameAskers
    <2>7. Told' = [Told EXCEPT ![e] = answer'[e]]
      BY <1>2, <1>3, <1>5 DEF Told, SameView, SameAsker, SameTold
    <2>8. Bills' = Bills
      BY <1>2, <1>3 DEF Bills, SameView, SameAsker, SameBill
    <2>9. PICK k \in Keys : k = key[e] /\ e \in PayingRows(k) /\ Asked[e] = k
      BY <1>5, <2>2 DEF PayingRows, Served, Asked
    <2>10. Outcomes'[k] = answer'[e]
      <3>1. PayingRow(k)' = e
        BY <1>0, <2>6, <2>9, PayerFound DEF PayingRow
      <3>. QED  BY <1>1, <2>2, <2>3, <2>6, <2>9, <3>1 DEF Outcomes, Settled, Finished, Stored
    <2>11. \A m \in Keys \ {k} : Outcomes'[m] = Outcomes[m]
      <3>1. ASSUME NEW m \in Keys \ {k}, NEW f \in PayingRows(m)
            PROVE  SameResult(f)
        BY <1>2, <2>9, <3>1 DEF PayingRows, SameView
      <3>. QED  BY <2>6, <3>1, SameResultOf
    <2>12. Outcomes' = [Outcomes EXCEPT ![Asked[e]] = answer'[e]]
      BY <2>9, <2>10, <2>11 DEF Outcomes
    <2>13. Told'[e] = answer'[e]
      BY <1>3, <1>5 DEF Told
    <2>14. Promise!Settle(e)
      BY <2>3, <2>4, <2>6, <2>7, <2>8, <2>12, <2>13 DEF Promise!Settle
    <2>. QED  BY <2>14 DEF Promise!Next
  <1>. QED  BY <1>4, <1>5

\* Only the ledger of a running request moves.
LEMMA LedgerMoves ==
  ASSUME TypeOK, RowsInStep, NEW e \in Executions,
         (Advance(e) /\ ~Accept(e) /\ ~Reject(e)) \/ Elapse(e) \/ Stalled(e) \/ LockTimesOut(e) \/ CallRaises(e) \/ Crash(e)
  PROVE  row[e] = "running" \/ Ledger(e)' = Ledger(e)
  <1>1. CASE StartGeneration(e) \/ StartDecision(e)
             \/ pc[e] \in InCall
    BY <1>1 DEF StartGeneration, StartDecision, RowsInStep
  <1>2. CASE ~StartGeneration(e) /\ ~StartDecision(e) /\ pc[e] \notin InCall
    BY <1>2 DEF Advance, StopAttempts, ReserveForNoRequest, GenerationReturns, DecisionNotAfforded,
                DecisionReturns, NotPassed, Elapse, Stalled, LockTimesOut, CallRaises, Crash, ledgerVars, Ledger
  <1>. QED  BY <1>1, <1>2

LEMMA AdvancePromise ==
  ASSUME AnswersInv, NEW e \in Executions,
         (Advance(e) /\ ~Accept(e) /\ ~Reject(e)) \/ Elapse(e) \/ Stalled(e) \/ LockTimesOut(e) \/ CallRaises(e) \/ Crash(e)
  PROVE  [Promise!Next]_(Promise!vars)
  <1>0. TypeOK /\ RowsInStep /\ OneRow
    BY DEF AnswersInv, IInv
  <1>1. UNCHANGED <<row, key, body, cost, answer>>
    BY DEF Advance, StopAttempts, ReserveForNoRequest, StartGeneration, GenerationReturns, DecisionNotAfforded,
           StartDecision, DecisionReturns, NotPassed, Elapse, Stalled, LockTimesOut, CallRaises, Crash, rowVars
  <1>2. pc[e] # "new" /\ pc'[e] # "new"
    BY <1>0 DEF Advance, StopAttempts, ReserveForNoRequest, StartGeneration, GenerationReturns, DecisionNotAfforded,
                StartDecision, DecisionReturns, NotPassed, NextAttempt, Elapse, Stalled, LockTimesOut, TransactionDue, CallRaises, Crash, Goto, TypeOK
  <1>3. \A f \in Executions : f # e => SameView(f)
    BY <1>0, OthersUntouched, UntouchedView
  <1>4. SameAsker(e) /\ SameResult(e) /\ SameTold(e)
    BY <1>1, <1>2 DEF SameAsker, SameResult, SameTold, Served, Finished, Stored
  <1>5. CASE ~Served(e) \/ Ledger(e)' = Ledger(e)
    BY <1>3, <1>4, <1>5, SameViews DEF SameView, SameBill
  <1>6. CASE Served(e) /\ Ledger(e)' # Ledger(e)
    <2>1. Promise!Unsettled(e)
      BY <1>0, <1>6, LedgerMoves, SpenderPays
    <2>2. Asked' = Asked /\ Payers' = Payers /\ \A k \in Keys : PayingRows(k)' = PayingRows(k)
      BY <1>3, <1>4, SameAskers DEF SameView
    <2>3. \A k \in Keys : PayingRows(k) \subseteq Executions
      BY DEF PayingRows
    <2>4. Outcomes' = Outcomes
      BY <1>3, <1>4, <2>2, <2>3, SameResultOf, SameOutcomes DEF SameView
    <2>5. Told' = Told
      BY <1>3, <1>4 DEF Told, SameView, SameAsker, SameTold
    <2>6. Bills' = [Bills EXCEPT ![e] = Bills'[e]]
      BY <1>3 DEF Bills, SameView, SameAsker, SameBill
    <2>7. Promise!Spend(e)
      BY <2>1, <2>2, <2>4, <2>5, <2>6 DEF Promise!Spend
    <2>. QED  BY <2>7 DEF Promise!Next
  <1>. QED  BY <1>5, <1>6

(* RequestFlow implements KeyedRequests, with any number of executions,     *)
(* attempts and decision calls, whichever of them fail or die: one payer    *)
(* for each key, whose bill stands still once the outcome is settled, and   *)
(* no other answer than that outcome.                                       *)
THEOREM KeyedRefinement == Spec => KeepsPromise
  <1>1. Init => Promise!Init
    <2>1. ASSUME Init, NEW e \in Executions  PROVE ~Served(e)
      BY <2>1 DEF Init, Served
    <2>2. ASSUME Init, NEW k \in Keys  PROVE PayingRows(k) = {}
      BY <2>1, <2>2 DEF PayingRows
    <2>. QED  BY <2>1, <2>2 DEF Promise!Init, Asked, Payers, Outcomes, Settled, Told, Bills
  <1>2. AnswersInv /\ [Next]_vars => [Promise!Next]_(Promise!vars)
    <2>1. ASSUME AnswersInv, UNCHANGED vars  PROVE UNCHANGED Promise!vars
      <3>1. \A f \in Executions : SameView(f)
        BY <2>1 DEF vars, rowVars, ledgerVars, runVars, SameView, SameAsker, SameResult, SameTold, SameBill,
                    Served, Finished, Stored, Ledger
      <3>. QED  BY <3>1, SameViews
    <2>. QED  BY <2>1, ReceivePromise, FinishPromise, AdvancePromise DEF Next
  <1>. QED  BY <1>1, <1>2, AnswersInvariance, PTL DEF Spec, KeepsPromise, Promise!Spec
=============================================================================
