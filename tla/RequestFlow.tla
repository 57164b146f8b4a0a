---------------------------- MODULE RequestFlow ----------------------------
(***************************************************************************)
(* AutopilotService.execute and the spend ledger.  An element of           *)
(* Executions is one POST /v1/generate; a client's retry is another one    *)
(* with the same key.  Every store transaction and every reply of a        *)
(* provider is one step; executions interleave between them, and any of    *)
(* them may be cut off by an exception or by the death of its process.     *)
(*                                                                         *)
(* The row that an execution inserts into requests is identified with the  *)
(* execution (both get one fresh uuid at most), and a request's rows in    *)
(* reservations and calls are summed up the way the code's queries do.     *)
(***************************************************************************)
EXTENDS Integers, Sequences, FiniteSets

CONSTANTS
  Executions,
  Keys,              \* non-empty Idempotency-Key values
  EmptyKey, NoKey,   \* the header with an empty value, and no header
  Bodies,            \* canonical requests
  Inadmissible,      \* bodies that execute refuses before it opens a request
  RouteOf,           \* RouteOf[b]: expected costs of primary and fallback; <<>>: no route
  Budget,            \* microusd per request
  Deadline,          \* of a request, in ticks
  MaxGenerations,    \* config.max_generations
  DecisionReserve,   \* config.decision_reserve_microusd
  VerifyCalls,       \* most decision calls that one verification makes
  Costs,             \* what a provider may report for one call
  LockWait,          \* longest wait of a transaction for SQLite's locks, in ticks (busy_timeout)
  MaxStalls,         \* bound: stalls of the event loop during the calls of a request
  None               \* SQL NULL / Python None

ASSUME NumbersAssumption ==
  /\ {Budget, DecisionReserve, VerifyCalls, LockWait, MaxStalls} \cup Costs \subseteq Nat
  /\ Deadline \in Nat \ {0} /\ MaxGenerations \in Nat \ {0}
  /\ None \notin Nat
\* RoutingPolicy.select only returns profiles whose expected cost fits the budget.
ASSUME RoutesAssumption ==
  /\ RouteOf \in [Bodies -> Seq(Nat)]
  /\ \A b \in Bodies : \A i \in 1..Len(RouteOf[b]) : RouteOf[b][i] <= Budget
\* NULL is no response either.
ASSUME NoneAssumption == None \notin [status : {"accepted", "rejected"}, cost : Nat \cup {None}]
ASSUME KeysAssumption ==
  EmptyKey \notin Keys /\ NoKey \notin Keys /\ EmptyKey # NoKey

VARIABLES
  \* table requests: one row per execution that inserted one
  row,        \* none, running, accepted, rejected
  key, body,  \* what the execution came with, and what its row stores
  cost,       \* cost_microusd
  audit,      \* an audit job was enqueued for the request
  \* tables reservations and calls, per request
  used,       \* the SUM that Store.reserve computes
  open,       \* amount of the reservation in status 'reserved', or None
  spent,      \* SUM(cost_microusd) over the request's calls
  nullCost,   \* some call of the request has cost_microusd NULL
  \* the coroutine
  pc, joined, \* joined: create_request returned "" and no result
  attempt, total,
  remaining,  \* remaining_s, as computed at the top of the attempt
  elapsed, callTime,
  stalls,     \* how often others held up the event loop during its calls
  todo, ok,   \* decision calls still to make; no check failed so far
  answer      \* the response

rowVars    == <<row, key, body, cost, audit>>
ledgerVars == <<used, open, spent, nullCost>>
runVars    == <<pc, joined, attempt, total, remaining, elapsed, callTime, stalls, todo, ok, answer>>
vars       == <<rowVars, ledgerVars, runVars>>

-----------------------------------------------------------------------------
Amount   == Nat \cup {None}
Response == [status : {"accepted", "rejected"}, cost : Amount]
InCall   == {"generating", "deciding"}
Ended    == {"answered", "conflict", "failed", "crashed"}
Step     == {"new", "reserving", "verifying", "rejecting"} \cup InCall \cup Ended

TypeOK ==
  /\ row       \in [Executions -> {"none", "running", "accepted", "rejected"}]
  /\ key       \in [Executions -> Keys \cup {EmptyKey, NoKey}]
  /\ body      \in [Executions -> Bodies \cup {None}]
  /\ cost      \in [Executions -> Amount]
  /\ audit     \in [Executions -> BOOLEAN]
  /\ used      \in [Executions -> Nat]
  /\ open      \in [Executions -> Amount]
  /\ spent     \in [Executions -> Nat]
  /\ nullCost  \in [Executions -> BOOLEAN]
  /\ pc        \in [Executions -> Step]
  /\ joined    \in [Executions -> BOOLEAN]
  /\ attempt   \in [Executions -> Nat]
  /\ total     \in [Executions -> Amount]
  /\ remaining \in [Executions -> Nat]
  /\ elapsed   \in [Executions -> Nat]
  /\ callTime  \in [Executions -> Nat]
  /\ stalls    \in [Executions -> Nat]
  /\ todo      \in [Executions -> 0..VerifyCalls]
  /\ ok        \in [Executions -> BOOLEAN]
  /\ answer    \in [Executions -> Response \cup {None}]

Init ==
  /\ row       = [e \in Executions |-> "none"]
  /\ key       = [e \in Executions |-> NoKey]
  /\ body      = [e \in Executions |-> None]
  /\ cost      = [e \in Executions |-> None]
  /\ audit     = [e \in Executions |-> FALSE]
  /\ used      = [e \in Executions |-> 0]
  /\ open      = [e \in Executions |-> None]
  /\ spent     = [e \in Executions |-> 0]
  /\ nullCost  = [e \in Executions |-> FALSE]
  /\ pc        = [e \in Executions |-> "new"]
  /\ joined    = [e \in Executions |-> FALSE]
  /\ attempt   = [e \in Executions |-> 0]
  /\ total     = [e \in Executions |-> 0]
  /\ remaining = [e \in Executions |-> 0]
  /\ elapsed   = [e \in Executions |-> 0]
  /\ callTime  = [e \in Executions |-> 0]
  /\ stalls    = [e \in Executions |-> 0]
  /\ todo      = [e \in Executions |-> 0]
  /\ ok        = [e \in Executions |-> FALSE]
  /\ answer    = [e \in Executions |-> None]

-----------------------------------------------------------------------------
(* Admission and create_request.                                           *)

Goto(e, step) == pc' = [pc EXCEPT ![e] = step]
Reply(e, r)   == answer' = [answer EXCEPT ![e] = r]
Rejection(c)  == [status |-> "rejected", cost |-> c]

\* Mutant: a key is known once its request is finished.
KeyRowsFinished(k) ==
  {r \in Executions : k \in Keys /\ row[r] \in {"accepted", "rejected"} /\ key[r] = k}

\* The row that create_request finds for k; an empty key is not looked up.
KeyRows(k) == {r \in Executions : k \in Keys /\ row[r] # "none" /\ key[r] = k}
Finished(r) == row[r] \in {"accepted", "rejected"}

Arrive(e, k, b) ==
  /\ pc[e] = "new"
  /\ key'  = [key EXCEPT ![e] = k]
  /\ body' = [body EXCEPT ![e] = b]

\* Streaming, an unknown contract or an oversized source.
RefuseEarly(e, k, b) ==
  /\ Arrive(e, k, b) /\ b \in Inadmissible
  /\ Reply(e, Rejection(0))
  /\ Goto(e, "answered")
  /\ UNCHANGED <<row, cost, audit, ledgerVars, joined, attempt, total, remaining, elapsed, callTime, stalls, todo, ok>>

\* The route is chosen from the body alone, and the first attempt begins.
StartAttempts(e, b) ==
  /\ attempt' = [attempt EXCEPT ![e] = 1]
  /\ Goto(e, IF RouteOf[b] = <<>> THEN "rejecting" ELSE "reserving")

OpenRequest(e, k, b) ==
  /\ Arrive(e, k, b) /\ b \notin Inadmissible
  /\ KeyRows(k) = {}
  /\ \/ \* the UNIQUE column refuses a second empty key
        /\ k = EmptyKey /\ \E r \in Executions : row[r] # "none" /\ key[r] = EmptyKey
        /\ Goto(e, "failed")
        /\ UNCHANGED <<row, attempt>>
     \/ /\ k = EmptyKey => \A r \in Executions : row[r] # "none" => key[r] # EmptyKey
        /\ row' = [row EXCEPT ![e] = "running"]
        /\ StartAttempts(e, b)
  /\ UNCHANGED <<cost, audit, ledgerVars, joined, total, remaining, elapsed, callTime, stalls, todo, ok, answer>>

\* The key is known: a conflict, the stored result, or - while there is no
\* result yet - the empty request id, with which execute carries on.
ReuseKey(e, k, b) ==
  /\ Arrive(e, k, b) /\ b \notin Inadmissible
  /\ \E r \in KeyRows(k) :
        \/ /\ body[r] # b
           /\ Goto(e, "conflict")
           /\ UNCHANGED <<joined, attempt, answer>>
        \/ /\ body[r] = b /\ Finished(r)
           /\ Reply(e, [status |-> row[r], cost |-> cost[r]])
           /\ Goto(e, "answered")
           /\ UNCHANGED <<joined, attempt>>
        \/ /\ body[r] = b /\ ~Finished(r)
           /\ joined' = [joined EXCEPT ![e] = TRUE]
           /\ StartAttempts(e, b)
           /\ UNCHANGED answer
  /\ UNCHANGED <<row, cost, audit, ledgerVars, total, remaining, elapsed, callTime, stalls, todo, ok>>

\* create_request waits for the write lock in vain: HTTP 500.
NotOpened(e, k, b) ==
  /\ Arrive(e, k, b) /\ b \notin Inadmissible
  /\ Goto(e, "failed")
  /\ UNCHANGED <<row, cost, audit, ledgerVars, joined, attempt, total, remaining, elapsed, callTime, stalls, todo, ok, answer>>

-----------------------------------------------------------------------------
(* The ledger.                                                             *)

\* Every transaction begins with BEGIN IMMEDIATE: other processes may hold
\* the write lock (Store.immediate).  The clock of an attempt starts after
\* create_request.
WaitForLock(e) == \E w \in 0..LockWait : elapsed' = [elapsed EXCEPT ![e] = @ + w]

\* Mutant: the new amount is left out of the sum.
FitsBefore(e, amount) == used[e] <= Budget

Fits(e, amount) == used[e] + amount <= Budget

\* Mutant: the reservation does not count.
ReserveUncounted(e, amount) ==
  /\ open' = [open EXCEPT ![e] = amount]
  /\ UNCHANGED <<used, spent, nullCost>>

\* Store.reserve, for a request that exists.
Reserve(e, amount) ==
  /\ used' = [used EXCEPT ![e] = @ + amount]
  /\ open' = [open EXCEPT ![e] = amount]
  /\ UNCHANGED <<spent, nullCost>>

\* What a reservation counts for once its call is recorded: the reported
\* cost, or the whole estimate when there is none.
Charge(amount, c) == IF c = None THEN amount ELSE c

\* Store.record_call.
RecordCall(e, c) ==
  /\ used'     = [used EXCEPT ![e] = @ - open[e] + Charge(open[e], c)]
  /\ open'     = [open EXCEPT ![e] = None]
  /\ spent'    = [spent EXCEPT ![e] = @ + Charge(0, c)]
  /\ nullCost' = [nullCost EXCEPT ![e] = @ \/ c = None]

\* Mutant: an unknown cost counts as zero.
AddKnownCost(t, c) == IF c = None THEN t ELSE t + c

\* total_cost: unknown for good once one call's cost is unknown.
AddCost(t, c) == IF t = None \/ c = None THEN None ELSE t + c
CountCost(e, c) == total' = [total EXCEPT ![e] = AddCost(@, c)]

\* Store.finish; with the empty request id its UPDATE matches no row.
Finish(e, status, sampled) ==
  /\ row'   = IF joined[e] THEN row ELSE [row EXCEPT ![e] = status]
  /\ cost'  = IF joined[e] THEN cost ELSE [cost EXCEPT ![e] = total[e]]
  /\ audit' = [audit EXCEPT ![e] = sampled]
  /\ Reply(e, [status |-> status, cost |-> total[e]])
  /\ Goto(e, "answered")
  /\ WaitForLock(e)
  /\ UNCHANGED <<key, body, ledgerVars, joined, attempt, total, remaining, callTime, stalls, todo, ok>>

-----------------------------------------------------------------------------
(* The attempts.                                                           *)

\* aliases[:max_generations] still has the attempt's alias.
HasAlias(e) == attempt[e] <= MaxGenerations /\ attempt[e] <= Len(RouteOf[body[e]])
\* Mutant: every attempt gets the whole deadline.
TimeLeftAlways(e) == Deadline

TimeLeft(e) == Deadline - elapsed[e]
Estimate(e) == RouteOf[body[e]][attempt[e]]
\* Mutant: the attempt is repeated.
SameAttempt(e) == UNCHANGED attempt /\ Goto(e, "reserving")

NextAttempt(e) == attempt' = [attempt EXCEPT ![e] = @ + 1] /\ Goto(e, "reserving")

\* No alias left, no time left, or no budget left.
StopAttempts(e) ==
  /\ pc[e] = "reserving"
  /\ \/ ~HasAlias(e) /\ UNCHANGED elapsed
     \/ HasAlias(e) /\ TimeLeft(e) <= 0 /\ UNCHANGED elapsed
     \/ HasAlias(e) /\ TimeLeft(e) > 0 /\ ~joined[e] /\ ~Fits(e, Estimate(e)) /\ WaitForLock(e)
  /\ Goto(e, "rejecting")
  /\ UNCHANGED <<rowVars, ledgerVars, joined, attempt, total, remaining, callTime, stalls, todo, ok, answer>>

BeginCall(e) == callTime' = [callTime EXCEPT ![e] = 0]

\* The call gets remaining_s as it was before the wait for the reservation.
StartGeneration(e) ==
  /\ pc[e] = "reserving" /\ ~joined[e]
  /\ HasAlias(e) /\ TimeLeft(e) > 0
  /\ Fits(e, Estimate(e)) /\ Reserve(e, Estimate(e))
  /\ remaining' = [remaining EXCEPT ![e] = TimeLeft(e)]
  /\ WaitForLock(e) /\ BeginCall(e)
  /\ Goto(e, "generating")
  /\ UNCHANGED <<rowVars, joined, attempt, total, stalls, todo, ok, answer>>

\* No request has the empty id: the foreign key refuses the reservation.
ReserveForNoRequest(e) ==
  /\ pc[e] = "reserving" /\ joined[e]
  /\ HasAlias(e) /\ TimeLeft(e) > 0
  /\ WaitForLock(e)
  /\ Goto(e, "failed")
  /\ UNCHANGED <<rowVars, ledgerVars, joined, attempt, total, remaining, callTime, stalls, todo, ok, answer>>

\* generate returns: succeeded, failed (with or without a cost), or, on a
\* timeout, unknown.  n is how many decision calls the candidate needs, good
\* whether the checks that need none all pass.
GenerationReturns(e, succeeded, c) ==
  /\ pc[e] = "generating"
  /\ WaitForLock(e) /\ RecordCall(e, c) /\ CountCost(e, c)
  /\ \/ /\ succeeded
        /\ \E n \in 0..VerifyCalls, good \in BOOLEAN :
              todo' = [todo EXCEPT ![e] = n] /\ ok' = [ok EXCEPT ![e] = good]
        /\ Goto(e, "verifying")
        /\ UNCHANGED attempt
     \/ /\ ~succeeded
        /\ NextAttempt(e)
        /\ UNCHANGED <<todo, ok>>
  /\ UNCHANGED <<rowVars, joined, remaining, callTime, stalls, answer>>

CheckDone(e, pass) ==
  /\ todo' = [todo EXCEPT ![e] = @ - 1]
  /\ ok'   = [ok EXCEPT ![e] = @ /\ pass]

\* _TrackedDecisionBackend.decide when the budget is used up: no call.
DecisionNotAfforded(e) ==
  /\ pc[e] = "verifying" /\ todo[e] > 0
  /\ ~Fits(e, DecisionReserve)
  /\ WaitForLock(e) /\ CheckDone(e, FALSE)
  /\ UNCHANGED <<rowVars, ledgerVars, pc, joined, attempt, total, remaining, callTime, stalls, answer>>

\* Each decision call gets remaining_s as it was before the generation.
StartDecision(e) ==
  /\ pc[e] = "verifying" /\ todo[e] > 0
  /\ Fits(e, DecisionReserve) /\ Reserve(e, DecisionReserve)
  /\ WaitForLock(e) /\ BeginCall(e)
  /\ Goto(e, "deciding")
  /\ UNCHANGED <<rowVars, joined, attempt, total, remaining, stalls, todo, ok, answer>>

DecisionReturns(e, pass, c) ==
  /\ pc[e] = "deciding"
  /\ WaitForLock(e) /\ RecordCall(e, c) /\ CountCost(e, c) /\ CheckDone(e, pass)
  /\ Goto(e, "verifying")
  /\ UNCHANGED <<rowVars, joined, attempt, remaining, callTime, stalls, answer>>

NotPassed(e) ==
  /\ pc[e] = "verifying" /\ todo[e] = 0 /\ ~ok[e]
  /\ NextAttempt(e)
  /\ UNCHANGED <<rowVars, ledgerVars, joined, total, remaining, elapsed, callTime, stalls, todo, ok, answer>>

\* Every required check passed; the audit sample is drawn at random.
Accept(e) ==
  /\ pc[e] = "verifying" /\ todo[e] = 0 /\ ok[e]
  /\ \E sampled \in BOOLEAN : Finish(e, "accepted", sampled)

Reject(e) == pc[e] = "rejecting" /\ Finish(e, "rejected", FALSE)

-----------------------------------------------------------------------------
\* A call may take until the timeout it was given, which is taken to bound
\* the whole call (httpx bounds connecting, sending and each read by it).
Elapse(e) ==
  /\ pc[e] \in InCall /\ callTime[e] < remaining[e]
  /\ callTime' = [callTime EXCEPT ![e] = @ + 1]
  /\ elapsed'  = [elapsed EXCEPT ![e] = @ + 1]
  /\ UNCHANGED <<rowVars, ledgerVars, pc, joined, attempt, total, remaining, stalls, todo, ok, answer>>

\* While e awaits a call, another coroutine of its process waits for the
\* write lock inside a transaction; that holds up the event loop, and e with
\* it, also past the timeout of its call.
Stalled(e) ==
  /\ pc[e] \in InCall /\ stalls[e] < MaxStalls
  /\ stalls' = [stalls EXCEPT ![e] = @ + 1]
  /\ \E w \in 1..LockWait :
       /\ callTime' = [callTime EXCEPT ![e] = @ + w]
       /\ elapsed'  = [elapsed EXCEPT ![e] = @ + w]
  /\ UNCHANGED <<rowVars, ledgerVars, pc, joined, attempt, total, remaining, todo, ok, answer>>

\* reserve, record_call or finish comes next.
TransactionDue(e) ==
  \/ pc[e] = "reserving" /\ HasAlias(e) /\ TimeLeft(e) > 0
  \/ pc[e] \in InCall \cup {"rejecting"}
  \/ pc[e] = "verifying" /\ (todo[e] > 0 \/ ok[e])

\* It waits for the write lock in vain: HTTP 500.
LockTimesOut(e) ==
  /\ TransactionDue(e)
  /\ elapsed' = [elapsed EXCEPT ![e] = @ + LockWait]
  /\ Goto(e, "failed")
  /\ UNCHANGED <<rowVars, ledgerVars, joined, attempt, total, remaining, callTime, stalls, todo, ok, answer>>

\* The provider raises (a body that is no JSON, a null usage): HTTP 500.
CallRaises(e) ==
  /\ pc[e] \in InCall
  /\ Goto(e, "failed")
  /\ UNCHANGED <<rowVars, ledgerVars, joined, attempt, total, remaining, elapsed, callTime, stalls, todo, ok, answer>>

\* The API process dies.
Crash(e) ==
  /\ pc[e] \notin Ended \cup {"new"}
  /\ Goto(e, "crashed")
  /\ UNCHANGED <<rowVars, ledgerVars, joined, attempt, total, remaining, elapsed, callTime, stalls, todo, ok, answer>>

Receive(e) ==
  \E k \in Keys \cup {EmptyKey, NoKey}, b \in Bodies :
    RefuseEarly(e, k, b) \/ OpenRequest(e, k, b) \/ ReuseKey(e, k, b) \/ NotOpened(e, k, b)

\* What execute does next, when it is not waiting and nothing goes wrong.
Advance(e) ==
  \/ StopAttempts(e)
  \/ StartGeneration(e)
  \/ ReserveForNoRequest(e)
  \/ \E c \in Costs \cup {None}, succeeded \in BOOLEAN : GenerationReturns(e, succeeded, c)
  \/ DecisionNotAfforded(e)
  \/ StartDecision(e)
  \/ \E c \in Costs \cup {None}, pass \in BOOLEAN : DecisionReturns(e, pass, c)
  \/ NotPassed(e)
  \/ Accept(e)
  \/ Reject(e)

Next == \E e \in Executions :
  Receive(e) \/ Advance(e) \/ Elapse(e) \/ Stalled(e) \/ LockTimesOut(e) \/ CallRaises(e) \/ Crash(e)

Spec == Init /\ [][Next]_vars

\* The event loop runs every ready coroutine, and every call has a timeout.
FairSpec == Spec /\ \A e \in Executions : WF_vars(Advance(e))

-----------------------------------------------------------------------------
(* Properties.                                                             *)

(* The response, the request's row and the calls table tell one story: an   *)
(* answered request reports the exact sum of what its calls cost, which is  *)
(* what the ledger counts, or NULL exactly when some call's cost is unknown *)
(* (decisions.md: "Unknown external spend is NULL, never zero"); and no     *)
(* reservation is left in status 'reserved'.                                *)
CostMatchesLedger ==
  \A e \in Executions : Finished(e) =>
    /\ open[e] = None
    /\ cost[e] = None <=> nullCost[e]
    /\ cost[e] # None => cost[e] = spent[e] /\ cost[e] = used[e]
    /\ answer[e] # None => answer[e].cost = cost[e]

\* Everything that may be reserved for one call.
Estimates == {DecisionReserve} \cup UNION {{RouteOf[b][i] : i \in 1..Len(RouteOf[b])} : b \in Bodies}

(* The budget: what a request has used exceeds its budget by no more than   *)
(* the excess of one call over its estimate, however many calls cost more   *)
(* than was reserved for them and however many costs are unknown.           *)
BudgetHeld ==
  \A e \in Executions :
    \/ used[e] <= Budget
    \/ \E c \in Costs, a \in Estimates : used[e] <= Budget - a + c

(* How the ledger and the coroutine hang together: one reservation is open  *)
(* exactly while a call is in flight, or for ever if the execution broke    *)
(* off in it; it was within the budget when it was made; and total_cost is  *)
(* the sum that the ledger will have once the call is recorded.             *)
LedgerInStep ==
  \A e \in Executions :
    /\ pc[e] \in InCall => open[e] # None
    /\ open[e] # None =>
         /\ pc[e] \in InCall \cup {"failed", "crashed"}
         /\ open[e] \in Estimates /\ open[e] <= used[e] /\ used[e] <= Budget
    /\ total[e] = None <=> nullCost[e]
    /\ total[e] # None => total[e] = spent[e]
    /\ total[e] # None /\ open[e] = None => used[e] = spent[e]
    /\ total[e] # None /\ open[e] # None => used[e] = spent[e] + open[e]

(* Which executions have a row, and what they have answered.                *)
RowsInStep ==
  \A e \in Executions :
    /\ pc[e] = "new" => row[e] = "none" /\ ~joined[e] /\ answer[e] = None /\ total[e] = 0
    /\ pc[e] # "new" => body[e] \in Bodies
    /\ pc[e] \in {"reserving", "rejecting"} => attempt[e] >= 1 /\ (row[e] = "running" \/ joined[e])
    /\ pc[e] \in InCall \cup {"verifying"} => attempt[e] >= 1 /\ row[e] = "running"
    /\ row[e] = "none" => used[e] = 0 /\ ~nullCost[e] /\ open[e] = None
    /\ pc[e] = "deciding" => todo[e] > 0
    /\ joined[e] => row[e] = "none"
    /\ Finished(e) =>
         pc[e] = "answered" /\ open[e] = None /\ answer[e] # None /\ cost[e] = total[e] /\ answer[e].cost = cost[e]

(* A key is spent on once: of the executions that share a key, only one     *)
(* inserts a row, and only that one reserves or pays anything.              *)
SpendOncePerKey ==
  /\ \A e \in Executions : open[e] # None \/ used[e] > 0 \/ nullCost[e] => row[e] # "none"
  /\ \A k \in Keys : Cardinality(KeyRows(k)) <= 1

\* The inductive invariant.
IInv == TypeOK /\ LedgerInStep /\ RowsInStep /\ BudgetHeld /\ SpendOncePerKey

(* Two executions with the same key that both get an answer to the same     *)
(* body get the same verdict at the same cost.  (Not the same request_id: a *)
(* joined execution without a route answers with the empty one.)            *)
SameKeySameAnswer ==
  \A e, f \in Executions :
    key[e] = key[f] /\ key[e] \in Keys /\ body[e] = body[f] /\ answer[e] # None /\ answer[f] # None
      => answer[e] = answer[f]

(* remaining_s is not recomputed between the generation and the decision    *)
(* calls of an attempt, nor after the wait for a reservation, so a request  *)
(* may take several times its deadline.  From its first attempt to its end  *)
(* it never takes more than one deadline for each call of an attempt, one   *)
(* wait for the write lock for each transaction of an attempt (two for each *)
(* call, and finish), and one for each stall by other coroutines.           *)
AnswersInTime ==
  \A e \in Executions :
    elapsed[e] <= (1 + VerifyCalls) * Deadline + (2 * VerifyCalls + 3 + stalls[e]) * LockWait

(* Every execution that was received ends.                                  *)
EveryExecutionEnds ==
  \A e \in Executions : (pc[e] # "new") ~> (pc[e] \in Ended)

(* PLAN-Final.md:232: "misma clave y peticion canonica recupera             *)
(* estado/resultado" - an execution whose key and body are known does not   *)
(* end in an error.                                                         *)
KnownKeyIsAnswered == \A e \in Executions : joined[e] => pc[e] # "failed"

(* RequestFlow implements KeyedRequests, for the requests that can be       *)
(* served: the others are rejected at no cost, whoever else has their key.  *)
Hopeless(b) == b \in Inadmissible \/ RouteOf[b] = <<>>
Served(e)   == pc[e] # "new" /\ key[e] \in Keys /\ ~Hopeless(body[e])
Stored(r)   == [status |-> row[r], cost |-> cost[r]]
Ledger(e)   == <<used[e], open[e], nullCost[e]>>
EmptyLedger == <<0, None, FALSE>>

PayingRows(k) == {r \in Executions : Served(r) /\ key[r] = k /\ row[r] # "none"}
PayingRow(k)  == CHOOSE r \in PayingRows(k) : TRUE
Settled(k)    == PayingRows(k) # {} /\ Finished(PayingRow(k))

Asked    == [e \in Executions |-> IF Served(e) THEN key[e] ELSE None]
Payers   == [k \in Keys |-> IF PayingRows(k) = {} THEN None ELSE PayingRow(k)]
Outcomes == [k \in Keys |-> IF Settled(k) THEN Stored(PayingRow(k)) ELSE None]
Told     == [e \in Executions |-> IF Served(e) THEN answer[e] ELSE None]
Bills    == [e \in Executions |-> IF Served(e) THEN Ledger(e) ELSE EmptyLedger]

Promise == INSTANCE KeyedRequests WITH
  asked <- Asked, payer <- Payers, outcome <- Outcomes, told <- Told, bill <- Bills,
  NoBill <- EmptyLedger

(* A key has one payer, who spends until it settles the key's outcome, and  *)
(* everybody who is told anything for the key is told that outcome,         *)
(* whichever executions fail or die (Store.create_request).                 *)
KeepsPromise == Promise!Spec
=============================================================================
