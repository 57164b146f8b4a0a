---------------------------- MODULE KeyedRequests ----------------------------
(***************************************************************************)
(* What idempotency keys promise, without attempts, calls, budgets, bodies  *)
(* or deadlines: the first execution that comes with a key pays for it, its *)
(* bill changes only until it settles the key's outcome, once, and nobody   *)
(* is ever told anything else.  RequestFlow is shown to implement this.     *)
(***************************************************************************)
CONSTANTS Executions, Keys,
          NoBill,   \* the bill of an execution that has used nothing
          None      \* no key, no payer, no outcome

VARIABLES
  asked,    \* asked[e]: the key that e came with, once it has come
  payer,    \* payer[k]: the execution that pays for k
  outcome,  \* outcome[k]: the result that is stored for k
  told,     \* told[e]: what e answered
  bill      \* bill[e]: what the ledger holds against e

vars == <<asked, payer, outcome, told, bill>>

Init ==
  /\ asked   = [e \in Executions |-> None]
  /\ payer   = [k \in Keys |-> None]
  /\ outcome = [k \in Keys |-> None]
  /\ told    = [e \in Executions |-> None]
  /\ bill    = [e \in Executions |-> NoBill]

Ask(e, k) == asked[e] = None /\ asked' = [asked EXCEPT ![e] = k]

\* The first one with the key pays ...
Open(e, k) ==
  /\ Ask(e, k)
  /\ payer[k] = None
  /\ payer' = [payer EXCEPT ![k] = e]
  /\ UNCHANGED <<outcome, told, bill>>

\* ... anybody else is told the outcome, when it comes after it, ...
Recall(e, k) ==
  /\ Ask(e, k)
  /\ outcome[k] # None
  /\ told' = [told EXCEPT ![e] = outcome[k]]
  /\ UNCHANGED <<payer, outcome, bill>>

\* ... or is never told anything: it conflicts, or came too early.
TurnAway(e, k) ==
  /\ Ask(e, k)
  /\ UNCHANGED <<payer, outcome, told, bill>>

Unsettled(e) == asked[e] \in Keys /\ payer[asked[e]] = e /\ outcome[asked[e]] = None

\* Any bill and any outcome will do.
Spend(e) ==
  /\ Unsettled(e)
  /\ bill' = [bill EXCEPT ![e] = bill'[e]]
  /\ UNCHANGED <<asked, payer, outcome, told>>

Settle(e) ==
  /\ Unsettled(e)
  /\ told'[e] # None
  /\ told'    = [told EXCEPT ![e] = told'[e]]
  /\ outcome' = [outcome EXCEPT ![asked[e]] = told'[e]]
  /\ UNCHANGED <<asked, payer, bill>>

Next == \E e \in Executions :
  \/ \E k \in Keys : Open(e, k) \/ Recall(e, k) \/ TurnAway(e, k)
  \/ Spend(e)
  \/ Settle(e)

Spec == Init /\ [][Next]_vars
=============================================================================
