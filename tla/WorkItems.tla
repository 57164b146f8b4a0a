------------------------------ MODULE WorkItems ------------------------------
(***************************************************************************)
(* What the audit queue promises, without leases, clocks or retries: every  *)
(* job is settled at most once, by the worker that took it last, and a      *)
(* worker whose job was taken over can no longer touch it.  AuditQueue is   *)
(* shown to implement this specification.                                   *)
(***************************************************************************)
CONSTANTS Jobs, Workers, Outcomes,
          None          \* no worker, no job, no outcome

VARIABLES
  phase,    \* phase[j]: absent, open (anybody may take it), held or settled
  holder,   \* holder[j]: the worker that took j last, while j is held
  held,     \* held[w]: the job w took and has neither returned nor settled
  outcome   \* outcome[j]: what j was settled with

vars == <<phase, holder, held, outcome>>

Init ==
  /\ phase   = [j \in Jobs |-> "absent"]
  /\ holder  = [j \in Jobs |-> None]
  /\ held    = [w \in Workers |-> None]
  /\ outcome = [j \in Jobs |-> None]

Add(j) ==
  /\ phase[j] = "absent"
  /\ phase' = [phase EXCEPT ![j] = "open"]
  /\ UNCHANGED <<holder, held, outcome>>

\* A free worker takes an open job, or takes over one that is held.
Take(w, j) ==
  /\ held[w] = None
  /\ phase[j] \in {"open", "held"}
  /\ phase'  = [phase EXCEPT ![j] = "held"]
  /\ holder' = [holder EXCEPT ![j] = w]
  /\ held'   = [held EXCEPT ![w] = j]
  /\ UNCHANGED outcome

\* Only the current holder may give the job back ...
Return(w, j) ==
  /\ held[w] = j /\ holder[j] = w
  /\ phase'  = [phase EXCEPT ![j] = "open"]
  /\ holder' = [holder EXCEPT ![j] = None]
  /\ held'   = [held EXCEPT ![w] = None]
  /\ UNCHANGED outcome

\* ... or settle it, once and for all.
Settle(w, j, o) ==
  /\ held[w] = j /\ holder[j] = w
  /\ phase'   = [phase EXCEPT ![j] = "settled"]
  /\ holder'  = [holder EXCEPT ![j] = None]
  /\ held'    = [held EXCEPT ![w] = None]
  /\ outcome' = [outcome EXCEPT ![j] = o]

\* Open jobs may be dropped without an outcome; held ones may not.
Drop(D) ==
  /\ \A j \in D : phase[j] = "open"
  /\ phase' = [j \in Jobs |-> IF j \in D THEN "settled" ELSE phase[j]]
  /\ UNCHANGED <<holder, held, outcome>>

Next ==
  \/ \E j \in Jobs : Add(j)
  \/ \E w \in Workers, j \in Jobs :
        \/ Take(w, j)
        \/ Return(w, j)
        \/ \E o \in Outcomes : Settle(w, j, o)
  \/ \E D \in SUBSET Jobs : Drop(D)

Spec == Init /\ [][Next]_vars
=============================================================================
