---------------------------- MODULE MCDecisions ----------------------------
(***************************************************************************)
(* The pure decisions, checked against independent definitions over        *)
(* bounded inputs: which route is chosen, whether a candidate is accepted, *)
(* whether the gate sends it on, what a sample of measurements is worth,   *)
(* what a configuration lets come up, and what a caller gets of a          *)
(* provider's reply.  An initial state is an input; the one step computes  *)
(* what the code answers to it.                                            *)
(***************************************************************************)
EXTENDS Verifier, RoutingPolicy, JevGate, Statistics, Configuration, Providers

CONSTANT MaxSample   \* bound on the size of a sample

CONSTANT Pending     \* not decided yet

VARIABLES input, output
vars == <<input, output>>

-----------------------------------------------------------------------------
(* Inputs of select.                                                       *)

Contract == [id |-> "c", min_quality |-> 75]
RouteBudget   == 5
RouteDeadline == 3

Profile(c, a, q, l, m, f) ==
  [contract |-> c, alias |-> a, quality |-> q, p95 |-> l, cost |-> m, fallback |-> f]

\* Good profiles, too dear ones, and one cheap profile for each other way to
\* be discarded.
Profiles ==
  {Profile("c", a, q, 3, m, f) : a \in Models, q \in {80, 90}, m \in {1, 5, 6}, f \in BOOLEAN}
    \cup {Profile("c", 1, 74, 1, 0, TRUE), Profile("c", 1, 90, 4, 0, TRUE),
          Profile("c", 3, 90, 1, 0, TRUE), Profile("d", 2, 90, 1, 0, TRUE)}

ProfileLists == UNION {[1..n -> Profiles] : n \in 0..3}

-----------------------------------------------------------------------------
(* Inputs of verify and aggregate.                                         *)

CheckIds == {"json_schema", "taxonomy", "semantic_label", "source_support",
             "citations", "claim_support", "coverage"}

\* On both sides of both thresholds, and no usable answer.
Answers == {0, FailMax, FailMax + 1, AcceptMin - 1, AcceptMin, 100, NotANumber, NoAnswer}

\* required_checks of the contracts under contracts/.
Registered(family) ==
  CASE family = "extraction"     -> {"json_schema", "source_support"}
    [] family = "classification" -> {"json_schema", "taxonomy", "semantic_label"}
    [] family = "context_qa"     -> {"json_schema", "citations", "claim_support", "coverage"}

\* Those, an empty list, and lists that miss checks or name foreign ones.
RequiredLists(family) ==
  {Registered(family), {}, CheckIds} \cup {Registered(family) \ {id} : id \in Registered(family)}

CandidateSet == [fits : BOOLEAN, supported : BOOLEAN, known : BOOLEAN, cited : BOOLEAN, abstained : BOOLEAN]

\* No family has more than two decision calls.
FirstCall(family) ==
  CASE family = "extraction" -> "source_support" [] family = "classification" -> "semantic_label"
    [] family = "context_qa" -> "claim_support"

AnswersTo(family, p, q) ==
  [id \in {FirstCall(family), "coverage"} |-> IF id = FirstCall(family) THEN p ELSE q]

-----------------------------------------------------------------------------
(* Inputs of the gate: in and out of range, at the threshold, and absent.   *)
(* (NaN is left out: what the library makes of it is not in the source.)    *)
Signals == {Absent} \cup
  [noul : {-1, 0, Threshold - 1, Threshold, 100, 101, Absent}, score : {-1, 0, 5, Absent}]

-----------------------------------------------------------------------------
(* A sample: its first calls fail and are slow, the others are right.       *)
Latencies(s, n) == [j \in 1..n |-> IF j <= n - s THEN 2 ELSE 1]

-----------------------------------------------------------------------------
(* Replies.  Costs, in tenths of a microusd, on both sides of a half.       *)
Replies ==
  [http : {"timeout", "error", "ok"}, body : {"object", "odd", "garbage"},
   cost : {0, 4, 5, 14, 15, 2000, NoCost}, content : {"usable", "missing", "empty"}]

-----------------------------------------------------------------------------
Init ==
  /\ output = Pending
  /\ \/ \E profiles \in ProfileLists : input = [kind |-> "route", profiles |-> profiles]
     \/ \E family \in Families, allow \in BOOLEAN, cand \in CandidateSet, p, q \in Answers :
          \E required \in RequiredLists(family) :
             /\ family # "context_qa" => q = NoAnswer
             /\ input = [kind |-> "candidate", contract |-> [family |-> family, allow_abstention |-> allow],
                         cand |-> cand, required |-> required, p |-> p, q |-> q]
     \/ \E asked, succeeded, abstained \in BOOLEAN, answers \in Signals :
          input = [kind |-> "gate", asked |-> asked, succeeded |-> succeeded,
                   answers |-> answers, abstained |-> abstained]
     \/ \E n \in 1..MaxSample : \E s \in 0..n :
          input = [kind |-> "sample", successes |-> s, size |-> n]
     \/ \E config \in Configs : input = [kind |-> "config", config |-> config]
     \/ \E provider \in {"generation", "openrouter", "typesafe"}, reply \in Replies :
          input = [kind |-> "reply", provider |-> provider, reply |-> reply]

ChooseRoute ==
  /\ input.kind = "route" /\ output = Pending
  /\ output' = Select(input.profiles, Contract, RouteBudget, RouteDeadline)
  /\ UNCHANGED input

Judge ==
  /\ input.kind = "candidate" /\ output = Pending
  /\ output' = Aggregate(Verify(input.contract, input.cand, AnswersTo(input.contract.family, input.p, input.q)),
                         input.required)
  /\ UNCHANGED input

AskGate ==
  /\ input.kind = "gate" /\ output = Pending
  /\ output' = Gate(input.asked, input.succeeded, input.answers, input.abstained)
  /\ UNCHANGED input

Summarize ==
  /\ input.kind = "sample" /\ output = Pending
  /\ output' = [quality |-> WilsonLower(input.successes, input.size),
                p95     |-> Percentile95(Latencies(input.successes, input.size))]
  /\ UNCHANGED input

StartUp ==
  /\ input.kind = "config" /\ output = Pending
  /\ output' = IF Serves(input.config)
                 THEN [api |-> Verifying(input.config), worker |-> Judging(input.config)]
                 ELSE Raised
  /\ UNCHANGED input

ReadReply ==
  /\ input.kind = "reply" /\ output = Pending
  /\ output' = Call(input.provider, input.reply)
  /\ UNCHANGED input

Next == ChooseRoute \/ Judge \/ AskGate \/ Summarize \/ StartUp \/ ReadReply
Spec == Init /\ [][Next]_vars

-----------------------------------------------------------------------------
(* Reference definitions and properties.                                   *)

Decided(kind) == input.kind = kind /\ output # Pending

Eligible(p) ==
  /\ p.contract = Contract.id /\ p.alias \in Models
  /\ p.quality >= Contract.min_quality /\ p.p95 <= RouteDeadline /\ p.cost <= RouteBudget

Offers(a) == {p \in {input.profiles[i] : i \in DOMAIN input.profiles} : Eligible(p) /\ p.alias = a}

\* p costs no more than anything in S, and where they cost the same it is at
\* least as good.
Cheapest(p, S) == \A x \in S : p.cost < x.cost \/ (p.cost = x.cost /\ p.quality >= x.quality)

(* The route is the cheapest one among the profiles that satisfy quality,   *)
(* deadline and budget; the fallback is another model, qualified as a       *)
(* fallback, and the cheapest such one; the estimate lies between the cost  *)
(* of the primary and that of both; and there is no route only when nothing *)
(* is eligible.                                                             *)
RouteIsCheapest ==
  Decided("route") =>
    LET all == UNION {Offers(a) : a \in Models} IN
    IF output = NoRoute THEN all = {}
    ELSE \E p \in Offers(output.primary) :
           LET others == {x \in all : x.alias # output.primary /\ x.fallback} IN
           /\ Cheapest(p, all)
           /\ output.fallback = NoFallback => others = {} /\ output.trajectory = p.cost
           /\ output.fallback # NoFallback =>
                \E s \in others : /\ s.alias = output.fallback /\ Cheapest(s, others)
                                  /\ output.trajectory \in p.cost..(p.cost + s.cost)

Satisfied(answer) == answer \in Int /\ answer >= AcceptMin

\* A candidate deserves to be accepted under its family's registered checks.
Acceptable(contract, cand, p, q) ==
  /\ cand.fits
  /\ contract.family = "extraction"     => cand.supported \/ Satisfied(p)
  /\ contract.family = "classification" => cand.known /\ Satisfied(p)
  /\ contract.family = "context_qa"     =>
       \/ cand.abstained /\ contract.allow_abstention
       \/ (cand.cited \/ cand.abstained) /\ Satisfied(p) /\ Satisfied(q)

(* A candidate passes its contract exactly when it is acceptable: no error, *)
(* timeout, undecided or malformed answer, and no abstention that the       *)
(* contract does not allow, is ever taken for a pass.  And however else a   *)
(* contract lists its required checks, if it lists any: a candidate that    *)
(* does not fit the schema is not accepted, for the checks that verify then *)
(* leaves out count as errors.                                              *)
AcceptedWhenAcceptable ==
  Decided("candidate") =>
    /\ input.required = Registered(input.contract.family) =>
         (output = "pass" <=> Acceptable(input.contract, input.cand, input.p, input.q))
    /\ input.required # {} /\ ~input.cand.fits => output # "pass"

Denied(answer)    == answer \in Int /\ answer <= FailMax
Undecided(answer) == answer # NoAnswer /\ ~Denied(answer) /\ ~Satisfied(answer)

(* What the benchmark counts as a success is refused only on account of a   *)
(* decision call (its gold label being one of the taxonomy).  The service   *)
(* refuses every aggregate other than PASS: here a failure means that a     *)
(* call denied the support, an uncertain verdict that one was undecided,    *)
(* and an error that one failed, timed out, was malformed or was not        *)
(* afforded.  No check without a call refuses such a candidate, although    *)
(* the quality that the router relies on is measured by another code than   *)
(* the one that delivers.                                                   *)
OnlyDecisionsRefuse ==
  Decided("candidate") /\ input.required = Registered(input.contract.family) /\ output # "pass" =>
    LET asked == IF input.contract.family = "context_qa" THEN {input.p, input.q} ELSE {input.p} IN
    \A right, goldAbstains \in BOOLEAN :
      /\ Evaluate(input.contract.family, input.cand, right, goldAbstains)
      /\ input.contract.family = "classification" => input.cand.known
      => \E answer \in asked :
           \/ output = "fail" /\ Denied(answer)
           \/ output = "uncertain" /\ Undecided(answer)
           \/ output = "error" /\ answer = NoAnswer

InRange(x, S) == x = Absent \/ x \in S

(* "A broken diagnostic call cannot silently force every request onto the   *)
(* expensive fallback" (jev_gate.py): the gate sends a candidate on only    *)
(* when a call that succeeded said the evidence is probably missing, and    *)
(* never an abstaining one; and only numbers out of range stop the          *)
(* experiment (parse_signals itself promises that nothing does).            *)
GateNeedsAFlag ==
  Decided("gate") =>
    LET answered == input.asked /\ input.succeeded /\ input.answers # Absent IN
    /\ output = "escalate" <=>
         /\ answered /\ ~input.abstained
         /\ input.answers.noul \in Threshold..100 /\ InRange(input.answers.score, Nat)
    /\ output = "stop" =>
         answered /\ ~(InRange(input.answers.noul, 0..100) /\ InRange(input.answers.score, Nat))

Share(s, n, bound) == 100 * Cardinality({j \in 1..n : Latencies(s, n)[j] < bound})

(* The quality bound stays below the rate that was measured, never rises    *)
(* with a failure or falls with a success, and comes closer with more       *)
(* evidence of the same rate; the latency of a profile covers 95 calls of   *)
(* 100, and no smaller one does.                                            *)
SampleJudgedFairly ==
  Decided("sample") =>
    LET s == input.successes  n == input.size IN
    /\ output.quality * n <= 100 * s /\ (s > 0 => output.quality * n < 100 * s)
    /\ WilsonLower(s, n + 1) <= output.quality /\ output.quality <= WilsonLower(s + 1, n + 1)
    /\ output.quality <= WilsonLower(2 * s, 2 * n)
    /\ Share(s, n, output.p95) < 95 * n /\ Share(s, n, output.p95 + 1) >= 95 * n

HasKey(c) == IF c.transport = "openrouter_decisions" THEN c.openrouterKey ELSE c.typesafeKey

(* Where the API comes up, the worker audits with the backend that verified *)
(* online exactly when there is a key for it and the transport is not       *)
(* "local", which the API takes for TypeSafe and the worker for nothing;    *)
(* active mode leaves only that exception.                                  *)
AuditedByVerifier ==
  Decided("config") /\ output # Raised =>
    LET c == input.config IN
    /\ output.worker = output.api <=> c.mode = "fixture" \/ (c.transport # "local" /\ HasKey(c))
    /\ c.mode = "active" /\ c.transport # "local" => output.api.keyed /\ output.worker = output.api

\* The provider answered, in a form that says what the call cost.
Billed(r) == r.http = "ok" /\ r.body = "object" /\ r.cost # NoCost

(* openrouter.py:31, "never report a known cost as unknown": a caller is    *)
(* told the cost of a call exactly when the reply names one, to half a      *)
(* microusd, also when the call failed.  Two calls are excepted: TypeSafe   *)
(* tells no costs, and an empty list of choices raises, though it bills.    *)
(* Time-outs and errors of HTTP never raise.                                *)
BillsKept ==
  Decided("reply") =>
    LET r == input.reply IN
    /\ output.cost # NoCost => r.cost # NoCost /\ 10 * output.cost - r.cost \in (-4)..5
    /\ output.cost # NoCost <=>
         /\ Billed(r) /\ input.provider # "typesafe"
         /\ ~(input.provider = "generation" /\ r.content = "empty")
    /\ output.status = "raised" => r.http = "ok" /\ (r.body = "object" => r.content = "empty")
=============================================================================
