----------------------------- MODULE Providers -----------------------------
(***************************************************************************)
(* What a caller gets of an HTTP reply: OpenRouterProvider.generate,       *)
(* OpenRouterDecisions.decide, TypeSafeDirect.decide, and resolve_tier for *)
(* the judge router.  Pure operators on a reply                            *)
(*   http      "timeout", "error" (no connection, a status that is no      *)
(*             success), "ok"                                              *)
(*   body      "object", "odd" (JSON, but no object, or with a usage that  *)
(*             is none), "garbage" (no JSON)                               *)
(*   cost      usage.cost in tenths of a microusd, or NoCost               *)
(*   content   "usable"; "missing": a refusal, no answers, malformed;      *)
(*             "empty": choices is an empty list                           *)
(***************************************************************************)
EXTENDS Integers

CONSTANT NoCost   \* a cost that is not reported: None

ASSUME NoCostAssumption == NoCost \notin Int

\* An exception that leaves the call is the status "raised".
Result(status, cost) == [status |-> status, cost |-> cost]

\* usd_to_microusd, for costs that are not negative: half a microusd is rounded up.
Microusd(tenths) == IF tenths = NoCost THEN NoCost ELSE (tenths + 5) \div 10

\* Mutant: the cost is read with the content.
BillOfUsable(r) == IF r.content = "usable" THEN Microusd(r.cost) ELSE NoCost

\* The cost comes from the envelope, whatever the content is.
Bill(r) == Microusd(r.cost)

\* The two failures that httpx reports.
Unanswered(r) == IF r.http = "timeout" THEN Result("unknown", NoCost) ELSE Result("failed", NoCost)

\* generate: nobody catches a body that is no JSON or odd, nor the IndexError
\* of an empty list of choices.
Generate(r) ==
  CASE r.http # "ok" -> Unanswered(r)
    [] r.http = "ok" /\ (r.body # "object" \/ r.content = "empty") -> Result("raised", NoCost)
    [] r.http = "ok" /\ r.body = "object" /\ r.content = "missing" -> Result("failed", Bill(r))
    [] r.http = "ok" /\ r.body = "object" /\ r.content = "usable"  -> Result("succeeded", Bill(r))

\* OpenRouterDecisions.decide reads no list; without answers it has failed.
DecideOpenRouter(r) ==
  CASE r.http # "ok" -> Unanswered(r)
    [] r.http = "ok" /\ r.body # "object" -> Result("raised", NoCost)
    [] r.http = "ok" /\ r.body = "object" /\ r.content # "usable" -> Result("failed", Bill(r))
    [] r.http = "ok" /\ r.body = "object" /\ r.content = "usable" -> Result("succeeded", Bill(r))

\* TypeSafeDirect.decide catches a body that is no JSON, and reports no cost.
DecideTypeSafe(r) ==
  CASE r.http # "ok" -> Unanswered(r)
    [] r.http = "ok" /\ r.body = "odd" -> Result("raised", NoCost)
    [] r.http = "ok" /\ (r.body = "garbage" \/ (r.body = "object" /\ r.content # "usable")) -> Result("failed", NoCost)
    [] r.http = "ok" /\ r.body = "object" /\ r.content = "usable" -> Result("succeeded", NoCost)

Call(provider, r) ==
  CASE provider = "generation" -> Generate(r)
    [] provider = "openrouter" -> DecideOpenRouter(r)
    [] provider = "typesafe"   -> DecideTypeSafe(r)
=============================================================================
