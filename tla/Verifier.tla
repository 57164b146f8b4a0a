------------------------------ MODULE Verifier ------------------------------
(***************************************************************************)
(* ContractVerifier: which checks a candidate gets, with which statuses,   *)
(* and what aggregate makes of them.  Pure operators.                      *)
(***************************************************************************)
EXTENDS Integers

CONSTANTS FailMax, AcceptMin,  \* thresholds of a probability, in per cent
          NoAnswer,            \* the decision call failed, or its body is malformed
          NotANumber           \* float("nan"): neither <= nor >= holds of it

ASSUME ThresholdsAssumption ==
  /\ FailMax \in Nat /\ AcceptMin \in Nat
  /\ FailMax < AcceptMin /\ AcceptMin <= 100
  /\ NoAnswer \notin Int /\ NotANumber \notin Int

CheckStatus == {"pass", "fail", "uncertain", "error"}
Families    == {"extraction", "classification", "context_qa"}

\* What a required check counts as: one that no check reports is an error.
StatusOf(checks, id) == IF id \in DOMAIN checks THEN checks[id] ELSE "error"

Aggregate(checks, required) ==
  LET statuses == {StatusOf(checks, id) : id \in required} IN
  CASE "error" \in statuses -> "error"
    [] "error" \notin statuses /\ "fail" \in statuses -> "fail"
    [] statuses \cap {"error", "fail"} = {} /\ "uncertain" \in statuses -> "uncertain"
    [] OTHER -> "pass"

\* Mutant: what is not failed has passed.
SemanticLenient(answer) ==
  CASE answer = NoAnswer -> "error"
    [] answer \in Int /\ answer <= FailMax -> "fail"
    [] OTHER -> "pass"

\* _semantic: the status of one decision call.
Semantic(answer) ==
  CASE answer = NoAnswer -> "error"
    [] answer \in Int /\ answer <= FailMax -> "fail"
    [] answer \in Int /\ answer >= AcceptMin -> "pass"
    [] OTHER -> "uncertain"

When(b) == IF b THEN "pass" ELSE "fail"

(***************************************************************************)
(* A candidate, as far as the checks look at it: fits (the output schema), *)
(* supported (all its values are substrings of the source), known (its     *)
(* label is in the taxonomy), cited (it cites, and only the source),       *)
(* abstained.  A contract: its family and allow_abstention.                *)
(***************************************************************************)
Abstains(contract, cand) == cand.abstained /\ contract.allow_abstention

\* The checks of the family that take a decision call, in the code's order.
SemanticChecks(contract, cand) ==
  CASE ~cand.fits -> <<>>
    [] cand.fits /\ contract.family = "extraction" ->
         IF cand.supported THEN <<>> ELSE <<"source_support">>
    [] cand.fits /\ contract.family = "classification" -> <<"semantic_label">>
    [] cand.fits /\ contract.family = "context_qa" ->
         IF Abstains(contract, cand) THEN <<>> ELSE <<"claim_support", "coverage">>

\* The checks decided without a call.
StructuralChecks(contract, cand) ==
  CASE ~cand.fits -> [json_schema |-> "fail"]
    [] cand.fits /\ contract.family = "extraction" ->
         IF cand.supported THEN [json_schema |-> "pass", source_support |-> "pass"]
                           ELSE [json_schema |-> "pass"]
    [] cand.fits /\ contract.family = "classification" ->
         [json_schema |-> "pass", taxonomy |-> When(cand.known)]
    [] cand.fits /\ contract.family = "context_qa" ->
         IF Abstains(contract, cand)
           THEN [json_schema |-> "pass", citations |-> "pass",
                 claim_support |-> "pass", coverage |-> "pass"]
           ELSE [json_schema |-> "pass", citations |-> When(cand.abstained \/ cand.cited)]

\* verify: answers[id] is what the decision call of check id came back with.
Verify(contract, cand, answers) ==
  LET structural == StructuralChecks(contract, cand)
      semantic   == {SemanticChecks(contract, cand)[i] : i \in DOMAIN SemanticChecks(contract, cand)}
  IN [id \in DOMAIN structural \cup semantic |->
        IF id \in semantic THEN Semantic(answers[id]) ELSE structural[id]]
=============================================================================
