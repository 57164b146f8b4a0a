--------------------------- MODULE DecisionsProofs ---------------------------
(***************************************************************************)
(* Theorems about the decisions of MCDecisions, for every threshold and    *)
(* every answer of a decision call: the route, the verdict on a candidate, *)
(* the gate, the worth of a sample, the backends that a configuration      *)
(* yields, and the costs of replies.                                       *)
(***************************************************************************)
EXTENDS MCDecisions, StatisticsProofs

-----------------------------------------------------------------------------
(* The verifier.                                                           *)

\* What a decision call may come back with.
Returned == Int \cup {NoAnswer, NotANumber}

(* The status of a decision call: passed exactly when the answer is a       *)
(* number that reaches the threshold, failed exactly when it is one that    *)
(* stays at or below the other, in error when there is none (verifier.py,   *)
(* _semantic).                                                              *)
LEMMA SemanticStatus ==
  ASSUME NEW answer \in Returned
  PROVE  /\ Semantic(answer) \in CheckStatus
         /\ Semantic(answer) = "pass" <=> Satisfied(answer)
         /\ Semantic(answer) = "fail" <=> Denied(answer)
         /\ Semantic(answer) = "uncertain" <=> Undecided(answer)
         /\ Semantic(answer) = "error" <=> answer = NoAnswer
BY ThresholdsAssumption DEF Returned, Semantic, Satisfied, Denied, Undecided, CheckStatus

(* aggregate passes when every required check has passed, and otherwise it  *)
(* is the status of one of them (verifier.py, aggregate).                   *)
LEMMA AggregatePasses ==
  ASSUME NEW checks, NEW required, \A id \in required : StatusOf(checks, id) \in CheckStatus
  PROVE  /\ Aggregate(checks, required) = "pass" <=> \A id \in required : StatusOf(checks, id) = "pass"
         /\ Aggregate(checks, required) # "pass" =>
              \E id \in required : StatusOf(checks, id) = Aggregate(checks, required)
         /\ Aggregate(checks, required) \in CheckStatus
  <1>. DEFINE statuses == {StatusOf(checks, id) : id \in required}
  <1>1. statuses \subseteq CheckStatus
    OBVIOUS
  <1>2. Aggregate(checks, required) = "pass" <=> \A s \in statuses : s = "pass"
    BY <1>1 DEF Aggregate, CheckStatus
  <1>3. /\ Aggregate(checks, required) \in CheckStatus
        /\ Aggregate(checks, required) # "pass" => Aggregate(checks, required) \in statuses
    BY <1>1 DEF Aggregate, CheckStatus
  <1>. QED  BY <1>2, <1>3

(* What the simulated decision calls answer.                                *)
LEMMA AnswerGiven ==
  ASSUME NEW family \in Families, NEW p, NEW q
  PROVE  /\ AnswersTo(family, p, q)[FirstCall(family)] = p
         /\ AnswersTo(family, p, q)["coverage"] = q
BY DEF AnswersTo, FirstCall, Families

SemanticIds(contract, cand) ==
  {SemanticChecks(contract, cand)[i] : i \in DOMAIN SemanticChecks(contract, cand)}

(* The decision calls of each family (verifier.py, _extraction,             *)
(* _classification, _qa).                                                   *)
LEMMA CallsOfFamily ==
  ASSUME NEW contract, NEW cand, cand.fits
  PROVE  /\ contract.family = "extraction" =>
              SemanticIds(contract, cand) = IF cand.supported THEN {} ELSE {"source_support"}
         /\ contract.family = "classification" => SemanticIds(contract, cand) = {"semantic_label"}
         /\ contract.family = "context_qa" =>
              SemanticIds(contract, cand) = IF Abstains(contract, cand) THEN {} ELSE {"claim_support", "coverage"}
  <1>1. \A a : {<<a>>[i] : i \in DOMAIN <<a>>} = {a}
    OBVIOUS
  <1>2. \A a, b : {<<a, b>>[i] : i \in DOMAIN <<a, b>>} = {a, b}
    OBVIOUS
  <1>3. {<< >>[i] : i \in DOMAIN << >>} = {}
    OBVIOUS
  <1>4. CASE contract.family = "extraction"
    BY <1>4, <1>1, <1>3 DEF SemanticIds, SemanticChecks
  <1>5. CASE contract.family = "classification"
    BY <1>5, <1>1 DEF SemanticIds, SemanticChecks
  <1>6. CASE contract.family = "context_qa"
    BY <1>6, <1>2, <1>3 DEF SemanticIds, SemanticChecks
  <1>. QED  BY <1>4, <1>5, <1>6

(* What each check of a candidate comes to, when it fits the schema.        *)
LEMMA StatusOfChecks ==
  ASSUME NEW family \in Families, NEW allow \in BOOLEAN, NEW cand \in CandidateSet, cand.fits,
         NEW p \in Returned, NEW q \in Returned, NEW checks,
         checks = Verify([family |-> family, allow_abstention |-> allow], cand, AnswersTo(family, p, q))
  PROVE  /\ StatusOf(checks, "json_schema") = "pass"
         /\ family = "extraction" =>
              StatusOf(checks, "source_support") = IF cand.supported THEN "pass" ELSE Semantic(p)
         /\ family = "classification" =>
              /\ StatusOf(checks, "taxonomy") = When(cand.known)
              /\ StatusOf(checks, "semantic_label") = Semantic(p)
         /\ family = "context_qa" =>
              LET asked == ~(cand.abstained /\ allow) IN
              /\ StatusOf(checks, "citations") = When(cand.abstained \/ cand.cited)
              /\ StatusOf(checks, "claim_support") = IF asked THEN Semantic(p) ELSE "pass"
              /\ StatusOf(checks, "coverage") = IF asked THEN Semantic(q) ELSE "pass"
  <1>. DEFINE contract == [family |-> family, allow_abstention |-> allow]
              answers  == AnswersTo(family, p, q)
              structural == StructuralChecks(contract, cand)
  <1>1. /\ contract.family = family
        /\ Abstains(contract, cand) <=> cand.abstained /\ allow
    BY DEF Abstains, CandidateSet
  <1>2. checks = [id \in DOMAIN structural \cup SemanticIds(contract, cand) |->
                    IF id \in SemanticIds(contract, cand) THEN Semantic(answers[id]) ELSE structural[id]]
    BY DEF Verify, SemanticIds
  <1>3. answers[FirstCall(family)] = p /\ answers["coverage"] = q
    BY AnswerGiven
  <1>4. CASE family = "extraction"
    <2>1. answers["source_support"] = p
      BY <1>3, <1>4 DEF FirstCall
    <2>2. SemanticIds(contract, cand) = IF cand.supported THEN {} ELSE {"source_support"}
      BY <1>1, <1>4, CallsOfFamily
    <2>3. structural = IF cand.supported THEN [json_schema |-> "pass", source_support |-> "pass"]
                                         ELSE [json_schema |-> "pass"]
      BY <1>1, <1>4 DEF StructuralChecks
    <2>4. CASE cand.supported
      BY <1>2, <2>2, <2>3, <2>4, <1>4 DEF StatusOf
    <2>5. CASE ~cand.supported
      BY <1>2, <2>1, <2>2, <2>3, <2>5, <1>4 DEF StatusOf
    <2>. QED  BY <2>4, <2>5
  <1>5. CASE family = "classification"
    <2>1. answers["semantic_label"] = p
      BY <1>3, <1>5 DEF FirstCall
    <2>2. SemanticIds(contract, cand) = {"semantic_label"}
      BY <1>1, <1>5, CallsOfFamily
    <2>3. structural = [json_schema |-> "pass", taxonomy |-> When(cand.known)]
      BY <1>1, <1>5 DEF StructuralChecks
    <2>. QED  BY <1>2, <2>1, <2>2, <2>3, <1>5 DEF StatusOf
  <1>6. CASE family = "context_qa"
    <2>1. answers["claim_support"] = p /\ answers["coverage"] = q
      BY <1>3, <1>6 DEF FirstCall
    <2>2. SemanticIds(contract, cand) = IF cand.abstained /\ allow THEN {} ELSE {"claim_support", "coverage"}
      BY <1>1, <1>6, CallsOfFamily
    <2>3. structural = IF cand.abstained /\ allow
                         THEN [json_schema |-> "pass", citations |-> "pass",
                               claim_support |-> "pass", coverage |-> "pass"]
                         ELSE [json_schema |-> "pass", citations |-> When(cand.abstained \/ cand.cited)]
      BY <1>1, <1>6 DEF StructuralChecks
    <2>4. CASE cand.abstained /\ allow
      BY <1>2, <2>2, <2>3, <2>4, <1>6 DEF StatusOf, When
    <2>5. CASE ~(cand.abstained /\ allow)
      BY <1>2, <2>1, <2>2, <2>3, <2>5, <1>6 DEF StatusOf
    <2>. QED  BY <2>4, <2>5
  <1>. QED  BY <1>4, <1>5, <1>6 DEF Families

(* What the verdict on a candidate is: aggregate over the checks of verify. *)
Verdict(family, allow, cand, p, q, required) ==
  Aggregate(Verify([family |-> family, allow_abstention |-> allow], cand, AnswersTo(family, p, q)), required)

(* A candidate that does not fit the schema has one check, which failed.    *)
LEMMA UnfitStatus ==
  ASSUME NEW contract, NEW cand, ~cand.fits, NEW answers, NEW id
  PROVE  StatusOf(Verify(contract, cand, answers), id) = IF id = "json_schema" THEN "fail" ELSE "error"
  <1>1. {SemanticChecks(contract, cand)[i] : i \in DOMAIN SemanticChecks(contract, cand)} = {}
    BY DEF SemanticChecks
  <1>2. StructuralChecks(contract, cand) = [json_schema |-> "fail"]
    BY DEF StructuralChecks
  <1>. QED  BY <1>1, <1>2 DEF StatusOf, Verify

(* For all thresholds and all answers, a candidate passes the registered    *)
(* checks of its family exactly when it is acceptable.                      *)
LEMMA PassedWhenAcceptable ==
  ASSUME NEW family \in Families, NEW allow \in BOOLEAN, NEW cand \in CandidateSet,
         NEW p \in Returned, NEW q \in Returned
  PROVE  Verdict(family, allow, cand, p, q, Registered(family)) = "pass"
           <=> Acceptable([family |-> family, allow_abstention |-> allow], cand, p, q)
  <1>. DEFINE contract == [family |-> family, allow_abstention |-> allow]
              checks   == Verify(contract, cand, AnswersTo(family, p, q))
  <1>1. contract.family = family /\ contract.allow_abstention = allow
    OBVIOUS
  <1>2. CASE ~cand.fits
    <2>1. \A id : StatusOf(checks, id) = IF id = "json_schema" THEN "fail" ELSE "error"
      BY <1>2, UnfitStatus
    <2>2. \A id \in Registered(family) : StatusOf(checks, id) \in CheckStatus
      BY <2>1 DEF CheckStatus
    <2>3. "json_schema" \in Registered(family)
      BY DEF Registered, Families
    <2>4. Aggregate(checks, Registered(family)) # "pass"
      BY <2>1, <2>2, <2>3, AggregatePasses
    <2>. QED  BY <2>4, <1>2 DEF Verdict, Acceptable
  <1>3. CASE cand.fits
    <2>1. /\ Semantic(p) \in CheckStatus /\ (Semantic(p) = "pass" <=> Satisfied(p))
          /\ Semantic(q) \in CheckStatus /\ (Semantic(q) = "pass" <=> Satisfied(q))
      BY SemanticStatus
    <2>2. StatusOf(checks, "json_schema") = "pass"
      BY <1>3, StatusOfChecks
    <2>3. CASE family = "extraction"
      <3>1. StatusOf(checks, "source_support") = IF cand.supported THEN "pass" ELSE Semantic(p)
        BY <1>3, <2>3, StatusOfChecks
      <3>2. Registered(family) = {"json_schema", "source_support"}
        BY <2>3 DEF Registered
      <3>3. \A id \in Registered(family) : StatusOf(checks, id) \in CheckStatus
        BY <2>1, <2>2, <3>1, <3>2 DEF CheckStatus
      <3>4. Aggregate(checks, Registered(family)) = "pass" <=> cand.supported \/ Satisfied(p)
        BY <2>1, <2>2, <3>1, <3>2, <3>3, AggregatePasses
      <3>. QED  BY <3>4, <1>1, <1>3, <2>3 DEF Verdict, Acceptable
    <2>4. CASE family = "classification"
      <3>1. /\ StatusOf(checks, "taxonomy") = When(cand.known)
            /\ StatusOf(checks, "semantic_label") = Semantic(p)
        BY <1>3, <2>4, StatusOfChecks
      <3>2. Registered(family) = {"json_schema", "taxonomy", "semantic_label"}
        BY <2>4 DEF Registered
      <3>3. \A id \in Registered(family) : StatusOf(checks, id) \in CheckStatus
        BY <2>1, <2>2, <3>1, <3>2 DEF CheckStatus, When
      <3>4. Aggregate(checks, Registered(family)) = "pass" <=> cand.known /\ Satisfied(p)
        BY <2>1, <2>2, <3>1, <3>2, <3>3, AggregatePasses DEF When, CandidateSet
      <3>. QED  BY <3>4, <1>1, <1>3, <2>4 DEF Verdict, Acceptable
    <2>5. CASE family = "context_qa"
      <3>. DEFINE asked == ~(cand.abstained /\ allow)
      <3>1. /\ StatusOf(checks, "citations") = When(cand.abstained \/ cand.cited)
            /\ StatusOf(checks, "claim_support") = IF asked THEN Semantic(p) ELSE "pass"
            /\ StatusOf(checks, "coverage") = IF asked THEN Semantic(q) ELSE "pass"
        BY <1>3, <2>5, StatusOfChecks
      <3>2. Registered(family) = {"json_schema", "citations", "claim_support", "coverage"}
        BY <2>5 DEF Registered
      <3>3. \A id \in Registered(family) : StatusOf(checks, id) \in CheckStatus
        BY <2>1, <2>2, <3>1, <3>2 DEF CheckStatus, When
      <3>4. Aggregate(checks, Registered(family)) = "pass"
              <=> (cand.cited \/ cand.abstained) /\ (asked => Satisfied(p) /\ Satisfied(q))
        BY <2>1, <2>2, <3>1, <3>2, <3>3, AggregatePasses DEF When, CandidateSet
      <3>. QED  BY <3>4, <1>1, <1>3, <2>5 DEF Verdict, Acceptable, CandidateSet
    <2>. QED  BY <2>3, <2>4, <2>5 DEF Families
  <1>. QED  BY <1>2, <1>3

(* For all thresholds and all answers: when a candidate that the benchmark  *)
(* counts as a success does not pass its registered checks, one of them     *)
(* that took a decision call has the status of the verdict (the gold label  *)
(* being one of the taxonomy).                                              *)
LEMMA RefusedForAnAnswer ==
  ASSUME NEW family \in Families, NEW allow \in BOOLEAN, NEW cand \in CandidateSet,
         NEW p \in Returned, NEW q \in Returned, NEW right \in BOOLEAN, NEW goldAbstains \in BOOLEAN,
         Evaluate(family, cand, right, goldAbstains),
         family = "classification" => cand.known,
         NEW verdict, verdict = Verdict(family, allow, cand, p, q, Registered(family)), verdict # "pass"
  PROVE  /\ verdict \in CheckStatus
         /\ \E answer \in (IF family = "context_qa" THEN {p, q} ELSE {p}) : Semantic(answer) = verdict
  <1>. DEFINE contract == [family |-> family, allow_abstention |-> allow]
              checks   == Verify(contract, cand, AnswersTo(family, p, q))
              decisive(id) == id \in Registered(family) /\ StatusOf(checks, id) = verdict
  <1>1. cand.fits
    BY DEF Evaluate
  <1>2. Semantic(p) \in CheckStatus /\ Semantic(q) \in CheckStatus
    BY SemanticStatus
  <1>3. StatusOf(checks, "json_schema") = "pass"
    BY <1>1, StatusOfChecks
  <1>4. (\A id \in Registered(family) : StatusOf(checks, id) \in CheckStatus) =>
          verdict \in CheckStatus /\ \E id : decisive(id)
    BY AggregatePasses DEF Verdict
  <1>5. CASE family = "extraction"
    <2>1. StatusOf(checks, "source_support") = IF cand.supported THEN "pass" ELSE Semantic(p)
      BY <1>1, <1>5, StatusOfChecks
    <2>2. Registered(family) = {"json_schema", "source_support"}
      BY <1>5 DEF Registered
    <2>. QED  BY <1>2, <1>3, <1>4, <1>5, <2>1, <2>2 DEF CheckStatus
  <1>6. CASE family = "classification"
    <2>1. StatusOf(checks, "taxonomy") = "pass" /\ StatusOf(checks, "semantic_label") = Semantic(p)
      BY <1>1, <1>6, StatusOfChecks DEF When
    <2>2. Registered(family) = {"json_schema", "taxonomy", "semantic_label"}
      BY <1>6 DEF Registered
    <2>. QED  BY <1>2, <1>3, <1>4, <1>6, <2>1, <2>2 DEF CheckStatus
  <1>7. CASE family = "context_qa"
    <2>1. cand.abstained \/ cand.cited
      BY <1>7 DEF Evaluate
    <2>2. Registered(family) = {"json_schema", "citations", "claim_support", "coverage"}
      BY <1>7 DEF Registered
    <2>3. StatusOf(checks, "citations") = "pass"
      BY <1>1, <1>7, <2>1, StatusOfChecks DEF When
    <2>4. /\ StatusOf(checks, "claim_support") \in {"pass", Semantic(p)}
          /\ StatusOf(checks, "coverage") \in {"pass", Semantic(q)}
      BY <1>1, <1>7, StatusOfChecks
    <2>. QED  BY <1>2, <1>3, <1>4, <1>7, <2>2, <2>3, <2>4 DEF CheckStatus
  <1>. QED  BY <1>5, <1>6, <1>7 DEF Families

-----------------------------------------------------------------------------
(* The router.                                                             *)

ProfileTyped(p) == p.cost \in Nat /\ p.quality \in 0..100 /\ p.alias \in Nat

(* What stands first in the sorted list is one of its profiles, and no      *)
(* other one precedes it (policy.py, select).                               *)
LEMMA BestPrecedes ==
  ASSUME NEW profiles, NEW places \in SUBSET Nat, places # {},
         \A i \in places : ProfileTyped(profiles[i])
  PROVE  \E i \in places : /\ Best(profiles, places) = profiles[i]
                           /\ \A k \in places : ~Before(profiles[k], profiles[i])
  <1>. DEFINE First(i) == \A k \in places : /\ ~Before(profiles[k], profiles[i])
                                            /\ k < i => Before(profiles[i], profiles[k])
              cost    == [i \in places |-> profiles[i].cost]
              quality == [i \in places |-> profiles[i].quality]
              alias   == [i \in places |-> profiles[i].alias]
  <1>1. cost \in [places -> Nat] /\ quality \in [places -> 0..100] /\ alias \in [places -> Nat]
    BY DEF ProfileTyped
  <1>2. \A i \in places : /\ cost[i] = profiles[i].cost /\ quality[i] = profiles[i].quality
                          /\ alias[i] = profiles[i].alias
    OBVIOUS
  <1>. HIDE DEF cost, quality, alias
  <1>3. PICK i \in places : \A k \in places : /\ ~Ahead(cost, quality, alias, k, i)
                                              /\ k < i => Ahead(cost, quality, alias, i, k)
    BY <1>1, Foremost
  <1>4. First(i)
    BY <1>2, <1>3 DEF Before, Ahead
  <1>. DEFINE best == CHOOSE j \in places : First(j)
  <1>5. best \in places /\ First(best)
    <2>. HIDE DEF First
    <2>. QED  BY <1>4
  <1>6. Best(profiles, places) = profiles[best]
    BY Zenon DEF Best
  <1>. QED  BY <1>5, <1>6

(* A share of a cost, rounded, is at most the cost.                         *)
LEMMA RoundedShare ==
  ASSUME NEW q \in 0..100, NEW c \in Nat
  PROVE  RoundPercent((100 - q) * c) \in 0..c
  <1>. DEFINE n == (100 - q) * c  d == n \div 100  r == n % 100
  <1>1. n \in Nat /\ n <= 100 * c
    <2>1. q * c \in Nat /\ (100 - q) * c = 100 * c - q * c
      OBVIOUS
    <2>2. \A k \in 0..100 : k * c \in Nat
      OBVIOUS
    <2>3. 100 - q \in 0..100
      OBVIOUS
    <2>. QED  BY <2>1, <2>2, <2>3
  <1>. HIDE DEF n
  <1>2. d \in Nat /\ r \in 0..99 /\ n = 100 * d + r
    BY <1>1
  <1>3. RoundPercent(n) = IF r > 50 \/ (r = 50 /\ d % 2 = 1) THEN d + 1 ELSE d
    BY DEF RoundPercent
  <1>. HIDE DEF d, r
  <1>. QED  BY <1>1, <1>2, <1>3 DEF n

(* For every list of profiles, contract, budget and deadline: there is no   *)
(* route only when there is no candidate; else the primary is a candidate   *)
(* that no other one precedes, and the fallback one among the qualified     *)
(* ones (policy.py, select).                                                *)
LEMMA SelectPicks ==
  ASSUME NEW profiles, NEW contract, NEW budget, NEW deadline,
         DOMAIN profiles \in SUBSET Nat, \A i \in DOMAIN profiles : ProfileTyped(profiles[i]),
         NEW cands, cands = Candidates(profiles, contract, budget, deadline),
         NEW route, route = Select(profiles, contract, budget, deadline)
  PROVE  /\ cands = {} => route = NoRoute
         /\ cands # {} =>
              /\ route # NoRoute
              /\ \E i \in cands :
                   LET qualified == {k \in cands : profiles[k].fallback /\ profiles[k].alias # profiles[i].alias} IN
                   /\ route.primary = profiles[i].alias
                   /\ \A k \in cands : ~Before(profiles[k], profiles[i])
                   /\ qualified = {} => route.fallback = NoFallback /\ route.trajectory = profiles[i].cost
                   /\ qualified # {} => \E j \in qualified :
                        /\ route.fallback = profiles[j].alias
                        /\ \A k \in qualified : ~Before(profiles[k], profiles[j])
                        /\ route.trajectory \in profiles[i].cost..(profiles[i].cost + profiles[j].cost)
  <1>1. cands \in SUBSET DOMAIN profiles /\ \A i \in cands : profiles[i].alias \in Models
    BY DEF Candidates, Reason
  <1>2. CASE cands = {}
    BY <1>2 DEF Select
  <1>3. CASE cands # {}
    <2>1. \A S \in SUBSET cands : S \in SUBSET Nat /\ \A i \in S : ProfileTyped(profiles[i])
      BY <1>1
    <2>2. PICK i \in cands : /\ Best(profiles, cands) = profiles[i]
                             /\ \A k \in cands : ~Before(profiles[k], profiles[i])
      BY <1>3, <2>1, BestPrecedes
    <2>. DEFINE qualified == {k \in cands : profiles[k].fallback /\ profiles[k].alias # profiles[i].alias}
    <2>3. CASE qualified = {}
      <3>1. route = Route(profiles[i].alias, NoFallback, profiles[i].cost)
        BY <1>3, <2>2, <2>3 DEF Select
      <3>2. route # NoRoute
        <4>1. profiles[i].cost \in Int /\ profiles[i].alias \in Models
          BY <1>1, <2>1 DEF ProfileTyped
        <4>. QED  BY <3>1, <4>1, ModelsAssumption DEF Route
      <3>. QED  BY <1>3, <2>2, <2>3, <3>1, <3>2 DEF Route
    <2>4. CASE qualified # {}
      <3>1. PICK j \in qualified : /\ Best(profiles, qualified) = profiles[j]
                                   /\ \A k \in qualified : ~Before(profiles[k], profiles[j])
        <4>. HIDE DEF qualified
        <4>1. qualified \in SUBSET cands
          BY DEF qualified
        <4>. QED  BY <2>1, <2>4, <4>1, BestPrecedes
      <3>. DEFINE expected == profiles[i].cost + RoundPercent((100 - profiles[i].quality) * profiles[j].cost)
      <3>2. route = Route(profiles[i].alias, profiles[j].alias, expected)
        BY <1>3, <2>2, <2>4, <3>1 DEF Select
      <3>3. expected \in profiles[i].cost..(profiles[i].cost + profiles[j].cost)
        <4>1. /\ profiles[i].cost \in Nat /\ profiles[j].cost \in Nat
              /\ profiles[i].quality \in 0..100
          BY <2>1, <2>2 DEF ProfileTyped
        <4>2. RoundPercent((100 - profiles[i].quality) * profiles[j].cost) \in 0..profiles[j].cost
          BY <4>1, RoundedShare
        <4>. QED  BY <4>1, <4>2
      <3>. HIDE DEF expected
      <3>4. route # NoRoute
        <4>1. expected \in Int /\ profiles[i].alias \in Models /\ profiles[j].alias \in Models
          BY <1>1, <2>1, <3>3 DEF ProfileTyped
        <4>. QED  BY <3>2, <4>1, ModelsAssumption DEF Route
      <3>. QED  BY <1>3, <2>2, <2>4, <3>1, <3>2, <3>3, <3>4 DEF Route
    <2>. QED  BY <2>3, <2>4
  <1>. QED  BY <1>2, <1>3

-----------------------------------------------------------------------------
(* The invariant: an input is of one of the kinds, and an answer is what    *)
(* the code computes from it.                                               *)

IsCandidate(in) ==
  /\ in.contract = [family |-> in.contract.family, allow_abstention |-> in.contract.allow_abstention]
  /\ in.contract.family \in Families /\ in.contract.allow_abstention \in BOOLEAN
  /\ in.cand \in CandidateSet /\ in.p \in Returned /\ in.q \in Returned

IsGate(in) ==
  {in.asked, in.succeeded, in.abstained} \subseteq BOOLEAN /\ in.answers \in Signals

IsSample(in) == in.size \in Nat \ {0} /\ in.successes \in 0..in.size

IsReply(in) == in.provider \in {"generation", "openrouter", "typesafe"} /\ in.reply \in Replies

AnswerOf(in) ==
  CASE in.kind = "route" -> Select(in.profiles, Contract, RouteBudget, RouteDeadline)
    [] in.kind = "sample" -> [quality |-> WilsonLower(in.successes, in.size),
                              p95 |-> Percentile95(Latencies(in.successes, in.size))]
    [] in.kind = "candidate" ->
         Verdict(in.contract.family, in.contract.allow_abstention, in.cand, in.p, in.q, in.required)
    [] in.kind = "gate"   -> Gate(in.asked, in.succeeded, in.answers, in.abstained)
    [] in.kind = "config" ->
         IF Serves(in.config) THEN [api |-> Verifying(in.config), worker |-> Judging(in.config)] ELSE Raised
    [] in.kind = "reply" -> Call(in.provider, in.reply)

IInv ==
  /\ input.kind = "route"     => input.profiles \in ProfileLists
  /\ input.kind = "sample"    => IsSample(input)
  /\ input.kind = "candidate" => IsCandidate(input)
  /\ input.kind = "gate"      => IsGate(input)
  /\ input.kind = "config"    => input.config \in Configs
  /\ input.kind = "reply"     => IsReply(input)
  /\ output # Pending => output = AnswerOf(input)

LEMMA InputKinds == Init => IInv
  <1>. SUFFICES ASSUME Init  PROVE IInv
    OBVIOUS
  <1>1. output = Pending
    BY DEF Init
  <1>2. CASE \E profiles \in ProfileLists : input = [kind |-> "route", profiles |-> profiles]
    BY <1>1, <1>2 DEF IInv
  <1>3. CASE \E n \in 1..MaxSample : \E s \in 0..n : input = [kind |-> "sample", successes |-> s, size |-> n]
    BY <1>1, <1>3 DEF IInv, IsSample
  <1>4. CASE \E config \in Configs : input = [kind |-> "config", config |-> config]
    BY <1>1, <1>4 DEF IInv
  <1>5. ASSUME NEW asked \in BOOLEAN, NEW succeeded \in BOOLEAN, NEW abstained \in BOOLEAN,
               NEW answers \in Signals,
               input = [kind |-> "gate", asked |-> asked, succeeded |-> succeeded,
                        answers |-> answers, abstained |-> abstained]
        PROVE  IInv
    BY <1>1, <1>5 DEF IInv, IsGate
  <1>6. ASSUME NEW family \in Families, NEW allow \in BOOLEAN, NEW cand \in CandidateSet,
               NEW p \in Answers, NEW q \in Answers, NEW required,
               input = [kind |-> "candidate", contract |-> [family |-> family, allow_abstention |-> allow],
                        cand |-> cand, required |-> required, p |-> p, q |-> q]
        PROVE  IInv
    <2>1. Answers \subseteq Returned
      BY ThresholdsAssumption DEF Answers, Returned
    <2>. QED  BY <1>1, <1>6, <2>1 DEF IInv, IsCandidate
  <1>7. ASSUME NEW provider \in {"generation", "openrouter", "typesafe"}, NEW reply \in Replies,
               input = [kind |-> "reply", provider |-> provider, reply |-> reply]
        PROVE  IInv
    BY <1>1, <1>7 DEF IInv, IsReply
  <1>. QED  BY <1>2, <1>3, <1>4, <1>5, <1>6, <1>7 DEF Init

LEMMA AnswersStand == IInv /\ [Next]_vars => IInv'
  <1>. SUFFICES ASSUME IInv, [Next]_vars  PROVE IInv'
    OBVIOUS
  <1>1. CASE UNCHANGED vars
    BY <1>1 DEF vars, IInv
  <1>2. CASE ChooseRoute \/ Summarize
    <2>1. output' = AnswerOf(input) /\ input' = input
      BY <1>2 DEF ChooseRoute, Summarize, AnswerOf
    <2>. QED  BY <2>1 DEF IInv
  <1>3. CASE Judge
    <2>1. output' = AnswerOf(input) /\ input' = input
      BY <1>3 DEF Judge, AnswerOf, Verdict, IInv, IsCandidate
    <2>. QED  BY <2>1 DEF IInv
  <1>4. CASE AskGate \/ StartUp \/ ReadReply
    <2>1. output' = AnswerOf(input) /\ input' = input
      BY <1>4 DEF AskGate, StartUp, ReadReply, AnswerOf
    <2>. QED  BY <2>1 DEF IInv
  <1>. QED  BY <1>1, <1>2, <1>3, <1>4 DEF Next

LEMMA Invariant == Spec => []IInv
  BY InputKinds, AnswersStand, PTL DEF Spec

-----------------------------------------------------------------------------
(* The theorems.                                                            *)

(* However a contract lists its required checks, a candidate that does not  *)
(* fit the schema is not accepted (verifier.py, aggregate).                 *)
LEMMA UnfitRefused ==
  ASSUME NEW contract, NEW cand, ~cand.fits, NEW answers, NEW required, required # {}
  PROVE  Aggregate(Verify(contract, cand, answers), required) # "pass"
  <1>1. \A id \in required : StatusOf(Verify(contract, cand, answers), id) \in {"fail", "error"}
    BY UnfitStatus
  <1>2. \A id \in required : StatusOf(Verify(contract, cand, answers), id) \in CheckStatus
    BY <1>1 DEF CheckStatus
  <1>. QED  BY <1>1, <1>2, AggregatePasses

\* The answer to a list of profiles is the route that the reference asks for.
LEMMA RouteRight == ASSUME IInv  PROVE RouteIsCheapest
  <1>. SUFFICES ASSUME Decided("route")
                PROVE  LET all == UNION {Offers(a) : a \in Models} IN
                       IF output = NoRoute THEN all = {}
                       ELSE \E p \in Offers(output.primary) :
                              LET others == {x \in all : x.alias # output.primary /\ x.fallback} IN
                              /\ Cheapest(p, all)
                              /\ output.fallback = NoFallback => others = {} /\ output.trajectory = p.cost
                              /\ output.fallback # NoFallback =>
                                   \E s \in others : /\ s.alias = output.fallback /\ Cheapest(s, others)
                                                     /\ output.trajectory \in p.cost..(p.cost + s.cost)
    BY Zenon DEF RouteIsCheapest
  <1>. DEFINE profiles == input.profiles
              cands    == Candidates(profiles, Contract, RouteBudget, RouteDeadline)
              all      == UNION {Offers(a) : a \in Models}
  <1>1. /\ profiles \in ProfileLists /\ output = Select(profiles, Contract, RouteBudget, RouteDeadline)
    BY DEF IInv, AnswerOf, Decided
  <1>2. \A p \in Profiles : ProfileTyped(p) /\ p.p95 \in Nat
    BY ModelsAssumption DEF Profiles, Profile, ProfileTyped
  <1>3. /\ DOMAIN profiles \in SUBSET Nat
        /\ \A i \in DOMAIN profiles : ProfileTyped(profiles[i]) /\ profiles[i].p95 \in Nat
    <2>1. PICK n \in 0..3 : profiles \in [1..n -> Profiles]
      BY <1>1 DEF ProfileLists
    <2>. QED  BY <1>2, <2>1
  <1>4. cands = {i \in DOMAIN profiles : Eligible(profiles[i])}
    <2>1. ASSUME NEW p, ProfileTyped(p), p.p95 \in Nat
          PROVE  Eligible(p) <=> /\ p.contract = Contract.id
                                 /\ Reason(p, Contract, RouteBudget, RouteDeadline) = "eligible"
      BY <2>1 DEF Reason, Eligible, ProfileTyped, Contract, RouteBudget, RouteDeadline
    <2>. QED  BY <1>3, <2>1 DEF Candidates
  <1>5. \A p : p \in all <=> \E i \in cands : p = profiles[i]
    BY <1>4 DEF Offers, Eligible
  <1>6. \A a : \A i \in cands : profiles[i].alias = a => profiles[i] \in Offers(a)
    BY <1>4 DEF Offers
  <1>7. ASSUME NEW S \in SUBSET cands, NEW i \in S, \A k \in S : ~Before(profiles[k], profiles[i]),
               NEW T, \A p \in T : \E k \in S : p = profiles[k]
        PROVE  Cheapest(profiles[i], T)
    <2>1. \A k \in S : profiles[k].cost \in Nat /\ profiles[k].quality \in Nat
      BY <1>3, <1>4 DEF ProfileTyped
    <2>. QED  BY <1>7, <2>1 DEF Before, Cheapest
  <1>. HIDE DEF profiles, cands, all
  <1>8. /\ cands = {} => output = NoRoute
        /\ cands # {} =>
              /\ output # NoRoute
              /\ \E i \in cands :
                   LET qualified == {k \in cands : profiles[k].fallback /\ profiles[k].alias # profiles[i].alias} IN
                   /\ output.primary = profiles[i].alias
                   /\ \A k \in cands : ~Before(profiles[k], profiles[i])
                   /\ qualified = {} => output.fallback = NoFallback /\ output.trajectory = profiles[i].cost
                   /\ qualified # {} => \E j \in qualified :
                        /\ output.fallback = profiles[j].alias
                        /\ \A k \in qualified : ~Before(profiles[k], profiles[j])
                        /\ output.trajectory \in profiles[i].cost..(profiles[i].cost + profiles[j].cost)
    BY <1>1, <1>3, SelectPicks DEF cands
  <1>9. CASE cands = {}
    BY <1>5, <1>8, <1>9 DEF all
  <1>10. CASE cands # {}
    <2>1. PICK i \in cands :
            LET qualified == {k \in cands : profiles[k].fallback /\ profiles[k].alias # profiles[i].alias} IN
            /\ output.primary = profiles[i].alias
            /\ \A k \in cands : ~Before(profiles[k], profiles[i])
            /\ qualified = {} => output.fallback = NoFallback /\ output.trajectory = profiles[i].cost
            /\ qualified # {} => \E j \in qualified :
                 /\ output.fallback = profiles[j].alias
                 /\ \A k \in qualified : ~Before(profiles[k], profiles[j])
                 /\ output.trajectory \in profiles[i].cost..(profiles[i].cost + profiles[j].cost)
      BY <1>8, <1>10
    <2>. DEFINE qualified == {k \in cands : profiles[k].fallback /\ profiles[k].alias # profiles[i].alias}
                others    == {x \in all : x.alias # output.primary /\ x.fallback}
                p         == profiles[i]
    <2>2. p \in Offers(output.primary) /\ Cheapest(p, all)
      <3>1. p \in Offers(output.primary)
        BY <1>6, <2>1
      <3>2. \A x \in all : \E k \in cands : x = profiles[k]
        BY <1>5
      <3>3. cands \in SUBSET cands /\ i \in cands /\ \A k \in cands : ~Before(profiles[k], profiles[i])
        BY <2>1
      <3>4. Cheapest(profiles[i], all)
        BY <1>7, <3>2, <3>3
      <3>. QED  BY <3>1, <3>4
    <2>3. \A x : x \in others <=> \E k \in qualified : x = profiles[k]
      BY <1>5, <2>1
    <2>4. CASE qualified = {}
      <3>1. others = {} /\ output.fallback = NoFallback /\ output.trajectory = p.cost
        <4>1. others = {}
          BY <2>3, <2>4
        <4>. QED  BY <2>1, <2>4, <4>1
      <3>. QED  BY <1>8, <1>10, <2>2, <3>1 DEF all
    <2>5. CASE qualified # {}
      <3>1. PICK j \in qualified :
              /\ output.fallback = profiles[j].alias
              /\ \A k \in qualified : ~Before(profiles[k], profiles[j])
              /\ output.trajectory \in p.cost..(p.cost + profiles[j].cost)
        BY <2>1, <2>5
      <3>2. profiles[j] \in others /\ Cheapest(profiles[j], others)
        <4>1. profiles[j] \in others /\ \A x \in others : \E k \in qualified : x = profiles[k]
          BY <2>3
        <4>2. qualified \in SUBSET cands
          OBVIOUS
        <4>. HIDE DEF others, qualified
        <4>3. Cheapest(profiles[j], others)
          BY <1>7, <3>1, <4>1, <4>2
        <4>. QED  BY <4>1, <4>3
      <3>3. output.fallback # NoFallback
        BY <1>4, <3>1, ModelsAssumption DEF Eligible
      <3>. HIDE DEF others, qualified, p
      <3>4. /\ output.fallback = NoFallback => others = {} /\ output.trajectory = p.cost
            /\ output.fallback # NoFallback =>
                 \E s \in others : /\ s.alias = output.fallback /\ Cheapest(s, others)
                                   /\ output.trajectory \in p.cost..(p.cost + s.cost)
        BY <3>1, <3>2, <3>3
      <3>. QED  BY <1>8, <1>10, <2>2, <3>4 DEF all, others
    <2>. QED  BY <2>4, <2>5
  <1>. QED  BY <1>9, <1>10

(* For all models and all lists of profiles, the chosen route is the        *)
(* cheapest one among those that satisfy the contract, the budget and the   *)
(* deadline, its fallback the cheapest qualified other model, and the       *)
(* estimate lies between the cost of the one and of both (policy.py).       *)
THEOREM RoutesCheapest == Spec => []RouteIsCheapest
  BY RouteRight, Invariant, PTL

(* For samples of every size: the quality bound stays below the rate that   *)
(* was measured, never rises with a failure nor falls with a success, and   *)
(* comes closer with more evidence of the same rate; the latency covers 95  *)
(* calls of 100, and no smaller one does (benchmark.py, wilson_lower and    *)
(* percentile95).                                                           *)
THEOREM SamplesFair == Spec => []SampleJudgedFairly
  <1>1. ASSUME NEW n \in Nat \ {0}, NEW s \in 0..n, NEW v, v = Percentile95(Latencies(s, n))
        PROVE  Share(s, n, v) < 95 * n /\ Share(s, n, v + 1) >= 95 * n
    <2>. DEFINE D == 1..n  values == Latencies(s, n)
    <2>1. IsFiniteSet(D) /\ Cardinality(D) = n /\ D # {}
      <3>1. /\ 1 \in Int /\ n \in Int /\ ~(1 > n) /\ n - 1 + 1 = n /\ 1 \in D
        OBVIOUS
      <3>2. IsFiniteSet(1..n) /\ Cardinality(1..n) = IF 1 > n THEN 0 ELSE n - 1 + 1
        BY <3>1, FS_Interval
      <3>. QED  BY <3>1, <3>2
    <2>2. values \in [D -> Nat]
      BY DEF Latencies
    <2>. HIDE DEF D, values
    <2>3. /\ v \in Nat
          /\ 100 * Cardinality({j \in D : values[j] <= v}) >= 95 * Cardinality(D)
          /\ 100 * Cardinality({j \in D : values[j] < v}) < 95 * Cardinality(D)
      BY <1>1, <2>1, <2>2, PercentileCovers DEF values
    <2>4. {j \in D : values[j] <= v} = {j \in D : values[j] < v + 1}
      BY <2>2, <2>3
    <2>. QED  BY <2>1, <2>3, <2>4 DEF Share, D, values
  <1>2. IInv => SampleJudgedFairly
    <2>. SUFFICES ASSUME IInv, Decided("sample")  PROVE SampleJudgedFairly
      BY DEF SampleJudgedFairly
    <2>. DEFINE s == input.successes  n == input.size
    <2>1. n \in Nat \ {0} /\ s \in 0..n
      BY DEF IInv, IsSample, Decided
    <2>2. output.quality = WilsonLower(s, n) /\ output.p95 = Percentile95(Latencies(s, n))
      BY DEF IInv, AnswerOf, Decided
    <2>. HIDE DEF s, n
    <2>3. /\ output.quality * n <= 100 * s /\ (s > 0 => output.quality * n < 100 * s)
          /\ WilsonLower(s, n + 1) <= output.quality /\ output.quality <= WilsonLower(s + 1, n + 1)
          /\ output.quality <= WilsonLower(2 * s, 2 * n)
      BY <2>1, <2>2, WilsonMoves
    <2>4. Share(s, n, output.p95) < 95 * n /\ Share(s, n, output.p95 + 1) >= 95 * n
      BY <1>1, <2>1, <2>2
    <2>. QED  BY <2>3, <2>4 DEF SampleJudgedFairly, s, n
  <1>. QED  BY <1>2, Invariant, PTL

(* For every pair of thresholds, a candidate passes its contract exactly    *)
(* when it is acceptable: no error, time-out, undecided or malformed answer *)
(* of a decision call is ever taken for a pass; and under any other list of *)
(* required checks none passes that does not fit the schema (verifier.py).  *)
THEOREM VerdictsRight == Spec => []AcceptedWhenAcceptable
  <1>1. ASSUME IInv, Decided("candidate"), input.required = Registered(input.contract.family)
        PROVE  output = "pass" <=> Acceptable(input.contract, input.cand, input.p, input.q)
    BY <1>1, PassedWhenAcceptable DEF IInv, IsCandidate, AnswerOf, Decided
  <1>2. ASSUME IInv, Decided("candidate"), input.required # {}, ~input.cand.fits
        PROVE  output # "pass"
    BY <1>2, UnfitRefused DEF IInv, AnswerOf, Verdict, Decided
  <1>3. IInv => AcceptedWhenAcceptable
    BY <1>1, <1>2 DEF AcceptedWhenAcceptable
  <1>. QED  BY Invariant, <1>3, PTL

(* For all thresholds and all answers, what the benchmark counts as a       *)
(* success is refused, be it by a failed, an uncertain or an erroneous      *)
(* verdict, only on account of a decision call that denied it, was          *)
(* undecided, or gave no usable answer (benchmark.py, evaluate;             *)
(* verifier.py; service.py, execute).                                       *)
THEOREM SuccessesDelivered == Spec => []OnlyDecisionsRefuse
  <1>1. ASSUME NEW answer \in Returned, NEW verdict \in CheckStatus, verdict # "pass",
               Semantic(answer) = verdict
        PROVE  \/ verdict = "fail" /\ Denied(answer)
               \/ verdict = "uncertain" /\ Undecided(answer)
               \/ verdict = "error" /\ answer = NoAnswer
    BY <1>1, SemanticStatus DEF CheckStatus
  <1>2. ASSUME IInv, Decided("candidate"), input.required = Registered(input.contract.family),
               output # "pass", NEW right \in BOOLEAN, NEW goldAbstains \in BOOLEAN,
               Evaluate(input.contract.family, input.cand, right, goldAbstains),
               input.contract.family = "classification" => input.cand.known
        PROVE  LET asked == IF input.contract.family = "context_qa" THEN {input.p, input.q} ELSE {input.p} IN
               \E answer \in asked :
                 \/ output = "fail" /\ Denied(answer)
                 \/ output = "uncertain" /\ Undecided(answer)
                 \/ output = "error" /\ answer = NoAnswer
    <2>. DEFINE family == input.contract.family  allow == input.contract.allow_abstention
                asked  == IF family = "context_qa" THEN {input.p, input.q} ELSE {input.p}
    <2>1. /\ family \in Families /\ allow \in BOOLEAN /\ input.cand \in CandidateSet
          /\ input.p \in Returned /\ input.q \in Returned
          /\ output = Verdict(family, allow, input.cand, input.p, input.q, Registered(family))
      BY <1>2 DEF IInv, IsCandidate, AnswerOf, Decided
    <2>2. output \in CheckStatus /\ \E answer \in asked : Semantic(answer) = output
      BY <1>2, <2>1, RefusedForAnAnswer
    <2>3. asked \subseteq Returned
      BY <2>1
    <2>. QED  BY <1>1, <1>2, <2>2, <2>3
  <1>3. IInv => OnlyDecisionsRefuse
    BY <1>2 DEF OnlyDecisionsRefuse
  <1>. QED  BY Invariant, <1>3, PTL

(* The gate escalates only on a successful answer that flags missing        *)
(* evidence, and stops the experiment only on numbers out of range          *)
(* (jev_gate.py, jev_signals.py).                                           *)
THEOREM GateOnFlagsOnly == Spec => []GateNeedsAFlag
  <1>1. ASSUME NEW asked \in BOOLEAN, NEW succeeded \in BOOLEAN, NEW abstained \in BOOLEAN,
               NEW answers \in Signals
        PROVE  LET verdict  == Gate(asked, succeeded, answers, abstained)
                   answered == asked /\ succeeded /\ answers # Absent
               IN /\ verdict = "escalate" <=>
                       /\ answered /\ ~abstained
                       /\ answers.noul \in Threshold..100 /\ InRange(answers.score, Nat)
                  /\ verdict = "stop" =>
                       answered /\ ~(InRange(answers.noul, 0..100) /\ InRange(answers.score, Nat))
    <2>. DEFINE verdict == Gate(asked, succeeded, answers, abstained)
                shadow  == EvaluateShadow(asked, succeeded, answers)
    <2>1. answers # Absent =>
            /\ answers.noul \in Int \cup {Absent} /\ answers.score \in Int \cup {Absent}
      BY ThresholdAssumption DEF Signals
    <2>2. CASE ~(asked /\ succeeded /\ answers # Absent)
      <3>1. /\ shadow.signals \in {Absent, [probability |-> Absent, difficulty |-> Absent]}
            /\ shadow.status = "evaluated" => shadow.signals.probability = Absent
        BY <2>2 DEF EvaluateShadow, ParseSignals
      <3>2. shadow.signals # Raised
        <4>1. [probability |-> Absent, difficulty |-> Absent]
                \in [probability : Int \cup {Absent}, difficulty : Int \cup {Absent}]
          OBVIOUS
        <4>. QED  BY <3>1, <4>1, RaisedAssumption
      <3>3. ~ShouldEscalate(shadow, abstained)
        BY <3>1, ThresholdAssumption DEF ShouldEscalate, Flags
      <3>. QED  BY <2>2, <3>2, <3>3 DEF Gate
    <2>3. CASE asked /\ succeeded /\ answers # Absent /\ Refused(answers)
      <3>1. shadow.signals = Raised
        BY <2>3 DEF EvaluateShadow, ParseSignals
      <3>2. verdict = "stop"
        BY <3>1 DEF Gate
      <3>3. ~(InRange(answers.noul, 0..100) /\ InRange(answers.score, Nat))
        BY <2>1, <2>3, ThresholdAssumption DEF Refused, InRange
      <3>4. ~(answers.noul \in Threshold..100 /\ InRange(answers.score, Nat))
        BY <3>3, ThresholdAssumption DEF InRange
      <3>. QED  BY <2>3, <3>2, <3>3, <3>4
    <2>4. CASE asked /\ succeeded /\ answers # Absent /\ ~Refused(answers)
      <3>1. /\ shadow.status = "evaluated"
            /\ shadow.signals = [probability |-> answers.noul, difficulty |-> answers.score]
        BY <2>4 DEF EvaluateShadow, ParseSignals
      <3>2. shadow.signals # Raised
        <4>1. [probability |-> answers.noul, difficulty |-> answers.score]
                \in [probability : Int \cup {Absent}, difficulty : Int \cup {Absent}]
          BY <2>1, <2>4
        <4>. QED  BY <3>1, <4>1, RaisedAssumption
      <3>3. verdict = IF Flags(answers.noul) /\ ~abstained THEN "escalate" ELSE "keep"
        BY <3>1, <3>2 DEF Gate, ShouldEscalate
      <3>4. InRange(answers.score, Nat) /\ (Flags(answers.noul) <=> answers.noul \in Threshold..100)
        BY <2>1, <2>4, ThresholdAssumption DEF Refused, InRange, Flags
      <3>. QED  BY <2>4, <3>3, <3>4
    <2>. QED  BY <2>2, <2>3, <2>4
  <1>2. IInv => GateNeedsAFlag
    BY <1>1 DEF IInv, IsGate, AnswerOf, GateNeedsAFlag, Decided
  <1>. QED  BY Invariant, <1>2, PTL

(* Where the API comes up, worker and API share their decision backend,     *)
(* but for the exceptions that AuditedByVerifier names (config.py, api.py,  *)
(* worker.py).                                                              *)
THEOREM BackendsAgree == Spec => []AuditedByVerifier
  <1>1. ASSUME NEW c \in Configs, Serves(c)
        PROVE  /\ Judging(c) = Verifying(c) <=> c.mode = "fixture" \/ (c.transport # "local" /\ HasKey(c))
               /\ c.mode = "active" /\ c.transport # "local" => Verifying(c).keyed /\ Judging(c) = Verifying(c)
    <2>1. /\ c.mode \in Modes /\ c.transport \in Transports
          /\ c.openrouterKey \in BOOLEAN /\ c.typesafeKey \in BOOLEAN
      BY DEF Configs
    <2>2. CASE c.mode = "fixture"
      BY <2>2 DEF Judging, Verifying, Backend
    <2>3. CASE c.mode # "fixture" /\ c.transport = "openrouter_decisions"
      BY <1>1, <2>1, <2>3 DEF Judging, Verifying, Backend, Serves, HasKey
    <2>4. CASE c.mode # "fixture" /\ c.transport = "typesafe_direct"
      BY <1>1, <2>1, <2>4 DEF Judging, Verifying, Backend, Serves, Accepted, Credentials, HasKey
    <2>5. CASE c.mode # "fixture" /\ c.transport = "local"
      BY <2>1, <2>5 DEF Judging, Verifying, Backend
    <2>. QED  BY <2>1, <2>2, <2>3, <2>4, <2>5 DEF Transports
  <1>2. IInv => AuditedByVerifier
    <2>. SUFFICES ASSUME IInv, Decided("config"), output # Raised
                  PROVE  LET c == input.config IN
                         /\ output.worker = output.api <=> c.mode = "fixture" \/ (c.transport # "local" /\ HasKey(c))
                         /\ c.mode = "active" /\ c.transport # "local" => output.api.keyed /\ output.worker = output.api
      BY DEF AuditedByVerifier
    <2>1. /\ input.config \in Configs /\ Serves(input.config)
          /\ output.api = Verifying(input.config) /\ output.worker = Judging(input.config)
      BY DEF IInv, AnswerOf, Decided
    <2>. QED  BY <1>1, <2>1
  <1>. QED  BY Invariant, <1>2, PTL

LEMMA Rounded ==
  ASSUME NEW r \in Replies
  PROVE  /\ Bill(r) # NoCost <=> r.cost # NoCost
         /\ Bill(r) # NoCost => 10 * Bill(r) - r.cost \in (-4)..5
  <1>1. ASSUME NEW c \in Int
        PROVE  (c + 5) \div 10 \in Int /\ 10 * ((c + 5) \div 10) - c \in (-4)..5
    OBVIOUS
  <1>2. r.cost \in Int \cup {NoCost}
    BY DEF Replies
  <1>. QED  BY <1>1, <1>2, NoCostAssumption DEF Bill, Microusd

(* A caller is told the cost of a call exactly when the reply names one, to *)
(* half a microusd, but for the two exceptions of BillsKept (openrouter.py, *)
(* typesafe.py).                                                            *)
THEOREM CostsTold == Spec => []BillsKept
  <1>1. ASSUME NEW provider \in {"generation", "openrouter", "typesafe"}, NEW r \in Replies,
               NEW out, out = Call(provider, r)
        PROVE  /\ out.cost # NoCost => r.cost # NoCost /\ 10 * out.cost - r.cost \in (-4)..5
               /\ out.cost # NoCost <=>
                    /\ Billed(r) /\ provider # "typesafe"
                    /\ ~(provider = "generation" /\ r.content = "empty")
               /\ out.status = "raised" => r.http = "ok" /\ (r.body = "object" => r.content = "empty")
    <2>1. /\ r.http \in {"timeout", "error", "ok"} /\ r.body \in {"object", "odd", "garbage"}
          /\ r.content \in {"usable", "missing", "empty"}
      BY DEF Replies
    <2>2. CASE provider = "generation"
      <3>1. out = Generate(r)
        BY <1>1, <2>2 DEF Call
      <3>. QED  BY <2>1, <2>2, <3>1, Rounded DEF Generate, Unanswered, Result, Billed
    <2>3. CASE provider = "openrouter"
      <3>1. out = DecideOpenRouter(r)
        BY <1>1, <2>3 DEF Call
      <3>. QED  BY <2>1, <2>3, <3>1, Rounded DEF DecideOpenRouter, Unanswered, Result, Billed
    <2>4. CASE provider = "typesafe"
      <3>1. out = DecideTypeSafe(r)
        BY <1>1, <2>4 DEF Call
      <3>. QED  BY <2>1, <2>4, <3>1 DEF DecideTypeSafe, Unanswered, Result
    <2>. QED  BY <2>2, <2>3, <2>4
  <1>2. IInv /\ Decided("reply") =>
          /\ input.provider \in {"generation", "openrouter", "typesafe"} /\ input.reply \in Replies
          /\ output = Call(input.provider, input.reply)
    BY DEF IInv, IsReply, AnswerOf, Decided
  <1>3. IInv => BillsKept
    BY <1>1, <1>2 DEF BillsKept
  <1>. QED  BY Invariant, <1>3, PTL
=============================================================================
