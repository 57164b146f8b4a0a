------------------------------- MODULE JevGate -------------------------------
(***************************************************************************)
(* What a Jev decision call comes to: the reading of its answers, and      *)
(* whether the gate sends a candidate to the fallback.  Pure operators.    *)
(* Probabilities are in per cent.                                          *)
(***************************************************************************)
EXTENDS Integers

CONSTANTS Threshold,    \* MISSING_EVIDENCE_THRESHOLD
          Absent,       \* a field that is missing or malformed; no signals
          Raised        \* the ValidationError that DecisionSignals raises

ASSUME ThresholdAssumption == Threshold \in 0..100 /\ Absent \notin Int
ASSUME RaisedAssumption ==
  Raised \notin {Absent} \cup [probability : Int \cup {Absent}, difficulty : Int \cup {Absent}]

\* What DecisionSignals refuses with a ValidationError.
Refused(answers) ==
  \/ answers.noul \in Int /\ answers.noul \notin 0..100
  \/ answers.score \in Int /\ answers.score < 0

\* parse_signals.  Fields that are no numbers are Absent in the answers.
ParseSignals(answers) ==
  CASE answers = Absent -> [probability |-> Absent, difficulty |-> Absent]
    [] answers # Absent /\ Refused(answers)  -> Raised
    [] answers # Absent /\ ~Refused(answers) -> [probability |-> answers.noul, difficulty |-> answers.score]

\* evaluate_shadow: asked is a backend that exists, with a state short enough;
\* the reply of a failed call is not read.
EvaluateShadow(asked, succeeded, answers) ==
  CASE ~asked              -> [status |-> "skipped", signals |-> Absent]
    [] asked /\ ~succeeded -> [status |-> "error", signals |-> Absent]
    [] asked /\ succeeded  -> [status |-> "evaluated", signals |-> ParseSignals(answers)]

\* Mutant: an unknown probability counts as a flag.
FlagsUnlessCleared(probability) == probability \in Int => probability >= Threshold

Flags(probability) == probability \in Int /\ probability >= Threshold

\* qa_gate_should_escalate.
ShouldEscalate(shadow, abstained) ==
  shadow.status = "evaluated" /\ Flags(shadow.signals.probability) /\ ~abstained

\* What run_case does with a candidate that passed: the ValidationError is
\* not caught, and ends the experiment.
Gate(asked, succeeded, answers, abstained) ==
  LET shadow == EvaluateShadow(asked, succeeded, answers) IN
  CASE shadow.signals = Raised -> "stop"
    [] shadow.signals # Raised /\ ShouldEscalate(shadow, abstained)  -> "escalate"
    [] shadow.signals # Raised /\ ~ShouldEscalate(shadow, abstained) -> "keep"
=============================================================================
