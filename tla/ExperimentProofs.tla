-------------------------- MODULE ExperimentProofs --------------------------
(***************************************************************************)
(* Resuming an experiment never measures an item twice, and its rows admit *)
(* unknown costs, for any items, selections, prices and concurrency.       *)
(***************************************************************************)
EXTENDS Experiment, ResumableRunProofs

\* An alias is being tried.
Trying == {"generating", "verifying", "gating"}

\* The locals of run_case have their types, and there is an alias to try.
CaseTyped ==
  /\ stage \in [Items -> Stage]
  /\ route \in [Items -> Seq(Tiers)]
  /\ paid  \in [Items -> Nat]
  /\ \A i \in Items : stage[i] \in Trying => route[i] # <<>>

IInv == RunInv /\ CaseTyped

-----------------------------------------------------------------------------
(* The locals of run_case.                                                 *)

\* Every route that a case starts with is one of tiers, and not empty.
LEMMA RoutesTyped ==
  ASSUME NEW i \in Items, NEW tier \in Tiers
  PROVE  /\ WithEscalation(tier) \in Seq(Tiers) /\ WithEscalation(tier) # <<>>
         /\ ArmOf[i] # "llm_judge_router" => InitialRoute(i) \in Seq(Tiers) /\ InitialRoute(i) # <<>>
<1>1. WithEscalation(tier) \in Seq(Tiers) /\ WithEscalation(tier) # <<>>
  <2>1. /\ <<"economy", "balanced">> \in Seq(Tiers) /\ <<"economy", "balanced">> # <<>>
        /\ <<"balanced", "strong">> \in Seq(Tiers)  /\ <<"balanced", "strong">> # <<>>
        /\ <<"strong">> \in Seq(Tiers) /\ <<"strong">> # <<>>
    BY DEF Tiers
  <2>2. WithEscalation(tier) \in {<<"economy", "balanced">>, <<"balanced", "strong">>, <<"strong">>}
    <3>1. CASE tier = "economy"   BY <3>1 DEF WithEscalation
    <3>2. CASE tier = "balanced"  BY <3>2 DEF WithEscalation
    <3>3. CASE tier = "strong"    BY <3>3 DEF WithEscalation
    <3>. QED  BY <3>1, <3>2, <3>3 DEF Tiers
  <2>. QED  BY <2>1, <2>2
<1>2. FixedRoute[i] \in Seq(Tiers) /\ FixedRoute[i] # <<>>
  <2>1. FixedRoute[i] \in Seq(Tiers) /\ Len(FixedRoute[i]) \in 1..2
    BY ArmsAssumption
  <2>. QED  BY <2>1
<1>3. ArmOf[i] \in Arms
  BY ArmsAssumption
<1>4. CASE ArmOf[i] = "fixed_strong"
  <2>1. InitialRoute(i) = <<"strong">>
    BY <1>4 DEF InitialRoute
  <2>2. <<"strong">> \in Seq(Tiers) /\ <<"strong">> # <<>>
    BY DEF Tiers
  <2>. QED  BY <1>1, <2>1, <2>2
<1>5. CASE ArmOf[i] = "fixed_balanced"
  <2>1. InitialRoute(i) = <<"balanced", "strong">>
    BY <1>5 DEF InitialRoute
  <2>2. <<"balanced", "strong">> \in Seq(Tiers) /\ <<"balanced", "strong">> # <<>>
    BY DEF Tiers
  <2>. QED  BY <1>1, <2>1, <2>2
<1>6. CASE ArmOf[i] = "jev_gated"
  BY <1>1, <1>2, <1>6 DEF InitialRoute
<1>7. CASE ArmOf[i] = "llm_judge_router"
  BY <1>1, <1>7
<1>. QED  BY <1>3, <1>4, <1>5, <1>6, <1>7 DEF Arms

\* A call is reported to cost a number, or nothing is known.
LEMMA ReportsTyped ==
  ASSUME CaseTyped, NEW i \in Items, NEW c \in Reported(i)
  PROVE  c \in Nat \cup {None}
<1>1. "economy" \in Tiers
  BY DEF Tiers
<1>2. stage[i] = "generating" => Head(route[i]) \in Tiers
  BY DEF CaseTyped, Trying
<1>. QED  BY <1>1, <1>2, PricesAssumption DEF Reported

\* The amount paid stays a number.
LEMMA AccountTyped ==
  ASSUME CaseTyped, NEW i \in Items, NEW call, NEW c \in Nat \cup {None}, Account(i, call, c)
  PROVE  paid' \in [Items -> Nat]
BY BudgetAssumption DEF CaseTyped, Account, Known

\* A route of two aliases has another one to try.
LEMMA TailsTyped ==
  ASSUME NEW s \in Seq(Tiers), s # <<>>
  PROVE  Tail(s) \in Seq(Tiers) /\ (Len(s) > 1 => Tail(s) # <<>>)
<1>1. Tail(s) \in Seq(Tiers)
  OBVIOUS
<1>2. ASSUME Len(s) > 1  PROVE Tail(s) # <<>>
  <2>1. Len(Tail(s)) = Len(s) - 1
    BY <1>2
  <2>2. Len(s) \in Nat
    OBVIOUS
  <2>3. Len(Tail(s)) # 0
    BY <1>2, <2>1, <2>2
  <2>4. Len(<<>>) = 0
    OBVIOUS
  <2>. QED  BY <2>3, <2>4, Zenon
<1>. QED  BY <1>1, <1>2

\* The next alias is tried only if there is one.
LEMMA NextTyped ==
  ASSUME CaseTyped, NEW i \in Items, TryNext(i), stage[i] \in Trying
  PROVE  /\ stage' \in [Items -> Stage] /\ route' \in [Items -> Seq(Tiers)]
         /\ \A k \in Items : stage'[k] \in Trying => route'[k] # <<>>
<1>1. route[i] \in Seq(Tiers) /\ route[i] # <<>>
  BY DEF CaseTyped
<1>2. Tail(route[i]) \in Seq(Tiers) /\ (Len(route[i]) > 1 => Tail(route[i]) # <<>>)
  BY <1>1, TailsTyped
<1>3. stage' \in [Items -> Stage] /\ route' \in [Items -> Seq(Tiers)]
  <2>1. route' = [route EXCEPT ![i] = Tail(route[i])]
    BY DEF TryNext
  <2>2. (IF Len(route[i]) > 1 THEN "generating" ELSE "writing") \in Stage
    BY DEF Stage, InSlot
  <2>. QED  BY <1>2, <2>1, <2>2 DEF TryNext, Goto, CaseTyped
<1>4. \A k \in Items : stage'[k] \in Trying => route'[k] # <<>>
  BY <1>2 DEF TryNext, Goto, CaseTyped, Trying
<1>. QED  BY <1>3, <1>4

\* Every step of the experiment keeps the locals' types.
LEMMA StepCase == ASSUME CaseTyped, [Next]_vars  PROVE CaseTyped'
<1>1. CASE UNCHANGED vars
  BY <1>1 DEF vars, caseVars, CaseTyped
<1>2. ASSUME NEW S \in Selections, Start(S)  PROVE CaseTyped'
  BY <1>2 DEF Start, CaseTyped, Stage, Trying
<1>3. ASSUME Finish  PROVE CaseTyped'
  BY <1>3 DEF Finish, caseVars, CaseTyped
<1>4. ASSUME Stop  PROVE CaseTyped'
  BY <1>4 DEF Stop, CaseTyped, Stage, Trying
<1>5. ASSUME NEW i \in Items, CaseStep(i)  PROVE CaseTyped'
  <2>1. ASSUME BeginCase(i)  PROVE CaseTyped'
    <3>1. CASE ArmOf[i] = "llm_judge_router"
      BY <2>1, <3>1 DEF BeginCase, Goto, CaseTyped, Stage, InSlot, Trying
    <3>2. CASE ArmOf[i] # "llm_judge_router"
      <4>1. InitialRoute(i) \in Seq(Tiers) /\ InitialRoute(i) # <<>>
        BY <3>2, RoutesTyped DEF Tiers
      <4>. QED  BY <2>1, <3>2, <4>1 DEF BeginCase, Goto, CaseTyped, Stage, InSlot, Trying
    <3>. QED  BY <3>1, <3>2
  <2>2. ASSUME NEW c \in Reported(i), NEW tier \in Tiers, RouterReturns(i, tier, c)  PROVE CaseTyped'
    <3>1. paid' \in [Items -> Nat]
      BY <2>2, ReportsTyped, AccountTyped DEF RouterReturns
    <3>. QED  BY <2>2, <3>1, RoutesTyped DEF RouterReturns, Goto, CaseTyped, Stage, InSlot, Trying
  <2>3. ASSUME NEW c \in Reported(i), NEW b \in BOOLEAN, GenerationReturns(i, b, c)  PROVE CaseTyped'
    <3>1. paid' \in [Items -> Nat]
      BY <2>3, ReportsTyped, AccountTyped DEF GenerationReturns
    <3>2. CASE b
      BY <2>3, <3>1, <3>2 DEF GenerationReturns, Goto, CaseTyped, Stage, InSlot, Trying
    <3>3. CASE ~b
      <4>1. TryNext(i) /\ stage[i] \in Trying
        BY <2>3, <3>3 DEF GenerationReturns, Trying
      <4>. QED  BY <3>1, <4>1, NextTyped DEF CaseTyped
    <3>. QED  BY <3>2, <3>3
  <2>4. ASSUME NEW c \in Reported(i), NEW b \in BOOLEAN, DecisionReturns(i, b, c)  PROVE CaseTyped'
    <3>1. paid' \in [Items -> Nat]
      BY <2>4, ReportsTyped, AccountTyped DEF DecisionReturns
    <3>. QED  BY <2>4, <3>1 DEF DecisionReturns, CaseTyped
  <2>5. ASSUME NEW c \in Reported(i), NEW b \in BOOLEAN, GateReturns(i, b, c)  PROVE CaseTyped'
    <3>1. paid' \in [Items -> Nat]
      BY <2>5, ReportsTyped, AccountTyped DEF GateReturns
    <3>2. CASE TryNext(i)
      <4>1. stage[i] \in Trying
        BY <2>5 DEF GateReturns, Trying
      <4>. QED  BY <3>1, <3>2, <4>1, NextTyped DEF CaseTyped
    <3>3. CASE Goto(i, "writing") /\ UNCHANGED route
      BY <3>1, <3>3 DEF Goto, CaseTyped, Stage, Trying
    <3>. QED  BY <2>5, <3>2, <3>3 DEF GateReturns
  <2>6. ASSUME Verified(i)  PROVE CaseTyped'
    <3>1. stage[i] \in Trying /\ UNCHANGED paid
      BY <2>6 DEF Verified, Trying
    <3>2. CASE TryNext(i)
      BY <3>1, <3>2, NextTyped DEF CaseTyped
    <3>3. CASE (Goto(i, "writing") \/ Goto(i, "gating")) /\ UNCHANGED route
      BY <3>1, <3>3 DEF Goto, CaseTyped, Stage, InSlot, Trying
    <3>. QED  BY <2>6, <3>2, <3>3 DEF Verified
  <2>7. ASSUME Write(i)  PROVE CaseTyped'
    BY <2>7 DEF Write, Goto, CaseTyped, Stage, Trying
  <2>. QED  BY <1>5, <2>1, <2>2, <2>3, <2>4, <2>5, <2>6, <2>7 DEF CaseStep
<1>. QED  BY <1>1, <1>2, <1>3, <1>4, <1>5 DEF Next

-----------------------------------------------------------------------------
(* The file.                                                               *)

LEMMA EstimatesTyped == Estimates \in [Items -> Nat]
<1>1. \A i \in Items : ArmOf[i] \in Arms
  BY ArmsAssumption
<1>2. /\ Price["economy"] \in Nat /\ Price["balanced"] \in Nat /\ Price["strong"] \in Nat
      /\ DecisionEstimate \in Nat
  BY PricesAssumption DEF Tiers
<1>3. ASSUME NEW i \in Items  PROVE Preflight(i) \in Nat
  <2>1. CASE ArmOf[i] = "fixed_strong"      BY <1>2, <2>1 DEF Preflight
  <2>2. CASE ArmOf[i] = "fixed_balanced"    BY <1>2, <2>2 DEF Preflight
  <2>3. CASE ArmOf[i] = "llm_judge_router"  BY <1>2, <2>3 DEF Preflight
  <2>4. CASE ArmOf[i] = "jev_gated"         BY <1>2, <2>4 DEF Preflight
  <2>. QED  BY <1>1, <2>1, <2>2, <2>3, <2>4 DEF Arms
<1>. QED  BY <1>3 DEF Estimates

\* What a step may do to the file.
LEMMA StepKinds == ASSUME CaseTyped, [Next]_vars  PROVE RunStep
<1>1. CASE UNCHANGED runVars
  BY <1>1 DEF RunStep
<1>2. ASSUME NEW S \in Selections, Start(S)  PROVE RunStep
  BY <1>2, EstimatesTyped DEF Start, RunStep
<1>3. ASSUME Finish \/ Stop  PROVE RunStep
  BY <1>3 DEF Finish, Stop, RunStep
<1>4. ASSUME NEW i \in Items, Write(i)  PROVE RunStep
  <2>1. Total(i) \in Nat \cup {None}
    BY <1>4 DEF Total, CaseTyped
  <2>2. WriteRow(i, Total(i), Total(i) = None) /\ (Total(i) = None) \in BOOLEAN
    BY <1>4 DEF Write
  <2>. QED  BY <2>1, <2>2 DEF RunStep
<1>5. ASSUME NEW i \in Items, CaseStep(i), ~Write(i)  PROVE UNCHANGED runVars
  BY <1>5 DEF CaseStep, BeginCase, RouterReturns, GenerationReturns, DecisionReturns, GateReturns, Verified
<1>. QED  BY <1>1, <1>2, <1>3, <1>4, <1>5 DEF Next, vars

-----------------------------------------------------------------------------
\* The inductive invariant holds at first ...
LEMMA InitInvariant == Init => IInv
BY RunStarts DEF Init, IInv, CaseTyped, Stage, Trying

\* ... and is kept by every step.
LEMMA StepInvariant == IInv /\ [Next]_vars => IInv'
BY StepCase, StepKinds, RunKept DEF IInv

(* However often the script is stopped and started again, and whatever it   *)
(* is asked to select, the output file has one row for an item at most, so  *)
(* no cost and no success is counted twice.                                 *)
THEOREM NothingMeasuredTwice == Spec => []RowsUnique
<1>1. IInv => RowsUnique
  BY DEF IInv, RunInv
<1>. QED  BY <1>1, InitInvariant, StepInvariant, PTL DEF Spec

-----------------------------------------------------------------------------
(* Unknown costs.  What a case hides changes only while it is pending, and *)
(* then it has no row yet.                                                 *)

Working == \A i \in Items : stage[i] # "out" => i \in pending

AInv == IInv /\ hidden \in [Items -> SUBSET Calls] /\ Working /\ RowsAdmitUnknown

\* A step of a case that writes no row.
CallStep(i) ==
  /\ i \in pending
  /\ \/ hidden' = hidden
     \/ \E call \in Calls : hidden' = [hidden EXCEPT ![i] = @ \cup {call}]
  /\ \E s \in Stage : stage' = [stage EXCEPT ![i] = s]
  /\ UNCHANGED <<rows, pending>>

LEMMA CaseKinds ==
  ASSUME AInv, NEW i \in Items, CaseStep(i)
  PROVE  CallStep(i) \/ Write(i)
<1>. USE DEF Calls, Stage, InSlot, Goto, runVars
<1>1. stage[i] # "out" => i \in pending
  BY DEF AInv, Working
<1>2. TryNext(i) => \E s \in Stage : stage' = [stage EXCEPT ![i] = s]
  BY DEF TryNext
<1>3. ASSUME NEW c, NEW call \in Calls, Account(i, call, c)
      PROVE  hidden' = hidden \/ \E k \in Calls : hidden' = [hidden EXCEPT ![i] = @ \cup {k}]
  BY <1>3 DEF Account
<1>4. CASE BeginCase(i)
  BY <1>1, <1>4 DEF BeginCase, CallStep
<1>5. ASSUME NEW tier \in Tiers, NEW c, RouterReturns(i, tier, c)  PROVE CallStep(i)
  BY <1>1, <1>3, <1>5 DEF RouterReturns, CallStep
<1>6. ASSUME NEW b \in BOOLEAN, NEW c, GenerationReturns(i, b, c)  PROVE CallStep(i)
  <2>1. \E s \in Stage : stage' = [stage EXCEPT ![i] = s]
    BY <1>2, <1>6 DEF GenerationReturns
  <2>. QED  BY <1>1, <1>3, <1>6, <2>1 DEF GenerationReturns, CallStep
<1>7. ASSUME NEW b \in BOOLEAN, NEW c, DecisionReturns(i, b, c)  PROVE CallStep(i)
  <2>1. stage' = [stage EXCEPT ![i] = "verifying"]
    BY <1>7 DEF DecisionReturns, CallDue, AInv, IInv, CaseTyped
  <2>. QED  BY <1>1, <1>3, <1>7, <2>1 DEF DecisionReturns, CallDue, CallStep
<1>8. ASSUME NEW b \in BOOLEAN, NEW c, GateReturns(i, b, c)  PROVE CallStep(i)
  <2>1. \E s \in Stage : stage' = [stage EXCEPT ![i] = s]
    BY <1>2, <1>8 DEF GateReturns
  <2>. QED  BY <1>1, <1>3, <1>8, <2>1 DEF GateReturns, CallStep
<1>9. CASE Verified(i)
  <2>1. \E s \in Stage : stage' = [stage EXCEPT ![i] = s]
    BY <1>2, <1>9 DEF Verified
  <2>. QED  BY <1>1, <1>9, <2>1 DEF Verified, CallStep
<1>. QED  BY <1>4, <1>5, <1>6, <1>7, <1>8, <1>9 DEF CaseStep

\* A call that returns concerns no row.
LEMMA CallAdmits ==
  ASSUME AInv, NEW i \in Items, CallStep(i)
  PROVE  hidden' \in [Items -> SUBSET Calls] /\ Working' /\ RowsAdmitUnknown'
<1>1. hidden' \in [Items -> SUBSET Calls]
  BY DEF AInv, CallStep
<1>2. \A j \in Items : j # i => hidden'[j] = hidden[j] /\ stage'[j] = stage[j]
  BY DEF AInv, IInv, CaseTyped, CallStep
<1>3. Working'
  BY <1>2 DEF AInv, CallStep, Working
<1>4. \A n \in DOMAIN rows : rows[n] \in Row
  BY DEF AInv, IInv, RunInv, RunTypeOK
<1>5. \A n \in DOMAIN rows : rows[n].item \in Items /\ rows[n].item # i
  BY <1>4 DEF Row, AInv, IInv, RunInv, PendingUnmeasured, CallStep
<1>6. RowsAdmitUnknown'
  BY <1>2, <1>5 DEF AInv, CallStep, RowsAdmitUnknown
<1>. QED  BY <1>1, <1>3, <1>6

\* The row that is written says what the case hides.
LEMMA WriteAdmits ==
  ASSUME AInv, NEW i \in Items, Write(i)
  PROVE  hidden' \in [Items -> SUBSET Calls] /\ Working' /\ RowsAdmitUnknown'
<1>1. /\ rows' = Append(rows, [item |-> i, total |-> Total(i)]) /\ pending' = pending \ {i}
      /\ hidden' = hidden /\ stage' = [stage EXCEPT ![i] = "out"]
  BY DEF Write, WriteRow, Goto
<1>2. Working'
  BY <1>1 DEF AInv, IInv, CaseTyped, Working
<1>3. Total(i) = None <=> hidden[i] \ {"gate"} # {}
  <2>1. paid[i] # None
    BY BudgetAssumption DEF AInv, IInv, CaseTyped
  <2>. QED  BY <2>1 DEF Total
<1>4. rows \in Seq(Row)
  BY DEF AInv, IInv, RunInv, RunTypeOK
<1>5. \A n \in DOMAIN rows' : \/ n \in DOMAIN rows /\ rows'[n] = rows[n]
                             \/ rows'[n] = [item |-> i, total |-> Total(i)]
  BY <1>1, <1>4
<1>6. ASSUME NEW n \in DOMAIN rows'
      PROVE  (rows'[n].total = None) <=> (hidden'[rows'[n].item] \ {"gate"} # {})
  <2>1. CASE n \in DOMAIN rows /\ rows'[n] = rows[n]
    BY <1>1, <2>1 DEF AInv, RowsAdmitUnknown
  <2>2. CASE rows'[n] = [item |-> i, total |-> Total(i)]
    <3>1. rows'[n].item = i /\ rows'[n].total = Total(i)
      BY <2>2
    <3>. QED  BY <1>1, <1>3, <3>1
  <2>. QED  BY <1>5, <2>1, <2>2
<1>7. RowsAdmitUnknown'
  BY <1>6 DEF RowsAdmitUnknown
<1>. QED  BY <1>1, <1>2, <1>7 DEF AInv

LEMMA StepAdmits == AInv /\ [Next]_vars => AInv'
<1>. SUFFICES ASSUME AInv, [Next]_vars  PROVE AInv'
  OBVIOUS
<1>1. ASSUME NEW S \in Selections, Start(S)
      PROVE  hidden' \in [Items -> SUBSET Calls] /\ Working' /\ RowsAdmitUnknown'
  BY <1>1 DEF Start, StartRun, AInv, Working, RowsAdmitUnknown
<1>2. ASSUME Finish
      PROVE  hidden' \in [Items -> SUBSET Calls] /\ Working' /\ RowsAdmitUnknown'
  BY <1>2 DEF Finish, FinishRun, caseVars, AInv, Working, RowsAdmitUnknown
<1>3. ASSUME Stop
      PROVE  hidden' \in [Items -> SUBSET Calls] /\ Working' /\ RowsAdmitUnknown'
  <2>1. rows' = rows /\ stage' = [i \in Items |-> "out"] /\ hidden' \in [Items -> SUBSET Calls]
        /\ \A i \in Items \ pending : hidden'[i] = hidden[i]
    BY <1>3 DEF Stop, StopRun, AInv
  <2>2. \A n \in DOMAIN rows : rows[n] \in Row
    BY DEF AInv, IInv, RunInv, RunTypeOK
  <2>3. \A n \in DOMAIN rows : rows[n].item \in Items \ pending
    BY <2>2 DEF Row, AInv, IInv, RunInv, PendingUnmeasured
  <2>. QED  BY <2>1, <2>3 DEF AInv, Working, RowsAdmitUnknown
<1>4. ASSUME UNCHANGED vars
      PROVE  hidden' \in [Items -> SUBSET Calls] /\ Working' /\ RowsAdmitUnknown'
  BY <1>4 DEF vars, runVars, caseVars, AInv, Working, RowsAdmitUnknown
<1>5. hidden' \in [Items -> SUBSET Calls] /\ Working' /\ RowsAdmitUnknown'
  BY <1>1, <1>2, <1>3, <1>4, CaseKinds, CallAdmits, WriteAdmits DEF Next, AInv
<1>. QED  BY <1>5, StepInvariant DEF AInv

(* run_case: a row's total is null exactly when some call of its case other *)
(* than the gate's came back without a cost, in whatever run and whatever   *)
(* was stopped before.                                                      *)
THEOREM UnknownAdmitted == Spec => []RowsAdmitUnknown
<1>1. Init => AInv
  BY InitInvariant DEF Init, RunInit, AInv, Working, RowsAdmitUnknown, Calls
<1>2. AInv => RowsAdmitUnknown
  BY DEF AInv
<1>. QED  BY <1>1, <1>2, StepAdmits, PTL DEF Spec

-----------------------------------------------------------------------------
(* The remaining types.                                                    *)

LocalsTyped ==
  /\ starts \in 0..MaxStarts
  /\ todo \in [Items -> 0..VerifyCalls]
  /\ ok \in [Items -> BOOLEAN]
  /\ hidden \in [Items -> SUBSET Calls]

LEMMA StepLocals ==
  ASSUME LocalsTyped, [Next]_vars
  PROVE  LocalsTyped'
<1>. USE PricesAssumption
<1>1. ASSUME NEW i \in Items, NEW call \in Calls, NEW c, Account(i, call, c)
      PROVE  hidden' \in [Items -> SUBSET Calls]
  BY <1>1 DEF Account, LocalsTyped
<1>2. ASSUME NEW i \in Items, CaseStep(i)  PROVE LocalsTyped'
  <2>1. CASE BeginCase(i) \/ Write(i)
    BY <2>1 DEF BeginCase, Write, LocalsTyped
  <2>2. ASSUME NEW tier, NEW c, RouterReturns(i, tier, c)  PROVE LocalsTyped'
    BY <1>1, <2>2 DEF RouterReturns, LocalsTyped, Calls
  <2>3. ASSUME NEW b \in BOOLEAN, NEW c, GenerationReturns(i, b, c)  PROVE LocalsTyped'
    <3>1. hidden' \in [Items -> SUBSET Calls] /\ starts' = starts
      BY <1>1, <2>3 DEF GenerationReturns, Calls
    <3>2. todo' \in [Items -> 0..VerifyCalls] /\ ok' \in [Items -> BOOLEAN]
      BY <2>3 DEF GenerationReturns, LocalsTyped
    <3>. QED  BY <3>1, <3>2 DEF LocalsTyped
  <2>4. ASSUME NEW b \in BOOLEAN, NEW c, DecisionReturns(i, b, c)  PROVE LocalsTyped'
    <3>1. hidden' \in [Items -> SUBSET Calls] /\ starts' = starts
      BY <1>1, <2>4 DEF DecisionReturns, Calls
    <3>2. todo[i] - 1 \in 0..VerifyCalls /\ todo' = [todo EXCEPT ![i] = todo[i] - 1]
      BY <2>4 DEF DecisionReturns, CallDue, LocalsTyped
    <3>3. ok' \in [Items -> BOOLEAN]
      BY <2>4, Zenon DEF DecisionReturns, LocalsTyped
    <3>. QED  BY <3>1, <3>2, <3>3 DEF LocalsTyped
  <2>5. ASSUME NEW b \in BOOLEAN, NEW c, GateReturns(i, b, c)  PROVE LocalsTyped'
    BY <1>1, <2>5 DEF GateReturns, LocalsTyped, Calls
  <2>6. CASE Verified(i)
    BY <2>6 DEF Verified, LocalsTyped
  <2>. QED  BY <1>2, <2>1, <2>2, <2>3, <2>4, <2>5, <2>6 DEF CaseStep
<1>3. ASSUME NEW S \in Selections, Start(S)  PROVE LocalsTyped'
  BY <1>3 DEF Start, LocalsTyped
<1>4. CASE Finish
  BY <1>4 DEF Finish, caseVars, LocalsTyped
<1>5. CASE Stop
  BY <1>5 DEF Stop, LocalsTyped
<1>6. CASE UNCHANGED vars
  BY <1>6 DEF vars, caseVars, LocalsTyped
<1>. QED  BY <1>2, <1>3, <1>4, <1>5, <1>6 DEF Next

(* The file, the manifest, the running process and the locals of run_case   *)
(* keep their types, for any items, routes, prices and numbers of calls:    *)
(* no case gets a negative number of calls, and none runs without an alias. *)
THEOREM TypeCorrect == Spec => []TypeOK
<1>1. Init => IInv /\ LocalsTyped
  <2>1. Init => LocalsTyped
    BY PricesAssumption DEF Init, LocalsTyped, Calls
  <2>. QED  BY <2>1, InitInvariant
<1>2. IInv /\ LocalsTyped /\ [Next]_vars => (IInv /\ LocalsTyped)'
  BY StepInvariant, StepLocals
<1>3. IInv /\ LocalsTyped => TypeOK
  BY DEF IInv, RunInv, CaseTyped, LocalsTyped, TypeOK
<1>. QED  BY <1>1, <1>2, <1>3, PTL DEF Spec

-----------------------------------------------------------------------------
(* Manifests.  A process that has seen no unknown cost works on a file that *)
(* has none.                                                               *)

FlagTells == selected # None /\ ~unknownSeen => \A n \in DOMAIN rows : rows[n].total # None

CompleteTells ==
  manifest # None /\ manifest.complete => \A n \in RowsOf(manifest.selected) : rows[n].total # None

MInv == IInv /\ FlagTells /\ CompleteTells

\* A step that changes the file adds a row.
LEMMA StepTells == MInv /\ [Next]_vars => MInv'
<1>. SUFFICES ASSUME MInv, [Next]_vars  PROVE FlagTells' /\ CompleteTells'
  BY StepInvariant DEF MInv
<1>1. ASSUME NEW S \in Selections, Start(S)  PROVE FlagTells' /\ CompleteTells'
  BY <1>1 DEF Start, StartRun, MInv, FlagTells, CompleteTells, RowsOf
<1>2. CASE Finish
  BY <1>2 DEF Finish, FinishRun, MInv, FlagTells, CompleteTells, RowsOf
<1>3. CASE Stop
  BY <1>3 DEF Stop, StopRun, MInv, FlagTells, CompleteTells, RowsOf
<1>4. CASE UNCHANGED runVars
  BY <1>4 DEF runVars, MInv, FlagTells, CompleteTells, RowsOf
<1>5. ASSUME NEW i \in Items, Write(i)  PROVE FlagTells' /\ CompleteTells'
  <2>1. PICK total \in Nat \cup {None} : total = Total(i)
    BY DEF Total, MInv, IInv, CaseTyped
  <2>2. /\ rows' = Append(rows, [item |-> i, total |-> total]) /\ i \in pending
        /\ unknownSeen' = (unknownSeen \/ total = None) /\ selected' = selected /\ manifest' = manifest
    BY <1>5, <2>1 DEF Write, WriteRow
  <2>3. PICK last : /\ last \notin DOMAIN rows /\ DOMAIN rows' = DOMAIN rows \cup {last}
                    /\ rows'[last] = [item |-> i, total |-> total]
                    /\ \A n \in DOMAIN rows : rows'[n] = rows[n]
    BY <2>2, RowAdded DEF MInv, IInv, RunInv
  <2>4. FlagTells'
    <3>1. ~unknownSeen' => ~unknownSeen /\ total # None
      BY <2>2, Zenon
    <3>2. rows'[last].total = total
      BY <2>3
    <3>. QED  BY <2>2, <2>3, <3>1, <3>2 DEF MInv, FlagTells
  <2>5. manifest # None => i \notin manifest.selected
    BY <2>2 DEF MInv, IInv, RunInv, ManifestAddsUp, PendingUnmeasured, Missing, RowsOf
  <2>6. CompleteTells'
    BY <2>2, <2>3, <2>5 DEF MInv, CompleteTells, RowsOf
  <2>. QED  BY <2>4, <2>6
<1>6. ASSUME NEW i \in Items, CaseStep(i), ~Write(i)  PROVE UNCHANGED runVars
  BY <1>6 DEF CaseStep, BeginCase, RouterReturns, GenerationReturns, DecisionReturns, GateReturns, Verified
<1>. QED  BY <1>1, <1>2, <1>3, <1>4, <1>5, <1>6 DEF Next, vars

(* The manifest that run_experiment writes stays true of the output file,   *)
(* through all later processes on it: one row for each item, a spend that   *)
(* is what these rows cost, and complete only if all of them are known.     *)
THEOREM ManifestsTrue == Spec => []ManifestHolds
<1>1. Init => MInv
  BY InitInvariant DEF Init, RunInit, MInv, FlagTells, CompleteTells
<1>2. MInv => ManifestHolds
  BY DEF MInv, IInv, RunInv, ManifestAddsUp, CompleteTells, ManifestHolds
<1>. QED  BY <1>1, <1>2, StepTells, PTL DEF Spec

-----------------------------------------------------------------------------
(* The budget.  What a case has paid and what it may still have to pay fit  *)
(* its preflight, if decision calls cost little beside their estimate: they *)
(* are padded (150 microusd, where 24 were measured), and what is saved on  *)
(* the first verification pays for the second one and for a second gate.    *)

\* Each decision call costs at most c.
DecisionsWithin(c) ==
  /\ c \in Nat /\ DecisionCosts \subseteq 0..c
  /\ VerifyCalls * c <= DecisionEstimate /\ 2 * (VerifyCalls * c) + 2 * c <= 3 * DecisionEstimate

\* As in the configuration files: a higher tier costs no less.
PricesOrdered == Price["economy"] <= Price["balanced"] /\ Price["balanced"] <= Price["strong"]

\* What CONTRACT_RULE_PRIMARY gives, or what is chosen when no route is eligible.
RuledRoutes ==
  \A i \in Items : ArmOf[i] = "jev_gated" => FixedRoute[i] \in {<<"economy", "balanced">>, <<"strong">>}

\* The gate is asked once for each candidate.
GateCost(i, c) == IF ArmOf[i] = "jev_gated" THEN c ELSE 0

\* An alias is tried: a generation, its verification and the gate.
TryCost(i, alias, c) == Price[alias] + VerifyCalls * c + GateCost(i, c)

\* The aliases after the current one.
RestCost(i, c) == IF Len(route[i]) > 1 THEN TryCost(i, route[i][2], c) ELSE 0

\* What the case may still have to pay.
Owed(i, c) ==
  CASE stage[i] \in {"out", "queued"} -> Preflight(i)
    [] stage[i] = "routing"    -> Price["economy"] + 2 * Price["strong"] + 2 * (VerifyCalls * c)
    [] stage[i] = "generating" -> TryCost(i, route[i][1], c) + RestCost(i, c)
    [] stage[i] = "verifying"  -> todo[i] * c + GateCost(i, c) + RestCost(i, c)
    [] stage[i] = "gating"     -> c + RestCost(i, c)
    [] stage[i] = "writing"    -> 0

CaseWithin(i, c) ==
  /\ paid[i] + Owed(i, c) <= Preflight(i)
  /\ stage[i] = "gating" => ArmOf[i] = "jev_gated"
  /\ stage[i] = "routing" => ArmOf[i] = "llm_judge_router"
  /\ Len(route[i]) <= 2

BudgetKept == selected # None => spend + SumFunctionOnSet(Estimates, pending) <= Budget

BInv(c) == AInv /\ LocalsTyped /\ BudgetKept /\ \A i \in Items : CaseWithin(i, c)

LEMMA CostsTyped ==
  ASSUME NEW c, DecisionsWithin(c)
  PROVE  /\ Price["economy"] \in Nat /\ Price["balanced"] \in Nat /\ Price["strong"] \in Nat
         /\ DecisionEstimate \in Nat /\ c \in Nat /\ VerifyCalls * c \in Nat
         /\ \A n \in 0..VerifyCalls : n * c \in Nat /\ n * c <= VerifyCalls * c
<1>1. Price["economy"] \in Nat /\ Price["balanced"] \in Nat /\ Price["strong"] \in Nat
  BY PricesAssumption DEF Tiers
<1>2. DecisionEstimate \in Nat /\ VerifyCalls \in Nat /\ c \in Nat
  BY PricesAssumption DEF DecisionsWithin
<1>3. ASSUME NEW n \in 0..VerifyCalls  PROVE n * c \in Nat /\ n * c <= VerifyCalls * c
  <2>1. PICK m \in Nat : VerifyCalls = n + m
    <3>1. VerifyCalls - n \in Nat /\ VerifyCalls = n + (VerifyCalls - n)
      BY <1>2
    <3>. QED  BY <3>1
  <2>2. n * c \in Nat /\ m * c \in Nat
    BY <1>2
  <2>3. VerifyCalls * c = n * c + m * c
    BY <1>2, <2>1
  <2>. QED  BY <2>2, <2>3
<1>4. VerifyCalls * c \in Nat
  BY <1>2
<1>. QED  BY <1>1, <1>2, <1>3, <1>4

\* What a try of any alias costs is a number.
LEMMA TryTyped ==
  ASSUME NEW c, DecisionsWithin(c), NEW i \in Items, NEW alias \in Tiers
  PROVE  TryCost(i, alias, c) \in Nat /\ GateCost(i, c) \in Nat
         /\ TryCost(i, alias, c) = Price[alias] + VerifyCalls * c + GateCost(i, c)
<1>1. Price[alias] \in Nat
  BY PricesAssumption
<1>2. GateCost(i, c) \in Nat
  BY CostsTyped DEF GateCost
<1>. QED  BY <1>1, <1>2, CostsTyped DEF TryCost

\* The aliases of a route.
LEMMA RouteTiers ==
  ASSUME CaseTyped, NEW i \in Items
  PROVE  /\ route[i] \in Seq(Tiers) /\ Len(route[i]) \in Nat
         /\ Len(route[i]) > 0 => route[i][1] \in Tiers /\ Head(route[i]) = route[i][1]
         /\ Len(route[i]) > 1 => route[i][2] \in Tiers
         /\ stage[i] \in Trying => Len(route[i]) > 0
<1>1. route[i] \in Seq(Tiers)
  BY DEF CaseTyped
<1>2. stage[i] \in Trying => route[i] # <<>>
  BY DEF CaseTyped
<1>. QED  BY <1>1, <1>2

LEMMA RestTyped ==
  ASSUME NEW c, DecisionsWithin(c), CaseTyped, NEW i \in Items
  PROVE  RestCost(i, c) \in Nat
BY RouteTiers, TryTyped DEF RestCost

LEMMA OwedTyped ==
  ASSUME NEW c, DecisionsWithin(c), CaseTyped, LocalsTyped, NEW i \in Items
  PROVE  Owed(i, c) \in Nat
<1>1. Preflight(i) \in Nat
  BY EstimatesTyped DEF Estimates
<1>2. todo[i] \in 0..VerifyCalls /\ stage[i] \in Stage
  BY DEF LocalsTyped, CaseTyped
<1>3. stage[i] = "generating" => TryCost(i, route[i][1], c) \in Nat
  BY RouteTiers, TryTyped DEF Trying
<1>4. RestCost(i, c) \in Nat /\ GateCost(i, c) \in Nat /\ todo[i] * c \in Nat
  BY <1>2, RestTyped, CostsTyped, TryTyped, RoutesTyped DEF GateCost
<1>. HIDE DEF Preflight
<1>5. CASE stage[i] \in {"out", "queued"}  BY <1>1, <1>5 DEF Owed
<1>6. CASE stage[i] = "routing"            BY <1>6, CostsTyped DEF Owed
<1>7. CASE stage[i] = "generating"         BY <1>3, <1>4, <1>7 DEF Owed
<1>8. CASE stage[i] = "verifying"          BY <1>4, <1>8 DEF Owed
<1>9. CASE stage[i] = "gating"             BY <1>4, <1>9, CostsTyped DEF Owed
<1>10. CASE stage[i] = "writing"           BY <1>10 DEF Owed
<1>. QED  BY <1>2, <1>5, <1>6, <1>7, <1>8, <1>9, <1>10 DEF Stage, InSlot

\* A case at which nothing happens stays within its preflight.
LEMMA AlikeWithin ==
  ASSUME NEW c, NEW k \in Items, CaseWithin(k, c),
         stage'[k] = stage[k], route'[k] = route[k], todo'[k] = todo[k], paid'[k] = paid[k]
  PROVE  CaseWithin(k, c)'
BY DEF CaseWithin, Owed, TryCost, RestCost, GateCost, Preflight

\* What a reply may be reported to cost.
LEMMA ReportsWithin ==
  ASSUME NEW c, DecisionsWithin(c), CaseTyped, NEW i \in Items, NEW r \in Reported(i), stage[i] \in InSlot
  PROVE  /\ Known(r) \in Nat
         /\ stage[i] = "routing" => Known(r) <= Price["economy"]
         /\ stage[i] = "generating" => Known(r) <= Price[route[i][1]]
         /\ stage[i] \in {"verifying", "gating"} => Known(r) <= c
<1>. USE DEF Known
<1>1. \A t \in Tiers : Price[t] \in Nat /\ TierCosts[t] \subseteq 0..Price[t]
  BY PricesAssumption
<1>2. None \notin Nat /\ c \in Nat /\ DecisionCosts \subseteq 0..c
  BY BudgetAssumption DEF DecisionsWithin
<1>3. CASE stage[i] = "routing"
  BY <1>1, <1>2, <1>3 DEF Reported, Tiers
<1>4. CASE stage[i] = "generating"
  <2>1. route[i][1] \in Tiers /\ Head(route[i]) = route[i][1]
    BY <1>4, RouteTiers DEF Trying
  <2>. QED  BY <1>1, <1>2, <1>4, <2>1 DEF Reported
<1>5. CASE stage[i] \in {"verifying", "gating"}
  BY <1>2, <1>5 DEF Reported
<1>. QED  BY <1>3, <1>4, <1>5 DEF InSlot

\* On to the next alias: what was set aside for it is enough.
LEMMA NextWithin ==
  ASSUME NEW c, DecisionsWithin(c), CaseTyped, NEW i \in Items, CaseWithin(i, c),
         TryNext(i), stage[i] \in Trying, paid'[i] + RestCost(i, c) <= Preflight(i), paid'[i] \in Nat
  PROVE  CaseWithin(i, c)'
<1>1. /\ route[i] \in Seq(Tiers) /\ Len(route[i]) \in 1..2 /\ route[i] # <<>>
      /\ Tail(route[i]) \in Seq(Tiers) /\ Len(Tail(route[i])) = Len(route[i]) - 1
      /\ Len(route[i]) = 2 => Tail(route[i])[1] = route[i][2]
  <2>1. route[i] \in Seq(Tiers) /\ Len(route[i]) \in 1..2 /\ route[i] # <<>>
    <3>1. Len(route[i]) \in Nat /\ Len(route[i]) > 0 /\ Len(route[i]) <= 2
      BY RouteTiers DEF CaseWithin
    <3>2. \A k \in Nat : k > 0 /\ k <= 2 => k \in 1..2
      OBVIOUS
    <3>3. Len(route[i]) \in 1..2
      BY <3>1, <3>2
    <3>4. route[i] \in Seq(Tiers) /\ route[i] # <<>>
      BY DEF CaseTyped
    <3>. QED  BY <3>3, <3>4
  <2>2. Tail(route[i]) \in Seq(Tiers) /\ Len(Tail(route[i])) = Len(route[i]) - 1
    BY <2>1
  <2>3. Len(route[i]) = 2 => Tail(route[i])[1] = route[i][2]
    BY <2>1, <2>2
  <2>. QED  BY <2>1, <2>2, <2>3
<1>2. route'[i] = Tail(route[i])
  BY DEF TryNext, CaseTyped
<1>3. Preflight(i)' = Preflight(i)
  BY DEF Preflight
<1>4. CASE Len(route[i]) = 2
  <2>1. stage'[i] = "generating"
    BY <1>4 DEF TryNext, Goto, CaseTyped
  <2>2. RestCost(i, c)' = 0
    BY <1>1, <1>2, <1>4 DEF RestCost
  <2>3. TryCost(i, route[i][2], c) = RestCost(i, c)
    BY <1>4 DEF RestCost
  <2>4. route[i][2] \in Tiers
    BY <1>1, <1>4
  <2>5. TryCost(i, route[i][2], c) \in Nat
    BY <2>4, TryTyped
  <2>6. Owed(i, c)' = TryCost(i, route[i][2], c)
    <3>1. Owed(i, c)' = TryCost(i, route'[i][1], c) + RestCost(i, c)'
      BY <2>1 DEF Owed, TryCost, GateCost
    <3>2. route'[i][1] = route[i][2]
      BY <1>1, <1>2, <1>4
    <3>. QED  BY <2>2, <2>5, <3>1, <3>2
  <2>7. Len(route'[i]) <= 2
    <3>1. Len(route'[i]) = Len(route[i]) - 1
      BY <1>1, <1>2
    <3>. QED  BY <1>4, <3>1
  <2>8. paid'[i] + Owed(i, c)' <= Preflight(i)
    BY <2>3, <2>6
  <2>. QED  BY <1>3, <2>1, <2>7, <2>8 DEF CaseWithin
<1>5. CASE Len(route[i]) = 1
  <2>1. stage'[i] = "writing"
    BY <1>5 DEF TryNext, Goto, CaseTyped
  <2>2. RestCost(i, c) = 0 /\ Owed(i, c)' = 0
    BY <1>5, <2>1 DEF RestCost, Owed
  <2>3. paid'[i] <= Preflight(i)
    BY <2>2
  <2>4. Len(route'[i]) <= 2
    <3>1. Len(route'[i]) = Len(route[i]) - 1
      BY <1>1, <1>2
    <3>. QED  BY <1>5, <3>1
  <2>. QED  BY <1>3, <2>1, <2>2, <2>3, <2>4 DEF CaseWithin
<1>. QED  BY <1>1, <1>4, <1>5

\* A case begins: its route costs no more than its arm's preflight.
LEMMA BeginWithin ==
  ASSUME NEW c, DecisionsWithin(c), PricesOrdered, RuledRoutes, CaseTyped, NEW i \in Items, CaseWithin(i, c),
         BeginCase(i)
  PROVE  CaseWithin(i, c)'
<1>1. paid'[i] = paid[i] /\ paid[i] = 0
  <2>1. paid[i] + Preflight(i) <= Preflight(i) /\ paid[i] \in Nat
    BY DEF BeginCase, CaseWithin, Owed, CaseTyped
  <2>2. Preflight(i) \in Nat
    BY EstimatesTyped DEF Estimates
  <2>. QED  BY <2>1, <2>2 DEF BeginCase
<1>2. Preflight(i)' = Preflight(i) /\ Preflight(i) \in Nat
  BY EstimatesTyped DEF Estimates, Preflight
<1>. DEFINE V == VerifyCalls * c
<1>3. /\ Price["economy"] \in Nat /\ Price["balanced"] \in Nat /\ Price["strong"] \in Nat /\ V \in Nat /\ c \in Nat
      /\ DecisionEstimate \in Nat /\ V <= DecisionEstimate /\ 2 * V + 2 * c <= 3 * DecisionEstimate
      /\ Price["economy"] <= Price["balanced"] /\ Price["balanced"] <= Price["strong"]
  BY CostsTyped DEF DecisionsWithin, PricesOrdered
<1>4. CASE ArmOf[i] = "llm_judge_router"
  <2>1. stage'[i] = "routing" /\ route' = route
    BY <1>4 DEF BeginCase, Goto, CaseTyped
  <2>2. Owed(i, c)' = Price["economy"] + 2 * Price["strong"] + 2 * V
    BY <2>1 DEF Owed
  <2>3. Preflight(i) = Price["economy"] + 2 * Price["strong"] + 2 * DecisionEstimate
    BY <1>4 DEF Preflight
  <2>. HIDE DEF V
  <2>4. paid'[i] + Owed(i, c)' <= Preflight(i)
    BY <1>1, <1>3, <2>2, <2>3
  <2>. QED  BY <1>2, <1>4, <2>1, <2>4 DEF CaseWithin
<1>5. CASE ArmOf[i] # "llm_judge_router"
  <2>1. stage'[i] = "generating" /\ route'[i] = InitialRoute(i)
    BY <1>5 DEF BeginCase, Goto, CaseTyped
  <2>2. Owed(i, c)' = TryCost(i, InitialRoute(i)[1], c)
                     + (IF Len(InitialRoute(i)) > 1 THEN TryCost(i, InitialRoute(i)[2], c) ELSE 0)
    <3>1. Owed(i, c)' = TryCost(i, route'[i][1], c)
                       + (IF Len(route'[i]) > 1 THEN TryCost(i, route'[i][2], c) ELSE 0)
      BY <2>1 DEF Owed, RestCost, TryCost, GateCost
    <3>. QED  BY <2>1, <3>1
  <2>3. Len(InitialRoute(i)) <= 2 /\ Owed(i, c)' <= Preflight(i) /\ Owed(i, c)' \in Nat
    <3>1. \A alias \in Tiers : TryCost(i, alias, c) = Price[alias] + V + GateCost(i, c)
      BY TryTyped
    <3>2. \/ InitialRoute(i) = <<"strong">> /\ ArmOf[i] \in {"fixed_strong", "jev_gated"}
          \/ InitialRoute(i) = <<"balanced", "strong">> /\ ArmOf[i] = "fixed_balanced"
          \/ InitialRoute(i) = <<"economy", "balanced">> /\ ArmOf[i] = "jev_gated"
      BY <1>5, ArmsAssumption DEF InitialRoute, RuledRoutes, Arms
    <3>3. CASE InitialRoute(i) = <<"strong">> /\ ArmOf[i] = "fixed_strong"
      <4>1. Owed(i, c)' = Price["strong"] + V + 0
        BY <2>2, <3>1, <3>3, <1>3 DEF Tiers, GateCost
      <4>2. Preflight(i) = Price["strong"] + 2 * DecisionEstimate
        BY <3>3 DEF Preflight
      <4>. HIDE DEF V
      <4>. QED  BY <1>3, <3>3, <4>1, <4>2
    <3>4. CASE InitialRoute(i) = <<"strong">> /\ ArmOf[i] = "jev_gated"
      <4>1. Owed(i, c)' = Price["strong"] + V + c
        BY <2>2, <3>1, <3>4, <1>3 DEF Tiers, GateCost
      <4>2. Preflight(i) = Price["economy"] + Price["strong"] + 3 * DecisionEstimate
        BY <3>4 DEF Preflight
      <4>. HIDE DEF V
      <4>. QED  BY <1>3, <3>4, <4>1, <4>2
    <3>5. CASE InitialRoute(i) = <<"balanced", "strong">> /\ ArmOf[i] = "fixed_balanced"
      <4>1. Owed(i, c)' = (Price["balanced"] + V + 0) + (Price["strong"] + V + 0)
        BY <2>2, <3>1, <3>5, <1>3 DEF Tiers, GateCost
      <4>2. Preflight(i) = Price["balanced"] + Price["strong"] + 2 * DecisionEstimate
        BY <3>5 DEF Preflight
      <4>. HIDE DEF V
      <4>. QED  BY <1>3, <3>5, <4>1, <4>2
    <3>6. CASE InitialRoute(i) = <<"economy", "balanced">> /\ ArmOf[i] = "jev_gated"
      <4>1. Owed(i, c)' = (Price["economy"] + V + c) + (Price["balanced"] + V + c)
        BY <2>2, <3>1, <3>6, <1>3 DEF Tiers, GateCost
      <4>2. Preflight(i) = Price["economy"] + Price["strong"] + 3 * DecisionEstimate
        BY <3>6 DEF Preflight
      <4>. HIDE DEF V
      <4>. QED  BY <1>3, <3>6, <4>1, <4>2
    <3>. QED  BY <3>2, <3>3, <3>4, <3>5, <3>6
  <2>. QED  BY <1>1, <1>2, <2>1, <2>3, <1>5 DEF CaseWithin
<1>. QED  BY <1>4, <1>5

\* The calls of a case: each pays from what was set aside for it.
LEMMA CallsWithin ==
  ASSUME NEW c, DecisionsWithin(c), PricesOrdered, RuledRoutes, CaseTyped, LocalsTyped, NEW i \in Items,
         CaseWithin(i, c), CaseTyped', CaseStep(i), ~Write(i)
  PROVE  CaseWithin(i, c)'
<1>. DEFINE V == VerifyCalls * c
            P == Preflight(i)
            R == RestCost(i, c)
            G == GateCost(i, c)
<1>1. /\ P \in Nat /\ R \in Nat /\ G \in Nat /\ V \in Nat /\ c \in Nat /\ paid[i] \in Nat /\ paid'[i] \in Nat
      /\ Preflight(i)' = P /\ GateCost(i, c)' = G /\ (VerifyCalls * c)' = V
  <2>1. P \in Nat
    BY EstimatesTyped DEF Estimates
  <2>2. R \in Nat /\ G \in Nat
    BY RestTyped, CostsTyped DEF GateCost
  <2>3. Preflight(i)' = P /\ GateCost(i, c)' = G
    BY DEF Preflight, GateCost
  <2>. QED  BY <2>1, <2>2, <2>3, CostsTyped DEF CaseTyped
<1>. HIDE DEF P, R, G, V
<1>2. ASSUME NEW call, NEW r \in Reported(i), Account(i, call, r), stage[i] \in InSlot
      PROVE  paid'[i] = paid[i] + Known(r) /\ Known(r) \in Nat
  BY <1>2, ReportsWithin DEF Account, CaseTyped
<1>3. route' = route => RestCost(i, c)' = R
  BY DEF RestCost, R, TryCost, GateCost
<1>4. CASE BeginCase(i)
  BY <1>4, BeginWithin
<1>5. ASSUME NEW r \in Reported(i), NEW tier \in Tiers, RouterReturns(i, tier, r)  PROVE CaseWithin(i, c)'
  <2>1. stage[i] = "routing" /\ ArmOf[i] = "llm_judge_router" /\ Account(i, "router", r)
    BY <1>5 DEF RouterReturns, CaseWithin
  <2>2. paid'[i] = paid[i] + Known(r) /\ Known(r) \in Nat /\ Known(r) <= Price["economy"]
    BY <1>2, <2>1, ReportsWithin DEF InSlot
  <2>3. paid[i] + (Price["economy"] + 2 * Price["strong"] + 2 * V) <= P
    BY <2>1 DEF CaseWithin, Owed, P, V
  <2>4. stage'[i] = "generating" /\ route'[i] = WithEscalation(tier)
    BY <1>5 DEF RouterReturns, Goto, CaseTyped
  <2>5. Owed(i, c)' = TryCost(i, WithEscalation(tier)[1], c)
                     + (IF Len(WithEscalation(tier)) > 1 THEN TryCost(i, WithEscalation(tier)[2], c) ELSE 0)
    BY <2>4 DEF Owed, RestCost, TryCost, GateCost
  <2>6. \A alias \in Tiers : TryCost(i, alias, c) = Price[alias] + V
    BY <2>1, PricesAssumption, <1>1 DEF TryCost, GateCost, V
  <2>7. Len(WithEscalation(tier)) <= 2 /\ Owed(i, c)' \in Nat /\ Owed(i, c)' <= 2 * Price["strong"] + 2 * V
    <3>1. /\ Price["economy"] \in Nat /\ Price["balanced"] \in Nat /\ Price["strong"] \in Nat
          /\ Price["economy"] <= Price["balanced"] /\ Price["balanced"] <= Price["strong"]
      BY CostsTyped DEF PricesOrdered
    <3>2. CASE tier = "economy"
      <4>1. WithEscalation(tier) = <<"economy", "balanced">>
        BY <3>2 DEF WithEscalation
      <4>2. Owed(i, c)' = (Price["economy"] + V) + (Price["balanced"] + V)
        BY <2>5, <2>6, <4>1 DEF Tiers
      <4>. QED  BY <1>1, <3>1, <4>1, <4>2
    <3>3. CASE tier = "balanced"
      <4>1. WithEscalation(tier) = <<"balanced", "strong">>
        BY <3>3 DEF WithEscalation
      <4>2. Owed(i, c)' = (Price["balanced"] + V) + (Price["strong"] + V)
        BY <2>5, <2>6, <4>1 DEF Tiers
      <4>. QED  BY <1>1, <3>1, <4>1, <4>2
    <3>4. CASE tier = "strong"
      <4>1. WithEscalation(tier) = <<"strong">>
        BY <3>4 DEF WithEscalation
      <4>2. Owed(i, c)' = Price["strong"] + V
        BY <2>5, <2>6, <4>1, <3>1, <1>1 DEF Tiers
      <4>. QED  BY <1>1, <3>1, <4>1, <4>2
    <3>. QED  BY <3>2, <3>3, <3>4 DEF Tiers
  <2>8. paid'[i] + Owed(i, c)' <= P
    <3>1. \A p, k, e, x, o, l \in Nat : k <= e /\ o <= x /\ p + (e + x) <= l => (p + k) + o <= l
      OBVIOUS
    <3>2. PICK e \in Nat, x \in Nat : e = Price["economy"] /\ x = 2 * Price["strong"] + 2 * V
      BY <1>1, CostsTyped
    <3>3. Known(r) <= e /\ Owed(i, c)' <= x /\ paid[i] + (e + x) <= P
      <4>1. Price["economy"] + 2 * Price["strong"] + 2 * V = Price["economy"] + (2 * Price["strong"] + 2 * V)
        BY <1>1, CostsTyped
      <4>. QED  BY <2>2, <2>3, <2>7, <3>2, <4>1
    <3>4. (paid[i] + Known(r)) + Owed(i, c)' <= P
      BY <1>1, <2>2, <2>7, <3>1, <3>3, Zenon
    <3>. QED  BY <2>2, <3>4
  <2>. QED  BY <1>1, <2>1, <2>4, <2>7, <2>8 DEF CaseWithin
<1>6. ASSUME NEW r \in Reported(i), NEW b \in BOOLEAN, GenerationReturns(i, b, r)  PROVE CaseWithin(i, c)'
  <2>1. stage[i] = "generating" /\ Account(i, "generation", r) /\ route[i][1] \in Tiers
    BY <1>6, RouteTiers DEF GenerationReturns, Trying
  <2>2. paid'[i] = paid[i] + Known(r) /\ Known(r) \in Nat /\ Known(r) <= Price[route[i][1]]
    BY <1>2, <2>1, ReportsWithin DEF InSlot
  <2>3. paid[i] + ((Price[route[i][1]] + V + G) + R) <= P
    BY <2>1 DEF CaseWithin, Owed, TryCost, P, V, G, R
  <2>4. paid'[i] + V + G + R <= P
    BY <1>1, <2>1, <2>2, <2>3, PricesAssumption
  <2>5. CASE ~b
    <3>1. TryNext(i)
      BY <1>6, <2>5 DEF GenerationReturns
    <3>2. paid'[i] + RestCost(i, c) <= Preflight(i)
      BY <1>1, <2>4 DEF P, R
    <3>. QED  BY <1>1, <2>1, <3>1, <3>2, NextWithin DEF Trying
  <2>6. CASE b
    <3>1. PICK n \in 0..VerifyCalls : todo' = [todo EXCEPT ![i] = n]
      BY <1>6, <2>6 DEF GenerationReturns
    <3>2. stage'[i] = "verifying" /\ route' = route /\ todo'[i] = n
      BY <1>6, <2>6, <3>1 DEF GenerationReturns, Goto, CaseTyped, LocalsTyped
    <3>3. Owed(i, c)' = n * c + G + R
      BY <1>1, <1>3, <3>2 DEF Owed
    <3>4. n * c \in Nat /\ n * c <= V
      BY CostsTyped DEF V
    <3>5. paid'[i] + Owed(i, c)' <= P
      BY <1>1, <2>4, <3>3, <3>4
    <3>. QED  BY <1>1, <3>2, <3>5 DEF CaseWithin
  <2>. QED  BY <2>5, <2>6
<1>7. ASSUME NEW r \in Reported(i), NEW b \in BOOLEAN, DecisionReturns(i, b, r)  PROVE CaseWithin(i, c)'
  <2>1. stage[i] = "verifying" /\ todo[i] \in 1..VerifyCalls /\ Account(i, "verification", r)
    BY <1>7 DEF DecisionReturns, CallDue, LocalsTyped
  <2>2. paid'[i] = paid[i] + Known(r) /\ Known(r) \in Nat /\ Known(r) <= c
    BY <1>2, <2>1, ReportsWithin DEF InSlot
  <2>3. stage' = stage /\ route' = route /\ todo'[i] = todo[i] - 1
    BY <1>7 DEF DecisionReturns, LocalsTyped
  <2>4. paid[i] + (todo[i] * c + G + R) <= P
    BY <2>1 DEF CaseWithin, Owed, P, G, R
  <2>5. Owed(i, c)' = (todo[i] - 1) * c + G + R
    BY <1>1, <1>3, <2>1, <2>3 DEF Owed
  <2>6. (todo[i] - 1) * c \in Nat /\ (todo[i] - 1) * c + c = todo[i] * c
    <3>1. PICK m \in Nat : todo[i] = m + 1 /\ m = todo[i] - 1
      <4>1. todo[i] - 1 \in Nat
        BY <2>1
      <4>. QED  BY <2>1, <4>1
    <3>2. m * c + c = (m + 1) * c /\ m * c \in Nat
      BY <1>1
    <3>. QED  BY <3>1, <3>2
  <2>7. paid'[i] + Owed(i, c)' <= P
    <3>1. PICK x \in Nat : x = (todo[i] - 1) * c
      BY <2>6
    <3>2. x + c = todo[i] * c
      BY <2>6, <3>1
    <3>3. paid[i] + ((x + c) + G + R) <= P /\ Owed(i, c)' = x + G + R
      BY <2>4, <2>5, <3>1, <3>2
    <3>. QED  BY <1>1, <2>2, <3>3
  <2>. QED  BY <1>1, <2>1, <2>3, <2>7 DEF CaseWithin
<1>8. ASSUME NEW r \in Reported(i), NEW b \in BOOLEAN, GateReturns(i, b, r)  PROVE CaseWithin(i, c)'
  <2>1. stage[i] = "gating" /\ Account(i, "gate", r)
    BY <1>8 DEF GateReturns
  <2>2. paid'[i] = paid[i] + Known(r) /\ Known(r) \in Nat /\ Known(r) <= c
    BY <1>2, <2>1, ReportsWithin DEF InSlot
  <2>3. paid[i] + (c + R) <= P
    BY <2>1 DEF CaseWithin, Owed, P, R
  <2>4. paid'[i] + R <= P
    BY <1>1, <2>2, <2>3
  <2>5. CASE TryNext(i)
    <3>1. paid'[i] + RestCost(i, c) <= Preflight(i)
      BY <2>4 DEF P, R
    <3>. QED  BY <1>1, <2>1, <2>5, <3>1, NextWithin DEF Trying
  <2>6. CASE Goto(i, "writing") /\ route' = route
    <3>1. stage'[i] = "writing"
      BY <2>6 DEF Goto, CaseTyped
    <3>2. Owed(i, c)' = 0
      BY <3>1 DEF Owed
    <3>3. paid'[i] + Owed(i, c)' <= P
      BY <1>1, <2>4, <3>2
    <3>. QED  BY <1>1, <2>6, <3>1, <3>3 DEF CaseWithin
  <2>. QED  BY <1>8, <2>5, <2>6 DEF GateReturns
<1>9. CASE Verified(i)
  <2>1. stage[i] = "verifying" /\ todo[i] = 0 /\ paid' = paid
    BY <1>9 DEF Verified
  <2>2. paid[i] + (0 * c + G + R) <= P
    BY <2>1 DEF CaseWithin, Owed, P, G, R
  <2>3. paid'[i] + G + R <= P
    BY <1>1, <2>1, <2>2
  <2>4. CASE TryNext(i)
    <3>1. paid'[i] + RestCost(i, c) <= Preflight(i)
      BY <1>1, <2>3 DEF P, R
    <3>. QED  BY <1>1, <2>1, <2>4, <3>1, NextWithin DEF Trying
  <2>5. CASE Goto(i, "writing") /\ route' = route
    <3>1. stage'[i] = "writing"
      BY <2>5 DEF Goto, CaseTyped
    <3>2. Owed(i, c)' = 0
      BY <3>1 DEF Owed
    <3>3. paid'[i] + Owed(i, c)' <= P
      BY <1>1, <2>3, <3>2
    <3>. QED  BY <1>1, <2>5, <3>1, <3>3 DEF CaseWithin
  <2>6. CASE i \in GateItems /\ Goto(i, "gating") /\ route' = route
    <3>1. stage'[i] = "gating" /\ ArmOf[i] = "jev_gated"
      BY <2>6, ArmsAssumption DEF Goto, CaseTyped
    <3>2. G = c /\ Owed(i, c)' = c + R
      BY <1>3, <2>6, <3>1 DEF Owed, G, GateCost
    <3>3. paid'[i] + Owed(i, c)' <= P
      BY <1>1, <2>3, <3>2
    <3>. QED  BY <1>1, <2>6, <3>1, <3>3 DEF CaseWithin
  <2>. QED  BY <1>9, <2>4, <2>5, <2>6 DEF Verified
<1>. QED  BY <1>4, <1>5, <1>6, <1>7, <1>8, <1>9 DEF CaseStep

\* A case that owes all of its preflight and has paid nothing.
LEMMA AtRestWithin ==
  ASSUME NEW c, DecisionsWithin(c), NEW i \in Items,
         stage[i] \in {"out", "queued"}, paid[i] = 0, Len(route[i]) <= 2
  PROVE  CaseWithin(i, c)
<1>1. Preflight(i) \in Nat
  BY EstimatesTyped DEF Estimates
<1>2. Owed(i, c) = Preflight(i)
  BY DEF Owed
<1>. HIDE DEF Preflight
<1>. QED  BY <1>1, <1>2 DEF CaseWithin

\* A step of a case leaves the others alone.
LEMMA OthersAlike ==
  ASSUME CaseTyped, LocalsTyped, NEW i \in Items, CaseStep(i), NEW k \in Items, k # i
  PROVE  stage'[k] = stage[k] /\ route'[k] = route[k] /\ todo'[k] = todo[k] /\ paid'[k] = paid[k]
<1>. USE DEF Goto, TryNext, Account, CaseTyped, LocalsTyped
<1>1. CASE BeginCase(i)
  BY <1>1 DEF BeginCase
<1>2. ASSUME NEW r, NEW tier, RouterReturns(i, tier, r)
      PROVE  stage'[k] = stage[k] /\ route'[k] = route[k] /\ todo'[k] = todo[k] /\ paid'[k] = paid[k]
  BY <1>2 DEF RouterReturns
<1>3. ASSUME NEW r, NEW b \in BOOLEAN, GenerationReturns(i, b, r)
      PROVE  stage'[k] = stage[k] /\ route'[k] = route[k] /\ todo'[k] = todo[k] /\ paid'[k] = paid[k]
  BY <1>3 DEF GenerationReturns
<1>4. ASSUME NEW r, NEW b \in BOOLEAN, DecisionReturns(i, b, r)
      PROVE  stage'[k] = stage[k] /\ route'[k] = route[k] /\ todo'[k] = todo[k] /\ paid'[k] = paid[k]
  BY <1>4 DEF DecisionReturns
<1>5. ASSUME NEW r, NEW b \in BOOLEAN, GateReturns(i, b, r)
      PROVE  stage'[k] = stage[k] /\ route'[k] = route[k] /\ todo'[k] = todo[k] /\ paid'[k] = paid[k]
  BY <1>5 DEF GateReturns
<1>6. CASE Verified(i)
  BY <1>6 DEF Verified
<1>7. CASE Write(i)
  BY <1>7 DEF Write
<1>. QED  BY <1>1, <1>2, <1>3, <1>4, <1>5, <1>6, <1>7 DEF CaseStep

\* Every step keeps every case within its preflight.
LEMMA StepWithin ==
  ASSUME NEW c, DecisionsWithin(c), PricesOrdered, RuledRoutes, BInv(c), [Next]_vars, NEW k \in Items
  PROVE  CaseWithin(k, c)'
<1>1. CaseTyped /\ LocalsTyped /\ CaseWithin(k, c) /\ CaseTyped'
  BY StepCase DEF BInv, AInv, IInv
<1>2. ASSUME stage'[k] \in {"out", "queued"}, paid'[k] = 0, Len(route'[k]) <= 2  PROVE CaseWithin(k, c)'
  <2>1. Preflight(k) \in Nat /\ Preflight(k)' = Preflight(k)
    BY EstimatesTyped DEF Estimates, Preflight
  <2>2. Owed(k, c)' = Preflight(k)
    BY <1>2, <2>1 DEF Owed
  <2>. HIDE DEF Preflight
  <2>. QED  BY <1>2, <2>1, <2>2 DEF CaseWithin
<1>3. ASSUME stage[k] \in {"out", "queued"}  PROVE paid[k] = 0
  <2>1. Preflight(k) \in Nat /\ Owed(k, c) = Preflight(k)
    BY <1>3, EstimatesTyped DEF Estimates, Owed
  <2>2. paid[k] \in Nat /\ paid[k] + Owed(k, c) <= Preflight(k)
    BY <1>1 DEF CaseTyped, CaseWithin
  <2>. HIDE DEF Preflight
  <2>. QED  BY <2>1, <2>2
<1>4. ASSUME NEW S \in Selections, Start(S)  PROVE CaseWithin(k, c)'
  <2>1. selected = None /\ route' = route /\ paid' = paid /\ stage'[k] \in {"out", "queued"}
    BY <1>4 DEF Start, StartRun
  <2>2. stage[k] = "out"
    BY <2>1 DEF BInv, AInv, IInv, RunInv, InStep, Working
  <2>3. Len(route'[k]) <= 2
    BY <1>1, <2>1 DEF CaseWithin
  <2>. QED  BY <1>2, <1>3, <2>1, <2>2, <2>3
<1>5. CASE Stop
  <2>1. stage'[k] = "out" /\ paid'[k] = 0 /\ route'[k] = <<>>
    BY <1>5 DEF Stop
  <2>. QED  BY <1>2, <2>1
<1>6. CASE Finish \/ UNCHANGED vars
  BY <1>1, <1>6, AlikeWithin DEF Finish, caseVars, vars
<1>7. ASSUME NEW i \in Items, CaseStep(i)  PROVE CaseWithin(k, c)'
  <2>1. CASE k # i
    BY <1>1, <1>7, <2>1, OthersAlike, AlikeWithin
  <2>2. CASE k = i /\ Write(i)
    <3>1. stage'[k] = "out" /\ paid'[k] = 0 /\ route'[k] = <<>>
      BY <1>1, <2>2 DEF Write, Goto, CaseTyped
    <3>. QED  BY <1>2, <3>1
  <2>3. CASE k = i /\ ~Write(i)
    BY <1>1, <1>7, <2>3, CallsWithin
  <2>. QED  BY <2>1, <2>2, <2>3
<1>. QED  BY <1>4, <1>5, <1>6, <1>7 DEF Next

\* What is spent and what is estimated for the rest stays within the budget.
LEMMA StepBudget ==
  ASSUME NEW c, DecisionsWithin(c), BInv(c), [Next]_vars
  PROVE  BudgetKept'
<1>. USE DEF BInv, AInv, IInv, RunInv
<1>1. Estimates' = Estimates
  BY DEF Estimates, Preflight
<1>2. IsFiniteSet(pending)
  BY ItemsAssumption, FS_Subset DEF RunTypeOK
<1>3. ASSUME NEW S \in Selections, Start(S)  PROVE BudgetKept'
  BY <1>1, <1>3 DEF Start, StartRun, Affordable, BudgetKept
<1>4. CASE Finish \/ Stop
  BY <1>4 DEF Finish, FinishRun, Stop, StopRun, BudgetKept
<1>5. CASE UNCHANGED runVars
  BY <1>1, <1>5 DEF runVars, BudgetKept
<1>6. ASSUME NEW i \in Items, Write(i)  PROVE BudgetKept'
  <2>. SUFFICES ASSUME selected # None  PROVE spend' + SumFunctionOnSet(Estimates, pending') <= Budget
    BY <1>1, <1>6 DEF Write, WriteRow, BudgetKept
  <2>1. i \in pending /\ pending' = pending \ {i} /\ spend' = spend + Known(Total(i))
    BY <1>6 DEF Write, WriteRow
  <2>2. \A x \in pending : Estimates[x] \in Nat
    BY EstimatesTyped DEF RunTypeOK
  <2>3. SumFunctionOnSet(Estimates, pending) = Estimates[i] + SumFunctionOnSet(Estimates, pending \ {i})
    BY <1>2, <2>1, <2>2, SumTakeOut
  <2>4. SumFunctionOnSet(Estimates, pending \ {i}) \in Nat
    BY <1>2, <2>2, FS_Subset, SumIsNat
  <2>5. Known(Total(i)) \in Nat /\ Known(Total(i)) <= Estimates[i] /\ Estimates[i] \in Nat
    <3>1. stage[i] = "writing" /\ paid[i] \in Nat /\ Preflight(i) \in Nat
      BY <1>6, EstimatesTyped DEF Write, CaseTyped, Estimates
    <3>2. paid[i] + Owed(i, c) <= Preflight(i) /\ Owed(i, c) = 0
      BY <3>1 DEF CaseWithin, Owed
    <3>3. Known(Total(i)) \in {0, paid[i]}
      BY DEF Known, Total
    <3>. HIDE DEF Preflight
    <3>. QED  BY <3>1, <3>2, <3>3 DEF Estimates
  <2>6. spend + SumFunctionOnSet(Estimates, pending) <= Budget /\ spend \in Nat
    BY DEF BudgetKept, RunTypeOK
  <2>7. PICK rest \in Nat, known \in Nat, estimate \in Nat :
          /\ rest = SumFunctionOnSet(Estimates, pending \ {i})
          /\ known = Known(Total(i)) /\ estimate = Estimates[i]
    BY <2>4, <2>5
  <2>8. known <= estimate /\ spend + (estimate + rest) <= Budget /\ spend' = spend + known
    BY <2>1, <2>3, <2>5, <2>6, <2>7
  <2>9. (spend + known) + rest <= Budget
    BY <2>6, <2>8, BudgetAssumption
  <2>. QED  BY <2>1, <2>7, <2>8, <2>9
<1>7. ASSUME NEW i \in Items, CaseStep(i), ~Write(i)  PROVE UNCHANGED runVars
  BY <1>7 DEF CaseStep, BeginCase, RouterReturns, GenerationReturns, DecisionReturns, GateReturns, Verified
<1>. QED  BY <1>3, <1>4, <1>5, <1>6, <1>7 DEF Next, vars

(* run_experiment never spends more than its budget: whatever is selected,  *)
(* started again, escalated or fails, what it recorded, and the estimates   *)
(* of what is left, fit it, and no case pays more than its estimate.  This  *)
(* needs decision calls that cost little beside their padded estimate,      *)
(* prices that rise with the tier, and routes as the contract rules give.   *)
THEOREM PreflightCovers ==
  ASSUME NEW CONSTANT c, DecisionsWithin(c), PricesOrdered, RuledRoutes
  PROVE  Spec => []WithinPreflight
<1>1. Init => BInv(c)
  <2>. SUFFICES ASSUME Init  PROVE BInv(c)
    OBVIOUS
  <2>1. AInv
    BY InitInvariant DEF Init, RunInit, AInv, Working, RowsAdmitUnknown, Calls
  <2>2. LocalsTyped
    BY PricesAssumption DEF Init, LocalsTyped, Calls
  <2>3. BudgetKept
    BY DEF Init, RunInit, BudgetKept
  <2>4. \A i \in Items : CaseWithin(i, c)
    BY AtRestWithin DEF Init
  <2>. QED  BY <2>1, <2>2, <2>3, <2>4 DEF BInv
<1>2. BInv(c) /\ [Next]_vars => BInv(c)'
  BY StepWithin, StepBudget, StepAdmits, StepLocals DEF BInv
<1>3. BInv(c) => WithinPreflight
  <2>. SUFFICES ASSUME BInv(c), NEW i \in Items  PROVE paid[i] <= Preflight(i)
    BY DEF WithinPreflight, BInv, AInv, IInv, RunInv, RunTypeOK, BudgetKept
  <2>1. paid[i] \in Nat /\ Owed(i, c) \in Nat /\ paid[i] + Owed(i, c) <= Preflight(i)
    BY OwedTyped DEF BInv, AInv, IInv, CaseTyped, CaseWithin
  <2>2. Preflight(i) \in Nat
    BY EstimatesTyped DEF Estimates
  <2>. HIDE DEF Preflight
  <2>. QED  BY <2>1, <2>2
<1>. QED  BY <1>1, <1>2, <1>3, PTL DEF Spec
=============================================================================
