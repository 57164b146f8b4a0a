------------------------- MODULE ResumableRunProofs -------------------------
(***************************************************************************)
(* What the steps of ResumableRun keep, whichever script takes them: the   *)
(* types, one row per item, a process that knows what its file says, and   *)
(* a manifest that stays true of the file.                                 *)
(***************************************************************************)
EXTENDS ResumableRun, StatisticsProofs

\* No item that a process still has to measure has a row.
PendingUnmeasured == \A n \in DOMAIN rows : rows[n].item \notin pending

\* A process knows what its file lacks and what it has cost.
InStep ==
  /\ selected = None => pending = {}
  /\ selected # None => pending = Missing(selected) /\ spend = Recorded(selected)

\* The manifest counts a row for every item it selects, and adds them up.
ManifestAddsUp ==
  manifest # None =>
    LET S == manifest.selected IN
    /\ manifest.observed = Cardinality(S) /\ Missing(S) = {}
    /\ manifest.spend = Recorded(S)

RunInv == RunTypeOK /\ PendingUnmeasured /\ RowsUnique /\ InStep /\ ManifestAddsUp

\* Somebody gives the next process a new output file.
NewFile ==
  /\ selected = None
  /\ rows' = <<>> /\ manifest' = None /\ spend' = 0 /\ unknownSeen' = FALSE
  /\ UNCHANGED <<selected, pending>>

\* What a script may do to the file.
RunStep ==
  \/ \E S \in Selections, estimate \in [Items -> Nat] : StartRun(S, estimate)
  \/ \E i \in Items, total \in Nat \cup {None}, flag \in BOOLEAN : WriteRow(i, total, flag)
  \/ FinishRun
  \/ StopRun
  \/ NewFile
  \/ UNCHANGED runVars

-----------------------------------------------------------------------------
(* What the file says of a selection.                                      *)

LEMMA RowsTyped ==
  ASSUME RunTypeOK
  PROVE  /\ DOMAIN rows = 1..Len(rows) /\ Len(rows) \in Nat /\ IsFiniteSet(DOMAIN rows)
         /\ \A n \in DOMAIN rows : rows[n].item \in Items /\ rows[n].total \in Nat \cup {None}
         /\ \A n \in DOMAIN rows : RowCosts[n] = Known(rows[n].total) /\ RowCosts[n] \in Nat
<1>1. rows \in Seq(Row) /\ DOMAIN rows = 1..Len(rows) /\ Len(rows) \in Nat
  BY DEF RunTypeOK
<1>2. IsFiniteSet(DOMAIN rows)
  BY <1>1, FS_Interval
<1>3. \A n \in DOMAIN rows : rows[n] \in Row
  BY <1>1
<1>4. \A n \in DOMAIN rows : rows[n].item \in Items /\ rows[n].total \in Nat \cup {None}
  BY <1>3 DEF Row
<1>. QED  BY <1>1, <1>2, <1>4, BudgetAssumption DEF RowCosts, Known

LEMMA RowsOfTyped ==
  ASSUME RunTypeOK, NEW S
  PROVE  /\ RowsOf(S) \in SUBSET DOMAIN rows /\ IsFiniteSet(RowsOf(S))
         /\ Cardinality(RowsOf(S)) \in Nat
BY RowsTyped, FS_Subset, FS_CardinalityType DEF RowsOf

LEMMA RecordedTyped ==
  ASSUME RunTypeOK, NEW S
  PROVE  Recorded(S) \in Nat
BY RowsTyped, RowsOfTyped, SumIsNat DEF Recorded

\* One row for an item: as many rows as items, when none is missing.
LEMMA RowsCounted ==
  ASSUME RunTypeOK, RowsUnique, NEW S, Missing(S) = {}
  PROVE  Cardinality(RowsOf(S)) = Cardinality(S)
<1>. DEFINE f == [n \in RowsOf(S) |-> rows[n].item]
<1>1. \A n \in RowsOf(S) : rows[n].item \in S
  BY DEF RowsOf
<1>2. \A i \in S : \E n \in RowsOf(S) : rows[n].item = i
  BY DEF Missing, RowsOf
<1>3. \A m, n \in RowsOf(S) : rows[m].item = rows[n].item => m = n
  BY DEF RowsUnique, RowsOf
<1>4. f \in Bijection(RowsOf(S), S)
  BY <1>1, <1>2, <1>3 DEF Bijection, Injection, Surjection, IsInjective
<1>5. ExistsBijection(RowsOf(S), S)
  BY <1>4, Zenon DEF ExistsBijection
<1>. QED  BY <1>5, RowsOfTyped, FS_Bijection

-----------------------------------------------------------------------------
(* A new row.                                                              *)

\* It is the last one, and nothing else changes.
LEMMA RowAdded ==
  ASSUME RunTypeOK, NEW i \in Items, NEW total \in Nat \cup {None},
         rows' = Append(rows, [item |-> i, total |-> total])
  PROVE  /\ rows' \in Seq(Row)
         /\ \E last : /\ last \notin DOMAIN rows /\ DOMAIN rows' = DOMAIN rows \cup {last}
                      /\ rows'[last] = [item |-> i, total |-> total]
                      /\ \A n \in DOMAIN rows : rows'[n] = rows[n]
<1>1. [item |-> i, total |-> total] \in Row
  BY DEF Row
<1>2. rows \in Seq(Row) /\ rows' \in Seq(Row)
  BY <1>1 DEF RunTypeOK
<1>3. PICK last : last = Len(rows) + 1
  OBVIOUS
<1>4. /\ last \notin DOMAIN rows /\ DOMAIN rows' = DOMAIN rows \cup {last}
      /\ rows'[last] = [item |-> i, total |-> total]
      /\ \A n \in DOMAIN rows : rows'[n] = rows[n]
  BY <1>1, <1>2, <1>3
<1>. QED  BY <1>2, <1>4

\* A selection that has the item gains a row and its cost; no other one changes.
LEMMA SelectionAfterRow ==
  ASSUME RunTypeOK, NEW i \in Items, NEW total \in Nat \cup {None},
         rows' = Append(rows, [item |-> i, total |-> total]), NEW S
  PROVE  /\ Missing(S)' = Missing(S) \ {i}
         /\ i \notin S => RowsOf(S)' = RowsOf(S) /\ Recorded(S)' = Recorded(S)
         /\ i \in S => Recorded(S)' = Recorded(S) + Known(total)
<1>1. PICK last : /\ last \notin DOMAIN rows /\ DOMAIN rows' = DOMAIN rows \cup {last}
                  /\ rows'[last] = [item |-> i, total |-> total]
                  /\ \A n \in DOMAIN rows : rows'[n] = rows[n]
  BY RowAdded
<1>2. \A U : RowsOf(U)' = IF i \in U THEN RowsOf(U) \cup {last} ELSE RowsOf(U)
  BY <1>1 DEF RowsOf
<1>3. Missing(S)' = Missing(S) \ {i}
  BY <1>1 DEF Missing, RowsOf
<1>4. /\ last \notin RowsOf(S) /\ IsFiniteSet(RowsOf(S)) /\ Known(total) \in Nat
      /\ \A n \in RowsOf(S) : RowCosts[n] \in Nat /\ RowCosts'[n] = RowCosts[n]
      /\ RowCosts'[last] = Known(total)
  <2>1. RowsOf(S) \subseteq DOMAIN rows /\ IsFiniteSet(RowsOf(S))
    BY RowsOfTyped
  <2>2. Known(total) \in Nat
    BY BudgetAssumption DEF Known
  <2>3. RowCosts'[last] = Known(total)
    BY <1>1 DEF RowCosts
  <2>4. \A n \in DOMAIN rows : RowCosts'[n] = RowCosts[n]
    BY <1>1 DEF RowCosts
  <2>. QED  BY <1>1, <2>1, <2>2, <2>3, <2>4, RowsTyped
<1>5. SumFunctionOnSet(RowCosts', RowsOf(S)) = Recorded(S)
  BY <1>4, SumAgrees DEF Recorded
<1>6. Recorded(S)' = SumFunctionOnSet(RowCosts', RowsOf(S)')
  BY DEF Recorded
<1>7. ASSUME i \notin S  PROVE Recorded(S)' = Recorded(S) /\ RowsOf(S)' = RowsOf(S)
  BY <1>2, <1>5, <1>6, <1>7
<1>8. ASSUME i \in S  PROVE Recorded(S)' = Recorded(S) + Known(total)
  <2>1. RowsOf(S)' = RowsOf(S) \cup {last}
    BY <1>2, <1>8
  <2>2. \A n \in RowsOf(S) \cup {last} : RowCosts'[n] \in Nat
    BY <1>4
  <2>3. SumFunctionOnSet(RowCosts', RowsOf(S) \cup {last}) = Known(total) + Recorded(S)
    BY <1>4, <1>5, <2>2, SumPutIn
  <2>4. Recorded(S) \in Nat
    BY RecordedTyped
  <2>. QED  BY <1>4, <1>6, <2>1, <2>3, <2>4
<1>. QED  BY <1>3, <1>7, <1>8

-----------------------------------------------------------------------------
(* The steps.                                                              *)

LEMMA StartKept ==
  ASSUME RunInv, NEW S \in Selections, NEW estimate, StartRun(S, estimate)
  PROVE  RunInv'
<1>1. /\ selected' = S /\ pending' = Missing(S) /\ spend' = Recorded(S)
      /\ unknownSeen' = (\E n \in DOMAIN rows : rows[n].total = None)
      /\ rows' = rows /\ manifest' = manifest /\ RunTypeOK
  BY DEF StartRun, RunInv
<1>2. \A U : Missing(U)' = Missing(U) /\ Recorded(U)' = Recorded(U)
  BY <1>1 DEF Missing, Recorded, RowsOf, RowCosts
<1>3. S # None /\ S \subseteq Items /\ Recorded(S) \in Nat
  BY <1>1, ItemsAssumption, RecordedTyped
<1>4. RunTypeOK'
  BY <1>1, <1>3 DEF RunTypeOK, Missing
<1>5. PendingUnmeasured'
  BY <1>1 DEF PendingUnmeasured, Missing, RowsOf
<1>6. InStep'
  BY <1>1, <1>2, <1>3 DEF InStep
<1>. QED  BY <1>1, <1>2, <1>4, <1>5, <1>6 DEF RunInv, RowsUnique, ManifestAddsUp

LEMMA RowKept ==
  ASSUME RunInv, NEW i \in Items, NEW total \in Nat \cup {None}, NEW flag \in BOOLEAN,
         WriteRow(i, total, flag)
  PROVE  RunInv'
<1>1. /\ i \in pending /\ rows' = Append(rows, [item |-> i, total |-> total])
      /\ pending' = pending \ {i} /\ spend' = spend + Known(total)
      /\ unknownSeen' = (unknownSeen \/ flag) /\ selected' = selected /\ manifest' = manifest
      /\ RunTypeOK /\ Known(total) \in Nat
  BY BudgetAssumption DEF WriteRow, RunInv, Known
<1>2. PICK last : /\ rows' \in Seq(Row) /\ last \notin DOMAIN rows /\ DOMAIN rows' = DOMAIN rows \cup {last}
                  /\ rows'[last] = [item |-> i, total |-> total]
                  /\ \A n \in DOMAIN rows : rows'[n] = rows[n]
  BY <1>1, RowAdded
<1>3. RunTypeOK'
  BY <1>1, <1>2 DEF RunTypeOK
<1>4. PendingUnmeasured' /\ RowsUnique'
  BY <1>1, <1>2 DEF RunInv, PendingUnmeasured, RowsUnique
<1>5. PICK S : S = selected
  OBVIOUS
<1>6. S # None /\ pending = Missing(S) /\ spend = Recorded(S) /\ i \in S
  BY <1>1, <1>5 DEF RunInv, InStep, Missing
<1>7. Missing(S)' = Missing(S) \ {i} /\ Recorded(S)' = Recorded(S) + Known(total)
  BY <1>1, <1>6, SelectionAfterRow
<1>8. InStep'
  BY <1>1, <1>5, <1>6, <1>7 DEF InStep
<1>9. ManifestAddsUp'
  <2>. SUFFICES ASSUME manifest # None  PROVE ManifestAddsUp'
    BY <1>1 DEF ManifestAddsUp
  <2>1. PICK U : U = manifest.selected
    OBVIOUS
  <2>2. manifest.observed = Cardinality(U) /\ Missing(U) = {} /\ manifest.spend = Recorded(U)
    BY <2>1 DEF RunInv, ManifestAddsUp
  <2>3. i \notin U
    BY <1>1, <2>2 DEF RunInv, PendingUnmeasured, Missing, RowsOf
  <2>4. Missing(U)' = {} /\ Recorded(U)' = Recorded(U)
    BY <1>1, <2>2, <2>3, SelectionAfterRow
  <2>. QED  BY <1>1, <2>1, <2>2, <2>4 DEF ManifestAddsUp
<1>. QED  BY <1>3, <1>4, <1>8, <1>9 DEF RunInv

LEMMA FinishKept == ASSUME RunInv, FinishRun  PROVE RunInv'
<1>1. PICK S : S = selected
  OBVIOUS
<1>2. /\ S # None /\ S \in Selections /\ selected' = None /\ pending' = {} /\ pending = {}
      /\ rows' = rows /\ spend' = spend /\ unknownSeen' = unknownSeen
      /\ manifest' = [selected |-> S, observed |-> Cardinality(RowsOf(S)), spend |-> spend, complete |-> ~unknownSeen]
  BY <1>1 DEF FinishRun, RunInv, RunTypeOK
<1>3. \A U : Missing(U)' = Missing(U) /\ Recorded(U)' = Recorded(U)
  BY <1>2 DEF Missing, Recorded, RowsOf, RowCosts
<1>4. Missing(S) = {} /\ spend = Recorded(S)
  BY <1>1, <1>2 DEF RunInv, InStep
<1>5. Cardinality(RowsOf(S)) = Cardinality(S) /\ Cardinality(RowsOf(S)) \in Nat
  BY <1>4, RowsCounted, RowsOfTyped DEF RunInv
<1>6. RunTypeOK'
  BY <1>2, <1>5 DEF RunInv, RunTypeOK
<1>7. PendingUnmeasured' /\ RowsUnique' /\ InStep'
  BY <1>2 DEF RunInv, PendingUnmeasured, RowsUnique, InStep
<1>8. ManifestAddsUp'
  BY <1>2, <1>3, <1>4, <1>5 DEF ManifestAddsUp
<1>. QED  BY <1>6, <1>7, <1>8 DEF RunInv

\* A script keeps the file and its manifest in order, whatever it does.
LEMMA RunKept == ASSUME RunInv, RunStep  PROVE RunInv'
<1>1. ASSUME NEW S \in Selections, NEW estimate, StartRun(S, estimate)  PROVE RunInv'
  BY <1>1, StartKept
<1>2. ASSUME NEW i \in Items, NEW total \in Nat \cup {None}, NEW flag \in BOOLEAN, WriteRow(i, total, flag)
      PROVE  RunInv'
  BY <1>2, RowKept
<1>3. CASE FinishRun
  BY <1>3, FinishKept
<1>4. CASE StopRun
  <2>1. /\ selected' = None /\ pending' = {} /\ rows' = rows /\ spend' = spend
        /\ unknownSeen' = unknownSeen /\ manifest' = manifest
    BY <1>4 DEF StopRun
  <2>2. \A U : Missing(U)' = Missing(U) /\ Recorded(U)' = Recorded(U)
    BY <2>1 DEF Missing, Recorded, RowsOf, RowCosts
  <2>. QED  BY <2>1, <2>2 DEF RunInv, RunTypeOK, PendingUnmeasured, RowsUnique, InStep, ManifestAddsUp
<1>5. CASE NewFile
  <2>1. RunTypeOK'
    <3>1. rows' = <<>> /\ manifest' \in {None} /\ spend' \in Nat /\ unknownSeen' \in BOOLEAN
      BY <1>5, Zenon, 0 \in Nat DEF NewFile
    <3>2. selected' \in Selections \cup {None} /\ pending' \in SUBSET Items
      BY <1>5 DEF NewFile, RunInv, RunTypeOK
    <3>. QED  BY <3>1, <3>2 DEF RunTypeOK
  <2>2. PendingUnmeasured' /\ RowsUnique' /\ InStep' /\ ManifestAddsUp'
    BY <1>5 DEF NewFile, RunInv, PendingUnmeasured, RowsUnique, InStep, ManifestAddsUp
  <2>. QED  BY <2>1, <2>2 DEF RunInv
<1>6. CASE UNCHANGED runVars
  <2>1. \A U : Missing(U)' = Missing(U) /\ Recorded(U)' = Recorded(U)
    BY <1>6 DEF runVars, Missing, Recorded, RowsOf, RowCosts
  <2>2. RunTypeOK' /\ PendingUnmeasured' /\ RowsUnique'
    BY <1>6 DEF runVars, RunInv, RunTypeOK, PendingUnmeasured, RowsUnique
  <2>3. InStep' /\ ManifestAddsUp'
    BY <1>6, <2>1 DEF runVars, RunInv, InStep, ManifestAddsUp
  <2>. QED  BY <2>2, <2>3 DEF RunInv
<1>. QED  BY <1>1, <1>2, <1>3, <1>4, <1>5, <1>6 DEF RunStep

LEMMA RunStarts == RunInit => RunInv
<1>. SUFFICES ASSUME RunInit  PROVE RunInv
  OBVIOUS
<1>1. RunTypeOK
  <2>1. rows = <<>> /\ manifest \in {None} /\ spend \in Nat /\ unknownSeen \in BOOLEAN
    BY Zenon, 0 \in Nat DEF RunInit
  <2>2. selected \in {None} /\ pending \in SUBSET Items
    BY DEF RunInit
  <2>. QED  BY <2>1, <2>2 DEF RunTypeOK
<1>2. PendingUnmeasured /\ RowsUnique /\ InStep /\ ManifestAddsUp
  BY DEF RunInit, PendingUnmeasured, RowsUnique, InStep, ManifestAddsUp
<1>. QED  BY <1>1, <1>2 DEF RunInv
=============================================================================
