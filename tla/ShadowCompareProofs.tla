------------------------ MODULE ShadowCompareProofs ------------------------
(***************************************************************************)
(* Theorems about ShadowCompare, for scans of any height over blocks of    *)
(* any number of receipts.                                                 *)
(***************************************************************************)
EXTENDS ShadowCompare, SequenceTheorems, TLAPS

Reports == [done : BOOLEAN, match : BOOLEAN, layer : SUBSET (0..2),
            l1 : Layers(Nat), l2 : Layers({"touched"})]

\* What the types of the layers leave out: the reports are of heights.
Typed ==
  /\ TypeOK
  /\ canonical \in [Heights -> Seq(Receipts)]
  /\ shadow \in [Heights -> Seq(Receipts)]
  /\ \A h \in Heights : report[h].done => report[h] \in Reports
  /\ report = [h \in Heights |-> report[h]]

\* What Layer 1 and Layer 2 may find at a height.
DeeperAt(h) == RealL0Divergence(Header(h)) \/ config.migration

FirstAt(h) ==
  IF DeeperAt(h) THEN {Found(TxDivergences(shadow[h], canonical[h])), Layer1Error}
  ELSE {Unrun}

SecondAt(h) ==
  IF config.layer2 /\ DeeperAt(h) THEN {Found(StateDivergences(h)), Aborted} ELSE {Unrun}

\* The layers under way are those of the height under comparison.
UnderWay ==
  /\ pc # "layer 0" => height <= Top /\ l0 = Header(height)
  /\ pc \in {"layer 2", "verdict"} => l1 \in FirstAt(height)
  /\ pc = "verdict" => l2 \in SecondAt(height)

\* A report is the verdict on what the layers found at its own height.
Sound ==
  \A h \in Heights : report[h].done =>
    /\ report[h].l1 \in FirstAt(h) /\ report[h].l2 \in SecondAt(h)
    /\ report[h].match <=> DivergenceLayer(Header(h), report[h].l1, report[h].l2) = {}

IInv == Typed /\ UnderWay /\ Sound

-----------------------------------------------------------------------------
(* The layers.                                                             *)

\* Layer 1 finds nothing exactly when the receipts agree.
LEMMA TxAgreement ==
  ASSUME NEW s \in Seq(Receipts), NEW c \in Seq(Receipts)
  PROVE  /\ TxDivergences(s, c) \in SUBSET Nat
         /\ TxDivergences(s, c) = {} <=> s = c
<1>1. Len(s) \in Nat /\ Len(c) \in Nat
  BY LenProperties
<1>2. TxDivergences(s, c) \in SUBSET Nat
  BY <1>1 DEF TxDivergences
<1>3. ASSUME TxDivergences(s, c) = {} PROVE s = c
  <2>1. \A i \in 1..(IF Len(s) > Len(c) THEN Len(s) ELSE Len(c)) :
          i <= Len(s) /\ i <= Len(c) /\ s[i] = c[i]
    BY <1>1, <1>3 DEF TxDivergences
  <2>2. Len(s) = Len(c)
    BY <1>1, <2>1
  <2>3. \A i \in 1..Len(s) : s[i] = c[i]
    BY <1>1, <2>1, <2>2
  <2>4. QED
    BY <2>2, <2>3, SeqEqual
<1>4. ASSUME s = c PROVE TxDivergences(s, c) = {}
  BY <1>1, <1>4 DEF TxDivergences
<1>5. QED
  BY <1>2, <1>3, <1>4

\* What the layers may find has the type of a layer.
LEMMA LayerTypes ==
  ASSUME Typed, NEW h \in Heights
  PROVE  FirstAt(h) \subseteq Layers(Nat) /\ SecondAt(h) \subseteq Layers({"touched"})
<1>1. TxDivergences(shadow[h], canonical[h]) \in SUBSET Nat
  BY TxAgreement DEF Typed
<1>2. StateDivergences(h) \in SUBSET {"touched"}
  BY DEF StateDivergences
<1>3. \A D \in SUBSET Nat : Found(D) \in Layers(Nat)
  BY DEF Found, Layers
<1>4. \A D \in SUBSET {"touched"} : Found(D) \in Layers({"touched"})
  BY DEF Found, Layers
<1>5. \A D : Unrun \in Layers(D) /\ Aborted \in Layers(D)
  BY DEF Unrun, Aborted, Layers
<1>6. QED
  BY <1>1, <1>2, <1>3, <1>4, <1>5 DEF FirstAt, SecondAt, Layer1Error

\* The chains and the options stay, and with them what can be found.
LEMMA ChainsStay ==
  ASSUME UNCHANGED chains, NEW h
  PROVE  /\ Header(h)' = Header(h)
         /\ FirstAt(h)' = FirstAt(h)
         /\ SecondAt(h)' = SecondAt(h)
BY DEF chains, Header, SameResults, Hashed, FirstAt, SecondAt, DeeperAt,
       RealL0Divergence, TxDivergences, StateDivergences, Layer1Error, Found

\* The layers that a verdict can name, and when it names none.
LEMMA DeepestLayer ==
  ASSUME NEW header, NEW first, NEW second
  PROVE  /\ DivergenceLayer(header, first, second) \in SUBSET (0..2)
         /\ DivergenceLayer(header, first, second) = {} <=>
              ~Fired(first) /\ ~Fired(second) /\ ~RealL0Divergence(header)
BY DEF DivergenceLayer

-----------------------------------------------------------------------------
(* The inductive invariant.                                                *)

LEMMA InitIInv == Init => IInv
<1> SUFFICES ASSUME Init PROVE IInv
  OBVIOUS
<1> USE TopAssumption
<1>1. Unrun \in Layers(Nat) /\ Unrun \in Layers({"touched"})
  BY DEF Unrun, Layers
<1>0. NoReport.done = FALSE /\ NoReport.match \in BOOLEAN /\ NoReport.layer \subseteq 0..2
  BY DEF NoReport
<1>2. /\ \A h \in Heights : report[h] = NoReport
      /\ report = [h \in Heights |-> report[h]]
  BY DEF Init
<1>3. \A h \in Heights : report[h].match \in BOOLEAN /\ report[h].layer \subseteq 0..2
  BY <1>0, <1>2
<1>4. canonical \in [Heights -> Seq(Receipts)] /\ shadow \in [Heights -> Seq(Receipts)]
  BY BlocksAssumption DEF Init
<1>5. TypeOK
  <2>1. l0 \in [appHash : BOOLEAN, lastResultsHash : BOOLEAN]
    BY DEF Init, AllMatch
  <2>2. height \in 1..(Top + 1) /\ pc \in {"layer 0", "layer 1", "layer 2", "verdict"}
    <3>1. height = 1 /\ pc = "layer 0"
      BY DEF Init
    <3>2. 1 \in 1..(Top + 1)
      OBVIOUS
    <3>3. QED
      BY <3>1, <3>2
  <2>3. canonical \in [Heights -> Blocks] /\ shadow \in [Heights -> Blocks \cup Shadows]
        /\ state \in [Heights -> States] /\ config \in Config /\ l1 = Unrun /\ l2 = Unrun
    BY DEF Init
  <2>4. QED
    BY <1>1, <1>3, <2>1, <2>2, <2>3 DEF TypeOK
<1>6. Typed
  BY <1>0, <1>2, <1>4, <1>5 DEF Typed
<1>7. UnderWay /\ Sound
  BY <1>0, <1>2 DEF Init, UnderWay, Sound
<1>8. QED
  BY <1>6, <1>7 DEF IInv

\* The heights up to the top.
LEMMA UpToTop ==
  ASSUME NEW h \in 1..(Top + 1), h <= Top
  PROVE  h \in Heights
BY TopAssumption DEF Heights

\* A layer runs at a height of the scan.
LEMMA AtAHeight ==
  ASSUME IInv, height <= Top \/ pc # "layer 0"
  PROVE  height \in Heights /\ (pc # "layer 0" => l0 = Header(height))
<1>1. height \in 1..(Top + 1)
  BY DEF IInv, Typed, TypeOK
<1>2. height <= Top /\ (pc # "layer 0" => l0 = Header(height))
  BY DEF IInv, UnderWay
<1>3. height \in Heights
  <2>1. height <= Top
    BY <1>2
  <2>2. QED
    BY <1>1, <2>1, UpToTop
<1>4. QED
  BY <1>2, <1>3

\* The report of the height under comparison.
LEMMA VerdictEffect ==
  ASSUME IInv, Verdict
  PROVE  /\ height \in Heights
         /\ \A h \in Heights \ {height} : report'[h] = report[h]
         /\ report'[height] \in Reports /\ report'[height].done
         /\ report'[height].l1 = l1 /\ report'[height].l2 = l2
         /\ report'[height].match <=> DivergenceLayer(Header(height), l1, l2) = {}
         /\ report' = [h \in Heights |-> report'[h]]
<1> DEFINE layer == DivergenceLayer(l0, l1, l2)
           new == [done |-> TRUE, match |-> layer = {}, layer |-> layer, l1 |-> l1, l2 |-> l2]
<1>1. height \in Heights /\ l0 = Header(height)
  BY AtAHeight DEF Verdict
<1>2. report' = [report EXCEPT ![height] = new]
  BY DEF Verdict
<1>3. layer \in SUBSET (0..2)
  BY DeepestLayer
<1>4. new \in Reports /\ new.done /\ new.l1 = l1 /\ new.l2 = l2 /\ (new.match <=> layer = {})
  <2> HIDE DEF layer
  <2>1. l1 \in Layers(Nat) /\ l2 \in Layers({"touched"})
    BY DEF IInv, Typed, TypeOK
  <2>2. QED
    BY <1>3, <2>1 DEF Reports
<1> HIDE DEF new
<1>5. report = [h \in Heights |-> report[h]]
  BY DEF IInv, Typed
<1>6. report'[height] = new /\ \A h \in Heights \ {height} : report'[h] = report[h]
  BY <1>1, <1>2, <1>5
<1>7. report' = [h \in Heights |-> report'[h]]
  BY <1>1, <1>2, <1>5
<1>8. QED
  BY <1>1, <1>4, <1>6, <1>7

LEMMA TypedStep == IInv /\ [Next]_vars => Typed'
<1> SUFFICES ASSUME IInv, [Next]_vars PROVE Typed'
  OBVIOUS
<1> USE TopAssumption DEF IInv
<1>1. CASE CompareLayer0
  <2>1. height \in Heights /\ UNCHANGED <<chains, height, l1, l2, report>>
    BY <1>1, AtAHeight DEF CompareLayer0
  <2>2. l0' \in [appHash : BOOLEAN, lastResultsHash : BOOLEAN]
    BY <1>1 DEF CompareLayer0, Header
  <2>3. TypeOK'
    BY <1>1, <2>1, <2>2 DEF CompareLayer0, chains, Typed, TypeOK
  <2>4. QED
    BY <2>1, <2>3 DEF chains, Typed
<1>2. CASE CompareLayer1
  <2>1. height \in Heights
    BY <1>2, AtAHeight DEF CompareLayer1
  <2>2. l1' \in FirstAt(height)
    BY <1>2 DEF CompareLayer1, UnderWay, FirstAt, DeeperAt, Deeper
  <2>3. l1' \in Layers(Nat)
    BY <2>1, <2>2, LayerTypes
  <2>4. TypeOK'
    BY <1>2, <2>3 DEF CompareLayer1, chains, Typed, TypeOK
  <2>5. QED
    BY <1>2, <2>4 DEF CompareLayer1, chains, Typed
<1>3. CASE CompareLayer2
  <2>1. height \in Heights
    BY <1>3, AtAHeight DEF CompareLayer2
  <2>2. l2' \in SecondAt(height)
    BY <1>3 DEF CompareLayer2, UnderWay, SecondAt, DeeperAt, Deeper
  <2>3. l2' \in Layers({"touched"})
    BY <2>1, <2>2, LayerTypes
  <2>4. TypeOK'
    BY <1>3, <2>3 DEF CompareLayer2, chains, Typed, TypeOK
  <2>5. QED
    BY <1>3, <2>4 DEF CompareLayer2, chains, Typed
<1>4. CASE Verdict
  <2>1. height \in Heights /\ height' \in 1..(Top + 1)
    <3>1. height \in 1..Top /\ height' = height + 1
      BY <1>4, VerdictEffect DEF Verdict, Heights
    <3>2. QED
      BY <3>1 DEF Heights
  <2>2. \A h \in Heights : report'[h].match \in BOOLEAN /\ report'[h].layer \subseteq 0..2
    BY <1>4, VerdictEffect DEF Typed, TypeOK, Reports
  <2>3. Unrun \in Layers(Nat) /\ Unrun \in Layers({"touched"})
    BY DEF Unrun, Layers
  <2>4. TypeOK'
    BY <1>4, <2>1, <2>2, <2>3 DEF Verdict, chains, AllMatch, Typed, TypeOK
  <2>5. \A h \in Heights : report'[h].done => report'[h] \in Reports
    BY <1>4, VerdictEffect DEF Typed
  <2>6. report' = [h \in Heights |-> report'[h]]
    BY <1>4, VerdictEffect
  <2>7. QED
    BY <1>4, <2>4, <2>5, <2>6 DEF Verdict, chains, Typed
<1>5. CASE UNCHANGED vars
  BY <1>5 DEF vars, chains, Typed, TypeOK
<1>6. QED
  BY <1>1, <1>2, <1>3, <1>4, <1>5 DEF Next

LEMMA IInvStep == IInv /\ [Next]_vars => IInv'
<1> SUFFICES ASSUME IInv, [Next]_vars PROVE UnderWay' /\ Sound'
  BY TypedStep DEF IInv
<1> USE TopAssumption DEF IInv
<1>0. UNCHANGED chains
  BY DEF Next, CompareLayer0, CompareLayer1, CompareLayer2, Verdict, vars
<1>1. \A h : /\ Header(h)' = Header(h) /\ FirstAt(h)' = FirstAt(h)
             /\ SecondAt(h)' = SecondAt(h)
  BY <1>0, ChainsStay
<1>2. UnderWay'
  <2>1. CASE CompareLayer0
    BY <1>1, <2>1 DEF CompareLayer0, UnderWay
  <2>2. CASE CompareLayer1
    <3>1. l1' \in FirstAt(height)
      BY <2>2 DEF CompareLayer1, UnderWay, FirstAt, DeeperAt, Deeper
    <3>2. QED
      BY <1>1, <2>2, <3>1 DEF CompareLayer1, UnderWay
  <2>3. CASE CompareLayer2
    <3>1. l2' \in SecondAt(height)
      BY <2>3 DEF CompareLayer2, UnderWay, SecondAt, DeeperAt, Deeper
    <3>2. QED
      BY <1>1, <2>3, <3>1 DEF CompareLayer2, UnderWay
  <2>4. CASE Verdict
    BY <2>4 DEF Verdict, UnderWay
  <2>5. CASE UNCHANGED vars
    BY <1>1, <2>5 DEF vars, UnderWay
  <2>6. QED
    BY <2>1, <2>2, <2>3, <2>4, <2>5 DEF Next
<1>4. Sound'
  <2> SUFFICES ASSUME NEW h \in Heights, report'[h].done
               PROVE  /\ report'[h].l1 \in FirstAt(h) /\ report'[h].l2 \in SecondAt(h)
                      /\ report'[h].match <=>
                           DivergenceLayer(Header(h), report'[h].l1, report'[h].l2) = {}
    BY <1>0, <1>1 DEF Sound, DivergenceLayer, RealL0Divergence, chains
  <2>1. CASE Verdict /\ h = height
    BY <2>1, VerdictEffect DEF Verdict, UnderWay
  <2>2. CASE report'[h] = report[h]
    BY <2>2 DEF Sound
  <2>3. QED
    BY <2>1, <2>2, VerdictEffect DEF Next, CompareLayer0, CompareLayer1, CompareLayer2, vars
<1>5. QED
  BY <1>2, <1>4

-----------------------------------------------------------------------------
(* The theorems.                                                           *)

LEMMA Invariance == Spec => []IInv
BY InitIInv, IInvStep, PTL DEF Spec

\* The variables keep their types.
THEOREM TypeCorrect == Spec => []TypeOK
<1>1. IInv => TypeOK
  BY DEF IInv, Typed
<1>2. QED
  BY Invariance, <1>1, PTL

\* A block matches when no layer fired and the header is as expected.
LEMMA MatchMeans ==
  ASSUME IInv, NEW h \in Heights, report[h].done
  PROVE  report[h].match <=>
           ~Fired(report[h].l1) /\ ~Fired(report[h].l2) /\ ~RealL0Divergence(Header(h))
BY DeepestLayer DEF IInv, Sound

\* What a layer reports is all it could find.
LEMMA LayersMean ==
  ASSUME IInv, NEW h \in Heights, report[h].done, config.migration
  PROVE  /\ ~Fired(report[h].l1) <=>
              report[h].l1 = Found({}) /\ shadow[h] = canonical[h]
         /\ Fired(report[h].l1) =>
              report[h].l1.indeterminate \/ shadow[h] # canonical[h]
         /\ ~Fired(report[h].l2) /\ config.layer2 =>
              state[h] # "touched" /\ report[h].l2.ran
         /\ Fired(report[h].l2) =>
              report[h].l2.indeterminate \/ state[h] = "touched"
<1>1. DeeperAt(h)
  BY DEF DeeperAt
<1>2. report[h].l1 \in {Found(TxDivergences(shadow[h], canonical[h])), Aborted}
  BY <1>1 DEF IInv, Sound, FirstAt, Layer1Error
<1>3. TxDivergences(shadow[h], canonical[h]) = {} <=> shadow[h] = canonical[h]
  BY TxAgreement DEF IInv, Typed
<1>4. report[h].l2 \in (IF config.layer2 THEN {Found(StateDivergences(h)), Aborted} ELSE {Unrun})
  BY <1>1 DEF IInv, Sound, SecondAt
<1>5. StateDivergences(h) = {} <=> state[h] # "touched"
  BY DEF StateDivergences
<1>6. Fired(Aborted) /\ Aborted.indeterminate /\ ~Fired(Unrun)
  BY DEF Fired, Aborted, Unrun
<1>7. \A D : /\ Fired(Found(D)) <=> D # {}
             /\ Found(D).ran /\ ~Found(D).indeterminate
  BY DEF Fired, Found
<1>8. QED
  BY <1>2, <1>3, <1>4, <1>5, <1>6, <1>7

\* In a migration a match rests on every check that bears weight, and each of
\* them ran and agreed, whatever the blocks hold and whichever layer failed.
THEOREM FailsClosed == Spec => []MigrationFailsClosed
<1>1. IInv => MigrationFailsClosed
  BY MatchMeans, LayersMean DEF MigrationFailsClosed, Reported
<1>2. QED
  BY Invariance, <1>1, PTL

\* Outside a migration a match says that all executions before it agreed.
THEOREM NoEscape == Spec => []NothingEscapes
<1>1. ASSUME IInv PROVE NothingEscapes
  <2> SUFFICES ASSUME ~config.migration, NEW h \in Heights \ {1}, report[h].done, report[h].match
               PROVE  SameResults(h - 1) /\ \A g \in 1..(h - 1) : state[g] = "same"
    BY DEF NothingEscapes, Reported
  <2>1. ~RealL0Divergence(Header(h))
    BY <1>1, MatchMeans
  <2>2. Header(h).appHash /\ Header(h).lastResultsHash
    BY <2>1 DEF RealL0Divergence
  <2>3. h # 1
    OBVIOUS
  <2>4. QED
    BY <2>2, <2>3 DEF Header
<1>2. QED
  BY Invariance, <1>1, PTL

\* In a migration a mismatch has a cause other than the AppHash it expects.
THEOREM NoFalseBlame == Spec => []NoFalseAlarm
<1>1. ASSUME IInv PROVE NoFalseAlarm
  <2> SUFFICES ASSUME config.migration, NEW h \in Heights, report[h].done, ~report[h].match
               PROVE  \/ shadow[h] # canonical[h] \/ (h > 1 /\ ~SameResults(h - 1))
                      \/ state[h] = "touched"
                      \/ report[h].l1.indeterminate \/ report[h].l2.indeterminate
    BY DEF NoFalseAlarm, Reported
  <2>1. Fired(report[h].l1) \/ Fired(report[h].l2) \/ RealL0Divergence(Header(h))
    BY <1>1, MatchMeans
  <2>2. ASSUME RealL0Divergence(Header(h)) PROVE h > 1 /\ ~SameResults(h - 1)
    <3>1. ~Header(h).lastResultsHash
      BY <2>2 DEF RealL0Divergence
    <3>2. h # 1 /\ ~SameResults(h - 1)
      BY <3>1 DEF Header
    <3>3. QED
      BY <3>2, TopAssumption DEF Heights
  <2>3. QED
    BY <1>1, <2>1, <2>2, LayersMean
<1>2. QED
  BY Invariance, <1>1, PTL

=============================================================================
