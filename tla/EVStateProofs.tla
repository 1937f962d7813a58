---------------------------- MODULE EVStateProofs ----------------------------
(***************************************************************************)
(* What holds of EVState for every table shape, every tunable and every    *)
(* stream of probes and loss reports.                                      *)
(***************************************************************************)
EXTENDS EVStateHistory, SprayPick, FiniteSetTheorems, SequenceTheorems,
        WellFoundedInduction, TLAPS

\* The floor is at least one EV and never more than there are
\* (EVStateConfig.resolve_min_active).
LEMMA MinActiveBounds == MinActive \in 1..NumEVs
  BY ShapeAssumption DEF MinActive, LargerOf, SmallerOf

LEMMA NumEVsType == NumEVs \in Nat /\ EV = 1..NumEVs
  BY ShapeAssumption DEF EV

LEMMA CapType == HealthyCap \in Nat
  BY HoldAssumption

\* The least number of a set of numbers.
LEMMA Least ==
    ASSUME NEW B \in SUBSET Nat, B # {}
    PROVE  \E n \in B : \A m \in Nat : m < n => m \notin B
<1> DEFINE R == OpToRel(<, Nat)
<1>1. IsWellFoundedOn(R, Nat)
  BY NatLessThanWellFounded
<1>2. \A x, y \in Nat : <<x, y>> \in R <=> x < y
  BY DEF OpToRel
<1> HIDE DEF R
<1>3. PICK n \in B : \A m \in B : ~(<<m, n>> \in R)
  BY <1>1, WFMin
<1>4. QED
  BY <1>2, <1>3

\* The holds of all levels, each twice the one below: there is such a function.
LEMMA HoldThere ==
    \E h : h = [l \in 0..LossBackoffMaxLevel |->
                  IF l = 0 THEN ProbeRecoverTicks ELSE 2 * h[l - 1]]
<1> DEFINE Upto(h, n) ==
      \A l \in 0..n : h[l] = IF l = 0 THEN ProbeRecoverTicks ELSE 2 * h[l - 1]
    Miss == {n \in Nat : ~\E h : Upto(h, n)}
<1>1. Miss = {}
  <2>1. SUFFICES ASSUME Miss # {} PROVE FALSE
    OBVIOUS
  <2>2. PICK n \in Miss : \A m \in Nat : m < n => m \notin Miss
    BY <2>1, Least
  <2>3. n # 0
    <3>1. Upto([l \in 0..0 |-> ProbeRecoverTicks], 0)
      OBVIOUS
    <3>2. QED
      BY <2>2, <3>1
  <2>4. n - 1 \in Nat /\ n - 1 < n /\ n \in Nat
    BY <2>2, <2>3
  <2>5. PICK g : Upto(g, n - 1)
    BY <2>2, <2>4
  <2>6. Upto([l \in 0..n |-> IF l = n THEN 2 * g[n - 1] ELSE g[l]], n)
    BY <2>4, <2>5
  <2>7. QED
    BY <2>2, <2>6
<1>2. PICK g : Upto(g, LossBackoffMaxLevel)
  BY <1>1, TunableAssumption
<1> DEFINE h == [l \in 0..LossBackoffMaxLevel |-> g[l]]
<1>3. \A l \in 0..LossBackoffMaxLevel :
          h[l] = IF l = 0 THEN ProbeRecoverTicks ELSE 2 * h[l - 1]
  BY <1>2, TunableAssumption
<1>4. h = [l \in 0..LossBackoffMaxLevel |->
                  IF l = 0 THEN ProbeRecoverTicks ELSE 2 * h[l - 1]]
  BY <1>3
<1>5. QED
  BY <1>4

LEMMA HoldDef ==
    \A l \in 0..LossBackoffMaxLevel :
        Hold[l] = IF l = 0 THEN ProbeRecoverTicks ELSE 2 * Hold[l - 1]
<1> DEFINE h == CHOOSE g : g = [l \in 0..LossBackoffMaxLevel |->
                  IF l = 0 THEN ProbeRecoverTicks ELSE 2 * g[l - 1]]
<1>1. h = [l \in 0..LossBackoffMaxLevel |->
                  IF l = 0 THEN ProbeRecoverTicks ELSE 2 * h[l - 1]]
  BY HoldThere, Zenon
<1>2. Hold = h
  BY Zenon DEF Hold
<1> HIDE DEF h
<1>3. QED
  BY <1>1, <1>2

\* A hold is never shorter than the one of a lower level.
LEMMA HoldBounds ==
    \A l \in 0..LossBackoffMaxLevel :
        /\ Hold[l] \in Nat
        /\ Hold[l] >= ProbeRecoverTicks
        /\ Hold[l] <= Hold[LossBackoffMaxLevel]
<1> DEFINE M == LossBackoffMaxLevel
           Low == {n \in Nat : n <= M /\ ~(Hold[n] \in Nat /\ Hold[n] >= ProbeRecoverTicks)}
           High == {n \in Nat : n <= M /\ ~(Hold[M - n] <= Hold[M])}
<1>0. M \in Nat /\ ProbeRecoverTicks \in Nat
  BY TunableAssumption
<1>1. Low = {}
  <2>1. SUFFICES ASSUME Low # {} PROVE FALSE
    OBVIOUS
  <2>2. PICK n \in Low : \A m \in Nat : m < n => m \notin Low
    BY <2>1, Least
  <2>3. n \in 0..M /\ Hold[n] = IF n = 0 THEN ProbeRecoverTicks ELSE 2 * Hold[n - 1]
    BY <1>0, <2>2, HoldDef
  <2>4. n # 0
    BY <1>0, <2>2, <2>3
  <2>5. Hold[n - 1] \in Nat /\ Hold[n - 1] >= ProbeRecoverTicks
    BY <1>0, <2>2, <2>3, <2>4
  <2>6. QED
    BY <1>0, <2>2, <2>3, <2>4, <2>5
<1>2. \A l \in 0..M : Hold[l] \in Nat /\ Hold[l] >= ProbeRecoverTicks
  BY <1>0, <1>1
<1>3. High = {}
  <2>1. SUFFICES ASSUME High # {} PROVE FALSE
    OBVIOUS
  <2>2. PICK n \in High : \A m \in Nat : m < n => m \notin High
    BY <2>1, Least
  <2>3. n # 0
    BY <1>0, <1>2, <2>2
  <2>4. Hold[M - (n - 1)] <= Hold[M]
    BY <1>0, <2>2, <2>3
  <2>5. M - n \in 0..M /\ M - (n - 1) \in 0..M /\ M - (n - 1) # 0
        /\ (M - (n - 1)) - 1 = M - n /\ M \in 0..M
    BY <1>0, <2>2, <2>3
  <2>6. Hold[M - (n - 1)] = 2 * Hold[M - n]
    BY <2>5, HoldDef
  <2>7. Hold[M - n] \in Nat /\ Hold[M] \in Nat
    BY <1>2, <2>5
  <2>8. Hold[M - n] <= Hold[M]
    BY <2>4, <2>6, <2>7
  <2>9. QED
    BY <2>2, <2>8
<1>4. ASSUME NEW l \in 0..M PROVE Hold[l] <= Hold[M]
  <2>1. M - l \in Nat /\ M - l <= M /\ M - (M - l) = l
    BY <1>0
  <2>2. M - l \notin High
    BY <1>3
  <2>3. QED
    BY <2>1, <2>2
<1>5. QED
  BY <1>2, <1>4

\* A cached weight is 0, 1 or 2.
LEMMA WeightsType ==
  ASSUME NEW st \in [EV -> EVStates]
  PROVE  WeightsOf(st) \in [EV -> 0..2]
  BY DEF WeightsOf, StateWeight, EVStates

\* Rotation keeps a ring a sequence of buckets.
LEMMA RotatedType ==
  ASSUME TypeOK, NEW e \in EV
  PROVE  Rotated(e) \in Seq(Bucket)
<1> DEFINE b == [sent |-> curSent[e], recv |-> curRecv[e]]
           all == Append(buckets[e], b)
<1>1. b \in Bucket
  BY TunableAssumption DEF TypeOK, Bucket
<1>2. buckets[e] \in Seq(Bucket)
  BY DEF TypeOK
<1>3. all \in Seq(Bucket) /\ all # <<>>
  BY <1>1, <1>2
<1>4. Tail(all) \in Seq(Bucket)
  BY <1>3
<1> QED
  BY <1>3, <1>4 DEF Rotated

-----------------------------------------------------------------------------
(***************************************************************************)
(* Type correctness                                                        *)
(***************************************************************************)

LEMMA InitType == Init => TypeOK
<1> SUFFICES ASSUME Init PROVE TypeOK
  OBVIOUS
<1> USE TunableAssumption, CapType
<1>1. state \in [EV -> EVStates]
  BY DEF Init, EVStates
<1>2. weights \in [EV -> 0..2]
  BY <1>1, WeightsType DEF Init
<1>3. buckets \in [EV -> Seq(Bucket)]
  BY DEF Init
<1>4. tickPos \in 0..NumEVs /\ changed \in 0..NumEVs
  BY NumEVsType DEF Init
<1> QED
  BY <1>1, <1>2, <1>3, <1>4 DEF Init, TypeOK

\* The three ways a critical section leaves the table.
LEMMA DemoteType ==
  ASSUME TypeOK, NEW e \in EV, NEW byLoss \in BOOLEAN, Demote(e, byLoss)
  PROVE  /\ state' \in [EV -> EVStates]
         /\ weights' \in [EV -> 0..2]
         /\ healthy' \in [EV -> 0..HealthyCap]
         /\ lossStreak' \in [EV -> 0..LossDemoteConsecutive]
         /\ lossDemoted' \in [EV -> BOOLEAN]
         /\ backoffLevel' \in [EV -> 0..LossBackoffMaxLevel]
         /\ recoverAge' \in [EV -> 0..LossBackoffResetTicks]
         /\ changed' \in 0..NumEVs
<1> USE TunableAssumption, CapType DEF TypeOK
<1>1. state' \in [EV -> EVStates]
  BY DEF Demote, EVStates
<1>2. weights' \in [EV -> 0..2] /\ changed' \in 0..NumEVs
  BY NumEVsType DEF Demote
<1>3. LevelAfterLoss(e) \in 0..LossBackoffMaxLevel
  BY DEF LevelAfterLoss, SmallerOf
<1>4. backoffLevel' \in [EV -> 0..LossBackoffMaxLevel]
  BY <1>3 DEF Demote
<1>5. healthy' \in [EV -> 0..HealthyCap]
  BY DEF Demote
<1>6. lossStreak' \in [EV -> 0..LossDemoteConsecutive]
  BY DEF Demote
<1>7. lossDemoted' \in [EV -> BOOLEAN]
  BY Zenon DEF Demote
<1> QED
  BY <1>1, <1>2, <1>4, <1>5, <1>6, <1>7 DEF Demote

LEMMA PromoteType ==
  ASSUME TypeOK, NEW e \in EV, Promote(e)
  PROVE  /\ state' \in [EV -> EVStates]
         /\ weights' \in [EV -> 0..2]
         /\ healthy' \in [EV -> 0..HealthyCap]
         /\ lossStreak' \in [EV -> 0..LossDemoteConsecutive]
         /\ lossDemoted' \in [EV -> BOOLEAN]
         /\ backoffLevel' \in [EV -> 0..LossBackoffMaxLevel]
         /\ recoverAge' \in [EV -> 0..LossBackoffResetTicks]
         /\ changed' \in 0..NumEVs
<1> USE TunableAssumption, CapType DEF TypeOK
<1>1. state' \in [EV -> EVStates]
  BY DEF Promote, EVStates
<1>2. weights' \in [EV -> 0..2] /\ changed' \in 0..NumEVs
  BY NumEVsType DEF Promote
<1>3. healthy' \in [EV -> 0..HealthyCap]
  BY DEF Promote
<1>4. recoverAge' \in [EV -> 0..LossBackoffResetTicks]
  BY DEF Promote
<1>5. lossDemoted' \in [EV -> BOOLEAN]
  BY Zenon DEF Promote
<1> QED
  BY <1>1, <1>2, <1>3, <1>4, <1>5 DEF Promote

LEMMA SetHealthyType ==
  ASSUME TypeOK, NEW e \in EV, NEW n \in 0..HealthyCap, SetHealthy(e, n)
  PROVE  /\ state' \in [EV -> EVStates]
         /\ weights' \in [EV -> 0..2]
         /\ healthy' \in [EV -> 0..HealthyCap]
         /\ lossStreak' \in [EV -> 0..LossDemoteConsecutive]
         /\ lossDemoted' \in [EV -> BOOLEAN]
         /\ backoffLevel' \in [EV -> 0..LossBackoffMaxLevel]
         /\ recoverAge' \in [EV -> 0..LossBackoffResetTicks]
         /\ changed' \in 0..NumEVs
  BY DEF TypeOK, SetHealthy, backoff

LEMMA HealthyNowType ==
  ASSUME TypeOK, NEW e \in EV
  PROVE  HealthyNow(e) \in 0..HealthyCap
  BY CapType DEF TypeOK, HealthyNow, SmallerOf

\* An evaluation demotes, promotes, or sets the healthy-window count.
LEMMA EvaluateCases ==
  ASSUME TypeOK, NEW e \in EV, Evaluate(e)
  PROVE  \/ MayDemote(e) /\ Demote(e, FALSE)
         \/ MayPromote(e) /\ Promote(e)
         \/ \E n \in {0, healthy[e], HealthyNow(e)} : SetHealthy(e, n)
  BY DEF Evaluate

\* A loss report of any counts, not only of those in LossReports.
AnyLoss == \E e \in EV : \E seen, expected \in Nat : RecordLossWindow(e, seen, expected)

LEMMA ListedLoss ==
  ASSUME NEW e \in EV, NEW r \in LossReports, RecordLossWindow(e, r[1], r[2])
  PROVE  AnyLoss
<1>1. r[1] \in Nat /\ r[2] \in Nat
  BY LossReportAssumption
<1> QED
  BY <1>1 DEF AnyLoss

LEMMA TypeStep == TypeOK /\ ([Next]_vars \/ AnyLoss) => TypeOK'
<1> SUFFICES ASSUME TypeOK, [Next]_vars \/ AnyLoss PROVE TypeOK'
  OBVIOUS
<1>1. ASSUME NEW e \in EV, RecordProbeSent(e) PROVE TypeOK'
  <2>1. curSent' \in [EV -> 0..MaxPerBucket]
    BY <1>1, TunableAssumption DEF TypeOK, RecordProbeSent
  <2> QED
    BY <1>1, <2>1 DEF TypeOK, RecordProbeSent, latches, backoff, lock
<1>2. ASSUME NEW e \in EV, RecordProbeRecv(e) PROVE TypeOK'
  <2>1. curRecv' \in [EV -> 0..MaxPerBucket]
    BY <1>2, TunableAssumption DEF TypeOK, RecordProbeRecv
  <2> QED
    BY <1>2, <2>1 DEF TypeOK, RecordProbeRecv, latches, backoff, lock
<1>3. CASE TickBegin
  <2>1. recoverAge' \in [EV -> 0..LossBackoffResetTicks]
    BY <1>3, TunableAssumption DEF TypeOK, TickBegin, SmallerOf
  <2>2. tickPos' \in 0..NumEVs
    BY <1>3, ShapeAssumption DEF TickBegin
  <2> QED
    BY <1>3, <2>1, <2>2 DEF TypeOK, TickBegin, evidence, latches
<1>4. ASSUME NEW e \in EV, TickEV(e) PROVE TypeOK'
  <2>1. /\ curSent' \in [EV -> 0..MaxPerBucket]
        /\ curRecv' \in [EV -> 0..MaxPerBucket]
    BY <1>4, TunableAssumption DEF TypeOK, TickEV
  <2>2. buckets' \in [EV -> Seq(Bucket)]
    BY <1>4, RotatedType DEF TypeOK, TickEV
  <2>3. tickPos' \in 0..NumEVs
    <3>1. e \in 1..NumEVs /\ NumEVs \in Nat
      BY NumEVsType
    <3>2. tickPos' \in {e, After(e)}
      BY <1>4 DEF TickEV
    <3> QED
      BY <3>1, <3>2 DEF After
  <2>4. CASE Demote(e, FALSE)
    BY <2>1, <2>2, <2>3, <2>4, DemoteType DEF TypeOK
  <2>5. CASE Promote(e)
    BY <2>1, <2>2, <2>3, <2>5, PromoteType DEF TypeOK
  <2>6. ASSUME NEW n \in {0, healthy[e], HealthyNow(e)}, SetHealthy(e, n)
        PROVE  TypeOK'
    <3>0. 0 \in 0..HealthyCap
      BY CapType
    <3>1. healthy[e] \in 0..HealthyCap
      BY DEF TypeOK
    <3>2. n \in 0..HealthyCap
      BY <2>6, <3>0, <3>1, HealthyNowType, Zenon
    <3> QED
      BY <2>1, <2>2, <2>3, <2>6, <3>2, SetHealthyType DEF TypeOK
  <2>7. Evaluate(e)
    BY <1>4 DEF TickEV
  <2> QED
    BY <2>4, <2>5, <2>6, <2>7, EvaluateCases
<1>5. ASSUME NEW e \in EV, NEW seen \in Nat, NEW expected \in Nat,
             RecordLossWindow(e, seen, expected)
      PROVE  TypeOK'
  <2>1. UNCHANGED <<evidence, tickPos>>
    BY <1>5 DEF RecordLossWindow
  <2>2. CASE Demote(e, TRUE)
    BY <2>1, <2>2, DemoteType DEF TypeOK, evidence
  <2>3. ASSUME NEW n \in 0..LossDemoteConsecutive,
               lossStreak' = [lossStreak EXCEPT ![e] = n],
               UNCHANGED <<state, healthy, backoff, weights, changed>>
        PROVE  TypeOK'
    <3>1. lossStreak' \in [EV -> 0..LossDemoteConsecutive]
      BY <2>3 DEF TypeOK
    <3> QED
      BY <2>1, <2>3, <3>1 DEF TypeOK, evidence, backoff
  <2>4. \/ Demote(e, TRUE)
        \/ /\ \E n \in {0, lossStreak[e],
                        SmallerOf(lossStreak[e] + 1, LossDemoteConsecutive)} :
                 lossStreak' = [lossStreak EXCEPT ![e] = n]
           /\ UNCHANGED <<state, healthy, backoff, weights, changed>>
    BY <1>5, Zenon DEF RecordLossWindow
  <2>5. {0, lossStreak[e], SmallerOf(lossStreak[e] + 1, LossDemoteConsecutive)}
            \subseteq 0..LossDemoteConsecutive
    BY TunableAssumption DEF TypeOK, SmallerOf
  <2> QED
    BY <2>2, <2>3, <2>4, <2>5
<1>6. CASE AnyLoss
  BY <1>5, <1>6 DEF AnyLoss
<1>7. CASE RebuildWeights
  <2>1. weights' \in [EV -> 0..2]
    BY <1>7, WeightsType DEF TypeOK, RebuildWeights
  <2>2. tickPos' \in 0..NumEVs /\ changed' \in 0..NumEVs
    <3>1. tickPos \in 0..NumEVs /\ NumEVs \in Nat
      BY NumEVsType DEF TypeOK
    <3>2. tickPos' \in {0, After(tickPos)} /\ changed' = 0
      BY <1>7 DEF RebuildWeights
    <3> QED
      BY <3>1, <3>2 DEF After
  <2> QED
    BY <1>7, <2>1, <2>2 DEF TypeOK, RebuildWeights, evidence, latches, backoff
<1>8. CASE UNCHANGED vars
  BY <1>8 DEF TypeOK, vars, evidence, latches, backoff, lock
<1> QED
  BY <1>1, <1>2, <1>3, <1>4, <1>6, <1>7, <1>8, ListedLoss DEF Next

\* Every field of the table keeps its type and every saturating counter its
\* bound (the _EVRecord fields).
THEOREM TypeCorrect == Spec => []TypeOK
  BY InitType, TypeStep, PTL DEF Spec

-----------------------------------------------------------------------------
(***************************************************************************)
(* The floor and the weights cache                                         *)
(***************************************************************************)

SafetyInv == TypeOK /\ FloorInv /\ WeightsOneBehind

LEMMA UsableFinite == IsFiniteSet(Usable) /\ Cardinality(Usable) \in Nat
<1>1. IsFiniteSet(EV)
  BY NumEVsType, FS_Interval
<1>2. Usable \in SUBSET EV
  BY DEF Usable
<1> QED
  BY <1>1, <1>2, FS_Subset, FS_CardinalityType

LEMMA InitFloor == Init => FloorInv
<1> SUFFICES ASSUME Init PROVE FloorInv
  OBVIOUS
<1>1. Usable = 1..NumEVs
  BY NumEVsType DEF Init, Usable
<1>2. Cardinality(1..NumEVs) = NumEVs
  BY ShapeAssumption, FS_Interval
<1> QED
  BY <1>1, <1>2, MinActiveBounds, NumEVsType DEF FloorInv

LEMMA UsableWeight ==
  ASSUME TypeOK, NEW e \in Usable
  PROVE  e \in EV /\ StateWeight(state[e]) \in {1, 2}
  BY DEF TypeOK, Usable, EVStates, StateWeight

\* With the floor, some EV has weight, so the uniform fallback of
\* _rebuild_weights_locked is never the answer.
LEMMA SomeUsable ==
  ASSUME FloorInv
  PROVE  Usable # {}
  BY UsableFinite, FS_EmptySet, MinActiveBounds, NumEVsType DEF FloorInv

\* A demote that passed the floor's test keeps the floor, and leaves weight with
\* some EV that stays.
LEMMA DemoteFloor ==
  ASSUME TypeOK, WeightsOneBehind, changed = 0,
         NEW e \in EV, NEW byLoss \in BOOLEAN,
         MayDemote(e), Demote(e, byLoss)
  PROVE  FloorInv' /\ WeightsOneBehind'
<1>1. Usable' = Usable \ {e}
  BY DEF TypeOK, Demote, Usable
<1>2. Cardinality(Usable \ {e}) >= MinActive
  BY DEF MayDemote, FloorAllows
<1>3. FloorInv'
  BY <1>1, <1>2 DEF FloorInv
<1>4. PICK f : f \in Usable \ {e}
  <2>1. Cardinality(Usable \ {e}) # 0
    BY <1>2, MinActiveBounds, NumEVsType
  <2>2. Usable \ {e} # {}
    BY <2>1, FS_EmptySet, Zenon
  <2> QED
    BY <2>2
<1>5. StateWeight(state[f]) \in {1, 2} /\ f \in EV /\ f # 0
  BY <1>4, UsableWeight, NumEVsType
<1>6. weights'[f] = StateWeight(state[f])
  BY <1>5 DEF WeightsOneBehind, Demote
<1>7. \A g \in EV \ {e} : weights'[g] = StateWeight(state'[g])
  <2> TAKE g \in EV \ {e}
  <2>1. g # 0 /\ state'[g] = state[g] /\ weights' = weights
    BY NumEVsType DEF Demote, TypeOK
  <2> QED
    BY <2>1 DEF WeightsOneBehind
<1>8. weights'[f] > 0
  BY <1>5, <1>6
<1>9. f \in Usable' /\ changed' = e
  BY <1>1, <1>4 DEF Demote
<1> QED
  BY <1>3, <1>7, <1>8, <1>9 DEF WeightsOneBehind

\* A promotion only adds to the usable EVs.
LEMMA PromoteFloor ==
  ASSUME TypeOK, FloorInv, WeightsOneBehind, changed = 0,
         NEW e \in EV, Promote(e)
  PROVE  FloorInv' /\ WeightsOneBehind'
<1>1. Usable' = Usable \cup {e}
  BY DEF TypeOK, Promote, Usable
<1>2. Cardinality(Usable \cup {e}) \in {Cardinality(Usable), Cardinality(Usable) + 1}
  BY UsableFinite, FS_AddElement
<1>3. FloorInv'
  BY <1>1, <1>2, UsableFinite, MinActiveBounds, NumEVsType DEF FloorInv
<1>4. \E f \in Usable' : weights'[f] > 0
  BY <1>1 DEF WeightsOneBehind, Promote
<1>5. \A g \in EV \ {e} : weights'[g] = StateWeight(state'[g])
  <2> TAKE g \in EV \ {e}
  <2>1. g # 0 /\ state'[g] = state[g] /\ weights' = weights
    BY NumEVsType DEF Promote, TypeOK
  <2> QED
    BY <2>1 DEF WeightsOneBehind
<1>6. changed' = e
  BY DEF Promote
<1> QED
  BY <1>3, <1>4, <1>5, <1>6 DEF WeightsOneBehind

LEMMA SameStateFloor ==
  ASSUME FloorInv, WeightsOneBehind, UNCHANGED <<state, weights, changed>>
  PROVE  FloorInv' /\ WeightsOneBehind'
<1>1. Usable' = Usable
  BY DEF Usable
<1> QED
  BY <1>1 DEF FloorInv, WeightsOneBehind

\* What the states call for, once the floor rules the fallback out.
LEMMA FloorWeights ==
  ASSUME TypeOK, FloorInv
  PROVE  WeightsOf(state) = [e \in EV |-> StateWeight(state[e])]
<1>1. PICK u : u \in Usable
  BY SomeUsable
<1>2. u \in EV /\ StateWeight(state[u]) # 0
  BY <1>1, UsableWeight
<1> QED
  BY <1>2, Zenon DEF WeightsOf

\* The rebuild brings the cache up to date.
LEMMA RebuildFloor ==
  ASSUME TypeOK, FloorInv, UNCHANGED state, weights' = WeightsOf(state)
  PROVE  FloorInv' /\ WeightsOneBehind'
<1>1. Usable' = Usable
  BY DEF Usable
<1>2. weights' = [e \in EV |-> StateWeight(state[e])]
  BY FloorWeights
<1>3. PICK u : u \in Usable
  BY SomeUsable
<1>4. u \in EV /\ StateWeight(state[u]) \in {1, 2}
  BY <1>3, UsableWeight
<1>5. weights'[u] > 0
  BY <1>2, <1>4
<1>6. \A e \in EV : weights'[e] = StateWeight(state'[e])
  BY <1>2
<1> QED
  BY <1>1, <1>3, <1>5, <1>6 DEF FloorInv, WeightsOneBehind

LEMMA SafetyStep == SafetyInv /\ ([Next]_vars \/ AnyLoss) => SafetyInv'
<1> SUFFICES ASSUME TypeOK, FloorInv, WeightsOneBehind, [Next]_vars \/ AnyLoss
             PROVE  FloorInv' /\ WeightsOneBehind'
  BY TypeStep DEF SafetyInv
<1>1. ASSUME NEW e \in EV, RecordProbeSent(e) PROVE FloorInv' /\ WeightsOneBehind'
  BY <1>1, SameStateFloor DEF RecordProbeSent, lock
<1>2. ASSUME NEW e \in EV, RecordProbeRecv(e) PROVE FloorInv' /\ WeightsOneBehind'
  BY <1>2, SameStateFloor DEF RecordProbeRecv, lock
<1>3. CASE TickBegin
  BY <1>3, SameStateFloor DEF TickBegin
<1>4. ASSUME NEW e \in EV, TickEV(e) PROVE FloorInv' /\ WeightsOneBehind'
  <2>1. Evaluate(e) /\ changed = 0
    BY <1>4 DEF TickEV
  <2>2. CASE MayDemote(e) /\ Demote(e, FALSE)
    BY <2>1, <2>2, DemoteFloor
  <2>3. CASE Promote(e)
    BY <2>1, <2>3, PromoteFloor
  <2>4. ASSUME NEW n, SetHealthy(e, n) PROVE FloorInv' /\ WeightsOneBehind'
    BY <2>4, SameStateFloor DEF SetHealthy
  <2> QED
    BY <2>1, <2>2, <2>3, <2>4, EvaluateCases
<1>5. ASSUME NEW e \in EV, NEW seen \in Nat, NEW expected \in Nat,
             RecordLossWindow(e, seen, expected)
      PROVE  FloorInv' /\ WeightsOneBehind'
  <2>1. changed = 0
    BY <1>5 DEF RecordLossWindow, LockFree
  <2>2. CASE MayDemote(e) /\ Demote(e, TRUE)
    BY <2>1, <2>2, DemoteFloor
  <2>3. CASE UNCHANGED <<state, weights, changed>>
    BY <2>3, SameStateFloor
  <2> QED
    BY <1>5, <2>2, <2>3 DEF RecordLossWindow
<1>6. CASE AnyLoss
  BY <1>5, <1>6 DEF AnyLoss
<1>7. CASE RebuildWeights
  BY <1>7, RebuildFloor DEF RebuildWeights
<1>8. CASE UNCHANGED vars
  BY <1>8, SameStateFloor DEF vars, lock
<1> QED
  BY <1>1, <1>2, <1>3, <1>4, <1>6, <1>7, <1>8, ListedLoss DEF Next

LEMMA InitCache == Init => WeightsOneBehind
<1> SUFFICES ASSUME Init PROVE WeightsOneBehind
  OBVIOUS
<1>1. TypeOK /\ FloorInv
  BY InitType, InitFloor
<1>2. weights = [e \in EV |-> StateWeight(state[e])]
  BY <1>1, FloorWeights DEF Init
<1>3. PICK u : u \in Usable
  BY <1>1, SomeUsable
<1>4. u \in EV /\ StateWeight(state[u]) \in {1, 2}
  BY <1>1, <1>3, UsableWeight
<1>5. weights[u] > 0
  BY <1>2, <1>4
<1> QED
  BY <1>2, <1>3, <1>5 DEF WeightsOneBehind

LEMMA SafetyInvariant == Spec => []SafetyInv
<1>1. Init => SafetyInv
  BY InitType, InitFloor, InitCache DEF SafetyInv
<1> QED
  BY <1>1, SafetyStep, PTL DEF Spec

\* However probe verdicts and loss reports interleave, _try_demote_locked never
\* lets fewer than min_active EVs be usable.
THEOREM FloorHolds == Spec => []FloorInv
<1>1. SafetyInv => FloorInv
  BY DEF SafetyInv
<1> QED
  BY <1>1, SafetyInvariant, PTL

\* While no transition is under way, the weights tell the usable EVs.
LEMMA ServedAreUsable ==
  ASSUME SafetyInv, changed = 0
  PROVE  \A e \in EV : weights[e] = 0 <=> state[e] = "ASSUMED_BAD"
<1> TAKE e \in EV
<1>1. weights[e] = StateWeight(state[e])
  BY NumEVsType DEF SafetyInv, WeightsOneBehind
<1> QED
  BY <1>1 DEF StateWeight, SafetyInv, TypeOK, EVStates

\* A reader of weights_ev(), which takes no lock, sees at most one EV with a
\* weight of before its last transition, none while the lock is free, and always
\* some usable EV with weight: in the middle of a tick, of a loss report, and
\* after a callback that raised.
THEOREM WeightsFollowStates == Spec => []WeightsOneBehind
<1>1. SafetyInv => WeightsOneBehind
  BY DEF SafetyInv
<1> QED
  BY <1>1, SafetyInvariant, PTL

-----------------------------------------------------------------------------
(***************************************************************************)
(* The recovery latch                                                      *)
(***************************************************************************)

\* While an EV is out, the healthy-window count never exceeds the ticks that
\* visited it since its demotion: a demote starts the count afresh.
LatchInv ==
    /\ TypeOK
    /\ badFor \in [EV -> 0..HealthyCap]
    /\ \A e \in EV : Bad(e) => healthy[e] <= badFor[e]

LEMMA LatchInit == HInit => LatchInv
<1> SUFFICES ASSUME HInit PROVE LatchInv
  OBVIOUS
<1>1. TypeOK
  BY InitType DEF HInit
<1> QED
  BY <1>1, CapType DEF HInit, Init, LatchInv, Bad

LEMMA TickIsVisit ==
  ASSUME NEW e \in EV, TickEV(e)
  PROVE  Visited(e)
<1>1. e \in 1..NumEVs /\ NumEVs \in Nat
  BY NumEVsType
<1>2. tickPos = e /\ changed = 0
  BY DEF TickEV
<1>3. tickPos' = After(e) \/ changed' # 0
  BY DEF TickEV
<1>4. After(e) # e
  BY <1>1 DEF After
<1> QED
  BY <1>2, <1>3, <1>4 DEF Visited, lock

\* What a step does to the latch of one EV.
LEMMA LatchCases ==
  ASSUME TypeOK, Next, NEW e \in EV
  PROVE  \/ state'[e] = "ASSUMED_BAD" /\ healthy'[e] = 0
         \/ state'[e] = "GOOD" /\ Visited(e) /\ MayPromote(e)
         \/ state'[e] = state[e] /\ healthy'[e] = healthy[e]
         \/ state'[e] = state[e] /\ healthy'[e] = 0
         \/ state'[e] = state[e] /\ Visited(e) /\ healthy'[e] = HealthyNow(e)
<1> USE DEF TypeOK
<1>1. ASSUME NEW f \in EV, RecordProbeSent(f) \/ RecordProbeRecv(f)
      PROVE  state'[e] = state[e] /\ healthy'[e] = healthy[e]
  BY <1>1 DEF RecordProbeSent, RecordProbeRecv, latches
<1>2. CASE TickBegin \/ RebuildWeights
  BY <1>2 DEF TickBegin, RebuildWeights, latches
<1>3. ASSUME NEW f \in EV, TickEV(f)
      PROVE  \/ state'[e] = "ASSUMED_BAD" /\ healthy'[e] = 0
             \/ state'[e] = "GOOD" /\ Visited(e) /\ MayPromote(e)
             \/ state'[e] = state[e] /\ healthy'[e] = healthy[e]
             \/ state'[e] = state[e] /\ healthy'[e] = 0
             \/ state'[e] = state[e] /\ Visited(e) /\ healthy'[e] = HealthyNow(e)
  <2>1. Evaluate(f)
    BY <1>3 DEF TickEV
  <2>2. Visited(f)
    BY <1>3, TickIsVisit
  <2>3. CASE Demote(f, FALSE)
    BY <2>3 DEF Demote
  <2>4. CASE MayPromote(f) /\ Promote(f)
    BY <2>2, <2>4 DEF Promote
  <2>5. ASSUME NEW n \in {0, healthy[f], HealthyNow(f)}, SetHealthy(f, n)
        PROVE  \/ state'[e] = state[e] /\ healthy'[e] = healthy[e]
               \/ state'[e] = state[e] /\ healthy'[e] = 0
               \/ state'[e] = state[e] /\ Visited(e) /\ healthy'[e] = HealthyNow(e)
    BY <2>2, <2>5 DEF SetHealthy
  <2> QED
    BY <2>1, <2>3, <2>4, <2>5, EvaluateCases
<1>4. ASSUME NEW f \in EV, NEW r \in LossReports, RecordLossWindow(f, r[1], r[2])
      PROVE  \/ state'[e] = "ASSUMED_BAD" /\ healthy'[e] = 0
             \/ state'[e] = state[e] /\ healthy'[e] = healthy[e]
  <2>1. CASE Demote(f, TRUE)
    BY <2>1 DEF Demote
  <2>2. CASE UNCHANGED <<state, healthy>>
    BY <2>2
  <2> QED
    BY <1>4, <2>1, <2>2 DEF RecordLossWindow
<1> QED
  BY <1>1, <1>2, <1>3, <1>4 DEF Next

LEMMA BadForStep ==
  ASSUME LatchInv, Observe
  PROVE  /\ badFor' \in [EV -> 0..HealthyCap]
         /\ \A e \in EV : Bad(e) => /\ badFor'[e] >= badFor[e]
                                    /\ Visited(e) => badFor'[e] = SmallerOf(badFor[e] + 1, HealthyCap)
  BY CapType DEF LatchInv, Observe, SmallerOf

LEMMA LatchStep == LatchInv /\ [HNext]_hvars => LatchInv'
<1> SUFFICES ASSUME LatchInv, [HNext]_hvars PROVE LatchInv'
  OBVIOUS
<1>1. CASE HNext
  <2>1. TypeOK'
    BY <1>1, TypeStep DEF HNext, LatchInv
  <2>2. badFor' \in [EV -> 0..HealthyCap]
    BY <1>1, BadForStep DEF HNext
  <2>3. ASSUME NEW e \in EV, Bad(e)' PROVE healthy'[e] <= badFor'[e]
    <3>1. /\ healthy[e] \in 0..HealthyCap /\ badFor[e] \in 0..HealthyCap
          /\ badFor'[e] \in 0..HealthyCap /\ HealthyCap \in Nat
      BY <2>2, CapType DEF LatchInv, TypeOK
    <3>2. CASE healthy'[e] = 0
      BY <3>1, <3>2
    <3>3. CASE Bad(e) /\ healthy'[e] = healthy[e]
      BY <1>1, <3>1, <3>3, BadForStep DEF HNext, LatchInv
    <3>4. CASE Bad(e) /\ Visited(e) /\ healthy'[e] = HealthyNow(e)
      <4>1. healthy[e] <= badFor[e]
        BY <3>4 DEF LatchInv
      <4>2. badFor'[e] = SmallerOf(badFor[e] + 1, HealthyCap)
        BY <1>1, <3>4, BadForStep DEF HNext
      <4> QED
        BY <3>1, <3>4, <4>1, <4>2 DEF HealthyNow, SmallerOf
    <3> QED
      BY <1>1, <2>3, <3>2, <3>3, <3>4, LatchCases DEF HNext, LatchInv, Bad
  <2> QED
    BY <2>1, <2>2, <2>3 DEF LatchInv
<1>2. CASE UNCHANGED hvars
  <2>1. TypeOK'
    BY <1>2, TypeStep DEF hvars, LatchInv
  <2> QED
    BY <1>2, <2>1 DEF LatchInv, hvars, hist, vars, latches, Bad
<1> QED
  BY <1>1, <1>2

\* A promotion has waited for a full hold.
LEMMA PromotedRested ==
  ASSUME LatchInv, NEW e \in EV, Bad(e), MayPromote(e)
  PROVE  badFor[e] + 1 >= ProbeRecoverTicks
<1>1. healthy[e] \in Nat /\ badFor[e] \in Nat /\ healthy[e] <= badFor[e]
  BY CapType DEF LatchInv, TypeOK
<1>2. HoldOf(e) \in Nat /\ HoldOf(e) >= ProbeRecoverTicks
  <2>1. backoffLevel[e] \in 0..LossBackoffMaxLevel
    BY DEF LatchInv, TypeOK
  <2>2. Hold[backoffLevel[e]] \in Nat /\ Hold[backoffLevel[e]] >= ProbeRecoverTicks
    BY <2>1, HoldBounds
  <2>3. QED
    BY <2>2, CapType, TunableAssumption DEF HoldOf
<1>3. HealthyNow(e) \in Nat /\ HealthyNow(e) <= healthy[e] + 1
  BY <1>1, CapType DEF HealthyNow, SmallerOf
<1>4. QED
  BY <1>1, <1>2, <1>3, TunableAssumption DEF MayPromote

\* An EV that comes back was out for at least the base hold of ticks since the
\* demotion that took it out: no verdict of before the demotion counts.
THEOREM RecoveryNotEarly == HSpec => NoEarlyRecovery
<1>1. LatchInv /\ [HNext]_hvars =>
        [\A e \in EV : Bad(e) /\ ~Bad(e)' => badFor[e] + 1 >= ProbeRecoverTicks]_hvars
  <2> SUFFICES ASSUME LatchInv, HNext, NEW e \in EV, Bad(e), ~Bad(e)'
               PROVE  badFor[e] + 1 >= ProbeRecoverTicks
    OBVIOUS
  <2>1. MayPromote(e)
    BY LatchCases DEF HNext, LatchInv, Bad
  <2> QED
    BY <2>1, PromotedRested
<1> QED
  BY <1>1, LatchInit, LatchStep, PTL DEF HSpec, NoEarlyRecovery

-----------------------------------------------------------------------------
(***************************************************************************)
(* The backoff                                                             *)
(***************************************************************************)

\* The level a record holds is the one of the hold it owes, or owed last: while
\* the EV is out by loss its level says what is owed, and after a recovery from
\* a loss it keeps what was owed for as long as a relapse would count.
BackoffInv ==
    /\ lastLossHold \in [EV -> Nat]
    /\ \A e \in EV :
        /\ ~Bad(e) => ~lossDemoted[e]
        /\ Bad(e) => owedHold[e] = HoldOf(e)
        /\ ~lossDemoted[e] /\ RecentlyRecovered(e)
             => lastLossHold[e] = Hold[backoffLevel[e]]

LEMMA BackoffInit == HInit => BackoffInv
<1> SUFFICES ASSUME HInit PROVE BackoffInv
  OBVIOUS
<1> USE TunableAssumption DEF HInit, Init
<1>1. \A e \in EV : ~Bad(e) /\ ~lossDemoted[e] /\ ~RecentlyRecovered(e)
  BY DEF Bad, RecentlyRecovered
<1>2. lastLossHold \in [EV -> Nat]
  OBVIOUS
<1>3. QED
  BY <1>1, <1>2 DEF BackoffInv

\* What a step does to the backoff of one EV.
LEMMA BackoffCases ==
  ASSUME TypeOK, Next, NEW e \in EV
  PROVE  \/ /\ ~Bad(e) /\ Bad(e)'
            /\ lossDemoted'[e] \in BOOLEAN
            /\ backoffLevel'[e] = IF lossDemoted'[e] THEN LevelAfterLoss(e)
                                  ELSE backoffLevel[e]
            /\ recoverAge'[e] = recoverAge[e]
         \/ /\ MayPromote(e) /\ ~Bad(e)'
            /\ ~lossDemoted'[e]
            /\ backoffLevel'[e] = backoffLevel[e]
            /\ recoverAge'[e] = IF lossDemoted[e] THEN 0 ELSE recoverAge[e]
         \/ /\ Bad(e)' <=> Bad(e)
            /\ lossDemoted'[e] = lossDemoted[e]
            /\ backoffLevel'[e] = backoffLevel[e]
            /\ RecentlyRecovered(e)' => RecentlyRecovered(e)
<1> DEFINE Same == /\ Bad(e)' <=> Bad(e)
                   /\ lossDemoted'[e] = lossDemoted[e]
                   /\ backoffLevel'[e] = backoffLevel[e]
                   /\ RecentlyRecovered(e)' => RecentlyRecovered(e)
           Out == /\ ~Bad(e) /\ Bad(e)'
                  /\ lossDemoted'[e] \in BOOLEAN
                  /\ backoffLevel'[e] = IF lossDemoted'[e] THEN LevelAfterLoss(e)
                                        ELSE backoffLevel[e]
                  /\ recoverAge'[e] = recoverAge[e]
           In == /\ MayPromote(e) /\ ~Bad(e)'
                 /\ ~lossDemoted'[e]
                 /\ backoffLevel'[e] = backoffLevel[e]
                 /\ recoverAge'[e] = IF lossDemoted[e] THEN 0 ELSE recoverAge[e]
<1>1. UNCHANGED <<state, backoff>> => Same
  BY DEF backoff, Bad, RecentlyRecovered
<1>2. ASSUME NEW f \in EV, RecordProbeSent(f) \/ RecordProbeRecv(f)
      PROVE  Same
  BY <1>1, <1>2 DEF RecordProbeSent, RecordProbeRecv
<1>r. CASE RebuildWeights
  BY <1>1, <1>r DEF RebuildWeights
<1>3. CASE TickBegin
  <2>1. recoverAge[e] \in Nat /\ LossBackoffResetTicks \in Nat
    BY TunableAssumption DEF TypeOK
  <2>2. recoverAge'[e] = SmallerOf(recoverAge[e] + 1, LossBackoffResetTicks)
    BY <1>3 DEF TickBegin
  <2>3. RecentlyRecovered(e)' => RecentlyRecovered(e)
    BY <2>1, <2>2 DEF RecentlyRecovered, SmallerOf
  <2>4. QED
    BY <1>3, <2>3 DEF TickBegin, Bad
<1>4. ASSUME NEW f \in EV, NEW byLoss \in BOOLEAN, MayDemote(f), Demote(f, byLoss)
      PROVE  Same \/ Out
  <2>1. CASE e = f
    <3>1. /\ ~Bad(e) /\ state'[e] = "ASSUMED_BAD" /\ recoverAge' = recoverAge
      BY <1>4, <2>1 DEF MayDemote, Demote, Bad, TypeOK
    <3>2. lossDemoted'[e] = byLoss
      BY <1>4, <2>1, Zenon DEF Demote, TypeOK
    <3>3. backoffLevel'[e] = IF byLoss THEN LevelAfterLoss(e) ELSE backoffLevel[e]
      BY <1>4, <2>1 DEF Demote, TypeOK
    <3>4. Out
      BY <3>1, <3>2, <3>3 DEF Bad
    <3>5. QED
      BY <3>4
  <2>2. CASE e # f
    <3>1. /\ state'[e] = state[e] /\ recoverAge' = recoverAge
          /\ backoffLevel'[e] = backoffLevel[e]
      BY <1>4, <2>2 DEF Demote, TypeOK
    <3>2. lossDemoted'[e] = lossDemoted[e]
      BY <1>4, <2>2, Zenon DEF Demote, TypeOK
    <3>3. QED
      BY <3>1, <3>2 DEF Bad, RecentlyRecovered
  <2>3. QED
    BY <2>1, <2>2
<1>5. ASSUME NEW f \in EV, MayPromote(f), Promote(f)
      PROVE  Same \/ In
  <2>1. CASE e = f
    <3>1. state'[e] = "GOOD" /\ backoffLevel' = backoffLevel
      BY <1>5, <2>1 DEF Promote, TypeOK
    <3>2. lossDemoted'[e] = FALSE
      BY <1>5, <2>1, Zenon DEF Promote, TypeOK
    <3>3. recoverAge'[e] = IF lossDemoted[e] THEN 0 ELSE recoverAge[e]
      BY <1>5, <2>1 DEF Promote, TypeOK
    <3>4. QED
      BY <1>5, <2>1, <3>1, <3>2, <3>3 DEF Bad
  <2>2. CASE e # f
    <3>1. /\ state'[e] = state[e] /\ backoffLevel' = backoffLevel
          /\ recoverAge'[e] = recoverAge[e]
      BY <1>5, <2>2 DEF Promote, TypeOK
    <3>2. lossDemoted'[e] = lossDemoted[e]
      BY <1>5, <2>2, Zenon DEF Promote, TypeOK
    <3>3. QED
      BY <3>1, <3>2 DEF Bad, RecentlyRecovered
  <2>3. QED
    BY <2>1, <2>2
<1>6. ASSUME NEW f \in EV, NEW n, SetHealthy(f, n) PROVE Same
  BY <1>1, <1>6 DEF SetHealthy
<1>7. ASSUME NEW f \in EV, TickEV(f) PROVE Same \/ Out \/ In
  BY <1>4, <1>5, <1>6, <1>7, EvaluateCases DEF TickEV
<1>8. ASSUME NEW f \in EV, NEW r \in LossReports, RecordLossWindow(f, r[1], r[2])
      PROVE  Same \/ Out
  <2>1. CASE MayDemote(f) /\ Demote(f, TRUE)
    BY <1>4, <2>1
  <2>2. CASE UNCHANGED <<state, backoff>>
    BY <1>1, <2>2
  <2>3. QED
    BY <1>8, <2>1, <2>2 DEF RecordLossWindow
<1>9. QED
  BY <1>2, <1>r, <1>3, <1>7, <1>8 DEF Next

\* A relapse doubles the hold, up to the last level.
LEMMA LevelDoubles ==
    ASSUME TypeOK, NEW e \in EV, RecentlyRecovered(e)
    PROVE  Hold[LevelAfterLoss(e)] =
             SmallerOf(2 * Hold[backoffLevel[e]], Hold[LossBackoffMaxLevel])
<1> DEFINE l == backoffLevel[e]
           M == LossBackoffMaxLevel
<1>1. M \in Nat /\ l \in 0..M
  BY TunableAssumption DEF TypeOK
<1>2. LevelAfterLoss(e) = SmallerOf(l + 1, M)
  BY DEF LevelAfterLoss
<1> HIDE DEF l, M
<1>3. CASE l = M
  <2>1. LevelAfterLoss(e) = M
    BY <1>1, <1>2, <1>3 DEF SmallerOf
  <2>2. Hold[M] \in Nat /\ M \in 0..M
    BY <1>1, HoldBounds DEF M
  <2>3. SmallerOf(2 * Hold[l], Hold[M]) = Hold[M]
    BY <1>3, <2>2 DEF SmallerOf
  <2>4. QED
    BY <2>1, <2>3 DEF l, M
<1>4. CASE l < M
  <2>1. LevelAfterLoss(e) = l + 1 /\ l + 1 \in 0..M /\ l + 1 # 0 /\ (l + 1) - 1 = l
    BY <1>1, <1>2, <1>4 DEF SmallerOf
  <2>2. Hold[l + 1] = 2 * Hold[l]
    BY <2>1, HoldDef DEF M
  <2>3. Hold[l + 1] <= Hold[M] /\ Hold[l + 1] \in Nat /\ Hold[M] \in Nat
    <3>1. M \in 0..M
      BY <1>1
    <3>2. QED
      BY <2>1, <3>1, HoldBounds DEF M
  <2>4. SmallerOf(2 * Hold[l], Hold[M]) = Hold[l + 1]
    BY <2>2, <2>3 DEF SmallerOf
  <2>5. QED
    BY <2>1, <2>4 DEF l, M
<1>5. QED
  BY <1>1, <1>3, <1>4

LEMMA BackoffStep ==
  ASSUME TypeOK, TypeOK', BackoffInv, HNext
  PROVE  BackoffInv'
<1>0. Next /\ Observe
  BY DEF HNext
<1>1. \A e \in EV :
        /\ owedHold'[e] = IF ~Bad(e) /\ Bad(e)' THEN HoldCalledFor(e) ELSE owedHold[e]
        /\ lastLossHold'[e] = IF Bad(e) /\ ~Bad(e)' /\ lossDemoted[e]
                              THEN owedHold[e] ELSE lastLossHold[e]
  BY <1>0 DEF Observe
<1>2. \A e \in EV : /\ backoffLevel[e] \in 0..LossBackoffMaxLevel
                    /\ Hold[backoffLevel[e]] \in Nat
                    /\ HoldOf(e) \in Nat
  BY HoldBounds, TunableAssumption DEF TypeOK, HoldOf
<1>3. lastLossHold' \in [EV -> Nat]
  <2>1. \A e \in EV : lastLossHold'[e] \in Nat
    BY <1>1, <1>2 DEF BackoffInv
  <2>2. lastLossHold' = [e \in EV |-> lastLossHold'[e]]
    BY <1>0 DEF Observe
  <2>3. QED
    BY <2>1, <2>2
<1>4. ASSUME NEW e \in EV
      PROVE  /\ ~Bad(e)' => ~lossDemoted'[e]
             /\ Bad(e)' => owedHold'[e] = HoldOf(e)'
             /\ ~lossDemoted'[e] /\ RecentlyRecovered(e)'
                  => lastLossHold'[e] = Hold[backoffLevel'[e]]
  <2>0. /\ ~Bad(e) => ~lossDemoted[e]
        /\ Bad(e) => owedHold[e] = HoldOf(e)
        /\ ~lossDemoted[e] /\ RecentlyRecovered(e)
             => lastLossHold[e] = Hold[backoffLevel[e]]
    BY DEF BackoffInv
  <2>h. HoldOf(e)' = IF lossDemoted'[e] THEN Hold[backoffLevel'[e]]
                     ELSE ProbeRecoverTicks
    BY DEF HoldOf
  <2>1. CASE /\ ~Bad(e) /\ Bad(e)'
             /\ lossDemoted'[e] \in BOOLEAN
             /\ backoffLevel'[e] = IF lossDemoted'[e] THEN LevelAfterLoss(e)
                                   ELSE backoffLevel[e]
             /\ recoverAge'[e] = recoverAge[e]
    <3>1. owedHold'[e] = HoldCalledFor(e) /\ lastLossHold'[e] = lastLossHold[e]
      BY <1>1, <2>1
    <3>2. RecentlyRecovered(e)' <=> RecentlyRecovered(e)
      BY <2>1 DEF RecentlyRecovered
    <3>3. ~lossDemoted[e]
      BY <2>0, <2>1
    <3>4. CASE ~lossDemoted'[e]
      BY <2>0, <2>1, <2>h, <3>1, <3>2, <3>3, <3>4 DEF HoldCalledFor
    <3>5. CASE lossDemoted'[e] /\ ~RecentlyRecovered(e)
      <4>1. LevelAfterLoss(e) = 0 /\ HoldCalledFor(e) = ProbeRecoverTicks
        BY <3>5 DEF LevelAfterLoss, HoldCalledFor
      <4>2. Hold[0] = ProbeRecoverTicks
        BY HoldDef, TunableAssumption
      <4>3. QED
        BY <2>1, <2>h, <3>1, <3>5, <4>1, <4>2
    <3>6. CASE lossDemoted'[e] /\ RecentlyRecovered(e)
      <4>1. HoldCalledFor(e) =
              SmallerOf(2 * Hold[backoffLevel[e]], Hold[LossBackoffMaxLevel])
        BY <2>0, <3>3, <3>6 DEF HoldCalledFor
      <4>2. HoldCalledFor(e) = Hold[LevelAfterLoss(e)]
        BY <3>6, <4>1, LevelDoubles
      <4>3. QED
        BY <2>1, <2>h, <3>1, <3>6, <4>2
    <3>7. QED
      BY <2>1, <3>4, <3>5, <3>6
  <2>2. CASE /\ MayPromote(e) /\ ~Bad(e)'
             /\ ~lossDemoted'[e]
             /\ backoffLevel'[e] = backoffLevel[e]
             /\ recoverAge'[e] = IF lossDemoted[e] THEN 0 ELSE recoverAge[e]
    <3>1. CASE lossDemoted[e]
      <4>1. Bad(e) /\ owedHold[e] = Hold[backoffLevel[e]]
        BY <2>0, <3>1 DEF HoldOf
      <4>2. lastLossHold'[e] = owedHold[e]
        BY <1>1, <2>2, <3>1, <4>1
      <4>3. QED
        BY <2>2, <4>1, <4>2
    <3>2. CASE ~lossDemoted[e]
      <4>1. lastLossHold'[e] = lastLossHold[e]
        BY <1>1, <3>2
      <4>2. RecentlyRecovered(e)' <=> RecentlyRecovered(e)
        BY <2>2, <3>2 DEF RecentlyRecovered
      <4>3. QED
        BY <2>0, <2>2, <3>2, <4>1, <4>2
    <3>3. QED
      BY <3>1, <3>2
  <2>3. CASE /\ Bad(e)' <=> Bad(e)
             /\ lossDemoted'[e] = lossDemoted[e]
             /\ backoffLevel'[e] = backoffLevel[e]
             /\ RecentlyRecovered(e)' => RecentlyRecovered(e)
    <3>1. owedHold'[e] = owedHold[e] /\ lastLossHold'[e] = lastLossHold[e]
      BY <1>1, <2>3
    <3>2. HoldOf(e)' = HoldOf(e)
      BY <2>3, <2>h DEF HoldOf
    <3>3. QED
      BY <2>0, <2>3, <3>1, <3>2
  <2>4. QED
    BY <1>0, <2>1, <2>2, <2>3, BackoffCases
<1>5. QED
  BY <1>3, <1>4 DEF BackoffInv

LEMMA BackoffHolds == HSpec => [](LatchInv /\ BackoffInv)
<1>1. HInit => LatchInv /\ BackoffInv
  BY LatchInit, BackoffInit
<1>2. LatchInv /\ BackoffInv /\ [HNext]_hvars => LatchInv' /\ BackoffInv'
  <2> SUFFICES ASSUME LatchInv, BackoffInv, [HNext]_hvars
               PROVE  LatchInv' /\ BackoffInv'
    OBVIOUS
  <2>1. LatchInv'
    BY LatchStep
  <2>2. CASE HNext
    BY <2>1, <2>2, BackoffStep DEF LatchInv
  <2>3. CASE UNCHANGED hvars
    <3>1. BackoffInv'
      BY <2>3 DEF BackoffInv, hvars, hist, vars, backoff, Bad, HoldOf, RecentlyRecovered
    <3>2. QED
      BY <2>1, <3>1
  <2>4. QED
    BY <2>1, <2>2, <2>3
<1>3. QED
  BY <1>1, <1>2, PTL DEF HSpec

\* The exponential backoff: an EV that loss takes out again soon after it came
\* back from a loss stays out for at least twice the ticks it owed before, up to
\* the maximum, whatever probe demotes and other EVs' steps come in between.
THEOREM BackoffOwed == HSpec => BackoffDoubles
<1>1. LatchInv /\ BackoffInv /\ [HNext]_hvars =>
        [\A e \in EV : Bad(e) /\ ~Bad(e)' => badFor[e] + 1 >= owedHold[e]]_hvars
  <2> SUFFICES ASSUME LatchInv, BackoffInv, HNext, NEW e \in EV, Bad(e), ~Bad(e)'
               PROVE  badFor[e] + 1 >= owedHold[e]
    OBVIOUS
  <2>1. MayPromote(e)
    BY LatchCases DEF HNext, LatchInv, Bad
  <2>2. owedHold[e] = HoldOf(e)
    BY DEF BackoffInv
  <2>3. healthy[e] \in Nat /\ badFor[e] \in Nat /\ healthy[e] <= badFor[e]
    BY CapType DEF LatchInv, TypeOK
  <2>4. HealthyNow(e) \in Nat /\ HealthyNow(e) <= healthy[e] + 1
    BY <2>3, CapType DEF HealthyNow, SmallerOf
  <2>5. HoldOf(e) \in Nat
    BY HoldBounds, TunableAssumption DEF LatchInv, TypeOK, HoldOf
  <2>6. QED
    BY <2>1, <2>2, <2>3, <2>4, <2>5 DEF MayPromote
<1>2. QED
  BY <1>1, BackoffHolds, PTL DEF HSpec, BackoffDoubles

-----------------------------------------------------------------------------
(***************************************************************************)
(* Sums over a ring of buckets                                             *)
(***************************************************************************)
LEMMA TopIn ==
    ASSUME NEW n \in Nat, NEW s \in SUBSET (1..n), s # {}
    PROVE  Max(s) \in s
<1> DEFINE B == {k \in Nat : \E x \in s : k = n - x}
<1>1. PICK x \in s : TRUE
  OBVIOUS
<1>2. n - x \in B
  BY <1>1
<1>3. B \in SUBSET Nat /\ B # {}
  BY <1>2
<1> HIDE DEF B
<1>4. PICK k \in B : \A m \in Nat : m < k => m \notin B
  BY <1>3, Least
<1>5. PICK y \in s : k = n - y
  BY <1>4 DEF B
<1>6. ASSUME NEW z \in s PROVE y >= z
  <2>1. n - z \in Nat /\ n - z \in B /\ z \in Nat /\ y \in Nat
    BY DEF B
  <2>2. ~(n - z < k)
    BY <1>4, <2>1
  <2>3. QED
    BY <1>5, <2>1, <2>2
<1>7. \E y_1 \in s : \A z \in s : y_1 >= z
  BY <1>6
<1>8. QED
  BY <1>7, Zenon DEF Max

\* What FoldLeft computes of the numbers v[1], ..., v[n].
Folds(h, v, n) ==
    h = [s \in SUBSET (1..n) |->
            IF s = {} THEN 0 ELSE h[s \ {Max(s)}] + v[Max(s)]]

LEMMA PartSize ==
    ASSUME NEW n \in Nat, NEW s \in SUBSET (1..n)
    PROVE  /\ IsFiniteSet(s) /\ Cardinality(s) \in Nat
           /\ Cardinality(s) =< Cardinality(1..n)
<1>1. IsFiniteSet(1..n)
  BY FS_Interval
<1> DEFINE S == 1..n
<1>2. IsFiniteSet(S) /\ s \in SUBSET S
  BY <1>1
<1> HIDE DEF S
<1>3. IsFiniteSet(s) /\ Cardinality(s) =< Cardinality(S)
  BY <1>2, FS_Subset
<1>4. QED
  BY <1>3, FS_CardinalityType DEF S

LEMMA TopLess ==
    ASSUME NEW n \in Nat, NEW s \in SUBSET (1..n), s # {}
    PROVE  /\ Max(s) \in 1..n
           /\ s \ {Max(s)} \in SUBSET (1..n)
           /\ Cardinality(s) \in Nat /\ Cardinality(s \ {Max(s)}) \in Nat
           /\ Cardinality(s \ {Max(s)}) = Cardinality(s) - 1
<1>1. IsFiniteSet(s)
  BY PartSize
<1>2. Max(s) \in s
  BY TopIn
<1>3. QED
  BY <1>1, <1>2, FS_RemoveElement, FS_CardinalityType

LEMMA FoldThere ==
    ASSUME NEW v, NEW n \in Nat PROVE \E h : Folds(h, v, n)
<1> DEFINE Upto(h, k) ==
      \A s \in SUBSET (1..n) : Cardinality(s) =< k =>
        h[s] = IF s = {} THEN 0 ELSE h[s \ {Max(s)}] + v[Max(s)]
    Miss == {k \in Nat : ~\E h : Upto(h, k)}
<1>0. \A s \in SUBSET (1..n) : IsFiniteSet(s) /\ Cardinality(s) \in Nat
  BY PartSize
<1>1. Miss = {}
  <2>1. SUFFICES ASSUME Miss # {} PROVE FALSE
    OBVIOUS
  <2>2. PICK k \in Miss : \A m \in Nat : m < k => m \notin Miss
    BY <2>1, Least
  <2>3. k # 0
    <3>1. SUFFICES ASSUME k = 0 PROVE FALSE
      OBVIOUS
    <3>2. Upto([s \in SUBSET (1..n) |-> 0], 0)
      <4>1. ASSUME NEW s \in SUBSET (1..n), Cardinality(s) =< 0 PROVE s = {}
        BY <1>0, <4>1, FS_EmptySet
      <4>2. QED
        BY <4>1
    <3>3. QED
      BY <3>1, <3>2, <2>2
  <2>4. k - 1 \in Nat /\ k - 1 < k /\ k \in Nat
    BY <2>2, <2>3
  <2>5. PICK g : Upto(g, k - 1)
    BY <2>2, <2>4
  <2> DEFINE h == [s \in SUBSET (1..n) |->
                     IF Cardinality(s) =< k - 1 THEN g[s]
                     ELSE g[s \ {Max(s)}] + v[Max(s)]]
  <2>6. Upto(h, k)
    <3> SUFFICES ASSUME NEW s \in SUBSET (1..n), Cardinality(s) =< k
                 PROVE  h[s] = IF s = {} THEN 0
                               ELSE h[s \ {Max(s)}] + v[Max(s)]
      OBVIOUS
    <3>1. CASE s = {}
      <4>1. Cardinality(s) = 0
        BY <3>1, FS_EmptySet
      <4>2. QED
        BY <2>4, <2>5, <3>1, <4>1
    <3>2. CASE s # {}
      <4>1. /\ s \ {Max(s)} \in SUBSET (1..n)
            /\ Cardinality(s) \in Nat /\ Cardinality(s \ {Max(s)}) \in Nat
            /\ Cardinality(s \ {Max(s)}) = Cardinality(s) - 1
        BY <3>2, TopLess
      <4>2. h[s \ {Max(s)}] = g[s \ {Max(s)}]
        BY <2>4, <4>1
      <4>3. CASE Cardinality(s) =< k - 1
        BY <2>5, <3>2, <4>2, <4>3
      <4>4. CASE ~(Cardinality(s) =< k - 1)
        BY <3>2, <4>2, <4>4
      <4>5. QED
        BY <4>3, <4>4
    <3>3. QED
      BY <3>1, <3>2
  <2>7. QED
    BY <2>2, <2>6
<1>2. PICK g : Upto(g, Cardinality(1..n))
  BY <1>0, <1>1
<1>3. \A s \in SUBSET (1..n) : Cardinality(s) =< Cardinality(1..n)
  BY PartSize
<1> DEFINE h == [s \in SUBSET (1..n) |-> g[s]]
<1>4. Folds(h, v, n)
  <2> SUFFICES ASSUME NEW s \in SUBSET (1..n)
               PROVE  g[s] = IF s = {} THEN 0 ELSE h[s \ {Max(s)}] + v[Max(s)]
    BY Zenon DEF Folds
  <2>1. g[s] = IF s = {} THEN 0 ELSE g[s \ {Max(s)}] + v[Max(s)]
    BY <1>2, <1>3
  <2>2. s \ {Max(s)} \in SUBSET (1..n)
    OBVIOUS
  <2>3. QED
    BY <2>1, <2>2
<1>5. QED
  BY <1>4

\* A sum of numbers that are all zero, or all at least one.
LEMMA FoldBounds ==
    ASSUME NEW n \in Nat, NEW v, NEW h, Folds(h, v, n),
           \A i \in 1..n : v[i] \in Nat
    PROVE  /\ h[1..n] \in Nat
           /\ (\A i \in 1..n : v[i] = 0) => h[1..n] = 0
           /\ (\A i \in 1..n : v[i] >= 1) => h[1..n] >= n
<1> DEFINE Ok(s) == /\ h[s] \in Nat
                    /\ (\A i \in 1..n : v[i] = 0) => h[s] = 0
                    /\ (\A i \in 1..n : v[i] >= 1) => h[s] >= Cardinality(s)
           Miss == {k \in Nat : \E s \in SUBSET (1..n) : Cardinality(s) = k /\ ~Ok(s)}
<1>1. Miss = {}
  <2>1. SUFFICES ASSUME Miss # {} PROVE FALSE
    OBVIOUS
  <2>2. PICK k \in Miss : \A m \in Nat : m < k => m \notin Miss
    BY <2>1, Least
  <2>3. PICK s \in SUBSET (1..n) : Cardinality(s) = k /\ ~Ok(s)
    BY <2>2
  <2>4. s # {}
    <3>1. SUFFICES ASSUME s = {} PROVE FALSE
      OBVIOUS
    <3>2. h[{}] = 0 /\ Cardinality({}) = 0
      BY FS_EmptySet DEF Folds
    <3>3. QED
      BY <2>3, <3>1, <3>2
  <2> DEFINE x == Max(s)
             r == s \ {x}
  <2>5. /\ x \in 1..n /\ r \in SUBSET (1..n)
        /\ Cardinality(s) \in Nat /\ Cardinality(r) \in Nat
        /\ Cardinality(r) = Cardinality(s) - 1
    BY <2>4, TopLess
  <2>6. h[s] = h[r] + v[x]
    BY <2>4 DEF Folds
  <2> HIDE DEF r, x
  <2>7. Ok(r)
    <3>1. Cardinality(r) < k
      BY <2>3, <2>5
    <3>2. QED
      BY <2>2, <2>5, <3>1
  <2>8. Ok(s)
    BY <2>5, <2>6, <2>7
  <2>9. QED
    BY <2>3, <2>8
<1>2. Ok(1..n)
  <2>1. Cardinality(1..n) \in Nat
    BY FS_Interval, FS_CardinalityType
  <2>2. QED
    BY <1>1, <2>1
<1>3. Cardinality(1..n) = n
  BY FS_Interval
<1>4. QED
  BY <1>2, <1>3

LEMMA SentSum ==
    ASSUME NEW r \in Seq(Bucket)
    PROVE  \E h : /\ Folds(h, [i \in 1..Len(r) |-> r[i].sent], Len(r))
                  /\ FoldLeft(LAMBDA n, b : n + b.sent, 0, r) = h[1..Len(r)]
<1> DEFINE n == Len(r)
           v == [i \in 1..n |-> r[i].sent]
           h == CHOOSE g : g = [s \in SUBSET (DOMAIN r) |->
                    IF s = {} THEN 0 ELSE g[s \ {Max(s)}] + r[Max(s)].sent]
<1>1. FoldLeft(LAMBDA a, b : a + b.sent, 0, r) = h[DOMAIN r]
  BY Zenon DEF FoldLeft, MapThenFoldSet
<1>2. n \in Nat /\ DOMAIN r = 1..n
  OBVIOUS
<1>3. PICK g : Folds(g, v, n)
  <2> HIDE DEF v, n
  <2> QED
    BY <1>2, FoldThere
<1>4. g = [s \in SUBSET (DOMAIN r) |->
                    IF s = {} THEN 0 ELSE g[s \ {Max(s)}] + r[Max(s)].sent]
  <2>1. \A s \in SUBSET (1..n) : s # {} => v[Max(s)] = r[Max(s)].sent
    <3>1. \A s \in SUBSET (1..n) : s # {} => Max(s) \in 1..n
      <4> HIDE DEF n
      <4> QED
        BY <1>2, TopIn
    <3>2. QED
      BY <3>1
  <2>2. g = [s \in SUBSET (1..n) |->
                    IF s = {} THEN 0 ELSE g[s \ {Max(s)}] + v[Max(s)]]
    BY <1>3 DEF Folds
  <2> HIDE DEF v, n
  <2>3. g = [s \in SUBSET (1..n) |->
                    IF s = {} THEN 0 ELSE g[s \ {Max(s)}] + r[Max(s)].sent]
    BY <2>1, <2>2
  <2>4. QED
    BY <1>2, <2>3
<1>5. h = [s \in SUBSET (DOMAIN r) |->
                    IF s = {} THEN 0 ELSE h[s \ {Max(s)}] + r[Max(s)].sent]
  BY <1>4, Zenon
<1> HIDE DEF h
<1>6. Folds(h, v, n)
  <2>1. \A s \in SUBSET (1..n) : s # {} => v[Max(s)] = r[Max(s)].sent
    <3>1. \A s \in SUBSET (1..n) : s # {} => Max(s) \in 1..n
      <4> HIDE DEF n
      <4> QED
        BY <1>2, TopIn
    <3>2. QED
      BY <3>1
  <2> HIDE DEF v, n
  <2>2. h = [s \in SUBSET (1..n) |->
                    IF s = {} THEN 0 ELSE h[s \ {Max(s)}] + v[Max(s)]]
    BY <1>2, <1>5, <2>1
  <2>3. QED
    BY <2>2, Zenon DEF Folds
<1>7. QED
  BY <1>1, <1>2, <1>6

LEMMA RecvSum ==
    ASSUME NEW r \in Seq(Bucket)
    PROVE  \E h : /\ Folds(h, [i \in 1..Len(r) |-> r[i].recv], Len(r))
                  /\ FoldLeft(LAMBDA n, b : n + b.recv, 0, r) = h[1..Len(r)]
<1> DEFINE n == Len(r)
           v == [i \in 1..n |-> r[i].recv]
           h == CHOOSE g : g = [s \in SUBSET (DOMAIN r) |->
                    IF s = {} THEN 0 ELSE g[s \ {Max(s)}] + r[Max(s)].recv]
<1>1. FoldLeft(LAMBDA a, b : a + b.recv, 0, r) = h[DOMAIN r]
  BY Zenon DEF FoldLeft, MapThenFoldSet
<1>2. n \in Nat /\ DOMAIN r = 1..n
  OBVIOUS
<1>3. PICK g : Folds(g, v, n)
  <2> HIDE DEF v, n
  <2> QED
    BY <1>2, FoldThere
<1>4. g = [s \in SUBSET (DOMAIN r) |->
                    IF s = {} THEN 0 ELSE g[s \ {Max(s)}] + r[Max(s)].recv]
  <2>1. \A s \in SUBSET (1..n) : s # {} => v[Max(s)] = r[Max(s)].recv
    <3>1. \A s \in SUBSET (1..n) : s # {} => Max(s) \in 1..n
      <4> HIDE DEF n
      <4> QED
        BY <1>2, TopIn
    <3>2. QED
      BY <3>1
  <2>2. g = [s \in SUBSET (1..n) |->
                    IF s = {} THEN 0 ELSE g[s \ {Max(s)}] + v[Max(s)]]
    BY <1>3 DEF Folds
  <2> HIDE DEF v, n
  <2>3. g = [s \in SUBSET (1..n) |->
                    IF s = {} THEN 0 ELSE g[s \ {Max(s)}] + r[Max(s)].recv]
    BY <2>1, <2>2
  <2>4. QED
    BY <1>2, <2>3
<1>5. h = [s \in SUBSET (DOMAIN r) |->
                    IF s = {} THEN 0 ELSE h[s \ {Max(s)}] + r[Max(s)].recv]
  BY <1>4, Zenon
<1> HIDE DEF h
<1>6. Folds(h, v, n)
  <2>1. \A s \in SUBSET (1..n) : s # {} => v[Max(s)] = r[Max(s)].recv
    <3>1. \A s \in SUBSET (1..n) : s # {} => Max(s) \in 1..n
      <4> HIDE DEF n
      <4> QED
        BY <1>2, TopIn
    <3>2. QED
      BY <3>1
  <2> HIDE DEF v, n
  <2>2. h = [s \in SUBSET (1..n) |->
                    IF s = {} THEN 0 ELSE h[s \ {Max(s)}] + v[Max(s)]]
    BY <1>2, <1>5, <2>1
  <2>3. QED
    BY <2>2, Zenon DEF Folds
<1>7. QED
  BY <1>1, <1>2, <1>6

-----------------------------------------------------------------------------
(***************************************************************************)
(* Detection                                                               *)
(***************************************************************************)
Unanswered(b) == b.sent >= 1 /\ b.recv = 0

\* The last d buckets of a ring are unanswered.
DarkTail(r, d) ==
    /\ d <= Len(r)
    /\ \A i \in 1..Len(r) : i > Len(r) - d => Unanswered(r[i])

\* The ring holds the buckets of the last ticks, and as many unanswered ones at
\* its end as the EV has been dark for.
DarkInv ==
    /\ TypeOK
    /\ dark \in [EV -> 0..ProbeWindowTicks]
    /\ \A e \in EV : /\ Len(buckets[e]) <= ProbeWindowTicks
                     /\ DarkTail(buckets[e], dark[e])

\* What rotation does to a ring.
LEMMA RingAfter ==
  ASSUME TypeOK, NEW e \in EV, Len(buckets[e]) <= ProbeWindowTicks
  PROVE  LET r == Rotated(e)
             m == Len(buckets[e])
             n == Len(r)
         IN  /\ r \in Seq(Bucket) /\ m \in Nat /\ n \in Nat
             /\ n = IF m = ProbeWindowTicks THEN m ELSE m + 1
             /\ r[n].sent = curSent[e] /\ r[n].recv = curRecv[e]
             /\ \A i \in 1..n - 1 : r[i] = buckets[e][i + (m + 1 - n)]
<1> DEFINE b == [sent |-> curSent[e], recv |-> curRecv[e]]
           q == buckets[e]
           m == Len(q)
           all == Append(q, b)
<1>1. b \in Bucket /\ b.sent = curSent[e] /\ b.recv = curRecv[e]
  BY TunableAssumption DEF TypeOK, Bucket
<1>2. q \in Seq(Bucket) /\ m \in Nat /\ m <= ProbeWindowTicks
  BY DEF TypeOK
<1>3. Rotated(e) = IF Len(all) > ProbeWindowTicks THEN Tail(all) ELSE all
  BY DEF Rotated
<1> HIDE DEF q, b
<1>4. /\ all \in Seq(Bucket) /\ Len(all) = m + 1 /\ all # <<>>
      /\ all[m + 1] = b
      /\ \A i \in 1..m : all[i] = q[i]
  BY <1>1, <1>2
<1>5. ProbeWindowTicks \in Nat /\ ProbeWindowTicks >= 1
  BY TunableAssumption
<1> HIDE DEF all, m
<1>6. CASE m = ProbeWindowTicks
  <2>1. Rotated(e) = Tail(all)
    BY <1>2, <1>3, <1>4, <1>5, <1>6
  <2>2. Tail(all) \in Seq(Bucket) /\ Len(Tail(all)) = m
        /\ \A i \in 1..m : Tail(all)[i] = all[i + 1]
    BY <1>2, <1>4
  <2>3. Tail(all)[m] = b
    BY <1>2, <1>4, <1>5, <1>6, <2>2
  <2>4. ASSUME NEW i \in 1..m - 1 PROVE Tail(all)[i] = q[i + (m + 1 - m)]
    <3>1. i \in 1..m /\ i + 1 \in 1..m /\ i + (m + 1 - m) = i + 1
      BY <1>2
    <3>2. Tail(all)[i] = all[i + 1] /\ all[i + 1] = q[i + 1]
      BY <1>4, <2>2, <3>1
    <3>3. QED
      BY <3>1, <3>2
  <2>5. QED
    BY <1>1, <1>2, <1>6, <2>1, <2>2, <2>3, <2>4 DEF m, q
<1>7. CASE m < ProbeWindowTicks
  <2>1. Rotated(e) = all
    BY <1>2, <1>3, <1>4, <1>5, <1>7
  <2>2. ASSUME NEW i \in 1..(m + 1) - 1 PROVE all[i] = q[i + (m + 1 - (m + 1))]
    <3>1. i \in 1..m /\ i + (m + 1 - (m + 1)) = i
      BY <1>2
    <3>2. QED
      BY <1>4, <3>1
  <2>3. m + 1 \in Nat /\ m # ProbeWindowTicks
    BY <1>2, <1>5, <1>7
  <2>4. QED
    BY <1>1, <1>2, <1>4, <2>1, <2>2, <2>3 DEF m, q
<1>8. QED
  BY <1>2, <1>5, <1>6, <1>7

\* How long an EV has been dark after a tick has visited it.
DarkAfter(e) ==
    IF curSent[e] > 0 /\ curRecv[e] = 0
    THEN SmallerOf(dark[e] + 1, ProbeWindowTicks) ELSE 0

LEMMA DarkTailAfter ==
  ASSUME DarkInv, NEW e \in EV
  PROVE  /\ DarkAfter(e) \in 0..ProbeWindowTicks
         /\ Len(Rotated(e)) <= ProbeWindowTicks
         /\ DarkTail(Rotated(e), DarkAfter(e))
<1> DEFINE r == Rotated(e)
           q == buckets[e]
           m == Len(q)
           n == Len(r)
           d == dark[e]
           c == DarkAfter(e)
<1>0. ProbeWindowTicks \in Nat /\ ProbeWindowTicks >= 1
  BY TunableAssumption
<1>1. /\ d \in 0..ProbeWindowTicks /\ m <= ProbeWindowTicks /\ d <= m
      /\ \A i \in 1..m : i > m - d => Unanswered(q[i])
  BY DEF DarkInv, DarkTail
<1>2. /\ r \in Seq(Bucket) /\ m \in Nat /\ n \in Nat
      /\ n = IF m = ProbeWindowTicks THEN m ELSE m + 1
      /\ r[n].sent = curSent[e] /\ r[n].recv = curRecv[e]
      /\ \A i \in 1..n - 1 : r[i] = q[i + (m + 1 - n)]
  BY RingAfter DEF DarkInv
<1>3. curSent[e] \in Nat /\ curRecv[e] \in Nat
  BY TunableAssumption DEF DarkInv, TypeOK
<1>4. c = IF curSent[e] > 0 /\ curRecv[e] = 0
          THEN SmallerOf(d + 1, ProbeWindowTicks) ELSE 0
  BY DEF DarkAfter
<1> HIDE DEF r, q, m, n, d, c
<1>5. c \in 0..ProbeWindowTicks /\ n <= ProbeWindowTicks /\ c <= n
  BY <1>0, <1>1, <1>2, <1>4 DEF SmallerOf
<1>6. ASSUME NEW i \in 1..n, i > n - c
      PROVE  Unanswered(r[i])
  <2>1. c > 0
    BY <1>2, <1>5, <1>6
  <2>2. curSent[e] >= 1 /\ curRecv[e] = 0 /\ c <= d + 1
    BY <1>0, <1>1, <1>3, <1>4, <2>1 DEF SmallerOf
  <2>3. CASE i = n
    BY <1>2, <2>2, <2>3 DEF Unanswered
  <2>4. CASE i # n
    <3>1. /\ i \in 1..n - 1 /\ i + (m + 1 - n) \in 1..m
          /\ i + (m + 1 - n) > m - d
      BY <1>0, <1>1, <1>2, <1>5, <1>6, <2>2, <2>4
    <3>2. QED
      BY <1>1, <1>2, <3>1
  <2>5. QED
    BY <2>3, <2>4
<1>7. QED
  BY <1>5, <1>6 DEF DarkTail, r, n, c

\* A visit of the tick is the tick's step.
LEMMA VisitIsTick ==
  ASSUME Next, NEW e \in EV, Visited(e)
  PROVE  TickEV(e)
<1>1. e # 0
  BY NumEVsType
<1>2. QED
  BY <1>1 DEF Visited, Next, RecordProbeSent, RecordProbeRecv, TickBegin, TickEV,
              RecordLossWindow, RebuildWeights, LockFree

LEMMA DarkInit == HInit => DarkInv
<1> SUFFICES ASSUME HInit PROVE DarkInv
  OBVIOUS
<1>1. TypeOK
  BY InitType DEF HInit
<1>2. \A e \in EV : buckets[e] = <<>> /\ dark[e] = 0
  BY DEF HInit, Init
<1>3. dark \in [EV -> 0..ProbeWindowTicks]
  BY TunableAssumption DEF HInit
<1>4. QED
  BY <1>1, <1>2, <1>3, TunableAssumption DEF DarkInv, DarkTail

LEMMA DarkStep == DarkInv /\ [HNext]_hvars => DarkInv'
<1> SUFFICES ASSUME DarkInv, [HNext]_hvars PROVE DarkInv'
  OBVIOUS
<1>1. CASE HNext
  <2>1. TypeOK'
    BY <1>1, TypeStep DEF HNext, DarkInv
  <2>2. ASSUME NEW e \in EV
        PROVE  /\ dark'[e] \in 0..ProbeWindowTicks
               /\ Len(buckets'[e]) <= ProbeWindowTicks
               /\ DarkTail(buckets'[e], dark'[e])
    <3>1. CASE Visited(e)
      <4>1. buckets'[e] = Rotated(e)
        BY <1>1, <3>1, VisitIsTick DEF HNext, TickEV, DarkInv, TypeOK
      <4>2. dark'[e] = DarkAfter(e)
        BY <1>1, <3>1 DEF HNext, Observe, DarkAfter
      <4>3. QED
        BY <4>1, <4>2, DarkTailAfter
    <3>2. CASE ~Visited(e)
      <4>1. dark'[e] = dark[e]
        BY <1>1, <3>2 DEF HNext, Observe
      <4>2. buckets'[e] = buckets[e]
        <5>1. ASSUME NEW f \in EV, TickEV(f) PROVE buckets'[e] = buckets[e]
          <6>1. f # e
            BY <3>2, <5>1, TickIsVisit
          <6>2. QED
            BY <5>1, <6>1 DEF TickEV, DarkInv, TypeOK
        <5>2. QED
          BY <1>1, <5>1 DEF HNext, Next, RecordProbeSent, RecordProbeRecv, TickBegin,
                            RecordLossWindow, RebuildWeights, evidence
      <4>3. QED
        BY <4>1, <4>2 DEF DarkInv
    <3>3. QED
      BY <3>1, <3>2
  <2>3. dark' = [e \in EV |-> dark'[e]]
    BY <1>1 DEF HNext, Observe
  <2>4. dark' \in [EV -> 0..ProbeWindowTicks]
    BY <2>2, <2>3
  <2>5. QED
    BY <2>1, <2>2, <2>4 DEF DarkInv
<1>2. CASE UNCHANGED hvars
  <2>1. TypeOK'
    BY <1>2, TypeStep DEF hvars, DarkInv
  <2>2. QED
    BY <1>2, <2>1 DEF DarkInv, hvars, hist, vars, evidence
<1>3. QED
  BY <1>1, <1>2

\* Detection is bounded: the tick that completes a window in which no probe of an
\* EV came back takes the EV out, unless the floor keeps it in.  (With a
\* probe_fail_ratio of 0 no ratio is below it, and probes never take an EV out.)
THEOREM DarkIsDetected ==
    ASSUME ProbeFailPct > 0
    PROVE  HSpec => DarkEVTakenOut
<1>1. ASSUME DarkInv, HNext, NEW e \in EV, Visited(e),
             dark'[e] = ProbeWindowTicks, ProbeWindowTicks >= ProbeMinSamples
      PROVE  Bad(e)' \/ ~FloorAllows(e)
  <2> DEFINE r == Rotated(e)
             w == ProbeWindowTicks
  <2>0. w \in Nat /\ w >= 1 /\ ProbeMinSamples \in Nat /\ ProbeFailPct \in Nat
    BY TunableAssumption
  <2>1. TickEV(e) /\ Evaluate(e)
    BY <1>1, VisitIsTick DEF HNext, TickEV
  <2>2. DarkAfter(e) = w
    BY <1>1 DEF HNext, Observe, DarkAfter
  <2>3. r \in Seq(Bucket)
    BY <1>1, RotatedType DEF DarkInv
  <2>4. Len(r) = w /\ \A i \in 1..w : Unanswered(r[i])
    <3>1. Len(r) <= w /\ DarkTail(r, w)
      BY <1>1, <2>2, DarkTailAfter
    <3>2. Len(r) \in Nat
      BY <2>3
    <3> HIDE DEF r, w
    <3>3. Len(r) = w
      BY <2>0, <3>1, <3>2 DEF DarkTail
    <3>4. \A i \in 1..w : i > w - w
      BY <2>0
    <3>5. QED
      BY <3>1, <3>3, <3>4 DEF DarkTail
  <2>5. \A i \in 1..w : r[i].sent \in Nat /\ r[i].recv \in Nat
    <3> HIDE DEF r
    <3>1. \A i \in 1..w : r[i] \in Bucket
      BY <2>3, <2>4
    <3>2. QED
      BY <3>1 DEF Bucket
  <2>6. WindowSent(e) \in Nat /\ WindowSent(e) >= w
    <3> DEFINE v == [i \in 1..w |-> r[i].sent]
    <3>1. PICK h : Folds(h, v, w) /\ WindowSent(e) = h[1..w]
      BY <2>3, <2>4, SentSum DEF WindowSent
    <3>2. \A i \in 1..w : v[i] \in Nat /\ v[i] >= 1
      BY <2>4, <2>5 DEF Unanswered
    <3> HIDE DEF v, r, w
    <3>3. h[1..w] \in Nat /\ h[1..w] >= w
      BY <2>0, <3>1, <3>2, FoldBounds
    <3>4. QED
      BY <3>1, <3>3
  <2>7. WindowRecv(e) = 0
    <3> DEFINE v == [i \in 1..w |-> r[i].recv]
               n == FoldLeft(LAMBDA a, b : a + b.recv, 0, r)
    <3>1. PICK h : Folds(h, v, w) /\ n = h[1..w]
      BY <2>3, <2>4, RecvSum
    <3>2. \A i \in 1..w : v[i] \in Nat /\ v[i] = 0
      BY <2>4, <2>5 DEF Unanswered
    <3>3. WindowRecv(e) = SmallerOf(WindowSent(e), n)
      BY Zenon DEF WindowRecv
    <3> HIDE DEF v, r, w, n
    <3>4. h[1..w] = 0
      BY <2>0, <3>1, <3>2, FoldBounds
    <3>5. QED
      BY <2>0, <2>6, <3>1, <3>3, <3>4 DEF SmallerOf
  <2>8. Failing(e) /\ ~NoTraffic(e) /\ ~Thin(e)
    BY <1>1, <2>0, <2>6, <2>7 DEF Failing, Trusted, NoTraffic, Thin
  <2>9. (MayDemote(e) /\ Demote(e, FALSE)) \/ (~MayDemote(e) /\ SetHealthy(e, 0))
    BY <2>1, <2>8 DEF Evaluate, Between, Healthy
  <2>10. CASE MayDemote(e) /\ Demote(e, FALSE)
    BY <1>1, <2>10 DEF Demote, Bad, DarkInv, TypeOK
  <2>11. CASE ~MayDemote(e) /\ SetHealthy(e, 0)
    BY <2>11 DEF MayDemote, SetHealthy, Bad
  <2>12. QED
    BY <2>9, <2>10, <2>11
<1>2. DarkInv /\ [HNext]_hvars =>
        [\A e \in EV : /\ Visited(e)
                       /\ dark'[e] = ProbeWindowTicks
                       /\ ProbeWindowTicks >= ProbeMinSamples
                       => Bad(e)' \/ ~FloorAllows(e)]_hvars
  BY <1>1
<1>3. QED
  BY <1>2, DarkInit, DarkStep, PTL DEF HSpec, DarkEVTakenOut

-----------------------------------------------------------------------------
(***************************************************************************)
(* The refinement of EVPool                                                *)
(***************************************************************************)
PoolOut    == {e \in EV : Bad(e)}
PoolServed == {e \in EV : weights[e] > 0}
PoolRest   == [e \in EV |-> IF Bad(e) THEN badFor[e] ELSE 0]

PoolInv == LatchInv /\ SafetyInv

LEMMA ServedIsRest == SafetyInv /\ changed = 0 => PoolServed = EV \ PoolOut
<1> SUFFICES ASSUME SafetyInv, changed = 0, NEW e \in EV
             PROVE  weights[e] > 0 <=> ~Bad(e)
  BY DEF PoolServed, PoolOut
<1>1. weights[e] = 0 <=> Bad(e)
  BY ServedAreUsable DEF Bad
<1>2. weights[e] \in 0..2
  BY DEF SafetyInv, TypeOK
<1>3. QED
  BY <1>1, <1>2

\* What a step does to the states of all EVs at once, and to the weights.
LEMMA StateCases ==
  ASSUME TypeOK, Next
  PROVE  \/ \E f \in EV : /\ ~Bad(f) /\ FloorAllows(f)
                          /\ state' = [state EXCEPT ![f] = "ASSUMED_BAD"]
                          /\ \A e \in EV \ {f} : ~Visited(e)
                          /\ changed = 0 /\ weights' = weights
         \/ \E f \in EV : /\ Visited(f) /\ MayPromote(f)
                          /\ state' = [state EXCEPT ![f] = "GOOD"]
                          /\ \A e \in EV \ {f} : ~Visited(e)
                          /\ changed = 0 /\ weights' = weights
         \/ /\ state' = state /\ weights' = weights
            /\ \A e, f \in EV : Visited(e) /\ Visited(f) => e = f
         \/ /\ state' = state /\ changed' = 0
            /\ \A e \in EV : ~Visited(e)
<1>1. ASSUME NEW f \in EV, RecordProbeSent(f) \/ RecordProbeRecv(f)
      PROVE  state' = state /\ weights' = weights
  BY <1>1 DEF RecordProbeSent, RecordProbeRecv
<1>3. \A e, f \in EV : Visited(e) /\ Visited(f) => e = f
  BY DEF Visited
<1>2. CASE TickBegin
  BY <1>2, <1>3 DEF TickBegin
<1>4. ASSUME NEW f \in EV, TickEV(f)
      PROVE  /\ weights' = weights /\ changed = 0
             /\ \/ ~Bad(f) /\ FloorAllows(f) /\ state' = [state EXCEPT ![f] = "ASSUMED_BAD"]
                \/ Visited(f) /\ MayPromote(f) /\ state' = [state EXCEPT ![f] = "GOOD"]
                \/ state' = state
  <2>1. Evaluate(f) /\ changed = 0
    BY <1>4 DEF TickEV
  <2>2. Visited(f)
    BY <1>4, TickIsVisit
  <2>3. CASE MayDemote(f) /\ Demote(f, FALSE)
    BY <2>1, <2>3 DEF Demote, MayDemote, Bad
  <2>4. CASE MayPromote(f) /\ Promote(f)
    BY <2>1, <2>2, <2>4 DEF Promote
  <2>5. ASSUME NEW n, SetHealthy(f, n) PROVE state' = state /\ weights' = weights
    BY <2>5 DEF SetHealthy
  <2>6. QED
    BY <2>1, <2>3, <2>4, <2>5, EvaluateCases
<1>5. ASSUME NEW f \in EV, TickEV(f)
      PROVE  \A e \in EV \ {f} : ~Visited(e)
  BY <1>5 DEF TickEV, Visited
<1>6. ASSUME NEW f \in EV, NEW r \in LossReports, RecordLossWindow(f, r[1], r[2])
      PROVE  /\ \/ ~Bad(f) /\ FloorAllows(f) /\ state' = [state EXCEPT ![f] = "ASSUMED_BAD"]
                \/ state' = state
             /\ weights' = weights /\ changed = 0
             /\ \A e \in EV : ~Visited(e)
  <2>1. (\A e \in EV : ~Visited(e)) /\ changed = 0
    <3>1. LockFree
      BY <1>6 DEF RecordLossWindow
    <3> QED
      BY <3>1, NumEVsType DEF LockFree, Visited
  <2>2. CASE MayDemote(f) /\ Demote(f, TRUE)
    BY <2>1, <2>2 DEF Demote, MayDemote, Bad
  <2>3. CASE UNCHANGED <<state, weights>>
    BY <2>1, <2>3
  <2>4. QED
    BY <1>6, <2>2, <2>3 DEF RecordLossWindow
<1>7. CASE RebuildWeights
  BY <1>7 DEF RebuildWeights, Visited
<1>8. QED
  BY <1>1, <1>2, <1>3, <1>4, <1>5, <1>6, <1>7 DEF Next

LEMMA PoolInvariant == HSpec => []PoolInv
<1>1. HInit => PoolInv
  BY LatchInit, InitType, InitFloor, InitCache DEF HInit, SafetyInv, PoolInv
<1>2. PoolInv /\ [HNext]_hvars => PoolInv'
  <2> SUFFICES ASSUME PoolInv, [HNext]_hvars PROVE PoolInv'
    OBVIOUS
  <2>1. [Next]_vars
    BY DEF HNext, hvars
  <2> QED
    BY <2>1, LatchStep, SafetyStep DEF PoolInv
<1> QED
  BY <1>1, <1>2, PTL DEF HSpec

\* How the rest of an EV changes with a step of the table.
LEMMA RestAfter ==
  ASSUME PoolInv, Observe, NEW e \in EV
  PROVE  /\ ~Bad(e) => badFor'[e] = 0
         /\ Bad(e) /\ ~Visited(e) => badFor'[e] = badFor[e]
         /\ Bad(e) /\ Visited(e) => badFor'[e] = SmallerOf(badFor[e] + 1, HealthyCap)
  BY DEF Observe

\* Both modules count with the same Cardinality.
LEMMA PoolCardinality == \A S : Pool!Cardinality(S) = Cardinality(S)
  BY Zenon DEF Pool!Cardinality, Cardinality

LEMMA PoolInitially == HInit /\ PoolInv => Pool!Init
<1> SUFFICES ASSUME HInit, PoolInv PROVE Pool!Init
  OBVIOUS
<1>1. \A e \in EV : ~Bad(e)
  BY DEF HInit, Init, Bad
<1>2. PoolOut = {}
  BY <1>1 DEF PoolOut
<1>3. PoolServed = EV
  BY <1>2, ServedIsRest DEF PoolInv, HInit, Init
<1>4. PoolRest = [e \in EV |-> 0]
  BY <1>1 DEF PoolRest
<1> QED
  BY <1>2, <1>3, <1>4 DEF Pool!Init, PoolOut, PoolServed, PoolRest

LEMMA PoolStep ==
  ASSUME PoolInv, PoolInv', HNext
  PROVE  [Pool!Next]_(Pool!vars)
<1>1. /\ changed = 0 => PoolServed = EV \ PoolOut
      /\ changed' = 0 => PoolServed' = EV \ PoolOut'
  <2>1. changed = 0 => PoolServed = EV \ PoolOut
    BY ServedIsRest DEF PoolInv
  <2>2. (SafetyInv /\ changed = 0 => PoolServed = EV \ PoolOut)'
    BY ServedIsRest, PTL
  <2> QED
    BY <2>1, <2>2 DEF PoolInv
<1>w. weights' = weights => PoolServed' = PoolServed
  BY DEF PoolServed
<1>2. /\ Next /\ Observe
      /\ TypeOK
      /\ state \in [EV -> EVStates]
  BY DEF HNext, PoolInv, LatchInv, TypeOK
<1>3. ASSUME NEW f \in EV, ~Bad(f), FloorAllows(f),
             state' = [state EXCEPT ![f] = "ASSUMED_BAD"],
             \A e \in EV \ {f} : ~Visited(e),
             changed = 0, weights' = weights
      PROVE  Pool!TakeOut(f)
  <2>1. PoolOut' = PoolOut \cup {f}
    BY <1>2, <1>3 DEF PoolOut, Bad
  <2>2. EV \ (PoolOut \cup {f}) = Usable \ {f}
    BY DEF PoolOut, Bad, Usable
  <2>3. PoolRest' = PoolRest
    <3>1. ASSUME NEW e \in EV
          PROVE  (IF Bad(e)' THEN badFor'[e] ELSE 0) = (IF Bad(e) THEN badFor[e] ELSE 0)
      <4>1. CASE e = f
        BY <1>2, <1>3, <4>1, RestAfter
      <4>2. CASE e # f
        <5>1. Bad(e)' <=> Bad(e)
          BY <1>2, <1>3, <4>2 DEF Bad
        <5>2. ~Visited(e)
          BY <1>3, <4>2
        <5> QED
          BY <1>2, <5>1, <5>2, RestAfter
      <4> QED
        BY <4>1, <4>2
    <3> QED
      BY <3>1 DEF PoolRest
  <2>4. f \notin PoolOut
    BY <1>3 DEF PoolOut
  <2>5. Cardinality(EV \ (PoolOut \cup {f})) >= MinActive
    BY <1>3, <2>2 DEF FloorAllows
  <2>6. PoolServed = EV \ PoolOut /\ PoolServed' = PoolServed
    BY <1>1, <1>w, <1>3
  <2> QED
    BY <2>1, <2>3, <2>4, <2>5, <2>6, PoolCardinality
       DEF Pool!TakeOut, Pool!Settled, PoolOut, PoolServed, PoolRest
<1>4. ASSUME NEW f \in EV, Visited(f), MayPromote(f),
             state' = [state EXCEPT ![f] = "GOOD"],
             \A e \in EV \ {f} : ~Visited(e),
             changed = 0, weights' = weights
      PROVE  [Pool!Next]_(Pool!vars)
  <2>s. PoolServed = EV \ PoolOut /\ PoolServed' = PoolServed
    BY <1>1, <1>w, <1>4
  <2>1. PoolOut' = PoolOut \ {f}
    BY <1>2, <1>4 DEF PoolOut, Bad
  <2>2. PoolRest' = [PoolRest EXCEPT ![f] = 0]
    <3>1. ASSUME NEW e \in EV
          PROVE  (IF Bad(e)' THEN badFor'[e] ELSE 0)
                   = (IF e = f THEN 0 ELSE IF Bad(e) THEN badFor[e] ELSE 0)
      <4>1. CASE e = f
        BY <1>2, <1>4, <4>1 DEF Bad
      <4>2. CASE e # f
        <5>1. Bad(e)' <=> Bad(e)
          BY <1>2, <1>4, <4>2 DEF Bad
        <5>2. ~Visited(e)
          BY <1>4, <4>2
        <5> QED
          BY <1>2, <4>2, <5>1, <5>2, RestAfter
      <4> QED
        BY <4>1, <4>2
    <3> QED
      BY <3>1 DEF PoolRest
  <2>3. CASE Bad(f)
    <3>1. badFor[f] + 1 >= ProbeRecoverTicks
      BY <1>4, <2>3, PromotedRested DEF PoolInv
    <3>2. PoolRest[f] = badFor[f] /\ f \in PoolOut
      BY <2>3 DEF PoolRest, PoolOut
    <3>3. Pool!BringBack(f)
      BY <2>s, <2>1, <2>2, <3>1, <3>2
         DEF Pool!BringBack, Pool!Settled, PoolOut, PoolServed, PoolRest
    <3> QED
      BY <3>3 DEF Pool!Next
  <2>4. CASE ~Bad(f)
    <3>1. PoolOut' = PoolOut
      BY <2>1, <2>4 DEF PoolOut
    <3>2. PoolRest' = PoolRest
      BY <2>2, <2>4 DEF PoolRest
    <3> QED
      BY <2>s, <3>1, <3>2 DEF Pool!vars, PoolOut, PoolServed, PoolRest
  <2> QED
    BY <2>3, <2>4
<1>5. ASSUME state' = state, weights' = weights,
             \A e, f \in EV : Visited(e) /\ Visited(f) => e = f
      PROVE  [Pool!Next]_(Pool!vars)
  <2>1. PoolOut' = PoolOut /\ \A e \in EV : Bad(e)' <=> Bad(e)
    BY <1>5 DEF PoolOut, Bad
  <2>2. CASE \E f \in EV : Visited(f) /\ Bad(f) /\ badFor[f] < HealthyCap
    <3>1. PICK f \in EV : Visited(f) /\ Bad(f) /\ badFor[f] < HealthyCap
      BY <2>2
    <3>2. badFor[f] \in Nat /\ HealthyCap \in Nat
      BY CapType DEF PoolInv, LatchInv
    <3>3. badFor'[f] = badFor[f] + 1
      BY <1>2, <3>1, <3>2, RestAfter DEF SmallerOf
    <3>4. PoolRest' = [PoolRest EXCEPT ![f] = badFor[f] + 1]
      <4>1. ASSUME NEW e \in EV
            PROVE  (IF Bad(e)' THEN badFor'[e] ELSE 0)
                     = (IF e = f THEN badFor[f] + 1 ELSE IF Bad(e) THEN badFor[e] ELSE 0)
        <5>1. CASE e = f
          BY <2>1, <3>1, <3>3, <5>1
        <5>2. CASE e # f
          <6>1. ~Visited(e)
            BY <1>5, <3>1, <5>2
          <6> QED
            BY <1>2, <2>1, <5>2, <6>1, RestAfter
        <5> QED
          BY <5>1, <5>2
      <4> QED
        BY <4>1 DEF PoolRest
    <3>5. PoolRest[f] = badFor[f] /\ f \in PoolOut
      BY <3>1 DEF PoolRest, PoolOut
    <3>6. PoolServed = EV \ PoolOut /\ PoolServed' = PoolServed
      BY <1>1, <1>w, <1>5, <3>1 DEF Visited
    <3>7. Pool!Round(f)
      BY <2>1, <3>1, <3>4, <3>5, <3>6
         DEF Pool!Round, Pool!Settled, PoolOut, PoolServed, PoolRest
    <3> QED
      BY <3>7 DEF Pool!Next
  <2>3. CASE ~\E f \in EV : Visited(f) /\ Bad(f) /\ badFor[f] < HealthyCap
    <3>1. ASSUME NEW e \in EV, Bad(e) PROVE badFor'[e] = badFor[e]
      <4>1. badFor[e] \in 0..HealthyCap /\ HealthyCap \in Nat
        BY CapType DEF PoolInv, LatchInv
      <4>2. CASE Visited(e)
        <5>1. badFor[e] = HealthyCap
          BY <2>3, <3>1, <4>1, <4>2
        <5> QED
          BY <1>2, <3>1, <4>1, <4>2, <5>1, RestAfter DEF SmallerOf
      <4>3. CASE ~Visited(e)
        BY <1>2, <3>1, <4>3, RestAfter
      <4> QED
        BY <4>2, <4>3
    <3>2. PoolRest' = PoolRest
      BY <2>1, <3>1 DEF PoolRest
    <3> QED
      BY <1>w, <1>5, <2>1, <3>2 DEF Pool!vars, PoolOut, PoolServed, PoolRest
  <2> QED
    BY <2>2, <2>3
<1>6. ASSUME state' = state, changed' = 0, \A e \in EV : ~Visited(e)
      PROVE  [Pool!Next]_(Pool!vars)
  <2>1. PoolOut' = PoolOut /\ \A e \in EV : Bad(e)' <=> Bad(e)
    BY <1>6 DEF PoolOut, Bad
  <2>2. PoolRest' = PoolRest
    <3>1. \A e \in EV : Bad(e) => badFor'[e] = badFor[e]
      BY <1>2, <1>6, RestAfter
    <3> QED
      BY <2>1, <3>1 DEF PoolRest
  <2>3. PoolServed' = EV \ PoolOut
    BY <1>1, <1>6, <2>1
  <2>4. CASE PoolServed = EV \ PoolOut
    BY <2>1, <2>2, <2>3, <2>4 DEF Pool!vars, PoolOut, PoolServed, PoolRest
  <2>5. CASE PoolServed # EV \ PoolOut
    <3>1. Pool!Serve
      BY <2>1, <2>2, <2>3, <2>5 DEF Pool!Serve, Pool!Settled, PoolOut, PoolServed, PoolRest
    <3> QED
      BY <3>1 DEF Pool!Next
  <2> QED
    BY <2>4, <2>5
<1>7. (\E f \in EV : Pool!TakeOut(f)) => Pool!Next
  BY DEF Pool!Next
<1> QED
  BY <1>2, <1>3, <1>4, <1>5, <1>6, <1>7, StateCases

\* Whoever sprays by the weights may rely on EVPool: at least the floor in
\* service, weights that follow each move before the next, a full hold before an
\* EV returns.
THEOREM PoolImplemented == HSpec => ImplementsPool
<1>1. PoolInv /\ PoolInv' /\ [HNext]_hvars => [Pool!Next]_(Pool!vars)
  <2>1. PoolInv /\ PoolInv' /\ HNext => [Pool!Next]_(Pool!vars)
    BY PoolStep
  <2>2. UNCHANGED hvars => UNCHANGED Pool!vars
    BY DEF hvars, hist, vars, latches, lock, Pool!vars, Bad
  <2> QED
    BY <2>1, <2>2
<1> QED
  BY <1>1, PoolInitially, PoolInvariant, PTL DEF HSpec, ImplementsPool, Pool!Spec
-----------------------------------------------------------------------------
(***************************************************************************)
(* Which EV a packet is sprayed over (SprayPick).  First the sum over a    *)
(* set of indices: it exists, and one index more adds its value            *)
(***************************************************************************)
APick(s) == CHOOSE x \in s : TRUE

\* h sums f up over the subsets of T.
SumsUp(h, f, T) ==
    h = [s \in SUBSET T |-> IF s = {} THEN 0 ELSE f[APick(s)] + h[s \ {APick(s)}]]

LEMMA OneFewer ==
    ASSUME NEW s, IsFiniteSet(s), NEW x \in s
    PROVE  /\ IsFiniteSet(s \ {x})
           /\ Cardinality(s) \in Nat /\ Cardinality(s \ {x}) \in Nat
           /\ Cardinality(s \ {x}) = Cardinality(s) - 1
BY FS_RemoveElement, FS_CardinalityType

LEMMA APickIn == ASSUME NEW s, s # {} PROVE APick(s) \in s
BY DEF APick

\* There is such a function: built for larger and larger subsets.
LEMMA SumsUpThere ==
    ASSUME NEW f, NEW T, IsFiniteSet(T) PROVE \E h : SumsUp(h, f, T)
<1> DEFINE Upto(h, n) ==
      \A s \in SUBSET T : Cardinality(s) =< n =>
        h[s] = IF s = {} THEN 0 ELSE f[APick(s)] + h[s \ {APick(s)}]
    Miss == {n \in Nat : ~\E h : Upto(h, n)}
<1>0. \A s \in SUBSET T : IsFiniteSet(s) /\ Cardinality(s) \in Nat
  BY FS_Subset, FS_CardinalityType
<1>1. Miss = {}
  <2>1. SUFFICES ASSUME Miss # {} PROVE FALSE
    OBVIOUS
  <2>2. PICK n \in Miss : \A m \in Nat : m < n => m \notin Miss
    BY <2>1, Least
  <2>3. n # 0
    <3>1. SUFFICES ASSUME n = 0 PROVE FALSE
      OBVIOUS
    <3>2. Upto([s \in SUBSET T |-> 0], 0)
      <4>1. ASSUME NEW s \in SUBSET T, Cardinality(s) =< 0 PROVE s = {}
        BY <1>0, <4>1, FS_EmptySet
      <4>2. QED
        BY <4>1
    <3>3. QED
      BY <3>1, <3>2, <2>2
  <2>4. n - 1 \in Nat /\ n - 1 < n /\ n \in Nat
    BY <2>2, <2>3
  <2>5. PICK g : Upto(g, n - 1)
    BY <2>2, <2>4
  <2> DEFINE h == [s \in SUBSET T |-> IF s = {} THEN 0
                                      ELSE f[APick(s)] + g[s \ {APick(s)}]]
  <2>6. \A s \in SUBSET T : Cardinality(s) =< n - 1 => h[s] = g[s]
    BY <2>5
  <2>7. Upto(h, n)
    <3> SUFFICES ASSUME NEW s \in SUBSET T, Cardinality(s) =< n, s # {}
                 PROVE  h[s \ {APick(s)}] = g[s \ {APick(s)}]
      BY Zenon
    <3> DEFINE r == s \ {APick(s)}
    <3>1. r \in SUBSET T
      OBVIOUS
    <3>2. Cardinality(s) \in Nat /\ Cardinality(r) = Cardinality(s) - 1
      BY <1>0, APickIn, OneFewer
    <3> HIDE DEF r, h
    <3>3. Cardinality(r) =< n - 1
      BY <2>4, <3>2
    <3> QED
      BY <2>6, <3>1, <3>3 DEF r
  <2>8. QED
    BY <2>2, <2>7
<1>2. PICK g : Upto(g, Cardinality(T))
  BY <1>0, <1>1
<1>3. \A s \in SUBSET T : Cardinality(s) =< Cardinality(T)
  BY FS_Subset
<1> DEFINE h == [s \in SUBSET T |-> g[s]]
<1>4. SumsUp(h, f, T)
  <2> SUFFICES ASSUME NEW s \in SUBSET T
               PROVE  g[s] = IF s = {} THEN 0 ELSE f[APick(s)] + h[s \ {APick(s)}]
    BY Zenon DEF SumsUp
  <2>1. g[s] = IF s = {} THEN 0 ELSE f[APick(s)] + g[s \ {APick(s)}]
    BY <1>2, <1>3
  <2>2. s \ {APick(s)} \in SUBSET T
    OBVIOUS
  <2>3. QED
    BY <2>1, <2>2
<1>5. QED
  BY <1>4

LEMMA SumIs ==
    ASSUME NEW f, NEW T, IsFiniteSet(T)
    PROVE  \E h : SumsUp(h, f, T) /\ SumFunctionOnSet(f, T) = h[T]
<1> DEFINE h == CHOOSE g : g = [s \in SUBSET T |-> IF s = {} THEN 0
                              ELSE f[CHOOSE x \in s : TRUE] + g[s \ {CHOOSE x \in s : TRUE}]]
<1>1. SumFunctionOnSet(f, T) = h[T]
  BY Zenon DEF SumFunctionOnSet, FoldFunctionOnSet, MapThenFoldSet
<1>2. \E g : g = [s \in SUBSET T |-> IF s = {} THEN 0
                 ELSE f[CHOOSE x \in s : TRUE] + g[s \ {CHOOSE x \in s : TRUE}]]
  <2>1. PICK k : SumsUp(k, f, T)
    BY SumsUpThere
  <2>2. QED
    BY <2>1, Zenon DEF SumsUp, APick
<1>3. h = [s \in SUBSET T |-> IF s = {} THEN 0
              ELSE f[CHOOSE x \in s : TRUE] + h[s \ {CHOOSE x \in s : TRUE}]]
  BY <1>2, Zenon
<1> HIDE DEF h
<1>4. SumsUp(h, f, T)
  BY <1>3, Zenon DEF SumsUp, APick
<1>5. QED
  BY <1>1, <1>4

\* The sum of a subset is the same whichever set it is taken a subset of.
LEMMA SumsAgree ==
    ASSUME NEW f, NEW S, NEW T, IsFiniteSet(S), S \subseteq T,
           NEW h, NEW k, SumsUp(h, f, S), SumsUp(k, f, T)
    PROVE  h[S] = k[S]
<1> DEFINE Differ == {n \in Nat : \E s \in SUBSET S : Cardinality(s) = n /\ h[s] # k[s]}
<1>1. Differ = {}
  <2>1. SUFFICES ASSUME Differ # {} PROVE FALSE
    OBVIOUS
  <2>2. PICK n \in Differ : \A m \in Nat : m < n => m \notin Differ
    BY <2>1, Least
  <2>3. PICK s \in SUBSET S : Cardinality(s) = n /\ h[s] # k[s]
    BY <2>2
  <2> DEFINE r == s \ {APick(s)}
  <2>4. /\ h[s] = IF s = {} THEN 0 ELSE f[APick(s)] + h[r]
        /\ k[s] = IF s = {} THEN 0 ELSE f[APick(s)] + k[r]
    <3>1. s \in SUBSET S /\ s \in SUBSET T
      OBVIOUS
    <3>2. QED
      BY <3>1, Zenon DEF SumsUp
  <2>5. s # {}
    BY <2>3, <2>4
  <2>6. /\ r \in SUBSET S
        /\ Cardinality(r) \in Nat /\ Cardinality(s) \in Nat
        /\ Cardinality(r) = Cardinality(s) - 1
    BY <2>5, APickIn, OneFewer, FS_Subset
  <2> HIDE DEF r
  <2>7. h[r] = k[r]
    <3>1. Cardinality(r) < n
      BY <2>3, <2>6
    <3>2. QED
      BY <2>2, <2>6, <3>1
  <2>8. QED
    BY <2>3, <2>4, <2>7
<1>2. QED
  BY <1>1, FS_CardinalityType

\* A sum of nothing, and one picked index after the other.
LEMMA SumPicks ==
    ASSUME NEW f, NEW S, IsFiniteSet(S)
    PROVE  SumFunctionOnSet(f, S) =
             IF S = {} THEN 0
             ELSE f[APick(S)] + SumFunctionOnSet(f, S \ {APick(S)})
<1> DEFINE r == S \ {APick(S)}
<1>1. PICK h : SumsUp(h, f, S) /\ SumFunctionOnSet(f, S) = h[S]
  BY SumIs
<1>2. h[S] = IF S = {} THEN 0 ELSE f[APick(S)] + h[r]
  <2>1. S \in SUBSET S
    OBVIOUS
  <2>2. QED
    BY <1>1, <2>1, Zenon DEF SumsUp
<1>3. IsFiniteSet(r) /\ r \subseteq S
  BY FS_Subset
<1>4. PICK k : SumsUp(k, f, r) /\ SumFunctionOnSet(f, r) = k[r]
  <2> HIDE DEF r
  <2> QED
    BY <1>3, SumIs
<1>5. k[r] = h[r]
  <2> HIDE DEF r
  <2> QED
    BY <1>1, <1>3, <1>4, SumsAgree
<1>6. QED
  BY <1>1, <1>2, <1>4, <1>5, Zenon

\* Any index may be taken off first.
LEMMA SumOne ==
    ASSUME NEW f, NEW T, IsFiniteSet(T), \A x \in T : f[x] \in Nat
    PROVE  \A S \in SUBSET T :
             /\ SumFunctionOnSet(f, S) \in Nat
             /\ \A x \in S : SumFunctionOnSet(f, S) = f[x] + SumFunctionOnSet(f, S \ {x})
<1> DEFINE Sum(S) == SumFunctionOnSet(f, S)
           Right(S) == Sum(S) \in Nat /\ \A x \in S : Sum(S) = f[x] + Sum(S \ {x})
           Wrong == {n \in Nat : \E S \in SUBSET T : Cardinality(S) = n /\ ~Right(S)}
<1>0. \A S \in SUBSET T : IsFiniteSet(S) /\ Cardinality(S) \in Nat
  BY FS_Subset, FS_CardinalityType
<1>1. \A S \in SUBSET T :
        Sum(S) = IF S = {} THEN 0 ELSE f[APick(S)] + Sum(S \ {APick(S)})
  BY <1>0, SumPicks
<1> HIDE DEF Sum
<1>2. Wrong = {}
  <2>1. SUFFICES ASSUME Wrong # {} PROVE FALSE
    OBVIOUS
  <2>2. PICK n \in Wrong : \A m \in Nat : m < n => m \notin Wrong
    BY <2>1, Least
  <2>3. PICK S \in SUBSET T : Cardinality(S) = n /\ ~Right(S)
    BY <2>2
  <2>4. S # {}
    <3>1. SUFFICES ASSUME S = {} PROVE FALSE
      OBVIOUS
    <3>2. Sum(S) = 0
      BY <1>1, <3>1
    <3> QED
      BY <2>3, <3>1, <3>2
  <2> DEFINE p == APick(S)
  <2>5. p \in S
    BY <2>4, APickIn
  <2>6. \A R \in SUBSET S : R # S => Right(R)
    <3> SUFFICES ASSUME NEW R \in SUBSET S, R # S PROVE Right(R)
      OBVIOUS
    <3>1. Cardinality(R) < Cardinality(S)
      BY <1>0, FS_Subset
    <3>2. R \in SUBSET T /\ Cardinality(R) \in Nat
      BY <1>0
    <3>3. QED
      BY <2>2, <2>3, <3>1, <3>2
  <2>7. Sum(S) = f[p] + Sum(S \ {p})
    BY <1>1, <2>4
  <2> HIDE DEF p
  <2>8. Sum(S \ {p}) \in Nat /\ f[p] \in Nat
    BY <2>5, <2>6
  <2>9. ASSUME NEW x \in S PROVE Sum(S) = f[x] + Sum(S \ {x})
    <3>1. CASE x = p
      BY <2>7, <3>1
    <3>2. CASE x # p
      <4>1. Sum(S \ {p}) = f[x] + Sum((S \ {p}) \ {x})
        BY <2>5, <2>6, <3>2
      <4>2. Sum(S \ {x}) = f[p] + Sum((S \ {x}) \ {p})
        BY <2>5, <2>6, <3>2
      <4>3. (S \ {p}) \ {x} = (S \ {x}) \ {p}
        OBVIOUS
      <4>4. f[x] \in Nat /\ Sum((S \ {x}) \ {p}) \in Nat
        BY <2>5, <2>6, <3>2
      <4>5. QED
        BY <2>7, <2>8, <4>1, <4>2, <4>3, <4>4
    <3>3. QED
      BY <3>1, <3>2
  <2>10. QED
    BY <2>3, <2>7, <2>8, <2>9
<1>3. \A S \in SUBSET T : Right(S)
  BY <1>0, <1>2
<1>4. QED
  BY <1>3 DEF Sum

\* A sum is positive just when one of its values is.
LEMMA SumPositive ==
    ASSUME NEW f, NEW T, IsFiniteSet(T), \A x \in T : f[x] \in Nat
    PROVE  SumFunctionOnSet(f, T) > 0 <=> \E x \in T : f[x] # 0
<1> DEFINE Sum(S) == SumFunctionOnSet(f, S)
           Zero == {n \in Nat : \E S \in SUBSET T : /\ Cardinality(S) = n
                                                    /\ \A x \in S : f[x] = 0
                                                    /\ Sum(S) # 0}
<1>1. \A S \in SUBSET T : Sum(S) \in Nat /\ \A x \in S : Sum(S) = f[x] + Sum(S \ {x})
  BY SumOne
<1>2. Sum({}) = 0
  <2>1. IsFiniteSet({})
    BY FS_EmptySet
  <2> QED
    BY <2>1, SumPicks
<1> HIDE DEF Sum
<1>3. ASSUME NEW x \in T, f[x] # 0 PROVE Sum(T) > 0
  <2>1. Sum(T) = f[x] + Sum(T \ {x}) /\ Sum(T \ {x}) \in Nat
    BY <1>1
  <2> QED
    BY <1>3, <2>1
<1>4. Zero = {}
  <2>1. SUFFICES ASSUME Zero # {} PROVE FALSE
    OBVIOUS
  <2>2. PICK n \in Zero : \A m \in Nat : m < n => m \notin Zero
    BY <2>1, Least
  <2>3. PICK S \in SUBSET T : /\ Cardinality(S) = n /\ Sum(S) # 0
                              /\ \A x \in S : f[x] = 0
    BY <2>2
  <2>4. PICK x \in S : TRUE
    BY <1>2, <2>3
  <2>5. /\ Cardinality(S \ {x}) \in Nat /\ Cardinality(S) \in Nat
        /\ Cardinality(S \ {x}) = Cardinality(S) - 1
    BY OneFewer, FS_Subset
  <2>6. Sum(S \ {x}) = 0
    <3>1. Cardinality(S \ {x}) < n /\ S \ {x} \in SUBSET T
      BY <2>3, <2>5
    <3> QED
      BY <2>2, <2>3, <2>5, <3>1
  <2>7. Sum(S) = f[x] + Sum(S \ {x})
    BY <1>1
  <2> QED
    BY <2>3, <2>6, <2>7
<1>5. (\A x \in T : f[x] = 0) => Sum(T) = 0
  <2>1. Cardinality(T) \in Nat
    BY FS_CardinalityType
  <2> QED
    BY <1>4, <2>1
<1> QED
  BY <1>1, <1>3, <1>5 DEF Sum

-----------------------------------------------------------------------------
(***************************************************************************)
(* The grid: a plane and a spine make one EV, and a flow's packets meet    *)
(* each EV of its subset at one place of the flat vector                   *)
(***************************************************************************)
LEMMA QuotientUnique ==
    \A b \in Nat \ {0}, q \in Nat, r \in Nat :
        r < b => (b * q + r) \div b = q /\ (b * q + r) % b = r
OBVIOUS

LEMMA QuotientParts ==
    \A a \in Nat, b \in Nat \ {0} :
        /\ a \div b \in Nat
        /\ a % b \in 0..(b - 1)
        /\ a = b * (a \div b) + (a % b)
<1> SUFFICES ASSUME NEW a \in Nat, NEW b \in Nat \ {0}
             PROVE  /\ a \div b \in Nat
                    /\ a % b \in 0..(b - 1)
                    /\ a = b * (a \div b) + (a % b)
  OBVIOUS
<1>1. a \div b \in Nat
  OBVIOUS
<1>2. a % b \in 0..(b - 1)
  OBVIOUS
<1>3. a = b * (a \div b) + (a % b)
  OBVIOUS
<1> QED
  BY <1>1, <1>2, <1>3

\* Fewer than n rows of b places.
LEMMA QuotientLess ==
    \A a, n \in Nat, b \in Nat \ {0} : a < n * b => a \div b < n
OBVIOUS

LEMMA PlaceLess ==
    \A b \in Nat \ {0}, n \in Nat, q, r \in Nat :
        q < n /\ r < b => b * q + r < b * n
<1> SUFFICES ASSUME NEW b \in Nat \ {0}, NEW n \in Nat, NEW q \in Nat, NEW r \in Nat,
                    q < n, r < b
             PROVE  b * q + r < b * n
  OBVIOUS
<1>1. q + 1 <= n
  OBVIOUS
<1>2. b * (q + 1) <= b * n
  BY <1>1
<1>3. b * (q + 1) = b * q + b
  OBVIOUS
<1> QED
  BY <1>2, <1>3

LEMMA GridShape ==
    ASSUME NEW paths \in PathCounts
    PROVE  /\ paths \in Nat \ {0}
           /\ Planes(paths) \in Nat \ {0}
           /\ NumEVs = paths * Planes(paths)
<1>1. paths \in Nat \ {0} /\ NumEVs \in Nat \ {0} /\ NumEVs % paths = 0
  BY ShapeAssumption DEF PathCounts, EV
<1>2. NumEVs \div paths \in Nat /\ NumEVs = paths * (NumEVs \div paths) + (NumEVs % paths)
  BY <1>1, QuotientParts
<1>3. NumEVs = paths * (NumEVs \div paths)
  BY <1>1, <1>2
<1>4. NumEVs \div paths # 0
  BY <1>1, <1>3
<1> QED
  BY <1>1, <1>2, <1>3, <1>4 DEF Planes

LEMMA EVAtIn ==
    ASSUME NEW paths \in PathCounts,
           NEW p \in 0..(Planes(paths) - 1), NEW s \in 0..(paths - 1)
    PROVE  EVAt(p, s, paths) \in EV
<1>1. /\ paths \in Nat \ {0} /\ Planes(paths) \in Nat \ {0}
      /\ NumEVs = paths * Planes(paths)
  BY GridShape
<1>2. p \in Nat /\ p < Planes(paths) /\ s \in Nat /\ s < paths
  BY <1>1
<1>3. paths * p + s < paths * Planes(paths)
  BY <1>1, <1>2, PlaceLess
<1>4. paths * p = p * paths /\ paths * p \in Nat
  BY <1>1, <1>2
<1>5. EVAt(p, s, paths) = paths * p + s + 1
  BY <1>4 DEF EVAt
<1> QED
  BY <1>1, <1>2, <1>3, <1>4, <1>5 DEF EV

LEMMA EVAtUnique ==
    ASSUME NEW paths \in PathCounts,
           NEW p \in 0..(Planes(paths) - 1), NEW s \in 0..(paths - 1),
           NEW q \in 0..(Planes(paths) - 1), NEW t \in 0..(paths - 1),
           EVAt(p, s, paths) = EVAt(q, t, paths)
    PROVE  p = q /\ s = t
<1>1. paths \in Nat \ {0} /\ Planes(paths) \in Nat \ {0}
  BY GridShape
<1>2. /\ p \in Nat /\ s \in Nat /\ s < paths
      /\ q \in Nat /\ t \in Nat /\ t < paths
  BY <1>1
<1>3. /\ paths * p = p * paths /\ paths * p \in Nat
      /\ paths * q = q * paths /\ paths * q \in Nat
  BY <1>1, <1>2
<1>4. paths * p + s = paths * q + t
  BY <1>2, <1>3 DEF EVAt
<1>5. /\ (paths * p + s) \div paths = p /\ (paths * p + s) % paths = s
      /\ (paths * q + t) \div paths = q /\ (paths * q + t) % paths = t
  BY <1>1, <1>2, QuotientUnique
<1> QED
  BY <1>4, <1>5

\* A drawn subset is a sequence of k different spines.
LEMMA SpinesShape ==
    ASSUME NEW paths \in PathCounts, NEW k \in SubsetSizes(paths),
           NEW spines \in SpinesDrawn(k, paths)
    PROVE  /\ k \in Nat \ {0}
           /\ Len(spines) = k /\ DOMAIN spines = 1..k
           /\ \A i \in 1..k : spines[i] \in 0..(paths - 1)
           /\ \A i, j \in 1..k : spines[i] = spines[j] => i = j
           /\ Planes(paths) * k \in Nat \ {0}
<1>1. paths \in Nat \ {0} /\ Planes(paths) \in Nat \ {0}
  BY GridShape
<1>2. k \in Nat \ {0}
  BY <1>1 DEF SubsetSizes
<1>3. spines \in [1..k -> 0..(paths - 1)] /\ IsInjective(spines)
  BY DEF SpinesDrawn
<1>4. Len(spines) = k
  <2>1. spines \in Seq(0..(paths - 1))
    BY <1>2, <1>3, SeqDef
  <2>2. Len(spines) \in Nat /\ 1..Len(spines) = 1..k
    BY <1>3, <2>1, LenProperties
  <2> QED
    BY <1>2, <2>2
<1>5. Planes(paths) * k \in Nat \ {0}
  BY <1>1, <1>2
<1> QED
  BY <1>2, <1>3, <1>4, <1>5 DEF IsInjective

\* The flat vector lists the EVs of the flow, each once.
LEMMA FlatIs ==
    ASSUME NEW paths \in PathCounts, NEW k \in SubsetSizes(paths),
           NEW spines \in SpinesDrawn(k, paths)
    PROVE  LET evs == FlatEVs(spines, paths)
               m   == Planes(paths) * k
           IN  /\ evs \in [1..m -> EV]
               /\ \A i, j \in 1..m : evs[i] = evs[j] => i = j
               /\ EVsOf(spines, paths) = {evs[i] : i \in 1..m}
<1> DEFINE m == Planes(paths) * k
           evs == FlatEVs(spines, paths)
<1>1. /\ k \in Nat \ {0} /\ Len(spines) = k /\ DOMAIN spines = 1..k
      /\ \A i \in 1..k : spines[i] \in 0..(paths - 1)
      /\ \A i, j \in 1..k : spines[i] = spines[j] => i = j
      /\ m \in Nat \ {0}
  BY SpinesShape
<1>2. Planes(paths) \in Nat \ {0}
  BY GridShape
<1>3. evs = [i \in 1..m |-> EVAt((i - 1) \div k, spines[((i - 1) % k) + 1], paths)]
  BY <1>1, Zenon DEF FlatEVs
<1>4. ASSUME NEW i \in 1..m
      PROVE  /\ i - 1 \in Nat
             /\ (i - 1) \div k \in 0..(Planes(paths) - 1)
             /\ ((i - 1) % k) + 1 \in 1..k /\ (i - 1) % k \in Nat
             /\ i - 1 = k * ((i - 1) \div k) + ((i - 1) % k)
  <2>1. i - 1 \in Nat /\ i - 1 < m
    BY <1>1
  <2>2. (i - 1) \div k < Planes(paths)
    BY <1>1, <1>2, <2>1, QuotientLess
  <2>3. /\ (i - 1) \div k \in Nat /\ (i - 1) % k \in 0..(k - 1)
        /\ i - 1 = k * ((i - 1) \div k) + ((i - 1) % k)
    BY <1>1, <2>1, QuotientParts
  <2>4. (i - 1) \div k \in 0..(Planes(paths) - 1)
    BY <1>2, <2>2, <2>3
  <2>5. ((i - 1) % k) + 1 \in 1..k
    BY <1>1, <2>3
  <2>6. (i - 1) % k \in Nat
    BY <1>1, <2>3
  <2> QED
    BY <2>1, <2>3, <2>4, <2>5, <2>6
<1> DEFINE Row(i) == (i - 1) \div k
           Rest(i) == (i - 1) % k
           Col(i) == Rest(i) + 1
<1>5. \A i \in 1..m : evs[i] = EVAt(Row(i), spines[Col(i)], paths)
  BY <1>3, Zenon
<1>6. \A i \in 1..m : /\ i - 1 \in Nat /\ Row(i) \in 0..(Planes(paths) - 1)
                      /\ Col(i) \in 1..k /\ Rest(i) \in Nat
                      /\ i - 1 = k * Row(i) + Rest(i) /\ Col(i) = Rest(i) + 1
  BY <1>4, Zenon
<1>7. ASSUME NEW p \in 0..(Planes(paths) - 1), NEW c \in 1..k
      PROVE  \E i \in 1..m : Row(i) = p /\ Col(i) = c
  <2> DEFINE i == k * p + (c - 1) + 1
  <2>1. /\ c - 1 \in Nat /\ c - 1 < k /\ p \in Nat /\ p < Planes(paths)
        /\ k \in Nat \ {0} /\ Planes(paths) \in Nat
    BY <1>1, <1>2
  <2>2. k * p + (c - 1) < k * Planes(paths) /\ k * p \in Nat
    <3>1. k * p + (c - 1) < k * Planes(paths)
      BY <2>1, PlaceLess
    <3>2. k * p \in Nat
      BY <2>1
    <3> QED
      BY <3>1, <3>2
  <2>3. k * Planes(paths) = m
    BY <1>1, <1>2
  <2>4. i \in 1..m /\ i - 1 = k * p + (c - 1)
    <3> DEFINE z == k * p
    <3>1. z \in Nat /\ z + (c - 1) < m /\ m \in Nat
      BY <1>1, <2>2, <2>3
    <3> HIDE DEF z, m
    <3>2. z + (c - 1) + 1 \in 1..m /\ (z + (c - 1) + 1) - 1 = z + (c - 1)
      BY <2>1, <3>1
    <3> QED
      BY <3>2 DEF z
  <2>5. (k * p + (c - 1)) \div k = p /\ (k * p + (c - 1)) % k = c - 1
    BY <2>1, QuotientUnique
  <2>6. Row(i) = p
    BY <2>4, <2>5
  <2>7. Col(i) = c
    BY <2>1, <2>4, <2>5
  <2> HIDE DEF i, Row, Col
  <2> QED
    BY <2>4, <2>6, <2>7
<1> HIDE DEF Row, Col, Rest, m, evs
<1>8. ASSUME NEW i \in 1..m PROVE evs[i] \in EV
  <2>1. Row(i) \in 0..(Planes(paths) - 1) /\ spines[Col(i)] \in 0..(paths - 1)
    BY <1>1, <1>6
  <2> QED
    BY <1>5, <2>1, EVAtIn
<1>9. DOMAIN evs = 1..m /\ evs \in [1..m -> EV]
  BY <1>3, <1>8
<1>10. ASSUME NEW i \in 1..m, NEW j \in 1..m, evs[i] = evs[j]
       PROVE  i = j
  <2>1. Row(i) = Row(j) /\ spines[Col(i)] = spines[Col(j)]
    <3>1. /\ Row(i) \in 0..(Planes(paths) - 1) /\ spines[Col(i)] \in 0..(paths - 1)
          /\ Row(j) \in 0..(Planes(paths) - 1) /\ spines[Col(j)] \in 0..(paths - 1)
      BY <1>1, <1>6
    <3>2. EVAt(Row(i), spines[Col(i)], paths) = EVAt(Row(j), spines[Col(j)], paths)
      BY <1>5, <1>10
    <3> QED
      BY <3>1, <3>2, EVAtUnique
  <2>2. Col(i) = Col(j)
    BY <1>1, <1>6, <2>1
  <2>3. Rest(i) = Rest(j)
    BY <1>6, <2>2
  <2>4. i - 1 = j - 1
    BY <1>6, <2>1, <2>3
  <2> QED
    BY <2>4
<1>11. EVsOf(spines, paths) = {evs[i] : i \in 1..m}
  <2>1. ASSUME NEW p \in 0..(Planes(paths) - 1), NEW c \in 1..k
        PROVE  EVAt(p, spines[c], paths) \in {evs[i] : i \in 1..m}
    BY <1>5, <1>7
  <2>2. ASSUME NEW i \in 1..m PROVE evs[i] \in EVsOf(spines, paths)
    <3>1. Row(i) \in 0..(Planes(paths) - 1) /\ Col(i) \in DOMAIN spines
      BY <1>1, <1>6
    <3>2. EVAt(Row(i), spines[Col(i)], paths) \in EVsOf(spines, paths)
      BY <3>1 DEF EVsOf
    <3> QED
      BY <1>5, <3>2
  <2>3. ASSUME NEW e \in EVsOf(spines, paths) PROVE e \in {evs[i] : i \in 1..m}
    <3>1. PICK p \in 0..(Planes(paths) - 1), c \in DOMAIN spines :
            e = EVAt(p, spines[c], paths)
      BY DEF EVsOf
    <3> QED
      BY <1>1, <2>1, <3>1
  <2>4. \A e \in {evs[i] : i \in 1..m} : e \in EVsOf(spines, paths)
    BY <2>2
  <2> QED
    BY <2>3, <2>4, Zenon
<1> QED
  BY <1>9, <1>10, <1>11 DEF evs, m

LEMMA EVsOfShape ==
    ASSUME NEW paths \in PathCounts, NEW k \in SubsetSizes(paths),
           NEW spines \in SpinesDrawn(k, paths)
    PROVE  /\ EVsOf(spines, paths) \subseteq EV
           /\ IsFiniteSet(EVsOf(spines, paths))
           /\ Cardinality(EVsOf(spines, paths)) = Planes(paths) * k
<1> DEFINE m == Planes(paths) * k
           evs == FlatEVs(spines, paths)
           mine == EVsOf(spines, paths)
<1>1. /\ evs \in [1..m -> EV]
      /\ \A i, j \in 1..m : evs[i] = evs[j] => i = j
      /\ mine = {evs[i] : i \in 1..m}
  BY FlatIs
<1>2. m \in Nat \ {0}
  BY SpinesShape
<1> HIDE DEF m, evs, mine
<1>3. mine \subseteq EV
  BY <1>1
<1>4. evs \in Bijection(1..m, mine)
  BY <1>1 DEF Bijection, Injection, Surjection, IsInjective
<1>5. IsFiniteSet(1..m) /\ Cardinality(1..m) = m
  BY <1>2, FS_Interval
<1>6. IsFiniteSet(mine) /\ Cardinality(mine) = m
  BY <1>4, <1>5, FS_Bijection DEF ExistsBijection
<1> QED
  BY <1>3, <1>6 DEF m, mine

-----------------------------------------------------------------------------
(***************************************************************************)
(* The weighted draw: the cumulative weights cut the draws into one        *)
(* stretch for each EV, as long as its weight                              *)
(***************************************************************************)
\* What the first n places sum up to: one more than the places before have, and
\* as much as the EVs there.
Along(flat, grid, evs, n) ==
    /\ SumFunctionOnSet(flat, 1..n) \in Nat
    /\ n > 0 => SumFunctionOnSet(flat, 1..n) = flat[n] + SumFunctionOnSet(flat, 1..(n - 1))
    /\ SumFunctionOnSet(flat, 1..n) = SumFunctionOnSet(grid, {evs[i] : i \in 1..n})

LEMMA SumAlong ==
    ASSUME NEW m \in Nat, NEW D, NEW evs \in [1..m -> D],
           \A i, j \in 1..m : evs[i] = evs[j] => i = j,
           NEW grid, \A e \in D : grid[e] \in Nat,
           NEW flat, \A i \in 1..m : flat[i] = grid[evs[i]]
    PROVE  \A n \in 0..m : Along(flat, grid, evs, n)
<1> DEFINE F(n) == SumFunctionOnSet(flat, 1..n)
           At(n) == {evs[i] : i \in 1..n}
           G(n) == SumFunctionOnSet(grid, At(n))
           Off == {n \in Nat : n <= m /\ F(n) # G(n)}
<1>1. IsFiniteSet(1..m)
  BY FS_Interval
<1>2. ASSUME NEW n \in 0..m
      PROVE  F(n) \in Nat /\ (n > 0 => F(n) = flat[n] + F(n - 1))
  <2>1. \A i \in 1..m : flat[i] \in Nat
    OBVIOUS
  <2>2. /\ 1..n \in SUBSET (1..m)
        /\ n > 0 => n \in 1..n /\ (1..n) \ {n} = 1..(n - 1)
    OBVIOUS
  <2>3. /\ F(n) \in Nat
        /\ \A x \in 1..n : F(n) = flat[x] + SumFunctionOnSet(flat, (1..n) \ {x})
    <3>1. \A S \in SUBSET (1..m) :
            /\ SumFunctionOnSet(flat, S) \in Nat
            /\ \A x \in S : SumFunctionOnSet(flat, S) = flat[x] + SumFunctionOnSet(flat, S \ {x})
      <4> DEFINE I == 1..m
      <4>1. IsFiniteSet(I) /\ \A x \in I : flat[x] \in Nat
        BY <1>1, <2>1
      <4> HIDE DEF I
      <4>2. \A S \in SUBSET I :
            /\ SumFunctionOnSet(flat, S) \in Nat
            /\ \A x \in S : SumFunctionOnSet(flat, S) = flat[x] + SumFunctionOnSet(flat, S \ {x})
        BY <4>1, SumOne
      <4> QED
        BY <4>2 DEF I
    <3> QED
      BY <2>2, <3>1, Zenon
  <2> QED
    BY <2>2, <2>3
<1>3. ASSUME NEW n \in 1..m
      PROVE  G(n) = flat[n] + G(n - 1)
  <2>1. IsFiniteSet(At(n))
    <3>1. IsFiniteSet(1..n)
      BY FS_Interval
    <3>2. [i \in 1..n |-> evs[i]] \in Surjection(1..n, At(n))
      BY DEF Surjection
    <3> QED
      BY <3>1, <3>2, FS_Surjection
  <2>2. evs[n] \in At(n) /\ At(n) \ {evs[n]} = At(n - 1)
    OBVIOUS
  <2>3. \A e \in At(n) : grid[e] \in Nat
    OBVIOUS
  <2>4. At(n) \in SUBSET At(n)
    OBVIOUS
  <2> HIDE DEF At
  <2>5. G(n) = grid[evs[n]] + SumFunctionOnSet(grid, At(n) \ {evs[n]})
    <3>1. \A R \in SUBSET At(n) : \A x \in R :
            SumFunctionOnSet(grid, R) = grid[x] + SumFunctionOnSet(grid, R \ {x})
      <4> DEFINE A == At(n)
      <4>1. IsFiniteSet(A) /\ \A x \in A : grid[x] \in Nat
        BY <2>1, <2>3
      <4> HIDE DEF A
      <4>2. \A R \in SUBSET A :
            /\ SumFunctionOnSet(grid, R) \in Nat
            /\ \A x \in R : SumFunctionOnSet(grid, R) = grid[x] + SumFunctionOnSet(grid, R \ {x})
        BY <4>1, SumOne
      <4> QED
        BY <4>2 DEF A
    <3> QED
      BY <2>2, <2>4, <3>1, Zenon
  <2> QED
    BY <2>2, <2>5
<1>4. F(0) = 0 /\ G(0) = 0
  <2>1. 1..0 = {} /\ At(0) = {}
    OBVIOUS
  <2>2. IsFiniteSet({})
    BY FS_EmptySet
  <2> HIDE DEF At
  <2> QED
    BY <2>1, <2>2, SumPicks
<1> HIDE DEF F, G
<1>5. Off = {}
  <2>1. SUFFICES ASSUME Off # {} PROVE FALSE
    OBVIOUS
  <2>2. PICK n \in Off : \A l \in Nat : l < n => l \notin Off
    BY <2>1, Least
  <2>3. n \in 1..m /\ n - 1 \in Nat /\ n - 1 < n /\ n - 1 <= m
    BY <1>4, <2>2
  <2>4. F(n - 1) = G(n - 1)
    BY <2>2, <2>3
  <2>5. F(n) = flat[n] + F(n - 1) /\ G(n) = flat[n] + G(n - 1)
    BY <1>2, <1>3, <2>3
  <2> QED
    BY <2>2, <2>4, <2>5
<1>6. \A n \in 0..m : F(n) = G(n)
  BY <1>5
<1> QED
  BY <1>2, <1>6 DEF F, G, Along

\* The draws up to the last threshold fall on one place each: place i has those
\* from the threshold before it up to its own.
LEMMA PickIs ==
    ASSUME NEW m \in Nat \ {0}, NEW cdf, DOMAIN cdf = 1..m,
           \A i \in 1..m : cdf[i] \in Nat,
           \A i, j \in 1..m : i <= j => cdf[i] <= cdf[j]
    PROVE  /\ \A u \in 0..(cdf[m] - 1) : WeightedPick(u, cdf) \in 1..m
           /\ \A i \in 1..m :
                {u \in 0..(cdf[m] - 1) : WeightedPick(u, cdf) = i}
                   = (IF i = 1 THEN 0 ELSE cdf[i - 1])..(cdf[i] - 1)
<1> DEFINE Hit(u, i) == u < cdf[i] /\ \A j \in 1..(i - 1) : u >= cdf[j]
<1>1. ASSUME NEW u \in 0..(cdf[m] - 1)
      PROVE  WeightedPick(u, cdf) \in 1..m /\ Hit(u, WeightedPick(u, cdf))
  <2> DEFINE Above == {i \in Nat : i \in 1..m /\ u < cdf[i]}
  <2>1. m \in Above
    OBVIOUS
  <2>2. PICK i \in Above : \A l \in Nat : l < i => l \notin Above
    BY <2>1, Least
  <2>3. i \in DOMAIN cdf /\ Hit(u, i)
    <3>1. ASSUME NEW j \in 1..(i - 1) PROVE u >= cdf[j]
      <4>1. j \in Nat /\ j < i /\ j \in 1..m
        BY <2>2
      <4> QED
        BY <2>2, <4>1
    <3> QED
      BY <2>2, <3>1
  <2>4. WeightedPick(u, cdf) \in DOMAIN cdf /\ Hit(u, WeightedPick(u, cdf))
    BY <2>3, Zenon DEF WeightedPick
  <2> QED
    BY <2>4
<1>2. ASSUME NEW u \in Int, NEW i \in 1..m, NEW j \in 1..m, Hit(u, i), Hit(u, j)
      PROVE  i = j
  <2>1. CASE i < j
    <3>1. i \in 1..(j - 1)
      BY <2>1
    <3> QED
      BY <1>2, <3>1
  <2>2. CASE j < i
    <3>1. j \in 1..(i - 1)
      BY <2>2
    <3> QED
      BY <1>2, <3>1
  <2> QED
    BY <2>1, <2>2
<1>3. ASSUME NEW i \in 1..m
      PROVE  {u \in 0..(cdf[m] - 1) : WeightedPick(u, cdf) = i}
                = (IF i = 1 THEN 0 ELSE cdf[i - 1])..(cdf[i] - 1)
  <2> DEFINE from == IF i = 1 THEN 0 ELSE cdf[i - 1]
  <2>0. from \in Nat /\ cdf[i] \in Nat /\ cdf[i] <= cdf[m] /\ cdf[m] \in Nat
    <3>1. i # 1 => i - 1 \in 1..m
      OBVIOUS
    <3> QED
      BY <3>1
  <2>1. ASSUME NEW u \in 0..(cdf[m] - 1), WeightedPick(u, cdf) = i
        PROVE  u \in from..(cdf[i] - 1)
    <3>1. Hit(u, i)
      BY <1>1, <2>1
    <3>2. i # 1 => i - 1 \in 1..(i - 1)
      OBVIOUS
    <3>3. from <= u
      BY <3>1, <3>2
    <3> QED
      BY <2>0, <3>1, <3>3
  <2>2. ASSUME NEW u \in from..(cdf[i] - 1)
        PROVE  u \in 0..(cdf[m] - 1) /\ WeightedPick(u, cdf) = i
    <3>1. u \in Nat /\ from <= u /\ u < cdf[i] /\ u \in 0..(cdf[m] - 1)
      BY <2>0
    <3>2. Hit(u, i)
      <4>1. ASSUME NEW j \in 1..(i - 1) PROVE u >= cdf[j]
        <5>1. i - 1 \in 1..m /\ j \in 1..m /\ j <= i - 1 /\ i # 1
          OBVIOUS
        <5>2. cdf[j] <= cdf[i - 1] /\ cdf[j] \in Nat /\ cdf[i - 1] \in Nat
          BY <5>1
        <5> QED
          BY <3>1, <5>1, <5>2
      <4> QED
        BY <3>1, <4>1
    <3>3. WeightedPick(u, cdf) \in 1..m /\ Hit(u, WeightedPick(u, cdf))
      BY <1>1, <3>1
    <3> HIDE DEF Hit
    <3>4. u \in Int
      BY <3>1
    <3> QED
      BY <1>2, <3>1, <3>2, <3>3, <3>4, Zenon
  <2> QED
    BY <2>1, <2>2
<1> QED
  BY <1>1, <1>3

\* What the cumulative weights of a flow's m EVs are.
Cumulates(cdf, m, spines, paths, grid) ==
    /\ DOMAIN cdf = 1..m /\ Len(cdf) = m
    /\ \A i \in 1..m : cdf[i] \in Nat
    /\ \A i, j \in 1..m : i <= j => cdf[i] <= cdf[j]
    /\ cdf[m] = WeightIn(EVsOf(spines, paths), grid)
    /\ \A i \in 1..m : cdf[i] = grid[FlatEVs(spines, paths)[i]]
                                  + (IF i = 1 THEN 0 ELSE cdf[i - 1])

LEMMA CdfShape ==
    ASSUME NEW paths \in PathCounts, NEW k \in SubsetSizes(paths),
           NEW spines \in SpinesDrawn(k, paths),
           NEW grid, \A e \in EV : grid[e] \in Nat,
           NEW flat, flat = [i \in DOMAIN FlatEVs(spines, paths) |->
                                grid[FlatEVs(spines, paths)[i]]],
           NEW cdf, cdf = Cdf(flat),
           NEW m, m = Planes(paths) * k
    PROVE  Cumulates(cdf, m, spines, paths, grid)
<1> DEFINE evs == FlatEVs(spines, paths)
           mine == EVsOf(spines, paths)
<1>1. /\ evs \in [1..m -> EV]
      /\ \A i, j \in 1..m : evs[i] = evs[j] => i = j
      /\ mine = {evs[i] : i \in 1..m}
  BY FlatIs
<1>2. m \in Nat \ {0}
  BY SpinesShape
<1> HIDE DEF evs, mine
<1>3. flat = [i \in 1..m |-> grid[evs[i]]]
  BY <1>1 DEF evs
<1>4. \A i \in 1..m : flat[i] = grid[evs[i]] /\ flat[i] \in Nat
  BY <1>1, <1>3
<1>5. cdf = [i \in 1..m |-> SumFunctionOnSet(flat, 1..i)]
  BY <1>3 DEF Cdf
<1>6. \A n \in 0..m : Along(flat, grid, evs, n)
  <2>1. m \in Nat /\ \A i \in 1..m : flat[i] = grid[evs[i]]
    BY <1>2, <1>4
  <2> QED
    BY <1>1, <2>1, SumAlong
<1>7. SumFunctionOnSet(flat, 1..0) = 0
  <2>1. 1..0 = {} /\ IsFiniteSet({})
    BY FS_EmptySet
  <2> QED
    BY <2>1, SumPicks
<1>8. \A i \in 1..m : cdf[i] \in Nat
  <2> SUFFICES ASSUME NEW i \in 1..m PROVE cdf[i] \in Nat
    OBVIOUS
  <2>1. i \in 0..m
    BY <1>2
  <2> QED
    BY <1>5, <1>6, <2>1 DEF Along
<1>9. DOMAIN cdf = 1..m /\ Len(cdf) = m
  <2>1. cdf \in [1..m -> Nat]
    BY <1>5, <1>8
  <2>2. cdf \in Seq(Nat)
    BY <1>2, <2>1, SeqDef
  <2>3. Len(cdf) \in Nat /\ 1..Len(cdf) = 1..m
    BY <2>1, <2>2, LenProperties
  <2> QED
    BY <1>2, <2>1, <2>3
<1>10. cdf[m] = WeightIn(mine, grid)
  <2>1. m \in 0..m /\ m \in 1..m
    BY <1>2
  <2>2. cdf[m] = SumFunctionOnSet(flat, 1..m)
    BY <1>5, <2>1
  <2>3. SumFunctionOnSet(flat, 1..m) = SumFunctionOnSet(grid, {evs[i] : i \in 1..m})
    BY <1>6, <2>1 DEF Along
  <2> QED
    BY <1>1, <2>2, <2>3 DEF WeightIn
<1>11. ASSUME NEW i \in 1..m
       PROVE  cdf[i] = grid[evs[i]] + (IF i = 1 THEN 0 ELSE cdf[i - 1])
  <2>1. i \in 0..m /\ i > 0 /\ i \in Nat
    BY <1>2
  <2>2. SumFunctionOnSet(flat, 1..i) = flat[i] + SumFunctionOnSet(flat, 1..(i - 1))
    BY <1>6, <2>1 DEF Along
  <2>3. CASE i = 1
    <3>1. i - 1 = 0
      BY <2>3
    <3> QED
      BY <1>4, <1>5, <1>7, <2>2, <2>3, <3>1
  <2>4. CASE i # 1
    <3>1. i - 1 \in 1..m
      BY <2>1, <2>4
    <3> QED
      BY <1>4, <1>5, <2>2, <2>4, <3>1
  <2> QED
    BY <2>3, <2>4
<1>12. \A i, j \in 1..m : i <= j => cdf[i] <= cdf[j]
  <2> DEFINE Drop == {j \in Nat : j \in 1..m /\ \E i \in 1..m : i <= j /\ ~(cdf[i] <= cdf[j])}
  <2>1. Drop = {}
    <3>1. SUFFICES ASSUME Drop # {} PROVE FALSE
      OBVIOUS
    <3>2. PICK j \in Drop : \A l \in Nat : l < j => l \notin Drop
      BY <3>1, Least
    <3>3. PICK i \in 1..m : i <= j /\ ~(cdf[i] <= cdf[j])
      BY <3>2
    <3>4. i # j
      BY <1>8, <3>3
    <3>5. j \in 1..m /\ j - 1 \in 1..m /\ i <= j - 1 /\ j # 1
      BY <1>2, <3>2, <3>3, <3>4
    <3>6. cdf[i] <= cdf[j - 1]
      BY <3>2, <3>5
    <3>7. cdf[j] = grid[evs[j]] + cdf[j - 1] /\ grid[evs[j]] \in Nat
      BY <1>4, <1>11, <3>5
    <3> QED
      BY <1>8, <3>3, <3>5, <3>6, <3>7
  <2> QED
    BY <2>1
<1> QED
  BY <1>8, <1>9, <1>10, <1>11, <1>12 DEF evs, mine, Cumulates

\* Each EV of a flow that has weight is drawn as often as it has weight.
LEMMA DrawnByWeight ==
    ASSUME NEW paths \in PathCounts, NEW k \in SubsetSizes(paths),
           NEW spines \in SpinesDrawn(k, paths),
           NEW grid, \A e \in EV : grid[e] \in Nat,
           NEW total, total = WeightIn(EVsOf(spines, paths), grid),
           total > 0, NEW e \in EV
    PROVE  Cardinality({u \in 0..(total - 1) : WeightedEV(0, u, spines, paths, grid) = e})
             = IF e \in EVsOf(spines, paths) THEN grid[e] ELSE 0
<1> DEFINE m == Planes(paths) * k
           evs == FlatEVs(spines, paths)
           mine == EVsOf(spines, paths)
           flat == [i \in DOMAIN evs |-> grid[evs[i]]]
           cdf == Cdf(flat)
           Drawn == {u \in 0..(total - 1) : WeightedEV(0, u, spines, paths, grid) = e}
<1>1. /\ evs \in [1..m -> EV]
      /\ \A i, j \in 1..m : evs[i] = evs[j] => i = j
      /\ mine = {evs[i] : i \in 1..m}
  BY FlatIs
<1>2. m \in Nat \ {0}
  BY SpinesShape
<1>3. /\ DOMAIN cdf = 1..m /\ Len(cdf) = m
      /\ \A i \in 1..m : cdf[i] \in Nat
      /\ \A i, j \in 1..m : i <= j => cdf[i] <= cdf[j]
      /\ cdf[m] = total
      /\ \A i \in 1..m : cdf[i] = grid[evs[i]] + (IF i = 1 THEN 0 ELSE cdf[i - 1])
  <2>1. /\ flat = [i \in DOMAIN FlatEVs(spines, paths) |-> grid[FlatEVs(spines, paths)[i]]]
        /\ cdf = Cdf(flat) /\ m = Planes(paths) * k
    OBVIOUS
  <2> HIDE DEF flat, cdf, m
  <2>2. Cumulates(cdf, m, spines, paths, grid)
    BY <2>1, CdfShape
  <2> QED
    BY <2>2, Zenon DEF Cumulates
<1>4. \A u : WeightedEV(0, u, spines, paths, grid) = evs[WeightedPick(u, cdf)]
  <2>1. \A u : WeightedEV(0, u, spines, paths, grid) =
                 IF cdf[Len(cdf)] = 0 THEN evs[(0 % Len(evs)) + 1]
                 ELSE evs[WeightedPick(u, cdf)]
    BY Zenon DEF WeightedEV
  <2> HIDE DEF evs, cdf, flat
  <2>2. cdf[Len(cdf)] # 0
    BY <1>2, <1>3
  <2> QED
    BY <2>1, <2>2, Zenon
<1> HIDE DEF m, evs, mine, flat, cdf
<1>5. /\ \A u \in 0..(total - 1) : WeightedPick(u, cdf) \in 1..m
      /\ \A i \in 1..m :
           {u \in 0..(total - 1) : WeightedPick(u, cdf) = i}
              = (IF i = 1 THEN 0 ELSE cdf[i - 1])..(cdf[i] - 1)
  <2>1. /\ \A u \in 0..(cdf[m] - 1) : WeightedPick(u, cdf) \in 1..m
        /\ \A i \in 1..m :
             {u \in 0..(cdf[m] - 1) : WeightedPick(u, cdf) = i}
                = (IF i = 1 THEN 0 ELSE cdf[i - 1])..(cdf[i] - 1)
    <3>1. /\ m \in Nat \ {0} /\ DOMAIN cdf = 1..m
          /\ \A i \in 1..m : cdf[i] \in Nat
          /\ \A i, j \in 1..m : i <= j => cdf[i] <= cdf[j]
      BY <1>2, <1>3, Zenon
    <3> QED
      BY <3>1, PickIs
  <2> QED
    BY <1>3, <2>1, Zenon
<1>6. CASE e \in mine
  <2>1. PICK i \in 1..m : evs[i] = e
    BY <1>1, <1>6
  <2> DEFINE from == IF i = 1 THEN 0 ELSE cdf[i - 1]
  <2>2. Drawn = {u \in 0..(total - 1) : WeightedPick(u, cdf) = i}
    BY <1>1, <1>4, <1>5, <2>1
  <2>3. Drawn = from..(cdf[i] - 1)
    BY <1>5, <2>2
  <2>4. from \in Nat /\ cdf[i] \in Nat /\ cdf[i] = grid[e] + from /\ grid[e] \in Nat
    <3>1. i # 1 => i - 1 \in 1..m
      BY <1>2
    <3> QED
      BY <1>3, <2>1, <3>1
  <2> HIDE DEF from, Drawn
  <2>5. Cardinality(Drawn) = IF from > cdf[i] - 1 THEN 0 ELSE (cdf[i] - 1) - from + 1
    <3>1. from \in Int /\ cdf[i] - 1 \in Int
      BY <2>4
    <3> QED
      BY <2>3, <3>1, FS_Interval
  <2>6. Cardinality(Drawn) = grid[e]
    BY <2>4, <2>5
  <2> QED
    BY <1>6, <2>6 DEF Drawn, mine
<1>7. CASE e \notin mine
  <2>1. Drawn = {}
    BY <1>1, <1>4, <1>5, <1>7
  <2> QED
    BY <1>7, <2>1, FS_EmptySet DEF mine
<1> QED
  BY <1>6, <1>7

\* With no weight in its part of the grid, a flow goes on over all of its EVs.
LEMMA EvenWithoutWeight ==
    ASSUME NEW paths \in PathCounts, NEW k \in SubsetSizes(paths),
           NEW spines \in SpinesDrawn(k, paths),
           NEW grid, \A e \in EV : grid[e] \in Nat,
           WeightIn(EVsOf(spines, paths), grid) = 0,
           NEW n, n = Cardinality(EVsOf(spines, paths))
    PROVE  {WeightedEV(q, 0, spines, paths, grid) : q \in 0..(n - 1)}
             = EVsOf(spines, paths)
<1> DEFINE m == Planes(paths) * k
           evs == FlatEVs(spines, paths)
           mine == EVsOf(spines, paths)
           flat == [i \in DOMAIN evs |-> grid[evs[i]]]
           cdf == Cdf(flat)
<1>1. /\ evs \in [1..m -> EV]
      /\ mine = {evs[i] : i \in 1..m}
  BY FlatIs
<1>2. m \in Nat \ {0} /\ n = m
  BY SpinesShape, EVsOfShape
<1>3. Len(cdf) = m /\ cdf[m] = 0
  <2>1. /\ flat = [i \in DOMAIN FlatEVs(spines, paths) |-> grid[FlatEVs(spines, paths)[i]]]
        /\ cdf = Cdf(flat) /\ m = Planes(paths) * k
    OBVIOUS
  <2> HIDE DEF flat, cdf, m
  <2>2. Cumulates(cdf, m, spines, paths, grid)
    BY <2>1, CdfShape
  <2> QED
    BY <2>2, Zenon DEF Cumulates
<1>4. Len(evs) = m
  <2> HIDE DEF m, evs
  <2>1. evs \in Seq(EV)
    BY <1>1, <1>2, SeqDef
  <2>2. Len(evs) \in Nat /\ 1..Len(evs) = 1..m
    BY <1>1, <2>1, LenProperties
  <2> QED
    BY <1>2, <2>2
<1>5. \A q : WeightedEV(q, 0, spines, paths, grid) = evs[(q % m) + 1]
  <2>1. \A q : WeightedEV(q, 0, spines, paths, grid) =
                 IF cdf[Len(cdf)] = 0 THEN evs[(q % Len(evs)) + 1]
                 ELSE evs[WeightedPick(0, cdf)]
    BY Zenon DEF WeightedEV
  <2> HIDE DEF evs, cdf, flat, m
  <2> QED
    BY <1>3, <1>4, <2>1
<1> HIDE DEF m, evs, mine, flat, cdf
<1>6. \A q \in 0..(n - 1) : WeightedEV(q, 0, spines, paths, grid) = evs[q + 1]
  <2> SUFFICES ASSUME NEW q \in 0..(n - 1)
               PROVE  WeightedEV(q, 0, spines, paths, grid) = evs[q + 1]
    OBVIOUS
  <2>1. q \in Nat /\ q < m
    BY <1>2
  <2>2. q % m = q
    BY <1>2, <2>1
  <2> QED
    BY <1>5, <2>2
<1>7. ASSUME NEW q \in 0..(n - 1)
      PROVE  WeightedEV(q, 0, spines, paths, grid) \in mine
  <2>1. q + 1 \in 1..m
    BY <1>2
  <2> QED
    BY <1>1, <1>6, <2>1
<1>8. ASSUME NEW i \in 1..m
      PROVE  evs[i] \in {WeightedEV(q, 0, spines, paths, grid) : q \in 0..(n - 1)}
  <2>1. i - 1 \in 0..(n - 1) /\ (i - 1) + 1 = i
    BY <1>2
  <2>2. WeightedEV(i - 1, 0, spines, paths, grid) = evs[i]
    BY <1>6, <2>1 DEF Along
  <2> QED
    BY <2>1, <2>2
<1>9. {WeightedEV(q, 0, spines, paths, grid) : q \in 0..(n - 1)} = mine
  BY <1>1, <1>7, <1>8
<1> QED
  BY <1>9 DEF mine

\* Under round robin any run of as many packets as the flow has EVs meets each.
LEMMA RoundRobinCovers ==
    ASSUME NEW paths \in PathCounts, NEW k \in SubsetSizes(paths),
           NEW spines \in SpinesDrawn(k, paths),
           NEW n, n = Cardinality(EVsOf(spines, paths)),
           NEW from \in 0..(n - 1)
    PROVE  {RoundRobinPick(q, spines, paths) : q \in from..(from + n - 1)}
             = EVsOf(spines, paths)
<1> DEFINE P == Planes(paths)
           mine == EVsOf(spines, paths)
<1>1. /\ k \in Nat \ {0} /\ Len(spines) = k /\ DOMAIN spines = 1..k
      /\ P \in Nat \ {0}
      /\ P * k \in Nat \ {0} /\ n = P * k
  BY SpinesShape, EVsOfShape, GridShape
<1>2. \A q : RoundRobinPick(q, spines, paths) =
               EVAt((q % n) % P, spines[(((q % n) \div P) % k) + 1], paths)
  BY <1>1, Zenon DEF RoundRobinPick
<1>3. mine = {EVAt(p, spines[c], paths) : p \in 0..(P - 1), c \in 1..k}
  BY <1>1 DEF EVsOf
<1> HIDE DEF P, mine
<1>4. ASSUME NEW q \in Nat
      PROVE  RoundRobinPick(q, spines, paths) \in mine
  <2>1. q % n \in Nat /\ q % n < P * k
    BY <1>1
  <2>2. (q % n) % P \in 0..(P - 1) /\ (q % n) \div P \in Nat
    BY <1>1, <2>1, QuotientParts
  <2>3. (((q % n) \div P) % k) + 1 \in 1..k
    BY <1>1, <2>2
  <2> QED
    BY <1>2, <1>3, <2>2, <2>3
<1>5. ASSUME NEW p \in 0..(P - 1), NEW c \in 1..k
      PROVE  EVAt(p, spines[c], paths)
               \in {RoundRobinPick(q, spines, paths) : q \in from..(from + n - 1)}
  <2> DEFINE r == P * (c - 1) + p
             q == IF r >= from THEN r ELSE n + r
  <2>1. p \in Nat /\ p < P /\ c - 1 \in Nat /\ c - 1 < k
    BY <1>1
  <2>2. r \in Nat /\ r < n
    <3>1. P * (c - 1) \in Nat
      BY <1>1, <2>1
    <3>2. P * (c - 1) + p < P * k
      BY <1>1, <2>1, PlaceLess
    <3> QED
      BY <1>1, <2>1, <3>1, <3>2
  <2>3. r \div P = c - 1 /\ r % P = p
    BY <1>1, <2>1, QuotientUnique
  <2> HIDE DEF r
  <2>4. q \in from..(from + n - 1) /\ (q = r \/ q = n * 1 + r)
    BY <1>1, <2>2
  <2>5. r % n = r /\ (n * 1 + r) % n = r
    <3>1. n \in Nat \ {0} /\ 1 \in Nat /\ 0 \in Nat
      BY <1>1
    <3>2. (n * 1 + r) % n = r /\ (n * 0 + r) % n = r
      BY <2>2, <3>1, QuotientUnique
    <3>3. n * 0 + r = r
      BY <2>2, <3>1
    <3> QED
      BY <3>2, <3>3
  <2> HIDE DEF q
  <2>6. q % n = r
    BY <2>4, <2>5
  <2>7. ((c - 1) % k) + 1 = c
    <3>1. (c - 1) % k = c - 1
      BY <1>1, <2>1
    <3> QED
      BY <1>1, <3>1
  <2>8. RoundRobinPick(q, spines, paths) = EVAt(p, spines[c], paths)
    BY <1>2, <2>3, <2>6, <2>7
  <2> QED
    BY <2>4, <2>8
<1>6. \A q \in from..(from + n - 1) : q \in Nat
  BY <1>1
<1>7. \A q \in from..(from + n - 1) : RoundRobinPick(q, spines, paths) \in mine
  BY <1>4, <1>6
<1>8. \A e \in mine : e \in {RoundRobinPick(q, spines, paths) : q \in from..(from + n - 1)}
  BY <1>3, <1>5
<1>9. {RoundRobinPick(q, spines, paths) : q \in from..(from + n - 1)} = mine
  BY <1>7, <1>8, Zenon
<1> QED
  BY <1>9 DEF mine

LEMMA SharesAreRight ==
    ASSUME NEW paths \in PathCounts, NEW k \in SubsetSizes(paths),
           NEW spines \in SpinesDrawn(k, paths),
           NEW grid, \A e \in EV : grid[e] \in Nat
    PROVE  SharesRight(spines, paths, grid)
<1> DEFINE mine == EVsOf(spines, paths)
           total == WeightIn(mine, grid)
           n == Cardinality(mine)
<1>1. total \in Nat
  <2>1. IsFiniteSet(mine) /\ mine \subseteq EV
    BY EVsOfShape
  <2> HIDE DEF mine
  <2>2. mine \in SUBSET mine /\ \A e \in mine : grid[e] \in Nat
    BY <2>1
  <2>3. SumFunctionOnSet(grid, mine) \in Nat
    BY <2>1, <2>2, SumOne
  <2> QED
    BY <2>3 DEF WeightIn
<1>2. ASSUME total > 0, NEW e \in EV
      PROVE  Cardinality({u \in 0..(total - 1) : WeightedEV(0, u, spines, paths, grid) = e})
               = IF e \in mine THEN grid[e] ELSE 0
  BY <1>2, DrawnByWeight
<1>3. ASSUME ~(total > 0)
      PROVE  {WeightedEV(q, 0, spines, paths, grid) : q \in 0..(n - 1)} = mine
  <2>1. total = 0
    BY <1>1, <1>3
  <2> QED
    BY <2>1, EvenWithoutWeight
<1>4. \A from \in 0..(n - 1) :
        {RoundRobinPick(q, spines, paths) : q \in from..(from + n - 1)} = mine
  BY RoundRobinCovers
<1> QED
  BY <1>2, <1>3, <1>4, Zenon DEF SharesRight

\* A flow has weight in its part of the grid just when it has an EV in service.
LEMMA WeightMeansUsable ==
    ASSUME SafetyInv, changed = 0,
           NEW paths \in PathCounts, NEW k \in SubsetSizes(paths),
           NEW spines \in SpinesDrawn(k, paths)
    PROVE  WeightIn(EVsOf(spines, paths), weights) > 0
             <=> EVsOf(spines, paths) \cap Usable # {}
<1> DEFINE mine == EVsOf(spines, paths)
<1>1. mine \subseteq EV /\ IsFiniteSet(mine)
  BY EVsOfShape
<1>2. \A e \in EV : weights[e] \in Nat /\ (weights[e] = 0 <=> state[e] = "ASSUMED_BAD")
  <2>1. weights \in [EV -> 0..2]
    BY DEF SafetyInv, TypeOK
  <2> QED
    BY <2>1, ServedAreUsable
<1> HIDE DEF mine
<1>3. \A e \in mine : weights[e] \in Nat
  BY <1>1, <1>2
<1>4. WeightIn(mine, weights) > 0 <=> \E e \in mine : weights[e] # 0
  <2> DEFINE w == weights
  <2>1. \A e \in mine : w[e] \in Nat
    BY <1>3
  <2> HIDE DEF w
  <2>2. SumFunctionOnSet(w, mine) > 0 <=> \E e \in mine : w[e] # 0
    BY <1>1, <2>1, SumPositive
  <2> QED
    BY <2>2 DEF w, WeightIn
<1>5. (\E e \in mine : weights[e] # 0) <=> mine \cap Usable # {}
  BY <1>1, <1>2 DEF Usable
<1> QED
  BY <1>4, <1>5 DEF mine

\* The weights move at the end of a transition and at no other time.
LEMMA WeightsMoveAtEnd ==
  ASSUME Next
  PROVE  weights' = weights \/ changed' = 0
<1>1. ASSUME NEW e \in EV, TickEV(e) PROVE weights' = weights
  BY <1>1 DEF TickEV, Evaluate, Demote, Promote, SetHealthy
<1>2. ASSUME NEW e \in EV, NEW r \in LossReports, RecordLossWindow(e, r[1], r[2])
      PROVE  weights' = weights
  BY <1>2 DEF RecordLossWindow, Demote
<1> QED
  BY <1>1, <1>2 DEF Next, RecordProbeSent, RecordProbeRecv, TickBegin, RebuildWeights

\* Every change of the cached weights reaches every flow at once and in the
\* right measure: whatever spines the flow drew, on whatever grid, each of its EVs
\* gets as many draws as it has weight and an EV that is out gets none, unless all
\* of the flow's EVs are out, when each gets the same (HealthAwareMrc.pick_ev).
THEOREM SprayFollowsWeights == Spec => SprayFollowsHealth
<1> DEFINE Even(w) == \A paths \in PathCounts : \A k \in SubsetSizes(paths) :
                        \A spines \in SpinesDrawn(k, paths) : SharesRight(spines, paths, w)
           Follows == \A paths \in PathCounts : \A k \in SubsetSizes(paths) :
                        \A spines \in SpinesDrawn(k, paths) :
                          WeightIn(EVsOf(spines, paths), weights) > 0
                            <=> EVsOf(spines, paths) \cap Usable # {}
<1>1. SafetyInv /\ changed = 0 => Follows
  BY WeightMeansUsable
<1>2. SafetyInv => Even(weights)
  <2> SUFFICES ASSUME SafetyInv PROVE Even(weights)
    OBVIOUS
  <2>1. weights \in [EV -> 0..2]
    BY DEF SafetyInv, TypeOK
  <2>2. \A e \in EV : weights[e] \in Nat
    BY <2>1
  <2> QED
    BY <2>2, SharesAreRight
<1>3. (SafetyInv /\ changed = 0)' => Follows' /\ Even(weights)'
  BY <1>1, <1>2, PTL
<1> DEFINE Change == weights' # weights =>
          \A paths \in PathCounts : \A k \in SubsetSizes(paths) :
              \A spines \in SpinesDrawn(k, paths) :
                  /\ SharesRight(spines, paths, weights')
                  /\ LET mine   == EVsOf(spines, paths)
                         usable == mine \cap Usable'
                         some   == WeightIn(mine, weights') > 0
                     IN  some <=> usable # {}
<1>4. (SafetyInv /\ changed = 0)' => Change
  BY <1>3, Zenon
<1>5. SafetyInv' /\ [Next]_vars => [Change]_vars
  <2> SUFFICES ASSUME SafetyInv', Next PROVE Change
    BY DEF Change
  <2>1. weights' = weights \/ changed' = 0
    BY WeightsMoveAtEnd
  <2>2. CASE weights' = weights
    BY <2>2
  <2>3. CASE changed' = 0
    BY <1>4, <2>3
  <2> QED
    BY <2>1, <2>2, <2>3
<1> QED
  BY <1>5, SafetyInvariant, PTL DEF Spec, SprayFollowsHealth
==============================================================================
