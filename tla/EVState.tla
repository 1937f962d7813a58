------------------------------- MODULE EVState -------------------------------
(***************************************************************************)
(* The per-EV health state machine of one tenant's EVStateTable            *)
(* (srv6_mrc/mrc/ev_state.py).  An EV is a (plane, path) pair; here it is  *)
(* its row-major index plane * num_paths + path + 1, the order in which    *)
(* tick() visits the table.                                                *)
(*                                                                         *)
(* Three threads meet in the table: the emit loop (record_probe_sent), the *)
(* window loop (tick) and the dispatch loop (record_probe_recv and         *)
(* record_loss_window).  Each call is one critical section, but            *)
(* weights_ev(), state() and good_evs() are lock-free, so what a reader    *)
(* sees half-way through one matters: the tick is one action per visited   *)
(* EV and tickPos names the EV it is at (0: no tick under way), and a      *)
(* transition is two steps, for the new state is stored before the weights *)
(* are rebuilt from it: `changed` names the EV in between (0: none).       *)
(*                                                                         *)
(* Data abstractions, all exact for what the code compares:                *)
(*   - ratios are compared by cross-multiplication, thresholds in percent; *)
(*   - counters that are only compared with a limit saturate at it         *)
(*     (HealthyCap, LossDemoteConsecutive);                                *)
(*   - `ticks - last_loss_recover_tick` is kept as an age that saturates   *)
(*     at LossBackoffResetTicks, which also stands for "never recovered";  *)
(*   - a weight is the raw state weight in halves: the code divides every  *)
(*     one by the same total.                                              *)
(* Lifetime totals and diagnostic fields are left out.                     *)
(***************************************************************************)
EXTENDS Integers, Sequences, FiniteSets, SequencesExt

CONSTANTS
    NumEVs,                 \* num_planes * num_paths
    MinActiveEVs,           \* cfg.min_active_evs, or None
    None,
    ProbeWindowTicks,       \* cfg.probe_window_ticks: the ring's maxlen
    ProbeMinSamples,
    ProbeFailPct,           \* 100 * cfg.probe_fail_ratio
    ProbeRecoverPct,        \* 100 * cfg.probe_recover_ratio
    ProbeRecoverTicks,
    LossPct,                \* 100 * cfg.loss_threshold
    LossDemoteConsecutive,
    LossBackoffMaxLevel,
    LossBackoffResetTicks,
    LoggerRaises,           \* TRUE: the on_transition callback may raise
    LossReports,            \* the <<seen, expected>> pairs receivers send
    MaxPerBucket,           \* bound: probes counted per EV and tick
    HealthyCap              \* bound: where the healthy-window count saturates

EV == 1..NumEVs

EVStates == {"UNKNOWN", "GOOD", "ASSUMED_BAD"}

ASSUME ShapeAssumption ==
    /\ NumEVs \in Nat \ {0}
    /\ None \notin Int
    /\ MinActiveEVs \in Int \cup {None}

ASSUME TunableAssumption ==
    /\ ProbeWindowTicks \in Nat \ {0}
    /\ ProbeMinSamples \in Nat
    /\ ProbeFailPct \in 0..100
    /\ ProbeRecoverPct \in 0..100
    /\ ProbeRecoverTicks \in Nat
    /\ LossPct \in 0..100
    /\ LossDemoteConsecutive \in Nat \ {0}
    /\ LossBackoffMaxLevel \in Nat
    /\ LossBackoffResetTicks \in Nat
    /\ LoggerRaises \in BOOLEAN
    /\ MaxPerBucket \in Nat

\* Negative counts are refused by record_loss_window with a ValueError.
ASSUME LossReportAssumption == LossReports \subseteq Nat \X Nat

\* The recovery hold, doubled once per backoff level: `hold <<= level`.
Hold[l \in 0..LossBackoffMaxLevel] ==
    IF l = 0 THEN ProbeRecoverTicks ELSE 2 * Hold[l - 1]

\* HealthyCap is at least every hold, so the saturated count compares with
\* each of them as the unbounded one does.
ASSUME HoldAssumption ==
    /\ HealthyCap \in Nat
    /\ Hold[LossBackoffMaxLevel] <= HealthyCap

SmallerOf(a, b) == IF a < b THEN a ELSE b
LargerOf(a, b)  == IF a > b THEN a ELSE b

\* EVStateConfig.resolve_min_active.
MinActive ==
    IF MinActiveEVs = None
    THEN LargerOf(1, NumEVs \div 2)
    ELSE LargerOf(1, SmallerOf(MinActiveEVs, NumEVs))

-----------------------------------------------------------------------------
VARIABLES
    state,          \* EV -> its health state
    curSent,        \* EV -> probes sent since the last rotation
    curRecv,        \* EV -> probes that came back since the last rotation
    buckets,        \* EV -> the rotated buckets, oldest first
    healthy,        \* EV -> consecutive_healthy_windows
    lossStreak,     \* EV -> consecutive_loss_demote_windows
    lossDemoted,    \* EV -> loss_demoted
    backoffLevel,   \* EV -> loss_backoff_level
    recoverAge,     \* EV -> ticks since the last loss-driven recovery
    weights,        \* EV -> the cached spray weight, in halves
    tickPos,        \* the EV tick() is at, 0 when no tick is under way
    changed         \* the EV whose new state the weights do not show yet, or 0

evidence  == <<curSent, curRecv, buckets>>
latches   == <<healthy, lossStreak>>
backoff   == <<lossDemoted, backoffLevel, recoverAge>>
lock      == <<tickPos, changed>>
vars      == <<state, evidence, latches, backoff, weights, lock>>

LockFree == tickPos = 0 /\ changed = 0

Usable == {e \in EV : state[e] # "ASSUMED_BAD"}

StateWeight(s) ==
    CASE s = "GOOD" -> 2 [] s = "UNKNOWN" -> 1 [] s = "ASSUMED_BAD" -> 0

\* _rebuild_weights_locked: uniform when every weight is zero.
WeightsOf(st) ==
    IF \A e \in EV : StateWeight(st[e]) = 0
    THEN [e \in EV |-> 1]
    ELSE [e \in EV |-> StateWeight(st[e])]

Init ==
    /\ state = [e \in EV |-> "UNKNOWN"]
    /\ curSent = [e \in EV |-> 0]
    /\ curRecv = [e \in EV |-> 0]
    /\ buckets = [e \in EV |-> <<>>]
    /\ healthy = [e \in EV |-> 0]
    /\ lossStreak = [e \in EV |-> 0]
    /\ lossDemoted = [e \in EV |-> FALSE]
    /\ backoffLevel = [e \in EV |-> 0]
    /\ recoverAge = [e \in EV |-> LossBackoffResetTicks]
    /\ weights = WeightsOf(state)
    /\ tickPos = 0
    /\ changed = 0

-----------------------------------------------------------------------------
(***************************************************************************)
(* State changes made under the lock                                       *)
(***************************************************************************)

\* Mutant: the EV to demote is counted among those that stay usable.
FloorAllows_CountsSelf(e) == Cardinality(Usable) >= MinActive

\* _try_demote_locked refuses when too few other EVs would stay usable.
FloorAllows(e) == Cardinality(Usable \ {e}) >= MinActive

\* Mutant: only a GOOD EV is ever demoted.
MayDemote_OnlyGood(e) == state[e] = "GOOD" /\ FloorAllows(e)

\* The callers' test and the floor's.
MayDemote(e) == state[e] # "ASSUMED_BAD" /\ FloorAllows(e)

RecentlyRecovered(e) == recoverAge[e] < LossBackoffResetTicks

\* The backoff level a loss-driven demote sets.
LevelAfterLoss(e) ==
    IF RecentlyRecovered(e)
    THEN SmallerOf(backoffLevel[e] + 1, LossBackoffMaxLevel)
    ELSE 0

\* The rest of _try_demote_locked, and _transition_locked to ASSUMED_BAD up to
\* the rebuild of the weights: the demote consumes the evidence on both latches.
Demote(e, byLoss) ==
    /\ state' = [state EXCEPT ![e] = "ASSUMED_BAD"]
    /\ changed' = e
    /\ healthy' = [healthy EXCEPT ![e] = 0]
    /\ lossStreak' = [lossStreak EXCEPT ![e] = 0]
    /\ lossDemoted' = [lossDemoted EXCEPT ![e] = byLoss]
    /\ backoffLevel' =
           IF byLoss THEN [backoffLevel EXCEPT ![e] = LevelAfterLoss(e)]
           ELSE backoffLevel
    /\ UNCHANGED <<recoverAge, weights>>

\* _transition_locked to GOOD, up to the rebuild of the weights.
Promote(e) ==
    /\ state' = [state EXCEPT ![e] = "GOOD"]
    /\ changed' = e
    /\ healthy' = [healthy EXCEPT ![e] = 0]
    /\ recoverAge' = [recoverAge EXCEPT ![e] = IF lossDemoted[e] THEN 0 ELSE @]
    /\ lossDemoted' = [lossDemoted EXCEPT ![e] = FALSE]
    /\ UNCHANGED <<lossStreak, backoffLevel, weights>>

SetHealthy(e, n) ==
    /\ healthy' = [healthy EXCEPT ![e] = n]
    /\ UNCHANGED <<state, lossStreak, backoff, weights, changed>>

-----------------------------------------------------------------------------
(***************************************************************************)
(* Probe evidence                                                          *)
(***************************************************************************)

\* A probe went out: the emit loop counts it after a send that succeeded.
RecordProbeSent(e) ==
    /\ LockFree
    /\ curSent[e] < MaxPerBucket
    /\ curSent' = [curSent EXCEPT ![e] = @ + 1]
    /\ UNCHANGED <<state, curRecv, buckets, latches, backoff, weights, lock>>

\* A probe came back.  It may belong to a bucket rotated out long ago, so
\* nothing ties the count to curSent.
RecordProbeRecv(e) ==
    /\ LockFree
    /\ curRecv[e] < MaxPerBucket
    /\ curRecv' = [curRecv EXCEPT ![e] = @ + 1]
    /\ UNCHANGED <<state, curSent, buckets, latches, backoff, weights, lock>>

-----------------------------------------------------------------------------
(***************************************************************************)
(* tick()                                                                  *)
(***************************************************************************)

TickBegin ==
    /\ LockFree
    /\ tickPos' = 1
    /\ recoverAge' = [e \in EV |->
                         SmallerOf(recoverAge[e] + 1, LossBackoffResetTicks)]
    /\ UNCHANGED <<state, evidence, latches, lossDemoted, backoffLevel, weights,
                   changed>>

\* Mutant: the ring is one too long.
Rotated_RingTooLong(e) ==
    LET all == Append(buckets[e], [sent |-> curSent[e], recv |-> curRecv[e]])
    IN  IF Len(all) > ProbeWindowTicks + 1 THEN Tail(all) ELSE all

\* The ring after the in-progress bucket of e is appended to it.
Rotated(e) ==
    LET all == Append(buckets[e], [sent |-> curSent[e], recv |-> curRecv[e]])
    IN  IF Len(all) > ProbeWindowTicks THEN Tail(all) ELSE all

WindowSent(e) == FoldLeft(LAMBDA n, b : n + b.sent, 0, Rotated(e))
WindowRecv(e) == SmallerOf(WindowSent(e),
                           FoldLeft(LAMBDA n, b : n + b.recv, 0, Rotated(e)))

\* The five verdicts of _evaluate_locked; exactly one holds.
NoTraffic(e) == WindowSent(e) = 0
Thin(e)      == ~NoTraffic(e) /\ WindowSent(e) < ProbeMinSamples
Trusted(e)   == ~NoTraffic(e) /\ ~Thin(e)
Failing(e)   == Trusted(e) /\ 100 * WindowRecv(e) < ProbeFailPct * WindowSent(e)
Healthy(e)   == /\ Trusted(e)
                /\ ~Failing(e)
                /\ 100 * WindowRecv(e) >= ProbeRecoverPct * WindowSent(e)
Between(e)   == Trusted(e) /\ ~Failing(e) /\ ~Healthy(e)

HealthyNow(e) == SmallerOf(healthy[e] + 1, HealthyCap)

\* Mutant: the backoff never lengthens the hold.
HoldOf_NoBackoff(e) == ProbeRecoverTicks

HoldOf(e) == IF lossDemoted[e] THEN Hold[backoffLevel[e]] ELSE ProbeRecoverTicks

\* Mutants: the hold is one window short; a loss-demoted EV waits for a clean
\* loss window instead of the probes.
MayPromote_Early(e) ==
    /\ state[e] # "GOOD"
    /\ lossStreak[e] = 0
    /\ HealthyNow(e) + 1 >= HoldOf(e)

MayPromote_NotAfterLoss(e) ==
    /\ state[e] # "GOOD"
    /\ ~lossDemoted[e]
    /\ HealthyNow(e) >= HoldOf(e)

MayPromote(e) ==
    /\ state[e] # "GOOD"
    /\ lossStreak[e] = 0
    /\ HealthyNow(e) >= HoldOf(e)

\* _evaluate_locked after the bucket is rotated in.
Evaluate(e) ==
    \/ NoTraffic(e) /\ SetHealthy(e, healthy[e])
    \/ (Thin(e) \/ Between(e)) /\ SetHealthy(e, 0)
    \/ /\ Failing(e)
       /\ \/ MayDemote(e) /\ Demote(e, FALSE)
          \/ ~MayDemote(e) /\ SetHealthy(e, 0)
    \/ /\ Healthy(e)
       /\ \/ MayPromote(e) /\ Promote(e)
          \/ ~MayPromote(e) /\ SetHealthy(e, HealthyNow(e))

\* Where the loops of tick() go on after EV e.
After(e) == IF e = NumEVs THEN 0 ELSE e + 1

\* The tick's visit of EV e, up to the rebuild of the weights if e changes.
TickEV(e) ==
    /\ tickPos = e
    /\ changed = 0
    /\ buckets' = [buckets EXCEPT ![e] = Rotated(e)]
    /\ curSent' = [curSent EXCEPT ![e] = 0]
    /\ curRecv' = [curRecv EXCEPT ![e] = 0]
    /\ Evaluate(e)
    /\ tickPos' = IF changed' = 0 THEN After(e) ELSE e

-----------------------------------------------------------------------------
(***************************************************************************)
(* Receiver loss feedback                                                  *)
(***************************************************************************)

\* record_loss_window(seen, expected): expected = 0 changes nothing.  A ratio
\* between half the threshold and the threshold leaves the streak as it is.
RecordLossWindow(e, seen, expected) ==
    LET lost  == expected - SmallerOf(seen, expected)
        above == 100 * lost > LossPct * expected
        clean == 200 * lost <= LossPct * expected
        grown == SmallerOf(lossStreak[e] + 1, LossDemoteConsecutive)
        demote == above /\ grown >= LossDemoteConsecutive /\ MayDemote(e)
    IN  /\ LockFree
        /\ expected > 0
        /\ \/ demote /\ Demote(e, TRUE)
           \/ /\ ~demote
              /\ lossStreak' = [lossStreak EXCEPT ![e] =
                                   IF above THEN grown
                                   ELSE IF clean THEN 0 ELSE @]
              /\ UNCHANGED <<state, healthy, backoff, weights, changed>>
        /\ UNCHANGED <<evidence, tickPos>>

-----------------------------------------------------------------------------
(***************************************************************************)
(* The end of a transition                                                 *)
(***************************************************************************)

\* Mutant: the callback comes before the rebuild, which an exception skips.
RebuildWeights_CallbackFirst ==
    /\ changed # 0
    /\ changed' = 0
    /\ \/ /\ weights' = WeightsOf(state)
          /\ tickPos' = IF tickPos = 0 THEN 0 ELSE After(tickPos)
       \/ LoggerRaises /\ tickPos' = 0 /\ UNCHANGED weights
    /\ UNCHANGED <<state, evidence, latches, backoff>>

\* _rebuild_weights_locked, and the on_transition callback.  One that raises
\* leaves tick() at once: the lock is released and the later EVs are not visited.
\* (The logger of SRV6_MRC_LOG_TRANSITIONS does; a daemon without it has none.)
RebuildWeights ==
    /\ changed # 0
    /\ weights' = WeightsOf(state)
    /\ changed' = 0
    /\ \/ tickPos' = IF tickPos = 0 THEN 0 ELSE After(tickPos)
       \/ LoggerRaises /\ tickPos' = 0
    /\ UNCHANGED <<state, evidence, latches, backoff>>

-----------------------------------------------------------------------------
Next ==
    \/ \E e \in EV : RecordProbeSent(e)
    \/ \E e \in EV : RecordProbeRecv(e)
    \/ TickBegin
    \/ \E e \in EV : TickEV(e)
    \/ \E e \in EV : \E r \in LossReports : RecordLossWindow(e, r[1], r[2])
    \/ RebuildWeights

Spec == Init /\ [][Next]_vars

-----------------------------------------------------------------------------
(***************************************************************************)
(* Properties                                                              *)
(***************************************************************************)

Bucket == [sent : Nat, recv : Nat]

\* Every field keeps its type, and every saturating counter its bound.
TypeOK ==
    /\ state \in [EV -> EVStates]
    /\ curSent \in [EV -> 0..MaxPerBucket]
    /\ curRecv \in [EV -> 0..MaxPerBucket]
    /\ buckets \in [EV -> Seq(Bucket)]
    /\ healthy \in [EV -> 0..HealthyCap]
    /\ lossStreak \in [EV -> 0..LossDemoteConsecutive]
    /\ lossDemoted \in [EV -> BOOLEAN]
    /\ backoffLevel \in [EV -> 0..LossBackoffMaxLevel]
    /\ recoverAge \in [EV -> 0..LossBackoffResetTicks]
    /\ weights \in [EV -> 0..2]
    /\ tickPos \in 0..NumEVs
    /\ changed \in 0..NumEVs

\* The capacity floor: whatever the order of probe verdicts and loss reports,
\* at least min_active EVs are never ASSUMED_BAD (_try_demote_locked).
FloorInv == Cardinality(Usable) >= MinActive

\* What a lock-free reader of weights_ev() may rely on, at any moment of a tick or
\* a loss report and whatever a callback raises: the cache differs from the states
\* in one EV at most, never while the lock is free, and always gives weight to
\* some EV that is not ASSUMED_BAD.
WeightsOneBehind ==
    /\ \A e \in EV \ {changed} : weights[e] = StateWeight(state[e])
    /\ \E e \in Usable : weights[e] > 0
=============================================================================
