------------------------------ MODULE LossFusion ------------------------------
(***************************************************************************)
(* The loss path of one flow, around the EV table of EVState: the data     *)
(* sender's spray, the agent's sent window and its ring of closed windows  *)
(* (agent._rotate_window, loss_compute.SentWindowRing), the fabric, the    *)
(* receiver's loss window (loss_window.LossWindowTable and                 *)
(* ReceiverMrcAgent._emit_one_round) and the fusion of a LOSS_REPORT       *)
(* (loss_compute.apply_loss_report), which calls record_loss_window.       *)
(*                                                                         *)
(* Time advances in units.  Both sides cut windows of Window units, the    *)
(* receiver's Phase units out of step with the sender's.  A packet arrives *)
(* in the unit it was sent in or in the next one, or is lost; a report     *)
(* arrives within the unit, or is lost.  The reports of one window are     *)
(* fused one record_loss_window call at a time, as the dispatch thread     *)
(* does, so a tick may fall between two calls.                             *)
(*                                                                         *)
(* The sequence numbers of a window are left out: the sender never uses    *)
(* the `expected` and `max_gap` they give.                                 *)
(***************************************************************************)
EXTENDS EVState

CONSTANTS
    Loads,              \* the packets per EV that one unit may offer
    Window,             \* units in a loss window
    Phase,              \* the receiver's offset, in units
    MaxSkew,            \* max_window_skew_ms, in half units
    RingCapacity,
    MinSentForAbsent,   \* MIN_SENT_FOR_ABSENT_LOSS
    CoveragePct,        \* 100 * MIN_COVERAGE_FOR_ABSENT_LOSS
    Faulty,             \* the EVs whose path loses data packets
    Blackhole,          \* TRUE: it loses all of them
    ReportsLost,        \* TRUE: a report may be lost
    MaxLate,            \* bound: packets of an EV that outlive their unit
    MaxTrims            \* bound: packets of an EV trimmed in a unit

ASSUME FusionAssumption ==
    /\ Loads \subseteq [EV -> Nat]
    /\ Window \in Nat \ {0}
    /\ Phase \in 0..Window - 1
    /\ MaxSkew \in Nat
    /\ RingCapacity \in Nat \ {0}
    /\ MinSentForAbsent \in Nat \ {0}
    /\ CoveragePct \in 0..100
    /\ Faulty \subseteq EV
    /\ {Blackhole, ReportsLost} \subseteq BOOLEAN
    /\ MaxLate \in Nat /\ MaxTrims \in Nat

VARIABLES
    unit,       \* the units since the sender last cut a window
    dueSent,    \* TRUE: the sender's window boundary is reached
    dueReport,  \* TRUE: the receiver's window boundary is reached
    sprayed,    \* the EVs the data sender's copy of the weights lets it use
    sentNow,    \* EV -> _current_window_sent
    ring,       \* closed windows, oldest first: counts and age of their end
    flying,     \* EV -> packets sent in the last unit and still under way
    arrived,    \* EV -> seen and trimmed in the receiver's current window
    report,     \* the LOSS_REPORT under way, or None
    calls       \* the record_loss_window calls the dispatch thread has to make

clock == <<unit, dueSent, dueReport>>
fvars == <<clock, sprayed, sentNow, ring, flying, arrived, report, calls>>

Zero == [e \in EV |-> 0]
NothingSeen == [e \in EV |-> [seen |-> 0, trimmed |-> 0]]

FInit ==
    /\ Init
    /\ unit = 0 /\ dueSent = FALSE /\ dueReport = FALSE
    /\ sprayed = EV
    /\ sentNow = Zero
    /\ ring = <<>>
    /\ flying = Zero
    /\ arrived = NothingSeen
    /\ report = None
    /\ calls = {}

Total(f) == FoldLeft(LAMBDA n, e : n + f[e], 0, [e \in EV |-> e])

-----------------------------------------------------------------------------
(***************************************************************************)
(* A unit of data traffic                                                  *)
(***************************************************************************)

Offered(load) == [e \in EV |-> IF e \in sprayed THEN load[e] ELSE 0]

\* How many of n packets an EV may lose.
Losses(e, n) ==
    IF e \notin Faulty THEN {0} ELSE IF Blackhole THEN {n} ELSE 0..n

\* One EV's outcomes when it is offered n packets: some stay under way, some of
\* the rest are lost, some of what is left arrives trimmed.
Outcomes(e, n) ==
    {o \in [late : 0..SmallerOf(n, MaxLate), gone : 0..n + flying[e],
            trim : 0..SmallerOf(n + flying[e], MaxTrims)] :
        /\ o.gone \in Losses(e, n + flying[e] - o.late)
        /\ o.trim + o.gone + o.late <= n + flying[e]}

\* The sender counts what it sends (SentCounterWriter.record, folded in by
\* _rotate_window); the receiver what arrives (record_data, record_trimmed).
Unit ==
    /\ ~dueSent /\ ~dueReport /\ report = None /\ calls = {}
    /\ \E load \in Loads :
       LET sent == Offered(load) IN
       \E o \in {f \in [EV -> UNION {Outcomes(e, sent[e]) : e \in EV}] :
                    \A e \in EV : f[e] \in Outcomes(e, sent[e])} :
           /\ sentNow' = [e \in EV |-> sentNow[e] + sent[e]]
           /\ flying' = [e \in EV |-> o[e].late]
           /\ arrived' = [e \in EV |->
                 [seen |-> arrived[e].seen + sent[e] + flying[e]
                           - o[e].late - o[e].gone - o[e].trim,
                  trimmed |-> arrived[e].trimmed + o[e].trim]]
    /\ unit' = (unit + 1) % Window
    /\ dueSent' = (unit' = 0)
    /\ dueReport' = (unit' = Phase)
    /\ ring' = [i \in DOMAIN ring |->
                   [ring[i] EXCEPT !.age = SmallerOf(@ + 1, MaxSkew + 1)]]
    /\ UNCHANGED <<vars, sprayed, report, calls>>

\* MrcSnapshot reloads the published weights at a time of its own.
RefreshWeights ==
    /\ sprayed' = {e \in EV : weights[e] > 0}
    /\ sprayed' # sprayed
    /\ UNCHANGED <<vars, clock, sentNow, ring, flying, arrived, report, calls>>

-----------------------------------------------------------------------------
(***************************************************************************)
(* Windows                                                                 *)
(***************************************************************************)

\* SentWindowRing.push: the oldest window makes room for the new one.
Pushed(r, window) ==
    LET grown == Append(r, window) IN
    IF Len(grown) > RingCapacity THEN Tail(grown) ELSE grown

\* _rotate_window: an idle window is not kept.
RotateSent ==
    /\ dueSent
    /\ dueSent' = FALSE
    /\ ring' = IF sentNow = Zero THEN ring ELSE Pushed(ring, [sent |-> sentNow, age |-> 0])
    /\ sentNow' = Zero
    /\ UNCHANGED <<vars, unit, dueReport, sprayed, flying, arrived, report, calls>>

\* snapshot_and_reset and _emit_one_round: active EVs only, nothing at all when
\* there is none.  The report may fail to be sent, or be lost on the way.
EmitReport ==
    /\ dueReport
    /\ dueReport' = FALSE
    /\ arrived' = NothingSeen
    /\ \/ arrived # NothingSeen /\ report' = arrived
       \/ (arrived = NothingSeen \/ ReportsLost) /\ UNCHANGED report
    /\ UNCHANGED <<vars, unit, dueSent, sprayed, sentNow, ring, flying, calls>>

-----------------------------------------------------------------------------
(***************************************************************************)
(* Fusion                                                                  *)
(***************************************************************************)

\* Twice the distance from a window's midpoint to now.
Skew(w) == 2 * w.age + Window

Candidates == {i \in DOMAIN ring : Skew(ring[i]) <= MaxSkew}

\* The candidate closest to now, the first one on a tie.
Closest ==
    CHOOSE i \in Candidates : \A j \in Candidates :
        \/ Skew(ring[i]) < Skew(ring[j])
        \/ Skew(ring[i]) = Skew(ring[j]) /\ i <= j

\* SentWindowRing.find_closest: the counts of the paired window, or None.
Paired == IF Candidates = {} THEN None ELSE ring[Closest].sent

Hits(e) == report[e].seen + report[e].trimmed

Reported == {e \in EV : Hits(e) > 0}

\* Mutants: the receiver's trims are not added back; a silent EV is not
\* inferred lost.
Delivered_SeenOnly(e) == report[e].seen
Delivered(e) == Hits(e)

Inferred_Never(sent) == {}

\* The EVs whose absence from the report counts as total loss: sprayed on, and
\* the report covers enough of the window.
Inferred(sent) ==
    {e \in EV \ Reported :
        /\ sent[e] >= MinSentForAbsent
        /\ 100 * Total([f \in EV |-> Hits(f)]) >= CoveragePct * Total(sent)}

Call(e, seen, sent, absent) ==
    [ev |-> e, seen |-> seen, sent |-> sent, absent |-> absent, unchecked |-> absent]

\* apply_loss_report decides which calls it will make.  No pairing, no calls.
ReceiveReport ==
    /\ report # None
    /\ report' = None
    /\ calls' =
         IF Paired = None THEN {}
         ELSE {Call(e, Delivered(e), Paired[e], FALSE) :
                  e \in {f \in Reported : Paired[f] > 0}}
              \cup {Call(e, 0, Paired[e], TRUE) : e \in Inferred(Paired)}
    /\ UNCHANGED <<vars, clock, sprayed, sentNow, ring, flying, arrived>>

\* The order of the calls: reported EVs first, then absent ones, both in grid order.
IsNext(c) ==
    \A d \in calls : (~c.absent /\ d.absent) \/ (c.absent = d.absent /\ c.ev <= d.ev)

\* Mutant: a demoted EV is inferred lost as well.
LeftAlone_Never(e) == FALSE

\* An absent EV that is ASSUMED_BAD is left alone: the state is read without
\* the table's lock.
LeftAlone(e) == state[e] = "ASSUMED_BAD"

CheckAbsent ==
    /\ \E c \in calls :
           /\ c.unchecked /\ IsNext(c)
           /\ calls' = (calls \ {c}) \cup
                  (IF LeftAlone(c.ev) THEN {} ELSE {[c EXCEPT !.unchecked = FALSE]})
    /\ UNCHANGED <<vars, clock, sprayed, sentNow, ring, flying, arrived, report>>

\* The next call; it waits for the table's lock.
ApplyCall ==
    /\ \E c \in calls :
           /\ ~c.unchecked /\ IsNext(c)
           /\ RecordLossWindow(c.ev, c.seen, c.sent)
           /\ calls' = calls \ {c}
    /\ UNCHANGED <<clock, sprayed, sentNow, ring, flying, arrived, report>>

(***************************************************************************)
(* The table's own threads                                                 *)
(***************************************************************************)

\* Probes go out, come back, are late or lost, and ticks fall, each at a time of
\* its own: the emit loop, the listener and the window loop keep no step.
ProbeStep ==
    /\ \/ \E e \in EV : RecordProbeSent(e) \/ RecordProbeRecv(e)
       \/ TickBegin
       \/ \E e \in EV : TickEV(e)
    /\ UNCHANGED fvars

\* The end of a transition, a loss report's or a tick's.
TransitionEnds == RebuildWeights /\ UNCHANGED fvars

DataStep ==
    \/ Unit
    \/ RefreshWeights
    \/ RotateSent
    \/ EmitReport
    \/ ReceiveReport
    \/ CheckAbsent
    \/ ApplyCall

-----------------------------------------------------------------------------
DataNext == DataStep \/ TransitionEnds

\* The loss path alone: nothing but reports takes an EV out, nothing brings one
\* back.
DataSpec == FInit /\ [][DataNext]_<<vars, fvars>>

FNext == DataNext \/ ProbeStep

FSpec == FInit /\ [][FNext]_<<vars, fvars>>

-----------------------------------------------------------------------------
(***************************************************************************)
(* Properties                                                              *)
(***************************************************************************)

\* A demoted EV carries no data that could clear its loss streak, and a streak
\* that is not clear forbids its recovery (_evaluate_locked).  So no report may
\* count against an EV that is out: not one paired with a window in which it was
\* still sprayed, not its absence from one.
GateStaysOpen == \A e \in EV : state[e] = "ASSUMED_BAD" => lossStreak[e] = 0

\* What the look at the state of an absent EV is worth, made as it is without the
\* table's lock.  A tick may take the EV out between the look and the call, and
\* the call then counts against an EV that is out; but never does a second one.
OneReportLate ==
    \A e \in Faulty :
        Blackhole /\ state[e] = "ASSUMED_BAD" => lossStreak[e] <= 1
=============================================================================
