----------------------------- MODULE MCEVStateLive -----------------------------
(***************************************************************************)
(* EVState under the environment its threads give it.  The emit loop and   *)
(* the window loop keep time by themselves: a tick may fall anywhere in a  *)
(* round of probes, and an echo in a later bucket than its probe.  Loss    *)
(* reports come in any order until the flow's data ends.                   *)
(***************************************************************************)
EXTENDS EVState

VARIABLE dataFlows      \* TRUE while data, and so loss reports, may arrive

lvars == <<vars, dataFlows>>

LiveInit == Init /\ dataFlows = TRUE

\* An echo may be that of an earlier bucket's probe.  In a window without a send
\* it counts for nothing, so those are left out.
Probe ==
    \E e \in EV :
        \/ RecordProbeSent(e)
        \/ curRecv[e] < curSent[e] /\ RecordProbeRecv(e)

TickStep == TickBegin \/ (\E e \in EV : TickEV(e)) \/ RebuildWeights

Report ==
    /\ dataFlows
    /\ \E e \in EV : \E r \in LossReports : RecordLossWindow(e, r[1], r[2])

EndOfData == dataFlows /\ dataFlows' = FALSE /\ UNCHANGED vars

LiveNext ==
    \/ (Probe \/ TickStep \/ Report) /\ UNCHANGED dataFlows
    \/ EndOfData

\* The window loop is driven by a timer and the flow ends; nothing makes a probe
\* come back or a report arrive.
LiveSpec ==
    /\ LiveInit /\ [][LiveNext]_lvars
    /\ WF_lvars(TickStep /\ UNCHANGED dataFlows)
    /\ WF_lvars(EndOfData)

\* Both kinds of loss window.
TwoReports == {<<4, 4>>, <<1, 4>>}

-----------------------------------------------------------------------------
Visiting(e) == tickPos = e /\ changed = 0

\* Probes alone bring an EV back, whatever demoted it: once the data have ended,
\* and if from some time on no visit of the EV finds its window failing, thin or
\* between the ratios, while some go on finding it healthy, then the EV ends up
\* GOOD for good, unless loss that came after its demote still closes the
\* recovery gate of _evaluate_locked.
ProbesRecover ==
    \A e \in EV :
        (/\ <>[](Visiting(e) => Healthy(e) \/ NoTraffic(e))
         /\ []<>(Visiting(e) /\ Healthy(e)))
        => <>[](lossStreak[e] = 0 => state[e] = "GOOD")

\* A demote that the floor suppressed is retried: an EV that goes on failing, and
\* is never healthy, ends up out of the spray if the floor ever lets go of it for
\* good.
SuppressedDemoteRetried ==
    \A e \in EV :
        (/\ <>[](Visiting(e) => ~Healthy(e))
         /\ []<>(Visiting(e) /\ Failing(e))
         /\ <>[]FloorAllows(e))
        => <>[](state[e] = "ASSUMED_BAD")
==============================================================================
