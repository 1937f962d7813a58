----------------------------- MODULE MCLossFusion -----------------------------
(* Values and properties for the TLC runs of LossFusion. *)
EXTENDS LossFusion

CONSTANT Rate       \* packets per EV and unit

SameRate == {[e \in EV |-> Rate]}

FirstEV == {1}
NoReports == {}

-----------------------------------------------------------------------------
\* Only the faulty EVs are probed: their ticks are the ones that race the reports.
ProbeFaulty ==
    /\ \E e \in Faulty : RecordProbeSent(e) \/ RecordProbeRecv(e)
    /\ UNCHANGED fvars

Tick ==
    /\ TickBegin \/ \E e \in EV : TickEV(e)
    /\ UNCHANGED fvars

RaceNext == DataStep \/ TransitionEnds \/ ProbeFaulty \/ Tick

\* Every thread goes on in the end: the refresh thread and the window loop wait
\* for nobody for long, and whoever waits for the table's lock gets it.
RaceSpec ==
    /\ FInit /\ [][RaceNext]_<<vars, fvars>>
    /\ SF_<<vars, fvars>>(DataStep)
    /\ WF_<<vars, fvars>>(RefreshWeights)
    /\ WF_<<vars, fvars>>(Tick)
    /\ WF_<<vars, fvars>>(TransitionEnds)

-----------------------------------------------------------------------------
\* An EV whose path swallows every packet never appears in a report.  Its
\* absence alone, at the least rate that counts as a signal and with the least
\* coverage, still takes it out (MIN_SENT_FOR_ABSENT_LOSS).
SilentEVDemoted == \A e \in Faulty : <>(state[e] = "ASSUMED_BAD")
===============================================================================
