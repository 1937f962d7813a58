----------------------------- MODULE MCLossHistory ----------------------------
(* Values for the TLC run of LossHistory: two calm loads and a burst. *)
EXTENDS LossHistory

CONSTANTS Slow, Fast    \* packets per EV and unit in a calm unit
CONSTANT Burst          \* and those of the first EV in a burst

AllAt(rate) == [e \in EV |-> rate]
AllSlow == AllAt(Slow)
AllFast == AllAt(Fast)

WithBursts == {AllSlow, AllFast, [AllSlow EXCEPT ![1] = Burst]}

Nobody == {}
NoReports == {}
===============================================================================
