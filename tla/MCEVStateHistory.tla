------------------------------- MODULE MCEVStateHistory -------------------------------
(* Values for the TLC runs of EVStateHistory. *)
EXTENDS EVStateHistory, SprayPick

\* A clean, a tolerated, a mid-band and a lossy window, and the boundary of the
\* loss threshold itself (LossPct = 25).
SomeReports == {<<4, 4>>, <<5, 6>>, <<3, 4>>, <<1, 4>>, <<9, 4>>, <<0, 0>>}

\* One EV is driven through every history; the others stay idle, so that they
\* keep the floor and the histories may be long.
OthersIdle ==
    \A e \in EV \ {1} :
        curSent[e] = 0 /\ curRecv[e] = 0 /\ lossStreak[e] = 0

OneEVSpec == HInit /\ [][HNext /\ OthersIdle']_hvars
==============================================================================
