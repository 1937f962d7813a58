------------------------------ MODULE MCFlowFiles ------------------------------
(* Values for the TLC run of FlowFiles. *)
EXTENDS FlowFiles

CONSTANTS ev1, ev2, id1, id2, id3

OneEV == {ev1}
TwoEVs == {ev1, ev2}
ThreeIDs == {id1, id2, id3}
===============================================================================
