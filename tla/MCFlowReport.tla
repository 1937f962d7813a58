----------------------------- MODULE MCFlowReport -----------------------------
(* Values for the TLC runs of FlowReport. *)
EXTENDS FlowReport

CONSTANTS ev1, ev2

TwoEVs == {ev1, ev2}

OneEV == {ev1}
===============================================================================
