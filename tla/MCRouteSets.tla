------------------------------ MODULE MCRouteSets ------------------------------
(* Two planes of two spines and three leaves; RouteSets that overlap. *)
EXTENDS RouteSets

MCSpecs == {
    << <<"green", 0, 2, {}, {0, 1}>> >>,
    << <<"green", 0, 2, {1}, {0, 1}>>, <<"green", 1, 1, {0}, {0}>>, <<"green", 2, 0, {0}, {1}>> >> }
=============================================================================
