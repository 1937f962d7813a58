---------------------------- MODULE MCScenarioRun ----------------------------
(* Two hosts that send to each other; one flow is health_aware_mrc. *)
EXTENDS ScenarioRun, TLC

CONSTANTS a, b, f1, f2

MCSrc == f1 :> a @@ f2 :> b
MCDst == f1 :> b @@ f2 :> a
=============================================================================
