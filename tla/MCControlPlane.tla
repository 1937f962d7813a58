---------------------------- MODULE MCControlPlane ----------------------------
(* A host that sends to two others, one of which sends to it as well. *)
EXTENDS ControlPlane

Near == <<<<"green", 0>>, <<"green", 1>>>>
Far == <<<<"green", 0>>, <<"green", 2>>>>
Back == <<<<"green", 1>>, <<"green", 0>>>>

MCFlows == {Near, Far, Back}
\* All three flows probed; or one of them carrying data.
MCWorkloads == {<<MCFlows, {}>>, <<{}, {Far}>>}
MCStopped == {<<"green", 0>>}
=============================================================================
