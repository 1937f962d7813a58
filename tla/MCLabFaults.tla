----------------------------- MODULE MCLabFaults -----------------------------
(* Two NICs, two fabric links and a port with no peer. *)
EXTENDS LabFaults, TLC

CONSTANTS n1, n2, p1, p2, q1

MCPeer == p1 :> q1 @@ q1 :> p1 @@ p2 :> None
MCTargets == {<<n1, n2>>, <<n2>>}
MCShutdowns == {<<p1, p2>>, <<q1>>}
MCClearings == {NICs, NICs \cup Ports, {p2}}
=============================================================================
