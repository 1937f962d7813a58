-------------------------------- MODULE EVPool --------------------------------
(***************************************************************************)
(* What the EV table promises to those that spray by it, without the       *)
(* evidence it decides by: EVs are taken out of service and brought back   *)
(* one at a time; enough stay in; an EV that was taken out rests for a     *)
(* while; and each of these moves reaches the EVs with a weight before the *)
(* next one is made.                                                       *)
(* EVStateHistory shows that EVState implements this.                      *)
(***************************************************************************)
EXTENDS Naturals, FiniteSets

CONSTANTS
    EV,
    MinIn,      \* how many EVs stay in service
    MinRest,    \* rounds an EV stays out at least
    RestCap     \* bound: where the count of rounds saturates

VARIABLES
    out,        \* the EVs out of service
    served,     \* the EVs that get traffic
    rest        \* EV -> full rounds it has been out

vars == <<out, served, rest>>

Init ==
    /\ out = {}
    /\ served = EV
    /\ rest = [e \in EV |-> 0]

Settled == served = EV \ out

TakeOut(e) ==
    /\ Settled
    /\ e \notin out
    /\ Cardinality(EV \ (out \cup {e})) >= MinIn
    /\ out' = out \cup {e}
    /\ UNCHANGED <<served, rest>>

Round(e) ==
    /\ Settled
    /\ e \in out
    /\ rest[e] < RestCap
    /\ rest' = [rest EXCEPT ![e] = @ + 1]
    /\ UNCHANGED <<out, served>>

BringBack(e) ==
    /\ Settled
    /\ e \in out
    /\ rest[e] + 1 >= MinRest
    /\ out' = out \ {e}
    /\ rest' = [rest EXCEPT ![e] = 0]
    /\ UNCHANGED served

Serve ==
    /\ ~Settled
    /\ served' = EV \ out
    /\ UNCHANGED <<out, rest>>

Next ==
    \/ \E e \in EV : TakeOut(e) \/ Round(e) \/ BringBack(e)
    \/ Serve

Spec == Init /\ [][Next]_vars
=============================================================================
