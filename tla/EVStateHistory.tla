---------------------------- MODULE EVStateHistory ----------------------------
(***************************************************************************)
(* EVState with history variables.  They are no part of the code: they     *)
(* observe its steps, never enable or prevent one, and let the properties  *)
(* below speak of how long an EV has been out, how long it ought to stay   *)
(* out, and how long it has been dark.                                     *)
(***************************************************************************)
EXTENDS EVState

VARIABLES
    badFor,         \* EV -> ticks that visited it since its demotion
    owedHold,       \* EV -> the hold its last demotion called for
    lastLossHold,   \* EV -> the hold of its last loss-driven recovery
    dark            \* EV -> consecutive ticks with probes out and none back

hist  == <<badFor, owedHold, lastLossHold, dark>>
hvars == <<vars, hist>>

HInit ==
    /\ Init
    /\ badFor = [e \in EV |-> 0]
    /\ owedHold = [e \in EV |-> ProbeRecoverTicks]
    /\ lastLossHold = [e \in EV |-> ProbeRecoverTicks]
    /\ dark = [e \in EV |-> 0]

Bad(e) == state[e] = "ASSUMED_BAD"

\* A step in which tick() visits e.
Visited(e) == tickPos = e /\ changed = 0 /\ lock' # lock

\* The hold a demotion of e calls for, told from what happened to e and not
\* from backoffLevel: twice the previous one for a relapse, the base otherwise.
HoldCalledFor(e) ==
    IF lossDemoted'[e] /\ RecentlyRecovered(e)
    THEN SmallerOf(2 * lastLossHold[e], Hold[LossBackoffMaxLevel])
    ELSE ProbeRecoverTicks

Observe ==
    /\ badFor' = [e \in EV |->
           IF ~Bad(e) THEN 0
           ELSE IF Visited(e) THEN SmallerOf(badFor[e] + 1, HealthyCap)
           ELSE badFor[e]]
    /\ owedHold' = [e \in EV |->
           IF ~Bad(e) /\ Bad(e)' THEN HoldCalledFor(e) ELSE owedHold[e]]
    /\ lastLossHold' = [e \in EV |->
           IF Bad(e) /\ ~Bad(e)' /\ lossDemoted[e]
           THEN owedHold[e] ELSE lastLossHold[e]]
    /\ dark' = [e \in EV |->
           IF ~Visited(e) THEN dark[e]
           ELSE IF curSent[e] > 0 /\ curRecv[e] = 0
           THEN SmallerOf(dark[e] + 1, ProbeWindowTicks)
           ELSE 0]

HNext == Next /\ Observe

HSpec == HInit /\ [][HNext]_hvars

-----------------------------------------------------------------------------
\* A recovery is never early: whatever mix of probe and loss verdicts took the
\* EV out, it comes back only after a full base hold of ticks since that demote
\* (probe_recover_ticks; a demote must start the latch afresh).
NoEarlyRecovery ==
    [][\A e \in EV : Bad(e) /\ ~Bad(e)' => badFor[e] + 1 >= ProbeRecoverTicks]_hvars

\* The exponential backoff of loss_backoff_*: an EV that loss demotes again
\* shortly after a loss-driven recovery stays out at least twice as long as the
\* time before, up to the maximum; a probe demote in between changes neither.
BackoffDoubles ==
    [][\A e \in EV : Bad(e) /\ ~Bad(e)' => badFor[e] + 1 >= owedHold[e]]_hvars

\* Detection is bounded: once no probe of an EV has come back for a whole window
\* of ticks, the tick that completes the window takes the EV out, unless the
\* floor keeps it in.  Bucket rotation, ring length and the counters' reset all
\* have to be right for this.
DarkEVTakenOut ==
    [][\A e \in EV :
           /\ Visited(e)
           /\ dark'[e] = ProbeWindowTicks
           /\ ProbeWindowTicks >= ProbeMinSamples
           => Bad(e)' \/ ~FloorAllows(e)]_hvars

-----------------------------------------------------------------------------
\* The table seen from the sprayer: verdicts, latches and rings are hidden.
Pool == INSTANCE EVPool WITH
    MinIn   <- MinActive,
    MinRest <- ProbeRecoverTicks,
    RestCap <- HealthyCap,
    out     <- {e \in EV : Bad(e)},
    served  <- {e \in EV : weights[e] > 0},
    rest    <- [e \in EV |-> IF Bad(e) THEN badFor[e] ELSE 0]

\* EVStateTable implements EVPool: every step of a tick or a loss report takes
\* at most one EV out, with the floor's leave, or brings one back after its
\* hold, and the weights follow before another EV moves.
ImplementsPool == Pool!Spec
=============================================================================
