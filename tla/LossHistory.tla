----------------------------- MODULE LossHistory -----------------------------
(***************************************************************************)
(* LossFusion with history variables that follow the bursts of the load.   *)
(* A report is judged by a window of other units than its own, so a path   *)
(* that loses nothing reads as lossy when the load on its EV differs much  *)
(* from unit to unit, as it does when an EV is drawn by hash for every     *)
(* packet.  What keeps such an EV in is that one clean report starts the   *)
(* count of bad ones over (record_loss_window).                            *)
(*                                                                         *)
(* A unit is rough for an EV when it offers the EV fewer packets than      *)
(* CalmLow or more than CalmHigh; a window is rough when it has a rough    *)
(* unit, and a report when its own window or the one it is paired with is. *)
(* The variables observe the steps of LossFusion and never stop one.       *)
(***************************************************************************)
EXTENDS LossFusion

CONSTANTS CalmLow, CalmHigh     \* EV -> the packets of a calm unit

\* Beside the heaviest calm window, the lightest one without the packets that
\* are late is a clean report: it shows half the loss threshold at most.
ASSUME CalmAssumption ==
    /\ CalmLow \in [EV -> Nat] /\ CalmHigh \in [EV -> Nat]
    /\ \A e \in EV :
          (200 - LossPct) * (CalmHigh[e] * Window) + 200 * MaxLate
              <= 200 * (CalmLow[e] * Window)

VARIABLES
    roughSent,      \* the EVs for which the sender's current window is rough
    roughRing,      \* ... and its closed windows, as in ring
    roughArrived,   \* ... and the receiver's current window
    roughReport,    \* ... and the window of the report under way
    roughCalls,     \* the EVs whose calls rest on a rough window
    roughRun        \* EV -> rough reports fused since the last one that was not

rough  == <<roughSent, roughRing, roughArrived, roughReport, roughCalls, roughRun>>
bvars  == <<vars, fvars, rough>>

BInit ==
    /\ FInit
    /\ roughSent = {} /\ roughArrived = {} /\ roughReport = {} /\ roughCalls = {}
    /\ roughRing = <<>>
    /\ roughRun = [e \in EV |-> 0]

\* The EVs for which the unit that this step brings is rough.
RoughUnit == {e \in EV : sentNow'[e] - sentNow[e] \notin CalmLow[e]..CalmHigh[e]}

BUnit ==
    /\ Unit
    /\ roughSent' = roughSent \cup RoughUnit
    /\ roughArrived' = roughArrived \cup RoughUnit
    /\ UNCHANGED <<roughRing, roughReport, roughCalls, roughRun>>

BRotateSent ==
    /\ RotateSent
    /\ roughSent' = {}
    /\ roughRing' = IF sentNow = Zero THEN roughRing ELSE Pushed(roughRing, roughSent)
    /\ UNCHANGED <<roughArrived, roughReport, roughCalls, roughRun>>

BEmitReport ==
    /\ EmitReport
    /\ roughArrived' = {}
    /\ roughReport' = IF report' = report THEN roughReport ELSE roughArrived
    /\ UNCHANGED <<roughSent, roughRing, roughCalls, roughRun>>

BReceiveReport ==
    /\ ReceiveReport
    /\ roughCalls' = roughReport \cup
                     (IF Candidates = {} THEN {} ELSE roughRing[Closest])
    /\ UNCHANGED <<roughSent, roughRing, roughArrived, roughReport, roughRun>>

\* The EV whose call this step makes.
CallMade(e) == \E c \in calls \ calls' : c.ev = e

BApplyCall ==
    /\ ApplyCall
    /\ roughRun' = [e \in EV |->
           IF ~CallMade(e) THEN roughRun[e]
           ELSE IF e \in roughCalls
           THEN SmallerOf(roughRun[e] + 1, LossDemoteConsecutive)
           ELSE 0]
    /\ UNCHANGED <<roughSent, roughRing, roughArrived, roughReport, roughCalls>>

BOther ==
    /\ RefreshWeights \/ CheckAbsent \/ TransitionEnds
    /\ UNCHANGED rough

BNext ==
    \/ BUnit
    \/ BRotateSent
    \/ BEmitReport
    \/ BReceiveReport
    \/ BApplyCall
    \/ BOther

BSpec == BInit /\ [][BNext]_bvars

-----------------------------------------------------------------------------
\* A path without faults is taken out only by loss_demote_consecutive rough
\* reports in succession, never by fewer, however far apart, with a calm one in
\* between: not by the phase of the windows, by packets that straddle an edge, by
\* trims or by lost reports (TestLossPathTimeline).
BurstsInARow ==
    [][\A e \in EV \ Faulty :
          state[e] # "ASSUMED_BAD" /\ state'[e] = "ASSUMED_BAD"
              => roughRun'[e] = LossDemoteConsecutive]_bvars
=============================================================================
