------------------------------ MODULE FlowReport ------------------------------
(***************************************************************************)
(* What a report says of the flow of NackRetransmit: the receiver's        *)
(* capture threads, one per NIC and without a lock between them            *)
(* (run_receiver), the per-flow statistics they share (ReorderTracker,     *)
(* FlowStats) and the trim counters.  The flow's row is made of those that *)
(* the tracker holds in the end.                                           *)
(*                                                                         *)
(* Every EV is on a plane, and so a NIC, of its own.  A thread may be      *)
(* preempted after it has looked up the flow's statistics, and after it    *)
(* has stored new ones; FlowStats.observe is one step, and its window is   *)
(* taken to hold every seq of the flow.  Histograms are left out.          *)
(***************************************************************************)
EXTENDS NackRetransmit

ASSUME ReportAssumption == None \notin [seq : Seqs, into : EVs \cup {None}]

VARIABLES
    hand,       \* EV -> the seq its thread is counting and the EV whose FlowStats
                \* it counts it in, None if it found none; or None
    stats,      \* EV -> the FlowStats its thread created
    tracker,    \* the EV whose FlowStats are the flow's, or None
    trims       \* the flow's trim counters

acct  == <<hand, stats, tracker, trims>>
rvars == <<vars, acct>>

\* FlowStats as created.
Fresh == [first |-> None, last |-> 0, window |-> {}, received |-> 0, duplicates |-> 0]

RInit ==
    /\ Init
    /\ hand = [e \in EVs |-> None]
    /\ stats = [e \in EVs |-> Fresh]
    /\ tracker = None
    /\ trims = [trimmed |-> 0, recovered |-> 0]

-----------------------------------------------------------------------------
Started(st, s) == [st EXCEPT !.first = IF @ = None THEN s ELSE @]

\* Mutant: a duplicate is received like the first copy.
Observe_Again(st, s) ==
    [Started(st, s) EXCEPT !.window = @ \cup {s}, !.received = @ + 1,
                           !.last = IF s > @ THEN s ELSE @]

\* FlowStats.observe().
Observe(st, s) ==
    IF s \in st.window
    THEN [Started(st, s) EXCEPT !.duplicates = @ + 1]
    ELSE [Started(st, s) EXCEPT !.window = @ \cup {s}, !.received = @ + 1,
                                !.last = IF s > @ THEN s ELSE @]

\* Mutant: the statistics are looked up under a key that is never stored.
Found_Never == None

\* What the look-up in ReorderTracker._flows gives.
Found == tracker

TrimsAfter(p) ==
    IF p.trimmed THEN [trims EXCEPT !.trimmed = @ + 1]
    ELSE IF p.seq \in pending THEN [trims EXCEPT !.recovered = @ + 1]
    ELSE trims

\* handle() of a frame by its NIC's thread, up to the look-up in
\* ReorderTracker.observe.
Handle(p) ==
    /\ hand[p.ev] = None
    /\ Deliver(p)
    /\ trims' = TrimsAfter(p)
    /\ hand' = IF p.trimmed THEN hand
               ELSE [hand EXCEPT ![p.ev] = [seq |-> p.seq, into |-> Found]]
    /\ UNCHANGED <<stats, tracker>>

\* A thread that found none stores the FlowStats it made, over another thread's
\* perhaps.
Store(e) ==
    /\ hand[e] # None /\ hand[e].into = None
    /\ tracker' = e
    /\ stats' = [stats EXCEPT ![e] = Fresh]
    /\ hand' = [hand EXCEPT ![e].into = e]
    /\ UNCHANGED <<vars, trims>>

\* It counts its packet in those it has, whichever the tracker holds by now.
Count(e) ==
    /\ hand[e] # None /\ hand[e].into # None
    /\ stats' = [stats EXCEPT ![hand[e].into] = Observe(@, hand[e].seq)]
    /\ hand' = [hand EXCEPT ![e] = None]
    /\ UNCHANGED <<vars, tracker, trims>>

\* NackRetransmit's other steps.
Elsewhere ==
    /\ \/ Take \/ SendNew \/ Resend \/ NoteSent \/ DrainAgain \/ EndPhase \/ Lose
       \/ \E s \in Seqs : Duplicate(s)
       \/ \E k \in nacks : OnNack(k)
    /\ UNCHANGED acct

RNext ==
    \/ Elsewhere
    \/ \E p \in data : Handle(p)
    \/ \E e \in EVs : Store(e) \/ Count(e)

RSpec == RInit /\ [][RNext]_rvars

-----------------------------------------------------------------------------
(***************************************************************************)
(* Properties                                                              *)
(***************************************************************************)

Delivered == {s \in Seqs : arrived[s] > 0}

Counted == UNION {stats[e].window : e \in EVs}

InHand == {hand[e].seq : e \in {f \in EVs : hand[f] # None}}

\* Every packet that arrived in full, and no other, is in the window of some FlowStats
\* or in the hands of a thread, and each FlowStats counts its window's packets once:
\* no trimmed packet is counted, no recovered one left out, and no duplicate hides
\* a missing packet.  The trim block adds up.
CountedOnce ==
    /\ Counted \cup InHand = Delivered
    /\ \A e \in EVs : stats[e].received = Cardinality(stats[e].window)
    /\ trims.recovered + Cardinality(pending) <= trims.trimmed

\* No thread is creating the flow's statistics, or still counting in ones that were
\* overwritten.
Settled ==
    tracker # None /\ \A e \in EVs : hand[e] # None => hand[e].into = tracker

\* What the flow's row counts, or is about to.
InRow == stats[tracker].window \cup InHand

\* Threads race to create the flow's statistics, and whatever was counted in the ones
\* that were overwritten is reported as lost.  That ends with the flow's first
\* packets: once no thread is at it, none will be again, and whatever arrives from
\* then on shows in the row and stays.
RaceEnds ==
    [][Settled => /\ Settled'
                  /\ InRow \cup (Delivered' \ Delivered) \subseteq InRow']_rvars
=============================================================================
