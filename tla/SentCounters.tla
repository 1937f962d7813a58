----------------------------- MODULE SentCounters -----------------------------
(***************************************************************************)
(* Per-EV sent counts carried from the data sender's process to the MRC    *)
(* daemon's through a file (srv6_mrc/mrc/sent_counters.py): the sender     *)
(* loop counts, a publisher thread copies the counts to a temporary file   *)
(* and moves it into place, and once per loss window the daemon's agent    *)
(* reads the file and folds what is new into its window                    *)
(* (agent._rotate_window).  The sender process may stop, be killed and be  *)
(* started again while the daemon lives.                                   *)
(*                                                                         *)
(* A published grid is [n, base]: n is what the file holds; base, what the *)
(* earlier sender processes had sent, is a history field no action reads.  *)
(* The file is never removed, so a daemon may find that of an earlier run. *)
(* The join in stop() is taken to end before its timeout.                  *)
(***************************************************************************)
EXTENDS Naturals

CONSTANTS
    EV,
    None,
    MaxSent,        \* bound: packets a sender process sends on an EV
    MaxStarts,      \* bound: sender processes
    Faults          \* TRUE: writes may fail and the sender may be killed

Grid == [n : [EV -> Nat], base : [EV -> Nat]]

ASSUME CountersAssumption ==
    /\ MaxSent \in Nat
    /\ MaxStarts \in Nat
    /\ Faults \in BOOLEAN
    /\ None \notin Grid

VARIABLES
    writer,     \* the sender process: "off", "up", "stopping"
    starts,     \* the sender processes started so far, that of an earlier run
                \* included
    counts,     \* SentCounterWriter._sent
    draft,      \* the grid publish() is writing to the temporary file, or None
    file,       \* the published grid, or None
    last,       \* SentCounterReader._last
    folded,     \* EV -> all that the reader's deltas add up to
    before      \* history: EV -> what the earlier sender processes sent

vars == <<writer, starts, counts, draft, file, last, folded, before>>

Zero == [e \in EV |-> 0]

\* A new daemon, and what a sender of an earlier run left, if there was one.
Init ==
    /\ writer = "off"
    /\ counts = Zero /\ folded = Zero
    /\ draft = None /\ last = None
    /\ before \in [EV -> 0 .. MaxSent]
    /\ IF before = Zero
         THEN starts = 0 /\ file = None
         ELSE starts = 1 /\ file = [n |-> before, base |-> Zero]

Current == [n |-> counts, base |-> before]

\* All packets sent on e so far, by every sender process.
Sent(e) == before[e] + counts[e]

-----------------------------------------------------------------------------
(***************************************************************************)
(* The data sender's process                                               *)
(***************************************************************************)

Start ==
    /\ writer = "off"
    /\ starts < MaxStarts
    /\ writer' = "up"
    /\ starts' = starts + 1
    /\ counts' = Zero
    /\ before' = [e \in EV |-> Sent(e)]
    /\ UNCHANGED <<draft, file, last, folded>>

\* record(), from the runner's progress_cb.
Record(e) ==
    /\ writer = "up"
    /\ counts[e] < MaxSent
    /\ counts' = [counts EXCEPT ![e] = @ + 1]
    /\ UNCHANGED <<writer, starts, draft, file, last, folded, before>>

\* publish() copies the counts; the loop's thread does so while the sender
\* counts on, stop() once more after the last packet.
Copy ==
    /\ writer \in {"up", "stopping"}
    /\ draft = None
    /\ draft' = Current
    /\ UNCHANGED <<writer, starts, counts, file, last, folded, before>>

\* os.replace moves the file into place, or an OSError leaves the old one.
\* After stop() nothing publishes again.
Replace ==
    /\ draft # None
    /\ file' \in IF Faults THEN {file, draft} ELSE {draft}
    /\ draft' = None
    /\ writer' = IF writer = "stopping" THEN "off" ELSE writer
    /\ UNCHANGED <<starts, counts, last, folded, before>>

\* stop(): the publisher thread is joined first.
Stop ==
    /\ writer = "up"
    /\ draft = None
    /\ writer' = "stopping"
    /\ UNCHANGED <<starts, counts, draft, file, last, folded, before>>

\* The process is killed: no final publish.
Kill ==
    /\ Faults
    /\ writer \in {"up", "stopping"}
    /\ writer' = "off"
    /\ draft' = None
    /\ UNCHANGED <<starts, counts, file, last, folded, before>>

-----------------------------------------------------------------------------
(***************************************************************************)
(* The daemon's reader                                                     *)
(***************************************************************************)

\* Mutant: the first read gives nothing.
Delta_SkipFirst(e) ==
    IF last = None THEN 0
    ELSE IF file.n[e] >= last.n[e] THEN file.n[e] - last.n[e] ELSE file.n[e]

\* read_delta(): a cell that went backwards was counted by a new process.
Delta(e) ==
    IF last = None THEN file.n[e]
    ELSE IF file.n[e] >= last.n[e] THEN file.n[e] - last.n[e] ELSE file.n[e]

\* Mutant: the first grid read stays the reference.
Remembered_First == IF last = None THEN file ELSE last

Remembered == file

\* A read that fails, or finds no file, changes nothing and is no action.
Read ==
    /\ file # None
    /\ last' = Remembered
    /\ folded' = [e \in EV |-> folded[e] + Delta(e)]
    /\ UNCHANGED <<writer, starts, counts, draft, file, before>>

-----------------------------------------------------------------------------
Next ==
    \/ Start
    \/ \E e \in EV : Record(e)
    \/ Copy
    \/ Replace
    \/ Stop
    \/ Kill
    \/ Read

Spec == Init /\ [][Next]_vars

-----------------------------------------------------------------------------
\* Up to where the grid g, or none yet, carries the packets sent on e.
Reached(g, e) == IF g = None THEN 0 ELSE g.base[e] + g.n[e]

\* No packet is counted in two windows: what a read adds to its window was sent
\* between the copies of the grid read before and of this one, whatever reads and
\* writes failed in between and whoever was restarted.  (That is no bound on one
\* window: the one after a failed read carries two, and the first read of a daemon
\* takes the file whole, an earlier run's included.)
NoneTwice ==
    [][\A e \in EV :
           folded'[e] + Reached(last, e) <= folded[e] + Reached(last', e)]_vars

\* "A missed or torn read loses nothing: the next successful read carries the
\* whole difference" (module docstring): once the reader has read the counts of
\* the only sender process there ever was, every packet is in some window.
NothingLost ==
    starts = 1 /\ last # None =>
        \A e \in EV :
            before[e] = 0 /\ last.n[e] = counts[e] => folded[e] = counts[e]
=============================================================================
