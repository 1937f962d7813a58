---------------------------- MODULE NackRetransmit ----------------------------
(***************************************************************************)
(* Opt-in packet trimming, NACK and fast retransmit of one flow: the       *)
(* sender loop of runner.run_sender, the NACK thread of trim.NackListener, *)
(* the receiver's frame handler and the NACK it sends                      *)
(* (ReceiverMrcAgent.record_trimmed).                                      *)
(*                                                                         *)
(* The sender thread and the NACK thread share the listener's table and    *)
(* queue under one lock; sendto() and the note_sent() that follows it are  *)
(* two steps, and a NACK may be handled between them.  The fabric delivers *)
(* packets and NACKs in any order and may lose them, and may duplicate     *)
(* them (a netem `duplicate` fault).  A packet that the oracle of          *)
(* `mode: drop` withholds is a lost one.  Sequence numbers start at 1;     *)
(* pacing and counters are left out.                                       *)
(***************************************************************************)
EXTENDS Integers, Sequences, FiniteSets, SequencesExt

CONSTANTS
    NumPkts,            \* bound: packets the send phase emits
    EVs,
    Picks,              \* the EVs the flow's policy picks from
    TrimEVs,            \* the EVs TrimOracle.hits() may trim on
    MaxRetransmits,
    RecentSends,        \* how many sends the listener remembers
    MaxTrims,           \* bound: how many copies of a seq the oracle trims
    MaxDups,            \* bound: how often the fabric duplicates one of a seq
    None

Seqs == 1..NumPkts

ASSUME NackAssumption ==
    /\ NumPkts \in Nat \ {0}
    /\ Picks # {}
    /\ Picks \subseteq EVs
    /\ MaxRetransmits \in Nat
    /\ RecentSends \in Nat \ {0}
    /\ MaxTrims \in Nat
    /\ MaxDups \in Nat
    /\ None \notin EVs

VARIABLES
    phase,      \* the sender loop: "send", "drain", "drained" or "stopped"
    pc,         \* within an iteration: "top", "batch", "noteNew", "noteResend"
    nextSeq,    \* the next new sequence number
    noting,     \* the seq sent and not yet noted
    todo,       \* what take() returned and is still to be resent
    recent,     \* NackListener._recent: its seqs, oldest first
    count,      \* ... and the NACKs granted to each
    queue,      \* NackListener._queue: <<seq, ev>> of the trimmed arrival
    data,       \* data packets in flight
    nacks,      \* NACKs in flight
    arrived,    \* the full copies of each seq that the receiver got
    pending,    \* trim_pending: trimmed seqs without a full copy
    resent,     \* history: times each seq was handed back to be resent
    entered,    \* history: times note_sent() entered each seq in the table
    lost,       \* history: seqs the fabric or a failed send lost something of
    unknown,    \* history: seqs NACKed while they were not in the table
    dups        \* history: times the fabric duplicated something of each seq

sender   == <<phase, pc, nextSeq, noting, todo>>
listener == <<recent, count, queue>>
receiver == <<arrived, pending>>
history  == <<resent, entered, lost, unknown, dups>>
vars     == <<sender, listener, data, nacks, receiver, history>>

Never == [s \in Seqs |-> 0]

Init ==
    /\ phase = "send" /\ pc = "top"
    /\ nextSeq = 1 /\ noting = None /\ todo = <<>>
    /\ recent = <<>> /\ count = Never /\ queue = <<>>
    /\ data = {} /\ nacks = {}
    /\ arrived = Never /\ pending = {}
    /\ resent = Never /\ entered = Never /\ dups = Never
    /\ lost = {} /\ unknown = {}

Running == phase \in {"send", "drain"}

-----------------------------------------------------------------------------
(***************************************************************************)
(* The sender thread                                                       *)
(***************************************************************************)

\* Mutant: the queue is not cleared.
TakenQueue_Kept == queue

\* What take() leaves in the queue.
TakenQueue == <<>>

\* retransmit_nacked() begins: one critical section empties the queue.
Take ==
    /\ pc = "top"
    /\ phase = "drain" \/ (phase = "send" /\ nextSeq <= NumPkts)
    /\ todo' = queue
    /\ queue' = TakenQueue
    /\ pc' = "batch"
    /\ UNCHANGED <<phase, nextSeq, noting, recent, count, data, nacks,
                   receiver, history>>

\* emit(): sendto() of a packet, which the oracle may have trimmed.  The fields
\* copy and twin tell apart the copies of one seq, the sender's and the fabric's.
Transmit(s, ev) ==
    \E trim \in IF ev \in TrimEVs /\ resent'[s] < MaxTrims THEN BOOLEAN ELSE {FALSE} :
        /\ data' = data \cup {[seq |-> s, ev |-> ev, copy |-> resent'[s], twin |-> 0,
                               trimmed |-> trim]}
        /\ noting' = s

\* A new packet, after the batch; an OSError skips the seq.
SendNew ==
    /\ pc = "batch" /\ todo = <<>> /\ phase = "send"
    /\ nextSeq' = nextSeq + 1
    /\ UNCHANGED resent
    /\ \/ /\ \E ev \in Picks : Transmit(nextSeq, ev)
          /\ pc' = "noteNew"
          /\ UNCHANGED lost
       \/ /\ pc' = "top"
          /\ lost' = lost \cup {nextSeq}
          /\ UNCHANGED <<data, noting>>
    /\ UNCHANGED <<phase, todo, listener, nacks, receiver, entered, unknown, dups>>

\* pick_other_ev asks the policy eight times for an EV that is not the trimmed
\* one and takes its last answer if there is none: any EV of the policy.  An
\* OSError drops the request.
Resend ==
    /\ pc = "batch" /\ todo # <<>>
    /\ LET r == Head(todo) IN
       /\ resent' = [resent EXCEPT ![r.seq] = @ + 1]
       /\ \/ /\ \E ev \in Picks : Transmit(r.seq, ev)
             /\ pc' = "noteResend"
             /\ UNCHANGED lost
          \/ /\ lost' = lost \cup {r.seq}
             /\ UNCHANGED <<data, noting, pc>>
    /\ todo' = Tail(todo)
    /\ UNCHANGED <<phase, nextSeq, listener, nacks, receiver, entered, unknown, dups>>

Remembered(s) == s \in ToSet(recent)

\* Mutant: a resent seq is noted as a new one.
CountAfterNote_Reset(s) == [count EXCEPT ![s] = 0]

CountAfterNote(s) == IF Remembered(s) THEN count ELSE [count EXCEPT ![s] = 0]

\* note_sent(): an unknown seq enters with count 0 and may push out the oldest.
NoteSent ==
    /\ pc \in {"noteNew", "noteResend"}
    /\ LET grown == Append(recent, noting) IN
       IF Remembered(noting)
       THEN UNCHANGED <<recent, entered>>
       ELSE /\ recent' = IF Len(grown) > RecentSends THEN Tail(grown) ELSE grown
            /\ entered' = [entered EXCEPT ![noting] = @ + 1]
    /\ count' = CountAfterNote(noting)
    /\ noting' = None
    /\ pc' = IF pc = "noteNew" THEN "top" ELSE "batch"
    /\ UNCHANGED <<phase, nextSeq, todo, queue, data, nacks, receiver,
                   resent, lost, unknown, dups>>

\* The drain loop goes round once its batch is resent.
DrainAgain ==
    /\ pc = "batch" /\ todo = <<>> /\ phase = "drain"
    /\ pc' = "top"
    /\ UNCHANGED <<phase, nextSeq, noting, todo, listener, data, nacks,
                   receiver, history>>

\* The deadline starts the drain, stop_event skips it, and a timer ends it, whatever
\* is still under way.
EndPhase ==
    /\ pc = "top"
    /\ \/ phase = "send" /\ nextSeq > NumPkts /\ phase' = "drain"
       \/ phase = "send" /\ phase' = "stopped"
       \/ phase = "drain" /\ phase' = "drained"
    /\ UNCHANGED <<pc, nextSeq, noting, todo, listener, data, nacks,
                   receiver, history>>

-----------------------------------------------------------------------------
(***************************************************************************)
(* The fabric, the receiver and the NACK thread                            *)
(***************************************************************************)

\* run_receiver's handler: a trimmed arrival becomes pending and is NACKed, a
\* full copy is delivered.
Deliver(p) ==
    /\ data' = data \ {p}
    /\ IF p.trimmed
       THEN /\ pending' = pending \cup {p.seq}
            /\ nacks' = nacks \cup {[seq |-> p.seq, ev |-> p.ev, copy |-> p.copy,
                                     twin |-> p.twin]}
            /\ UNCHANGED arrived
       ELSE /\ pending' = pending \ {p.seq}
            /\ arrived' = [arrived EXCEPT ![p.seq] = @ + 1]
            /\ UNCHANGED nacks
    /\ UNCHANGED <<sender, listener, history>>

Lose ==
    /\ \/ \E p \in data :
              data' = data \ {p} /\ lost' = lost \cup {p.seq} /\ UNCHANGED nacks
       \/ \E k \in nacks :
              nacks' = nacks \ {k} /\ lost' = lost \cup {k.seq} /\ UNCHANGED data
    /\ UNCHANGED <<sender, listener, receiver, resent, entered, unknown, dups>>

\* A netem `duplicate` fault on a host's NIC.
Duplicate(s) ==
    /\ dups[s] < MaxDups
    /\ dups' = [dups EXCEPT ![s] = @ + 1]
    /\ \/ \E p \in data : /\ p.seq = s
                         /\ data' = data \cup {[p EXCEPT !.twin = dups'[s]]}
                         /\ UNCHANGED nacks
       \/ \E k \in nacks : /\ k.seq = s
                          /\ nacks' = nacks \cup {[k EXCEPT !.twin = dups'[s]]}
                          /\ UNCHANGED data
    /\ UNCHANGED <<sender, listener, receiver, resent, entered, lost, unknown>>

\* Mutants: one NACK too many is granted; one too few.
Granted_OneMore(s) == Remembered(s) /\ count[s] <= MaxRetransmits
Granted_OneFewer(s) == Remembered(s) /\ count[s] + 1 < MaxRetransmits

\* on_nack(): an unknown seq, or one out of budget, is ignored.
Granted(s) == Remembered(s) /\ count[s] < MaxRetransmits

OnNack(k) ==
    /\ Running
    /\ nacks' = nacks \ {k}
    /\ IF Granted(k.seq)
       THEN /\ count' = [count EXCEPT ![k.seq] = @ + 1]
            /\ queue' = Append(queue, [seq |-> k.seq, ev |-> k.ev])
       ELSE UNCHANGED <<count, queue>>
    /\ unknown' = IF Remembered(k.seq) THEN unknown ELSE unknown \cup {k.seq}
    /\ UNCHANGED <<sender, recent, data, receiver, resent, entered, lost, dups>>

-----------------------------------------------------------------------------
Next ==
    \/ Take
    \/ SendNew
    \/ Resend
    \/ NoteSent
    \/ DrainAgain
    \/ EndPhase
    \/ \E p \in data : Deliver(p)
    \/ Lose
    \/ \E s \in Seqs : Duplicate(s)
    \/ \E k \in nacks : OnNack(k)

Spec == Init /\ [][Next]_vars

-----------------------------------------------------------------------------
Request == [seq : Seqs, ev : EVs]

\* Every variable keeps its type; what is unacknowledged names real packets.
TypeOK ==
    /\ phase \in {"send", "drain", "drained", "stopped"}
    /\ pc \in {"top", "batch", "noteNew", "noteResend"}
    /\ nextSeq \in 1..NumPkts + 1
    /\ noting \in Seqs \cup {None}
    /\ todo \in Seq(Request) /\ queue \in Seq(Request)
    /\ recent \in Seq(Seqs) /\ Len(recent) <= RecentSends
    /\ count \in [Seqs -> 0..MaxRetransmits]
    /\ data \subseteq [seq : Seqs, ev : EVs, copy : Nat, twin : Nat,
                       trimmed : BOOLEAN]
    /\ nacks \subseteq [seq : Seqs, ev : EVs, copy : Nat, twin : Nat]
    /\ arrived \in [Seqs -> Nat] /\ pending \subseteq Seqs
    /\ resent \in [Seqs -> Nat] /\ entered \in [Seqs -> Nat]
    /\ dups \in [Seqs -> Nat]

\* How many packets or NACKs of the set F, and requests of the queue q, are of s.
FramesOf(F, s)   == Cardinality({f \in F : f.seq = s})
RequestsOf(q, s) == Cardinality({i \in DOMAIN q : q[i].seq = s})

Requested(s) == RequestsOf(queue, s) + RequestsOf(todo, s)
UnderWay(s)  == FramesOf(data, s) + FramesOf(nacks, s) + Requested(s)

\* A seq is handed back at most max_retransmits times for each time it entered the
\* listener's table, however NACKs, the batch and the notes interleave.  Without
\* evictions that is the bound of the NackListener docstring, "a seq is retransmitted
\* at most max_retransmits times"; a seq evicted while its NACK is queued enters
\* again with its retransmit, and with a new budget, so that bound does not hold.
BudgetPerEntry ==
    \A s \in Seqs : resent[s] + Requested(s) <= MaxRetransmits * entered[s]

\* Retransmission makes no copies: of a packet there is one, in flight, NACKed, waiting
\* to be resent or received, and one more for each that the fabric made.  So no request
\* outlives the delivery of its seq, and the receiver gets a packet more often than
\* once only if the fabric duplicated it or a NACK of it.
CopiesAreTheFabrics ==
    \A s \in Seqs : UnderWay(s) + arrived[s] <= 1 + dups[s]

\* A trimmed packet is pursued until it arrives in full: what is pending is under way
\* as a packet, a NACK or a request (all of which the drain's end may leave behind),
\* has spent its budget, or had something lost or a NACK ignored because the table
\* did not know the seq, evicted or not yet noted.
Pursued ==
    \A s \in pending : \/ UnderWay(s) > 0
                       \/ resent[s] >= MaxRetransmits
                       \/ s \in lost \cup unknown
=============================================================================
