------------------------------ MODULE ControlPlane ------------------------------
(***************************************************************************)
(* What the hosts tell one another about their flows: the probes each      *)
(* daemon sends round every EV, the LOSS_REPORTs and NACKs a receiver      *)
(* sends back, and how a host hands what arrives to the agent of the flow  *)
(* it is about (mrc/daemon.py, mrc/agent.py, mrc/transport.py, mrc/probe.py*)
(* and mrc/loss_window.py, with NackListener's port of trim.py).           *)
(*                                                                         *)
(* A host runs a daemon for the flows it sends and a receiver for those it *)
(* receives, each in threads of its own: one that emits probes per flow,   *)
(* a dispatcher, one per NIC that records data, one that reports.  What an *)
(* agent makes of a probe is EVState, of a report LossFusion, of a NACK    *)
(* NackRetransmit.  Every EV is taken to have a NIC of its own; an EV that *)
(* goes down stays down, for all flows and both directions, and takes what *)
(* is sent on it from then on; what is sent on another is in a socket at   *)
(* once.                                                                   *)
(*                                                                         *)
(* A packet, or a probe of an EV, is an identity, free to be used again    *)
(* once the sender has heard of it; counts are sets of packets.  A         *)
(* malformed or stray datagram, the instrumentation of the dispatcher and  *)
(* u16 and u32 caps are left out.                                          *)
(***************************************************************************)
EXTENDS Integers, Sequences, FiniteSets

CONSTANTS
    Flows,          \* pairs of hosts <<tenant, id>>, sender first
    Workloads,      \* bound: <<the flows that are probed, those that carry data>>
    Stopped,        \* bound: the hosts whose daemon may be stopped
    NumEVs,
    Probes,         \* identities of the probes of a flow's EV, taken in order
    Pkts,           \* the identities of a flow's packets that arrive in full
    TrimPkts,       \* ... and of those that arrive trimmed
    MaxWaiting,     \* bound: messages that wait in a socket
    MaxDown,        \* bound: EVs that go down
    None

EVs == 1 .. NumEVs
Senders == {f[1] : f \in Flows}
Receivers == {f[2] : f \in Flows}
FlowsOf(h) == {f \in Flows : f[1] = h}
Id(h) == h[2]

ASSUME ControlAssumption ==
    /\ Workloads \subseteq (SUBSET Flows) \X (SUBSET Flows)
    /\ IsFiniteSet(Probes) /\ Probes \subseteq Nat /\ TrimPkts \cap Pkts = {}
    /\ NumEVs \in Nat \ {0} /\ MaxWaiting \in Nat \ {0} /\ MaxDown \in 0 .. NumEVs
    /\ \A f \in Flows :                                   \* within a tenant
         f = <<<<f[1][1], f[1][2]>>, <<f[1][1], f[2][2]>>>> /\ f[1] # f[2]
    /\ None \notin EVs
    /\ None \notin [flow : Flows, got : [EVs -> [seen : SUBSET Pkts, trimmed : SUBSET TrimPkts]]]

VARIABLES
    load,       \* the workload, fixed from the start
    down,       \* the EVs that are down
    inbox,      \* the messages in every socket, oldest first
    life,       \* a host's daemon: built, emitting, running, stopping or closed
    noting,     \* the EV whose probe _emit_loop has sent and not yet counted
    balance,    \* probes counted as sent, less those heard or lost
    win,        \* LossWindowTable: the seen and trimmed packets, by flow and EV
    learning,   \* <<flow, EV>> of the packets counted and not yet learned from
    last,       \* the receivers' _senders cache: the EV of the reverse path
    closing,    \* the window _emit_one_round has closed and not yet reported
    owed,       \* history: packets counted, not yet heard of, not lost either
    asked       \* history: the same of packets NACKed

daemonVars == <<life, noting>>
receiverVars == <<win, learning, last, closing>>
vars == <<load, down, inbox, daemonVars, balance, receiverVars, owed, asked>>

\* The sockets of a host: the listeners on SPRAY_REPORT_PORT its daemon and,
\* were it to, its receiver open, and a NackListener for each flow it sends.
Listener(h, process) == <<h, process, 0>>
NackSocket(h, id) == <<h, "sender", id>>
Sockets == {Listener(h, p) : h \in Senders, p \in {"daemon", "receiver"}}
           \cup {NackSocket(h, Id(d)) : h \in Senders, d \in Receivers}

\* _FlowWindow.reset.
NoArrivals == [e \in EVs |-> [seen |-> {}, trimmed |-> {}]]

\* A daemon without flows is refused: its host has none.
Init ==
    /\ load \in Workloads
    /\ down = {}
    /\ inbox = [s \in Sockets |-> <<>>]
    /\ life = [h \in Senders |->
                IF FlowsOf(h) \cap (load[1] \cup load[2]) = {} THEN "closed" ELSE "built"]
    /\ noting = [f \in Flows |-> None]
    /\ balance = [f \in Flows |-> [e \in EVs |-> 0]]
    /\ win = [f \in Flows |-> NoArrivals]
    /\ learning = {} /\ last = [f \in Flows |-> None]
    /\ closing = [h \in Receivers |-> None]
    /\ owed = [f \in Flows |-> {}] /\ asked = [f \in Flows |-> {}]

-----------------------------------------------------------------------------
(* Messages: the flow they are about, the EV they travel on, what they say.   *)

Probe(f, e, n) == [kind |-> "probe", flow |-> f, ev |-> e, says |-> n]
Nack(f, e, p) == [kind |-> "nack", flow |-> f, ev |-> e, says |-> p]
LossReport(f, e, r) == [kind |-> "report", flow |-> f, ev |-> e, says |-> r]

\* encode_loss_report(): version 3 only if the window saw trims, whose place is
\* a reserved field otherwise.
Encoded(w) ==
    [version |-> IF \E e \in EVs : w[e].trimmed # {} THEN 3 ELSE 2, evs |-> w]

Counted(w) == UNION {w[e].seen \cup w[e].trimmed : e \in EVs}

\* decode_loss_report(): the packets it accounts for.
Decoded(r) ==
    UNION {r.evs[e].seen \cup (IF r.version = 3 THEN r.evs[e].trimmed ELSE {}) : e \in EVs}

\* A probe comes home to its sender; a report and a NACK go to the sender.
Home(m) == m.flow[1]

\* What tells the flow: the payload's dst_id, a report's source address, a
\* NACK's port, all of them the id of the other host.
Key(m) == Id(m.flow[2])

\* Mutant: the receiver's transport opens the listener as well.
Listeners_Both(h) == {"daemon"} \cup (IF h \in Receivers THEN {"receiver"} ELSE {})

\* The processes that have bound SPRAY_REPORT_PORT at a host: a transport that
\* is not a sender's opens no listener.
Listeners(h) == {"daemon"}

\* The kernel hands a datagram to any one of the sockets bound to its port.
BoundFor(m) ==
    IF m.kind = "nack" THEN {NackSocket(Home(m), Key(m))}
    ELSE {Listener(Home(m), p) : p \in Listeners(Home(m))}

\* An EV that is down and a daemon whose socket is closed take no message.
Lost(m) == m.ev \in down \/ (m.kind # "nack" /\ life[Home(m)] = "closed")

Delivered(m) == \E s \in BoundFor(m) : inbox' = [inbox EXCEPT ![s] = Append(@, m)]

\* Messages the sender of a flow has not heard of.
Waiting == UNION {{inbox[s][i] : i \in DOMAIN inbox[s]} : s \in Sockets}
Away(f, e) == {n \in Probes : Probe(f, e, n) \in Waiting}
Room == Cardinality(Waiting) < MaxWaiting

GoDown(e) ==
    /\ e \notin down /\ Cardinality(down) < MaxDown
    /\ down' = down \cup {e}
    /\ UNCHANGED <<load, inbox, daemonVars, balance, receiverVars, owed, asked>>

-----------------------------------------------------------------------------
(* The daemon.                                                                *)

\* start(): the agents first, then the dispatcher.  The listener is open since
\* the transport was built, so that an early echo waits in it.
StartAgents(h) ==
    /\ life[h] = "built" /\ life' = [life EXCEPT ![h] = "emitting"]
    /\ UNCHANGED <<load, down, inbox, noting, balance, receiverVars, owed, asked>>

StartDispatcher(h) ==
    /\ life[h] = "emitting" /\ life' = [life EXCEPT ![h] = "running"]
    /\ UNCHANGED <<load, down, inbox, noting, balance, receiverVars, owed, asked>>

\* stop(): the dispatcher ends, then the agents; then the transport is closed.
Stop(h) ==
    /\ h \in Stopped
    /\ life[h] = "running" /\ life' = [life EXCEPT ![h] = "stopping"]
    /\ UNCHANGED <<load, down, inbox, noting, balance, receiverVars, owed, asked>>

Close(h) ==
    /\ life[h] = "stopping" /\ \A f \in FlowsOf(h) : noting[f] = None
    /\ life' = [life EXCEPT ![h] = "closed"]
    /\ UNCHANGED <<load, down, inbox, noting, balance, receiverVars, owed, asked>>

Emits(f) == life[f[1]] \in {"emitting", "running", "stopping"}

\* _emit_loop sends a probe of the EV it has come to, whether those of earlier
\* rounds are back or not.  (A send that fails is not counted, and changes nothing.)
SendProbe(f, e, n) ==
    /\ f \in load[1] /\ Emits(f) /\ noting[f] = None /\ Room
    /\ n \notin Away(f, e) /\ \A k \in Probes : k < n => k \in Away(f, e)
    /\ IF Lost(Probe(f, e, n))
       THEN balance' = [balance EXCEPT ![f][e] = @ - 1] /\ UNCHANGED inbox
       ELSE Delivered(Probe(f, e, n)) /\ UNCHANGED balance
    /\ noting' = [noting EXCEPT ![f] = e]
    /\ UNCHANGED <<load, down, life, receiverVars, owed, asked>>

\* ... and counts it: record_probe_sent, when the echo may be back already.
NoteProbe(f) ==
    /\ noting[f] # None
    /\ noting' = [noting EXCEPT ![f] = None]
    /\ balance' = [balance EXCEPT ![f][noting[f]] = @ + 1]
    /\ UNCHANGED <<load, down, inbox, life, receiverVars, owed, asked>>

\* The effect of m on what is outstanding, when it is dealt with as one of f.
Settled(m, f) ==
    /\ balance' = IF m.kind = "probe" THEN [balance EXCEPT ![f][m.ev] = @ - 1] ELSE balance
    /\ owed' = IF m.kind = "report" THEN [owed EXCEPT ![f] = @ \ Decoded(m.says)] ELSE owed
    /\ asked' = IF m.kind = "nack" THEN [asked EXCEPT ![f] = @ \ {m.says}] ELSE asked

\* Mutant: the demux map keeps one agent per host.
Demux_OneAgent(h, id) == {CHOOSE f \in FlowsOf(h) : TRUE}

\* _demux.get(): the agents, by destination id.
Demux(h, id) == {f \in FlowsOf(h) : Id(f[2]) = id}

\* _dispatch_loop: the next message of the listener goes to its agent; one of a
\* flow that is not the daemon's is counted and dropped.
Dispatch(h) ==
    LET s == Listener(h, "daemon")  m == Head(inbox[s]) IN
    /\ life[h] = "running" /\ inbox[s] # <<>>
    /\ inbox' = [inbox EXCEPT ![s] = Tail(@)]
    /\ \/ \E f \in Demux(h, Key(m)) : Settled(m, f)
       \/ Demux(h, Key(m)) = {} /\ UNCHANGED <<balance, owed, asked>>
    /\ UNCHANGED <<load, down, daemonVars, receiverVars>>

\* What is in the listener when it is closed is never read.
Discard(h) ==
    LET s == Listener(h, "daemon") IN
    /\ life[h] = "closed" /\ inbox[s] # <<>>
    /\ inbox' = [inbox EXCEPT ![s] = Tail(@)]
    /\ Settled(Head(inbox[s]), Head(inbox[s]).flow)
    /\ UNCHANGED <<load, down, daemonVars, receiverVars>>

\* NackListener._rx_loop of the data sender of f: its port is the destination's.
HearNack(f) ==
    LET s == NackSocket(f[1], Id(f[2])) IN
    /\ inbox[s] # <<>>
    /\ inbox' = [inbox EXCEPT ![s] = Tail(@)]
    /\ Settled(Head(inbox[s]), f)
    /\ UNCHANGED <<load, down, daemonVars, receiverVars>>

-----------------------------------------------------------------------------
(* The receiver.                                                              *)

\* The thread of an EV's NIC is free to take packet p, and p is no other's.
Receives(f, p, e) ==
    /\ f \in load[2] /\ e \notin down /\ p \notin owed[f] \cup asked[f]
    /\ ~\E x \in learning : x[1][2] = f[2] /\ x[2] = e

\* A full packet arrives: record_data counts it in the flow's window ...
DataArrives(f, p, e) ==
    /\ Receives(f, p, e)
    /\ win' = [win EXCEPT ![f][e].seen = @ \cup {p}]
    /\ owed' = [owed EXCEPT ![f] = @ \cup {p}]
    /\ learning' = learning \cup {<<f, e>>}
    /\ UNCHANGED <<load, down, inbox, daemonVars, balance, last, closing, asked>>

\* Mutant: the first EV that brought data is kept.
Learned_First(f, e) == IF last[f] = None THEN e ELSE last[f]

Learned(f, e) == e

\* ... and then learns the EV, under another lock.
Learn(f, e) ==
    /\ <<f, e>> \in learning
    /\ learning' = learning \ {<<f, e>>}
    /\ last' = [last EXCEPT ![f] = Learned(f, e)]
    /\ UNCHANGED <<load, down, inbox, daemonVars, balance, win, closing, owed, asked>>

\* A trimmed one: counted, and NACKed at once on the EV data last came by, or on
\* its own.
TrimArrives(f, p, e) ==
    LET m == Nack(f, IF last[f] = None THEN e ELSE last[f], p) IN
    /\ Receives(f, p, e) /\ Room
    /\ win' = [win EXCEPT ![f][e].trimmed = @ \cup {p}]
    /\ owed' = [owed EXCEPT ![f] = @ \cup {p}]
    /\ IF Lost(m) THEN UNCHANGED <<inbox, asked>>
       ELSE Delivered(m) /\ asked' = [asked EXCEPT ![f] = @ \cup {p}]
    /\ UNCHANGED <<load, down, daemonVars, balance, learning, last, closing>>

\* Mutant: the window is not emptied.
Reset_Never(f) == win[f]

Reset(f) == NoArrivals

\* snapshot_and_reset(), under the table's lock, at a time of the round's own;
\* an empty window is passed over.
Snapshot(f) ==
    /\ closing[f[2]] = None /\ Counted(win[f]) # {}
    /\ closing' = [closing EXCEPT ![f[2]] = [flow |-> f, got |-> win[f]]]
    /\ win' = [win EXCEPT ![f] = Reset(f)]
    /\ UNCHANGED <<load, down, inbox, daemonVars, balance, learning, last, owed, asked>>

\* The report is sent on the EV data last came by.  While none has been learned,
\* and if the report is lost, the window is gone.
SendReport(h) ==
    /\ closing[h] # None /\ Room
    /\ closing' = [closing EXCEPT ![h] = None]
    /\ LET f == closing[h].flow
           m == LossReport(f, last[f], Encoded(closing[h].got))
       IN  IF last[f] = None \/ Lost(m)
           THEN /\ owed' = [owed EXCEPT ![f] = @ \ Counted(closing[h].got)]
                /\ UNCHANGED inbox
           ELSE Delivered(m) /\ UNCHANGED owed
    /\ UNCHANGED <<load, down, daemonVars, balance, win, learning, last, asked>>

-----------------------------------------------------------------------------
Startup(h) == StartAgents(h) \/ StartDispatcher(h)
Shutdown(h) == Stop(h) \/ Close(h) \/ Discard(h)
Reporting(h) == SendReport(h) \/ \E f \in Flows : f[2] = h /\ Snapshot(f)
Arrival(f) == \E p \in Pkts, e \in EVs : DataArrives(f, p, e)

Next ==
    \/ \E e \in EVs : GoDown(e)
    \/ \E h \in Senders : Startup(h) \/ Shutdown(h) \/ Dispatch(h)
    \/ \E f \in Flows :
         \/ NoteProbe(f) \/ HearNack(f) \/ Arrival(f)
         \/ \E e \in EVs : Learn(f, e) \/ \E n \in Probes : SendProbe(f, e, n)
         \/ \E p \in TrimPkts, e \in EVs : TrimArrives(f, p, e)
    \/ \E h \in Receivers : Reporting(h)

Spec == Init /\ [][Next]_vars

\* The threads of both ends go on, and data keep coming on the EVs that are up.
FairSpec ==
    /\ Spec
    /\ \A h \in Senders : WF_vars(Startup(h)) /\ WF_vars(Dispatch(h))
    /\ \A f \in Flows : /\ WF_vars(HearNack(f)) /\ SF_vars(Arrival(f))
                        /\ \A e \in EVs : WF_vars(Learn(f, e))
    /\ \A h \in Receivers : SF_vars(Reporting(h))

-----------------------------------------------------------------------------
Reports == {m \in Waiting : m.kind = "report"}
Runs(f) == life[f[1]] \in {"built", "emitting", "running"}

\* What a flow's table has counted as sent and not seen come back is under way
\* on that very EV, but for the probe _emit_loop has yet to count: no echo is
\* credited to another flow, twice, or without its probe.
EchoesAccounted ==
    \A f \in Flows, e \in EVs :
        balance[f][e] = Cardinality(Away(f, e)) - (IF noting[f] = e THEN 1 ELSE 0)

\* Every packet counted at the receiver is in one place until its own sender has
\* heard of it or its report is lost: the window, the report being sent or one
\* report under way, whatever arrives while a window is closed; and every NACK
\* is heard by the sender of its packet.
CountedInOnePlace ==
    \A f \in Flows :
        LET sending == UNION {Counted(closing[h].got) :
                h \in {r \in Receivers : closing[r] # None /\ closing[r].flow = f}}
            reported == {m \in Reports : m.flow = f}
        IN  /\ owed[f] = Counted(win[f]) \cup sending
                         \cup UNION {Counted(m.says.evs) : m \in reported}
            /\ Counted(win[f]) \cap sending = {}
            /\ \A m \in reported :
                 /\ Counted(m.says.evs) \cap (Counted(win[f]) \cup sending) = {}
                 /\ \A n \in reported \ {m} : Counted(m.says.evs) \cap Counted(n.says.evs) = {}
            /\ asked[f] = {m.says : m \in {n \in Waiting : n.kind = "nack" /\ n.flow = f}}

\* A probe that has come back is heard: no echo stays in a socket nobody reads
\* while the daemon runs.
EveryEchoHeard ==
    \A f \in Flows, e \in EVs, n \in Probes :
        n \in Away(f, e) /\ Runs(f) ~> n \notin Away(f, e) \/ ~Runs(f)

ReportHeard(f) ==
    LET s == Listener(f[1], "daemon") IN
    /\ inbox[s] # <<>> /\ Head(inbox[s]).kind = "report" /\ Head(inbox[s]).flow = f
    /\ inbox'[s] = Tail(inbox[s])

\* Whatever EV goes down, reports get through again as long as data do: the
\* reverse path follows the EV that last brought data.
FeedbackRecovers ==
    \A f \in Flows : f \in load[2] => <>~Runs(f) \/ []<><<ReportHeard(f)>>_vars
=================================================================================
