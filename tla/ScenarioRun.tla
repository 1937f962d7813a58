------------------------------ MODULE ScenarioRun ------------------------------
(***************************************************************************)
(* How mrc/run.py runs the flows of a scenario: receivers, MRC daemons and *)
(* senders are processes in the hosts' containers, each behind a local     *)
(* `docker exec` client.  The orchestrator sees the clients only, and a    *)
(* signal to a client does not reach the container.  Runs follow one       *)
(* another and leave processes and final_report files behind.              *)
(***************************************************************************)
EXTENDS Naturals, Sequences, SequencesExt, FiniteSets

CONSTANTS
    Flows, Src, Dst,    \* the flows; flow -> the host it leaves and reaches
    MrcFlows,           \* the flows whose policy is health_aware_mrc
    MaxRuns,            \* bound: runs of the lab
    MaxMishaps          \* bound: processes and calls that fail

ASSUME RunAssumption ==
    /\ IsFiniteSet(Flows) /\ MrcFlows \subseteq Flows
    /\ MaxRuns \in Nat /\ MaxMishaps \in Nat

Hosts == {Src[f] : f \in Flows} \cup {Dst[f] : f \in Flows}

VARIABLES
    pc, left, tries,    \* run_flows: its place, the hosts to visit, cat attempts
    run,                \* the number of this run
    inside,             \* the processes in containers
    client,             \* this run's processes -> their docker client
    files,              \* host -> the run whose final_report.json lies there, or 0
    records,            \* what run_flows collected: [who, of, raced]
    failures,           \* the processes its messages name
    crowded,            \* history: hosts where an earlier daemon was still there
                        \* when this run spawned its own
    mishaps

runVars == <<pc, left, tries, run, inside, client, files, records, failures,
             crowded, mishaps>>

Proc(role, h, f) == [role |-> role, host |-> h, flow |-> f]

Senders == {Proc("send", Src[f], f) : f \in Flows}

\* One receiver per unique dst_host, visited in one order or another.
RecvHosts == SetToSeq({Dst[f] : f \in Flows})

\* _select_mrc_daemon_flows(): one daemon per host a health_aware_mrc flow leaves.
DaemonHosts == SetToSeq({Src[f] : f \in MrcFlows})

Receiver(h) == Proc("recv", h, "all")
Daemon(h) == Proc("daemon", h, "all")
Receivers == {Receiver(h) : h \in ToSet(RecvHosts)}
Daemons == {Daemon(h) : h \in ToSet(DaemonHosts)}
Started == Senders \cup Receivers \cup Daemons

RunInit ==
    /\ pc = "idle" /\ left = <<>> /\ tries = 0 /\ run = 0
    /\ inside = {} /\ client = [q \in Started |-> "none"]
    /\ files = [h \in Hosts |-> 0]
    /\ records = {} /\ failures = {} /\ crowded = {} /\ mishaps = 0

Mishap == mishaps < MaxMishaps /\ mishaps' = mishaps + 1

\* docker_exec_async(), and the blocking docker_exec() of the senders' threads.
Spawn(procs) ==
    /\ inside' = inside \cup {[who |-> q, run |-> run', st |-> "up"] : q \in procs}
    /\ client' = [q \in Started |-> IF q \in procs THEN "open" ELSE client[q]]

\* What comes out of a process reaches its client, if that is still there.
Hand(q, out) ==
    client' = IF q.run = run /\ client[q.who] = "open"
              THEN [client EXCEPT ![q.who] = out] ELSE client

Turns(q, st) == inside' = (inside \ {q}) \cup {[q EXCEPT !.st = st]}

-----------------------------------------------------------------------------
(***************************************************************************)
(* In the containers                                                       *)
(***************************************************************************)

\* A sender's packet reaches the receivers at its destination.
Arrives(q) ==
    /\ q.who.role = "send"
    /\ LET hears(r) == r.who.role = "recv" /\ r.who.host = Dst[q.who.flow] /\ r.st = "up" IN
       inside' = {IF hears(r) THEN [r EXCEPT !.st = "heard"] ELSE r : r \in inside}
    /\ UNCHANGED <<pc, left, tries, run, client, files, records, failures, crowded, mishaps>>

\* A sender ends and prints its JSON; or with an exit code, or with bad JSON.
SenderEnds(q) ==
    /\ q.who.role = "send"
    /\ inside' = inside \ {q}
    /\ \/ Hand(q, "report") /\ UNCHANGED mishaps
       \/ Hand(q, "fail") /\ Mishap
    /\ UNCHANGED <<pc, left, tries, run, files, records, failures, crowded>>

\* A receiver falls silent after its first packet, or has SIGTERM; dockerd may drop
\* the tail of its stdout.
ReceiverEnds(q) ==
    /\ q.who.role = "recv" /\ q.st \in {"heard", "quitting"}
    /\ inside' = inside \ {q}
    /\ \E out \in {"report", "empty"} : Hand(q, out)
    /\ UNCHANGED <<pc, left, tries, run, files, records, failures, crowded, mishaps>>

\* cmd_mrc_daemon after SIGTERM: the file first.
DaemonWrites(q) ==
    /\ q.who.role = "daemon" /\ q.st = "quitting"
    /\ Turns(q, "wrote")
    /\ \/ files' = [files EXCEPT ![q.who.host] = q.run] /\ UNCHANGED mishaps
       \/ Mishap /\ UNCHANGED files
    /\ UNCHANGED <<pc, left, tries, run, client, records, failures, crowded>>

\* Mutant: the file is written by a thread nobody waits for.
MayExit_Early(st) == st \in {"quitting", "wrote"}

MayExit(st) == st = "wrote"

\* ... then stdout, whose tail dockerd may drop.
DaemonExits(q) ==
    /\ q.who.role = "daemon" /\ MayExit(q.st)
    /\ inside' = inside \ {q}
    /\ \E out \in {"report", "empty"} : Hand(q, out)
    /\ UNCHANGED <<pc, left, tries, run, files, records, failures, crowded, mishaps>>

Crash(q) ==
    /\ q.who.role # "send" /\ Mishap
    /\ inside' = inside \ {q}
    /\ Hand(q, "fail")
    /\ UNCHANGED <<pc, left, tries, run, files, records, failures, crowded>>

-----------------------------------------------------------------------------
(***************************************************************************)
(* The orchestrator                                                        *)
(***************************************************************************)

SpawnReceivers ==
    /\ pc = "idle" /\ run < MaxRuns
    /\ run' = run + 1 /\ pc' = "settle"
    /\ Spawn(Receivers)
    /\ records' = {} /\ failures' = {}
    /\ UNCHANGED <<left, tries, files, mishaps, crowded>>

SpawnDaemons ==
    /\ pc = "settle"
    /\ pc' = "snapshots"
    /\ UNCHANGED run /\ Spawn(Daemons)
    /\ crowded' = {q.who.host : q \in {p \in inside : p.who.role = "daemon"}}
    /\ UNCHANGED <<left, tries, files, records, failures, mishaps>>

SpawnSenders ==
    /\ pc = "snapshots"
    /\ pc' = "sending"
    /\ UNCHANGED run /\ Spawn(Senders)
    /\ UNCHANGED <<left, tries, files, records, failures, crowded, mishaps>>

\* docker_exec's timeout ends the client, never the sender behind it.
SenderTimesOut(q) ==
    /\ pc = "sending" /\ q \in Senders /\ client[q] = "open" /\ Mishap
    /\ client' = [client EXCEPT ![q] = "fail"]
    /\ UNCHANGED <<pc, left, tries, run, inside, files, records, failures, crowded>>

Visit(hosts, at, after) ==
    left' = hosts /\ pc' = IF hosts = <<>> THEN after ELSE at

VisitReceivers == Visit(RecvHosts, "receivers", "done")

NextDaemon == IF Len(left) > 1 THEN left' = Tail(left) /\ pc' = "stop" ELSE VisitReceivers

Record(q, of, raced) == [who |-> q, of |-> of, raced |-> raced]

Collected(q) == IF client[q] = "report" THEN {Record(q, run, FALSE)} ELSE {}
Missed(q) == IF client[q] = "report" THEN {} ELSE {q}

\* pool.map() hands over every sender's result.
CollectSenders ==
    /\ pc = "sending" /\ \A q \in Senders : client[q] # "open"
    /\ records' = records \cup UNION {Collected(q) : q \in Senders}
    /\ failures' = failures \cup UNION {Missed(q) : q \in Senders}
    /\ IF DaemonHosts = <<>> THEN VisitReceivers
       ELSE left' = DaemonHosts /\ pc' = "stop"
    /\ UNCHANGED <<tries, run, inside, client, files, mishaps, crowded>>

\* `pkill -TERM -x spray` reaches every spray process of the container; a sender
\* has no handler, the others begin to stop.
Terminated(h) ==
    {IF q.who.host = h /\ q.st \in {"up", "heard"} THEN [q EXCEPT !.st = "quitting"] ELSE q :
        q \in {r \in inside : ~(r.who.host = h /\ r.who.role = "send")}}

Pkill ==
    /\ pc = "stop"
    /\ \/ inside' = Terminated(Head(left)) /\ UNCHANGED <<failures, mishaps>>
       \/ Mishap /\ failures' = failures \cup {Daemon(Head(left))} /\ UNCHANGED inside
    /\ pc' = "terminate"
    /\ UNCHANGED <<left, tries, run, client, files, records, crowded>>

\* proc.terminate(): the client ends at once (its return code -15 is accepted) or
\* stays until the daemon has ended.
Terminate ==
    /\ pc = "terminate" /\ pc' = "wait"
    /\ \E out \in {"open", "empty"} :
           client' = IF client[Daemon(Head(left))] = "open"
                     THEN [client EXCEPT ![Daemon(Head(left))] = out] ELSE client
    /\ UNCHANGED <<left, tries, run, inside, files, records, failures, crowded, mishaps>>

\* communicate() returns; a bad return code is a message and no more.
Waited ==
    LET q == Daemon(Head(left)) IN
    /\ pc = "wait" /\ client[q] # "open"
    /\ failures' = IF client[q] = "fail" THEN failures \cup {q} ELSE failures
    /\ pc' = "cat" /\ tries' = 0
    /\ UNCHANGED <<left, run, inside, client, files, records, mishaps, crowded>>

\* It times out: pkill -KILL takes every spray process of the host.
KillAfterWait ==
    LET h == Head(left) IN
    /\ pc = "wait" /\ client[Daemon(h)] = "open"
    /\ inside' = {q \in inside : q.who.host # h}
    /\ client' = [q \in Started |-> IF q.host = h /\ client[q] = "open" THEN "fail" ELSE client[q]]
    /\ failures' = failures \cup {Daemon(h)}
    /\ NextDaemon
    /\ UNCHANGED <<tries, run, files, records, mishaps, crowded>>

\* The final report is read: whatever lies at the path.
Cat ==
    LET h == Head(left)  q == Daemon(h) IN
    /\ pc = "cat" /\ files[h] # 0
    /\ records' = records \cup {Record(q, files[h], h \in crowded \/ \E p \in inside : p.who = q)}
    /\ NextDaemon
    /\ UNCHANGED <<tries, run, inside, client, files, failures, crowded, mishaps>>

\* Three attempts.
MoreTries == tries < 2

\* No file, or none to be seen from the new exec session.
CatFails ==
    /\ pc = "cat" /\ MoreTries /\ tries' = tries + 1
    /\ UNCHANGED <<pc, left, run, inside, client, files, records, failures, crowded, mishaps>>

\* Mutant: the empty stdout goes unreported.
Unreported_Silent(q) == {}

Unreported(q) == Missed(q)

\* After three attempts the client's stdout is all there is.
CatGivesUp ==
    LET q == Daemon(Head(left)) IN
    /\ pc = "cat" /\ tries = 2
    /\ records' = records \cup Collected(q)
    /\ failures' = failures \cup Unreported(q)
    /\ NextDaemon
    /\ UNCHANGED <<tries, run, inside, client, files, mishaps, crowded>>

NextReceiver ==
    left' = Tail(left) /\ pc' = IF Len(left) > 1 THEN "receivers" ELSE "done"

CollectReceiver ==
    LET q == Receiver(Head(left)) IN
    /\ pc = "receivers" /\ client[q] # "open"
    /\ records' = records \cup Collected(q)
    /\ failures' = failures \cup Missed(q)
    /\ NextReceiver
    /\ UNCHANGED <<tries, run, inside, client, files, mishaps, crowded>>

\* Mutant: communicate() without a timeout.
RecvTimesOut_Never == FALSE

\* recv_max_wait has passed.
RecvTimesOut == client[Receiver(Head(left))] = "open"

\* The client is killed; the receiver stays in its container.
KillReceiver ==
    LET q == Receiver(Head(left)) IN
    /\ pc = "receivers" /\ RecvTimesOut
    /\ client' = [client EXCEPT ![q] = "fail"]
    /\ failures' = failures \cup {q}
    /\ NextReceiver
    /\ UNCHANGED <<tries, run, inside, files, records, mishaps, crowded>>

\* Ctrl-C in the orchestrator.
Interrupt ==
    /\ pc \notin {"idle", "done", "interrupted"} /\ Mishap
    /\ pc' = "interrupted"
    /\ UNCHANGED <<left, tries, run, inside, client, files, records, failures, crowded>>

\* run_flows has returned or raised.
Ended ==
    /\ pc \in {"done", "interrupted"}
    /\ pc' = "idle"
    /\ client' = [q \in Started |-> "none"] /\ left' = <<>> /\ tries' = 0
    /\ UNCHANGED <<run, inside, files, records, failures, crowded, mishaps>>

-----------------------------------------------------------------------------
Orchestrator ==
    \/ SpawnDaemons \/ SpawnSenders \/ CollectSenders
    \/ Pkill \/ Terminate \/ Waited \/ KillAfterWait
    \/ Cat \/ CatFails \/ CatGivesUp
    \/ CollectReceiver \/ KillReceiver

Container ==
    \E q \in inside : \/ Arrives(q) \/ SenderEnds(q) \/ ReceiverEnds(q)
                      \/ DaemonWrites(q) \/ DaemonExits(q) \/ Crash(q)

RunStep == \/ Orchestrator \/ Container \/ Interrupt
           \/ \E q \in Senders : SenderTimesOut(q)

RunNext == SpawnReceivers \/ RunStep \/ Ended

\* The orchestrator's own steps and timeouts, and senders that have a duration.
RunFairness ==
    /\ WF_runVars(Orchestrator)
    /\ WF_runVars(\E q \in inside : SenderEnds(q))

RunSpec == RunInit /\ [][RunNext]_runVars /\ RunFairness

-----------------------------------------------------------------------------
(***************************************************************************)
(* Properties                                                              *)
(***************************************************************************)

\* "Partial results are useful" (run_flows): a run that ends has, for every process
\* it started, a record or a message, whatever died or timed out on the way.
AllAccounted ==
    pc = "done" => \A q \in Started : q \in failures \/ \E r \in records : r.who = q

\* "The daemon writes the report BEFORE exiting" (run_flows): a record read once
\* the daemon had ended is its own, if no earlier daemon was left to overwrite it.
OwnReportIfEnded ==
    mishaps = 0 => \A r \in records : r.raced \/ r.of = run

\* What the comment promises of every record that is read back.
OwnReport == \A r \in records : r.of = run

\* run_flows ends though a receiver that heard nothing never does.
Finishes == pc = "settle" ~> pc \in {"done", "interrupted"}
=============================================================================
