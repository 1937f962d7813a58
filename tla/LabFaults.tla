------------------------------- MODULE LabFaults -------------------------------
(***************************************************************************)
(* What impairs the lab and who answers for it: the netem qdiscs on the    *)
(* hosts' NICs (srv6_mrc/netem.py), the fabric interfaces set down, and    *)
(* the fault file of `srctl fault` (srv6_mrc/fault.py, cli/srctl.py).      *)
(*                                                                         *)
(* A process is a scenario run or one srctl command after another; each tc *)
(* or docker call is a step of its own.  A record of the fault file keeps  *)
(* its id, its kind and the interfaces it names; targets are sequences of  *)
(* NICs or ports, as parsing the command gives them.                       *)
(***************************************************************************)
EXTENDS Naturals, Sequences, FiniteSets, SequencesExt, FiniteSetsExt

CONSTANTS
    Scenarios, Operators,   \* the two kinds of processes
    NICs,                   \* host NICs, where netem goes
    Ports,                  \* fabric interfaces
    Peer,                   \* Port -> the other end of its link, or None
    Targets,                \* sequences of NICs that netem targets expand to
    Shutdowns,              \* sequences of ports one shutdown names
    Clearings,              \* sets of NICs or ports one clear names
    MaxFaultId,             \* bound: the ids of the fault file
    MaxGlitches,            \* bound: failures that no code undoes
    None

Procs == Scenarios \cup Operators

ASSUME LabAssumption ==
    /\ Scenarios \cap Operators = {} /\ None \notin Procs /\ IsFiniteSet(Operators)
    /\ Targets \subseteq Seq(NICs) /\ Shutdowns \subseteq Seq(Ports)
    /\ Peer \in [Ports -> Ports \cup {None}]

VARIABLES
    qdisc,      \* NIC -> the process whose netem is its root qdisc, or None
    down,       \* the ports set down
    store,      \* the fault file: its records, oldest first
    job,        \* process -> what it is doing
    glitches

labVars == <<qdisc, down, store, job, glitches>>

\* todo: the targets still to be treated; applied: Netem._applied; targets: all
\* of the command's; mem: the FaultState in memory.
Idle == [pc |-> "idle", todo |-> <<>>, applied |-> <<>>, targets |-> <<>>, mem |-> <<>>]

LabInit ==
    /\ qdisc = [n \in NICs |-> None]
    /\ down = {} /\ store = <<>>
    /\ job = [p \in Procs |-> Idle]
    /\ glitches = 0

At(p, pc) == job[p].pc = pc

Becomes(p, j) == job' = [job EXCEPT ![p] = j]
Goes(p, pc) == job' = [job EXCEPT ![p].pc = pc]

Glitch == glitches < MaxGlitches /\ glitches' = glitches + 1

\* generate_fault_id().
NextId(recs) == 1 + Max({0} \cup {recs[i].id : i \in DOMAIN recs})

-----------------------------------------------------------------------------
(***************************************************************************)
(* Netem                                                                   *)
(***************************************************************************)

\* Netem(faults).apply() in run_scenario or in `srctl fault netem`.
Apply(p, t) ==
    /\ At(p, "idle") /\ (p \in Operators => NextId(store) <= MaxFaultId)
    /\ Becomes(p, [Idle EXCEPT !.pc = "apply", !.todo = t, !.targets = t])
    /\ UNCHANGED <<qdisc, down, store, glitches>>

\* Mutant: the NIC is noted as applied before tc has succeeded.
AppliedOnFailure_Noted(p) == Append(job[p].applied, Head(job[p].todo))

AppliedOnFailure(p) == job[p].applied

\* Mutant: tc qdisc replace.
Free_Replace(n) == TRUE

\* tc qdisc add is refused by a NIC that has a root qdisc already.
Free(n) == qdisc[n] = None

\* The next NIC; any failure takes back what was applied before.
Add(p) ==
    /\ At(p, "apply") /\ job[p].todo # <<>>
    /\ LET n == Head(job[p].todo) IN
       \/ /\ Free(n)
          /\ qdisc' = [qdisc EXCEPT ![n] = p]
          /\ Becomes(p, [job[p] EXCEPT !.todo = Tail(@), !.applied = Append(@, n)])
       \/ /\ Becomes(p, [job[p] EXCEPT !.pc = "unwind", !.applied = AppliedOnFailure(p)])
          /\ UNCHANGED qdisc
    /\ UNCHANGED <<down, store, glitches>>

\* The container's PID cannot be resolved, or Ctrl-C: an exception that apply()
\* does not catch, before its callers' try.
AddRaises(p) ==
    /\ At(p, "apply") /\ job[p].todo # <<>>
    /\ Glitch
    /\ Becomes(p, Idle)
    /\ UNCHANGED <<qdisc, down, store>>

\* Mutant: the loop stops one short.
Unfinished_OneShort(applied) == Len(applied) > 1

\* revert() goes on while something is applied.
Unfinished(applied) == applied # <<>>

\* tc qdisc del of the NIC applied last.
Del(p) ==
    /\ job[p].pc \in {"unwind", "revert"} /\ Unfinished(job[p].applied)
    /\ qdisc' = [qdisc EXCEPT ![Last(job[p].applied)] = None]
    /\ Becomes(p, [job[p] EXCEPT !.applied = Front(@)])
    /\ UNCHANGED <<down, store, glitches>>

\* It fails: the entry is popped all the same; a quiet revert goes on, the other
\* raises and run_scenario only prints it.
DelFails(p) ==
    /\ job[p].pc \in {"unwind", "revert"} /\ Unfinished(job[p].applied)
    /\ Glitch
    /\ Becomes(p, IF At(p, "revert") THEN Idle ELSE [job[p] EXCEPT !.applied = Front(@)])
    /\ UNCHANGED <<qdisc, down, store>>

Reverted(p) ==
    /\ job[p].pc \in {"unwind", "revert"} /\ ~Unfinished(job[p].applied)
    /\ Becomes(p, Idle)
    /\ UNCHANGED <<qdisc, down, store, glitches>>

\* Every fault is up: a scenario runs its flows, srctl loads the fault file.
ApplyDone(p) ==
    /\ At(p, "apply") /\ job[p].todo = <<>>
    /\ Becomes(p, IF p \in Scenarios THEN [job[p] EXCEPT !.pc = "running"]
                  ELSE [job[p] EXCEPT !.pc = "record", !.mem = store])
    /\ UNCHANGED <<qdisc, down, store, glitches>>

\* run_flows() returned or raised: the finally clause reverts.
EndScenario(p) ==
    /\ At(p, "running")
    /\ Goes(p, "revert")
    /\ UNCHANGED <<qdisc, down, store, glitches>>

-----------------------------------------------------------------------------
(***************************************************************************)
(* srctl fault shutdown and clear                                          *)
(***************************************************************************)

WithPeers(ports) ==
    FlattenSeq([i \in DOMAIN ports |->
        IF Peer[ports[i]] = None THEN <<ports[i]>> ELSE <<ports[i], Peer[ports[i]]>>])

\* The fault file is loaded first.
Shutdown(p, ports, both) ==
    /\ At(p, "idle") /\ NextId(store) <= MaxFaultId
    /\ LET all == IF both THEN WithPeers(ports) ELSE ports IN
       Becomes(p, [Idle EXCEPT !.pc = "shut", !.todo = all, !.targets = all, !.mem = store])
    /\ UNCHANGED <<qdisc, down, store, glitches>>

\* ip link set down; a failure ends the command, with what it did before.
ShutNext(p) ==
    /\ At(p, "shut") /\ job[p].todo # <<>>
    /\ \/ /\ down' = down \cup {Head(job[p].todo)}
          /\ Becomes(p, [job[p] EXCEPT !.todo = Tail(@)])
          /\ UNCHANGED glitches
       \/ Glitch /\ Becomes(p, Idle) /\ UNCHANGED down
    /\ UNCHANGED <<qdisc, store>>

\* add_fault() and save(): the records in memory, and the new one, are written.
Record(p) ==
    /\ At(p, "record") \/ (At(p, "shut") /\ job[p].todo = <<>>)
    /\ store' = Append(job[p].mem, [id |-> NextId(job[p].mem), kind |-> job[p].pc,
                                    on |-> ToSet(job[p].targets)])
    /\ Becomes(p, Idle)
    /\ UNCHANGED <<qdisc, down, glitches>>

\* _revert_fault(): a shutdown's interfaces are brought up; for a netem record a
\* fresh Netem, which has applied nothing, reverts nothing.
ToRevert(recs) ==
    FlattenSeq([i \in DOMAIN recs |->
        IF recs[i].kind = "shut" THEN SetToSeq(recs[i].on) ELSE <<>>])

\* Mutant: clearing an interface drops every record.
Spared_None(recs, doomed) == <<>>

\* remove_fault(id) of each cleared fault.
Spared(recs, doomed) ==
    FoldLeft(LAMBDA rs, d : RemoveFirstMatch(rs, LAMBDA r : r.id = d.id), recs, doomed)

\* The faults that find_by_node() or find_by_interface() returns.
Found(recs, named) ==
    FlattenSeq([i \in DOMAIN recs |->
        IF recs[i].on \cap named # {} THEN <<recs[i]>> ELSE <<>>])

\* fault clear --all, NODE or NODE INTERFACE, as the interfaces it names; the node
\* "netem" names every NIC.
Clear(p, named) ==
    /\ At(p, "idle")
    /\ LET doomed == Found(store, named) IN
       /\ doomed # <<>>
       /\ Becomes(p, [Idle EXCEPT !.pc = "clear", !.todo = ToRevert(doomed),
                                  !.mem = Spared(store, doomed)])
    /\ UNCHANGED <<qdisc, down, store, glitches>>

\* ip link set up; a failure is only a warning.
ClearNext(p) ==
    /\ At(p, "clear") /\ job[p].todo # <<>>
    /\ \/ down' = down \ {Head(job[p].todo)} /\ UNCHANGED glitches
       \/ Glitch /\ UNCHANGED down
    /\ Becomes(p, [job[p] EXCEPT !.todo = Tail(@)])
    /\ UNCHANGED <<qdisc, store>>

Cleared(p) ==
    /\ At(p, "clear") /\ job[p].todo = <<>>
    /\ store' = job[p].mem
    /\ Becomes(p, Idle)
    /\ UNCHANGED <<qdisc, down, glitches>>

-----------------------------------------------------------------------------
NetemStep ==
    \/ \E p \in Procs, t \in Targets : Apply(p, t)
    \/ \E p \in Procs : \/ Add(p) \/ AddRaises(p) \/ Del(p) \/ DelFails(p)
                       \/ Reverted(p) \/ ApplyDone(p)

SrctlStep == \E p \in Operators :
    \/ \E ports \in Shutdowns, both \in BOOLEAN : Shutdown(p, ports, both)
    \/ \E named \in Clearings : Clear(p, named)
    \/ ShutNext(p) \/ Record(p) \/ ClearNext(p) \/ Cleared(p)

LabNext == NetemStep \/ SrctlStep \/ \E p \in Scenarios : EndScenario(p)

LabSpec == LabInit /\ [][LabNext]_labVars

-----------------------------------------------------------------------------
(***************************************************************************)
(* Properties                                                              *)
(***************************************************************************)

\* The step is one of process p.
Acts(p) == job'[p] # job[p]

\* "we only tear down what we successfully put up" (netem.py): a netem qdisc is
\* taken off its NIC, or replaced, by the process that put it there and by no other,
\* whatever the cleanups of refused tc adds and the ends of other runs do.
OnlyOwner == [][\A n \in NICs, p \in Procs :
                    qdisc[n] # None /\ qdisc'[n] # qdisc[n] /\ Acts(p) =>
                        p = qdisc[n]]_labVars

\* A scenario's impairment is always one its Netem still answers for, so none is
\* left behind by a refused apply or by the end of a run (unless docker or tc failed).
NoStray ==
    glitches = 0 => \A n \in NICs : qdisc[n] \in Scenarios =>
                        Contains(job[qdisc[n]].applied, n)

\* A run measures the impairment it asked for: while its flows run, each NIC named
\* carries its netem, whatever operators and other runs do meanwhile.
FaultsHold ==
    \A p \in Scenarios : At(p, "running") =>
        \A n \in ToSet(job[p].targets) : qdisc[n] = p

\* With one operator and no failure, an interface that is down is recorded in the
\* fault file or in the hands of the command that is shutting or clearing it.
DownRecorded ==
    Cardinality(Operators) = 1 /\ glitches = 0 =>
        \A d \in down : \/ \E i \in DOMAIN store : d \in store[i].on
                       \/ \E p \in Operators : Contains(job[p].targets, d)
=============================================================================
