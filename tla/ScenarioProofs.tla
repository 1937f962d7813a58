----------------------------- MODULE ScenarioProofs -----------------------------
(***************************************************************************)
(* Proofs about ScenarioRun, for every set of flows and every number of    *)
(* runs and mishaps: no process of a run is left out of its result, and    *)
(* whose the final reports are that it reads.                              *)
(***************************************************************************)
EXTENDS ScenarioRun, FunctionTheorems, FiniteSetTheorems, SequenceTheorems, TLAPS

Early == {"idle", "settle", "snapshots", "sending", "interrupted"}
Stopping == {"stop", "terminate", "wait", "cat"}

Accounted(q) == q \in failures \/ \E r \in records : r.who = q

\* The processes that the rest of run_flows is still to visit.
Due(q) ==
    \/ pc \in Early
    \/ pc \in Stopping /\ (q.role = "recv" \/ (q.role = "daemon" /\ q.host \in ToSet(left)))
    \/ pc = "receivers" /\ q.role = "recv" /\ q.host \in ToSet(left)

\* The hosts on a visit: at least one, each once.
Visiting ==
    pc \in Stopping \cup {"receivers"} =>
        left \in Seq(Hosts) /\ left # <<>> /\ IsInjective(left)

Types ==
    /\ pc \in Early \cup Stopping \cup {"receivers", "done"}
    /\ run \in Nat /\ mishaps \in Nat
    /\ files = [h \in Hosts |-> files[h]]
    /\ \A q \in inside : q.who \in Started /\ q = [who |-> q.who, run |-> q.run, st |-> q.st]

AccountInv ==
    /\ Types /\ Visiting
    /\ \A q \in Started : Accounted(q) \/ Due(q)

\* A host whose daemon has not been collected and where no earlier daemon was
\* left when it was spawned.
Watched(h) ==
    /\ Daemon(h) \in Daemons /\ h \notin crowded
    /\ pc \in {"snapshots", "sending"} \/ (pc \in Stopping /\ h \in ToSet(left))

\* Its daemon is this run's, and has written the file before it is gone.
Own(h) ==
    /\ \A q \in inside : q.who = Daemon(h) =>
           q.run = run /\ (q.st = "wrote" => files[h] = run)
    /\ (\E q \in inside : q.who = Daemon(h)) \/ files[h] = run

OwnInv ==
    /\ AccountInv /\ OwnReportIfEnded
    /\ pc \in Stopping => \A h \in ToSet(left) : Daemon(h) \in Daemons
    /\ mishaps = 0 => \A h : Watched(h) => Own(h)

-----------------------------------------------------------------------------
(* The hosts to visit.                                                        *)

\* SetToSeq lists a finite set, each element once.
LEMMA Listing ==
    ASSUME NEW S, IsFiniteSet(S)
    PROVE  SetToSeq(S) \in Seq(S) /\ IsInjective(SetToSeq(S)) /\ ToSet(SetToSeq(S)) = S
<1> DEFINE n == Cardinality(S)
           s == SetToSeq(S)
<1>1. n \in Nat /\ \E f \in [1 .. n -> S] : IsInjective(f)
  <2>1. n \in Nat /\ ExistsBijection(1 .. n, S)
    BY FS_CardinalityType
  <2>2. QED
    BY <2>1 DEF ExistsBijection, Bijection, Injection, IsInjective
<1>2. s \in [1 .. n -> S] /\ IsInjective(s)
  BY <1>1 DEF SetToSeq
<1>3. s \in Surjection(1 .. n, S)
  <2>1. IsFiniteSet(1 .. n) /\ Cardinality(1 .. n) = n
    BY <1>1, FS_Interval
  <2>2. s \in Injection(1 .. n, S)
    BY <1>2 DEF Injection, IsInjective
  <2>3. QED
    BY <2>1, <2>2, FS_Injection
<1>4. DOMAIN s = 1 .. n /\ s \in Seq(S)
  BY <1>1, <1>2, SeqDef
<1> HIDE DEF s, n
<1>5. ToSet(s) = S
  BY <1>2, <1>3, <1>4 DEF ToSet, Surjection
<1>6. QED
  BY <1>2, <1>4, <1>5 DEF s

LEMMA HostLists ==
    /\ DaemonHosts \in Seq(Hosts) /\ IsInjective(DaemonHosts)
    /\ \A h : h \in ToSet(DaemonHosts) <=> Daemon(h) \in Daemons
    /\ RecvHosts \in Seq(Hosts) /\ IsInjective(RecvHosts)
    /\ \A q \in Receivers : q.host \in ToSet(RecvHosts)
<1> DEFINE S == {Src[f] : f \in MrcFlows}
           D == {Dst[f] : f \in Flows}
<1>1. IsFiniteSet(S)
  <2> DEFINE g == [f \in MrcFlows |-> Src[f]]
  <2>1. g \in Surjection(MrcFlows, S)
    BY DEF Surjection
  <2>2. IsFiniteSet(MrcFlows)
    BY RunAssumption, FS_Subset
  <2>3. QED
    BY <2>1, <2>2, FS_Surjection
<1>2. IsFiniteSet(D)
  <2> DEFINE g == [f \in Flows |-> Dst[f]]
  <2>1. g \in Surjection(Flows, D)
    BY DEF Surjection
  <2>2. QED
    BY <2>1, RunAssumption, FS_Surjection
<1>3. S \subseteq Hosts /\ D \subseteq Hosts
  BY RunAssumption DEF Hosts
<1>4. /\ DaemonHosts \in Seq(S) /\ IsInjective(DaemonHosts) /\ ToSet(DaemonHosts) = S
      /\ RecvHosts \in Seq(D) /\ IsInjective(RecvHosts)
  BY <1>1, <1>2, Listing DEF DaemonHosts, RecvHosts
<1>5. DaemonHosts \in Seq(Hosts) /\ RecvHosts \in Seq(Hosts)
  BY <1>3, <1>4, SeqMonotonic
<1>6. ASSUME NEW h, Daemon(h) \in Daemons
      PROVE  h \in ToSet(DaemonHosts)
  BY <1>6 DEF Daemons, Daemon, Proc
<1>7. ASSUME NEW h, h \in ToSet(DaemonHosts)
      PROVE  Daemon(h) \in Daemons
  BY <1>7 DEF Daemons
<1>8. \A q \in Receivers : q.host \in ToSet(RecvHosts)
  BY DEF Receivers, Receiver, Proc
<1>9. QED
  BY <1>4, <1>5, <1>6, <1>7, <1>8

\* What is left after the first host.
LEMMA Rest ==
    ASSUME NEW s \in Seq(Hosts), s # <<>>, IsInjective(s)
    PROVE  /\ Head(s) \in Hosts /\ Head(s) \in ToSet(s)
           /\ Tail(s) \in Seq(Hosts) /\ IsInjective(Tail(s))
           /\ ToSet(Tail(s)) = ToSet(s) \ {Head(s)}
           /\ Len(s) > 1 <=> Tail(s) # <<>>
<1>1. /\ Len(s) \in Nat /\ Len(s) > 0 /\ DOMAIN s = 1 .. Len(s)
      /\ Head(s) = s[1] /\ Head(s) \in Hosts /\ Tail(s) \in Seq(Hosts)
      /\ Len(Tail(s)) = Len(s) - 1
      /\ \A i \in 1 .. Len(Tail(s)) : Tail(s)[i] = s[i + 1]
      /\ DOMAIN Tail(s) = 1 .. Len(Tail(s))
  BY HeadTailProperties, EmptySeq, LenProperties
<1> DEFINE t == Tail(s)
           n == Len(s)
<1>2. /\ n \in Nat /\ n > 0 /\ DOMAIN s = 1 .. n /\ DOMAIN t = 1 .. n - 1
      /\ \A i \in 1 .. n - 1 : t[i] = s[i + 1]
  BY <1>1
<1>3. IsInjective(t)
  BY <1>2 DEF IsInjective
<1>4. ASSUME NEW x \in ToSet(t)
      PROVE  x \in ToSet(s) /\ x # s[1]
  <2>1. PICK i \in 1 .. n - 1 : x = t[i]
    BY <1>2 DEF ToSet
  <2>2. i + 1 \in 1 .. n /\ 1 \in 1 .. n /\ i + 1 # 1 /\ x = s[i + 1]
    BY <1>2, <2>1
  <2>3. QED
    BY <1>2, <2>2 DEF ToSet, IsInjective
<1>5. ASSUME NEW x \in ToSet(s), x # s[1]
      PROVE  x \in ToSet(t)
  <2>1. PICK i \in 1 .. n : x = s[i]
    BY <1>2 DEF ToSet
  <2>2. i - 1 \in 1 .. n - 1 /\ t[i - 1] = x
    BY <1>2, <1>5, <2>1
  <2>3. QED
    BY <1>2, <2>2 DEF ToSet
<1>6. Head(s) \in ToSet(s)
  BY <1>1 DEF ToSet
<1>7. Len(s) > 1 <=> Tail(s) # <<>>
  BY <1>1, EmptySeq
<1>8. QED
  BY <1>1, <1>3, <1>4, <1>5, <1>6, <1>7

-----------------------------------------------------------------------------
(* The processes in the containers.                                           *)

Formed(q) == q.who \in Started /\ q = [who |-> q.who, run |-> q.run, st |-> q.st]

LEMMA Reforms ==
    ASSUME NEW q, Formed(q), NEW st, NEW r, r = [q EXCEPT !.st = st]
    PROVE  r.who = q.who /\ r.run = q.run /\ r.st = st /\ Formed(r)
<1>1. r = [who |-> q.who, run |-> q.run, st |-> st]
  BY DEF Formed
<1>2. QED
  BY <1>1 DEF Formed

\* A step that starts no process leaves those it does not end as they were, but
\* for their state.
Descends(r) == Formed(r) /\ \E q \in inside : r.who = q.who /\ r.run = q.run

Born(r, procs) == Formed(r) /\ r.who \in procs /\ r.run = run' /\ r.st = "up"

LEMMA SpawnBirths ==
    ASSUME Types, NEW procs, procs \subseteq Started, Spawn(procs)
    PROVE  /\ inside \subseteq inside'
           /\ \A r \in inside' : r \in inside \/ Born(r, procs)
           /\ \A p \in procs : \E r \in inside' : r.who = p
<1>1. inside' = inside \cup {[who |-> q, run |-> run', st |-> "up"] : q \in procs}
  BY DEF Spawn
<1>2. ASSUME NEW p \in procs, NEW r, r = [who |-> p, run |-> run', st |-> "up"]
      PROVE  Born(r, procs) /\ r.who = p
  BY <1>2 DEF Born, Formed
<1>3. QED
  BY <1>1, <1>2

\* SIGTERM to every process of a host.
LEMMA TerminatedDescend ==
    ASSUME Types, NEW h, inside' = Terminated(h)
    PROVE  /\ \A r \in inside' : Descends(r)
           /\ \A r \in inside' : r \in inside \/ r.st = "quitting"
           /\ \A q \in inside : q.who.role # "send" =>
                \E r \in inside' : r.who = q.who
<1> DEFINE changed(q) == q.who.host = h /\ q.st \in {"up", "heard"}
           after(q) == [q EXCEPT !.st = "quitting"]
           some == {r \in inside : ~(r.who.host = h /\ r.who.role = "send")}
<1>1. inside' = {IF changed(q) THEN after(q) ELSE q : q \in some}
  BY DEF Terminated
<1>2. ASSUME NEW q \in inside
      PROVE  /\ Formed(q)
             /\ Formed(after(q)) /\ after(q).who = q.who /\ after(q).run = q.run
             /\ after(q).st = "quitting"
  <2>1. Formed(q)
    BY DEF Types, Formed
  <2>2. QED
    BY <2>1, Reforms
<1> HIDE DEF changed, after
<1>3. QED
  BY <1>1, <1>2 DEF Descends

\* A packet that arrives.
LEMMA ArrivesDescend ==
    ASSUME Types, NEW q \in inside, Arrives(q)
    PROVE  /\ \A r \in inside' : Descends(r)
           /\ \A r \in inside' : r \in inside \/ r.who.role = "recv"
           /\ \A p \in inside : p.who.role # "recv" => p \in inside'
<1> DEFINE hears(r) == r.who.role = "recv" /\ r.who.host = Dst[q.who.flow] /\ r.st = "up"
           after(r) == [r EXCEPT !.st = "heard"]
<1>1. inside' = {IF hears(r) THEN after(r) ELSE r : r \in inside}
  BY DEF Arrives
<1>2. ASSUME NEW r \in inside
      PROVE  Formed(r) /\ Formed(after(r)) /\ after(r).who = r.who /\ after(r).run = r.run
  <2>1. Formed(r)
    BY DEF Types, Formed
  <2>2. QED
    BY <2>1, Reforms
<1>3. \A r : hears(r) => r.who.role = "recv"
  OBVIOUS
<1> HIDE DEF hears, after
<1>4. QED
  BY <1>1, <1>2, <1>3 DEF Descends

\* A daemon that has written its report, or failed to.
LEMMA WritesDescend ==
    ASSUME Types, NEW q \in inside, DaemonWrites(q)
    PROVE  \E r : /\ inside' = (inside \ {q}) \cup {r} /\ Descends(r)
                  /\ r.who = q.who /\ r.run = q.run /\ r.st = "wrote"
<1> DEFINE r == [q EXCEPT !.st = "wrote"]
<1>1. inside' = (inside \ {q}) \cup {r}
  BY DEF DaemonWrites, Turns
<1>2. Formed(q)
  BY DEF Types, Formed
<1>3. Formed(r) /\ r.who = q.who /\ r.run = q.run /\ r.st = "wrote"
  BY <1>2, Reforms
<1> HIDE DEF r
<1>4. QED
  BY <1>1, <1>3 DEF Descends

\* The steps that only end processes.
Ends(q) ==
    \/ SenderEnds(q) \/ ReceiverEnds(q) \/ DaemonExits(q) \/ Crash(q)

LEMMA EndsRemoves ==
    ASSUME NEW q, Ends(q)
    PROVE  inside' = inside \ {q}
BY DEF Ends, SenderEnds, ReceiverEnds, DaemonExits, Crash

-----------------------------------------------------------------------------
(* Every process is accounted for.                                            *)

LEMMA Roles ==
    /\ \A q \in Senders : q.role = "send"
    /\ \A q \in Receivers : q.role = "recv" /\ q = Receiver(q.host)
    /\ \A q \in Daemons : q.role = "daemon" /\ q = Daemon(q.host)
    /\ \A h : Daemon(h).role = "daemon" /\ Daemon(h).host = h
    /\ \A h : Receiver(h).role = "recv" /\ Receiver(h).host = h
BY DEF Senders, Receivers, Daemons, Receiver, Daemon, Proc

LEMMA StartedRoles ==
    ASSUME NEW q \in Started
    PROVE  /\ q.role \in {"send", "recv", "daemon"}
           /\ q.role = "send" => q \in Senders
           /\ q.role = "recv" => q \in Receivers
           /\ q.role = "daemon" => q \in Daemons
BY Roles DEF Started

LEMMA AccountInit == RunInit => AccountInv
BY DEF RunInit, AccountInv, Types, Visiting, Due, Early, Stopping

\* What the containers and the operator do to the orchestrator.
LEMMA AsideKeeps ==
    ASSUME AccountInv, Container \/ Interrupt \/ \E q \in Senders : SenderTimesOut(q)
    PROVE  /\ UNCHANGED <<left, run, records, failures, crowded>>
           /\ UNCHANGED pc \/ pc' = "interrupted"
BY DEF Container, Interrupt, SenderTimesOut, Arrives, SenderEnds, ReceiverEnds, DaemonWrites,
       DaemonExits, Crash

LEMMA InsideKeeps == Types /\ RunNext => \A r \in inside' : Formed(r)
<1> SUFFICES ASSUME Types, RunNext
             PROVE  \A r \in inside' : Formed(r)
  OBVIOUS
<1>1. \A r \in inside : Formed(r)
  BY DEF Types, Formed
<1>2. CASE \E procs \in SUBSET Started : Spawn(procs)
  BY <1>1, <1>2, SpawnBirths DEF Born
<1>3. CASE Pkill
  BY <1>1, <1>3, TerminatedDescend DEF Pkill, Descends
<1>4. CASE \E q \in inside : Arrives(q)
  BY <1>4, ArrivesDescend DEF Descends
<1>5. CASE \E q \in inside : DaemonWrites(q)
  <2>1. PICK q \in inside : DaemonWrites(q)
    BY <1>5
  <2>2. PICK r : inside' = (inside \ {q}) \cup {r} /\ Descends(r)
    BY <2>1, WritesDescend
  <2>3. QED
    BY <1>1, <2>2 DEF Descends
<1>6. CASE \E q \in inside : Ends(q)
  BY <1>1, <1>6, EndsRemoves
<1>7. CASE KillAfterWait
  BY <1>1, <1>7 DEF KillAfterWait
<1>8. CASE UNCHANGED inside
  BY <1>1, <1>8
<1>9. Receivers \in SUBSET Started /\ Daemons \in SUBSET Started /\ Senders \in SUBSET Started
  BY DEF Started
<1>10. CASE SpawnReceivers \/ SpawnDaemons \/ SpawnSenders
  BY <1>2, <1>9, <1>10 DEF SpawnReceivers, SpawnDaemons, SpawnSenders
<1>11. CASE Container
  BY <1>4, <1>5, <1>6, <1>11 DEF Container, Ends
<1>12. CASE \/ CollectSenders \/ Terminate \/ Waited \/ Cat \/ CatFails \/ CatGivesUp
            \/ CollectReceiver \/ KillReceiver \/ Interrupt \/ Ended
            \/ \E q \in Senders : SenderTimesOut(q)
  BY <1>8, <1>12 DEF CollectSenders, Terminate, Waited, Cat, CatFails, CatGivesUp,
       CollectReceiver, KillReceiver, Interrupt, Ended, SenderTimesOut
<1>13. QED
  BY <1>3, <1>7, <1>10, <1>11, <1>12 DEF RunNext, RunStep, Orchestrator

LEMMA TypesStep == Types /\ RunNext => Types'
<1> SUFFICES ASSUME Types, RunNext
             PROVE  Types'
  OBVIOUS
<1>1. pc' \in Early \cup Stopping \cup {"receivers", "done"}
  BY DEF Types, RunNext, RunStep, Orchestrator, Container, Early, Stopping,
       SpawnReceivers, SpawnDaemons, SpawnSenders, CollectSenders, Pkill, Terminate, Waited,
       KillAfterWait, Cat, CatFails, CatGivesUp, CollectReceiver, KillReceiver, Interrupt, Ended,
       SenderTimesOut, Arrives, SenderEnds, ReceiverEnds, DaemonWrites, DaemonExits, Crash,
       NextDaemon, VisitReceivers, Visit, NextReceiver
<1>2. run' \in Nat /\ mishaps' \in Nat
  BY DEF Types, RunNext, RunStep, Orchestrator, Container, Mishap,
       SpawnReceivers, SpawnDaemons, SpawnSenders, CollectSenders, Pkill, Terminate, Waited,
       KillAfterWait, Cat, CatFails, CatGivesUp, CollectReceiver, KillReceiver, Interrupt, Ended,
       SenderTimesOut, Arrives, SenderEnds, ReceiverEnds, DaemonWrites, DaemonExits, Crash
<1>3. files' = [h \in Hosts |-> files'[h]]
  <2>1. \/ UNCHANGED files
        \/ \E h, n : files' = [files EXCEPT ![h] = n]
    <3>1. CASE \E q \in inside : DaemonWrites(q)
      BY <3>1 DEF DaemonWrites
    <3>2. CASE ~\E q \in inside : DaemonWrites(q)
      BY <3>2 DEF RunNext, RunStep, Orchestrator, Container,
         SpawnReceivers, SpawnDaemons, SpawnSenders, CollectSenders, Pkill, Terminate, Waited,
         KillAfterWait, Cat, CatFails, CatGivesUp, CollectReceiver, KillReceiver, Interrupt, Ended,
         SenderTimesOut, Arrives, SenderEnds, ReceiverEnds, DaemonExits, Crash
    <3>3. QED
      BY <3>1, <3>2
  <2>2. files = [h \in Hosts |-> files[h]]
    BY DEF Types
  <2>3. ASSUME NEW h, NEW n, files' = [files EXCEPT ![h] = n]
        PROVE  files' = [x \in Hosts |-> files'[x]]
    BY <2>2, <2>3
  <2>4. CASE UNCHANGED files
    BY <2>2, <2>4
  <2>5. QED
    BY <2>1, <2>3, <2>4
<1>4. QED
  BY <1>1, <1>2, <1>3, InsideKeeps DEF Types, Formed

\* The record or the message of a process that has been visited.
LEMMA CollectedOrMissed ==
    ASSUME NEW q, NEW S, NEW T, q \in T \/ Collected(q) \subseteq S, Missed(q) \subseteq T
    PROVE  q \in T \/ \E r \in S : r.who = q
<1>1. CASE client[q] = "report"
  <2>1. Record(q, run, FALSE).who = q
    BY DEF Record
  <2>2. QED
    BY <1>1, <2>1 DEF Collected
<1>2. CASE client[q] # "report"
  BY <1>2 DEF Missed
<1>3. QED
  BY <1>1, <1>2

\* The visit to a daemon ends: the next one or the receivers.
LEMMA NextDaemonKeeps ==
    ASSUME AccountInv, pc \in Stopping, NextDaemon,
           records \subseteq records', failures \subseteq failures',
           LET q == Daemon(Head(left)) IN q \in failures' \/ \E r \in records' : r.who = q
    PROVE  Visiting' /\ \A q \in Started : Accounted(q)' \/ Due(q)'
<1>1. /\ left \in Seq(Hosts) /\ left # <<>> /\ IsInjective(left)
      /\ \A q \in Started : Accounted(q) \/ Due(q)
  BY DEF AccountInv, Visiting
<1>2. /\ Tail(left) \in Seq(Hosts) /\ IsInjective(Tail(left))
      /\ ToSet(Tail(left)) = ToSet(left) \ {Head(left)}
      /\ Len(left) > 1 <=> Tail(left) # <<>>
  BY <1>1, Rest
<1>3. /\ Len(left) > 1 => left' = Tail(left) /\ pc' = "stop"
      /\ ~(Len(left) > 1) => left' = RecvHosts /\ pc' = IF RecvHosts = <<>> THEN "done" ELSE "receivers"
  BY DEF NextDaemon, VisitReceivers, Visit
<1>4. Visiting'
  BY <1>2, <1>3, HostLists DEF Visiting, Stopping
<1>5. ASSUME NEW q \in Started
      PROVE  Accounted(q)' \/ Due(q)'
  <2>1. Accounted(q) => Accounted(q)'
    BY DEF Accounted
  <2>2. CASE q.role = "send"
    BY <1>1, <2>1, <2>2 DEF Due, Early, Stopping
  <2>3. CASE q.role = "daemon"
    <3>1. q = Daemon(q.host)
      BY <2>3, StartedRoles, Roles
    <3>2. CASE q.host = Head(left)
      BY <3>1, <3>2 DEF Accounted
    <3>3. CASE q.host \in ToSet(left) /\ q.host # Head(left)
      <4>1. q.host \in ToSet(Tail(left))
        BY <1>2, <3>3
      <4>2. Tail(left) # <<>>
        BY <4>1 DEF ToSet
      <4>3. QED
        BY <1>2, <1>3, <2>3, <4>1, <4>2 DEF Due, Stopping
    <3>4. CASE q.host \notin ToSet(left)
      BY <1>1, <2>1, <2>3, <3>4 DEF Due, Early, Stopping
    <3>5. QED
      BY <3>2, <3>3, <3>4
  <2>4. CASE q.role = "recv"
    <3>1. q.host \in ToSet(RecvHosts)
      BY <2>4, StartedRoles, HostLists
    <3>2. RecvHosts # <<>>
      BY <3>1 DEF ToSet
    <3>3. QED
      BY <1>3, <2>4, <3>1, <3>2 DEF Due, Stopping
  <2>5. QED
    BY <2>2, <2>3, <2>4, StartedRoles
<1>6. QED
  BY <1>4, <1>5

\* The visit to a receiver ends.
LEMMA NextReceiverKeeps ==
    ASSUME AccountInv, pc = "receivers", NextReceiver,
           records \subseteq records', failures \subseteq failures',
           LET q == Receiver(Head(left)) IN q \in failures' \/ \E r \in records' : r.who = q
    PROVE  Visiting' /\ \A q \in Started : Accounted(q)' \/ Due(q)'
<1>1. /\ left \in Seq(Hosts) /\ left # <<>> /\ IsInjective(left)
      /\ \A q \in Started : Accounted(q) \/ Due(q)
  BY DEF AccountInv, Visiting
<1>2. /\ Tail(left) \in Seq(Hosts) /\ IsInjective(Tail(left))
      /\ ToSet(Tail(left)) = ToSet(left) \ {Head(left)}
      /\ Len(left) > 1 <=> Tail(left) # <<>>
  BY <1>1, Rest
<1>3. left' = Tail(left) /\ pc' = IF Len(left) > 1 THEN "receivers" ELSE "done"
  BY DEF NextReceiver
<1>4. Visiting'
  BY <1>2, <1>3 DEF Visiting, Stopping
<1>5. ASSUME NEW q \in Started
      PROVE  Accounted(q)' \/ Due(q)'
  <2>1. Accounted(q) => Accounted(q)'
    BY DEF Accounted
  <2>2. Due(q) => q.role = "recv" /\ q.host \in ToSet(left)
    BY DEF Due, Early, Stopping
  <2>3. CASE q.role = "recv" /\ q.host = Head(left)
    <3>1. q = Receiver(Head(left))
      BY <2>3, StartedRoles, Roles
    <3>2. QED
      BY <3>1 DEF Accounted
  <2>4. CASE q.role = "recv" /\ q.host \in ToSet(left) /\ q.host # Head(left)
    <3>1. q.host \in ToSet(Tail(left))
      BY <1>2, <2>4
    <3>2. Tail(left) # <<>>
      BY <3>1 DEF ToSet
    <3>3. QED
      BY <1>2, <1>3, <2>4, <3>1, <3>2 DEF Due
  <2>5. QED
    BY <1>1, <2>1, <2>2, <2>3, <2>4
<1>6. QED
  BY <1>4, <1>5

\* The senders' results, and the daemons or receivers that come next.
LEMMA CollectSendersKeeps ==
    ASSUME AccountInv, CollectSenders
    PROVE  Visiting' /\ \A q \in Started : Accounted(q)' \/ Due(q)'
<1>1. /\ records' = records \cup UNION {Collected(q) : q \in Senders}
      /\ failures' = failures \cup UNION {Missed(q) : q \in Senders}
  BY DEF CollectSenders
<1>2. /\ DaemonHosts # <<>> => left' = DaemonHosts /\ pc' = "stop"
      /\ DaemonHosts = <<>> => left' = RecvHosts /\ pc' = IF RecvHosts = <<>> THEN "done" ELSE "receivers"
  BY DEF CollectSenders, VisitReceivers, Visit
<1>3. Visiting'
  BY <1>2, HostLists DEF Visiting, Stopping
<1>4. ASSUME NEW q \in Started
      PROVE  Accounted(q)' \/ Due(q)'
  <2>1. CASE q.role = "send"
    <3>1. q \in Senders
      BY <2>1, StartedRoles
    <3>2. Collected(q) \subseteq records' /\ Missed(q) \subseteq failures'
      BY <1>1, <3>1
    <3>3. QED
      BY <3>2, CollectedOrMissed DEF Accounted
  <2>2. CASE q.role = "daemon"
    <3>1. q.host \in ToSet(DaemonHosts)
      BY <2>2, StartedRoles, Roles, HostLists
    <3>2. DaemonHosts # <<>>
      BY <3>1 DEF ToSet
    <3>3. QED
      BY <1>2, <2>2, <3>1, <3>2 DEF Due, Stopping
  <2>3. CASE q.role = "recv"
    <3>1. q.host \in ToSet(RecvHosts)
      BY <2>3, StartedRoles, HostLists
    <3>2. RecvHosts # <<>>
      BY <3>1 DEF ToSet
    <3>3. QED
      BY <1>2, <2>3, <3>1, <3>2 DEF Due, Stopping
  <2>4. QED
    BY <2>1, <2>2, <2>3, StartedRoles
<1>5. QED
  BY <1>3, <1>4

LEMMA AccountStep == AccountInv /\ [RunNext]_runVars => AccountInv'
<1>1. ASSUME AccountInv, UNCHANGED runVars
      PROVE  AccountInv'
  BY <1>1 DEF runVars, AccountInv, Types, Visiting, Accounted, Due
<1>2. ASSUME AccountInv, RunNext
      PROVE  Visiting' /\ \A q \in Started : Accounted(q)' \/ Due(q)'
  <2> USE <1>2
  <2>1. Visiting /\ \A q \in Started : Accounted(q) \/ Due(q)
    BY DEF AccountInv
  \* Steps that stay on the visit.
  <2>2. ASSUME UNCHANGED left, pc \in Stopping /\ pc' \in Stopping,
               records \subseteq records', failures \subseteq failures'
        PROVE  Visiting' /\ \A q \in Started : Accounted(q)' \/ Due(q)'
    BY <2>1, <2>2 DEF Visiting, Accounted, Due, Early, Stopping
  \* Steps before the first visit, and those that give up.
  <2>3. ASSUME pc' \in Early
        PROVE  Visiting' /\ \A q \in Started : Accounted(q)' \/ Due(q)'
    BY <2>3 DEF Visiting, Due, Early, Stopping
  <2>4. CASE Container \/ Interrupt \/ \E q \in Senders : SenderTimesOut(q)
    <3>1. /\ UNCHANGED <<left, records, failures>>
          /\ UNCHANGED pc \/ pc' = "interrupted"
      BY <2>4, AsideKeeps
    <3>2. CASE pc' = "interrupted"
      BY <2>3, <3>2 DEF Early
    <3>3. CASE UNCHANGED pc
      BY <2>1, <3>1, <3>3 DEF Visiting, Accounted, Due
    <3>4. QED
      BY <3>1, <3>2, <3>3
  <2>5. CASE SpawnReceivers \/ SpawnDaemons \/ SpawnSenders \/ Ended
    BY <2>3, <2>5 DEF SpawnReceivers, SpawnDaemons, SpawnSenders, Ended, Early
  <2>6. CASE CollectSenders
    BY <2>6, CollectSendersKeeps
  <2>7. CASE Pkill \/ Terminate \/ Waited \/ CatFails
    BY <2>2, <2>7 DEF Pkill, Terminate, Waited, CatFails, Stopping
  <2>8. CASE KillAfterWait
    <3>1. Daemon(Head(left)) \in failures' /\ pc \in Stopping /\ NextDaemon
          /\ records' = records /\ failures \subseteq failures'
      BY <2>8 DEF KillAfterWait, Stopping
    <3>2. QED
      BY <3>1, NextDaemonKeeps
  <2>9. CASE Cat
    <3> DEFINE h == Head(left)
               r == Record(Daemon(h), files[h], h \in crowded \/ \E p \in inside : p.who = Daemon(h))
    <3>1. records' = records \cup {r} /\ pc \in Stopping /\ NextDaemon /\ failures' = failures
      BY <2>9 DEF Cat, Stopping
    <3>2. r.who = Daemon(Head(left))
      BY DEF Record
    <3> HIDE DEF r
    <3>3. QED
      BY <3>1, <3>2, NextDaemonKeeps
  <2>10. CASE CatGivesUp
    <3> DEFINE q == Daemon(Head(left))
    <3>1. /\ records' = records \cup Collected(q) /\ failures' = failures \cup Missed(q)
          /\ pc \in Stopping /\ NextDaemon
      BY <2>10 DEF CatGivesUp, Unreported, Stopping
    <3> HIDE DEF q
    <3>2. q \in failures' \/ \E r \in records' : r.who = q
      BY <3>1, CollectedOrMissed
    <3>3. QED
      BY <3>1, <3>2, NextDaemonKeeps DEF q
  <2>11. CASE CollectReceiver
    <3> DEFINE q == Receiver(Head(left))
    <3>1. /\ records' = records \cup Collected(q) /\ failures' = failures \cup Missed(q)
          /\ pc = "receivers" /\ NextReceiver
      BY <2>11 DEF CollectReceiver
    <3> HIDE DEF q
    <3>2. q \in failures' \/ \E r \in records' : r.who = q
      BY <3>1, CollectedOrMissed
    <3>3. QED
      BY <3>1, <3>2, NextReceiverKeeps DEF q
  <2>12. CASE KillReceiver
    <3>1. Receiver(Head(left)) \in failures' /\ pc = "receivers" /\ NextReceiver
          /\ records' = records /\ failures \subseteq failures'
      BY <2>12 DEF KillReceiver
    <3>2. QED
      BY <3>1, NextReceiverKeeps
  <2>13. QED
    BY <2>4, <2>5, <2>6, <2>7, <2>8, <2>9, <2>10, <2>11, <2>12
    DEF RunNext, RunStep, Orchestrator
<1>3. QED
  BY <1>1, <1>2, TypesStep DEF AccountInv

LEMMA AccountAlways == RunSpec => []AccountInv
BY AccountInit, AccountStep, PTL DEF RunSpec

\* A run that ends has a record or a message of every process it has started,
\* whatever has crashed, timed out, been killed or lost its output: in
\* run_flows() no process is passed over between the three rounds of visits.
THEOREM NothingDropped == RunSpec => []AllAccounted
<1>1. AccountInv => AllAccounted
  BY DEF AccountInv, AllAccounted, Accounted, Due, Early, Stopping
<1>2. QED
  BY <1>1, AccountAlways, PTL

-----------------------------------------------------------------------------
(* Whose report is read.                                                      *)

LEMMA OwnInit == RunInit => OwnInv
BY AccountInit DEF RunInit, OwnInv, OwnReportIfEnded, Watched, Stopping

\* What is left to visit keeps to the hosts of daemons.
LEMMA LeftStep ==
    ASSUME OwnInv, RunNext
    PROVE  pc' \in Stopping => \A h \in ToSet(left') : Daemon(h) \in Daemons
<1>1. /\ Visiting
      /\ pc \in Stopping => \A h \in ToSet(left) : Daemon(h) \in Daemons
  BY DEF OwnInv, AccountInv
<1>2. CASE NextDaemon /\ pc \in Stopping
  <2>1. left \in Seq(Hosts) /\ left # <<>> /\ IsInjective(left)
    BY <1>1, <1>2 DEF Visiting
  <2>2. ToSet(Tail(left)) \subseteq ToSet(left)
    BY <2>1, Rest
  <2>3. QED
    BY <1>1, <1>2, <2>2 DEF NextDaemon, VisitReceivers, Visit, Stopping
<1>3. CASE CollectSenders
  BY <1>3, HostLists DEF CollectSenders, VisitReceivers, Visit, Stopping
<1>4. CASE UNCHANGED left /\ (pc' \in Stopping => pc \in Stopping)
  BY <1>1, <1>4
<1>5. CASE pc' \notin Stopping
  BY <1>5
<1>6. QED
  BY <1>2, <1>3, <1>4, <1>5, AsideKeeps DEF OwnInv, Stopping, RunNext, RunStep, Orchestrator,
     SpawnReceivers, SpawnDaemons, SpawnSenders, Pkill, Terminate, Waited, KillAfterWait, Cat,
     CatFails, CatGivesUp, CollectReceiver, KillReceiver, Ended, NextReceiver

\* A daemon's process is known by its host.
LEMMA DaemonAt ==
    ASSUME AccountInv, NEW q \in inside, q.who.role = "daemon"
    PROVE  q.who = Daemon(q.who.host) /\ q.who.host \in Hosts
<1>1. q.who \in Daemons
  BY StartedRoles DEF AccountInv, Types
<1>2. q.who = Daemon(q.who.host)
  BY <1>1, Roles
<1>3. q.who.host \in ToSet(DaemonHosts)
  BY <1>1, <1>2, HostLists
<1>4. QED
  BY <1>2, <1>3, HostLists, LenProperties, ElementOfSeq DEF ToSet

\* A step of a process leaves a watched host in order.
LEMMA ContainerOwn ==
    ASSUME OwnInv, Container, mishaps' = 0, NEW h, Watched(h)'
    PROVE  Own(h)'
<1>1. UNCHANGED <<left, run, crowded, pc>>
  BY DEF Container, Arrives, SenderEnds, ReceiverEnds, DaemonWrites, DaemonExits, Crash
<1>2. mishaps = 0 /\ mishaps + 1 # 0
  BY DEF Container, Arrives, SenderEnds, ReceiverEnds, DaemonWrites, DaemonExits, Crash, Mishap,
         OwnInv, AccountInv, Types
<1>3. Watched(h) /\ Own(h) /\ AccountInv /\ Types /\ h \in Hosts
  <2>1. Watched(h)
    BY <1>1 DEF Watched
  <2>2. h \in ToSet(DaemonHosts)
    BY <2>1, HostLists DEF Watched
  <2>3. h \in Hosts
    BY <2>2, HostLists, LenProperties, ElementOfSeq DEF ToSet
  <2>4. QED
    BY <1>2, <2>1, <2>3 DEF OwnInv, AccountInv
<1> DEFINE d == Daemon(h)
<1>4. d.role = "daemon" /\ d.host = h
  BY Roles
<1>5. /\ \A q \in inside : q.who = d => q.run = run /\ (q.st = "wrote" => files[h] = run)
      /\ (\E q \in inside : q.who = d) \/ files[h] = run
  BY <1>3 DEF Own
<1> HIDE DEF d
<1>6. CASE \E q \in inside : Arrives(q)
  <2>1. /\ \A r \in inside' : r \in inside \/ r.who.role = "recv"
        /\ \A p \in inside : p.who.role # "recv" => p \in inside'
    BY <1>3, <1>6, ArrivesDescend
  <2>2. files' = files
    BY <1>6 DEF Arrives
  <2>3. QED
    BY <1>1, <1>4, <1>5, <2>1, <2>2 DEF Own, d
<1>7. CASE \E q \in inside : Ends(q)
  <2>1. PICK q \in inside : Ends(q)
    BY <1>7
  <2>2. inside' = inside \ {q} /\ files' = files
    BY <2>1, EndsRemoves DEF Ends, SenderEnds, ReceiverEnds, DaemonExits, Crash
  <2>3. q.who.role = "daemon" => q.st = "wrote"
    BY <1>2, <2>1 DEF Ends, SenderEnds, ReceiverEnds, DaemonExits, Crash, Mishap, MayExit
  <2>4. q.who = d => files[h] = run
    BY <1>4, <1>5, <2>3
  <2>5. QED
    BY <1>1, <1>5, <2>2, <2>4 DEF Own, d
<1>8. CASE \E q \in inside : DaemonWrites(q)
  <2>1. PICK q \in inside : DaemonWrites(q)
    BY <1>8
  <2>2. PICK r : inside' = (inside \ {q}) \cup {r} /\ r.who = q.who /\ r.run = q.run
                 /\ r.st = "wrote"
    BY <1>3, <2>1, WritesDescend
  <2>3. files' = [files EXCEPT ![q.who.host] = q.run]
    BY <1>2, <2>1 DEF DaemonWrites, Mishap
  <2>4. q.who = Daemon(q.who.host)
    BY <1>3, <2>1, DaemonAt DEF DaemonWrites
  <2>5. h \in DOMAIN files
    BY <1>3 DEF Types
  <2>6. CASE q.who = d
    <3>1. files'[h] = run
      BY <1>4, <1>5, <2>3, <2>5, <2>6
    <3>2. QED
      BY <1>1, <1>5, <2>2, <2>6, <3>1 DEF Own, d
  <2>7. CASE q.who # d
    <3>1. files'[h] = files[h]
      BY <2>3, <2>4, <2>5, <2>7 DEF d
    <3>2. QED
      BY <1>1, <1>5, <2>2, <2>7, <3>1 DEF Own, d
  <2>8. QED
    BY <2>6, <2>7
<1>9. QED
  BY <1>6, <1>7, <1>8 DEF Container, Ends

\* The daemons of a run are spawned: where none was left, the only one is its own.
LEMMA SpawnDaemonsOwn ==
    ASSUME OwnInv, SpawnDaemons, NEW h, Watched(h)'
    PROVE  Own(h)'
<1>1. /\ run' = run /\ Spawn(Daemons) /\ Daemons \subseteq Started /\ Types
      /\ crowded' = {q.who.host : q \in {p \in inside : p.who.role = "daemon"}}
  BY DEF SpawnDaemons, Started, OwnInv, AccountInv
<1>2. /\ \A r \in inside' : r \in inside \/ Born(r, Daemons)
      /\ \A p \in Daemons : \E r \in inside' : r.who = p
  BY <1>1, SpawnBirths
<1>3. ASSUME NEW r \in inside', r.who = Daemon(h)
      PROVE  r.run = run' /\ r.st # "wrote"
  <2>1. r.who.role = "daemon" /\ r.who.host = h
    BY <1>3, Roles
  <2>2. r \notin inside
    BY <1>1, <2>1 DEF Watched
  <2>3. QED
    BY <1>2, <2>2 DEF Born
<1>4. QED
  BY <1>2, <1>3 DEF Own, Watched

\* A step of the orchestrator leaves a watched host in order.
LEMMA OrchestratorOwn ==
    ASSUME OwnInv, RunNext, ~Container, mishaps' = 0, NEW h, Watched(h)'
    PROVE  Own(h)'
<1>1. mishaps = 0 /\ mishaps + 1 # 0
  BY DEF RunNext, RunStep, Orchestrator, SpawnReceivers, SpawnDaemons, SpawnSenders,
       CollectSenders, Pkill, Terminate, Waited, KillAfterWait, Cat, CatFails, CatGivesUp,
       CollectReceiver, KillReceiver, Interrupt, Ended, SenderTimesOut, Mishap,
       OwnInv, AccountInv, Types
<1>2. AccountInv /\ Types /\ Visiting /\ (Watched(h) => Own(h))
  BY <1>1 DEF OwnInv, AccountInv
<1>3. Daemon(h).role = "daemon" /\ Daemon(h).host = h
  BY Roles
<1>4. CASE SpawnDaemons
  BY <1>4, SpawnDaemonsOwn
<1>5. CASE SpawnSenders
  <2>1. /\ UNCHANGED <<run, files, crowded>> /\ Spawn(Senders) /\ Senders \subseteq Started
        /\ pc = "snapshots"
    BY <1>5 DEF SpawnSenders, Started
  <2>2. inside \subseteq inside' /\ \A r \in inside' : r \in inside \/ Born(r, Senders)
    BY <1>2, <2>1, SpawnBirths
  <2>3. \A r \in inside' : r.who = Daemon(h) => r \in inside
    BY <1>3, <2>2, Roles DEF Born
  <2>4. Own(h)
    BY <1>2, <2>1 DEF Watched
  <2>5. QED
    BY <2>1, <2>2, <2>3, <2>4 DEF Own
<1>6. CASE Pkill
  <2>1. /\ UNCHANGED <<left, run, files, crowded>> /\ pc \in Stopping /\ pc' \in Stopping
        /\ inside' = Terminated(Head(left))
    BY <1>1, <1>6 DEF Pkill, Mishap, Stopping
  <2>2. /\ \A r \in inside' : Descends(r) /\ (r \in inside \/ r.st = "quitting")
        /\ \A q \in inside : q.who.role # "send" => \E r \in inside' : r.who = q.who
    BY <1>2, <2>1, TerminatedDescend
  <2>3. Own(h)
    BY <1>2, <2>1 DEF Watched, Stopping
  <2>4. QED
    BY <1>3, <2>1, <2>2, <2>3 DEF Own, Descends
\* A visit ends: the host is another one.
<1>7. ASSUME NextDaemon, pc \in Stopping
      PROVE  h # Head(left) /\ h \in ToSet(left)
  <2>1. left \in Seq(Hosts) /\ left # <<>> /\ IsInjective(left)
    BY <1>2, <1>7 DEF Visiting
  <2>2. h \in ToSet(Tail(left))
    BY <1>7 DEF Watched, NextDaemon, VisitReceivers, Visit, Stopping
  <2>3. QED
    BY <2>1, <2>2, Rest
<1>8. CASE KillAfterWait
  <2>1. /\ UNCHANGED <<run, files, crowded>> /\ pc \in Stopping /\ NextDaemon
        /\ inside' = {q \in inside : q.who.host # Head(left)}
    BY <1>8 DEF KillAfterWait, Stopping
  <2>2. h # Head(left) /\ Own(h)
    BY <1>2, <1>7, <2>1 DEF Watched
  <2>3. QED
    BY <1>3, <2>1, <2>2 DEF Own
<1>9. CASE Cat \/ CatGivesUp
  <2>1. UNCHANGED <<run, files, crowded, inside>> /\ pc \in Stopping /\ NextDaemon
    BY <1>9 DEF Cat, CatGivesUp, Stopping
  <2>2. Own(h)
    BY <1>2, <1>7, <2>1 DEF Watched
  <2>3. QED
    BY <2>1, <2>2 DEF Own
<1>10. CASE Terminate \/ Waited \/ CatFails
  <2>1. UNCHANGED <<left, run, files, crowded, inside>> /\ pc \in Stopping /\ pc' \in Stopping
    BY <1>10 DEF Terminate, Waited, CatFails, Stopping
  <2>2. Own(h)
    BY <1>2, <2>1 DEF Watched, Stopping
  <2>3. QED
    BY <2>1, <2>2 DEF Own
<1>11. CASE CollectSenders
  <2>1. UNCHANGED <<run, files, crowded, inside>> /\ pc = "sending"
    BY <1>11 DEF CollectSenders
  <2>2. Own(h)
    BY <1>2, <2>1 DEF Watched
  <2>3. QED
    BY <2>1, <2>2 DEF Own
<1>12. CASE SpawnReceivers \/ CollectReceiver \/ KillReceiver \/ Interrupt \/ Ended
            \/ \E q \in Senders : SenderTimesOut(q)
  BY <1>1, <1>12 DEF SpawnReceivers, CollectReceiver, KillReceiver, NextReceiver, Interrupt,
     Ended, SenderTimesOut, Mishap, Watched, Stopping
<1>13. QED
  BY <1>4, <1>5, <1>6, <1>8, <1>9, <1>10, <1>11, <1>12 DEF RunNext, RunStep, Orchestrator

\* What is collected from a client is this run's.
LEMMA CollectedOwn == \A q : \A r \in Collected(q) : r.of = run
BY DEF Collected, Record

LEMMA RecordsStep == OwnInv /\ RunNext => OwnReportIfEnded'
<1> SUFFICES ASSUME OwnInv, RunNext, mishaps' = 0, NEW r \in records'
             PROVE  r.raced \/ r.of = run'
  BY DEF OwnReportIfEnded
<1>1. mishaps = 0
  BY DEF RunNext, RunStep, Orchestrator, Container, Mishap, OwnInv, AccountInv, Types,
       SpawnReceivers, SpawnDaemons, SpawnSenders, CollectSenders, Pkill, Terminate, Waited,
       KillAfterWait, Cat, CatFails, CatGivesUp, CollectReceiver, KillReceiver, Interrupt, Ended,
       SenderTimesOut, Arrives, SenderEnds, ReceiverEnds, DaemonWrites, DaemonExits, Crash
<1>2. \A x \in records : x.raced \/ x.of = run
  BY <1>1 DEF OwnInv, OwnReportIfEnded
<1>3. CASE SpawnReceivers
  BY <1>3 DEF SpawnReceivers
<1>4. CASE CollectSenders \/ CatGivesUp \/ CollectReceiver
  BY <1>2, <1>4, CollectedOwn DEF CollectSenders, CatGivesUp, CollectReceiver
<1>5. CASE Cat
  <2> DEFINE h == Head(left)
             raced == h \in crowded \/ \E p \in inside : p.who = Daemon(h)
             new == Record(Daemon(h), files[h], raced)
  <2>1. records' = records \cup {new} /\ run' = run /\ pc \in Stopping
    BY <1>5 DEF Cat, Stopping
  <2>2. new.of = files[h] /\ new.raced = raced
    BY DEF Record
  <2>3. h \in ToSet(left) /\ Daemon(h) \in Daemons
    <3>1. left \in Seq(Hosts) /\ left # <<>> /\ IsInjective(left)
      BY <2>1 DEF OwnInv, AccountInv, Visiting
    <3>2. QED
      BY <2>1, <3>1, Rest DEF OwnInv
  <2>4. ~raced => files[h] = run
    <3>1. ~raced => Watched(h)
      BY <2>1, <2>3 DEF Watched
    <3>2. Watched(h) => Own(h)
      BY <1>1 DEF OwnInv
    <3>3. QED
      BY <3>1, <3>2 DEF Own
  <2> HIDE DEF new, raced
  <2>5. QED
    BY <1>2, <2>1, <2>2, <2>4
<1>6. CASE UNCHANGED <<records, run>>
  BY <1>2, <1>6
<1>7. QED
  BY <1>3, <1>4, <1>5, <1>6, AsideKeeps DEF OwnInv, RunNext, RunStep, Orchestrator,
     SpawnDaemons, SpawnSenders, Pkill, Terminate, Waited, KillAfterWait, CatFails,
     KillReceiver, Ended

LEMMA OwnStep == OwnInv /\ [RunNext]_runVars => OwnInv'
<1>1. ASSUME OwnInv, UNCHANGED runVars
      PROVE  OwnInv'
  <2>1. AccountInv'
    BY <1>1, AccountStep DEF OwnInv
  <2>2. QED
    BY <1>1, <2>1 DEF runVars, OwnInv, OwnReportIfEnded, Watched, Own
<1>2. ASSUME OwnInv, RunNext
      PROVE  OwnInv'
  <2>1. AccountInv'
    BY <1>2, AccountStep DEF OwnInv
  <2>2. ASSUME mishaps' = 0, NEW h, Watched(h)'
        PROVE  Own(h)'
    BY <1>2, <2>2, ContainerOwn, OrchestratorOwn
  <2>3. QED
    BY <1>2, <2>1, <2>2, LeftStep, RecordsStep DEF OwnInv
<1>3. QED
  BY <1>1, <1>2

\* A final report that is read once its daemon has ended is that daemon's, unless
\* an earlier run's was still there to overwrite it or something failed: the
\* daemon writes the file before it exits, and no one else does.
THEOREM ReadReportsOwn == RunSpec => []OwnReportIfEnded
<1>1. OwnInv => OwnReportIfEnded
  BY DEF OwnInv
<1>2. QED
  BY <1>1, OwnInit, OwnStep, PTL DEF RunSpec
=============================================================================
