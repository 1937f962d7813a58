------------------------------- MODULE LabProofs -------------------------------
(***************************************************************************)
(* Proofs about LabFaults, for every number of scenario runs, operators    *)
(* and NICs: who answers for the netem on a NIC; and, for one operator,    *)
(* that the fault file and the command under way account for every         *)
(* interface that is down.                                                 *)
(***************************************************************************)
EXTENDS LabFaults, SequenceTheorems, FiniteSetTheorems, WellFoundedInduction, TLAPS

\* A job has the fields of Idle.
Job(pc, todo, applied, targets, mem) ==
    [pc |-> pc, todo |-> todo, applied |-> applied, targets |-> targets, mem |-> mem]

Shape(j) == j = Job(j.pc, j.todo, j.applied, j.targets, j.mem)

\* What a job says of itself: a target of a Netem that is being applied is up or
\* still to come.
JobOK(j) ==
    /\ Shape(j)
    /\ j.applied \in Seq(NICs)
    /\ j.pc = "idle" => j.applied = <<>>
    /\ j.pc = "apply" =>
         /\ j.todo \in Seq(NICs)
         /\ \A x \in ToSet(j.targets) : Contains(j.applied, x) \/ Contains(j.todo, x)
    /\ j.pc = "running" => \A x \in ToSet(j.targets) : Contains(j.applied, x)

\* The NICs of s are p's, each once.
Holds(p, s, q) ==
    /\ \A i \in 1 .. Len(s) : q[s[i]] = p
    /\ \A i, k \in 1 .. Len(s) : s[i] = s[k] => i = k

Types ==
    /\ qdisc \in [NICs -> Procs \cup {None}]
    /\ glitches \in Nat
    /\ job = [p \in Procs |-> job[p]]

LabInv ==
    /\ Types
    /\ \A p \in Procs : JobOK(job[p]) /\ Holds(p, job[p].applied, qdisc)
    /\ NoStray

-----------------------------------------------------------------------------
(* Sequences of NICs.                                                         *)

LEMMA AppendContains ==
    ASSUME NEW s \in Seq(NICs), NEW n \in NICs
    PROVE  /\ Append(s, n) \in Seq(NICs)
           /\ \A x : Contains(Append(s, n), x) <=> Contains(s, x) \/ x = n
<1>1. /\ Append(s, n) \in Seq(NICs) /\ Len(Append(s, n)) = Len(s) + 1
      /\ \A i \in 1 .. Len(s) : Append(s, n)[i] = s[i]
      /\ Append(s, n)[Len(s) + 1] = n /\ Len(s) \in Nat
  BY AppendProperties
<1>2. QED
  BY <1>1 DEF Contains

LEMMA TailContains ==
    ASSUME NEW s \in Seq(NICs), s # <<>>
    PROVE  /\ Head(s) \in NICs /\ Tail(s) \in Seq(NICs)
           /\ \A x : Contains(s, x) => x = Head(s) \/ Contains(Tail(s), x)
<1>1. /\ Head(s) \in NICs /\ Tail(s) \in Seq(NICs) /\ Len(Tail(s)) = Len(s) - 1
      /\ \A i \in 1 .. Len(Tail(s)) : Tail(s)[i] = s[i + 1]
      /\ Len(s) \in Nat /\ Len(s) > 0 /\ Head(s) = s[1]
  BY HeadTailProperties, EmptySeq, LenProperties
<1>2. ASSUME NEW i \in 1 .. Len(s), i # 1
      PROVE  i - 1 \in 1 .. Len(Tail(s)) /\ Tail(s)[i - 1] = s[i]
  BY <1>1, <1>2
<1>3. QED
  BY <1>1, <1>2 DEF Contains

LEMMA FrontContains ==
    ASSUME NEW s \in Seq(NICs), s # <<>>
    PROVE  /\ Last(s) \in NICs /\ Front(s) \in Seq(NICs)
           /\ Len(s) \in Nat /\ Len(s) > 0 /\ Last(s) = s[Len(s)]
           /\ Len(Front(s)) = Len(s) - 1
           /\ \A i \in 1 .. Len(Front(s)) : Front(s)[i] = s[i]
           /\ \A x : Contains(s, x) => x = Last(s) \/ Contains(Front(s), x)
<1>1. Len(s) \in Nat /\ Len(s) > 0
  BY EmptySeq, LenProperties
<1>2. Last(s) \in NICs /\ Last(s) = s[Len(s)]
  BY <1>1, ElementOfSeq DEF Last
<1>3. /\ Front(s) \in Seq(NICs) /\ Len(Front(s)) = Len(s) - 1
      /\ \A i \in 1 .. Len(Front(s)) : Front(s)[i] = s[i]
  <2> DEFINE k == Len(s) - 1
             f == SubSeq(s, 1, k)
  <2>1. k \in Nat /\ \A i \in 1 .. k : s[i] \in NICs
    BY <1>1, ElementOfSeq
  <2>2. f \in Seq(NICs) /\ Len(f) = (IF 1 <= k THEN k - 1 + 1 ELSE 0)
        /\ \A i \in 1 .. k - 1 + 1 : f[i] = s[1 + i - 1]
    <3> HIDE DEF k
    <3> 1 \in Int /\ k \in Int
      BY <2>1
    <3> QED
      BY <2>1, SubSeqProperties
  <2>3. Front(s) = f
    BY DEF Front
  <2> HIDE DEF f, k
  <2>4. f \in Seq(NICs) /\ Len(f) = k /\ \A i \in 1 .. k : f[i] = s[i]
    BY <2>1, <2>2
  <2>5. QED
    BY <2>3, <2>4 DEF k
<1>4. QED
  BY <1>1, <1>2, <1>3 DEF Contains

LEMMA EmptyContains == <<>> \in Seq(NICs) /\ Len(<<>>) = 0 /\ \A x : ~Contains(<<>>, x)
BY EmptySeq DEF Contains

-----------------------------------------------------------------------------
(* Jobs.                                                                      *)

LEMMA JobFields ==
    ASSUME NEW pc, NEW todo, NEW applied, NEW targets, NEW mem, NEW j,
           j = Job(pc, todo, applied, targets, mem)
    PROVE  /\ j.pc = pc /\ j.todo = todo /\ j.applied = applied /\ j.targets = targets
           /\ j.mem = mem /\ Shape(j)
<1>1. /\ j.pc = pc /\ j.todo = todo /\ j.applied = applied /\ j.targets = targets
      /\ j.mem = mem
  BY DEF Job
<1>2. QED
  BY <1>1 DEF Shape

\* The updates of a job that the actions make.
LEMMA Updates ==
    ASSUME NEW j, Shape(j), NEW pc, NEW todo, NEW applied
    PROVE  /\ [j EXCEPT !.pc = pc] = Job(pc, j.todo, j.applied, j.targets, j.mem)
           /\ [j EXCEPT !.todo = todo] = Job(j.pc, todo, j.applied, j.targets, j.mem)
           /\ [j EXCEPT !.applied = applied] =
                Job(j.pc, j.todo, applied, j.targets, j.mem)
           /\ [j EXCEPT !.todo = todo, !.applied = applied] =
                Job(j.pc, todo, applied, j.targets, j.mem)
           /\ [j EXCEPT !.pc = pc, !.applied = applied] =
                Job(pc, j.todo, applied, j.targets, j.mem)
<1>1. [j EXCEPT !.pc = pc] = Job(pc, j.todo, j.applied, j.targets, j.mem)
  BY DEF Shape, Job
<1>2. [j EXCEPT !.todo = todo] = Job(j.pc, todo, j.applied, j.targets, j.mem)
  BY DEF Shape, Job
<1>3. [j EXCEPT !.applied = applied] = Job(j.pc, j.todo, applied, j.targets, j.mem)
  BY DEF Shape, Job
<1>4. [j EXCEPT !.todo = todo, !.applied = applied] =
        Job(j.pc, todo, applied, j.targets, j.mem)
  <2> DEFINE k == [j EXCEPT !.todo = todo]
  <2>1. k = Job(j.pc, todo, j.applied, j.targets, j.mem)
    BY DEF Shape, Job
  <2>2. [k EXCEPT !.applied = applied] = [j EXCEPT !.todo = todo, !.applied = applied]
    OBVIOUS
  <2> HIDE DEF k
  <2>3. QED
    BY <2>1, <2>2 DEF Job
<1>5. [j EXCEPT !.pc = pc, !.applied = applied] =
        Job(pc, j.todo, applied, j.targets, j.mem)
  <2> DEFINE k == [j EXCEPT !.pc = pc]
  <2>1. k = Job(pc, j.todo, j.applied, j.targets, j.mem)
    BY DEF Shape, Job
  <2>2. [k EXCEPT !.applied = applied] = [j EXCEPT !.pc = pc, !.applied = applied]
    OBVIOUS
  <2> HIDE DEF k
  <2>3. QED
    BY <2>1, <2>2 DEF Job
<1>6. QED
  BY <1>1, <1>2, <1>3, <1>4, <1>5

\* What ApplyDone makes of an operator's job.
LEMMA Recording ==
    ASSUME NEW j, Shape(j), NEW mem
    PROVE  [j EXCEPT !.pc = "record", !.mem = mem] =
             Job("record", j.todo, j.applied, j.targets, mem)
<1> DEFINE k == [j EXCEPT !.pc = "record"]
<1>1. k = Job("record", j.todo, j.applied, j.targets, j.mem)
  BY DEF Shape, Job
<1>2. [k EXCEPT !.mem = mem] = [j EXCEPT !.pc = "record", !.mem = mem]
  OBVIOUS
<1> HIDE DEF k
<1>3. QED
  BY <1>1, <1>2 DEF Job

LEMMA IdleJob ==
    /\ Shape(Idle) /\ Idle.pc = "idle" /\ Idle.applied = <<>> /\ Idle.todo = <<>>
    /\ Idle.targets = <<>> /\ Idle.mem = <<>> /\ JobOK(Idle)
<1> DEFINE j == Idle
<1>1. j = Job("idle", <<>>, <<>>, <<>>, <<>>)
  BY DEF Idle, Job
<1> HIDE DEF j
<1>2. /\ Shape(j) /\ j.pc = "idle" /\ j.applied = <<>> /\ j.todo = <<>>
      /\ j.targets = <<>> /\ j.mem = <<>>
  BY <1>1, JobFields
<1>3. JobOK(j)
  BY <1>2, EmptyContains DEF JobOK
<1>4. QED
  BY <1>2, <1>3 DEF j

\* The jobs that commands and scenarios begin with.
LEMMA ApplyJob ==
    ASSUME NEW todo, NEW targets
    PROVE  [Idle EXCEPT !.pc = "apply", !.todo = todo, !.targets = targets] =
             Job("apply", todo, <<>>, targets, <<>>)
<1> DEFINE a == Idle
           b == [a EXCEPT !.pc = "apply"]
           c == [b EXCEPT !.todo = todo]
           d == [c EXCEPT !.targets = targets]
<1>1. [Idle EXCEPT !.pc = "apply", !.todo = todo, !.targets = targets] = d
  OBVIOUS
<1>2. a = Job("idle", <<>>, <<>>, <<>>, <<>>)
  BY DEF Idle, Job
<1> HIDE DEF a
<1>3. b = Job("apply", <<>>, <<>>, <<>>, <<>>)
  BY <1>2 DEF Job
<1> HIDE DEF b
<1>4. c = Job("apply", todo, <<>>, <<>>, <<>>)
  BY <1>3 DEF Job
<1> HIDE DEF c
<1>5. d = Job("apply", todo, <<>>, targets, <<>>)
  BY <1>4 DEF Job
<1>6. QED
  BY <1>1, <1>5

LEMMA ShutJob ==
    ASSUME NEW todo, NEW targets, NEW mem
    PROVE  [Idle EXCEPT !.pc = "shut", !.todo = todo, !.targets = targets, !.mem = mem] =
             Job("shut", todo, <<>>, targets, mem)
<1> DEFINE a == Idle
           b == [a EXCEPT !.pc = "shut"]
           c == [b EXCEPT !.todo = todo]
           d == [c EXCEPT !.targets = targets]
           e == [d EXCEPT !.mem = mem]
<1>1. [Idle EXCEPT !.pc = "shut", !.todo = todo, !.targets = targets, !.mem = mem] = e
  OBVIOUS
<1>2. a = Job("idle", <<>>, <<>>, <<>>, <<>>)
  BY DEF Idle, Job
<1> HIDE DEF a
<1>3. b = Job("shut", <<>>, <<>>, <<>>, <<>>)
  BY <1>2 DEF Job
<1> HIDE DEF b
<1>4. c = Job("shut", todo, <<>>, <<>>, <<>>)
  BY <1>3 DEF Job
<1> HIDE DEF c
<1>5. d = Job("shut", todo, <<>>, targets, <<>>)
  BY <1>4 DEF Job
<1> HIDE DEF d
<1>6. e = Job("shut", todo, <<>>, targets, mem)
  BY <1>5 DEF Job
<1>7. QED
  BY <1>1, <1>6

LEMMA ClearJob ==
    ASSUME NEW todo, NEW mem
    PROVE  [Idle EXCEPT !.pc = "clear", !.todo = todo, !.mem = mem] =
             Job("clear", todo, <<>>, <<>>, mem)
<1> DEFINE a == Idle
           b == [a EXCEPT !.pc = "clear"]
           c == [b EXCEPT !.todo = todo]
           d == [c EXCEPT !.mem = mem]
<1>1. [Idle EXCEPT !.pc = "clear", !.todo = todo, !.mem = mem] = d
  OBVIOUS
<1>2. a = Job("idle", <<>>, <<>>, <<>>, <<>>)
  BY DEF Idle, Job
<1> HIDE DEF a
<1>3. b = Job("clear", <<>>, <<>>, <<>>, <<>>)
  BY <1>2 DEF Job
<1> HIDE DEF b
<1>4. c = Job("clear", todo, <<>>, <<>>, <<>>)
  BY <1>3 DEF Job
<1> HIDE DEF c
<1>5. d = Job("clear", todo, <<>>, <<>>, mem)
  BY <1>4 DEF Job
<1>6. QED
  BY <1>1, <1>5

\* The elements of a sequence are what it contains.
LEMMA ToSetContains ==
    ASSUME NEW s \in Seq(NICs), NEW x \in ToSet(s)
    PROVE  Contains(s, x) /\ x \in NICs
<1>1. DOMAIN s = 1 .. Len(s)
  BY LenProperties
<1>2. PICK i \in DOMAIN s : x = s[i]
  BY DEF ToSet
<1>3. QED
  BY <1>1, <1>2, ElementOfSeq DEF Contains

LEMMA ProcsDiffer ==
    /\ Scenarios \cap Operators = {} /\ None \notin Procs
    /\ Scenarios \subseteq Procs /\ Operators \subseteq Procs
    /\ \A t \in Targets : t \in Seq(NICs)
BY LabAssumption DEF Procs

-----------------------------------------------------------------------------
(* The invariant.                                                             *)

LEMMA LabInvInit == LabInit => LabInv
<1> SUFFICES ASSUME LabInit
             PROVE  LabInv
  OBVIOUS
<1>1. Types
  BY DEF LabInit, Types
<1>2. ASSUME NEW p \in Procs
      PROVE  JobOK(job[p]) /\ Holds(p, job[p].applied, qdisc)
  <2>1. job[p] = Idle
    BY DEF LabInit
  <2>2. QED
    BY <2>1, IdleJob, EmptyContains DEF Holds
<1>3. NoStray
  BY ProcsDiffer DEF LabInit, NoStray
<1>4. QED
  BY <1>1, <1>2, <1>3 DEF LabInv

\* A step of one process that leaves the NICs alone.
LEMMA LocalStep ==
    ASSUME LabInv, NEW p \in Procs, NEW j, JobOK(j), Becomes(p, j),
           qdisc' = qdisc, Holds(p, j.applied, qdisc),
           glitches' \in {glitches, glitches + 1},
           p \in Scenarios /\ glitches' = glitches =>
               \A n \in NICs : Contains(job[p].applied, n) => Contains(j.applied, n)
    PROVE  LabInv'
<1>1. glitches \in Nat /\ qdisc \in [NICs -> Procs \cup {None}]
      /\ job = [q \in Procs |-> job[q]]
  BY DEF LabInv, Types
<1>2. job'[p] = j /\ \A q \in Procs : q # p => job'[q] = job[q]
  BY <1>1 DEF Becomes
<1>3. Types'
  <2>1. job' = [q \in Procs |-> job'[q]]
    BY <1>1 DEF Becomes
  <2>2. glitches' \in Nat
    BY <1>1
  <2>3. QED
    BY <1>1, <2>1, <2>2 DEF Types
<1>4. ASSUME NEW q \in Procs
      PROVE  JobOK(job[q])' /\ Holds(q, job[q].applied, qdisc)'
  <2>1. CASE q = p
    BY <1>2, <2>1
  <2>2. CASE q # p
    BY <1>2, <2>2 DEF LabInv
  <2>3. QED
    BY <2>1, <2>2
<1>5. NoStray'
  <2> SUFFICES ASSUME glitches' = 0, NEW n \in NICs, qdisc'[n] \in Scenarios
               PROVE  Contains(job'[qdisc'[n]].applied, n)
    BY DEF NoStray
  <2>1. glitches = 0 /\ glitches' = glitches
    BY <1>1
  <2>2. Contains(job[qdisc[n]].applied, n)
    BY <2>1 DEF LabInv, NoStray
  <2>3. QED
    BY <1>2, <2>1, <2>2, ProcsDiffer
<1>6. QED
  BY <1>3, <1>4, <1>5 DEF LabInv

\* What a command or a scenario begins with.
LEMMA FreshStep ==
    ASSUME LabInv, NEW p \in Procs, NEW j, JobOK(j), Becomes(p, j),
           qdisc' = qdisc, j.applied = <<>>,
           glitches' \in {glitches, glitches + 1},
           \/ p \notin Scenarios
           \/ glitches' = glitches + 1
           \/ job[p].applied = <<>>
    PROVE  LabInv'
<1>1. glitches \in Nat /\ glitches + 1 # glitches
  BY DEF LabInv, Types
<1>2. Holds(p, j.applied, qdisc)
  BY EmptyContains DEF Holds
<1>3. p \in Scenarios /\ glitches' = glitches =>
        \A n \in NICs : Contains(job[p].applied, n) => Contains(j.applied, n)
  BY <1>1, EmptyContains
<1>4. QED
  BY <1>2, <1>3, LocalStep

\* tc qdisc add by p on a free NIC.
LEMMA AddStep ==
    ASSUME LabInv, NEW p \in Procs, NEW n \in NICs, NEW j, JobOK(j), Becomes(p, j),
           qdisc[n] = None, qdisc' = [qdisc EXCEPT ![n] = p],
           j.applied = Append(job[p].applied, n), glitches' = glitches
    PROVE  LabInv'
<1>1. glitches \in Nat /\ qdisc \in [NICs -> Procs \cup {None}]
      /\ job = [q \in Procs |-> job[q]]
  BY DEF LabInv, Types
<1>2. job'[p] = j /\ \A q \in Procs : q # p => job'[q] = job[q]
  BY <1>1 DEF Becomes
<1>3. qdisc'[n] = p /\ \A m \in NICs : m # n => qdisc'[m] = qdisc[m]
  BY <1>1
<1>4. Types'
  <2>1. job' = [q \in Procs |-> job'[q]]
    BY <1>1 DEF Becomes
  <2>2. qdisc' \in [NICs -> Procs \cup {None}]
    BY <1>1
  <2>3. QED
    BY <1>1, <2>1, <2>2 DEF Types
<1>5. ASSUME NEW q \in Procs
      PROVE  JobOK(job[q])' /\ Holds(q, job[q].applied, qdisc)'
  <2> DEFINE s == job[q].applied
  <2>1. /\ JobOK(job[q]) /\ s \in Seq(NICs) /\ Len(s) \in Nat
        /\ \A i \in 1 .. Len(s) : s[i] \in NICs /\ qdisc[s[i]] = q /\ s[i] # n
        /\ \A i, k \in 1 .. Len(s) : s[i] = s[k] => i = k
    <3>1. JobOK(job[q]) /\ Holds(q, s, qdisc) /\ s \in Seq(NICs)
      BY DEF LabInv, JobOK
    <3>2. Len(s) \in Nat /\ \A i \in 1 .. Len(s) : s[i] \in NICs
      BY <3>1, LenProperties, ElementOfSeq
    <3>3. \A i \in 1 .. Len(s) : s[i] # n
      BY <3>1, ProcsDiffer DEF Holds
    <3>4. QED
      BY <3>1, <3>2, <3>3 DEF Holds
  <2>2. CASE q = p
    <3>1. /\ Len(j.applied) = Len(s) + 1 /\ j.applied[Len(s) + 1] = n
          /\ \A i \in 1 .. Len(s) : j.applied[i] = s[i]
      BY <2>1, <2>2, AppendProperties
    <3>2. Holds(p, j.applied, qdisc')
      BY <1>3, <2>1, <2>2, <3>1 DEF Holds
    <3>3. QED
      BY <1>2, <2>2, <3>2
  <2>3. CASE q # p
    <3>1. Holds(q, s, qdisc')
      BY <1>3, <2>1 DEF Holds
    <3>2. QED
      BY <1>2, <2>1, <2>3, <3>1
  <2>4. QED
    BY <2>2, <2>3
<1>6. NoStray'
  <2> SUFFICES ASSUME glitches' = 0, NEW m \in NICs, qdisc'[m] \in Scenarios
               PROVE  Contains(job'[qdisc'[m]].applied, m)
    BY DEF NoStray
  <2>1. job[p].applied \in Seq(NICs)
    BY DEF LabInv, JobOK
  <2>2. \A x : Contains(j.applied, x) <=> Contains(job[p].applied, x) \/ x = n
    BY <2>1, AppendContains
  <2>3. CASE m = n
    BY <1>2, <1>3, <2>2, <2>3
  <2>4. CASE m # n
    <3>1. Contains(job[qdisc[m]].applied, m) /\ qdisc'[m] = qdisc[m]
      BY <1>3, <2>4 DEF LabInv, NoStray
    <3>2. CASE qdisc[m] = p
      BY <1>2, <2>2, <3>1, <3>2
    <3>3. CASE qdisc[m] # p
      <4>1. job'[qdisc[m]] = job[qdisc[m]]
        BY <1>2, <3>1, <3>3, ProcsDiffer
      <4>2. QED
        BY <3>1, <4>1
    <3>4. QED
      BY <3>2, <3>3
  <2>5. QED
    BY <2>3, <2>4
<1>7. QED
  BY <1>4, <1>5, <1>6 DEF LabInv

\* tc qdisc del by p of the NIC it applied last.
LEMMA DelStep ==
    ASSUME LabInv, NEW p \in Procs, NEW j, JobOK(j), Becomes(p, j),
           job[p].applied # <<>>,
           qdisc' = [qdisc EXCEPT ![Last(job[p].applied)] = None],
           j.applied = Front(job[p].applied), glitches' = glitches
    PROVE  LabInv'
<1> DEFINE a == job[p].applied
           n == Last(a)
<1>1. glitches \in Nat /\ qdisc \in [NICs -> Procs \cup {None}]
      /\ job = [q \in Procs |-> job[q]]
  BY DEF LabInv, Types
<1>2. job'[p] = j /\ \A q \in Procs : q # p => job'[q] = job[q]
  BY <1>1 DEF Becomes
<1>3. a \in Seq(NICs) /\ Holds(p, a, qdisc)
  BY DEF LabInv, JobOK
<1>4. /\ n \in NICs /\ Front(a) \in Seq(NICs)
      /\ Len(a) \in Nat /\ Len(a) > 0 /\ n = a[Len(a)]
      /\ Len(Front(a)) = Len(a) - 1
      /\ \A i \in 1 .. Len(Front(a)) : Front(a)[i] = a[i]
      /\ \A x : Contains(a, x) => x = n \/ Contains(Front(a), x)
  BY <1>3, FrontContains
<1>5. qdisc[n] = p
  BY <1>3, <1>4 DEF Holds
<1> HIDE DEF n, a
<1>6. qdisc' = [qdisc EXCEPT ![n] = None]
  BY DEF n, a
<1>7. qdisc'[n] = None /\ \A m \in NICs : m # n => qdisc'[m] = qdisc[m]
  BY <1>1, <1>4, <1>6
<1>8. Types'
  <2>1. job' = [q \in Procs |-> job'[q]]
    BY <1>1 DEF Becomes
  <2>2. qdisc' \in [NICs -> Procs \cup {None}]
    BY <1>1, <1>6
  <2>3. QED
    BY <1>1, <2>1, <2>2 DEF Types
<1>9. ASSUME NEW q \in Procs
      PROVE  JobOK(job[q])' /\ Holds(q, job[q].applied, qdisc)'
  <2>1. CASE q = p
    <3>1. Holds(p, Front(a), qdisc')
      <4>1. \A i \in 1 .. Len(Front(a)) : Front(a)[i] # n /\ Front(a)[i] \in NICs
        BY <1>3, <1>4, ElementOfSeq DEF Holds
      <4>2. \A i \in 1 .. Len(Front(a)) : qdisc[Front(a)[i]] = p
        BY <1>3, <1>4 DEF Holds
      <4>3. \A i, k \in 1 .. Len(Front(a)) : Front(a)[i] = Front(a)[k] => i = k
        BY <1>3, <1>4 DEF Holds
      <4>4. QED
        BY <1>7, <4>1, <4>2, <4>3 DEF Holds
    <3>2. j.applied = Front(a)
      BY DEF a
    <3>3. QED
      BY <1>2, <2>1, <3>1, <3>2
  <2>2. CASE q # p
    <3> DEFINE s == job[q].applied
    <3>1. JobOK(job[q]) /\ Holds(q, s, qdisc) /\ s \in Seq(NICs)
      BY DEF LabInv, JobOK
    <3>2. Len(s) \in Nat /\ \A i \in 1 .. Len(s) : s[i] \in NICs /\ s[i] # n
      BY <1>5, <2>2, <3>1, LenProperties, ElementOfSeq DEF Holds
    <3> HIDE DEF s
    <3>3. Holds(q, s, qdisc')
      BY <1>7, <3>1, <3>2 DEF Holds
    <3>4. QED
      BY <1>2, <2>2, <3>1, <3>3 DEF s
  <2>3. QED
    BY <2>1, <2>2
<1>10. NoStray'
  <2> SUFFICES ASSUME glitches' = 0, NEW m \in NICs, qdisc'[m] \in Scenarios
               PROVE  Contains(job'[qdisc'[m]].applied, m)
    BY DEF NoStray
  <2>1. m # n /\ qdisc'[m] = qdisc[m]
    BY <1>7, ProcsDiffer
  <2>2. Contains(job[qdisc[m]].applied, m)
    BY <2>1 DEF LabInv, NoStray
  <2>3. QED
    BY <1>2, <1>4, <2>1, <2>2, ProcsDiffer DEF a
<1>11. QED
  BY <1>8, <1>9, <1>10 DEF LabInv

-----------------------------------------------------------------------------
(* The steps of Next.                                                         *)

\* What the invariant says of the job of p.
LEMMA JobFacts ==
    ASSUME LabInv, NEW p \in Procs
    PROVE  /\ JobOK(job[p]) /\ Shape(job[p]) /\ job[p].applied \in Seq(NICs)
           /\ Holds(p, job[p].applied, qdisc)
           /\ glitches \in Nat
BY DEF LabInv, JobOK, Types

\* Applying, up to the first failure, and taking back.
LEMMA NetemKeeps ==
    ASSUME LabInv, NetemStep
    PROVE  LabInv'
<1>1. ASSUME NEW p \in Procs, NEW t \in Targets, Apply(p, t)
      PROVE  LabInv'
  <2> DEFINE j == [Idle EXCEPT !.pc = "apply", !.todo = t, !.targets = t]
  <2>1. /\ j.pc = "apply" /\ j.todo = t /\ j.targets = t /\ j.applied = <<>> /\ Shape(j)
    <3>1. j = Job("apply", t, <<>>, t, <<>>)
      BY ApplyJob
    <3> HIDE DEF j
    <3>2. QED
      BY <3>1, JobFields
  <2>2. t \in Seq(NICs)
    BY ProcsDiffer
  <2>3. Becomes(p, j) /\ UNCHANGED <<qdisc, glitches>> /\ job[p].pc = "idle"
    BY <1>1 DEF Apply, At
  <2> HIDE DEF j
  <2>4. JobOK(j)
    BY <2>1, <2>2, EmptyContains, ToSetContains DEF JobOK
  <2>5. job[p].applied = <<>>
    BY <2>3, JobFacts DEF JobOK
  <2>6. QED
    BY <2>1, <2>3, <2>4, <2>5, FreshStep
<1>2. ASSUME NEW p \in Procs, Add(p)
      PROVE  LabInv'
  <2> DEFINE jp == job[p]
             n == Head(jp.todo)
             added == [jp EXCEPT !.todo = Tail(@), !.applied = Append(@, n)]
             refused == [jp EXCEPT !.pc = "unwind", !.applied = jp.applied]
  <2>1. /\ JobOK(jp) /\ Shape(jp) /\ jp.applied \in Seq(NICs) /\ Holds(p, jp.applied, qdisc)
    BY JobFacts
  <2>2. /\ jp.pc = "apply" /\ jp.todo # <<>> /\ glitches' = glitches
        /\ \/ qdisc[n] = None /\ qdisc' = [qdisc EXCEPT ![n] = p] /\ Becomes(p, added)
           \/ qdisc' = qdisc /\ Becomes(p, refused)
    BY <1>2 DEF Add, At, Free, AppliedOnFailure
  <2>3. /\ added.pc = jp.pc /\ added.todo = Tail(jp.todo) /\ added.targets = jp.targets
        /\ added.applied = Append(jp.applied, n) /\ Shape(added)
        /\ refused.pc = "unwind" /\ refused.applied = jp.applied /\ Shape(refused)
    <3> DEFINE rest == Tail(jp.todo)
               longer == Append(jp.applied, n)
               same == jp.applied
               pc == "unwind"
    <3> HIDE DEF jp, n
    <3>0. /\ added = [jp EXCEPT !.todo = rest, !.applied = longer]
          /\ refused = [jp EXCEPT !.pc = pc, !.applied = same]
      OBVIOUS
    <3> HIDE DEF rest, longer, same, pc, added, refused
    <3>1. added = Job(jp.pc, rest, longer, jp.targets, jp.mem)
      BY <2>1, <3>0, Updates
    <3>2. refused = Job(pc, jp.todo, same, jp.targets, jp.mem)
      BY <2>1, <3>0, Updates
    <3>3. /\ added.pc = jp.pc /\ added.todo = rest /\ added.targets = jp.targets
          /\ added.applied = longer /\ Shape(added)
      BY <3>1, JobFields
    <3>4. refused.pc = pc /\ refused.applied = same /\ Shape(refused)
      BY <3>2, JobFields
    <3>5. QED
      BY <3>3, <3>4 DEF rest, longer, same, pc
  <2> HIDE DEF jp, n, added, refused
  <2>4. /\ jp.todo \in Seq(NICs)
        /\ \A x \in ToSet(jp.targets) : Contains(jp.applied, x) \/ Contains(jp.todo, x)
    BY <2>1, <2>2 DEF JobOK
  <2>5. /\ n \in NICs /\ Tail(jp.todo) \in Seq(NICs)
        /\ \A x : Contains(jp.todo, x) => x = n \/ Contains(Tail(jp.todo), x)
    BY <2>2, <2>4, TailContains DEF n
  <2>6. /\ Append(jp.applied, n) \in Seq(NICs)
        /\ \A x : Contains(Append(jp.applied, n), x) <=> Contains(jp.applied, x) \/ x = n
    BY <2>1, <2>5, AppendContains
  <2>7. JobOK(added) /\ JobOK(refused)
    BY <2>1, <2>2, <2>3, <2>4, <2>5, <2>6 DEF JobOK
  <2>8. CASE qdisc[n] = None /\ qdisc' = [qdisc EXCEPT ![n] = p] /\ Becomes(p, added)
    <3>1. added.applied = Append(job[p].applied, n)
      BY <2>3 DEF jp
    <3>2. QED
      BY <2>2, <2>5, <2>7, <2>8, <3>1, AddStep
  <2>9. CASE qdisc' = qdisc /\ Becomes(p, refused)
    <3>1. refused.applied = job[p].applied
      BY <2>3 DEF jp
    <3>2. Holds(p, refused.applied, qdisc)
      BY <2>1, <2>3
    <3>3. QED
      BY <2>2, <2>7, <2>9, <3>1, <3>2, LocalStep
  <2>10. QED
    BY <2>2, <2>8, <2>9
<1>3. ASSUME NEW p \in Procs, AddRaises(p) \/ (DelFails(p) /\ At(p, "revert"))
      PROVE  LabInv'
  <2>1. Becomes(p, Idle) /\ qdisc' = qdisc /\ glitches' = glitches + 1
    BY <1>3 DEF AddRaises, DelFails, Glitch
  <2>2. QED
    BY <2>1, IdleJob, FreshStep
<1>4. ASSUME NEW p \in Procs, Reverted(p)
      PROVE  LabInv'
  <2>1. /\ Becomes(p, Idle) /\ qdisc' = qdisc /\ glitches' = glitches
        /\ job[p].applied = <<>>
    BY <1>4 DEF Reverted, Unfinished
  <2>2. QED
    BY <2>1, IdleJob, FreshStep
<1>5. ASSUME NEW p \in Procs, DelFails(p), ~At(p, "revert")
      PROVE  LabInv'
  <2> DEFINE jp == job[p]
             rest == Front(jp.applied)
             j == [jp EXCEPT !.applied = rest]
  <2>1. /\ Becomes(p, j) /\ qdisc' = qdisc /\ glitches' = glitches + 1
        /\ jp.pc = "unwind" /\ jp.applied # <<>>
    BY <1>5 DEF DelFails, Glitch, At, Unfinished
  <2>2. Shape(jp) /\ jp.applied \in Seq(NICs) /\ Holds(p, jp.applied, qdisc)
        /\ glitches \in Nat
    BY JobFacts
  <2> HIDE DEF jp
  <2>3. rest \in Seq(NICs) /\ Holds(p, rest, qdisc)
    <3>1. /\ rest \in Seq(NICs) /\ Len(jp.applied) \in Nat
          /\ Len(rest) = Len(jp.applied) - 1
          /\ \A i \in 1 .. Len(rest) : rest[i] = jp.applied[i]
      BY <2>1, <2>2, FrontContains
    <3>2. \A i \in 1 .. Len(rest) : i \in 1 .. Len(jp.applied)
      BY <3>1
    <3> HIDE DEF rest
    <3>3. QED
      BY <2>2, <3>1, <3>2 DEF Holds
  <2> HIDE DEF rest
  <2>4. j = Job("unwind", jp.todo, rest, jp.targets, jp.mem)
    BY <2>1, <2>2, Updates
  <2> HIDE DEF j
  <2>5. j.pc = "unwind" /\ j.applied = rest /\ Shape(j)
    BY <2>4, JobFields
  <2>6. JobOK(j) /\ Holds(p, j.applied, qdisc)
    BY <2>3, <2>5 DEF JobOK
  <2>7. QED
    BY <2>1, <2>2, <2>6, LocalStep
<1>6. ASSUME NEW p \in Procs, ApplyDone(p)
      PROVE  LabInv'
  <2> DEFINE jp == job[p]
             records == store
             runs == [jp EXCEPT !.pc = "running"]
             writes == [jp EXCEPT !.pc = "record", !.mem = records]
  <2>1. /\ Becomes(p, runs) \/ Becomes(p, writes)
        /\ qdisc' = qdisc /\ glitches' = glitches
        /\ jp.pc = "apply" /\ jp.todo = <<>>
    BY <1>6 DEF ApplyDone, At
  <2>2. Shape(jp) /\ JobOK(jp) /\ Holds(p, jp.applied, qdisc)
    BY JobFacts
  <2> HIDE DEF jp, records
  <2>3. /\ jp.applied \in Seq(NICs)
        /\ \A x \in ToSet(jp.targets) : Contains(jp.applied, x)
    BY <2>1, <2>2, EmptyContains DEF JobOK
  <2>4. /\ runs = Job("running", jp.todo, jp.applied, jp.targets, jp.mem)
        /\ writes = Job("record", jp.todo, jp.applied, jp.targets, records)
    <3>1. runs = Job("running", jp.todo, jp.applied, jp.targets, jp.mem)
      BY <2>2, Updates
    <3>2. writes = Job("record", jp.todo, jp.applied, jp.targets, records)
      BY <2>2, Recording
    <3>3. QED
      BY <3>1, <3>2
  <2> HIDE DEF runs, writes
  <2>5. /\ runs.pc = "running" /\ runs.applied = jp.applied /\ runs.targets = jp.targets
        /\ Shape(runs)
    BY <2>4, JobFields
  <2>6. writes.pc = "record" /\ writes.applied = jp.applied /\ Shape(writes)
    BY <2>4, JobFields
  <2>7. JobOK(runs) /\ JobOK(writes)
    BY <2>3, <2>5, <2>6 DEF JobOK
  <2>8. PICK j : JobOK(j) /\ Becomes(p, j) /\ j.applied = job[p].applied
    BY <2>1, <2>5, <2>6, <2>7 DEF jp
  <2>9. QED
    BY <2>1, <2>2, <2>8, LocalStep DEF jp
<1>7. ASSUME NEW p \in Procs, Del(p)
      PROVE  LabInv'
  <2> DEFINE jp == job[p]
             rest == Front(jp.applied)
             j == [jp EXCEPT !.applied = rest]
  <2>1. /\ Becomes(p, j) /\ qdisc' = [qdisc EXCEPT ![Last(jp.applied)] = None]
        /\ glitches' = glitches /\ jp.pc \in {"unwind", "revert"} /\ jp.applied # <<>>
    BY <1>7 DEF Del, Unfinished
  <2>2. Shape(jp) /\ jp.applied \in Seq(NICs)
    BY JobFacts
  <2> HIDE DEF jp
  <2>3. rest \in Seq(NICs)
    BY <2>1, <2>2, FrontContains
  <2> HIDE DEF rest
  <2>4. j = Job(jp.pc, jp.todo, rest, jp.targets, jp.mem)
    BY <2>2, Updates
  <2> HIDE DEF j
  <2>5. j.pc \in {"unwind", "revert"} /\ j.applied = rest /\ Shape(j)
    BY <2>1, <2>4, JobFields
  <2>6. JobOK(j)
    BY <2>3, <2>5 DEF JobOK
  <2>7. QED
    BY <2>1, <2>5, <2>6, DelStep DEF rest, jp
<1>8. QED
  BY <1>1, <1>2, <1>3, <1>4, <1>5, <1>6, <1>7 DEF NetemStep

LEMMA OthersKeep ==
    ASSUME LabInv, SrctlStep \/ \E p \in Scenarios : EndScenario(p)
    PROVE  LabInv'
<1>1. ASSUME NEW p \in Operators,
             \/ \E ports \in Shutdowns, both \in BOOLEAN : Shutdown(p, ports, both)
             \/ \E named \in Clearings : Clear(p, named)
      PROVE  LabInv'
  <2>1. \E todo, targets, mem :
            \/ Becomes(p, [Idle EXCEPT !.pc = "shut", !.todo = todo,
                                       !.targets = targets, !.mem = mem])
            \/ Becomes(p, [Idle EXCEPT !.pc = "clear", !.todo = todo, !.mem = mem])
    BY <1>1 DEF Shutdown, Clear
  <2>2. qdisc' = qdisc /\ glitches' = glitches
    BY <1>1 DEF Shutdown, Clear
  <2>3. PICK pc, todo, targets, mem :
            /\ Becomes(p, Job(pc, todo, <<>>, targets, mem))
            /\ pc \in {"shut", "clear"}
    <3>1. PICK todo, targets, mem :
            \/ Becomes(p, [Idle EXCEPT !.pc = "shut", !.todo = todo,
                                       !.targets = targets, !.mem = mem])
            \/ Becomes(p, [Idle EXCEPT !.pc = "clear", !.todo = todo, !.mem = mem])
      BY <2>1
    <3>2. [Idle EXCEPT !.pc = "shut", !.todo = todo, !.targets = targets, !.mem = mem] =
            Job("shut", todo, <<>>, targets, mem)
      BY ShutJob
    <3>3. [Idle EXCEPT !.pc = "clear", !.todo = todo, !.mem = mem] =
            Job("clear", todo, <<>>, <<>>, mem)
      BY ClearJob
    <3>4. \/ Becomes(p, Job("shut", todo, <<>>, targets, mem))
          \/ Becomes(p, Job("clear", todo, <<>>, <<>>, mem))
      BY <3>1, <3>2, <3>3
    <3>5. QED
      BY <3>4
  <2> DEFINE j == Job(pc, todo, <<>>, targets, mem)
  <2>4. j.pc = pc /\ j.applied = <<>> /\ Shape(j)
    <3> HIDE DEF j
    <3>1. QED
      BY JobFields DEF j
  <2>5. Becomes(p, j)
    BY <2>3
  <2> HIDE DEF j
  <2>6. JobOK(j)
    BY <2>3, <2>4, EmptyContains DEF JobOK
  <2>7. QED
    BY <2>2, <2>4, <2>5, <2>6, FreshStep, ProcsDiffer
<1>2. ASSUME NEW p \in Operators, ShutNext(p) \/ ClearNext(p)
      PROVE  LabInv'
  <2> DEFINE jp == job[p]
             rest == Tail(jp.todo)
             j == [jp EXCEPT !.todo = rest]
  <2>1. /\ Becomes(p, j) \/ Becomes(p, Idle)
        /\ qdisc' = qdisc /\ glitches' \in {glitches, glitches + 1}
        /\ jp.pc \in {"shut", "clear"}
    BY <1>2 DEF ShutNext, ClearNext, At, Glitch
  <2>2. Shape(jp) /\ JobOK(jp) /\ Holds(p, jp.applied, qdisc) /\ p \in Procs
    BY JobFacts, ProcsDiffer
  <2> HIDE DEF jp, rest
  <2>3. j = Job(jp.pc, rest, jp.applied, jp.targets, jp.mem)
    BY <2>2, Updates
  <2> HIDE DEF j
  <2>4. j.pc = jp.pc /\ j.applied = jp.applied /\ Shape(j)
    BY <2>3, JobFields
  <2>5. JobOK(j)
    BY <2>1, <2>2, <2>4 DEF JobOK
  <2>6. CASE Becomes(p, j)
    BY <2>1, <2>2, <2>4, <2>5, <2>6, LocalStep, ProcsDiffer DEF jp
  <2>7. CASE Becomes(p, Idle)
    BY <2>1, <2>2, <2>7, IdleJob, FreshStep, ProcsDiffer
  <2>8. QED
    BY <2>1, <2>6, <2>7
<1>3. ASSUME NEW p \in Operators, Record(p) \/ Cleared(p)
      PROVE  LabInv'
  <2>1. Becomes(p, Idle) /\ qdisc' = qdisc /\ glitches' = glitches
    BY <1>3 DEF Record, Cleared
  <2>2. QED
    BY <2>1, IdleJob, FreshStep, ProcsDiffer
<1>4. ASSUME NEW p \in Scenarios, EndScenario(p)
      PROVE  LabInv'
  <2> DEFINE jp == job[p]
             j == [jp EXCEPT !.pc = "revert"]
  <2>1. Becomes(p, j) /\ qdisc' = qdisc /\ glitches' = glitches
    BY <1>4 DEF EndScenario, Goes, Becomes
  <2>2. Shape(jp) /\ JobOK(jp) /\ Holds(p, jp.applied, qdisc) /\ p \in Procs
    BY JobFacts, ProcsDiffer
  <2> HIDE DEF jp
  <2>3. j = Job("revert", jp.todo, jp.applied, jp.targets, jp.mem)
    BY <2>2, Updates
  <2> HIDE DEF j
  <2>4. j.pc = "revert" /\ j.applied = jp.applied /\ Shape(j)
    BY <2>3, JobFields
  <2>5. JobOK(j)
    BY <2>2, <2>4 DEF JobOK
  <2>6. QED
    BY <2>1, <2>2, <2>4, <2>5, LocalStep DEF jp
<1>5. QED
  BY <1>1, <1>2, <1>3, <1>4 DEF SrctlStep

LEMMA LabInvStep == LabInv /\ [LabNext]_labVars => LabInv'
<1>1. ASSUME LabInv, UNCHANGED labVars
      PROVE  LabInv'
  BY <1>1 DEF labVars, LabInv, Types, NoStray
<1>2. QED
  BY <1>1, NetemKeeps, OthersKeep DEF LabNext

LEMMA LabInvAlways == LabSpec => []LabInv
BY LabInvInit, LabInvStep, PTL DEF LabSpec

-----------------------------------------------------------------------------
(* What follows.                                                              *)

\* Without a failure of docker or tc no scenario leaves its impairment on a NIC:
\* whatever is there is still in the _applied of a Netem that will be reverted.
THEOREM NothingStray == LabSpec => []NoStray
<1>1. LabInv => NoStray
  BY DEF LabInv
<1>2. QED
  BY <1>1, LabInvAlways, PTL

\* While the flows of a scenario run, every NIC it named carries its netem, even
\* when other runs and operators fail to apply theirs and clean up.
THEOREM FaultsStay == LabSpec => []FaultsHold
<1>1. LabInv => FaultsHold
  <2> SUFFICES ASSUME LabInv, NEW p \in Scenarios, At(p, "running"),
                      NEW n \in ToSet(job[p].targets)
               PROVE  qdisc[n] = p
    BY DEF FaultsHold
  <2>1. JobOK(job[p]) /\ Holds(p, job[p].applied, qdisc)
    BY JobFacts, ProcsDiffer
  <2>2. Contains(job[p].applied, n)
    BY <2>1 DEF JobOK, At
  <2>3. QED
    BY <2>1, <2>2 DEF Contains, Holds
<1>2. QED
  BY <1>1, LabInvAlways, PTL

\* Whoever takes a netem qdisc off a NIC is the process that put it there: each
\* _applied names NICs of its own process only, and tc qdisc add replaces nothing.
THEOREM OwnersOnly == LabSpec => OnlyOwner
<1>1. LabInv /\ [LabNext]_labVars =>
        [\A n \in NICs, p \in Procs :
             qdisc[n] # None /\ qdisc'[n] # qdisc[n] /\ Acts(p) => p = qdisc[n]]_labVars
  <2> SUFFICES ASSUME LabInv, LabNext, NEW n \in NICs, NEW q \in Procs,
                      qdisc[n] # None, qdisc'[n] # qdisc[n], Acts(q)
               PROVE  q = qdisc[n]
    OBVIOUS
  <2>1. qdisc \in [NICs -> Procs \cup {None}]
    BY DEF LabInv, Types
  <2>2. ASSUME NEW p \in Procs, NEW j, Becomes(p, j)
        PROVE  q = p
    BY <2>2 DEF LabInv, Types, Becomes, Acts
  <2>3. ASSUME NEW p \in Procs, Del(p)
        PROVE  q = qdisc[n]
    <3> DEFINE a == job[p].applied
    <3>1. /\ a \in Seq(NICs) /\ a # <<>> /\ Holds(p, a, qdisc)
          /\ qdisc' = [qdisc EXCEPT ![Last(a)] = None]
          /\ \E j : Becomes(p, j)
      BY <2>3, JobFacts DEF Del, Unfinished
    <3> HIDE DEF a
    <3>2. Len(a) \in Nat /\ Len(a) > 0 /\ Last(a) = a[Len(a)]
      BY <3>1, FrontContains
    <3>3. n = Last(a)
      BY <2>1, <3>1
    <3>4. qdisc[n] = p
      BY <3>1, <3>2, <3>3 DEF Holds
    <3>5. QED
      BY <2>2, <3>1, <3>4
  <2>4. ASSUME NEW p \in Procs, Add(p)
        PROVE  FALSE
    BY <2>1, <2>4, ProcsDiffer DEF Add, Free
  <2>5. (\E p \in Procs : Add(p) \/ Del(p)) \/ qdisc' = qdisc
    BY DEF LabNext, NetemStep, SrctlStep, Apply, AddRaises, DelFails, Reverted, ApplyDone,
           EndScenario, Shutdown, Clear, ShutNext, Record, ClearNext, Cleared
  <2>6. QED
    BY <2>3, <2>4, <2>5
<1>2. QED
  BY <1>1, LabInvAlways, PTL DEF LabSpec, OnlyOwner

-----------------------------------------------------------------------------
(* Sequences of sequences.                                                    *)

\* The least number of a set of numbers.
LEMMA Least ==
    ASSUME NEW B \in SUBSET Nat, B # {}
    PROVE  \E n \in B : \A m \in Nat : m < n => m \notin B
<1> DEFINE R == OpToRel(<, Nat)
<1>1. IsWellFoundedOn(R, Nat)
  BY NatLessThanWellFounded
<1>2. \A x, y \in Nat : <<x, y>> \in R <=> x < y
  BY DEF OpToRel
<1> HIDE DEF R
<1>3. PICK n \in B : \A m \in B : ~(<<m, n>> \in R)
  BY <1>1, WFMin
<1>4. QED
  BY <1>2, <1>3

\* FlattenSeq's recursion over the sequences q[1], ..., q[n] has a solution.
Joins(f, q, n) == f = [i \in 1 .. n |-> IF i = 1 THEN q[i] ELSE f[i - 1] \o q[i]]

LEMMA JoinThere ==
    ASSUME NEW q, NEW n \in Nat
    PROVE  \E f : Joins(f, q, n)
<1> DEFINE Upto(f, k) ==
      \A i \in 1 .. k : f[i] = IF i = 1 THEN q[i] ELSE f[i - 1] \o q[i]
    Miss == {k \in Nat : ~\E f : Upto(f, k)}
<1>1. Miss = {}
  <2>1. SUFFICES ASSUME Miss # {} PROVE FALSE
    OBVIOUS
  <2>2. PICK k \in Miss : \A m \in Nat : m < k => m \notin Miss
    BY <2>1, Least
  <2>3. k # 0
    BY <2>2
  <2>4. k \in Nat /\ k - 1 \in Nat /\ k - 1 < k
    BY <2>2, <2>3
  <2>5. PICK g : Upto(g, k - 1)
    BY <2>2, <2>4
  <2> DEFINE f == [i \in 1 .. k |-> IF i < k THEN g[i]
                                    ELSE IF i = 1 THEN q[i] ELSE g[i - 1] \o q[i]]
  <2>6. ASSUME NEW i \in 1 .. k
        PROVE  f[i] = IF i = 1 THEN q[i] ELSE f[i - 1] \o q[i]
    <3>1. i # 1 => i - 1 \in 1 .. k /\ i - 1 < k /\ f[i - 1] = g[i - 1]
      BY <2>4
    <3>2. CASE i < k
      <4>1. i \in 1 .. k - 1 /\ f[i] = g[i]
        BY <2>4, <3>2
      <4> HIDE DEF f
      <4>2. QED
        BY <2>5, <3>1, <4>1
    <3>3. CASE ~(i < k)
      <4>1. f[i] = IF i = 1 THEN q[i] ELSE g[i - 1] \o q[i]
        BY <3>3
      <4> HIDE DEF f
      <4>2. QED
        BY <3>1, <4>1
    <3>4. QED
      BY <3>2, <3>3
  <2>7. QED
    BY <2>2, <2>6
<1>2. PICK g : Upto(g, n)
  BY <1>1
<1> DEFINE f == [i \in 1 .. n |-> g[i]]
<1>3. Joins(f, q, n)
  <2>1. ASSUME NEW i \in 1 .. n
        PROVE  g[i] = IF i = 1 THEN q[i] ELSE f[i - 1] \o q[i]
    <3>1. i # 1 => i - 1 \in 1 .. n
      OBVIOUS
    <3>2. i # 1 => f[i - 1] = g[i - 1]
      BY <3>1
    <3> HIDE DEF f
    <3>3. QED
      BY <1>2, <3>2
  <2>2. f = [i \in 1 .. n |-> IF i = 1 THEN q[i] ELSE f[i - 1] \o q[i]]
    BY <2>1
  <2> HIDE DEF f
  <2>3. QED
    BY <2>2 DEF Joins
<1>4. QED
  BY <1>3

\* What two sequences have together.
LEMMA ConcatSet ==
    ASSUME NEW S, NEW s \in Seq(S), NEW t \in Seq(S)
    PROVE  s \o t \in Seq(S) /\ ToSet(s \o t) = ToSet(s) \cup ToSet(t)
<1> DEFINE u == s \o t
           m == Len(s)
           n == Len(t)
<1>1. /\ u \in Seq(S) /\ Len(u) = m + n
      /\ \A i \in 1 .. m + n : u[i] = IF i <= m THEN s[i] ELSE t[i - m]
  BY ConcatProperties
<1>2. m \in Nat /\ n \in Nat /\ DOMAIN s = 1 .. m /\ DOMAIN t = 1 .. n /\ DOMAIN u = 1 .. m + n
  BY <1>1, LenProperties
<1> HIDE DEF u, m, n
<1>3. ASSUME NEW x \in ToSet(u) PROVE x \in ToSet(s) \cup ToSet(t)
  <2>1. PICK i \in 1 .. m + n : x = u[i]
    BY <1>2 DEF ToSet
  <2>2. (i \in 1 .. m /\ u[i] = s[i]) \/ (i - m \in 1 .. n /\ u[i] = t[i - m])
    BY <1>1, <1>2
  <2>3. QED
    BY <1>2, <2>1, <2>2 DEF ToSet
<1>4. ASSUME NEW x \in ToSet(s) PROVE x \in ToSet(u)
  <2>1. PICK i \in 1 .. m : x = s[i]
    BY <1>2 DEF ToSet
  <2>2. i \in 1 .. m + n /\ u[i] = s[i]
    BY <1>1, <1>2
  <2>3. QED
    BY <1>2, <2>1, <2>2 DEF ToSet
<1>5. ASSUME NEW x \in ToSet(t) PROVE x \in ToSet(u)
  <2>1. PICK i \in 1 .. n : x = t[i]
    BY <1>2 DEF ToSet
  <2>2. i + m \in 1 .. m + n /\ u[i + m] = t[i]
    BY <1>1, <1>2
  <2>3. QED
    BY <1>2, <2>1, <2>2 DEF ToSet
<1>6. QED
  BY <1>1, <1>3, <1>4, <1>5 DEF u

\* FlattenSeq has what the sequences have.
LEMMA Flattened ==
    ASSUME NEW S, NEW q \in Seq(Seq(S))
    PROVE  /\ FlattenSeq(q) \in Seq(S)
           /\ \A x : x \in ToSet(FlattenSeq(q)) <=> \E i \in 1 .. Len(q) : x \in ToSet(q[i])
<1> DEFINE n == Len(q)
           f == CHOOSE g : g = [i \in 1 .. Len(q) |->
                                  IF i = 1 THEN q[i] ELSE g[i - 1] \o q[i]]
<1>1. n \in Nat /\ \A i \in 1 .. n : q[i] \in Seq(S)
  BY LenProperties, ElementOfSeq
<1>2. FlattenSeq(q) = IF Len(q) = 0 THEN q ELSE f[Len(q)]
  BY Zenon DEF FlattenSeq
<1>3. f = [i \in 1 .. Len(q) |-> IF i = 1 THEN q[i] ELSE f[i - 1] \o q[i]]
  <2>1. PICK g : Joins(g, q, n)
    <3> HIDE DEF n
    <3> QED
      BY <1>1, JoinThere
  <2>2. g = [i \in 1 .. Len(q) |-> IF i = 1 THEN q[i] ELSE g[i - 1] \o q[i]]
    BY <2>1, Zenon DEF Joins
  <2>3. QED
    BY <2>2, Zenon
<1> HIDE DEF f
<1>4. \A i \in 1 .. n : f[i] = IF i = 1 THEN q[i] ELSE f[i - 1] \o q[i]
  <2>1. \A i \in 1 .. Len(q) : f[i] = IF i = 1 THEN q[i] ELSE f[i - 1] \o q[i]
    BY <1>3
  <2>2. QED
    BY <2>1
<1> DEFINE Ok(k) == /\ f[k] \in Seq(S)
                    /\ \A x : x \in ToSet(f[k]) <=> \E i \in 1 .. k : x \in ToSet(q[i])
           Miss == {k \in Nat : k \in 1 .. n /\ ~Ok(k)}
<1> HIDE DEF n
<1>5. Miss = {}
  <2>1. SUFFICES ASSUME Miss # {} PROVE FALSE
    OBVIOUS
  <2>2. PICK k \in Miss : \A m \in Nat : m < k => m \notin Miss
    BY <2>1, Least
  <2>3. k \in 1 .. n /\ ~Ok(k) /\ q[k] \in Seq(S)
    BY <1>1, <2>2
  <2>4. CASE k = 1
    <3>1. f[k] = q[k] /\ \A i \in 1 .. k : i = k
      BY <1>4, <2>3, <2>4
    <3>2. QED
      BY <2>3, <3>1
  <2>5. CASE k # 1
    <3>1. k - 1 \in 1 .. n /\ k - 1 \in Nat /\ k - 1 < k
      BY <1>1, <2>3, <2>5
    <3>0. f[k] = f[k - 1] \o q[k]
      BY <1>4, <2>3, <2>5
    <3>2. Ok(k - 1)
      BY <2>2, <3>1
    <3>3. f[k] \in Seq(S) /\ ToSet(f[k]) = ToSet(f[k - 1]) \cup ToSet(q[k])
      BY <2>3, <3>0, <3>2, ConcatSet
    <3>4. \A i : i \in 1 .. k <=> i \in 1 .. k - 1 \/ i = k
      BY <2>3
    <3>5. Ok(k)
      BY <3>2, <3>3, <3>4
    <3>6. QED
      BY <2>3, <3>5
  <2>6. QED
    BY <2>4, <2>5
<1>6. CASE n = 0
  <2>1. FlattenSeq(q) = q /\ DOMAIN q = {} /\ q = <<>>
    BY <1>2, <1>6, LenProperties, EmptySeq DEF n
  <2>2. <<>> \in Seq(S) /\ ToSet(q) = {}
    BY <2>1, EmptySeq DEF ToSet
  <2>3. 1 .. Len(q) = {}
    BY <1>6 DEF n
  <2>4. QED
    BY <2>1, <2>2, <2>3
<1>7. CASE n # 0
  <2>1. n \in 1 .. n
    BY <1>1, <1>7
  <2>2. Ok(n)
    BY <1>1, <1>5, <2>1
  <2>3. QED
    BY <1>2, <1>7, <2>2 DEF n
<1>8. QED
  BY <1>6, <1>7

-----------------------------------------------------------------------------
(* The fault file.                                                            *)

Rec == [id : Nat, kind : {"shut", "record"},
        on : {s \in SUBSET (NICs \cup Ports) : IsFiniteSet(s)}]

\* generate_fault_id() numbers the records in order.
Growing(recs) ==
    /\ recs \in Seq(Rec)
    /\ \A i, k \in 1 .. Len(recs) : i < k => recs[i].id < recs[k].id

\* remove_fault().
Without(recs, k) == RemoveFirstMatch(recs, LAMBDA r : r.id = k)

\* What removing one record leaves.
Kept(recs, left, ids) ==
    /\ Growing(left)
    /\ \A r \in ToSet(recs) : r.id \in ids \/ r \in ToSet(left)

LEMMA MinOfPositions ==
    ASSUME NEW n \in Nat, NEW I \in SUBSET (1 .. n), I # {}
    PROVE  Min(I) \in I
<1>1. I \in SUBSET Nat
  OBVIOUS
<1>2. PICK k \in I : \A m \in Nat : m < k => m \notin I
  BY <1>1, Least
<1>3. \A m \in I : k =< m
  BY <1>1, <1>2
<1>4. \E x \in I : \A y \in I : x =< y
  BY <1>3
<1>5. QED
  BY <1>4, Zenon DEF Min

LEMMA RemovedOne ==
    ASSUME NEW recs, Growing(recs), NEW i \in 1 .. Len(recs)
    PROVE  /\ Growing(RemoveAt(recs, i))
           /\ \A r \in ToSet(recs) : r = recs[i] \/ r \in ToSet(RemoveAt(recs, i))
<1> DEFINE n == Len(recs)
           a == SubSeq(recs, 1, i - 1)
           b == SubSeq(recs, i + 1, n)
           t == RemoveAt(recs, i)
<1>1. recs \in Seq(Rec) /\ n \in Nat /\ DOMAIN recs = 1 .. n /\ \A k \in 1 .. n : recs[k] \in Rec
  BY LenProperties, ElementOfSeq DEF Growing
<1>2. /\ a \in Seq(Rec) /\ Len(a) = i - 1
      /\ \A k \in 1 .. i - 1 : a[k] = recs[k]
  <2> DEFINE m == i - 1
  <2>1. m \in Int /\ 1 \in Int /\ m \in Nat /\ \A k \in 1 .. m : recs[k] \in Rec
    BY <1>1
  <2> HIDE DEF m
  <2>2. /\ SubSeq(recs, 1, m) \in Seq(Rec)
        /\ Len(SubSeq(recs, 1, m)) = (IF 1 <= m THEN m - 1 + 1 ELSE 0)
        /\ \A k \in 1 .. m - 1 + 1 : SubSeq(recs, 1, m)[k] = recs[1 + k - 1]
    BY <2>1, SubSeqProperties
  <2>3. /\ SubSeq(recs, 1, m) \in Seq(Rec)
        /\ Len(SubSeq(recs, 1, m)) = m
        /\ \A k \in 1 .. m : SubSeq(recs, 1, m)[k] = recs[k]
    BY <2>1, <2>2
  <2>4. QED
    BY <2>3 DEF m
<1>3. /\ b \in Seq(Rec) /\ Len(b) = n - i
      /\ \A k \in 1 .. n - i : b[k] = recs[i + k]
  <2> DEFINE m == i + 1
             l == Len(recs)
  <2>1. m \in Int /\ l \in Int /\ m \in Nat /\ l = n /\ \A k \in m .. l : recs[k] \in Rec
    BY <1>1
  <2>2. i = m - 1 /\ m <= l + 1
    BY <1>1
  <2> HIDE DEF m, l
  <2>3. /\ SubSeq(recs, m, l) \in Seq(Rec)
        /\ Len(SubSeq(recs, m, l)) = (IF m <= l THEN l - m + 1 ELSE 0)
        /\ \A k \in 1 .. l - m + 1 : SubSeq(recs, m, l)[k] = recs[m + k - 1]
    BY <2>1, SubSeqProperties
  <2>4. /\ SubSeq(recs, m, l) \in Seq(Rec)
        /\ Len(SubSeq(recs, m, l)) = l - i
        /\ \A k \in 1 .. l - i : SubSeq(recs, m, l)[k] = recs[i + k]
    BY <2>1, <2>2, <2>3
  <2>5. QED
    BY <2>4 DEF m, l
<1>4. t = a \o b
  BY DEF RemoveAt
<1> HIDE DEF a, b, t
<1>5. /\ t \in Seq(Rec) /\ Len(t) = n - 1 /\ DOMAIN t = 1 .. n - 1
      /\ \A k \in 1 .. n - 1 : t[k] = IF k < i THEN recs[k] ELSE recs[k + 1]
  <2>1. /\ t \in Seq(Rec) /\ Len(t) = (i - 1) + (n - i)
        /\ \A k \in 1 .. (i - 1) + (n - i) :
             t[k] = IF k <= i - 1 THEN a[k] ELSE b[k - (i - 1)]
    <3>1. /\ a \o b \in Seq(Rec) /\ Len(a \o b) = Len(a) + Len(b)
          /\ \A k \in 1 .. Len(a) + Len(b) :
               (a \o b)[k] = IF k <= Len(a) THEN a[k] ELSE b[k - Len(a)]
      BY <1>2, <1>3, ConcatProperties
    <3>2. Len(a) = i - 1 /\ Len(b) = n - i
      BY <1>2, <1>3
    <3>3. QED
      BY <1>4, <3>1, <3>2, Zenon
  <2>2. Len(t) = n - 1 /\ \A k \in 1 .. n - 1 : t[k] = IF k < i THEN a[k] ELSE b[k - (i - 1)]
    BY <1>1, <2>1
  <2>3. ASSUME NEW k \in 1 .. n - 1
        PROVE  t[k] = IF k < i THEN recs[k] ELSE recs[k + 1]
    <3>1. k < i => k \in 1 .. i - 1
      OBVIOUS
    <3>2. ~(k < i) => k - (i - 1) \in 1 .. n - i /\ i + (k - (i - 1)) = k + 1
      BY <1>1
    <3>3. QED
      BY <1>2, <1>3, <2>2, <3>1, <3>2
  <2>4. DOMAIN t = 1 .. n - 1
    BY <2>1, <2>2, LenProperties
  <2>5. QED
    BY <2>1, <2>2, <2>3, <2>4
<1>6. \A k, l \in 1 .. n : k < l => recs[k].id < recs[l].id
  BY DEF Growing
<1> HIDE DEF n
<1>7. Growing(t)
  <2>1. ASSUME NEW k \in 1 .. n - 1, NEW l \in 1 .. n - 1, k < l
        PROVE  t[k].id < t[l].id
    <3> DEFINE k1 == IF k < i THEN k ELSE k + 1
               l1 == IF l < i THEN l ELSE l + 1
    <3>1. k1 \in 1 .. n /\ l1 \in 1 .. n /\ k1 < l1
      BY <1>1, <2>1
    <3>2. t[k] = recs[k1] /\ t[l] = recs[l1]
      BY <1>5
    <3> HIDE DEF k1, l1
    <3>3. QED
      BY <1>6, <3>1, <3>2
  <2>2. QED
    BY <1>5, <2>1 DEF Growing
<1>8. ASSUME NEW r \in ToSet(recs), r # recs[i]
      PROVE  r \in ToSet(t)
  <2>1. PICK k \in 1 .. n : r = recs[k]
    BY <1>1 DEF ToSet
  <2>2. k # i
    BY <1>8, <2>1
  <2>3. CASE k < i
    <3>1. k \in 1 .. n - 1 /\ t[k] = recs[k]
      BY <1>1, <1>5, <2>3 DEF n
    <3>2. QED
      BY <1>5, <2>1, <3>1 DEF ToSet
  <2>4. CASE ~(k < i)
    <3>1. k - 1 \in 1 .. n - 1 /\ ~(k - 1 < i) /\ (k - 1) + 1 = k
      BY <1>1, <2>2, <2>4
    <3>2. t[k - 1] = recs[k]
      BY <1>5, <3>1
    <3>3. QED
      BY <1>5, <2>1, <3>1, <3>2 DEF ToSet
  <2>5. QED
    BY <2>3, <2>4
<1>9. QED
  BY <1>7, <1>8 DEF t

LEMMA WithoutKeeps ==
    ASSUME NEW recs, Growing(recs), NEW k
    PROVE  Kept(recs, Without(recs, k), {k})
<1> DEFINE I == {i \in 1 .. Len(recs) : recs[i].id = k}
<1>1. Len(recs) \in Nat
  BY LenProperties DEF Growing
<1>2. CASE I = {}
  <2>1. Without(recs, k) = recs
    BY <1>2, Zenon DEF Without, RemoveFirstMatch
  <2>2. QED
    BY <2>1 DEF Kept
<1>3. CASE I # {}
  <2>1. Without(recs, k) = RemoveAt(recs, Min(I))
    <3>1. \E i \in 1 .. Len(recs) : recs[i].id = k
      BY <1>3
    <3>2. Without(recs, k) = RemoveAt(recs, SelectInSeq(recs, LAMBDA r : r.id = k))
      BY <3>1, Zenon DEF Without, RemoveFirstMatch
    <3>3. SelectInSeq(recs, LAMBDA r : r.id = k) = Min(I)
      BY <1>3, Zenon DEF SelectInSeq
    <3>4. QED
      BY <3>2, <3>3
  <2> DEFINE j == Min(I)
  <2>2. j \in I
    <3>1. I \in SUBSET (1 .. Len(recs))
      OBVIOUS
    <3> HIDE DEF I
    <3>2. QED
      BY <1>1, <1>3, <3>1, MinOfPositions
  <2>3. j \in 1 .. Len(recs) /\ recs[j].id = k
    BY <2>2
  <2> HIDE DEF j
  <2>4. /\ Growing(RemoveAt(recs, j))
        /\ \A r \in ToSet(recs) : r = recs[j] \/ r \in ToSet(RemoveAt(recs, j))
    BY <2>3, RemovedOne
  <2>5. Kept(recs, RemoveAt(recs, j), {k})
    BY <2>3, <2>4 DEF Kept
  <2>6. QED
    BY <2>1, <2>5 DEF j
<1>4. QED
  BY <1>2, <1>3

\* The last of some positions.
LEMMA MaxOfPositions ==
    ASSUME NEW n \in Nat, NEW s \in SUBSET (1 .. n), s # {}
    PROVE  Max(s) \in s
<1> DEFINE B == {k \in Nat : \E x \in s : k = n - x}
<1>1. PICK x \in s : TRUE
  OBVIOUS
<1>2. n - x \in B
  BY <1>1
<1>3. B \in SUBSET Nat /\ B # {}
  BY <1>2
<1> HIDE DEF B
<1>4. PICK k \in B : \A m \in Nat : m < k => m \notin B
  BY <1>3, Least
<1>5. PICK y \in s : k = n - y
  BY <1>4 DEF B
<1>6. ASSUME NEW z \in s PROVE y >= z
  <2>1. n - z \in Nat /\ n - z \in B /\ z \in Nat /\ y \in Nat
    BY DEF B
  <2>2. ~(n - z < k)
    BY <1>4, <2>1
  <2>3. QED
    BY <1>5, <2>1, <2>2
<1>7. \E y_1 \in s : \A z \in s : y_1 >= z
  BY <1>6
<1>8. QED
  BY <1>7, Zenon DEF Max

\* The recursion of Spared over the faults found, c[1], ..., c[n], has a solution.
Sparing(h, recs, c, n) ==
    h = [s \in SUBSET (1 .. n) |->
            IF s = {} THEN recs ELSE Without(h[s \ {Max(s)}], c[Max(s)].id)]

LEMMA PartSize ==
    ASSUME NEW n \in Nat, NEW s \in SUBSET (1 .. n)
    PROVE  /\ IsFiniteSet(s) /\ Cardinality(s) \in Nat
           /\ Cardinality(s) =< Cardinality(1 .. n)
<1>1. IsFiniteSet(1 .. n)
  BY FS_Interval
<1> DEFINE S == 1 .. n
<1>2. IsFiniteSet(S) /\ s \in SUBSET S
  BY <1>1
<1> HIDE DEF S
<1>3. IsFiniteSet(s) /\ Cardinality(s) =< Cardinality(S)
  BY <1>2, FS_Subset
<1>4. QED
  BY <1>3, FS_CardinalityType DEF S

LEMMA LastOff ==
    ASSUME NEW n \in Nat, NEW s \in SUBSET (1 .. n), s # {}
    PROVE  /\ Max(s) \in 1 .. n
           /\ s \ {Max(s)} \in SUBSET (1 .. n)
           /\ Cardinality(s) \in Nat /\ Cardinality(s \ {Max(s)}) \in Nat
           /\ Cardinality(s \ {Max(s)}) = Cardinality(s) - 1
<1>1. IsFiniteSet(s)
  BY PartSize
<1>2. Max(s) \in s
  BY MaxOfPositions
<1>3. QED
  BY <1>1, <1>2, FS_RemoveElement, FS_CardinalityType

LEMMA SparingThere ==
    ASSUME NEW recs, NEW c, NEW n \in Nat PROVE \E h : Sparing(h, recs, c, n)
<1> DEFINE Upto(h, k) ==
      \A s \in SUBSET (1 .. n) : Cardinality(s) =< k =>
        h[s] = IF s = {} THEN recs ELSE Without(h[s \ {Max(s)}], c[Max(s)].id)
    Miss == {k \in Nat : ~\E h : Upto(h, k)}
<1>0. \A s \in SUBSET (1 .. n) : IsFiniteSet(s) /\ Cardinality(s) \in Nat
  BY PartSize
<1>1. Miss = {}
  <2>1. SUFFICES ASSUME Miss # {} PROVE FALSE
    OBVIOUS
  <2>2. PICK k \in Miss : \A m \in Nat : m < k => m \notin Miss
    BY <2>1, Least
  <2>3. k # 0
    <3>1. SUFFICES ASSUME k = 0 PROVE FALSE
      OBVIOUS
    <3>2. Upto([s \in SUBSET (1 .. n) |-> recs], 0)
      <4>1. ASSUME NEW s \in SUBSET (1 .. n), Cardinality(s) =< 0 PROVE s = {}
        BY <1>0, <4>1, FS_EmptySet
      <4>2. QED
        BY <4>1
    <3>3. QED
      BY <3>1, <3>2, <2>2
  <2>4. k - 1 \in Nat /\ k - 1 < k /\ k \in Nat
    BY <2>2, <2>3
  <2>5. PICK g : Upto(g, k - 1)
    BY <2>2, <2>4
  <2> DEFINE h == [s \in SUBSET (1 .. n) |->
                     IF Cardinality(s) =< k - 1 THEN g[s]
                     ELSE Without(g[s \ {Max(s)}], c[Max(s)].id)]
  <2>6. Upto(h, k)
    <3> SUFFICES ASSUME NEW s \in SUBSET (1 .. n), Cardinality(s) =< k
                 PROVE  h[s] = IF s = {} THEN recs
                               ELSE Without(h[s \ {Max(s)}], c[Max(s)].id)
      OBVIOUS
    <3>1. CASE s = {}
      <4>1. Cardinality(s) = 0
        BY <3>1, FS_EmptySet
      <4>2. QED
        BY <2>4, <2>5, <3>1, <4>1
    <3>2. CASE s # {}
      <4>1. /\ s \ {Max(s)} \in SUBSET (1 .. n)
            /\ Cardinality(s) \in Nat /\ Cardinality(s \ {Max(s)}) \in Nat
            /\ Cardinality(s \ {Max(s)}) = Cardinality(s) - 1
        BY <3>2, LastOff
      <4>2. h[s \ {Max(s)}] = g[s \ {Max(s)}]
        BY <2>4, <4>1
      <4>3. CASE Cardinality(s) =< k - 1
        BY <2>5, <3>2, <4>2, <4>3
      <4>4. CASE ~(Cardinality(s) =< k - 1)
        BY <3>2, <4>2, <4>4
      <4>5. QED
        BY <4>3, <4>4
    <3>3. QED
      BY <3>1, <3>2
  <2>7. QED
    BY <2>2, <2>6
<1>2. PICK g : Upto(g, Cardinality(1 .. n))
  BY <1>0, <1>1
<1>3. \A s \in SUBSET (1 .. n) : Cardinality(s) =< Cardinality(1 .. n)
  BY PartSize
<1> DEFINE h == [s \in SUBSET (1 .. n) |-> g[s]]
<1>4. Sparing(h, recs, c, n)
  <2> SUFFICES ASSUME NEW s \in SUBSET (1 .. n)
               PROVE  g[s] = IF s = {} THEN recs
                             ELSE Without(h[s \ {Max(s)}], c[Max(s)].id)
    BY Zenon DEF Sparing
  <2>1. g[s] = IF s = {} THEN recs ELSE Without(g[s \ {Max(s)}], c[Max(s)].id)
    BY <1>2, <1>3
  <2>2. s \ {Max(s)} \in SUBSET (1 .. n)
    OBVIOUS
  <2>3. QED
    BY <2>1, <2>2
<1>5. QED
  BY <1>4

\* remove_fault() of each fault found leaves every record whose id none of them has.
LEMMA SparedKeeps ==
    ASSUME NEW recs, Growing(recs), NEW c \in Seq(Rec)
    PROVE  Kept(recs, Spared(recs, c), {r.id : r \in ToSet(c)})
<1> DEFINE n == Len(c)
           ids == {r.id : r \in ToSet(c)}
           h == CHOOSE g : g = [s \in SUBSET (DOMAIN c) |->
                    IF s = {} THEN recs
                    ELSE RemoveFirstMatch(g[s \ {Max(s)}], LAMBDA r : r.id = c[Max(s)].id)]
<1>1. n \in Nat /\ DOMAIN c = 1 .. n /\ \A i \in 1 .. n : c[i].id \in ids
  BY LenProperties DEF ToSet
<1>2. Spared(recs, c) = h[DOMAIN c]
  BY Zenon DEF Spared, FoldLeft, MapThenFoldSet
<1> DEFINE Solves(g) == g = [s \in SUBSET (DOMAIN c) |->
                    IF s = {} THEN recs
                    ELSE RemoveFirstMatch(g[s \ {Max(s)}], LAMBDA r : r.id = c[Max(s)].id)]
<1>3. Solves(h)
  <2>1. PICK g : Sparing(g, recs, c, n)
    <3> HIDE DEF n
    <3> QED
      BY <1>1, SparingThere
  <2>2. g = [s \in SUBSET (DOMAIN c) |->
                IF s = {} THEN recs ELSE Without(g[s \ {Max(s)}], c[Max(s)].id)]
    BY <1>1, <2>1, Zenon DEF Sparing
  <2>3. Solves(g)
    BY <2>2, Zenon DEF Without
  <2>4. QED
    BY <2>3, Zenon
<1>4. Sparing(h, recs, c, n)
  <2>1. h = [s \in SUBSET (DOMAIN c) |->
                IF s = {} THEN recs ELSE Without(h[s \ {Max(s)}], c[Max(s)].id)]
    <3> HIDE DEF h
    <3> QED
      BY <1>3, Zenon DEF Without
  <2> HIDE DEF h
  <2>2. QED
    BY <1>1, <2>1, Zenon DEF Sparing
<1> HIDE DEF h, n, ids
<1>5. \A s \in SUBSET (1 .. n) :
        h[s] = IF s = {} THEN recs ELSE Without(h[s \ {Max(s)}], c[Max(s)].id)
  BY <1>4 DEF Sparing
<1> DEFINE Miss == {k \in Nat : \E s \in SUBSET (1 .. n) :
                        Cardinality(s) = k /\ ~Kept(recs, h[s], ids)}
<1>6. Miss = {}
  <2>1. SUFFICES ASSUME Miss # {} PROVE FALSE
    OBVIOUS
  <2>2. PICK k \in Miss : \A m \in Nat : m < k => m \notin Miss
    BY <2>1, Least
  <2>3. PICK s \in SUBSET (1 .. n) : Cardinality(s) = k /\ ~Kept(recs, h[s], ids)
    BY <2>2
  <2>4. s # {}
    BY <1>5, <2>3 DEF Kept
  <2> DEFINE x == Max(s)
             r == s \ {x}
  <2>5. /\ x \in 1 .. n /\ r \in SUBSET (1 .. n)
        /\ Cardinality(s) \in Nat /\ Cardinality(r) \in Nat
        /\ Cardinality(r) = Cardinality(s) - 1
    BY <1>1, <2>4, LastOff
  <2>6. h[s] = Without(h[r], c[x].id)
    BY <1>5, <2>4
  <2> HIDE DEF r, x
  <2>7. Kept(recs, h[r], ids)
    <3>1. Cardinality(r) < k
      BY <2>3, <2>5
    <3>2. QED
      BY <2>2, <2>5, <3>1
  <2>8. Kept(h[r], h[s], {c[x].id})
    BY <2>6, <2>7, WithoutKeeps DEF Kept
  <2>9. c[x].id \in ids
    BY <1>1, <2>5
  <2>10. QED
    BY <2>3, <2>7, <2>8, <2>9 DEF Kept
<1>7. Kept(recs, h[1 .. n], ids)
  <2>1. Cardinality(1 .. n) \in Nat
    BY <1>1, PartSize
  <2>2. QED
    BY <1>6, <2>1
<1>8. QED
  BY <1>1, <1>2, <1>7 DEF ids

LEMMA Listed ==
    ASSUME NEW T, NEW n \in Nat, NEW q \in [1 .. n -> T]
    PROVE  q \in Seq(T) /\ Len(q) = n
<1>1. q \in Seq(T)
  BY SeqDef
<1>2. QED
  BY <1>1

LEMMA OneElement ==
    ASSUME NEW S, NEW x \in S
    PROVE  <<x>> \in Seq(S) /\ ToSet(<<x>>) = {x} /\ <<>> \in Seq(S) /\ ToSet(<<>>) = {}
BY DEF ToSet

LEMMA SetOfSeq ==
    ASSUME NEW S, NEW s \in Seq(S)
    PROVE  ToSet(s) \in SUBSET S /\ IsFiniteSet(ToSet(s))
<1>1. Len(s) \in Nat /\ DOMAIN s = 1 .. Len(s) /\ s \in [1 .. Len(s) -> S]
  BY LenProperties
<1>2. s \in Surjection(1 .. Len(s), ToSet(s))
  BY <1>1 DEF Surjection, ToSet
<1>3. IsFiniteSet(1 .. Len(s))
  BY <1>1, FS_Interval
<1>4. IsFiniteSet(ToSet(s))
  BY <1>2, <1>3, FS_Surjection
<1>5. QED
  BY <1>1, <1>4 DEF ToSet

LEMMA TailSet ==
    ASSUME NEW S, NEW s \in Seq(S), s # <<>>
    PROVE  /\ Tail(s) \in Seq(S) /\ Head(s) \in ToSet(s)
           /\ ToSet(s) = ToSet(Tail(s)) \cup {Head(s)}
<1>1. /\ Tail(s) \in Seq(S) /\ Len(Tail(s)) = Len(s) - 1
      /\ \A i \in 1 .. Len(Tail(s)) : Tail(s)[i] = s[i + 1]
      /\ Len(s) \in Nat /\ Len(s) > 0 /\ Head(s) = s[1]
      /\ DOMAIN s = 1 .. Len(s) /\ DOMAIN Tail(s) = 1 .. Len(Tail(s))
  BY HeadTailProperties, EmptySeq, LenProperties
<1>2. ASSUME NEW x \in ToSet(s) PROVE x = Head(s) \/ x \in ToSet(Tail(s))
  <2>1. PICK i \in 1 .. Len(s) : x = s[i]
    BY <1>1 DEF ToSet
  <2>2. i = 1 \/ (i - 1 \in 1 .. Len(Tail(s)) /\ Tail(s)[i - 1] = s[i])
    BY <1>1
  <2>3. QED
    BY <1>1, <2>1, <2>2 DEF ToSet
<1>3. ASSUME NEW x \in ToSet(Tail(s)) PROVE x \in ToSet(s)
  <2>1. PICK i \in 1 .. Len(Tail(s)) : x = Tail(s)[i]
    BY <1>1 DEF ToSet
  <2>2. i + 1 \in 1 .. Len(s) /\ x = s[i + 1]
    BY <1>1, <2>1
  <2>3. QED
    BY <1>1, <2>2 DEF ToSet
<1>4. Head(s) \in ToSet(s)
  <2>1. 1 \in DOMAIN s
    BY <1>1
  <2>2. QED
    BY <1>1, <2>1 DEF ToSet
<1>5. QED
  BY <1>1, <1>2, <1>3, <1>4

\* SetToSeq lists a finite set.
LEMMA Listing ==
    ASSUME NEW S, IsFiniteSet(S)
    PROVE  SetToSeq(S) \in Seq(S) /\ ToSet(SetToSeq(S)) = S
<1> DEFINE n == Cardinality(S)
           s == SetToSeq(S)
<1>1. n \in Nat /\ \E f \in [1 .. n -> S] : IsInjective(f)
  <2>1. n \in Nat /\ ExistsBijection(1 .. n, S)
    BY FS_CardinalityType
  <2>2. QED
    BY <2>1 DEF ExistsBijection, Bijection, Injection, IsInjective
<1>2. s \in [1 .. n -> S] /\ IsInjective(s)
  BY <1>1 DEF SetToSeq
<1>3. s \in Surjection(1 .. n, S)
  <2>1. IsFiniteSet(1 .. n) /\ Cardinality(1 .. n) = n
    BY <1>1, FS_Interval
  <2>2. s \in Injection(1 .. n, S)
    BY <1>2 DEF Injection, IsInjective
  <2>3. QED
    BY <2>1, <2>2, FS_Injection
<1>4. DOMAIN s = 1 .. n /\ s \in Seq(S)
  BY <1>1, <1>2, SeqDef
<1> HIDE DEF s, n
<1>5. ToSet(s) = S
  BY <1>3, <1>4 DEF ToSet, Surjection
<1>6. QED
  BY <1>4, <1>5 DEF s

LEMMA PeersArePorts ==
    ASSUME NEW ports \in Seq(Ports)
    PROVE  WithPeers(ports) \in Seq(Ports)
<1> DEFINE one(i) == IF Peer[ports[i]] = None THEN <<ports[i]>>
                     ELSE <<ports[i], Peer[ports[i]]>>
           q == [i \in DOMAIN ports |-> one(i)]
<1>1. Len(ports) \in Nat /\ DOMAIN ports = 1 .. Len(ports)
  BY LenProperties
<1>2. ASSUME NEW i \in 1 .. Len(ports) PROVE one(i) \in Seq(Ports)
  <2>1. ports[i] \in Ports
    BY ElementOfSeq
  <2>2. Peer[ports[i]] \in Ports \cup {None}
    BY <2>1, LabAssumption
  <2>3. QED
    BY <2>1, <2>2
<1>3. q \in Seq(Seq(Ports))
  <2>1. q \in [1 .. Len(ports) -> Seq(Ports)]
    BY <1>1, <1>2
  <2> HIDE DEF q
  <2>2. QED
    BY <1>1, <2>1, Listed
<1>4. WithPeers(ports) = FlattenSeq(q)
  BY Zenon DEF WithPeers
<1> HIDE DEF q
<1>5. QED
  BY <1>3, <1>4, Flattened

\* find_by_node() and find_by_interface() return faults of the file.
LEMMA FoundInFile ==
    ASSUME NEW recs, Growing(recs), NEW named
    PROVE  /\ Found(recs, named) \in Seq(Rec)
           /\ ToSet(Found(recs, named)) \subseteq ToSet(recs)
<1> DEFINE one(i) == IF recs[i].on \cap named # {} THEN <<recs[i]>> ELSE <<>>
           q == [i \in DOMAIN recs |-> one(i)]
<1>1. Len(recs) \in Nat /\ DOMAIN recs = 1 .. Len(recs)
  BY LenProperties DEF Growing
<1>2. ASSUME NEW i \in 1 .. Len(recs)
      PROVE  one(i) \in Seq(Rec) /\ ToSet(one(i)) \subseteq {recs[i]}
  <2>1. recs[i] \in Rec
    BY ElementOfSeq DEF Growing
  <2>2. QED
    BY <2>1, OneElement
<1>3. q \in Seq(Seq(Rec)) /\ Len(q) = Len(recs)
  <2>1. q \in [1 .. Len(recs) -> Seq(Rec)]
    BY <1>1, <1>2
  <2> HIDE DEF q
  <2>2. QED
    BY <1>1, <2>1, Listed
<1>4. \A i \in 1 .. Len(recs) : q[i] = one(i)
  BY <1>1
<1>5. Found(recs, named) = FlattenSeq(q)
  BY Zenon DEF Found
<1> HIDE DEF q
<1>6. /\ FlattenSeq(q) \in Seq(Rec)
      /\ \A x : x \in ToSet(FlattenSeq(q)) <=> \E i \in 1 .. Len(q) : x \in ToSet(q[i])
  BY <1>3, Flattened
<1>7. ASSUME NEW x \in ToSet(FlattenSeq(q)) PROVE x \in ToSet(recs)
  <2>1. PICK i \in 1 .. Len(recs) : x \in ToSet(q[i])
    BY <1>3, <1>6
  <2>2. x = recs[i]
    BY <1>2, <1>4, <2>1
  <2>3. QED
    BY <1>1, <2>2 DEF ToSet
<1>8. QED
  BY <1>5, <1>6, <1>7

\* _revert_fault() of the faults brings up all interfaces that they shut.
LEMMA Reverting ==
    ASSUME NEW recs \in Seq(Rec)
    PROVE  /\ ToRevert(recs) \in Seq(NICs \cup Ports)
           /\ \A r \in ToSet(recs) : r.kind = "shut" => r.on \subseteq ToSet(ToRevert(recs))
<1> DEFINE D == NICs \cup Ports
           one(i) == IF recs[i].kind = "shut" THEN SetToSeq(recs[i].on) ELSE <<>>
           q == [i \in DOMAIN recs |-> one(i)]
<1>1. Len(recs) \in Nat /\ DOMAIN recs = 1 .. Len(recs)
  BY LenProperties
<1>2. ASSUME NEW i \in 1 .. Len(recs)
      PROVE  /\ one(i) \in Seq(D)
             /\ recs[i].kind = "shut" => ToSet(one(i)) = recs[i].on
  <2>1. recs[i] \in Rec
    BY ElementOfSeq
  <2>2. recs[i].on \in SUBSET D /\ IsFiniteSet(recs[i].on)
    BY <2>1 DEF Rec
  <2>3. SetToSeq(recs[i].on) \in Seq(recs[i].on) /\ ToSet(SetToSeq(recs[i].on)) = recs[i].on
    BY <2>2, Listing
  <2>4. SetToSeq(recs[i].on) \in Seq(D)
    BY <2>2, <2>3, SeqMonotonic
  <2>5. <<>> \in Seq(D)
    OBVIOUS
  <2>6. QED
    BY <2>3, <2>4, <2>5
<1>3. q \in Seq(Seq(D)) /\ Len(q) = Len(recs)
  <2>1. q \in [1 .. Len(recs) -> Seq(D)]
    BY <1>1, <1>2
  <2> HIDE DEF q
  <2>2. QED
    BY <1>1, <2>1, Listed
<1>4. \A i \in 1 .. Len(recs) : q[i] = one(i)
  BY <1>1
<1>5. ToRevert(recs) = FlattenSeq(q)
  BY Zenon DEF ToRevert
<1> HIDE DEF q, D
<1>6. /\ FlattenSeq(q) \in Seq(D)
      /\ \A x : x \in ToSet(FlattenSeq(q)) <=> \E i \in 1 .. Len(q) : x \in ToSet(q[i])
  BY <1>3, Flattened
<1>7. ASSUME NEW r \in ToSet(recs), r.kind = "shut", NEW d \in r.on
      PROVE  d \in ToSet(FlattenSeq(q))
  <2>1. PICK i \in 1 .. Len(recs) : r = recs[i]
    BY <1>1 DEF ToSet
  <2>2. d \in ToSet(q[i])
    BY <1>2, <1>4, <1>7, <2>1
  <2>3. QED
    BY <1>3, <1>6, <2>2
<1>8. QED
  BY <1>5, <1>6, <1>7 DEF D

\* A new record's id is above all others.
LEMMA IdsGrow ==
    ASSUME NEW recs, Growing(recs)
    PROVE  NextId(recs) \in Nat /\ \A i \in 1 .. Len(recs) : recs[i].id < NextId(recs)
<1> DEFINE n == Len(recs)
           T == {0} \cup {recs[i].id : i \in DOMAIN recs}
<1>1. n \in Nat /\ DOMAIN recs = 1 .. n /\ \A i \in 1 .. n : recs[i].id \in Nat
  <2>1. n \in Nat /\ DOMAIN recs = 1 .. n /\ \A i \in 1 .. n : recs[i] \in Rec
    BY LenProperties, ElementOfSeq DEF Growing
  <2>2. QED
    BY <2>1 DEF Rec
<1>2. \A i, k \in 1 .. n : i < k => recs[i].id < recs[k].id
  BY DEF Growing
<1>3. T \subseteq Nat /\ \A i \in 1 .. n : recs[i].id \in T
  BY <1>1
<1>4. \E m \in T : \A t \in T : m >= t
  <2>1. CASE n = 0
    <3>1. T = {0}
      BY <1>1, <2>1
    <3>2. QED
      BY <3>1
  <2>2. CASE n # 0
    <3>1. n \in 1 .. n
      BY <1>1, <2>2
    <3>2. ASSUME NEW i \in 1 .. n PROVE recs[n].id >= recs[i].id
      BY <1>1, <1>2, <3>1, <3>2
    <3>3. recs[n].id \in T /\ \A t \in T : recs[n].id >= t
      BY <1>1, <3>1, <3>2
    <3>4. QED
      BY <3>3
  <2>3. QED
    BY <2>1, <2>2
<1>5. NextId(recs) = 1 + Max(T)
  BY DEF NextId
<1> HIDE DEF T, n
<1>6. Max(T) \in T /\ \A t \in T : Max(T) >= t
  BY <1>4, Zenon DEF Max
<1>7. Max(T) \in Nat /\ \A i \in 1 .. n : Max(T) >= recs[i].id
  BY <1>3, <1>6
<1>8. ASSUME NEW i \in 1 .. n PROVE recs[i].id < 1 + Max(T)
  BY <1>1, <1>7
<1>9. QED
  BY <1>5, <1>7, <1>8 DEF n

LEMMA NewRecord ==
    ASSUME NEW recs, Growing(recs), NEW r \in Rec, r.id = NextId(recs)
    PROVE  /\ Growing(Append(recs, r))
           /\ ToSet(Append(recs, r)) = ToSet(recs) \cup {r}
<1> DEFINE n == Len(recs)
           t == Append(recs, r)
<1>1. /\ recs \in Seq(Rec) /\ n \in Nat /\ DOMAIN recs = 1 .. n
      /\ \A i \in 1 .. n : recs[i].id < r.id
      /\ \A i, k \in 1 .. n : i < k => recs[i].id < recs[k].id
  BY IdsGrow, LenProperties DEF Growing
<1>2. /\ t \in Seq(Rec) /\ Len(t) = n + 1 /\ DOMAIN t = 1 .. n + 1
      /\ t[n + 1] = r /\ \A i \in 1 .. n : t[i] = recs[i]
  BY <1>1, AppendProperties, LenProperties
<1> HIDE DEF t, n
<1>3. \A i : i \in 1 .. n + 1 <=> i \in 1 .. n \/ i = n + 1
  BY <1>1
<1>4. Growing(t)
  <2>1. ASSUME NEW i \in 1 .. n + 1, NEW k \in 1 .. n + 1, i < k
        PROVE  t[i].id < t[k].id
    <3>1. i \in 1 .. n /\ (k \in 1 .. n \/ k = n + 1)
      BY <1>1, <2>1
    <3>2. QED
      BY <1>1, <1>2, <2>1, <3>1
  <2>2. QED
    BY <1>2, <2>1 DEF Growing
<1>5. ToSet(t) = ToSet(recs) \cup {r}
  BY <1>1, <1>2, <1>3 DEF ToSet
<1>6. QED
  BY <1>4, <1>5 DEF t

-----------------------------------------------------------------------------
(* Interfaces that are down.                                                  *)

Recorded(recs, d) == \E r \in ToSet(recs) : r.kind = "shut" /\ d \in r.on

\* What a job of the only operator, the fault file, the interfaces that are down
\* and the failures so far say of each other: a command that is shutting or
\* clearing has the file in memory, and answers for what is not recorded there.
Good(j, recs, dn, g) ==
    /\ Growing(recs)
    /\ j.pc \in {"apply", "record"} => j.targets \in Seq(NICs)
    /\ j.pc \in {"record", "shut"} => j.mem = recs
    /\ j.pc = "shut" => /\ j.targets \in Seq(Ports) /\ j.todo \in Seq(Ports)
                        /\ ToSet(j.todo) \subseteq ToSet(j.targets)
    /\ j.pc = "clear" => Growing(j.mem) /\ j.todo \in Seq(NICs \cup Ports)
    /\ g = 0 => \A d \in dn : Recorded(recs, d) \/ (j.pc = "shut" /\ d \in ToSet(j.targets))
    /\ g = 0 /\ j.pc = "clear" => \A d \in dn : Recorded(j.mem, d) \/ d \in ToSet(j.todo)

\* A step that is neither of shutting nor of clearing.
LEMMA GoodElsewhere ==
    ASSUME NEW j, NEW recs, NEW dn, NEW g \in Nat, Good(j, recs, dn, g),
           j.pc \notin {"shut", "clear"},
           NEW k, k.pc \notin {"shut", "clear"}, NEW h \in {g, g + 1},
           k.pc \in {"apply", "record"} => k.targets \in Seq(NICs),
           k.pc = "record" => k.mem = recs
    PROVE  Good(k, recs, dn, h)
BY DEF Good

\* More failures change nothing.
LEMMA GoodLater ==
    ASSUME NEW j, NEW recs, NEW dn, NEW g \in Nat, Good(j, recs, dn, g), NEW h \in {g, g + 1}
    PROVE  Good(j, recs, dn, h)
<1>1. h = 0 => g = 0
  OBVIOUS
<1>2. QED
  BY <1>1 DEF Good

LEMMA GoodShutdown ==
    ASSUME NEW j, NEW recs, NEW dn, NEW g, Good(j, recs, dn, g), j.pc = "idle",
           NEW all \in Seq(Ports),
           NEW k, k.pc = "shut", k.todo = all, k.targets = all, k.mem = recs
    PROVE  Good(k, recs, dn, g)
BY DEF Good

LEMMA GoodShut ==
    ASSUME NEW j, NEW recs, NEW dn, NEW g, Good(j, recs, dn, g),
           j.pc = "shut", j.todo # <<>>,
           NEW k, k.pc = "shut", k.todo = Tail(j.todo), k.targets = j.targets, k.mem = j.mem
    PROVE  Good(k, recs, dn \cup {Head(j.todo)}, g)
<1>1. /\ Tail(j.todo) \in Seq(Ports) /\ Head(j.todo) \in ToSet(j.targets)
      /\ ToSet(Tail(j.todo)) \subseteq ToSet(j.targets)
  BY TailSet DEF Good
<1>2. QED
  BY <1>1 DEF Good

LEMMA GoodRecord ==
    ASSUME NEW j, NEW recs, NEW dn, NEW g, Good(j, recs, dn, g),
           j.pc \in {"shut", "record"}
    PROVE  Good(Idle, Append(j.mem, [id |-> NextId(j.mem), kind |-> j.pc,
                                     on |-> ToSet(j.targets)]), dn, g)
<1> DEFINE r == [id |-> NextId(recs), kind |-> j.pc, on |-> ToSet(j.targets)]
<1>1. Growing(recs) /\ j.mem = recs
  BY DEF Good
<1>2. ToSet(j.targets) \in SUBSET (NICs \cup Ports) /\ IsFiniteSet(ToSet(j.targets))
  <2>1. j.targets \in Seq(NICs) \/ j.targets \in Seq(Ports)
    BY DEF Good
  <2>2. QED
    BY <2>1, SetOfSeq
<1>3. r \in Rec /\ r.id = NextId(recs) /\ r.kind = j.pc /\ r.on = ToSet(j.targets)
  BY <1>1, <1>2, IdsGrow DEF Rec
<1> HIDE DEF r
<1>4. Growing(Append(recs, r)) /\ ToSet(Append(recs, r)) = ToSet(recs) \cup {r}
  BY <1>1, <1>3, NewRecord
<1>5. ASSUME g = 0, NEW d \in dn PROVE Recorded(Append(recs, r), d)
  BY <1>3, <1>4, <1>5 DEF Good, Recorded
<1>6. Good(Idle, Append(recs, r), dn, g)
  BY <1>4, <1>5, IdleJob DEF Good
<1>7. QED
  BY <1>1, <1>6 DEF r

LEMMA SameRecord ==
    ASSUME NEW recs, Growing(recs), NEW r \in ToSet(recs), NEW q \in ToSet(recs), r.id = q.id
    PROVE  r = q
<1>1. Len(recs) \in Nat /\ DOMAIN recs = 1 .. Len(recs)
      /\ \A i \in 1 .. Len(recs) : recs[i].id \in Nat
  <2>1. Len(recs) \in Nat /\ DOMAIN recs = 1 .. Len(recs)
        /\ \A i \in 1 .. Len(recs) : recs[i] \in Rec
    BY LenProperties, ElementOfSeq DEF Growing
  <2>2. QED
    BY <2>1 DEF Rec
<1>2. PICK i \in 1 .. Len(recs), k \in 1 .. Len(recs) : r = recs[i] /\ q = recs[k]
  BY <1>1 DEF ToSet
<1>3. ~(i < k) /\ ~(k < i)
  BY <1>1, <1>2 DEF Growing
<1>4. QED
  BY <1>1, <1>2, <1>3

LEMMA GoodClear ==
    ASSUME NEW j, NEW recs, NEW dn, NEW g, Good(j, recs, dn, g), j.pc = "idle",
           NEW named, NEW k, k.pc = "clear", k.todo = ToRevert(Found(recs, named)),
           k.mem = Spared(recs, Found(recs, named))
    PROVE  Good(k, recs, dn, g)
<1> DEFINE c == Found(recs, named)
<1>1. Growing(recs)
  BY DEF Good
<1>2. c \in Seq(Rec) /\ ToSet(c) \subseteq ToSet(recs)
  BY <1>1, FoundInFile
<1> HIDE DEF c
<1>3. /\ ToRevert(c) \in Seq(NICs \cup Ports)
      /\ \A r \in ToSet(c) : r.kind = "shut" => r.on \subseteq ToSet(ToRevert(c))
  BY <1>2, Reverting
<1>4. Kept(recs, Spared(recs, c), {r.id : r \in ToSet(c)})
  BY <1>1, <1>2, SparedKeeps
<1>5. ASSUME NEW r \in ToSet(recs) PROVE r \in ToSet(c) \/ r \in ToSet(Spared(recs, c))
  <2>1. CASE r.id \in {q.id : q \in ToSet(c)}
    <3>1. PICK q \in ToSet(c) : r.id = q.id
      BY <2>1
    <3>2. r = q
      BY <1>1, <1>2, <3>1, SameRecord
    <3>3. QED
      BY <3>2
  <2>2. CASE r.id \notin {q.id : q \in ToSet(c)}
    BY <1>4, <2>2 DEF Kept
  <2>3. QED
    BY <2>1, <2>2
<1>6. k.todo = ToRevert(c) /\ k.mem = Spared(recs, c)
  BY DEF c
<1>7. ASSUME g = 0, NEW d \in dn PROVE Recorded(k.mem, d) \/ d \in ToSet(k.todo)
  <2>1. PICK r \in ToSet(recs) : r.kind = "shut" /\ d \in r.on
    BY <1>7 DEF Good, Recorded
  <2>2. QED
    BY <1>3, <1>5, <1>6, <2>1 DEF Recorded
<1>8. Growing(k.mem)
  BY <1>4, <1>6 DEF Kept
<1>9. QED
  BY <1>3, <1>6, <1>7, <1>8 DEF Good

LEMMA GoodClearing ==
    ASSUME NEW j, NEW recs, NEW dn, NEW g \in Nat, Good(j, recs, dn, g),
           j.pc = "clear", j.todo # <<>>, NEW h, NEW less,
           \/ less = dn \ {Head(j.todo)} /\ h = g
           \/ less = dn /\ h = g + 1,
           NEW k, k.pc = "clear", k.todo = Tail(j.todo), k.targets = j.targets, k.mem = j.mem
    PROVE  Good(k, recs, less, h)
<1>1. /\ Tail(j.todo) \in Seq(NICs \cup Ports)
      /\ ToSet(j.todo) = ToSet(Tail(j.todo)) \cup {Head(j.todo)}
  BY TailSet DEF Good
<1>2. h = 0 => g = 0 /\ less = dn \ {Head(j.todo)}
  OBVIOUS
<1>3. QED
  BY <1>1, <1>2 DEF Good

LEMMA GoodCleared ==
    ASSUME NEW j, NEW recs, NEW dn, NEW g, Good(j, recs, dn, g),
           j.pc = "clear", j.todo = <<>>
    PROVE  Good(Idle, j.mem, dn, g)
<1>1. ToSet(j.todo) = {}
  BY DEF ToSet
<1>2. QED
  BY <1>1, IdleJob DEF Good

-----------------------------------------------------------------------------
(* The only operator's steps.                                                 *)

Answered(o) == Good(job[o], store, down, glitches)

LEMMA AnsweredInit ==
    ASSUME NEW o \in Operators
    PROVE  LabInit => Answered(o)
<1> SUFFICES ASSUME LabInit PROVE Good(job[o], store, down, glitches)
  BY DEF Answered
<1>1. job[o] = Idle /\ store = <<>> /\ down = {}
  BY ProcsDiffer DEF LabInit
<1>2. Growing(<<>>)
  BY EmptySeq DEF Growing
<1>3. QED
  BY <1>1, <1>2, IdleJob DEF Good

\* A step of another process.
LEMMA AnsweredElsewhere ==
    ASSUME LabInv, NEW o \in Operators, Answered(o), NEW p \in Procs, p # o, NEW j,
           Becomes(p, j), store' = store, down' = down, glitches' \in {glitches, glitches + 1}
    PROVE  Answered(o)'
<1>1. job'[o] = job[o] /\ glitches \in Nat
  BY ProcsDiffer DEF LabInv, Types, Becomes
<1>2. Good(job[o], store, down, glitches')
  BY <1>1, GoodLater DEF Answered
<1>3. QED
  BY <1>1, <1>2 DEF Answered

\* A step of its own that is neither of shutting nor of clearing.
LEMMA AnsweredNetem ==
    ASSUME LabInv, NEW o \in Operators, Answered(o), NEW j, Becomes(o, j),
           store' = store, down' = down, glitches' \in {glitches, glitches + 1},
           job[o].pc \notin {"shut", "clear"}, j.pc \notin {"shut", "clear"},
           j.pc \in {"apply", "record"} => j.targets \in Seq(NICs),
           j.pc = "record" => j.mem = store
    PROVE  Answered(o)'
<1>1. job'[o] = j /\ glitches \in Nat
  BY ProcsDiffer DEF LabInv, Types, Becomes
<1>2. Good(j, store, down, glitches')
  BY <1>1, GoodElsewhere DEF Answered
<1>3. QED
  BY <1>1, <1>2 DEF Answered

LEMMA NetemAnswered ==
    ASSUME LabInv, NEW o, Operators = {o}, Answered(o), NetemStep
    PROVE  Answered(o)'
<1> DEFINE Keeps == store' = store /\ down' = down /\ glitches' \in {glitches, glitches + 1}
<1>0. o \in Operators /\ o \in Procs /\ o \notin Scenarios
  BY ProcsDiffer
<1>1. ASSUME NEW p \in Procs, p # o,
             \/ \E t \in Targets : Apply(p, t)
             \/ Add(p) \/ AddRaises(p) \/ Del(p) \/ DelFails(p) \/ Reverted(p) \/ ApplyDone(p)
      PROVE  Answered(o)'
  <2>1. Keeps /\ \E j : Becomes(p, j)
    BY <1>1 DEF Apply, Add, AddRaises, Del, DelFails, Reverted, ApplyDone, Glitch
  <2>2. QED
    BY <1>0, <1>1, <2>1, AnsweredElsewhere
<1>2. ASSUME NEW t \in Targets, Apply(o, t)
      PROVE  Answered(o)'
  <2> DEFINE j == [Idle EXCEPT !.pc = "apply", !.todo = t, !.targets = t]
  <2>1. Keeps /\ Becomes(o, j) /\ job[o].pc = "idle"
    BY <1>2 DEF Apply, At
  <2>2. j = Job("apply", t, <<>>, t, <<>>)
    BY ApplyJob
  <2> HIDE DEF j
  <2>3. j.pc = "apply" /\ j.targets = t
    BY <2>2, JobFields
  <2>4. QED
    BY <1>0, <2>1, <2>3, ProcsDiffer, AnsweredNetem
<1>3. ASSUME Add(o) \/ Del(o) \/ DelFails(o) \/ ApplyDone(o)
      PROVE  Answered(o)'
  <2> DEFINE jp == job[o]
             n == Head(jp.todo)
             rest == Tail(jp.todo)
             longer == Append(jp.applied, n)
             less == Front(jp.applied)
             records == store
             added == [jp EXCEPT !.todo = rest, !.applied = longer]
             refused == [jp EXCEPT !.pc = "unwind", !.applied = jp.applied]
             popped == [jp EXCEPT !.applied = less]
             writes == [jp EXCEPT !.pc = "record", !.mem = records]
  <2>1. /\ Keeps
        /\ \/ jp.pc = "apply" /\ (Becomes(o, added) \/ Becomes(o, refused) \/ Becomes(o, writes))
           \/ jp.pc \in {"unwind", "revert"} /\ Becomes(o, popped)
           \/ jp.pc = "revert" /\ Becomes(o, Idle)
    BY <1>0, <1>3 DEF Add, Del, DelFails, ApplyDone, At, Glitch, AppliedOnFailure
  <2>2. Shape(jp)
    BY <1>0, JobFacts
  <2>3. jp.pc = "apply" => jp.targets \in Seq(NICs)
    BY DEF Answered, Good
  <2> HIDE DEF jp, n, rest, longer, less, records
  <2>4. /\ added = Job(jp.pc, rest, longer, jp.targets, jp.mem)
        /\ refused = Job("unwind", jp.todo, jp.applied, jp.targets, jp.mem)
        /\ popped = Job(jp.pc, jp.todo, less, jp.targets, jp.mem)
    BY <2>2, Updates
  <2>5. writes = Job("record", jp.todo, jp.applied, jp.targets, records)
    BY <2>2, Recording
  <2> HIDE DEF added, refused, popped, writes
  <2>6. added.pc = jp.pc /\ added.targets = jp.targets
    BY <2>4, JobFields
  <2>7. refused.pc = "unwind"
    BY <2>4, JobFields
  <2>8. popped.pc = jp.pc
    BY <2>4, JobFields
  <2>9. writes.pc = "record" /\ writes.targets = jp.targets /\ writes.mem = records
    BY <2>5, JobFields
  <2>10. PICK j : /\ Becomes(o, j) /\ jp.pc \notin {"shut", "clear"}
                  /\ j.pc \notin {"shut", "clear"}
                  /\ j.pc \in {"apply", "record"} => j.targets \in Seq(NICs)
                  /\ j.pc = "record" => j.mem = records
    BY <2>1, <2>3, <2>6, <2>7, <2>8, <2>9, IdleJob
  <2>11. QED
    BY <1>0, <2>1, <2>10, AnsweredNetem DEF jp, records
<1>4. ASSUME AddRaises(o) \/ Reverted(o)
      PROVE  Answered(o)'
  <2>1. Keeps /\ Becomes(o, Idle) /\ job[o].pc \in {"apply", "unwind", "revert"}
    BY <1>4 DEF AddRaises, Reverted, At, Glitch
  <2>2. QED
    BY <1>0, <2>1, IdleJob, AnsweredNetem
<1>5. QED
  BY <1>0, <1>1, <1>2, <1>3, <1>4 DEF NetemStep

LEMMA SrctlAnswered ==
    ASSUME LabInv, NEW o, Operators = {o}, Answered(o), SrctlStep
    PROVE  Answered(o)'
<1> DEFINE jp == job[o]
           recs == store
           g == glitches
           dn == down
<1>0. o \in Operators /\ o \in Procs
  BY ProcsDiffer
<1>1. Shape(jp) /\ Good(jp, recs, dn, g) /\ g \in Nat
  BY <1>0, JobFacts DEF Answered, LabInv, Types
<1>2. \A j : Becomes(o, j) => job'[o] = j
  BY <1>0 DEF LabInv, Types, Becomes
<1>3. ASSUME NEW ports \in Shutdowns, NEW both \in BOOLEAN, Shutdown(o, ports, both)
      PROVE  Answered(o)'
  <2> DEFINE all == IF both THEN WithPeers(ports) ELSE ports
             k == [Idle EXCEPT !.pc = "shut", !.todo = all, !.targets = all, !.mem = recs]
  <2>1. all \in Seq(Ports)
    BY LabAssumption, PeersArePorts
  <2>2. /\ Becomes(o, k) /\ jp.pc = "idle"
        /\ store' = recs /\ down' = dn /\ glitches' = g
    BY <1>3 DEF Shutdown, At
  <2> HIDE DEF all, jp, recs, g, dn
  <2>3. k = Job("shut", all, <<>>, all, recs)
    BY ShutJob
  <2> HIDE DEF k
  <2>4. k.pc = "shut" /\ k.todo = all /\ k.targets = all /\ k.mem = recs
    BY <2>3, JobFields
  <2>5. Good(k, recs, dn, g)
    BY <1>1, <2>1, <2>2, <2>4, GoodShutdown
  <2>6. QED
    BY <1>2, <2>2, <2>5 DEF Answered
<1>4. ASSUME NEW named \in Clearings, Clear(o, named)
      PROVE  Answered(o)'
  <2> DEFINE doomed == Found(recs, named)
             todo == ToRevert(doomed)
             mem == Spared(recs, doomed)
             k == [Idle EXCEPT !.pc = "clear", !.todo = todo, !.mem = mem]
  <2>1. /\ Becomes(o, k) /\ jp.pc = "idle"
        /\ store' = recs /\ down' = dn /\ glitches' = g
    BY <1>4, Zenon DEF Clear, At
  <2> HIDE DEF doomed, todo, mem, jp, recs, g, dn
  <2>2. k = Job("clear", todo, <<>>, <<>>, mem)
    BY ClearJob
  <2> HIDE DEF k
  <2>3. k.pc = "clear" /\ k.todo = todo /\ k.mem = mem
    BY <2>2, JobFields
  <2>4. k.todo = ToRevert(Found(recs, named)) /\ k.mem = Spared(recs, Found(recs, named))
    BY <2>3 DEF todo, mem, doomed
  <2>5. Good(k, recs, dn, g)
    BY <1>1, <2>1, <2>3, <2>4, GoodClear
  <2>6. QED
    BY <1>2, <2>1, <2>5 DEF Answered
<1>5. ASSUME ShutNext(o)
      PROVE  Answered(o)'
  <2> DEFINE rest == Tail(jp.todo)
             k == [jp EXCEPT !.todo = rest]
  <2>1. /\ jp.pc = "shut" /\ jp.todo # <<>> /\ store' = recs
        /\ \/ down' = dn \cup {Head(jp.todo)} /\ Becomes(o, k) /\ glitches' = g
           \/ glitches' = g + 1 /\ Becomes(o, Idle) /\ down' = dn
    BY <1>5 DEF ShutNext, At, Glitch
  <2> HIDE DEF rest, jp, recs, g, dn
  <2>2. k = Job(jp.pc, rest, jp.applied, jp.targets, jp.mem)
    BY <1>1, Updates
  <2> HIDE DEF k
  <2>3. k.pc = jp.pc /\ k.todo = rest /\ k.targets = jp.targets /\ k.mem = jp.mem
    BY <2>2, JobFields
  <2>4. Good(k, recs, dn \cup {Head(jp.todo)}, g)
    BY <1>1, <2>1, <2>3, GoodShut DEF rest
  <2>5. Good(Idle, recs, dn, g + 1)
    BY <1>1, IdleJob DEF Good
  <2>6. QED
    BY <1>2, <2>1, <2>4, <2>5 DEF Answered
<1>6. ASSUME Record(o)
      PROVE  Answered(o)'
  <2>1. /\ jp.pc \in {"shut", "record"} /\ Becomes(o, Idle) /\ down' = dn /\ glitches' = g
        /\ store' = Append(jp.mem, [id |-> NextId(jp.mem), kind |-> jp.pc,
                                    on |-> ToSet(jp.targets)])
    BY <1>6, Zenon DEF Record, At
  <2> HIDE DEF jp, recs, g, dn
  <2>2. Good(Idle, store', dn, g)
    BY <1>1, <2>1, GoodRecord
  <2>3. QED
    BY <1>2, <2>1, <2>2 DEF Answered
<1>7. ASSUME ClearNext(o)
      PROVE  Answered(o)'
  <2> DEFINE rest == Tail(jp.todo)
             k == [jp EXCEPT !.todo = rest]
             dn1 == down'
             g1 == glitches'
  <2>1. /\ jp.pc = "clear" /\ jp.todo # <<>> /\ store' = recs /\ Becomes(o, k)
        /\ \/ dn1 = dn \ {Head(jp.todo)} /\ g1 = g
           \/ dn1 = dn /\ g1 = g + 1
    BY <1>7 DEF ClearNext, At, Glitch
  <2> HIDE DEF rest, jp, recs, g, dn, dn1, g1
  <2>2. k = Job(jp.pc, rest, jp.applied, jp.targets, jp.mem)
    BY <1>1, Updates
  <2> HIDE DEF k
  <2>3. k.pc = jp.pc /\ k.todo = rest /\ k.targets = jp.targets /\ k.mem = jp.mem
    BY <2>2, JobFields
  <2>4. Good(k, recs, dn1, g1)
    BY <1>1, <2>1, <2>3, GoodClearing DEF rest
  <2>5. QED
    BY <1>2, <2>1, <2>4 DEF Answered, dn1, g1
<1>8. ASSUME Cleared(o)
      PROVE  Answered(o)'
  <2>1. /\ jp.pc = "clear" /\ jp.todo = <<>> /\ store' = jp.mem /\ Becomes(o, Idle)
        /\ down' = dn /\ glitches' = g
    BY <1>8 DEF Cleared, At
  <2> HIDE DEF jp, recs, g, dn
  <2>2. Good(Idle, jp.mem, dn, g)
    BY <1>1, <2>1, GoodCleared
  <2>3. QED
    BY <1>2, <2>1, <2>2 DEF Answered
<1>9. QED
  BY <1>3, <1>4, <1>5, <1>6, <1>7, <1>8 DEF SrctlStep

LEMMA AnsweredStep ==
    ASSUME NEW o, Operators = {o}
    PROVE  LabInv /\ Answered(o) /\ [LabNext]_labVars => Answered(o)'
<1> SUFFICES ASSUME LabInv, Answered(o), [LabNext]_labVars PROVE Answered(o)'
  OBVIOUS
<1>1. CASE UNCHANGED labVars
  BY <1>1 DEF labVars, Answered
<1>2. ASSUME NEW p \in Scenarios, EndScenario(p) PROVE Answered(o)'
  <2>1. p \in Procs /\ p # o /\ o \in Operators
    BY ProcsDiffer
  <2>2. /\ store' = store /\ down' = down /\ glitches' = glitches
        /\ Becomes(p, [job[p] EXCEPT !.pc = "revert"])
    BY <1>2 DEF EndScenario, Goes, Becomes
  <2>3. QED
    BY <2>1, <2>2, AnsweredElsewhere
<1>3. QED
  BY <1>1, <1>2, NetemAnswered, SrctlAnswered DEF LabNext

\* With one operator and no failure, what is down is recorded in the fault file or
\* named by the command that is shutting it: add_fault(), remove_fault() and
\* generate_fault_id() lose track of no interface, whatever is shut and cleared in
\* whatever order and whatever scenarios do meanwhile.
THEOREM DownAccounted == LabSpec => []DownRecorded
<1>1. ASSUME NEW o, Operators = {o} PROVE LabSpec => []Answered(o)
  <2>1. LabInit => Answered(o)
    BY <1>1, AnsweredInit
  <2>2. LabInv /\ Answered(o) /\ [LabNext]_labVars => Answered(o)'
    BY <1>1, AnsweredStep
  <2>3. QED
    BY <2>1, <2>2, LabInvAlways, PTL DEF LabSpec
<1>2. ASSUME NEW o, Operators = {o} PROVE Answered(o) => DownRecorded
  <2> SUFFICES ASSUME Answered(o), glitches = 0, NEW d \in down
               PROVE  \/ \E i \in DOMAIN store : d \in store[i].on
                      \/ Contains(job[o].targets, d)
    BY <1>2 DEF DownRecorded
  <2> DEFINE j == job[o]
  <2>1. \/ Recorded(store, d)
        \/ j.pc = "shut" /\ d \in ToSet(j.targets) /\ j.targets \in Seq(Ports)
    BY DEF Answered, Good
  <2> HIDE DEF j
  <2>2. CASE Recorded(store, d)
    BY <2>2 DEF Recorded, ToSet
  <2>3. CASE j.pc = "shut" /\ d \in ToSet(j.targets) /\ j.targets \in Seq(Ports)
    <3>1. DOMAIN j.targets = 1 .. Len(j.targets)
      BY <2>3, LenProperties
    <3>2. Contains(j.targets, d)
      BY <2>3, <3>1 DEF Contains, ToSet
    <3>3. QED
      BY <3>2 DEF j
  <2>4. QED
    BY <2>1, <2>2, <2>3
<1>3. CASE Cardinality(Operators) = 1
  <2>1. PICK o : Operators = {o}
    BY <1>3, LabAssumption, FS_Singleton
  <2>2. LabSpec => []Answered(o)
    BY <2>1, <1>1
  <2>3. Answered(o) => DownRecorded
    BY <2>1, <1>2
  <2>4. QED
    BY <2>2, <2>3, PTL
<1>4. CASE Cardinality(Operators) # 1
  <2>1. DownRecorded
    BY <1>4 DEF DownRecorded
  <2>2. QED
    BY <2>1, PTL
<1>5. QED
  BY <1>3, <1>4
=============================================================================
