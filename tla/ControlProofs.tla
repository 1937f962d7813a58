----------------------------- MODULE ControlProofs -----------------------------
(***************************************************************************)
(* Proofs about ControlPlane, for every set of flows within tenants, every *)
(* workload and any number of EVs and packets: no echo is credited to      *)
(* another flow or twice, and a packet counted at a receiver is in one     *)
(* place until its own sender has heard of it.                             *)
(***************************************************************************)
EXTENDS ControlPlane, FiniteSetTheorems, SequenceTheorems, TLAPS

Windows == [EVs -> [seen : SUBSET Pkts, trimmed : SUBSET TrimPkts]]

Messages ==
    {Probe(f, e, n) : f \in Flows, e \in EVs, n \in Probes}
    \cup {Nack(f, e, p) : f \in Flows, e \in EVs, p \in TrimPkts}
    \cup {LossReport(f, e, Encoded(w)) : f \in Flows, e \in EVs, w \in Windows}

\* The one socket a message may be in.
Place(m) == IF m.kind = "nack" THEN NackSocket(Home(m), Key(m))
                               ELSE Listener(Home(m), "daemon")

Types ==
    /\ load \in Workloads
    /\ DOMAIN life = Senders
    /\ noting \in [Flows -> EVs \cup {None}]
    /\ balance \in [Flows -> [EVs -> Int]]
    /\ win \in [Flows -> Windows]
    /\ learning \subseteq Flows \X EVs
    /\ last \in [Flows -> EVs \cup {None}]
    /\ DOMAIN closing = Receivers
    /\ owed = [f \in Flows |-> owed[f]] /\ asked = [f \in Flows |-> asked[f]]

\* A round closes the window of one of the host's own flows, and only if
\* something was counted in it.
Closes(h) ==
    closing[h] # None =>
        /\ closing[h] \in [flow : Flows, got : Windows]
        /\ closing[h].flow[2] = h
        /\ Counted(closing[h].got) # {}

\* Every message is in its own socket, once.
Sorted ==
    /\ inbox \in [Sockets -> Seq(Messages)]
    /\ \A s \in Sockets : \A i \in DOMAIN inbox[s] :
         /\ Place(inbox[s][i]) = s
         /\ \A j \in DOMAIN inbox[s] : inbox[s][i] = inbox[s][j] => i = j

\* What is counted of f in the window that its receiver has closed.
Sending(f) ==
    IF closing[f[2]] # None /\ closing[f[2]].flow = f THEN Counted(closing[f[2]].got) ELSE {}

Reported(f) == {m \in Reports : m.flow = f}
Nacked(f) == {m \in Waiting : m.kind = "nack" /\ m.flow = f}

\* CountedInOnePlace for one flow.
OnePlace(f) ==
    /\ owed[f] = Counted(win[f]) \cup Sending(f) \cup UNION {Counted(m.says.evs) : m \in Reported(f)}
    /\ Counted(win[f]) \cap Sending(f) = {}
    /\ \A m \in Reported(f) :
         /\ Counted(m.says.evs) \cap (Counted(win[f]) \cup Sending(f)) = {}
         /\ \A n \in Reported(f) \ {m} : Counted(m.says.evs) \cap Counted(n.says.evs) = {}
    /\ asked[f] = {m.says : m \in Nacked(f)}

\* No two messages of a flow under way speak of the same packet.
Apart ==
    /\ \A m \in Reports : Counted(m.says.evs) # {}
    /\ \A f \in Flows : \A m, n \in Nacked(f) : m.says = n.says => m = n

ControlInv ==
    /\ Types /\ \A h \in Receivers : Closes(h)
    /\ Sorted /\ Apart
    /\ EchoesAccounted
    /\ \A f \in Flows : OnePlace(f)

-----------------------------------------------------------------------------
(* Flows and messages.                                                        *)

\* A flow is known by its sender and the id of its destination.
LEMMA FlowKnown ==
    ASSUME NEW f \in Flows, NEW g \in Flows, f[1] = g[1], Id(f[2]) = Id(g[2])
    PROVE  f = g
<1>1. /\ f = <<<<f[1][1], f[1][2]>>, <<f[1][1], f[2][2]>>>>
      /\ g = <<<<g[1][1], g[1][2]>>, <<g[1][1], g[2][2]>>>>
  BY ControlAssumption
<1>2. QED
  BY <1>1 DEF Id

\* The demultiplexer finds the flow a probe or a report is about.
LEMMA Demuxed ==
    ASSUME NEW f \in Flows
    PROVE  Demux(f[1], Id(f[2])) = {f}
BY FlowKnown DEF Demux, FlowsOf

LEMMA MessageKinds ==
    ASSUME NEW m \in Messages
    PROVE  /\ m.flow \in Flows /\ m.ev \in EVs
           /\ m.kind \in {"probe", "nack", "report"}
           /\ m.kind = "probe" => m.says \in Probes /\ m = Probe(m.flow, m.ev, m.says)
           /\ m.kind = "nack" => m.says \in TrimPkts /\ m = Nack(m.flow, m.ev, m.says)
           /\ m.kind = "report" => \E w \in Windows : m.says = Encoded(w)
BY DEF Messages, Probe, Nack, LossReport

LEMMA PlaceIsSocket ==
    ASSUME NEW m \in Messages
    PROVE  Place(m) \in Sockets /\ BoundFor(m) = {Place(m)}
<1>1. m.flow \in Flows
  BY MessageKinds
<1>2. m.flow[1] \in Senders /\ m.flow[2] \in Receivers
  BY <1>1 DEF Senders, Receivers
<1>3. QED
  BY <1>2 DEF Place, Sockets, BoundFor, Listeners, Home, Key

\* What a report says is what its window counted, in either version.
LEMMA DecodedIsCounted ==
    ASSUME NEW w \in Windows
    PROVE  /\ Encoded(w).evs = w
           /\ Decoded(Encoded(w)) = Counted(w)
<1>1. CASE \E e \in EVs : w[e].trimmed # {}
  <2>1. Encoded(w).version = 3 /\ Encoded(w).evs = w
    BY <1>1 DEF Encoded
  <2>2. QED
    BY <2>1 DEF Decoded, Counted
<1>2. CASE ~\E e \in EVs : w[e].trimmed # {}
  <2>1. Encoded(w).version = 2 /\ Encoded(w).evs = w
    BY <1>2 DEF Encoded
  <2>2. \A e \in EVs : w[e].seen \cup w[e].trimmed = w[e].seen \cup {}
    BY <1>2
  <2>3. QED
    BY <2>1, <2>2 DEF Decoded, Counted
<1>3. QED
  BY <1>1, <1>2

\* A packet counted in a window is one that was not, or was.
LEMMA CountsSeen ==
    ASSUME NEW w \in Windows, NEW e \in EVs, NEW p \in Pkts
    PROVE  LET v == [w EXCEPT ![e].seen = @ \cup {p}] IN
           v \in Windows /\ Counted(v) = Counted(w) \cup {p}
<1> DEFINE v == [w EXCEPT ![e].seen = @ \cup {p}]
<1>1. /\ v \in Windows
      /\ v[e].seen = w[e].seen \cup {p} /\ v[e].trimmed = w[e].trimmed
      /\ \A d \in EVs \ {e} : v[d] = w[d]
  BY DEF Windows
<1> HIDE DEF v
<1>2. ASSUME NEW q PROVE q \in Counted(v) <=> q \in Counted(w) \cup {p}
  BY <1>1 DEF Counted
<1>3. QED
  BY <1>1, <1>2 DEF v

LEMMA CountsTrimmed ==
    ASSUME NEW w \in Windows, NEW e \in EVs, NEW p \in TrimPkts
    PROVE  LET v == [w EXCEPT ![e].trimmed = @ \cup {p}] IN
           v \in Windows /\ Counted(v) = Counted(w) \cup {p}
<1> DEFINE v == [w EXCEPT ![e].trimmed = @ \cup {p}]
<1>1. /\ v \in Windows
      /\ v[e].trimmed = w[e].trimmed \cup {p} /\ v[e].seen = w[e].seen
      /\ \A d \in EVs \ {e} : v[d] = w[d]
  BY DEF Windows
<1> HIDE DEF v
<1>2. ASSUME NEW q PROVE q \in Counted(v) <=> q \in Counted(w) \cup {p}
  BY <1>1 DEF Counted
<1>3. QED
  BY <1>1, <1>2 DEF v

LEMMA NothingCounted == NoArrivals \in Windows /\ Counted(NoArrivals) = {}
BY DEF NoArrivals, Windows, Counted

-----------------------------------------------------------------------------
(* Sockets.                                                                   *)

LEMMA WaitingIn ==
    ASSUME NEW m
    PROVE  m \in Waiting <=> \E s \in Sockets : \E i \in DOMAIN inbox[s] : m = inbox[s][i]
BY DEF Waiting

\* A message that is not under way yet joins those that are.
LEMMA Joins ==
    ASSUME Sorted, NEW m \in Messages, m \notin Waiting, Delivered(m)
    PROVE  Sorted' /\ Waiting' = Waiting \cup {m}
<1> DEFINE s == Place(m)
           q == inbox[s]
<1>1. s \in Sockets /\ inbox' = [inbox EXCEPT ![s] = Append(q, m)]
  BY PlaceIsSocket DEF Delivered
<1>2. /\ q \in Seq(Messages) /\ Len(q) \in Nat /\ DOMAIN q = 1 .. Len(q)
      /\ Append(q, m) \in Seq(Messages) /\ DOMAIN Append(q, m) = 1 .. Len(q) + 1
      /\ Append(q, m)[Len(q) + 1] = m
      /\ \A i \in 1 .. Len(q) : Append(q, m)[i] = q[i]
  BY <1>1 DEF Sorted
<1>3. /\ inbox'[s] = Append(q, m)
      /\ \A t \in Sockets \ {s} : inbox'[t] = inbox[t]
      /\ inbox' \in [Sockets -> Seq(Messages)]
  BY <1>1, <1>2 DEF Sorted
<1>4. \A i \in 1 .. Len(q) : q[i] # m
  BY <1>1, <1>2, WaitingIn
<1>5. Place(m) = s
  OBVIOUS
<1>6. \A t \in Sockets : \A i \in DOMAIN inbox[t] :
         /\ Place(inbox[t][i]) = t
         /\ \A j \in DOMAIN inbox[t] : inbox[t][i] = inbox[t][j] => i = j
  BY DEF Sorted
<1> HIDE DEF s, q
<1>7. Sorted'
  <2>1. \A j \in 1 .. Len(q) : /\ Place(q[j]) = s
                               /\ \A k \in 1 .. Len(q) : q[j] = q[k] => j = k
    BY <1>1, <1>2, <1>6 DEF q
  <2>2. \A i \in DOMAIN inbox'[s] :
          /\ Place(inbox'[s][i]) = s
          /\ \A j \in DOMAIN inbox'[s] : inbox'[s][i] = inbox'[s][j] => i = j
    BY <2>1, <1>2, <1>3, <1>4, <1>5
  <2>3. \A t \in Sockets : \A i \in DOMAIN inbox'[t] :
          /\ Place(inbox'[t][i]) = t
          /\ \A j \in DOMAIN inbox'[t] : inbox'[t][i] = inbox'[t][j] => i = j
    BY <2>2, <1>3, <1>6
  <2>4. QED
    BY <1>3, <2>3 DEF Sorted
<1>8. Waiting' = Waiting \cup {m}
  <2>1. \A x : x \in Waiting' <=> \E t \in Sockets : \E i \in DOMAIN inbox'[t] : x = inbox'[t][i]
    BY DEF Waiting, Sockets
  <2>2. \A x : (\E i \in DOMAIN inbox'[s] : x = inbox'[s][i])
               <=> (x = m \/ \E i \in DOMAIN inbox[s] : x = inbox[s][i])
    BY <1>2, <1>3 DEF q
  <2>3. \A x : x \in Waiting <=> \E t \in Sockets : \E i \in DOMAIN inbox[t] : x = inbox[t][i]
    BY WaitingIn
  <2>4. ASSUME NEW x PROVE x \in Waiting' <=> (x = m \/ x \in Waiting)
    <3>1. (\E t \in Sockets \ {s} : \E i \in DOMAIN inbox'[t] : x = inbox'[t][i])
          <=> (\E t \in Sockets \ {s} : \E i \in DOMAIN inbox[t] : x = inbox[t][i])
      BY <1>3
    <3>2. x \in Waiting' <=> \/ \E i \in DOMAIN inbox'[s] : x = inbox'[s][i]
                            \/ \E t \in Sockets \ {s} : \E i \in DOMAIN inbox'[t] : x = inbox'[t][i]
      BY <2>1, <1>1
    <3>3. x \in Waiting <=> \/ \E i \in DOMAIN inbox[s] : x = inbox[s][i]
                           \/ \E t \in Sockets \ {s} : \E i \in DOMAIN inbox[t] : x = inbox[t][i]
      BY <2>3, <1>1
    <3>4. QED
      BY <3>1, <3>2, <3>3, <2>2
  <2>5. QED
    BY <2>4
<1>9. QED
  BY <1>7, <1>8

\* The oldest message of a socket leaves, and with it the only one of its kind.
LEMMA Leaves ==
    ASSUME Sorted, NEW s \in Sockets, inbox[s] # <<>>,
           inbox' = [inbox EXCEPT ![s] = Tail(@)]
    PROVE  LET m == Head(inbox[s]) IN
           /\ m \in Messages /\ m \in Waiting /\ Place(m) = s
           /\ Sorted' /\ Waiting' = Waiting \ {m}
<1> DEFINE q == inbox[s]
           m == Head(q)
<1>1. /\ q \in Seq(Messages) /\ Len(q) \in Nat /\ Len(q) > 0 /\ DOMAIN q = 1 .. Len(q)
      /\ m = q[1] /\ m \in Messages
      /\ Tail(q) \in Seq(Messages) /\ DOMAIN Tail(q) = 1 .. Len(q) - 1
      /\ \A i \in 1 .. Len(q) - 1 : Tail(q)[i] = q[i + 1]
  BY DEF Sorted
<1>2. /\ inbox'[s] = Tail(q)
      /\ \A t \in Sockets \ {s} : inbox'[t] = inbox[t]
      /\ inbox' \in [Sockets -> Seq(Messages)]
  BY <1>1 DEF Sorted
<1>3. \A t \in Sockets : \A i \in DOMAIN inbox[t] :
         /\ Place(inbox[t][i]) = t
         /\ \A j \in DOMAIN inbox[t] : inbox[t][i] = inbox[t][j] => i = j
  BY DEF Sorted
<1>4. q = inbox[s]
  OBVIOUS
<1> HIDE DEF q, m
<1>5. m \in Waiting /\ Place(m) = s
  BY <1>1, <1>3, <1>4, WaitingIn
<1>6. \A j \in 1 .. Len(q) : /\ Place(q[j]) = s
                             /\ \A k \in 1 .. Len(q) : q[j] = q[k] => j = k
  BY <1>1, <1>3, <1>4
<1>7. Sorted'
  <2>1. \A i \in DOMAIN inbox'[s] :
          /\ Place(inbox'[s][i]) = s
          /\ \A j \in DOMAIN inbox'[s] : inbox'[s][i] = inbox'[s][j] => i = j
    <3>0. inbox'[s] = Tail(q)
      BY <1>2, Zenon
    <3>1. /\ DOMAIN inbox'[s] = 1 .. Len(q) - 1
          /\ \A i \in 1 .. Len(q) - 1 :
                i + 1 \in 1 .. Len(q) /\ inbox'[s][i] = q[i + 1]
      <4>1. ASSUME NEW i \in 1 .. Len(q) - 1 PROVE i + 1 \in 1 .. Len(q)
        BY <1>1
      <4>2. QED
        BY <3>0, <4>1, <1>1, Zenon
    <3>2. ASSUME NEW i \in 1 .. Len(q) - 1 PROVE Place(inbox'[s][i]) = s
      <4>1. \A j \in 1 .. Len(q) : Place(q[j]) = s
        BY <1>6, Zenon
      <4>2. i + 1 \in 1 .. Len(q) /\ inbox'[s][i] = q[i + 1]
        BY <3>1, Zenon
      <4>3. QED
        BY <4>1, <4>2, Zenon
    <3>3. ASSUME NEW i \in 1 .. Len(q) - 1, NEW j \in 1 .. Len(q) - 1,
                 inbox'[s][i] = inbox'[s][j]
          PROVE  i = j
      <4>1. q[i + 1] = q[j + 1] /\ i + 1 \in 1 .. Len(q) /\ j + 1 \in 1 .. Len(q)
        BY <3>1, <3>3
      <4>2. i + 1 = j + 1
        BY <4>1, <1>6
      <4>3. QED
        BY <4>2
    <3>4. QED
      BY <3>1, <3>2, <3>3
  <2>2. \A t \in Sockets : \A i \in DOMAIN inbox'[t] :
          /\ Place(inbox'[t][i]) = t
          /\ \A j \in DOMAIN inbox'[t] : inbox'[t][i] = inbox'[t][j] => i = j
    BY <2>1, <1>2, <1>3
  <2>3. QED
    BY <1>2, <2>2 DEF Sorted
<1>8. Waiting' = Waiting \ {m}
  <2>1. \A x : x \in Waiting' <=> \E t \in Sockets : \E i \in DOMAIN inbox'[t] : x = inbox'[t][i]
    BY DEF Waiting, Sockets
  <2>2. \A x : (\E i \in DOMAIN inbox'[s] : x = inbox'[s][i])
               <=> (x # m /\ \E i \in DOMAIN inbox[s] : x = inbox[s][i])
    <3>1. ASSUME NEW i \in 1 .. Len(q) - 1
          PROVE  i + 1 \in 1 .. Len(q) /\ q[i + 1] # m
      BY <1>1, <1>6
    <3>2. ASSUME NEW i \in 1 .. Len(q), q[i] # m
          PROVE  i - 1 \in 1 .. Len(q) - 1 /\ Tail(q)[i - 1] = q[i]
      BY <3>2, <1>1
    <3>3. ASSUME NEW x, NEW i \in DOMAIN inbox'[s], x = inbox'[s][i]
          PROVE  x # m /\ \E j \in DOMAIN inbox[s] : x = inbox[s][j]
      BY <3>1, <3>3, <1>1, <1>2, <1>4
    <3>4. ASSUME NEW x, x # m, NEW i \in DOMAIN inbox[s], x = inbox[s][i]
          PROVE  \E j \in DOMAIN inbox'[s] : x = inbox'[s][j]
      BY <3>2, <3>4, <1>1, <1>2, <1>4
    <3>5. QED
      BY <3>3, <3>4
  <2>3. \A t \in Sockets \ {s} : \A i \in DOMAIN inbox[t] : inbox[t][i] # m
    BY <1>3, <1>5
  <2>4. \A x : x \in Waiting <=> \E t \in Sockets : \E i \in DOMAIN inbox[t] : x = inbox[t][i]
    BY WaitingIn
  <2>5. ASSUME NEW x PROVE x \in Waiting' <=> (x # m /\ x \in Waiting)
    <3>1. (\E t \in Sockets \ {s} : \E i \in DOMAIN inbox'[t] : x = inbox'[t][i])
          <=> (\E t \in Sockets \ {s} : \E i \in DOMAIN inbox[t] : x = inbox[t][i])
      BY <1>2
    <3>2. x \in Waiting' <=> \/ \E i \in DOMAIN inbox'[s] : x = inbox'[s][i]
                            \/ \E t \in Sockets \ {s} : \E i \in DOMAIN inbox'[t] : x = inbox'[t][i]
      BY <2>1
    <3>3. x \in Waiting <=> \/ \E i \in DOMAIN inbox[s] : x = inbox[s][i]
                           \/ \E t \in Sockets \ {s} : \E i \in DOMAIN inbox[t] : x = inbox[t][i]
      BY <2>4
    <3>4. QED
      BY <3>1, <3>2, <3>3, <2>2, <2>3
  <2>6. QED
    BY <2>5
<1>9. QED
  BY <1>1, <1>5, <1>7, <1>8 DEF q, m

-----------------------------------------------------------------------------
(* The accounts of one flow.                                                  *)

\* An account stands while nothing that it is made of changes.
LEMMA AccountStands ==
    ASSUME NEW f \in Flows, OnePlace(f),
           owed'[f] = owed[f], asked'[f] = asked[f], win'[f] = win[f],
           Sending(f)' = Sending(f),
           Reported(f)' = Reported(f), Nacked(f)' = Nacked(f)
    PROVE  OnePlace(f)'
<1>1. Counted(win[f])' = Counted(win[f])
  BY DEF Counted
<1>2. QED
  BY <1>1 DEF OnePlace

\* The accounts make up CountedInOnePlace.
LEMMA AccountsAgree ==
    ASSUME \A h \in Receivers : Closes(h), \A f \in Flows : OnePlace(f)
    PROVE  CountedInOnePlace
<1> SUFFICES ASSUME NEW f \in Flows
             PROVE  Sending(f) = UNION {Counted(closing[h].got) :
                        h \in {r \in Receivers : closing[r] # None /\ closing[r].flow = f}}
  BY DEF CountedInOnePlace, OnePlace, Reported, Nacked
<1>1. f[2] \in Receivers
  BY DEF Receivers
<1>2. {r \in Receivers : closing[r] # None /\ closing[r].flow = f}
        = IF closing[f[2]] # None /\ closing[f[2]].flow = f THEN {f[2]} ELSE {}
  BY <1>1 DEF Closes
<1>3. QED
  BY <1>2 DEF Sending

LEMMA JoinsAccounts ==
    ASSUME NEW m, Waiting' = Waiting \cup {m}, NEW f \in Flows
    PROVE  /\ Reported(f)' = IF m.kind = "report" /\ m.flow = f THEN Reported(f) \cup {m}
                                                                ELSE Reported(f)
           /\ Nacked(f)' = IF m.kind = "nack" /\ m.flow = f THEN Nacked(f) \cup {m}
                                                            ELSE Nacked(f)
BY DEF Reported, Reports, Nacked

LEMMA LeavesAccounts ==
    ASSUME NEW m, Waiting' = Waiting \ {m}, NEW f \in Flows
    PROVE  /\ Reported(f)' = Reported(f) \ {m}
           /\ Nacked(f)' = Nacked(f) \ {m}
BY DEF Reported, Reports, Nacked

-----------------------------------------------------------------------------
(* The probes of an EV that are under way.                                    *)

LEMMA AwayStands ==
    ASSUME NEW f, NEW e,
           \A n \in Probes : Probe(f, e, n) \in Waiting' <=> Probe(f, e, n) \in Waiting
    PROVE  Away(f, e)' = Away(f, e)
BY DEF Away, Probe

LEMMA AwayFinite ==
    ASSUME NEW f, NEW e
    PROVE  IsFiniteSet(Away(f, e)) /\ Cardinality(Away(f, e)) \in Nat
<1>1. IsFiniteSet(Away(f, e))
  BY ControlAssumption, FS_Subset DEF Away
<1>2. QED
  BY <1>1, FS_CardinalityType

LEMMA AwayGrows ==
    ASSUME NEW f, NEW e, NEW n \in Probes, n \notin Away(f, e),
           Waiting' = Waiting \cup {Probe(f, e, n)}
    PROVE  /\ Cardinality(Away(f, e)) \in Nat
           /\ Cardinality(Away(f, e))' = Cardinality(Away(f, e)) + 1
<1>1. Away(f, e)' = Away(f, e) \cup {n}
  BY DEF Away, Probe
<1>2. IsFiniteSet(Away(f, e)) /\ Cardinality(Away(f, e)) \in Nat
  BY AwayFinite
<1>3. Cardinality(Away(f, e) \cup {n}) = Cardinality(Away(f, e)) + 1
  BY <1>2, FS_AddElement
<1>4. QED
  BY <1>1, <1>2, <1>3

LEMMA AwayShrinks ==
    ASSUME NEW f, NEW e, NEW n \in Away(f, e),
           Waiting' = Waiting \ {Probe(f, e, n)}
    PROVE  /\ Cardinality(Away(f, e)) \in Nat
           /\ Cardinality(Away(f, e))' = Cardinality(Away(f, e)) - 1
<1>1. Away(f, e)' = Away(f, e) \ {n}
  BY DEF Away, Probe
<1>2. IsFiniteSet(Away(f, e)) /\ Cardinality(Away(f, e)) \in Nat
  BY AwayFinite
<1>3. Cardinality(Away(f, e) \ {n}) = Cardinality(Away(f, e)) - 1
  BY <1>2, FS_RemoveElement
<1>4. QED
  BY <1>1, <1>2, <1>3

-----------------------------------------------------------------------------
(* Initially.                                                                 *)

LEMMA InitInv == Init => ControlInv
<1> SUFFICES ASSUME Init PROVE ControlInv
  OBVIOUS
<1>1. Types
  BY NothingCounted DEF Init, Types
<1>2. \A h \in Receivers : Closes(h)
  BY DEF Init, Closes
<1>3. Waiting = {}
  BY DEF Init, Waiting
<1>4. Sorted
  BY DEF Init, Sorted
<1>5. EchoesAccounted
  <2>1. None \notin EVs
    BY ControlAssumption
  <2>2. \A f \in Flows, e \in EVs : Away(f, e) = {}
    BY <1>3 DEF Away
  <2>3. Cardinality({}) = 0
    BY FS_EmptySet
  <2>4. \A f \in Flows, e \in EVs : balance[f][e] = 0 /\ noting[f] # e
    BY <2>1 DEF Init
  <2>5. QED
    BY <2>2, <2>3, <2>4 DEF EchoesAccounted
<1>6. \A f \in Flows : Reported(f) = {} /\ Nacked(f) = {}
  BY <1>3 DEF Reported, Reports, Nacked
<1>7. Apart
  BY <1>3, <1>6 DEF Apart, Reports
<1>8. ASSUME NEW f \in Flows PROVE OnePlace(f)
  <2>1. f[2] \in Receivers
    BY DEF Receivers
  <2>2. Sending(f) = {} /\ win[f] = NoArrivals /\ owed[f] = {} /\ asked[f] = {}
    BY <2>1 DEF Init, Sending
  <2>3. QED
    BY <2>2, <1>6, NothingCounted DEF OnePlace
<1>9. QED
  BY <1>1, <1>2, <1>4, <1>5, <1>7, <1>8 DEF ControlInv

-----------------------------------------------------------------------------
(* A message is heard, or thrown away at the end.                             *)

\* The oldest message of a socket is settled with its flow.
LEMMA Heard ==
    ASSUME ControlInv, NEW s \in Sockets, inbox[s] # <<>>,
           inbox' = [inbox EXCEPT ![s] = Tail(@)],
           Settled(Head(inbox[s]), Head(inbox[s]).flow),
           UNCHANGED <<load, life, noting, receiverVars>>
    PROVE  ControlInv'
<1> DEFINE m == Head(inbox[s])
           g == m.flow
<1>1. /\ m \in Messages /\ m \in Waiting
      /\ Sorted' /\ Waiting' = Waiting \ {m}
  BY Leaves DEF ControlInv
<1>2. g \in Flows /\ m.ev \in EVs /\ m.kind \in {"probe", "nack", "report"}
  BY <1>1, MessageKinds
<1>3. Types
  BY DEF ControlInv
<1>4. Settled(m, g)
  OBVIOUS
<1> HIDE DEF m
<1>5. Types'
  <2>1. balance' \in [Flows -> [EVs -> Int]]
    <3>1. CASE m.kind = "probe"
      <4>1. balance' = [balance EXCEPT ![g][m.ev] = @ - 1]
        BY <1>4, <3>1 DEF Settled
      <4>2. balance[g] \in [EVs -> Int] /\ balance[g][m.ev] - 1 \in Int
        BY <1>2, <1>3 DEF Types
      <4>3. QED
        BY <4>1, <4>2, <1>2, <1>3 DEF Types
    <3>2. CASE m.kind # "probe"
      BY <3>2, <1>3, <1>4 DEF Types, Settled
    <3>3. QED
      BY <3>1, <3>2
  <2>2. owed' = [f \in Flows |-> owed'[f]] /\ asked' = [f \in Flows |-> asked'[f]]
    BY <1>2, <1>3, <1>4 DEF Types, Settled
  <2>3. QED
    BY <2>1, <2>2, <1>3 DEF Types, receiverVars
<1>6. \A h \in Receivers : Closes(h)'
  BY DEF ControlInv, Closes, receiverVars
<1>7. EchoesAccounted'
  <2> SUFFICES ASSUME NEW f \in Flows, NEW e \in EVs
               PROVE  balance'[f][e] = Cardinality(Away(f, e))' - (IF noting[f] = e THEN 1 ELSE 0)
    BY DEF EchoesAccounted
  <2>1. balance[f][e] = Cardinality(Away(f, e)) - (IF noting[f] = e THEN 1 ELSE 0)
    BY DEF ControlInv, EchoesAccounted
  <2>2. CASE m.kind = "probe" /\ g = f /\ m.ev = e
    <3>1. PICK n : n \in Probes /\ m = Probe(f, e, n)
      BY <1>1, <2>2, MessageKinds
    <3>2. n \in Away(f, e)
      BY <1>1, <3>1 DEF Away
    <3>3. balance'[f][e] = balance[f][e] - 1
      BY <2>2, <1>3, <1>4 DEF Settled, Types
    <3>4. /\ Cardinality(Away(f, e)) \in Nat
          /\ Cardinality(Away(f, e))' = Cardinality(Away(f, e)) - 1
      BY <1>1, <3>1, <3>2, AwayShrinks
    <3>5. QED
      BY <2>1, <3>3, <3>4
  <2>3. CASE ~(m.kind = "probe" /\ g = f /\ m.ev = e)
    <3>1. \A n \in Probes : m # Probe(f, e, n)
      BY <2>3 DEF Probe
    <3>2. balance'[f][e] = balance[f][e]
      <4>1. CASE m.kind # "probe"
        BY <4>1, <1>4 DEF Settled
      <4>2. CASE m.kind = "probe"
        <5>1. balance' = [balance EXCEPT ![g][m.ev] = @ - 1] /\ ~(g = f /\ m.ev = e)
          BY <2>3, <4>2, <1>4 DEF Settled
        <5>2. balance \in [Flows -> [EVs -> Int]]
          BY <1>3 DEF Types
        <5>3. CASE g # f
          BY <5>1, <5>2, <5>3
        <5>4. CASE g = f /\ m.ev # e
          BY <5>1, <5>2, <5>4, <1>2
        <5>5. QED
          BY <5>1, <5>3, <5>4
      <4>3. QED
        BY <4>1, <4>2
    <3>3. Away(f, e)' = Away(f, e)
      BY <1>1, <3>1, AwayStands
    <3>4. QED
      BY <2>1, <3>2, <3>3
  <2>4. QED
    BY <2>2, <2>3
<1>8. Apart'
  <2>1. Reports' \subseteq Reports /\ \A f \in Flows : Nacked(f)' \subseteq Nacked(f)
    BY <1>1 DEF Reports, Nacked
  <2>2. QED
    BY <2>1 DEF ControlInv, Apart
<1>9. ASSUME NEW f \in Flows PROVE OnePlace(f)'
  <2>1. OnePlace(f)
    BY DEF ControlInv
  <2>2. Reported(f)' = Reported(f) \ {m} /\ Nacked(f)' = Nacked(f) \ {m}
    BY <1>1, LeavesAccounts
  <2>3. win'[f] = win[f] /\ Sending(f)' = Sending(f)
    BY DEF Sending, receiverVars, Counted
  <2>4. CASE m.kind = "report" /\ g = f
    <3>1. PICK w \in Windows : m.says = Encoded(w)
      BY <2>4, <1>1, MessageKinds
    <3>2. Decoded(m.says) = Counted(m.says.evs)
      BY <3>1, DecodedIsCounted
    <3>3. owed'[f] = owed[f] \ Counted(m.says.evs) /\ asked'[f] = asked[f]
      BY <2>4, <3>2, <1>3, <1>4 DEF Settled, Types
    <3>4. m \in Reported(f) /\ m \notin Nacked(f)
      BY <2>4, <1>1 DEF Reported, Reports, Nacked
    <3>5. Counted(win[f])' = Counted(win[f])
      BY <2>3 DEF Counted
    <3>6. /\ Counted(m.says.evs) \cap (Counted(win[f]) \cup Sending(f)) = {}
          /\ \A n \in Reported(f) \ {m} : Counted(m.says.evs) \cap Counted(n.says.evs) = {}
      BY <2>1, <3>4 DEF OnePlace
    <3>7. owed'[f] = Counted(win[f]) \cup Sending(f)
                     \cup UNION {Counted(n.says.evs) : n \in Reported(f) \ {m}}
      BY <2>1, <3>3, <3>4, <3>6 DEF OnePlace
    <3>8. Nacked(f)' = Nacked(f)
      BY <2>2, <3>4
    <3>9. QED
      BY <2>1, <2>2, <2>3, <3>3, <3>5, <3>7, <3>8 DEF OnePlace
  <2>5. CASE m.kind = "nack" /\ g = f
    <3>1. owed'[f] = owed[f] /\ asked'[f] = asked[f] \ {m.says}
      BY <2>5, <1>3, <1>4 DEF Settled, Types
    <3>2. m \in Nacked(f) /\ m \notin Reported(f)
      BY <2>5, <1>1 DEF Reported, Reports, Nacked
    <3>3. \A n \in Nacked(f) : n.says = m.says => n = m
      BY <3>2 DEF ControlInv, Apart
    <3>4. asked'[f] = {n.says : n \in Nacked(f) \ {m}}
      BY <2>1, <3>1, <3>2, <3>3 DEF OnePlace
    <3>5. Reported(f)' = Reported(f)
      BY <2>2, <3>2
    <3>6. Counted(win[f])' = Counted(win[f])
      BY <2>3 DEF Counted
    <3>7. QED
      BY <2>1, <2>2, <2>3, <3>1, <3>4, <3>5, <3>6 DEF OnePlace
  <2>6. CASE ~(g = f /\ m.kind \in {"nack", "report"})
    <3>1. owed'[f] = owed[f] /\ asked'[f] = asked[f]
      BY <2>6, <1>2, <1>3, <1>4 DEF Settled, Types
    <3>2. m \notin Reported(f) /\ m \notin Nacked(f)
      BY <2>6 DEF Reported, Reports, Nacked
    <3>3. QED
      BY <2>1, <2>2, <2>3, <3>1, <3>2, AccountStands
  <2>7. QED
    BY <2>4, <2>5, <2>6, <1>2
<1>10. QED
  BY <1>1, <1>5, <1>6, <1>7, <1>8, <1>9 DEF ControlInv

LEMMA DispatchStep ==
    ASSUME ControlInv, NEW h \in Senders, Dispatch(h)
    PROVE  ControlInv'
<1> DEFINE s == Listener(h, "daemon")
           m == Head(inbox[s])
<1>1. s \in Sockets /\ inbox[s] # <<>> /\ inbox' = [inbox EXCEPT ![s] = Tail(@)]
  BY DEF Dispatch, Sockets
<1>2. m \in Messages /\ Place(m) = s
  BY <1>1, Leaves DEF ControlInv
<1>3. m.flow \in Flows /\ m.flow[1] = h
  BY <1>2, MessageKinds DEF Place, NackSocket, Listener, Home
<1>4. Demux(h, Key(m)) = {m.flow}
  BY <1>3, Demuxed DEF Key
<1>5. Settled(m, m.flow)
  BY <1>4 DEF Dispatch
<1>6. QED
  BY <1>1, <1>5, Heard DEF Dispatch, daemonVars

LEMMA DiscardStep ==
    ASSUME ControlInv, NEW h \in Senders, Discard(h)
    PROVE  ControlInv'
<1>1. Listener(h, "daemon") \in Sockets
  BY DEF Sockets
<1>2. QED
  BY <1>1, Heard DEF Discard, daemonVars

LEMMA HearNackStep ==
    ASSUME ControlInv, NEW f \in Flows, HearNack(f)
    PROVE  ControlInv'
<1> DEFINE s == NackSocket(f[1], Id(f[2]))
           m == Head(inbox[s])
<1>1. s \in Sockets /\ inbox[s] # <<>> /\ inbox' = [inbox EXCEPT ![s] = Tail(@)]
  BY DEF HearNack, Sockets, Senders, Receivers
<1>2. m \in Messages /\ Place(m) = s
  BY <1>1, Leaves DEF ControlInv
<1>3. m.flow \in Flows /\ m.flow[1] = f[1] /\ Id(m.flow[2]) = Id(f[2])
  BY <1>2, MessageKinds DEF Place, NackSocket, Listener, Home, Key
<1>4. m.flow = f
  BY <1>3, FlowKnown
<1>5. QED
  BY <1>1, <1>4, Heard DEF HearNack, daemonVars

-----------------------------------------------------------------------------
(* Probes.                                                                    *)

\* What a probe has to do with is the balance of its flow on its EV, and no
\* account of packets.
LEMMA ProbesApart ==
    ASSUME ControlInv, Sorted', EchoesAccounted', Types',
           UNCHANGED <<receiverVars, owed, asked>>,
           NEW m, m.kind = "probe", Waiting' = Waiting \/ Waiting' = Waiting \cup {m}
    PROVE  ControlInv'
<1>1. \A f \in Flows : Reported(f)' = Reported(f) /\ Nacked(f)' = Nacked(f)
  BY DEF Reported, Reports, Nacked
<1>2. Reports' = Reports
  BY DEF Reports
<1>3. Apart'
  BY <1>1, <1>2 DEF ControlInv, Apart
<1>4. \A h \in Receivers : Closes(h)'
  BY DEF ControlInv, Closes, receiverVars
<1>5. ASSUME NEW f \in Flows PROVE OnePlace(f)'
  <2>1. Sending(f)' = Sending(f)
    BY DEF Sending, receiverVars
  <2>2. QED
    BY <1>1, <2>1, AccountStands DEF ControlInv, receiverVars
<1>6. QED
  BY <1>3, <1>4, <1>5 DEF ControlInv

LEMMA SendProbeStep ==
    ASSUME ControlInv, NEW f \in Flows, NEW e \in EVs, NEW n \in Probes, SendProbe(f, e, n)
    PROVE  ControlInv'
<1> DEFINE m == Probe(f, e, n)
<1>1. m \in Messages /\ m \notin Waiting /\ m.kind = "probe"
  <2>1. m \in Messages
    BY DEF Messages
  <2>2. m \notin Waiting
    BY DEF SendProbe, Away
  <2>3. QED
    BY <2>1, <2>2 DEF Probe
<1>2. Types /\ Sorted /\ EchoesAccounted /\ None \notin EVs
  BY ControlAssumption DEF ControlInv
<1>3. noting[f] = None /\ noting' = [noting EXCEPT ![f] = e]
  BY DEF SendProbe
<1>4. n \notin Away(f, e)
  BY DEF SendProbe
<1>5. CASE Lost(m)
  <2>1. balance' = [balance EXCEPT ![f][e] = @ - 1] /\ UNCHANGED inbox
    BY <1>5 DEF SendProbe
  <2>2. Waiting' = Waiting /\ Sorted'
    BY <2>1, <1>2 DEF Waiting, Sorted, Sockets
  <2>3. Types'
    <3>1. balance[f] \in [EVs -> Int] /\ balance[f][e] - 1 \in Int
      BY <1>2 DEF Types
    <3>2. balance' \in [Flows -> [EVs -> Int]] /\ noting' \in [Flows -> EVs \cup {None}]
      BY <1>2, <1>3, <2>1, <3>1 DEF Types
    <3>3. QED
      BY <3>2, <1>2 DEF Types, SendProbe, receiverVars
  <2>4. EchoesAccounted'
    <3> SUFFICES ASSUME NEW g \in Flows, NEW d \in EVs
                 PROVE  balance'[g][d] = Cardinality(Away(g, d))'
                                         - (IF noting'[g] = d THEN 1 ELSE 0)
      BY DEF EchoesAccounted
    <3>1. Away(g, d)' = Away(g, d)
      BY <2>2, AwayStands
    <3>2. balance[g][d] = Cardinality(Away(g, d)) - (IF noting[g] = d THEN 1 ELSE 0)
      BY <1>2 DEF EchoesAccounted
    <3>3. Cardinality(Away(g, d)) \in Nat
      BY AwayFinite
    <3>4. CASE g = f /\ d = e
      <4>1. balance'[f][e] = balance[f][e] - 1 /\ noting'[f] = e /\ noting[f] # e
        BY <1>2, <1>3, <2>1 DEF Types
      <4>2. QED
        BY <3>1, <3>2, <3>3, <3>4, <4>1
    <3>5. CASE ~(g = f /\ d = e)
      <4>1. balance'[g][d] = balance[g][d]
        BY <3>5, <1>2, <2>1 DEF Types
      <4>2. (noting'[g] = d) <=> (noting[g] = d)
        BY <3>5, <1>2, <1>3 DEF Types
      <4>3. QED
        BY <3>1, <3>2, <4>1, <4>2
    <3>6. QED
      BY <3>4, <3>5
  <2>5. QED
    BY <1>1, <2>2, <2>3, <2>4, ProbesApart DEF SendProbe
<1>6. CASE ~Lost(m)
  <2>1. Delivered(m) /\ balance' = balance
    BY <1>6 DEF SendProbe
  <2>2. Sorted' /\ Waiting' = Waiting \cup {m}
    BY <1>1, <1>2, <2>1, Joins
  <2>3. Types'
    BY <1>2, <1>3, <2>1 DEF Types, SendProbe, receiverVars
  <2>4. EchoesAccounted'
    <3> SUFFICES ASSUME NEW g \in Flows, NEW d \in EVs
                 PROVE  balance[g][d] = Cardinality(Away(g, d))'
                                        - (IF noting'[g] = d THEN 1 ELSE 0)
      BY <2>1 DEF EchoesAccounted
    <3>1. balance[g][d] = Cardinality(Away(g, d)) - (IF noting[g] = d THEN 1 ELSE 0)
      BY <1>2 DEF EchoesAccounted
    <3>2. CASE g = f /\ d = e
      <4>1. noting'[f] = e /\ noting[f] # e
        BY <1>2, <1>3 DEF Types
      <4>2. /\ Cardinality(Away(f, e)) \in Nat
            /\ Cardinality(Away(f, e))' = Cardinality(Away(f, e)) + 1
        BY <1>4, <2>2, AwayGrows
      <4>3. QED
        BY <3>1, <3>2, <4>1, <4>2
    <3>3. CASE ~(g = f /\ d = e)
      <4>1. \A k \in Probes : Probe(g, d, k) # m
        BY <3>3 DEF Probe
      <4>2. Away(g, d)' = Away(g, d)
        BY <2>2, <4>1, AwayStands
      <4>3. (noting'[g] = d) <=> (noting[g] = d)
        BY <3>3, <1>2, <1>3 DEF Types
      <4>4. QED
        BY <3>1, <4>2, <4>3
    <3>4. QED
      BY <3>2, <3>3
  <2>5. QED
    BY <1>1, <2>2, <2>3, <2>4, ProbesApart DEF SendProbe
<1>7. QED
  BY <1>5, <1>6

LEMMA NoteProbeStep ==
    ASSUME ControlInv, NEW f \in Flows, NoteProbe(f)
    PROVE  ControlInv'
<1> DEFINE e == noting[f]
<1>1. Types /\ Sorted /\ EchoesAccounted /\ None \notin EVs
  BY ControlAssumption DEF ControlInv
<1>2. e \in EVs
  BY <1>1 DEF NoteProbe, Types
<1>3. noting' = [noting EXCEPT ![f] = None] /\ balance' = [balance EXCEPT ![f][e] = @ + 1]
  BY DEF NoteProbe
<1>4. Waiting' = Waiting /\ Sorted'
  BY <1>1 DEF Waiting, Sorted, Sockets, NoteProbe
<1>5. Types'
  <2>1. balance[f] \in [EVs -> Int] /\ balance[f][e] + 1 \in Int
    BY <1>1, <1>2 DEF Types
  <2>2. balance' \in [Flows -> [EVs -> Int]] /\ noting' \in [Flows -> EVs \cup {None}]
    BY <1>1, <1>2, <1>3, <2>1 DEF Types
  <2>3. QED
    BY <2>2, <1>1 DEF Types, NoteProbe, receiverVars
<1>6. EchoesAccounted'
  <2> SUFFICES ASSUME NEW g \in Flows, NEW d \in EVs
               PROVE  balance'[g][d] = Cardinality(Away(g, d))'
                                       - (IF noting'[g] = d THEN 1 ELSE 0)
    BY DEF EchoesAccounted
  <2>0. Away(g, d)' = Away(g, d) /\ Cardinality(Away(g, d)) \in Nat
    BY <1>4, AwayStands, AwayFinite
  <2>1. balance[g][d] = Cardinality(Away(g, d)) - (IF noting[g] = d THEN 1 ELSE 0)
    BY <1>1 DEF EchoesAccounted
  <2>2. CASE g = f /\ d = e
    <3>1. balance'[f][e] = balance[f][e] + 1 /\ noting[f] = e /\ noting'[f] # e
      BY <1>1, <1>2, <1>3 DEF Types
    <3>2. QED
      BY <2>0, <2>1, <2>2, <3>1
  <2>3. CASE ~(g = f /\ d = e)
    <3>1. balance'[g][d] = balance[g][d]
      BY <2>3, <1>1, <1>2, <1>3 DEF Types
    <3>2. (noting'[g] = d) <=> (noting[g] = d)
      BY <2>3, <1>1, <1>3 DEF Types
    <3>3. QED
      BY <2>0, <2>1, <3>1, <3>2
  <2>4. QED
    BY <2>2, <2>3
<1>7. Probe(f, e, 0).kind = "probe"
  BY DEF Probe
<1>8. QED
  BY <1>4, <1>5, <1>6, <1>7, ProbesApart DEF NoteProbe

-----------------------------------------------------------------------------
(* Steps that touch no socket, no balance and no account.                     *)

LEMMA NothingCountedStep ==
    ASSUME ControlInv, Types', inbox' = inbox,
           UNCHANGED <<noting, balance, win, closing, owed, asked>>
    PROVE  ControlInv'
<1>1. Waiting' = Waiting /\ Sorted'
  BY DEF ControlInv, Waiting, Sorted, Sockets
<1>2. Reports' = Reports
      /\ \A f \in Flows : Reported(f)' = Reported(f) /\ Nacked(f)' = Nacked(f)
  BY <1>1 DEF Reported, Reports, Nacked
<1>3. EchoesAccounted'
  BY <1>1 DEF ControlInv, EchoesAccounted, Away
<1>4. Apart'
  BY <1>2 DEF ControlInv, Apart
<1>5. \A h \in Receivers : Closes(h)'
  BY DEF ControlInv, Closes
<1>6. ASSUME NEW f \in Flows PROVE OnePlace(f)'
  <2>1. Sending(f)' = Sending(f)
    BY DEF Sending
  <2>2. QED
    BY <1>2, <2>1, AccountStands DEF ControlInv
<1>7. QED
  BY <1>1, <1>3, <1>4, <1>5, <1>6 DEF ControlInv

LEMMA LearnStep ==
    ASSUME ControlInv, NEW f \in Flows, NEW e \in EVs, Learn(f, e)
    PROVE  ControlInv'
<1>1. Types'
  BY DEF ControlInv, Types, Learn, Learned, daemonVars
<1>2. QED
  BY <1>1, NothingCountedStep DEF Learn, daemonVars

LEMMA DaemonStep ==
    ASSUME ControlInv, NEW h \in Senders,
           Startup(h) \/ Stop(h) \/ Close(h)
    PROVE  ControlInv'
<1>1. Types'
  BY DEF ControlInv, Types, Startup, StartAgents, StartDispatcher, Stop, Close, receiverVars
<1>2. QED
  BY <1>1, NothingCountedStep
  DEF Startup, StartAgents, StartDispatcher, Stop, Close, receiverVars

LEMMA GoDownStep ==
    ASSUME ControlInv, NEW e \in EVs, GoDown(e)
    PROVE  ControlInv'
<1>1. Types'
  BY DEF ControlInv, Types, GoDown, receiverVars, daemonVars
<1>2. QED
  BY <1>1, NothingCountedStep DEF GoDown, receiverVars, daemonVars

-----------------------------------------------------------------------------
(* The receiver counts, closes and reports.                                   *)

\* Probes are not disturbed by what is said about packets.
LEMMA EchoesStand ==
    ASSUME ControlInv, UNCHANGED <<noting, balance>>,
           NEW m, m.kind # "probe",
           Waiting' = Waiting \/ Waiting' = Waiting \cup {m}
    PROVE  EchoesAccounted'
<1>1. \A f \in Flows, e \in EVs, n \in Probes :
         Probe(f, e, n) \in Waiting' <=> Probe(f, e, n) \in Waiting
  BY DEF Probe
<1>2. \A f \in Flows, e \in EVs : Away(f, e)' = Away(f, e)
  BY <1>1, AwayStands
<1>3. QED
  BY <1>2 DEF ControlInv, EchoesAccounted

\* A packet that is neither counted nor asked for enters the window.
LEMMA Enters ==
    ASSUME NEW f \in Flows, OnePlace(f), NEW p, p \notin owed[f],
           owed'[f] = owed[f] \cup {p},
           Counted(win'[f]) = Counted(win[f]) \cup {p},
           Sending(f)' = Sending(f), Reported(f)' = Reported(f),
           asked'[f] = {m.says : m \in Nacked(f)'}
    PROVE  OnePlace(f)'
<1>1. Counted(win[f])' = Counted(win[f]) \cup {p}
  BY DEF Counted
<1>2. p \notin Sending(f) /\ \A m \in Reported(f) : p \notin Counted(m.says.evs)
  BY DEF OnePlace
<1>3. owed'[f] = Counted(win[f])' \cup Sending(f)
                 \cup UNION {Counted(m.says.evs) : m \in Reported(f)}
  BY <1>1 DEF OnePlace
<1>4. Counted(win[f])' \cap Sending(f) = {}
  BY <1>1, <1>2 DEF OnePlace
<1>5. \A m \in Reported(f) : Counted(m.says.evs) \cap (Counted(win[f])' \cup Sending(f)) = {}
  BY <1>1, <1>2 DEF OnePlace
<1>6. \A m \in Reported(f) : \A n \in Reported(f) \ {m} :
          Counted(m.says.evs) \cap Counted(n.says.evs) = {}
  BY DEF OnePlace
<1>7. QED
  BY <1>3, <1>4, <1>5, <1>6 DEF OnePlace

LEMMA DataArrivesStep ==
    ASSUME ControlInv, NEW f \in Flows, NEW p \in Pkts, NEW e \in EVs, DataArrives(f, p, e)
    PROVE  ControlInv'
<1>1. Types /\ Sorted
  BY DEF ControlInv
<1>2. /\ win' = [win EXCEPT ![f][e].seen = @ \cup {p}]
      /\ owed' = [owed EXCEPT ![f] = @ \cup {p}]
      /\ learning' = learning \cup {<<f, e>>}
      /\ p \notin owed[f]
      /\ UNCHANGED <<load, down, inbox, daemonVars, balance, last, closing, asked>>
  BY DEF DataArrives, Receives
<1>3. win[f] \in Windows
  BY <1>1 DEF Types
<1>4. /\ win'[f] = [win[f] EXCEPT ![e].seen = @ \cup {p}]
      /\ \A g \in Flows \ {f} : win'[g] = win[g]
      /\ win' = [g \in Flows |-> win'[g]]
  BY <1>1, <1>2 DEF Types
<1>5. win'[f] \in Windows /\ Counted(win'[f]) = Counted(win[f]) \cup {p}
  BY <1>3, <1>4, CountsSeen
<1>6. win' \in [Flows -> Windows]
  BY <1>1, <1>4, <1>5 DEF Types
<1>7. Types'
  <2>1. owed' = [g \in Flows |-> owed'[g]]
    BY <1>1, <1>2 DEF Types
  <2>2. learning' \subseteq Flows \X EVs
    BY <1>1, <1>2 DEF Types
  <2>3. QED
    BY <1>1, <1>2, <1>6, <2>1, <2>2 DEF Types, daemonVars
<1>8. Waiting' = Waiting /\ Sorted'
  BY <1>1, <1>2 DEF Waiting, Sorted, Sockets
<1>9. Reports' = Reports
      /\ \A g \in Flows : Reported(g)' = Reported(g) /\ Nacked(g)' = Nacked(g)
                          /\ Sending(g)' = Sending(g)
  BY <1>2, <1>8 DEF Reported, Reports, Nacked, Sending
<1>10. EchoesAccounted'
  BY <1>2, <1>8 DEF ControlInv, EchoesAccounted, Away, daemonVars
<1>11. Apart' /\ \A h \in Receivers : Closes(h)'
  BY <1>2, <1>9 DEF ControlInv, Apart, Closes
<1>12. ASSUME NEW g \in Flows PROVE OnePlace(g)'
  <2>1. OnePlace(g)
    BY DEF ControlInv
  <2>2. CASE g = f
    <3>1. owed'[f] = owed[f] \cup {p}
      BY <1>1, <1>2 DEF Types
    <3>2. asked'[f] = {m.says : m \in Nacked(f)'}
      BY <1>2, <1>9, <2>1, <2>2 DEF OnePlace
    <3>3. QED
      BY <1>2, <1>5, <1>9, <2>1, <2>2, <3>1, <3>2, Enters
  <2>3. CASE g # f
    <3>1. owed'[g] = owed[g] /\ win'[g] = win[g]
      BY <1>1, <1>2, <1>4, <2>3 DEF Types
    <3>2. QED
      BY <1>2, <1>9, <2>1, <3>1, AccountStands
  <2>4. QED
    BY <2>2, <2>3
<1>13. QED
  BY <1>7, <1>8, <1>10, <1>11, <1>12 DEF ControlInv

LEMMA TrimArrivesStep ==
    ASSUME ControlInv, NEW f \in Flows, NEW p \in TrimPkts, NEW e \in EVs, TrimArrives(f, p, e)
    PROVE  ControlInv'
<1> DEFINE m == Nack(f, IF last[f] = None THEN e ELSE last[f], p)
<1>1. Types /\ Sorted
  BY DEF ControlInv
<1>2. /\ win' = [win EXCEPT ![f][e].trimmed = @ \cup {p}]
      /\ owed' = [owed EXCEPT ![f] = @ \cup {p}]
      /\ p \notin owed[f] \cup asked[f]
      /\ UNCHANGED <<load, down, daemonVars, balance, learning, last, closing>>
      /\ \/ UNCHANGED <<inbox, asked>>
         \/ Delivered(m) /\ asked' = [asked EXCEPT ![f] = @ \cup {p}]
  BY DEF TrimArrives, Receives
<1>3. m \in Messages /\ m.kind = "nack" /\ m.flow = f /\ m.says = p
  <2>1. (IF last[f] = None THEN e ELSE last[f]) \in EVs
    BY <1>1 DEF Types
  <2>2. m \in Messages
    BY <2>1 DEF Messages
  <2>3. QED
    BY <2>2 DEF Nack
<1> HIDE DEF m
<1>4. win[f] \in Windows
  BY <1>1 DEF Types
<1>5. /\ win'[f] = [win[f] EXCEPT ![e].trimmed = @ \cup {p}]
      /\ \A g \in Flows \ {f} : win'[g] = win[g]
      /\ win' = [g \in Flows |-> win'[g]]
  BY <1>1, <1>2 DEF Types
<1>6. win'[f] \in Windows /\ Counted(win'[f]) = Counted(win[f]) \cup {p}
  BY <1>4, <1>5, CountsTrimmed
<1>7. win' \in [Flows -> Windows]
  BY <1>1, <1>5, <1>6 DEF Types
<1>8. owed'[f] = owed[f] \cup {p} /\ \A g \in Flows \ {f} : owed'[g] = owed[g]
  BY <1>1, <1>2 DEF Types
<1>9. owed' = [g \in Flows |-> owed'[g]] /\ asked' = [g \in Flows |-> asked'[g]]
  BY <1>1, <1>2 DEF Types
<1>10. Types'
  BY <1>1, <1>2, <1>7, <1>9 DEF Types, daemonVars
<1>11. OnePlace(f)
  BY DEF ControlInv
<1>12. \A n \in Nacked(f) : n.says # p
  BY <1>2, <1>11 DEF OnePlace
<1>13. m \notin Waiting
  BY <1>3, <1>12 DEF Nacked
<1>14. \A h \in Receivers : Closes(h)'
  BY <1>2 DEF ControlInv, Closes
<1>15. \A g \in Flows : Sending(g)' = Sending(g)
  BY <1>2 DEF Sending
<1>16. CASE UNCHANGED <<inbox, asked>>
  <2>1. Waiting' = Waiting /\ Sorted'
    BY <1>1, <1>16 DEF Waiting, Sorted, Sockets
  <2>2. Reports' = Reports
        /\ \A g \in Flows : Reported(g)' = Reported(g) /\ Nacked(g)' = Nacked(g)
    BY <2>1 DEF Reported, Reports, Nacked
  <2>3. EchoesAccounted'
    BY <1>2, <1>3, <2>1, EchoesStand DEF daemonVars
  <2>4. Apart'
    BY <2>2 DEF ControlInv, Apart
  <2>5. ASSUME NEW g \in Flows PROVE OnePlace(g)'
    <3>1. OnePlace(g) /\ asked'[g] = {n.says : n \in Nacked(g)'}
      BY <1>16, <2>2 DEF ControlInv, OnePlace
    <3>2. CASE g = f
      BY <1>2, <1>6, <1>8, <1>15, <2>2, <3>1, <3>2, Enters
    <3>3. CASE g # f
      BY <1>5, <1>8, <1>15, <1>16, <2>2, <3>1, <3>3, AccountStands
    <3>4. QED
      BY <3>2, <3>3
  <2>6. QED
    BY <1>10, <1>14, <2>1, <2>3, <2>4, <2>5 DEF ControlInv
<1>17. CASE Delivered(m) /\ asked' = [asked EXCEPT ![f] = @ \cup {p}]
  <2>1. Sorted' /\ Waiting' = Waiting \cup {m}
    BY <1>1, <1>3, <1>13, <1>17, Joins
  <2>2. \A g \in Flows : /\ Reported(g)' = Reported(g)
                         /\ Nacked(g)' = IF g = f THEN Nacked(g) \cup {m} ELSE Nacked(g)
    BY <1>3, <2>1, JoinsAccounts
  <2>3. Reports' = Reports
    BY <1>3, <2>1 DEF Reports
  <2>4. EchoesAccounted'
    BY <1>2, <1>3, <2>1, EchoesStand DEF daemonVars
  <2>5. Apart'
    <3>1. ASSUME NEW g \in Flows, NEW a \in Nacked(g)', NEW b \in Nacked(g)', a.says = b.says
          PROVE  a = b
      <4>1. \A x, y \in Nacked(g) : x.says = y.says => x = y
        BY DEF ControlInv, Apart
      <4>2. CASE g # f
        BY <2>2, <3>1, <4>1, <4>2
      <4>3. CASE g = f
        BY <1>3, <1>12, <2>2, <3>1, <4>1, <4>3
      <4>4. QED
        BY <4>2, <4>3
    <3>2. \A n \in Reports : Counted(n.says.evs) # {}
      BY DEF ControlInv, Apart
    <3>3. QED
      BY <2>3, <3>1, <3>2 DEF Apart
  <2>6. asked'[f] = asked[f] \cup {p} /\ \A g \in Flows \ {f} : asked'[g] = asked[g]
    BY <1>1, <1>17 DEF Types
  <2>7. ASSUME NEW g \in Flows PROVE OnePlace(g)'
    <3>1. OnePlace(g)
      BY DEF ControlInv
    <3>2. CASE g = f
      <4>1. asked'[f] = {n.says : n \in Nacked(f)'}
        BY <1>3, <2>2, <2>6, <1>11 DEF OnePlace
      <4>2. QED
        BY <1>2, <1>6, <1>8, <1>15, <2>2, <3>1, <3>2, <4>1, Enters
    <3>3. CASE g # f
      BY <1>5, <1>8, <1>15, <2>2, <2>6, <3>1, <3>3, AccountStands
    <3>4. QED
      BY <3>2, <3>3
  <2>8. QED
    BY <1>10, <1>14, <2>1, <2>4, <2>5, <2>7 DEF ControlInv
<1>18. QED
  BY <1>2, <1>16, <1>17

LEMMA SnapshotStep ==
    ASSUME ControlInv, NEW f \in Flows, Snapshot(f)
    PROVE  ControlInv'
<1> DEFINE r == f[2]
           c == [flow |-> f, got |-> win[f]]
<1>1. Types /\ Sorted /\ r \in Receivers /\ win[f] \in Windows
  BY DEF ControlInv, Types, Receivers
<1>2. /\ closing[r] = None /\ Counted(win[f]) # {}
      /\ closing' = [closing EXCEPT ![r] = c]
      /\ win' = [win EXCEPT ![f] = NoArrivals]
      /\ UNCHANGED <<load, down, inbox, daemonVars, balance, learning, last, owed, asked>>
  BY DEF Snapshot, Reset
<1>3. c # None /\ c \in [flow : Flows, got : Windows] /\ c.flow = f /\ c.got = win[f]
  BY <1>1, ControlAssumption DEF Windows
<1> HIDE DEF c
<1>4. /\ DOMAIN closing' = Receivers /\ closing'[r] = c
      /\ \A h \in Receivers \ {r} : closing'[h] = closing[h]
  BY <1>1, <1>2 DEF Types
<1>5. /\ win' \in [Flows -> Windows] /\ win'[f] = NoArrivals
      /\ \A g \in Flows \ {f} : win'[g] = win[g]
  BY <1>1, <1>2, NothingCounted DEF Types
<1>6. Types'
  BY <1>1, <1>2, <1>4, <1>5 DEF Types, daemonVars
<1>7. ASSUME NEW h \in Receivers PROVE Closes(h)'
  <2>1. CASE h = r
    BY <1>2, <1>3, <1>4, <2>1 DEF Closes, Counted
  <2>2. CASE h # r
    BY <1>4, <2>2 DEF ControlInv, Closes
  <2>3. QED
    BY <2>1, <2>2
<1>8. Waiting' = Waiting /\ Sorted'
  BY <1>1, <1>2 DEF Waiting, Sorted, Sockets
<1>9. Reports' = Reports
      /\ \A g \in Flows : Reported(g)' = Reported(g) /\ Nacked(g)' = Nacked(g)
  BY <1>8 DEF Reported, Reports, Nacked
<1>10. EchoesAccounted'
  BY <1>2, <1>8 DEF ControlInv, EchoesAccounted, Away, daemonVars
<1>11. Apart'
  BY <1>9 DEF ControlInv, Apart
<1>12. ASSUME NEW g \in Flows PROVE OnePlace(g)'
  <2>1. OnePlace(g) /\ g[2] \in Receivers
    BY DEF ControlInv, Receivers
  <2>2. CASE g = f
    <3>1. Sending(f) = {}
      BY <1>2 DEF Sending
    <3>2. Sending(f)' = Counted(win[f])
      BY <1>3, <1>4 DEF Sending, Counted
    <3>3. Counted(win[f])' = {}
      BY <1>5, NothingCounted DEF Counted
    <3>4. owed'[f] = owed[f] /\ asked'[f] = asked[f]
      BY <1>2
    <3>5. QED
      BY <1>9, <2>1, <2>2, <3>1, <3>2, <3>3, <3>4 DEF OnePlace
  <2>3. CASE g # f
    <3>1. Sending(g)' = Sending(g)
      BY <1>2, <1>3, <1>4, <2>1, <2>3 DEF Sending
    <3>2. QED
      BY <1>2, <1>5, <1>9, <2>1, <2>3, <3>1, AccountStands
  <2>4. QED
    BY <2>2, <2>3
<1>13. QED
  BY <1>6, <1>7, <1>8, <1>10, <1>11, <1>12 DEF ControlInv

LEMMA SendReportStep ==
    ASSUME ControlInv, NEW h \in Receivers, SendReport(h)
    PROVE  ControlInv'
<1>1. Types /\ Sorted /\ Closes(h) /\ \A r \in Receivers : Closes(r)
  BY DEF ControlInv
<1>2. closing[h] # None /\ closing[h] \in [flow : Flows, got : Windows]
  BY <1>1 DEF SendReport, Closes
<1>3. PICK f \in Flows, w \in Windows :
         /\ closing[h].flow = f /\ closing[h].got = w
         /\ f[2] = h /\ Counted(w) # {}
  BY <1>1, <1>2 DEF Closes
<1> DEFINE m == LossReport(f, last[f], Encoded(w))
<1>4. /\ closing' = [closing EXCEPT ![h] = None]
      /\ UNCHANGED <<load, down, daemonVars, balance, win, learning, last, asked>>
      /\ \/ owed' = [owed EXCEPT ![f] = @ \ Counted(w)] /\ UNCHANGED inbox
         \/ last[f] # None /\ Delivered(m) /\ UNCHANGED owed
  BY <1>3 DEF SendReport
<1>5. Sending(f) = Counted(w)
  BY <1>2, <1>3 DEF Sending
<1>6. /\ DOMAIN closing' = Receivers /\ closing'[h] = None
      /\ \A r \in Receivers \ {h} : closing'[r] = closing[r]
  BY <1>1, <1>4 DEF Types
<1>7. \A r \in Receivers : Closes(r)'
  BY <1>1, <1>6 DEF Closes, Counted
<1>8. /\ Sending(f)' = {}
      /\ \A g \in Flows \ {f} : Sending(g)' = Sending(g)
  <2>1. Sending(f)' = {}
    BY <1>3, <1>6 DEF Sending
  <2>2. ASSUME NEW g \in Flows \ {f} PROVE Sending(g)' = Sending(g)
    <3>1. g[2] \in Receivers
      BY DEF Receivers
    <3>2. CASE g[2] = h
      BY <1>3, <1>6, <2>2, <3>2 DEF Sending
    <3>3. CASE g[2] # h
      BY <1>6, <3>1, <3>3 DEF Sending
    <3>4. QED
      BY <3>2, <3>3
  <2>3. QED
    BY <2>1, <2>2
<1>9. OnePlace(f)
  BY <1>3 DEF ControlInv
<1>10. Counted(win[f])' = Counted(win[f])
  BY <1>4 DEF Counted
<1>11. CASE owed' = [owed EXCEPT ![f] = @ \ Counted(w)] /\ UNCHANGED inbox
  <2>1. Waiting' = Waiting /\ Sorted'
    BY <1>1, <1>11 DEF Waiting, Sorted, Sockets
  <2>2. Reports' = Reports
        /\ \A g \in Flows : Reported(g)' = Reported(g) /\ Nacked(g)' = Nacked(g)
    BY <2>1 DEF Reported, Reports, Nacked
  <2>3. /\ owed' = [g \in Flows |-> owed'[g]]
        /\ owed'[f] = owed[f] \ Counted(w)
        /\ \A g \in Flows \ {f} : owed'[g] = owed[g]
    BY <1>1, <1>3, <1>11 DEF Types
  <2>4. Types'
    BY <1>1, <1>4, <1>6, <2>3 DEF Types, daemonVars
  <2>5. EchoesAccounted'
    BY <1>4, <2>1 DEF ControlInv, EchoesAccounted, Away, daemonVars
  <2>6. Apart'
    BY <2>2 DEF ControlInv, Apart
  <2>7. OnePlace(f)'
    <3>1. /\ Counted(w) \cap Counted(win[f]) = {}
          /\ \A n \in Reported(f) : Counted(n.says.evs) \cap Counted(w) = {}
      BY <1>5, <1>9 DEF OnePlace
    <3>2. owed'[f] = Counted(win[f]) \cup UNION {Counted(n.says.evs) : n \in Reported(f)}
      BY <1>5, <1>9, <2>3, <3>1 DEF OnePlace
    <3>3. QED
      BY <1>4, <1>8, <1>9, <1>10, <2>2, <3>2 DEF OnePlace
  <2>8. ASSUME NEW g \in Flows \ {f} PROVE OnePlace(g)'
    BY <1>4, <1>8, <2>2, <2>3, AccountStands DEF ControlInv
  <2>9. QED
    BY <1>7, <2>1, <2>4, <2>5, <2>6, <2>7, <2>8 DEF ControlInv
<1>12. CASE last[f] # None /\ Delivered(m) /\ UNCHANGED owed
  <2>1. /\ m \in Messages /\ m.kind = "report" /\ m.flow = f /\ m.says.evs = w
    <3>1. last[f] \in EVs
      BY <1>1, <1>3, <1>12 DEF Types
    <3>2. m \in Messages
      BY <1>3, <3>1 DEF Messages
    <3>3. QED
      BY <1>3, <3>2, DecodedIsCounted DEF LossReport
  <2> HIDE DEF m
  <2>2. \A n \in Reported(f) : Counted(n.says.evs) \cap (Counted(win[f]) \cup Counted(w)) = {}
    BY <1>5, <1>9 DEF OnePlace
  <2>3. m \notin Waiting
    BY <1>3, <2>1, <2>2 DEF Reported, Reports
  <2>4. Sorted' /\ Waiting' = Waiting \cup {m}
    BY <1>1, <1>12, <2>1, <2>3, Joins
  <2>5. \A g \in Flows : /\ Nacked(g)' = Nacked(g)
                         /\ Reported(g)' = IF g = f THEN Reported(g) \cup {m} ELSE Reported(g)
    BY <2>1, <2>4, JoinsAccounts
  <2>6. Reports' = Reports \cup {m}
    BY <2>1, <2>4 DEF Reports
  <2>7. Types'
    BY <1>1, <1>4, <1>6, <1>12 DEF Types, daemonVars
  <2>8. EchoesAccounted'
    BY <1>4, <2>1, <2>4, EchoesStand DEF daemonVars
  <2>9. Apart'
    BY <1>3, <2>1, <2>5, <2>6 DEF ControlInv, Apart
  <2>10. OnePlace(f)'
    <3>1. Reported(f)' = Reported(f) \cup {m}
      BY <1>3, <2>5
    <3>2. owed'[f] = Counted(win[f]) \cup UNION {Counted(n.says.evs) : n \in Reported(f) \cup {m}}
      BY <1>5, <1>9, <1>12, <2>1 DEF OnePlace
    <3>3. \A n \in Reported(f) \cup {m} : Counted(n.says.evs) \cap Counted(win[f]) = {}
      BY <1>5, <1>9, <2>1, <2>2 DEF OnePlace
    <3>4. \A n \in Reported(f) \cup {m} : \A o \in (Reported(f) \cup {m}) \ {n} :
              Counted(n.says.evs) \cap Counted(o.says.evs) = {}
      BY <1>9, <2>1, <2>2 DEF OnePlace
    <3>5. asked'[f] = {n.says : n \in Nacked(f)'}
      BY <1>4, <1>3, <1>9, <2>5 DEF OnePlace
    <3>6. QED
      BY <1>8, <1>10, <3>1, <3>2, <3>3, <3>4, <3>5 DEF OnePlace
  <2>11. ASSUME NEW g \in Flows \ {f} PROVE OnePlace(g)'
    BY <1>4, <1>8, <1>12, <2>5, AccountStands DEF ControlInv
  <2>12. QED
    BY <1>7, <2>4, <2>7, <2>8, <2>9, <2>10, <2>11 DEF ControlInv
<1>13. QED
  BY <1>4, <1>11, <1>12

-----------------------------------------------------------------------------
(* The theorems.                                                              *)

LEMMA StepInv == ControlInv /\ [Next]_vars => ControlInv'
<1> SUFFICES ASSUME ControlInv, [Next]_vars PROVE ControlInv'
  OBVIOUS
<1>1. ASSUME NEW e \in EVs, GoDown(e) PROVE ControlInv'
  BY <1>1, GoDownStep
<1>2. ASSUME NEW h \in Senders, Startup(h) \/ Shutdown(h) \/ Dispatch(h) PROVE ControlInv'
  BY <1>2, DaemonStep, DiscardStep, DispatchStep DEF Shutdown
<1>3. ASSUME NEW f \in Flows,
             \/ NoteProbe(f) \/ HearNack(f) \/ Arrival(f)
             \/ \E e \in EVs : Learn(f, e) \/ \E n \in Probes : SendProbe(f, e, n)
             \/ \E p \in TrimPkts, d \in EVs : TrimArrives(f, p, d)
      PROVE  ControlInv'
  <2>1. CASE NoteProbe(f) \/ HearNack(f) \/ Arrival(f)
    BY <2>1, NoteProbeStep, HearNackStep, DataArrivesStep DEF Arrival
  <2>2. CASE \E e \in EVs : Learn(f, e) \/ \E n \in Probes : SendProbe(f, e, n)
    BY <2>2, LearnStep, SendProbeStep
  <2>3. CASE \E p \in TrimPkts, d \in EVs : TrimArrives(f, p, d)
    BY <2>3, TrimArrivesStep
  <2>4. QED
    BY <1>3, <2>1, <2>2, <2>3
<1>4. ASSUME NEW h \in Receivers, Reporting(h) PROVE ControlInv'
  BY <1>4, SendReportStep, SnapshotStep DEF Reporting
<1>5. CASE UNCHANGED vars
  <2>1. Types'
    BY <1>5 DEF ControlInv, Types, vars, daemonVars, receiverVars
  <2>2. QED
    BY <1>5, <2>1, NothingCountedStep DEF vars, daemonVars, receiverVars
<1>6. QED
  BY <1>1, <1>2, <1>3, <1>4, <1>5 DEF Next

\* What EVStateTable counts as sent on an EV and not seen come back is under
\* way on that EV: whichever of its threads a daemon lets run first, however
\* many flows share its listener and when it is stopped (_emit_loop,
\* _dispatch_loop).
THEOREM NoEchoMiscredited == Spec => []EchoesAccounted
<1>1. ControlInv => EchoesAccounted
  BY DEF ControlInv
<1>2. QED
  BY InitInv, StepInv, <1>1, PTL DEF Spec

\* A packet that LossWindowTable counted is in the window, in the one being
\* reported or in one report under way until its sender has heard of it, and a
\* NACK until the sender of its packet has (record_data, snapshot_and_reset,
\* _emit_one_round).
THEOREM NothingCountedTwice == Spec => []CountedInOnePlace
<1>1. ControlInv => CountedInOnePlace
  BY AccountsAgree DEF ControlInv
<1>2. QED
  BY InitInv, StepInv, <1>1, PTL DEF Spec
=============================================================================
