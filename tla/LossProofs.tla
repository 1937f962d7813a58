------------------------------ MODULE LossProofs ------------------------------
(***************************************************************************)
(* What holds of the loss path of LossFusion for every grid, every load,   *)
(* every length, phase and skew of the windows, every ring, every set of   *)
(* faulty paths and every bound: it keeps to the EV table's own rules;     *)
(* however ticks race the reports, the absence of an EV that is out counts *)
(* against it once at most; and a path without faults loses its place only *)
(* to as many bursts in succession as loss_demote_consecutive asks for.    *)
(***************************************************************************)
EXTENDS LossHistory, EVStateProofs

-----------------------------------------------------------------------------
(***************************************************************************)
(* Arithmetic                                                              *)
(***************************************************************************)
LEMMA MulSucc == \A r, n \in Nat : r * n \in Nat /\ r * (n + 1) = r * n + r
  OBVIOUS

LEMMA MulMono == \A r, m, n \in Nat : m <= n => r * m <= r * n
<1> SUFFICES ASSUME NEW r \in Nat, NEW m \in Nat, NEW n \in Nat, m <= n
             PROVE  r * m <= r * n
  OBVIOUS
<1> DEFINE d == n - m
<1>1. d \in Nat /\ n = m + d
  OBVIOUS
<1> HIDE DEF d
<1>2. r * n = r * m + r * d
  BY <1>1
<1>3. r * d \in Nat /\ r * m \in Nat
  BY <1>1
<1>4. QED
  BY <1>2, <1>3

\* A count that is clean for a window is clean for what was sent in a part of it.
LEMMA CleanForLess ==
    ASSUME NEW sent \in Nat, NEW full \in Nat, NEW n \in Nat, sent <= full,
           (200 - LossPct) * full <= 200 * n
    PROVE  (200 - LossPct) * sent <= 200 * n
<1> DEFINE k == 200 - LossPct
<1>1. k \in Nat
  BY TunableAssumption
<1> HIDE DEF k
<1>2. k * sent <= k * full /\ k * sent \in Nat /\ k * full \in Nat
  BY <1>1, MulMono
<1>3. QED
  BY <1>2 DEF k

-----------------------------------------------------------------------------
(***************************************************************************)
(* Types                                                                   *)
(***************************************************************************)
Counts == [EV -> [seen : Nat, trimmed : Nat]]

Windows == [sent : [EV -> Nat], age : Nat]

Calls == [ev : EV, seen : Nat, sent : Nat, absent : BOOLEAN, unchecked : BOOLEAN]

Clock ==
    /\ unit \in 0..Window - 1
    /\ dueSent \in BOOLEAN /\ dueReport \in BOOLEAN
    /\ dueSent => unit = 0
    /\ dueReport => unit = Phase

\* What the sender, the receiver and the dispatch thread hold, each in its type.
FTypes ==
    /\ Clock
    /\ sprayed \in SUBSET EV
    /\ sentNow \in [EV -> Nat]
    /\ flying \in [EV -> Nat]
    /\ arrived \in Counts
    /\ report # None => report \in Counts
    /\ ring \in Seq(Windows)
    /\ calls \in SUBSET Calls

LEMMA FTypesInit == FInit => FTypes
<1> SUFFICES ASSUME FInit PROVE FTypes
  OBVIOUS
<1>1. Clock
  <2>1. unit = 0 /\ dueSent = FALSE /\ dueReport = FALSE
    BY Zenon DEF FInit
  <2>2. unit \in 0..Window - 1
    BY <2>1, FusionAssumption
  <2>3. QED
    BY <2>1, <2>2, Zenon DEF Clock
<1>2. ring \in Seq(Windows)
  BY DEF FInit
<1>3. arrived \in Counts
  BY DEF FInit, NothingSeen, Counts
<1>4. QED
  BY <1>1, <1>2, <1>3 DEF FInit, FTypes, Zero

\* What becomes of the packets an EV is offered in a unit: some stay under way,
\* and of the others, those not lost are seen or seen trimmed.
LEMMA OutcomeBounds ==
    ASSUME FTypes, NEW e \in EV, NEW n \in Nat, NEW o \in Outcomes(e, n)
    PROVE  /\ o.late \in Nat /\ o.gone \in Nat /\ o.trim \in Nat
           /\ o.late <= SmallerOf(n, MaxLate)
           /\ o.trim + o.gone + o.late <= n + flying[e]
           /\ o.gone \in Losses(e, n + flying[e] - o.late)
<1>1. flying[e] \in Nat /\ MaxLate \in Nat /\ MaxTrims \in Nat
  BY FusionAssumption DEF FTypes
<1>2. /\ o.late \in 0..SmallerOf(n, MaxLate)
      /\ o.gone \in 0..n + flying[e]
      /\ o.trim \in 0..SmallerOf(n + flying[e], MaxTrims)
      /\ o.trim + o.gone + o.late <= n + flying[e]
      /\ o.gone \in Losses(e, n + flying[e] - o.late)
  BY DEF Outcomes
<1>3. SmallerOf(n, MaxLate) \in Nat /\ SmallerOf(n + flying[e], MaxTrims) \in Nat
  BY <1>1 DEF SmallerOf
<1>4. QED
  BY <1>1, <1>2, <1>3

\* What a unit under this load, with these outcomes, does to EV e.
UnitAt(load, o, e) ==
    /\ o[e] \in Outcomes(e, Offered(load)[e])
    /\ sentNow'[e] = sentNow[e] + Offered(load)[e]
    /\ flying'[e] = o[e].late
    /\ arrived'[e].seen = arrived[e].seen + Offered(load)[e] + flying[e]
                          - o[e].late - o[e].gone - o[e].trim
    /\ arrived'[e].trimmed = arrived[e].trimmed + o[e].trim

\* One unit, EV by EV: a load was offered, and each EV's packets had one outcome.
LEMMA UnitCases ==
    ASSUME FTypes, Unit
    PROVE  \E load \in Loads :
             /\ Offered(load) \in [EV -> Nat]
             /\ \E o : \A e \in EV : UnitAt(load, o, e)
<1>1. PICK load \in Loads : 
        \E o \in {f \in [EV -> UNION {Outcomes(e, Offered(load)[e]) : e \in EV}] :
                    \A e \in EV : f[e] \in Outcomes(e, Offered(load)[e])} :
           /\ sentNow' = [e \in EV |-> sentNow[e] + Offered(load)[e]]
           /\ flying' = [e \in EV |-> o[e].late]
           /\ arrived' = [e \in EV |->
                 [seen |-> arrived[e].seen + Offered(load)[e] + flying[e]
                           - o[e].late - o[e].gone - o[e].trim,
                  trimmed |-> arrived[e].trimmed + o[e].trim]]
  BY DEF Unit
<1>2. PICK o : /\ \A e \in EV : o[e] \in Outcomes(e, Offered(load)[e])
               /\ sentNow' = [e \in EV |-> sentNow[e] + Offered(load)[e]]
               /\ flying' = [e \in EV |-> o[e].late]
               /\ arrived' = [e \in EV |->
                     [seen |-> arrived[e].seen + Offered(load)[e] + flying[e]
                               - o[e].late - o[e].gone - o[e].trim,
                      trimmed |-> arrived[e].trimmed + o[e].trim]]
  BY <1>1
<1>3. Offered(load) \in [EV -> Nat]
  BY FusionAssumption DEF Offered
<1>4. \A e \in EV : UnitAt(load, o, e)
  BY <1>2 DEF UnitAt
<1>5. QED
  BY <1>3, <1>4

LEMMA UnitTypes ==
    ASSUME FTypes, Unit
    PROVE  /\ sentNow' \in [EV -> Nat]
           /\ flying' \in [EV -> Nat]
           /\ arrived' \in Counts
<1>a. PICK load \in Loads :
        Offered(load) \in [EV -> Nat] /\ \E o : \A d \in EV : UnitAt(load, o, d)
  BY UnitCases
<1>1. PICK o :
        /\ Offered(load) \in [EV -> Nat]
        /\ \A e \in EV :
             /\ o[e] \in Outcomes(e, Offered(load)[e])
             /\ sentNow'[e] = sentNow[e] + Offered(load)[e]
             /\ flying'[e] = o[e].late
             /\ arrived'[e].seen = arrived[e].seen + Offered(load)[e] + flying[e]
                                   - o[e].late - o[e].gone - o[e].trim
             /\ arrived'[e].trimmed = arrived[e].trimmed + o[e].trim
  BY <1>a DEF UnitAt
<1>2. /\ sentNow' = [e \in EV |-> sentNow'[e]]
      /\ flying' = [e \in EV |-> flying'[e]]
      /\ arrived' = [e \in EV |-> [seen |-> arrived'[e].seen, trimmed |-> arrived'[e].trimmed]]
  BY DEF Unit
<1>3. ASSUME NEW e \in EV
      PROVE  /\ sentNow'[e] \in Nat /\ flying'[e] \in Nat
             /\ arrived'[e].seen \in Nat /\ arrived'[e].trimmed \in Nat
  <2> DEFINE n == Offered(load)[e]
  <2>1. n \in Nat /\ sentNow[e] \in Nat /\ flying[e] \in Nat
        /\ arrived[e].seen \in Nat /\ arrived[e].trimmed \in Nat
    BY <1>1 DEF FTypes, Counts
  <2>2. /\ o[e].late \in Nat /\ o[e].gone \in Nat /\ o[e].trim \in Nat
        /\ o[e].trim + o[e].gone + o[e].late <= n + flying[e]
    BY <1>1, <2>1, OutcomeBounds
  <2>3. /\ sentNow'[e] = sentNow[e] + n /\ flying'[e] = o[e].late
        /\ arrived'[e].seen = arrived[e].seen + n + flying[e]
                              - o[e].late - o[e].gone - o[e].trim
        /\ arrived'[e].trimmed = arrived[e].trimmed + o[e].trim
    BY <1>1
  <2> HIDE DEF n
  <2>4. QED
    BY <2>1, <2>2, <2>3
<1>4. QED
  <2>1. sentNow' \in [EV -> Nat] /\ flying' \in [EV -> Nat]
    BY <1>2, <1>3
  <2>2. arrived' \in Counts
    <3>1. \A e \in EV : [seen |-> arrived'[e].seen, trimmed |-> arrived'[e].trimmed]
                            \in [seen : Nat, trimmed : Nat]
      BY <1>3
    <3>2. QED
      BY <1>2, <3>1, Zenon DEF Counts
  <2>3. QED
    BY <2>1, <2>2

\* The clock after a unit.
LEMMA UnitClock ==
    ASSUME Clock, Unit
    PROVE  /\ Clock'
           /\ unit' = IF unit = Window - 1 THEN 0 ELSE unit + 1
<1>1. unit \in 0..Window - 1 /\ Window \in Nat /\ Window > 0
  BY FusionAssumption DEF Clock
<1>2. /\ unit' = (unit + 1) % Window
      /\ dueSent' = (unit' = 0) /\ dueReport' = (unit' = Phase)
  BY DEF Unit
<1>3. unit' = IF unit = Window - 1 THEN 0 ELSE unit + 1
  BY <1>1, <1>2
<1>4. unit' \in 0..Window - 1
  BY <1>1, <1>3
<1>5. QED
  BY <1>2, <1>3, <1>4 DEF Clock

\* The windows of the ring after a step: those that were in it, one older
\* perhaps, and the sender's current one if that was closed.
LEMMA UnitRing ==
    ASSUME FTypes, Unit
    PROVE  /\ ring' \in Seq(Windows) /\ DOMAIN ring' = DOMAIN ring
           /\ \A i \in DOMAIN ring' : ring'[i].sent = ring[i].sent
<1>1. ring \in Seq(Windows) /\ Len(ring) \in Nat /\ DOMAIN ring = 1..Len(ring)
  BY DEF FTypes
<1>2. MaxSkew \in Nat
  BY FusionAssumption
<1>3. ASSUME NEW i \in DOMAIN ring
      PROVE  /\ [ring[i] EXCEPT !.age = SmallerOf(@ + 1, MaxSkew + 1)] \in Windows
             /\ [ring[i] EXCEPT !.age = SmallerOf(@ + 1, MaxSkew + 1)].sent = ring[i].sent
  <2>1. ring[i] \in Windows
    BY <1>1
  <2>2. SmallerOf(ring[i].age + 1, MaxSkew + 1) \in Nat
    BY <1>2, <2>1 DEF Windows, SmallerOf
  <2>3. QED
    BY <2>1, <2>2 DEF Windows
<1>4. ring' = [i \in 1..Len(ring) |->
                 [ring[i] EXCEPT !.age = SmallerOf(@ + 1, MaxSkew + 1)]]
  BY <1>1 DEF Unit
<1>5. \A i \in 1..Len(ring) : ring'[i] \in Windows /\ ring'[i].sent = ring[i].sent
  BY <1>1, <1>3, <1>4
<1>6. ring' \in [1..Len(ring) -> Windows]
  BY <1>4, <1>5
<1>7. ring' \in Seq(Windows) /\ DOMAIN ring' = 1..Len(ring)
  BY <1>1, <1>6
<1>8. QED
  BY <1>1, <1>5, <1>7

\* A full ring moves up by one.
MovedUp(p, r, w) ==
    /\ DOMAIN p = IF Len(r) + 1 > RingCapacity THEN 1..Len(r) ELSE 1..Len(r) + 1
    /\ \A i \in DOMAIN p :
          p[i] = IF Len(r) + 1 > RingCapacity
                 THEN IF i = Len(r) THEN w ELSE r[i + 1]
                 ELSE IF i = Len(r) + 1 THEN w ELSE r[i]

LEMMA PushedRing ==
    ASSUME NEW S, NEW r \in Seq(S), NEW w \in S
    PROVE  /\ Pushed(r, w) \in Seq(S) /\ Pushed(r, w) # <<>>
           /\ MovedUp(Pushed(r, w), r, w)
<1> DEFINE g == Append(r, w)
           n == Len(r)
<1>1. /\ n \in Nat /\ DOMAIN r = 1..n
      /\ g \in Seq(S) /\ Len(g) = n + 1 /\ g # <<>> /\ DOMAIN g = 1..n + 1
      /\ g[n + 1] = w /\ \A i \in 1..n : g[i] = r[i]
  OBVIOUS
<1>2. Pushed(r, w) = IF Len(g) > RingCapacity THEN Tail(g) ELSE g
  BY DEF Pushed
<1>3. RingCapacity \in Nat /\ RingCapacity >= 1
  BY FusionAssumption
<1> HIDE DEF g
<1>4. CASE n + 1 > RingCapacity
  <2>1. /\ Pushed(r, w) = Tail(g) /\ Tail(g) \in Seq(S) /\ Len(Tail(g)) = n
        /\ DOMAIN Tail(g) = 1..n
        /\ \A i \in 1..n : Tail(g)[i] = g[i + 1]
    BY <1>1, <1>2, <1>4
  <2>2. n >= 1
    BY <1>1, <1>3, <1>4
  <2>3. Pushed(r, w) # <<>>
    BY <2>1, <2>2
  <2>4. ASSUME NEW i \in 1..n PROVE g[i + 1] = IF i = n THEN w ELSE r[i + 1]
    <3>1. i = n \/ i + 1 \in 1..n
      <4> HIDE DEF n
      <4>1. QED
        BY <1>1
    <3>2. QED
      BY <1>1, <3>1
  <2>5. QED
    BY <1>4, <2>1, <2>3, <2>4 DEF MovedUp
<1>5. CASE ~(n + 1 > RingCapacity)
  <2>1. Pushed(r, w) = g
    BY <1>1, <1>2, <1>5
  <2>2. ASSUME NEW i \in 1..n + 1 PROVE g[i] = IF i = n + 1 THEN w ELSE r[i]
    <3>1. i = n + 1 \/ i \in 1..n
      BY <1>1
    <3>2. QED
      BY <1>1, <3>1
  <2>3. QED
    BY <1>1, <1>5, <2>1, <2>2 DEF MovedUp
<1>6. QED
  BY <1>4, <1>5

LEMMA RotateRing ==
    ASSUME FTypes, RotateSent
    PROVE  /\ ring' \in Seq(Windows)
           /\ ring' # <<>> \/ (ring' = ring /\ sentNow = Zero)
<1>1. ring \in Seq(Windows) /\ [sent |-> sentNow, age |-> 0] \in Windows
  BY DEF FTypes, Windows
<1>2. ring' = IF sentNow = Zero THEN ring ELSE Pushed(ring, [sent |-> sentNow, age |-> 0])
  BY DEF RotateSent
<1>3. CASE sentNow = Zero
  BY <1>1, <1>2, <1>3
<1>4. CASE sentNow # Zero
  <2> DEFINE w == [sent |-> sentNow, age |-> 0]
  <2>1. w \in Windows
    BY <1>1
  <2>2. ring' = Pushed(ring, w)
    BY <1>2, <1>4
  <2> HIDE DEF w
  <2>3. QED
    BY <1>1, <2>1, <2>2, PushedRing
<1>5. QED
  BY <1>3, <1>4

\* The window a report is paired with is one of the ring's.
LEMMA ClosestIn ==
    ASSUME FTypes, Candidates # {}
    PROVE  Closest \in DOMAIN ring
<1> DEFINE Skews == {k \in Nat : \E i \in Candidates : Skew(ring[i]) = k}
<1>1. ring \in Seq(Windows) /\ DOMAIN ring \in SUBSET Nat
  BY DEF FTypes
<1>2. Candidates \in SUBSET DOMAIN ring
  BY DEF Candidates
<1>3. ASSUME NEW i \in Candidates PROVE Skew(ring[i]) \in Nat
  <2>1. ring[i] \in Windows
    BY <1>1, <1>2
  <2>2. ring[i].age \in Nat /\ Window \in Nat
    BY <2>1, FusionAssumption DEF Windows
  <2>3. QED
    BY <2>2 DEF Skew
<1>4. Skews \in SUBSET Nat /\ Skews # {}
  BY <1>3
<1>5. PICK k \in Skews : \A m \in Nat : m < k => m \notin Skews
  <2> HIDE DEF Skews
  <2> QED
    BY <1>4, Least
<1> DEFINE Firsts == {i \in Nat : i \in Candidates /\ Skew(ring[i]) = k}
<1>6. Firsts \in SUBSET Nat /\ Firsts # {}
  BY <1>1, <1>2, <1>5
<1>7. PICK i \in Firsts : \A m \in Nat : m < i => m \notin Firsts
  <2> HIDE DEF Firsts
  <2> QED
    BY <1>6, Least
<1>8. ASSUME NEW j \in Candidates
      PROVE  \/ Skew(ring[i]) < Skew(ring[j])
             \/ Skew(ring[i]) = Skew(ring[j]) /\ i <= j
  <2>1. /\ j \in Nat /\ i \in Nat /\ Skew(ring[j]) \in Nat /\ k \in Nat
        /\ Skew(ring[i]) = k
    BY <1>1, <1>2, <1>3, <1>4, <1>5, <1>7
  <2>2. ~(Skew(ring[j]) < k)
    BY <1>5, <2>1
  <2>3. Skew(ring[j]) = k => ~(j < i)
    BY <1>7, <2>1
  <2> HIDE DEF Skews, Firsts
  <2>4. QED
    BY <2>1, <2>2, <2>3
<1>9. i \in Candidates
  BY <1>7
<1>10. Closest \in Candidates
  BY <1>8, <1>9, Zenon DEF Closest
<1>11. QED
  BY <1>2, <1>10

\* The calls a report leads to: one for an EV at most, and what it says the EV
\* was sent is the count of a window of the ring.
LEMMA NewCalls ==
    ASSUME FTypes, ReceiveReport, NEW c \in calls'
    PROVE  /\ c \in Calls
           /\ Candidates # {} /\ Closest \in DOMAIN ring
           /\ c.sent = ring[Closest].sent[c.ev]
           /\ Hits(c.ev) \in Nat
           /\ c.seen = Hits(c.ev)
           /\ c.absent = (c.ev \notin Reported)
           /\ c.unchecked = c.absent
<1>1. report \in Counts /\ ring \in Seq(Windows)
  BY DEF FTypes, ReceiveReport
<1>2. Paired # None
  BY DEF ReceiveReport
<1>3. Candidates # {} /\ Closest \in DOMAIN ring /\ Paired = ring[Closest].sent
  BY <1>2, ClosestIn DEF Paired
<1>4. Paired \in [EV -> Nat]
  <2>1. ring[Closest] \in Windows
    BY <1>1, <1>3
  <2>2. QED
    BY <1>3, <2>1 DEF Windows
<1>5. \A e \in EV : Hits(e) \in Nat
  BY <1>1 DEF Counts, Hits
<1>6. \/ \E e \in EV : e \in Reported /\ c = Call(e, Delivered(e), Paired[e], FALSE)
      \/ \E e \in EV : e \in Inferred(Paired) /\ c = Call(e, 0, Paired[e], TRUE)
  <2>1. calls' = {Call(e, Delivered(e), Paired[e], FALSE) :
                      e \in {f \in Reported : Paired[f] > 0}}
                 \cup {Call(e, 0, Paired[e], TRUE) : e \in Inferred(Paired)}
    BY <1>2, Zenon DEF ReceiveReport
  <2>2. Reported \in SUBSET EV /\ Inferred(Paired) \in SUBSET EV
    BY DEF Reported, Inferred
  <2>3. QED
    BY <2>1, <2>2, Zenon
<1>7. CASE \E e \in EV : e \in Reported /\ c = Call(e, Delivered(e), Paired[e], FALSE)
  <2>1. PICK e \in EV : e \in Reported /\ c = Call(e, Delivered(e), Paired[e], FALSE)
    BY <1>7
  <2>2. /\ c = [ev |-> e, seen |-> Hits(e), sent |-> Paired[e],
                absent |-> FALSE, unchecked |-> FALSE]
    BY <2>1 DEF Call, Delivered
  <2>3. c.ev = e /\ c.seen = Hits(e) /\ c.sent = Paired[e]
        /\ c.absent = FALSE /\ c.unchecked = FALSE
    BY <2>2
  <2>4. Hits(e) \in Nat /\ Paired[e] \in Nat
    BY <1>4, <1>5
  <2>5. c \in Calls
    BY <2>2, <2>4, Zenon DEF Calls
  <2>6. QED
    BY <1>3, <2>1, <2>3, <2>4, <2>5
<1>8. CASE \E e \in EV : e \in Inferred(Paired) /\ c = Call(e, 0, Paired[e], TRUE)
  <2>1. PICK e \in EV : e \in Inferred(Paired) /\ c = Call(e, 0, Paired[e], TRUE)
    BY <1>8
  <2>2. /\ c = [ev |-> e, seen |-> 0, sent |-> Paired[e],
                absent |-> TRUE, unchecked |-> TRUE]
    BY <2>1 DEF Call
  <2>3. c.ev = e /\ c.seen = 0 /\ c.sent = Paired[e]
        /\ c.absent = TRUE /\ c.unchecked = TRUE
    BY <2>2
  <2>4. Hits(e) \in Nat /\ Paired[e] \in Nat /\ 0 \in Nat
    BY <1>4, <1>5
  <2>5. c \in Calls
    BY <2>2, <2>4, Zenon DEF Calls
  <2>6. e \notin Reported
    BY <2>1 DEF Inferred
  <2>7. Hits(e) = 0
    BY <2>4, <2>6 DEF Reported
  <2>8. QED
    BY <1>3, <2>3, <2>4, <2>5, <2>6, <2>7
<1>9. QED
  BY <1>6, <1>7, <1>8

\* An EV never has two calls waiting.
OneCall == \A c, d \in calls : c.ev = d.ev => c = d

LEMMA NewCallsOne == FTypes /\ ReceiveReport => OneCall'
<1> SUFFICES ASSUME FTypes, ReceiveReport, NEW c \in calls', NEW d \in calls',
                    c.ev = d.ev
             PROVE  c = d
  BY DEF OneCall
<1>1. Paired # None
  BY DEF ReceiveReport
<1>2. \A k \in calls' : /\ k \in Calls /\ k.seen = Hits(k.ev)
                        /\ k.absent = (k.ev \notin Reported)
                        /\ k.unchecked = k.absent
                        /\ k.sent = Paired[k.ev]
  <2>1. SUFFICES ASSUME NEW k \in calls' PROVE k.sent = Paired[k.ev]
    BY NewCalls
  <2>2. \E e \in EV : \E n, b : k = Call(e, n, Paired[e], b)
    BY <1>1, Zenon DEF ReceiveReport, Reported, Inferred
  <2>3. QED
    BY <2>2 DEF Call
<1>3. \A k \in Calls : k = [ev |-> k.ev, seen |-> k.seen, sent |-> k.sent,
                            absent |-> k.absent, unchecked |-> k.unchecked]
  BY DEF Calls
<1>4. /\ c.seen = d.seen /\ c.sent = d.sent
      /\ c.absent = d.absent /\ c.unchecked = d.unchecked
  BY <1>2, Zenon
<1>5. c \in Calls /\ d \in Calls
  BY <1>2
<1>6. QED
  BY <1>3, <1>4, <1>5, Zenon

\* What a check of an absent EV leaves of the calls.
LEMMA CheckedCalls ==
    ASSUME FTypes, CheckAbsent
    PROVE  \E c \in calls :
             /\ c.unchecked
             /\ \A d \in calls' :
                  \/ d \in calls /\ d # c
                  \/ /\ ~LeftAlone(c.ev) /\ d \in Calls
                     /\ d = [c EXCEPT !.unchecked = FALSE]
                     /\ d.ev = c.ev /\ d.seen = c.seen /\ d.sent = c.sent
                     /\ d.absent = c.absent /\ ~d.unchecked
<1>1. PICK c \in calls :
        /\ c.unchecked
        /\ calls' = (calls \ {c}) \cup
              (IF LeftAlone(c.ev) THEN {} ELSE {[c EXCEPT !.unchecked = FALSE]})
  BY Zenon DEF CheckAbsent
<1>2. c \in Calls
  BY DEF FTypes
<1> DEFINE k == [c EXCEPT !.unchecked = FALSE]
<1>3. /\ k \in Calls /\ k.ev = c.ev /\ k.seen = c.seen /\ k.sent = c.sent
      /\ k.absent = c.absent
  BY <1>2 DEF Calls
<1>4. ~k.unchecked
  BY <1>2 DEF Calls
<1>5. \A d \in calls' : (d \in calls /\ d # c) \/ (~LeftAlone(c.ev) /\ d = k)
  BY <1>1, Zenon
<1>6. k = [c EXCEPT !.unchecked = FALSE]
  OBVIOUS
<1> HIDE DEF k
<1>7. QED
  BY <1>1, <1>3, <1>4, <1>5, <1>6, Zenon

\* The call that is made, and what it leaves.
LEMMA MadeCall ==
    ASSUME FTypes, ApplyCall
    PROVE  \E c \in calls :
             /\ c \in Calls /\ ~c.unchecked
             /\ RecordLossWindow(c.ev, c.seen, c.sent)
             /\ c.ev \in EV /\ c.seen \in Nat /\ c.sent \in Nat
             /\ calls' = calls \ {c}
<1>1. PICK c \in calls : /\ ~c.unchecked
                         /\ RecordLossWindow(c.ev, c.seen, c.sent)
                         /\ calls' = calls \ {c}
  BY Zenon DEF ApplyCall
<1>2. c \in Calls
  BY DEF FTypes
<1>3. c.ev \in EV /\ c.seen \in Nat /\ c.sent \in Nat
  BY <1>2 DEF Calls
<1>4. QED
  BY <1>1, <1>2, <1>3

LEMMA FTypesStep == FTypes /\ [FNext]_<<vars, fvars>> => FTypes'
<1> SUFFICES ASSUME FTypes, [FNext]_<<vars, fvars>> PROVE FTypes'
  OBVIOUS
<1>1. CASE Unit
  <2>1. UNCHANGED <<sprayed, report, calls>>
    BY <1>1 DEF Unit
  <2>2. QED
    BY <1>1, <2>1, UnitTypes, UnitClock, UnitRing, Zenon DEF FTypes
<1>2. CASE RefreshWeights
  <2>1. UNCHANGED <<clock, sentNow, ring, flying, arrived, report, calls>>
    BY <1>2 DEF RefreshWeights
  <2>2. sprayed' \in SUBSET EV
    BY <1>2 DEF RefreshWeights
  <2>3. QED
    BY <2>1, <2>2 DEF FTypes, Clock, clock
<1>3. CASE RotateSent
  <2>1. /\ UNCHANGED <<unit, dueReport, sprayed, flying, arrived, report, calls>>
        /\ dueSent' = FALSE /\ sentNow' = Zero
    BY <1>3, Zenon DEF RotateSent
  <2>2. Clock'
    BY <2>1, Zenon DEF FTypes, Clock
  <2>3. sentNow' \in [EV -> Nat]
    BY <2>1 DEF Zero
  <2>4. QED
    BY <1>3, <2>1, <2>2, <2>3, RotateRing, Zenon DEF FTypes
<1>4. CASE EmitReport
  <2>1. /\ UNCHANGED <<unit, dueSent, sprayed, sentNow, ring, flying, calls>>
        /\ dueReport' = FALSE /\ arrived' = NothingSeen
        /\ report' = arrived \/ report' = report
    BY <1>4, Zenon DEF EmitReport
  <2>2. Clock'
    BY <2>1, Zenon DEF FTypes, Clock
  <2>3. arrived' \in Counts
    BY <2>1 DEF NothingSeen, Counts
  <2>4. report' # None => report' \in Counts
    BY <2>1, Zenon DEF FTypes
  <2>5. QED
    BY <2>1, <2>2, <2>3, <2>4, Zenon DEF FTypes
<1>5. CASE ReceiveReport
  <2>1. UNCHANGED <<clock, sprayed, sentNow, ring, flying, arrived>> /\ report' = None
    BY <1>5, Zenon DEF ReceiveReport
  <2>2. calls' \in SUBSET Calls
    BY <1>5, NewCalls
  <2>3. QED
    BY <2>1, <2>2 DEF FTypes, Clock, clock
<1>6. CASE CheckAbsent
  <2>1. UNCHANGED <<clock, sprayed, sentNow, ring, flying, arrived, report>>
    BY <1>6 DEF CheckAbsent
  <2>2. calls' \in SUBSET Calls
    BY <1>6, CheckedCalls, Zenon DEF FTypes
  <2>3. QED
    BY <2>1, <2>2 DEF FTypes, Clock, clock
<1>7. CASE ApplyCall
  <2>1. UNCHANGED <<clock, sprayed, sentNow, ring, flying, arrived, report>>
    BY <1>7 DEF ApplyCall
  <2>2. calls' \in SUBSET Calls
    BY <1>7, MadeCall, Zenon DEF FTypes
  <2>3. QED
    BY <2>1, <2>2 DEF FTypes, Clock, clock
<1>8. CASE ProbeStep \/ TransitionEnds \/ UNCHANGED <<vars, fvars>>
  <2>1. UNCHANGED fvars
    BY <1>8 DEF ProbeStep, TransitionEnds
  <2>2. QED
    BY <2>1 DEF FTypes, Clock, fvars, clock
<1>9. QED
  BY <1>1, <1>2, <1>3, <1>4, <1>5, <1>6, <1>7, <1>8 DEF FNext, DataNext, DataStep

-----------------------------------------------------------------------------
(***************************************************************************)
(* The table                                                               *)
(***************************************************************************)

\* Whatever the loss path does to the table is a step of EVState with some loss
\* report, or leaves it alone.
LEMMA TableStep == FTypes /\ [FNext]_<<vars, fvars>> => [Next]_vars \/ AnyLoss
<1> SUFFICES ASSUME FTypes, [FNext]_<<vars, fvars>> PROVE [Next]_vars \/ AnyLoss
  OBVIOUS
<1>1. CASE ApplyCall
  <2>1. PICK c \in calls : /\ RecordLossWindow(c.ev, c.seen, c.sent)
                           /\ c.ev \in EV /\ c.seen \in Nat /\ c.sent \in Nat
    BY <1>1, MadeCall
  <2>2. QED
    BY <2>1, Zenon DEF AnyLoss
<1>2. CASE ProbeStep \/ TransitionEnds
  BY <1>2, Zenon DEF ProbeStep, TransitionEnds, Next
<1>3. CASE Unit \/ RefreshWeights
  BY <1>3 DEF Unit, RefreshWeights
<1>4. CASE RotateSent \/ EmitReport
  BY <1>4 DEF RotateSent, EmitReport
<1>5. CASE ReceiveReport \/ CheckAbsent
  BY <1>5 DEF ReceiveReport, CheckAbsent
<1>6. CASE UNCHANGED <<vars, fvars>>
  BY <1>6
<1>7. QED
  BY <1>1, <1>2, <1>3, <1>4, <1>5, <1>6 DEF FNext, DataNext, DataStep

LEMMA FTypesAlways == FSpec => []FTypes
  BY FTypesInit, FTypesStep, PTL DEF FSpec

\* What runs around the table makes no step of the table's own: the sender, the
\* receiver and the dispatch thread, with every pair of counts for a report, are
\* an instance of EVState, and all that is proved of it holds with them.
THEOREM LossPathIsTable ==
    ASSUME LossReports = Nat \X Nat
    PROVE  FSpec => Spec
<1>1. FInit => Init
  BY DEF FInit
<1>2. AnyLoss => Next
  <2> SUFFICES ASSUME AnyLoss PROVE Next
    OBVIOUS
  <2>1. PICK e \in EV, seen \in Nat, expected \in Nat : RecordLossWindow(e, seen, expected)
    BY DEF AnyLoss
  <2> DEFINE r == <<seen, expected>>
  <2>2. r \in LossReports /\ r[1] = seen /\ r[2] = expected
    OBVIOUS
  <2> HIDE DEF r
  <2>3. RecordLossWindow(e, r[1], r[2])
    BY <2>1, <2>2
  <2>4. QED
    BY <2>2, <2>3, Zenon DEF Next
<1>3. FTypes /\ [FNext]_<<vars, fvars>> => [Next]_vars
  BY <1>2, TableStep
<1>4. QED
  BY <1>1, <1>3, FTypesAlways, PTL DEF FSpec, Spec

\* The table's invariant, with the loss path around it.
LEMMA FSafety == FSpec => [](FTypes /\ SafetyInv)
<1>1. FInit => SafetyInv
  BY InitType, InitFloor, InitCache DEF FInit, SafetyInv
<1>2. FTypes /\ SafetyInv /\ [FNext]_<<vars, fvars>> => SafetyInv'
  BY TableStep, SafetyStep
<1>3. QED
  BY <1>1, <1>2, FTypesAlways, PTL DEF FSpec

\* However reports, checks, calls, ticks and probes interleave, the fusion never
\* takes out an EV the floor needs, and the weights the sender refreshes from, at
\* whatever moment, are those of the states but for one EV at most, and always
\* give some usable EV its share.
THEOREM LossPathKeepsFloor == FSpec => [](FloorInv /\ WeightsOneBehind)
<1>1. SafetyInv => FloorInv /\ WeightsOneBehind
  BY DEF SafetyInv
<1>2. QED
  BY <1>1, FSafety, PTL

-----------------------------------------------------------------------------
(***************************************************************************)
(* What a step does to one EV                                              *)
(***************************************************************************)

\* A visit of the tick to an EV clears its streak if it takes the EV out.
LEMMA TickOwn ==
    ASSUME TypeOK, NEW e \in EV, TickEV(e)
    PROVE  \/ lossStreak'[e] = 0
           \/ state'[e] = "GOOD"
           \/ state'[e] = state[e] /\ lossStreak'[e] = lossStreak[e]
<1>1. CASE Demote(e, FALSE)
  BY <1>1 DEF Demote, TypeOK
<1>2. CASE Promote(e)
  BY <1>2 DEF Promote, TypeOK
<1>3. ASSUME NEW n, SetHealthy(e, n) PROVE state'[e] = state[e] /\ lossStreak'[e] = lossStreak[e]
  BY <1>3 DEF SetHealthy
<1>4. QED
  BY <1>1, <1>2, <1>3, EvaluateCases DEF TickEV

\* A visit of the tick to one EV leaves the others' states and streaks alone.
LEMMA TickOthers ==
    ASSUME TypeOK, NEW f \in EV, TickEV(f), NEW e \in EV, e # f
    PROVE  state'[e] = state[e] /\ lossStreak'[e] = lossStreak[e]
<1>1. CASE Demote(f, FALSE)
  BY <1>1 DEF Demote, TypeOK
<1>2. CASE Promote(f)
  BY <1>2 DEF Promote, TypeOK
<1>3. ASSUME NEW n, SetHealthy(f, n) PROVE state'[e] = state[e] /\ lossStreak'[e] = lossStreak[e]
  BY <1>3 DEF SetHealthy
<1>4. QED
  BY <1>1, <1>2, <1>3, EvaluateCases DEF TickEV

\* A loss call touches the state and the streak of its own EV only.
LEMMA CallOthers ==
    ASSUME TypeOK, NEW f \in EV, NEW seen, NEW expected,
           RecordLossWindow(f, seen, expected), NEW e \in EV, e # f
    PROVE  state'[e] = state[e] /\ lossStreak'[e] = lossStreak[e]
<1>1. CASE Demote(f, TRUE)
  BY <1>1 DEF Demote, TypeOK
<1>2. ASSUME NEW n, lossStreak' = [lossStreak EXCEPT ![f] = n], UNCHANGED state
      PROVE  state'[e] = state[e] /\ lossStreak'[e] = lossStreak[e]
  BY <1>2 DEF TypeOK
<1>3. \/ Demote(f, TRUE)
      \/ \E n : lossStreak' = [lossStreak EXCEPT ![f] = n] /\ UNCHANGED state
  BY Zenon DEF RecordLossWindow
<1>4. QED
  BY <1>1, <1>2, <1>3

\* A clean call starts the count over.
LEMMA CallClean ==
    ASSUME TypeOK, NEW e \in EV, NEW seen \in Nat, NEW expected \in Nat,
           RecordLossWindow(e, seen, expected),
           (200 - LossPct) * expected <= 200 * seen
    PROVE  state'[e] = state[e] /\ lossStreak'[e] = 0
<1> DEFINE lost == expected - SmallerOf(seen, expected)
           above == 100 * lost > LossPct * expected
           clean == 200 * lost <= LossPct * expected
<1>1. LossPct \in Nat /\ LossPct <= 100
  BY TunableAssumption
<1>2. (200 - LossPct) * expected = 200 * expected - LossPct * expected
  BY <1>1
<1>3. LossPct * expected \in Nat
  BY <1>1
<1>4. ~above /\ clean
  <2> DEFINE p == LossPct * expected
  <2>1. p \in Nat /\ 200 * expected - p <= 200 * seen
    BY <1>2, <1>3
  <2> HIDE DEF p
  <2>2. ~(100 * lost > p) /\ 200 * lost <= p
    BY <2>1 DEF SmallerOf
  <2>3. QED
    BY <2>2 DEF p
<1>5. UNCHANGED state /\ lossStreak' = [lossStreak EXCEPT ![e] = 0]
  BY <1>4, Zenon DEF RecordLossWindow
<1>6. QED
  BY <1>5 DEF TypeOK

\* A call adds one to the streak at most, and takes its EV out only by filling it.
LEMMA CallCounts ==
    ASSUME TypeOK, NEW e \in EV, NEW seen, NEW expected,
           RecordLossWindow(e, seen, expected)
    PROVE  /\ lossStreak'[e] <= lossStreak[e] + 1 /\ lossStreak'[e] \in Nat
           /\ state[e] = "ASSUMED_BAD" => state'[e] = "ASSUMED_BAD"
           /\ state[e] # "ASSUMED_BAD" /\ state'[e] = "ASSUMED_BAD" =>
                /\ lossStreak[e] + 1 >= LossDemoteConsecutive
                /\ lossStreak'[e] = 0
<1> DEFINE grown == SmallerOf(lossStreak[e] + 1, LossDemoteConsecutive)
<1>1. /\ LossDemoteConsecutive \in Nat /\ lossStreak[e] \in Nat
      /\ grown \in Nat /\ grown <= lossStreak[e] + 1
  BY TunableAssumption DEF TypeOK, SmallerOf
<1>2. CASE Demote(e, TRUE) /\ MayDemote(e) /\ grown >= LossDemoteConsecutive
  <2>1. /\ state'[e] = "ASSUMED_BAD" /\ lossStreak'[e] = 0
        /\ state[e] # "ASSUMED_BAD"
    BY <1>2 DEF Demote, MayDemote, TypeOK
  <2>2. lossStreak[e] + 1 >= LossDemoteConsecutive
    BY <1>1, <1>2 DEF SmallerOf
  <2> HIDE DEF grown
  <2>3. QED
    BY <1>1, <2>1, <2>2
<1>3. ASSUME NEW n \in {grown, 0, lossStreak[e]},
             lossStreak' = [lossStreak EXCEPT ![e] = n], UNCHANGED state
      PROVE  /\ state'[e] = state[e] /\ lossStreak'[e] \in Nat
             /\ lossStreak'[e] <= lossStreak[e] + 1
  <2>1. lossStreak'[e] = n /\ state'[e] = state[e]
    BY <1>3 DEF TypeOK
  <2> HIDE DEF grown
  <2>2. QED
    BY <1>1, <2>1
<1>4. \/ Demote(e, TRUE) /\ MayDemote(e) /\ grown >= LossDemoteConsecutive
      \/ \E n \in {grown, 0, lossStreak[e]} :
            lossStreak' = [lossStreak EXCEPT ![e] = n] /\ UNCHANGED state
  BY Zenon DEF RecordLossWindow
<1>5. QED
  BY <1>2, <1>3, <1>4

-----------------------------------------------------------------------------
(***************************************************************************)
(* A path that swallows its data                                           *)
(***************************************************************************)

LEMMA OneCallStep == FTypes /\ OneCall /\ [FNext]_<<vars, fvars>> => OneCall'
<1> SUFFICES ASSUME FTypes, OneCall, [FNext]_<<vars, fvars>> PROVE OneCall'
  OBVIOUS
<1>1. CASE ReceiveReport
  BY <1>1, NewCallsOne
<1>2. CASE CheckAbsent
  <2>1. PICK c \in calls : \A d \in calls' :
          \/ d \in calls /\ d # c
          \/ d = [c EXCEPT !.unchecked = FALSE] /\ d.ev = c.ev
    BY <1>2, CheckedCalls, Zenon
  <2>2. ASSUME NEW d \in calls', NEW k \in calls', d.ev = k.ev PROVE d = k
    <3>1. d \in calls /\ k \in calls => d = k
      BY <2>2 DEF OneCall
    <3>2. ASSUME NEW x \in calls, x # c PROVE x.ev # c.ev
      BY <3>2 DEF OneCall
    <3>3. QED
      BY <2>1, <2>2, <3>1, <3>2, Zenon
  <2>3. QED
    BY <2>2, Zenon DEF OneCall
<1>3. CASE ApplyCall
  <2>1. calls' \subseteq calls
    BY <1>3, MadeCall, Zenon
  <2>2. QED
    BY <2>1 DEF OneCall
<1>4. CASE UNCHANGED calls
  BY <1>4 DEF OneCall
<1>5. CASE Unit \/ RefreshWeights \/ RotateSent \/ EmitReport
  BY <1>4, <1>5 DEF Unit, RefreshWeights, RotateSent, EmitReport
<1>6. CASE ProbeStep \/ TransitionEnds \/ UNCHANGED <<vars, fvars>>
  BY <1>4, <1>6 DEF ProbeStep, TransitionEnds, fvars
<1>7. QED
  BY <1>1, <1>2, <1>3, <1>5, <1>6 DEF FNext, DataNext, DataStep

\* A unit brings nothing of a swallowing path to the receiver.
LEMMA UnitSwallows ==
    ASSUME FTypes, Unit, Blackhole, NEW e \in Faulty
    PROVE  /\ arrived'[e].seen = arrived[e].seen
           /\ arrived'[e].trimmed = arrived[e].trimmed
<1>0. e \in EV
  BY FusionAssumption
<1>a. PICK load \in Loads :
        Offered(load) \in [EV -> Nat] /\ \E o : \A d \in EV : UnitAt(load, o, d)
  BY <1>0, UnitCases
<1>1. PICK o :
        /\ Offered(load) \in [EV -> Nat]
        /\ o[e] \in Outcomes(e, Offered(load)[e])
        /\ arrived'[e].seen = arrived[e].seen + Offered(load)[e] + flying[e]
                              - o[e].late - o[e].gone - o[e].trim
        /\ arrived'[e].trimmed = arrived[e].trimmed + o[e].trim
  BY <1>0, <1>a DEF UnitAt
<1> DEFINE n == Offered(load)[e]
           x == o[e]
<1>2. /\ n \in Nat /\ flying[e] \in Nat
      /\ arrived[e].seen \in Nat /\ arrived[e].trimmed \in Nat
  BY <1>0, <1>1 DEF FTypes, Counts
<1>3. /\ x.late \in Nat /\ x.gone \in Nat /\ x.trim \in Nat
      /\ x.trim + x.gone + x.late <= n + flying[e]
      /\ x.gone \in Losses(e, n + flying[e] - x.late)
  BY <1>0, <1>1, <1>2, OutcomeBounds
<1>4. x.gone = n + flying[e] - x.late
  BY <1>3 DEF Losses
<1>5. /\ arrived'[e].seen = arrived[e].seen + n + flying[e] - x.late - x.gone - x.trim
      /\ arrived'[e].trimmed = arrived[e].trimmed + x.trim
  BY <1>1
<1> HIDE DEF n, x
<1>6. x.trim = 0
  BY <1>2, <1>3, <1>4
<1>7. arrived[e].seen + n + flying[e] - x.late - x.gone - x.trim = arrived[e].seen
  BY <1>2, <1>3, <1>4, <1>6
<1>8. arrived[e].trimmed + x.trim = arrived[e].trimmed
  BY <1>2, <1>6
<1>9. QED
  BY <1>5, <1>7, <1>8

\* None of e's packets arrives, so that only its absence can count against it.
\* The look before a call has found it in; so if a tick has taken it out since,
\* nothing has counted against it yet.
Silent(e) ==
    /\ arrived[e].seen = 0 /\ arrived[e].trimmed = 0
    /\ report # None => Hits(e) = 0
    /\ \A c \in calls : c.ev = e =>
          /\ c.absent
          /\ ~c.unchecked /\ state[e] = "ASSUMED_BAD" => lossStreak[e] = 0
    /\ state[e] = "ASSUMED_BAD" => lossStreak[e] <= 1

GateInv == OneCall /\ \A e \in Faulty : Silent(e)

LEMMA GateInit == FInit => GateInv
<1> SUFFICES ASSUME FInit PROVE GateInv
  OBVIOUS
<1>1. calls = {} /\ report = None
  BY Zenon DEF FInit
<1>2. \A e \in EV : arrived[e].seen = 0 /\ arrived[e].trimmed = 0 /\ lossStreak[e] = 0
  BY DEF FInit, Init, NothingSeen
<1>3. QED
  BY <1>1, <1>2, FusionAssumption DEF GateInv, OneCall, Silent

\* What a step leaves of a silent EV if it leaves what the receiver has alone.
LEMMA SilentTable ==
    ASSUME TypeOK, NEW e \in EV, Silent(e), UNCHANGED <<arrived, report, calls>>,
           \/ lossStreak'[e] = 0
           \/ state'[e] # "ASSUMED_BAD"
           \/ state'[e] = state[e] /\ lossStreak'[e] = lossStreak[e]
    PROVE  Silent(e)'
<1>1. 0 <= 1
  OBVIOUS
<1>2. QED
  BY <1>1, Zenon DEF Silent, Hits

LEMMA SilentProbe ==
    ASSUME TypeOK, ProbeStep, NEW e \in EV, Silent(e)
    PROVE  Silent(e)'
<1>1. UNCHANGED <<arrived, report, calls>>
  BY DEF ProbeStep, fvars
<1>2. ASSUME NEW f \in EV, RecordProbeSent(f) \/ RecordProbeRecv(f)
      PROVE  state' = state /\ lossStreak' = lossStreak
  BY <1>2 DEF RecordProbeSent, RecordProbeRecv, latches
<1>3. CASE TickBegin
  BY <1>1, <1>3, SilentTable DEF TickBegin, latches
<1>4. ASSUME NEW f \in EV, TickEV(f) PROVE Silent(e)'
  <2>1. CASE f = e
    <3>1. \/ lossStreak'[e] = 0
          \/ state'[e] = "GOOD"
          \/ state'[e] = state[e] /\ lossStreak'[e] = lossStreak[e]
      BY <1>4, <2>1, TickOwn
    <3>2. QED
      BY <1>1, <3>1, SilentTable
  <2>2. CASE f # e
    <3>1. state'[e] = state[e] /\ lossStreak'[e] = lossStreak[e]
      BY <1>4, <2>2, TickOthers
    <3>2. QED
      BY <1>1, <3>1, SilentTable
  <2>3. QED
    BY <2>1, <2>2
<1>5. ASSUME NEW f \in EV, RecordProbeSent(f) \/ RecordProbeRecv(f) PROVE Silent(e)'
  BY <1>1, <1>2, <1>5, SilentTable
<1>6. QED
  BY <1>3, <1>4, <1>5, Zenon DEF ProbeStep

LEMMA SilentStep ==
    ASSUME Blackhole, TypeOK, FTypes, OneCall, [FNext]_<<vars, fvars>>,
           NEW e \in Faulty, Silent(e)
    PROVE  Silent(e)'
<1>0. e \in EV
  BY FusionAssumption
<1>1. CASE Unit
  <2>1. report' = None /\ calls' = {} /\ UNCHANGED <<state, lossStreak>>
        /\ report = None
    BY <1>1 DEF Unit, vars, latches
  <2>2. arrived'[e].seen = 0 /\ arrived'[e].trimmed = 0
    BY <1>1, UnitSwallows DEF Silent
  <2>3. QED
    BY <2>1, <2>2 DEF Silent
<1>2. CASE RefreshWeights \/ RotateSent
  <2>1. UNCHANGED <<state, lossStreak, arrived, report, calls>>
    BY <1>2, Zenon DEF RefreshWeights, RotateSent, vars, latches
  <2>2. QED
    BY <2>1 DEF Silent, Hits
<1>3. CASE EmitReport
  <2>1. /\ UNCHANGED <<state, lossStreak, calls>>
        /\ arrived' = NothingSeen /\ (report' = arrived \/ report' = report)
    BY <1>3, Zenon DEF EmitReport, vars, latches
  <2>2. arrived'[e].seen = 0 /\ arrived'[e].trimmed = 0
    BY <1>0, <2>1 DEF NothingSeen
  <2>3. report' # None => Hits(e)' = 0
    BY <2>1 DEF Silent, Hits
  <2>4. QED
    BY <2>1, <2>2, <2>3 DEF Silent
<1>4. CASE ReceiveReport
  <2>1. UNCHANGED <<state, lossStreak, arrived>> /\ report' = None /\ report # None
    BY <1>4, Zenon DEF ReceiveReport, vars, latches
  <2>2. e \notin Reported
    BY <2>1 DEF Silent, Reported
  <2>3. ASSUME NEW c \in calls', c.ev = e PROVE c.absent /\ c.unchecked
    BY <1>4, <2>2, <2>3, NewCalls
  <2>4. QED
    BY <2>1, <2>3 DEF Silent
<1>5. CASE CheckAbsent
  <2>1. UNCHANGED <<state, lossStreak, arrived, report>>
    BY <1>5 DEF CheckAbsent, vars, latches
  <2>2. ASSUME NEW d \in calls', d.ev = e
        PROVE  d.absent /\ (~d.unchecked /\ state[e] = "ASSUMED_BAD" => lossStreak[e] = 0)
    <3>1. PICK c \in calls :
            \/ d \in calls
            \/ ~LeftAlone(c.ev) /\ d.ev = c.ev /\ d.absent = c.absent
      BY <1>5, CheckedCalls
    <3>2. CASE d \in calls
      BY <2>2, <3>2 DEF Silent
    <3>3. CASE ~LeftAlone(c.ev) /\ d.ev = c.ev /\ d.absent = c.absent
      BY <2>2, <3>3 DEF Silent, LeftAlone
    <3>4. QED
      BY <3>1, <3>2, <3>3
  <2>3. QED
    BY <2>1, <2>2 DEF Silent, Hits
<1>6. CASE ApplyCall
  <2>1. UNCHANGED <<arrived, report>>
    BY <1>6 DEF ApplyCall
  <2>2. PICK c \in calls : /\ c \in Calls /\ ~c.unchecked
                           /\ RecordLossWindow(c.ev, c.seen, c.sent)
                           /\ c.ev \in EV /\ calls' = calls \ {c}
    BY <1>6, MadeCall
  <2>3. CASE c.ev = e
    <3>1. state[e] = "ASSUMED_BAD" => lossStreak[e] = 0
      BY <2>2, <2>3 DEF Silent
    <3>2. /\ lossStreak'[e] <= lossStreak[e] + 1 /\ lossStreak'[e] \in Nat
          /\ state[e] # "ASSUMED_BAD" /\ state'[e] = "ASSUMED_BAD" => lossStreak'[e] = 0
      BY <1>0, <2>2, <2>3, CallCounts
    <3>3. state'[e] = "ASSUMED_BAD" => lossStreak'[e] <= 1
      BY <3>1, <3>2
    <3>4. \A d \in calls' : d.ev # e
      BY <2>2, <2>3, Zenon DEF OneCall
    <3>5. QED
      BY <2>1, <3>3, <3>4 DEF Silent, Hits
  <2>4. CASE c.ev # e
    <3>1. state'[e] = state[e] /\ lossStreak'[e] = lossStreak[e]
      BY <1>0, <2>2, <2>4, CallOthers
    <3>2. calls' \subseteq calls
      BY <2>2
    <3>3. QED
      BY <2>1, <3>1, <3>2 DEF Silent, Hits
  <2>5. QED
    BY <2>3, <2>4
<1>7. CASE ProbeStep
  BY <1>0, <1>7, SilentProbe
<1>8. CASE TransitionEnds
  <2>1. UNCHANGED <<arrived, report, calls, state, lossStreak>>
    BY <1>8 DEF TransitionEnds, RebuildWeights, fvars, latches
  <2>2. QED
    BY <1>0, <2>1, SilentTable
<1>9. CASE UNCHANGED <<vars, fvars>>
  BY <1>9 DEF Silent, Hits, vars, latches, fvars
<1>10. QED
  BY <1>1, <1>2, <1>3, <1>4, <1>5, <1>6, <1>7, <1>8, <1>9 DEF FNext, DataNext, DataStep

\* Where faulty paths swallow all of their data, at most one report ever counts
\* against an EV while it is out, for every load and however ticks, probes, looks
\* and calls interleave: the one call a tick may overtake between the look at the
\* state and the table's lock.
THEOREM AtMostOneReportLate == FSpec => []OneReportLate
<1>1. FTypes /\ SafetyInv => TypeOK
  BY DEF SafetyInv
<1>2. (Blackhole => GateInv) /\ FTypes /\ SafetyInv /\ [FNext]_<<vars, fvars>>
         => (Blackhole => GateInv)'
  BY <1>1, OneCallStep, SilentStep DEF GateInv
<1>3. (Blackhole => GateInv) => OneReportLate
  BY DEF GateInv, Silent, OneReportLate
<1>4. QED
  BY <1>2, <1>3, GateInit, FSafety, PTL DEF FSpec

-----------------------------------------------------------------------------
(***************************************************************************)
(* A path without faults                                                   *)
(*                                                                         *)
(* The argument counts packets.  What the receiver's window holds of such  *)
(* a path, with what is under way, is all that was sent since the window   *)
(* was cut; so if none of its units was rough it is at least the lightest  *)
(* calm load for each of them.  What a closed window of the sender's holds *)
(* is at most the heaviest calm load for each of its units, if none was    *)
(* rough.  The receiver's first window may be short, but the sender has    *)
(* closed none by then to pair it with.  So a report with no rough window  *)
(* is clean, and the loss streak never outgrows the rough reports since.   *)
(***************************************************************************)

\* The units in the sender's current window, and in the receiver's.
Filled == IF dueSent THEN Window ELSE unit

Since ==
    IF dueReport THEN Window
    ELSE IF unit >= Phase THEN unit - Phase ELSE unit + Window - Phase

\* The receiver's current window is not the short one it starts with, as far as
\* the sender's ring goes.
Started == ring # <<>> \/ dueSent \/ unit > Phase \/ (unit = Phase /\ ~dueReport)

InHand(e) == arrived[e].seen + arrived[e].trimmed + flying[e]

\* So many arrivals are clean beside any window of loads up to h.
Enough(h, n) == (200 - LossPct) * (h * Window) <= 200 * n

RTypes ==
    /\ roughSent \in SUBSET EV /\ roughArrived \in SUBSET EV
    /\ roughReport \in SUBSET EV /\ roughCalls \in SUBSET EV
    /\ roughRing \in Seq(SUBSET EV) /\ Len(roughRing) = Len(ring)
    /\ roughRun \in [EV -> 0..LossDemoteConsecutive]

SentBound(e, h) ==
    /\ e \notin roughSent => sentNow[e] <= h * Filled
    /\ \A i \in DOMAIN ring : e \notin roughRing[i] => ring[i].sent[e] <= h * Window

SeenBound(e, l) ==
    /\ flying[e] <= MaxLate
    /\ Started /\ e \notin roughArrived => InHand(e) >= l * Since

FairReport(e, h) ==
    report # None /\ e \notin roughReport =>
        Enough(h, Hits(e)) \/ (ring = <<>> /\ ~dueSent)

FairCalls(e) ==
    e \notin roughCalls =>
        \A c \in calls : c.ev = e => (200 - LossPct) * c.sent <= 200 * c.seen

Counted(e) == lossStreak[e] <= roughRun[e]

Sound(e, l, h) ==
    /\ Counted(e)
    /\ SentBound(e, h)
    /\ SeenBound(e, l)
    /\ FairReport(e, h)
    /\ FairCalls(e)

\* What CalmAssumption says of one EV.
Near(l, h) ==
    /\ l \in Nat /\ h \in Nat
    /\ (200 - LossPct) * (h * Window) + 200 * MaxLate <= 200 * (l * Window)

LEMMA RTypesInit == BInit => RTypes
<1> SUFFICES ASSUME BInit PROVE RTypes
  OBVIOUS
<1>1. ring = <<>> /\ roughRing = <<>>
  BY Zenon DEF BInit, FInit
<1>2. roughRun \in [EV -> 0..LossDemoteConsecutive]
  BY TunableAssumption DEF BInit
<1>3. QED
  BY <1>1, <1>2 DEF BInit, RTypes

\* Every step of BNext is one of the loss path, with what it does to the history.
LEMMA BNextCases ==
    ASSUME [BNext]_bvars
    PROVE  [FNext]_<<vars, fvars>>
  BY DEF BNext, BUnit, BRotateSent, BEmitReport, BReceiveReport, BApplyCall, BOther,
         FNext, DataNext, DataStep, bvars

LEMMA RTypesStep ==
    ASSUME FTypes, RTypes, [BNext]_bvars
    PROVE  RTypes'
<1>0. /\ ring \in Seq(Windows) /\ sentNow \in [EV -> Nat]
      /\ roughSent \in SUBSET EV /\ roughArrived \in SUBSET EV
      /\ roughReport \in SUBSET EV /\ roughCalls \in SUBSET EV
      /\ roughRing \in Seq(SUBSET EV) /\ Len(roughRing) = Len(ring)
      /\ roughRun \in [EV -> 0..LossDemoteConsecutive]
  BY DEF FTypes, RTypes
<1>1. CASE BUnit
  <2>1. /\ roughSent' \in SUBSET EV /\ roughArrived' \in SUBSET EV
        /\ UNCHANGED <<roughRing, roughReport, roughCalls, roughRun>>
    BY <1>0, <1>1 DEF BUnit, RoughUnit
  <2>2. DOMAIN ring' = DOMAIN ring /\ ring' \in Seq(Windows)
    BY <1>1, UnitRing DEF BUnit
  <2>3. Len(ring') = Len(ring)
    BY <1>0, <2>2
  <2>4. QED
    BY <1>0, <2>1, <2>3 DEF RTypes
<1>2. CASE BRotateSent
  <2>1. /\ roughSent' \in SUBSET EV
        /\ UNCHANGED <<roughArrived, roughReport, roughCalls, roughRun>>
    BY <1>0, <1>2 DEF BRotateSent
  <2>2. roughRing' \in Seq(SUBSET EV) /\ Len(roughRing') = Len(ring')
    <3>1. CASE sentNow = Zero
      BY <1>0, <1>2, <3>1 DEF BRotateSent, RotateSent
    <3>2. CASE sentNow # Zero
      <4> DEFINE w == [sent |-> sentNow, age |-> 0]
      <4>1. w \in Windows
        BY <1>0 DEF Windows
      <4>2. ring' = Pushed(ring, w) /\ roughRing' = Pushed(roughRing, roughSent)
        BY <1>2, <3>2 DEF BRotateSent, RotateSent
      <4> HIDE DEF w
      <4>3. /\ ring' \in Seq(Windows) /\ roughRing' \in Seq(SUBSET EV)
            /\ DOMAIN ring' = DOMAIN roughRing'
        <5>1. Pushed(ring, w) \in Seq(Windows) /\ MovedUp(Pushed(ring, w), ring, w)
          BY <1>0, <4>1, PushedRing
        <5> DEFINE S == SUBSET EV
        <5>2. roughRing \in Seq(S) /\ roughSent \in S
          BY <1>0
        <5> HIDE DEF S
        <5>3. /\ Pushed(roughRing, roughSent) \in Seq(S)
              /\ MovedUp(Pushed(roughRing, roughSent), roughRing, roughSent)
          BY <5>2, PushedRing
        <5>4. roughRing' \in Seq(SUBSET EV)
          BY <4>2, <5>3 DEF S
        <5>5. QED
          BY <1>0, <4>2, <5>1, <5>3, <5>4 DEF MovedUp
      <4>4. QED
        BY <4>3
    <3>3. QED
      BY <3>1, <3>2
  <2>3. QED
    BY <1>0, <2>1, <2>2 DEF RTypes
<1>3. CASE BEmitReport
  <2>1. /\ roughArrived' \in SUBSET EV /\ roughReport' \in SUBSET EV
        /\ UNCHANGED <<ring, roughSent, roughRing, roughCalls, roughRun>>
    BY <1>0, <1>3 DEF BEmitReport, EmitReport
  <2>2. QED
    BY <1>0, <2>1 DEF RTypes
<1>4. CASE BReceiveReport
  <2>1. UNCHANGED <<ring, roughSent, roughRing, roughArrived, roughReport, roughRun>>
    BY <1>4 DEF BReceiveReport, ReceiveReport
  <2>2. Candidates # {} => roughRing[Closest] \in SUBSET EV
    <3>1. Candidates # {} => Closest \in DOMAIN ring
      BY ClosestIn
    <3>2. DOMAIN ring = DOMAIN roughRing
      BY <1>0
    <3>3. \A i \in DOMAIN roughRing : roughRing[i] \in SUBSET EV
      BY <1>0
    <3>4. QED
      BY <3>1, <3>2, <3>3
  <2>3. roughCalls' \in SUBSET EV
    BY <1>0, <1>4, <2>2 DEF BReceiveReport
  <2>4. QED
    BY <1>0, <2>1, <2>3 DEF RTypes
<1>5. CASE BApplyCall
  <2>1. UNCHANGED <<ring, roughSent, roughRing, roughArrived, roughReport, roughCalls>>
    BY <1>5 DEF BApplyCall, ApplyCall
  <2>2. roughRun' \in [EV -> 0..LossDemoteConsecutive]
    <3>1. LossDemoteConsecutive \in Nat
      BY TunableAssumption
    <3>2. \A e \in EV : SmallerOf(roughRun[e] + 1, LossDemoteConsecutive)
                            \in 0..LossDemoteConsecutive
      BY <1>0, <3>1 DEF SmallerOf
    <3>3. QED
      BY <1>0, <1>5, <3>1, <3>2 DEF BApplyCall
  <2>3. QED
    BY <1>0, <2>1, <2>2 DEF RTypes
<1>6. CASE BOther \/ UNCHANGED bvars
  <2>1. UNCHANGED <<ring, rough>>
    BY <1>6 DEF BOther, RefreshWeights, CheckAbsent, TransitionEnds, bvars, fvars
  <2>2. QED
    BY <1>0, <2>1 DEF RTypes, rough
<1>7. QED
  BY <1>1, <1>2, <1>3, <1>4, <1>5, <1>6 DEF BNext

LEMMA SoundInit ==
    ASSUME BInit, NEW e \in EV, NEW l, NEW h, Near(l, h)
    PROVE  Sound(e, l, h)
<1>1. /\ unit = 0 /\ dueSent = FALSE /\ dueReport = FALSE
      /\ ring = <<>> /\ report = None /\ calls = {}
  BY Zenon DEF BInit, FInit
<1>2. /\ lossStreak[e] = 0 /\ roughRun[e] = 0
      /\ sentNow[e] = 0 /\ flying[e] = 0
      /\ arrived[e].seen = 0 /\ arrived[e].trimmed = 0
  BY DEF BInit, FInit, Init, Zero, NothingSeen
<1>3. Phase \in Nat /\ MaxLate \in Nat /\ l \in Nat /\ h \in Nat
  BY FusionAssumption DEF Near
<1>4. Filled = 0 /\ (Started => Since = 0)
  BY <1>1, <1>3 DEF Filled, Started, Since
<1>5. h * 0 = 0 /\ l * 0 = 0
  BY <1>3
<1>6. SentBound(e, h)
  BY <1>1, <1>2, <1>4, <1>5 DEF SentBound
<1>7. SeenBound(e, l)
  BY <1>2, <1>3, <1>4, <1>5 DEF SeenBound, InHand
<1>8. QED
  BY <1>1, <1>2, <1>6, <1>7 DEF Sound, Counted, FairReport, FairCalls

\* How far a unit moves the two windows.
LEMMA UnitSpans ==
    ASSUME FTypes, Unit
    PROVE  /\ Filled \in Nat /\ Filled' = Filled + 1
           /\ Since \in Nat /\ Since' = Since + 1
           /\ Started' => Started
<1>1. /\ unit \in 0..Window - 1 /\ dueSent \in BOOLEAN /\ dueReport \in BOOLEAN
      /\ Window \in Nat /\ Phase \in 0..Window - 1
  BY FusionAssumption DEF FTypes, Clock
<1>2. /\ ~dueSent /\ ~dueReport
      /\ unit' = IF unit = Window - 1 THEN 0 ELSE unit + 1
  BY UnitClock DEF Unit, FTypes
<1>3. (dueSent' <=> unit' = 0) /\ (dueReport' <=> unit' = Phase)
  BY DEF Unit
<1>4. ring' # <<>> => ring # <<>>
  BY UnitRing DEF FTypes
<1>5. Filled \in Nat /\ Filled' = Filled + 1
  BY <1>1, <1>2, <1>3 DEF Filled
<1>6. Since \in Nat /\ Since' = Since + 1
  BY <1>1, <1>2, <1>3 DEF Since
<1>7. Started' => Started
  BY <1>1, <1>2, <1>3, <1>4 DEF Started
<1>8. QED
  BY <1>5, <1>6, <1>7

LEMMA SoundUnit ==
    ASSUME FTypes, RTypes, BUnit, NEW e \in EV \ Faulty, NEW l, NEW h, Near(l, h),
           l = CalmLow[e], h = CalmHigh[e], Sound(e, l, h)
    PROVE  Sound(e, l, h)'
<1>0. Unit
  BY DEF BUnit
<1>a. PICK load \in Loads :
        Offered(load) \in [EV -> Nat] /\ \E o : \A d \in EV : UnitAt(load, o, d)
  BY <1>0, UnitCases
<1>1. PICK o :
        /\ Offered(load) \in [EV -> Nat]
        /\ o[e] \in Outcomes(e, Offered(load)[e])
        /\ sentNow'[e] = sentNow[e] + Offered(load)[e]
        /\ flying'[e] = o[e].late
        /\ arrived'[e].seen = arrived[e].seen + Offered(load)[e] + flying[e]
                              - o[e].late - o[e].gone - o[e].trim
        /\ arrived'[e].trimmed = arrived[e].trimmed + o[e].trim
  BY <1>a DEF UnitAt
<1> DEFINE n == Offered(load)[e]
           x == o[e]
<1>2. n \in Nat
  BY <1>1
<1>3. /\ l \in Nat /\ h \in Nat /\ MaxLate \in Nat
      /\ sentNow[e] \in Nat /\ flying[e] \in Nat
      /\ arrived[e].seen \in Nat /\ arrived[e].trimmed \in Nat
  BY FusionAssumption DEF Near, FTypes, Counts
<1>4. /\ x.late \in Nat /\ x.gone \in Nat /\ x.trim \in Nat
      /\ x.late <= SmallerOf(n, MaxLate) /\ x.gone \in Losses(e, n + flying[e] - x.late)
  BY <1>1, <1>2, OutcomeBounds
<1>5. x.gone = 0
  BY <1>4 DEF Losses
<1>6. /\ sentNow'[e] = sentNow[e] + n /\ flying'[e] = x.late
      /\ InHand(e)' = InHand(e) + n /\ InHand(e) \in Nat
  <2>1. /\ arrived'[e].seen = arrived[e].seen + n + flying[e] - x.late - x.gone - x.trim
        /\ arrived'[e].trimmed = arrived[e].trimmed + x.trim
        /\ sentNow'[e] = sentNow[e] + n /\ flying'[e] = x.late
    BY <1>1
  <2> HIDE DEF n, x
  <2>2. QED
    BY <1>2, <1>3, <1>4, <1>5, <2>1 DEF InHand
<1>7. /\ Filled \in Nat /\ Filled' = Filled + 1
      /\ Since \in Nat /\ Since' = Since + 1
      /\ Started' => Started
  BY <1>0, UnitSpans
<1>8. e \in RoughUnit \/ (l <= n /\ n <= h)
  <2> HIDE DEF n, x
  <2>1. sentNow'[e] - sentNow[e] = n
    BY <1>2, <1>3, <1>6
  <2>2. n \in CalmLow[e]..CalmHigh[e] => l <= n /\ n <= h
    BY <1>2, <1>3
  <2>3. QED
    BY <2>1, <2>2 DEF RoughUnit
<1>9. /\ roughSent' = roughSent \cup RoughUnit
      /\ roughArrived' = roughArrived \cup RoughUnit
      /\ UNCHANGED <<roughRing, roughReport, roughCalls, roughRun>>
  BY DEF BUnit
<1> HIDE DEF n, x
<1>10. SentBound(e, h)'
  <2>1. e \notin roughSent => sentNow[e] <= h * Filled
    BY DEF Sound, SentBound
  <2>2. h * (Filled + 1) = h * Filled + h /\ h * Filled \in Nat
    BY <1>3, <1>7, MulSucc
  <2>3. e \notin roughSent' => sentNow'[e] <= h * Filled'
    BY <1>2, <1>3, <1>6, <1>7, <1>8, <1>9, <2>1, <2>2
  <2>4. \A i \in DOMAIN ring' : e \notin roughRing'[i] => ring'[i].sent[e] <= h * Window
    BY <1>0, <1>9, UnitRing DEF Sound, SentBound
  <2>5. QED
    BY <2>3, <2>4 DEF SentBound
<1>11. SeenBound(e, l)'
  <2>1. flying'[e] <= MaxLate
    BY <1>2, <1>3, <1>4, <1>6 DEF SmallerOf
  <2>2. l * (Since + 1) = l * Since + l /\ l * Since \in Nat
    BY <1>3, <1>7, MulSucc
  <2>3. Started' /\ e \notin roughArrived' => InHand(e)' >= l * Since'
    <3>1. Started /\ e \notin roughArrived => InHand(e) >= l * Since
      BY DEF Sound, SeenBound
    <3>2. QED
      BY <1>2, <1>3, <1>6, <1>7, <1>8, <1>9, <2>2, <3>1
  <2>4. QED
    BY <2>1, <2>3 DEF SeenBound
<1>12. report' = None /\ calls' = {} /\ UNCHANGED <<lossStreak, roughRun>>
  BY <1>0, <1>9 DEF Unit, vars, latches
<1>13. QED
  BY <1>10, <1>11, <1>12 DEF Sound, Counted, FairReport, FairCalls

\* What the sender and the receiver know of e does not change.
LEMMA SoundFrame ==
    ASSUME NEW e \in EV, NEW l, NEW h, Sound(e, l, h),
           UNCHANGED <<clock, sentNow, ring, flying, arrived,
                       roughSent, roughRing, roughArrived>>
    PROVE  SentBound(e, h)' /\ SeenBound(e, l)'
<1>1. UNCHANGED <<Filled, Since, Started>>
  BY DEF Filled, Since, Started, clock
<1>2. UNCHANGED <<sentNow, ring, flying, arrived, roughSent, roughRing, roughArrived>>
  OBVIOUS
<1>3. QED
  BY <1>1, <1>2 DEF Sound, SentBound, SeenBound, InHand

LEMMA SoundRotate ==
    ASSUME FTypes, RTypes, BRotateSent, NEW e \in EV, NEW l, NEW h,
           Near(l, h), Sound(e, l, h)
    PROVE  Sound(e, l, h)'
<1>0. RotateSent
  BY DEF BRotateSent
<1>1. /\ UNCHANGED <<unit, dueReport, sprayed, flying, arrived, report, calls>>
      /\ UNCHANGED <<lossStreak, roughArrived, roughReport, roughCalls, roughRun>>
      /\ dueSent /\ dueSent' = FALSE /\ sentNow' = Zero
  BY <1>0, Zenon DEF BRotateSent, RotateSent, vars, latches
<1>2. unit = 0 /\ h \in Nat /\ sentNow[e] \in Nat
  BY <1>1 DEF FTypes, Clock, Near
<1>3. SentBound(e, h)'
  <2>1. e \notin roughSent => sentNow[e] <= h * Window
    BY <1>1 DEF Sound, SentBound, Filled
  <2>2. sentNow'[e] = 0 /\ Filled' = 0 /\ h * 0 = 0
    BY <1>1, <1>2 DEF Zero, Filled
  <2>3. \A i \in DOMAIN ring : e \notin roughRing[i] => ring[i].sent[e] <= h * Window
    BY DEF Sound, SentBound
  <2>4. \A i \in DOMAIN ring' : e \notin roughRing'[i] => ring'[i].sent[e] <= h * Window
    <3>1. CASE sentNow = Zero
      <4>1. ring' = ring /\ roughRing' = roughRing
        BY <1>0, <3>1 DEF BRotateSent, RotateSent
      <4>2. QED
        BY <2>3, <4>1
    <3>2. CASE sentNow # Zero
      <4> DEFINE w == [sent |-> sentNow, age |-> 0]
                 S == SUBSET EV
                 n == Len(ring)
      <4>1. /\ w \in Windows /\ w.sent = sentNow /\ ring \in Seq(Windows)
            /\ roughRing \in Seq(S) /\ roughSent \in S
            /\ Len(roughRing) = n /\ Len(ring) = n /\ n \in Nat /\ DOMAIN ring = 1..n
        BY DEF FTypes, RTypes, Windows
      <4>2. ring' = Pushed(ring, w) /\ roughRing' = Pushed(roughRing, roughSent)
        BY <1>0, <3>2 DEF BRotateSent, RotateSent
      <4> HIDE DEF w, S, n
      <4>3. /\ DOMAIN ring' = IF n + 1 > RingCapacity THEN 1..n ELSE 1..n + 1
            /\ \A i \in DOMAIN ring' :
                  ring'[i] = IF n + 1 > RingCapacity
                             THEN IF i = n THEN w ELSE ring[i + 1]
                             ELSE IF i = n + 1 THEN w ELSE ring[i]
        <5>1. MovedUp(Pushed(ring, w), ring, w)
          BY <4>1, PushedRing
        <5>2. QED
          BY <4>1, <4>2, <5>1, Zenon DEF MovedUp
      <4>4. /\ DOMAIN roughRing' = DOMAIN ring'
            /\ \A i \in DOMAIN ring' :
                  roughRing'[i] = IF n + 1 > RingCapacity
                                  THEN IF i = n THEN roughSent ELSE roughRing[i + 1]
                                  ELSE IF i = n + 1 THEN roughSent ELSE roughRing[i]
        <5>1. /\ DOMAIN roughRing' = IF n + 1 > RingCapacity THEN 1..n ELSE 1..n + 1
              /\ \A i \in DOMAIN roughRing' :
                  roughRing'[i] = IF n + 1 > RingCapacity
                                  THEN IF i = n THEN roughSent ELSE roughRing[i + 1]
                                  ELSE IF i = n + 1 THEN roughSent ELSE roughRing[i]
          <6>1. MovedUp(Pushed(roughRing, roughSent), roughRing, roughSent)
            BY <4>1, PushedRing
          <6>2. QED
            BY <4>1, <4>2, <6>1, Zenon DEF MovedUp
        <5>2. QED
          BY <4>3, <5>1
      <4>5. ASSUME NEW i \in DOMAIN ring', e \notin roughRing'[i]
            PROVE  ring'[i].sent[e] <= h * Window
        <5>1. \/ ring'[i] = w /\ roughRing'[i] = roughSent
              \/ \E j \in 1..n : ring'[i] = ring[j] /\ roughRing'[i] = roughRing[j]
          <6>1. CASE n + 1 > RingCapacity
            <7>1. i \in 1..n /\ (i = n \/ i + 1 \in 1..n)
              BY <4>1, <4>3, <6>1
            <7>2. QED
              BY <4>3, <4>4, <6>1, <7>1
          <6>2. CASE ~(n + 1 > RingCapacity)
            <7>1. i = n + 1 \/ i \in 1..n
              BY <4>1, <4>3, <6>2
            <7>2. QED
              BY <4>3, <4>4, <6>2, <7>1
          <6>3. QED
            BY <6>1, <6>2
        <5>2. CASE ring'[i] = w /\ roughRing'[i] = roughSent
          BY <2>1, <4>1, <4>5, <5>2
        <5>3. CASE \E j \in 1..n : ring'[i] = ring[j] /\ roughRing'[i] = roughRing[j]
          BY <2>3, <4>1, <4>5, <5>3
        <5>4. QED
          BY <5>1, <5>2, <5>3
      <4>6. QED
        BY <4>5
    <3>3. QED
      BY <3>1, <3>2
  <2>5. QED
    BY <2>2, <2>4 DEF SentBound
<1>4. SeenBound(e, l)'
  BY <1>0, <1>1, RotateRing DEF Sound, SeenBound, Started, Since, InHand
<1>5. FairReport(e, h)'
  BY <1>1 DEF Sound, FairReport, Enough, Hits
<1>6. Counted(e)' /\ FairCalls(e)'
  BY <1>1 DEF Sound, Counted, FairCalls
<1>7. QED
  BY <1>3, <1>4, <1>5, <1>6 DEF Sound

LEMMA SoundEmit ==
    ASSUME FTypes, BEmitReport, NEW e \in EV, NEW l, NEW h,
           Near(l, h), Sound(e, l, h)
    PROVE  Sound(e, l, h)'
<1>1. /\ UNCHANGED <<unit, dueSent, sprayed, sentNow, ring, flying, calls>>
      /\ UNCHANGED <<lossStreak, roughSent, roughRing, roughCalls, roughRun>>
      /\ dueReport /\ dueReport' = FALSE /\ arrived' = NothingSeen
      /\ report' = arrived \/ report' = report
      /\ roughArrived' = {}
      /\ roughReport' = IF report' = report THEN roughReport ELSE roughArrived
  BY Zenon DEF BEmitReport, EmitReport, vars, latches
<1>2. /\ unit = Phase /\ Phase \in Nat /\ Window \in Nat /\ LossPct \in 0..100
      /\ l \in Nat /\ h \in Nat /\ flying[e] \in Nat /\ MaxLate \in Nat
      /\ arrived[e].seen \in Nat /\ arrived[e].trimmed \in Nat
  BY <1>1, FusionAssumption, TunableAssumption DEF FTypes, Clock, Near, Counts
<1>3. Since = Window /\ Since' = 0
  BY <1>1, <1>2 DEF Since
<1>4. SentBound(e, h)'
  BY <1>1 DEF Sound, SentBound, Filled
<1>5. SeenBound(e, l)'
  <2>1. InHand(e)' = flying[e]
    BY <1>1, <1>2 DEF InHand, NothingSeen
  <2>2. l * 0 = 0
    BY <1>2
  <2>3. InHand(e)' >= l * Since'
    BY <1>2, <1>3, <2>1, <2>2
  <2>4. flying'[e] <= MaxLate
    BY <1>1 DEF Sound, SeenBound
  <2>5. QED
    BY <2>3, <2>4 DEF SeenBound
<1>6. FairReport(e, h)'
  <2>1. CASE report' = report
    BY <1>1, <2>1 DEF Sound, FairReport, Enough, Hits
  <2>2. CASE report' = arrived /\ report' # report
    <3>0. roughReport' = roughArrived
      BY <1>1, <2>2
    <3>1. Hits(e)' = arrived[e].seen + arrived[e].trimmed
      BY <2>2 DEF Hits
    <3>2. CASE Started /\ e \notin roughArrived
      <4> DEFINE p == (200 - LossPct) * (h * Window)
                 q == l * Window
      <4>1. /\ p \in Nat /\ q \in Nat
            /\ p + 200 * MaxLate <= 200 * q
        BY <1>2 DEF Near
      <4>2. /\ InHand(e) >= q
            /\ flying[e] <= MaxLate
        BY <1>3, <3>2 DEF Sound, SeenBound
      <4>3. InHand(e) = Hits(e)' + flying[e] /\ Hits(e)' \in Nat
        BY <1>2, <3>1 DEF InHand
      <4> HIDE DEF p, q
      <4>4. p <= 200 * Hits(e)'
        BY <1>2, <4>1, <4>2, <4>3
      <4>5. QED
        BY <4>4 DEF p, FairReport, Enough
    <3>3. CASE ~Started
      <4>1. ring = <<>> /\ ~dueSent
        BY <3>3 DEF Started
      <4>2. QED
        BY <1>1, <4>1, Zenon DEF FairReport
    <3>4. CASE e \in roughArrived
      BY <3>0, <3>4 DEF FairReport
    <3>5. QED
      BY <3>2, <3>3, <3>4
  <2>3. QED
    BY <1>1, <2>1, <2>2
<1>7. Counted(e)' /\ FairCalls(e)'
  BY <1>1 DEF Sound, Counted, FairCalls
<1>8. QED
  BY <1>4, <1>5, <1>6, <1>7 DEF Sound

LEMMA SoundReceive ==
    ASSUME FTypes, BReceiveReport, NEW e \in EV, NEW l, NEW h,
           Near(l, h), Sound(e, l, h)
    PROVE  Sound(e, l, h)'
<1>1. /\ ReceiveReport
      /\ UNCHANGED <<clock, sentNow, ring, flying, arrived>>
      /\ UNCHANGED <<lossStreak, roughSent, roughRing, roughArrived, roughRun>>
      /\ report # None /\ report' = None
  BY Zenon DEF BReceiveReport, ReceiveReport, vars, latches
<1>2. Counted(e)' /\ FairReport(e, h)'
  BY <1>1 DEF Sound, Counted, FairReport
<1>3. ASSUME e \notin roughCalls', NEW c \in calls', c.ev = e
      PROVE  (200 - LossPct) * c.sent <= 200 * c.seen
  <2>1. /\ c \in Calls /\ Hits(e) \in Nat /\ c.seen = Hits(e)
        /\ Candidates # {} /\ Closest \in DOMAIN ring
        /\ c.sent = ring[Closest].sent[e]
    BY <1>1, <1>3, NewCalls
  <2>2. e \notin roughReport /\ e \notin roughRing[Closest]
    BY <1>3, <2>1 DEF BReceiveReport
  <2>3. ring # <<>>
    BY <2>1
  <2>4. Enough(h, Hits(e))
    BY <1>1, <2>2, <2>3 DEF Sound, FairReport
  <2>5. c.sent <= h * Window /\ c.sent \in Nat
    BY <2>1, <2>2 DEF Sound, SentBound, Calls
  <2>6. h * Window \in Nat
    BY FusionAssumption DEF Near
  <2>7. QED
    BY <2>1, <2>4, <2>5, <2>6, CleanForLess DEF Enough
<1>4. FairCalls(e)'
  BY <1>3 DEF FairCalls
<1>5. QED
  BY <1>1, <1>2, <1>4, SoundFrame DEF Sound

\* The one call that a step makes, and what the history keeps of it.
LEMMA CallHistory ==
    ASSUME TypeOK, FTypes, RTypes, BApplyCall
    PROVE  \E c \in calls :
             /\ RecordLossWindow(c.ev, c.seen, c.sent)
             /\ c.ev \in EV /\ c.seen \in Nat /\ c.sent \in Nat
             /\ calls' = calls \ {c}
             /\ \A e \in EV : roughRun'[e] =
                   IF e # c.ev THEN roughRun[e]
                   ELSE IF e \in roughCalls
                   THEN SmallerOf(roughRun[e] + 1, LossDemoteConsecutive)
                   ELSE 0
<1>1. PICK c \in calls :
        /\ RecordLossWindow(c.ev, c.seen, c.sent)
        /\ c.ev \in EV /\ c.seen \in Nat /\ c.sent \in Nat
        /\ calls' = calls \ {c}
  BY MadeCall DEF BApplyCall
<1>2. calls \ calls' = {c}
  BY <1>1
<1>3. \A e \in EV : CallMade(e) <=> e = c.ev
  BY <1>2 DEF CallMade
<1>4. \A e \in EV : roughRun'[e] =
        IF ~CallMade(e) THEN roughRun[e]
        ELSE IF e \in roughCalls
        THEN SmallerOf(roughRun[e] + 1, LossDemoteConsecutive)
        ELSE 0
  BY DEF BApplyCall
<1>5. \A e \in EV : roughRun'[e] =
        IF e # c.ev THEN roughRun[e]
        ELSE IF e \in roughCalls
        THEN SmallerOf(roughRun[e] + 1, LossDemoteConsecutive)
        ELSE 0
  BY <1>3, <1>4
<1>6. QED
  BY <1>1, <1>5

\* A call never lets the streak outgrow the rough reports, and takes its EV out
\* only when they are enough.
LEMMA CallSound ==
    ASSUME TypeOK, FTypes, RTypes, BApplyCall, NEW e \in EV,
           Counted(e), FairCalls(e)
    PROVE  /\ Counted(e)' /\ FairCalls(e)'
           /\ state[e] # "ASSUMED_BAD" /\ state'[e] = "ASSUMED_BAD"
                 => roughRun'[e] = LossDemoteConsecutive
<1>1. PICK c \in calls :
        /\ RecordLossWindow(c.ev, c.seen, c.sent)
        /\ c.ev \in EV /\ c.seen \in Nat /\ c.sent \in Nat
        /\ calls' = calls \ {c}
        /\ \A d \in EV : roughRun'[d] =
              IF d # c.ev THEN roughRun[d]
              ELSE IF d \in roughCalls
              THEN SmallerOf(roughRun[d] + 1, LossDemoteConsecutive)
              ELSE 0
  BY CallHistory
<1>2. roughCalls' = roughCalls
  BY DEF BApplyCall
<1>3. FairCalls(e)'
  BY <1>1, <1>2 DEF FairCalls
<1>4. /\ LossDemoteConsecutive \in Nat /\ lossStreak[e] \in 0..LossDemoteConsecutive
      /\ roughRun[e] \in 0..LossDemoteConsecutive
  BY TunableAssumption DEF TypeOK, RTypes
<1>5. CASE c.ev # e
  <2>1. state'[e] = state[e] /\ lossStreak'[e] = lossStreak[e]
    BY <1>1, <1>5, CallOthers
  <2>2. QED
    BY <1>1, <1>3, <1>5, <2>1 DEF Counted
<1>6. CASE c.ev = e /\ e \notin roughCalls
  <2>1. (200 - LossPct) * c.sent <= 200 * c.seen
    BY <1>6 DEF FairCalls
  <2>2. state'[e] = state[e] /\ lossStreak'[e] = 0
    BY <1>1, <1>6, <2>1, CallClean
  <2>3. roughRun'[e] = 0
    BY <1>1, <1>6
  <2>4. QED
    BY <1>3, <2>2, <2>3 DEF Counted
<1>7. CASE c.ev = e /\ e \in roughCalls
  <2>1. roughRun'[e] = SmallerOf(roughRun[e] + 1, LossDemoteConsecutive)
    BY <1>1, <1>7
  <2>2. /\ lossStreak'[e] <= lossStreak[e] + 1 /\ lossStreak'[e] \in Nat
        /\ state[e] # "ASSUMED_BAD" /\ state'[e] = "ASSUMED_BAD" =>
             lossStreak[e] + 1 >= LossDemoteConsecutive
    BY <1>1, <1>7, CallCounts
  <2>3. lossStreak'[e] <= LossDemoteConsecutive
    <3>1. TypeOK'
      BY <1>1, TypeStep DEF AnyLoss
    <3>2. QED
      BY <1>4, <3>1 DEF TypeOK
  <2>4. QED
    BY <1>3, <1>4, <2>1, <2>2, <2>3 DEF Counted, SmallerOf
<1>8. QED
  BY <1>5, <1>6, <1>7

LEMMA SoundApply ==
    ASSUME TypeOK, FTypes, RTypes, BApplyCall, NEW e \in EV, NEW l, NEW h,
           Sound(e, l, h)
    PROVE  Sound(e, l, h)'
<1>1. /\ UNCHANGED <<clock, sentNow, ring, flying, arrived>>
      /\ UNCHANGED <<roughSent, roughRing, roughArrived, roughReport>>
      /\ UNCHANGED <<ring, dueSent, report>>
  BY DEF BApplyCall, ApplyCall, clock
<1>2. FairReport(e, h)'
  BY <1>1 DEF Sound, FairReport, Enough, Hits
<1>3. Counted(e)' /\ FairCalls(e)'
  BY CallSound DEF Sound
<1>4. QED
  BY <1>1, <1>2, <1>3, SoundFrame DEF Sound

LEMMA SoundOther ==
    ASSUME FTypes, BOther \/ UNCHANGED bvars, NEW e \in EV, NEW l, NEW h,
           Sound(e, l, h)
    PROVE  Sound(e, l, h)'
<1>1. /\ UNCHANGED <<clock, sentNow, ring, flying, arrived>>
      /\ UNCHANGED <<lossStreak, ring, dueSent, report>>
      /\ UNCHANGED <<roughSent, roughRing, roughArrived, roughReport, roughCalls, roughRun>>
  BY DEF BOther, RefreshWeights, CheckAbsent, TransitionEnds, RebuildWeights,
         bvars, fvars, vars, latches, clock, rough
<1>2. Counted(e)' /\ FairReport(e, h)'
  BY <1>1 DEF Sound, Counted, FairReport, Enough, Hits
<1>3. FairCalls(e)'
  <2>1. CASE CheckAbsent
    BY <1>1, <2>1, CheckedCalls DEF Sound, FairCalls
  <2>2. CASE UNCHANGED calls
    BY <1>1, <2>2 DEF Sound, FairCalls
  <2>3. CheckAbsent \/ UNCHANGED calls
    BY DEF BOther, RefreshWeights, TransitionEnds, bvars, fvars
  <2>4. QED
    BY <2>1, <2>2, <2>3
<1>4. QED
  BY <1>1, <1>2, <1>3, SoundFrame DEF Sound

\* Every path without faults, and what its argument rests on.
SoundInv ==
    /\ FTypes /\ RTypes /\ SafetyInv
    /\ \A e \in EV \ Faulty : Sound(e, CalmLow[e], CalmHigh[e])

LEMMA CalmNear == \A e \in EV : Near(CalmLow[e], CalmHigh[e])
  BY CalmAssumption DEF Near

LEMMA SoundInvInit == BInit => SoundInv
<1> SUFFICES ASSUME BInit PROVE SoundInv
  OBVIOUS
<1>1. FInit
  BY DEF BInit
<1>2. SafetyInv
  BY <1>1, InitType, InitFloor, InitCache DEF FInit, SafetyInv
<1>3. QED
  BY <1>1, <1>2, FTypesInit, RTypesInit, SoundInit, CalmNear DEF SoundInv

LEMMA SoundInvStep == SoundInv /\ [BNext]_bvars => SoundInv'
<1> SUFFICES ASSUME SoundInv, [BNext]_bvars PROVE SoundInv'
  OBVIOUS
<1>1. FTypes /\ RTypes /\ SafetyInv /\ TypeOK
  BY DEF SoundInv, SafetyInv
<1>2. FTypes' /\ RTypes' /\ SafetyInv'
  BY <1>1, BNextCases, FTypesStep, RTypesStep, TableStep, SafetyStep
<1>3. ASSUME NEW e \in EV \ Faulty PROVE Sound(e, CalmLow[e], CalmHigh[e])'
  <2> DEFINE l == CalmLow[e]
             h == CalmHigh[e]
  <2>1. Near(l, h) /\ Sound(e, l, h)
    BY CalmNear DEF SoundInv
  <2>2. CASE BUnit
    BY <1>1, <2>1, <2>2, SoundUnit
  <2>3. CASE BRotateSent
    BY <1>1, <2>1, <2>3, SoundRotate
  <2>4. CASE BEmitReport
    BY <1>1, <2>1, <2>4, SoundEmit
  <2>5. CASE BReceiveReport
    BY <1>1, <2>1, <2>5, SoundReceive
  <2>6. CASE BApplyCall
    BY <1>1, <2>1, <2>6, SoundApply
  <2>7. CASE BOther \/ UNCHANGED bvars
    BY <1>1, <2>1, <2>7, SoundOther
  <2>8. QED
    BY <2>2, <2>3, <2>4, <2>5, <2>6, <2>7 DEF BNext
<1>4. QED
  BY <1>2, <1>3 DEF SoundInv

\* Whatever the loads and whichever reports are lost, for every length, phase and
\* skew of the windows: reports take an EV out whose path works only if
\* loss_demote_consecutive of those that arrived, one after the other, rest on a
\* window with a burst in it.
THEOREM BurstsTakeOut == BSpec => BurstsInARow
<1>1. SoundInv /\ [BNext]_bvars =>
        [\A e \in EV \ Faulty :
            state[e] # "ASSUMED_BAD" /\ state'[e] = "ASSUMED_BAD"
                => roughRun'[e] = LossDemoteConsecutive]_bvars
  <2> SUFFICES ASSUME SoundInv, BNext, NEW e \in EV \ Faulty,
                      state[e] # "ASSUMED_BAD", state'[e] = "ASSUMED_BAD"
               PROVE  roughRun'[e] = LossDemoteConsecutive
    BY Zenon
  <2>1. CASE BApplyCall
    <3>1. TypeOK /\ FTypes /\ RTypes /\ Counted(e) /\ FairCalls(e)
      BY DEF SoundInv, SafetyInv, Sound
    <3>2. QED
      BY <2>1, <3>1, CallSound
  <2>2. CASE ~BApplyCall
    <3>1. state' = state
      BY <2>2 DEF BNext, BUnit, BRotateSent, BEmitReport, BReceiveReport, BOther,
                  Unit, RotateSent, EmitReport, ReceiveReport, RefreshWeights,
                  CheckAbsent, TransitionEnds, RebuildWeights, vars
    <3>2. QED
      BY <3>1
  <2>3. QED
    BY <2>1, <2>2
<1>2. QED
  BY <1>1, SoundInvInit, SoundInvStep, PTL DEF BSpec, BurstsInARow

=============================================================================
