------------------------------ MODULE NackProofs ------------------------------
(***************************************************************************)
(* Proofs about NackRetransmit and FlowReport, for every number of         *)
(* packets, EVs, duplicates, budget and table size.                        *)
(*                                                                         *)
(* A copy of a seq moves from a packet to a NACK, to the queue, to the     *)
(* batch and back to a packet. So each step moves one unit between what    *)
(* UnderWay, arrived and resent count, and the properties follow from what *)
(* each step moves (the lemmas named ...Moves). What has been granted to a *)
(* seq is bounded by what was resent and what is requested, and a seq in   *)
(* the table has the rest of its budget left (Accounts). At the receiver,  *)
(* FlowStats that no thread has stored are empty (Own).                    *)
(***************************************************************************)
EXTENDS FlowReport, FiniteSetTheorems, TLAPS

DataFrame == [seq : Seqs, ev : EVs, copy : Nat, twin : Nat, trimmed : BOOLEAN]
NackFrame == [seq : Seqs, ev : EVs, copy : Nat, twin : Nat]

\* Where the sender thread is, and that there are finitely many frames.
Control ==
    /\ pc \in {"noteNew", "noteResend"} => noting \in Seqs
    /\ pc \in {"top", "noteNew"} => todo = <<>>
    /\ phase = "send" /\ pc \in {"batch", "noteResend"} => nextSeq <= NumPkts
    /\ IsFiniteSet(data) /\ IsFiniteSet(nacks)

TInv == TypeOK /\ Control

\* 1 if p holds.
One(p) == IF p THEN 1 ELSE 0

-----------------------------------------------------------------------------
(***************************************************************************)
(* How many frames and requests there are of a seq.                        *)
(***************************************************************************)

LEMMA FramesThere ==
    ASSUME NEW F, IsFiniteSet(F), NEW s
    PROVE  /\ FramesOf(F, s) \in Nat
           /\ FramesOf(F, s) = 0 <=> \A f \in F : f.seq # s
<1> DEFINE S == {f \in F : f.seq = s}
<1>1. IsFiniteSet(S)
  <2>1. S \in SUBSET F
    OBVIOUS
  <2>2. QED
    BY <2>1, FS_Subset
<1>2. Cardinality(S) \in Nat /\ (Cardinality(S) = 0 <=> S = {})
  BY <1>1, FS_CardinalityType, FS_EmptySet
<1>3. S = {} <=> \A f \in F : f.seq # s
  OBVIOUS
<1>4. QED
  BY <1>2, <1>3 DEF FramesOf

\* A frame that comes into flight is one more, if it was not there.
LEMMA FrameAdded ==
    ASSUME NEW F, IsFiniteSet(F), NEW f, NEW s
    PROVE  /\ IsFiniteSet(F \cup {f})
           /\ FramesOf(F, s) \in Nat /\ FramesOf(F \cup {f}, s) \in Nat
           /\ FramesOf(F, s) <= FramesOf(F \cup {f}, s)
           /\ FramesOf(F \cup {f}, s) <= FramesOf(F, s) + One(f.seq = s)
           /\ f.seq = s => FramesOf(F \cup {f}, s) > 0
<1> DEFINE S == {g \in F : g.seq = s}
           T == {g \in F \cup {f} : g.seq = s}
<1>1. IsFiniteSet(F \cup {f})
  BY FS_AddElement
<1>2. IsFiniteSet(S) /\ Cardinality(S) \in Nat
  <2>1. S \in SUBSET F
    OBVIOUS
  <2>2. QED
    BY <2>1, FS_Subset, FS_CardinalityType
<1>3. FramesOf(F, s) = Cardinality(S) /\ FramesOf(F \cup {f}, s) = Cardinality(T)
  BY DEF FramesOf
<1>4. CASE f.seq = s
  <2>1. T = S \cup {f}
    BY <1>4
  <2>2. Cardinality(S \cup {f}) =
            IF f \in S THEN Cardinality(S) ELSE Cardinality(S) + 1
    BY <1>2, FS_AddElement
  <2>3. \A g \in F \cup {f} : g.seq # s => g # f
    BY <1>4
  <2>4. FramesOf(F \cup {f}, s) # 0
    BY <1>1, <1>4, FramesThere
  <2> HIDE DEF S, T
  <2>5. QED
    BY <1>1, <1>2, <1>3, <1>4, <2>1, <2>2, <2>4 DEF One
<1>5. CASE f.seq # s
  <2>1. T = S
    BY <1>5
  <2> HIDE DEF S, T
  <2>2. QED
    BY <1>1, <1>2, <1>3, <1>5, <2>1 DEF One
<1>6. QED
  BY <1>4, <1>5

LEMMA FrameTaken ==
    ASSUME NEW F, IsFiniteSet(F), NEW f \in F, NEW s
    PROVE  /\ IsFiniteSet(F \ {f})
           /\ FramesOf(F, s) \in Nat /\ FramesOf(F \ {f}, s) \in Nat
           /\ FramesOf(F \ {f}, s) = FramesOf(F, s) - One(f.seq = s)
<1> DEFINE S == {g \in F : g.seq = s}
           T == {g \in F \ {f} : g.seq = s}
<1>1. IsFiniteSet(F \ {f})
  BY FS_RemoveElement
<1>2. IsFiniteSet(S) /\ Cardinality(S) \in Nat
  <2>1. S \in SUBSET F
    OBVIOUS
  <2>2. QED
    BY <2>1, FS_Subset, FS_CardinalityType
<1>3. FramesOf(F, s) = Cardinality(S) /\ FramesOf(F \ {f}, s) = Cardinality(T)
  BY DEF FramesOf
<1>4. Cardinality(S \ {f}) = IF f \in S THEN Cardinality(S) - 1 ELSE Cardinality(S)
  BY <1>2, FS_RemoveElement
<1>5. T = S \ {f} /\ (f \in S <=> f.seq = s)
  OBVIOUS
<1>6. FramesOf(F \ {f}, s) \in Nat
  BY <1>1, FramesThere
<1> HIDE DEF S, T
<1>7. QED
  BY <1>1, <1>2, <1>3, <1>4, <1>5, <1>6 DEF One

LEMMA RequestsThere ==
    ASSUME NEW q \in Seq(Request), NEW s
    PROVE  /\ IsFiniteSet({i \in DOMAIN q : q[i].seq = s})
           /\ RequestsOf(q, s) \in Nat
<1> DEFINE S == {i \in DOMAIN q : q[i].seq = s}
<1>1. DOMAIN q = 1..Len(q) /\ Len(q) \in Nat
  OBVIOUS
<1>2. IsFiniteSet(1..Len(q))
  <2>1. 1 \in Int /\ Len(q) \in Int
    BY <1>1
  <2>2. QED
    BY <2>1, FS_Interval
<1>3. S \in SUBSET (1..Len(q))
  BY <1>1
<1>4. QED
  BY <1>2, <1>3, FS_Subset, FS_CardinalityType DEF RequestsOf

LEMMA NoRequests == \A s : RequestsOf(<<>>, s) = 0
<1>1. \A s : {i \in DOMAIN <<>> : <<>>[i].seq = s} = {}
  OBVIOUS
<1>2. QED
  BY <1>1, FS_EmptySet DEF RequestsOf

\* on_nack() queues a request: one more of its seq.
LEMMA RequestAdded ==
    ASSUME NEW q \in Seq(Request), NEW r \in Request, NEW s
    PROVE  /\ Append(q, r) \in Seq(Request)
           /\ RequestsOf(q, s) \in Nat
           /\ RequestsOf(Append(q, r), s) = RequestsOf(q, s) + One(r.seq = s)
<1> DEFINE n == Len(q) + 1
           S == {i \in DOMAIN q : q[i].seq = s}
           T == {i \in DOMAIN Append(q, r) : Append(q, r)[i].seq = s}
<1>1. /\ Append(q, r) \in Seq(Request)
      /\ DOMAIN q = 1..Len(q) /\ Len(q) \in Nat
      /\ DOMAIN Append(q, r) = 1..n
  OBVIOUS
<1>2. \A i \in 1..Len(q) : Append(q, r)[i] = q[i]
  OBVIOUS
<1>3. Append(q, r)[n] = r
  OBVIOUS
<1>4. \A i : i \in 1..n <=> i \in 1..Len(q) \/ i = n
  BY <1>1
<1>5. n \notin 1..Len(q)
  BY <1>1
<1>6. IsFiniteSet(S) /\ Cardinality(S) \in Nat /\ RequestsOf(q, s) = Cardinality(S)
  BY RequestsThere, FS_CardinalityType DEF RequestsOf
<1>7. RequestsOf(Append(q, r), s) = Cardinality(T)
  BY DEF RequestsOf
<1>8. CASE r.seq = s
  <2>1. T = S \cup {n}
    BY <1>1, <1>2, <1>3, <1>4, <1>8
  <2>2. n \notin S
    BY <1>1, <1>5
  <2>3. Cardinality(S \cup {n}) =
            IF n \in S THEN Cardinality(S) ELSE Cardinality(S) + 1
    BY <1>6, FS_AddElement
  <2> HIDE DEF S, T
  <2>4. QED
    BY <1>1, <1>6, <1>7, <1>8, <2>1, <2>2, <2>3 DEF One
<1>9. CASE r.seq # s
  <2>1. T = S
    BY <1>1, <1>2, <1>3, <1>4, <1>9
  <2> HIDE DEF S, T
  <2>2. QED
    BY <1>1, <1>6, <1>7, <1>9, <2>1 DEF One
<1> HIDE DEF S, T
<1>10. QED
  BY <1>1, <1>6, <1>8, <1>9

\* The sender takes the first request of its batch: one less of its seq.
LEMMA RequestTaken ==
    ASSUME NEW q \in Seq(Request), q # <<>>, NEW s
    PROVE  /\ Head(q) \in Request
           /\ Tail(q) \in Seq(Request)
           /\ RequestsOf(q, s) \in Nat /\ RequestsOf(Tail(q), s) \in Nat
           /\ RequestsOf(Tail(q), s) = RequestsOf(q, s) - One(Head(q).seq = s)
<1> DEFINE n == Len(q) - 1
           S == {i \in DOMAIN q : q[i].seq = s}
           T == {i \in DOMAIN Tail(q) : Tail(q)[i].seq = s}
           f == [i \in T |-> i + 1]
<1>1. /\ Len(q) \in Nat /\ Len(q) >= 1
      /\ DOMAIN q = 1..Len(q)
      /\ Head(q) = q[1] /\ Head(q) \in Request
      /\ Tail(q) \in Seq(Request)
      /\ DOMAIN Tail(q) = 1..n
  OBVIOUS
<1>2. \A i \in 1..n : Tail(q)[i] = q[i + 1] /\ i + 1 \in 1..Len(q) /\ i + 1 # 1
  OBVIOUS
<1>3. \A i \in 1..Len(q) : i # 1 => i - 1 \in 1..n /\ (i - 1) + 1 = i
  BY <1>1
<1>4. IsFiniteSet(S) /\ IsFiniteSet(T) /\ Cardinality(S) \in Nat
  BY <1>1, RequestsThere, FS_CardinalityType
<1>5. f \in Bijection(T, S \ {1})
  <2>1. \A i \in T : f[i] \in S \ {1}
    BY <1>1, <1>2
  <2>2. \A i, j \in T : f[i] = f[j] => i = j
    BY <1>1
  <2>3. ASSUME NEW i \in S \ {1} PROVE \E j \in T : f[j] = i
    <3>1. i - 1 \in 1..n /\ (i - 1) + 1 = i
      BY <1>1, <1>3
    <3>2. i - 1 \in T
      BY <1>1, <1>2, <3>1
    <3>3. f[i - 1] = i
      BY <3>1, <3>2
    <3>4. QED
      BY <3>2, <3>3
  <2>4. f \in [T -> S \ {1}]
    BY <2>1
  <2> HIDE DEF f
  <2>5. QED
    BY <2>2, <2>3, <2>4 DEF Bijection, Injection, Surjection, IsInjective
<1>6. Cardinality(T) = Cardinality(S \ {1})
  <2>1. IsFiniteSet(T) /\ ExistsBijection(T, S \ {1})
    BY <1>4, <1>5 DEF ExistsBijection
  <2> HIDE DEF S, T, f
  <2>2. QED
    BY <2>1, FS_Bijection
<1>7. Cardinality(S \ {1}) = IF 1 \in S THEN Cardinality(S) - 1 ELSE Cardinality(S)
  BY <1>4, FS_RemoveElement
<1>8. 1 \in S <=> Head(q).seq = s
  BY <1>1
<1>9. RequestsOf(q, s) = Cardinality(S) /\ RequestsOf(Tail(q), s) = Cardinality(T)
  BY DEF RequestsOf
<1>10. RequestsOf(Tail(q), s) \in Nat
  BY <1>1, RequestsThere
<1> HIDE DEF S, T
<1>11. QED
  BY <1>1, <1>4, <1>6, <1>7, <1>8, <1>9, <1>10 DEF One

-----------------------------------------------------------------------------
(***************************************************************************)
(* What each step moves, and that the types and the sender's place hold.   *)
(***************************************************************************)

LEMMA Counts ==
    ASSUME TInv, NEW s
    PROVE  /\ FramesOf(data, s) \in Nat /\ FramesOf(nacks, s) \in Nat
           /\ RequestsOf(queue, s) \in Nat /\ RequestsOf(todo, s) \in Nat
           /\ Requested(s) \in Nat /\ UnderWay(s) \in Nat
<1>1. FramesOf(data, s) \in Nat /\ FramesOf(nacks, s) \in Nat
  BY FramesThere DEF TInv, Control
<1>2. RequestsOf(queue, s) \in Nat /\ RequestsOf(todo, s) \in Nat
  BY RequestsThere DEF TInv, TypeOK
<1>3. QED
  BY <1>1, <1>2 DEF Requested, UnderWay

LEMMA CountsAfter ==
    ASSUME TInv', NEW s \in Seqs
    PROVE  /\ Requested(s)' \in Nat /\ UnderWay(s)' \in Nat
           /\ arrived[s]' \in Nat /\ dups[s]' \in Nat
           /\ resent[s]' \in Nat
<1>1. FramesOf(data', s) \in Nat /\ FramesOf(nacks', s) \in Nat
  <2>1. IsFiniteSet(data') /\ IsFiniteSet(nacks')
    BY DEF TInv, Control
  <2>2. QED
    BY <2>1, FramesThere
<1>2. RequestsOf(queue', s) \in Nat /\ RequestsOf(todo', s) \in Nat
  <2>1. queue' \in Seq(Request) /\ todo' \in Seq(Request)
    BY DEF TInv, TypeOK
  <2>2. QED
    BY <2>1, RequestsThere
<1>3. arrived[s]' \in Nat /\ dups[s]' \in Nat /\ resent[s]' \in Nat
  BY DEF TInv, TypeOK
<1>4. QED
  BY <1>1, <1>2, <1>3 DEF Requested, UnderWay

LEMMA TInvInit == Init => TInv
<1> SUFFICES ASSUME Init PROVE TInv
  OBVIOUS
<1>1. TypeOK
  BY NackAssumption DEF Init, TypeOK, Seqs, Never
<1>2. Control
  BY NackAssumption, FS_EmptySet DEF Init, Control
<1>3. QED
  BY <1>1, <1>2 DEF TInv

\* Steps that leave frames and requests alone.
LEMMA NothingMoves ==
    ASSUME UNCHANGED <<data, nacks, queue, todo>>, NEW s
    PROVE  Requested(s)' = Requested(s) /\ UnderWay(s)' = UnderWay(s)
BY DEF Requested, UnderWay

\* retransmit_nacked() begins: the queue becomes the batch.
LEMMA TakeMoves ==
    ASSUME TInv, Take
    PROVE  /\ TInv'
           /\ \A s \in Seqs : Requested(s)' = Requested(s) /\ UnderWay(s)' = UnderWay(s)
<1> USE DEF Take, TakenQueue, receiver, history
<1>1. todo = <<>>
  BY DEF TInv, Control
<1>2. TypeOK'
  <2>1. <<>> \in Seq(Request)
    OBVIOUS
  <2>2. queue' = <<>> /\ todo' = queue /\ pc' = "batch"
        /\ UNCHANGED <<phase, nextSeq, noting, recent, count, data, nacks, arrived,
                       pending, resent, entered, dups>>
    OBVIOUS
  <2> HIDE DEF Take
  <2>3. QED
    BY <2>1, <2>2 DEF TInv, TypeOK
<1>3. Control'
  BY DEF TInv, Control
<1>4. ASSUME NEW s \in Seqs
      PROVE  Requested(s)' = Requested(s) /\ UnderWay(s)' = UnderWay(s)
  <2>1. RequestsOf(todo, s) = 0 /\ RequestsOf(queue', s) = 0
    BY <1>1, NoRequests
  <2>2. RequestsOf(queue, s) \in Nat
    BY Counts
  <2>3. Requested(s)' = Requested(s)
    BY <2>1, <2>2 DEF Requested
  <2>4. QED
    BY <2>3 DEF UnderWay
<1>5. QED
  BY <1>2, <1>3, <1>4 DEF TInv

\* sendto() puts one frame in flight.
LEMMA TransmitMoves ==
    ASSUME TInv, NEW s \in Seqs, NEW ev \in EVs, Transmit(s, ev),
           resent' \in [Seqs -> Nat], NEW t \in Seqs
    PROVE  /\ data' \subseteq DataFrame
           /\ IsFiniteSet(data')
           /\ noting' = s
           /\ FramesOf(data, t) \in Nat /\ FramesOf(data', t) \in Nat
           /\ FramesOf(data, t) <= FramesOf(data', t)
           /\ FramesOf(data', t) <= FramesOf(data, t) + One(s = t)
           /\ s = t => FramesOf(data', t) > 0
<1>1. PICK trim \in BOOLEAN :
          data' = data \cup {[seq |-> s, ev |-> ev, copy |-> resent'[s],
                              twin |-> 0, trimmed |-> trim]}
  BY DEF Transmit
<1> DEFINE p == [seq |-> s, ev |-> ev, copy |-> resent'[s], twin |-> 0,
                 trimmed |-> trim]
<1>2. p \in DataFrame /\ p.seq = s
  BY DEF DataFrame
<1>3. data' = data \cup {p}
  BY <1>1
<1>4. IsFiniteSet(data) /\ data \subseteq DataFrame
  BY DEF TInv, Control, TypeOK, DataFrame
<1>5. noting' = s
  BY DEF Transmit
<1> HIDE DEF p
<1>6. /\ IsFiniteSet(data \cup {p})
      /\ FramesOf(data, t) \in Nat /\ FramesOf(data \cup {p}, t) \in Nat
      /\ FramesOf(data, t) <= FramesOf(data \cup {p}, t)
      /\ FramesOf(data \cup {p}, t) <= FramesOf(data, t) + One(p.seq = t)
      /\ p.seq = t => FramesOf(data \cup {p}, t) > 0
  BY <1>4, FrameAdded
<1>7. QED
  BY <1>2, <1>3, <1>4, <1>5, <1>6

\* A new packet: one more of its seq at most, and less of none.
LEMMA SendNewMoves ==
    ASSUME TInv, SendNew
    PROVE  /\ TInv'
           /\ nextSeq \in Seqs
           /\ \A s \in Seqs : /\ Requested(s)' = Requested(s)
                              /\ UnderWay(s) <= UnderWay(s)'
                              /\ UnderWay(s)' <= UnderWay(s) + One(nextSeq = s)
<1> USE DEF SendNew, listener, receiver
<1>1. nextSeq \in Seqs /\ nextSeq' \in 1..NumPkts + 1
  BY NackAssumption DEF TInv, TypeOK, Control, Seqs
<1>2. resent' \in [Seqs -> Nat]
  BY DEF TInv, TypeOK
<1>3. \A s : Requested(s)' = Requested(s)
  BY DEF Requested
<1>4. CASE \E ev \in Picks : Transmit(nextSeq, ev) /\ pc' = "noteNew"
                                 /\ UNCHANGED lost
  <2>1. PICK ev \in EVs : Transmit(nextSeq, ev)
    BY <1>4, NackAssumption
  <2>2. /\ data' \subseteq DataFrame /\ IsFiniteSet(data') /\ noting' = nextSeq
    BY <1>1, <1>2, <2>1, TransmitMoves
  <2>3. TypeOK'
    BY <1>1, <1>2, <1>4, <2>2 DEF TInv, TypeOK, DataFrame
  <2>4. Control'
    BY <1>1, <1>4, <2>2 DEF TInv, Control
  <2>5. ASSUME NEW s \in Seqs
        PROVE  /\ UnderWay(s) <= UnderWay(s)'
               /\ UnderWay(s)' <= UnderWay(s) + One(nextSeq = s)
    <3>1. /\ FramesOf(data, s) \in Nat /\ FramesOf(data', s) \in Nat
          /\ FramesOf(data, s) <= FramesOf(data', s)
          /\ FramesOf(data', s) <= FramesOf(data, s) + One(nextSeq = s)
      BY <1>1, <1>2, <2>1, TransmitMoves
    <3>2. FramesOf(nacks', s) = FramesOf(nacks, s) /\ FramesOf(nacks, s) \in Nat
          /\ Requested(s) \in Nat /\ One(nextSeq = s) \in Nat
      BY Counts DEF One
    <3>3. QED
      BY <1>3, <3>1, <3>2 DEF UnderWay
  <2>6. QED
    BY <1>1, <1>3, <2>3, <2>4, <2>5 DEF TInv
<1>5. CASE pc' = "top" /\ UNCHANGED <<data, noting>>
  <2>1. TypeOK'
    BY <1>1, <1>2, <1>5 DEF TInv, TypeOK
  <2>2. Control'
    BY <1>1, <1>5 DEF TInv, Control
  <2>3. ASSUME NEW s \in Seqs
        PROVE  /\ UnderWay(s)' = UnderWay(s) /\ UnderWay(s) \in Nat
               /\ One(nextSeq = s) \in Nat
    BY <1>3, <1>5, Counts DEF UnderWay, One
  <2>4. QED
    BY <1>1, <1>3, <2>1, <2>2, <2>3 DEF TInv
<1>6. QED
  BY <1>4, <1>5

\* A retransmit: a request becomes a packet, or is dropped.
LEMMA ResendMoves ==
    ASSUME TInv, Resend
    PROVE  /\ TInv'
           /\ Head(todo).seq \in Seqs
           /\ \A s \in Seqs :
                 LET one == One(Head(todo).seq = s) IN
                 /\ Requested(s)' = Requested(s) - one
                 /\ resent[s]' = resent[s] + one
                 /\ UnderWay(s)' <= UnderWay(s)
                 /\ one = 0 => UnderWay(s)' = UnderWay(s)
                 /\ one = 1 => UnderWay(s)' > 0 \/ s \in lost'
<1> USE DEF Resend, listener, receiver
<1> DEFINE h == Head(todo).seq
<1>1. todo \in Seq(Request) /\ todo # <<>>
  BY DEF TInv, TypeOK
<1>2. Head(todo) \in Request /\ todo' \in Seq(Request)
  BY <1>1, RequestTaken
<1>3. h \in Seqs
  BY <1>2 DEF Request
<1>4. resent' \in [Seqs -> Nat]
  BY <1>3 DEF TInv, TypeOK
<1>5. pc \in {"batch"} /\ (phase = "send" => nextSeq <= NumPkts)
  BY DEF TInv, Control
<1>6. ASSUME NEW s \in Seqs
      PROVE  /\ RequestsOf(todo, s) \in Nat /\ RequestsOf(todo', s) \in Nat
             /\ RequestsOf(todo', s) = RequestsOf(todo, s) - One(h = s)
             /\ One(h = s) \in {0, 1} /\ (One(h = s) = 1 <=> s = h)
             /\ RequestsOf(queue', s) = RequestsOf(queue, s)
             /\ RequestsOf(queue, s) \in Nat
             /\ FramesOf(data, s) \in Nat
             /\ FramesOf(nacks', s) = FramesOf(nacks, s) /\ FramesOf(nacks, s) \in Nat
             /\ resent[s]' = resent[s] + One(h = s)
  <2>1. /\ RequestsOf(todo, s) \in Nat /\ RequestsOf(todo', s) \in Nat
        /\ RequestsOf(todo', s) = RequestsOf(todo, s) - One(h = s)
    BY <1>1, RequestTaken
  <2>2. One(h = s) \in {0, 1} /\ (One(h = s) = 1 <=> s = h)
    BY DEF One
  <2>3. resent[s]' = resent[s] + One(h = s)
    BY <1>3 DEF TInv, TypeOK, One
  <2>4. QED
    BY <2>1, <2>2, <2>3, Counts
<1>7. CASE \E ev \in Picks : Transmit(h, ev) /\ pc' = "noteResend"
  <2>1. PICK ev \in EVs : Transmit(h, ev)
    BY <1>7, NackAssumption
  <2>2. /\ data' \subseteq DataFrame /\ IsFiniteSet(data') /\ noting' = h
    BY <1>3, <1>4, <2>1, TransmitMoves
  <2>3. TypeOK'
    BY <1>2, <1>3, <1>4, <1>7, <2>2 DEF TInv, TypeOK, DataFrame
  <2>4. Control'
    BY <1>3, <1>5, <1>7, <2>2 DEF TInv, Control
  <2>5. ASSUME NEW s \in Seqs
        PROVE  /\ Requested(s)' = Requested(s) - One(h = s)
               /\ UnderWay(s)' <= UnderWay(s)
               /\ One(h = s) = 0 => UnderWay(s)' = UnderWay(s)
               /\ One(h = s) = 1 => UnderWay(s)' > 0
    <3>1. /\ FramesOf(data', s) \in Nat
          /\ FramesOf(data, s) <= FramesOf(data', s)
          /\ FramesOf(data', s) <= FramesOf(data, s) + One(h = s)
          /\ h = s => FramesOf(data', s) > 0
      BY <1>3, <1>4, <2>1, TransmitMoves
    <3> HIDE DEF Resend, h
    <3>2. Requested(s)' = Requested(s) - One(h = s)
      BY <1>6 DEF Requested
    <3>3. QED
      BY <1>6, <3>1, <3>2 DEF UnderWay, Requested
  <2>6. QED
    BY <1>3, <1>6, <2>3, <2>4, <2>5 DEF TInv
<1>8. CASE lost' = lost \cup {h} /\ UNCHANGED <<data, noting, pc>>
  <2>1. TypeOK'
    BY <1>2, <1>3, <1>4, <1>8 DEF TInv, TypeOK
  <2>2. Control'
    BY <1>5, <1>8 DEF TInv, Control
  <2>3. ASSUME NEW s \in Seqs
        PROVE  /\ Requested(s)' = Requested(s) - One(h = s)
               /\ UnderWay(s)' = UnderWay(s) - One(h = s)
               /\ UnderWay(s) \in Nat
               /\ One(h = s) = 1 => s \in lost'
    <3> HIDE DEF Resend, h
    <3>1. FramesOf(data', s) = FramesOf(data, s)
      BY <1>8
    <3>2. QED
      BY <1>6, <1>8, <3>1 DEF UnderWay, Requested
  <2>4. ASSUME NEW s \in Seqs
        PROVE  /\ UnderWay(s)' <= UnderWay(s)
               /\ One(h = s) = 0 => UnderWay(s)' = UnderWay(s)
    BY <1>6, <2>3
  <2>5. QED
    BY <1>3, <1>6, <2>1, <2>2, <2>3, <2>4 DEF TInv
<1>9. QED
  BY <1>7, <1>8

\* note_sent(): only the listener's table changes.
LEMMA NoteSentTypes == ASSUME TInv, NoteSent PROVE TInv'
<1> USE DEF NoteSent, receiver
<1>1. noting \in Seqs
  BY DEF TInv, Control
<1>2. recent' \in Seq(Seqs) /\ Len(recent') <= RecentSends
  <2> DEFINE grown == Append(recent, noting)
  <2>1. grown \in Seq(Seqs) /\ Len(grown) = Len(recent) + 1
        /\ Len(recent) \in Nat
    BY <1>1 DEF TInv, TypeOK
  <2>2. Tail(grown) \in Seq(Seqs) /\ Len(Tail(grown)) = Len(recent)
    BY <2>1
  <2>3. CASE recent' = recent
    BY <2>3 DEF TInv, TypeOK
  <2>4. CASE recent' = Tail(grown)
    BY <2>2, <2>4 DEF TInv, TypeOK
  <2>5. CASE recent' = grown /\ ~(Len(grown) > RecentSends)
    BY <2>1, <2>5, NackAssumption
  <2>6. QED
    BY <2>3, <2>4, <2>5
<1>3. count' \in [Seqs -> 0..MaxRetransmits]
  BY <1>1, NackAssumption DEF TInv, TypeOK, CountAfterNote
<1>4. entered' \in [Seqs -> Nat]
  <2>1. entered' = entered \/ entered' = [entered EXCEPT ![noting] = @ + 1]
    OBVIOUS
  <2>2. QED
    BY <1>1, <2>1 DEF TInv, TypeOK
<1>5. TypeOK'
  BY <1>2, <1>3, <1>4 DEF TInv, TypeOK
<1>6. Control'
  BY DEF TInv, Control
<1>7. QED
  BY <1>5, <1>6 DEF TInv

LEMMA DrainAgainTypes == ASSUME TInv, DrainAgain PROVE TInv'
<1>1. TypeOK'
  BY DEF TInv, TypeOK, DrainAgain, listener, receiver, history
<1>2. Control'
  BY DEF TInv, Control, DrainAgain, listener
<1>3. QED
  BY <1>1, <1>2 DEF TInv

LEMMA EndPhaseTypes == ASSUME TInv, EndPhase PROVE TInv'
<1>1. TypeOK'
  BY DEF TInv, TypeOK, EndPhase, listener, receiver, history
<1>2. Control'
  BY DEF TInv, Control, EndPhase, listener
<1>3. QED
  BY <1>1, <1>2 DEF TInv

\* A packet arrives: it becomes a NACK, or a copy that the receiver has.
LEMMA DeliverMoves ==
    ASSUME TInv, NEW p \in data, Deliver(p)
    PROVE  /\ TInv'
           /\ p.seq \in Seqs
           /\ \A s \in Seqs :
                 /\ Requested(s)' = Requested(s)
                 /\ UnderWay(s)' + arrived[s]' <= UnderWay(s) + arrived[s]
                 /\ s # p.seq => UnderWay(s)' = UnderWay(s) /\ arrived[s]' = arrived[s]
           /\ p.trimmed => UnderWay(p.seq)' > 0
<1> USE DEF Deliver, sender, listener, history
<1> DEFINE k == [seq |-> p.seq, ev |-> p.ev, copy |-> p.copy, twin |-> p.twin]
<1>1. p \in DataFrame /\ p.seq \in Seqs /\ k \in NackFrame /\ k.seq = p.seq
  BY DEF TInv, TypeOK, DataFrame, NackFrame
<1>2. IsFiniteSet(data) /\ IsFiniteSet(nacks) /\ data' = data \ {p}
  BY DEF TInv, Control
<1>3. IsFiniteSet(data')
  BY <1>2, FrameTaken
<1>4. IsFiniteSet(nacks') /\ nacks' \subseteq NackFrame
  <2>1. nacks' = nacks \/ nacks' = nacks \cup {k}
    OBVIOUS
  <2>2. nacks \subseteq NackFrame
    BY DEF TInv, TypeOK, NackFrame
  <2> HIDE DEF k, Deliver
  <2>3. IsFiniteSet(nacks \cup {k})
    BY <1>2, FrameAdded
  <2>4. QED
    BY <1>1, <1>2, <2>1, <2>2, <2>3
<1>5. arrived' \in [Seqs -> Nat] /\ pending' \subseteq Seqs
  <2>1. arrived' = arrived \/ arrived' = [arrived EXCEPT ![p.seq] = @ + 1]
    OBVIOUS
  <2>2. pending' \subseteq pending \cup {p.seq}
    OBVIOUS
  <2>3. arrived \in [Seqs -> Nat] /\ pending \subseteq Seqs
    BY DEF TInv, TypeOK
  <2> HIDE DEF Deliver
  <2>4. QED
    BY <1>1, <2>1, <2>2, <2>3
<1>6. TypeOK'
  BY <1>4, <1>5 DEF TInv, TypeOK, NackFrame
<1>7. Control'
  BY <1>3, <1>4 DEF TInv, Control
<1>8. ASSUME NEW s \in Seqs
      PROVE  /\ FramesOf(data, s) \in Nat /\ FramesOf(data', s) \in Nat
             /\ FramesOf(data', s) = FramesOf(data, s) - One(p.seq = s)
             /\ FramesOf(nacks, s) \in Nat /\ Requested(s) \in Nat
             /\ Requested(s)' = Requested(s)
             /\ arrived[s] \in Nat
             /\ One(p.seq = s) \in {0, 1} /\ (One(p.seq = s) = 0 <=> s # p.seq)
  <2>1. FramesOf(data, s) \in Nat /\ FramesOf(data', s) \in Nat
        /\ FramesOf(data', s) = FramesOf(data, s) - One(p.seq = s)
    <3> HIDE DEF Deliver
    <3>1. FramesOf(data, s) \in Nat /\ FramesOf(data \ {p}, s) \in Nat
          /\ FramesOf(data \ {p}, s) = FramesOf(data, s) - One(p.seq = s)
      <4>1. IsFiniteSet(data)
        BY <1>2
      <4>2. QED
        BY <4>1, FrameTaken
    <3>2. QED
      BY <1>2, <3>1
  <2>2. One(p.seq = s) \in {0, 1} /\ (One(p.seq = s) = 0 <=> s # p.seq)
    BY DEF One
  <2>3. Requested(s)' = Requested(s)
    BY DEF Requested
  <2>4. QED
    BY <2>1, <2>2, <2>3, Counts DEF TInv, TypeOK
<1>9. CASE p.trimmed
  <2>1. nacks' = nacks \cup {k} /\ arrived' = arrived
    BY <1>9
  <2> HIDE DEF k
  <2>2. ASSUME NEW s \in Seqs
        PROVE  /\ UnderWay(s)' <= UnderWay(s)
               /\ s # p.seq => UnderWay(s)' = UnderWay(s)
               /\ s = p.seq => UnderWay(s)' > 0
    <3>1. /\ FramesOf(nacks', s) \in Nat
          /\ FramesOf(nacks, s) <= FramesOf(nacks', s)
          /\ FramesOf(nacks', s) <= FramesOf(nacks, s) + One(p.seq = s)
          /\ p.seq = s => FramesOf(nacks', s) > 0
      BY <1>1, <1>2, <2>1, FrameAdded
    <3> HIDE DEF Deliver
    <3>2. QED
      BY <1>8, <3>1 DEF UnderWay
  <2>3. ASSUME NEW s \in Seqs
        PROVE  arrived[s]' = arrived[s] /\ UnderWay(s) \in Nat /\ UnderWay(s)' \in Nat
    <3>1. FramesOf(nacks', s) \in Nat
      BY <1>4, FramesThere
    <3> HIDE DEF Deliver
    <3>2. QED
      BY <1>8, <2>1, <3>1 DEF UnderWay
  <2> HIDE DEF Deliver
  <2>4. \A s \in Seqs : UnderWay(s)' + arrived[s]' <= UnderWay(s) + arrived[s]
    BY <1>8, <2>2, <2>3
  <2>5. QED
    BY <1>1, <1>6, <1>7, <1>8, <2>2, <2>3, <2>4 DEF TInv
<1>10. CASE ~p.trimmed
  <2>1. nacks' = nacks /\ arrived' = [arrived EXCEPT ![p.seq] = @ + 1]
    BY <1>10
  <2>2. ASSUME NEW s \in Seqs
        PROVE  arrived[s]' = arrived[s] + One(p.seq = s)
    <3>1. arrived \in [Seqs -> Nat]
      BY DEF TInv, TypeOK
    <3>2. CASE s = p.seq
      BY <2>1, <3>1, <3>2 DEF One
    <3>3. CASE s # p.seq
      BY <2>1, <3>1, <3>3 DEF One
    <3>4. QED
      BY <3>2, <3>3
  <2>3. ASSUME NEW s \in Seqs
        PROVE  UnderWay(s)' = UnderWay(s) - One(p.seq = s) /\ UnderWay(s) \in Nat
    <3> HIDE DEF Deliver, k
    <3>1. FramesOf(nacks', s) = FramesOf(nacks, s)
      BY <2>1
    <3>2. QED
      BY <1>8, <3>1 DEF UnderWay
  <2> HIDE DEF Deliver, k
  <2>4. ASSUME NEW s \in Seqs
        PROVE  /\ UnderWay(s)' + arrived[s]' <= UnderWay(s) + arrived[s]
               /\ s # p.seq => UnderWay(s)' = UnderWay(s) /\ arrived[s]' = arrived[s]
    BY <1>8, <2>2, <2>3
  <2>5. QED
    BY <1>1, <1>6, <1>7, <1>8, <1>10, <2>4 DEF TInv
<1>11. QED
  BY <1>9, <1>10

\* A loss: one less of a seq that is then known as lost.
LEMMA LoseMoves ==
    ASSUME TInv, Lose
    PROVE  /\ TInv'
           /\ \A s \in Seqs : /\ Requested(s)' = Requested(s)
                              /\ UnderWay(s)' <= UnderWay(s)
                              /\ s \notin lost' => UnderWay(s)' = UnderWay(s)
<1> USE DEF Lose, sender, listener, receiver
<1>1. IsFiniteSet(data) /\ IsFiniteSet(nacks)
  BY DEF TInv, Control
<1>2. \A s : Requested(s)' = Requested(s)
  BY DEF Requested
<1>3. CASE \E p \in data : data' = data \ {p} /\ lost' = lost \cup {p.seq}
                              /\ UNCHANGED nacks
  <2>1. PICK p \in data : data' = data \ {p} /\ lost' = lost \cup {p.seq}
                              /\ UNCHANGED nacks
    BY <1>3
  <2>2. IsFiniteSet(data')
    BY <1>1, <2>1, FrameTaken
  <2>3. TypeOK' /\ Control'
    BY <1>1, <2>1, <2>2 DEF TInv, TypeOK, Control
  <2>4. ASSUME NEW s \in Seqs
        PROVE  /\ UnderWay(s)' <= UnderWay(s)
               /\ s \notin lost' => UnderWay(s)' = UnderWay(s)
    <3>1. /\ FramesOf(data, s) \in Nat /\ FramesOf(data', s) \in Nat
          /\ FramesOf(data', s) = FramesOf(data, s) - One(p.seq = s)
      <4> HIDE DEF Lose
      <4>1. FramesOf(data, s) \in Nat /\ FramesOf(data \ {p}, s) \in Nat
            /\ FramesOf(data \ {p}, s) = FramesOf(data, s) - One(p.seq = s)
        <5>1. IsFiniteSet(data)
          BY <1>1
        <5>2. QED
          BY <5>1, FrameTaken
      <4>2. QED
        BY <2>1, <4>1
    <3>2. FramesOf(nacks, s) \in Nat /\ Requested(s) \in Nat
          /\ FramesOf(nacks', s) = FramesOf(nacks, s)
      BY <2>1, Counts
    <3>3. One(p.seq = s) \in {0, 1} /\ (s \notin lost' => One(p.seq = s) = 0)
      BY <2>1 DEF One
    <3> HIDE DEF Lose
    <3>4. QED
      BY <1>2, <3>1, <3>2, <3>3 DEF UnderWay
  <2>5. QED
    BY <1>2, <2>3, <2>4 DEF TInv
<1>4. CASE \E k \in nacks : nacks' = nacks \ {k} /\ lost' = lost \cup {k.seq}
                               /\ UNCHANGED data
  <2>1. PICK k \in nacks : nacks' = nacks \ {k} /\ lost' = lost \cup {k.seq}
                               /\ UNCHANGED data
    BY <1>4
  <2>2. IsFiniteSet(nacks')
    BY <1>1, <2>1, FrameTaken
  <2>3. TypeOK' /\ Control'
    BY <1>1, <2>1, <2>2 DEF TInv, TypeOK, Control
  <2>4. ASSUME NEW s \in Seqs
        PROVE  /\ UnderWay(s)' <= UnderWay(s)
               /\ s \notin lost' => UnderWay(s)' = UnderWay(s)
    <3>1. /\ FramesOf(nacks, s) \in Nat /\ FramesOf(nacks', s) \in Nat
          /\ FramesOf(nacks', s) = FramesOf(nacks, s) - One(k.seq = s)
      <4> HIDE DEF Lose
      <4>1. FramesOf(nacks, s) \in Nat /\ FramesOf(nacks \ {k}, s) \in Nat
            /\ FramesOf(nacks \ {k}, s) = FramesOf(nacks, s) - One(k.seq = s)
        <5>1. IsFiniteSet(nacks)
          BY <1>1
        <5>2. QED
          BY <5>1, FrameTaken
      <4>2. QED
        BY <2>1, <4>1
    <3>2. FramesOf(data, s) \in Nat /\ Requested(s) \in Nat
          /\ FramesOf(data', s) = FramesOf(data, s)
      BY <2>1, Counts
    <3>3. One(k.seq = s) \in {0, 1} /\ (s \notin lost' => One(k.seq = s) = 0)
      BY <2>1 DEF One
    <3> HIDE DEF Lose
    <3>4. QED
      BY <1>2, <3>1, <3>2, <3>3 DEF UnderWay
  <2>5. QED
    BY <1>2, <2>3, <2>4 DEF TInv
<1>5. QED
  BY <1>3, <1>4

\* The fabric duplicates something of t: one more of it at most.
LEMMA DuplicateMoves ==
    ASSUME TInv, NEW t \in Seqs, Duplicate(t)
    PROVE  /\ TInv'
           /\ \A s \in Seqs : /\ Requested(s)' = Requested(s)
                              /\ UnderWay(s) <= UnderWay(s)'
                              /\ UnderWay(s)' <= UnderWay(s) + One(t = s)
                              /\ dups[s]' = dups[s] + One(t = s)
<1> USE DEF Duplicate, sender, listener, receiver
<1>1. IsFiniteSet(data) /\ IsFiniteSet(nacks)
  BY DEF TInv, Control
<1>2. \A s : Requested(s)' = Requested(s)
  BY DEF Requested
<1>3. dups' \in [Seqs -> Nat] /\ \A s \in Seqs : dups[s]' = dups[s] + One(t = s)
  <2>1. dups' = [dups EXCEPT ![t] = @ + 1] /\ dups \in [Seqs -> Nat]
    BY DEF TInv, TypeOK
  <2> HIDE DEF Duplicate
  <2>2. ASSUME NEW s \in Seqs PROVE dups[s]' = dups[s] + One(t = s)
    <3>1. CASE s = t
      BY <2>1, <3>1 DEF One
    <3>2. CASE s # t
      BY <2>1, <3>2 DEF One
    <3>3. QED
      BY <3>1, <3>2
  <2>3. QED
    BY <2>1, <2>2
<1>4. dups'[t] \in Nat
  BY <1>3
<1>5. CASE \E p \in data : /\ p.seq = t
                           /\ data' = data \cup {[p EXCEPT !.twin = dups'[t]]}
                           /\ UNCHANGED nacks
  <2>1. PICK p \in data : /\ p.seq = t
                          /\ data' = data \cup {[p EXCEPT !.twin = dups'[t]]}
                          /\ UNCHANGED nacks
    BY <1>5
  <2> DEFINE d == [p EXCEPT !.twin = dups'[t]]
  <2>2. p \in DataFrame
    BY DEF TInv, TypeOK, DataFrame
  <2>3. d \in DataFrame /\ d.seq = t
    BY <1>4, <2>1, <2>2 DEF DataFrame
  <2>4. data' = data \cup {d} /\ nacks' = nacks
    BY <2>1
  <2> HIDE DEF d
  <2>5. IsFiniteSet(data')
    BY <1>1, <2>4, FrameAdded
  <2>6. TypeOK' /\ Control'
    BY <1>1, <1>3, <2>3, <2>4, <2>5 DEF TInv, TypeOK, Control, DataFrame
  <2>7. ASSUME NEW s \in Seqs
        PROVE  /\ UnderWay(s) <= UnderWay(s)'
               /\ UnderWay(s)' <= UnderWay(s) + One(t = s)
    <3>1. /\ FramesOf(data, s) \in Nat /\ FramesOf(data', s) \in Nat
          /\ FramesOf(data, s) <= FramesOf(data', s)
          /\ FramesOf(data', s) <= FramesOf(data, s) + One(t = s)
      BY <1>1, <2>3, <2>4, FrameAdded
    <3>2. FramesOf(nacks, s) \in Nat /\ Requested(s) \in Nat
          /\ FramesOf(nacks', s) = FramesOf(nacks, s) /\ One(t = s) \in Nat
      BY <2>4, Counts DEF One
    <3> HIDE DEF Duplicate
    <3>3. QED
      BY <1>2, <3>1, <3>2 DEF UnderWay
  <2>8. QED
    BY <1>2, <1>3, <2>6, <2>7 DEF TInv
<1>6. CASE \E k \in nacks : /\ k.seq = t
                            /\ nacks' = nacks \cup {[k EXCEPT !.twin = dups'[t]]}
                            /\ UNCHANGED data
  <2>1. PICK k \in nacks : /\ k.seq = t
                           /\ nacks' = nacks \cup {[k EXCEPT !.twin = dups'[t]]}
                           /\ UNCHANGED data
    BY <1>6
  <2> DEFINE d == [k EXCEPT !.twin = dups'[t]]
  <2>2. k \in NackFrame
    BY DEF TInv, TypeOK, NackFrame
  <2>3. d \in NackFrame /\ d.seq = t
    BY <1>4, <2>1, <2>2 DEF NackFrame
  <2>4. nacks' = nacks \cup {d} /\ data' = data
    BY <2>1
  <2> HIDE DEF d
  <2>5. IsFiniteSet(nacks')
    BY <1>1, <2>4, FrameAdded
  <2>6. TypeOK' /\ Control'
    BY <1>1, <1>3, <2>3, <2>4, <2>5 DEF TInv, TypeOK, Control, NackFrame
  <2>7. ASSUME NEW s \in Seqs
        PROVE  /\ UnderWay(s) <= UnderWay(s)'
               /\ UnderWay(s)' <= UnderWay(s) + One(t = s)
    <3>1. /\ FramesOf(nacks, s) \in Nat /\ FramesOf(nacks', s) \in Nat
          /\ FramesOf(nacks, s) <= FramesOf(nacks', s)
          /\ FramesOf(nacks', s) <= FramesOf(nacks, s) + One(t = s)
      BY <1>1, <2>3, <2>4, FrameAdded
    <3>2. FramesOf(data, s) \in Nat /\ Requested(s) \in Nat
          /\ FramesOf(data', s) = FramesOf(data, s) /\ One(t = s) \in Nat
      BY <2>4, Counts DEF One
    <3> HIDE DEF Duplicate
    <3>3. QED
      BY <1>2, <3>1, <3>2 DEF UnderWay
  <2>8. QED
    BY <1>2, <1>3, <2>6, <2>7 DEF TInv
<1>7. QED
  BY <1>5, <1>6

\* A NACK is handled: it becomes a request if it is granted, and else is gone.
LEMMA OnNackMoves ==
    ASSUME TInv, NEW k \in nacks, OnNack(k)
    PROVE  /\ TInv'
           /\ k.seq \in Seqs
           /\ \A s \in Seqs :
                 /\ Requested(s)' = Requested(s)
                        + One(Granted(k.seq) /\ k.seq = s)
                 /\ UnderWay(s)' <= UnderWay(s)
                 /\ s # k.seq \/ Granted(s) => UnderWay(s)' = UnderWay(s)
           /\ Granted(k.seq) => UnderWay(k.seq)' > 0
<1> USE DEF OnNack, sender, receiver
<1> DEFINE r == [seq |-> k.seq, ev |-> k.ev]
           g == Granted(k.seq)
<1>1. k \in NackFrame /\ k.seq \in Seqs /\ r \in Request /\ r.seq = k.seq
  BY DEF TInv, TypeOK, NackFrame, Request
<1>2. IsFiniteSet(nacks) /\ nacks' = nacks \ {k} /\ data' = data /\ todo' = todo
  BY DEF TInv, Control
<1>3. IsFiniteSet(nacks')
  BY <1>2, FrameTaken
<1>4. queue \in Seq(Request)
  BY DEF TInv, TypeOK
<1>5. queue' \in Seq(Request)
  <2>1. queue' = queue \/ queue' = Append(queue, r)
    OBVIOUS
  <2> HIDE DEF r
  <2>2. QED
    BY <1>1, <1>4, <2>1, RequestAdded
<1>6. count' \in [Seqs -> 0..MaxRetransmits]
  <2>1. count \in [Seqs -> 0..MaxRetransmits]
    BY DEF TInv, TypeOK
  <2>2. CASE g
    <3>1. count' = [count EXCEPT ![k.seq] = @ + 1] /\ count[k.seq] < MaxRetransmits
      BY <2>2 DEF Granted
    <3> HIDE DEF OnNack, g
    <3>2. count[k.seq] + 1 \in 0..MaxRetransmits
      BY <1>1, <2>1, <3>1, NackAssumption
    <3>3. QED
      BY <1>1, <2>1, <3>1, <3>2
  <2>3. CASE ~g
    BY <2>1, <2>3
  <2>4. QED
    BY <2>2, <2>3
<1>7. TypeOK' /\ Control'
  BY <1>2, <1>3, <1>5, <1>6 DEF TInv, TypeOK, Control
<1>8. ASSUME NEW s \in Seqs
      PROVE  /\ FramesOf(nacks, s) \in Nat /\ FramesOf(nacks', s) \in Nat
             /\ FramesOf(nacks', s) = FramesOf(nacks, s) - One(k.seq = s)
             /\ FramesOf(data', s) = FramesOf(data, s) /\ FramesOf(data, s) \in Nat
             /\ Requested(s) \in Nat
             /\ One(k.seq = s) \in {0, 1} /\ (One(k.seq = s) = 0 <=> s # k.seq)
  <2>1. FramesOf(nacks, s) \in Nat /\ FramesOf(nacks', s) \in Nat
        /\ FramesOf(nacks', s) = FramesOf(nacks, s) - One(k.seq = s)
    <3> HIDE DEF OnNack
    <3>1. FramesOf(nacks, s) \in Nat /\ FramesOf(nacks \ {k}, s) \in Nat
          /\ FramesOf(nacks \ {k}, s) = FramesOf(nacks, s) - One(k.seq = s)
      <4>1. IsFiniteSet(nacks)
        BY <1>2
      <4>2. QED
        BY <4>1, FrameTaken
    <3>2. QED
      BY <1>2, <3>1
  <2>2. One(k.seq = s) \in {0, 1} /\ (One(k.seq = s) = 0 <=> s # k.seq)
    BY DEF One
  <2>3. QED
    BY <1>2, <2>1, <2>2, Counts
<1>9. CASE g
  <2>1. queue' = Append(queue, r)
    BY <1>9
  <2> HIDE DEF r
  <2>2. ASSUME NEW s \in Seqs
        PROVE  Requested(s)' = Requested(s) + One(k.seq = s)
    <3>1. RequestsOf(queue, s) \in Nat
          /\ RequestsOf(queue', s) = RequestsOf(queue, s) + One(r.seq = s)
      BY <1>1, <1>4, <2>1, RequestAdded
    <3>2. RequestsOf(todo, s) \in Nat /\ RequestsOf(todo', s) = RequestsOf(todo, s)
      BY <1>2, Counts
    <3> HIDE DEF OnNack
    <3>3. QED
      BY <1>1, <1>8, <3>1, <3>2 DEF Requested
  <2> HIDE DEF OnNack
  <2>3. ASSUME NEW s \in Seqs
        PROVE  /\ UnderWay(s)' = UnderWay(s) /\ UnderWay(s) \in Nat
               /\ s = k.seq => UnderWay(s)' > 0
    BY <1>8, <2>2 DEF UnderWay
  <2>4. ASSUME NEW s \in Seqs
        PROVE  One(g /\ k.seq = s) = One(k.seq = s)
    BY <1>9 DEF One
  <2>5. ASSUME NEW s \in Seqs PROVE UnderWay(s)' <= UnderWay(s)
    BY <2>3
  <2>6. QED
    BY <1>1, <1>7, <2>2, <2>3, <2>4, <2>5 DEF TInv
<1>10. CASE ~g
  <2>1. queue' = queue
    BY <1>10
  <2>2. ASSUME NEW s \in Seqs
        PROVE  Requested(s)' = Requested(s)
    BY <1>2, <2>1 DEF Requested
  <2> HIDE DEF OnNack
  <2>3. ASSUME NEW s \in Seqs
        PROVE  /\ UnderWay(s)' = UnderWay(s) - One(k.seq = s)
               /\ UnderWay(s) \in Nat
    BY <1>8, <2>2 DEF UnderWay
  <2>4. ASSUME NEW s \in Seqs
        PROVE  One(g /\ k.seq = s) = 0
    BY <1>10 DEF One
  <2>5. ASSUME NEW s \in Seqs
        PROVE  /\ UnderWay(s)' <= UnderWay(s)
               /\ s # k.seq => UnderWay(s)' = UnderWay(s)
               /\ Requested(s)' = Requested(s) + One(g /\ k.seq = s)
    BY <1>8, <2>2, <2>3, <2>4
  <2>6. \A s \in Seqs : s # k.seq \/ Granted(s) => s # k.seq
    BY <1>10
  <2>7. QED
    BY <1>1, <1>7, <1>10, <2>5, <2>6 DEF TInv
<1>11. QED
  BY <1>9, <1>10


\* A stuttering step moves nothing.
LEMMA Stutter == ASSUME TInv, UNCHANGED vars PROVE TInv'
<1> USE DEF vars, sender, listener, receiver, history
<1>1. TypeOK'
  BY DEF TInv, TypeOK
<1>2. Control'
  BY DEF TInv, Control
<1>3. QED
  BY <1>1, <1>2 DEF TInv

LEMMA TInvNext == TInv /\ [Next]_vars => TInv'
BY TakeMoves, SendNewMoves, ResendMoves, NoteSentTypes, DrainAgainTypes,
   EndPhaseTypes, DeliverMoves, LoseMoves, DuplicateMoves, OnNackMoves, Stutter
   DEF Next

\* No step but note_sent() moves anything between the sender's counters and the
\* listener's without these.
LEMMA Still ==
    NoteSent \/ DrainAgain \/ EndPhase \/ UNCHANGED vars =>
        UNCHANGED <<data, nacks, queue, todo, arrived, pending, resent, lost,
                    unknown, dups, nextSeq>>
BY DEF NoteSent, DrainAgain, EndPhase, vars, sender, listener, receiver, history

\* The variables keep their types, for every value of the constants: what is pending,
\* requested or in flight names packets of the flow, and no NACK is granted beyond
\* the budget of a table entry.
THEOREM TypeCorrect == Spec => []TypeOK
<1>1. Init => TInv
  BY TInvInit
<1>2. TInv /\ [Next]_vars => TInv'
  BY TInvNext
<1>3. TInv => TypeOK
  BY DEF TInv
<1>4. QED
  BY <1>1, <1>2, <1>3, PTL DEF Spec

-----------------------------------------------------------------------------
(***************************************************************************)
(* Retransmission makes no copies.                                         *)
(***************************************************************************)

\* What there is of a seq.
Held(s) == UnderWay(s) + arrived[s]

\* Nothing is there of a seq that was not sent.
Unsent == \A s \in Seqs : s >= nextSeq => Held(s) = 0

CInv == CopiesAreTheFabrics /\ Unsent

LEMMA HeldNat ==
    ASSUME TInv, NEW s \in Seqs
    PROVE  Held(s) \in Nat /\ dups[s] \in Nat /\ nextSeq \in Nat /\ s \in Nat
<1>1. UnderWay(s) \in Nat
  BY Counts
<1>2. arrived[s] \in Nat /\ dups[s] \in Nat /\ nextSeq \in Nat /\ s \in Nat
  BY NackAssumption DEF TInv, TypeOK, Seqs
<1>3. QED
  BY <1>1, <1>2 DEF Held

\* A step by which no seq has more.
LEMMA NoMore ==
    ASSUME TInv, TInv', CInv, nextSeq' = nextSeq, dups' = dups,
           \A s \in Seqs : Held(s)' <= Held(s)
    PROVE  CInv'
<1>1. ASSUME NEW s \in Seqs
      PROVE  Held(s)' <= 1 + dups[s]' /\ (s >= nextSeq' => Held(s)' = 0)
  <2>1. Held(s) \in Nat /\ dups[s] \in Nat /\ Held(s)' \in Nat
    BY HeldNat, CountsAfter DEF Held
  <2>2. Held(s) <= 1 + dups[s] /\ (s >= nextSeq => Held(s) = 0)
    BY DEF CInv, CopiesAreTheFabrics, Unsent, Held
  <2>3. Held(s)' <= Held(s)
    OBVIOUS
  <2>4. QED
    BY <2>1, <2>2, <2>3
<1>2. QED
  BY <1>1 DEF CInv, CopiesAreTheFabrics, Unsent, Held

\* A step that leaves what the receiver has alone and makes nothing.
LEMMA NothingMade ==
    ASSUME TInv, TInv', CInv, UNCHANGED <<nextSeq, dups, arrived>>,
           \A s \in Seqs : UnderWay(s)' <= UnderWay(s)
    PROVE  CInv'
<1>1. ASSUME NEW s \in Seqs PROVE Held(s)' <= Held(s)
  <2>1. UnderWay(s) \in Nat /\ UnderWay(s)' \in Nat /\ arrived[s] \in Nat
    BY Counts, CountsAfter DEF TInv, TypeOK
  <2>2. QED
    BY <2>1 DEF Held
<1>2. QED
  BY <1>1, NoMore

LEMMA CInvInit == Init => CInv
<1> SUFFICES ASSUME Init, NEW s \in Seqs
             PROVE  Held(s) = 0 /\ dups[s] = 0
  BY DEF CInv, CopiesAreTheFabrics, Unsent, Held
<1>1. FramesOf(data, s) = 0 /\ FramesOf(nacks, s) = 0
  BY FramesThere, FS_EmptySet DEF Init
<1>2. RequestsOf(queue, s) = 0 /\ RequestsOf(todo, s) = 0
  BY NoRequests DEF Init
<1>3. arrived[s] = 0 /\ dups[s] = 0
  BY DEF Init, Never
<1>4. QED
  BY <1>1, <1>2, <1>3 DEF Held, UnderWay, Requested

LEMMA CInvSendNew == ASSUME TInv, CInv, SendNew PROVE CInv'
<1>1. TInv' /\ nextSeq \in Seqs
  BY SendNewMoves
<1>2. nextSeq' = nextSeq + 1 /\ UNCHANGED <<arrived, dups>>
  BY DEF SendNew, receiver
<1>3. ASSUME NEW s \in Seqs
      PROVE  Held(s)' <= 1 + dups[s]' /\ (s >= nextSeq' => Held(s)' = 0)
  <2>1. /\ UnderWay(s) \in Nat /\ UnderWay(s)' \in Nat /\ arrived[s] \in Nat
        /\ dups[s] \in Nat /\ nextSeq \in Nat /\ s \in Nat
    BY <1>1, Counts, CountsAfter, HeldNat DEF TInv, TypeOK
  <2>2. UnderWay(s)' <= UnderWay(s) + One(nextSeq = s)
    BY SendNewMoves
  <2>3. /\ UnderWay(s) + arrived[s] <= 1 + dups[s]
        /\ s >= nextSeq => UnderWay(s) + arrived[s] = 0
    BY DEF CInv, CopiesAreTheFabrics, Unsent, Held
  <2>4. CASE s = nextSeq
    BY <1>2, <2>1, <2>2, <2>3, <2>4 DEF Held, One
  <2>5. CASE s # nextSeq
    <3>1. One(nextSeq = s) = 0
      BY <2>5 DEF One
    <3>2. s >= nextSeq' => s >= nextSeq
      BY <1>2, <2>1
    <3>3. QED
      BY <1>2, <2>1, <2>2, <2>3, <3>1, <3>2 DEF Held
  <2>6. QED
    BY <2>4, <2>5
<1>4. QED
  BY <1>3 DEF CInv, CopiesAreTheFabrics, Unsent, Held

LEMMA CInvDuplicate ==
    ASSUME TInv, CInv, NEW t \in Seqs, Duplicate(t)
    PROVE  CInv'
<1>1. TInv'
  BY DuplicateMoves
<1>2. UNCHANGED <<arrived, nextSeq>>
  BY DEF Duplicate, receiver, sender
<1>3. UnderWay(t) > 0
  <2>1. (\E p \in data : p.seq = t) \/ (\E k \in nacks : k.seq = t)
    BY DEF Duplicate
  <2>2. FramesOf(data, t) # 0 \/ FramesOf(nacks, t) # 0
    BY <2>1, FramesThere DEF TInv, Control
  <2>3. QED
    BY <2>2, Counts DEF UnderWay
<1>4. ASSUME NEW s \in Seqs
      PROVE  Held(s)' <= 1 + dups[s]' /\ (s >= nextSeq' => Held(s)' = 0)
  <2>1. /\ UnderWay(s) \in Nat /\ UnderWay(s)' \in Nat /\ arrived[s] \in Nat
        /\ dups[s] \in Nat /\ One(t = s) \in Nat
    BY <1>1, Counts, CountsAfter, HeldNat DEF TInv, TypeOK, One
  <2>2. UnderWay(s)' <= UnderWay(s) + One(t = s) /\ dups[s]' = dups[s] + One(t = s)
    BY DuplicateMoves
  <2>3. /\ UnderWay(s) + arrived[s] <= 1 + dups[s]
        /\ s >= nextSeq => UnderWay(s) + arrived[s] = 0
    BY DEF CInv, CopiesAreTheFabrics, Unsent, Held
  <2>4. s >= nextSeq => One(t = s) = 0
    BY <1>3, <2>1, <2>3 DEF One
  <2>5. QED
    BY <1>2, <2>1, <2>2, <2>3, <2>4 DEF Held
<1>5. QED
  BY <1>4 DEF CInv, CopiesAreTheFabrics, Unsent, Held

LEMMA CInvNext == TInv /\ CInv /\ [Next]_vars => CInv'
<1> SUFFICES ASSUME TInv, CInv, [Next]_vars PROVE CInv'
  OBVIOUS
<1>1. TInv'
  BY TInvNext
<1>2. ASSUME NEW s \in Seqs PROVE UnderWay(s) \in Nat
  BY Counts
<1>3. CASE Take
  <2>1. UNCHANGED <<nextSeq, dups, arrived>>
    BY <1>3 DEF Take, receiver, history
  <2>2. \A s \in Seqs : UnderWay(s)' <= UnderWay(s)
    BY <1>2, <1>3, TakeMoves
  <2>3. QED
    BY <1>1, <2>1, <2>2, NothingMade
<1>4. CASE SendNew
  BY <1>4, CInvSendNew
<1>5. CASE Resend
  <2>1. UNCHANGED <<nextSeq, dups, arrived>>
    BY <1>5 DEF Resend, receiver
  <2>2. \A s \in Seqs : UnderWay(s)' <= UnderWay(s)
    BY <1>5, ResendMoves
  <2>3. QED
    BY <1>1, <2>1, <2>2, NothingMade
<1>6. CASE NoteSent \/ DrainAgain \/ EndPhase \/ UNCHANGED vars
  <2>1. UNCHANGED <<nextSeq, dups, arrived, data, nacks, queue, todo>>
    BY <1>6, Still
  <2>2. \A s \in Seqs : UnderWay(s)' <= UnderWay(s)
    BY <1>2, <2>1, NothingMoves
  <2>3. QED
    BY <1>1, <2>1, <2>2, NothingMade
<1>7. CASE \E p \in data : Deliver(p)
  <2>1. PICK p \in data : Deliver(p)
    BY <1>7
  <2>2. UNCHANGED <<nextSeq, dups>>
    BY <2>1 DEF Deliver, sender, history
  <2>3. \A s \in Seqs : Held(s)' <= Held(s)
    BY <2>1, DeliverMoves DEF Held
  <2>4. QED
    BY <1>1, <2>2, <2>3, NoMore
<1>8. CASE Lose
  <2>1. UNCHANGED <<nextSeq, dups, arrived>>
    BY <1>8 DEF Lose, receiver, sender
  <2>2. \A s \in Seqs : UnderWay(s)' <= UnderWay(s)
    BY <1>8, LoseMoves
  <2>3. QED
    BY <1>1, <2>1, <2>2, NothingMade
<1>9. CASE \E s \in Seqs : Duplicate(s)
  BY <1>9, CInvDuplicate
<1>10. CASE \E k \in nacks : OnNack(k)
  <2>1. PICK k \in nacks : OnNack(k)
    BY <1>10
  <2>2. UNCHANGED <<nextSeq, dups, arrived>>
    BY <2>1 DEF OnNack, receiver, sender
  <2>3. \A s \in Seqs : UnderWay(s)' <= UnderWay(s)
    BY <2>1, OnNackMoves
  <2>4. QED
    BY <1>1, <2>2, <2>3, NothingMade
<1>11. QED
  BY <1>3, <1>4, <1>5, <1>6, <1>7, <1>8, <1>9, <1>10 DEF Next

\* trim.py's exchange of packets, NACKs and requests multiplies nothing, whatever the
\* fabric loses, reorders, trims or duplicates and whatever the table forgets.
THEOREM CopiesKept == Spec => []CopiesAreTheFabrics
<1>1. Init => TInv /\ CInv
  BY TInvInit, CInvInit
<1>2. TInv /\ CInv /\ [Next]_vars => (TInv /\ CInv)'
  BY TInvNext, CInvNext
<1>3. CInv => CopiesAreTheFabrics
  BY DEF CInv
<1>4. QED
  BY <1>1, <1>2, <1>3, PTL DEF Spec


-----------------------------------------------------------------------------
(***************************************************************************)
(* The budget.                                                             *)
(***************************************************************************)

\* How often a seq was handed back, or will be.
Asked(s) == resent[s] + Requested(s)

Allowed(s) == MaxRetransmits * entered[s]

\* No more is granted than was asked for, and a seq in the table has the rest of its
\* budget left.
Account(s) ==
    /\ count[s] <= Asked(s)
    /\ Asked(s) <= Allowed(s)
    /\ Remembered(s) => Asked(s) + (MaxRetransmits - count[s]) <= Allowed(s)

Accounts == \A s \in Seqs : Account(s)

LEMMA AskedNat ==
    ASSUME TInv, NEW s \in Seqs
    PROVE  /\ Asked(s) \in Nat /\ Allowed(s) \in Nat
           /\ entered[s] \in Nat /\ count[s] \in Nat /\ count[s] <= MaxRetransmits
           /\ MaxRetransmits \in Nat
<1>1. /\ Requested(s) \in Nat /\ resent[s] \in Nat
      /\ entered[s] \in Nat /\ count[s] \in 0..MaxRetransmits
  BY Counts DEF TInv, TypeOK
<1>2. \A m, n \in Nat : m * n \in Nat
  OBVIOUS
<1>3. QED
  BY <1>1, <1>2, NackAssumption DEF Asked, Allowed

LEMMA AccountsInit == Init => Accounts
<1> SUFFICES ASSUME Init, NEW s \in Seqs PROVE Account(s)
  BY DEF Accounts
<1>1. RequestsOf(queue, s) = 0 /\ RequestsOf(todo, s) = 0
  BY NoRequests DEF Init
<1>2. resent[s] = 0 /\ entered[s] = 0 /\ count[s] = 0 /\ ~Remembered(s)
  BY DEF Init, Never, Remembered, ToSet
<1>3. Allowed(s) = 0
  BY <1>2, NackAssumption DEF Allowed
<1>4. QED
  BY <1>1, <1>2, <1>3 DEF Account, Asked, Requested

\* Steps that only move requests to and from the batch.
LEMMA AccountsFrame ==
    ASSUME Accounts, UNCHANGED <<recent, count, entered>>,
           \A s \in Seqs : Asked(s)' = Asked(s)
    PROVE  Accounts'
BY DEF Accounts, Account, Allowed, Remembered

\* note_sent(): a seq that enters the table, perhaps again, has a budget of its own.
LEMMA AccountsNoteSent == ASSUME TInv, Accounts, NoteSent PROVE Accounts'
<1>1. PICK t \in Seqs : t = noting
  BY DEF TInv, Control, NoteSent
<1>2. UNCHANGED <<data, nacks, queue, todo, resent>>
  BY Still
<1>3. \A s \in Seqs : Asked(s)' = Asked(s)
  BY <1>2, NothingMoves DEF Asked
<1>4. CASE Remembered(t)
  <2>1. UNCHANGED <<recent, entered, count>>
    BY <1>1, <1>4 DEF NoteSent, CountAfterNote
  <2>2. QED
    BY <1>3, <2>1, AccountsFrame
<1>5. CASE ~Remembered(t)
  <2> DEFINE grown == Append(recent, t)
  <2>1. /\ recent' = IF Len(grown) > RecentSends THEN Tail(grown) ELSE grown
        /\ entered' = [entered EXCEPT ![t] = @ + 1]
        /\ count' = [count EXCEPT ![t] = 0]
    BY <1>1, <1>5 DEF NoteSent, CountAfterNote
  <2>2. ASSUME NEW s, s \in ToSet(recent')
        PROVE  s = t \/ s \in ToSet(recent)
    <3>1. /\ grown \in Seq(Seqs) /\ Len(grown) = Len(recent) + 1
          /\ Len(recent) \in Nat /\ recent \in Seq(Seqs)
      BY <1>1 DEF TInv, TypeOK
    <3>2. \A i \in 1..Len(grown) : grown[i] = t \/ grown[i] \in ToSet(recent)
      BY <3>1 DEF ToSet
    <3>3. \A i \in 1..Len(Tail(grown)) : Tail(grown)[i] = grown[i + 1]
                                          /\ i + 1 \in 1..Len(grown)
      BY <3>1
    <3>4. DOMAIN grown = 1..Len(grown) /\ DOMAIN Tail(grown) = 1..Len(Tail(grown))
      BY <3>1
    <3>5. ToSet(grown) \subseteq ToSet(recent) \cup {t}
      BY <3>2, <3>4 DEF ToSet
    <3>6. ToSet(Tail(grown)) \subseteq ToSet(recent) \cup {t}
      BY <3>2, <3>3, <3>4 DEF ToSet
    <3>7. recent' = grown \/ recent' = Tail(grown)
      BY <2>1
    <3>8. CASE recent' = grown
      <4>1. ToSet(recent') = ToSet(grown)
        BY <3>8
      <4>2. QED
        BY <2>2, <3>5, <4>1
    <3>9. CASE recent' = Tail(grown)
      <4>1. ToSet(recent') = ToSet(Tail(grown))
        BY <3>9
      <4>2. QED
        BY <2>2, <3>6, <4>1
    <3>10. QED
      BY <3>7, <3>8, <3>9
  <2>3. ASSUME NEW s \in Seqs, s # t
        PROVE  Account(s)'
    <3>1. entered[s]' = entered[s] /\ count[s]' = count[s]
      BY <1>1, <2>1, <2>3 DEF TInv, TypeOK
    <3>2. Remembered(s)' => Remembered(s)
      BY <2>2, <2>3 DEF Remembered
    <3>3. QED
      BY <1>3, <3>1, <3>2 DEF Accounts, Account, Allowed
  <2>4. Account(t)'
    <3>1. entered[t]' = entered[t] + 1 /\ count[t]' = 0
      BY <1>1, <2>1 DEF TInv, TypeOK
    <3>2. /\ Asked(t) \in Nat /\ Allowed(t) \in Nat
          /\ entered[t] \in Nat /\ MaxRetransmits \in Nat
      BY <1>1, AskedNat
    <3>3. \A m, n \in Nat : m * (n + 1) = m * n + m
      OBVIOUS
    <3>4. Allowed(t)' = Allowed(t) + MaxRetransmits
      BY <3>1, <3>2, <3>3 DEF Allowed
    <3>5. Asked(t)' = Asked(t) /\ Asked(t) <= Allowed(t)
      BY <1>1, <1>3 DEF Accounts, Account
    <3>6. QED
      BY <3>1, <3>2, <3>4, <3>5 DEF Account
  <2>5. QED
    BY <2>3, <2>4 DEF Accounts
<1>6. QED
  BY <1>4, <1>5

\* A granted NACK is one more request, out of the budget that is left.
LEMMA AccountsOnNack ==
    ASSUME TInv, Accounts, NEW k \in nacks, OnNack(k)
    PROVE  Accounts'
<1>1. k.seq \in Seqs
  BY OnNackMoves
<1>2. UNCHANGED <<recent, entered, resent>>
  BY DEF OnNack
<1>3. CASE ~Granted(k.seq)
  <2>1. UNCHANGED count
    BY <1>3 DEF OnNack
  <2>2. \A s \in Seqs : Requested(s)' = Requested(s)
    BY <1>3, Counts, OnNackMoves DEF One
  <2>3. \A s \in Seqs : Asked(s)' = Asked(s)
    BY <1>2, <2>2 DEF Asked
  <2>4. QED
    BY <1>2, <2>1, <2>3, AccountsFrame
<1>4. CASE Granted(k.seq)
  <2>1. count' = [count EXCEPT ![k.seq] = @ + 1]
    BY <1>4 DEF OnNack
  <2>2. ASSUME NEW s \in Seqs, s # k.seq
        PROVE  Account(s)'
    <3>1. count[s]' = count[s]
      BY <2>1, <2>2 DEF TInv, TypeOK
    <3>2. Requested(s)' = Requested(s)
      BY <2>2, Counts, OnNackMoves DEF One
    <3>3. QED
      BY <1>2, <3>1, <3>2 DEF Accounts, Account, Asked, Allowed, Remembered
  <2>3. Account(k.seq)'
    <3> DEFINE s == k.seq
    <3>1. count[s]' = count[s] + 1
      BY <1>1, <2>1 DEF TInv, TypeOK
    <3>2. Requested(s)' = Requested(s) + 1
      BY <1>1, <1>4, OnNackMoves DEF One
    <3>3. /\ Asked(s) \in Nat /\ Allowed(s) \in Nat /\ count[s] \in Nat
          /\ Requested(s) \in Nat /\ resent[s] \in Nat /\ MaxRetransmits \in Nat
      BY <1>1, AskedNat, Counts DEF TInv, TypeOK
    <3>4. Asked(s)' = Asked(s) + 1 /\ Allowed(s)' = Allowed(s)
      BY <1>2, <3>2, <3>3 DEF Asked, Allowed
    <3>5. /\ count[s] <= Asked(s) /\ count[s] < MaxRetransmits
          /\ Asked(s) + (MaxRetransmits - count[s]) <= Allowed(s)
      BY <1>1, <1>4 DEF Accounts, Account, Granted
    <3>6. QED
      BY <3>1, <3>3, <3>4, <3>5 DEF Account
  <2>4. QED
    BY <2>2, <2>3 DEF Accounts
<1>5. QED
  BY <1>3, <1>4

LEMMA AccountsNext == TInv /\ Accounts /\ [Next]_vars => Accounts'
<1> SUFFICES ASSUME TInv, Accounts, [Next]_vars PROVE Accounts'
  OBVIOUS
<1>1. ASSUME UNCHANGED <<recent, count, entered, resent>>,
             \A s \in Seqs : Requested(s)' = Requested(s)
      PROVE  Accounts'
  BY <1>1, AccountsFrame DEF Asked
<1>2. CASE Take
  BY <1>1, <1>2, TakeMoves DEF Take, history
<1>3. CASE SendNew
  BY <1>1, <1>3, SendNewMoves DEF SendNew, listener
<1>4. CASE Resend
  <2>1. UNCHANGED <<recent, count, entered>>
    BY <1>4 DEF Resend, listener
  <2>2. ASSUME NEW s \in Seqs PROVE Asked(s)' = Asked(s)
    <3>1. /\ Requested(s)' = Requested(s) - One(Head(todo).seq = s)
          /\ resent[s]' = resent[s] + One(Head(todo).seq = s)
      BY <1>4, ResendMoves
    <3>2. Requested(s) \in Nat /\ resent[s] \in Nat
          /\ One(Head(todo).seq = s) \in Nat
      BY Counts DEF TInv, TypeOK, One
    <3>3. QED
      BY <3>1, <3>2 DEF Asked
  <2>3. QED
    BY <2>1, <2>2, AccountsFrame
<1>5. CASE NoteSent
  BY <1>5, AccountsNoteSent
<1>6. CASE DrainAgain \/ EndPhase \/ UNCHANGED vars
  <2>1. UNCHANGED <<recent, count, entered, resent, data, nacks, queue, todo>>
    BY <1>6 DEF DrainAgain, EndPhase, vars, sender, listener, history
  <2>2. QED
    BY <1>1, <2>1, NothingMoves
<1>7. CASE \E p \in data : Deliver(p)
  BY <1>1, <1>7, DeliverMoves DEF Deliver, listener, history
<1>8. CASE Lose
  BY <1>1, <1>8, LoseMoves DEF Lose, listener
<1>9. CASE \E s \in Seqs : Duplicate(s)
  BY <1>1, <1>9, DuplicateMoves DEF Duplicate, listener
<1>10. CASE \E k \in nacks : OnNack(k)
  BY <1>10, AccountsOnNack
<1>11. QED
  BY <1>2, <1>3, <1>4, <1>5, <1>6, <1>7, <1>8, <1>9, <1>10 DEF Next

\* NackListener's budget, for every size of the table: each entry of a seq grants
\* max_retransmits at most, and what was granted in an earlier one, evicted since, is
\* never given again.
THEOREM BudgetKept == Spec => []BudgetPerEntry
<1>1. Init => TInv /\ Accounts
  BY TInvInit, AccountsInit
<1>2. TInv /\ Accounts /\ [Next]_vars => (TInv /\ Accounts)'
  BY TInvNext, AccountsNext
<1>3. Accounts => BudgetPerEntry
  BY DEF Accounts, Account, Asked, Allowed, BudgetPerEntry
<1>4. QED
  BY <1>1, <1>2, <1>3, PTL DEF Spec

-----------------------------------------------------------------------------
(***************************************************************************)
(* Recovery.                                                               *)
(***************************************************************************)

\* Steps that take nothing away from a pending seq.
LEMMA PursuedFrame ==
    ASSUME TInv, TInv', Pursued, pending' \subseteq pending,
           lost \subseteq lost', unknown \subseteq unknown',
           \A s \in pending' : /\ resent[s] <= resent[s]'
                               /\ UnderWay(s) <= UnderWay(s)' \/ s \in lost'
    PROVE  Pursued'
<1> SUFFICES ASSUME NEW s \in pending'
             PROVE  \/ UnderWay(s)' > 0
                    \/ resent[s]' >= MaxRetransmits
                    \/ s \in lost' \cup unknown'
  BY DEF Pursued
<1>1. s \in Seqs /\ s \in pending
  BY DEF TInv, TypeOK
<1>2. /\ UnderWay(s) \in Nat /\ UnderWay(s)' \in Nat
      /\ resent[s] \in Nat /\ resent[s]' \in Nat
  BY <1>1, Counts, CountsAfter DEF TInv, TypeOK
<1>3. \/ UnderWay(s) > 0
      \/ resent[s] >= MaxRetransmits
      \/ s \in lost \cup unknown
  BY <1>1 DEF Pursued
<1>4. QED
  BY <1>2, <1>3, NackAssumption

\* The ones where the sender's counters and the receiver stay.
LEMMA PursuedStill ==
    ASSUME TInv, TInv', Pursued, UNCHANGED <<pending, resent>>,
           lost \subseteq lost', unknown \subseteq unknown',
           \A s \in Seqs : UnderWay(s) <= UnderWay(s)' \/ s \in lost'
    PROVE  Pursued'
<1>1. \A s \in pending' : s \in Seqs /\ resent[s] \in Nat /\ resent[s]' = resent[s]
  BY DEF TInv, TypeOK
<1>2. QED
  BY <1>1, PursuedFrame

LEMMA PursuedResend == ASSUME TInv, Pursued, Resend PROVE Pursued'
<1>1. TInv'
  BY ResendMoves
<1>2. UNCHANGED <<pending, unknown>> /\ lost \subseteq lost'
  BY DEF Resend, receiver
<1> SUFFICES ASSUME NEW s \in pending'
             PROVE  \/ UnderWay(s)' > 0
                    \/ resent[s]' >= MaxRetransmits
                    \/ s \in lost' \cup unknown'
  BY DEF Pursued
<1>3. s \in pending /\ s \in Seqs
  BY <1>2 DEF TInv, TypeOK
<1>4. One(Head(todo).seq = s) \in {0, 1}
  BY DEF One
<1>5. CASE One(Head(todo).seq = s) = 1
  BY <1>3, <1>5, ResendMoves
<1>6. CASE One(Head(todo).seq = s) = 0
  <2>1. UnderWay(s)' = UnderWay(s) /\ resent[s]' = resent[s] + 0
    BY <1>3, <1>6, ResendMoves
  <2>2. resent[s]' = resent[s]
    BY <1>3, <2>1 DEF TInv, TypeOK
  <2>3. QED
    BY <1>2, <1>3, <2>1, <2>2 DEF Pursued
<1>7. QED
  BY <1>4, <1>5, <1>6

LEMMA PursuedDeliver ==
    ASSUME TInv, Pursued, NEW p \in data, Deliver(p)
    PROVE  Pursued'
<1>1. TInv' /\ p.seq \in Seqs
  BY DeliverMoves
<1>2. UNCHANGED <<resent, lost, unknown>>
  BY DEF Deliver, history
<1> SUFFICES ASSUME NEW s \in pending'
             PROVE  \/ UnderWay(s)' > 0
                    \/ resent[s]' >= MaxRetransmits
                    \/ s \in lost' \cup unknown'
  BY DEF Pursued
<1>3. s \in pending \/ s = p.seq
  BY DEF Deliver
<1>4. s = p.seq => p.trimmed
  BY DEF Deliver
<1>5. CASE s = p.seq
  BY <1>4, <1>5, DeliverMoves
<1>6. CASE s # p.seq
  <2>1. s \in pending /\ s \in Seqs
    BY <1>3, <1>6 DEF TInv, TypeOK
  <2>2. UnderWay(s)' = UnderWay(s)
    BY <1>6, <2>1, DeliverMoves
  <2>3. QED
    BY <1>2, <2>1, <2>2 DEF Pursued
<1>7. QED
  BY <1>5, <1>6

\* An ignored NACK is of a seq that the table does not know or whose budget is spent.
LEMMA PursuedOnNack ==
    ASSUME TInv, Accounts, Pursued, NEW k \in nacks, OnNack(k)
    PROVE  Pursued'
<1>1. TInv' /\ k.seq \in Seqs
  BY OnNackMoves
<1>2. UNCHANGED <<resent, lost, pending>> /\ unknown \subseteq unknown'
  BY DEF OnNack, receiver
<1> SUFFICES ASSUME NEW s \in pending'
             PROVE  \/ UnderWay(s)' > 0
                    \/ resent[s]' >= MaxRetransmits
                    \/ s \in lost' \cup unknown'
  BY DEF Pursued
<1>3. s \in pending /\ s \in Seqs
  BY <1>2 DEF TInv, TypeOK
<1>4. CASE s # k.seq
  <2>1. UnderWay(s)' = UnderWay(s)
    BY <1>3, <1>4, OnNackMoves
  <2>2. QED
    BY <1>2, <1>3, <2>1 DEF Pursued
<1>5. CASE s = k.seq /\ Granted(s)
  BY <1>5, OnNackMoves
<1>6. CASE s = k.seq /\ ~Remembered(s)
  BY <1>6 DEF OnNack
<1>7. CASE s = k.seq /\ Remembered(s) /\ ~Granted(s)
  <2>1. count[s] = MaxRetransmits
    BY <1>3, <1>7, NackAssumption DEF Granted, TInv, TypeOK
  <2>2. MaxRetransmits <= resent[s] + Requested(s)
    BY <1>3, <2>1 DEF Accounts, Account, Asked
  <2>3. Requested(s)' = Requested(s)
    BY <1>3, <1>7, Counts, OnNackMoves DEF One
  <2>4. /\ Requested(s) \in Nat /\ resent[s] \in Nat /\ UnderWay(s)' \in Nat
        /\ resent[s]' = resent[s]
    BY <1>1, <1>2, <1>3, Counts, CountsAfter DEF TInv, TypeOK
  <2>5. CASE Requested(s) = 0
    BY <2>2, <2>4, <2>5, NackAssumption
  <2>6. CASE Requested(s) > 0
    <3>1. FramesOf(data', s) \in Nat /\ FramesOf(nacks', s) \in Nat
      BY <1>1, FramesThere DEF TInv, Control
    <3>2. UnderWay(s)' > 0
      BY <2>3, <2>4, <2>6, <3>1 DEF UnderWay
    <3>3. QED
      BY <3>2
  <2>7. QED
    BY <2>4, <2>5, <2>6
<1>8. QED
  BY <1>4, <1>5, <1>6, <1>7

LEMMA PursuedNext == TInv /\ Accounts /\ Pursued /\ [Next]_vars => Pursued'
<1> SUFFICES ASSUME TInv, Accounts, Pursued, [Next]_vars PROVE Pursued'
  OBVIOUS
<1>1. TInv'
  BY TInvNext
<1>2. ASSUME NEW s \in Seqs PROVE UnderWay(s) \in Nat
  BY Counts
<1>3. CASE Take
  <2>1. UNCHANGED <<pending, resent, lost, unknown>>
    BY <1>3 DEF Take, receiver, history
  <2>2. \A s \in Seqs : UnderWay(s) <= UnderWay(s)'
    BY <1>2, <1>3, TakeMoves
  <2>3. QED
    BY <1>1, <2>1, <2>2, PursuedStill
<1>4. CASE SendNew
  <2>1. UNCHANGED <<pending, resent, unknown>> /\ lost \subseteq lost'
    BY <1>4 DEF SendNew, receiver
  <2>2. \A s \in Seqs : UnderWay(s) <= UnderWay(s)'
    BY <1>4, SendNewMoves
  <2>3. QED
    BY <1>1, <2>1, <2>2, PursuedStill
<1>5. CASE Resend
  BY <1>5, PursuedResend
<1>6. CASE NoteSent \/ DrainAgain \/ EndPhase \/ UNCHANGED vars
  <2>1. UNCHANGED <<pending, resent, lost, unknown, data, nacks, queue, todo>>
    BY <1>6, Still
  <2>2. \A s \in Seqs : UnderWay(s) <= UnderWay(s)'
    BY <1>2, <2>1, NothingMoves
  <2>3. QED
    BY <1>1, <2>1, <2>2, PursuedStill
<1>7. CASE \E p \in data : Deliver(p)
  BY <1>7, PursuedDeliver
<1>8. CASE Lose
  <2>1. UNCHANGED <<pending, resent, unknown>> /\ lost \subseteq lost'
    BY <1>8 DEF Lose, receiver
  <2>2. \A s \in Seqs : UnderWay(s) <= UnderWay(s)' \/ s \in lost'
    BY <1>2, <1>8, LoseMoves
  <2>3. QED
    BY <1>1, <2>1, <2>2, PursuedStill
<1>9. CASE \E s \in Seqs : Duplicate(s)
  <2>1. UNCHANGED <<pending, resent, lost, unknown>>
    BY <1>9 DEF Duplicate, receiver
  <2>2. \A s \in Seqs : UnderWay(s) <= UnderWay(s)'
    BY <1>9, DuplicateMoves
  <2>3. QED
    BY <1>1, <2>1, <2>2, PursuedStill
<1>10. CASE \E k \in nacks : OnNack(k)
  BY <1>10, PursuedOnNack
<1>11. QED
  BY <1>3, <1>4, <1>5, <1>6, <1>7, <1>8, <1>9, <1>10 DEF Next

\* A trimmed packet is never forgotten by all of packets, NACKs, requests and the
\* budget unless something of it was lost or the table ignored a NACK of it.
THEOREM TrimmedArePursued == Spec => []Pursued
<1>1. Init => TInv /\ Accounts /\ Pursued
  <2>1. Init => Pursued
    BY DEF Init, Pursued
  <2>2. QED
    BY <2>1, TInvInit, AccountsInit
<1>2. TInv /\ Accounts /\ Pursued /\ [Next]_vars => (TInv /\ Accounts /\ Pursued)'
  BY TInvNext, AccountsNext, PursuedNext
<1>3. QED
  BY <1>1, <1>2, PTL DEF Spec


-----------------------------------------------------------------------------
(***************************************************************************)
(* FlowReport: the receiver's threads and the statistics they share.       *)
(***************************************************************************)

Stat == [first : Seqs \cup {None}, last : Nat, window : SUBSET Seqs,
         received : Nat, duplicates : Nat]

Holding == [seq : Seqs, into : EVs \cup {None}]

\* No FlowStats is stored, so no thread has any and none has counted; or the ones of
\* a thread that is still creating its own are empty and nobody's.
Own ==
    /\ tracker = None =>
           \A e \in EVs : /\ stats[e].window = {}
                          /\ hand[e] # None => hand[e].into = None
    /\ \A f \in EVs : hand[f] # None /\ hand[f].into = None =>
           /\ stats[f].window = {} /\ tracker # f
           /\ \A e \in EVs : hand[e] # None => hand[e].into # f

RepInv ==
    /\ hand \in [EVs -> Holding \cup {None}]
    /\ stats \in [EVs -> Stat]
    /\ tracker \in EVs \cup {None}
    /\ trims \in [trimmed : Nat, recovered : Nat]
    /\ Own
    /\ CountedOnce

LEMMA PendingThere ==
    ASSUME TInv
    PROVE  IsFiniteSet(pending) /\ Cardinality(pending) \in Nat
<1>1. IsFiniteSet(1..NumPkts)
  <2>1. 1 \in Int /\ NumPkts \in Int
    BY NackAssumption
  <2>2. QED
    BY <2>1, FS_Interval
<1>2. pending \in SUBSET (1..NumPkts)
  BY DEF TInv, TypeOK, Seqs
<1>3. QED
  BY <1>1, <1>2, FS_Subset, FS_CardinalityType

\* Each step is one of NackRetransmit, or leaves its variables alone.
LEMMA StepOfFlow == [RNext]_rvars => [Next]_vars
BY DEF RNext, rvars, Elsewhere, Next, Handle, Store, Count

\* The report only adds variables: every theorem about Spec holds of RSpec.
THEOREM ReportKeepsToTheFlow == RSpec => Spec
<1>1. RInit => Init
  BY DEF RInit
<1>2. [RNext]_rvars => [Next]_vars
  BY StepOfFlow
<1>3. QED
  BY <1>1, <1>2, PTL DEF RSpec, Spec

LEMMA RepInit == RInit => RepInv
<1> SUFFICES ASSUME RInit PROVE RepInv
  OBVIOUS
<1>1. /\ hand = [e \in EVs |-> None] /\ stats = [e \in EVs |-> Fresh]
      /\ tracker = None /\ trims = [trimmed |-> 0, recovered |-> 0]
      /\ arrived = [s \in Seqs |-> 0] /\ pending = {}
  BY DEF RInit, Init, Never
<1>2. Fresh \in Stat /\ Fresh.window = {} /\ Fresh.received = 0
  BY DEF Fresh, Stat
<1>3. Own
  BY <1>1, <1>2 DEF Own
<1>4. Counted = {}
  BY <1>1, <1>2 DEF Counted
<1>5. InHand = {} /\ Delivered = {}
  BY <1>1 DEF InHand, Delivered
<1>6. \A e \in EVs : stats[e].received = Cardinality(stats[e].window)
  BY <1>1, <1>2, FS_EmptySet
<1>7. trims.recovered + Cardinality(pending) <= trims.trimmed
  <2>1. Cardinality(pending) = 0
    BY <1>1, FS_EmptySet
  <2>2. QED
    BY <1>1, <2>1
<1>8. CountedOnce
  BY <1>4, <1>5, <1>6, <1>7 DEF CountedOnce
<1>9. QED
  BY <1>1, <1>2, <1>3, <1>8 DEF RepInv

\* What the threads hold after one of them took a packet.
LEMMA InHandGrows ==
    ASSUME hand \in [EVs -> Holding \cup {None}], NEW e \in EVs, NEW h \in Holding,
           hand[e] = None, hand' = [hand EXCEPT ![e] = h]
    PROVE  InHand' = InHand \cup {h.seq}
<1>1. h # None
  BY ReportAssumption DEF Holding
<1>2. \A f \in EVs : hand'[f] = IF f = e THEN h ELSE hand[f]
  OBVIOUS
<1>3. InHand' = {hand'[f].seq : f \in {g \in EVs : hand'[g] # None}}
  BY DEF InHand
<1>4. ASSUME NEW s \in InHand PROVE s \in InHand'
  <2>1. PICK f \in EVs : hand[f] # None /\ s = hand[f].seq
    BY <1>4 DEF InHand
  <2>2. QED
    BY <1>2, <1>3, <2>1
<1>5. ASSUME NEW s \in InHand' PROVE s \in InHand \cup {h.seq}
  <2>1. PICK f \in EVs : hand'[f] # None /\ s = hand'[f].seq
    BY <1>3, <1>5
  <2>2. QED
    BY <1>2, <2>1 DEF InHand
<1>6. h.seq \in InHand'
  BY <1>1, <1>2, <1>3
<1>7. QED
  BY <1>4, <1>5, <1>6

\* The trim counters follow what becomes and stops being pending.
LEMMA TrimsKept ==
    ASSUME TInv, RepInv, NEW p \in data, Handle(p)
    PROVE  /\ trims' \in [trimmed : Nat, recovered : Nat]
           /\ trims'.recovered + Cardinality(pending') <= trims'.trimmed
<1> DEFINE c == Cardinality(pending)
<1>1. trims \in [trimmed : Nat, recovered : Nat] /\ trims.recovered + c <= trims.trimmed
  BY DEF RepInv, CountedOnce
<1>2. IsFiniteSet(pending) /\ c \in Nat
  BY PendingThere
<1>3. CASE p.trimmed
  <2>1. trims' = [trims EXCEPT !.trimmed = @ + 1] /\ pending' = pending \cup {p.seq}
    BY <1>3 DEF Handle, Deliver, TrimsAfter
  <2>2. Cardinality(pending \cup {p.seq}) = IF p.seq \in pending THEN c ELSE c + 1
    BY <1>2, FS_AddElement
  <2>3. trims'.recovered = trims.recovered /\ trims'.trimmed = trims.trimmed + 1
    BY <1>1, <2>1
  <2> HIDE DEF c
  <2>4. Cardinality(pending') <= c + 1 /\ Cardinality(pending') \in Nat
    BY <1>2, <2>1, <2>2
  <2>5. QED
    BY <1>1, <1>2, <2>1, <2>3, <2>4
<1>4. CASE ~p.trimmed /\ p.seq \in pending
  <2>1. trims' = [trims EXCEPT !.recovered = @ + 1] /\ pending' = pending \ {p.seq}
    BY <1>4 DEF Handle, Deliver, TrimsAfter
  <2>2. Cardinality(pending \ {p.seq}) = c - 1
    BY <1>2, <1>4, FS_RemoveElement
  <2>3. trims'.recovered = trims.recovered + 1 /\ trims'.trimmed = trims.trimmed
    BY <1>1, <2>1
  <2> HIDE DEF c
  <2>4. Cardinality(pending') = c - 1
    BY <2>1, <2>2
  <2>5. QED
    BY <1>1, <1>2, <2>1, <2>3, <2>4
<1>5. CASE ~p.trimmed /\ p.seq \notin pending
  <2>1. trims' = trims /\ pending' = pending
    BY <1>5 DEF Handle, Deliver, TrimsAfter
  <2>2. QED
    BY <1>1, <2>1
<1>6. QED
  BY <1>3, <1>4, <1>5

LEMMA RepHandle ==
    ASSUME TInv, RepInv, NEW p \in data, Handle(p)
    PROVE  RepInv'
<1>1. p.seq \in Seqs /\ p.ev \in EVs
  BY DEF TInv, TypeOK
<1>2. UNCHANGED <<stats, tracker>> /\ hand[p.ev] = None
  BY DEF Handle
<1>3. /\ trims' \in [trimmed : Nat, recovered : Nat]
      /\ trims'.recovered + Cardinality(pending') <= trims'.trimmed
  BY TrimsKept
<1>4. CASE p.trimmed
  <2>1. UNCHANGED <<hand, arrived>>
    BY <1>4 DEF Handle, Deliver
  <2>2. InHand' = InHand /\ Delivered' = Delivered /\ Counted' = Counted
    BY <1>2, <2>1 DEF InHand, Delivered, Counted
  <2>3. CountedOnce'
    BY <1>2, <1>3, <2>2 DEF RepInv, CountedOnce
  <2>4. Own'
    BY <1>2, <2>1 DEF RepInv, Own
  <2>5. QED
    BY <1>2, <1>3, <2>1, <2>3, <2>4 DEF RepInv
<1>5. CASE ~p.trimmed
  <2> DEFINE h == [seq |-> p.seq, into |-> tracker]
  <2>1. /\ hand' = [hand EXCEPT ![p.ev] = h]
        /\ arrived' = [arrived EXCEPT ![p.seq] = @ + 1]
    BY <1>5 DEF Handle, Deliver, Found
  <2>2. h \in Holding /\ h.seq = p.seq /\ h.into = tracker
    BY <1>1 DEF RepInv, Holding
  <2> HIDE DEF h
  <2>3. hand \in [EVs -> Holding \cup {None}] /\ hand' \in [EVs -> Holding \cup {None}]
    BY <1>1, <2>1, <2>2 DEF RepInv
  <2>4. InHand' = InHand \cup {p.seq}
    BY <1>1, <1>2, <2>1, <2>2, <2>3, InHandGrows
  <2>5. Delivered' = Delivered \cup {p.seq}
    <3>1. arrived \in [Seqs -> Nat]
      BY DEF TInv, TypeOK
    <3>2. \A s \in Seqs : arrived'[s] > 0 <=> arrived[s] > 0 \/ s = p.seq
      BY <1>1, <2>1, <3>1
    <3>3. QED
      BY <1>1, <3>2 DEF Delivered
  <2>6. CountedOnce'
    <3>1. Counted' = Counted
      BY <1>2 DEF Counted
    <3>2. Counted \cup InHand = Delivered
      BY DEF RepInv, CountedOnce
    <3>3. Counted' \cup InHand' = Delivered'
      BY <2>4, <2>5, <3>1, <3>2
    <3>4. \A e \in EVs : stats'[e].received = Cardinality(stats'[e].window)
      BY <1>2 DEF RepInv, CountedOnce
    <3>5. QED
      BY <1>3, <3>3, <3>4 DEF CountedOnce
  <2>7. Own'
    <3>1. \A e \in EVs : hand'[e] = IF e = p.ev THEN h ELSE hand[e]
      BY <2>1, <2>3
    <3>2. Own
      BY DEF RepInv
    <3>3. tracker' = None =>
              \A e \in EVs : /\ stats'[e].window = {}
                             /\ hand'[e] # None => hand'[e].into = None
      BY <1>2, <2>2, <3>1, <3>2 DEF Own
    <3>4. ASSUME NEW f \in EVs, hand'[f] # None, hand'[f].into = None
          PROVE  /\ stats'[f].window = {} /\ tracker' # f
                 /\ \A e \in EVs : hand'[e] # None => hand'[e].into # f
      <4>1. f # None
        BY NackAssumption
      <4>2. CASE tracker = None
        BY <1>2, <2>2, <3>1, <3>2, <4>1, <4>2 DEF Own
      <4>3. CASE tracker # None
        <5>1. f # p.ev
          BY <2>2, <3>1, <3>4, <4>3
        <5>2. hand[f] # None /\ hand[f].into = None
          BY <3>1, <3>4, <5>1
        <5>3. QED
          BY <1>2, <2>2, <3>1, <3>2, <5>2 DEF Own
      <4>4. QED
        BY <4>2, <4>3
    <3>5. QED
      BY <3>3, <3>4 DEF Own
  <2>8. QED
    BY <1>2, <1>3, <2>3, <2>6, <2>7 DEF RepInv
<1>6. QED
  BY <1>4, <1>5


\* A thread stores the FlowStats it made, which nobody has counted in.
LEMMA RepStore ==
    ASSUME TInv, RepInv, NEW e \in EVs, Store(e)
    PROVE  RepInv'
<1> DEFINE h == [hand[e] EXCEPT !.into = e]
<1>1. hand \in [EVs -> Holding \cup {None}] /\ stats \in [EVs -> Stat] /\ Own
  BY DEF RepInv
<1>2. /\ hand[e] # None /\ hand[e].into = None
      /\ tracker' = e /\ stats' = [stats EXCEPT ![e] = Fresh]
      /\ hand' = [hand EXCEPT ![e].into = e]
      /\ UNCHANGED <<arrived, pending, trims>>
  BY DEF Store, vars, receiver
<1>3. hand[e] \in Holding
  BY <1>1, <1>2
<1>4. h \in Holding /\ h.seq = hand[e].seq /\ h.into = e
  BY <1>3 DEF Holding
<1>5. hand' = [hand EXCEPT ![e] = h]
  BY <1>2
<1> HIDE DEF h
<1>6. \A f \in EVs : hand'[f] = IF f = e THEN h ELSE hand[f]
  BY <1>1, <1>5
<1>7. hand' \in [EVs -> Holding \cup {None}]
  BY <1>1, <1>4, <1>5
<1>8. Fresh \in Stat /\ Fresh.window = {} /\ Fresh.received = 0
  BY DEF Fresh, Stat
<1>9. stats' \in [EVs -> Stat] /\ \A f \in EVs : stats'[f] = IF f = e THEN Fresh ELSE stats[f]
  BY <1>1, <1>2, <1>8
<1>10. stats[e].window = {}
  BY <1>1, <1>2 DEF Own
<1>11. h # None /\ e # None
  BY <1>4, ReportAssumption, NackAssumption DEF Holding
<1>12. CountedOnce'
  <2>1. \A f \in EVs : stats'[f].window = stats[f].window
    BY <1>8, <1>9, <1>10
  <2>2. Counted' = Counted
    BY <2>1 DEF Counted
  <2>3. Counted \cup InHand = Delivered /\ Delivered' = Delivered
    BY <1>2 DEF RepInv, CountedOnce, Delivered
  <2>4. InHand' = InHand
    <3>1. \A f \in EVs : (hand'[f] # None <=> hand[f] # None)
                          /\ (hand[f] # None => hand'[f].seq = hand[f].seq)
      BY <1>2, <1>4, <1>6, <1>11
    <3>2. ASSUME NEW s \in InHand PROVE s \in InHand'
      BY <3>1, <3>2 DEF InHand
    <3>3. ASSUME NEW s \in InHand' PROVE s \in InHand
      BY <3>1, <3>3 DEF InHand
    <3>4. QED
      BY <3>2, <3>3
  <2>5. \A f \in EVs : stats'[f].received = Cardinality(stats'[f].window)
    BY <1>8, <1>9, FS_EmptySet DEF RepInv, CountedOnce
  <2>6. trims'.recovered + Cardinality(pending') <= trims'.trimmed
    BY <1>2 DEF RepInv, CountedOnce
  <2>7. QED
    BY <2>2, <2>3, <2>4, <2>5, <2>6 DEF CountedOnce
<1>13. Own'
  <2>1. tracker' # None
    BY <1>2, <1>11
  <2>2. ASSUME NEW f \in EVs, hand'[f] # None, hand'[f].into = None
        PROVE  /\ stats'[f].window = {} /\ tracker' # f
               /\ \A g \in EVs : hand'[g] # None => hand'[g].into # f
    <3>1. f # e
      BY <1>4, <1>6, <1>11, <2>2
    <3>2. hand[f] # None /\ hand[f].into = None
      BY <1>6, <2>2, <3>1
    <3>3. QED
      BY <1>1, <1>2, <1>4, <1>6, <1>9, <3>1, <3>2 DEF Own
  <2>3. QED
    BY <2>1, <2>2 DEF Own
<1>14. trims' \in [trimmed : Nat, recovered : Nat] /\ tracker' \in EVs \cup {None}
  BY <1>2 DEF RepInv
<1>15. QED
  BY <1>7, <1>9, <1>12, <1>13, <1>14 DEF RepInv

\* FlowStats.observe(): the seq is in the window from then on and counted once.
LEMMA Observed ==
    ASSUME NEW st \in Stat, NEW s \in Seqs,
           st.received = Cardinality(st.window)
    PROVE  /\ Observe(st, s) \in Stat
           /\ Observe(st, s).window = st.window \cup {s}
           /\ Observe(st, s).received = Cardinality(Observe(st, s).window)
<1> DEFINE o == Started(st, s)
<1>1. /\ o \in Stat
      /\ o.last = st.last /\ o.window = st.window
      /\ o.received = st.received /\ o.duplicates = st.duplicates
  BY DEF Started, Stat
<1>2. s \in Nat
  BY NackAssumption DEF Seqs
<1>3. IsFiniteSet(st.window)
  <2>1. IsFiniteSet(1..NumPkts)
    <3>1. 1 \in Int /\ NumPkts \in Int
      BY NackAssumption
    <3>2. QED
      BY <3>1, FS_Interval
  <2>2. st.window \in SUBSET (1..NumPkts)
    BY DEF Stat, Seqs
  <2>3. QED
    BY <2>1, <2>2, FS_Subset
<1>4. CASE s \in st.window
  <2>1. Observe(st, s) = [o EXCEPT !.duplicates = @ + 1]
    BY <1>4 DEF Observe
  <2> HIDE DEF o
  <2>2. /\ Observe(st, s) \in Stat
        /\ Observe(st, s).window = st.window
        /\ Observe(st, s).received = st.received
    BY <1>1, <2>1 DEF Stat
  <2>3. st.window \cup {s} = st.window
    BY <1>4
  <2>4. QED
    BY <2>2, <2>3
<1>5. CASE s \notin st.window
  <2>1. Observe(st, s) = [o EXCEPT !.window = @ \cup {s}, !.received = @ + 1,
                                   !.last = IF s > @ THEN s ELSE @]
    BY <1>5 DEF Observe
  <2> HIDE DEF o
  <2>2. /\ Observe(st, s) \in Stat
        /\ Observe(st, s).window = st.window \cup {s}
        /\ Observe(st, s).received = st.received + 1
    <3> DEFINE w == o.window \cup {s}
               r == o.received + 1
               l == IF s > o.last THEN s ELSE o.last
    <3>1. w \in SUBSET Seqs /\ r \in Nat /\ l \in Nat
      BY <1>1, <1>2 DEF Stat
    <3>2. Observe(st, s) = [o EXCEPT !.window = w, !.received = r, !.last = l]
      BY <2>1
    <3>3. w = st.window \cup {s} /\ r = st.received + 1
      BY <1>1
    <3> HIDE DEF w, r, l
    <3>4. /\ Observe(st, s) \in Stat
          /\ Observe(st, s).window = w /\ Observe(st, s).received = r
      BY <1>1, <3>1, <3>2 DEF Stat
    <3>5. QED
      BY <3>3, <3>4
  <2>3. Cardinality(st.window \cup {s}) = Cardinality(st.window) + 1
    BY <1>3, <1>5, FS_AddElement
  <2>4. QED
    BY <2>2, <2>3
<1>6. QED
  BY <1>4, <1>5

\* A thread counts its packet in the FlowStats it has.
LEMMA CountIn ==
    ASSUME RepInv, NEW e \in EVs, Count(e)
    PROVE  /\ hand[e] \in Holding /\ hand[e].seq \in Seqs
           /\ stats' \in [EVs -> Stat]
           /\ hand' = [hand EXCEPT ![e] = None]
           /\ \A f \in EVs :
                 /\ stats'[f].window = IF f = hand[e].into
                                       THEN stats[f].window \cup {hand[e].seq}
                                       ELSE stats[f].window
                 /\ stats'[f].received = Cardinality(stats'[f].window)
           /\ InHand \subseteq InHand' \cup {hand[e].seq}
           /\ InHand' \subseteq InHand
           /\ hand[e].seq \in InHand
           /\ hand[e].into \in EVs
<1>1. /\ hand[e] # None /\ hand[e].into # None
      /\ stats' = [stats EXCEPT ![hand[e].into] = Observe(@, hand[e].seq)]
      /\ hand' = [hand EXCEPT ![e] = None]
  BY DEF Count
<1>2. hand \in [EVs -> Holding \cup {None}] /\ stats \in [EVs -> Stat]
      /\ \A f \in EVs : stats[f].received = Cardinality(stats[f].window)
  BY DEF RepInv, CountedOnce
<1>3. hand[e] \in Holding /\ hand[e].seq \in Seqs /\ hand[e].into \in EVs
  BY <1>1, <1>2 DEF Holding
<1> DEFINE i == hand[e].into
           o == Observe(stats[i], hand[e].seq)
<1>4. stats[i] \in Stat /\ stats[i].received = Cardinality(stats[i].window)
  BY <1>2, <1>3
<1>5. /\ o \in Stat
      /\ o.window = stats[i].window \cup {hand[e].seq}
      /\ o.received = Cardinality(o.window)
  BY <1>3, <1>4, Observed
<1>6. stats' = [stats EXCEPT ![i] = o]
  BY <1>1
<1> HIDE DEF o
<1>7. \A f \in EVs : stats'[f] = IF f = i THEN o ELSE stats[f]
  BY <1>2, <1>6
<1>8. stats' \in [EVs -> Stat]
  BY <1>2, <1>3, <1>5, <1>6
<1>9. \A f \in EVs : hand'[f] = IF f = e THEN None ELSE hand[f]
  BY <1>1, <1>2
<1>10. ASSUME NEW s \in InHand PROVE s \in InHand' \cup {hand[e].seq}
  BY <1>9, <1>10 DEF InHand
<1>11. ASSUME NEW s \in InHand' PROVE s \in InHand
  BY <1>9, <1>11 DEF InHand
<1>12. hand[e].seq \in InHand
  BY <1>1 DEF InHand
<1>13. QED
  BY <1>1, <1>2, <1>3, <1>5, <1>7, <1>8, <1>10, <1>11, <1>12

LEMMA RepCount ==
    ASSUME TInv, RepInv, NEW e \in EVs, Count(e)
    PROVE  RepInv'
<1> DEFINE i == hand[e].into
           s == hand[e].seq
<1>1. /\ UNCHANGED <<arrived, pending, tracker, trims>>
      /\ hand[e] # None /\ i # None
  BY DEF Count, vars, receiver
<1>2. /\ stats' \in [EVs -> Stat] /\ s \in Seqs /\ i \in EVs
      /\ hand' = [hand EXCEPT ![e] = None]
      /\ \A f \in EVs :
            /\ stats'[f].window = IF f = i THEN stats[f].window \cup {s}
                                  ELSE stats[f].window
            /\ stats'[f].received = Cardinality(stats'[f].window)
      /\ InHand \subseteq InHand' \cup {s} /\ InHand' \subseteq InHand /\ s \in InHand
  BY CountIn
<1>3. hand \in [EVs -> Holding \cup {None}] /\ Own
  BY DEF RepInv
<1> HIDE DEF i, s
<1>4. \A f \in EVs : hand'[f] = IF f = e THEN None ELSE hand[f]
  BY <1>2, <1>3
<1>5. CountedOnce'
  <2>1. Counted \cup InHand = Delivered /\ Delivered' = Delivered
    BY <1>1 DEF RepInv, CountedOnce, Delivered
  <2>2. Counted' = Counted \cup {s}
    <3>0. \A f \in EVs : stats'[f].window = IF f = i THEN stats[f].window \cup {s}
                                            ELSE stats[f].window
      BY <1>2
    <3>1. ASSUME NEW t \in Counted' PROVE t \in Counted \cup {s}
      <4>1. PICK f \in EVs : t \in stats'[f].window
        BY <3>1 DEF Counted
      <4>2. t \in stats[f].window \/ t = s
        BY <3>0, <4>1
      <4>3. QED
        BY <4>2 DEF Counted
    <3>2. ASSUME NEW t \in Counted PROVE t \in Counted'
      <4>1. PICK f \in EVs : t \in stats[f].window
        BY <3>2 DEF Counted
      <4>2. t \in stats'[f].window
        BY <3>0, <4>1
      <4>3. QED
        BY <4>2 DEF Counted
    <3>3. s \in Counted'
      BY <1>2 DEF Counted
    <3>4. QED
      BY <3>1, <3>2, <3>3
  <2>3. Counted' \cup InHand' = Delivered'
    BY <1>2, <2>1, <2>2
  <2>4. trims'.recovered + Cardinality(pending') <= trims'.trimmed
    BY <1>1 DEF RepInv, CountedOnce
  <2>5. QED
    BY <1>2, <2>3, <2>4 DEF CountedOnce
<1>6. Own'
  <2>1. tracker # None
    BY <1>1, <1>3 DEF Own, i
  <2>2. ASSUME NEW f \in EVs, hand'[f] # None, hand'[f].into = None
        PROVE  /\ stats'[f].window = {} /\ tracker' # f
               /\ \A g \in EVs : hand'[g] # None => hand'[g].into # f
    <3>1. f # e /\ hand[f] # None /\ hand[f].into = None
      BY <1>4, <2>2
    <3>2. f # i
      BY <1>1, <1>3, <3>1 DEF Own, i
    <3>3. stats[f].window = {} /\ tracker # f
          /\ \A g \in EVs : hand[g] # None => hand[g].into # f
      BY <1>3, <3>1 DEF Own
    <3>4. QED
      BY <1>1, <1>2, <1>4, <3>2, <3>3
  <2>3. QED
    BY <1>1, <2>1, <2>2 DEF Own
<1>7. hand' \in [EVs -> Holding \cup {None}]
  BY <1>2, <1>3
<1>8. trims' \in [trimmed : Nat, recovered : Nat] /\ tracker' \in EVs \cup {None}
  BY <1>1 DEF RepInv
<1>9. QED
  BY <1>2, <1>5, <1>6, <1>7, <1>8 DEF RepInv

LEMMA ElsewhereLeaves == Elsewhere => UNCHANGED <<acct, receiver>>
BY DEF Elsewhere, Take, SendNew, Resend, NoteSent, DrainAgain, EndPhase, Lose,
       Duplicate, OnNack, receiver

LEMMA RepFrame == ASSUME RepInv, UNCHANGED <<acct, receiver>> PROVE RepInv'
<1>1. UNCHANGED <<hand, stats, tracker, trims, arrived, pending>>
  BY DEF acct, receiver
<1>2. InHand' = InHand /\ Delivered' = Delivered /\ Counted' = Counted
  BY <1>1 DEF InHand, Delivered, Counted
<1>3. CountedOnce'
  BY <1>1, <1>2 DEF RepInv, CountedOnce
<1>4. Own'
  BY <1>1 DEF RepInv, Own
<1>5. QED
  BY <1>1, <1>3, <1>4 DEF RepInv

LEMMA RepNext == TInv /\ RepInv /\ [RNext]_rvars => RepInv'
<1> SUFFICES ASSUME TInv, RepInv, [RNext]_rvars PROVE RepInv'
  OBVIOUS
<1>1. CASE Elsewhere
  BY <1>1, ElsewhereLeaves, RepFrame
<1>2. CASE \E p \in data : Handle(p)
  BY <1>2, RepHandle
<1>3. CASE \E e \in EVs : Store(e) \/ Count(e)
  BY <1>3, RepStore, RepCount
<1>4. CASE UNCHANGED rvars
  BY <1>4, RepFrame DEF rvars, vars
<1>5. QED
  BY <1>1, <1>2, <1>3, <1>4 DEF RNext

LEMMA RepHolds == RSpec => [](TInv /\ RepInv)
<1>1. RInit => TInv /\ RepInv
  BY TInvInit, RepInit DEF RInit
<1>2. TInv /\ RepInv /\ [RNext]_rvars => (TInv /\ RepInv)'
  BY StepOfFlow, TInvNext, RepNext
<1>3. QED
  BY <1>1, <1>2, PTL DEF RSpec

\* For any number of packets, EVs, threads and duplicates, ReorderTracker and
\* FlowStats count each packet that arrived in full once.
THEOREM CountedEachOnce == RSpec => []CountedOnce
<1>1. RepInv => CountedOnce
  BY DEF RepInv
<1>2. QED
  BY <1>1, RepHolds, PTL

\* The race of the receiver's threads to create a flow's statistics ends, and what
\* arrives after it shows in the flow's row.
THEOREM RaceIsOver == RSpec => RaceEnds
<1> DEFINE Stays == Settled => /\ Settled'
                               /\ InRow \cup (Delivered' \ Delivered) \subseteq InRow'
<1>1. TInv /\ RepInv /\ [RNext]_rvars => Stays
  <2> SUFFICES ASSUME TInv, RepInv, [RNext]_rvars, Settled
               PROVE  /\ Settled'
                      /\ InRow \cup (Delivered' \ Delivered) \subseteq InRow'
    OBVIOUS
  <2>1. tracker \in EVs /\ tracker # None
        /\ \A e \in EVs : hand[e] # None => hand[e].into = tracker
    BY DEF Settled, RepInv
  <2>2. hand \in [EVs -> Holding \cup {None}]
    BY DEF RepInv
  <2>3. CASE UNCHANGED <<acct, receiver>>
    <3>1. UNCHANGED <<hand, stats, tracker, arrived>>
      BY <2>3 DEF acct, receiver
    <3>2. InHand' = InHand /\ Delivered' = Delivered
      BY <3>1 DEF InHand, Delivered
    <3>3. InRow' = InRow
      BY <3>1, <3>2 DEF InRow
    <3>4. Settled'
      BY <3>1 DEF Settled
    <3>5. QED
      BY <3>2, <3>3, <3>4
  <2>4. ASSUME NEW p \in data, Handle(p)
        PROVE  /\ Settled'
               /\ InRow \cup (Delivered' \ Delivered) \subseteq InRow'
    <3>1. UNCHANGED <<stats, tracker>> /\ hand[p.ev] = None
          /\ p.seq \in Seqs /\ p.ev \in EVs
      BY <2>4 DEF Handle, TInv, TypeOK
    <3>2. CASE p.trimmed
      <4>1. UNCHANGED <<hand, arrived>>
        BY <2>4, <3>2 DEF Handle, Deliver
      <4>2. InHand' = InHand /\ Delivered' = Delivered
        BY <4>1 DEF InHand, Delivered
      <4>3. Settled' /\ InRow' = InRow
        BY <3>1, <4>1, <4>2 DEF Settled, InRow
      <4>4. QED
        BY <4>2, <4>3
    <3>3. CASE ~p.trimmed
      <4> DEFINE h == [seq |-> p.seq, into |-> tracker]
      <4>1. /\ hand' = [hand EXCEPT ![p.ev] = h]
            /\ arrived' = [arrived EXCEPT ![p.seq] = @ + 1]
        BY <2>4, <3>3 DEF Handle, Deliver, Found
      <4>2. h \in Holding /\ h.seq = p.seq /\ h.into = tracker
        BY <2>1, <3>1 DEF Holding
      <4> HIDE DEF h
      <4>3. InHand' = InHand \cup {p.seq}
        BY <2>2, <3>1, <4>1, <4>2, InHandGrows
      <4>4. Delivered' \ Delivered \subseteq {p.seq}
        <5>1. \A s \in Seqs : s # p.seq => arrived'[s] = arrived[s]
          BY <4>1 DEF TInv, TypeOK
        <5>2. QED
          BY <5>1 DEF Delivered
      <4>5. \A e \in EVs : hand'[e] = IF e = p.ev THEN h ELSE hand[e]
        BY <2>2, <4>1
      <4>6. Settled'
        BY <2>1, <3>1, <4>2, <4>5 DEF Settled
      <4>7. InRow' = InRow \cup {p.seq}
        BY <3>1, <4>3 DEF InRow
      <4>8. QED
        BY <4>4, <4>6, <4>7
    <3>4. QED
      BY <3>2, <3>3
  <2>5. ASSUME NEW e \in EVs, Store(e)
        PROVE  FALSE
    BY <2>1, <2>5 DEF Store
  <2>6. ASSUME NEW e \in EVs, Count(e)
        PROVE  /\ Settled'
               /\ InRow \cup (Delivered' \ Delivered) \subseteq InRow'
    <3>1. UNCHANGED <<tracker, arrived>> /\ hand[e] # None
      BY <2>6 DEF Count, vars, receiver
    <3>2. hand[e].into = tracker
      BY <2>1, <3>1
    <3>3. /\ hand' = [hand EXCEPT ![e] = None]
          /\ stats'[tracker].window = stats[tracker].window \cup {hand[e].seq}
          /\ InHand \subseteq InHand' \cup {hand[e].seq}
      BY <2>1, <2>6, <3>2, CountIn
    <3>4. \A f \in EVs : hand'[f] = IF f = e THEN None ELSE hand[f]
      BY <2>2, <3>3
    <3>5. Settled'
      BY <2>1, <3>1, <3>4 DEF Settled
    <3>6. InRow \subseteq InRow'
      BY <3>1, <3>3 DEF InRow
    <3>7. Delivered' = Delivered
      BY <3>1 DEF Delivered
    <3>8. QED
      BY <3>5, <3>6, <3>7
  <2>7. CASE Elsewhere \/ UNCHANGED rvars
    BY <2>3, <2>7, ElsewhereLeaves DEF rvars, vars
  <2>8. QED
    BY <2>4, <2>5, <2>6, <2>7 DEF RNext
<1>2. RSpec => [][Stays]_rvars
  <2>1. TInv /\ RepInv /\ [RNext]_rvars => [Stays]_rvars
    BY <1>1
  <2>2. QED
    BY <2>1, RepHolds, PTL DEF RSpec
<1>3. QED
  BY <1>2 DEF RaceEnds


=============================================================================
