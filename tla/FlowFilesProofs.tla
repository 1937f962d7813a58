---------------------------- MODULE FlowFilesProofs ----------------------------
(***************************************************************************)
(* Proofs about SentCounters and FlowFiles, for every set of EVs and of    *)
(* ids and every bound: the reader of the published grids never counts a   *)
(* packet in two windows and, of a single process, loses none; what the    *)
(* threads of the two processes do to the shared files leaves the          *)
(* counters those of SentCounters; a cached CDF is the one of the grid in  *)
(* use; and no snapshot that was moved into place is overlooked.           *)
(*                                                                         *)
(* The published grids form a chain: what the reader remembers was         *)
(* published before what the file holds, which was copied before the draft *)
(* being written, which was copied before the counts of now.  Follows      *)
(* says what that means for one cell.                                      *)
(***************************************************************************)
EXTENDS FlowFiles, TLAPS

\* Grid b was copied after grid a: by the same process, which has counted on
\* since, or by a later one, whose base has all of a in it.
Follows(a, b) ==
    \A e \in EV :
        \/ b.base[e] = a.base[e] /\ b.n[e] >= a.n[e]
        \/ b.base[e] >= a.base[e] + a.n[e]

Types ==
    /\ counts \in [EV -> Nat]
    /\ before \in [EV -> Nat]
    /\ folded \in [EV -> Nat]
    /\ draft \in Grid \cup {None}
    /\ file \in Grid \cup {None}
    /\ last \in Grid \cup {None}

Chain ==
    /\ draft # None => Follows(draft, Current)
    /\ file # None => Follows(file, Current)
    /\ file # None /\ draft # None => Follows(file, draft)
    /\ last # None => file # None /\ Follows(last, file)

Unread == last = None => folded = Zero

CInv == Types /\ Chain /\ Unread

-----------------------------------------------------------------------------
\* Follows is transitive: a grid behind a published one is behind all that come
\* after it.
LEMMA FollowsTransitive ==
    ASSUME NEW a \in Grid, NEW b \in Grid, NEW c \in Grid,
           Follows(a, b), Follows(b, c)
    PROVE  Follows(a, c)
<1> SUFFICES ASSUME NEW e \in EV
             PROVE  \/ c.base[e] = a.base[e] /\ c.n[e] >= a.n[e]
                    \/ c.base[e] >= a.base[e] + a.n[e]
  BY DEF Follows
<1>1. /\ a.n[e] \in Nat /\ b.n[e] \in Nat /\ c.n[e] \in Nat
      /\ a.base[e] \in Nat /\ b.base[e] \in Nat /\ c.base[e] \in Nat
  BY DEF Grid
<1>2. \/ b.base[e] = a.base[e] /\ b.n[e] >= a.n[e]
      \/ b.base[e] >= a.base[e] + a.n[e]
  BY DEF Follows
<1>3. \/ c.base[e] = b.base[e] /\ c.n[e] >= b.n[e]
      \/ c.base[e] >= b.base[e] + b.n[e]
  BY DEF Follows
<1>4. QED
  BY <1>1, <1>2, <1>3

\* A grid follows itself: a second read of the same file.
LEMMA FollowsReflexive ==
    ASSUME NEW a \in Grid
    PROVE  Follows(a, a)
BY DEF Follows, Grid

LEMMA CurrentIsGrid == Types => Current \in Grid
BY DEF Types, Current, Grid

\* One read's delta of a cell fits between the two grids.
LEMMA DeltaFits ==
    ASSUME Types, Chain, file # None, NEW e \in EV
    PROVE  /\ Delta(e) \in Nat
           /\ Reached(last, e) \in Nat /\ Reached(file, e) \in Nat
           /\ Delta(e) + Reached(last, e) <= Reached(file, e)
<1>1. file \in Grid
  BY DEF Types
<1>2. file.n[e] \in Nat /\ file.base[e] \in Nat
  BY <1>1 DEF Grid
<1>3. Reached(file, e) = file.base[e] + file.n[e]
  BY DEF Reached
<1>4. CASE last = None
  BY <1>2, <1>3, <1>4 DEF Delta, Reached
<1>5. CASE last # None
  <2>1. last \in Grid
    BY <1>5 DEF Types
  <2>2. last.n[e] \in Nat /\ last.base[e] \in Nat
    BY <2>1 DEF Grid
  <2>3. Reached(last, e) = last.base[e] + last.n[e]
    BY <1>5 DEF Reached
  <2>4. \/ file.base[e] = last.base[e] /\ file.n[e] >= last.n[e]
        \/ file.base[e] >= last.base[e] + last.n[e]
    BY <1>5 DEF Chain, Follows
  <2>5. Delta(e) = IF file.n[e] >= last.n[e] THEN file.n[e] - last.n[e]
                   ELSE file.n[e]
    BY <1>5 DEF Delta
  <2>6. QED
    BY <1>2, <1>3, <2>2, <2>3, <2>4, <2>5
<1>6. QED
  BY <1>4, <1>5

-----------------------------------------------------------------------------
\* The grid an earlier run left is behind the counts of the new daemon's time.
LEMMA CInvInit == Init => CInv
<1> SUFFICES ASSUME Init
             PROVE  CInv
  OBVIOUS
<1>1. MaxSent \in Nat /\ None \notin Grid
  BY CountersAssumption
<1>2. before \in [EV -> Nat] /\ counts = Zero /\ Zero \in [EV -> Nat]
  BY <1>1 DEF Init, Zero
<1>3. file = None \/ file = [n |-> before, base |-> Zero]
  BY DEF Init
<1>4. file \in Grid \cup {None}
  BY <1>2, <1>3 DEF Grid
<1>5. Types /\ Unread
  BY <1>2, <1>4 DEF Init, Types, Unread
<1>6. ASSUME file # None
      PROVE  Follows(file, Current)
  <2>1. file = [n |-> before, base |-> Zero]
    BY <1>3, <1>6
  <2>2. ASSUME NEW e \in EV
        PROVE  before[e] >= Zero[e] + before[e]
    <3>1. before[e] \in Nat /\ Zero[e] = 0
      BY <1>2 DEF Zero
    <3>2. QED
      BY <3>1
  <2>3. file.base = Zero /\ file.n = before /\ Current.base = before
    BY <2>1 DEF Current
  <2>4. QED
    BY <2>2, <2>3 DEF Follows
<1>7. Chain
  BY <1>6 DEF Chain, Init
<1>8. QED
  BY <1>5, <1>7 DEF CInv

\* The counts only grow, and a new process starts where the others ended: the
\* grids stay behind the current counts.
LEMMA CurrentAdvances ==
    ASSUME Types, Next,
           Types'
    PROVE  Follows(Current, Current')
<1> SUFFICES ASSUME NEW e \in EV
             PROVE  \/ before'[e] = before[e] /\ counts'[e] >= counts[e]
                    \/ before'[e] >= before[e] + counts[e]
  BY DEF Follows, Current
<1>1. counts[e] \in Nat /\ before[e] \in Nat
  BY DEF Types
<1>2. CASE Start
  BY <1>1, <1>2 DEF Start, Sent
<1>3. ASSUME NEW f \in EV, Record(f)
      PROVE  before'[e] = before[e] /\ counts'[e] >= counts[e]
  BY <1>1, <1>3 DEF Record, Types
<1>4. CASE Copy \/ Replace \/ Stop \/ Kill \/ Read
  BY <1>1, <1>4 DEF Copy, Replace, Stop, Kill, Read
<1>5. QED
  BY <1>2, <1>3, <1>4 DEF Next

LEMMA TypesStep ==
    ASSUME CInv, Next
    PROVE  Types'
<1> USE DEF CInv
<1>1. CASE Start
  BY <1>1 DEF Start, Types, Zero, Sent
<1>2. ASSUME NEW e \in EV, Record(e)
      PROVE  Types'
  BY <1>2 DEF Record, Types
<1>3. CASE Copy
  <2>1. Current \in Grid
    BY CurrentIsGrid
  <2>2. QED
    BY <1>3, <2>1 DEF Copy, Types
<1>4. CASE Replace
  BY <1>4 DEF Replace, Types
<1>5. CASE Stop
  BY <1>5 DEF Stop, Types
<1>6. CASE Kill
  BY <1>6 DEF Kill, Types
<1>7. CASE Read
  <2>1. \A e \in EV : folded[e] + Delta(e) \in Nat
    <3> TAKE e \in EV
    <3>1. Delta(e) \in Nat
      BY <1>7, DeltaFits DEF Read
    <3>2. folded[e] \in Nat
      BY DEF Types
    <3>3. QED
      BY <3>1, <3>2
  <2>2. folded' \in [EV -> Nat]
    BY <1>7, <2>1 DEF Read
  <2>3. QED
    BY <1>7, <2>2 DEF Read, Remembered, Types
<1>8. QED
  BY <1>1, <1>2, <1>3, <1>4, <1>5, <1>6, <1>7 DEF Next

\* The chain, one link at a time.
LEMMA ChainStep ==
    ASSUME CInv, Next
    PROVE  Chain'
<1>1. Types /\ Types' /\ Chain
  BY TypesStep DEF CInv
<1>2. Current \in Grid /\ Current' \in Grid
  BY <1>1 DEF Types, Current, Grid
<1>3. Follows(Current, Current')
  BY <1>1, CurrentAdvances
<1>4. ASSUME draft' # None
      PROVE  Follows(draft', Current')
  <2>1. CASE Copy
    BY <2>1, <1>3 DEF Copy
  <2>2. CASE ~Copy
    <3>1. draft' = draft
      BY <2>2, <1>4 DEF Next, Start, Record, Replace, Stop, Kill, Read
    <3>2. Follows(draft, Current) /\ draft \in Grid
      BY <3>1, <1>1, <1>4 DEF Chain, Types
    <3>3. QED
      BY <3>1, <3>2, <1>2, <1>3, FollowsTransitive
  <2>3. QED
    BY <2>1, <2>2
<1>5. ASSUME file' # None
      PROVE  Follows(file', Current')
  <2>1. CASE Replace /\ file' = draft
    <3>1. Follows(draft, Current) /\ draft \in Grid
      BY <2>1, <1>1 DEF Chain, Types, Replace
    <3>2. QED
      BY <2>1, <3>1, <1>2, <1>3, FollowsTransitive
  <2>2. CASE ~(Replace /\ file' = draft)
    <3>1. file' = file
      BY <2>2 DEF Next, Start, Record, Copy, Replace, Stop, Kill, Read
    <3>2. Follows(file, Current) /\ file \in Grid
      BY <3>1, <1>1, <1>5 DEF Chain, Types
    <3>3. QED
      BY <3>1, <3>2, <1>2, <1>3, FollowsTransitive
  <2>3. QED
    BY <2>1, <2>2
<1>6. ASSUME file' # None, draft' # None
      PROVE  Follows(file', draft')
  <2>1. file' = file
    BY <1>6 DEF Next, Start, Record, Copy, Replace, Stop, Kill, Read
  <2>2. CASE Copy
    BY <2>1, <2>2, <1>6, <1>1 DEF Copy, Chain
  <2>3. CASE ~Copy
    <3>1. draft' = draft
      BY <2>3, <1>6 DEF Next, Start, Record, Replace, Stop, Kill, Read
    <3>2. QED
      BY <2>1, <3>1, <1>6, <1>1 DEF Chain
  <2>4. QED
    BY <2>2, <2>3
<1>7. ASSUME last' # None
      PROVE  file' # None /\ Follows(last', file')
  <2>1. CASE Read
    <3>1. last' = file /\ file' = file /\ file # None
      BY <2>1 DEF Read, Remembered
    <3>2. file \in Grid
      BY <3>1, <1>1 DEF Types
    <3>3. QED
      BY <3>1, <3>2, FollowsReflexive
  <2>2. CASE Replace
    <3>1. last' = last /\ (file' = file \/ file' = draft) /\ draft # None
      BY <2>2 DEF Replace
    <3>2. last \in Grid /\ file \in Grid /\ draft \in Grid
      BY <3>1, <1>1, <1>7 DEF Types, Chain
    <3>3. Follows(last, file) /\ Follows(file, draft)
      BY <3>1, <1>1, <1>7 DEF Chain
    <3>4. Follows(last, draft)
      BY <3>2, <3>3, FollowsTransitive
    <3>5. QED
      BY <3>1, <3>3, <3>4, <1>1, <1>7 DEF Chain
  <2>3. CASE ~Read /\ ~Replace
    <3>1. last' = last /\ file' = file
      BY <2>3 DEF Next, Start, Record, Copy, Stop, Kill
    <3>2. QED
      BY <3>1, <1>1, <1>7 DEF Chain
  <2>4. QED
    BY <2>1, <2>2, <2>3
<1>8. QED
  BY <1>4, <1>5, <1>6, <1>7 DEF Chain

LEMMA UnreadStep ==
    ASSUME CInv, Next
    PROVE  Unread'
<1>1. CASE Read
  BY <1>1, CountersAssumption DEF Read, Remembered, Unread
<1>2. CASE ~Read
  BY <1>2 DEF Next, Start, Record, Copy, Replace, Stop, Kill, CInv, Unread
<1>3. QED
  BY <1>1, <1>2

LEMMA CInvStep == CInv /\ [Next]_vars => CInv'
<1>1. CInv /\ Next => CInv'
  BY TypesStep, ChainStep, UnreadStep DEF CInv
<1>2. CInv /\ UNCHANGED vars => CInv'
  BY DEF CInv, Types, Chain, Unread, vars, Follows, Current
<1>3. QED
  BY <1>1, <1>2

LEMMA CInvAlways == Spec => []CInv
BY CInvInit, CInvStep, PTL DEF Spec

\* No packet is in two windows of loss fusion, whatever the failures and restarts:
\* each delta fits between the grid read before and the one read now, of which the
\* first was copied before the second.
THEOREM CountersCountOnce == Spec => NoneTwice
<1>1. CInv /\ [Next]_vars =>
        [\A e \in EV :
            folded'[e] + Reached(last, e) <= folded[e] + Reached(last', e)]_vars
  <2> SUFFICES ASSUME CInv, [Next]_vars, NEW e \in EV
               PROVE  folded'[e] + Reached(last, e) <= folded[e] + Reached(last', e)
    OBVIOUS
  <2>1. folded[e] \in Nat
    BY DEF CInv, Types
  <2>2. Reached(last, e) \in Nat
    BY DEF CInv, Types, Grid, Reached
  <2>3. CASE Read
    <3>1. /\ file # None /\ last' = file
          /\ folded'[e] = folded[e] + Delta(e)
      BY <2>3 DEF Read, Remembered
    <3>2. /\ Delta(e) \in Nat /\ Reached(file, e) \in Nat
          /\ Delta(e) + Reached(last, e) <= Reached(file, e)
      BY <3>1, DeltaFits DEF CInv
    <3>3. Reached(last', e) = Reached(file, e)
      BY <3>1 DEF Reached
    <3>4. QED
      BY <2>1, <2>2, <3>1, <3>2, <3>3
  <2>4. CASE ~Read
    <3>1. folded' = folded /\ last' = last
      BY <2>4 DEF Next, Start, Record, Copy, Replace, Stop, Kill, vars
    <3>2. Reached(last', e) = Reached(last, e)
      BY <3>1 DEF Reached
    <3>3. QED
      BY <2>1, <2>2, <3>1, <3>2
  <2>5. QED
    BY <2>3, <2>4
<1>2. QED
  BY <1>1, CInvAlways, PTL DEF Spec, NoneTwice

-----------------------------------------------------------------------------
\* With one sender process, of the cells in which nothing was sent before it, the
\* deltas add up to exactly the grid the reader remembers.
Single ==
    /\ starts \in Nat
    /\ starts = 0 => before = Zero /\ counts = Zero /\ writer = "off"
    /\ starts <= 1 =>
          \A e \in EV : before[e] = 0 =>
              /\ draft # None => draft.base[e] = 0
              /\ file # None => file.base[e] = 0
              /\ last # None => last.base[e] = 0 /\ folded[e] = last.n[e]

LEMMA SingleInit == Init => Single
BY DEF Init, Single, Zero

LEMMA SingleRead ==
    ASSUME CInv, Single, Read, starts <= 1, NEW e \in EV, before[e] = 0
    PROVE  file.base[e] = 0 /\ folded'[e] = file.n[e]
<1>1. file \in Grid /\ file # None
  BY DEF Read, CInv, Types
<1>2. file.n[e] \in Nat /\ file.base[e] = 0 /\ folded'[e] = folded[e] + Delta(e)
  BY <1>1 DEF Grid, Single, Read
<1>3. CASE last = None
  BY <1>2, <1>3 DEF CInv, Unread, Zero, Delta
<1>4. CASE last # None
  <2>1. last \in Grid /\ Follows(last, file)
    BY <1>4 DEF CInv, Types, Chain
  <2>2. last.n[e] \in Nat /\ last.base[e] = 0 /\ folded[e] = last.n[e]
    BY <1>4, <2>1 DEF Grid, Single
  <2>3. file.n[e] >= last.n[e]
    BY <1>2, <2>1, <2>2 DEF Follows
  <2>4. Delta(e) = file.n[e] - last.n[e]
    BY <1>4, <2>3 DEF Delta
  <2>5. QED
    BY <1>2, <2>2, <2>3, <2>4
<1>5. QED
  BY <1>3, <1>4

LEMMA SingleStep == CInv /\ Single /\ [Next]_vars => Single'
<1> SUFFICES ASSUME CInv, Single, [Next]_vars
             PROVE  Single'
  OBVIOUS
<1>1. CASE Start
  <2>1. starts' = starts + 1 /\ starts \in Nat
    BY <1>1 DEF Start, Single
  <2>2. starts' <= 1 => starts = 0
    BY <2>1
  <2>3. starts = 0 => \A e \in EV : before[e] = 0
    BY DEF Single, Zero
  <2>4. starts = 0 => UNCHANGED <<draft, file, last, folded>> /\ starts <= 1
    BY <1>1 DEF Start
  <2>5. starts' \in Nat /\ starts' # 0
    BY <2>1
  <2>6. QED
    BY <2>2, <2>3, <2>4, <2>5 DEF Single
<1>2. ASSUME NEW e \in EV, Record(e)
      PROVE  Single'
  <2>1. starts # 0
    BY <1>2 DEF Record, Single
  <2>2. QED
    BY <1>2, <2>1 DEF Record, Single
<1>3. CASE Copy
  BY <1>3 DEF Copy, Single, Current
<1>4. CASE Replace
  BY <1>4 DEF Replace, Single
<1>5. CASE Stop \/ Kill
  BY <1>5 DEF Stop, Kill, Single
<1>6. CASE Read
  <2>1. starts <= 1 =>
          \A e \in EV : before[e] = 0 => file.base[e] = 0 /\ folded'[e] = file.n[e]
    BY <1>6, SingleRead
  <2>2. QED
    BY <1>6, <2>1 DEF Read, Remembered, Single
<1>7. CASE UNCHANGED vars
  BY <1>7 DEF vars, Single
<1>8. QED
  BY <1>1, <1>2, <1>3, <1>4, <1>5, <1>6, <1>7 DEF Next

\* A missed read or write loses nothing: once the reader has read what the only
\* sender process counted on an EV, all of it is in its windows.
THEOREM CountersLoseNothing == Spec => []NothingLost
<1>1. CInv /\ Single => NothingLost
  BY DEF Single, NothingLost
<1>2. QED
  BY <1>1, SingleInit, SingleStep, CInvAlways, PTL DEF Spec

-----------------------------------------------------------------------------
(* The counters.                                                              *)

\* Every step of the two processes is one of SentCounters, or leaves it alone.
LEMMA StepCounts == [FilesNext]_filesVars => [Next]_vars
<1> SUFFICES ASSUME [FilesNext]_filesVars
             PROVE  [Next]_vars
  OBVIOUS
<1> USE DEF Next
<1>1. CASE Reweigh
  BY <1>1 DEF Reweigh
<1>2. CASE Publish
  BY <1>2 DEF Publish, Snapshot, PublishSnapshot, PublishFails
<1>3. CASE DaemonStop
  BY <1>3 DEF DaemonStop
<1>4. CASE StartSender
  BY <1>4 DEF StartSender
<1>5. CASE Refresh
  BY <1>5 DEF Refresh, RefreshNothing, RefreshStat, RefreshFails, RefreshSwap,
              RefreshClear
<1>6. CASE Capture \/ Lookup
  BY <1>6 DEF Capture, Lookup
<1>7. CASE \E e \in EV : Send(e)
  BY <1>7 DEF Send
<1>8. CASE Counting
  BY <1>8 DEF Counting
<1>9. CASE Ending
  BY <1>9 DEF Ending
<1>10. CASE UNCHANGED filesVars
  BY <1>10 DEF filesVars
<1>11. QED
  BY <1>1, <1>2, <1>3, <1>4, <1>5, <1>6, <1>7, <1>8, <1>9, <1>10 DEF FilesNext

\* The composition of both files implements the counters by themselves: neither
\* the weights' way back nor any interleaving with it reaches the counts.
THEOREM FilesImplementCounters == FilesSpec => Spec
<1>1. FilesInit => Init
  BY DEF FilesInit
<1>2. QED
  BY <1>1, StepCounts, PTL DEF FilesSpec, Spec

\* So in the composition too no packet is in two windows ...
THEOREM FilesCountOnce == FilesSpec => NoneTwice
BY FilesImplementCounters, CountersCountOnce, PTL

\* ... and of the only sender process they lose nothing.
THEOREM FilesLoseNothing == FilesSpec => []NothingLost
BY FilesImplementCounters, CountersLoseNothing, PTL

-----------------------------------------------------------------------------
(* The cache of CDFs and the file's mtime.                                    *)

Held == [grid : Nat, id : IDs]

\* The types, and that the ids of grids that are not freed differ.
Ids ==
    /\ cache \in [IDs -> Nat \cup {None}]
    /\ wgrid \in Held
    /\ held \in Held \cup {None}
    /\ held # None /\ held.id = wgrid.id => held.grid = wgrid.grid

\* There is a file to read when the refresh thread goes to read one.
Files ==
    /\ snap \in Nat \cup {None} /\ table \in Nat /\ pub \in Nat \cup {None}
    /\ glitches \in Nat
    /\ newer \/ moved \/ refresh = "statted" => snap # None

InFile == IF snap = None THEN Cold ELSE snap

\* The grid in use is the file's unless the mtime tells.
Seen ==
    /\ writer = "off" => refresh = "idle" /\ wgrid.grid = Cold
    /\ glitches = 0 /\ Alive /\ refresh # "statted" /\ ~newer => wgrid.grid = InFile

FilesInv == Ids /\ Files /\ CacheFresh /\ Seen

LEMMA NotNone == None \notin Held /\ None \notin Nat /\ IDs # {}
BY FilesAssumption DEF Held

LEMMA ColdGrid == NewGrid \in Held /\ NewGrid.grid = Cold /\ Cold \in Nat
BY NotNone DEF NewGrid, Held, Cold

LEMMA FilesInvInit == FilesInit => FilesInv
<1> SUFFICES ASSUME FilesInit
             PROVE  FilesInv
  OBVIOUS
<1> USE NotNone, ColdGrid DEF FilesInit
<1>1. cache \in [IDs -> Nat \cup {None}] /\ \A i \in IDs : cache[i] = None
  BY DEF NoCDFs
<1>2. Ids
  BY <1>1 DEF Ids
<1>3. Files
  BY DEF Files, First, Earlier
<1>4. CacheFresh
  BY <1>1 DEF CacheFresh, Held
<1>5. Seen
  BY DEF Seen, Init, Alive
<1>6. QED
  BY <1>2, <1>3, <1>4, <1>5 DEF FilesInv

\* What the daemon does to the file.
LEMMA DaemonStepKeeps ==
    ASSUME FilesInv, Reweigh \/ Publish \/ DaemonStop
    PROVE  FilesInv'
<1> USE NotNone
<1>1. UNCHANGED policyVars /\ writer' = writer
  BY DEF Reweigh, Publish, Snapshot, PublishSnapshot, PublishFails, DaemonStop, vars
<1>2. Ids' /\ CacheFresh'
  BY <1>1 DEF FilesInv, Ids, CacheFresh, policyVars
<1>3. Files'
  <2>1. CASE Reweigh \/ Snapshot \/ DaemonStop
    BY <1>1, <2>1 DEF FilesInv, Files, Reweigh, Snapshot, DaemonStop, fileVars, policyVars
  <2>2. CASE PublishSnapshot
    BY <1>1, <2>2 DEF FilesInv, Files, PublishSnapshot, Published, Glitch, policyVars
  <2>3. CASE PublishFails
    BY <1>1, <2>3 DEF FilesInv, Files, PublishFails, Published, Glitch, policyVars
  <2>4. QED
    BY <2>1, <2>2, <2>3 DEF Publish
<1>4. Seen'
  <2>1. CASE Reweigh \/ Snapshot \/ DaemonStop
    BY <1>1, <2>1 DEF FilesInv, Seen, InFile, Alive, Reweigh, Snapshot, DaemonStop,
                      fileVars, policyVars
  <2>2. CASE PublishSnapshot
    <3>1. glitches' # 0 \/ newer'
      <4>1. glitches \in Nat
        BY DEF FilesInv, Files
      <4>2. CASE Glitch
        BY <4>1, <4>2 DEF Glitch
      <4>3. CASE ~Glitch
        <5>1. newer' = TRUE
          BY <2>2, <4>3 DEF PublishSnapshot
        <5>2. QED
          BY <5>1
      <4>4. QED
        BY <4>2, <4>3
    <3>2. UNCHANGED <<refresh, wgrid>>
      BY <1>1 DEF policyVars
    <3>3. QED
      BY <1>1, <3>1, <3>2 DEF FilesInv, Seen, Alive
  <2>3. CASE PublishFails
    BY <1>1, <2>3 DEF FilesInv, Files, Seen, Alive, PublishFails, Glitch, policyVars
  <2>4. QED
    BY <2>1, <2>2, <2>3 DEF Publish
<1>5. QED
  BY <1>2, <1>3, <1>4 DEF FilesInv

\* What the refresh thread does.
LEMMA RefreshKeeps ==
    ASSUME FilesInv, Refresh
    PROVE  FilesInv'
<1> USE NotNone
<1>1. CASE RefreshNothing
  BY <1>1 DEF RefreshNothing, FilesInv, Ids, Files, CacheFresh, Seen, InFile, Alive,
              fileVars, daemonVars, vars
<1>2. CASE RefreshStat
  BY <1>2 DEF RefreshStat, FilesInv, Ids, Files, CacheFresh, Seen, InFile, Alive,
              fileVars, daemonVars, vars
<1>3. CASE RefreshSwap
  <2> USE <1>3 DEF RefreshSwap, daemonVars, vars
  <2>1. snap \in Nat
    BY DEF FilesInv, Files
  <2>2. wgrid' \in Held /\ wgrid'.grid = snap /\ (held # None => held.id # wgrid'.id)
    BY <2>1 DEF Held
  <2>3. Ids'
    BY <2>2 DEF FilesInv, Ids
  <2>4. Files' /\ CacheFresh'
    BY <2>1 DEF FilesInv, Files, CacheFresh, StillNewer
  <2>5. Seen'
    BY <2>1, <2>2 DEF FilesInv, Seen, InFile, Alive
  <2>6. QED
    BY <2>3, <2>4, <2>5 DEF FilesInv
<1>4. CASE RefreshFails
  BY <1>4 DEF RefreshFails, AfterError, Kept, Glitch, FilesInv, Ids, Files, CacheFresh,
              Seen, Alive, daemonVars, vars
<1>5. CASE RefreshClear
  <2> USE <1>5 DEF RefreshClear, fileVars, daemonVars, vars
  <2>1. cache' \in [IDs -> Nat \cup {None}] /\ \A i \in IDs : cache'[i] = None
    BY DEF Cleared, NoCDFs
  <2>2. Ids' /\ Files'
    BY <2>1 DEF FilesInv, Ids, Files
  <2>3. CacheFresh'
    BY <2>1 DEF FilesInv, Ids, CacheFresh, Held
  <2>4. Seen'
    BY DEF FilesInv, Seen, InFile, Alive
  <2>5. QED
    BY <2>2, <2>3, <2>4 DEF FilesInv
<1>6. QED
  BY <1>1, <1>2, <1>3, <1>4, <1>5 DEF Refresh

\* What the sender's loop does: a pick that stores a CDF has held its grid, and so
\* its id, since it captured it.
LEMMA PickKeeps ==
    ASSUME FilesInv, Capture \/ Lookup \/ \E e \in EV : Send(e)
    PROVE  FilesInv'
<1> USE NotNone
<1>1. CASE Capture
  BY <1>1 DEF Capture, FilesInv, Ids, Files, CacheFresh, Seen, InFile, Alive,
              fileVars, daemonVars, vars
<1>2. CASE Lookup
  <2> USE <1>2 DEF Lookup, fileVars, daemonVars, vars
  <2>1. held \in Held /\ wgrid \in Held /\ cache \in [IDs -> Nat \cup {None}]
    BY DEF FilesInv, Ids
  <2>2. held.id \in IDs /\ wgrid.id \in IDs /\ held.grid \in Nat
    BY <2>1 DEF Held
  <2>3. Ids'
    <3>1. cache' \in [IDs -> Nat \cup {None}]
      BY <2>1, <2>2
    <3>2. QED
      BY <3>1 DEF FilesInv, Ids
  <2>4. Files' /\ Seen'
    BY DEF FilesInv, Files, Seen, InFile, Alive
  <2>5. CacheFresh'
    <3> SUFFICES ASSUME refresh # "swapped"
                 PROVE  cache'[wgrid.id] \in {None, wgrid.grid}
      BY DEF CacheFresh
    <3>1. CASE held.id = wgrid.id
      <4>1. held.grid = wgrid.grid /\ cache[held.id] \in {None, wgrid.grid}
        BY <3>1 DEF FilesInv, Ids, CacheFresh
      <4>2. QED
        BY <2>1, <2>2, <3>1, <4>1
    <3>2. CASE held.id # wgrid.id
      BY <2>1, <2>2, <3>2 DEF FilesInv, CacheFresh
    <3>3. QED
      BY <3>1, <3>2
  <2>6. QED
    BY <2>3, <2>4, <2>5 DEF FilesInv
<1>3. CASE \E e \in EV : Send(e)
  BY <1>3 DEF Send, Record, FilesInv, Ids, Files, CacheFresh, Seen, InFile, Alive,
              fileVars, daemonVars, policyVars
<1>4. QED
  BY <1>1, <1>2, <1>3

\* The process as a whole: it starts, counts, and takes its policy with it.
LEMMA ProcessKeeps ==
    ASSUME FilesInv, StartSender \/ Counting \/ Ending
    PROVE  FilesInv'
<1> USE NotNone
<1>1. CASE StartSender
  BY <1>1 DEF StartSender, UnseenAtStart, Start, FilesInv, Ids, Files, CacheFresh, Seen, InFile, Alive,
              policyVars, daemonVars
<1>2. CASE Counting
  BY <1>2 DEF Counting, Copy, Stop, Read, FilesInv, Ids, Files, CacheFresh, Seen, InFile,
              Alive, policyVars, daemonVars, fileVars
<1>3. CASE Ending /\ writer' # "off"
  BY <1>3 DEF Ending, Replace, Kill, FilesInv, Ids, Files, CacheFresh, Seen, InFile,
              Alive, policyVars, daemonVars
<1>4. CASE Ending /\ writer' = "off"
  <2> USE <1>4, ColdGrid DEF Ending, daemonVars
  <2>1. cache' \in [IDs -> Nat \cup {None}] /\ \A i \in IDs : cache'[i] = None
    BY DEF NoCDFs
  <2>2. Ids'
    BY <2>1 DEF Ids
  <2>3. Files'
    BY DEF FilesInv, Files
  <2>4. CacheFresh'
    BY <2>1 DEF CacheFresh, Held
  <2>5. Seen'
    BY DEF Seen, Alive
  <2>6. QED
    BY <2>2, <2>3, <2>4, <2>5 DEF FilesInv
<1>5. QED
  BY <1>1, <1>2, <1>3, <1>4

LEMMA FilesInvStep == FilesInv /\ [FilesNext]_filesVars => FilesInv'
<1> SUFFICES ASSUME FilesInv, [FilesNext]_filesVars
             PROVE  FilesInv'
  OBVIOUS
<1>1. CASE UNCHANGED filesVars
  BY <1>1 DEF filesVars, vars, daemonVars, fileVars, policyVars,
              FilesInv, Ids, Files, CacheFresh, Seen, InFile, Alive
<1>2. QED
  BY <1>1, DaemonStepKeeps, RefreshKeeps, PickKeeps, ProcessKeeps DEF FilesNext

LEMMA FilesInvAlways == FilesSpec => []FilesInv
BY FilesInvInit, FilesInvStep, PTL DEF FilesSpec

\* A hit in the CDF cache is of the grid in use, however picks and refreshes
\* interleave and whatever ids are given again: a grid that a pick still holds is
\* not freed, so that only the window between swap and clear is left.
THEOREM CacheStaysFresh == FilesSpec => []CacheFresh
<1>1. FilesInv => CacheFresh
  BY DEF FilesInv
<1>2. QED
  BY <1>1, FilesInvAlways, PTL

\* No publish is missed by a refresh that is under way when it lands: the mtime
\* remembered is that of the stat, never that of the file it read.
THEOREM NoPublishMissed == FilesSpec => []NoneMissed
<1>1. FilesInv => NoneMissed
  BY DEF FilesInv, Seen, InFile, NoneMissed
<1>2. QED
  BY <1>1, FilesInvAlways, PTL
=============================================================================
