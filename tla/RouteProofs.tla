------------------------------ MODULE RouteProofs ------------------------------
(***************************************************************************)
(* Proofs about RouteSets and the Fabric it sends through, for every size  *)
(* of fabric, every set of RouteSets and any number of commands and links  *)
(* cut: traffic and its answer keep to one spine, and whatever is sent on  *)
(* an EV keeps to its links, comes to the right place and is lost by the   *)
(* EV alone.                                                               *)
(***************************************************************************)
EXTENDS RouteSets, SequenceTheorems, WellFoundedInduction, TLAPS

Back(k) == <<k[1], k[3], k[2], k[4]>>

\* A route's converse is in the same set, and no key has two routes.
TwoWay(routes) ==
    /\ \A r \in routes : /\ r[1] \in Keys /\ r = <<r[1], r[2]>>
                         /\ <<Back(r[1]), r[2]>> \in routes
    /\ \A q, r \in routes : q[1] = r[1] => q[2] = r[2]

KeysOf(routes) == {r[1] : r \in routes}

\* Every route of the kernels' but those of the keys has its converse.
BackBut(keys) ==
    \A k \in DOMAIN rib \ keys : Back(k) \in DOMAIN rib /\ rib[Back(k)] = rib[k]

\* What a command has done to its routes that are not still to do.
Done(routes) ==
    \A r \in routes \ cmd.todo :
        IF cmd.is = "apply" THEN r[1] \in DOMAIN rib /\ rib[r[1]] = r[2]
        ELSE r[1] \notin DOMAIN rib

Idle == cmd.is = "none" /\ BackBut({})
Scans == cmd.is = "scan" /\ cmd.todo = Tenants \X Leaves /\ BackBut({})
Works ==
    /\ cmd.is \in {"apply", "delete"}
    /\ \E routes : /\ TwoWay(routes) /\ cmd.todo \subseteq routes
                   /\ BackBut(KeysOf(routes)) /\ Done(routes)

RibTypes ==
    /\ cmd = [is |-> cmd.is, todo |-> cmd.todo]
    /\ DOMAIN rib \subseteq Keys
    /\ \A k \in DOMAIN rib : rib[k] \in Spines
    /\ told \in BOOLEAN /\ missed \in BOOLEAN
    /\ cmd.is = "apply" => \A r \in cmd.todo : r[1] \in Keys /\ r[2] \in Spines

RouteInv == RibTypes /\ (~told /\ ~missed => Idle \/ Scans \/ Works)

-----------------------------------------------------------------------------
(* The routes of a RouteSet.                                                  *)

LEMMA BackAndForth ==
    ASSUME NEW k \in Keys
    PROVE  Back(k) \in Keys /\ Back(Back(k)) = k
BY DEF Keys, Back

Raw == Tenants \X Leaves \X Leaves \X ({{}} \cup {{s} : s \in Spines}) \X SUBSET Planes

\* Pair.routes() goes both ways over one spine.
LEMMA PairRoutes ==
    ASSUME NEW x \in Raw
    PROVE  \E s : \A r : r \in RoutesOf(x) <=>
               \E p \in x[5] : \/ r = <<<<x[1], x[2], x[3], p>>, s>>
                               \/ r = <<<<x[1], x[3], x[2], p>>, s>>
<1> DEFINE s == IF x[4] = {} THEN SpineFor(Lower(x[2], x[3]), Upper(x[2], x[3])) ELSE Min(x[4])
<1>1. RoutesOf(x) = {<<<<x[1], d[1], d[2], p>>, s>> :
                     d \in {<<x[2], x[3]>>, <<x[3], x[2]>>}, p \in x[5]}
  BY DEF RoutesOf
<1> HIDE DEF s
<1>2. QED
  BY <1>1

\* Two pairs that share a key are the same pair, either way round.
LEMMA SharedKey ==
    ASSUME NEW x \in Raw, NEW y \in Raw,
           NEW q \in RoutesOf(x), NEW r \in RoutesOf(y), q[1] = r[1]
    PROVE  SamePair(x, y)
<1>1. PICK s : \E p \in x[5] : \/ q = <<<<x[1], x[2], x[3], p>>, s>>
                               \/ q = <<<<x[1], x[3], x[2], p>>, s>>
  BY PairRoutes
<1>2. PICK u : \E p \in y[5] : \/ r = <<<<y[1], y[2], y[3], p>>, u>>
                               \/ r = <<<<y[1], y[3], y[2], p>>, u>>
  BY PairRoutes
<1>3. x[2] \in Nat /\ x[3] \in Nat /\ y[2] \in Nat /\ y[3] \in Nat
  BY FabricAssumption DEF Raw, Leaves
<1>4. q[1][1] = x[1] /\ r[1][1] = y[1]
      /\ \/ q[1][2] = x[2] /\ q[1][3] = x[3]
         \/ q[1][2] = x[3] /\ q[1][3] = x[2]
      /\ \/ r[1][2] = y[2] /\ r[1][3] = y[3]
         \/ r[1][2] = y[3] /\ r[1][3] = y[2]
  BY <1>1, <1>2
<1>5. QED
  BY <1>3, <1>4 DEF SamePair, Lower, Upper

\* What a RouteSet's pairs come to: both ways, one route for a key, however
\* its pairs replace one another.
LEMMA SpecTwoWay ==
    ASSUME NEW spec \in Specs
    PROVE  TwoWay(SpecRoutes(spec))
<1>1. spec \in Seq(Raw)
  BY RouteAssumption DEF Raw
<1>2. \A x \in Effective(spec) : x \in Raw
  BY <1>1 DEF Effective
<1>3. ASSUME NEW r \in SpecRoutes(spec)
      PROVE  r[1] \in Keys /\ r = <<r[1], r[2]>> /\ <<Back(r[1]), r[2]>> \in SpecRoutes(spec)
  <2>1. PICK x \in Effective(spec) : r \in RoutesOf(x)
    BY DEF SpecRoutes
  <2>2. x \in Raw
    BY <1>2
  <2>3. PICK s : \A q : q \in RoutesOf(x) <=>
               \E p \in x[5] : \/ q = <<<<x[1], x[2], x[3], p>>, s>>
                               \/ q = <<<<x[1], x[3], x[2], p>>, s>>
    BY <2>2, PairRoutes
  <2>4. PICK p \in x[5] : \/ r = <<<<x[1], x[2], x[3], p>>, s>>
                          \/ r = <<<<x[1], x[3], x[2], p>>, s>>
    BY <2>1, <2>3
  <2>5. x[1] \in Tenants /\ x[2] \in Leaves /\ x[3] \in Leaves /\ p \in Planes
    BY <2>2 DEF Raw
  <2>6. r[1] \in Keys /\ r = <<r[1], r[2]>>
    BY <2>4, <2>5 DEF Keys
  <2>7. <<Back(r[1]), r[2]>> \in RoutesOf(x)
    BY <2>3, <2>4 DEF Back
  <2>8. QED
    BY <2>1, <2>6, <2>7 DEF SpecRoutes
<1>4. ASSUME NEW q \in SpecRoutes(spec), NEW r \in SpecRoutes(spec), q[1] = r[1]
      PROVE  q[2] = r[2]
  <2>1. PICK i \in DOMAIN spec : /\ \A j \in i + 1 .. Len(spec) : ~SamePair(spec[j], spec[i])
                                 /\ q \in RoutesOf(spec[i])
    BY DEF SpecRoutes, Effective
  <2>2. PICK k \in DOMAIN spec : /\ \A j \in k + 1 .. Len(spec) : ~SamePair(spec[j], spec[k])
                                 /\ r \in RoutesOf(spec[k])
    BY DEF SpecRoutes, Effective
  <2>3. spec[i] \in Raw /\ spec[k] \in Raw /\ Len(spec) \in Nat /\ DOMAIN spec = 1 .. Len(spec)
    BY <1>1
  <2>4. SamePair(spec[i], spec[k]) /\ SamePair(spec[k], spec[i])
    BY <1>4, <2>1, <2>2, <2>3, SharedKey
  <2>5. i = k
    BY <2>1, <2>2, <2>3, <2>4
  <2>6. PICK s : \A t : t \in RoutesOf(spec[i]) <=>
               \E p \in spec[i][5] : \/ t = <<<<spec[i][1], spec[i][2], spec[i][3], p>>, s>>
                                     \/ t = <<<<spec[i][1], spec[i][3], spec[i][2], p>>, s>>
    BY <2>3, PairRoutes
  <2>7. QED
    BY <2>1, <2>2, <2>5, <2>6
<1>5. QED
  BY <1>3, <1>4 DEF TwoWay

-----------------------------------------------------------------------------
(* The commands.                                                              *)

LEMMA RouteInitInv == RouteInit => RouteInv
<1> SUFFICES ASSUME RouteInit PROVE RouteInv
  OBVIOUS
<1>1. DOMAIN rib = {} /\ cmd = [is |-> "none", todo |-> {}] /\ told = FALSE /\ missed = FALSE
  BY DEF RouteInit, NoCommand
<1>2. RibTypes
  BY <1>1 DEF RibTypes
<1>3. Idle
  BY <1>1 DEF Idle, BackBut
<1>4. QED
  BY <1>2, <1>3 DEF RouteInv

\* A RouteSet is taken up when no command is in progress.
LEMMA SetGiven ==
    ASSUME RouteInv, NEW spec \in Specs, ApplySet(spec) \/ DeleteSet(spec)
    PROVE  RouteInv'
<1> DEFINE R == SpecRoutes(spec)
<1>1. /\ cmd.is = "none" /\ cmd' = [is |-> cmd'.is, todo |-> R]
      /\ cmd'.is \in {"apply", "delete"} /\ cmd'.todo = R
      /\ rib' = rib /\ told' = told /\ missed' = missed
      /\ \A r \in R : r[2] \in Spines
  BY DEF ApplySet, DeleteSet, Accepted, Give
<1>2. TwoWay(R)
  BY SpecTwoWay
<1> HIDE DEF R
<1>3. RibTypes'
  BY <1>1, <1>2 DEF RouteInv, RibTypes, TwoWay
<1>4. ASSUME ~told, ~missed PROVE Works'
  <2>1. BackBut({})
    BY <1>1, <1>4 DEF RouteInv, Idle, Scans, Works
  <2>2. BackBut(KeysOf(R))'
    BY <1>1, <2>1 DEF BackBut
  <2>3. Done(R)'
    BY <1>1 DEF Done
  <2>4. QED
    BY <1>1, <1>2, <2>2, <2>3 DEF Works
<1>5. QED
  BY <1>1, <1>3, <1>4 DEF RouteInv

LEMMA AllGiven ==
    ASSUME RouteInv, DeleteAll
    PROVE  RouteInv'
<1>1. /\ cmd.is = "none" /\ cmd' = [is |-> "scan", todo |-> Tenants \X Leaves]
      /\ rib' = rib /\ told' = told /\ missed' = missed
  BY DEF DeleteAll, Give
<1>2. RibTypes'
  BY <1>1 DEF RouteInv, RibTypes
<1>3. ASSUME ~told, ~missed PROVE Scans'
  BY <1>1, <1>3 DEF RouteInv, Idle, Scans, Works, BackBut
<1>4. QED
  BY <1>1, <1>2, <1>3 DEF RouteInv

\* One route more is as the command wants it, and its converse stays to do or
\* is so already.
LEMMA OneDone ==
    ASSUME RouteInv, NEW r \in cmd.todo, OneRoute(r)
    PROVE  RouteInv'
<1>1. /\ cmd.is \in {"apply", "delete"} /\ cmd' = [cmd EXCEPT !.todo = @ \ {r}]
      /\ told' = told /\ missed' = missed
      /\ rib' = IF cmd.is = "apply"
                THEN [k \in DOMAIN rib \cup {r[1]} |-> IF k = r[1] THEN r[2] ELSE rib[k]]
                ELSE [k \in DOMAIN rib \ {r[1]} |-> rib[k]]
  BY DEF OneRoute
<1>2. cmd'.is = cmd.is /\ cmd'.todo = cmd.todo \ {r}
      /\ cmd' = [is |-> cmd'.is, todo |-> cmd'.todo]
  BY <1>1 DEF RouteInv, RibTypes
<1>3. /\ cmd.is = "apply" => /\ DOMAIN rib' = DOMAIN rib \cup {r[1]} /\ rib'[r[1]] = r[2]
                             /\ \A k \in DOMAIN rib \ {r[1]} : rib'[k] = rib[k]
      /\ cmd.is = "delete" => /\ DOMAIN rib' = DOMAIN rib \ {r[1]}
                              /\ \A k \in DOMAIN rib \ {r[1]} : rib'[k] = rib[k]
  BY <1>1
<1>4. RibTypes'
  BY <1>1, <1>2, <1>3 DEF RouteInv, RibTypes
<1>5. ASSUME ~told, ~missed PROVE Works'
  <2>1. PICK R : /\ TwoWay(R) /\ cmd.todo \subseteq R
                 /\ BackBut(KeysOf(R)) /\ Done(R)
    BY <1>1, <1>5 DEF RouteInv, Idle, Scans, Works
  <2>2. r \in R /\ r[1] \in KeysOf(R)
    BY <2>1 DEF KeysOf
  <2>3. BackBut(KeysOf(R))'
    <3> SUFFICES ASSUME NEW k \in DOMAIN rib' \ KeysOf(R)
                 PROVE  Back(k) \in DOMAIN rib' /\ rib'[Back(k)] = rib'[k]
      BY DEF BackBut, Back, KeysOf
    <3>1. k # r[1] /\ k \in DOMAIN rib /\ k \in Keys
      BY <1>1, <1>3, <2>2 DEF RouteInv, RibTypes
    <3>2. Back(k) \in DOMAIN rib /\ rib[Back(k)] = rib[k]
      BY <2>1, <3>1 DEF BackBut
    <3>3. Back(k) # r[1]
      <4>1. SUFFICES ASSUME Back(k) = r[1] PROVE FALSE
        OBVIOUS
      <4>2. Back(Back(k)) \in KeysOf(R)
        BY <2>1, <2>2, <4>1 DEF TwoWay, KeysOf
      <4>3. QED
        BY <3>1, <4>2, BackAndForth
    <3>4. QED
      BY <1>1, <1>3, <3>1, <3>2, <3>3
  <2>4. Done(R)'
    <3> SUFFICES ASSUME NEW q \in R \ cmd'.todo
                 PROVE  IF cmd.is = "apply" THEN q[1] \in DOMAIN rib' /\ rib'[q[1]] = q[2]
                        ELSE q[1] \notin DOMAIN rib'
      BY <1>2 DEF Done
    <3>1. CASE q[1] = r[1]
      <4>1. q[2] = r[2]
        BY <2>1, <2>2, <3>1 DEF TwoWay
      <4>2. QED
        BY <1>1, <1>3, <3>1, <4>1
    <3>2. CASE q[1] # r[1]
      <4>1. q \in R \ cmd.todo
        BY <1>2, <3>2
      <4>2. IF cmd.is = "apply" THEN q[1] \in DOMAIN rib /\ rib[q[1]] = q[2]
            ELSE q[1] \notin DOMAIN rib
        BY <2>1, <4>1 DEF Done
      <4>3. QED
        BY <1>1, <1>3, <3>2, <4>2
    <3>3. QED
      BY <3>1, <3>2
  <2>5. QED
    BY <1>1, <1>2, <2>1, <2>3, <2>4 DEF Works
<1>6. QED
  BY <1>1, <1>4, <1>5 DEF RouteInv

LEMMA OneMissed ==
    ASSUME RouteInv, NEW r \in cmd.todo, OneFails(r)
    PROVE  RouteInv'
<1>1. /\ cmd' = [cmd EXCEPT !.todo = @ \ {r}] /\ rib' = rib
      /\ \/ told' = TRUE /\ missed' = missed
         \/ missed' = TRUE /\ told' = told
  BY DEF OneFails
<1>2. cmd'.is = cmd.is /\ cmd'.todo = cmd.todo \ {r}
      /\ cmd' = [is |-> cmd'.is, todo |-> cmd'.todo]
  BY <1>1 DEF RouteInv, RibTypes
<1>3. QED
  BY <1>1, <1>2 DEF RouteInv, RibTypes

\* A scan that has not missed a host has found every route.
LEMMA Scanned ==
    ASSUME RouteInv, ScanDone
    PROVE  RouteInv'
<1>1. PICK bad \in SUBSET cmd.todo :
         /\ missed' = (missed \/ bad # {})
         /\ cmd' = [is |-> "delete", todo |-> FoundOn(cmd.todo \ bad)]
         /\ cmd.is = "scan" /\ rib' = rib /\ told' = told
  BY DEF ScanDone
<1>2. RibTypes'
  BY <1>1 DEF RouteInv, RibTypes
<1>3. ASSUME ~told, ~missed' PROVE Works'
  <2>1. bad = {} /\ cmd.todo = Tenants \X Leaves /\ BackBut({})
    BY <1>1, <1>3 DEF RouteInv, RibTypes, Idle, Scans, Works
  <2>2. PICK R : R = {<<k, rib[k]>> : k \in DOMAIN rib}
    OBVIOUS
  <2>3. cmd'.todo = R
    <3>1. \A k \in DOMAIN rib : <<k[1], k[2]>> \in Tenants \X Leaves
      BY DEF RouteInv, RibTypes, Keys
    <3>2. QED
      BY <1>1, <2>1, <2>2, <3>1 DEF FoundOn
  <2>4. TwoWay(R)
    <3>1. \A k \in DOMAIN rib : k \in Keys /\ Back(k) \in DOMAIN rib /\ rib[Back(k)] = rib[k]
      BY <2>1 DEF BackBut, RouteInv, RibTypes
    <3>2. QED
      BY <2>2, <3>1 DEF TwoWay
  <2>5. BackBut(KeysOf(R))'
    <3>1. ASSUME NEW k \in DOMAIN rib PROVE k \in KeysOf(R)
      <4>1. <<k, rib[k]>> \in R /\ <<k, rib[k]>>[1] = k
        BY <2>2
      <4>2. QED
        BY <4>1 DEF KeysOf
    <3>2. QED
      BY <1>1, <3>1 DEF BackBut
  <2>6. Done(R)'
    BY <2>3 DEF Done
  <2>7. QED
    BY <1>1, <2>3, <2>4, <2>5, <2>6 DEF Works
<1>4. QED
  BY <1>1, <1>2, <1>3 DEF RouteInv, RibTypes

\* At the end of a command nothing is left one-way.
LEMMA Ended ==
    ASSUME RouteInv, CommandEnds
    PROVE  RouteInv'
<1>1. /\ cmd.is \in {"apply", "delete"} /\ cmd.todo = {}
      /\ cmd' = [is |-> "none", todo |-> {}]
      /\ rib' = rib /\ told' = told /\ missed' = missed
  BY DEF CommandEnds, NoCommand
<1>2. RibTypes'
  BY <1>1 DEF RouteInv, RibTypes
<1>3. ASSUME ~told, ~missed PROVE Idle'
  <2>1. PICK R : TwoWay(R) /\ BackBut(KeysOf(R)) /\ Done(R)
    BY <1>1, <1>3 DEF RouteInv, Idle, Scans, Works
  <2>2. ASSUME NEW k \in DOMAIN rib PROVE Back(k) \in DOMAIN rib /\ rib[Back(k)] = rib[k]
    <3>1. CASE k \in KeysOf(R)
      <4>1. PICK r \in R : k = r[1]
        BY <3>1 DEF KeysOf
      <4>2. <<Back(k), r[2]>> \in R
        BY <2>1, <4>1 DEF TwoWay
      <4>3. cmd.is = "apply" /\ rib[k] = r[2]
        BY <1>1, <2>1, <2>2, <4>1 DEF Done
      <4>4. QED
        BY <1>1, <2>1, <4>2, <4>3 DEF Done
    <3>2. CASE k \notin KeysOf(R)
      BY <2>1, <3>2 DEF BackBut
    <3>3. QED
      BY <3>1, <3>2
  <2>3. QED
    BY <1>1, <2>2 DEF Idle, BackBut
<1>4. QED
  BY <1>1, <1>2, <1>3 DEF RouteInv

LEMMA RoutesStand ==
    ASSUME RouteInv, UNCHANGED routeVars
    PROVE  RouteInv'
BY DEF RouteInv, RibTypes, Idle, Scans, Works, BackBut, Done, routeVars

LEMMA RouteStep == RouteInv /\ [RouteNext]_allVars => RouteInv'
<1> SUFFICES ASSUME RouteInv, [RouteNext]_allVars PROVE RouteInv'
  OBVIOUS
<1>1. ASSUME NEW spec \in Specs, ApplySet(spec) \/ DeleteSet(spec) PROVE RouteInv'
  BY <1>1, SetGiven
<1>2. ASSUME NEW r \in cmd.todo, OneRoute(r) \/ OneFails(r) PROVE RouteInv'
  BY <1>2, OneDone, OneMissed
<1>3. CASE UNCHANGED routeVars
  BY <1>3, RoutesStand
<1>4. CASE UNCHANGED allVars
  BY <1>4, RoutesStand DEF allVars
<1>5. ASSUME NEW t \in Tenants, NEW src \in Leaves, NEW dst \in Leaves \ {src},
             KernelSend(t, src, dst)
      PROVE  RouteInv'
  BY <1>5, RoutesStand DEF KernelSend
<1>6. QED
  BY <1>1, <1>2, <1>3, <1>4, <1>5, AllGiven, Scanned, Ended DEF RouteNext

\* Once every command has ended and none has failed, a host answers over the
\* plane and the spine it is talked to by, whichever RouteSets have been
\* applied over one another, deleted or swept away, and in whatever order
\* _run_parallel() has dealt with their routes.
THEOREM AnswersKeepToTheSpine == RouteSpec => []BothWays
<1>1. RouteInv => BothWays
  <2> SUFFICES ASSUME RouteInv, cmd.is = "none", ~told, ~missed
               PROVE  BackBut({})
    BY DEF BothWays, BackBut, Back
  <2>1. QED
    BY DEF RouteInv, Idle, Scans, Works
<1>2. QED
  BY RouteInitInv, RouteStep, <1>1, PTL DEF RouteSpec

-----------------------------------------------------------------------------
(* The wiring.                                                                *)

FabLink(p, s, l) == {<<LeafAt(p, l), s>>, <<SpineAt(p, s), l>>}
NicLink(t, h, p) == {<<LeafAt(p, h), HostPort(t)>>, <<HostAt(t, h), p>>}

\* Where a port is wired to.
LEMMA FabricWires ==
    ASSUME NEW p \in Planes, NEW s \in Spines, NEW l \in Leaves
    PROVE  /\ <<LeafAt(p, l), s>> \in Ends /\ <<SpineAt(p, s), l>> \in Ends
           /\ LinkOf(<<LeafAt(p, l), s>>) = FabLink(p, s, l)
           /\ LinkOf(<<SpineAt(p, s), l>>) = FabLink(p, s, l)
           /\ FarEnd(<<LeafAt(p, l), s>>) = <<SpineAt(p, s), l>>
           /\ FarEnd(<<SpineAt(p, s), l>>) = <<LeafAt(p, l), s>>
<1> DEFINE a == <<LeafAt(p, l), s>>
           b == <<SpineAt(p, s), l>>
<1>1. FabLink(p, s, l) \in Links
  BY DEF Links, FabLink
<1>2. a # b
  BY DEF LeafAt, SpineAt
<1>3. ASSUME NEW k \in Links, a \in k \/ b \in k PROVE k = FabLink(p, s, l)
  <2>1. CASE \E q \in Planes, u \in Spines, m \in Leaves :
               k = {<<LeafAt(q, m), u>>, <<SpineAt(q, u), m>>}
    <3>1. PICK q \in Planes, u \in Spines, m \in Leaves :
               k = {<<LeafAt(q, m), u>>, <<SpineAt(q, u), m>>}
      BY <2>1
    <3>2. q = p /\ u = s /\ m = l
      BY <1>3, <3>1 DEF LeafAt, SpineAt
    <3>3. QED
      BY <3>1, <3>2 DEF FabLink
  <2>2. CASE \E q \in Planes, h \in Leaves, t \in Tenants :
               k = {<<LeafAt(q, h), HostPort(t)>>, <<HostAt(t, h), q>>}
    <3>1. PICK q \in Planes, h \in Leaves, t \in Tenants :
               k = {<<LeafAt(q, h), HostPort(t)>>, <<HostAt(t, h), q>>}
      BY <2>2
    <3>2. HostPort(t) # s
      BY FabricAssumption DEF HostPort, Spines
    <3>3. QED
      BY <1>3, <3>1, <3>2 DEF LeafAt, SpineAt, HostAt, Tenants
  <2>3. QED
    BY <1>3, <2>1, <2>2 DEF Links
<1>4. LinkOf(a) = FabLink(p, s, l) /\ LinkOf(b) = FabLink(p, s, l)
  BY <1>1, <1>3 DEF LinkOf, FabLink
<1>5. FarEnd(a) = b /\ FarEnd(b) = a
  BY <1>2, <1>4 DEF FarEnd, FabLink
<1>6. a \in Ends /\ b \in Ends
  BY <1>1 DEF Ends, FabLink
<1>7. QED
  BY <1>4, <1>5, <1>6

LEMMA HostWires ==
    ASSUME NEW p \in Planes, NEW t \in Tenants, NEW h \in Leaves
    PROVE  /\ <<LeafAt(p, h), HostPort(t)>> \in Ends /\ <<HostAt(t, h), p>> \in Ends
           /\ LinkOf(<<LeafAt(p, h), HostPort(t)>>) = NicLink(t, h, p)
           /\ LinkOf(<<HostAt(t, h), p>>) = NicLink(t, h, p)
           /\ FarEnd(<<LeafAt(p, h), HostPort(t)>>) = <<HostAt(t, h), p>>
           /\ FarEnd(<<HostAt(t, h), p>>) = <<LeafAt(p, h), HostPort(t)>>
<1> DEFINE a == <<LeafAt(p, h), HostPort(t)>>
           b == <<HostAt(t, h), p>>
<1>1. NicLink(t, h, p) \in Links
  BY DEF Links, NicLink
<1>2. a # b
  BY DEF LeafAt, HostAt, Tenants
<1>3. ASSUME NEW k \in Links, a \in k \/ b \in k PROVE k = NicLink(t, h, p)
  <2>1. CASE \E q \in Planes, u \in Spines, m \in Leaves :
               k = {<<LeafAt(q, m), u>>, <<SpineAt(q, u), m>>}
    <3>1. PICK q \in Planes, u \in Spines, m \in Leaves :
               k = {<<LeafAt(q, m), u>>, <<SpineAt(q, u), m>>}
      BY <2>1
    <3>2. HostPort(t) # u
      BY FabricAssumption DEF HostPort, Spines
    <3>3. QED
      BY <1>3, <3>1, <3>2 DEF LeafAt, SpineAt, HostAt, Tenants
  <2>2. CASE \E q \in Planes, g \in Leaves, u \in Tenants :
               k = {<<LeafAt(q, g), HostPort(u)>>, <<HostAt(u, g), q>>}
    <3>1. PICK q \in Planes, g \in Leaves, u \in Tenants :
               k = {<<LeafAt(q, g), HostPort(u)>>, <<HostAt(u, g), q>>}
      BY <2>2
    <3>2. q = p /\ g = h /\ u = t
      BY <1>3, <3>1 DEF LeafAt, HostAt, HostPort, Tenants
    <3>3. QED
      BY <3>1, <3>2 DEF NicLink
  <2>3. QED
    BY <1>3, <2>1, <2>2 DEF Links
<1>4. LinkOf(a) = NicLink(t, h, p) /\ LinkOf(b) = NicLink(t, h, p)
  BY <1>1, <1>3 DEF LinkOf, NicLink
<1>5. FarEnd(a) = b /\ FarEnd(b) = a
  BY <1>2, <1>4 DEF FarEnd, NicLink
<1>6. a \in Ends /\ b \in Ends
  BY <1>1 DEF Ends, NicLink
<1>7. QED
  BY <1>4, <1>5, <1>6

\* The addresses behind a port.
LEMMA Addresses ==
    ASSUME NEW p \in Planes, NEW l \in Leaves
    PROVE  /\ \A s \in Spines :
                /\ AddrsAt(<<SpineAt(p, s), l>>) = {<<"fab", LinkIdx(s, l), 0>>}
                /\ AddrsAt(<<LeafAt(p, l), s>>) = {<<"fab", LinkIdx(s, l), 1>>}
           /\ \A t \in Tenants :
                /\ AddrsAt(<<LeafAt(p, l), HostPort(t)>>) = {Gateway(t, l)}
                /\ AddrsAt(<<HostAt(t, l), p>>) = HostAddrs(t, l, p)
<1>1. ASSUME NEW s \in Spines
      PROVE  /\ AddrsAt(<<SpineAt(p, s), l>>) = {<<"fab", LinkIdx(s, l), 0>>}
             /\ AddrsAt(<<LeafAt(p, l), s>>) = {<<"fab", LinkIdx(s, l), 1>>}
  BY DEF AddrsAt, SpineAddrs, LeafAddrs, SpineAt, LeafAt
<1>2. ASSUME NEW t \in Tenants
      PROVE  /\ AddrsAt(<<LeafAt(p, l), HostPort(t)>>) = {Gateway(t, l)}
             /\ AddrsAt(<<HostAt(t, l), p>>) = HostAddrs(t, l, p)
  <2>1. HostPort(t) \notin Spines
    BY FabricAssumption DEF HostPort, Spines
  <2>2. {u \in Tenants : HostPort(u) = HostPort(t)} = {t}
    BY DEF Tenants, HostPort
  <2>3. LeafAddrs(l, HostPort(t)) = {Gateway(t, l)}
    BY <2>1, <2>2 DEF LeafAddrs
  <2>4. QED
    BY <2>3 DEF AddrsAt, LeafAt, HostAt, Tenants
<1>3. QED
  BY <1>1, <1>2

\* A leaf's links to the spines, and a spine's to the leaves, are subnets of
\* their own.
LEMMA OwnSubnet ==
    ASSUME NEW s \in Spines, NEW l \in Leaves
    PROVE  /\ \A u \in Spines : LinkIdx(u, l) = LinkIdx(s, l) => u = s
           /\ \A m \in Leaves : LinkIdx(s, m) = LinkIdx(s, l) => m = l
<1>1. NumLeaves \in Nat /\ NumLeaves >= 1 /\ s \in 0 .. 7 /\ l \in Nat
  BY FabricAssumption DEF Spines, Leaves
<1>2. ASSUME NEW u \in Spines, LinkIdx(u, l) = LinkIdx(s, l) PROVE u = s
  <2>1. u \in 0 .. 7 /\ u * NumLeaves + l = s * NumLeaves + l
    BY <1>2, FabricAssumption DEF Spines, LinkIdx
  <2>2. u * NumLeaves = s * NumLeaves
    BY <1>1, <2>1
  <2>3. QED
    BY <1>1, <2>1, <2>2
<1>3. ASSUME NEW m \in Leaves, LinkIdx(s, m) = LinkIdx(s, l) PROVE m = l
  <2>1. m \in Nat /\ s * NumLeaves \in Nat /\ s * NumLeaves + m = s * NumLeaves + l
    BY <1>1, <1>3, FabricAssumption DEF Leaves, LinkIdx
  <2>2. QED
    BY <1>1, <2>1
<1>4. QED
  BY <1>2, <1>3

-----------------------------------------------------------------------------
(* Tables.                                                                    *)

LEMMA LeafKnows ==
    ASSUME NEW l \in Leaves
    PROVE  /\ \A s \in Spines :
                /\ LeafUA(s) \in DOMAIN LeafSids(l)
                /\ LeafSids(l)[LeafUA(s)] = UA(s, <<"fab", LinkIdx(s, l), 0>>)
                /\ SpineLocator(s) \notin DOMAIN LeafSids(l)
           /\ {LeafLocator(l), GreenUDT, HostUA(9), ProbeUDT} \subseteq DOMAIN LeafSids(l)
           /\ LeafSids(l)[LeafLocator(l)] = UN
           /\ LeafSids(l)[GreenUDT] = UDT("green")
           /\ LeafSids(l)[HostUA(9)] = UA(9, Anycast("yellow", l))
           /\ LeafSids(l)[ProbeUDT] = UDT("yellow")
           /\ YellowUDT \notin DOMAIN LeafSids(l)
<1>1. l \in 0 .. 15 /\ \A s \in Spines : s \in 0 .. 7
  BY FabricAssumption DEF Leaves, Spines
<1>2. HostPort("yellow") = 9
  BY DEF HostPort
<1>3. /\ LeafLocator(l) \in 32 .. 47 /\ GreenUDT = 53248 /\ HostUA(9) = 57353 /\ ProbeUDT = 57343
      /\ YellowUDT = 53249
  BY <1>1 DEF LeafLocator, GreenUDT, HostUA, ProbeUDT, YellowUDT
<1>4. \A s \in Spines : /\ LeafUA(s) \in 61440 .. 61447 /\ LeafUA(s) - LeafUA(0) = s
                        /\ SpineLocator(s) \in 16 .. 23
  BY <1>1 DEF LeafUA, SpineLocator
<1>5. DOMAIN LeafSids(l) = {LeafLocator(l), GreenUDT, HostUA(9), ProbeUDT}
                           \cup {LeafUA(s) : s \in Spines}
  BY <1>2 DEF LeafSids
<1>6. ASSUME NEW d \in DOMAIN LeafSids(l)
      PROVE  LeafSids(l)[d] =
               CASE d = LeafLocator(l) -> UN
                 [] d = GreenUDT -> UDT("green")
                 [] d = HostUA(9) -> UA(9, Anycast("yellow", l))
                 [] d = ProbeUDT -> UDT("yellow")
                 [] OTHER -> UA(d - LeafUA(0), <<"fab", LinkIdx(d - LeafUA(0), l), 0>>)
  BY <1>2, <1>5 DEF LeafSids
<1>7. ASSUME NEW s \in Spines
      PROVE  /\ LeafUA(s) \in DOMAIN LeafSids(l)
             /\ LeafSids(l)[LeafUA(s)] = UA(s, <<"fab", LinkIdx(s, l), 0>>)
             /\ SpineLocator(s) \notin DOMAIN LeafSids(l)
  BY <1>3, <1>4, <1>5, <1>6
<1>8. {LeafLocator(l), GreenUDT, HostUA(9), ProbeUDT} \subseteq DOMAIN LeafSids(l)
      /\ YellowUDT \notin DOMAIN LeafSids(l)
  BY <1>3, <1>4, <1>5
<1>9. /\ LeafSids(l)[LeafLocator(l)] = UN
      /\ LeafSids(l)[GreenUDT] = UDT("green")
      /\ LeafSids(l)[HostUA(9)] = UA(9, Anycast("yellow", l))
      /\ LeafSids(l)[ProbeUDT] = UDT("yellow")
  <2>1. LeafLocator(l) \notin {GreenUDT, HostUA(9), ProbeUDT}
        /\ GreenUDT \notin {HostUA(9), ProbeUDT} /\ HostUA(9) # ProbeUDT
    BY <1>3
  <2>2. LeafSids(l)[LeafLocator(l)] = UN
    BY <1>6, <1>8, <2>1
  <2>3. LeafSids(l)[GreenUDT] = UDT("green")
    BY <1>6, <1>8, <2>1
  <2>4. LeafSids(l)[HostUA(9)] = UA(9, Anycast("yellow", l))
    BY <1>6, <1>8, <2>1
  <2>5. LeafSids(l)[ProbeUDT] = UDT("yellow")
    BY <1>6, <1>8, <2>1
  <2>6. QED
    BY <2>2, <2>3, <2>4, <2>5
<1>10. QED
  BY <1>7, <1>8, <1>9

LEMMA SpineKnows ==
    ASSUME NEW s \in Spines
    PROVE  /\ \A l \in Leaves :
                /\ SpineUA(l) \in DOMAIN SpineSids(s)
                /\ SpineSids(s)[SpineUA(l)] = UA(l, <<"fab", LinkIdx(s, l), 1>>)
                /\ LeafLocator(l) \notin DOMAIN SpineSids(s)
           /\ SpineLocator(s) \in DOMAIN SpineSids(s)
           /\ SpineSids(s)[SpineLocator(s)] = UN
<1>1. s \in 0 .. 7 /\ \A l \in Leaves : l \in 0 .. 15
  BY FabricAssumption DEF Leaves, Spines
<1>2. SpineLocator(s) \in 16 .. 23
  BY <1>1 DEF SpineLocator
<1>3. \A l \in Leaves : /\ SpineUA(l) \in 57344 .. 57359 /\ SpineUA(l) - SpineUA(0) = l
                        /\ LeafLocator(l) \in 32 .. 47
  BY <1>1 DEF SpineUA, LeafLocator
<1>4. QED
  BY <1>2, <1>3 DEF SpineSids

LEMMA HostKnows ==
    /\ YellowUDT \in DOMAIN HostSids("yellow") /\ HostSids("yellow")[YellowUDT] = UDT("yellow")
    /\ \A s \in Spines : LeafUA(s) \notin DOMAIN HostSids("yellow")
<1>1. \A s \in Spines : LeafUA(s) >= 61440
  BY FabricAssumption DEF Spines, LeafUA
<1>2. YellowUDT = 53249
  BY DEF YellowUDT
<1>3. QED
  BY <1>1, <1>2 DEF HostSids

\* A leaf's next hops to a spine's locator and to its own yellow host; a spine's
\* to a leaf's locator.
LEMMA Hops ==
    ASSUME NEW s \in Spines, NEW l \in Leaves
    PROVE  /\ LeafHops(l, SpineLocator(s)) = {<<"fab", LinkIdx(s, l), 0>>}
           /\ LeafHops(l, YellowUDT) = {Anycast("yellow", l)}
           /\ SpineHops(s, LeafLocator(l)) = {<<"fab", LinkIdx(s, l), 1>>}
<1>1. s \in 0 .. 7 /\ (\A u \in Spines : u \in 0 .. 7) /\ \A m \in Leaves : m \in 0 .. 15
  BY FabricAssumption DEF Leaves, Spines
<1>2. /\ \A u \in Spines : SpineLocator(u) = 16 + u
      /\ \A m \in Leaves : LeafLocator(m) = 32 + m
      /\ YellowUDT = 53249
  BY DEF SpineLocator, LeafLocator, YellowUDT
<1>3. LeafHops(l, SpineLocator(s)) = {<<"fab", LinkIdx(s, l), 0>>}
  <2>1. {u \in Spines : SpineLocator(s) = SpineLocator(u)
                        \/ \E m \in Leaves \ {l} : SpineLocator(s) = LeafLocator(m)} = {s}
    <3>1. \A m \in Leaves : SpineLocator(s) # LeafLocator(m)
      BY <1>1, <1>2
    <3>2. \A u \in Spines : SpineLocator(s) = SpineLocator(u) <=> u = s
      BY <1>1, <1>2
    <3>3. QED
      BY <3>1, <3>2
  <2>2. SpineLocator(s) # YellowUDT
    BY <1>1, <1>2
  <2>3. QED
    BY <2>1, <2>2 DEF LeafHops
<1>4. LeafHops(l, YellowUDT) = {Anycast("yellow", l)}
  <2>1. {u \in Spines : YellowUDT = SpineLocator(u)
                        \/ \E m \in Leaves \ {l} : YellowUDT = LeafLocator(m)} = {}
    <3>1. \A m \in Leaves : YellowUDT # LeafLocator(m)
      BY <1>1, <1>2
    <3>2. \A u \in Spines : YellowUDT # SpineLocator(u)
      BY <1>1, <1>2
    <3>3. QED
      BY <3>1, <3>2
  <2>2. QED
    BY <2>1 DEF LeafHops
<1>5. SpineHops(s, LeafLocator(l)) = {<<"fab", LinkIdx(s, l), 1>>}
  <2>1. {m \in Leaves : LeafLocator(l) = LeafLocator(m)} = {l}
    BY <1>1, <1>2
  <2>2. QED
    BY <2>1 DEF SpineHops
<1>6. QED
  BY <1>3, <1>4, <1>5

\* A leaf's ports, and a spine's.
LEMMA LeafEnds ==
    ASSUME NEW p \in Planes, NEW l \in Leaves, NEW x \in Ends, x[1] = LeafAt(p, l)
    PROVE  (\E u \in Spines : x = <<LeafAt(p, l), u>>)
           \/ \E t \in Tenants : x = <<LeafAt(p, l), HostPort(t)>>
BY DEF Ends, Links, LeafAt, SpineAt, HostAt, Tenants

LEMMA SpineEnds ==
    ASSUME NEW p \in Planes, NEW s \in Spines, NEW x \in Ends, x[1] = SpineAt(p, s)
    PROVE  \E m \in Leaves : x = <<SpineAt(p, s), m>>
BY DEF Ends, Links, LeafAt, SpineAt, HostAt, Tenants

\* The one port to each of the next hops.
LEMMA PortToSpine ==
    ASSUME NEW p \in Planes, NEW s \in Spines, NEW l \in Leaves
    PROVE  PortsTo(LeafAt(p, l), <<"fab", LinkIdx(s, l), 0>>) = {s}
<1>1. ASSUME NEW x \in Ends, x[1] = LeafAt(p, l),
             \E a \in AddrsAt(x) : SameSubnet(a, <<"fab", LinkIdx(s, l), 0>>)
      PROVE  x[2] = s
  <2>1. CASE \E u \in Spines : x = <<LeafAt(p, l), u>>
    <3>1. PICK u \in Spines : x = <<LeafAt(p, l), u>>
      BY <2>1
    <3>2. AddrsAt(x) = {<<"fab", LinkIdx(u, l), 1>>}
      BY <3>1, Addresses
    <3>3. LinkIdx(u, l) = LinkIdx(s, l)
      BY <1>1, <3>2 DEF SameSubnet
    <3>4. QED
      BY <3>1, <3>3, OwnSubnet
  <2>2. CASE \E t \in Tenants : x = <<LeafAt(p, l), HostPort(t)>>
    <3>1. PICK t \in Tenants : x = <<LeafAt(p, l), HostPort(t)>>
      BY <2>2
    <3>2. AddrsAt(x) = {<<t, l, 1>>}
      <4>1. AddrsAt(<<LeafAt(p, l), HostPort(t)>>) = {Gateway(t, l)}
        BY Addresses
      <4>2. QED
        BY <3>1, <4>1 DEF Gateway
    <3>3. QED
      BY <1>1, <3>1, <3>2 DEF SameSubnet, Tenants
  <2>3. QED
    BY LeafEnds, <1>1, <2>1, <2>2
<1>2. <<LeafAt(p, l), s>> \in Ends
      /\ \E a \in AddrsAt(<<LeafAt(p, l), s>>) : SameSubnet(a, <<"fab", LinkIdx(s, l), 0>>)
  <2>1. AddrsAt(<<LeafAt(p, l), s>>) = {<<"fab", LinkIdx(s, l), 1>>}
    BY Addresses
  <2>2. SameSubnet(<<"fab", LinkIdx(s, l), 1>>, <<"fab", LinkIdx(s, l), 0>>)
    BY DEF SameSubnet
  <2>3. QED
    BY <2>1, <2>2, FabricWires
<1>3. QED
  BY <1>1, <1>2 DEF PortsTo

LEMMA PortToHost ==
    ASSUME NEW p \in Planes, NEW l \in Leaves
    PROVE  PortsTo(LeafAt(p, l), Anycast("yellow", l)) = {9}
<1>1. ASSUME NEW x \in Ends, x[1] = LeafAt(p, l),
             \E a \in AddrsAt(x) : SameSubnet(a, Anycast("yellow", l))
      PROVE  x[2] = 9
  <2>1. CASE \E u \in Spines : x = <<LeafAt(p, l), u>>
    <3>1. PICK u \in Spines : x = <<LeafAt(p, l), u>>
      BY <2>1
    <3>2. AddrsAt(x) = {<<"fab", LinkIdx(u, l), 1>>}
      BY <3>1, Addresses
    <3>3. QED
      BY <1>1, <3>2 DEF SameSubnet, Anycast
  <2>2. CASE \E t \in Tenants : x = <<LeafAt(p, l), HostPort(t)>>
    <3>1. PICK t \in Tenants : x = <<LeafAt(p, l), HostPort(t)>>
      BY <2>2
    <3>2. AddrsAt(x) = {<<t, l, 1>>}
      <4>1. AddrsAt(<<LeafAt(p, l), HostPort(t)>>) = {Gateway(t, l)}
        BY Addresses
      <4>2. QED
        BY <3>1, <4>1 DEF Gateway
    <3>3. t = "yellow"
      BY <1>1, <3>2 DEF SameSubnet, Anycast
    <3>4. QED
      BY <3>1, <3>3 DEF HostPort
  <2>3. QED
    BY LeafEnds, <1>1, <2>1, <2>2
<1>2. <<LeafAt(p, l), 9>> \in Ends
      /\ \E a \in AddrsAt(<<LeafAt(p, l), 9>>) : SameSubnet(a, Anycast("yellow", l))
  <2>1. HostPort("yellow") = 9 /\ "yellow" \in Tenants
    BY DEF HostPort, Tenants
  <2>2. QED
    <3>1. AddrsAt(<<LeafAt(p, l), HostPort("yellow")>>) = {Gateway("yellow", l)}
      BY <2>1, Addresses
    <3>2. SameSubnet(Gateway("yellow", l), Anycast("yellow", l))
      BY DEF SameSubnet, Anycast, Gateway
    <3>3. QED
      BY <2>1, <3>1, <3>2, HostWires
<1>3. QED
  BY <1>1, <1>2 DEF PortsTo

LEMMA PortToLeaf ==
    ASSUME NEW p \in Planes, NEW s \in Spines, NEW l \in Leaves
    PROVE  PortsTo(SpineAt(p, s), <<"fab", LinkIdx(s, l), 1>>) = {l}
<1>1. ASSUME NEW x \in Ends, x[1] = SpineAt(p, s),
             \E a \in AddrsAt(x) : SameSubnet(a, <<"fab", LinkIdx(s, l), 1>>)
      PROVE  x[2] = l
  <2>1. PICK m \in Leaves : x = <<SpineAt(p, s), m>>
    BY SpineEnds, <1>1
  <2>2. AddrsAt(x) = {<<"fab", LinkIdx(s, m), 0>>}
    BY <2>1, Addresses
  <2>3. LinkIdx(s, m) = LinkIdx(s, l)
    BY <1>1, <2>2 DEF SameSubnet
  <2>4. QED
    BY <2>1, <2>3, OwnSubnet
<1>2. <<SpineAt(p, s), l>> \in Ends
      /\ \E a \in AddrsAt(<<SpineAt(p, s), l>>) : SameSubnet(a, <<"fab", LinkIdx(s, l), 1>>)
  <2>1. AddrsAt(<<SpineAt(p, s), l>>) = {<<"fab", LinkIdx(s, l), 0>>}
    BY Addresses
  <2>2. SameSubnet(<<"fab", LinkIdx(s, l), 0>>, <<"fab", LinkIdx(s, l), 1>>)
    BY DEF SameSubnet
  <2>3. QED
    BY <2>1, <2>2, FabricWires
<1>3. QED
  BY <1>1, <1>2 DEF PortsTo

-----------------------------------------------------------------------------
(* A packet on its way.                                                       *)

Evs == [tenant : Tenants, src : Leaves, dst : Leaves, plane : Planes, spine : Spines]

Inner(kind, e) == IF kind = "data" THEN Anycast(e.tenant, e.dst)
                  ELSE ProbeEvAddr(e.tenant, e.src, e.plane, e.spine)

Addr(e, sids) == [block |-> e.plane, sids |-> sids]

\* At node n, come by port, with outer destination da and links c behind it.
Packet(is, kind, e, n, port, da, c) ==
    [is |-> is, kind |-> kind, ev |-> e, at |-> n, in |-> port, da |-> da,
     inner |-> Inner(kind, e), crossed |-> c]

Going(kind, e, n, sids, c) ==
    \E port : pkt = Packet("moving", kind, e, n, port, Addr(e, sids), c)

\* At the other end of link k.
Moved(q, n, port, k) == [q EXCEPT !.at = n, !.in = port, !.crossed = @ \cup {k}]

\* The step takes it over link k to port of n, or loses it if k is down.
Crosses(kind, e, n, port, da, c, k) ==
    IF k \notin cut THEN pkt' = Packet("moving", kind, e, n, port, da, c \cup {k})
    ELSE \E m, i : pkt' = Packet("lost", kind, e, m, i, da, c)

\* x before the SIDs of q.
Then(x, q) == <<x>> \o q

LEMMA ThenShifts ==
    ASSUME NEW x \in Nat, NEW q \in Seq(Nat)
    PROVE  Then(x, q) \in Seq(Nat) /\ Head(Then(x, q)) = x /\ Tail(Then(x, q)) = q
<1>1. Len(<<x>>) = 1 /\ Len(Then(x, q)) = Len(q) + 1 /\ Then(x, q) \in Seq(Nat) /\ Len(q) \in Nat
  BY DEF Then
<1>2. Then(x, q)[1] = x /\ \A i \in 1 .. Len(q) : Then(x, q)[i + 1] = q[i]
  BY DEF Then
<1>3. Head(Then(x, q)) = x
  BY <1>1, <1>2
<1>4. /\ Tail(Then(x, q)) \in Seq(Nat) /\ Len(Tail(Then(x, q))) = Len(q)
      /\ \A i \in 1 .. Len(q) : Tail(Then(x, q))[i] = q[i]
  BY <1>1, <1>2
<1> DEFINE t == Tail(Then(x, q))
<1> HIDE DEF t
<1>5. t = q
  <2>1. t \in Seq(Nat) /\ Len(t) = Len(q) /\ \A i \in 1 .. Len(q) : t[i] = q[i]
    BY <1>4 DEF t
  <2>2. QED
    BY <2>1, SeqEqual
<1>6. QED
  BY <1>1, <1>3, <1>5 DEF t

LEMMA SidsAreNumbers ==
    /\ \A s \in Spines : LeafUA(s) \in Nat /\ SpineLocator(s) \in Nat
    /\ \A l \in Leaves : SpineUA(l) \in Nat /\ LeafLocator(l) \in Nat
    /\ {HostUA(9), GreenUDT, YellowUDT, ProbeUDT} \subseteq Nat
BY FabricAssumption DEF Spines, Leaves, LeafUA, SpineLocator, SpineUA, LeafLocator, HostUA,
   GreenUDT, YellowUDT, ProbeUDT

\* What the packet is made of.
LEMMA PacketParts ==
    ASSUME NEW is, NEW kind, NEW e, NEW n, NEW i, NEW da, NEW c, NEW q,
           q = Packet(is, kind, e, n, i, da, c)
    PROVE  /\ q.is = is /\ q.kind = kind /\ q.ev = e /\ q.at = n /\ q.in = i /\ q.da = da
           /\ q.inner = Inner(kind, e) /\ q.crossed = c
BY DEF Packet

LEMMA PacketBared ==
    ASSUME NEW is, NEW kind, NEW e, NEW n, NEW i, NEW da, NEW c, NEW q,
           q = Packet(is, kind, e, n, i, da, c)
    PROVE  Bare(q) = Packet(is, kind, e, n, i, <<>>, c)
BY DEF Packet, Bare

LEMMA PacketEnds ==
    ASSUME NEW is, NEW kind, NEW e, NEW n, NEW i, NEW da, NEW c, NEW q,
           q = Packet(is, kind, e, n, i, da, c), NEW x
    PROVE  [q EXCEPT !.is = x] = Packet(x, kind, e, n, i, da, c)
BY DEF Packet

LEMMA PacketMoves ==
    ASSUME NEW is, NEW kind, NEW e, NEW n, NEW i, NEW da, NEW c, NEW q,
           q = Packet(is, kind, e, n, i, da, c), NEW m, NEW j, NEW k
    PROVE  Moved(q, m, j, k) = Packet(is, kind, e, m, j, da, c \cup {k})
<1>1. q.crossed = c
  BY DEF Packet
<1> DEFINE d == c \cup {k}
<1>2. [q EXCEPT !.at = m, !.in = j, !.crossed = @ \cup {k}]
        = [q EXCEPT !.at = m, !.in = j, !.crossed = d]
  BY <1>1
<1> HIDE DEF d
<1>3. [q EXCEPT !.at = m, !.in = j, !.crossed = d] = Packet(is, kind, e, m, j, da, d)
  <2>1. \A x : x = Packet(is, kind, e, n, i, da, c)
               => [x EXCEPT !.at = m] = Packet(is, kind, e, m, i, da, c)
    BY DEF Packet
  <2>2. \A x : x = Packet(is, kind, e, m, i, da, c)
               => [x EXCEPT !.in = j] = Packet(is, kind, e, m, j, da, c)
    BY DEF Packet
  <2>3. \A x : x = Packet(is, kind, e, m, j, da, c)
               => [x EXCEPT !.crossed = d] = Packet(is, kind, e, m, j, da, d)
    BY DEF Packet
  <2>4. [[[q EXCEPT !.at = m] EXCEPT !.in = j] EXCEPT !.crossed = d]
          = Packet(is, kind, e, m, j, da, d)
    BY <2>1, <2>2, <2>3
  <2>5. QED
    BY <2>4
<1>4. QED
  BY <1>2, <1>3 DEF d, Moved

LEMMA PacketShifts ==
    ASSUME NEW is, NEW kind, NEW e, NEW n, NEW i, NEW sids, NEW c, NEW q,
           q = Packet(is, kind, e, n, i, Addr(e, sids), c)
    PROVE  Shifted(q) = Packet(is, kind, e, n, i, Addr(e, Tail(sids)), c)
<1> DEFINE v == [Addr(e, sids) EXCEPT !.sids = Tail(sids)]
<1>1. q.da = Addr(e, sids) /\ q.da.sids = sids
  BY DEF Packet, Addr
<1>2. v = Addr(e, Tail(sids))
  <2>1. \A x, y : x = Addr(e, sids) => [x EXCEPT !.sids = y] = Addr(e, y)
    BY DEF Addr
  <2>2. QED
    BY <2>1
<1>3. Shifted(q) = [q EXCEPT !.da = v]
  BY <1>1 DEF Shifted
<1> HIDE DEF v
<1>4. [q EXCEPT !.da = v] = Packet(is, kind, e, n, i, v, c)
  BY DEF Packet
<1>5. QED
  BY <1>2, <1>3, <1>4

\* An outer destination is not <<>>, which stands for its absence.
LEMMA AddrIsThere ==
    ASSUME NEW e, NEW sids
    PROVE  Addr(e, sids) # <<>> /\ Addr(e, sids).sids = sids /\ Addr(e, sids).block = e.plane
<1>1. DOMAIN Addr(e, sids) = {"block", "sids"} /\ DOMAIN <<>> = {}
  BY DEF Addr
<1>2. Addr(e, sids) # <<>>
  BY <1>1
<1>3. QED
  BY <1>2 DEF Addr

\* It leaves by a port for a next hop that the far end has.
LEMMA SentAcross ==
    ASSUME NEW kind, NEW e, NEW n, NEW i, NEW da, NEW c, NEW port, NEW hop,
           NEW m, NEW j, NEW k, NEW q,
           <<n, port>> \in Ends, LinkOf(<<n, port>>) = k, FarEnd(<<n, port>>) = <<m, j>>,
           hop \in AddrsAt(<<m, j>>),
           q = Packet("moving", kind, e, n, i, da, c),
           pkt' = Sent(q, port, hop)
    PROVE  Crosses(kind, e, m, j, da, c, k)
<1>1. q.at = n
  BY PacketParts
<1>2. pkt' = IF k \notin cut THEN Moved(q, m, j, k) ELSE [q EXCEPT !.is = "lost"]
  <2>1. pkt' = IF LinkOf(<<n, port>>) \notin cut
               THEN Moved(q, FarEnd(<<n, port>>)[1], FarEnd(<<n, port>>)[2], LinkOf(<<n, port>>))
               ELSE [q EXCEPT !.is = "lost"]
    BY <1>1 DEF Sent, Moved
  <2>2. QED
    BY <2>1
<1>3. Moved(q, m, j, k) = Packet("moving", kind, e, m, j, da, c \cup {k})
  BY PacketMoves
<1>4. [q EXCEPT !.is = "lost"] = Packet("lost", kind, e, n, i, da, c)
  BY PacketEnds
<1>5. QED
  BY <1>2, <1>3, <1>4 DEF Crosses

\* The packet, as the actions see it.
LEMMA Seen ==
    ASSUME NEW kind, NEW e, NEW n, NEW i, NEW sids, NEW c,
           pkt = Packet("moving", kind, e, n, i, Addr(e, sids), c)
    PROVE  /\ Moving /\ Encapped /\ Here = n
           /\ Known <=> Head(sids) \in DOMAIN Sids(n)
           /\ Behaviour = Sids(n)[Head(sids)]
           /\ pkt.da # <<>> /\ pkt.da.sids = sids /\ pkt.da.block = e.plane
           /\ pkt.inner = Inner(kind, e)
<1>1. /\ pkt.is = "moving" /\ pkt.at = n /\ pkt.da = Addr(e, sids)
      /\ pkt.inner = Inner(kind, e)
  BY PacketParts
<1>2. pkt.da # <<>> /\ pkt.da.sids = sids /\ pkt.da.block = e.plane
  BY <1>1, AddrIsThere
<1>3. Moving /\ Encapped /\ Here = n
  BY <1>1, <1>2 DEF Moving, Encapped, Here
<1>4. (Known <=> Head(sids) \in DOMAIN Sids(n)) /\ Behaviour = Sids(n)[Head(sids)]
  BY <1>2, <1>3 DEF Known, Behaviour
<1>5. QED
  BY <1>1, <1>2, <1>3, <1>4

LEMMA NodeKinds ==
    ASSUME NEW p, NEW l
    PROVE  /\ ~IsHost(LeafAt(p, l)) /\ Sids(LeafAt(p, l)) = LeafSids(l)
           /\ ~IsHost(SpineAt(p, l)) /\ Sids(SpineAt(p, l)) = SpineSids(l)
           /\ \A t \in Tenants : IsHost(HostAt(t, l)) /\ Sids(HostAt(t, l)) = HostSids(t)
BY DEF IsHost, Sids, LeafAt, SpineAt, HostAt, Tenants

-----------------------------------------------------------------------------
(* What Forward does with a packet: one of its actions, by the first SID.     *)

\* uA.
LEMMA ByAdjacency ==
    ASSUME NEW kind, NEW e, NEW n, NEW i, NEW sids, NEW c, NEW port, NEW hop,
           NEW m, NEW j, NEW k,
           pkt = Packet("moving", kind, e, n, i, Addr(e, sids), c), Forward,
           ~IsHost(n), Head(sids) \in DOMAIN Sids(n), Sids(n)[Head(sids)] = UA(port, hop),
           <<n, port>> \in Ends, LinkOf(<<n, port>>) = k, FarEnd(<<n, port>>) = <<m, j>>,
           hop \in AddrsAt(<<m, j>>)
    PROVE  Crosses(kind, e, m, j, Addr(e, Tail(sids)), c, k) /\ UNCHANGED cut
<1>1. /\ Moving /\ Encapped /\ Here = n /\ Known /\ pkt.da # <<>>
      /\ Behaviour = UA(port, hop)
  BY Seen
<1>2. Behaviour.does = "uA" /\ Behaviour.port = port /\ Behaviour.nexthop = hop
  BY <1>1 DEF UA
<1>3. CrossAdjacency
  BY <1>1, <1>2 DEF Forward, ConsumeNode, Route, LeafDecap, HostDecap, HostForward, HostTakes
<1>4. Shifted(pkt) = Packet("moving", kind, e, n, i, Addr(e, Tail(sids)), c)
  BY PacketShifts
<1>5. pkt' = Sent(Shifted(pkt), port, hop) /\ UNCHANGED cut
  BY <1>2, <1>3 DEF CrossAdjacency
<1>6. QED
  BY <1>4, <1>5, SentAcross

\* uN.
LEMMA ByNode ==
    ASSUME NEW kind, NEW e, NEW n, NEW i, NEW sids, NEW c,
           pkt = Packet("moving", kind, e, n, i, Addr(e, sids), c), Forward,
           ~IsHost(n), Head(sids) \in DOMAIN Sids(n), Sids(n)[Head(sids)] = UN
    PROVE  pkt' = Packet("moving", kind, e, n, i, Addr(e, Tail(sids)), c) /\ UNCHANGED cut
<1>1. Moving /\ Encapped /\ Here = n /\ Known /\ pkt.da # <<>> /\ Behaviour = UN
  BY Seen
<1>2. Behaviour.does = "uN"
  BY <1>1 DEF UN
<1>3. ConsumeNode
  BY <1>1, <1>2
     DEF Forward, CrossAdjacency, Route, LeafDecap, HostDecap, HostForward, HostTakes
<1>4. QED
  BY <1>3, PacketShifts DEF ConsumeNode

\* An ordinary route, when it is the only one.
LEMMA ByRoute ==
    ASSUME NEW kind, NEW e, NEW n, NEW i, NEW sids, NEW c, NEW port, NEW hop,
           NEW m, NEW j, NEW k,
           pkt = Packet("moving", kind, e, n, i, Addr(e, sids), c), Forward,
           ~IsHost(n), Head(sids) \notin DOMAIN Sids(n),
           NextHops(n, Addr(e, sids)) = {hop}, PortsTo(n, hop) = {port},
           <<n, port>> \in Ends, LinkOf(<<n, port>>) = k, FarEnd(<<n, port>>) = <<m, j>>,
           hop \in AddrsAt(<<m, j>>)
    PROVE  Crosses(kind, e, m, j, Addr(e, sids), c, k) /\ UNCHANGED cut
<1>1. Moving /\ Encapped /\ Here = n /\ ~Known /\ pkt.da # <<>>
  BY Seen
<1>2. pkt.da = Addr(e, sids)
  BY PacketParts
<1>3. Route
  BY <1>1
     DEF Forward, CrossAdjacency, ConsumeNode, LeafDecap, HostDecap, HostForward, HostTakes
<1> DEFINE ways == UNION {{<<x, y>> : x \in PortsTo(Here, y)} : y \in NextHops(Here, pkt.da)}
           up == {w \in ways : LinkOf(<<Here, w[1]>>) \notin cut}
<1>4. (IF up = {} THEN pkt' = Lost ELSE \E w \in up : pkt' = Sent(pkt, w[1], w[2]))
      /\ UNCHANGED cut
  BY <1>3 DEF Route
<1>5. ways = {<<port, hop>>}
  <2>1. ways = UNION {{<<x, y>> : x \in PortsTo(n, y)} : y \in {hop}}
    BY <1>1, <1>2
  <2>2. QED
    BY <2>1
<1> HIDE DEF ways
<1>6. CASE k \in cut
  <2>1. up = {}
    BY <1>1, <1>5, <1>6
  <2>2. pkt' = [pkt EXCEPT !.is = "lost"]
    BY <1>4, <2>1 DEF Lost
  <2>3. pkt' = Packet("lost", kind, e, n, i, Addr(e, sids), c)
    BY <2>2, PacketEnds
  <2>4. QED
    BY <1>4, <1>6, <2>3 DEF Crosses
<1>7. CASE k \notin cut
  <2>1. up = {<<port, hop>>}
    BY <1>1, <1>5, <1>7
  <2>2. pkt' = Sent(pkt, port, hop)
    <3> HIDE DEF up
    <3>1. PICK w \in up : pkt' = Sent(pkt, w[1], w[2])
      BY <1>4, <2>1
    <3>2. w[1] = port /\ w[2] = hop
      BY <2>1
    <3>3. QED
      BY <3>1, <3>2
  <2>3. QED
    BY <1>4, <2>2, SentAcross
<1>8. QED
  BY <1>6, <1>7

\* uDT6 on a leaf, for an inner destination the tenant's host has.
LEMMA ByLeafDecap ==
    ASSUME NEW kind, NEW e, NEW n, NEW i, NEW sids, NEW c, NEW t, NEW g,
           NEW m, NEW j, NEW k,
           pkt = Packet("moving", kind, e, n, i, Addr(e, sids), c), Forward,
           ~IsHost(n), Head(sids) \in DOMAIN Sids(n), Sids(n)[Head(sids)] = UDT(t),
           <<n, HostPort(t)>> \in Ends, LinkOf(<<n, HostPort(t)>>) = k,
           FarEnd(<<n, HostPort(t)>>) = <<m, j>>,
           g \in AddrsAt(<<n, HostPort(t)>>), SameSubnet(g, Inner(kind, e)),
           Inner(kind, e) \in AddrsAt(<<m, j>>)
    PROVE  Crosses(kind, e, m, j, <<>>, c, k) /\ UNCHANGED cut
<1>1. /\ Moving /\ Encapped /\ Here = n /\ Known /\ pkt.da # <<>>
      /\ Behaviour = UDT(t) /\ pkt.inner = Inner(kind, e)
  BY Seen
<1>2. Behaviour.does = "uDT6" /\ Behaviour.port = HostPort(t)
  BY <1>1 DEF UDT
<1>3. LeafDecap
  BY <1>1, <1>2
     DEF Forward, CrossAdjacency, ConsumeNode, Route, HostDecap, HostForward, HostTakes
<1>4. pkt' = Sent(Bare(pkt), HostPort(t), Inner(kind, e)) /\ UNCHANGED cut
  BY <1>1, <1>2, <1>3 DEF LeafDecap
<1>5. Bare(pkt) = Packet("moving", kind, e, n, i, <<>>, c)
  BY PacketBared
<1>6. QED
  BY <1>4, <1>5, SentAcross

\* End.DT6 on a host.
LEMMA ByHostDecap ==
    ASSUME NEW kind, NEW e, NEW n, NEW i, NEW sids, NEW c, NEW t,
           pkt = Packet("moving", kind, e, n, i, Addr(e, sids), c), Forward,
           IsHost(n), Head(sids) \in DOMAIN Sids(n), Sids(n)[Head(sids)] = UDT(t)
    PROVE  pkt' = Packet("moving", kind, e, n, i, <<>>, c) /\ UNCHANGED cut
<1>1. Moving /\ Encapped /\ Here = n /\ Known /\ pkt.da # <<>> /\ Behaviour = UDT(t)
  BY Seen
<1>2. Behaviour.does = "uDT6"
  BY <1>1 DEF UDT
<1>3. HostDecap
  BY <1>1, <1>2
     DEF Forward, CrossAdjacency, ConsumeNode, Route, LeafDecap, HostForward, HostTakes
<1>4. QED
  BY <1>3, PacketBared DEF HostDecap

\* A host that is not the outer destination, and forwards.
LEMMA ByHost ==
    ASSUME NEW kind, NEW e, NEW n, NEW i, NEW sids, NEW c, NEW m, NEW j, NEW k,
           pkt = Packet("moving", kind, e, n, i, Addr(e, sids), c), Forward,
           IsHost(n), Forwards(n), Head(sids) \notin DOMAIN Sids(n),
           <<n, e.plane>> \in Ends, LinkOf(<<n, e.plane>>) = k,
           FarEnd(<<n, e.plane>>) = <<m, j>>,
           Gateway(n[1], n[3]) \in AddrsAt(<<m, j>>)
    PROVE  Crosses(kind, e, m, j, Addr(e, sids), c, k) /\ UNCHANGED cut
<1>1. Moving /\ Encapped /\ Here = n /\ ~Known /\ pkt.da # <<>> /\ pkt.da.block = e.plane
  BY Seen
<1>2. HostForward
  BY <1>1 DEF Forward, CrossAdjacency, ConsumeNode, Route, LeafDecap, HostDecap, HostTakes
<1>3. pkt' = Sent(pkt, e.plane, Gateway(n[1], n[3])) /\ UNCHANGED cut
  BY <1>1, <1>2 DEF HostForward
<1>4. QED
  BY <1>3, SentAcross

\* Decapped, at a host that has the inner destination.
LEMMA ByTaking ==
    ASSUME NEW kind, NEW e, NEW n, NEW i, NEW c, NEW p \in Planes,
           pkt = Packet("moving", kind, e, n, i, <<>>, c), Forward,
           Inner(kind, e) \in AddrsAt(<<n, p>>)
    PROVE  pkt' = Packet("arrived", kind, e, n, i, <<>>, c) /\ UNCHANGED cut
<1>1. /\ Moving /\ ~Encapped /\ ~Known /\ Here = n /\ pkt.inner = Inner(kind, e)
  BY PacketParts DEF Moving, Encapped, Known, Here
<1>2. HostTakes
  BY <1>1 DEF Forward, CrossAdjacency, ConsumeNode, Route, LeafDecap, HostDecap, HostForward
<1>3. pkt' = [pkt EXCEPT !.is = "arrived"] /\ UNCHANGED cut
  BY <1>1, <1>2 DEF HostTakes, Arrived
<1>4. QED
  BY <1>3, PacketEnds

-----------------------------------------------------------------------------
(* The stations of an EV and the links between them.                          *)

First(e) == NicLink(e.tenant, e.src, e.plane)
Second(e) == FabLink(e.plane, e.spine, e.src)
Third(e) == FabLink(e.plane, e.spine, e.dst)
Fourth(e) == NicLink(e.tenant, e.dst, e.plane)

SrcLeaf(e) == LeafAt(e.plane, e.src)
Spine(e) == SpineAt(e.plane, e.spine)
DstLeaf(e) == LeafAt(e.plane, e.dst)
SrcHost(e) == HostAt(e.tenant, e.src)
DstHost(e) == HostAt(e.tenant, e.dst)

LEMMA EvParts ==
    ASSUME NEW e \in Evs
    PROVE  /\ e.tenant \in Tenants /\ e.src \in Leaves /\ e.dst \in Leaves
           /\ e.plane \in Planes /\ e.spine \in Spines
           /\ EvLinks(e) = {First(e), Second(e), Third(e), Fourth(e)}
<1>1. /\ e.tenant \in Tenants /\ e.src \in Leaves /\ e.dst \in Leaves
      /\ e.plane \in Planes /\ e.spine \in Spines
  BY DEF Evs
<1>2. /\ LinkOf(<<HostAt(e.tenant, e.src), e.plane>>) = First(e)
      /\ LinkOf(<<HostAt(e.tenant, e.dst), e.plane>>) = Fourth(e)
  BY <1>1, HostWires DEF First, Fourth
<1>3. /\ LinkOf(<<LeafAt(e.plane, e.src), e.spine>>) = Second(e)
      /\ LinkOf(<<LeafAt(e.plane, e.dst), e.spine>>) = Third(e)
  BY <1>1, FabricWires DEF Second, Third
<1>4. QED
  BY <1>1, <1>2, <1>3 DEF EvLinks

\* The next hops of the tables are addresses of the far ends.
LEMMA HopsAreThere ==
    ASSUME NEW p \in Planes, NEW s \in Spines, NEW l \in Leaves
    PROVE  /\ <<"fab", LinkIdx(s, l), 0>> \in AddrsAt(<<SpineAt(p, s), l>>)
           /\ <<"fab", LinkIdx(s, l), 1>> \in AddrsAt(<<LeafAt(p, l), s>>)
<1>1. /\ AddrsAt(<<SpineAt(p, s), l>>) = {<<"fab", LinkIdx(s, l), 0>>}
      /\ AddrsAt(<<LeafAt(p, l), s>>) = {<<"fab", LinkIdx(s, l), 1>>}
  BY Addresses
<1>2. QED
  BY <1>1

LEMMA YellowHop ==
    ASSUME NEW l \in Leaves
    PROVE  LeafHops(l, YellowUDT) = {Anycast("yellow", l)}
<1>1. 0 \in Spines
  BY FabricAssumption DEF Spines
<1>2. QED
  BY <1>1, Hops

LEMMA YellowWires ==
    ASSUME NEW p \in Planes, NEW h \in Leaves
    PROVE  /\ <<LeafAt(p, h), 9>> \in Ends /\ <<HostAt("yellow", h), p>> \in Ends
           /\ LinkOf(<<LeafAt(p, h), 9>>) = NicLink("yellow", h, p)
           /\ LinkOf(<<HostAt("yellow", h), p>>) = NicLink("yellow", h, p)
           /\ FarEnd(<<LeafAt(p, h), 9>>) = <<HostAt("yellow", h), p>>
           /\ FarEnd(<<HostAt("yellow", h), p>>) = <<LeafAt(p, h), 9>>
<1>1. HostPort("yellow") = 9 /\ "yellow" \in Tenants
  BY DEF HostPort, Tenants
<1>2. /\ <<LeafAt(p, h), HostPort("yellow")>> \in Ends /\ <<HostAt("yellow", h), p>> \in Ends
      /\ LinkOf(<<LeafAt(p, h), HostPort("yellow")>>) = NicLink("yellow", h, p)
      /\ LinkOf(<<HostAt("yellow", h), p>>) = NicLink("yellow", h, p)
      /\ FarEnd(<<LeafAt(p, h), HostPort("yellow")>>) = <<HostAt("yellow", h), p>>
      /\ FarEnd(<<HostAt("yellow", h), p>>) = <<LeafAt(p, h), HostPort("yellow")>>
  BY <1>1, HostWires
<1>3. QED
  BY <1>1, <1>2

LEMMA HopsOf ==
    ASSUME NEW p, NEW l, NEW e, NEW sids
    PROVE  /\ NextHops(LeafAt(p, l), Addr(e, sids)) = LeafHops(l, Head(sids))
           /\ NextHops(SpineAt(p, l), Addr(e, sids)) = SpineHops(l, Head(sids))
BY AddrIsThere DEF NextHops, LeafAt, SpineAt

\* From a leaf to the spine, and from the spine to a leaf, by uA.
LEMMA LeafToSpine ==
    ASSUME NEW kind, NEW e \in Evs, NEW l \in Leaves, NEW i, NEW q \in Seq(Nat), NEW c,
           pkt = Packet("moving", kind, e, LeafAt(e.plane, l), i,
                        Addr(e, Then(LeafUA(e.spine), q)), c), Forward
    PROVE  /\ Crosses(kind, e, Spine(e), l, Addr(e, q), c, FabLink(e.plane, e.spine, l))
           /\ UNCHANGED cut
<1> DEFINE n == LeafAt(e.plane, l)
           sids == Then(LeafUA(e.spine), q)
<1>1. e.plane \in Planes /\ e.spine \in Spines
  BY EvParts
<1>2. Head(sids) = LeafUA(e.spine) /\ Tail(sids) = q
  BY <1>1, SidsAreNumbers, ThenShifts
<1>3. ~IsHost(n) /\ Sids(n) = LeafSids(l)
  BY NodeKinds
<1>4. /\ Head(sids) \in DOMAIN Sids(n)
      /\ Sids(n)[Head(sids)] = UA(e.spine, <<"fab", LinkIdx(e.spine, l), 0>>)
  BY <1>1, <1>2, <1>3, LeafKnows
<1>5. /\ <<n, e.spine>> \in Ends
      /\ LinkOf(<<n, e.spine>>) = FabLink(e.plane, e.spine, l)
      /\ FarEnd(<<n, e.spine>>) = <<Spine(e), l>>
  BY <1>1, FabricWires DEF Spine
<1>6. <<"fab", LinkIdx(e.spine, l), 0>> \in AddrsAt(<<Spine(e), l>>)
  BY <1>1, HopsAreThere DEF Spine
<1> HIDE DEF n, sids
<1>7. pkt = Packet("moving", kind, e, n, i, Addr(e, sids), c)
  BY DEF n, sids
<1>8. QED
  BY <1>2, <1>3, <1>4, <1>5, <1>6, <1>7, ByAdjacency

LEMMA SpineToLeaf ==
    ASSUME NEW kind, NEW e \in Evs, NEW l \in Leaves, NEW i, NEW q \in Seq(Nat), NEW c,
           pkt = Packet("moving", kind, e, Spine(e), i, Addr(e, Then(SpineUA(l), q)), c),
           Forward
    PROVE  /\ Crosses(kind, e, LeafAt(e.plane, l), e.spine, Addr(e, q), c,
                      FabLink(e.plane, e.spine, l))
           /\ UNCHANGED cut
<1> DEFINE n == SpineAt(e.plane, e.spine)
           m == LeafAt(e.plane, l)
           sids == Then(SpineUA(l), q)
<1>1. e.plane \in Planes /\ e.spine \in Spines
  BY EvParts
<1>2. Head(sids) = SpineUA(l) /\ Tail(sids) = q
  BY <1>1, SidsAreNumbers, ThenShifts
<1>3. ~IsHost(n) /\ Sids(n) = SpineSids(e.spine)
  BY NodeKinds
<1>4. /\ Head(sids) \in DOMAIN Sids(n)
      /\ Sids(n)[Head(sids)] = UA(l, <<"fab", LinkIdx(e.spine, l), 1>>)
  BY <1>1, <1>2, <1>3, SpineKnows
<1>5. /\ <<n, l>> \in Ends
      /\ LinkOf(<<n, l>>) = FabLink(e.plane, e.spine, l)
      /\ FarEnd(<<n, l>>) = <<m, e.spine>>
  BY <1>1, FabricWires
<1>6. <<"fab", LinkIdx(e.spine, l), 1>> \in AddrsAt(<<m, e.spine>>)
  BY <1>1, HopsAreThere
<1> HIDE DEF n, m, sids
<1>7. pkt = Packet("moving", kind, e, n, i, Addr(e, sids), c)
  BY DEF n, sids, Spine
<1>8. Crosses(kind, e, m, e.spine, Addr(e, q), c, FabLink(e.plane, e.spine, l))
      /\ UNCHANGED cut
  BY <1>2, <1>3, <1>4, <1>5, <1>6, <1>7, ByAdjacency
<1>9. QED
  BY <1>8 DEF m

\* uN: from a leaf towards the spine's locator, and from the spine towards a
\* leaf's.
LEMMA LeafToLocator ==
    ASSUME NEW kind, NEW e \in Evs, NEW l \in Leaves, NEW i, NEW q \in Seq(Nat), NEW c,
           pkt = Packet("moving", kind, e, LeafAt(e.plane, l), i,
                        Addr(e, Then(SpineLocator(e.spine), q)), c), Forward
    PROVE  /\ Crosses(kind, e, Spine(e), l, Addr(e, Then(SpineLocator(e.spine), q)), c,
                      FabLink(e.plane, e.spine, l))
           /\ UNCHANGED cut
<1> DEFINE n == LeafAt(e.plane, l)
           sids == Then(SpineLocator(e.spine), q)
           hop == <<"fab", LinkIdx(e.spine, l), 0>>
<1>1. e.plane \in Planes /\ e.spine \in Spines
  BY EvParts
<1>2. Head(sids) = SpineLocator(e.spine)
  BY <1>1, SidsAreNumbers, ThenShifts
<1>3. ~IsHost(n) /\ Sids(n) = LeafSids(l)
  BY NodeKinds
<1>4. Head(sids) \notin DOMAIN Sids(n)
  BY <1>1, <1>2, <1>3, LeafKnows
<1>5. NextHops(n, Addr(e, sids)) = {hop} /\ PortsTo(n, hop) = {e.spine}
  <2> HIDE DEF sids
  <2>1. NextHops(n, Addr(e, sids)) = LeafHops(l, Head(sids))
    BY HopsOf
  <2>2. PortsTo(n, hop) = {e.spine}
    BY <1>1, PortToSpine
  <2>3. LeafHops(l, SpineLocator(e.spine)) = {hop}
    BY <1>1, Hops
  <2>4. QED
    BY <1>2, <2>1, <2>2, <2>3
<1>6. /\ <<n, e.spine>> \in Ends
      /\ LinkOf(<<n, e.spine>>) = FabLink(e.plane, e.spine, l)
      /\ FarEnd(<<n, e.spine>>) = <<Spine(e), l>>
  BY <1>1, FabricWires DEF Spine
<1>7. hop \in AddrsAt(<<Spine(e), l>>)
  BY <1>1, HopsAreThere DEF Spine
<1> HIDE DEF n, sids, hop
<1>8. pkt = Packet("moving", kind, e, n, i, Addr(e, sids), c)
  BY DEF n, sids
<1>9. Crosses(kind, e, Spine(e), l, Addr(e, sids), c, FabLink(e.plane, e.spine, l))
      /\ UNCHANGED cut
  BY <1>3, <1>4, <1>5, <1>6, <1>7, <1>8, ByRoute
<1>10. QED
  BY <1>9 DEF sids

LEMMA SpineToLocator ==
    ASSUME NEW kind, NEW e \in Evs, NEW l \in Leaves, NEW i, NEW q \in Seq(Nat), NEW c,
           pkt = Packet("moving", kind, e, Spine(e), i, Addr(e, Then(LeafLocator(l), q)), c),
           Forward
    PROVE  /\ Crosses(kind, e, LeafAt(e.plane, l), e.spine, Addr(e, Then(LeafLocator(l), q)),
                      c, FabLink(e.plane, e.spine, l))
           /\ UNCHANGED cut
<1> DEFINE n == SpineAt(e.plane, e.spine)
           m == LeafAt(e.plane, l)
           sids == Then(LeafLocator(l), q)
           hop == <<"fab", LinkIdx(e.spine, l), 1>>
<1>1. e.plane \in Planes /\ e.spine \in Spines
  BY EvParts
<1>2. Head(sids) = LeafLocator(l)
  BY <1>1, SidsAreNumbers, ThenShifts
<1>3. ~IsHost(n) /\ Sids(n) = SpineSids(e.spine)
  BY NodeKinds
<1>4. Head(sids) \notin DOMAIN Sids(n)
  BY <1>1, <1>2, <1>3, SpineKnows
<1>5. NextHops(n, Addr(e, sids)) = {hop} /\ PortsTo(n, hop) = {l}
  <2> HIDE DEF sids
  <2>1. NextHops(n, Addr(e, sids)) = SpineHops(e.spine, Head(sids))
    BY HopsOf
  <2>2. PortsTo(n, hop) = {l}
    BY <1>1, PortToLeaf
  <2>3. SpineHops(e.spine, LeafLocator(l)) = {hop}
    BY <1>1, Hops
  <2>4. QED
    BY <1>2, <2>1, <2>2, <2>3
<1>6. /\ <<n, l>> \in Ends
      /\ LinkOf(<<n, l>>) = FabLink(e.plane, e.spine, l)
      /\ FarEnd(<<n, l>>) = <<m, e.spine>>
  BY <1>1, FabricWires
<1>7. hop \in AddrsAt(<<m, e.spine>>)
  BY <1>1, HopsAreThere
<1> HIDE DEF n, m, sids, hop
<1>8. pkt = Packet("moving", kind, e, n, i, Addr(e, sids), c)
  BY DEF n, sids, Spine
<1>9. Crosses(kind, e, m, e.spine, Addr(e, sids), c, FabLink(e.plane, e.spine, l))
      /\ UNCHANGED cut
  BY <1>3, <1>4, <1>5, <1>6, <1>7, <1>8, ByRoute
<1>10. QED
  BY <1>9 DEF m, sids

\* A host's addresses.
LEMMA HostHas ==
    ASSUME NEW p \in Planes, NEW t \in Tenants, NEW h \in Leaves
    PROVE  /\ Anycast(t, h) \in AddrsAt(<<HostAt(t, h), p>>)
           /\ \A s \in Spines : ProbeEvAddr(t, h, p, s) \in AddrsAt(<<HostAt(t, h), p>>)
           /\ Gateway(t, h) \in AddrsAt(<<LeafAt(p, h), HostPort(t)>>)
<1>1. /\ AddrsAt(<<HostAt(t, h), p>>) = HostAddrs(t, h, p)
      /\ AddrsAt(<<LeafAt(p, h), HostPort(t)>>) = {Gateway(t, h)}
  BY Addresses
<1>2. QED
  BY <1>1 DEF HostAddrs

LEMMA InnerOf ==
    ASSUME NEW e \in Evs
    PROVE  /\ Inner("data", e) \in AddrsAt(<<DstHost(e), e.plane>>)
           /\ SameSubnet(Gateway(e.tenant, e.dst), Inner("data", e))
           /\ Inner("probe", e) \in AddrsAt(<<SrcHost(e), e.plane>>)
           /\ SameSubnet(Gateway(e.tenant, e.src), Inner("probe", e))
<1>1. /\ Inner("data", e) = Anycast(e.tenant, e.dst)
      /\ Inner("probe", e) = ProbeEvAddr(e.tenant, e.src, e.plane, e.spine)
  BY DEF Inner
<1>2. /\ Anycast(e.tenant, e.dst) \in AddrsAt(<<DstHost(e), e.plane>>)
      /\ ProbeEvAddr(e.tenant, e.src, e.plane, e.spine) \in AddrsAt(<<SrcHost(e), e.plane>>)
  BY EvParts, HostHas DEF DstHost, SrcHost
<1>3. /\ SameSubnet(Gateway(e.tenant, e.dst), Anycast(e.tenant, e.dst))
      /\ SameSubnet(Gateway(e.tenant, e.src), ProbeEvAddr(e.tenant, e.src, e.plane, e.spine))
  BY DEF SameSubnet, Gateway, Anycast, ProbeEvAddr
<1>4. QED
  BY <1>1, <1>2, <1>3

\* The SID that decaps at a leaf, for a host of the tenant: data's on green, a
\* probe's at home on both.
HomeSid(e) == IF e.tenant = "green" THEN GreenUDT ELSE ProbeUDT

LEMMA LeafToHost ==
    ASSUME NEW kind, NEW e \in Evs, NEW l \in Leaves, NEW i, NEW c,
           pkt = Packet("moving", kind, e, LeafAt(e.plane, l), i,
                        Addr(e, <<HomeSid(e)>>), c), Forward,
           Inner(kind, e) \in AddrsAt(<<HostAt(e.tenant, l), e.plane>>),
           SameSubnet(Gateway(e.tenant, l), Inner(kind, e))
    PROVE  /\ Crosses(kind, e, HostAt(e.tenant, l), e.plane, <<>>, c,
                      NicLink(e.tenant, l, e.plane))
           /\ UNCHANGED cut
<1> DEFINE n == LeafAt(e.plane, l)
           sids == <<HomeSid(e)>>
<1>1. e.plane \in Planes /\ e.tenant \in Tenants
  BY EvParts
<1>2. Head(sids) = HomeSid(e)
  OBVIOUS
<1>3. ~IsHost(n) /\ Sids(n) = LeafSids(l)
  BY NodeKinds
<1>4. Head(sids) \in DOMAIN Sids(n) /\ Sids(n)[Head(sids)] = UDT(e.tenant)
  <2>1. CASE e.tenant = "green"
    BY <1>2, <1>3, <2>1, LeafKnows DEF HomeSid
  <2>2. CASE e.tenant = "yellow"
    BY <1>2, <1>3, <2>2, LeafKnows DEF HomeSid
  <2>3. QED
    BY <1>1, <2>1, <2>2 DEF Tenants
<1>5. /\ <<n, HostPort(e.tenant)>> \in Ends
      /\ LinkOf(<<n, HostPort(e.tenant)>>) = NicLink(e.tenant, l, e.plane)
      /\ FarEnd(<<n, HostPort(e.tenant)>>) = <<HostAt(e.tenant, l), e.plane>>
  BY <1>1, HostWires
<1>6. Gateway(e.tenant, l) \in AddrsAt(<<n, HostPort(e.tenant)>>)
  BY <1>1, HostHas
<1> HIDE DEF n, sids
<1>7. pkt = Packet("moving", kind, e, n, i, Addr(e, sids), c)
  BY DEF n, sids
<1>8. QED
  BY <1>3, <1>4, <1>5, <1>6, <1>7, ByLeafDecap

\* To a yellow host by its uA, or by the route for d001.
LEMMA LeafToYellow ==
    ASSUME NEW kind, NEW e \in Evs, NEW i, NEW q \in Seq(Nat), NEW c, e.tenant = "yellow",
           pkt = Packet("moving", kind, e, DstLeaf(e), i,
                        Addr(e, Then(HostUA(9), q)), c), Forward
    PROVE  Crosses(kind, e, DstHost(e), e.plane, Addr(e, q), c, Fourth(e)) /\ UNCHANGED cut
<1> DEFINE n == LeafAt(e.plane, e.dst)
           m == HostAt("yellow", e.dst)
           sids == Then(HostUA(9), q)
<1>1. e.plane \in Planes /\ e.dst \in Leaves /\ "yellow" \in Tenants
  BY EvParts DEF Tenants
<1>2. Head(sids) = HostUA(9) /\ Tail(sids) = q
  BY SidsAreNumbers, ThenShifts
<1>3. ~IsHost(n) /\ Sids(n) = LeafSids(e.dst)
  BY NodeKinds
<1>4. /\ Head(sids) \in DOMAIN Sids(n)
      /\ Sids(n)[Head(sids)] = UA(9, Anycast("yellow", e.dst))
  BY <1>1, <1>2, <1>3, LeafKnows
<1>5. HostPort("yellow") = 9
  BY DEF HostPort
<1>6. /\ <<n, 9>> \in Ends /\ LinkOf(<<n, 9>>) = NicLink("yellow", e.dst, e.plane)
      /\ FarEnd(<<n, 9>>) = <<m, e.plane>>
  BY <1>1, YellowWires
<1>7. Anycast("yellow", e.dst) \in AddrsAt(<<m, e.plane>>)
  BY <1>1, HostHas
<1> HIDE DEF n, m, sids
<1>8. pkt = Packet("moving", kind, e, n, i, Addr(e, sids), c)
  BY DEF n, sids, DstLeaf
<1>9. Crosses(kind, e, m, e.plane, Addr(e, q), c, NicLink("yellow", e.dst, e.plane))
      /\ UNCHANGED cut
  BY <1>2, <1>3, <1>4, <1>6, <1>7, <1>8, ByAdjacency
<1>10. QED
  BY <1>9 DEF m, DstHost, Fourth

LEMMA LeafToEndDT6 ==
    ASSUME NEW kind, NEW e \in Evs, NEW i, NEW c, e.tenant = "yellow",
           pkt = Packet("moving", kind, e, DstLeaf(e), i, Addr(e, <<YellowUDT>>), c), Forward
    PROVE  /\ Crosses(kind, e, DstHost(e), e.plane, Addr(e, <<YellowUDT>>), c, Fourth(e))
           /\ UNCHANGED cut
<1> DEFINE n == LeafAt(e.plane, e.dst)
           m == HostAt("yellow", e.dst)
           sids == <<YellowUDT>>
           hop == Anycast("yellow", e.dst)
<1>1. e.plane \in Planes /\ e.dst \in Leaves /\ "yellow" \in Tenants
  BY EvParts DEF Tenants
<1>2. Head(sids) = YellowUDT
  OBVIOUS
<1>3. ~IsHost(n) /\ Sids(n) = LeafSids(e.dst)
  BY NodeKinds
<1>4. Head(sids) \notin DOMAIN Sids(n)
  BY <1>1, <1>2, <1>3, LeafKnows
<1>5. HostPort("yellow") = 9
  BY DEF HostPort
<1>6. NextHops(n, Addr(e, sids)) = {hop} /\ PortsTo(n, hop) = {9}
  <2>1. NextHops(n, Addr(e, sids)) = LeafHops(e.dst, Head(sids))
    BY HopsOf
  <2>2. LeafHops(e.dst, YellowUDT) = {hop}
    BY <1>1, YellowHop
  <2>3. PortsTo(n, hop) = {9}
    BY <1>1, PortToHost
  <2>4. QED
    BY <1>2, <2>1, <2>2, <2>3
<1>7. /\ <<n, 9>> \in Ends /\ LinkOf(<<n, 9>>) = NicLink("yellow", e.dst, e.plane)
      /\ FarEnd(<<n, 9>>) = <<m, e.plane>>
  BY <1>1, YellowWires
<1>8. hop \in AddrsAt(<<m, e.plane>>)
  BY <1>1, HostHas
<1> HIDE DEF n, m, sids, hop
<1>9. pkt = Packet("moving", kind, e, n, i, Addr(e, sids), c)
  BY DEF n, sids, DstLeaf
<1>10. Crosses(kind, e, m, e.plane, Addr(e, sids), c, NicLink("yellow", e.dst, e.plane))
      /\ UNCHANGED cut
  BY <1>3, <1>4, <1>6, <1>7, <1>8, <1>9, ByRoute
<1>11. QED
  BY <1>10 DEF m, sids, DstHost, Fourth

\* From a yellow host back to its leaf, the first SID being a leaf's.
LEMMA YellowToLeaf ==
    ASSUME NEW kind, NEW e \in Evs, NEW i, NEW q \in Seq(Nat), NEW c, e.tenant = "yellow",
           pkt = Packet("moving", kind, e, DstHost(e), i,
                        Addr(e, Then(LeafUA(e.spine), q)), c), Forward
    PROVE  /\ Crosses(kind, e, DstLeaf(e), 9, Addr(e, Then(LeafUA(e.spine), q)), c, Fourth(e))
           /\ UNCHANGED cut
<1> DEFINE n == HostAt("yellow", e.dst)
           m == LeafAt(e.plane, e.dst)
           sids == Then(LeafUA(e.spine), q)
<1>1. e.plane \in Planes /\ e.dst \in Leaves /\ "yellow" \in Tenants /\ e.spine \in Spines
  BY EvParts DEF Tenants
<1>2. Head(sids) = LeafUA(e.spine)
  BY <1>1, SidsAreNumbers, ThenShifts
<1>3. IsHost(n) /\ Sids(n) = HostSids("yellow")
  BY <1>1, NodeKinds
<1>4. Head(sids) \notin DOMAIN Sids(n)
  BY <1>1, <1>2, <1>3, HostKnows
<1>5. HostPort("yellow") = 9
  BY DEF HostPort
<1>6. /\ <<n, e.plane>> \in Ends /\ LinkOf(<<n, e.plane>>) = NicLink("yellow", e.dst, e.plane)
      /\ FarEnd(<<n, e.plane>>) = <<m, 9>>
  BY <1>1, YellowWires
<1>7. Forwards(n) /\ n[1] = "yellow" /\ n[3] = e.dst
  BY DEF Forwards, HostAt
<1>8. Gateway(n[1], n[3]) \in AddrsAt(<<m, 9>>)
  BY <1>1, <1>5, <1>7, HostHas
<1> HIDE DEF n, m, sids
<1>9. pkt = Packet("moving", kind, e, n, i, Addr(e, sids), c)
  BY DEF n, sids, DstHost
<1>10. Crosses(kind, e, m, 9, Addr(e, sids), c, NicLink("yellow", e.dst, e.plane))
       /\ UNCHANGED cut
  BY <1>3, <1>4, <1>6, <1>7, <1>8, <1>9, ByHost
<1>11. QED
  BY <1>10 DEF m, sids, DstLeaf, Fourth

\* A yellow host decaps.
LEMMA YellowDecaps ==
    ASSUME NEW kind, NEW e \in Evs, NEW i, NEW c, e.tenant = "yellow",
           pkt = Packet("moving", kind, e, DstHost(e), i, Addr(e, <<YellowUDT>>), c), Forward
    PROVE  pkt' = Packet("moving", kind, e, DstHost(e), i, <<>>, c) /\ UNCHANGED cut
<1>1. IsHost(DstHost(e)) /\ Sids(DstHost(e)) = HostSids("yellow")
  BY NodeKinds DEF DstHost, Tenants
<1>2. Head(<<YellowUDT>>) = YellowUDT
  OBVIOUS
<1>3. /\ Head(<<YellowUDT>>) \in DOMAIN Sids(DstHost(e))
      /\ Sids(DstHost(e))[Head(<<YellowUDT>>)] = UDT("yellow")
  BY <1>1, <1>2, HostKnows
<1>4. QED
  BY <1>1, <1>3, ByHostDecap

-----------------------------------------------------------------------------
(* Where a packet of an EV may be, and what it has still before it: the       *)
(* inductive invariant of the walk.                                           *)

\* There and back.
There(e) == {First(e), Second(e), Third(e)}
Turned(e) == There(e) \cup (IF e.tenant = "green" THEN {} ELSE {Fourth(e)})

\* A probe's SIDs from the far leaf on.
HomeSids(e) == Then(LeafUA(e.spine), Then(SpineUA(e.src), <<HomeSid(e)>>))

\* What is left when the packet has come to the far leaf.
Landings(kind, e) ==
    IF e.tenant = "green"
    THEN {IF kind = "data" THEN <<GreenUDT>> ELSE HomeSids(e)}
    ELSE IF kind = "data" THEN {Then(HostUA(9), <<YellowUDT>>), <<YellowUDT>>}
    ELSE {Then(HostUA(9), HomeSids(e))}

\* Outward, by uA or by uN, with q to do at the far leaf.
Outward(kind, e, q) ==
    \/ Going(kind, e, SrcLeaf(e), Then(LeafUA(e.spine), Then(SpineUA(e.dst), q)), {First(e)})
    \/ Going(kind, e, Spine(e), Then(SpineUA(e.dst), q), {First(e), Second(e)})
    \/ Going(kind, e, SrcLeaf(e), Then(SpineLocator(e.spine), Then(LeafLocator(e.dst), q)),
             {First(e)})
    \/ Going(kind, e, Spine(e), Then(SpineLocator(e.spine), Then(LeafLocator(e.dst), q)),
             {First(e), Second(e)})
    \/ Going(kind, e, Spine(e), Then(LeafLocator(e.dst), q), {First(e), Second(e)})
    \/ Going(kind, e, DstLeaf(e), Then(LeafLocator(e.dst), q), There(e))
    \/ Going(kind, e, DstLeaf(e), q, There(e))

\* At the destination host, still encapped or not.
AtHost(e) ==
    \/ /\ e.tenant = "yellow"
       /\ pkt = Packet("moving", "data", e, DstHost(e), e.plane, Addr(e, <<YellowUDT>>),
                       EvLinks(e))
    \/ pkt = Packet("moving", "data", e, DstHost(e), e.plane, <<>>, EvLinks(e))

\* A probe on its way home.
Homeward(e) ==
    \/ e.tenant = "yellow" /\ Going("probe", e, DstHost(e), HomeSids(e), Turned(e))
    \/ Going("probe", e, DstLeaf(e), HomeSids(e), Turned(e))
    \/ Going("probe", e, Spine(e), Then(SpineUA(e.src), <<HomeSid(e)>>), Turned(e))
    \/ Going("probe", e, SrcLeaf(e), <<HomeSid(e)>>, Turned(e))
    \/ pkt = Packet("moving", "probe", e, SrcHost(e), e.plane, <<>>, Turned(e))

\* At its end.
DroppedOn(kind, e) ==
    /\ EvLinks(e) \cap cut # {}
    /\ \E n, i, da : \E c \in SUBSET EvLinks(e) : pkt = Packet("lost", kind, e, n, i, da, c)

Arrives(e) ==
    \/ pkt = Packet("arrived", "data", e, DstHost(e), e.plane, <<>>, EvLinks(e))
    \/ pkt = Packet("arrived", "probe", e, SrcHost(e), e.plane, <<>>, Turned(e))

OnTheWay(e) ==
    \/ \E kind \in {"data", "probe"} :
          DroppedOn(kind, e) \/ \E q \in Landings(kind, e) : Outward(kind, e, q)
    \/ AtHost(e) \/ Homeward(e) \/ Arrives(e)

WalkInv == pkt = NoPacket \/ \E e \in Evs : OnTheWay(e)

LEMMA LandingsAreSids ==
    ASSUME NEW e \in Evs, NEW kind
    PROVE  /\ HomeSids(e) \in Seq(Nat) /\ Then(SpineUA(e.src), <<HomeSid(e)>>) \in Seq(Nat)
           /\ <<HomeSid(e)>> \in Seq(Nat) /\ <<YellowUDT>> \in Seq(Nat)
           /\ \A q \in Landings(kind, e) : q \in Seq(Nat)
<1>1. /\ LeafUA(e.spine) \in Nat /\ SpineUA(e.src) \in Nat
      /\ {HostUA(9), GreenUDT, YellowUDT, ProbeUDT} \subseteq Nat
  BY EvParts, SidsAreNumbers
<1>2. HomeSid(e) \in Nat
  BY <1>1 DEF HomeSid
<1>3. <<HomeSid(e)>> \in Seq(Nat) /\ <<GreenUDT>> \in Seq(Nat) /\ <<YellowUDT>> \in Seq(Nat)
  BY <1>1, <1>2
<1>4. Then(SpineUA(e.src), <<HomeSid(e)>>) \in Seq(Nat)
  BY <1>1, <1>3, ThenShifts
<1>5. HomeSids(e) \in Seq(Nat)
  BY <1>1, <1>4, ThenShifts DEF HomeSids
<1>6. Then(HostUA(9), <<YellowUDT>>) \in Seq(Nat) /\ Then(HostUA(9), HomeSids(e)) \in Seq(Nat)
  BY <1>1, <1>3, <1>5, ThenShifts
<1>7. QED
  BY <1>3, <1>4, <1>5, <1>6 DEF Landings

LEMMA OutwardAreSids ==
    ASSUME NEW e \in Evs, NEW q \in Seq(Nat)
    PROVE  Then(SpineUA(e.dst), q) \in Seq(Nat) /\ Then(LeafLocator(e.dst), q) \in Seq(Nat)
BY EvParts, SidsAreNumbers, ThenShifts

\* The links behind it are links of the EV.
LEMMA OwnLinks ==
    ASSUME NEW e \in Evs
    PROVE  /\ {First(e), Second(e), Third(e), Fourth(e)} = EvLinks(e)
           /\ There(e) \subseteq EvLinks(e) /\ Turned(e) \subseteq EvLinks(e)
           /\ {Second(e), Third(e)} \subseteq Turned(e) /\ First(e) \in Turned(e)
           /\ e.tenant = "green" => Turned(e) = There(e)
           /\ e.tenant # "green" => Turned(e) = EvLinks(e)
BY EvParts DEF There, Turned

\* Over a link of the EV: on, or dropped for it.
LEMMA CrossesOrDrops ==
    ASSUME NEW kind \in {"data", "probe"}, NEW e \in Evs, NEW n, NEW port, NEW da, NEW c, NEW k,
           Crosses(kind, e, n, port, da, c, k), UNCHANGED cut,
           c \subseteq EvLinks(e), k \in EvLinks(e)
    PROVE  pkt' = Packet("moving", kind, e, n, port, da, c \cup {k}) \/ OnTheWay(e)'
<1>1. CASE k \notin cut
  BY <1>1 DEF Crosses
<1>2. CASE k \in cut
  <2>1. \E m, i : pkt' = Packet("lost", kind, e, m, i, da, c)
    BY <1>2 DEF Crosses
  <2>2. DroppedOn(kind, e)'
    BY <1>2, <2>1 DEF DroppedOn
  <2>3. QED
    BY <2>2 DEF OnTheWay
<1>3. QED
  BY <1>1, <1>2

\* Each station is followed by the next.
LEMMA OutwardStep ==
    ASSUME NEW kind \in {"data", "probe"}, NEW e \in Evs, NEW q \in Landings(kind, e),
           Outward(kind, e, q), Forward,
           ~Going(kind, e, DstLeaf(e), q, There(e))
    PROVE  OnTheWay(e)'
<1>1. q \in Seq(Nat)
  BY LandingsAreSids
<1>2. Then(SpineUA(e.dst), q) \in Seq(Nat) /\ Then(LeafLocator(e.dst), q) \in Seq(Nat)
  BY <1>1, OutwardAreSids
<1>3. e.src \in Leaves /\ e.dst \in Leaves /\ e.spine \in Spines
  BY EvParts
<1>4. /\ {First(e)} \subseteq EvLinks(e) /\ {First(e), Second(e)} \subseteq EvLinks(e)
      /\ Second(e) \in EvLinks(e) /\ Third(e) \in EvLinks(e)
  BY OwnLinks
<1>5. {First(e)} \cup {Second(e)} = {First(e), Second(e)}
      /\ {First(e), Second(e)} \cup {Third(e)} = There(e)
  BY DEF There
<1>6. Outward(kind, e, q)' => OnTheWay(e)'
  BY DEF OnTheWay
<1>7. CASE Going(kind, e, SrcLeaf(e), Then(LeafUA(e.spine), Then(SpineUA(e.dst), q)), {First(e)})
  <2>1. PICK i : pkt = Packet("moving", kind, e, LeafAt(e.plane, e.src), i,
                       Addr(e, Then(LeafUA(e.spine), Then(SpineUA(e.dst), q))), {First(e)})
    BY <1>7 DEF Going, SrcLeaf
  <2>2. /\ Crosses(kind, e, Spine(e), e.src, Addr(e, Then(SpineUA(e.dst), q)), {First(e)},
                   Second(e))
        /\ UNCHANGED cut
    BY <1>2, <1>3, <2>1, LeafToSpine DEF Second
  <2>3. pkt' = Packet("moving", kind, e, Spine(e), e.src, Addr(e, Then(SpineUA(e.dst), q)),
                      {First(e), Second(e)})
        \/ OnTheWay(e)'
    BY <1>4, <1>5, <2>2, CrossesOrDrops
  <2>4. QED
    BY <1>6, <2>3 DEF Outward, Going
<1>8. CASE Going(kind, e, Spine(e), Then(SpineUA(e.dst), q), {First(e), Second(e)})
  <2>1. PICK i : pkt = Packet("moving", kind, e, Spine(e), i,
                       Addr(e, Then(SpineUA(e.dst), q)), {First(e), Second(e)})
    BY <1>8 DEF Going
  <2>2. /\ Crosses(kind, e, DstLeaf(e), e.spine, Addr(e, q), {First(e), Second(e)}, Third(e))
        /\ UNCHANGED cut
    BY <1>1, <1>3, <2>1, SpineToLeaf DEF Third, DstLeaf
  <2>3. pkt' = Packet("moving", kind, e, DstLeaf(e), e.spine, Addr(e, q), There(e))
        \/ OnTheWay(e)'
    BY <1>4, <1>5, <2>2, CrossesOrDrops
  <2>4. QED
    BY <1>6, <2>3 DEF Outward, Going
<1>9. CASE Going(kind, e, SrcLeaf(e),
                 Then(SpineLocator(e.spine), Then(LeafLocator(e.dst), q)), {First(e)})
  <2> DEFINE sids == Then(SpineLocator(e.spine), Then(LeafLocator(e.dst), q))
  <2>1. PICK i : pkt = Packet("moving", kind, e, LeafAt(e.plane, e.src), i,
                              Addr(e, sids), {First(e)})
    BY <1>9 DEF Going, SrcLeaf
  <2>2. Crosses(kind, e, Spine(e), e.src, Addr(e, sids), {First(e)}, Second(e))
        /\ UNCHANGED cut
    BY <1>2, <1>3, <2>1, LeafToLocator DEF Second
  <2>3. pkt' = Packet("moving", kind, e, Spine(e), e.src, Addr(e, sids), {First(e), Second(e)})
        \/ OnTheWay(e)'
    BY <1>4, <1>5, <2>2, CrossesOrDrops
  <2>4. QED
    BY <1>6, <2>3 DEF Outward, Going
<1>10. CASE Going(kind, e, Spine(e),
                  Then(SpineLocator(e.spine), Then(LeafLocator(e.dst), q)),
                  {First(e), Second(e)})
  <2> DEFINE sids == Then(SpineLocator(e.spine), Then(LeafLocator(e.dst), q))
  <2>1. PICK i : pkt = Packet("moving", kind, e, SpineAt(e.plane, e.spine), i,
                              Addr(e, sids), {First(e), Second(e)})
    BY <1>10 DEF Going, Spine
  <2>2. Head(sids) = SpineLocator(e.spine) /\ Tail(sids) = Then(LeafLocator(e.dst), q)
    BY <1>2, <1>3, SidsAreNumbers, ThenShifts
  <2>3. ~IsHost(SpineAt(e.plane, e.spine))
        /\ Sids(SpineAt(e.plane, e.spine)) = SpineSids(e.spine)
    BY NodeKinds
  <2>4. SpineLocator(e.spine) \in DOMAIN SpineSids(e.spine)
        /\ SpineSids(e.spine)[SpineLocator(e.spine)] = UN
    BY <1>3, SpineKnows
  <2> HIDE DEF sids
  <2>5. pkt' = Packet("moving", kind, e, SpineAt(e.plane, e.spine), i, Addr(e, Tail(sids)),
                      {First(e), Second(e)})
    BY <2>1, <2>2, <2>3, <2>4, ByNode
  <2>6. QED
    BY <1>6, <2>2, <2>5 DEF Outward, Going, Spine
<1>11. CASE Going(kind, e, Spine(e), Then(LeafLocator(e.dst), q), {First(e), Second(e)})
  <2>1. PICK i : pkt = Packet("moving", kind, e, Spine(e), i,
                       Addr(e, Then(LeafLocator(e.dst), q)), {First(e), Second(e)})
    BY <1>11 DEF Going
  <2>2. /\ Crosses(kind, e, DstLeaf(e), e.spine, Addr(e, Then(LeafLocator(e.dst), q)),
                   {First(e), Second(e)}, Third(e))
        /\ UNCHANGED cut
    BY <1>1, <1>3, <2>1, SpineToLocator DEF Third, DstLeaf
  <2>3. pkt' = Packet("moving", kind, e, DstLeaf(e), e.spine,
                      Addr(e, Then(LeafLocator(e.dst), q)), There(e))
        \/ OnTheWay(e)'
    BY <1>4, <1>5, <2>2, CrossesOrDrops
  <2>4. QED
    BY <1>6, <2>3 DEF Outward, Going
<1>12. CASE Going(kind, e, DstLeaf(e), Then(LeafLocator(e.dst), q), There(e))
  <2> DEFINE sids == Then(LeafLocator(e.dst), q)
  <2>1. PICK i : pkt = Packet("moving", kind, e, LeafAt(e.plane, e.dst), i,
                              Addr(e, sids), There(e))
    BY <1>12 DEF Going, DstLeaf
  <2>2. Head(sids) = LeafLocator(e.dst) /\ Tail(sids) = q
    BY <1>1, <1>3, SidsAreNumbers, ThenShifts
  <2>3. ~IsHost(LeafAt(e.plane, e.dst))
        /\ Sids(LeafAt(e.plane, e.dst)) = LeafSids(e.dst)
    BY NodeKinds
  <2>4. LeafLocator(e.dst) \in DOMAIN LeafSids(e.dst)
        /\ LeafSids(e.dst)[LeafLocator(e.dst)] = UN
    BY <1>3, LeafKnows
  <2> HIDE DEF sids
  <2>5. pkt' = Packet("moving", kind, e, LeafAt(e.plane, e.dst), i, Addr(e, Tail(sids)),
                      There(e))
    BY <2>1, <2>2, <2>3, <2>4, ByNode
  <2>6. QED
    BY <1>6, <2>2, <2>5 DEF Outward, Going, DstLeaf
<1>13. QED
  BY <1>7, <1>8, <1>9, <1>10, <1>11, <1>12 DEF Outward

\* At the far leaf: to the host, or, a green probe, back.
LEMMA LandingStep ==
    ASSUME NEW kind \in {"data", "probe"}, NEW e \in Evs, NEW q \in Landings(kind, e),
           Going(kind, e, DstLeaf(e), q, There(e)), Forward,
           ~Homeward(e)
    PROVE  OnTheWay(e)'
<1>1. PICK i : pkt = Packet("moving", kind, e, DstLeaf(e), i, Addr(e, q), There(e))
  BY DEF Going
<1>2. e.tenant \in {"green", "yellow"} /\ e.dst \in Leaves
  BY EvParts DEF Tenants
<1>3. There(e) \cup {Fourth(e)} = EvLinks(e) /\ There(e) \subseteq EvLinks(e)
      /\ Fourth(e) \in EvLinks(e)
  BY OwnLinks DEF There
<1>4. CASE e.tenant = "green" /\ kind = "data"
  <2>1. q = <<HomeSid(e)>>
    BY <1>4 DEF Landings, HomeSid
  <2>2. /\ Inner("data", e) \in AddrsAt(<<HostAt(e.tenant, e.dst), e.plane>>)
        /\ SameSubnet(Gateway(e.tenant, e.dst), Inner("data", e))
    BY InnerOf DEF DstHost
  <2>3. pkt = Packet("moving", "data", e, LeafAt(e.plane, e.dst), i, Addr(e, <<HomeSid(e)>>),
                     There(e))
    BY <1>1, <1>4, <2>1 DEF DstLeaf
  <2>4. Crosses("data", e, DstHost(e), e.plane, <<>>, There(e), Fourth(e)) /\ UNCHANGED cut
    BY <1>2, <2>2, <2>3, LeafToHost DEF DstHost, Fourth
  <2>5. pkt' = Packet("moving", "data", e, DstHost(e), e.plane, <<>>, EvLinks(e))
        \/ OnTheWay(e)'
    BY <1>3, <2>4, CrossesOrDrops
  <2>6. QED
    BY <2>5 DEF OnTheWay, AtHost
<1>5. CASE e.tenant = "green" /\ kind = "probe"
  <2>1. q = HomeSids(e) /\ There(e) = Turned(e)
    BY <1>5, OwnLinks DEF Landings
  <2>2. Going("probe", e, DstLeaf(e), HomeSids(e), Turned(e))
    BY <1>1, <1>5, <2>1 DEF Going
  <2>3. QED
    BY <2>2 DEF Homeward
<1>6. CASE e.tenant = "yellow" /\ q = <<YellowUDT>>
  <2>1. CASE kind = "data"
    <3>1. /\ Crosses("data", e, DstHost(e), e.plane, Addr(e, <<YellowUDT>>), There(e), Fourth(e))
          /\ UNCHANGED cut
      BY <1>1, <1>6, <2>1, LeafToEndDT6
    <3>2. pkt' = Packet("moving", "data", e, DstHost(e), e.plane, Addr(e, <<YellowUDT>>),
                        EvLinks(e))
          \/ OnTheWay(e)'
      BY <1>3, <3>1, CrossesOrDrops
    <3>3. QED
      BY <1>6, <3>2 DEF OnTheWay, AtHost
  <2>2. CASE kind = "probe"
    <3>1. q = Then(HostUA(9), HomeSids(e))
      BY <1>6, <2>2 DEF Landings
    <3>2. Head(q) = HostUA(9)
      BY <3>1, LandingsAreSids, SidsAreNumbers, ThenShifts
    <3>3. Head(q) = YellowUDT
      BY <1>6
    <3>4. QED
      BY <3>2, <3>3 DEF HostUA, YellowUDT
  <2>3. QED
    BY <2>1, <2>2
<1>7. CASE e.tenant = "yellow" /\ kind = "data" /\ q = Then(HostUA(9), <<YellowUDT>>)
  <2>1. /\ Crosses("data", e, DstHost(e), e.plane, Addr(e, <<YellowUDT>>), There(e), Fourth(e))
        /\ UNCHANGED cut
    BY <1>1, <1>7, LandingsAreSids, LeafToYellow
  <2>2. pkt' = Packet("moving", "data", e, DstHost(e), e.plane, Addr(e, <<YellowUDT>>),
                      EvLinks(e))
        \/ OnTheWay(e)'
    BY <1>3, <2>1, CrossesOrDrops
  <2>3. QED
    BY <1>7, <2>2 DEF OnTheWay, AtHost
<1>8. CASE e.tenant = "yellow" /\ kind = "probe"
  <2>1. q = Then(HostUA(9), HomeSids(e)) /\ HomeSids(e) \in Seq(Nat)
    BY <1>8, LandingsAreSids DEF Landings
  <2>2. /\ Crosses("probe", e, DstHost(e), e.plane, Addr(e, HomeSids(e)), There(e), Fourth(e))
        /\ UNCHANGED cut
    BY <1>1, <1>8, <2>1, LeafToYellow
  <2>3. pkt' = Packet("moving", "probe", e, DstHost(e), e.plane, Addr(e, HomeSids(e)),
                      EvLinks(e))
        \/ OnTheWay(e)'
    BY <1>3, <2>2, CrossesOrDrops
  <2>4. Turned(e) = EvLinks(e)
    BY <1>8, OwnLinks
  <2>5. QED
    BY <1>8, <2>3, <2>4 DEF OnTheWay, Homeward, Going
<1>9. QED
  BY <1>2, <1>4, <1>5, <1>6, <1>7, <1>8 DEF Landings

\* At the host that data is for.
LEMMA HostStep ==
    ASSUME NEW e \in Evs, AtHost(e), Forward
    PROVE  OnTheWay(e)'
<1>1. CASE /\ e.tenant = "yellow"
           /\ pkt = Packet("moving", "data", e, DstHost(e), e.plane, Addr(e, <<YellowUDT>>),
                           EvLinks(e))
  <2>1. pkt' = Packet("moving", "data", e, DstHost(e), e.plane, <<>>, EvLinks(e))
    BY <1>1, YellowDecaps
  <2>2. QED
    BY <2>1 DEF OnTheWay, AtHost
<1>2. CASE pkt = Packet("moving", "data", e, DstHost(e), e.plane, <<>>, EvLinks(e))
  <2>1. pkt' = Packet("arrived", "data", e, DstHost(e), e.plane, <<>>, EvLinks(e))
    BY <1>2, EvParts, InnerOf, ByTaking
  <2>2. QED
    BY <2>1 DEF OnTheWay, Arrives
<1>3. QED
  BY <1>1, <1>2 DEF AtHost

\* A probe on its way home.
LEMMA HomewardStep ==
    ASSUME NEW e \in Evs, Homeward(e), Forward
    PROVE  OnTheWay(e)'
<1> DEFINE last == Then(SpineUA(e.src), <<HomeSid(e)>>)
<1>1. /\ e.src \in Leaves /\ e.dst \in Leaves /\ e.plane \in Planes
      /\ last \in Seq(Nat) /\ <<HomeSid(e)>> \in Seq(Nat)
      /\ HomeSids(e) = Then(LeafUA(e.spine), last)
  BY EvParts, LandingsAreSids DEF HomeSids
<1>2. /\ {First(e), Second(e), Third(e), Fourth(e)} = EvLinks(e)
      /\ Turned(e) \subseteq EvLinks(e)
      /\ Turned(e) \cup {Second(e)} = Turned(e) /\ Turned(e) \cup {Third(e)} = Turned(e)
      /\ Turned(e) \cup {First(e)} = Turned(e)
  BY OwnLinks
<1> HIDE DEF last
<1>3. CASE e.tenant = "yellow" /\ Going("probe", e, DstHost(e), HomeSids(e), Turned(e))
  <2>1. PICK i : pkt = Packet("moving", "probe", e, DstHost(e), i,
                              Addr(e, Then(LeafUA(e.spine), last)), Turned(e))
    BY <1>1, <1>3 DEF Going
  <2>2. /\ Crosses("probe", e, DstLeaf(e), 9, Addr(e, HomeSids(e)), Turned(e), Fourth(e))
        /\ UNCHANGED cut
    BY <1>1, <1>3, <2>1, YellowToLeaf
  <2>3. Turned(e) = EvLinks(e)
    BY <1>3, OwnLinks
  <2>4. pkt' = Packet("moving", "probe", e, DstLeaf(e), 9, Addr(e, HomeSids(e)), Turned(e))
        \/ OnTheWay(e)'
    <3>1. Turned(e) \cup {Fourth(e)} = Turned(e) /\ Fourth(e) \in EvLinks(e)
      BY <1>2, <2>3
    <3>2. QED
      BY <1>2, <2>2, <3>1, CrossesOrDrops
  <2>5. QED
    BY <2>4 DEF OnTheWay, Homeward, Going
<1>4. CASE Going("probe", e, DstLeaf(e), HomeSids(e), Turned(e))
  <2>1. PICK i : pkt = Packet("moving", "probe", e, LeafAt(e.plane, e.dst), i,
                              Addr(e, Then(LeafUA(e.spine), last)), Turned(e))
    BY <1>1, <1>4 DEF Going, DstLeaf
  <2>2. /\ Crosses("probe", e, Spine(e), e.dst, Addr(e, last), Turned(e), Third(e))
        /\ UNCHANGED cut
    BY <1>1, <2>1, LeafToSpine DEF Third
  <2>3. pkt' = Packet("moving", "probe", e, Spine(e), e.dst, Addr(e, last), Turned(e))
        \/ OnTheWay(e)'
    BY <1>2, <2>2, CrossesOrDrops
  <2>4. QED
    BY <2>3 DEF OnTheWay, Homeward, Going, last
<1>5. CASE Going("probe", e, Spine(e), Then(SpineUA(e.src), <<HomeSid(e)>>), Turned(e))
  <2>1. PICK i : pkt = Packet("moving", "probe", e, Spine(e), i,
                              Addr(e, Then(SpineUA(e.src), <<HomeSid(e)>>)), Turned(e))
    BY <1>5 DEF Going
  <2>2. /\ Crosses("probe", e, SrcLeaf(e), e.spine, Addr(e, <<HomeSid(e)>>), Turned(e),
                   Second(e))
        /\ UNCHANGED cut
    BY <1>1, <2>1, SpineToLeaf DEF Second, SrcLeaf
  <2>3. pkt' = Packet("moving", "probe", e, SrcLeaf(e), e.spine, Addr(e, <<HomeSid(e)>>),
                      Turned(e))
        \/ OnTheWay(e)'
    BY <1>2, <2>2, CrossesOrDrops
  <2>4. QED
    BY <2>3 DEF OnTheWay, Homeward, Going
<1>6. CASE Going("probe", e, SrcLeaf(e), <<HomeSid(e)>>, Turned(e))
  <2>1. PICK i : pkt = Packet("moving", "probe", e, LeafAt(e.plane, e.src), i,
                              Addr(e, <<HomeSid(e)>>), Turned(e))
    BY <1>6 DEF Going, SrcLeaf
  <2>2. /\ Inner("probe", e) \in AddrsAt(<<HostAt(e.tenant, e.src), e.plane>>)
        /\ SameSubnet(Gateway(e.tenant, e.src), Inner("probe", e))
    BY InnerOf DEF SrcHost
  <2>3. Crosses("probe", e, SrcHost(e), e.plane, <<>>, Turned(e), First(e)) /\ UNCHANGED cut
    BY <1>1, <2>1, <2>2, LeafToHost DEF SrcHost, First
  <2>4. pkt' = Packet("moving", "probe", e, SrcHost(e), e.plane, <<>>, Turned(e))
        \/ OnTheWay(e)'
    BY <1>2, <2>3, CrossesOrDrops
  <2>5. QED
    BY <2>4 DEF OnTheWay, Homeward
<1>7. CASE pkt = Packet("moving", "probe", e, SrcHost(e), e.plane, <<>>, Turned(e))
  <2>1. pkt' = Packet("arrived", "probe", e, SrcHost(e), e.plane, <<>>, Turned(e))
    BY <1>1, <1>7, InnerOf, ByTaking
  <2>2. QED
    BY <2>1 DEF OnTheWay, Arrives
<1>8. QED
  BY <1>3, <1>4, <1>5, <1>6, <1>7 DEF Homeward

LEMMA ForwardWalks == WalkInv /\ Forward => WalkInv'
<1> SUFFICES ASSUME WalkInv, Forward PROVE WalkInv'
  OBVIOUS
<1>1. Moving
  BY DEF Forward, CrossAdjacency, ConsumeNode, Route, LeafDecap, HostDecap, HostForward,
     HostTakes, Known, Encapped
<1>2. pkt # NoPacket
  BY <1>1 DEF Moving, NoPacket
<1>3. PICK e \in Evs : OnTheWay(e)
  BY <1>2 DEF WalkInv
<1>4. ASSUME NEW kind \in {"data", "probe"} PROVE ~DroppedOn(kind, e)
  <2>1. SUFFICES ASSUME DroppedOn(kind, e) PROVE FALSE
    OBVIOUS
  <2>2. PICK n, i, da, c : pkt = Packet("lost", kind, e, n, i, da, c)
    BY <2>1 DEF DroppedOn
  <2>3. pkt.is = "lost"
    BY <2>2, PacketParts
  <2>4. QED
    BY <1>1, <2>3 DEF Moving
<1>5. ~Arrives(e)
  <2>1. SUFFICES ASSUME Arrives(e) PROVE FALSE
    OBVIOUS
  <2>2. pkt.is = "arrived"
    BY <2>1, PacketParts DEF Arrives
  <2>3. QED
    BY <1>1, <2>2 DEF Moving
<1>6. OnTheWay(e)'
  <2>1. CASE AtHost(e)
    BY <2>1, HostStep
  <2>2. CASE Homeward(e)
    BY <2>2, HomewardStep
  <2>3. CASE ~Homeward(e) /\ \E kind \in {"data", "probe"} :
               \E q \in Landings(kind, e) : Outward(kind, e, q)
    <3>1. PICK kind \in {"data", "probe"} :
               \E q \in Landings(kind, e) : Outward(kind, e, q)
      BY <2>3
    <3>2. PICK q \in Landings(kind, e) : Outward(kind, e, q)
      BY <3>1
    <3>3. QED
      BY <2>3, <3>2, OutwardStep, LandingStep
  <2>4. QED
    BY <1>3, <1>4, <1>5, <2>1, <2>2, <2>3 DEF OnTheWay
<1>7. QED
  BY <1>6 DEF WalkInv

-----------------------------------------------------------------------------
(* What the hosts send is the first station of its EV.                        *)

LEMMA Regroup ==
    ASSUME NEW x \in Seq(Nat), NEW y \in Seq(Nat), NEW z \in Seq(Nat)
    PROVE  (x \o y) \o z = x \o (y \o z)
<1> DEFINE a == (x \o y) \o z
           b == x \o (y \o z)
<1>1. a \in Seq(Nat) /\ b \in Seq(Nat) /\ Len(a) = Len(x) + Len(y) + Len(z) /\ Len(b) = Len(a)
  OBVIOUS
<1>2. ASSUME NEW i \in 1 .. Len(a) PROVE a[i] = b[i]
  <2>1. CASE i <= Len(x)
    BY <2>1
  <2>2. CASE i > Len(x) /\ i <= Len(x) + Len(y)
    BY <2>2
  <2>3. CASE i > Len(x) + Len(y)
    BY <1>1, <2>3
  <2>4. QED
    BY <2>1, <2>2, <2>3
<1> HIDE DEF a, b
<1>3. a = b
  BY <1>1, <1>2, SeqEqual
<1>4. QED
  BY <1>3 DEF a, b

LEMMA RegroupFour ==
    ASSUME NEW w \in Seq(Nat), NEW x \in Seq(Nat), NEW y \in Seq(Nat), NEW z \in Seq(Nat)
    PROVE  ((w \o x) \o y) \o z = w \o (x \o (y \o z))
<1> DEFINE wx == w \o x
           yz == y \o z
           Regroups(a, b, c) == (a \o b) \o c = a \o (b \o c)
<1>1. wx \in Seq(Nat) /\ yz \in Seq(Nat)
  OBVIOUS
<1>2. \A a, b, c \in Seq(Nat) : Regroups(a, b, c)
  BY Regroup
<1> HIDE DEF wx, yz, Regroups
<1>3. Regroups(w, x, yz) /\ Regroups(wx, y, z)
  BY <1>1, <1>2
<1>4. w \o (x \o yz) = wx \o yz /\ (wx \o y) \o z = wx \o yz
  BY <1>3 DEF Regroups, wx, yz
<1>5. (wx \o y) \o z = w \o (x \o yz)
  BY <1>4, Zenon
<1>6. QED
  BY <1>5 DEF wx, yz

LEMMA TwoBefore ==
    ASSUME NEW a \in Nat, NEW b \in Nat, NEW q \in Seq(Nat)
    PROVE  <<a, b>> \o q = Then(a, Then(b, q))
<1>1. <<a>> \in Seq(Nat) /\ <<b>> \in Seq(Nat)
  OBVIOUS
<1>2. (<<a>> \o <<b>>) \o q = <<a>> \o (<<b>> \o q)
  BY <1>1, Regroup, Zenon
<1>3. <<a>> \o <<b>> = <<a, b>>
  <2> DEFINE x == <<a>> \o <<b>>
             y == <<a, b>>
  <2>1. x \in Seq(Nat) /\ y \in Seq(Nat) /\ Len(x) = 2 /\ Len(y) = 2
    OBVIOUS
  <2>2. x[1] = a /\ x[2] = b /\ y[1] = a /\ y[2] = b
    OBVIOUS
  <2> HIDE DEF x, y
  <2>3. \A k \in 1 .. Len(x) : x[k] = y[k]
    BY <2>1, <2>2
  <2>4. x = y
    BY <2>1, <2>3, SeqEqual
  <2>5. QED
    BY <2>4 DEF x, y
<1>4. QED
  BY <1>2, <1>3 DEF Then

LEMMA DataAddress ==
    ASSUME NEW e \in Evs, NEW mode \in Modes
    PROVE  \E q \in Landings("data", e) :
             UsidOuterDst(e.tenant, e.plane, e.spine, e.dst, mode)
               \in {Addr(e, Then(LeafUA(e.spine), Then(SpineUA(e.dst), q))),
                    Addr(e, Then(SpineLocator(e.spine), Then(LeafLocator(e.dst), q)))}
<1> DEFINE land == CASE e.tenant = "green" -> <<GreenUDT>>
                     [] e.tenant = "yellow" /\ mode = "uA"
                          -> <<HostUA(HostPort("yellow")), YellowUDT>>
                     [] OTHER -> <<YellowUDT>>
           way == IF mode = "uA" THEN <<LeafUA(e.spine), SpineUA(e.dst)>>
                                 ELSE <<SpineLocator(e.spine), LeafLocator(e.dst)>>
<1>1. UsidOuterDst(e.tenant, e.plane, e.spine, e.dst, mode) = Addr(e, way \o land)
  BY DEF UsidOuterDst, Addr
<1>2. land \in Landings("data", e)
  <2>1. HostPort("yellow") = 9
    BY DEF HostPort
  <2>2. <<HostUA(9), YellowUDT>> = Then(HostUA(9), <<YellowUDT>>)
    BY DEF Then
  <2>3. CASE e.tenant = "green"
    <3>1. land = <<GreenUDT>>
      BY <2>3
    <3> HIDE DEF land
    <3>2. QED
      BY <2>3, <3>1 DEF Landings
  <2>4. CASE e.tenant = "yellow" /\ mode = "uA"
    <3>1. land = Then(HostUA(9), <<YellowUDT>>)
      BY <2>1, <2>2, <2>4
    <3> HIDE DEF land
    <3>2. QED
      BY <2>4, <3>1 DEF Landings
  <2>5. CASE e.tenant = "yellow" /\ mode # "uA"
    <3>1. land = <<YellowUDT>>
      BY <2>5
    <3> HIDE DEF land
    <3>2. QED
      BY <2>5, <3>1 DEF Landings
  <2>6. QED
    BY <2>3, <2>4, <2>5, EvParts DEF Tenants
<1>3. land \in Seq(Nat)
  BY <1>2, LandingsAreSids
<1>4. /\ LeafUA(e.spine) \in Nat /\ SpineUA(e.dst) \in Nat
      /\ SpineLocator(e.spine) \in Nat /\ LeafLocator(e.dst) \in Nat
  BY EvParts, SidsAreNumbers
<1> HIDE DEF land
<1>5. way \o land \in {Then(LeafUA(e.spine), Then(SpineUA(e.dst), land)),
                       Then(SpineLocator(e.spine), Then(LeafLocator(e.dst), land))}
  BY <1>3, <1>4, TwoBefore
<1> HIDE DEF way
<1>6. QED
  BY <1>1, <1>2, <1>5

LEMMA ProbeAddress ==
    ASSUME NEW e \in Evs
    PROVE  \E q \in Landings("probe", e) :
             ProbeOuterDst(e.tenant, e.plane, e.src, e.dst, e.spine)
               = Addr(e, Then(LeafUA(e.spine), Then(SpineUA(e.dst), q)))
<1> DEFINE turn == IF e.tenant = "green" THEN <<>> ELSE <<HostUA(HostPort(e.tenant))>>
           out == <<LeafUA(e.spine), SpineUA(e.dst)>>
           back == <<LeafUA(e.spine), SpineUA(e.src)>>
           last == <<HomeSid(e)>>
<1>1. /\ LeafUA(e.spine) \in Nat /\ SpineUA(e.dst) \in Nat /\ SpineUA(e.src) \in Nat
      /\ HostUA(9) \in Nat /\ last \in Seq(Nat) /\ HomeSids(e) \in Seq(Nat)
      /\ e.tenant \in {"green", "yellow"}
  BY EvParts, SidsAreNumbers, LandingsAreSids DEF Tenants
<1>2. out \in Seq(Nat) /\ back \in Seq(Nat)
  BY <1>1
<1>3. back \o last = HomeSids(e)
  BY <1>1, TwoBefore DEF HomeSids
<1>4. e.tenant = "yellow" => turn = <<HostUA(9)>>
  BY DEF HostPort
<1>5. turn \in Seq(Nat)
  <2>1. CASE e.tenant = "green"
    BY <2>1
  <2>2. CASE e.tenant = "yellow"
    BY <1>1, <1>4, <2>2
  <2>3. QED
    BY <1>1, <2>1, <2>2
<1>6. ProbeOuterDst(e.tenant, e.plane, e.src, e.dst, e.spine)
        = Addr(e, ((out \o turn) \o back) \o last)
  <2>1. last = IF e.tenant = "green" THEN <<GreenUDT>> ELSE <<ProbeUDT>>
    BY DEF HomeSid
  <2>2. QED
    BY <2>1 DEF ProbeOuterDst, Addr
<1>7. turn \o HomeSids(e) \in Landings("probe", e)
  <2>1. CASE e.tenant = "green"
    <3>1. <<>> \o HomeSids(e) = HomeSids(e)
      BY <1>1, ConcatEmptySeq
    <3>2. QED
      BY <2>1, <3>1 DEF Landings
  <2>2. CASE e.tenant = "yellow"
    BY <1>4, <2>2 DEF Landings, Then
  <2>3. QED
    BY <1>1, <2>1, <2>2
<1> HIDE DEF turn, out, back, last
<1>8. ((out \o turn) \o back) \o last = out \o (turn \o HomeSids(e))
  <2>1. ((out \o turn) \o back) \o last = out \o (turn \o (back \o last))
    <3> DEFINE Regroups(k, l, m, n) == ((k \o l) \o m) \o n = k \o (l \o (m \o n))
    <3>1. \A k, l, m, n \in Seq(Nat) : Regroups(k, l, m, n)
      BY RegroupFour
    <3> HIDE DEF Regroups
    <3>2. Regroups(out, turn, back, last)
      BY <1>1, <1>2, <1>5, <3>1
    <3>3. QED
      BY <3>2 DEF Regroups
  <2>2. QED
    BY <1>3, <2>1, Zenon
<1>9. out \o (turn \o HomeSids(e))
        = Then(LeafUA(e.spine), Then(SpineUA(e.dst), turn \o HomeSids(e)))
  <2>1. turn \o HomeSids(e) \in Seq(Nat)
    BY <1>7, LandingsAreSids
  <2>2. QED
    BY <1>1, <2>1, TwoBefore DEF out
<1>10. QED
  BY <1>6, <1>7, <1>8, <1>9

\* A packet leaves by its own link.
LEMMA EmitWalks ==
    ASSUME NEW kind \in {"data", "probe"}, NEW e \in Evs, NEW q \in Landings(kind, e), NEW da,
           da \in {Addr(e, Then(LeafUA(e.spine), Then(SpineUA(e.dst), q))),
                   Addr(e, Then(SpineLocator(e.spine), Then(LeafLocator(e.dst), q)))},
           Emit(kind, e.tenant, e.src, e.dst, e.plane, e.spine, da, Inner(kind, e))
    PROVE  WalkInv'
<1>1. e.tenant \in Tenants /\ e.src \in Leaves /\ e.plane \in Planes
  BY EvParts
<1> DEFINE p == Packet("moving", kind, e, HostAt(e.tenant, e.src), e.plane, da, {})
<1>2. pkt' = Sent(p, e.plane, Gateway(e.tenant, e.src)) /\ UNCHANGED cut
  <2>1. e = [tenant |-> e.tenant, src |-> e.src, dst |-> e.dst, plane |-> e.plane,
             spine |-> e.spine]
    BY DEF Evs
  <2>2. QED
    BY <2>1 DEF Emit, Packet
<1>3. /\ <<HostAt(e.tenant, e.src), e.plane>> \in Ends
      /\ LinkOf(<<HostAt(e.tenant, e.src), e.plane>>) = First(e)
      /\ FarEnd(<<HostAt(e.tenant, e.src), e.plane>>) = <<SrcLeaf(e), HostPort(e.tenant)>>
  BY <1>1, HostWires DEF First, SrcLeaf
<1>4. Gateway(e.tenant, e.src) \in AddrsAt(<<SrcLeaf(e), HostPort(e.tenant)>>)
  BY <1>1, HostHas DEF SrcLeaf
<1> HIDE DEF p
<1>5. Crosses(kind, e, SrcLeaf(e), HostPort(e.tenant), da, {}, First(e))
  <2>1. p = Packet("moving", kind, e, HostAt(e.tenant, e.src), e.plane, da, {})
    BY DEF p
  <2>2. QED
    BY <1>2, <1>3, <1>4, <2>1, SentAcross
<1>6. First(e) \in EvLinks(e) /\ {} \subseteq EvLinks(e) /\ {} \cup {First(e)} = {First(e)}
  BY OwnLinks
<1>7. pkt' = Packet("moving", kind, e, SrcLeaf(e), HostPort(e.tenant), da, {First(e)})
      \/ OnTheWay(e)'
  BY <1>2, <1>5, <1>6, CrossesOrDrops
<1>8. CASE OnTheWay(e)'
  BY <1>8 DEF WalkInv
<1>9. CASE pkt' = Packet("moving", kind, e, SrcLeaf(e), HostPort(e.tenant), da, {First(e)})
  <2>1. Outward(kind, e, q)'
    BY <1>9 DEF Outward, Going
  <2>2. OnTheWay(e)'
    BY <2>1 DEF OnTheWay
  <2>3. QED
    BY <2>2 DEF WalkInv
<1>10. QED
  BY <1>7, <1>8, <1>9

LEMMA DataWalks ==
    ASSUME NEW t \in Tenants, NEW src \in Leaves, NEW dst \in Leaves, NEW p \in Planes,
           NEW s \in Spines, NEW mode \in Modes,
           Emit("data", t, src, dst, p, s, UsidOuterDst(t, p, s, dst, mode), Anycast(t, dst))
    PROVE  WalkInv'
<1> DEFINE e == [tenant |-> t, src |-> src, dst |-> dst, plane |-> p, spine |-> s]
           da == UsidOuterDst(t, p, s, dst, mode)
<1>1. e \in Evs
  BY DEF Evs
<1>2. e.tenant = t /\ e.src = src /\ e.dst = dst /\ e.plane = p /\ e.spine = s
  OBVIOUS
<1>3. Inner("data", e) = Anycast(t, dst)
  BY DEF Inner
<1> HIDE DEF e
<1>4. PICK q \in Landings("data", e) :
             da \in {Addr(e, Then(LeafUA(e.spine), Then(SpineUA(e.dst), q))),
                     Addr(e, Then(SpineLocator(e.spine), Then(LeafLocator(e.dst), q)))}
  BY <1>1, <1>2, DataAddress
<1> HIDE DEF da
<1>5. Emit("data", e.tenant, e.src, e.dst, e.plane, e.spine, da, Inner("data", e))
  BY <1>2, <1>3 DEF da
<1>6. QED
  BY <1>1, <1>4, <1>5, EmitWalks

LEMMA ProbeWalks ==
    ASSUME NEW t \in Tenants, NEW src \in Leaves, NEW dst \in Leaves \ {src}, NEW p \in Planes,
           NEW s \in Spines, SendProbe(t, src, dst, p, s)
    PROVE  WalkInv'
<1> DEFINE e == [tenant |-> t, src |-> src, dst |-> dst, plane |-> p, spine |-> s]
           da == ProbeOuterDst(t, p, src, dst, s)
<1>1. e \in Evs
  BY DEF Evs
<1>2. e.tenant = t /\ e.src = src /\ e.dst = dst /\ e.plane = p /\ e.spine = s
  OBVIOUS
<1>3. Inner("probe", e) = ProbeEvAddr(t, src, p, s)
  BY DEF Inner
<1>4. Templates(t, src)[<<p, s, dst>>] = <<da, ProbeEvAddr(t, src, p, s)>>
  <2>1. <<p, s, dst>> \in Planes \X Spines \X (Leaves \ {src})
    OBVIOUS
  <2>2. QED
    BY <2>1 DEF Templates
<1> HIDE DEF e
<1>5. PICK q \in Landings("probe", e) :
             da = Addr(e, Then(LeafUA(e.spine), Then(SpineUA(e.dst), q)))
  BY <1>1, <1>2, ProbeAddress
<1> HIDE DEF da
<1>6. Emit("probe", t, src, dst, p, s, da, ProbeEvAddr(t, src, p, s))
  BY <1>4 DEF SendProbe
<1>7. Emit("probe", e.tenant, e.src, e.dst, e.plane, e.spine, da, Inner("probe", e))
  BY <1>2, <1>3, <1>6
<1>8. QED
  BY <1>1, <1>5, <1>7, EmitWalks

\* The plane of the lowest metric is one of those that have a route.
LEMMA LowestIsOne ==
    ASSUME NEW ps \in SUBSET Nat, ps # {}
    PROVE  Min(ps) \in ps
<1> DEFINE R == OpToRel(<, Nat)
<1>1. IsWellFoundedOn(R, Nat)
  BY NatLessThanWellFounded
<1>2. \A x, y \in Nat : <<x, y>> \in R <=> x < y
  BY DEF OpToRel
<1> HIDE DEF R
<1>3. PICK x \in ps : \A y \in ps : ~(<<y, x>> \in R)
  BY <1>1, WFMin
<1>4. \A y \in ps : x =< y
  <2> TAKE y \in ps
  <2>1. x \in Nat /\ y \in Nat /\ ~(<<y, x>> \in R)
    BY <1>3
  <2>2. ~(y < x)
    BY <1>2, <2>1
  <2>3. QED
    BY <2>1, <2>2
<1>5. QED
  BY <1>3, <1>4 DEF Min

LEMMA KernelWalks ==
    ASSUME RouteInv, NEW t \in Tenants, NEW src \in Leaves, NEW dst \in Leaves,
           KernelSend(t, src, dst)
    PROVE  WalkInv'
<1> DEFINE ps == {p \in Planes : <<t, src, dst, p>> \in DOMAIN rib}
           p == Min(ps)
           s == rib[<<t, src, dst, p>>]
<1>1. ps # {} /\ Emit("data", t, src, dst, p, s, UsidOuterDst(t, p, s, dst, "uA"),
                      Anycast(t, dst))
  BY DEF KernelSend
<1>2. p \in ps
  <2>1. ps \in SUBSET Nat
    BY DEF Planes
  <2> HIDE DEF ps
  <2>2. QED
    BY <1>1, <2>1, LowestIsOne
<1>3. p \in Planes /\ s \in Spines
  BY <1>2 DEF RouteInv, RibTypes
<1> HIDE DEF ps, p, s
<1>4. "uA" \in Modes
  BY DEF Modes
<1>5. QED
  BY <1>1, <1>3, <1>4, DataWalks

LEMMA RawWalks == RawSends => WalkInv'
<1> SUFFICES ASSUME RawSends PROVE WalkInv'
  OBVIOUS
<1>1. PICK t \in Tenants, src \in Leaves, p \in Planes, s \in Spines :
           \E dst \in Leaves \ {src} :
              (\E m \in Modes : SendData(t, src, dst, p, s, m)) \/ SendProbe(t, src, dst, p, s)
  BY DEF RawSends
<1>2. PICK dst \in Leaves \ {src} :
              (\E m \in Modes : SendData(t, src, dst, p, s, m)) \/ SendProbe(t, src, dst, p, s)
  BY <1>1
<1>3. CASE \E m \in Modes : SendData(t, src, dst, p, s, m)
  BY <1>3, DataWalks DEF SendData
<1>4. CASE SendProbe(t, src, dst, p, s)
  BY <1>4, ProbeWalks
<1>5. QED
  BY <1>2, <1>3, <1>4

\* A link that goes down takes no packet off its way.
LEMMA CutsKeep ==
    ASSUME WalkInv, UNCHANGED pkt, cut \subseteq cut'
    PROVE  WalkInv'
<1>1. CASE pkt = NoPacket
  BY <1>1 DEF WalkInv
<1>2. CASE \E e \in Evs : OnTheWay(e)
  <2>1. PICK e \in Evs : OnTheWay(e)
    BY <1>2
  <2>2. ASSUME NEW kind, DroppedOn(kind, e) PROVE DroppedOn(kind, e)'
    BY <2>2 DEF DroppedOn
  <2>3. ASSUME NEW kind, NEW q PROVE Outward(kind, e, q) => Outward(kind, e, q)'
    BY DEF Outward, Going
  <2>4. (AtHost(e) => AtHost(e)') /\ (Homeward(e) => Homeward(e)') /\ (Arrives(e) => Arrives(e)')
    BY DEF AtHost, Homeward, Arrives, Going
  <2>5. OnTheWay(e)'
    BY <2>1, <2>2, <2>3, <2>4 DEF OnTheWay
  <2>6. QED
    BY <2>5 DEF WalkInv
<1>3. QED
  BY <1>1, <1>2 DEF WalkInv

LEMMA WalkStep == RouteInv /\ WalkInv /\ [RouteNext]_allVars => WalkInv'
<1> SUFFICES ASSUME RouteInv, WalkInv, [RouteNext]_allVars PROVE WalkInv'
  OBVIOUS
<1>1. ASSUME NEW kind, NEW todo, Give(kind, todo) PROVE WalkInv'
  BY <1>1 DEF Give, WalkInv
<1>2. CASE UNCHANGED fabricVars
  BY <1>2, CutsKeep DEF fabricVars
<1>3. CASE UNCHANGED allVars
  BY <1>2, <1>3 DEF allVars
<1>4. ASSUME NEW t \in Tenants, NEW src \in Leaves, NEW dst \in Leaves \ {src},
             KernelSend(t, src, dst)
      PROVE  WalkInv'
  BY <1>4, KernelWalks
<1>5. CASE Cuts
  <2>1. PICK k \in Links : Cut(k)
    BY <1>5 DEF Cuts
  <2>2. QED
    BY <2>1, CutsKeep DEF Cut
<1>6. ASSUME NEW spec \in Specs, ApplySet(spec) \/ DeleteSet(spec) PROVE WalkInv'
  BY <1>1, <1>6 DEF ApplySet, DeleteSet
<1>7. CASE DeleteAll
  BY <1>1, <1>7 DEF DeleteAll
<1>8. ASSUME NEW r \in cmd.todo, OneRoute(r) \/ OneFails(r) PROVE WalkInv'
  BY <1>2, <1>8 DEF OneRoute, OneFails
<1>9. CASE ScanDone \/ CommandEnds
  BY <1>2, <1>9 DEF ScanDone, CommandEnds
<1>10. QED
  BY <1>3, <1>4, <1>5, <1>6, <1>7, <1>8, <1>9, RawWalks, ForwardWalks DEF RouteNext

-----------------------------------------------------------------------------
(* What follows for the packets.                                              *)

\* How a packet of an EV looks.
LooksOf(e) ==
    /\ pkt.ev = e /\ pkt.crossed \subseteq EvLinks(e)
    /\ pkt.is = "lost" => EvLinks(e) \cap cut # {}
    /\ pkt.is = "arrived" => Arrives(e)

LEMMA WalkView ==
    ASSUME NEW e \in Evs, OnTheWay(e)
    PROVE  LooksOf(e)
<1>1. /\ {First(e)} \subseteq EvLinks(e) /\ {First(e), Second(e)} \subseteq EvLinks(e)
      /\ There(e) \subseteq EvLinks(e) /\ Turned(e) \subseteq EvLinks(e)
  BY OwnLinks
<1>2. ASSUME NEW kind, NEW n, NEW i, NEW da, NEW c,
             c \subseteq EvLinks(e), pkt = Packet("moving", kind, e, n, i, da, c)
      PROVE  LooksOf(e)
  <2>1. pkt.is = "moving" /\ pkt.ev = e /\ pkt.crossed = c
    BY <1>2, PacketParts
  <2>2. QED
    BY <1>2, <2>1 DEF LooksOf
<1>3. ASSUME NEW kind, NEW n, NEW sids, NEW c, c \subseteq EvLinks(e),
             Going(kind, e, n, sids, c)
      PROVE  LooksOf(e)
  BY <1>2, <1>3 DEF Going
<1>4. CASE Arrives(e)
  <2>1. pkt.ev = e /\ pkt.crossed \in {EvLinks(e), Turned(e)} /\ pkt.is = "arrived"
    BY <1>4, PacketParts DEF Arrives
  <2>2. QED
    BY <1>1, <1>4, <2>1 DEF LooksOf
<1>5. ASSUME NEW kind, DroppedOn(kind, e) PROVE LooksOf(e)
  <2>1. PICK n, i, da, c : c \in SUBSET EvLinks(e) /\ pkt = Packet("lost", kind, e, n, i, da, c)
    BY <1>5 DEF DroppedOn
  <2>2. pkt.is = "lost" /\ pkt.ev = e /\ pkt.crossed = c
    BY <2>1, PacketParts
  <2>3. QED
    BY <1>5, <2>1, <2>2 DEF DroppedOn, LooksOf
<1>6. ASSUME NEW kind, NEW q, Outward(kind, e, q) PROVE LooksOf(e)
  BY <1>1, <1>3, <1>6 DEF Outward
<1>7. CASE AtHost(e)
  BY <1>2, <1>7 DEF AtHost
<1>8. CASE Homeward(e)
  BY <1>1, <1>2, <1>3, <1>8 DEF Homeward
<1>9. QED
  BY <1>4, <1>5, <1>6, <1>7, <1>8 DEF OnTheWay

LEMMA SentOrNone == WalkInv /\ pkt.is # "none" => \E e \in Evs : OnTheWay(e)
BY DEF WalkInv, NoPacket

\* A probe's address names its EV.
LEMMA AddressNames ==
    ASSUME NEW e \in Evs
    PROVE  ProbeEvs(Inner("probe", e)) = {<<e.tenant, e.src, e.plane, e.spine>>}
<1> DEFINE low == (e.plane + 1) * 16 + e.spine
<1>1. /\ e.tenant \in Tenants /\ e.src \in Leaves /\ e.plane \in Planes /\ e.spine \in Spines
  BY EvParts
<1>2. e.plane \in 0 .. NumPlanes - 1 /\ NumPlanes \in 1 .. 15 /\ e.spine \in 0 .. 7
  BY <1>1, FabricAssumption DEF Planes, Spines
<1>3. low \div 16 = e.plane + 1 /\ low % 16 = e.spine
  BY <1>2
<1>4. e.plane + 1 \in 1 .. NumPlanes /\ (e.plane + 1) - 1 = e.plane
  BY <1>2
<1>5. Inner("probe", e) = <<e.tenant, e.src, low>>
  BY DEF Inner, ProbeEvAddr
<1> HIDE DEF low
<1>6. QED
  BY <1>1, <1>3, <1>4, <1>5 DEF ProbeEvs

LEMMA WalkSafe == WalkInv => RightPlace /\ OnItsPath /\ LostByTheEv /\ ProbeCoversData
<1> SUFFICES ASSUME WalkInv PROVE RightPlace /\ OnItsPath /\ LostByTheEv /\ ProbeCoversData
  OBVIOUS
<1>1. OnItsPath
  BY SentOrNone, WalkView DEF OnItsPath, LooksOf
<1>2. LostByTheEv
  BY SentOrNone, WalkView DEF LostByTheEv, LooksOf
<1>3. ASSUME pkt.is = "arrived"
      PROVE  \E e \in Evs : Arrives(e)
  BY <1>3, SentOrNone, WalkView DEF LooksOf
<1>4. RightPlace
  <2> SUFFICES ASSUME pkt.is = "arrived"
               PROVE  /\ pkt.in = pkt.ev.plane
                      /\ pkt.kind = "data" => Here = HostAt(pkt.ev.tenant, pkt.ev.dst)
                      /\ pkt.kind = "probe" =>
                           /\ Here = HostAt(pkt.ev.tenant, pkt.ev.src)
                           /\ ProbeEvs(pkt.inner) =
                               {<<pkt.ev.tenant, pkt.ev.src, pkt.ev.plane, pkt.ev.spine>>}
    BY DEF RightPlace
  <2>1. PICK e \in Evs : Arrives(e)
    BY <1>3
  <2>2. CASE pkt = Packet("arrived", "data", e, DstHost(e), e.plane, <<>>, EvLinks(e))
    <3>1. pkt.ev = e /\ pkt.in = e.plane /\ pkt.kind = "data" /\ pkt.at = DstHost(e)
      BY <2>2, PacketParts
    <3>2. QED
      BY <3>1 DEF Here, DstHost
  <2>3. CASE pkt = Packet("arrived", "probe", e, SrcHost(e), e.plane, <<>>, Turned(e))
    <3>1. /\ pkt.ev = e /\ pkt.in = e.plane /\ pkt.kind = "probe" /\ pkt.at = SrcHost(e)
          /\ pkt.inner = Inner("probe", e)
      BY <2>3, PacketParts
    <3>2. QED
      BY <3>1, AddressNames DEF Here, SrcHost
  <2>4. QED
    BY <2>1, <2>2, <2>3 DEF Arrives
<1>5. ProbeCoversData
  <2> DEFINE greenLinks == {LinkOf(<<HostAt("green", h), p>>) : h \in Leaves, p \in Planes}
  <2> SUFFICES ASSUME pkt.is = "arrived", pkt.kind = "probe"
               PROVE  EvLinks(pkt.ev) \ greenLinks \subseteq pkt.crossed
    BY DEF ProbeCoversData
  <2>1. PICK e \in Evs : Arrives(e)
    BY <1>3
  <2>2. pkt = Packet("arrived", "probe", e, SrcHost(e), e.plane, <<>>, Turned(e))
    <3>1. SUFFICES ASSUME pkt = Packet("arrived", "data", e, DstHost(e), e.plane, <<>>,
                                       EvLinks(e))
                   PROVE  FALSE
      BY <2>1 DEF Arrives
    <3>2. pkt.kind = "data"
      BY <3>1, PacketParts
    <3>3. QED
      BY <3>2
  <2>3. pkt.ev = e /\ pkt.crossed = Turned(e)
    BY <2>2, PacketParts
  <2>4. e.tenant = "green" => Fourth(e) \in greenLinks
    <3>1. SUFFICES ASSUME e.tenant = "green" PROVE Fourth(e) \in greenLinks
      OBVIOUS
    <3>2. e.dst \in Leaves /\ e.plane \in Planes /\ "green" \in Tenants
      BY EvParts DEF Tenants
    <3>3. LinkOf(<<HostAt("green", e.dst), e.plane>>) = Fourth(e)
      BY <3>1, <3>2, HostWires DEF Fourth
    <3>4. QED
      BY <3>2, <3>3
  <2> HIDE DEF greenLinks
  <2>5. QED
    BY <2>3, <2>4, OwnLinks
<1>6. QED
  BY <1>1, <1>2, <1>4, <1>5

LEMMA Walking == RouteSpec => []WalkInv
<1>1. RouteInit => WalkInv
  BY DEF RouteInit, FabricInit, WalkInv
<1>2. QED
  BY RouteInitInv, RouteStep, <1>1, WalkStep, PTL DEF RouteSpec

\* What comes through comes to the host it is for, a probe to the host that has
\* sent it, on the NIC of its EV's plane and with an address that names the EV:
\* what usid_outer_dst() and probe_outer_dst() write and what write_leaf_frr(),
\* write_spine_frr() and the hosts' routes do with it fit together.
THEOREM ComesToTheRightPlace == RouteSpec => []RightPlace
BY Walking, WalkSafe, PTL

\* Nothing leaves the links of its EV, by uA or by uN, there or back.
THEOREM KeepsToItsPath == RouteSpec => []OnItsPath
BY Walking, WalkSafe, PTL

\* A packet is dropped only if a link of its EV is down: no table of the
\* generator has a hole on a path that topo.py addresses.
THEOREM LostOnlyByTheEv == RouteSpec => []LostByTheEv
BY Walking, WalkSafe, PTL

\* A probe that comes back has crossed every link of the fabric that its EV's
\* data crosses.
THEOREM ProbeGoesWhereDataGoes == RouteSpec => []ProbeCoversData
BY Walking, WalkSafe, PTL
=============================================================================
