------------------------------- MODULE RouteSets -------------------------------
(***************************************************************************)
(* srv6_mrc/cli/routes.py: RouteSets applied to and deleted from the hosts *)
(* and what the kernel then sends through the fabric.  A command treats    *)
(* its routes in a pool of threads, one docker exec each, in any order and *)
(* some in vain; the operator gives one command after another.             *)
(***************************************************************************)
EXTENDS Fabric

CONSTANTS
    Specs,          \* RouteSets: sequences of <<tenant, src, dst,
                    \* {the spine} or, for "auto", {}, planes>>
    MaxCommands,    \* bound: commands given
    MaxDockerFails  \* bound: docker execs that fail

\* The validators of expand_spec() let nothing else pass.
ASSUME RouteAssumption ==
    /\ MaxCommands \in Nat /\ MaxDockerFails \in Nat
    /\ \A spec \in Specs :
         spec \in Seq(Tenants \X Leaves \X Leaves
                       \X ({{}} \cup {{s} : s \in Spines}) \X SUBSET Planes)

VARIABLES
    rib,        \* the encap seg6 routes: <<tenant, on host, to host, plane>> -> spine
    cmd,        \* the command in progress: its kind and what it has still to do
    given, fails,
    told,       \* a command has failed and said so
    missed      \* one has failed and not said so

routeVars == <<rib, cmd, given, fails, told, missed>>
allVars == <<fabricVars, routeVars>>

NoCommand == [is |-> "none", todo |-> {}]
Keys == Tenants \X Leaves \X Leaves \X Planes

RouteInit == /\ FabricInit
             /\ rib = <<>> /\ cmd = NoCommand /\ given = 0 /\ fails = 0
             /\ told = FALSE /\ missed = FALSE

\* spine_for(): the reference pairs, then (a * NUM_LEAVES + b) % NUM_SPINES.
ReferenceSpine(a, b) ==
    IF a + b = 15 THEN {<<0, 2, 4, 6, 1, 3, 5, 7>>[a + 1]} ELSE {}

SpineFor(a, b) == IF ReferenceSpine(a, b) # {} THEN Min(ReferenceSpine(a, b))
                  ELSE (a * NumLeaves + b) % NumSpines

Lower(a, b) == IF a < b THEN a ELSE b
Upper(a, b) == IF a < b THEN b ELSE a

\* Mutant: the pairs are not put in order before they replace one another.
SamePair_Directed(x, y) == x[1] = y[1] /\ x[2] = y[2] /\ x[3] = y[3]

SamePair(x, y) == /\ x[1] = y[1]
                  /\ Lower(x[2], x[3]) = Lower(y[2], y[3])
                  /\ Upper(x[2], x[3]) = Upper(y[2], y[3])

\* expand_spec(): the raw pairs a later one does not replace, self-pairs gone.
Effective(spec) ==
    {spec[i] : i \in {k \in DOMAIN spec :
        /\ spec[k][2] # spec[k][3]
        /\ \A j \in k + 1 .. Len(spec) : ~SamePair(spec[j], spec[k])}}

\* Pair.routes(): both directions on each plane, over one spine.
RoutesOf(x) ==
    LET s == IF x[4] = {} THEN SpineFor(Lower(x[2], x[3]), Upper(x[2], x[3]))
             ELSE Min(x[4]) IN
    {<<<<x[1], d[1], d[2], p>>, s>> : d \in {<<x[2], x[3]>>, <<x[3], x[2]>>}, p \in x[5]}

SpecRoutes(spec) == UNION {RoutesOf(x) : x \in Effective(spec)}

\* A packet on its way reads no encap route and a command reads no packet, so
\* commands are given between packets only, and the raw sockets, which use no
\* route of a RouteSet, send before the first of them.  The packet that has
\* come to its end is not looked at again.
Give(kind, todo) ==
    /\ cmd.is = "none" /\ given < MaxCommands /\ ~Moving
    /\ cmd' = [is |-> kind, todo |-> todo] /\ given' = given + 1
    /\ pkt' = NoPacket
    /\ UNCHANGED <<rib, fails, told, missed, cut>>

\* load_spec_file() refuses a spec that has no pairs; a reference pair whose spine
\* the fabric does not have makes usid_outer_dst() raise in Pair.routes(), which
\* ends the command before its first route.
Accepted(spec) ==
    SpecRoutes(spec) # {} /\ \A r \in SpecRoutes(spec) : r[2] \in Spines

ApplySet(spec) == Accepted(spec) /\ Give("apply", SpecRoutes(spec))
DeleteSet(spec) == Accepted(spec) /\ Give("delete", SpecRoutes(spec))

\* delete --all: the hosts to scan first.
DeleteAll == Give("scan", Tenants \X Leaves)

\* A route is replaced, or deleted; an absent one counts as deleted.
OneRoute(r) ==
    /\ cmd.is \in {"apply", "delete"} /\ r \in cmd.todo
    /\ cmd' = [cmd EXCEPT !.todo = @ \ {r}]
    /\ rib' = IF cmd.is = "apply"
              THEN [k \in DOMAIN rib \cup {r[1]} |-> IF k = r[1] THEN r[2] ELSE rib[k]]
              ELSE [k \in DOMAIN rib \ {r[1]} |-> rib[k]]
    /\ UNCHANGED <<given, fails, told, missed, fabricVars>>

\* The docker exec fails and the others go on: counted and printed, unless a
\* delete takes docker's "No such container" for the kernel's word that the
\* route is absent.
OneFails(r) ==
    /\ cmd.is \in {"apply", "delete"} /\ r \in cmd.todo /\ fails < MaxDockerFails
    /\ cmd' = [cmd EXCEPT !.todo = @ \ {r}]
    /\ fails' = fails + 1
    /\ \/ told' = TRUE /\ UNCHANGED missed
       \/ cmd.is = "delete" /\ missed' = TRUE /\ UNCHANGED told
    /\ UNCHANGED <<rib, given, fabricVars>>

\* The routes a scan of hosts has found.
FoundOn(hosts) == {<<k, rib[k]>> : k \in {x \in DOMAIN rib : <<x[1], x[2]>> \in hosts}}

\* The scans end, and what they have found is deleted.  The scan of a host
\* whose docker exec has failed has found nothing and fails nothing.
ScanDone ==
    /\ cmd.is = "scan"
    /\ \E bad \in SUBSET cmd.todo :
        /\ fails + Cardinality(bad) <= MaxDockerFails
        /\ fails' = fails + Cardinality(bad)
        /\ missed' = (missed \/ bad # {})
        /\ cmd' = [is |-> "delete", todo |-> FoundOn(cmd.todo \ bad)]
    /\ UNCHANGED <<rib, given, told, fabricVars>>

CommandEnds ==
    /\ cmd.is \in {"apply", "delete"} /\ cmd.todo = {}
    /\ cmd' = NoCommand
    /\ UNCHANGED <<rib, given, fails, told, missed, fabricVars>>

\* The kernel encapsulates by the route of the lowest metric, 100 + plane.
KernelSend(t, src, dst) ==
    LET ps == {p \in Planes : <<t, src, dst, p>> \in DOMAIN rib} IN
    /\ cmd.is = "none" /\ ps # {}
    /\ LET p == Min(ps)  s == rib[<<t, src, dst, p>>] IN
       Emit("data", t, src, dst, p, s, UsidOuterDst(t, p, s, dst, "uA"), Anycast(t, dst))
    /\ UNCHANGED routeVars

RouteNext ==
    \/ \E spec \in Specs : ApplySet(spec) \/ DeleteSet(spec)
    \/ DeleteAll
    \/ \E r \in cmd.todo : OneRoute(r) \/ OneFails(r)
    \/ ScanDone \/ CommandEnds
    \/ \E t \in Tenants, src \in Leaves : \E dst \in Leaves \ {src} : KernelSend(t, src, dst)
    \/ given = 0 /\ RawSends /\ UNCHANGED routeVars
    \/ Forward /\ UNCHANGED routeVars
    \/ cmd.is = "none" /\ Cuts /\ UNCHANGED routeVars

RouteSpec == RouteInit /\ [][RouteNext]_allVars
             /\ WF_allVars(Forward /\ UNCHANGED routeVars)

\* Traffic and its answer keep to one spine: once the commands are done and
\* unless a docker exec has failed, said or unsaid, every route has its converse
\* on the same plane over the same spine, whatever RouteSets have replaced one
\* another.
BothWays ==
    cmd.is = "none" /\ ~told /\ ~missed =>
        \A k \in DOMAIN rib :
            LET back == <<k[1], k[3], k[2], k[4]>> IN back \in DOMAIN rib /\ rib[back] = rib[k]
=============================================================================
