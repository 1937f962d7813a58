--------------------------------- MODULE Fabric ---------------------------------
(***************************************************************************)
(* The generated fabric (generators/fabric.py) forwarding what the hosts   *)
(* address (srv6_mrc/topo.py): the wiring of the planes, the static SIDs   *)
(* and routes of every switch, the addresses and routes of every host, and *)
(* one packet at a time walking through them, hop by hop, while links go   *)
(* down.  What a switch or a kernel does with a SID or a route is taken    *)
(* from the behaviours the configuration names (uA, uN, uDT6, End.DT6).    *)
(*                                                                         *)
(* A node is <<kind, plane, index>>, a host's plane being 0; a port is its *)
(* ordinal, Ethernet<4k> = eth<k+1> being port k; an interface address is  *)
(* <<prefix, index, low part>>; a uSID is the number in its 16-bit hextet, *)
(* and an outer destination address its plane block and a list of uSIDs.   *)
(***************************************************************************)
EXTENDS Naturals, Sequences, FiniteSets, FiniteSetsExt

CONSTANTS NumPlanes, NumSpines, NumLeaves,
          MaxCuts               \* bound: links that go down

Planes == 0 .. NumPlanes - 1
Spines == 0 .. NumSpines - 1
Leaves == 0 .. NumLeaves - 1
Tenants == {"green", "yellow"}
Modes == {"uA", "uN"}

\* The ordinals of Ethernet32 and Ethernet36, where the hosts are.
HostPort(t) == IF t = "green" THEN 8 ELSE 9

(***************************************************************************)
(* Hosts sit on fixed ports, above the uplinks; a path is one nibble of a  *)
(* probe's address and one hex digit of a SID.                             *)
(***************************************************************************)
ASSUME FabricAssumption ==
    /\ {NumPlanes, NumSpines, NumLeaves, MaxCuts} \subseteq Nat
    /\ NumPlanes \in 1 .. 15 /\ NumSpines \in 1 .. 8 /\ NumLeaves \in 1 .. 16

LeafAt(p, l) == <<"leaf", p, l>>
SpineAt(p, s) == <<"spine", p, s>>
HostAt(t, h) == <<t, 0, h>>
IsHost(n) == n[1] \in Tenants

-----------------------------------------------------------------------------
(* SIDs and addresses. *)

LeafUA(s) == 61440 + s              \* f00<S>, from a leaf to spine S
SpineUA(l) == 57344 + l             \* e00<L>, from a spine to leaf L
HostUA(port) == 57344 + port        \* e<NNN>, from a leaf to a host port
SpineLocator(s) == 16 + s           \* 1<S>
LeafLocator(l) == 32 + l            \* 2<L>
GreenUDT == 53248                   \* d000, uDT6 Vrf-green on a leaf
YellowUDT == 53249                  \* d001, End.DT6 on a yellow host
ProbeUDT == 57343                   \* dfff, uDT6 default on a leaf

LinkIdx(s, l) == s * NumLeaves + l
Anycast(t, h) == <<t, h, 2>>
Gateway(t, h) == <<t, h, 1>>

\* Mutant: the NIC's nibble is the plane.
ProbeEvAddr_NoOrdinal(t, h, p, path) == <<t, h, p * 16 + path>>

\* probe_ev_addr(): NIC ordinal and path in the low byte.
ProbeEvAddr(t, h, p, path) == <<t, h, (p + 1) * 16 + path>>

\* probe_ev_from_inner_dst(): the EV a probe's address names, if it names one.
ProbeEvs(a) ==
    LET nic == a[3] \div 16  path == a[3] % 16 IN
    IF a[1] \in Tenants /\ a[2] \in Leaves /\ nic \in 1 .. NumPlanes /\ path \in Spines
    THEN {<<a[1], a[2], nic - 1, path>>} ELSE {}

\* usid_outer_dst().
UsidOuterDst(t, p, s, l, mode) ==
    [block |-> p,
     sids |-> (IF mode = "uA" THEN <<LeafUA(s), SpineUA(l)>>
                              ELSE <<SpineLocator(s), LeafLocator(l)>>)
              \o CASE t = "green" -> <<GreenUDT>>
                   [] t = "yellow" /\ mode = "uA" -> <<HostUA(HostPort("yellow")), YellowUDT>>
                   [] OTHER -> <<YellowUDT>>]

\* Mutant: the way back takes the first spine.
ProbeOuterDst_BackBySpine0(t, p, src, dst, s) ==
    [block |-> p,
     sids |-> <<LeafUA(s), SpineUA(dst)>>
              \o (IF t = "green" THEN <<>> ELSE <<HostUA(HostPort(t))>>)
              \o <<LeafUA(0), SpineUA(src)>>
              \o (IF t = "green" THEN <<GreenUDT>> ELSE <<ProbeUDT>>)]

\* Mutant: the probe of the path turns around at the spine.
ProbeOuterDst_TurnsAtSpine(t, p, src, dst, s) ==
    [block |-> p, sids |-> <<LeafUA(s), SpineUA(src)>>
                           \o (IF t = "green" THEN <<GreenUDT>> ELSE <<ProbeUDT>>)]

\* probe_outer_dst(): there and back over one spine, decapped at home.
ProbeOuterDst(t, p, src, dst, s) ==
    [block |-> p,
     sids |-> <<LeafUA(s), SpineUA(dst)>>
              \o (IF t = "green" THEN <<>> ELSE <<HostUA(HostPort(t))>>)
              \o <<LeafUA(s), SpineUA(src)>>
              \o (IF t = "green" THEN <<GreenUDT>> ELSE <<ProbeUDT>>)]

-----------------------------------------------------------------------------
(* What the generator writes. *)

\* The links of topology.clab.yaml, each the set of its two ends.
Links ==
    {{<<LeafAt(p, l), s>>, <<SpineAt(p, s), l>>} : p \in Planes, s \in Spines, l \in Leaves}
    \cup {{<<LeafAt(p, h), HostPort(t)>>, <<HostAt(t, h), p>>} :
          p \in Planes, h \in Leaves, t \in Tenants}

LinkOf(e) == CHOOSE k \in Links : e \in k
FarEnd(e) == CHOOSE f \in LinkOf(e) : f # e
Ends == UNION Links

\* A spine has its end of the /127 of each of its links.
SpineAddrs(s, port) == {<<"fab", LinkIdx(s, port), 0>>}

\* So has a leaf, and the gateway addresses of its host ports.
LeafAddrs(l, port) ==
    IF port \in Spines THEN {<<"fab", LinkIdx(port, l), 1>>}
    ELSE {Gateway(t, l) : t \in {u \in Tenants : HostPort(u) = port}}

\* A host's NIC has the anycast address and its share of the probe addresses.
HostAddrs(t, h, p) == {Anycast(t, h)} \cup {ProbeEvAddr(t, h, p, s) : s \in Spines}

AddrsAt(e) ==
    LET n == e[1]  port == e[2] IN
    CASE n[1] = "spine" -> SpineAddrs(n[3], port)
      [] n[1] = "leaf" -> LeafAddrs(n[3], port)
      [] OTHER -> HostAddrs(n[1], n[3], port)

SameSubnet(a, b) == a[1] = b[1] /\ a[2] = b[2]

UA(port, nexthop) == [does |-> "uA", port |-> port, nexthop |-> nexthop]
UDT(tenant) == [does |-> "uDT6", port |-> HostPort(tenant), nexthop |-> <<>>]
UN == [does |-> "uN", port |-> 0, nexthop |-> <<>>]

\* The static-sids of write_leaf_frr().
LeafSids(l) ==
    [d \in {LeafLocator(l), GreenUDT, HostUA(HostPort("yellow")), ProbeUDT}
           \cup {LeafUA(s) : s \in Spines} |->
        CASE d = LeafLocator(l) -> UN
          [] d = GreenUDT -> UDT("green")
          [] d = HostUA(HostPort("yellow")) -> UA(HostPort("yellow"), Anycast("yellow", l))
          [] d = ProbeUDT -> UDT("yellow")
          [] OTHER -> UA(d - LeafUA(0), <<"fab", LinkIdx(d - LeafUA(0), l), 0>>)]

\* The static-sids of write_spine_frr().
SpineSids(s) ==
    [d \in {SpineLocator(s)} \cup {SpineUA(l) : l \in Leaves} |->
        IF d = SpineLocator(s) THEN UN
        ELSE UA(d - SpineUA(0), <<"fab", LinkIdx(s, d - SpineUA(0)), 1>>)]

\* Mutant: no seg6local route on the hosts.
HostSids_None(t) == <<>>

\* The seg6local End.DT6 of a yellow host.
HostSids(t) == [d \in IF t = "yellow" THEN {YellowUDT} ELSE {} |-> UDT(t)]

Sids(n) == CASE n[1] = "leaf" -> LeafSids(n[3])
             [] n[1] = "spine" -> SpineSids(n[3])
             [] OTHER -> HostSids(n[1])

\* Mutant: no route to the host for d001.
LeafHops_NoHostRoute(l, sid) ==
    {<<"fab", LinkIdx(s, l), 0>> : s \in {u \in Spines :
        sid = SpineLocator(u) \/ \E m \in Leaves \ {l} : sid = LeafLocator(m)}}

\* The static routes of write_leaf_frr(): each spine's locator, the other
\* leaves' over every spine, and d001 at its own yellow host.
LeafHops(l, sid) ==
    {<<"fab", LinkIdx(s, l), 0>> : s \in {u \in Spines :
        sid = SpineLocator(u) \/ \E m \in Leaves \ {l} : sid = LeafLocator(m)}}
    \cup (IF sid = YellowUDT THEN {Anycast("yellow", l)} ELSE {})

\* The static routes of write_spine_frr().
SpineHops(s, sid) == {<<"fab", LinkIdx(s, l), 1>> : l \in {m \in Leaves : sid = LeafLocator(m)}}

\* The next hops of an outer destination whose first SID is not a switch's own.
NextHops(n, da) == IF n[1] = "leaf" THEN LeafHops(n[3], Head(da.sids))
                                    ELSE SpineHops(n[3], Head(da.sids))

\* The ports of a switch on the subnet of a next hop.
PortsTo(n, hop) ==
    {e[2] : e \in {x \in Ends : x[1] = n /\ \E a \in AddrsAt(x) : SameSubnet(a, hop)}}

\* net.ipv6.conf.all.forwarding, set on yellow hosts only.
Forwards(n) == n[1] # "green"

-----------------------------------------------------------------------------
VARIABLES
    cut,        \* the links that are down
    pkt         \* the packet on its way, or the end it has come to

fabricVars == <<cut, pkt>>

\* ev: the EV it was sent on; da: its outer destination, <<>> once decapped;
\* inner: its inner destination; in: the port it has come in by; crossed: the
\* links it has crossed.
NoPacket == [is |-> "none"]

FabricInit == cut = {} /\ pkt = NoPacket

Moving == pkt.is = "moving"
Here == pkt.at
Encapped == Moving /\ pkt.da # <<>>
Known == Encapped /\ Head(pkt.da.sids) \in DOMAIN Sids(Here)
Behaviour == Sids(Here)[Head(pkt.da.sids)]
Lost == [pkt EXCEPT !.is = "lost"]
Arrived == [pkt EXCEPT !.is = "arrived"]

\* q goes from its node out of port to the next hop, if the next hop is the
\* other end of a link that is up.
Sent(q, port, hop) ==
    LET e == <<q.at, port>> IN
    IF e \in Ends /\ LinkOf(e) \notin cut /\ hop \in AddrsAt(FarEnd(e))
    THEN [q EXCEPT !.at = FarEnd(e)[1], !.in = FarEnd(e)[2], !.crossed = @ \cup {LinkOf(e)}]
    ELSE [q EXCEPT !.is = "lost"]

Shifted(q) == [q EXCEPT !.da.sids = Tail(@)]
Bare(q) == [q EXCEPT !.da = <<>>]

\* A raw socket bound to the plane's NIC.
Emit(kind, t, src, dst, p, s, da, inner) ==
    /\ ~Moving
    /\ pkt' = Sent([is |-> "moving", kind |-> kind,
                    ev |-> [tenant |-> t, src |-> src, dst |-> dst, plane |-> p, spine |-> s],
                    at |-> HostAt(t, src), in |-> p, da |-> da, inner |-> inner,
                    crossed |-> {}],
                   p, Gateway(t, src))
    /\ UNCHANGED cut

SendData(t, src, dst, p, s, mode) ==
    Emit("data", t, src, dst, p, s, UsidOuterDst(t, p, s, dst, mode), Anycast(t, dst))

\* The probe templates a host's daemon builds when it starts, one per EV and
\* destination other than itself: the outer and the inner destination.
Templates(t, src) ==
    [k \in Planes \X Spines \X (Leaves \ {src}) |->
        <<ProbeOuterDst(t, k[1], src, k[3], k[2]), ProbeEvAddr(t, src, k[1], k[2])>>]

SendProbe(t, src, dst, p, s) ==
    LET template == Templates(t, src)[<<p, s, dst>>] IN
    Emit("probe", t, src, dst, p, s, template[1], template[2])

\* uA: shift, and out of the SID's own interface.
CrossAdjacency ==
    /\ Known /\ Behaviour.does = "uA"
    /\ pkt' = Sent(Shifted(pkt), Behaviour.port, Behaviour.nexthop)
    /\ UNCHANGED cut

\* uN: shift, and look the rest up.
ConsumeNode ==
    /\ Known /\ Behaviour.does = "uN"
    /\ pkt' = Shifted(pkt)
    /\ UNCHANGED cut

\* No SID of the switch's: an ordinary route, any one of the equal ones.
Route ==
    /\ Encapped /\ ~Known /\ ~IsHost(Here)
    /\ LET ways == UNION {{<<port, hop>> : port \in PortsTo(Here, hop)} :
                          hop \in NextHops(Here, pkt.da)}
           up == {w \in ways : LinkOf(<<Here, w[1]>>) \notin cut}
       IN IF up = {} THEN pkt' = Lost ELSE \E w \in up : pkt' = Sent(pkt, w[1], w[2])
    /\ UNCHANGED cut

\* uDT6 on a leaf: the inner destination is on the tenant's connected /64.
LeafDecap ==
    /\ Known /\ Behaviour.does = "uDT6" /\ ~IsHost(Here)
    /\ pkt' = IF \E a \in AddrsAt(<<Here, Behaviour.port>>) : SameSubnet(a, pkt.inner)
              THEN Sent(Bare(pkt), Behaviour.port, pkt.inner) ELSE Lost
    /\ UNCHANGED cut

\* End.DT6 on a yellow host.
HostDecap ==
    /\ Known /\ IsHost(Here)
    /\ pkt' = Bare(pkt)
    /\ UNCHANGED cut

\* A host that is not the outer destination forwards, if it does at all, out
\* of the NIC of the block's plane.
HostForward ==
    /\ Encapped /\ ~Known /\ IsHost(Here)
    /\ pkt' = IF Forwards(Here) THEN Sent(pkt, pkt.da.block, Gateway(Here[1], Here[3]))
              ELSE Lost
    /\ UNCHANGED cut

\* Decapped at a host: taken if the address is one of its own.
HostTakes ==
    /\ Moving /\ pkt.da = <<>>
    /\ pkt' = IF \E p \in Planes : pkt.inner \in AddrsAt(<<Here, p>>) THEN Arrived ELSE Lost
    /\ UNCHANGED cut

\* An interface of the link goes down.
Cut(k) ==
    /\ Cardinality(cut) < MaxCuts /\ k \notin cut
    /\ cut' = cut \cup {k}
    /\ UNCHANGED pkt

Forward == \/ CrossAdjacency \/ ConsumeNode \/ Route \/ LeafDecap
           \/ HostDecap \/ HostForward \/ HostTakes

RawSends ==
    \E t \in Tenants, src \in Leaves, p \in Planes, s \in Spines :
        \E dst \in Leaves \ {src} :
            (\E m \in Modes : SendData(t, src, dst, p, s, m)) \/ SendProbe(t, src, dst, p, s)

Cuts == \E k \in Links : Cut(k)

FabricNext == RawSends \/ Forward \/ Cuts

FabricSpec == FabricInit /\ [][FabricNext]_fabricVars /\ WF_fabricVars(Forward)

-----------------------------------------------------------------------------
\* The links an EV is made of, by the topology.
EvLinks(e) ==
    {LinkOf(<<HostAt(e.tenant, e.src), e.plane>>), LinkOf(<<LeafAt(e.plane, e.src), e.spine>>),
     LinkOf(<<LeafAt(e.plane, e.dst), e.spine>>), LinkOf(<<HostAt(e.tenant, e.dst), e.plane>>)}

\* What comes through comes to the right place: data to the destination, a
\* probe back to its sender, on the NIC of the EV's plane, with an address that
\* names the very EV it was sent on: what probe_ev_from_inner_dst() takes from it
\* is what the payload, by which the daemon demultiplexes, says.
RightPlace ==
    pkt.is = "arrived" =>
        /\ pkt.in = pkt.ev.plane
        /\ pkt.kind = "data" => Here = HostAt(pkt.ev.tenant, pkt.ev.dst)
        /\ pkt.kind = "probe" =>
            /\ Here = HostAt(pkt.ev.tenant, pkt.ev.src)
            /\ ProbeEvs(pkt.inner) =
                 {<<pkt.ev.tenant, pkt.ev.src, pkt.ev.plane, pkt.ev.spine>>}

\* Nothing ever leaves its EV: not a link outside the EV's path is crossed, in
\* either SID mode, there or back, whatever is down (MRC blames the EV).
OnItsPath == pkt.is # "none" => pkt.crossed \subseteq EvLinks(pkt.ev)

\* A loss is the EV's fault: a packet is dropped only if a link of its EV is
\* down, never by a hole in the tables or an address nobody owns.
LostByTheEv == pkt.is = "lost" => EvLinks(pkt.ev) \cap cut # {}

\* A probe that has come back has crossed all of the fabric that data of the
\* EV crosses, so that an EV is never declared good for another's links.  (The
\* link to a green destination host is not among them: the probe turns around
\* at the leaf.)
ProbeCoversData ==
    pkt.is = "arrived" /\ pkt.kind = "probe" =>
        EvLinks(pkt.ev) \ {LinkOf(<<HostAt("green", h), p>>) : h \in Leaves, p \in Planes}
            \subseteq pkt.crossed

\* No loop: a packet on its way comes to an end, given forwarding goes on.
EveryWalkEnds == Moving ~> ~Moving
=============================================================================
