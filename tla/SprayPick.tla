------------------------------ MODULE SprayPick ------------------------------
(***************************************************************************)
(* Which EV a packet is sprayed over (srv6_mrc/policy.py): the round robin *)
(* of EvSpray and the weighted draw of HealthAwareMrc and MrcSnapshot,     *)
(* over the cached weights of EVState.                                     *)
(*                                                                         *)
(* A flow uses, on every plane, the same `paths_per_plane` spines out of   *)
(* num_paths.  The grid has `paths` columns; EVState numbers its EVs by    *)
(* row.  The hash that draws a flow's spines, and the one that draws a     *)
(* packet's u, are taken to give any value they can give.  u is a number   *)
(* in [0, 1) that is compared with multiples of 1/total only: a draw is    *)
(* the integer part of u * total.                                          *)
(***************************************************************************)
EXTENDS EVState

Planes(paths) == NumEVs \div paths

\* The shapes a table of NumEVs EVs can have.
PathCounts == {n \in EV : NumEVs % n = 0}

\* The grid index of a (plane, spine) pair.
EVAt(plane, spine, paths) == plane * paths + spine + 1

\* The sizes __post_init__ accepts for a flow's spine subset.
SubsetSizes(paths) == 1..paths

\* A partial Fisher-Yates shuffle: any k different spines in any order.
SpinesDrawn(k, paths) ==
    {s \in [1..k -> 0..(paths - 1)] : IsInjective(s)}

\* The EVs of a flow in the order of HealthAwareMrc's flat weight vector.
FlatEVs(spines, paths) ==
    LET k == Len(spines)
    IN  [i \in 1..(Planes(paths) * k) |->
            EVAt((i - 1) \div k, spines[((i - 1) % k) + 1], paths)]

\* The cumulative weights, each times total.
Cdf(flat) == [i \in DOMAIN flat |-> SumFunctionOnSet(flat, 1..i)]

\* Mutant: a threshold of zero is taken for a draw of zero.
WeightedPick_ZeroWeight(draw, cdf) ==
    CHOOSE i \in DOMAIN cdf :
        draw <= cdf[i] /\ \A j \in 1..(i - 1) : draw > cdf[j]

\* The first index whose threshold is above the draw.
WeightedPick(draw, cdf) ==
    CHOOSE i \in DOMAIN cdf :
        draw < cdf[i] /\ \A j \in 1..(i - 1) : draw >= cdf[j]

\* EvSpray.pick_ev: spine-major, so that successive packets change plane.
RoundRobinPick(seq, spines, paths) ==
    LET planes == Planes(paths)
        idx    == seq % (planes * Len(spines))
    IN  EVAt(idx % planes, spines[((idx \div planes) % Len(spines)) + 1], paths)

\* HealthAwareMrc.pick_ev for the packet seq whose draw is u; without any weight
\* in the flow's part of the grid the draw is not used.
WeightedEV(seq, u, spines, paths, grid) ==
    LET evs  == FlatEVs(spines, paths)
        flat == [i \in DOMAIN evs |-> grid[evs[i]]]
        cdf  == Cdf(flat)
    IN  IF cdf[Len(cdf)] = 0
        THEN evs[(seq % Len(evs)) + 1]
        ELSE evs[WeightedPick(u, cdf)]

-----------------------------------------------------------------------------
EVsOf(spines, paths) == {EVAt(p, spines[i], paths) :
                            p \in 0..(Planes(paths) - 1), i \in DOMAIN spines}

WeightIn(S, grid) == SumFunctionOnSet(grid, S)

\* Over a run of packets that meets every draw once, each EV of the flow is
\* picked as often as it has weight, and no other is; with no weight at all,
\* and under round robin, each is picked once in as many packets as there are.
SharesRight(spines, paths, grid) ==
    LET mine  == EVsOf(spines, paths)
        total == WeightIn(mine, grid)
        n     == Cardinality(mine)
        Share(e) == Cardinality({u \in 0..(total - 1) :
                                    WeightedEV(0, u, spines, paths, grid) = e})
    IN  /\ IF total > 0
           THEN \A e \in EV : Share(e) = IF e \in mine THEN grid[e] ELSE 0
           ELSE {WeightedEV(q, 0, spines, paths, grid) : q \in 0..(n - 1)} = mine
        /\ \A from \in 0..(n - 1) :
               {RoundRobinPick(q, spines, paths) : q \in from..(from + n - 1)} = mine

\* What a demote takes from an EV, every flow that has another EV to use takes
\* from it at once, and its other EVs get all of it in proportion to their
\* weights; a flow whose spine subset is out altogether (the floor counts the
\* EVs of the table, not those of a flow) goes on over all of its EVs evenly.
SprayFollowsHealth ==
    [][weights' # weights =>
          \A paths \in PathCounts : \A k \in SubsetSizes(paths) :
              \A spines \in SpinesDrawn(k, paths) :
                  /\ SharesRight(spines, paths, weights')
                  /\ LET mine   == EVsOf(spines, paths)
                         usable == mine \cap Usable'
                         some   == WeightIn(mine, weights') > 0
                     IN  some <=> usable # {}]_vars
==============================================================================
