----------------------------- MODULE TrunkLaying -----------------------------
(***************************************************************************)
(* What the two routers lay, as the stages around them see it.             *)
(*                                                                         *)
(* The route a laid item pipe is published as, and the size it is laid at: *)
(* the larger of what its crowded side needs and what GT charges its       *)
(* busiest block (router/core.py, router/item_pipes.py).  The gate derives *)
(* the same charge on its own.                                             *)
(*                                                                         *)
(* And every power net laid over one placement (route_power): trunk by     *)
(* trunk around what is already there, the nets that failed first on the   *)
(* next pass, each trunk gauged for what it carries (router/power.py).     *)
(* PowerTrunk checks one trunk over every order of choices; this is the    *)
(* call the stages around it see, with one of those choices taken.         *)
(***************************************************************************)
EXTENDS LaidTree, RuleData

-----------------------------------------------------------------------------
(* Item pipes.                                                             *)

RateOf(t) == Port(t.machine, t.port).rate
On(dir, terminals) == SelectSeq(terminals, LAMBDA t : Port(t.machine, t.port).dir = dir)

AtLeast(a, b) == IF a < b THEN b ELSE a
AtMost(a, b) == IF a > b THEN b ELSE a

\* One insertion, one more per further stack, never more than the items.
EndpointInsertions(moved) ==
    IF moved = 0 THEN Parts
    ELSE AtMost(moved, Parts * AtLeast(1, (moved + ItemsPerInsertion * Parts - 1) \div (ItemsPerInsertion * Parts)))

SideRates(side, n) ==
    [i \in DOMAIN side |-> IF RateOf(side[i]) = Unrated THEN n.flow \div Len(side) ELSE RateOf(side[i])]
SumSeq(s) == FoldLeft(LAMBDA a, x : a + x, 0, s)
SideShares(rates) ==
    [i \in DOMAIN rates |-> IF SumSeq(rates) = 0 THEN Parts \div Len(rates) ELSE (rates[i] * Parts) \div SumSeq(rates)]

\* Every end of a net on its crowded side, as if they met at one point.
CrowdedSide(n) ==
    LET side(dir) == SelectSeq(n.ends, LAMBDA e : Port(e[1], e[2]).dir = dir)
        rate(e, count) == IF Port(e[1], e[2]).rate = Unrated THEN n.flow \div count ELSE Port(e[1], e[2]).rate
        need(ends) == FoldLeft(LAMBDA a, e : a + EndpointInsertions(rate(e, Len(ends))), 0, ends)
    IN AtLeast(need(side("out")), need(side("in")))

\* The pairs of a sender and a target, nearest first, ties in laid order.
PairBefore(p, q) == \/ p.reach < q.reach
                    \/ p.reach = q.reach /\ p.from < q.from
                    \/ p.reach = q.reach /\ p.from = q.from /\ p.to < q.to
Sorted(pairs) ==
    [i \in 1 .. Cardinality(pairs) |-> CHOOSE p \in pairs : Cardinality({q \in pairs : PairBefore(q, p)}) = i - 1]
PairsByReach(from, to, hops) ==
    Sorted({[reach |-> hops[i][to[j].cell], from |-> i, to |-> j] : i \in DOMAIN from, j \in DOMAIN to})

\* One stream charges every block no farther from its sender than its target.
ChargeStream(acc, p, hops, flow, merged) ==
    LET share == IF merged THEN (acc.supply[p.from] * acc.wanted[p.to]) \div Parts
                 ELSE AtMost(acc.supply[p.from], acc.wanted[p.to])
        near == {c \in DOMAIN hops[p.from] : hops[p.from][c] <= p.reach}
    IN IF share = 0 THEN acc
       ELSE [supply |-> IF merged THEN acc.supply ELSE [acc.supply EXCEPT ![p.from] = @ - share],
             wanted |-> IF merged THEN acc.wanted ELSE [acc.wanted EXCEPT ![p.to] = @ - share],
             charged |-> [c \in DOMAIN acc.charged |->
                            acc.charged[c] + IF c \in near THEN EndpointInsertions((share * flow) \div Parts) ELSE 0]]

\* Hops from a block along the tree's own segments, breadth first: blocks
\* that touch without one are not joined.
RECURSIVE Along(_, _, _)
Along(far, k, segs) ==
    LET next == UNION {{s[1], s[2]} : s \in {h \in Range(segs) : {h[1], h[2]} \cap DOMAIN far # {}}} \ DOMAIN far
    IN IF next = {} THEN far
       ELSE Along([c \in DOMAIN far \cup next |-> IF c \in next THEN k ELSE far[c]], k + 1, segs)
TreeHops(tree, from) == [i \in DOMAIN from |-> Along([c \in {from[i].cell} |-> 0], 1, tree.segs)]

Charges(n, tree, from, to, hops, split) ==
    LET supplied == SumSeq(SideRates(from, n))
        flow == IF split THEN supplied ELSE AtLeast(supplied, SumSeq(SideRates(to, n)))
    IN FoldLeft(LAMBDA acc, p : ChargeStream(acc, p, hops, flow, Cardinality(n.items) > 1),
                [supply |-> SideShares(SideRates(from, n)), wanted |-> SideShares(SideRates(to, n)),
                 charged |-> [c \in tree.cells |-> 0]],
                PairsByReach(from, to, hops)).charged

BlockInsertions(n, tree, from, to, split) ==
    IF from = <<>> \/ to = <<>> THEN [c \in tree.cells |-> 0]
    ELSE Charges(n, tree, from, to, TreeHops(tree, from), split)

\* The smallest size that makes that many insertions, else the largest laid.
SmallestFor(insertions) ==
    LET enough == {i \in DOMAIN PipeLadder : PipeCapacity[PipeLadder[i]] >= insertions}
    IN PipeLadder[IF enough = {} THEN Len(PipeLadder) ELSE Min(enough)]

\* Mutant: the run-wide need alone, as before busy blocks were charged.
PipeSizeRunWide(n, tree, split) ==
    IF n.com # "item" THEN "normal" ELSE SmallestFor(AtLeast(Parts, CrowdedSide(n)))

\* Never below normal: an endpoint that is never reached never runs.
PipeSize(n, tree, split) ==
    IF n.com # "item" THEN "normal"
    ELSE SmallestFor(AtLeast(AtLeast(Parts, CrowdedSide(n)),
                             Max(Range(BlockInsertions(n, tree, On("out", tree.terminals), On("in", tree.terminals), split)))))

AsRoute(n, tree, split) ==
    [net |-> n.id, com |-> n.com, terminals |-> tree.terminals, segments |-> tree.segs,
     thick |-> <<>>, tier |-> "", size |-> PipeSize(n, tree, split)]

-----------------------------------------------------------------------------
(* Power trunks.                                                           *)

PowerNets == SelectSeq(Nets, LAMBDA n : n.com = "power")

Unlaid(net) == [net |-> net, ok |-> FALSE]

-----------------------------------------------------------------------------
(* Gauges.                                                                 *)

\* Cable blocks from the source.
DepthIn(tree) ==
    FoldLeft(LAMBDA deep, s : deep @@ (s[2] :> deep[s[1]] + 1), tree.terminals[1].cell :> 0, tree.segs)

VoltsAt(t, deep) == LadderVolts[Machine[t.machine].tier] - LossPerBlock * deep[t.cell]
AmpLoad(t, deep) ==
    IF PortEut(t.machine, t.port) = 0 THEN 0
    ELSE (PortEut(t.machine, t.port) * AmpScale) \div VoltsAt(t, deep)
WholeAmps(load) == (load + AmpScale - 1) \div AmpScale

\* Subtree sums, folded into the parents in the reverse of the laid order.
SubtreeLoads(tree, at) ==
    FoldRight(LAMBDA s, load : [load EXCEPT ![s[1]] = @ + load[s[2]]], tree.segs, at)

Gauge(amps) == Min({g \in Thicknesses : g >= amps})

\* What each segment is built for: its subtree, never more than the source
\* puts out, and all of that beside the source's own block.
SegmentAmps(s, root, loads, output, greedy) ==
    IF s[1] = root THEN output
    ELSE IF greedy THEN AtMost(WholeAmps(loads[s[2]]), output) ELSE WholeAmps(loads[s[2]])

Gauged(n, tree, amps) ==
    IF \E i \in DOMAIN amps : amps[i] > Max(Thicknesses) THEN Unlaid(n.id)
    ELSE [ok |-> TRUE, net |-> n.id, com |-> "power", terminals |-> tree.terminals, segments |-> tree.segs,
          thick |-> [i \in DOMAIN amps |-> Gauge(amps[i])],
          tier |-> Machine[tree.terminals[2].machine].tier, size |-> ""]

LoadAt(tree, sinks, carried) ==
    [c \in tree.cells |-> SumSeq([i \in DOMAIN sinks |-> IF sinks[i].cell = c THEN carried[i] ELSE 0])]

Carrying(n, tree, sinks, carried, output, greedy) ==
    LET loads == SubtreeLoads(tree, LoadAt(tree, sinks, carried))
    IN Gauged(n, tree, [i \in DOMAIN tree.segs |->
                           SegmentAmps(tree.segs[i], tree.terminals[1].cell, loads, output, greedy)])

TakesAll(t) == Machine[t.machine].role = "acceptor"
Sized(n, tree, sinks, steady) ==
    LET output == WholeAmps(SumSeq(steady))
    IN Carrying(n, tree, sinks,
                [i \in DOMAIN sinks |-> IF TakesAll(sinks[i]) THEN output * AmpScale ELSE steady[i]],
                output, \E i \in DOMAIN sinks : TakesAll(sinks[i]))

\* A tier off the ladder, or a run its voltage does not survive, is refused.
SizeTrunk(n, tree, sinks, deep) ==
    IF \E t \in Range(sinks) : ~OnLadder(Machine[t.machine].tier) \/ VoltsAt(t, deep) <= 0 THEN Unlaid(n.id)
    ELSE Sized(n, tree, sinks, [i \in DOMAIN sinks |-> AmpLoad(sinks[i], deep)])

-----------------------------------------------------------------------------
(* One trunk: the source on the dock nearest its first sink's, then every  *)
(* sink in turn.  A cable's gauge lives on its segments, so the last sink  *)
(* may not tap a trunk that has none.                                      *)

One(S) == IF S = {} THEN NoTree ELSE CHOOSE t \in S : TRUE

NearestTo(docks, targets) ==
    LET gap(t) == Min({Manhattan(t.cell, u.cell) : u \in targets})
    IN {t \in docks : \A u \in docks : gap(t) <= gap(u)}

TapSink(tree, e, last, L, shut, claimed) ==
    IF tree = NoTree THEN NoTree
    ELSE One(Attached(tree, DocksOf(e, tree, L, shut, claimed), shut, tree.segs # <<>> \/ ~last))

GrowTrunk(root, sinks, L, shut, claimed) ==
    FoldLeft(LAMBDA tree, i : TapSink(tree, sinks[i], i = Len(sinks), L, shut, claimed),
             IF root = {} THEN NoTree ELSE Rooted(CHOOSE t \in root : TRUE),
             [i \in DOMAIN sinks |-> i])

RouteTrunkOver(n, tree) ==
    IF tree = NoTree THEN Unlaid(n.id) ELSE SizeTrunk(n, tree, Tail(tree.terminals), DepthIn(tree))

\* docks[1] are the source's, docks[i + 1] those of sink i.
RouteTrunkFrom(n, docks, sinks, L, shut, claimed) ==
    IF {} \in Range(docks) THEN Unlaid(n.id)
    ELSE RouteTrunkOver(n, GrowTrunk(NearestTo(docks[1], docks[2]), sinks, L, shut, claimed))

RouteTrunk(n, source, sinks, L, shut, claimed) ==
    LET ends == <<source>> \o sinks
    IN RouteTrunkFrom(n, [i \in DOMAIN ends |-> DocksOf(ends[i], NoTree, L, shut, claimed)],
                      sinks, L, shut, claimed)

-----------------------------------------------------------------------------
(* Every trunk, each an obstacle to the next; then again with the failed   *)
(* nets first, until a set of failures comes up twice.                     *)

WithTrunk(acc, n, built) ==
    IF built.ok
    THEN [acc EXCEPT !.routes = Append(@, built),
                     !.cells = @ \cup UNION {{s[1], s[2]} : s \in Range(built.segments)}]
    ELSE [acc EXCEPT !.failed = @ \cup {n.id}]

LayTrunk(acc, n, L, shut, claimed) ==
    WithTrunk(acc, n,
              IF Len(Producers(n)) # 1 \/ Consumers(n) = <<>> THEN Unlaid(n.id)
              ELSE RouteTrunk(n, Producers(n)[1], Consumers(n), L, shut \cup acc.cells, claimed))

RoutePass(order, L, shut, claimed) ==
    FoldLeft(LAMBDA acc, n : LayTrunk(acc, n, L, shut, claimed),
             [routes |-> <<>>, cells |-> {}, failed |-> {}], order)

FailedNetsFirst(failed) ==
    LET leads(n) == n.id \in failed
        follows(n) == n.id \notin failed
    IN SelectSeq(PowerNets, leads) \o SelectSeq(PowerNets, follows)

RECURSIVE RipUpReroute(_, _, _, _, _)
RECURSIVE AfterPass(_, _, _, _, _)
RipUpReroute(failed, seen, L, shut, claimed) ==
    AfterPass(RoutePass(FailedNetsFirst(failed), L, shut, claimed), seen, L, shut, claimed)
AfterPass(pass, seen, L, shut, claimed) ==
    IF pass.failed = {} \/ pass.failed \in seen THEN pass
    ELSE RipUpReroute(pass.failed, seen \cup {pass.failed}, L, shut, claimed)

\* Pipes, other cable and what every filter pushes into are all in the way.
RoutePower(L, taken, claimed) ==
    IF PowerExternal THEN [routes |-> <<>>, cells |-> {}, failed |-> {}]
    ELSE LET shut == ObstacleCells(L) \cup DOMAIN FilterBacks(L) \cup taken
         IN RipUpReroute({}, {}, L, shut, claimed)
=============================================================================
