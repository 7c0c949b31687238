-------------------------------- MODULE Adapter --------------------------------
(***************************************************************************)
(* A planner's export made the problem the solver solves (adapter/core.py, *)
(* to_input_ir): the plan mapped, the nets chosen for ME given what they   *)
(* need built, power synthesized, item nets merged to fit their machines'  *)
(* faces, and a region drawn around it all, in that order: each step reads *)
(* what the one before it made.                                            *)
(*                                                                         *)
(* Power (adapter/power.py): each run is within what one cable carries     *)
(* (dataset/voltage.py).  A draw its hatches do not share evenly is        *)
(* rounded down.  Feeds of equal load are taken in machine order, where    *)
(* the code takes them by id.                                              *)
(*                                                                         *)
(* Merging: a single block's item outputs leave by one face and are sorted *)
(* by Item Filters, and where it is still short of faces its inputs arrive *)
(* on shared pipes.  Every port but a power port is rated here, so no flow *)
(* falls back on its members'.  Items are in plan order where the code     *)
(* sorts them by name, and none is called "items".                         *)
(***************************************************************************)
EXTENDS MeBuild

-----------------------------------------------------------------------------
(* The power side a plan leaves out (adapter/power.py): the energy hatches *)
(* each draw needs, and the sources and cable runs that feed them.         *)

DesignRunBlocks == 16    \* the run hatches are sized for
HatchAmps == 2           \* what one hatch takes
MaxCableAmps == 16       \* what the thickest cable carries
MaxHatchesBeforeUpgrade == 3

CeilOf(a, b) == (a + b - 1) \div b

\* A tier that does not survive the design run can be sized for nothing.
VoltsAfter(tier, blocks) == LadderVolts[tier] - LossPerBlock * blocks
Survives(tier) == OnLadder(tier) /\ VoltsAfter(tier, DesignRunBlocks) > 0
\* Mutant: hatches sized at the source's voltage, as if cable lost none.
LosslessHatches(eut, tier) == Max({1, CeilOf(eut, HatchAmps * LadderVolts[tier])})
EnergyHatchesFor(eut, tier) == Max({1, CeilOf(eut, HatchAmps * VoltsAfter(tier, DesignRunBlocks))})

\* An implausible draw is met by a higher voltage, not a wall of hatches.
TiersAbove(tier) == SubSeq(Ladder, LadderIndex(tier) + 1, Len(Ladder))
SupplyTier(m) ==
    LET few(tier) == EnergyHatchesFor(m.eut, tier) <= MaxHatchesBeforeUpgrade
        higher == SelectSeq(TiersAbove(m.tier), few)
    IN IF ~m.hatched \/ ~Survives(m.tier) \/ few(m.tier) \/ higher = <<>> THEN m.tier ELSE higher[1]

\* GT's own intake of a machine that is its own hatch, where its draw is one
\* such a machine can have.
OwnInputAmps(m) ==
    IF m.basic /\ OnLadder(m.tier) /\ m.eut <= LadderVolts[m.tier]
    THEN (HatchAmps * m.eut) \div LadderVolts[m.tier] + 1 ELSE -1

Several(name, i, count) == IF count = 1 THEN name ELSE name \o "#" \o ToString(i)
PowerPort(dir, id, rate, amps) ==
    [PortAt(dir, "", "power", rate) EXCEPT !.id = id, !.amps = amps]
PowerPorts(m) ==
    LET count == IF m.hatched /\ OnLadder(m.tier) THEN EnergyHatchesFor(m.eut, m.tier) ELSE 1
    IN IF ~m.hatched THEN <<PowerPort("in", "power:in", -1, OwnInputAmps(m))>>
       ELSE [i \in 1 .. count |-> PowerPort("in", Several("power:in", i, count), m.eut \div count, HatchAmps)]

-----------------------------------------------------------------------------
(* Cable runs: first fit, heaviest feed first, by the amps at the source.  *)

\* What a feed loads a cable with, as the draw it is: a cable of V volts
\* carries V times its amps.  A tier off the ladder loads nothing.
Feed(m, q) == [end |-> <<m.id, q.id>>, eut |-> IF q.rate = -1 THEN m.eut ELSE q.rate]
FeedsFor(powered) == FlattenSeq(Mapped(LAMBDA m : Mapped(LAMBDA q : Feed(m, q), PowerPorts(m)), powered))

Carries(tier, eut) == OnLadder(tier) => eut <= MaxCableAmps * LadderVolts[tier]
Draw(feeds) == Sum(Mapped(LAMBDA f : f.eut, feeds))

Heaviest(feeds) ==
    LET order == SortSeq([i \in DOMAIN feeds |-> i],
                         LAMBDA i, j : feeds[i].eut > feeds[j].eut \/ (feeds[i].eut = feeds[j].eut /\ i < j))
    IN Mapped(LAMBDA i : feeds[i], order)
FirstFit(tier, runs, feed) ==
    LET room == {i \in DOMAIN runs : Carries(tier, Draw(runs[i]) + feed.eut)}
    IN IF room = {} THEN Append(runs, <<feed>>) ELSE [runs EXCEPT ![Min(room)] = Append(@, feed)]

\* Each run's feeds in the order the machines give them.
PartitionByAmperage(tier, feeds) ==
    LET runs == FoldLeft(LAMBDA a, f : FirstFit(tier, a, f), <<>>, Heaviest(feeds))
    IN Mapped(LAMBDA run : SelectSeq(feeds, LAMBDA f : f \in Range(run)), runs)

-----------------------------------------------------------------------------
(* The line with its power: tiers in the order of their names, any off the *)
(* ladder after them.                                                      *)

TierNames == <<"EV", "HV", "IV", "LV", "LuV", "MV", "UEV", "UHV", "UIV", "ULV", "UMV", "UV", "UXV", "ZPM">>
TiersInUse(supplied) ==
    LET used == {m.tier : m \in {x \in Range(supplied) : x.eut > 0}}
    IN SelectSeq(TierNames, LAMBDA t : t \in used) \o SetToSeq(used \ Range(TierNames))

Supplied(m, retier) == IF m.eut > 0 /\ retier THEN [m EXCEPT !.tier = SupplyTier(m)] ELSE m
WithPowerInputs(m) == IF m.eut > 0 THEN [m EXCEPT !.ports = @ \o PowerPorts(m)] ELSE m

PowerSource(tier, i, count) ==
    [BlockAt(Several("power-source:" \o tier, i, count), "Power Source (" \o tier \o ")",
             <<PowerPort("out", "power:out", -1, -1)>>) EXCEPT !.tier = tier]
PowerNet(tier, i, count, feeds) ==
    NetAt(Several("power:" \o tier, i, count), "power", {},
          << <<PowerSource(tier, i, count).id, "power:out">> >> \o Mapped(LAMBDA f : f.end, feeds),
          Draw(feeds))

\* One source and one net for each run a tier is split into.
RunsAt(tier, supplied) ==
    PartitionByAmperage(tier, FeedsFor(SelectSeq(supplied, LAMBDA m : m.eut > 0 /\ m.tier = tier)))
SourcesAt(tier, runs) == [i \in DOMAIN runs |-> PowerSource(tier, i, Len(runs))]
NetsAt(tier, runs) == [i \in DOMAIN runs |-> PowerNet(tier, i, Len(runs), runs[i])]

WithSupply(line, supplied) ==
    LET runs(tier) == RunsAt(tier, supplied)
    IN [machines |-> Mapped(WithPowerInputs, supplied)
                       \o FlattenSeq(Mapped(LAMBDA t : SourcesAt(t, runs(t)), TiersInUse(supplied))),
        nets |-> line.nets \o FlattenSeq(Mapped(LAMBDA t : NetsAt(t, runs(t)), TiersInUse(supplied)))]
SynthesizePower(line, retier) ==
    WithSupply(line, Mapped(LAMBDA m : Supplied(m, retier), line.machines))

\* The supply left to the builder: no source and no cable, the ports stay.
WithoutPowerSources(line) ==
    [machines |-> SelectSeq(line.machines, LAMBDA m : \A q \in Range(m.ports) : ~(q.com = "power" /\ q.dir = "out")),
     nets |-> SelectSeq(line.nets, LAMBDA n : n.com # "power")]

-----------------------------------------------------------------------------
(* Item nets merged to fit their machines' faces.                          *)

SingleBlockIoFaces == 5
MergedItems == "items"
MergedPort(dir, rate) == PortAt(dir, MergedItems, "item", rate)
MergedEnd(m, dir) == <<m.id, PortId(dir, MergedItems)>>

Producing(machines, e) ==
    \E m \in Range(machines) : m.id = e[1] /\ \E q \in Range(m.ports) : q.id = e[2] /\ q.dir = "out"
PortOfEnd(machines, e) ==
    LET m == CHOOSE x \in Range(machines) : x.id = e[1] IN CHOOSE q \in Range(m.ports) : q.id = e[2]
Volume(m) == m.size[1] * m.size[2] * m.size[3]

-----------------------------------------------------------------------------
(* Nets folded into one where they meet at a port one pipe must serve.     *)

FoldedNet(members, machines) ==
    LET ends == FlattenSeq(Mapped(LAMBDA n : n.ends, members))
        producers == Once(SelectSeq(ends, LAMBDA e : Producing(machines, e)))
        consumers == Once(SelectSeq(ends, LAMBDA e : ~Producing(machines, e)))
    IN [members[1] EXCEPT !.id = JoinIds(Mapped(LAMBDA n : n.id, members)),
                          !.ends = producers \o consumers,
                          !.flow = Sum(Mapped(LAMBDA e : PortOfEnd(machines, e).rate, producers))]
\* A net on ME is no pipe and never folds.
FoldNets(nets, shared, machines) ==
    LET keys(n) == IF n.me # "" THEN {} ELSE Range(n.ends) \cap shared
        fold(g) == IF Len(g) = 1 THEN nets[g[1]] ELSE FoldedNet(Mapped(LAMBDA i : nets[i], g), machines)
    IN Mapped(fold, GroupsSharing(Mapped(keys, nets)))

-----------------------------------------------------------------------------
(* Outputs.  All of a machine's piped item outputs merge, or none.         *)

MergeableOutputs(m, nets) ==
    LET onMe == UNION {Range(n.ends) : n \in {x \in Range(nets) : x.me # ""}}
        piped == SelectSeq(m.ports, LAMBDA q : q.com = "item" /\ q.dir = "out" /\ <<m.id, q.id>> \notin onMe)
    IN IF m.single /\ Volume(m) = 1 /\ Len(piped) >= 2 THEN piped ELSE <<>>

FilterId(c, item) == "item-filter:" \o c \o ":" \o item
ItemFilter(c, item, rate) ==
    [BlockAt(FilterId(c, item), "Ultra Low Voltage Item Filter",
             <<[PortAt("in", item, "item", rate) EXCEPT !.pins = {"front", "left", "right", "up", "down"}],
               [PortAt("out", item, "item", rate) EXCEPT !.pins = {"back"}]>>)
        EXCEPT !.tier = "ULV", !.filter = {item}]

\* The machines of one node share a trunk and one filter per item: cluster is
\* [id, members], outs the ports each member merges.
Clusters(machines, outs) ==
    LET merging == SelectSeq(machines, LAMBDA m : outs[m.id] # <<>>)
    IN Mapped(LAMBDA c : [id |-> c, members |-> SelectSeq(merging, LAMBDA m : GroupOf(m) = c)],
              Once(Mapped(GroupOf, merging)))
ClusterItems(c, outs) ==
    Once(FlattenSeq(Mapped(LAMBDA m : Mapped(LAMBDA q : q.res, outs[m.id]), c.members)))
ItemRate(c, outs, item) ==
    Sum(Mapped(LAMBDA m : Sum(Mapped(LAMBDA q : IF q.res = item THEN q.rate ELSE 0, outs[m.id])), c.members))
MergedRate(m, outs) == Sum(Mapped(LAMBDA q : q.rate, outs[m.id]))
FiltersOf(c, outs) ==
    Mapped(LAMBDA item : ItemFilter(c.id, item, ItemRate(c, outs, item)), ClusterItems(c, outs))

TrunkOf(c, outs) ==
    NetAt("item-trunk:" \o c.id, "item", Range(ClusterItems(c, outs)),
          Mapped(LAMBDA m : MergedEnd(m, "out"), c.members)
            \o Mapped(LAMBDA item : <<FilterId(c.id, item), PortId("in", item)>>, ClusterItems(c, outs)),
          Sum(Mapped(LAMBDA m : MergedRate(m, outs), c.members)))

\* A cluster's filters follow its last machine.
MergedOutputs(m, outs, clusters) ==
    LET last == {c \in Range(clusters) : Last(c.members).id = m.id}
        kept == SelectSeq(m.ports, LAMBDA q : q \notin Range(outs[m.id]))
        merged == IF outs[m.id] = <<>> THEN m
                  ELSE [m EXCEPT !.ports = Append(kept, MergedPort("out", MergedRate(m, outs)))]
    IN <<merged>> \o IF last = {} THEN <<>> ELSE FiltersOf(CHOOSE c \in last : TRUE, outs)

\* What a machine's merged output was sourced on, its filter now is.
Moved(e, machines, outs) ==
    LET of == {m \in Range(machines) : m.id = e[1] /\ \E q \in Range(outs[m.id]) : q.id = e[2]}
    IN IF of = {} THEN e
       ELSE LET m == CHOOSE x \in of : TRUE IN <<FilterId(GroupOf(m), PortOfEnd(machines, e).res), e[2]>>

MergeClusters(line, outs, clusters) ==
    LET machines == FlattenSeq(Mapped(LAMBDA m : MergedOutputs(m, outs, clusters), line.machines))
        resourced(n) == [n EXCEPT !.ends = Once(Mapped(LAMBDA e : Moved(e, line.machines, outs), @))]
        backs == UNION {{<<f.id, f.ports[2].id>> : f \in Range(FiltersOf(c, outs))} : c \in Range(clusters)}
    IN [machines |-> machines,
        nets |-> FoldNets(Mapped(resourced, line.nets), backs, machines)
                   \o Mapped(LAMBDA c : TrunkOf(c, outs), clusters)]
MergeItemOutputs(line) ==
    LET outs == [id \in {m.id : m \in Range(line.machines)} |->
                    MergeableOutputs(CHOOSE m \in Range(line.machines) : m.id = id, line.nets)]
        clusters == Clusters(line.machines, outs)
    IN IF clusters = <<>> THEN line ELSE MergeClusters(line, outs, clusters)

-----------------------------------------------------------------------------
(* Inputs, for a machine still short of faces: first the nets meeting at   *)
(* one port, then every item input on one feed run.                        *)

Connections(m, nets) ==
    Sum(Mapped(LAMBDA n : IF n.me # "" THEN 0 ELSE Len(SelectSeq(n.ends, LAMBDA e : e[1] = m.id)), nets))
ShortOfFaces(line) ==
    {m.id : m \in {x \in Range(line.machines) : /\ x.single /\ Volume(x) = 1
                                                /\ Connections(x, line.nets) > SingleBlockIoFaces}}

FoldAtInputs(line, short) ==
    LET shared == UNION {{e \in Range(n.ends) : e[1] \in short /\ ~Producing(line.machines, e)} :
                            n \in {x \in Range(line.nets) : x.com # "power" /\ x.me = ""}}
    IN [line EXCEPT !.nets = FoldNets(@, shared, line.machines)]

SinksOf(n, machines) == SelectSeq(n.ends, LAMBDA e : ~Producing(machines, e))
SourcesOf(n, machines) == SelectSeq(n.ends, LAMBDA e : Producing(machines, e))

\* A run hands its items to all it feeds and blocks none of its producers, so
\* it takes only plain nets to short machines alone, sourced by no filter.
FeedCandidates(line, short) ==
    LET fromFilter(n) == \E e \in Range(SourcesOf(n, line.machines)) :
                            \E m \in Range(line.machines) : m.id = e[1] /\ m.filter # {}
        joins(n) == /\ n.com = "item" /\ Cardinality(n.items) = 1 /\ n.me = ""
                    /\ SinksOf(n, line.machines) # <<>>
                    /\ \A e \in Range(SinksOf(n, line.machines)) : e[1] \in short
                    /\ ~fromFilter(n)
    IN SelectSeq(line.nets, joins)

FeedSinks(run, machines) == FlattenSeq(Mapped(LAMBDA n : SinksOf(n, machines), run))
FedMachines(run, machines) == Once(Mapped(LAMBDA e : e[1], FeedSinks(run, machines)))
FeedItems(run, machines) == {PortOfEnd(machines, e).res : e \in Range(FeedSinks(run, machines))}

\* Candidates grouped by the machines they feed; only a group of which every
\* machine takes every item, two or more, becomes a run.
FeedRuns(line, short) ==
    LET candidates == FeedCandidates(line, short)
        fed(n) == {e[1] : e \in Range(SinksOf(n, line.machines))}
        groups == Mapped(LAMBDA g : Mapped(LAMBDA i : candidates[i], g), GroupsSharing(Mapped(fed, candidates)))
        takes(run, id) == {PortOfEnd(line.machines, e).res :
                              e \in {x \in Range(FeedSinks(run, line.machines)) : x[1] = id}}
        agreed(run) == /\ Cardinality(FeedItems(run, line.machines)) >= 2
                       /\ \A id \in Range(FedMachines(run, line.machines)) :
                             takes(run, id) = FeedItems(run, line.machines)
    IN SelectSeq(groups, agreed)

RunNet(run, machines) ==
    NetAt(JoinIds(Mapped(LAMBDA n : n.id, run)), "item", FeedItems(run, machines),
          Once(FlattenSeq(Mapped(LAMBDA n : SourcesOf(n, machines), run)))
            \o Mapped(LAMBDA id : <<id, PortId("in", MergedItems)>>, FedMachines(run, machines)),
          Sum(Mapped(LAMBDA n : n.flow, run)))

\* A run stands where its first member stood.
WithRuns(line, runs) ==
    LET fed == UNION {Range(FeedSinks(run, line.machines)) : run \in Range(runs)}
        gone(m) == SelectSeq(m.ports, LAMBDA q : <<m.id, q.id>> \in fed)
        kept(m) == SelectSeq(m.ports, LAMBDA q : <<m.id, q.id>> \notin fed)
        feed(m) == MergedPort("in", Sum(Mapped(LAMBDA q : q.rate, gone(m))))
        swapped(m) == IF gone(m) = <<>> THEN m ELSE [m EXCEPT !.ports = Append(kept(m), feed(m))]
        holding(n) == {run \in Range(runs) : n \in Range(run)}
        standing(n) == IF holding(n) = {} THEN <<n>>
                       ELSE LET run == CHOOSE x \in holding(n) : TRUE
                            IN IF run[1] = n THEN <<RunNet(run, line.machines)>> ELSE <<>>
    IN [machines |-> Mapped(swapped, line.machines), nets |-> FlattenSeq(Mapped(standing, line.nets))]

FeedItemInputs(line) ==
    LET runs == FeedRuns(line, ShortOfFaces(line)) IN IF runs = <<>> THEN line ELSE WithRuns(line, runs)

MergeItemInputs(line) ==
    LET short == ShortOfFaces(line)
    IN IF short = {} THEN line ELSE FeedItemInputs(FoldAtInputs(line, short))

-----------------------------------------------------------------------------
(* The whole conversion.                                                   *)

RegionHeightHeadroom == 3
RegionAreaSlack == 4

\* A square floor with room to route, clear above the tallest machine.
BoundingRegion(machines) ==
    LET sizes == {m.size : m \in Range(machines)}
        area == RegionAreaSlack * Sum(Mapped(LAMBDA m : m.size[1] * m.size[3], machines))
        side == Max({8, 2 * Len(machines), CHOOSE a \in 1 .. area : a * a >= area /\ (a - 1) * (a - 1) < area}
                    \cup UNION {{s[1], s[3]} : s \in sizes})
    IN <<side, Max({s[2] : s \in sizes}) + RegionHeightHeadroom, side>>
Diameter(region) == region[1] + region[2] + region[3]

Stamped(line, chosen) ==
    [line EXCEPT !.nets = Mapped(LAMBDA n : IF n.id \in DOMAIN chosen THEN [n EXCEPT !.me = chosen[n.id]] ELSE n, @)]

Closed(mapped, plan) ==
    LET built == BuildMe(Stamped(mapped, plan.chosen), plan.networks, Diameter(BoundingRegion(mapped.machines)))
        powered == SynthesizePower(built, plan.retier)
    IN MergeItemInputs(MergeItemOutputs(IF plan.external THEN WithoutPowerSources(powered) ELSE powered))

\* The problem, as module Line reads it, its names in order as they come.
AsProblem(line, plan) ==
    LET ids == Mapped(LAMBDA m : m.id, line.machines)
    IN [id |-> "", order |-> ids, sorted |-> ids,
        machine |-> [id \in Range(ids) |-> CHOOSE m \in Range(line.machines) : m.id = id],
        nets |-> line.nets, region |-> BoundingRegion(line.machines), reserved |-> {},
        networks |-> plan.networks, external |-> plan.external]
ProblemOf(plan) == AsProblem(Closed(MapPlan(plan), plan), plan)
=============================================================================
