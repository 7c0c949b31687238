------------------------------ MODULE PlanMapping ------------------------------
(***************************************************************************)
(* The first half of the adapter (adapter/core.py, _map_plan): a planner's *)
(* export, which draws one card per recipe and one edge per consumer, made *)
(* into machines and nets.                                                 *)
(*                                                                         *)
(* A plan is [nodes, storages, edges, census, retier, networks, chosen,    *)
(* external].  A node is [id, machine, count, tier, coil, parallel, total, *)
(* handler, tiers, least, form, runs, crop]: total the draw the plan's own *)
(* balance gives its machines together, or -1; handler the kind of machine *)
(* its recipes run in, with the tiers that machine exists in and its least *)
(* one; form the structure the dataset resolved, [known, size, slots,      *)
(* hatched]; crop the manager tier a crop card's control reads, or 0.  Its *)
(* runs are the recipes its machines share their time between, each [in,   *)
(* out, eut, ticks, variants] with flows [res, com, amount], their inputs  *)
(* refined, and variants [tier, coil, eut, ticks, parallel] that say how a *)
(* recipe runs overclocked.  A storage is [id, com]; an edge [id, source,  *)
(* target, com, res].  census says what a name missing from the dataset    *)
(* proves: "none", "other" (no multiblock of another pack) or "own".       *)
(* Plans here are those the adapter accepts; a handler or a coil the plan  *)
(* does not give is "".  Rates are whole numbers of 1/Parts in 40 ticks.   *)
(*                                                                         *)
(* A machine on its way through the adapter is Line's record and its id,   *)
(* whether it is a store, what is known of it (multi, single: proven one   *)
(* block; basic: GT's own intake formula holds; hatched), and on each port *)
(* the resource it is named for.                                           *)
(***************************************************************************)
EXTENDS RuleData, FiniteSets, SequencesExt

Sum(s) == FoldLeft(LAMBDA a, x : a + x, 0, s)
Once(s) == FoldLeft(LAMBDA a, x : IF x \in Range(a) THEN a ELSE Append(a, x), <<>>, s)
Mapped(Op(_), s) == [i \in DOMAIN s |-> Op(s[i])]
JoinIds(ids) == FoldLeft(LAMBDA a, x : IF a = "" THEN x ELSE a \o "+" \o x, "", ids)

\* Sequence positions that share a key, transitively: keys[i] is the set of
\* position i's.  Each group in order, and the groups by their first.
GroupsSharing(keys) ==
    LET positions == [i \in DOMAIN keys |-> i]
        join(roots, i) ==
            LET met == {roots[j] : j \in {x \in 1 .. i - 1 : keys[x] \cap keys[i] # {}}}
            IN [x \in 1 .. i |-> IF x = i \/ roots[x] \in met THEN Min(met \cup {i}) ELSE roots[x]]
        roots == FoldLeft(join, <<>>, positions)
        firsts == SelectSeq(positions, LAMBDA i : roots[i] = i)
    IN Mapped(LAMBDA g : SelectSeq(positions, LAMBDA i : roots[i] = g), firsts)

-----------------------------------------------------------------------------
(* What a plan says that no machine is built for.                          *)

\* A generator's EU is left unwired: the line is powered by its own source.
WithoutGeneratedPower(plan) ==
    LET material(fs) == SelectSeq(fs, LAMBDA f : f.com # "power")
        unpowered(run) == [run EXCEPT !.out = material(@)]
    IN [plan EXCEPT !.nodes = Mapped(LAMBDA n : [n EXCEPT !.runs = Mapped(unpowered, @)], @),
                    !.edges = material(@), !.storages = material(@)]

\* A crop card is a field; what is built is the one manager its yield comes
\* out of, fed and powered by nothing.
CropManagers ==
    << <<"LV", "Basic Crop Manager">>, <<"MV", "Advanced Crop Manager">>, <<"HV", "Advanced Crop Manager II">>,
       <<"EV", "Advanced Crop Manager III">>, <<"IV", "Advanced Crop Manager IV">>, <<"LuV", "Elite Crop Manager">>,
       <<"ZPM", "Elite Crop Manager II">>, <<"UV", "Ultimate Crop Manager">> >>
AsManager(node) ==
    IF node.crop = 0 THEN node
    ELSE LET manager == CropManagers[Min({node.crop, Len(CropManagers)})]
             yield(f) == [f EXCEPT !.amount = @ * node.count]
         IN [node EXCEPT !.count = 1, !.tier = manager[1], !.machine = manager[2],
                         !.runs[1] = [@ EXCEPT !.in = <<>>, !.out = Mapped(yield, @), !.eut = 0, !.variants = <<>>]]
CropCardsAsManagers(plan) ==
    LET cards == {n.id : n \in {x \in Range(plan.nodes) : x.crop # 0}}
    IN [plan EXCEPT !.nodes = Mapped(AsManager, @), !.edges = SelectSeq(@, LAMBDA e : e.target \notin cards)]

-----------------------------------------------------------------------------
(* Machines.                                                               *)

InstanceIds(node) ==
    IF node.count <= 1 THEN <<node.id>> ELSE [i \in 1 .. node.count |-> node.id \o "#" \o ToString(i)]

\* The tier a machine runs at.  A single block runs at the tier of a block it
\* has: the highest at most the stored tier that can run the recipe, or else
\* the lowest that can.
DrawTier(eut) == Ladder[Min({i \in DOMAIN Ladder : eut <= LadderVolts[Ladder[i]]})]
RunTier(node, run) ==
    LET steps(tiers) == {i \in DOMAIN Ladder : Ladder[i] \in tiers}
        blocks == steps(node.tiers)
        needed == Max(steps({node.least, DrawTier(run.eut)}))
        stored == IF OnLadder(node.tier) THEN LadderIndex(node.tier) ELSE needed
        able == {i \in blocks : i >= needed}
        within == {i \in able : i <= stored}
    IN IF node.handler # "single" \/ blocks = {} THEN node.tier
       ELSE Ladder[IF within # {} THEN Max(within) ELSE IF able # {} THEN Min(able) ELSE Max(blocks)]

\* How it runs there, where the plan says so of one variant: a coil settles
\* which only if the node names it.
Matching(node, run) ==
    LET here == SelectSeq(run.variants, LAMBDA v : v.tier = RunTier(node, run))
        coiled == SelectSeq(here, LAMBDA v : v.coil = node.coil)
    IN IF node.coil = "" \/ coiled = <<>> THEN here ELSE coiled
Matched(node, run) == Len(Matching(node, run)) = 1
RunTicks(node, run) ==
    IF Matched(node, run) /\ Matching(node, run)[1].ticks > 0 THEN Matching(node, run)[1].ticks ELSE run.ticks

\* What one machine draws: its share of the plan's balance, else its variant's
\* draw, else the recipe's.
SynthesizedEut(node, run) ==
    IF Matched(node, run) THEN Matching(node, run)[1].eut * Matching(node, run)[1].parallel * node.parallel
    ELSE run.eut * node.parallel
NodeEut(node, run) ==
    IF node.total = -1 THEN SynthesizedEut(node, run) ELSE node.total \div Max({1, node.count})

ServiceTicks == 40
RunRate(node, run, dir, res) ==
    LET amount == Sum(Mapped(LAMBDA f : IF f.res = res THEN f.amount ELSE 0, run[dir]))
    IN IF RunTicks(node, run) <= 0 THEN 0
       ELSE (amount * node.parallel * ServiceTicks * Parts) \div RunTicks(node, run)

\* Recipes that share a machine run for an equal share of its time.
NodeRate(node, dir, res) == Sum(Mapped(LAMBDA run : RunRate(node, run, dir, res), node.runs)) \div Len(node.runs)
GroupRate(node, dir, res) == NodeRate(node, dir, res) * node.count

PortId(dir, res) == (IF dir = "in" THEN "input:" ELSE "output:") \o res
PortAt(dir, res, com, rate) ==
    [id |-> PortId(dir, res), com |-> com, dir |-> dir, pins |-> {}, layer |-> -1, rate |-> rate,
     amps |-> -1, res |-> res]

\* A tower fills the hatches of its i-th layer with a recipe's i-th fluid.
OutputLayer(node, res) ==
    LET fluids(run) == SelectSeq(run.out, LAMBDA f : f.com = "fluid")
        layers == {s.layer : s \in node.form.slots} \ {-1}
        places == UNION {{i - 1 : i \in {j \in DOMAIN fluids(run) : fluids(run)[j].res = res}} :
                            run \in Range(node.runs)}
    IN IF layers = {} \/ places = {} THEN -1 ELSE CHOOSE i \in places : TRUE

\* One port per resource and direction, whichever recipes use it.
NodePorts(node) ==
    LET keys(run, dir) == Mapped(LAMBDA f : <<dir, f.res, f.com>>, run[dir])
        port(k) == [PortAt(k[1], k[2], k[3], NodeRate(node, k[1], k[2]))
                       EXCEPT !.layer = IF k[1] = "out" THEN OutputLayer(node, k[2]) ELSE -1]
    IN Mapped(port, Once(FlattenSeq(Mapped(LAMBDA run : keys(run, "in") \o keys(run, "out"), node.runs))))

AnyFacing == <<"N", "S", "E", "W">>
BlockAt(id, type, ports) ==
    [id |-> id, type |-> type, group |-> "", number |-> 0, size |-> <<1, 1, 1>>, facings |-> AnyFacing,
     ports |-> ports, slots |-> {}, outside |-> FALSE, filter |-> {}, eut |-> 0, tier |-> "LV",
     role |-> "", network |-> "", devices |-> <<>>,
     store |-> FALSE, multi |-> FALSE, single |-> FALSE, basic |-> FALSE, hatched |-> FALSE]

IsMultiblockNode(node) == node.form.known \/ node.handler = "multiblock"
\* Only evidence merges a machine's outputs: a handler that says one block, or
\* a census of this very pack that holds no such multiblock.
ProvenSingle(plan, node) ==
    ~IsMultiblockNode(node) /\ (node.handler = "single" \/ plan.census = "own")

NodeMachines(plan, node) ==
    LET ids == InstanceIds(node)
        built(i) ==
            [BlockAt(ids[i], node.machine, NodePorts(node)) EXCEPT
                !.group = IF Len(ids) > 1 THEN node.id ELSE "", !.number = IF Len(ids) > 1 THEN i ELSE 0,
                !.size = node.form.size, !.slots = node.form.slots, !.hatched = node.form.hatched,
                !.tier = RunTier(node, node.runs[1]), !.eut = Max({NodeEut(node, run) : run \in Range(node.runs)}),
                !.outside = node.crop # 0, !.multi = IsMultiblockNode(node),
                !.single = ProvenSingle(plan, node),
                !.basic = plan.census # "none" /\ ~IsMultiblockNode(node)]
    IN [i \in DOMAIN ids |-> built(i)]

-----------------------------------------------------------------------------
(* Edges, rated by their producer, or by the consumer a storage feeds.     *)

NodeIds(plan) == {n.id : n \in Range(plan.nodes)}
NodeOf(plan, id) == CHOOSE n \in Range(plan.nodes) : n.id = id

RatedPort(plan, e) == IF e.source \in NodeIds(plan) THEN <<e.source, "out">> ELSE <<e.target, "in">>
Throughput(plan, e) ==
    LET rated == RatedPort(plan, e)
    IN IF rated[1] \in NodeIds(plan) THEN GroupRate(NodeOf(plan, rated[1]), rated[2], e.res) ELSE 0

\* A storage has the ports its edges need, each at its last edge's rate.
StorageType == [item |-> "Super Chest", fluid |-> "Super Tank"]
StoreAt(id, com, ports) == [BlockAt(id, StorageType[com], ports) EXCEPT !.store = TRUE]
StoragePorts(plan, id) ==
    LET ends(e) == (IF e.source = id THEN << <<"out", e>> >> ELSE <<>>)
                   \o (IF e.target = id THEN << <<"in", e>> >> ELSE <<>>)
        touching == FlattenSeq(Mapped(ends, plan.edges))
        keys == Once(Mapped(LAMBDA t : <<t[1], t[2].res>>, touching))
        last(k) == touching[Max({i \in DOMAIN touching : <<touching[i][1], touching[i][2].res>> = k})][2]
    IN Mapped(LAMBDA k : PortAt(k[1], k[2], last(k).com, Throughput(plan, last(k))), keys)

\* Every machine on each side of an edge, on the port for its resource.
SideOf(plan, id, dir, res) ==
    LET ids == IF id \in NodeIds(plan) THEN InstanceIds(NodeOf(plan, id)) ELSE <<id>>
    IN Mapped(LAMBDA m : <<m, PortId(dir, res)>>, ids)
EdgeProducers(plan, e) == SideOf(plan, e.source, "out", e.res)
\* Mutant: an edge is wired to the first of its target's machines alone.
EdgeConsumersFirst(plan, e) == <<SideOf(plan, e.target, "in", e.res)[1]>>
EdgeConsumers(plan, e) == SideOf(plan, e.target, "in", e.res)

\* Edges that meet at a multiblock's port, which is one hatch, are one net;
\* so are edges that repeat one connection.
EdgeGroups(plan) ==
    LET hatchEnds(e) == {x \in Range(EdgeProducers(plan, e) \o EdgeConsumers(plan, e)) :
                            \E n \in Range(plan.nodes) : IsMultiblockNode(n) /\ x[1] \in Range(InstanceIds(n))}
        keys(e) == {<<"at", x>> : x \in hatchEnds(e)}
                   \cup {<<"as", <<e.source, e.target, e.com, e.res>> >>}
    IN Mapped(LAMBDA g : Mapped(LAMBDA i : plan.edges[i], g), GroupsSharing(Mapped(keys, plan.edges)))

NetAt(id, com, items, ends, flow) ==
    [id |-> id, com |-> com, ends |-> ends, items |-> items, me |-> "", flow |-> flow]

\* A net moves each flow that rates its edges once.
NetForEdges(plan, group) ==
    LET rated == Once(Mapped(LAMBDA e : RatedPort(plan, e), group))
        flow(r) == Throughput(plan, CHOOSE e \in Range(group) : RatedPort(plan, e) = r)
    IN NetAt(JoinIds(Mapped(LAMBDA e : e.id, group)), group[1].com, {group[1].res},
             Once(FlattenSeq(Mapped(LAMBDA e : EdgeProducers(plan, e), group)))
               \o Once(FlattenSeq(Mapped(LAMBDA e : EdgeConsumers(plan, e), group))),
             Sum(Mapped(flow, rated)))

-----------------------------------------------------------------------------
(* The line closed: a chest or tank for every output nothing takes.        *)

GroupOf(m) == IF m.group = "" THEN m.id ELSE m.group

\* One for a node's output, however many machines the node stands for.
BufferFeeds(machines, nets) ==
    LET wired == UNION {Range(n.ends) : n \in Range(nets)}
        loose(m) == IF m.store THEN <<>>
                    ELSE SelectSeq(Mapped(LAMBDA q : <<m, q>>, m.ports),
                                   LAMBDA f : f[2].dir = "out" /\ <<m.id, f[2].id>> \notin wired)
        feeds == FlattenSeq(Mapped(loose, machines))
        key(f) == <<GroupOf(f[1]), f[2].id>>
    IN Mapped(LAMBDA k : SelectSeq(feeds, LAMBDA f : key(f) = k), Once(Mapped(key, feeds)))

AddOutputBuffers(machines, nets) ==
    LET feeds == BufferFeeds(machines, nets)
        port(fs) == PortAt("in", fs[1][2].res, fs[1][2].com, Sum(Mapped(LAMBDA f : f[2].rate, fs)))
        name(fs) == GroupOf(fs[1][1]) \o ":" \o fs[1][2].res
        buffer(fs) == StoreAt("output-buffer:" \o name(fs), port(fs).com, <<port(fs)>>)
        net(fs) == NetAt("output-net:" \o name(fs), port(fs).com, {port(fs).res},
                         Append(Mapped(LAMBDA f : <<f[1].id, f[2].id>>, fs), <<buffer(fs).id, port(fs).id>>),
                         port(fs).rate)
    IN [machines |-> machines \o Mapped(buffer, feeds), nets |-> nets \o Mapped(net, feeds)]

\* The plan as read, and its machines and nets.
PlanRead(plan) == CropCardsAsManagers(WithoutGeneratedPower(plan))
MapRead(plan) ==
    AddOutputBuffers(FlattenSeq(Mapped(LAMBDA n : NodeMachines(plan, n), plan.nodes))
                       \o Mapped(LAMBDA s : StoreAt(s.id, s.com, StoragePorts(plan, s.id)), plan.storages),
                     Mapped(LAMBDA g : NetForEdges(plan, g), EdgeGroups(plan)))
MapPlan(plan) == MapRead(PlanRead(plan))
=============================================================================
