------------------------------- MODULE MCLines -------------------------------
(***************************************************************************)
(* What the MC modules are built from: shorthands for problems, and small  *)
(* plans, one for each thing the adapter does to a line: sharing a         *)
(* machine's outputs out by filters, feeding a machine short of faces,     *)
(* splitting a draw over hatches, splitting a tier over cables, and        *)
(* putting nets on ME.                                                     *)
(***************************************************************************)
EXTENDS Integers, Sequences

In(id, com) == [id |-> id, com |-> com, dir |-> "in", pins |-> {}, layer |-> -1, rate |-> -1,
                amps |-> -1]
Out(id, com) == [In(id, com) EXCEPT !.dir = "out"]
PinIn(id, com, pins) == [In(id, com) EXCEPT !.pins = pins]
PinOut(id, com, pins) == [Out(id, com) EXCEPT !.pins = pins]
LayerOut(id, layer) == [Out(id, "fluid") EXCEPT !.layer = layer]

Block(facings, ports) ==
    [type |-> "block", group |-> "", number |-> 0, size |-> <<1, 1, 1>>, facings |-> facings,
     ports |-> ports, slots |-> {}, outside |-> FALSE, filter |-> {}, eut |-> 0, tier |-> "LV",
     role |-> "", network |-> "", devices |-> <<>>]

Member(group, number, facings, ports) ==
    [Block(facings, ports) EXCEPT !.group = group, !.number = number, !.type = group]

Source(facings) == [Block(facings, <<Out("eu", "power")>>) EXCEPT !.type = "source", !.group = ""]

Multi(size, facings, ports, slots) ==
    [Block(facings, ports) EXCEPT !.type = "multi", !.size = size, !.slots = slots]

\* An Item Filter: in by any face but its back, out by its back.
ItemFilter(items, facings) ==
    [Block(facings, <<PinIn("in", "item", {"front", "left", "right", "up", "down"}),
                      PinOut("out", "item", {"back"})>>) EXCEPT !.type = "filter", !.filter = items]

Slot(off, kinds) == [off |-> off, kinds |-> kinds, layer |-> -1]
LayerSlot(off, kinds, layer) == [off |-> off, kinds |-> kinds, layer |-> layer]

Net(id, com, ends) == [id |-> id, com |-> com, ends |-> ends,
                       items |-> IF com = "power" THEN {} ELSE {id}, me |-> "", flow |-> 0]
MeNet(id, com, ends, network) == [Net(id, com, ends) EXCEPT !.me = network]

\* ME: what serves a machine's ports, the blocks of a network, a network.
Device(id, kind, ports, network) ==
    [id |-> id, ports |-> ports, network |-> network, hatch |-> "", kind |-> kind, moves |-> -1,
     share |-> 12, flush |-> 0]
OnMe(r, devices) == [r EXCEPT !.devices = devices]
Infrastructure(role, network, facings) ==
    [Block(facings, <<>>) EXCEPT !.type = role, !.role = role, !.network = network,
                                 !.outside = role \in {"attach", "link"},
                                 !.devices = IF role # "link" THEN <<>>
                                             ELSE <<Device("storage", "storage_bus", <<>>, network)>>]
MainNetwork(id, budget) ==
    [id |-> id, attached |-> TRUE, colour |-> "", chests |-> FALSE, budget |-> budget, acceptor |-> FALSE]
Subnet(id, acceptor) == [MainNetwork(id, 0) EXCEPT !.attached = FALSE, !.acceptor = acceptor]

Problem(order, machine, nets, region) ==
    [id |-> "", order |-> order, sorted |-> order, machine |-> machine, nets |-> nets, region |-> region,
     reserved |-> {}, networks |-> <<>>, external |-> FALSE]
Named(id, P) == [P EXCEPT !.id = id]

-----------------------------------------------------------------------------
(* Plans.                                                                  *)

Flow(res, com, amount) == [res |-> res, com |-> com, amount |-> amount]
Item(res, amount) == Flow(res, "item", amount)
Recipe(in, out, eut) == [in |-> in, out |-> out, eut |-> eut, ticks |-> 480, variants |-> <<>>]
NoForm == [known |-> FALSE, size |-> <<1, 1, 1>>, slots |-> {}, hatched |-> FALSE]
Node(id, count, in, out, eut) ==
    [id |-> id, machine |-> id, count |-> count, tier |-> "LV", coil |-> "", parallel |-> 1, total |-> -1,
     handler |-> "", tiers |-> {}, least |-> "", form |-> NoForm,
     runs |-> <<Recipe(in, out, eut)>>, crop |-> 0]
SingleNode(id, count, in, out, eut) == [Node(id, count, in, out, eut) EXCEPT !.handler = "single"]
Chest(id) == [id |-> id, com |-> "item"]
Edge(id, source, target, res) == [id |-> id, source |-> source, target |-> target, com |-> "item", res |-> res]
PlanWith(nodes, storages, edges) ==
    [nodes |-> nodes, storages |-> storages, edges |-> edges, census |-> "none", retier |-> FALSE,
     networks |-> <<>>, chosen |-> <<>>, external |-> FALSE]

\* Two washers, whose sand is kept and whose gems the plan forgets.
Washers ==
    [PlanWith(<<SingleNode("washer", 2, <<Item("ore", 24)>>, <<Item("sand", 24), Item("gem", 24)>>, 16)>>,
              <<Chest("ores"), Chest("sands")>>,
              <<Edge("ore", "ores", "washer", "ore"), Edge("sand", "washer", "sands", "sand")>>)
        EXCEPT !.external = TRUE]

\* A mixer of five inputs, one of them from two chests; at twice the rate no
\* pipe carries what its one run must.
Mixing(rate) ==
    [PlanWith(<<SingleNode("mixer", 1, <<Item("a", rate), Item("b", rate), Item("c", rate), Item("d", rate), Item("e", rate)>>,
                           <<Item("mix", rate)>>, 0)>>,
              <<Chest("as"), Chest("spare"), Chest("bs"), Chest("cs"), Chest("ds"), Chest("es"), Chest("out")>>,
              <<Edge("a", "as", "mixer", "a"), Edge("a2", "spare", "mixer", "a"), Edge("b", "bs", "mixer", "b"),
                Edge("c", "cs", "mixer", "c"), Edge("d", "ds", "mixer", "d"), Edge("e", "es", "mixer", "e"),
                Edge("mix", "mixer", "out", "mix")>>) EXCEPT !.external = TRUE]
Mixer == Mixing(6)
Glut == Mixing(12)

\* A multiblock drawing what two hatches take, fed by a field of crops and
\* emptied into two chests.
ReactorKinds == {"InputBus", "OutputBus", "Energy"}
Reactor ==
    PlanWith(<<[Node("field", 4, <<>>, <<Item("crop", 6)>>, 0) EXCEPT !.crop = 1],
               [Node("reactor", 1, <<Item("crop", 24)>>, <<Item("dust", 24)>>, 64)
                   EXCEPT !.form = [known |-> TRUE, size |-> <<2, 1, 2>>, hatched |-> TRUE,
                                    slots |-> {[off |-> <<x, 0, z>>, kinds |-> ReactorKinds, layer |-> -1] :
                                                  x \in 0 .. 1, z \in 0 .. 1}]]>>,
             <<Chest("left"), Chest("right")>>,
             <<Edge("crop", "field", "reactor", "crop"), Edge("dust", "reactor", "left", "dust"),
               Edge("dust2", "reactor", "right", "dust")>>)

\* A chain of blocks drawing ten amps, five and three, and a generator's EU
\* the line does not use: one draws what the recipe says, one what the plan's
\* balance says, one, stored a tier below any block it has, what it draws there.
Variant(tier, eut, ticks) == [tier |-> tier, coil |-> "", eut |-> eut, ticks |-> ticks, parallel |-> 1]
Drain ==
    PlanWith(<<Node("m1", 1, <<>>, <<Item("a", 12)>>, 320),
               [Node("m2", 1, <<Item("a", 12)>>, <<Item("b", 12)>>, 40) EXCEPT !.total = 160],
               [SingleNode("m3", 1, <<Item("b", 6)>>, <<Flow("eu", "power", 20)>>, 24)
                   EXCEPT !.tier = "ULV", !.tiers = {"LV", "HV"}, !.least = "ULV",
                          !.runs[1].variants = <<Variant("HV", 384, 60), Variant("LV", 96, 240)>>]>>, <<>>,
             <<Edge("a", "m1", "m2", "a"), Edge("b", "m2", "m3", "b")>>)

\* A presser and a sorter on the main network, which stores what they share.
Depot ==
    [PlanWith(<<SingleNode("press", 2, <<>>, <<Item("plate", 24)>>, 0),
                SingleNode("coil", 1, <<Item("plate", 24)>>, <<Item("wire", 24)>>, 0)>>,
              <<Chest("plates")>>,
              <<Edge("put", "press", "plates", "plate"), Edge("take", "plates", "coil", "plate")>>)
        EXCEPT !.external = TRUE, !.chosen = [put |-> "main", take |-> "main"],
               !.networks = <<[id |-> "main", attached |-> TRUE, colour |-> "", chests |-> FALSE, budget |-> 3,
                               acceptor |-> FALSE, hatches |-> "never"]>>]

\* A multiblock press and a burner on networks of the line's own: one that
\* keeps its chest and is powered by the line, one stored through a link.
OwnNetwork(id, chests, acceptor) ==
    [id |-> id, attached |-> FALSE, colour |-> "", chests |-> chests, budget |-> 0, acceptor |-> acceptor,
     hatches |-> "always"]
Pressing(network) ==
    [PlanWith(<<[Node("press", 1, <<>>, <<Item("plate", 24)>>, 0)
                    EXCEPT !.form = [known |-> TRUE, size |-> <<1, 1, 1>>, hatched |-> TRUE,
                                     slots |-> {[off |-> <<0, 0, 0>>, kinds |-> {"OutputBus"}, layer |-> -1]}]],
                SingleNode("burner", 1, <<Item("plate", 24)>>, <<Flow("eu", "power", 40)>>, 0)>>,
              <<Chest("plates")>>,
              <<Edge("put", "press", "plates", "plate"), Edge("take", "plates", "burner", "plate")>>)
        EXCEPT !.chosen = [put |-> network.id, take |-> network.id], !.networks = <<network>>]
Vault == Pressing(OwnNetwork("red", TRUE, TRUE))
Silo == Pressing(OwnNetwork("red", FALSE, FALSE))
=============================================================================
