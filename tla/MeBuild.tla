-------------------------------- MODULE MeBuild --------------------------------
(***************************************************************************)
(* What the nets chosen for ME need built (adapter/me_build.py): a device  *)
(* for every port, chosen by what it moves (dataset/me.py), and each       *)
(* network's stubs, links, controller and acceptor.  Only items ride ME    *)
(* here.  A bus moves what its best speed cards let it, so cards are part  *)
(* of it, Hyper-Acceleration Cards on a line that has them (a network may  *)
(* forbid them; none does here).  No item is one at any damage.  Networks  *)
(* are taken in port order and equal loads settled either way, where the   *)
(* code takes them by name.  A rating in EU is rounded up.  The choice is  *)
(* one the adapter accepts: no port half on ME, no rate past two devices,  *)
(* no network over its budget.                                             *)
(*                                                                         *)
(* A network is Line's record with a hatch policy, hatches: "never",       *)
(* "tier_aware" or "always".                                               *)
(***************************************************************************)
EXTENDS PlanMapping

CONSTANTS StubChannels,      \* channels a stub carries: 32
          AdhocMaxDevices    \* devices a network runs with no controller: 8

EstimatedCableHops == 16
MaxDevicesPerPort == 2

OnNet(n, e) == e \in Range(n.ends)
NetworkOfNet(n, networks) == CHOOSE k \in Range(networks) : k.id = n.me

-----------------------------------------------------------------------------
(* Boundary storages: the main network, or the one a link stores in, takes *)
(* their place; a network of chests keeps them, and has a chest of its own *)
(* for a net that brings none.                                             *)

StoreIds(line) == {m.id : m \in {x \in Range(line.machines) : x.store}}
BufferOf(n) ==
    LET res == CHOOSE r \in n.items : TRUE
    IN StoreAt("me-buffer:" \o n.id, n.com, <<PortAt("in", res, n.com, n.flow)>>)

\* A net as the network it rides leaves it, and none if it was storages alone.
NetOnMe(n, line, networks) ==
    LET kept == SelectSeq(n.ends, LAMBDA e : e[1] \notin StoreIds(line))
        stored == Len(kept) < Len(n.ends)
    IN CASE n.me = "" -> <<n>>
         [] n.me # "" /\ ~NetworkOfNet(n, networks).chests ->
            IF kept = <<>> THEN <<>> ELSE <<[n EXCEPT !.ends = kept]>>
         [] n.me # "" /\ NetworkOfNet(n, networks).chests /\ stored -> <<n>>
         [] OTHER -> <<[n EXCEPT !.ends = Append(@, <<BufferOf(n).id, BufferOf(n).ports[1].id>>)]>>

\* A storage port leaves with its nets on ME, unless a pipe still uses it.
DroppedEnds(line, nets, networks) ==
    UNION {{e \in Range(n.ends) : e[1] \in StoreIds(line)} :
              n \in {x \in Range(line.nets) : x.me # "" /\ ~NetworkOfNet(x, networks).chests}}
    \ UNION {Range(n.ends) : n \in Range(nets)}

WithStorages(line, nets, networks) ==
    LET dropped == DroppedEnds(line, nets, networks)
        buffers == SelectSeq(line.nets, LAMBDA n : /\ n.me # "" /\ NetworkOfNet(n, networks).chests
                                                   /\ \A e \in Range(n.ends) : e[1] \notin StoreIds(line))
        without(m) == [m EXCEPT !.ports = SelectSeq(@, LAMBDA q : <<m.id, q.id>> \notin dropped)]
        left == SelectSeq(Mapped(without, line.machines), LAMBDA m : ~m.store \/ m.ports # <<>>)
    IN [machines |-> (IF dropped = {} THEN line.machines ELSE left) \o Mapped(BufferOf, buffers), nets |-> nets]
Storages(line, networks) ==
    WithStorages(line, FlattenSeq(Mapped(LAMBDA n : NetOnMe(n, line, networks), line.nets)), networks)

-----------------------------------------------------------------------------
(* The devices of one machine.                                             *)

\* The network a port's nets ride, or "".
NetworkOfPort(m, q, nets) ==
    LET on == {n \in Range(nets) : n.me # "" /\ OnNet(n, <<m.id, q.id>>)}
    IN IF on = {} THEN "" ELSE (CHOOSE n \in on : TRUE).me
PortsOnMe(m, nets) == SelectSeq(m.ports, LAMBDA q : NetworkOfPort(m, q, nets) # "")

DeviceAt(id, network, ports, option, count) ==
    [id |-> id, ports |-> ports, network |-> network, hatch |-> option.hatch, kind |-> option.kind,
     moves |-> option.moves, share |-> Parts \div count, flush |-> option.flush]
Option(kind, hatch, moves) == [kind |-> kind, hatch |-> hatch, moves |-> moves, flush |-> 0]

\* A storage bus per network on a chest.
StorageDevices(m, nets) ==
    LET ports(k) == SelectSeq(m.ports, LAMBDA q : NetworkOfPort(m, q, nets) = k)
        networks == Once(Mapped(LAMBDA q : NetworkOfPort(m, q, nets), PortsOnMe(m, nets)))
    IN Mapped(LAMBDA k : DeviceAt("me:" \o k, k, Mapped(LAMBDA q : q.id, ports(k)),
                                  Option("storage_bus", "", -1), 1), networks)

\* A single block that pipes nothing out ejects into the network that takes
\* the most of its outputs.
AutoOutputNetwork(m, nets) ==
    LET outs == SelectSeq(m.ports, LAMBDA q : q.dir = "out" /\ q.com # "power")
        carried(k) == Sum(Mapped(LAMBDA q : IF NetworkOfPort(m, q, nets) = k THEN q.rate ELSE 0, outs))
        networks == {NetworkOfPort(m, q, nets) : q \in Range(outs)}
    IN IF m.multi \/ outs = <<>> \/ "" \in networks THEN ""
       ELSE CHOOSE k \in networks : \A j \in networks : carried(j) <= carried(k)
Pushed(m, q, nets) == q.dir = "out" /\ NetworkOfPort(m, q, nets) = AutoOutputNetwork(m, nets)

\* The ways to serve an item port, in groups tried in turn.
Reaches(tier, floor) == OnLadder(tier) /\ LadderIndex(tier) >= LadderIndex(floor)
SuperSpeedTier == "LuV"
BusMoves(lineTier) == ((IF Reaches(lineTier, SuperSpeedTier) THEN 8193 ELSE 96) * ServiceTicks * Parts) \div 5
GtHatchTier == "EV"
FlushTicks == 41
FlushItems == 1600
GtHatchOption(dir) ==
    IF dir = "out" THEN [Option("gt_output_bus_me", "OutputBus", (FlushItems * ServiceTicks * Parts) \div FlushTicks)
                            EXCEPT !.flush = FlushItems * UsageMultiplier]
    ELSE Option("gt_stocking_input_bus_me", "InputBus", -1)

\* A normal output bus pushes a stack from each of its slots every 8 ticks.
PushMoves(tier) ==
    LET slots == IF OnLadder(tier) THEN LadderIndex(tier) ^ 2 ELSE 1
    IN slots * ItemsPerInsertion * (ServiceTicks \div 8) * Parts
NormalHatchOption(m, dir, lineTier) ==
    IF dir = "out" THEN Option("interface", "OutputBus", PushMoves(m.tier))
    ELSE Option("export_bus", "InputBus", BusMoves(lineTier))

\* A machine with no slot recorded takes parts against its sides.
PolicyFor(m, network) == IF m.slots = {} THEN "never" ELSE network.hatches
MultiblockOptions(m, dir, policy, lineTier) ==
    LET normal == NormalHatchOption(m, dir, lineTier)
    IN CASE policy = "always" -> << <<GtHatchOption(dir)>>, <<normal>> >>
         [] policy = "tier_aware" /\ Reaches(lineTier, GtHatchTier) -> << <<GtHatchOption(dir), normal>> >>
         [] OTHER -> << <<normal>> >>
OptionGroups(m, q, network, lineTier) ==
    IF m.multi THEN MultiblockOptions(m, q.dir, PolicyFor(m, network), lineTier)
    ELSE << <<Option(IF q.dir = "in" THEN "export_bus" ELSE "import_bus", "", BusMoves(lineTier))>> >>

\* The first that keeps up: one device of a group before two of any.
KeepsUp(option, rate, count) == option.moves = -1 \/ option.moves * count >= rate
Tries(groups) ==
    FlattenSeq(Mapped(LAMBDA group : FlattenSeq(Mapped(LAMBDA count : Mapped(LAMBDA o : <<o, count>>, group),
                                                       [i \in 1 .. MaxDevicesPerPort |-> i])), groups))
PortDevices(m, q, network, lineTier) ==
    LET tries == SelectSeq(Tries(OptionGroups(m, q, network, lineTier)), LAMBDA t : KeepsUp(t[1], q.rate, t[2]))
        id(i) == "me:" \o q.id \o IF tries[1][2] = 1 THEN "" ELSE "#" \o ToString(i)
    IN [i \in 1 .. tries[1][2] |-> DeviceAt(id(i), network.id, <<q.id>>, tries[1][1], tries[1][2])]

MachineDevices(m, line, networks, lineTier) ==
    LET auto == AutoOutputNetwork(m, line.nets)
        pushed == SelectSeq(m.ports, LAMBDA q : auto # "" /\ Pushed(m, q, line.nets))
        others == SelectSeq(PortsOnMe(m, line.nets), LAMBDA q : q \notin Range(pushed))
        network(q) == CHOOSE k \in Range(networks) : k.id = NetworkOfPort(m, q, line.nets)
    IN (IF pushed = <<>> THEN <<>>
        ELSE <<DeviceAt("me:auto-output", auto, Mapped(LAMBDA q : q.id, pushed), Option("interface", "", -1), 1)>>)
       \o FlattenSeq(Mapped(LAMBDA q : PortDevices(m, q, network(q), lineTier), others))

WithDevices(line, networks, lineTier) ==
    [line EXCEPT !.machines =
        Mapped(LAMBDA m : [m EXCEPT !.devices = IF m.store THEN StorageDevices(m, line.nets)
                                                ELSE MachineDevices(m, line, networks, lineTier)], @)]

-----------------------------------------------------------------------------
(* The blocks of a network.                                                *)

DevicesOn(k, machines) ==
    Sum(Mapped(LAMBDA m : Len(SelectSeq(m.devices, LAMBDA d : d.network = k)), machines))
InfrastructureAt(id, role, network) ==
    [BlockAt(id, "ME " \o role, <<>>) EXCEPT !.role = role, !.network = network, !.outside = role \in {"attach", "link"}]
LinkAt(k) ==
    [InfrastructureAt("me-link:" \o k \o ":item", "link", k)
        EXCEPT !.devices = <<DeviceAt("me:storage", k, <<>>, Option("storage_bus", "", -1), 1)>>]

NetworkBlocks(k, count) ==
    LET stubs == Max({1, (count + StubChannels - 1) \div StubChannels})
        links == IF k.chests THEN <<>> ELSE <<LinkAt(k.id)>>
    IN IF k.attached
       THEN [i \in 1 .. stubs |-> InfrastructureAt("me-attach:" \o k.id \o ":" \o ToString(i), "attach", k.id)]
       ELSE links \o IF count + Len(links) > AdhocMaxDevices
                     THEN <<InfrastructureAt("me-controller:" \o k.id, "controller", k.id)>> ELSE <<>>

\* An acceptor is rated before any cable is laid, for every channel crossing
\* as many blocks as the region can make it.
ItemsMovedBy(m, k) ==
    LET moved(d) == IF d.network # k \/ d.kind \in StorageBuses THEN 0
                    ELSE Sum(Mapped(LAMBDA q : IF q.id \in Range(d.ports) THEN (q.rate * d.share) \div Parts ELSE 0, m.ports))
    IN Sum(Mapped(moved, m.devices))
EstimatedLoad(devices, adhoc, hops) ==
    IF adhoc THEN (devices + devices * hops + 1) * devices ELSE 2 * (devices + devices * hops)
RatedAe(devices, controllers, load, items) ==
    UsageMultiplier * (devices * IdleAe + controllers * ControllerAe + load * AePerChannelBlock + items * AePerMovedPart)

AcceptorTier(machines) ==
    LET powered == {m.tier : m \in {x \in Range(machines) : x.eut > 0 /\ x.role = "" /\ OnLadder(x.tier)}}
    IN Ladder[Max({i \in DOMAIN Ladder : Ladder[i] \in powered \cup {"LV"}})]
AcceptorAt(k, machines, hops) ==
    LET devices == DevicesOn(k, machines)
        controllers == Len(SelectSeq(machines, LAMBDA m : m.role = "controller" /\ m.network = k))
        ae == RatedAe(devices, controllers, EstimatedLoad(devices, controllers = 0, hops),
                      Sum(Mapped(LAMBDA m : ItemsMovedBy(m, k), machines)))
    IN [InfrastructureAt("me-acceptor:" \o k, "acceptor", k)
           EXCEPT !.eut = (ae + AePerEu * AePart - 1) \div (AePerEu * AePart), !.tier = AcceptorTier(machines)]

BlocksFor(k, line, hops) ==
    LET blocks == NetworkBlocks(k, DevicesOn(k.id, line.machines))
    IN IF \A n \in Range(line.nets) : n.me # k.id THEN <<>>
       ELSE blocks \o IF k.acceptor THEN <<AcceptorAt(k.id, line.machines \o blocks, hops)>> ELSE <<>>
WithInfrastructure(line, networks, hops) ==
    [line EXCEPT !.machines = @ \o FlattenSeq(Mapped(LAMBDA k : BlocksFor(k, line, hops), networks))]

\* The highest tier any machine of the line runs at.
LineTier(machines) ==
    LET tiers == {m.tier : m \in {x \in Range(machines) : ~x.store /\ OnLadder(x.tier)}}
    IN IF tiers = {} THEN "LV" ELSE Ladder[Max({i \in DOMAIN Ladder : Ladder[i] \in tiers})]

BuildMe(line, networks, hops) ==
    IF \A n \in Range(line.nets) : n.me = "" THEN line
    ELSE WithInfrastructure(WithDevices(Storages(line, networks), networks, LineTier(line.machines)), networks,
                            Max({EstimatedCableHops, hops}))
=============================================================================
