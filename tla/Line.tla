-------------------------------- MODULE Line --------------------------------
(***************************************************************************)
(* The cell grid every stage works on: faces, turned boxes, turned hatch   *)
(* slots and the face rule (ir/geometry.py); and the problem every stage   *)
(* reads: machines with their ports and hatch slots, nets, the region and  *)
(* the ME networks (ir/input_ir.py, ir/me.py), and the small lookups over  *)
(* it (ir/nets.py).                                                        *)
(*                                                                         *)
(* A cell is <<x, y, z>>; a size is the extents of a box, as it sits in    *)
(* the world where a body is meant.  A face is the letter of its           *)
(* direction; pins are relative faces, and the empty set of pins is a port *)
(* that names none.                                                        *)
(*                                                                         *)
(* A problem is [id, order, sorted, machine, nets, region, reserved,       *)
(* networks, external]: order its machine ids as given, sorted by id.      *)
(* A machine is a record: type, group and number (of a numbered id), size, *)
(* facings (its orientation_options), ports (a sequence of [id, com, dir,  *)
(* pins, layer, rate, amps]), slots (its hatch slots, [off, kinds,         *)
(* layer]), outside (outside_front), filter (the items an Item Filter      *)
(* passes), eut, tier, role and network (of an ME infrastructure block)    *)
(* and devices (its ME endpoints, [id, ports, network, hatch, kind, moves, *)
(* share, flush]).  A net is [id, com, ends, items, me, flow]: ends a      *)
(* sequence of <<machine, port>>, me the network it rides or "".  A rate   *)
(* of Unrated is a port that names none, a layer of NoLayer a port or slot *)
(* with none.                                                              *)
(***************************************************************************)
EXTENDS Integers, Sequences, FiniteSets

\* FACE_DELTAS' order, which FACE_OFFSETS and the auto-output scan follow.
FaceOrder == <<"N", "S", "E", "W", "U", "D">>
Faces == {"N", "S", "E", "W", "U", "D"}

Delta == [N |-> <<0, 0, -1>>, S |-> <<0, 0, 1>>, E |-> <<1, 0, 0>>,
          W |-> <<-1, 0, 0>>, U |-> <<0, 1, 0>>, D |-> <<0, -1, 0>>]

Opposite == [N |-> "S", S |-> "N", E |-> "W", W |-> "E", U |-> "D", D |-> "U"]

\* Clockwise quarter turns from north; a vertical face carries no yaw.
CWSteps == [N |-> 0, E |-> 1, S |-> 2, W |-> 3, U |-> 0, D |-> 0]
Clockwise == <<"N", "E", "S", "W">>

Step(c, f) == <<c[1] + Delta[f][1], c[2] + Delta[f][2], c[3] + Delta[f][3]>>
Plus(a, b) == <<a[1] + b[1], a[2] + b[2], a[3] + b[3]>>
Minus(a, b) == <<a[1] - b[1], a[2] - b[2], a[3] - b[3]>>
Around(c) == {Step(c, f) : f \in Faces}

Abs(n) == IF n < 0 THEN -n ELSE n
Manhattan(a, b) == Abs(a[1] - b[1]) + Abs(a[2] - b[2]) + Abs(a[3] - b[3])

\* Cell tuples compare as Python's do.
CellLess(a, b) == \/ a[1] < b[1]
                  \/ a[1] = b[1] /\ a[2] < b[2]
                  \/ a[1] = b[1] /\ a[2] = b[2] /\ a[3] < b[3]
FirstCell(S) == CHOOSE c \in S : \A d \in S : c = d \/ CellLess(c, d)

\* What of a sequence stands at some of its places, in its order.
Sifted(s, places) ==
    LET upTo[i \in 0 .. Len(s)] == IF i = 0 THEN <<>>
                                   ELSE IF i \in places THEN Append(upTo[i-1], s[i]) ELSE upTo[i-1]
    IN upTo[Len(s)]

Ascending(S) ==
    LET up[T \in SUBSET S] == IF T = {} THEN <<>>
                              ELSE LET c == FirstCell(T) IN <<c>> \o up[T \ {c}]
    IN up[S]

-----------------------------------------------------------------------------
(* Boxes.  A quarter turn swaps the horizontal extents and keeps the       *)
(* minimum corner where it was.                                            *)

Turned(size, f) == IF CWSteps[f] % 2 = 0 THEN size
                   ELSE <<size[3], size[2], size[1]>>

BoxCells(o, s) == (o[1] .. o[1] + s[1] - 1) \X (o[2] .. o[2] + s[2] - 1)
                                            \X (o[3] .. o[3] + s[3] - 1)

BoxWithin(o, s, r) == \A a \in 1 .. 3 : o[a] >= 0 /\ o[a] + s[a] <= r[a]
InRegion(c, r) == \A a \in 1 .. 3 : c[a] >= 0 /\ c[a] < r[a]

BoxesMeet(o, s, p, t) == \A a \in 1 .. 3 : o[a] < p[a] + t[a] /\ p[a] < o[a] + s[a]

\* Whether a body's front plane is flush with the wall of the region.
FrontOnBoundary(o, s, f, r) ==
    CASE f = "N" -> o[3] = 0
      [] f = "S" -> o[3] + s[3] = r[3]
      [] f = "W" -> o[1] = 0
      [] f = "E" -> o[1] + s[1] = r[1]
      [] f = "D" -> o[2] = 0
      [] f = "U" -> o[2] + s[2] = r[2]

\* A slot's offset from the turned minimum corner: the offset is turned and
\* shifted back by as far as the corner travelled.
RotatedSlot(off, size, f) ==
    LET x == off[1]  z == off[3] IN
    CASE CWSteps[f] = 0 -> off
      [] CWSteps[f] = 1 -> <<size[3] - 1 - z, off[2], x>>
      [] CWSteps[f] = 2 -> <<size[1] - 1 - x, off[2], size[3] - 1 - z>>
      [] CWSteps[f] = 3 -> <<z, off[2], size[1] - 1 - x>>

-----------------------------------------------------------------------------
(* Faces of a turned machine.  Pins turn with it; without pins a port may  *)
(* use every face but the front.                                           *)

AbsoluteFace(front, pin) ==
    CASE pin = "up" -> "U"
      [] pin = "down" -> "D"
      [] OTHER -> LET turn == [front |-> 0, right |-> 1, back |-> 2, left |-> 3]
                  IN Clockwise[1 + ((CWSteps[front] + turn[pin]) % 4)]

PortFaces(pins, front) == IF pins = {} THEN Faces \ {front}
                          ELSE {AbsoluteFace(front, p) : p \in pins}

-----------------------------------------------------------------------------
(* The problem.                                                            *)

VARIABLE line     \* the problem being solved

MachineOrder == line.order       \* machine ids in problem order
Machine == line.machine          \* id -> machine
Nets == line.nets                \* the nets in problem order
Region == line.region            \* extents of the bounding region
Reserved == line.reserved        \* reserved cells
Networks == line.networks        \* its ME networks: [id, attached, colour, chests, budget, acceptor]
PowerExternal == line.external   \* the line's EU supply is left to the builder

NoLayer == -1
Unrated == -1

Machines == {MachineOrder[i] : i \in DOMAIN MachineOrder}
PortsIn(r) == {r.ports[i] : i \in DOMAIN r.ports}
PortsOf(m) == PortsIn(Machine[m])
HasPort(m, p) == \E q \in PortsOf(m) : q.id = p
Port(m, p) == CHOOSE q \in PortsOf(m) : q.id = p

NetSet == {Nets[i] : i \in DOMAIN Nets}
Ends(n) == {n.ends[i] : i \in DOMAIN n.ends}

-----------------------------------------------------------------------------
(* What a problem is refused for when it is built.                         *)

LayersIn(r) == {s.layer : s \in r.slots} \ {NoLayer}

FluidOutput(q) == q.com = "fluid" /\ q.dir = "out"

PowerInputs(r) == SelectSeq(r.ports, LAMBDA q : q.com = "power" /\ q.dir = "in")

SumRates(ports) ==
    LET sum[k \in 0 .. Len(ports)] == IF k = 0 THEN 0 ELSE sum[k-1] + ports[k].rate
    IN sum[Len(ports)]

MachineIsSound(r) ==
    /\ r.facings # <<>>
    /\ \A i \in DOMAIN r.facings :
          /\ r.facings[i] \in {"N", "S", "E", "W"}
          /\ \A j \in 1 .. i - 1 : r.facings[j] # r.facings[i]
    /\ \A i, j \in DOMAIN r.ports : r.ports[i].id = r.ports[j].id => i = j
    /\ \A q \in PortsIn(r) : q.layer # NoLayer => FluidOutput(q) /\ q.layer \in LayersIn(r)
    /\ LayersIn(r) # {} => \A q \in PortsIn(r) : FluidOutput(q) => q.layer # NoLayer
    /\ LET inputs == PowerInputs(r)
           rated == {i \in DOMAIN inputs : inputs[i].rate # Unrated}
       IN rated # {} => rated = DOMAIN inputs /\ SumRates(inputs) = r.eut
    /\ \A i \in DOMAIN r.devices :
          LET d == r.devices[i] IN
          /\ (d.ports = <<>>) = (r.role # "")
          /\ \A k \in DOMAIN d.ports : \E q \in PortsIn(r) : q.id = d.ports[k]
    /\ (r.role = "") = (r.network = "")
    /\ r.role \in {"attach", "link"} => r.outside

NetIsSound(n, machines) ==
    /\ n.ends # <<>>
    /\ n.com = "power" => n.items = {} /\ n.me = ""
    /\ n.com # "power" => n.items # {}
    /\ n.com = "fluid" => Cardinality(n.items) = 1
    /\ \A e \in Ends(n) :
          e[1] \in DOMAIN machines /\ \E q \in PortsIn(machines[e[1]]) : q.id = e[2] /\ q.com = n.com

NetworksAreSound(ks) ==
    /\ \A i, j \in DOMAIN ks : i # j =>
          /\ ks[i].id # ks[j].id
          /\ ~(ks[i].attached /\ ks[j].attached)
          /\ ~ks[i].attached /\ ~ks[j].attached /\ ks[i].colour # "" => ks[i].colour # ks[j].colour
    /\ \A i \in DOMAIN ks :
          IF ks[i].attached THEN ks[i].colour \in {"", "fluix"} /\ ~ks[i].chests
          ELSE ks[i].colour # "fluix"

\* An ME device serves only ports whose nets all ride its own network.
DevicesServeTheirNets(P, ids) ==
    \A m \in DOMAIN P.machine : \A i \in DOMAIN P.machine[m].devices :
        LET d == P.machine[m].devices[i] IN
        /\ d.network \in ids
        /\ \A k \in DOMAIN d.ports :
              {P.nets[j].me : j \in {x \in DOMAIN P.nets : <<m, d.ports[k]>> \in Ends(P.nets[x])}}
                 = {d.network}

ProblemIsSound(P) ==
    LET ids == {P.networks[i].id : i \in DOMAIN P.networks} IN
    /\ DOMAIN P.machine = {P.order[i] : i \in DOMAIN P.order}
    /\ Cardinality(DOMAIN P.machine) = Len(P.order)
    /\ \A i, j \in DOMAIN P.nets : P.nets[i].id = P.nets[j].id => i = j
    /\ \A m \in DOMAIN P.machine : /\ MachineIsSound(P.machine[m])
                                   /\ P.machine[m].network \in ids \cup {""}
    /\ \A i \in DOMAIN P.nets : /\ NetIsSound(P.nets[i], P.machine)
                                /\ P.nets[i].me \in ids \cup {""}
    /\ NetworksAreSound(P.networks)
    /\ DevicesServeTheirNets(P, ids)

-----------------------------------------------------------------------------
(* Lookups.                                                                *)

RidesMe(n) == IF n.com = "power" THEN PowerExternal ELSE n.me # ""

\* A net's producers and its consumers, in endpoint order.
Producers(n) == SelectSeq(n.ends, LAMBDA e : Port(e[1], e[2]).dir = "out")
Consumers(n) == SelectSeq(n.ends, LAMBDA e : Port(e[1], e[2]).dir = "in")

OutputLayers(m) == LayersIn(Machine[m])

IsMultiblock(m) == Machine[m].slots # {}
Volume(m) == Machine[m].size[1] * Machine[m].size[2] * Machine[m].size[3]

SuppliesPower(m) == \E q \in PortsOf(m) : q.com = "power" /\ q.dir = "out"
FrontsOutside(m) == Machine[m].outside \/ SuppliesPower(m)

\* The first port of each ME endpoint that serves one: what docks.
DevicePorts(m) == LET all == Machine[m].devices
                      serving == Sifted(all, {i \in DOMAIN all : all[i].ports # <<>>})
                  IN [i \in DOMAIN serving |-> <<serving[i].ports[1], serving[i].network>>]

\* Every connection a machine carries: its net ends that are built.
ConnectionsOf(m) ==
    UNION {{<<n.id, i>> : i \in {k \in DOMAIN n.ends : n.ends[k][1] = m}} :
              n \in {x \in NetSet : ~RidesMe(x)}}

OnNetwork(m, k) == \/ Machine[m].network = k
                   \/ \E i \in DOMAIN Machine[m].devices : Machine[m].devices[i].network = k

PortEut(m, p) == IF ~HasPort(m, p) THEN 0
                 ELSE IF Port(m, p).rate = Unrated THEN Machine[m].eut ELSE Port(m, p).rate

-----------------------------------------------------------------------------
(* Hatches: the kinds that may serve a port, and where they may stand.     *)

HatchKindsOf ==
    [item |-> [in |-> {"InputBus"}, out |-> {"OutputBus"}],
     fluid |-> [in |-> {"InputHatch"}, out |-> {"OutputHatch"}],
     power |-> [in |-> {"Energy", "ExoticEnergy", "MultiAmpEnergy"}, out |-> {"Dynamo"}]]
HatchKinds(com, dir) == HatchKindsOf[com][dir]

\* A port with an output layer takes only its layer's cells; any other port
\* takes the cells that name its kind, or every slot where none does.
NamingOrAny(naming, slots) == IF naming # {} THEN naming ELSE slots

SlotsFor(m, p) ==
    LET naming == {s \in Machine[m].slots : s.kinds \cap HatchKinds(Port(m, p).com, Port(m, p).dir) # {}}
    IN IF Port(m, p).layer # NoLayer THEN {s \in naming : s.layer = Port(m, p).layer}
       ELSE NamingOrAny(naming, Machine[m].slots)

AllowedFaces(m, p, front) == PortFaces(Port(m, p).pins, front)
=============================================================================
