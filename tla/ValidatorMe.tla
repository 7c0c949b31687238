----------------------------- MODULE ValidatorMe -----------------------------
(***************************************************************************)
(* The ME half of the gate (validator/me.py): would AE run every network   *)
(* the layout builds?  It never reads which blocks the router meant to     *)
(* join: AE2 cables join every neighbour they can, so the graph AE builds  *)
(* is rebuilt from the blocks laid, and AE's own channel pathing run on it.*)
(*                                                                         *)
(* An ME network laid is [id, colour, cells, devices, kind, channels]:     *)
(* kind maps a cell to its cable, a device is [machine, id, kind, cell,    *)
(* side].  A node of AE's graph is <<"cable", cell>>, <<"device", machine, *)
(* id>> or <<"block", machine>>.  Cards and filters are part of a device's *)
(* kind here, and only items move by ME.                                   *)
(***************************************************************************)
EXTENDS Validator

NetworkOf(id) == CHOOSE k \in Range(Networks) : k.id = id
NetworkIds == {k.id : k \in Range(Networks)}

AeColours == <<"white", "orange", "magenta", "light_blue">>
ColourDue(id) ==
    LET k == NetworkOf(id)
        taken == {j.colour : j \in Range(Networks)}
        free == SelectSeq(AeColours, LAMBDA c : c \notin taken)
        unset == SelectSeq(Networks, LAMBDA j : ~j.attached /\ j.colour = "")
    IN CASE k.attached -> "fluix"
         [] ~k.attached /\ k.colour # "" -> k.colour
         [] OTHER -> free[CHOOSE i \in DOMAIN unset : unset[i].id = id]

CheckNetworks(Z) ==
    Flagged("ME_UNKNOWN_NETWORK", {Z.me[i].id : i \in DOMAIN Z.me} \ NetworkIds)
    \cup Flagged("ME_NETWORK_COLOUR",
                 {Z.me[i].id : i \in {j \in DOMAIN Z.me : /\ Z.me[j].id \in NetworkIds
                                                          /\ Z.me[j].colour # ColourDue(Z.me[j].id)}})

-----------------------------------------------------------------------------
(* Devices: each endpoint built once, as asked for, where its job is.      *)

\* Every device built, as <<network laid, device>>.
BuiltDevices(Z) == UNION {{<<i, d>> : d \in Z.me[i].devices} : i \in DOMAIN Z.me}
EndpointKeys == UNION {{<<m, Machine[m].devices[i].id>> : i \in DOMAIN Machine[m].devices} : m \in Machines}
KeyOf(b) == <<b[2].machine, b[2].id>>
Endpoint(k) == CHOOSE d \in Range(Machine[k[1]].devices) : d.id = k[2]
EndpointOf(b) == Endpoint(KeyOf(b))
IsGtHatch(b) == b[2].kind \in GtHatches

ServedBy == [import_bus |-> <<{"item"}, {"out"}>>, export_bus |-> <<{"item"}, {"in"}>>,
             interface |-> <<{"item"}, {"out"}>>, storage_bus |-> <<{"item"}, {"in", "out"}>>,
             gt_output_bus_me |-> <<{"item"}, {"out"}>>, gt_stocking_input_bus_me |-> <<{"item"}, {"in"}>>]
ServedPorts(b) == {q \in PortsOf(b[2].machine) : q.id \in Range(EndpointOf(b).ports)}

CheckEndpoints(Z) ==
    LET known == {b \in BuiltDevices(Z) : KeyOf(b) \in EndpointKeys}
        wrong(b) ==
            \/ EndpointOf(b).network # Z.me[b[1]].id
            \/ EndpointOf(b).kind # b[2].kind
            \/ \E q \in ServedPorts(b) : \/ q.com \notin ServedBy[EndpointOf(b).kind][1]
                                         \/ q.dir \notin ServedBy[EndpointOf(b).kind][2]
    IN Flagged("ME_DEVICE_MISMATCH",
               {KeyOf(b) : b \in {x \in BuiltDevices(Z) :
                   \/ x \notin known
                   \/ x \in known /\ (wrong(x) \/ \E y \in known \ {x} : KeyOf(y) = KeyOf(x))}})
       \cup Flagged("ME_ENDPOINT_MISSING", EndpointKeys \ {KeyOf(b) : b \in known})

\* A GT hatch is one of its own machine's, of its kind, facing out where it
\* says, serving one of its ports.
GtHatchStands(b, Z) ==
    \E h \in Z.hatches :
        /\ h.machine = b[2].machine /\ h.cell = b[2].cell /\ h.cell \in BodyOf(h.machine, Z)
        /\ h.face = b[2].side /\ h.kind = EndpointOf(b).hatch /\ h.port \in Range(EndpointOf(b).ports)

OnOwnCable(b, Z) == b[2].cell \in Range(Z.me[b[1]].cells)
Target(b) == Step(b[2].cell, b[2].side)
Faced(b) == Opposite[b[2].side]

LinkBusStands(b, Z) ==
    /\ b[2].kind \in StorageBuses
    /\ b[2].cell \in BodyOf(b[2].machine, Z) /\ b[2].side = Z.at[b[2].machine].front
HatchFacesBack(b, Z) ==
    \E h \in Z.hatches : /\ h.machine = b[2].machine /\ h.cell = Target(b) /\ h.face = Faced(b)
                         /\ h.kind = EndpointOf(b).hatch /\ h.port \in Range(EndpointOf(b).ports)

\* A part sits on its network's own cable, on a side of its own, facing its
\* machine: a hatch that faces back, or a face every port of it may use.
PartStands(b, Z) ==
    IF Machine[b[2].machine].role = "link" THEN LinkBusStands(b, Z)
    ELSE IF EndpointOf(b).hatch = "" \/ ~IsMultiblock(b[2].machine)
         THEN /\ Target(b) \in BodyOf(b[2].machine, Z)
              /\ EndpointOf(b).hatch = "" =>
                    \A q \in ServedPorts(b) : Faced(b) \in UsableFaces(q.pins, Z.at[b[2].machine].front)
         ELSE HatchFacesBack(b, Z)
SharesItsSide(b, Z) ==
    \E o \in BuiltDevices(Z) \ {b} : ~IsGtHatch(o) /\ o[2].cell = b[2].cell /\ o[2].side = b[2].side

\* A single block puts every output into one face.
Receives(b, m) ==
    b[2].machine = m /\ b[2].kind \in {"interface", "dual_interface"} /\ EndpointOf(b).hatch = ""
OutputFaces(m, standing, Z) ==
    LET mine == {Faced(b) : b \in {x \in standing : Receives(x, m)}}
    IN IF mine = {} THEN {} ELSE mine \cup {a.face : a \in {x \in Range(Z.autos) : x.src = m}}

CheckStanding(standing, Z) ==
    Flagged("ME_DEVICE_PLACEMENT",
            {KeyOf(b) : b \in {x \in standing :
                IF IsGtHatch(x) THEN ~GtHatchStands(x, Z)
                ELSE ~OnOwnCable(x, Z) \/ SharesItsSide(x, Z) \/ ~PartStands(x, Z)}})
    \cup Flagged("ME_PART_ON_DENSE",
                 {KeyOf(b) : b \in {x \in standing : /\ ~IsGtHatch(x) /\ OnOwnCable(x, Z)
                                                     /\ Z.me[x[1]].kind[x[2].cell] \notin PartCables}})
    \cup Flagged("ME_AUTO_OUTPUT_FACES", {m \in Machines : Cardinality(OutputFaces(m, standing, Z)) > 1})
    \cup Flagged("ME_DEVICE_RATE_SHORT",
                 {KeyOf(b) : b \in {x \in standing : \E q \in ServedPorts(x) :
                     /\ q.rate # Unrated /\ EndpointOf(x).moves # Unrated
                     /\ EndpointOf(x).moves * Parts < q.rate * EndpointOf(x).share}})

CheckDevices(Z) ==
    CheckStanding({b \in BuiltDevices(Z) : KeyOf(b) \in EndpointKeys /\ b[2].machine \in DOMAIN Z.at}, Z)

-----------------------------------------------------------------------------
(* The ground under the cable, and a stub or link being the cable it is.   *)

CablesOf(i, Z) == Range(Z.me[i].cells)
OwnStub(m, i, Z) == Machine[m].role \in {"attach", "link"} /\ Machine[m].network = Z.me[i].id
CheckCables(i, Z) ==
    Where("ROUTE_OUT_OF_BOUNDS", Z.me[i].id, \E c \in CablesOf(i, Z) : ~Inside(c))
    \cup Where("ROUTE_ON_RESERVED", Z.me[i].id, CablesOf(i, Z) \cap Reserved # {})
    \cup Where("ROUTE_THROUGH_MACHINE", Z.me[i].id,
               \E m \in DOMAIN Z.at : ~OwnStub(m, i, Z) /\ CablesOf(i, Z) \cap BodyOf(m, Z) # {})
    \cup Where("ROUTE_CELL_COLLISION", Z.me[i].id,
               \/ \E r \in RoutesOf(Z) : CablesOf(i, Z) \cap Cells(r) # {}
               \/ \E j \in 1 .. i - 1 : CablesOf(i, Z) \cap CablesOf(j, Z) # {})

CableKindAt(k, c, Z) ==
    LET on == {i \in DOMAIN Z.me : Z.me[i].id = k /\ c \in CablesOf(i, Z)}
    IN IF on = {} THEN "" ELSE Z.me[CHOOSE i \in on : TRUE].kind[c]
KindsOfStub(role) == IF role = "attach" THEN {"dense"} ELSE PartCables
CheckGround(Z) ==
    UNION {CheckCables(i, Z) : i \in DOMAIN Z.me}
    \cup Flagged("ME_INFRASTRUCTURE",
                 {m \in DOMAIN Z.at : /\ Machine[m].role \in {"attach", "link"}
                                      /\ \E c \in BodyOf(m, Z) :
                                            CableKindAt(Machine[m].network, c, Z) \notin KindsOfStub(Machine[m].role)})

-----------------------------------------------------------------------------
(* The graph AE builds: every block joins through every side it opens, to  *)
(* whatever opens back, unless their colours keep apart.                   *)

CableOwner(c, Z) == CHOOSE i \in DOMAIN Z.me : /\ c \in CablesOf(i, Z)
                                               /\ \A j \in 1 .. i - 1 : c \notin CablesOf(j, Z)
BlocksPlaced(Z) == {m \in DOMAIN Z.at : Machine[m].role \in {"controller", "acceptor"} /\ Machine[m].network # ""}

AeNode(network, colour, capacity, queue, is) ==
    [network |-> network, colour |-> colour, capacity |-> capacity, queue |-> queue, is |-> is]

\* AE visits dense cable first, then other cable, then everything else.
CableNode(c, Z) ==
    LET i == CableOwner(c, Z)
        stub == \E m \in DOMAIN Z.at : Machine[m].role = "attach" /\ c \in BodyOf(m, Z)
    IN AeNode(Z.me[i].id, Z.me[i].colour, CableCapacity[Z.me[i].kind[c]],
              IF Z.me[i].kind[c] = "dense" THEN 0 ELSE 1, IF stub THEN "root" ELSE "cable")
BlockNode(m) ==
    IF Machine[m].role = "controller"
    THEN AeNode(Machine[m].network, ColourDue(Machine[m].network), 0, 2, "controller")
    ELSE AeNode(Machine[m].network, "fluix", SmartCapacity, 2, "acceptor")

DeviceNodes(Z) == {<<"device", b[2].machine, b[2].id>> : b \in BuiltDevices(Z)}
AeNodes(Z) ==
    [n \in {<<"cable", c>> : c \in MeCells(Z)} \cup DeviceNodes(Z) \cup {<<"block", m>> : m \in BlocksPlaced(Z)} |->
        CASE n[1] = "cable" -> CableNode(n[2], Z)
          [] n[1] = "block" -> BlockNode(n[2])
          [] n[1] = "device" ->
             LET b == CHOOSE x \in BuiltDevices(Z) : KeyOf(x) = <<n[2], n[3]>>
             IN AeNode(Z.me[b[1]].id, Z.me[b[1]].colour, SmartCapacity, 2, "device")]

\* A part takes its cable's side; a GT hatch opens by its front alone.
Openings(Z) ==
    LET parts == {<<b[2].cell, b[2].side>> : b \in {x \in BuiltDevices(Z) : ~IsGtHatch(x)}}
    IN {<< <<"cable", o[1]>>, o[1], o[2]>> : o \in (MeCells(Z) \X Faces) \ parts}
       \cup UNION {{<< <<"block", m>>, c, f>> : c \in BodyOf(m, Z), f \in Faces} : m \in BlocksPlaced(Z)}
       \cup {<< <<"device", b[2].machine, b[2].id>>, b[2].cell, b[2].side>> :
                b \in {x \in BuiltDevices(Z) : IsGtHatch(x)}}

PartJoints(Z) ==
    {<< <<"device", b[2].machine, b[2].id>>, <<"cable", b[2].cell>> >> :
        b \in {x \in BuiltDevices(Z) : ~IsGtHatch(x) /\ OnOwnCable(x, Z)}}

JointsOver(openings, nodes) ==
    UNION {{<<o[1], p[1]>> : p \in {q \in openings :
                /\ q[2] = Step(o[2], o[3]) /\ q[3] = Opposite[o[3]] /\ q[1] # o[1]
                /\ ColoursConnect(nodes[o[1]].colour, nodes[q[1]].colour)}} :
              o \in openings}
Joints(Z, nodes) == JointsOver(Openings(Z), nodes) \cup PartJoints(Z)

-----------------------------------------------------------------------------
(* AE's channel pathing.  It walks from the sources through three queues,  *)
(* so what it reaches first is least by how many blocks and joints of the  *)
(* last queue, then the middle, then the first it has passed: a label.     *)
(* Every tied way back is kept, so a load here is the most AE may put.     *)

LabelBase == 1000
QueueOf(label) == IF label >= LabelBase * LabelBase THEN 2 ELSE IF label >= LabelBase THEN 1 ELSE 0
Extended(label, queue) == label + LabelBase ^ Most(queue, QueueOf(label))

\* Across one joint and into a node.
Into(label, node) == Extended(Extended(label, 0), node.queue)

Offers(n, labels, nodes, joints, sources) ==
    {Into(labels[m], nodes[n]) : m \in Joined({n}, joints) \cap DOMAIN labels}
    \cup (IF n \in sources THEN {Extended(1, nodes[n].queue)} ELSE {})

NextReached(offers) ==
    CHOOSE n \in DOMAIN offers : \A m \in DOMAIN offers : Min(offers[n]) <= Min(offers[m])
WithOffer(labels, offers) ==
    labels @@ (NextReached(offers) :> Min(offers[NextReached(offers)]))

RECURSIVE Labelled(_, _, _, _, _)
Labelled(labels, open, nodes, joints, sources) ==
    LET reached == {n \in open \ DOMAIN labels : Offers(n, labels, nodes, joints, sources) # {}}
    IN IF reached = {} THEN labels
       ELSE Labelled(WithOffer(labels, [n \in reached |-> Offers(n, labels, nodes, joints, sources)]),
                     open, nodes, joints, sources)

Parents(S, labels, nodes, joints) ==
    UNION {{m \in Joined({n}, joints) \cap DOMAIN labels : Into(labels[m], nodes[n]) = labels[n]} : n \in S}
RECURSIVE AtOrAbove(_, _, _, _)
AtOrAbove(S, labels, nodes, joints) ==
    LET more == Parents(S, labels, nodes, joints) \ S
    IN IF more = {} THEN S ELSE AtOrAbove(S \cup more, labels, nodes, joints)

LoadsOver(labels, devices, nodes, joints) ==
    LET ways == [d \in devices \cap DOMAIN labels |-> AtOrAbove({d}, labels, nodes, joints)]
    IN [n \in DOMAIN labels |-> Cardinality({d \in DOMAIN ways : n \in ways[d]})]

-----------------------------------------------------------------------------
(* One connected piece of one network: where its channels come from, and   *)
(* whether they fit.                                                       *)

Those(piece, nodes, kind) == {n \in piece : nodes[n].is = kind}
BlockCells(ns, Z) == UNION {BodyOf(n[2], Z) : n \in ns}

OneCluster(group, cells, joints) ==
    /\ LET among == {j \in joints : {j[1], j[2]} \subseteq group}
       IN DOMAIN HopsFrom(CHOOSE n \in group : TRUE, among) = group
    /\ \A a \in 1 .. 3 : Max({c[a] : c \in cells}) - Min({c[a] : c \in cells}) < ClusterSpan
    /\ \A c \in cells :
          Cardinality({f \in {"E", "U", "S"} : Step(c, f) \in cells /\ Step(c, Opposite[f]) \in cells}) < 2

Verdict(k, labels, devices, loads, nodes) ==
    [load |-> 2 * FoldSet(LAMBDA n, a : a + loads[n], 0, DOMAIN loads),
     flags |-> Flagged("ME_CHANNEL_STARVED", devices \ DOMAIN labels)
               \cup Flagged("ME_CABLE_OVERLOAD", {n \in DOMAIN loads : loads[n] > nodes[n].capacity})]
Pathed(k, labels, devices, nodes, joints) ==
    Verdict(k, labels, devices, LoadsOver(labels, devices, nodes, joints), nodes)

CheckPiece(k, piece, nodes, joints, Z) ==
    LET controllers == Those(piece, nodes, "controller")
        devices == Those(piece, nodes, "device")
        roots == IF k.attached THEN Those(piece, nodes, "root") ELSE {}
    IN IF ~k.attached /\ controllers = {}
       THEN IF Cardinality(devices) > AdhocDevices THEN [load |-> 0, flags |-> {<<"ME_ADHOC_OVERFLOW", k.id>>}]
            ELSE [load |-> Cardinality(piece) * Cardinality(devices), flags |-> {}]
       ELSE IF controllers # {} /\ (k.attached \/ ~OneCluster(controllers, BlockCells(controllers, Z), joints))
       THEN [load |-> 0, flags |-> {<<"ME_CONTROLLER_CONFLICT", k.id>>}]
       ELSE Pathed(k, Labelled(<<>>, piece \ controllers, nodes, joints, roots \cup Joined(controllers, joints)),
                   devices, nodes, joints)

-----------------------------------------------------------------------------
(* Power: an acceptor on the line's EU, rated for what the cable laid      *)
(* costs, and a store that holds one flush.                                *)

ItemsMoved(k, Z) ==
    FoldSet(LAMBDA b, a : a + FoldSet(LAMBDA q, s : s + IF q.rate = Unrated THEN 0
                                                         ELSE (q.rate * EndpointOf(b).share) \div Parts,
                                      0, ServedPorts(b)),
            0, {b \in BuiltDevices(Z) : /\ KeyOf(b) \in EndpointKeys /\ Z.me[b[1]].id = k
                                        /\ b[2].kind \notin StorageBuses})

Draw(k, own, nodes, load, Z) ==
    UsageMultiplier * (Cardinality(Those(own, nodes, "device")) * IdleAe
                       + Cardinality(Those(own, nodes, "controller")) * ControllerAe
                       + load * AePerChannelBlock + ItemsMoved(k, Z) * AePerMovedPart)

Reached(m, Z) ==
    \E r \in {x \in RoutesOf(Z) : x.com = "power"} : \E t \in TerminalsOf(r) :
        t.machine = m /\ DirOf(Key(t)) = "in" /\ t.cell \in Cells(r)
Flush(k, Z) == Max({0} \cup {EndpointOf(b).flush : b \in {x \in BuiltDevices(Z) :
                                  KeyOf(x) \in EndpointKeys /\ Z.me[x[1]].id = k}})

CheckSupply(k, ae, acceptors, stores, Z) ==
    Where("ME_POWER_INSUFFICIENT", "",
          \/ ae > 0 /\ acceptors = <<>>
          \/ ae > 0 /\ ~PowerExternal /\ \E m \in Range(acceptors) : ~Reached(m, Z)
          \/ Flush(k.id, Z) > IF stores > 0 THEN ProviderBuffer * stores ELSE GridBuffer)
    \cup (IF acceptors = <<>> THEN {}
          ELSE Where("ME_POWER_INSUFFICIENT", acceptors[1],
                     ~PowerExternal /\ Total([i \in DOMAIN acceptors |-> Machine[acceptors[i]].eut]) * AePerEu * AePart < ae))

AcceptorsPlaced(k, Z) ==
    SelectSeq(MachineOrder, LAMBDA m : Machine[m].role = "acceptor" /\ Machine[m].network = k.id /\ m \in DOMAIN Z.at)
CheckAcceptors(k, own, nodes, load, Z) ==
    CheckSupply(k, Draw(k.id, own, nodes, load, Z), AcceptorsPlaced(k, Z),
                Cardinality(Those(own, nodes, "controller") \cup Those(own, nodes, "acceptor")), Z)

-----------------------------------------------------------------------------
(* Every network in one piece, and every piece one network.                *)

CheckVerdicts(k, pieces, verdicts, nodes, Z) ==
    UNION {verdicts[p].flags : p \in pieces}
    \cup (IF k.acceptor
          THEN CheckAcceptors(k, UNION pieces, nodes, FoldSet(LAMBDA p, a : a + verdicts[p].load, 0, pieces), Z)
          ELSE {})

CheckNetwork(k, pieces, nodes, joints, Z) ==
    Where("ME_NETWORK_SPLIT", k.id,
          Cardinality(pieces) > 1 /\ ~(k.attached /\ \A p \in pieces : Those(p, nodes, "root") # {}))
    \cup Where("ME_ATTACH_BUDGET", k.id,
               k.attached /\ Cardinality(Those(UNION pieces, nodes, "device")) > k.budget)
    \cup CheckVerdicts(k, pieces, [p \in pieces |-> CheckPiece(k, p, nodes, joints, Z)], nodes, Z)

CheckPieces(pieces, nodes, joints, Z) ==
    LET mixed == {p \in pieces : Cardinality({nodes[n].network : n \in p}) > 1}
        of(k) == {p \in pieces \ mixed : \A n \in p : nodes[n].network = k.id}
    IN Flagged("ME_NETWORK_MERGE", {{nodes[n].network : n \in p} : p \in mixed})
       \cup UNION {IF of(k) = {} THEN {} ELSE CheckNetwork(k, of(k), nodes, joints, Z) : k \in Range(Networks)}

CheckJoined(nodes, joints, Z) ==
    CheckPieces({DOMAIN HopsFrom(n, joints) : n \in DOMAIN nodes}, nodes, joints, Z)
CheckGraph(nodes, Z) == CheckJoined(nodes, Joints(Z, nodes), Z)

CheckMe(Z) ==
    CheckNetworks(Z) \cup CheckEndpoints(Z) \cup CheckDevices(Z) \cup CheckGround(Z)
    \cup CheckGraph(AeNodes(Z), Z)

\* The whole gate.
Judge(Z) == CheckBlocks(Z) \cup CheckMe(Z)
Violations(Z) == Judge(Examined(Z))
=============================================================================
