------------------------------ MODULE MERouter ------------------------------
(***************************************************************************)
(* The ME cable router (router/me.py): each ME network a forest of AE2     *)
(* cable, grown leaf by leaf from where its channels enter, around every   *)
(* cell taken and a cell clear of every other network's blocks, since an   *)
(* AE cable joins whatever it touches.  Where several legs or docks would  *)
(* do, one is taken.                                                       *)
(*                                                                         *)
(* A leaf is [key, machine, device, role]: a machine's ME device, a link   *)
(* or an acceptor.  A grower g is one pass over one network: its forest    *)
(* (order, the cells laid; up, cell -> the cells from it to its root;      *)
(* load, cell -> the channels through it; parts; sides, the <<cell, face>> *)
(* that hold something), and what it claimed, built and failed.            *)
(***************************************************************************)
EXTENDS LaidTree, RuleData

NoDevice == [id |-> ""]
NoNetworks == [networks |-> <<>>, terminals |-> <<>>, cells |-> {}, failed |-> {}]

-----------------------------------------------------------------------------
(* What each network asks for.                                             *)

Owned(k) == SelectSeq(MachineOrder, LAMBDA m : Machine[m].network = k)
OwnedAs(k, role) == SelectSeq(Owned(k), LAMBDA m : Machine[m].role = role)
BodiesOf(ms, L) == UNION {Body(m, L[m]) : m \in Range(ms)}
DevicesOn(m, k) == SelectSeq(Machine[m].devices, LAMBDA d : d.network = k)

Leaf(m, d, role) == [key |-> <<m, d.id>>, machine |-> m, device |-> d, role |-> role]

\* The devices in machine order, then the links.
DeviceLeaves(k) ==
    FlattenSeq([i \in DOMAIN MachineOrder |->
        LET m == MachineOrder[i]  mine == DevicesOn(m, k)
        IN IF Machine[m].role # "" THEN <<>> ELSE [j \in DOMAIN mine |-> Leaf(m, mine[j], "device")]])
LinkLeaves(k) ==
    LET links == OwnedAs(k, "link") IN [i \in DOMAIN links |-> Leaf(links[i], DevicesOn(links[i], k)[1], "link")]
LeavesOf(k) == DeviceLeaves(k) \o LinkLeaves(k)
AcceptorsOf(k) ==
    LET ms == OwnedAs(k, "acceptor") IN [i \in DOMAIN ms |-> Leaf(ms[i], NoDevice, "acceptor")]

ControllerCells(k, L) == BodiesOf(OwnedAs(k, "controller"), L)
StubCells(k, L) == Ascending(BodiesOf(OwnedAs(k, "attach"), L))
OwnBlocks(k, L) == BodiesOf(Owned(k), L)

HasSomethingToBuild(k) == Owned(k) # <<>> \/ DeviceLeaves(k) # <<>>

-----------------------------------------------------------------------------
(* What no cable can mend: refused before any is laid.                     *)

Beside(A, B) == \E c \in A : Around(c) \cap B # {}

\* Controllers AE runs as one: joined, within its span, none between others
\* along two axes.
OneCluster(cells) ==
    /\ DOMAIN Distances({FirstCell(cells)}, cells) = cells
    /\ \A a \in 1 .. 3 : Max({c[a] : c \in cells}) - Min({c[a] : c \in cells}) < ClusterSpan
    /\ \A c \in cells :
          Cardinality({f \in {"E", "U", "S"} : {Step(c, f), Step(c, Opposite[f])} \subseteq cells}) < 2

\* A device on a block of the network's, bar the one storage bus of a link.
DevicesMisplaced(k) ==
    \E m \in Machines :
        /\ Machine[m].role # ""
        /\ IF Machine[m].network = k /\ Machine[m].role = "link"
           THEN ~(Len(DevicesOn(m, k)) = 1 /\ DevicesOn(m, k)[1].kind \in StorageBuses)
           ELSE DevicesOn(m, k) # <<>>

RootsRefused(k, stubs, controllers, devices) ==
    IF k.attached
    THEN \/ controllers # {}
         \/ devices > 0 /\ stubs = <<>>
         \/ devices > k.budget
         \/ devices > DenseCapacity * Len(stubs)
    ELSE \/ stubs # <<>>
         \/ controllers # {} /\ ~OneCluster(controllers)
         \/ controllers = {} /\ devices > AdhocDevices

\* Two of its own blocks that touch where the tree could not stay one.
OwnClash(k, L) ==
    \/ \E c, d \in Range(StubCells(k, L)) : d \in Around(c)
    \/ LET others == Range(OwnedAs(k, "link") \o OwnedAs(k, "acceptor"))
       IN \E a, b \in others : a # b /\ Beside(Body(a, L[a]), Body(b, L[b]))

\* Two networks whose blocks touch are one to AE.
InfrastructureClash(k, L) ==
    \E j \in Range(Networks) : j.id # k /\ Beside(OwnBlocks(k, L), OwnBlocks(j.id, L))

Refused(k, L) ==
    \/ DevicesMisplaced(k.id)
    \/ RootsRefused(k, StubCells(k.id, L), ControllerCells(k.id, L), Len(LeavesOf(k.id)))
    \/ OwnClash(k.id, L)
    \/ InfrastructureClash(k.id, L)

-----------------------------------------------------------------------------
(* A forest.                                                               *)

Lay(g, cells, above) ==
    FoldLeft(LAMBDA h, i : [h EXCEPT !.up = @ @@ (cells[i] :> above \cup {cells[j] : j \in 1 .. i}),
                                     !.load = @ @@ (cells[i] :> 0),
                                     !.order = Append(@, cells[i])],
             g, [i \in DOMAIN cells |-> i])

LaidCells(g) == Range(g.order)

Ceiling(g, c) == IF c \in g.parts THEN SmartCapacity ELSE DenseCapacity

\* One more device at c keeps every cell on its way within capacity.
Room(g, c, part) ==
    \A n \in g.up[c] : g.load[n] < IF part /\ n = c THEN SmartCapacity ELSE Ceiling(g, n)
Headroom(g) == {c \in LaidCells(g) : Room(g, c, FALSE)}

AddDevice(g, c, side, part) ==
    [g EXCEPT !.sides = @ \cup {<<c, side>>},
              !.parts = IF part THEN @ \cup {c} ELSE @,
              !.load = [n \in DOMAIN @ |-> IF n \in g.up[c] THEN @[n] + 1 ELSE @[n]]]

\* Full only for holding a part: bare cable would carry more.
Saturated(g, c) == {n \in g.up[c] : n \in g.parts /\ g.load[n] >= SmartCapacity}

Fails(g, leaf) == [g EXCEPT !.failed = @ \cup {leaf.key}]

-----------------------------------------------------------------------------
(* Legs.  X is what a network grows against: k, L, blocked, foreign, the   *)
(* other networks' blocks and cable, claimed and noPart.                   *)

Halo(g, X) == X.foreign \cup X.own \cup LaidCells(g)
Blocked(g, X) == X.blocked \cup LaidCells(g)

\* A new cable touches no AE block but the one it grows from (a whole
\* controller, if it roots there) and what it is laid to reach.
Touched(c, halo, exempt) == (Around(c) \cap halo) \ exempt
GrowsFrom(c, starts, touched, roots) ==
    {s \in starts \cap Around(c) : touched \subseteq {s} \cup (IF s \in roots THEN roots ELSE {})}

LegBack(c, far, starts, halo, exempt, roots) ==
    LET path == CHOOSE p \in WaysBack(<<c>>, far) : TRUE
    IN <<CHOOSE s \in GrowsFrom(Head(path), starts, Touched(Head(path), halo, exempt), roots) : TRUE>> \o path

Leg(goals, far, starts, halo, exempt, roots) ==
    LET reached == goals \cap DOMAIN far
    IN IF reached = {} THEN <<>>
       ELSE LegBack(CHOOSE c \in reached : \A d \in reached : far[c] <= far[d], far, starts, halo, exempt, roots)

LegOver(free, starts, goals, halo, exempt, roots) ==
    Leg(goals,
        Distances({c \in free : GrowsFrom(c, starts, Touched(c, halo, exempt), roots) # {}},
                  {c \in free : Touched(c, halo, exempt) = {}}),
        starts, halo, exempt, roots)

\* The shortest leg from starts to goals, start first; <<>> when none.
LegTo(g, X, starts, goals, exempt, mayEnter) ==
    LegOver(FreeCells(Blocked(g, X) \ mayEnter), starts, goals, Halo(g, X), exempt, X.controllers)

LayLeg(g, path) ==
    Lay(g, Tail(path), IF Head(path) \in LaidCells(g) THEN g.up[Head(path)] ELSE {})

\* Asked again from the cable that had no channel left: a leg, or a tap with
\* no room, found then is a bottleneck a part may have made.
Unreached(g, leaf, taps, path) ==
    [Fails(g, leaf) EXCEPT !.bottlenecks =
        @ \cup UNION {Saturated(g, c) : c \in taps \cup (IF path = <<>> THEN {} ELSE {Head(path)})}]

FullCable(g, starts) == LaidCells(g) \ starts

-----------------------------------------------------------------------------
(* The leaves.                                                             *)

IsGt(leaf) == leaf.device.kind \in GtHatches
TakesSlot(leaf) == IsGt(leaf) \/ leaf.device.hatch # ""

\* A device docks where every port it serves may.
DeviceDocks(leaf, X, claimed) ==
    {t \in DockCandidates(leaf.machine, leaf.device.ports[1], X.L[leaf.machine], X.blocked, {},
                          claimed[leaf.machine]) :
        \A p \in Range(leaf.device.ports) : t.face \in AllowedFaces(leaf.machine, p, X.L[leaf.machine].front)}

PlaceDevice(g, leaf, t) ==
    [AddDevice(g, t.cell, Opposite[t.face], ~IsGt(leaf)) EXCEPT
        !.claimed[leaf.machine] = @ \cup {ClaimKey(t)},
        !.terminals = IF TakesSlot(leaf) THEN Append(@, t) ELSE @,
        !.devices = Append(@, [machine |-> leaf.machine, id |-> leaf.device.id, kind |-> leaf.device.kind,
                               cell |-> IF IsGt(leaf) THEN BodyCell(t) ELSE t.cell,
                               side |-> IF IsGt(leaf) THEN t.face ELSE Opposite[t.face]])]

CanTap(g, leaf, t) ==
    /\ t.cell \in LaidCells(g)
    /\ <<t.cell, Opposite[t.face]>> \notin g.sides
    /\ Room(g, t.cell, ~IsGt(leaf))

Shallowest(g, taps) ==
    CHOOSE t \in taps : \A u \in taps : Cardinality(g.up[t.cell]) <= Cardinality(g.up[u.cell])

NearestSeed(seeds, aim) ==
    IF aim = <<>> THEN CHOOSE t \in seeds : TRUE
    ELSE CHOOSE t \in seeds : \A u \in seeds : Manhattan(t.cell, aim) <= Manhattan(u.cell, aim)

\* An ad-hoc tree starts at its first device, clear of every AE block.
SeedDevice(g, leaf, X, usable, aim) ==
    LET seeds == {t \in usable : Around(t.cell) \cap Halo(g, X) = {}}
    IN IF seeds = {} THEN Fails(g, leaf)
       ELSE LET t == NearestSeed(seeds, aim) IN PlaceDevice(Lay(g, <<t.cell>>, {}), leaf, t)

ExtendOver(g, leaf, X, usable, goals, starts, path) ==
    IF path # <<>>
    THEN PlaceDevice(LayLeg(g, path), leaf, CHOOSE t \in usable : t.cell = Last(path))
    ELSE Unreached(g, leaf, {t.cell : t \in usable} \cap LaidCells(g),
                   LegTo(g, X, FullCable(g, starts), goals, {}, {}))

ExtendFrom(g, leaf, X, usable, goals, starts) ==
    ExtendOver(g, leaf, X, usable, goals, starts, LegTo(g, X, starts, goals, {}, {}))

Unseeded(g, X) == g.order = <<>> /\ X.controllers = {}
ChannelStarts(g, X) == Headroom(g) \cup X.controllers

AttachDevice(g, leaf, X, usable, aim) ==
    LET taps == {t \in usable : CanTap(g, leaf, t)}
    IN IF usable = {} THEN Fails(g, leaf)
       ELSE IF taps # {} THEN PlaceDevice(g, leaf, Shallowest(g, taps))
       ELSE IF Unseeded(g, X) THEN SeedDevice(g, leaf, X, usable, aim)
       ELSE ExtendFrom(g, leaf, X, usable, {t.cell : t \in usable} \ LaidCells(g), ChannelStarts(g, X))

GrowDevice(g, leaf, X, aim) ==
    AttachDevice(g, leaf, X,
                 {t \in DeviceDocks(leaf, X, g.claimed) : IsGt(leaf) \/ t.cell \notin X.noPart}, aim)

\* A link's own cell joins the forest, its storage bus on its front.
CarryBus(g, leaf, at) ==
    [AddDevice(g, at.cell, at.front, TRUE) EXCEPT
        !.devices = Append(@, [machine |-> leaf.machine, id |-> leaf.device.id, kind |-> leaf.device.kind,
                               cell |-> at.cell, side |-> at.front])]

LinkOver(g, leaf, X, at, starts, path) ==
    IF path # <<>> THEN CarryBus(LayLeg(g, path), leaf, at)
    ELSE Unreached(g, leaf, {}, LegTo(g, X, FullCable(g, starts), {at.cell}, {at.cell}, {at.cell}))

GrowLink(g, leaf, X) ==
    LET at == X.L[leaf.machine]
    IN IF Unseeded(g, X) THEN CarryBus(Lay(g, <<at.cell>>, {}), leaf, at)
       ELSE LinkOver(g, leaf, X, at, ChannelStarts(g, X),
                     LegTo(g, X, ChannelStarts(g, X), {at.cell}, {at.cell}, {at.cell}))

\* An acceptor joins on every side, so one cable touches it and no more.
AcceptorOver(g, leaf, path) == IF path = <<>> THEN Fails(g, leaf) ELSE LayLeg(g, path)

SidesOf(body) == (UNION {Around(c) : c \in body}) \ body
Touches(g, X, body) ==
    Cardinality(SidesOf(body) \cap LaidCells(g))
    + (IF SidesOf(body) \cap X.controllers # {} THEN 1 ELSE 0)

GrowAcceptor(g, leaf, X) ==
    LET body == Body(leaf.machine, X.L[leaf.machine])
    IN IF Touches(g, X, body) > 0 \/ LaidCells(g) \cup X.controllers = {} THEN g
       ELSE AcceptorOver(g, leaf, LegTo(g, X, LaidCells(g) \cup X.controllers, SidesOf(body), body, {}))

-----------------------------------------------------------------------------
(* One network: its leaves in order, then its acceptors; with a leaf left, *)
(* again with the failed leaves first and the cells that ran out of        *)
(* channels for holding a part barred from it, until nothing new comes up. *)

NewGrower(X) ==
    FoldLeft(LAMBDA g, c : Lay(g, <<c>>, {}),
             [order |-> <<>>, up |-> <<>>, load |-> <<>>, parts |-> {}, sides |-> {}, claimed |-> X.claimed,
              devices |-> <<>>, terminals |-> <<>>, failed |-> {}, bottlenecks |-> {}],
             X.stubs)

AimOf(order, i, X) == IF i = Len(order) THEN <<>> ELSE X.L[order[i + 1].machine].cell
GrowLeaf(g, order, i, X) ==
    IF order[i].role = "link" THEN GrowLink(g, order[i], X) ELSE GrowDevice(g, order[i], X, AimOf(order, i, X))

GrowForest(order, acceptors, X) ==
    FoldLeft(LAMBDA g, a : GrowAcceptor(g, a, X),
             FoldLeft(LAMBDA g, i : GrowLeaf(g, order, i, X), NewGrower(X), [i \in DOMAIN order |-> i]),
             acceptors)

\* A device with nowhere to dock, or an acceptor joined twice already, fails
\* whatever is laid.
Doomed(leaves, acceptors, X) ==
    \/ \E l \in Range(leaves) : l.role = "device" /\ DeviceDocks(l, X, X.claimed) = {}
    \/ \E a \in Range(acceptors) : Touches(NewGrower(X), X, Body(a.machine, X.L[a.machine])) > 1

FailedFirst(leaves, failed) ==
    LET leads(l) == l.key \in failed
        follows(l) == l.key \notin failed
    IN SelectSeq(leaves, leads) \o SelectSeq(leaves, follows)

MaxPasses == 16
Unbuilt == [failed |-> {"network"}]

Barred(X, g) == [X EXCEPT !.noPart = @ \cup g.bottlenecks]

RECURSIVE Tried(_, _, _, _, _)
RECURSIVE AfterTry(_, _, _, _, _)
Tried(failed, X, leaves, acceptors, seen) ==
    AfterTry(GrowForest(FailedFirst(leaves, failed), acceptors, X), X, leaves, acceptors, seen)
AfterTry(g, X, leaves, acceptors, seen) ==
    IF g.failed = {} THEN g
    ELSE IF <<g.failed, X.noPart>> \in seen \/ Cardinality(seen) + 1 >= MaxPasses THEN Unbuilt
    ELSE Tried(g.failed, Barred(X, g), leaves, acceptors, seen \cup {<<g.failed, X.noPart>>})

GrowNetwork(leaves, acceptors, X) ==
    IF Doomed(leaves, acceptors, X) THEN Unbuilt ELSE Tried({}, X, leaves, acceptors, {})

\* Mutant: smart cable under a part alone.
CableKindDense(g, c, stubs) == IF c \in g.parts THEN "smart" ELSE "dense"

CableKind(g, c, stubs) ==
    IF c \in Range(stubs) THEN "dense"
    ELSE IF c \in g.parts \/ g.load[c] <= SmartCapacity THEN "smart" ELSE "dense"

\* A subnet that asks for no colour gets the first no other asked for.
Colours == <<"white", "orange", "magenta", "light_blue">>
ColourOf(id) ==
    LET k == CHOOSE x \in Range(Networks) : x.id = id
        free == SelectSeq(Colours, LAMBDA c : \A j \in Range(Networks) : j.colour # c)
        unset == SelectSeq(Networks, LAMBDA j : ~j.attached /\ j.colour = "")
    IN IF k.attached THEN "fluix" ELSE IF k.colour # "" THEN k.colour
       ELSE free[CHOOSE i \in DOMAIN unset : unset[i].id = id]

NetworkLaid(k, g, X) ==
    [id |-> k.id, colour |-> ColourOf(k.id), cells |-> g.order, devices |-> Range(g.devices),
     kind |-> [c \in LaidCells(g) |-> CableKind(g, c, X.stubs)], channels |-> g.load]

-----------------------------------------------------------------------------
(* Every network, each one's cable foreign to the next, the failed ones    *)
(* first on the next pass.                                                 *)

OtherBlocks(k, L) == UNION {OwnBlocks(j.id, L) : j \in {x \in Range(Networks) : x.id # k}}

Built(acc, k, g, X) ==
    IF g.failed # {} THEN [acc EXCEPT !.failed = @ \cup {k.id}]
    ELSE [acc EXCEPT !.built = @ @@ (k.id :> NetworkLaid(k, g, X)), !.ends = @ @@ (k.id :> g.terminals),
                     !.cells = @ \cup LaidCells(g), !.claimed = g.claimed]

BuildNetwork(acc, k, X) == Built(acc, k, GrowNetwork(LeavesOf(k.id), AcceptorsOf(k.id), X), X)

LayNetwork(acc, k, L, base) ==
    IF Refused(k, L) THEN [acc EXCEPT !.failed = @ \cup {k.id}]
    ELSE BuildNetwork(acc, k,
             [L |-> L, blocked |-> base \cup acc.cells, foreign |-> OtherBlocks(k.id, L) \cup acc.cells,
              own |-> OwnBlocks(k.id, L), controllers |-> ControllerCells(k.id, L),
              stubs |-> StubCells(k.id, L), claimed |-> acc.claimed, noPart |-> {}])

NetworkPass(order, L, base, claimed) ==
    FoldLeft(LAMBDA acc, k : LayNetwork(acc, k, L, base),
             [built |-> <<>>, ends |-> <<>>, cells |-> {}, claimed |-> claimed, failed |-> {}], order)

ToLay == SelectSeq(Networks, LAMBDA k : HasSomethingToBuild(k.id) \/ DevicesMisplaced(k.id))

FailedNetworksFirst(failed) ==
    LET leads(k) == k.id \in failed
        follows(k) == k.id \notin failed
    IN SelectSeq(ToLay, leads) \o SelectSeq(ToLay, follows)

RECURSIVE Rerouted(_, _, _, _, _)
RECURSIVE AfterNetworks(_, _, _, _, _)
Rerouted(failed, seen, L, base, claimed) ==
    AfterNetworks(NetworkPass(FailedNetworksFirst(failed), L, base, claimed), seen, L, base, claimed)
AfterNetworks(pass, seen, L, base, claimed) ==
    IF pass.failed = {} \/ pass.failed \in seen \/ Cardinality(seen) + 1 >= MaxPasses THEN pass
    ELSE Rerouted(pass.failed, seen \cup {pass.failed}, L, base, claimed)

MeResult(pass) ==
    LET whole == SelectSeq(ToLay, LAMBDA k : k.id \notin pass.failed)
    IN [networks |-> [i \in DOMAIN whole |-> pass.built[whole[i].id]],
        terminals |-> FlattenSeq([i \in DOMAIN whole |-> pass.ends[whole[i].id]]),
        cells |-> pass.cells, failed |-> pass.failed]

\* The cell before a stub or link is kept clear: the main network feeds it.
FrontGuards(L) ==
    {Step(L[m].cell, L[m].front) : m \in {x \in Machines : Machine[x].role \in {"attach", "link"}}}

RouteOver(L, base, claimed) == MeResult(Rerouted({}, {}, L, base, claimed))

RouteMe(L, taken, claimed) ==
    IF ToLay = <<>> THEN NoNetworks
    ELSE RouteOver(L, ObstacleCells(L) \cup DOMAIN FilterBacks(L) \cup taken \cup FrontGuards(L), claimed)
=============================================================================
