------------------------------- MODULE Hatches -------------------------------
(***************************************************************************)
(* Which casing cell each connection of a finished layout turns into a     *)
(* hatch, and the hatches that serve no net (router/hatches.py): a spare   *)
(* on every unused output layer of a tower, a maintenance hatch, and a     *)
(* muffler with air in front of it.  The passes share the casing cells     *)
(* claimed so far, so each one's order is part of what it may do.          *)
(*                                                                         *)
(* A placed hatch is [machine, kind, cell, face, port]; a shortfall is the *)
(* machine and what it was short of.  p is the plan so far: hatches,       *)
(* claimed (machine -> casing cells), short, and blocked, the cells no     *)
(* muffler may vent into.                                                  *)
(***************************************************************************)
EXTENDS AutoOutput

NoPort == ""

SlotCell(m, s, at) == Plus(at.cell, RotatedSlot(s.off, Machine[m].size, at.front))
SlotsAt(m, c, at) == {s \in Machine[m].slots : SlotCell(m, s, at) = c}

\* A port's plainest kind among those its cell records, else its plainest.
Plainest(kinds) == CASE "Energy" \in kinds -> "Energy"
                     [] "ExoticEnergy" \in kinds /\ "Energy" \notin kinds -> "ExoticEnergy"
                     [] OTHER -> CHOOSE k \in kinds : TRUE
PlainestOr(recorded, kinds) == Plainest(IF recorded = {} THEN kinds ELSE recorded)
KindAt(m, p, c, at) ==
    PlainestOr(HatchKinds(Port(m, p).com, Port(m, p).dir) \cap UNION {s.kinds : s \in SlotsAt(m, c, at)},
               HatchKinds(Port(m, p).com, Port(m, p).dir))

Emit(p, h) == [p EXCEPT !.hatches = @ \cup {h}, !.claimed[h.machine] = @ \cup {h.cell}]

-----------------------------------------------------------------------------
(* The hatches routing already chose a cell for.                           *)

\* One terminal per machine and port, the first laid.
Terminals(routes) ==
    LET all == FlattenSeq([i \in DOMAIN routes |-> routes[i].terminals])
        add(s, t) == IF \E i \in DOMAIN s : s[i].machine = t.machine /\ s[i].port = t.port
                     THEN s ELSE Append(s, t)
    IN FoldLeft(add, <<>>, all)

Routed(p, t, kind) ==
    IF ~IsMultiblock(t.machine) \/ BodyCell(t) \in p.claimed[t.machine] THEN p
    ELSE Emit(p, [machine |-> t.machine, kind |-> kind, cell |-> BodyCell(t), face |-> t.face,
                  port |-> t.port])

RoutedHatch(p, t, L) == Routed(p, t, KindAt(t.machine, t.port, BodyCell(t), L[t.machine]))

\* An ME device's hatch is of the kind its endpoint names.
MeHatch(p, t, L) ==
    LET naming == SelectSeq(Machine[t.machine].devices,
                            LAMBDA d : d.hatch # "" /\ \E i \in DOMAIN d.ports : d.ports[i] = t.port)
    IN Routed(p, t, IF naming # <<>> THEN naming[1].hatch
                    ELSE KindAt(t.machine, t.port, BodyCell(t), L[t.machine]))

\* The two casing cells a free connection runs through, on the faces it was
\* given; a single block places no hatch and its face does the work.
FirstUnclaimed(cells) == IF cells = {} THEN NoPair ELSE FirstCell(cells)
EjectingCell(p, a, L) ==
    LET src == a.src[1]  dst == a.dst[1]
        hosts == HostCells(dst, a.dst[2], L[dst]) \ p.claimed[dst]
    IN FirstUnclaimed({c \in HostCells(src, a.src[2], L[src]) \ p.claimed[src] : Step(c, a.face) \in hosts})

EmitSide(p, m, q, c, face, L) ==
    IF ~IsMultiblock(m) THEN p
    ELSE Emit(p, [machine |-> m, kind |-> KindAt(m, q, c, L[m]), cell |-> c, face |-> face, port |-> q])

AutoPairAt(p, a, c, L) ==
    IF c = NoPair THEN [p EXCEPT !.short = @ \cup {<<a.src[1], "auto">>}]
    ELSE EmitSide(EmitSide(p, a.src[1], a.src[2], c, a.face, L),
                  a.dst[1], a.dst[2], Step(c, a.face), Opposite[a.face], L)

AutoHatches(p, a, L) == AutoPairAt(p, a, EjectingCell(p, a, L), L)

-----------------------------------------------------------------------------
(* The hatches that serve no net, on the first free face of their kind.    *)

FirstFace(options) ==
    CHOOSE h \in options : \A g \in options :
        h = g \/ FaceRank[h[2]] < FaceRank[g[2]] \/ (h[2] = g[2] /\ CellLess(h[1], g[1]))

Unclaimed(p, m, faces) == {h \in faces : h[1] \notin p.claimed[m]}

Serve(p, m, kind, options, short) ==
    IF options = {} THEN [p EXCEPT !.short = @ \cup {<<m, short>>}]
    ELSE LET h == FirstFace(options)
         IN Emit(p, [machine |-> m, kind |-> kind, cell |-> h[1], face |-> h[2], port |-> NoPort])

\* The layers of a tower no product uses and no output hatch stands on.  One
\* with a fluid output on ME is left alone.
FluidOnMe(m) == \E n \in NetSet : /\ RidesMe(n) /\ n.com = "fluid"
                                  /\ \E e \in Ends(n) : e[1] = m /\ Port(m, e[2]).dir = "out"
OwnedLayers(m) == {q.layer : q \in PortsOf(m)}
CoveredLayers(p, m, L) ==
    {s.layer : s \in UNION {SlotsAt(m, h.cell, L[m]) :
                               h \in {g \in p.hatches : g.machine = m /\ g.kind = "OutputHatch"}}}

LayerHatches(p, m, L) ==
    IF FluidOnMe(m) THEN p
    ELSE LET bare == OutputLayers(m) \ (OwnedLayers(m) \cup CoveredLayers(p, m, L))
             spare(q, k) == Serve(q, m, "OutputHatch",
                                  Unclaimed(q, m, HatchFaces(m, L[m], "OutputHatch", {k})), "layer")
         IN FoldLeft(spare, p, SetToSortSeq(bare, <))

Recorded(m) == UNION {s.kinds : s \in Machine[m].slots}

\* A hatch placed for upkeep blocks the cell it takes too.
Blocking(before, after) ==
    [after EXCEPT !.blocked = @ \cup {h.cell : h \in after.hatches \ before.hatches}]

\* Mutant: a muffler takes the first free face, whatever stands in front of it.
VentingBlindly(p, options) == options

\* A muffler vents through empty air or not at all.
Venting(p, options) == {h \in options : h[3] \notin p.blocked \cup Reserved}

Muffled(p, m, options) ==
    Serve(p, m, "Muffler", Venting(p, options), IF options = {} THEN "Muffler" ELSE "vent")

UpkeepHatches(p, m, L) ==
    LET free(q, kind) == Unclaimed(q, m, HatchFaces(m, L[m], kind, AnyLayer(m)))
        maintain(q) == IF "Maintenance" \notin Recorded(m) THEN q
                       ELSE Blocking(q, Serve(q, m, "Maintenance", free(q, "Maintenance"), "Maintenance"))
        muffle(q) == IF "Muffler" \notin Recorded(m) THEN q
                     ELSE Blocking(q, Muffled(q, m, free(q, "Muffler")))
    IN muffle(maintain(p))

-----------------------------------------------------------------------------
(* The plan: routes, ME devices, free connections, spares, upkeep.         *)

\* Machines in id order: TLA+ strings have none, so a line lists its own.
ById == line.sorted

Connected(routes, meTerminals, autos, L) ==
    FoldLeft(LAMBDA p, a : AutoHatches(p, a, L),
             FoldLeft(LAMBDA p, t : MeHatch(p, t, L),
                      FoldLeft(LAMBDA p, t : RoutedHatch(p, t, L),
                               [hatches |-> {}, claimed |-> NothingClaimed, short |-> {}, blocked |-> {}],
                               Terminals(routes)),
                      meTerminals),
             autos)

Spared(p, L) ==
    FoldLeft(LAMBDA q, m : LayerHatches(q, m, L), p, SelectSeq(ById, LAMBDA m : OutputLayers(m) # {}))

Kept(p, L) ==
    FoldLeft(LAMBDA q, m : UpkeepHatches(q, m, L), p, SelectSeq(ById, IsMultiblock))

WithBlocked(p, occupied) == [p EXCEPT !.blocked = occupied \cup {h.cell : h \in p.hatches}]

PlaceHatches(routes, meTerminals, autos, occupied, L) ==
    Kept(WithBlocked(Spared(Connected(routes, meTerminals, autos, L), L), occupied), L)
=============================================================================
