------------------------------ MODULE Validator ------------------------------
(***************************************************************************)
(* The gate every layout passes (validator/core.py): what it proves wrong  *)
(* with a layout, from the problem and the layout alone.  It re-derives    *)
(* everything on its own geometry and its own arithmetic, so no definition *)
(* of a placer, a router or the hatch planner is used here.                *)
(*                                                                         *)
(* A layout Z has at (machine -> [cell, front]), routes, autos (the auto-  *)
(* connections [net, src, face, dst, dstFace]), hatches ([machine, kind,   *)
(* cell, face, port], port "" for a hatch of no port) and me (the ME       *)
(* networks).  A route is [net, com, terminals, segments, thick, tier,     *)
(* size]: terminals a sequence of [machine, port, face, cell], segments a  *)
(* sequence of <<a, b>>, thick their gauges and tier the cable's (power),  *)
(* size the pipe's.  Layouts name known machines and nets, and place no    *)
(* machine twice.  A violation is <<its code, what it is about>>.          *)
(***************************************************************************)
EXTENDS Line, RuleData, SequencesExt

-----------------------------------------------------------------------------
(* The gate's own arithmetic (validator/_geometry.py): turned bodies, pins *)
(* and slots worked out a second time from the convention, and the graph   *)
(* questions it asks of a route.  Only the face deltas are shared with the *)
(* stages the gate checks.                                                 *)

QuarterTurns == [N |-> 0, E |-> 1, S |-> 2, W |-> 3, U |-> 0, D |-> 0]
FacingAtTurns(k) == <<"N", "E", "S", "W">>[(k % 4) + 1]

\* The world faces a port may use: any but the front, or the ones it is
\* pinned to, turned.
UsableFaces(pins, front) ==
    LET world == [front |-> front, back |-> Opposite[front],
                  right |-> FacingAtTurns(QuarterTurns[front] + 1),
                  left |-> FacingAtTurns(QuarterTurns[front] + 3),
                  up |-> "U", down |-> "D"]
    IN IF pins = {} THEN Faces \ {front} ELSE {world[pin] : pin \in pins}

\* An odd turn exchanges width and depth; the corner stays where it is.
BodyCells(o, size, front) ==
    LET odd == QuarterTurns[front] % 2 = 1
        width == IF odd THEN size[3] ELSE size[1]
        depth == IF odd THEN size[1] ELSE size[3]
    IN {<<o[1] + x, o[2] + y, o[3] + z>> : x \in 0 .. width - 1, y \in 0 .. size[2] - 1, z \in 0 .. depth - 1}

\* Where a slot lands: a turn carries (x, z) to (-z, x), brought back to the
\* corner by the depth of the box it turned.
SlotOffset(off, size, front) ==
    LET quarter[k \in 0 .. 3] ==
            IF k = 0 THEN [at |-> off, size |-> size]
            ELSE LET q == quarter[k - 1]
                 IN [at |-> <<q.size[3] - 1 - q.at[3], q.at[2], q.at[1]>>,
                     size |-> <<q.size[3], q.size[2], q.size[1]>>]
    IN quarter[QuarterTurns[front]].at

PlacedSlot(o, size, front, slot) ==
    LET d == SlotOffset(slot.off, size, front) IN <<o[1] + d[1], o[2] + d[2], o[3] + d[3]>>

Inside(c) == \A a \in 1 .. 3 : 0 <= c[a] /\ c[a] < Region[a]

IsUnitStep(a, b) == Abs(a[1] - b[1]) + Abs(a[2] - b[2]) + Abs(a[3] - b[3]) = 1

-----------------------------------------------------------------------------
(* Graphs, as sets of edges <<a, b>> read both ways.                       *)

Nodes(edges) == {e[1] : e \in edges} \cup {e[2] : e \in edges}
Joined(S, edges) == {e[2] : e \in {d \in edges : d[1] \in S}} \cup {e[1] : e \in {d \in edges : d[2] \in S}}

\* Hops from the cells of hops to every cell they reach, breadth first.
RECURSIVE Wave(_, _, _)
Wave(hops, k, edges) ==
    LET next == Joined(DOMAIN hops, edges) \ DOMAIN hops
    IN IF next = {} THEN hops
       ELSE Wave([c \in DOMAIN hops \cup next |-> IF c \in next THEN k ELSE hops[c]], k + 1, edges)
HopsFrom(start, edges) == Wave([c \in {start} |-> 0], 1, edges)

IsConnected(edges) ==
    edges # {} /\ LET a == (CHOOSE e \in edges : TRUE)[1] IN DOMAIN HopsFrom(a, edges) = Nodes(edges)

\* What a segment leads to: the part of the tree its deeper end is left in
\* when the segment is taken out.
Beyond(edges, e, depth) ==
    DOMAIN HopsFrom(IF depth[e[1]] > depth[e[2]] THEN e[1] ELSE e[2], edges \ {e})
-----------------------------------------------------------------------------
(* What the gate reads of a layout.                                        *)

Flagged(code, S) == {<<code, s>> : s \in S}
Where(code, s, holds) == IF holds THEN {<<code, s>>} ELSE {}

NetOf(id) == CHOOSE n \in NetSet : n.id = id
RoutesOf(Z) == Range(Z.routes)
TerminalsOf(r) == Range(r.terminals)
EdgesOf(r) == Range(r.segments)
Key(t) == <<t.machine, t.port>>
KnownPort(k) == HasPort(k[1], k[2])
DirOf(k) == IF KnownPort(k) THEN Port(k[1], k[2]).dir ELSE ""
Sources(n) == {e \in Ends(n) : DirOf(e) = "out"}
Sinks(n) == {e \in Ends(n) : DirOf(e) = "in"}

\* A route's blocks: its segments' ends, or a lone block its terminals share.
Cells(r) == IF r.segments = <<>> THEN {t.cell : t \in TerminalsOf(r)} ELSE Nodes(EdgesOf(r))

\* A layout under examination carries the bodies, worked out once.
Examined(Z) ==
    [body |-> [m \in DOMAIN Z.at |-> BodyCells(Z.at[m].cell, Machine[m].size, Z.at[m].front)] @@ <<>>] @@ Z
BodyOf(m, Z) == Z.body[m]
Bodies(Z) == UNION {BodyOf(m, Z) : m \in DOMAIN Z.at}
SlotCellOf(s, m, Z) == PlacedSlot(Z.at[m].cell, Machine[m].size, Z.at[m].front, s)
MeCells(Z) == UNION {Range(Z.me[i].cells) : i \in DOMAIN Z.me}

-----------------------------------------------------------------------------
(* Placements.                                                             *)

CheckPlacements(Z) ==
    LET placed == DOMAIN Z.at
    IN Flagged("BAD_ORIENTATION", {m \in placed : Z.at[m].front \notin Range(Machine[m].facings)})
       \cup Flagged("MACHINE_OUT_OF_BOUNDS", {m \in placed : \E c \in BodyOf(m, Z) : ~Inside(c)})
       \cup Flagged("MACHINE_ON_RESERVED", {m \in placed : BodyOf(m, Z) \cap Reserved # {}})
       \cup Flagged("MACHINE_OVERLAP", {m \in placed : \E k \in placed \ {m} : BodyOf(m, Z) \cap BodyOf(k, Z) # {}})
       \cup Flagged("PLACEMENT_COUNT_MISMATCH", Machines \ placed)

\* A front that takes what comes from outside lies flush on the boundary.
FrontInside(m, Z) ==
    \E c \in BodyOf(m, Z) : LET d == Step(c, Z.at[m].front) IN d \notin BodyOf(m, Z) /\ Inside(d)
CheckPowerFeed(Z) ==
    Flagged("FRONT_NOT_ON_BOUNDARY", {m \in DOMAIN Z.at : FrontsOutside(m) /\ FrontInside(m, Z)})

\* No machine is wired more connections than its structure has cells.
CheckHatchCells ==
    Flagged("HATCH_CELLS_EXCEEDED",
            {m \in Machines : IsMultiblock(m) /\ Len(Machine[m].ports) > Cardinality(Machine[m].slots)})

-----------------------------------------------------------------------------
(* Routes.                                                                 *)

\* A pipe may be a single block that every terminal docks on; a cable may not.
IsOneBlockPipe(r) == r.segments = <<>> /\ r.com # "power" /\ Cardinality(Cells(r)) = 1

CheckRoute(r, Z) ==
    Where("ROUTE_COMMODITY_MISMATCH", r.net, r.com # NetOf(r.net).com)
    \cup Where("UNEXPECTED_ME_ROUTE", r.net, RidesMe(NetOf(r.net)))
    \cup Where("ROUTE_SEGMENT_NOT_UNIT", r.net, \E e \in EdgesOf(r) : ~IsUnitStep(e[1], e[2]))
    \cup Where("ROUTE_DISCONTINUOUS", r.net, ~IsConnected(EdgesOf(r)) /\ ~IsOneBlockPipe(r))
    \cup Where("ROUTE_OUT_OF_BOUNDS", r.net, \E c \in Cells(r) : ~Inside(c))
    \cup Where("ROUTE_THROUGH_MACHINE", r.net, Cells(r) \cap Bodies(Z) # {})
    \cup Where("ROUTE_ON_RESERVED", r.net, Cells(r) \cap Reserved # {})
    \cup Where("POWER_THICKNESS_INVALID", r.net,
               r.com = "power" /\ ~(Len(r.thick) = Len(r.segments) /\ Range(r.thick) \subseteq Thicknesses))

\* The producers an auto-connection ejects from.
Fed(n, Z) == {s \in Sources(n) : \E a \in Range(Z.autos) : a.net = n.id /\ a.src = s[1]}
OnRoute(n, Z) == UNION {{Key(t) : t \in TerminalsOf(r)} : r \in {x \in RoutesOf(Z) : x.net = n.id}}
IsRouted(n, Z) == \E r \in RoutesOf(Z) : r.net = n.id

\* Every producer reaches its consumers once: by auto-output or by the route.
CheckNetConnected(n, Z) ==
    LET fed == Fed(n, Z)
        unfed == Sources(n) \ fed
    IN IF ~IsRouted(n, Z) THEN Where("MISSING_CONNECTION", n.id, fed = {} \/ unfed # {})
       ELSE Where("NET_DOUBLE_CONNECTED", n.id,
                  fed # {} /\ (unfed = {} \/ Cardinality(Sinks(n)) # 1 \/ fed \cap OnRoute(n, Z) # {}))

\* A routed net delivers to someone, and carries one commodity.
CheckRoutedNetEndpoints(n) ==
    Where("ROUTE_NET_NO_CONSUMER", n.id, Sinks(n) = {})
    \cup Where("ROUTE_NET_MIXED_COMMODITY", n.id, \E e \in Ends(n) : KnownPort(e) /\ Port(e[1], e[2]).com # n.com)

Built == {n \in NetSet : ~RidesMe(n)}

CheckRoutes(Z) ==
    Flagged("DUPLICATE_ROUTE", {n.id : n \in {x \in NetSet : Cardinality({i \in DOMAIN Z.routes : Z.routes[i].net = x.id}) > 1}})
    \cup UNION {CheckRoute(r, Z) : r \in RoutesOf(Z)}
    \cup UNION {CheckNetConnected(n, Z) : n \in Built}
    \cup UNION {CheckRoutedNetEndpoints(n) : n \in {x \in Built : IsRouted(x, Z)}}

\* One block cannot be two pipes.
CheckRouteCapacity(Z) ==
    Flagged("ROUTE_CELL_COLLISION",
            {c \in UNION {Cells(r) : r \in RoutesOf(Z)} :
                Cardinality({r.net : r \in {q \in RoutesOf(Z) : c \in Cells(q)}}) > 1})

-----------------------------------------------------------------------------
(* Where a connection meets its machine.                                   *)

PinsOf(k) == IF KnownPort(k) THEN Port(k[1], k[2]).pins ELSE {}

\* Why a port may not connect through a face: an unpinned one not on its
\* front, a pinned one only where it is pinned.
FaceRefusal(k, face, frontCode, Z) ==
    IF face \in UsableFaces(PinsOf(k), Z.at[k[1]].front) THEN {}
    ELSE {<<IF PinsOf(k) = {} THEN frontCode ELSE "TERMINAL_ON_DISALLOWED_FACE", k>>}

Behind(t) == Step(t.cell, Opposite[t.face])

CheckTerminal(t, r, Z) ==
    FaceRefusal(Key(t), t.face, "TERMINAL_ON_FRONT_FACE", Z)
    \cup Where("TERMINAL_NOT_ADJACENT", Key(t),
               Behind(t) \notin BodyOf(t.machine, Z) \/ t.cell \in BodyOf(t.machine, Z))
    \cup Where("TERMINAL_NOT_ON_ROUTE", Key(t), t.cell \notin Cells(r))

\* A terminal pins one of the net's own ends, exactly once; a producer that
\* auto-outputs is not on the pipe.
CheckTerminals(r, Z) ==
    LET ends == Ends(NetOf(r.net))
        have == {Key(t) : t \in TerminalsOf(r)}
    IN Flagged("MISSING_TERMINAL", ends \ (have \cup Fed(NetOf(r.net), Z)))
       \cup Flagged("TERMINAL_NOT_AN_ENDPOINT", have \ ends)
       \cup Flagged("DUPLICATE_TERMINAL",
                    {k \in have : Cardinality({i \in DOMAIN r.terminals : Key(r.terminals[i]) = k}) > 1})
       \cup UNION {CheckTerminal(t, r, Z) : t \in {u \in TerminalsOf(r) : Key(u) \in ends /\ u.machine \in DOMAIN Z.at}}

\* The casing cells that could host a port's hatch: those that name one of
\* its kinds, or all of them where the structure names none.
KindsFor(k) == IF KnownPort(k) THEN HatchKinds(Port(k[1], k[2]).com, Port(k[1], k[2]).dir) ELSE {}
HatchHosts(k, Z) ==
    LET m == k[1]
        matching == {s \in Machine[m].slots : s.kinds \cap KindsFor(k) # {}}
    IN IF Machine[m].slots = {} THEN BodyOf(m, Z)
       ELSE {SlotCellOf(s, m, Z) : s \in NamingOrAny(matching, Machine[m].slots)}

AllTerminals(Z) == UNION {TerminalsOf(r) : r \in RoutesOf(Z)}

\* On a multiblock the block behind a terminal becomes the hatch, so it must
\* take that kind and only one connection may want it.
CheckTerminalHatchCells(Z) ==
    LET on == {t \in AllTerminals(Z) : IsMultiblock(t.machine) /\ t.machine \in DOMAIN Z.at}
        hosted == {t \in on : Behind(t) \in HatchHosts(Key(t), Z)}
    IN Flagged("TERMINAL_NOT_ON_HATCH_CELL", {Key(t) : t \in on \ hosted})
       \cup Flagged("TERMINAL_HATCH_CONTENTION",
                    {<<t.machine, Behind(t)>> : t \in {u \in hosted : \E v \in hosted :
                        v.machine = u.machine /\ v.port # u.port /\ Behind(v) = Behind(u)}})

\* A face of a single block carries one connection.
CheckTerminalFaces(Z) ==
    LET on == {t \in AllTerminals(Z) : ~IsMultiblock(t.machine)}
    IN Flagged("TERMINAL_FACE_CONTENTION",
               {<<t.machine, t.cell>> : t \in {u \in on : \E v \in on :
                   v.machine = u.machine /\ v.port # u.port /\ v.cell = u.cell}})

-----------------------------------------------------------------------------
(* Auto-connections: the port each machine connects its net through, and   *)
(* a touching pair of cells that can host the two hatches.                 *)

NoPort == ""
EndpointPort(n, m) ==
    LET own == SelectSeq(n.ends, LAMBDA e : e[1] = m) IN IF own = <<>> THEN NoPort ELSE own[1][2]

CheckAutoNet(a, n) ==
    IF n.com = "power" \/ RidesMe(n) THEN {<<"AUTO_OUTPUT_ILLEGAL_COMMODITY", n.id>>}
    ELSE Where("AUTO_OUTPUT_WRONG_ENDPOINTS", n.id,
               a.src \notin {e[1] : e \in Sources(n)} \/ a.dst \notin {e[1] : e \in Sinks(n)})

CheckAuto(a, from, to, Z) ==
    CheckAutoNet(a, NetOf(a.net))
    \cup FaceRefusal(from, a.face, "AUTO_OUTPUT_ON_FRONT_FACE", Z)
    \cup FaceRefusal(to, a.dstFace, "AUTO_OUTPUT_ON_FRONT_FACE", Z)
    \cup Where("AUTO_OUTPUT_NOT_ADJACENT", a.net,
               \/ a.dstFace # Opposite[a.face]
               \/ {Step(c, a.face) : c \in HatchHosts(from, Z)} \cap HatchHosts(to, Z) = {})

\* A single block ejects through one face; a multiblock has a hatch each.
CheckAutoConnections(Z) ==
    UNION {LET n == NetOf(a.net) IN CheckAuto(a, <<a.src, EndpointPort(n, a.src)>>, <<a.dst, EndpointPort(n, a.dst)>>, Z) :
              a \in {x \in Range(Z.autos) : {x.src, x.dst} \subseteq DOMAIN Z.at}}
    \cup Flagged("DUPLICATE_AUTO_OUTPUT",
                 {m \in Machines : ~IsMultiblock(m) /\ Cardinality({i \in DOMAIN Z.autos : Z.autos[i].src = m}) > 1})

-----------------------------------------------------------------------------
(* Item Filters.                                                           *)

\* On a run that sorts, every consumer is a filter and every item leaves
\* through exactly one; a filter takes and gives only what it lets through.
Sorts(n) == Cardinality(n.items) > 1 /\ \E e \in Sinks(n) : Machine[e[1]].filter # {}
CheckFilterSorting(n) ==
    Where("FILTER_ITEM_UNSORTED", n.id,
          \/ Sorts(n) /\ \E e \in Sinks(n) : Machine[e[1]].filter = {}
          \/ Sorts(n) /\ \E item \in n.items : Cardinality({e \in Sinks(n) : item \in Machine[e[1]].filter}) # 1
          \/ \E e \in Sinks(n) : Machine[e[1]].filter # {} /\ Machine[e[1]].filter \cap n.items = {}
          \/ \E e \in Sources(n) : Machine[e[1]].filter # {} /\ ~(n.items \subseteq Machine[e[1]].filter))

\* A filter pushes into whatever stands behind it: that must be its own.
FilterBack(m, Z) == {Step(c, Opposite[Z.at[m].front]) : c \in BodyOf(m, Z)} \ BodyOf(m, Z)
AutoTargets(m, Z) == {a.dst : a \in {x \in Range(Z.autos) : x.src = m /\ x.face = Opposite[Z.at[m].front]}}
Feeds(m) == {n.id : n \in {x \in NetSet : \E e \in Sources(x) : e[1] = m}}
CheckFilterBack(m, Z) ==
    Where("FILTER_BACK_NOT_ITS_OUTPUT", m,
          \/ \E k \in DOMAIN Z.at \ ({m} \cup AutoTargets(m, Z)) : BodyOf(k, Z) \cap FilterBack(m, Z) # {}
          \/ \E r \in RoutesOf(Z) : r.net \notin Feeds(m) /\ Cells(r) \cap FilterBack(m, Z) # {}
          \/ MeCells(Z) \cap FilterBack(m, Z) # {})
CheckFilterBacks(Z) == UNION {CheckFilterBack(m, Z) : m \in {k \in DOMAIN Z.at : Machine[k].filter # {}}}

-----------------------------------------------------------------------------
(* Hatches.                                                                *)

InFrontOf(h) == Step(h.cell, h.face)

CheckHatch(h, Z) ==
    IF h.machine \notin DOMAIN Z.at THEN {<<"UNKNOWN_MACHINE", h.machine>>}
    ELSE IF h.cell \notin BodyOf(h.machine, Z) THEN {<<"HATCH_NOT_ON_MACHINE", h>>}
    ELSE Where("HATCH_FACES_INWARD", h, InFrontOf(h) \in BodyOf(h.machine, Z))
         \cup Where("HATCH_UNKNOWN_PORT", h, h.port # NoPort /\ ~HasPort(h.machine, h.port))
         \cup Where("HATCH_TERMINAL_MISMATCH", h,
                    \E t \in AllTerminals(Z) : Key(t) = <<h.machine, h.port>> /\ (t.face # h.face \/ t.cell # InFrontOf(h)))

CheckHatches(Z) ==
    LET standing == {h \in Z.hatches : h.machine \in DOMAIN Z.at /\ h.cell \in BodyOf(h.machine, Z)}
    IN UNION {CheckHatch(h, Z) : h \in Z.hatches}
       \cup Flagged("HATCH_CELL_COLLISION",
                    {h.cell : h \in {x \in standing : \E y \in standing \ {x} : y.cell = x.cell}})

\* Every connection the layout makes is a hatch on a multiblock.
ConnectedPorts(Z) ==
    UNION {Ends(NetOf(r.net)) : r \in {q \in RoutesOf(Z) : ~RidesMe(NetOf(q.net))}}
    \cup UNION {{<<m, EndpointPort(NetOf(a.net), m)>> : m \in {a.src, a.dst}} :
                   a \in {x \in Range(Z.autos) : ~RidesMe(NetOf(x.net))}}
CheckPortHatches(Z) ==
    Flagged("PORT_HATCH_MISSING",
            {k \in ConnectedPorts(Z) : /\ IsMultiblock(k[1]) /\ k[2] # NoPort
                                       /\ ~\E h \in Z.hatches : <<h.machine, h.port>> = k})

\* Exactly one maintenance hatch and at least one muffler, if the structure
\* takes them; a muffler vents into air.
Count(m, kind, Z) == Cardinality({h \in Z.hatches : h.machine = m /\ h.kind = kind})
Takes(m, kind) == \E s \in Machine[m].slots : kind \in s.kinds
NotAir(Z) == Reserved \cup Bodies(Z) \cup UNION {Cells(r) : r \in RoutesOf(Z)} \cup MeCells(Z)
CheckUpkeepHatches(Z) ==
    Flagged("MUFFLER_BLOCKED", {h.machine : h \in {x \in Z.hatches : x.kind = "Muffler" /\ InFrontOf(x) \in NotAir(Z)}})
    \cup Flagged("MAINTENANCE_MISSING", {m \in DOMAIN Z.at : Takes(m, "Maintenance") /\ Count(m, "Maintenance", Z) = 0})
    \cup Flagged("MAINTENANCE_DUPLICATE", {m \in DOMAIN Z.at : Takes(m, "Maintenance") /\ Count(m, "Maintenance", Z) > 1})
    \cup Flagged("MUFFLER_MISSING", {m \in DOMAIN Z.at : Takes(m, "Muffler") /\ Count(m, "Muffler", Z) = 0})

\* A tower's fluid output stands on its own layer, and no layer is bare.
LayerOf(h, Z) ==
    LET here == {s \in Machine[h.machine].slots : SlotCellOf(s, h.machine, Z) = h.cell}
    IN IF here = {} THEN NoLayer ELSE (CHOOSE s \in here : TRUE).layer
SendsFluidOverMe(m) == \E n \in NetSet : RidesMe(n) /\ n.com = "fluid" /\ \E e \in Sources(n) : e[1] = m
CheckTower(m, own, Z) ==
    Flagged("OUTPUT_HATCH_WRONG_LAYER",
            {h \in own : /\ HasPort(m, h.port) /\ Port(m, h.port).layer # NoLayer
                         /\ Port(m, h.port).layer # LayerOf(h, Z)})
    \cup (IF SendsFluidOverMe(m) THEN {}
          ELSE Flagged("OUTPUT_LAYER_EMPTY",
                       LayersIn(Machine[m]) \ {LayerOf(h, Z) : h \in {x \in own : x.kind = "OutputHatch"}}))
CheckOutputLayers(Z) ==
    UNION {CheckTower(m, {h \in Z.hatches : h.machine = m}, Z) :
              m \in {k \in DOMAIN Z.at : LayersIn(Machine[k]) # {}}}

-----------------------------------------------------------------------------
(* What an item pipe carries: each stream is charged to every block GT's   *)
(* scan reaches no later than its target.                                  *)

\* Each end's part of its side, in 1/Parts, and the side's total.
Rates(side, n) == [i \in DOMAIN side |-> LET rate == Port(side[i].machine, side[i].port).rate
                                         IN IF rate = Unrated THEN n.flow \div Len(side) ELSE rate]
Total(rates) == FoldLeft(+, 0, rates)
Shares(rates) == [i \in DOMAIN rates |-> IF Total(rates) = 0 THEN Parts \div Len(rates)
                                         ELSE (rates[i] * Parts) \div Total(rates)]

\* One insertion and one per further stack, but no more than the items moved.
Least(a, b) == IF a < b THEN a ELSE b
Most(a, b) == IF a > b THEN a ELSE b
CeilTo(a, b) == (a + b - 1) \div b
Insertions(moved) ==
    LET need == Parts * Most(1, CeilTo(moved, ItemsPerInsertion * Parts))
    IN IF moved = 0 THEN need ELSE Least(need, moved)

\* Producers matched to consumers, nearest pair first; on a merged run every
\* producer feeds every filter its share.
NearestPair(pairs) == CHOOSE p \in pairs : \A q \in pairs :
    p = q \/ p[1] < q[1] \/ (p[1] = q[1] /\ (p[2] < q[2] \/ (p[2] = q[2] /\ p[3] < q[3])))

RECURSIVE Match(_, _, _, _)
Match(pairs, supply, wanted, merged) ==
    IF pairs = {} THEN {}
    ELSE LET p == NearestPair(pairs)
             share == IF merged THEN (supply[p[2]] * wanted[p[3]]) \div Parts ELSE Least(supply[p[2]], wanted[p[3]])
             spent == IF merged THEN 0 ELSE share
         IN (IF share = 0 THEN {} ELSE {[pair |-> p, share |-> share]})
            \cup Match(pairs \ {p}, [supply EXCEPT ![p[2]] = @ - spent], [wanted EXCEPT ![p[3]] = @ - spent], merged)

Streams(from, to, hops, n, split) ==
    LET supplied == Total(Rates(from, n))
        flow == IF split THEN supplied ELSE Most(supplied, Total(Rates(to, n)))
        reached == {k \in (DOMAIN from) \X (DOMAIN to) : to[k[2]].cell \in DOMAIN hops[k[1]]}
        pairs == {<<hops[k[1]][to[k[2]].cell], k[1], k[2]>> : k \in reached}
    IN {[need |-> Insertions((s.share * flow) \div Parts), pair |-> s.pair,
         charged |-> {c \in DOMAIN hops[s.pair[2]] : hops[s.pair[2]][c] <= s.pair[1]}] :
           s \in Match(pairs, Shares(Rates(from, n)), Shares(Rates(to, n)), Cardinality(n.items) > 1)}

Demand(c, streams) == FoldSet(LAMBDA s, d : d + s.need, 0, {s \in streams : c \in s.charged})

\* The ends of a net a route's terminals stand for, by direction.
Docked(r, dir) == SelectSeq(r.terminals, LAMBDA t : /\ DirOf(Key(t)) = dir /\ t.cell \in Cells(r)
                                                    /\ Key(t) \in Ends(NetOf(r.net)))

CheckStreams(r, from, to, Z) ==
    IF from = <<>> \/ to = <<>> THEN {}
    ELSE LET streams == Streams(from, to, [i \in DOMAIN from |-> HopsFrom(from[i].cell, EdgesOf(r))],
                                NetOf(r.net), Fed(NetOf(r.net), Z) # {})
         IN Flagged("ITEM_PIPE_SIZE_INSUFFICIENT",
                    {<<r.net, c>> : c \in {d \in Cells(r) : Demand(d, streams) > PipeCapacity[r.size]}})
CheckItemPipeThroughput(Z) ==
    UNION {CheckStreams(r, Docked(r, "out"), Docked(r, "in"), Z) : r \in {q \in RoutesOf(Z) : q.com = "item"}}

-----------------------------------------------------------------------------
(* Power: the cable's tier, the amps each block carries and what arrives.  *)

CheckRouteMaterials(Z) ==
    Flagged("ROUTE_MATERIAL_TIER_MISMATCH",
            {r.net : r \in {q \in RoutesOf(Z) : q.com = "power"
                                                /\ {Machine[t.machine].tier : t \in TerminalsOf(q)} \notin {{}, {q.tier}}}})

IsAcceptor(t) == Machine[t.machine].role = "acceptor"
Draws(t) == DirOf(Key(t)) = "in" /\ Machine[t.machine].eut > 0 /\ PortEut(t.machine, t.port) > 0
Volts(t, depth) == LadderVolts[Machine[t.machine].tier] - LossPerBlock * depth[t.cell]
Load(t, depth) == (PortEut(t.machine, t.port) * AmpScale) \div Volts(t, depth)
RequiredAmps(load) == CeilTo(load, AmpScale)
SumOver(S, f) == FoldSet(LAMBDA t, a : a + f[t], 0, S)

IsTree(r, depth) == Len(r.segments) = Cardinality(Nodes(EdgesOf(r))) - 1 /\ DOMAIN depth = Nodes(EdgesOf(r))

\* The source's own block carries the whole output; every segment carries
\* what lies beyond it, and an Energy Acceptor takes all that is offered.
Thin(r, root, depth, carried, output, greedy) ==
    LET required == [i \in DOMAIN r.segments |->
                        LET amps == RequiredAmps(SumOver({t \in DOMAIN carried : t.cell \in Beyond(EdgesOf(r), r.segments[i], depth)}, carried))
                        IN IF greedy THEN Least(amps, output) ELSE amps]
        thin == {i \in DOMAIN r.segments : r.thick[i] < required[i]}
        atRoot == {i \in DOMAIN r.segments : root \in {r.segments[i][1], r.segments[i][2]}}
    IN Where("POWER_THICKNESS_INSUFFICIENT", r.net,
             thin # {} \/ \A i \in atRoot : r.thick[i] < output)

CheckLoads(r, root, depth, sinks) ==
    LET steady == [t \in sinks |-> Load(t, depth)]
        output == RequiredAmps(SumOver(sinks, steady))
        carried == [t \in sinks |-> IF IsAcceptor(t) THEN output * AmpScale ELSE steady[t]]
    IN Thin(r, root, depth, carried, output, \E t \in sinks : IsAcceptor(t))

\* The first sink whose draw cannot be worked out ends the check of a route.
Unpowerable(t, depth) == ~OnLadder(Machine[t.machine].tier) \/ Volts(t, depth) <= 0
CheckSinks(r, root, depth, sinks) ==
    LET dead == {t \in sinks : Unpowerable(t, depth)}
    IN IF dead = {} THEN CheckLoads(r, root, depth, sinks)
       ELSE {<<IF OnLadder(Machine[t.machine].tier) THEN "POWER_VOLTAGE_DROP_EXCESSIVE" ELSE "POWER_TIER_UNKNOWN", r.net>> : t \in dead}

SourcesOn(r) == {i \in DOMAIN r.terminals : DirOf(Key(r.terminals[i])) = "out"}
RootOf(r) == r.terminals[CHOOSE i \in SourcesOn(r) : TRUE].cell
DepthOn(r) == HopsFrom(RootOf(r), EdgesOf(r))
SinksOn(r, depth) == {t \in TerminalsOf(r) : Draws(t) /\ t.cell \in DOMAIN depth}

Gauged(Z) == {r \in RoutesOf(Z) : r.com = "power" /\ Len(r.thick) = Len(r.segments)}

\* A trunk: a route with one source, how deep each block lies, its sinks.
TrunkWith(r, depth) == [route |-> r, depth |-> depth, tree |-> IsTree(r, depth), sinks |-> SinksOn(r, depth)]
Trunks(Z) == {TrunkWith(r, DepthOn(r)) : r \in {q \in Gauged(Z) : Cardinality(SourcesOn(q)) = 1}}

CheckTrunk(k) ==
    IF ~k.tree THEN {<<"POWER_ROUTE_NOT_A_TREE", k.route.net>>}
    ELSE CheckSinks(k.route, RootOf(k.route), k.depth, k.sinks)

\* What reaches a machine through its hatches, each at most its max_amps; a
\* hatch that names no ceiling, or a route no one could verify, leaves the
\* machine unmeasured.
PortAmps(t) == Port(t.machine, t.port).amps
Unverified(k) ==
    {t.machine : t \in {u \in TerminalsOf(k.route) : \E s \in k.sinks : Unpowerable(s, k.depth)}}
    \cup {t.machine : t \in {u \in k.sinks : PortAmps(u) = Unrated \/ IsAcceptor(u)}}
Delivered(m, trees) ==
    FoldSet(LAMBDA k, a : a + FoldSet(LAMBDA t, b : b + PortAmps(t) * Volts(t, k.depth), 0,
                                      {t \in k.sinks : t.machine = m}), 0, trees)
Measured(trees) == UNION {{t.machine : t \in k.sinks} : k \in trees} \ UNION {Unverified(k) : k \in trees}

CheckSupplied(trees) ==
    Flagged("POWER_SUPPLY_INSUFFICIENT", {m \in Measured(trees) : Delivered(m, trees) < Machine[m].eut})

CheckTrunks(trunks) ==
    UNION {CheckTrunk(k) : k \in trunks} \cup CheckSupplied({k \in trunks : k.tree})
CheckPowerAmperage(Z) ==
    Flagged("POWER_NET_NO_SINGLE_SOURCE", {r.net : r \in {q \in Gauged(Z) : Cardinality(SourcesOn(q)) # 1}})
    \cup CheckTrunks(Trunks(Z))

-----------------------------------------------------------------------------
(* The whole gate, the ME rules aside.                                     *)

CheckBlocks(Z) ==
    CheckPlacements(Z) \cup CheckRoutes(Z)
    \cup UNION {CheckTerminals(r, Z) : r \in RoutesOf(Z)}
    \cup CheckAutoConnections(Z) \cup CheckPowerAmperage(Z) \cup CheckPowerFeed(Z)
    \cup CheckHatchCells \cup CheckTerminalHatchCells(Z) \cup CheckTerminalFaces(Z)
    \cup UNION {CheckFilterSorting(n) : n \in {x \in NetSet : x.com = "item"}}
    \cup CheckFilterBacks(Z) \cup CheckHatches(Z) \cup CheckPortHatches(Z)
    \cup CheckUpkeepHatches(Z) \cup CheckOutputLayers(Z) \cup CheckRouteCapacity(Z)
    \cup CheckRouteMaterials(Z) \cup CheckItemPipeThroughput(Z)
=============================================================================
