---------------------------- MODULE PlacementCost ----------------------------
(***************************************************************************)
(* What the annealed placer minimises, and what it moves                   *)
(* (placement/search.py with placement/groups.py): wire length over the    *)
(* pulled nets, the floor and the volume of the build, a reward per pair   *)
(* that could eject straight across, and the connections left short of     *)
(* cells.                                                                  *)
(*                                                                         *)
(* Costs are in 300ths of the code's: its halves (box centres), fiftieths  *)
(* (the volume tiebreak) and fractions of a contested cell (at most        *)
(* MaxContenders machines) are then integers.  No net or machine carries   *)
(* feedback weight: the solver's attempts pass none.                       *)
(***************************************************************************)
EXTENDS CrowdingGate

CONSTANTS
    Lines,     \* the problems to solve
    Weights    \* the objective's <<floor, volume>> weights, in 300ths

ASSUME LineAssumption == \A P \in Lines : ProblemIsSound(P)
ASSUME WeightsAssumption == Weights \in Nat \X Nat

MaxContenders == 6        \* 60 is divisible by every share up to 1/6
ASSUME ContendersAssumption == \A P \in Lines : Len(P.order) <= MaxContenders

\* The shapes a problem's fields have (ir/input_ir.py); int and tuple fields
\* cannot hold anything else.
Compass == {"N", "S", "E", "W"}
Triple == Int \X Int \X Int
Extents == (Nat \ {0}) \X (Nat \ {0}) \X (Nat \ {0})
RelativeFaces == {"front", "right", "back", "left", "up", "down"}
Listed(s) == s \in Seq(Range(s))
ASSUME ShapeAssumption ==
    \A P \in Lines :
        /\ Listed(P.order) /\ Listed(P.nets) /\ Listed(P.networks)
        /\ P.region \in Extents
        /\ \A i \in DOMAIN P.nets : Listed(P.nets[i].ends)
        /\ \A m \in DOMAIN P.machine :
              /\ P.machine[m].size \in Extents
              /\ P.machine[m].facings \in Seq(Compass)
              /\ P.machine[m].number \in Nat
              /\ \A s \in P.machine[m].slots : s.off \in Triple
              /\ Listed(P.machine[m].devices)
              /\ \A i \in DOMAIN P.machine[m].devices : Listed(P.machine[m].devices[i].ports)
              /\ Listed(P.machine[m].ports)
              /\ \A i \in DOMAIN P.machine[m].ports : P.machine[m].ports[i].pins \subseteq RelativeFaces

\* Of two ids with the same stem the numbers differ.
ASSUME GroupAssumption ==
    \A P \in Lines : \A a, b \in DOMAIN P.machine :
        a # b /\ P.machine[a].group = P.machine[b].group /\ P.machine[a].group # ""
            => P.machine[a].number # P.machine[b].number

WireWeight == 150         \* of half a cell
AutoWeight == 1200
ShortWeight == 40         \* of a sixtieth of a cell

-----------------------------------------------------------------------------
(* Lists and totals.                                                       *)

\* The members of a finite set, each after all it does not come before.
InOrder(S, before) ==
    SubSeq([k \in 1 .. Cardinality(S) |->
               CHOOSE x \in S : Cardinality({y \in S : <<y, x>> \in before}) = k - 1],
           1, Cardinality(S))

ByKey(S, key) == InOrder(S, {p \in S \X S : key[p[1]] < key[p[2]]})

Total(v) == MapThenSumSet(LAMBDA i : v[i], DOMAIN v)

-----------------------------------------------------------------------------
(* Units: each group the seed laid as its column, every other machine      *)
(* alone.                                                                  *)

Columnable(m, first) ==
    /\ Machine[m].size = <<1, 1, 1>>
    /\ Machine[m].type = Machine[first].type
    /\ Machine[m].facings = Machine[first].facings
    /\ ~FrontsOutside(m)
    /\ \A q \in PortsOf(m) : q.pins = {}

\* The machines whose ids differ in their number alone, by that number.
Numbered(g) == {m \in Machines : Machine[m].group = g}
Parallel(g) == Cardinality(Numbered(g)) >= 2 /\ \A a, b \in Numbered(g) : Columnable(a, b)
ColumnOf(g) == ByKey(Numbered(g), [m \in Numbered(g) |-> Machine[m].number])
ParallelGroups == {ColumnOf(g) : g \in {k \in {Machine[m].group : m \in Machines} \ {""} : Parallel(k)}}

\* Member j of a column from its minimum corner: the head at the end its
\* front points out of.
ColumnOffset(n, j, f) ==
    CASE f = "N" -> <<0, 0, j - 1>>
      [] f = "S" -> <<0, 0, n - j>>
      [] f = "W" -> <<j - 1, 0, 0>>
      [] f = "E" -> <<n - j, 0, 0>>

\* A unit is the sequence of its members; one machine is its own box.
UnitSize(u, f) == IF Len(u) = 1 THEN Turned(Machine[u[1]].size, f)
                  ELSE IF f \in {"E", "W"} THEN <<Len(u), 1, 1>> ELSE <<1, 1, Len(u)>>
UnitOffset(u, j, f) == IF Len(u) = 1 THEN <<0, 0, 0>> ELSE ColumnOffset(Len(u), j, f)
UnitFacings(u) == Machine[u[1]].facings
UnitOutside(u) == Len(u) = 1 /\ FrontsOutside(u[1])

UnitPose(u, L) == [cell |-> Minus(L[u[1]].cell, UnitOffset(u, 1, L[u[1]].front)), front |-> L[u[1]].front]
UnitCells(u, at) == BoxCells(at.cell, UnitSize(u, at.front))

\* Where the members stand with the unit's corner at a pose.
UnitPlaced(u, at) ==
    [m \in {u[j] : j \in DOMAIN u} |->
        [cell |-> Plus(at.cell, UnitOffset(u, CHOOSE j \in DOMAIN u : u[j] = m, at.front)),
         front |-> at.front]]

\* Mutant: a move takes the head of a column and leaves the rest.
RelaidHead(L, u, at) == (u[1] :> UnitPlaced(u, at)[u[1]]) @@ L

\* A layout once some of its machines, or more, have been put down.
Overlaid(L, put) == [m \in DOMAIN put \cup DOMAIN L |-> IF m \in DOMAIN put THEN put[m] ELSE L[m]]

Relaid(L, u, at) == Overlaid(L, UnitPlaced(u, at))

LaidAsColumn(u, L) ==
    LET corner(a) == Min({L[u[j]].cell[a] : j \in DOMAIN u})
        at == [cell |-> <<corner(1), corner(2), corner(3)>>, front |-> L[u[1]].front]
    IN \A j \in DOMAIN u : L[u[j]] = UnitPlaced(u, at)[u[j]]

\* The unit a machine moves with.
UnitWith(m, L) ==
    LET columns == {u \in ParallelGroups : LaidAsColumn(u, L) /\ m \in Range(u)}
    IN IF columns = {} THEN <<m>> ELSE CHOOSE u \in columns : TRUE

UnitsOf(order, L) ==
    LET leads == {i \in DOMAIN order : \A j \in 1 .. i - 1 : order[j] \notin Range(UnitWith(order[i], L))}
        leaders == ByKey(leads, [i \in leads |-> i])
    IN [k \in DOMAIN leaders |-> UnitWith(order[leaders[k]], L)]

-----------------------------------------------------------------------------
(* Wire and size.                                                          *)

NetworkMachines(i) == {m \in Machines : OnNetwork(m, Networks[i].id)}

\* What is pulled tight: every piped item or fluid net and every ME network of
\* more than one machine; and its ends, each with its machine.
Wires ==
    {<<"net", i>> : i \in {k \in DOMAIN Nets : Nets[k].com # "power" /\ ~RidesMe(Nets[k])}}
       \cup {<<"me", i>> : i \in {k \in DOMAIN Networks : Cardinality(NetworkMachines(k)) > 1}}

WireEnds(w) == IF w[1] = "net" THEN {<<j, Nets[w[2]].ends[j][1]>> : j \in DOMAIN Nets[w[2]].ends}
               ELSE {<<0, m>> : m \in NetworkMachines(w[2])}

\* Machines a machine shares a net or a network with.
Related(m) ==
    {k \in Machines \ {m} :
        \/ \E n \in NetSet : \E e, d \in Ends(n) : e[1] = m /\ d[1] = k
        \/ \E i \in DOMAIN Networks : OnNetwork(m, Networks[i].id) /\ OnNetwork(k, Networks[i].id)}

\* Twice a machine's centre.
Centre(m, L) == LET s == Turned(Machine[m].size, L[m].front)
                IN [a \in 1 .. 3 |-> 2 * L[m].cell[a] + s[a]]

\* Half perimeter of a wire's placed machines, in half cells.
HalfPerimeter(w, L) ==
    LET on == {e[2] : e \in WireEnds(w)} \cap DOMAIN L
        along(a) == {Centre(m, L)[a] : m \in on}
        span(a) == Max(along(a)) - Min(along(a))
    IN IF on = {} THEN 0 ELSE span(1) + span(2) + span(3)

\* Floor and volume of the box a layout spans, weighted by the objective.
SizeCost(L) ==
    LET lo(a) == Min({L[m].cell[a] : m \in DOMAIN L})
        hi(a) == Max({L[m].cell[a] + Turned(Machine[m].size, L[m].front)[a] : m \in DOMAIN L})
        floor == (hi(1) - lo(1)) * (hi(3) - lo(3))
    IN IF DOMAIN L = {} THEN 0 ELSE Weights[1] * floor + Weights[2] * floor * (hi(2) - lo(2))

\* The rewarded nets: one producer, and the one consumer it may eject into.
DirectNets == {i \in DOMAIN Nets : AutoCandidates(Nets[i]) # <<>> /\ Len(Producers(Nets[i])) = 1}
DirectEnds(i) == {Producers(Nets[i])[1], Consumers(Nets[i])[1]}

Ejects(i, L) == /\ \A e \in DirectEnds(i) : e[1] \in DOMAIN L
                /\ AutoOutputPossible(Producers(Nets[i])[1], Consumers(Nets[i])[1], L)

-----------------------------------------------------------------------------
(* Connections with nowhere to sit, in sixtieths of a cell.                *)

\* The ports of m a router will dock.
ChargedPorts(m) ==
    {e[2] : e \in {d \in UNION {Ends(n) : n \in {x \in NetSet : ~RidesMe(x)}} : d[1] = m}}
       \cup {Machine[m].devices[i].ports[1] :
                i \in {k \in DOMAIN Machine[m].devices : Machine[m].devices[k].ports # <<>>}}

\* Free cells in front of the faces a port may use.
ShellCells(m, faces, L, shut) ==
    {Step(c, f) : c \in Body(m, L[m]), f \in faces} \ shut

\* What m, with those ports to dock, asks of the cells around it: how many
\* connections, the cells they may take, and how many pinned ports see no free
\* cell of their own.
SeenBy(m, faces, L, shut) == {c \in ShellCells(m, faces, L, shut) : InRegion(c, Region)}

DemandOf(m, ports, L, shut) ==
    IF \E q \in PortsOf(m) : q.pins # {}
    THEN LET seen == [p \in ports |-> SeenBy(m, AllowedFaces(m, p, L[m].front), L, shut)]
         IN [machine |-> m, needed |-> Cardinality(ports), cells |-> UNION {seen[p] : p \in ports},
             stranded |-> Cardinality({p \in ports : seen[p] = {}})]
    ELSE [machine |-> m, needed |-> Cardinality(ports),
          cells |-> SeenBy(m, Faces \ {L[m].front}, L, shut), stranded |-> 0]

Demands(L, shut, free) ==
    {DemandOf(m, {p \in ChargedPorts(m) : <<m, p>> \notin free}, L, shut) : m \in DOMAIN L}

WithoutSlack(demands) == {d \in demands : d.needed > 0 /\ Cardinality(d.cells) <= d.needed}

\* A cell is shared out among the tight machines, those without slack, that
\* reach it; a stranded port counts in full.
Gap(d, tight) ==
    LET share(c) == 60 \div Max({1, Cardinality({k \in tight : c \in k.cells})})
    IN Max({0, 60 * d.needed - Total([c \in d.cells |-> share(c)]), 60 * d.stranded})

SharedOut(demands, tight) == Total([d \in {k \in demands : k.needed > 0} |-> Gap(d, tight)])

ShortfallOf(demands) == SharedOut(demands, WithoutSlack(demands))

FaceShortfall(L, free) ==
    ShortfallOf(Demands(L, Reserved \cup UNION {Body(m, L[m]) : m \in DOMAIN L}, free))

\* The nets that eject, whose ends then need no cell.
FaceCost(L, ejecting) ==
    ShortWeight * FaceShortfall(L, UNION {DirectEnds(i) : i \in ejecting})
       - AutoWeight * Cardinality(ejecting)

Cost(L) ==
    WireWeight * Total([w \in Wires |-> HalfPerimeter(w, L)])
       + SizeCost(L) + FaceCost(L, {i \in DirectNets : Ejects(i, L)})
=============================================================================
