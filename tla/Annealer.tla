------------------------------- MODULE Annealer -------------------------------
(***************************************************************************)
(* The annealed placer (placement/search.py): one walk from the            *)
(* constructive seed, a move a step, and the cheapest state it accepted    *)
(* that the crowding gate passes.                                          *)
(*                                                                         *)
(* Where the code draws a random number the model takes any outcome the    *)
(* draw allows.  A cheaper state is always accepted, an equal one too      *)
(* (exp(0) = 1 beats any draw), a dearer one sometimes.                    *)
(***************************************************************************)
EXTENDS PlacementCost

CONSTANTS Seeds,          \* line -> [order, at]: what constructive.place laid, in flow order
          Iterations      \* the walk's length

ASSUME IterationsAssumption == Iterations \in Nat

Pose == [cell : Triple, front : Compass]

\* A seed lists every machine once and gives each a pose.
ASSUME SeedAssumption ==
    \A P \in Lines :
        LET order == Seeds[P.id].order
        IN /\ Listed(order) /\ Range(order) = DOMAIN P.machine
           /\ \A i, j \in DOMAIN order : order[i] = order[j] => i = j
           /\ Seeds[P.id].at \in [DOMAIN P.machine -> Pose]

VARIABLES
    units,        \* what moves as one: columns and single machines, in flow order
    current,      \* the layout the walk stands on
    occupied,     \* the cells its bodies cover, kept up move by move
    accepted,     \* every state the walk accepted: [cost, at]
    done,         \* iterations run
    chosen        \* the layout handed back, or Unchosen

vars == <<line, units, current, occupied, accepted, done, chosen>>

Unchosen == <<>>
NoMove == <<>>

Order == Seeds[line.id].order

Covered(L) == UNION {Body(m, L[m]) : m \in DOMAIN L}

\* All blocks are single: the small moves then include the one-cell nudge.
Nudges == \A m \in Machines : Machine[m].size = <<1, 1, 1>>

-----------------------------------------------------------------------------
(* Fit tests.  shut is what the other units cover.                         *)

FeedOk(u, at) == UnitOutside(u) => FrontOnBoundary(at.cell, UnitSize(u, at.front), at.front, Region)

Clear(u, at, shut) ==
    /\ BoxWithin(at.cell, UnitSize(u, at.front), Region)
    /\ UnitCells(u, at) \cap (Reserved \cup shut) = {}

\* How a unit faces at an origin: its own way where that is legal, else the
\* first legal one.
FeedPose(u, cell, front) ==
    LET ways == <<front>> \o UnitFacings(u)
        legal == {i \in DOMAIN ways : FeedOk(u, [cell |-> cell, front |-> ways[i]])}
    IN {[cell |-> cell, front |-> ways[i]] : i \in {j \in legal : \A k \in legal : j <= k}}

\* Where a unit lands when it is put down at a cell, if it fits there.
Landing(u, cell, front, shut) == {at \in FeedPose(u, cell, front) : Clear(u, at, shut)}

RandomOrigins(u, front) ==
    LET s == UnitSize(u, front) IN
    IF \E a \in 1 .. 3 : s[a] > Region[a] THEN {}
    ELSE (0 .. Region[1] - s[1]) \X (0 .. Region[2] - s[2]) \X (0 .. Region[3] - s[3])

\* Every unit's cells but those of the moved ones.
Lifted(us) == occupied \ UNION {UnitCells(u, UnitPose(u, current)) : u \in us}

-----------------------------------------------------------------------------
(* The small moves: the layouts each may propose, NoMove when it may fail. *)

Landings(u, cells) == {Landing(u, c, UnitPose(u, current).front, Lifted({u})) : c \in cells}

Settled(u, landings) == {Relaid(current, u, at) : at \in UNION landings}

\* Twenty draws may all land on an origin that does not fit.
Drawn(u, landings) == Settled(u, landings) \cup (IF {} \in landings \/ landings = {} THEN {NoMove} ELSE {})
Relocations(u) == Drawn(u, Landings(u, RandomOrigins(u, UnitPose(u, current).front)))

\* The six directions in any order, the first that fits.
OrNoMove(layouts) == IF layouts = {} THEN {NoMove} ELSE layouts
NudgesOf(u) == OrNoMove(Settled(u, Landings(u, Around(UnitPose(u, current).cell))))

\* Two units trade corners, both of them or neither.
Traded(u, v, us, vs) ==
    {Relaid(Relaid(current, u, p[1]), v, p[2]) :
        p \in {q \in us \X vs : UnitCells(u, q[1]) \cap UnitCells(v, q[2]) = {}}}
SwappedFrom(u, v, p, q, shut) ==
    OrNoMove(Traded(u, v, Landing(u, q.cell, p.front, shut), Landing(v, p.cell, q.front, shut)))
Swapped(u, v) == SwappedFrom(u, v, UnitPose(u, current), UnitPose(v, current), Lifted({u, v}))

\* Mutant: a turned box is not fitted where it swings to.
TurnsUnfitted(u, p, shut) ==
    {[cell |-> p.cell, front |-> f] : f \in Range(UnitFacings(u)) \ {p.front}}

\* A turn keeps the minimum corner, so a box that is not square swings.
Turns(u, p, shut) ==
    {at \in {[cell |-> p.cell, front |-> f] : f \in Range(UnitFacings(u)) \ {p.front}} :
        FeedOk(u, at) /\ (UnitSize(u, at.front) = UnitSize(u, p.front) \/ Clear(u, at, shut))}

Reorientations ==
    OrNoMove(UNION {{Relaid(current, u, at) : at \in Turns(u, UnitPose(u, current), Lifted({u}))} :
                       u \in Range(units)})

-----------------------------------------------------------------------------
(* The large move: ruin a related cluster and put it back, each unit where *)
(* it is cheapest among the origins tried.  b is a build: at (a layout)    *)
(* and order (its machines as they were laid).                             *)

Unbounded == 1000000000

\* A wire ties a machine of a unit of one as often as it has ends there.
Ties(u, w) == LET n == Cardinality({e \in WireEnds(w) : e[2] \in Range(u)})
              IN IF n > 0 /\ Len(u) > 1 THEN 1 ELSE n

\* What the unit's own wires and the growth of the build add, given the build
\* with the unit in it.
Growth(u, with, b) ==
    WireWeight * Total([w \in Wires |-> Ties(u, w) * HalfPerimeter(w, with)])
       + (IF b.at = <<>> THEN 0 ELSE SizeCost(with) - SizeCost(b.at))

\* The rewards the unit has a hand in, and those it earns.
Touching(u) == {i \in DirectNets : \E e \in DirectEnds(i) : e[1] \in Range(u)}
Earned(u, with, b) == Cardinality({i \in Touching(u) : /\ \E e \in DirectEnds(i) : e[1] \in DOMAIN b.at
                                                        /\ Ejects(i, with)})

\* Mutant: the early-out forgets that the rewards could still come off.
ScoreRash(rest, bound, u, with, b) ==
    IF rest >= bound THEN Unbounded ELSE rest - AutoWeight * Earned(u, with, b)

\* Past the bound by more than the rewards could take off, they are not worth
\* asking about.
Score(rest, bound, u, with, b) ==
    IF rest - AutoWeight * Cardinality(Touching(u)) >= bound THEN Unbounded
    ELSE rest - AutoWeight * Earned(u, with, b)

ScoreWith(u, with, b, bound) == Score(Growth(u, with, b), bound, u, with, b)

MarginalCost(u, at, b, bound) == ScoreWith(u, Overlaid(b.at, UnitPlaced(u, at)), b, bound)

MaxCandidates == 16

\* The cells around a box, cell by ascending cell and face by face.
AroundBox(body) ==
    LET cells == InOrder(body, {p \in body \X body : CellLess(p[1], p[2])})
    IN [k \in 1 .. 6 * Len(cells) |-> Step(cells[1 + ((k - 1) \div 6)], FaceOrder[1 + ((k - 1) % 6)])]

\* s, then what of t is new to it and in the region.
Joined(s, t) ==
    LET new == {k \in DOMAIN t : /\ t[k] \notin Range(s) /\ InRegion(t[k], Region)
                                 /\ \A j \in 1 .. k - 1 : t[j] # t[k]}
        picks == ByKey(new, [k \in new |-> k])
    IN s \o [k \in DOMAIN picks |-> t[picks[k]]]

\* The freed origin, then the cells around each placed neighbour until there
\* are enough of them.
NeighbourOrigins(u, at, b) ==
    LET related == (UNION {Related(m) : m \in Range(u)}) \ Range(u)
        after(s, m) == IF m \notin related \/ Len(s) >= MaxCandidates THEN s
                       ELSE Joined(s, AroundBox(Body(m, b.at[m])))
        found[k \in 0 .. Len(b.order)] ==
            IF k = 0 THEN <<at.cell>> ELSE after(found[k-1], b.order[k])
    IN found[Len(b.order)]

NoSpot == [cost |-> Unbounded, at |-> <<>>]

Better(spot, cost, at) == IF cost < spot.cost THEN [cost |-> cost, at |-> at] ELSE spot

Fits(u, at, b) == FeedOk(u, at) /\ Clear(u, at, Covered(b.at))

\* The better of the best spot so far and the next one tried.
Tried(u, b, best, at, bounded) ==
    IF Fits(u, at, b)
    THEN Better(best, MarginalCost(u, at, b, IF bounded THEN best.cost ELSE Unbounded), at)
    ELSE best

\* The best spot once some origins have been tried, each at its facings in
\* order (a row of four holds them).
BestOf(u, b, first, cells, bounded) ==
    LET facings == UnitFacings(u)
        best[k \in 0 .. 4 * Len(cells)] ==
            IF k = 0 THEN first
            ELSE IF 1 + ((k - 1) % 4) > Len(facings) THEN best[k-1]
            ELSE Tried(u, b, best[k-1],
                       [cell |-> cells[1 + ((k - 1) \div 4)], front |-> facings[1 + ((k - 1) % 4)]], bounded)
    IN best[4 * Len(cells)]

\* The best of the origins that involve no draw.
BestBeside(u, at, b, bounded) == BestOf(u, b, NoSpot, NeighbourOrigins(u, at, b), bounded)

\* The last resort: the first free origin of the plain scan, the floor first.
Scanned(c) == <<c[2], c[3], c[1]>>
FirstScanned(poses, facings) ==
    {p \in poses : \A q \in poses :
        \/ p.cell = q.cell /\ \A i \in DOMAIN facings :
              facings[i] = q.front => \E j \in 1 .. i : facings[j] = p.front
        \/ CellLess(Scanned(p.cell), Scanned(q.cell))}
FitsAnywhere(u, b, facings) ==
    {at \in [cell : (0 .. Region[1] - 1) \X (0 .. Region[2] - 1) \X (0 .. Region[3] - 1),
             front : Range(facings)] : Fits(u, at, b)}
ScanFacings(u) == IF Len(u) > 1 \/ UnitOutside(u) THEN UnitFacings(u) ELSE <<UnitFacings(u)[1]>>
FirstFit(u, b) == FirstScanned(FitsAnywhere(u, b, ScanFacings(u)), ScanFacings(u))

\* Where a unit may go back: the best origin beside its neighbours, or a drawn
\* one strictly cheaper; with neither, the first fit.
WithDraws(u, at, b, best) ==
    LET cells == RandomOrigins(u, at.front)
    IN IF cells = {} THEN {best} ELSE {BestOf(u, b, best, <<c>>, TRUE) : c \in cells}

Insertions(u, at, b) ==
    UNION {IF spot = NoSpot THEN FirstFit(u, b) ELSE {spot.at} :
              spot \in WithDraws(u, at, b, BestBeside(u, at, b, TRUE))}

\* A build with one more unit in it, NoBuild when the unit fits nowhere.
NoBuild == <<>>
WithUnit(u, b) ==
    LET spots == Insertions(u, UnitPose(u, current), b)
    IN IF b = NoBuild \/ spots = {} THEN {NoBuild}
       ELSE {[at |-> Overlaid(b.at, UnitPlaced(u, at)), order |-> b.order \o u] : at \in spots}

Recreate(todo, b) ==
    LET builds[k \in 0 .. Len(todo)] ==
            IF k = 0 THEN {b} ELSE UNION {WithUnit(todo[k], built) : built \in builds[k-1]}
    IN {IF built = NoBuild THEN NoMove ELSE built.at : built \in builds[Len(todo)]}

Beside(i) == {j \in DOMAIN units \ {i} :
                 \E m \in Range(units[i]) : Related(m) \cap Range(units[j]) # {}}

\* Clusters of k units grown breadth first: the neighbours of the frontier's
\* head join in any order until there is no room.
Grow(g, k) ==
    LET room == k - Cardinality(g.cluster)
        new == Beside(Head(g.frontier)) \ g.cluster
    IN IF room = 0 \/ g.frontier = <<>> THEN {g}
       ELSE IF Cardinality(new) >= room
            THEN {[cluster |-> g.cluster \cup some, frontier |-> <<>>] : some \in kSubset(room, new)}
       ELSE {[cluster |-> g.cluster \cup new, frontier |-> Tail(g.frontier) \o s] : s \in SetToSeqs(new)}

Grown(i, k) ==
    LET grown[n \in 0 .. Len(units)] ==
            IF n = 0 THEN {[cluster |-> {i}, frontier |-> <<i>>]} ELSE UNION {Grow(g, k) : g \in grown[n-1]}
    IN {g.cluster : g \in grown[Len(units)]}

\* Padded with any others when the component is too small.
Padded(cluster, k) ==
    {cluster \cup pad : pad \in kSubset(k - Cardinality(cluster), DOMAIN units \ cluster)}

MaxRuin == 6
Clusters == UNION {UNION {Padded(cluster, k) : cluster \in Grown(i, k)} :
                      i \in DOMAIN units, k \in 2 .. Min({Len(units), MaxRuin})}

\* The most tied to what is left goes back first, of equals the first in flow
\* order.
Reinsertion(cluster) ==
    LET ties(i) == Cardinality(Beside(i) \ cluster)
        sorted == InOrder(cluster, {p \in cluster \X cluster :
                                       ties(p[1]) > ties(p[2]) \/ (ties(p[1]) = ties(p[2]) /\ p[1] < p[2])})
    IN [x \in DOMAIN sorted |-> units[sorted[x]]]

\* What is left of the layout when some machines are lifted, in flow order.
Without(machines) ==
    LET kept == Machines \ machines
    IN [at |-> [m \in kept |-> current[m]],
        order |-> ByKey(kept, [m \in kept |-> CHOOSE i \in DOMAIN Order : Order[i] = m])]

Rebuilt(cluster) == Recreate(Reinsertion(cluster), Without(UNION {Range(units[i]) : i \in cluster}))

-----------------------------------------------------------------------------
(* The walk.                                                               *)

\* A whole layout the program could hand on: every machine inside the region,
\* off the reserved cells and off the others, with an outside front on a wall,
\* facing a way it may face.
Legal(L) ==
    /\ DOMAIN L = Machines
    /\ \A m \in Machines :
          /\ BoxWithin(L[m].cell, Turned(Machine[m].size, L[m].front), Region)
          /\ L[m].front \in Range(Machine[m].facings)
          /\ Body(m, L[m]) \cap Reserved = {}
          /\ FrontsOutside(m) =>
                FrontOnBoundary(L[m].cell, Turned(Machine[m].size, L[m].front), L[m].front, Region)
    /\ \A a, b \in Machines : a # b => Body(a, L[a]) \cap Body(b, L[b]) = {}

\* The walk starts from a seed that fits (one that does not is handed back as
\* it is).
Init ==
    /\ line \in Lines
    /\ Legal(Seeds[line.id].at)
    /\ units = UnitsOf(Order, Seeds[line.id].at)
    /\ current = Seeds[line.id].at
    /\ occupied = Covered(Seeds[line.id].at)
    /\ accepted = <<[cost |-> Cost(Seeds[line.id].at), at |-> Seeds[line.id].at]>>
    /\ done = 0
    /\ chosen = Unchosen

\* Mutant: a machine that only turned is taken to cover what it covered.
OccupiedAfterMoves(next) ==
    LET moved == {m \in Machines : next[m].cell # current[m].cell} IN
    (occupied \ UNION {Body(m, current[m]) : m \in moved}) \cup UNION {Body(m, next[m]) : m \in moved}

\* Vacated cells go before claimed ones come, so two machines may trade.
OccupiedAfter(next) ==
    LET moved == {m \in Machines : next[m] # current[m]} IN
    (occupied \ UNION {Body(m, current[m]) : m \in moved}) \cup UNION {Body(m, next[m]) : m \in moved}

CurrentCost == accepted[Len(accepted)].cost

Accept(next, cost) ==
    /\ current' = next
    /\ occupied' = OccupiedAfter(next)
    /\ accepted' = Append(accepted, [cost |-> cost, at |-> next])

Refuse == UNCHANGED <<current, occupied, accepted>>

Consider(next) ==
    /\ done' = done + 1
    /\ UNCHANGED <<line, units, chosen>>
    /\ IF next = NoMove THEN Refuse
       ELSE \E cost \in {Cost(next)} : \/ Accept(next, cost)
                                       \/ cost > CurrentCost /\ Refuse

Walking == chosen = Unchosen /\ done < Iterations /\ Len(Order) >= 2

Relocate == UNION {Relocations(u) : u \in Range(units)}

Nudge == IF Nudges THEN UNION {NudgesOf(u) : u \in Range(units)} ELSE {}

Swap == IF Len(units) < 2 THEN {NoMove}
        ELSE UNION {Swapped(units[p[1]], units[p[2]]) :
                       p \in {q \in (DOMAIN units) \X (DOMAIN units) : q[1] # q[2]}}

RuinAndRecreate == IF Len(units) < 2 THEN {NoMove} ELSE UNION {Rebuilt(cluster) : cluster \in Clusters}

\* One iteration: whichever move is drawn, the state it proposes is considered.
Move ==
    /\ Walking
    /\ \E next \in Relocate \cup Nudge \cup Swap \cup Reorientations \cup RuinAndRecreate :
          Consider(next)

\* Mutant: of equal costs the last state reached is asked about first.
CheaperLate(i, j) == accepted[i].cost < accepted[j].cost
                     \/ (accepted[i].cost = accepted[j].cost /\ i > j)

\* Cheapest first and, of equal costs, the first the walk reached.
Cheaper(i, j) == accepted[i].cost < accepted[j].cost
                 \/ (accepted[i].cost = accepted[j].cost /\ i < j)

\* The cheapest accepted state the gate passes, the cheapest of all when it
\* passes none.
CheapestOf(pool) == accepted[CHOOSE i \in pool : \A j \in pool \ {i} : Cheaper(i, j)].at
AllOr(pass) == IF pass = {} THEN DOMAIN accepted ELSE pass
CheapestUncrowded == CheapestOf(AllOr({i \in DOMAIN accepted : CrowdedMachines(accepted[i].at) = {}}))

Choose ==
    /\ chosen = Unchosen
    /\ done = Iterations \/ Len(Order) < 2
    /\ chosen' = IF Len(Order) < 2 THEN current ELSE CheapestUncrowded
    /\ UNCHANGED <<line, units, current, occupied, accepted, done>>

Next == Move \/ Choose

Spec == Init /\ [][Next]_vars

-----------------------------------------------------------------------------
(* Properties.                                                             *)

TypeOK ==
    /\ line \in Lines
    /\ done \in 0 .. Iterations
    /\ Len(accepted) \in 1 .. done + 1
    /\ accepted[Len(accepted)].at = current
    /\ chosen = Unchosen \/ chosen \in {accepted[i].at : i \in DOMAIN accepted}

\* The walk only ever holds legal layouts, and hands on one it held.
LayoutsLegal == TypeOK /\ Legal(current)

\* The occupied set, kept up by deltas over single machines, columns and whole
\* clusters, is the one a rebuild would give: a turned body that were missed
\* would let later moves land on it.
OccupiedExact == occupied = Covered(current)

\* A column stays a column: the units read off the seed hold for the walk.
ColumnsStayRigid == \A u \in Range(units) : Len(u) > 1 => LaidAsColumn(u, current)

\* The state asking the gate at every new low would have kept: one that
\* passes, and no accepted state before it passes as cheaply.
Online ==
    LET kept[i \in 0 .. Len(accepted)] ==
            IF i = 0 THEN 0
            ELSE IF /\ kept[i-1] = 0 \/ accepted[i].cost < accepted[kept[i-1]].cost
                    /\ CrowdedMachines(accepted[i].at) = {}
                 THEN i ELSE kept[i-1]
    IN kept[Len(accepted)]

Lowest == {i \in DOMAIN accepted : \A j \in DOMAIN accepted : accepted[i].cost <= accepted[j].cost}

\* Asking the gate once, after the walk, hands back what asking at every new
\* low would have kept, and the first of the cheapest when it passes none.
ChosenIsTheOnlineChoice ==
    [][chosen' # chosen =>
          \E kept \in {Online} : chosen' = accepted[IF kept # 0 THEN kept ELSE Min(Lowest)].at]_vars

\* What the gate names it can prove: a layout whose connections can all be
\* docked at once, nets on cells of their own and a machine's connections on
\* different ones, is named for nothing but its ME blocks.
Dockable(conns) ==
    LET docked(conn, c) == [cell |-> c, net |-> conn.net, machine |-> conn.machine]
        clear(held, conn, c) == \A h \in held : h.cell = c => h.net = conn.net /\ h.machine # conn.machine
        ways[i \in 0 .. Len(conns)] ==
            IF i = 0 THEN {{}}
            ELSE UNION {{held \cup {docked(conns[i], c)} : c \in {d \in conns[i].cells : clear(held, conns[i], d)}} :
                           held \in ways[i-1]}
    IN ways[Len(conns)] # {}

GateNamesAreProofs ==
    CrowdedMachines(current) \subseteq MEBlockClashes(current)
        \/ ~Dockable(DockedConnections(current))

\* The early-out is admissible: a unit taken out goes back where it would
\* have gone had every candidate been scored in full.
EarlyOutChangesNothing ==
    \A u \in Range(units) :
        LET b == Without(Range(u))
            at == UnitPose(u, current)
        IN BestBeside(u, at, b, TRUE) = BestBeside(u, at, b, FALSE)
=============================================================================
