----------------------------- MODULE SourceRepair -----------------------------
(***************************************************************************)
(* Power laid over a finished placement, with every power source moved to  *)
(* the wall pose its really laid cable likes best (solver/repair.py), by   *)
(* the rank whole attempts are compared on (solver/_structure.py).         *)
(***************************************************************************)
EXTENDS TrunkLaying

CONSTANTS Objective,   \* "footprint", "volume" or "balanced"
          Candidates   \* poses really laid for a source, nearest first

-----------------------------------------------------------------------------
(* The rank of a structure, smaller first.                                 *)

RouteCells(r) == IF r.segments = <<>> THEN {t.cell : t \in Range(r.terminals)}
                 ELSE UNION {{s[1], s[2]} : s \in Range(r.segments)}
CellsOf(routes) == UNION {RouteCells(r) : r \in Range(routes)}

StructureCells(L, laid) == UNION {Body(m, L[m]) : m \in DOMAIN L} \cup laid

Extent(cells, axis) == LET along == {c[axis] : c \in cells} IN Max(along) - Min(along) + 1

Ranked(area, volume, route) ==
    CASE Objective = "footprint" -> <<area + route, area, volume>>
      [] Objective = "volume" -> <<volume + route, volume, area>>
      [] Objective = "balanced" -> <<area + volume + route, area + volume, volume>>

QualityOf(cells, laid) ==
    LET area == Extent(cells, 1) * Extent(cells, 3)
    IN Ranked(area, area * Extent(cells, 2), Cardinality(laid))
StructureQuality(L, laid) == QualityOf(StructureCells(L, laid), laid)

Before(p, q) == \E k \in DOMAIN p : p[k] < q[k] /\ \A j \in 1 .. k - 1 : p[j] = q[j]

\* Fewest nets without power first.
Score(L, power, taken) == <<Cardinality(power.failed)>> \o StructureQuality(L, taken \cup power.cells)

-----------------------------------------------------------------------------
(* Where a source may go.                                                  *)

NetsFrom(m) == {n \in Range(PowerNets) : \E e \in Range(Producers(n)) : e[1] = m}
LoadOf(m) == (UNION {{e[1] : e \in Range(Consumers(n))} : n \in NetsFrom(m)}) \ {m}

\* Every pose whose front lies flush on the wall it looks out of.
WallPoses(m) ==
    {pose \in [cell : BoxCells(<<0, 0, 0>>, Region), front : Range(Machine[m].facings)] :
        LET box == Turned(Machine[m].size, pose.front)
        IN BoxWithin(pose.cell, box, Region) /\ FrontOnBoundary(pose.cell, box, pose.front, Region)}

\* The branch of its trunk nearest the source, else the middle of its load.
Branches(m, power) ==
    LET segs == UNION {Range(r.segments) : r \in {x \in Range(power.routes) : x.net \in {n.id : n \in NetsFrom(m)}}}
    IN {c \in UNION {{s[1], s[2]} : s \in segs} : Cardinality({s \in segs : c \in {s[1], s[2]}}) >= 3}

Middle(cells) ==
    [axis \in 1 .. 3 |-> FoldSet(LAMBDA c, a : a + c[axis], 0, cells) \div Cardinality(cells)]

Closest(cells, here) ==
    CHOOSE c \in cells : \A d \in cells :
        c = d \/ Manhattan(c, here) < Manhattan(d, here) \/ (Manhattan(c, here) = Manhattan(d, here) /\ CellLess(c, d))

TargetCell(m, at, branches) ==
    IF branches # {} THEN Closest(branches, at[m].cell)
    ELSE Middle(UNION {Body(k, at[k]) : k \in LoadOf(m) \cap DOMAIN at})

FacingRank == [E |-> 1, N |-> 2, S |-> 3, W |-> 4]
PoseBefore(p, q, target) ==
    \/ Manhattan(p.cell, target) < Manhattan(q.cell, target)
    \/ /\ Manhattan(p.cell, target) = Manhattan(q.cell, target)
       /\ CellLess(p.cell, q.cell) \/ (p.cell = q.cell /\ FacingRank[p.front] < FacingRank[q.front])

Earlier(p, poses, target) == Cardinality({q \in poses : PoseBefore(q, p, target)})

NearestPoses(poses, target) ==
    [i \in 1 .. AtMost(Candidates, Cardinality(poses)) |->
        CHOOSE p \in poses : Earlier(p, poses, target) = i - 1]

CandidatePoses(m, at, power, blocked) ==
    NearestPoses({p \in WallPoses(m) : Body(m, p) \cap blocked = {}},
                 TargetCell(m, at, Branches(m, power)))

-----------------------------------------------------------------------------
(* The sweep.  Ground a source may not stand on is fixed at the start but  *)
(* for the sources already moved; the vents are those of the placement it  *)
(* was given.                                                              *)

\* Mutant: the pipes are obstacles to the cable, not to the source.
GroundWithoutPipes(occupied, body, vents, taken) == (occupied \ body) \cup Reserved \cup vents

Ground(occupied, body, vents, taken) == (occupied \ body) \cup Reserved \cup vents \cup taken

Weigh(best, candidate, power, taken) ==
    LET score == Score(candidate, power, taken)
    IN IF Before(score, best.score) THEN [score |-> score, at |-> candidate, power |-> power] ELSE best

Try(best, m, pose, at, taken, claimed) ==
    LET candidate == [at EXCEPT ![m] = pose]
    IN IF pose = at[m] THEN best ELSE Weigh(best, candidate, RoutePower(candidate, taken, claimed), taken)

BestPose(m, acc, poses, taken, claimed) ==
    FoldLeft(LAMBDA best, pose : Try(best, m, pose, acc.at, taken, claimed),
             [score |-> Score(acc.at, acc.power, taken), at |-> acc.at, power |-> acc.power], poses)

Moved(m, acc, best) ==
    [at |-> best.at, power |-> best.power,
     occupied |-> (acc.occupied \ Body(m, acc.at[m])) \cup Body(m, best.at[m])]

Relocate(acc, m, vents, taken, claimed) ==
    IF LoadOf(m) = {} THEN acc
    ELSE Moved(m, acc, BestPose(m, acc, CandidatePoses(m, acc.at, acc.power,
                                                       Ground(acc.occupied, Body(m, acc.at[m]), vents, taken)),
                                taken, claimed))

\* A placement that cannot carry its power is handed back as it came.
RepairFrom(L, first, taken, claimed) ==
    IF PowerExternal \/ first.failed # {} THEN [at |-> L, power |-> first]
    ELSE FoldLeft(LAMBDA acc, m : Relocate(acc, m, VentCells(L), taken, claimed),
                  [at |-> L, power |-> first, occupied |-> UNION {Body(m, L[m]) : m \in DOMAIN L}],
                  MachineOrder)

LaidFrom(L, first, taken, claimed, repairing) ==
    IF repairing THEN RepairFrom(L, first, taken, claimed) ELSE [at |-> L, power |-> first]

\* The power stage: laid where the sources stand, or with them moved.
LayPower(L, taken, claimed, repairing) ==
    LaidFrom(L, RoutePower(L, taken, claimed), taken, claimed, repairing)
=============================================================================
