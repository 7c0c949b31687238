----------------------------- MODULE Constructive -----------------------------
(***************************************************************************)
(* The constructive placer, src/gtnh_solver/placement/constructive.py with *)
(* the columns of placement/groups.py: machines dropped one after another  *)
(* into the first free slot.  The fast path scans plainly; the annealer's  *)
(* seed ("lattice") spaces a line of single blocks out and lays each group *)
(* of parallel single blocks as one column, falling back to the plain seed *)
(* when the grouped one cannot place the line.                             *)
(*                                                                         *)
(* A behaviour is one call.  Lines holds the calls: machines (a sequence,  *)
(* already in flow order) with facings (the legal ones, preferred first),  *)
(* size (facing -> extents), outside (the front has to be on a region      *)
(* wall), group (Alone or the group's name) and number (in its group),     *)
(* then reserved (cells) and lattice.                                      *)
(***************************************************************************)
EXTENDS Integers, Sequences, FiniteSets, FiniteSetsExt, Functions

CONSTANTS SX, SY, SZ, Lines, Alone

ASSUME RegionAssumption == {SX, SY, SZ} \subseteq Nat \ {0}

Facing == {"north", "south", "west", "east"}

(* Some facing is always legal, and a box has a size whichever way it      *)
(* faces.                                                                  *)
ASSUME LineAssumption ==
  \A call \in Lines :
    /\ call.machines \in Seq(Range(call.machines))
    /\ \A m \in Range(call.machines) :
         /\ m.facings \in Seq(Facing) /\ m.facings # <<>>
         /\ m.outside \in BOOLEAN
         /\ m.number \in Nat
         /\ m.size \in [Facing -> (Nat \ {0}) \X (Nat \ {0}) \X (Nat \ {0})]

(* A group is of interchangeable single blocks, none facing outside.       *)
ASSUME GroupAssumption ==
  \A call \in Lines : \A i, j \in DOMAIN call.machines :
    LET a == call.machines[i]  b == call.machines[j] IN
    a.group # Alone /\ a.group = b.group =>
      /\ ~a.outside /\ a.facings = b.facings
      /\ \A f \in Facing : a.size[f] = <<1, 1, 1>>
      /\ i # j => a.number # b.number

Cell == (0 .. SX - 1) \X (0 .. SY - 1) \X (0 .. SZ - 1)

VARIABLES
  line,    \* the call
  todo,    \* units still to place: [members |-> indices, slot |-> cell or NoSlot]
  placed,  \* machine index -> [cell, facing], for those placed
  mode     \* "grouped", "plain", then "ok" or "wont_fit"

vars == <<line, todo, placed, mode>>

NoSlot == <<>>

(* Every variable keeps its shape; a block is only ever put at a cell of   *)
(* the region.                                                             *)
TypeOK ==
  /\ line \in Lines
  /\ \A u \in Range(todo) : /\ Range(u.members) \subseteq DOMAIN line.machines
                            /\ u.slot = NoSlot \/ Len(u.slot) = 3
  /\ DOMAIN placed \subseteq DOMAIN line.machines
  /\ \A i \in DOMAIN placed : placed[i].cell \in Cell /\ placed[i].facing \in Facing
  /\ mode \in {"grouped", "plain", "ok", "wont_fit"}

-----------------------------------------------------------------------------
(* Geometry                                                                *)

Plus(c, d) == <<c[1] + d[1], c[2] + d[2], c[3] + d[3]>>

Box(origin, size) ==
  {Plus(origin, d) : d \in (0 .. size[1] - 1) \X (0 .. size[2] - 1) \X (0 .. size[3] - 1)}

(* Whether the front face of a placed box lies on a region wall.           *)
FrontOnWall(origin, size, facing) ==
  CASE facing = "north" -> origin[3] = 0
    [] facing = "south" -> origin[3] + size[3] = SZ
    [] facing = "west"  -> origin[1] = 0
    [] facing = "east"  -> origin[1] + size[1] = SX

Machines == line.machines

Body(i, at) == Box(at.cell, Machines[i].size[at.facing])

Occupied == line.reserved \cup UNION {Body(i, placed[i]) : i \in DOMAIN placed}

SingleBlocksOnly ==
  Machines # <<>> /\ \A m \in Range(Machines) : \A f \in Range(m.facings) : m.size[f] = <<1, 1, 1>>

-----------------------------------------------------------------------------
(* The seed lattice: rows of about sqrt(n) blocks, every second x, every   *)
(* third z.                                                                *)
CeilDiv(a, b) == (a + b - 1) \div b

PerRow(n) == Min({k \in 1 .. n : k * k >= n})

OnLattice(c, n) ==
  /\ c[2] = 0 /\ c[1] % 2 = 0 /\ c[3] % 3 = 0
  /\ c[1] <= (PerRow(n) - 1) * 2
  /\ c[3] <= (CeilDiv(n, PerRow(n)) - 1) * 3

(* Position of an origin in the scan: the floor first, then row by row;    *)
(* of a spaced line, the lattice points before everything else.            *)
ScanRank(c, spaced) ==
  LET plain == (c[2] * SZ + c[3]) * SX + c[1] IN
  IF spaced /\ ~OnLattice(c, Len(Machines)) THEN plain + SX * SY * SZ ELSE plain

(* Mutant: a front that must face outside is placed like any other.        *)
SpotsAnywhere(i, taken) ==
  {at \in [cell : Cell, facing : {Machines[i].facings[1]}] : Body(i, at) \subseteq Cell \ taken}

(* Where machine i may go around the taken cells: at its first facing, or, *)
(* when its front faces outside, at any facing with the front on a wall.   *)
Spots(i, taken) ==
  LET m == Machines[i] IN
  {at \in [cell : Cell, facing : IF m.outside THEN Range(m.facings) ELSE {m.facings[1]}] :
     /\ Body(i, at) \subseteq Cell \ taken
     /\ m.outside => FrontOnWall(at.cell, m.size[at.facing], at.facing)}

FacingRank(i, f) == Min({k \in DOMAIN Machines[i].facings : Machines[i].facings[k] = f})

(* The first of those in the scan, its facing by preference.               *)
SpotRank(i, at, spaced) ==
  ScanRank(at.cell, spaced) * (Len(Machines[i].facings) + 1) + FacingRank(i, at.facing)

FirstSpot(i, taken, spaced) ==
  CHOOSE at \in Spots(i, taken) :
    \A other \in Spots(i, taken) : SpotRank(i, at, spaced) <= SpotRank(i, other, spaced)

-----------------------------------------------------------------------------
(* Columns and the shelf                                                   *)

(* A sequence TLC evaluates once, where it would evaluate a function at    *)
(* every application.                                                      *)
Laid(s) == SubSeq(s, 1, Len(s))

(* The members of a set by ascending key.                                  *)
InOrder(S, key) ==
  Laid([k \in 1 .. Cardinality(S) |->
          CHOOSE i \in S : Cardinality({j \in S : key[j] < key[i]}) = k - 1])

(* A group's members head first, by instance number.                       *)
Members(g) ==
  InOrder({i \in DOMAIN Machines : Machines[i].group = g},
          [i \in DOMAIN Machines |-> Machines[i].number])

Groups == {Machines[i].group : i \in DOMAIN Machines} \ {Alone}

(* Groups as columns where their first member comes, the others alone.     *)
Heads ==
  {i \in DOMAIN Machines : \/ Machines[i].group = Alone
                           \/ \A j \in 1 .. i - 1 : Machines[j].group # Machines[i].group}

UnitOf(i) == IF Machines[i].group = Alone THEN <<i>> ELSE Members(Machines[i].group)

Units(heads) ==
  LET flow == InOrder(heads, [i \in DOMAIN Machines |-> i])
  IN  Laid([k \in DOMAIN flow |-> UnitOf(flow[k])])

UnitFacing(u) == Machines[u[1]].facings[1]

(* Mutant: the tail of a south- or east-facing column runs the wrong way.  *)
ColumnOffsetForward(n, j, facing) ==
  IF facing \in {"north", "south"} THEN <<0, 0, j - 1>> ELSE <<j - 1, 0, 0>>

(* Member j of a column of n, from the column's minimum corner.            *)
ColumnOffset(n, j, facing) ==
  CASE facing = "north" -> <<0, 0, j - 1>>
    [] facing = "south" -> <<0, 0, n - j>>
    [] facing = "west"  -> <<j - 1, 0, 0>>
    [] facing = "east"  -> <<n - j, 0, 0>>

ColumnSize(u) ==
  IF UnitFacing(u) \in {"north", "south"} THEN <<1, 1, Len(u)>> ELSE <<Len(u), 1, 1>>

UnitWidth(u) == ColumnSize(u)[1]
UnitDepth(u) == ColumnSize(u)[3]

(* The shelf with per units a row: where unit k starts, and its extents.   *)
RowOf(k, per) == (k - 1) \div per

RowDepth(units, per, r) ==
  Max({UnitDepth(units[k]) : k \in {j \in DOMAIN units : RowOf(j, per) = r}})

SlotX(units, per, k) ==
  MapThenSumSet(LAMBDA j : UnitWidth(units[j]) + 1,
                {j \in 1 .. k - 1 : RowOf(j, per) = RowOf(k, per)})

SlotZ(units, per, k) ==
  MapThenSumSet(LAMBDA r : RowDepth(units, per, r) + 2, 0 .. RowOf(k, per) - 1)

ShelfWidth(units, per) == Max({SlotX(units, per, k) + UnitWidth(units[k]) : k \in DOMAIN units})

ShelfDepth(units, per) ==
  SlotZ(units, per, Len(units)) + RowDepth(units, per, RowOf(Len(units), per))

(* Squarest floor, then smallest, then fewest a row.                       *)
BetterShelf(a, b) ==
  \/ a.side < b.side
  \/ a.side = b.side /\ a.area < b.area
  \/ a.side = b.side /\ a.area = b.area /\ a.per <= b.per

ShelfKey(units, per) ==
  [side |-> Max({ShelfWidth(units, per), ShelfDepth(units, per)}),
   area |-> ShelfWidth(units, per) * ShelfDepth(units, per), per |-> per]

BestShelf(units) ==
  LET keys == {ShelfKey(units, per) : per \in DOMAIN units} IN
  (CHOOSE a \in keys : \A b \in keys : BetterShelf(a, b)).per

Slotted(units) ==
  LET per == BestShelf(units) IN
  [k \in DOMAIN units |->
     [members |-> units[k], slot |-> <<SlotX(units, per, k), 0, SlotZ(units, per, k)>>]]

Unslotted(units) == [k \in DOMAIN units |-> [members |-> units[k], slot |-> NoSlot]]

(* A line of single blocks is shelved, the fronts that face outside last.  *)
Outside == {i \in Heads : Machines[i].outside}

GroupedTodo(shelf) ==
  IF SingleBlocksOnly THEN Slotted(shelf) \o Unslotted(Units(Outside)) ELSE Unslotted(Units(Heads))

PlainTodo == [i \in DOMAIN Machines |-> [members |-> <<i>>, slot |-> NoSlot]]

-----------------------------------------------------------------------------
Init ==
  /\ line \in Lines
  /\ placed = <<>>
  /\ IF line.lattice /\ Groups # {}
       THEN mode = "grouped" /\ \E shelf \in {Units(Heads \ Outside)} : todo = GroupedTodo(shelf)
       ELSE mode = "plain" /\ todo = PlainTodo

Placing == mode \in {"grouped", "plain"} /\ todo # <<>>

Unit == todo[1].members

(* Origins the unit's column (or lone block) fits at; its slot comes first.*)
ColumnFits == {o \in Cell : Box(o, ColumnSize(Unit)) \subseteq Cell \ Occupied}

(* Mutant: a shelf slot is taken on trust.                                 *)
ColumnOriginUnchecked ==
  IF todo[1].slot # NoSlot THEN todo[1].slot ELSE CHOOSE o \in ColumnFits : TRUE

ColumnOrigin ==
  IF todo[1].slot \in ColumnFits THEN todo[1].slot
  ELSE CHOOSE o \in ColumnFits : \A p \in ColumnFits : ScanRank(o, FALSE) <= ScanRank(p, FALSE)

Put(at) ==
  /\ placed' = [i \in DOMAIN placed \cup DOMAIN at |-> IF i \in DOMAIN at THEN at[i] ELSE placed[i]]
  /\ todo' = Tail(todo)
  /\ UNCHANGED <<line, mode>>

Column == Placing /\ Len(Unit) > 1

LayColumn ==
  /\ Column /\ ColumnFits # {}
  /\ LET origin == ColumnOrigin
         position == [i \in Range(Unit) |-> CHOOSE j \in DOMAIN Unit : Unit[j] = i]
     IN  Put([i \in Range(Unit) |->
                [cell |-> Plus(origin, ColumnOffset(Len(Unit), position[i], UnitFacing(Unit))),
                 facing |-> UnitFacing(Unit)]])

(* A column that fits nowhere is taken apart, its members placed alone.    *)
Dissolve ==
  /\ Column /\ ColumnFits = {}
  /\ todo' = Unslotted([j \in DOMAIN Unit |-> <<Unit[j]>>]) \o Tail(todo)
  /\ UNCHANGED <<line, placed, mode>>

Single == Placing /\ Len(Unit) = 1

Slot == todo[1].slot # NoSlot /\ todo[1].slot \in ColumnFits

(* A lone block goes to its shelf slot when that is free.                  *)
LayOnShelf ==
  /\ Single /\ Slot
  /\ Put([i \in {Unit[1]} |-> [cell |-> todo[1].slot, facing |-> UnitFacing(Unit)]])

(* Only the plain seed of a single-block line is spaced by the lattice.    *)
Spaced == mode = "plain" /\ line.lattice /\ SingleBlocksOnly

LayFirstFit ==
  /\ Single /\ ~Slot /\ Spots(Unit[1], Occupied) # {}
  /\ Put([i \in {Unit[1]} |-> FirstSpot(i, Occupied, Spaced)])

Stuck == Single /\ ~Slot /\ Spots(Unit[1], Occupied) = {}

(* Mutant: a grouped seed that cannot be placed is the end of it.          *)
FallBackNever == Stuck /\ mode = "grouped" /\ mode' = "wont_fit" /\ UNCHANGED <<line, todo, placed>>

(* The grouped seed cannot place the line: the plain seed starts over.     *)
FallBack ==
  /\ Stuck /\ mode = "grouped"
  /\ mode' = "plain"
  /\ placed' = <<>>
  /\ todo' = PlainTodo
  /\ UNCHANGED line

WontFit ==
  /\ Stuck /\ mode = "plain"
  /\ mode' = "wont_fit"
  /\ UNCHANGED <<line, todo, placed>>

AllPlaced ==
  /\ mode \in {"grouped", "plain"} /\ todo = <<>>
  /\ mode' = "ok"
  /\ UNCHANGED <<line, todo, placed>>

Next ==
  \/ LayColumn \/ Dissolve \/ LayOnShelf \/ LayFirstFit
  \/ FallBack \/ WontFit \/ AllPlaced

Spec == Init /\ [][Next]_vars

-----------------------------------------------------------------------------
(* Properties                                                              *)

(* However a machine came to its place, by column, slot or scan, in a line *)
(* partly placed or whole: no two bodies meet, none leaves the region or   *)
(* lies on a reserved cell, and a front that must face outside does.       *)
PlacementsLegal ==
  /\ TypeOK
  /\ \A i \in DOMAIN placed :
       /\ Body(i, placed[i]) \subseteq Cell \ line.reserved
       /\ placed[i].facing \in Range(Machines[i].facings)
       /\ Machines[i].outside =>
            FrontOnWall(placed[i].cell, Machines[i].size[placed[i].facing], placed[i].facing)
  /\ \A i, j \in DOMAIN placed : i # j => Body(i, placed[i]) \cap Body(j, placed[j]) = {}
  /\ mode = "ok" => DOMAIN placed = DOMAIN Machines

Ahead(facing) ==
  CASE facing = "north" -> <<0, 0, -1>> [] facing = "south" -> <<0, 0, 1>>
    [] facing = "west" -> <<-1, 0, 0>>  [] facing = "east" -> <<1, 0, 0>>

(* A group laid while no column had to be taken apart stands in one        *)
(* column, each later member's front against the back of the one before    *)
(* it, so a single front stays free (docstring of column_offsets).         *)
ColumnsBackToFront ==
  [][LayColumn =>
       \A j \in 2 .. Len(Unit) :
         LET at == placed'[Unit[j]] IN
         Plus(at.cell, Ahead(at.facing)) = placed'[Unit[j-1]].cell]_vars

(* The plain first fit of the whole line, computed apart from the steps:   *)
(* the placements of the machines before the first that fits nowhere.      *)
FirstFitAll(spaced) ==
  LET laid[k \in 0 .. Len(Machines)] ==
        IF k = 0 THEN <<>>
        ELSE LET before == laid[k-1]
                 taken == line.reserved \cup UNION {Body(i, before[i]) : i \in DOMAIN before}
             IN  IF Len(before) = k - 1 /\ Spots(k, taken) # {}
                   THEN Append(before, FirstSpot(k, taken, spaced))
                   ELSE before
  IN  laid[Len(Machines)]

(* Grouping never turns a feasible line infeasible (module docstring).     *)
GroupingNeverLoses ==
  mode = "wont_fit" => Len(FirstFitAll(line.lattice /\ SingleBlocksOnly)) < Len(Machines)

(* When the annealer's seed cannot be placed "the machines do not fit the  *)
(* region at all" (solver/core.py), so neither does the fast path's row.   *)
WontFitMeansNothingFits ==
  mode = "wont_fit" => Len(FirstFitAll(FALSE)) < Len(Machines)
=============================================================================
