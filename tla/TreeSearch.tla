------------------------------ MODULE TreeSearch ------------------------------
(***************************************************************************)
(* What one search of router/steiner.py (_search) answers: which dock cell *)
(* is cheapest per endpoint it serves, and by which path.  SteinerSearch   *)
(* models the priced Dijkstra loop that computes it and shows that the     *)
(* loop's early stop never changes this answer; SteinerTree grows whole    *)
(* trees from it.                                                          *)
(*                                                                         *)
(* Costs are natural numbers in a common scale: only sums and comparisons  *)
(* of them matter.  A ratio cost / endpoints is compared by                *)
(* cross-multiplication.                                                   *)
(*                                                                         *)
(* The grid they search (class Grid) is the bounding region as packed      *)
(* cells: a cell is (x * sy + y) * sz + z, which orders as the (x, y, z)   *)
(* triples do, so every tie the routers break on a cell breaks the same    *)
(* way packed.                                                             *)
(***************************************************************************)
EXTENDS Integers, FiniteSets, Sequences, FiniteSetsExt, Functions, TLC

CONSTANTS
  SX, SY, SZ,   \* the extents of the bounding region
  Hard          \* cells no route may enter: bodies, reserved cells, vents

Cell == 0 .. SX * SY * SZ - 1

ASSUME RegionAssumption == SX \in Nat \ {0} /\ SY \in Nat \ {0} /\ SZ \in Nat \ {0}

ASSUME HardAssumption == Hard \subseteq Cell

Enc(x, y, z) == (x * SY + y) * SZ + z

X(c) == (c \div SZ) \div SY
Y(c) == (c \div SZ) % SY
Z(c) == c % SZ

Apart(a, b) == IF a < b THEN b - a ELSE a - b

Manhattan(c, d) == Apart(X(c), X(d)) + Apart(Y(c), Y(d)) + Apart(Z(c), Z(d))

(* The face neighbours inside the region that no wall takes.  Each step    *)
(* checks its own axis first: on packed cells, -1 from z = 0 is the far    *)
(* end of the next row, not a neighbour.                                   *)
Adj(c) ==
  LET step == {s \in {<<X(c) > 0, -(SY * SZ)>>, <<Y(c) > 0, -SZ>>, <<Z(c) > 0, -1>>,
                      <<Z(c) < SZ - 1, 1>>, <<Y(c) < SY - 1, SZ>>, <<X(c) < SX - 1, SY * SZ>>} :
                s[1]}
  IN  {c + s[2] : s \in step} \ Hard

-----------------------------------------------------------------------------
(* Searches over it.                                                       *)

NoCell == -1
Infinity == 1000000   \* float("inf"): above every cost the instances reach

(* The cost of stepping into a cell: its unit and its congestion price.    *)
StepCost(extra, c) == 1 + extra[c]

(* The function itself; comparing it makes TLC tabulate it here instead of *)
(* evaluating it at every use.                                             *)
Table(f) == IF f = f THEN f ELSE f

(* The cells a step into c can come from.                                  *)
Beside == Table([c \in Cell |-> {n \in Cell : c \in Adj(n)}])

(* Cheapest cost of every cell from seeds (cell -> entry cost) through     *)
(* cells outside blocked.                                                  *)
Distances(seeds, extra, blocked) ==
  LET d[k \in 0 .. Cardinality(Cell)] ==
        IF k = 0
        THEN [c \in Cell |-> IF c \in DOMAIN seeds THEN seeds[c] ELSE Infinity]
        ELSE LET nearer == Table(d[k-1]) IN
             [c \in Cell |->
                IF c \in blocked \cup Hard THEN nearer[c]
                ELSE Min({nearer[c]} \cup {nearer[n] + StepCost(extra, c) : n \in Beside[c]})]
  IN  Table(d[Cardinality(Cell)])

(* The endpoints a dock cell serves: of each machine only one, the         *)
(* cheapest by casing price, then the lowest index.  goals[i] are the      *)
(* cells endpoint i may take, machine[i] its machine, fee[i][c] what its    *)
(* casing key costs there.                                                 *)
ServedAt(c, goals, machine, fee) ==
  {i \in DOMAIN goals :
     /\ c \in goals[i]
     /\ \A j \in DOMAIN goals :
          c \in goals[j] /\ machine[j] = machine[i] =>
            fee[i][c] < fee[j][c] \/ (fee[i][c] = fee[j][c] /\ i <= j)}

(* A candidate answer: the cell, what reaching and tapping it costs, and   *)
(* how many endpoints share that cost.                                     *)
Offer(c, cost, goals, machine, fee) ==
  LET served == ServedAt(c, goals, machine, fee) IN
  [cell |-> c, cost |-> cost + MapThenSumSet(LAMBDA i : fee[i][c], served),
   share |-> Cardinality(served)]

(* Cheapest per endpoint first, then the more endpoints, then the cell.    *)
Beats(a, b) ==
  LET left == a.cost * b.share
      right == b.cost * a.share
  IN  \/ left < right
      \/ left = right /\ a.share > b.share
      \/ left = right /\ a.share = b.share /\ a.cell < b.cell

NoOffer == [cell |-> NoCell, cost |-> 0, share |-> 1]

Best(offers) ==
  IF offers = {} THEN NoOffer
  ELSE CHOOSE a \in offers : \A b \in offers : b = a \/ Beats(a, b)

GoalCells(goals) == UNION Range(goals)

BestGoal(dist, goals, machine, fee) ==
  Best({Offer(c, dist[c], goals, machine, fee) : c \in {g \in GoalCells(goals) : dist[g] < Infinity}})

(* The path the search came by: back from the goal, each cell entered from *)
(* the lowest-numbered neighbour on a cheapest way, until a seed that      *)
(* nothing reaches more cheaply.                                           *)
CameFrom(c, dist, extra, seeds) ==
  IF c \in DOMAIN seeds /\ dist[c] = seeds[c] THEN NoCell
  ELSE Min({n \in Beside[c] : dist[n] + StepCost(extra, c) = dist[c]})

PathTo(goal, dist, extra, seeds) ==
  LET back[k \in 0 .. Cardinality(Cell)] ==
        IF k = 0 THEN <<goal>>
        ELSE LET path == back[k-1]
                 from == CameFrom(Head(path), dist, extra, seeds)
             IN  IF from = NoCell THEN path ELSE <<from>> \o path
  IN  back[Cardinality(Cell)]
=============================================================================
