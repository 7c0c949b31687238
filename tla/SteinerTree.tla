----------------------------- MODULE SteinerTree -----------------------------
(***************************************************************************)
(* One net as a group Steiner tree: route_tree and _grow of                *)
(* src/gtnh_solver/router/steiner.py.  The first option grows from every   *)
(* dock cell of endpoint 0 at once, the later ones from a few of them      *)
(* alone; each growth joins the cheapest dock cell per endpoint served     *)
(* until every endpoint has a terminal; the cheapest tree wins.            *)
(*                                                                         *)
(* One behaviour is one call, its arguments picked from Calls: records     *)
(* with cand (endpoint -> the cells it may dock on), machine (endpoint ->  *)
(* its machine), key (endpoint -> cell -> claim key), extra and fee (the   *)
(* prices), blocked, prefer (NoCell when the net has no earlier tree) and  *)
(* trunk.  The endpoints are numbered from 0 in net order.                 *)
(***************************************************************************)
EXTENDS TreeSearch

CONSTANTS Calls, Starts, LateStarts

(* A net has an endpoint 0; dock_candidates only answers free cells; no    *)
(* price is negative, and none of a start's is infinite.                   *)
ASSUME CallsAssumption ==
  \A c \in Calls :
    /\ 0 \in DOMAIN c.cand /\ DOMAIN c.cand \subseteq Nat /\ IsFiniteSet(DOMAIN c.cand)
    /\ c.extra \in [Cell -> Nat]
    /\ \A i \in DOMAIN c.cand :
         /\ c.cand[i] \subseteq Cell \ Hard
         /\ \A x \in c.cand[i] : c.fee[i][x] \in Nat
    /\ \A x \in c.cand[0] : c.extra[x] + c.fee[0][x] <= Infinity

VARIABLES
  call,      \* the arguments
  todo,      \* single starts not tried yet
  reach,     \* where the next leg may leave from: cell -> entry cost
  cells,     \* cells of the tree being grown
  terminal,  \* endpoint -> its dock cell, NoCell until it has one
  banned,    \* keys no other connection of the first machine may take yet
  legged,    \* some leg has been laid
  best,      \* the cheapest finished tree so far
  phase      \* "grow", "pick", "done"

vars == <<call, todo, reach, cells, terminal, banned, legged, best, phase>>

Endpoint == DOMAIN call.cand
MachineOf(i) == call.machine[i]

NoTree == [cost |-> Infinity, cells |-> {}, terminal |-> <<>>]

(* Every variable of the call keeps its shape.                             *)
TypeOK ==
  /\ todo \in SUBSET Cell /\ cells \in SUBSET Cell
  /\ DOMAIN reach \subseteq Cell
  /\ terminal \in [Endpoint -> Cell \cup {NoCell}]
  /\ legged \in BOOLEAN
  /\ phase = "grow" /\ legged => DOMAIN reach = cells
  /\ best.cells \in SUBSET Cell
  /\ phase \in {"grow", "pick", "done"}

-----------------------------------------------------------------------------
Last == Max(Endpoint)

(* Mutant: a start is entered free of its price.                           *)
EntryUnpriced(c) == call.fee[0][c]

Entry(c) == call.extra[c] + call.fee[0][c]

FreeStarts == call.cand[0] \ call.blocked

CheaperStart(c, d) == Entry(c) < Entry(d) \/ (Entry(c) = Entry(d) /\ c < d)

(* The single starts worth trying: the cheapest few, and for a net with an *)
(* earlier tree fewer of them, plus the start that tree grew from.         *)
Singles ==
  LET few == IF call.prefer = NoCell THEN Starts ELSE LateStarts
  IN  IF Cardinality(Endpoint) <= 2 THEN {}
      ELSE {c \in FreeStarts : \/ Cardinality({d \in FreeStarts : CheaperStart(d, c)}) < few
                               \/ c = call.prefer}

Pending == {i \in Endpoint : i # 0 /\ terminal[i] = NoCell}

(* Mutant: a machine's other connections are not looked at.                *)
KeysHeldNot(m) == {}

KeysHeld(m) == {call.key[i][terminal[i]] : i \in {j \in Endpoint : terminal[j] # NoCell
                                                              /\ MachineOf(j) = m}}

(* Mutant: the first machine's open seeds are not set aside.               *)
GoalsForUnbanned(i) ==
  {c \in call.cand[i] \ call.blocked : call.key[i][c] \notin KeysHeld(MachineOf(i))}

(* The cells pending endpoint i may still take: none a wall, none whose    *)
(* key a connection of the same machine holds, and while the first         *)
(* endpoint's own cell is open none it might end up on.                    *)
GoalsFor(i) ==
  {c \in call.cand[i] \ call.blocked :
     /\ call.key[i][c] \notin KeysHeld(MachineOf(i))
     /\ MachineOf(i) = MachineOf(0) => call.key[i][c] \notin banned}

(* Mutant: a contested cell is a wall instead of a price.                  *)
DistWalled == Distances(reach, call.extra, call.blocked \cup {c \in Cell : call.extra[c] > 4})

Dist == Distances(reach, call.extra, call.blocked)

Goals == Table([i \in Pending |-> GoalsFor(i)])

CostOf(held, docks) ==
  MapThenSumSet(LAMBDA c : StepCost(call.extra, c), held)
    + MapThenSumSet(LAMBDA i : call.fee[i][docks[i]], Endpoint)

(* Mutant: the distances to the endpoints added up instead of compared.    *)
FewestCellsSum(start) ==
  1 + MapThenSumSet(LAMBDA i : Min({Manhattan(start, c) : c \in call.cand[i]}), Endpoint \ {0})

(* Fewest cells a tree grown from start can have.                          *)
FewestCells(start) ==
  1 + Max({0} \cup {Min({Manhattan(start, c) : c \in call.cand[i]}) : i \in Endpoint \ {0}})

CannotWin(start) ==
  /\ best # NoTree
  /\ \/ FewestCells(start) > best.cost
     \/ FewestCells(start) = best.cost /\ FewestCells(start) >= Cardinality(best.cells)

-----------------------------------------------------------------------------
(* _grow on entry: a lone seed is the first terminal at once; with several *)
(* the first path decides, and until then their keys are all banned.       *)
Grow(seeds) ==
  /\ phase' = "grow"
  /\ legged' = FALSE
  /\ reach' = seeds
  /\ IF Cardinality(DOMAIN seeds) = 1
       THEN /\ cells' = DOMAIN seeds
            /\ terminal' = [i \in Endpoint |-> IF i = 0 THEN Min(DOMAIN seeds) ELSE NoCell]
            /\ banned' = {}
       ELSE /\ cells' = {}
            /\ terminal' = [i \in Endpoint |-> NoCell]
            /\ banned' = {call.key[0][c] : c \in DOMAIN seeds}

Init ==
  /\ call \in Calls
  /\ todo = Singles
  /\ best = NoTree
  /\ phase = "grow"
  /\ legged = FALSE
  /\ reach = IF Cardinality(FreeStarts) = 1 THEN [c \in FreeStarts |-> 0]
                                            ELSE [c \in FreeStarts |-> Entry(c)]
  /\ cells = IF Cardinality(FreeStarts) = 1 THEN FreeStarts ELSE {}
  /\ terminal = [i \in Endpoint |->
                   IF i = 0 /\ Cardinality(FreeStarts) = 1 THEN Min(FreeStarts) ELSE NoCell]
  /\ banned = IF Cardinality(FreeStarts) = 1 THEN {} ELSE {call.key[0][c] : c \in FreeStarts}

(* Mutant: the next leg leaves from the last path alone.                   *)
LeaveFromLeg(path) == [c \in Range(path) |-> 0]

LeaveFrom(path) == [c \in cells \cup Range(path) |-> 0]

(* One leg: the path to the best dock cell, and every endpoint it serves.  *)
Join ==
  /\ phase = "grow" /\ Pending # {}
  /\ LET found == BestGoal(Dist, Goals, call.machine, call.fee)
         path == PathTo(found.cell, Dist, call.extra, reach)
         served == ServedAt(found.cell, Goals, call.machine, call.fee)
         first == IF terminal[0] = NoCell THEN path[1] ELSE terminal[0]
     IN  /\ found # NoOffer
         /\ terminal' = [i \in Endpoint |-> IF i = 0 THEN first
                                            ELSE IF i \in served THEN found.cell
                                            ELSE terminal[i]]
         /\ cells' = cells \cup Range(path)
         /\ legged' = (legged \/ Len(path) > 1)
         /\ reach' = LeaveFrom(path)
         /\ banned' = {}
  /\ UNCHANGED <<call, todo, best, phase>>

(* Some endpoint has no dock left that this tree reaches: this option      *)
(* gives no tree, whatever another choice of docks would have given.       *)
Stuck ==
  /\ phase = "grow"
  /\ \/ Endpoint = {0} \/ FreeStarts = {}
     \/ Pending # {} /\ BestGoal(Dist, Goals, call.machine, call.fee) = NoOffer
  /\ phase' = "pick"
  /\ UNCHANGED <<call, todo, reach, cells, terminal, banned, legged, best>>

Keep(held, docks) ==
  LET tree == [cost |-> CostOf(held, docks), cells |-> held, terminal |-> docks] IN
  best' = IF \/ tree.cost < best.cost
             \/ tree.cost = best.cost /\ Cardinality(held) < Cardinality(best.cells)
          THEN tree ELSE best

Grown == phase = "grow" /\ Endpoint # {0} /\ FreeStarts # {} /\ Pending = {}

(* Mutant: a cable may be one block.                                       *)
FinishAnyway ==
  /\ Grown
  /\ Keep(cells, terminal)
  /\ phase' = "pick"
  /\ UNCHANGED <<call, todo, reach, cells, terminal, banned, legged>>

Finish ==
  /\ Grown /\ (legged \/ ~call.trunk)
  /\ Keep(cells, terminal)
  /\ phase' = "pick"
  /\ UNCHANGED <<call, todo, reach, cells, terminal, banned, legged>>

(* A cable may not be one block: the last endpoint of a power net gives up *)
(* the shared cell and gets a leg to a dock of its own, or there is no     *)
(* tree.                                                                   *)
StubGoals ==
  LET others == {call.key[j][terminal[j]] : j \in {k \in Endpoint \ {Last} :
                                                     MachineOf(k) = MachineOf(Last)}}
  IN  [i \in {Last} |-> {c \in call.cand[Last] \ (call.blocked \cup cells) :
                           call.key[Last][c] \notin others}]

Stub ==
  /\ Grown /\ call.trunk /\ ~legged
  /\ LET from == [c \in cells |-> 0]
         dist == Distances(from, call.extra, call.blocked)
         found == BestGoal(dist, StubGoals, call.machine, call.fee)
     IN  IF found = NoOffer
           THEN UNCHANGED best
           ELSE Keep(cells \cup Range(PathTo(found.cell, dist, call.extra, from)),
                     [terminal EXCEPT ![Last] = found.cell])
  /\ phase' = "pick"
  /\ UNCHANGED <<call, todo, reach, cells, terminal, banned, legged>>

StartTurn(c) == phase = "pick" /\ c \in todo /\ \A d \in todo : c = d \/ CheaperStart(c, d)

TryStart(c) ==
  /\ StartTurn(c) /\ ~CannotWin(c)
  /\ todo' = todo \ {c}
  /\ Grow([d \in {c} |-> 0])
  /\ UNCHANGED <<call, best>>

SkipStart(c) ==
  /\ StartTurn(c) /\ CannotWin(c)
  /\ todo' = todo \ {c}
  /\ UNCHANGED <<call, reach, cells, terminal, banned, legged, best, phase>>

Return ==
  /\ phase = "pick" /\ todo = {}
  /\ phase' = "done"
  /\ UNCHANGED <<call, todo, reach, cells, terminal, banned, legged, best>>

Next ==
  \/ Join \/ Stuck \/ Finish \/ Stub \/ Return
  \/ \E c \in Cell : TryStart(c) \/ SkipStart(c)

Spec == Init /\ [][Next]_vars

-----------------------------------------------------------------------------
(* Properties                                                              *)

Open == Cell \ (Hard \cup call.blocked)

Connected(held) ==
  LET grown[k \in 0 .. Cardinality(held)] ==
        IF k = 0 THEN {Min(held)}
        ELSE LET near == grown[k-1] IN near \cup {c \in held : \E n \in near : c \in Adj(n)}
  IN  held # {} /\ grown[Cardinality(held)] = held

(* Docks for every endpoint within held: no two connections of one machine *)
(* on one claim key.                                                       *)
Docks(held) ==
  {d \in [Endpoint -> held \cap GoalCells(call.cand)] :
     /\ \A i \in Endpoint : d[i] \in call.cand[i]
     /\ \A i, j \in Endpoint :
          i # j /\ MachineOf(i) = MachineOf(j) => call.key[i][d[i]] # call.key[j][d[j]]}

(* What comes back is a tree the validator accepts: one connected piece of *)
(* free cells holding a dock of every endpoint, no claim key twice on one  *)
(* machine, and never a one-block cable.                                   *)
TreeIsSound ==
  /\ TypeOK
  /\ phase = "done" /\ best # NoTree =>
    /\ best.cells \subseteq Open
    /\ Connected(best.cells)
    /\ best.terminal \in Docks(best.cells)
    /\ call.trunk => Cardinality(best.cells) > 1

Pieces == {held \in SUBSET (Cell \ Hard) : Connected(held)}

Candidates == {held \in Pieces : held \subseteq Open /\ Docks(held) # {}}

Cheapest(held) ==
  CHOOSE cost \in {CostOf(held, d) : d \in Docks(held)} :
    \A d \in Docks(held) : cost <= CostOf(held, d)

(* The distance bound never prunes a start that could have won.            *)
SkippedCouldNotWin ==
  [][\A c \in Cell : SkipStart(c) =>
       \A held \in Candidates :
         c \in held /\ (\E d \in Docks(held) : d[0] = c) =>
           \/ Cheapest(held) > best.cost
           \/ Cheapest(held) = best.cost /\ Cardinality(held) >= Cardinality(best.cells)]_vars

TwoMachines == Cardinality(Endpoint) = 2 /\ \A i, j \in Endpoint : i # j => MachineOf(i) # MachineOf(j)

(* The joint start is exact for a net of two machines (module docstring):  *)
(* no other choice of docks and path is cheaper.                           *)
PairIsCheapest ==
  phase = "done" /\ TwoMachines /\ ~call.trunk =>
    \A held \in Candidates : best.cost <= Cheapest(held)

(* A net that has any tree gets one whatever the prices are (docstring of  *)
(* route_tree).                                                            *)
AnyTreeIsFound ==
  phase = "done" /\ ~call.trunk => (best = NoTree => Candidates = {})

(* ... which it does on an open floor when the connections of one machine  *)
(* may dock on the same cells, as several inputs of one machine do, and    *)
(* the net joins more than that machine (the joint start bans every key    *)
(* the first endpoint may end on, so it never comes back to its machine).  *)
EvenTreeIsFound ==
  (\A i, j \in Endpoint : MachineOf(i) = MachineOf(j) => call.cand[i] = call.cand[j])
  /\ (\E i \in Endpoint : MachineOf(i) # MachineOf(0))
    => AnyTreeIsFound
=============================================================================
