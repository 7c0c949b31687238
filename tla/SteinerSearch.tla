---------------------------- MODULE SteinerSearch ----------------------------
(***************************************************************************)
(* The loop of router/steiner.py _search: a priced multi-source Dijkstra   *)
(* that stops as soon as nothing unexplored can win.  It pops cells        *)
(* cheapest first; at every dock cell it compares the cost per endpoint    *)
(* served with the best so far, and keeps a limit past which no goal still *)
(* alive can beat it.                                                      *)
(*                                                                         *)
(* One behaviour is one call; the call's arguments are picked from Queries.*)
(***************************************************************************)
EXTENDS TreeSearch

CONSTANT Queries   \* records [seeds, goals, machine, extra, fee, blocked]

(* Prices are never negative; the endpoints of a call are finitely many.   *)
ASSUME QueriesAssumption ==
  \A c \in Queries :
    /\ DOMAIN c.seeds \subseteq Cell /\ \A s \in DOMAIN c.seeds : c.seeds[s] \in 0 .. Infinity
    /\ c.extra \in [Cell -> Nat]
    /\ DOMAIN c.goals \subseteq Nat /\ IsFiniteSet(DOMAIN c.goals)
    /\ \A i \in DOMAIN c.goals : c.goals[i] \subseteq Cell /\ \A g \in c.goals[i] : c.fee[i][g] \in Nat

VARIABLES
  query,     \* the arguments of this call
  dist,      \* cell -> cheapest cost known ("best"), Infinity while unseen
  came,      \* cell -> the cell it was reached from, NoCell at a seed
  settled,   \* cells popped from the heap
  alive,     \* goals of several endpoints not reached yet
  found,     \* the best offer so far
  limit,     \* [cost, share]: costs above cost/share cannot win
  running

searchVars == <<query, dist, came, settled, alive, found, limit, running>>

(* Every variable of the loop keeps its shape; the limit's divisor is      *)
(* never zero.                                                             *)
SearchTypeOK ==
  /\ query \in Queries
  /\ dist \in [Cell -> 0 .. Infinity]
  /\ came \in [Cell -> Cell \cup {NoCell}]
  /\ settled \in SUBSET Cell
  /\ alive \in SUBSET Cell
  /\ found.cell \in Cell \cup {NoCell}
  /\ limit \in [cost : Nat, share : Nat \ {0}]
  /\ running \in BOOLEAN

-----------------------------------------------------------------------------
Share(c) == Cardinality(ServedAt(c, query.goals, query.machine, query.fee))

QueryGoals == GoalCells(query.goals)

(* The straight-line distance of a goal from the nearest seed.             *)
Near(c) == Min({Manhattan(c, s) : s \in DOMAIN query.seeds})

(* Mutant: no goal of several endpoints widens the search.                 *)
ReachSolo(ratio, left) == ratio

(* reach(ratio): the ratio itself, or ratio * k for the largest k among    *)
(* the goals left whose distance bound does not already exclude them.      *)
Reach(ratio, left) ==
  LET rivals == {c \in left : Near(c) * ratio.share <= ratio.cost * Share(c)}
  IN  [cost |-> ratio.cost * Max({1} \cup {Share(c) : c \in rivals}), share |-> ratio.share]

(* Mutant: one endpoint too few in the divisor.                            *)
RatioShort(offer) == [cost |-> offer.cost, share |-> offer.share - 1]

Ratio(offer) == [cost |-> offer.cost, share |-> offer.share]

Beyond(cost) == cost * limit.share > limit.cost

(* Mutant: a popped cell stays on the heap.                                *)
FrontierKept == {c \in Cell : dist[c] < Infinity}

(* What the heap yields next: the cheapest cell seen and not yet popped.   *)
Frontier == {c \in Cell : dist[c] < Infinity} \ settled

(* Mutant: the heap ordered by cell alone.                                 *)
PoppedByCell(c) == c \in Frontier /\ \A d \in Frontier : c <= d

Popped(c) ==
  /\ c \in Frontier
  /\ \A d \in Frontier : dist[c] < dist[d] \/ (dist[c] = dist[d] /\ c <= d)

(* Mutant: an equally cheap way replaces the one known.                    *)
ImprovesOrTies(c, n) ==
  /\ n \in Adj(c) \ query.blocked
  /\ dist[c] + StepCost(query.extra, n) <= dist[n]

Improves(c, n) ==
  /\ n \in Adj(c) \ query.blocked
  /\ dist[c] + StepCost(query.extra, n) < dist[n]

-----------------------------------------------------------------------------
SearchInit ==
  /\ query \in Queries
  /\ dist = [c \in Cell |-> IF c \in DOMAIN query.seeds THEN query.seeds[c] ELSE Infinity]
  /\ came = [c \in Cell |-> NoCell]
  /\ settled = {}
  /\ alive = {c \in QueryGoals : Share(c) > 1}
  /\ found = NoOffer
  /\ limit = [cost |-> Infinity, share |-> 1]
  /\ running = TRUE

Expand(c) ==
  /\ settled' = settled \cup {c}
  /\ dist' = [n \in Cell |-> IF Improves(c, n) THEN dist[c] + StepCost(query.extra, n) ELSE dist[n]]
  /\ came' = [n \in Cell |-> IF Improves(c, n) THEN c ELSE came[n]]
  /\ UNCHANGED <<query, running>>

(* A cell that is no dock of a pending endpoint is only passed through.    *)
Pass(c) ==
  /\ running /\ Popped(c) /\ ~Beyond(dist[c])
  /\ c \notin QueryGoals
  /\ Expand(c)
  /\ UNCHANGED <<alive, found, limit>>

(* A dock cell makes its offer; the limit moves when the offer wins, or    *)
(* when this cell leaves the rivals.                                       *)
Serve(c) ==
  /\ running /\ Popped(c) /\ ~Beyond(dist[c])
  /\ c \in QueryGoals
  /\ LET offer == Offer(c, dist[c], query.goals, query.machine, query.fee)
         wins == found.cell = NoCell \/ Beats(offer, found)
     IN  /\ found' = IF wins THEN offer ELSE found
         /\ alive' = alive \ {c}
         /\ limit' = IF wins \/ c \in alive THEN Reach(Ratio(found'), alive') ELSE limit
  /\ Expand(c)

Stop ==
  /\ running
  /\ \A c \in Frontier : Popped(c) => Beyond(dist[c])
  /\ running' = FALSE
  /\ UNCHANGED <<query, dist, came, settled, alive, found, limit>>

SearchNext == (\E c \in Cell : Pass(c) \/ Serve(c)) \/ Stop

SearchSpec == SearchInit /\ [][SearchNext]_searchVars /\ WF_searchVars(SearchNext)

-----------------------------------------------------------------------------
(* Properties                                                              *)

TrueDist == Distances(query.seeds, query.extra, query.blocked)

(* The early stop never changes the answer: when the loop ends, what it    *)
(* found is the best offer among all reachable dock cells, explored or not *)
(* (comment of _search: "It stops as soon as nothing unexplored can win"). *)
(* Following "came" back from any popped cell spells the path PathTo       *)
(* answers: the returned path is the one that was priced.                  *)
StopIsExact ==
  /\ SearchTypeOK
  /\ ~running => /\ found = BestGoal(TrueDist, query.goals, query.machine, query.fee)
                 /\ \A c \in settled : came[c] = CameFrom(c, TrueDist, query.extra, query.seeds)

(* A popped cell is never improved later, so the cost its offer was made   *)
(* from is final: the loop skips stale heap entries on this ground.        *)
SettledIsFinal ==
  [][\A c \in settled : dist'[c] = dist[c] /\ came'[c] = came[c]]_searchVars

(* Every call returns.                                                     *)
Returns == <>~running
=============================================================================
