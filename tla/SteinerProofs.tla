--------------------------- MODULE SteinerProofs ---------------------------
(***************************************************************************)
(* router/steiner.py for every region, all prices and all calls.  What its *)
(* search loop pops is final, and stopping early never changes what it     *)
(* answers; the trees it grows are sound and for a pair cheapest, and no   *)
(* start it skips could have won.                                          *)
(***************************************************************************)
EXTENDS SteinerSearch, SteinerTree, TreeSearchProofs

-----------------------------------------------------------------------------
(* The search loop: its inductive invariant.                               *)

Walls == query.blocked \cup Hard

(* The offer of a dock cell at its true cost.                              *)
OfferOf(c) == Offer(c, TrueDist[c], query.goals, query.machine, query.fee)

Reachable(c) == TrueDist[c] < Infinity

(* Popped cells carry their true cost and have passed it on; no cell left  *)
(* comes before a popped one.                                              *)
DijkstraInv ==
  /\ \A c \in Cell : TrueDist[c] <= dist[c] /\ dist[c] <= Seeded(query.seeds)[c]
  /\ \A c \in settled : dist[c] = TrueDist[c] /\ Reachable(c)
  /\ \A c \in Cell \ Walls : \A n \in Beside[c] \cap settled :
       dist[c] <= TrueDist[n] + StepCost(query.extra, c)
  /\ \A s \in settled : \A u \in Cell \ settled : Reachable(u) =>
       TrueDist[s] < TrueDist[u] \/ (TrueDist[s] = TrueDist[u] /\ s <= u)

(* A cell seen was entered from its first popped neighbour on a cheapest   *)
(* way, and is a seed at its own price when it was not entered.            *)
CameInv ==
  \A c \in Cell : dist[c] < Infinity =>
    \/ came[c] = NoCell /\ c \in DOMAIN query.seeds /\ dist[c] = query.seeds[c]
    \/ /\ came[c] \in settled \cap Beside[c] /\ c \notin Walls
       /\ dist[c] = TrueDist[came[c]] + StepCost(query.extra, c)
       /\ \A n \in settled \cap Beside[c] :
            TrueDist[n] + StepCost(query.extra, c) = dist[c] => came[c] <= n
       /\ c \in DOMAIN query.seeds => dist[c] < query.seeds[c]

Served == QueryGoals \cap settled

(* The best offer of the dock cells popped, and the limit that follows     *)
(* from it and the goals not popped yet.                                   *)
FoundInv ==
  /\ alive = {c \in QueryGoals \ settled : Share(c) > 1}
  /\ Served = {} => found = NoOffer /\ limit = [cost |-> Infinity, share |-> 1]
  /\ Served # {} => /\ \E g \in Served : found = OfferOf(g)
                    /\ \A g \in Served : found = OfferOf(g) \/ Beats(found, OfferOf(g))
                    /\ limit = Reach(Ratio(found), alive)

(* Once stopped, every cell left costs more than the limit allows.         *)
StopInv ==
  ~running => \A u \in Cell \ settled : Reachable(u) => TrueDist[u] * limit.share > limit.cost

Shapes ==
  /\ query \in Queries
  /\ dist \in Field
  /\ came \in [Cell -> Cell \cup {NoCell}]
  /\ settled \subseteq Cell
  /\ running \in BOOLEAN

SearchInv == Shapes /\ DijkstraInv /\ CameInv /\ FoundInv /\ StopInv

-----------------------------------------------------------------------------
(* What a call's arguments give.                                           *)

LEMMA CallFacts ==
  ASSUME query \in Queries
  PROVE  /\ Priced(query.seeds, query.extra)
         /\ Docked(query.goals, query.fee)
         /\ Relaxed(TrueDist, query.seeds, query.extra, query.blocked)
         /\ Reached(TrueDist, query.seeds, query.extra, query.blocked)
<1>1. Priced(query.seeds, query.extra) /\ Docked(query.goals, query.fee)
  BY QueriesAssumption DEF Priced, Docked
<1> QED BY <1>1, DistancesSolve DEF TrueDist

LEMMA DistFacts ==
  ASSUME query \in Queries
  PROVE  /\ \A c \in Cell : TrueDist[c] \in Nat /\ TrueDist[c] <= Infinity
         /\ \A c \in Cell : StepCost(query.extra, c) \in Nat /\ StepCost(query.extra, c) >= 1
         /\ \A c \in Cell : Seeded(query.seeds)[c] \in Nat /\ Seeded(query.seeds)[c] <= Infinity
                            /\ TrueDist[c] <= Seeded(query.seeds)[c]
         /\ \A c \in Cell : Beside[c] = {n \in Cell : c \in Adj(n)}
         /\ \A c \in Cell \ Walls : \A n \in Beside[c] :
              TrueDist[c] <= TrueDist[n] + StepCost(query.extra, c)
         /\ \A c \in Cell : c \in Nat
         /\ \A c \in DOMAIN query.seeds : c \in Cell /\ Seeded(query.seeds)[c] = query.seeds[c]
                                         /\ query.seeds[c] \in Nat
<1>1. \A c \in DOMAIN query.seeds : c \in Cell /\ Seeded(query.seeds)[c] = query.seeds[c]
                                   /\ query.seeds[c] \in Nat
  BY CallFacts, InfinityIs DEF Priced, Seeded
<1>2. \A c \in Cell : Seeded(query.seeds)[c] \in Nat /\ Seeded(query.seeds)[c] <= Infinity
  BY CallFacts, SeededType, InfinityIs DEF Field
<1> QED BY <1>1, <1>2, CallFacts, SeededType, BesideIs, CellFinite, InfinityIs DEF Relaxed, Field, Walls

-----------------------------------------------------------------------------
(* The heap.                                                               *)

(* Before a reachable cell not popped yet, one whose cost is already true  *)
(* is on the heap: the cell itself or a cheaper one.                       *)
LEMMA SomethingOnTheHeap ==
  ASSUME Shapes, DijkstraInv, NEW u \in Cell \ settled, Reachable(u)
  PROVE  \E f \in Frontier : dist[f] = TrueDist[f] /\ (f = u \/ TrueDist[f] < TrueDist[u])
<1> DEFINE D == TrueDist
           left == {c \in Cell \ settled : Reachable(c)}
           costs == {D[c] : c \in left}
<1>0. query \in Queries
  BY DEF Shapes
<1>1. PICK m \in left : \A c \in left : D[m] <= D[c]
  <2>1. costs \subseteq Nat /\ costs # {}
    BY <1>0, DistFacts
  <2>2. Min(costs) \in costs /\ \A v \in costs : Min(costs) <= v
    BY <2>1, MinIs
  <2> QED BY <2>2
<1>2. ASSUME NEW c \in left, D[c] = D[m] PROVE c \in Frontier /\ dist[c] = D[c]
  <2>1. c \in Cell /\ c \notin settled /\ D[c] < Infinity /\ D[c] \in Nat /\ dist[c] \in Nat /\ D[c] <= dist[c]
    BY <1>0, DistFacts, InfinityIs DEF Reachable, Shapes, Field, DijkstraInv
  <2>2. dist[c] <= D[c]
    <3>1. CASE c \in DOMAIN query.seeds /\ D[c] = query.seeds[c]
      BY <1>0, <3>1, DistFacts DEF DijkstraInv
    <3>2. ASSUME c \notin query.blocked \cup Hard, NEW n \in Beside[c], D[c] = D[n] + StepCost(query.extra, c)
          PROVE  dist[c] <= D[c]
      <4>1. n \in Cell /\ D[n] < D[c] /\ D[n] \in Nat
        BY <1>0, <2>1, <3>2, DistFacts
      <4>2. n \in settled
        <5>1. n \notin left
          BY <1>0, <1>1, <1>2, <2>1, <4>1, DistFacts
        <5>2. Reachable(n)
          BY <2>1, <4>1, InfinityIs DEF Reachable
        <5> QED BY <4>1, <5>1, <5>2
      <4> QED BY <2>1, <3>2, <4>2 DEF DijkstraInv, Walls
    <3>3. Reached(D, query.seeds, query.extra, query.blocked) /\ D[c] # Infinity
      BY <1>0, <2>1, CallFacts, InfinityIs
    <3> HIDE DEF D, left
    <3> QED BY <2>1, <3>1, <3>2, <3>3 DEF Reached
  <2>3. dist[c] = D[c]
    BY <2>1, <2>2
  <2> QED BY <2>1, <2>3 DEF Frontier
<1>3. u \in left /\ D[m] \in Nat /\ D[u] \in Nat /\ D[m] <= D[u] /\ m \in left
  BY <1>0, <1>1, DistFacts
<1> HIDE DEF D, left
<1>4. CASE D[m] = D[u]
  BY <1>2, <1>3, <1>4 DEF D
<1>5. CASE D[m] < D[u]
  BY <1>2, <1>3, <1>5 DEF D
<1> QED BY <1>3, <1>4, <1>5

(* What the heap yields is final and comes before every cell left.         *)
LEMMA PoppedIsFinal ==
  ASSUME Shapes, DijkstraInv, NEW p \in Cell, Popped(p)
  PROVE  /\ dist[p] = TrueDist[p] /\ Reachable(p) /\ p \notin settled
         /\ \A u \in Cell \ settled : Reachable(u) =>
              TrueDist[p] < TrueDist[u] \/ (TrueDist[p] = TrueDist[u] /\ p <= u)
<1> DEFINE D == TrueDist
<1>1. /\ \A c \in Cell : D[c] \in Nat /\ dist[c] \in Nat /\ D[c] <= dist[c] /\ c \in Nat
      /\ p \in Frontier /\ Frontier \subseteq Cell /\ dist[p] < Infinity /\ p \notin settled
      /\ \A f \in Frontier : dist[p] < dist[f] \/ (dist[p] = dist[f] /\ p <= f)
  BY DistFacts, InfinityIs DEF Shapes, Field, DijkstraInv, Popped, Frontier
<1>2. D[p] < Infinity
  BY <1>1, InfinityIs
<1>3. dist[p] = D[p]
  <2>1. PICK f \in Frontier : dist[f] = D[f] /\ (f = p \/ D[f] < D[p])
    BY <1>1, <1>2, SomethingOnTheHeap DEF Reachable
  <2> HIDE DEF D
  <2> QED BY <1>1, <2>1
<1>4. ASSUME NEW u \in Cell \ settled, Reachable(u)
      PROVE  D[p] < D[u] \/ (D[p] = D[u] /\ p <= u)
  <2>1. PICK f \in Frontier : dist[f] = D[f] /\ (f = u \/ D[f] < D[u])
    BY <1>4, SomethingOnTheHeap
  <2> HIDE DEF D
  <2> QED BY <1>1, <1>3, <2>1
<1> QED BY <1>1, <1>2, <1>3, <1>4 DEF Reachable

-----------------------------------------------------------------------------
(* Steps.                                                                  *)

(* Everything read off the call stands still with it.                      *)
LEMMA QueryStands ==
  ASSUME query' = query
  PROVE  /\ TrueDist' = TrueDist /\ Walls' = Walls /\ QueryGoals' = QueryGoals
         /\ \A c : Reachable(c)' <=> Reachable(c)
         /\ \A c : Share(c)' = Share(c) /\ OfferOf(c)' = OfferOf(c)
         /\ \A ratio, left : Reach(ratio, left)' = Reach(ratio, left)
<1>1. TrueDist' = TrueDist
  BY DEF TrueDist
<1>2. Walls' = Walls /\ QueryGoals' = QueryGoals
  BY DEF Walls, QueryGoals
<1>3. \A c : Reachable(c)' <=> Reachable(c)
  BY <1>1 DEF Reachable
<1>4. \A c : Share(c)' = Share(c)
  BY DEF Share
<1>5. \A c : OfferOf(c)' = OfferOf(c)
  BY <1>1 DEF OfferOf
<1>6. \A ratio, left : Reach(ratio, left)' = Reach(ratio, left)
  BY DEF Reach, Near, Share
<1> QED BY <1>1, <1>2, <1>3, <1>4, <1>5, <1>6

(* What relaxing the neighbours of p does to one cell.                     *)
LEMMA ExpandAt ==
  ASSUME Shapes, DijkstraInv, NEW p \in Cell, Popped(p), Expand(p), NEW c \in Cell
  PROVE  \/ /\ dist'[c] = dist[c] /\ came'[c] = came[c]
            /\ c \notin Walls /\ p \in Beside[c] =>
                 dist[c] <= TrueDist[p] + StepCost(query.extra, c)
         \/ /\ c \notin settled /\ c \notin Walls /\ p \in Beside[c]
            /\ dist'[c] = TrueDist[p] + StepCost(query.extra, c) /\ dist'[c] < dist[c]
            /\ came'[c] = p
<1> DEFINE t == TrueDist[p] + StepCost(query.extra, c)
<1>1. /\ dist[p] = TrueDist[p] /\ TrueDist[p] \in Nat /\ TrueDist[c] \in Nat /\ dist[c] \in Nat
      /\ StepCost(query.extra, c) \in Nat /\ Beside[c] = {n \in Cell : c \in Adj(n)}
      /\ c \notin Walls /\ p \in Beside[c] => TrueDist[c] <= t
      /\ c \in settled => dist[c] = TrueDist[c]
      /\ p \in Nat /\ c \in Nat
  BY PoppedIsFinal, DistFacts, InfinityIs DEF Shapes, Field, DijkstraInv
<1>2. Improves(p, c) <=> c \in Adj(p) \ query.blocked /\ t < dist[c]
  BY <1>1 DEF Improves
<1>3. c \in Adj(p) => c \notin Hard /\ p \in Beside[c]
  BY <1>1, AdjIs
<1>4. /\ dist'[c] = IF Improves(p, c) THEN t ELSE dist[c]
      /\ came'[c] = IF Improves(p, c) THEN p ELSE came[c]
  BY <1>1 DEF Expand
<1>5. t \in Nat
  BY <1>1
<1> HIDE DEF t
<1>6. CASE Improves(p, c)
  BY <1>1, <1>2, <1>3, <1>4, <1>5, <1>6 DEF Walls, t
<1>7. CASE ~Improves(p, c)
  BY <1>1, <1>2, <1>3, <1>4, <1>5, <1>7 DEF Walls, t
<1> QED BY <1>6, <1>7

LEMMA ExpandKeepsDijkstra ==
  ASSUME Shapes, DijkstraInv, NEW p \in Cell, Popped(p), Expand(p)
  PROVE  Shapes' /\ DijkstraInv'
<1>1. /\ query' = query /\ running' = running /\ settled' = settled \cup {p}
      /\ dist' = [c \in Cell |-> dist'[c]] /\ came' = [c \in Cell |-> came'[c]]
  BY DEF Expand
<1>2. /\ dist[p] = TrueDist[p] /\ Reachable(p) /\ p \notin settled
      /\ \A u \in Cell \ settled : Reachable(u) =>
           TrueDist[p] < TrueDist[u] \/ (TrueDist[p] = TrueDist[u] /\ p <= u)
  BY PoppedIsFinal
<1>3. /\ \A c \in Cell : TrueDist[c] \in Nat /\ dist[c] \in Nat /\ dist[c] <= Infinity
      /\ \A c \in Cell : StepCost(query.extra, c) \in Nat
      /\ \A c \in Cell : Seeded(query.seeds)[c] \in Nat
      /\ \A c \in Cell \ Walls : \A n \in Beside[c] : TrueDist[c] <= TrueDist[n] + StepCost(query.extra, c)
      /\ \A c \in Cell : Beside[c] \subseteq Cell
  BY DistFacts, InfinityIs DEF Shapes, Field
<1>4. /\ \A c \in Cell : TrueDist[c] <= dist[c] /\ dist[c] <= Seeded(query.seeds)[c]
      /\ \A c \in settled : dist[c] = TrueDist[c] /\ Reachable(c)
      /\ settled \subseteq Cell
  BY DEF DijkstraInv, Shapes
<1>5. ASSUME NEW c \in Cell
      PROVE  /\ dist'[c] \in Nat /\ TrueDist[c] <= dist'[c] /\ dist'[c] <= dist[c]
             /\ came'[c] \in {came[c], p}
             /\ c \in settled => dist'[c] = dist[c]
             /\ c \notin Walls /\ p \in Beside[c] => dist'[c] <= TrueDist[p] + StepCost(query.extra, c)
  BY <1>3, <1>4, ExpandAt
<1>6. Shapes'
  <2>1. dist' \in Field
    BY <1>1, <1>3, <1>5, InfinityIs DEF Field
  <2>2. came' \in [Cell -> Cell \cup {NoCell}]
    <3>1. \A c \in Cell : came'[c] \in Cell \cup {NoCell}
      BY <1>5 DEF Shapes
    <3> QED BY <1>1, <3>1
  <2> QED BY <1>1, <2>1, <2>2 DEF Shapes
<1>7. \A c \in Cell : TrueDist[c] <= dist'[c] /\ dist'[c] <= Seeded(query.seeds)[c]
  BY <1>3, <1>4, <1>5
<1>8. \A c \in settled' : dist'[c] = TrueDist[c] /\ Reachable(c)
  <2>1. ASSUME NEW c \in settled PROVE dist'[c] = TrueDist[c] /\ Reachable(c)
    BY <1>4, <1>5
  <2>2. dist'[p] = TrueDist[p]
    BY <1>2, <1>3, <1>5
  <2> QED BY <1>1, <1>2, <2>1, <2>2
<1>9. ASSUME NEW c \in Cell \ Walls, NEW n \in Beside[c] \cap settled'
      PROVE  dist'[c] <= TrueDist[n] + StepCost(query.extra, c)
  <2>1. CASE n = p
    BY <1>5, <2>1
  <2>2. CASE n \in settled
    <3>1. dist[c] <= TrueDist[n] + StepCost(query.extra, c)
      BY <2>2 DEF DijkstraInv
    <3> QED BY <1>3, <1>4, <1>5, <2>2, <3>1
  <2> QED BY <1>1, <2>1, <2>2
<1>10. ASSUME NEW s \in settled', NEW u \in Cell \ settled', Reachable(u)
       PROVE  TrueDist[s] < TrueDist[u] \/ (TrueDist[s] = TrueDist[u] /\ s <= u)
  <2>1. CASE s = p
    BY <1>1, <1>2, <1>10, <2>1
  <2>2. CASE s \in settled
    BY <1>1, <1>10, <2>2 DEF DijkstraInv
  <2> QED BY <1>1, <2>1, <2>2
<1>11. /\ TrueDist' = TrueDist /\ Walls' = Walls /\ (\A c : Reachable(c)' <=> Reachable(c))
       /\ Seeded(query.seeds)' = Seeded(query.seeds) /\ query.extra' = query.extra
  BY <1>1, QueryStands
<1>12. DijkstraInv'
  <2>1. /\ \A c \in Cell : TrueDist'[c] <= dist'[c] /\ dist'[c] <= Seeded(query.seeds)'[c]
        /\ \A c \in settled' : dist'[c] = TrueDist'[c] /\ Reachable(c)'
        /\ \A c \in Cell \ Walls' : \A n \in Beside[c] \cap settled' :
             dist'[c] <= TrueDist'[n] + StepCost(query.extra', c)
        /\ \A s \in settled' : \A u \in Cell \ settled' : Reachable(u)' =>
             TrueDist'[s] < TrueDist'[u] \/ (TrueDist'[s] = TrueDist'[u] /\ s <= u)
    BY <1>7, <1>8, <1>9, <1>10, <1>11
  <2> QED BY <2>1 DEF DijkstraInv
<1> QED BY <1>6, <1>12

LEMMA ExpandKeepsCame ==
  ASSUME Shapes, DijkstraInv, CameInv, NEW p \in Cell, Popped(p), Expand(p)
  PROVE  CameInv'
<1>1. /\ query' = query /\ settled' = settled \cup {p} /\ settled \subseteq Cell
  BY DEF Expand, Shapes
<1>2. /\ p \notin settled /\ p \in Nat /\ TrueDist[p] \in Nat /\ Reachable(p)
      /\ \A c \in Cell : TrueDist[c] \in Nat /\ dist[c] \in Nat /\ dist[c] <= Seeded(query.seeds)[c] /\ c \in Nat
      /\ \A c \in Cell : StepCost(query.extra, c) \in Nat /\ Seeded(query.seeds)[c] \in Nat
      /\ \A c \in DOMAIN query.seeds : Seeded(query.seeds)[c] = query.seeds[c]
  BY PoppedIsFinal, DistFacts, InfinityIs DEF Shapes, Field, DijkstraInv
<1>3. ASSUME NEW c \in Cell, dist'[c] < Infinity
      PROVE  \/ came'[c] = NoCell /\ c \in DOMAIN query.seeds /\ dist'[c] = query.seeds[c]
             \/ /\ came'[c] \in settled' \cap Beside[c] /\ c \notin Walls
                /\ dist'[c] = TrueDist[came'[c]] + StepCost(query.extra, c)
                /\ \A n \in settled' \cap Beside[c] :
                     TrueDist[n] + StepCost(query.extra, c) = dist'[c] => came'[c] <= n
                /\ c \in DOMAIN query.seeds => dist'[c] < query.seeds[c]
  <2>1. CASE dist'[c] = dist[c] /\ came'[c] = came[c]
    <3>1. \/ came[c] = NoCell /\ c \in DOMAIN query.seeds /\ dist[c] = query.seeds[c]
          \/ /\ came[c] \in settled \cap Beside[c] /\ c \notin Walls
             /\ dist[c] = TrueDist[came[c]] + StepCost(query.extra, c)
             /\ \A n \in settled \cap Beside[c] :
                  TrueDist[n] + StepCost(query.extra, c) = dist[c] => came[c] <= n
             /\ c \in DOMAIN query.seeds => dist[c] < query.seeds[c]
      BY <1>3, <2>1 DEF CameInv
    <3>2. ASSUME came[c] \in settled, dist[c] = TrueDist[came[c]] + StepCost(query.extra, c),
                 TrueDist[p] + StepCost(query.extra, c) = dist[c]
          PROVE  came[c] <= p
      <4>1. came[c] \in Cell
        BY <1>1, <3>2
      <4>2. TrueDist[p] = TrueDist[came[c]]
        <5>1. /\ TrueDist[p] + StepCost(query.extra, c) = TrueDist[came[c]] + StepCost(query.extra, c)
              /\ TrueDist[p] \in Nat /\ TrueDist[came[c]] \in Nat /\ StepCost(query.extra, c) \in Nat
          BY <1>2, <3>2, <4>1
        <5> QED BY <5>1
      <4>3. TrueDist[came[c]] < TrueDist[p] \/ (TrueDist[came[c]] = TrueDist[p] /\ came[c] <= p)
        BY <1>2, <3>2 DEF DijkstraInv
      <4> QED BY <1>2, <4>1, <4>2, <4>3
    <3> QED BY <1>1, <2>1, <3>1, <3>2
  <2>2. CASE /\ c \notin settled /\ c \notin Walls /\ p \in Beside[c]
             /\ dist'[c] = TrueDist[p] + StepCost(query.extra, c) /\ dist'[c] < dist[c]
             /\ came'[c] = p
    <3>1. ASSUME NEW n \in settled \cap Beside[c], TrueDist[n] + StepCost(query.extra, c) = dist'[c]
          PROVE  FALSE
      <4>1. dist[c] <= TrueDist[n] + StepCost(query.extra, c)
        BY <2>2 DEF DijkstraInv
      <4>2. n \in Cell
        BY <1>1
      <4> QED BY <1>2, <2>2, <3>1, <4>1, <4>2
    <3>2. c \in DOMAIN query.seeds => dist'[c] < query.seeds[c]
      <4>1. /\ dist'[c] \in Nat /\ dist[c] \in Nat /\ dist[c] <= Seeded(query.seeds)[c]
            /\ dist'[c] < dist[c] /\ Seeded(query.seeds)[c] \in Nat
        <5>1. TrueDist[p] \in Nat /\ StepCost(query.extra, c) \in Nat
          BY <1>2
        <5>2. dist'[c] \in Nat
          BY <2>2, <5>1
        <5> QED BY <1>2, <2>2, <5>2
      <4>2. dist'[c] < Seeded(query.seeds)[c]
        BY <4>1
      <4> QED BY <1>2, <4>2
    <3>3. \A n \in settled' \cap Beside[c] :
            TrueDist[n] + StepCost(query.extra, c) = dist'[c] => came'[c] <= n
      BY <1>1, <1>2, <2>2, <3>1
    <3> QED BY <1>1, <2>2, <3>2, <3>3
  <2> QED BY <2>1, <2>2, ExpandAt
<1>4. TrueDist' = TrueDist /\ Walls' = Walls /\ query' = query
  BY <1>1, QueryStands
<1>5. \A c \in Cell : dist'[c] < Infinity =>
    \/ came'[c] = NoCell /\ c \in DOMAIN query'.seeds /\ dist'[c] = query'.seeds[c]
    \/ /\ came'[c] \in settled' \cap Beside[c] /\ c \notin Walls'
       /\ dist'[c] = TrueDist'[came'[c]] + StepCost(query'.extra, c)
       /\ \A n \in settled' \cap Beside[c] :
            TrueDist'[n] + StepCost(query'.extra, c) = dist'[c] => came'[c] <= n
       /\ c \in DOMAIN query'.seeds => dist'[c] < query'.seeds[c]
  BY <1>3, <1>4
<1> QED BY <1>5 DEF CameInv

-----------------------------------------------------------------------------
(* Offers and the limit.                                                   *)

LEMMA GoalFacts ==
  ASSUME query \in Queries, NEW c \in QueryGoals
  PROVE  /\ c \in Cell /\ c \in Nat /\ Share(c) \in Nat \ {0}
         /\ IsOffer(OfferOf(c)) /\ OfferOf(c).cell = c
         /\ OfferOf(c).cost >= TrueDist[c] /\ OfferOf(c).share = Share(c)
<1>1. Docked(query.goals, query.fee) /\ c \in GoalCells(query.goals)
  BY CallFacts DEF QueryGoals
<1>2. c \in Cell /\ Share(c) \in Nat \ {0}
  BY <1>1, ServedIs DEF Share
<1>3. TrueDist[c] \in Nat /\ c \in Nat
  BY <1>2, DistFacts
<1> DEFINE a == OfferOf(c)
<1>4. a = Offer(c, TrueDist[c], query.goals, query.machine, query.fee)
  BY DEF OfferOf
<1> HIDE DEF a
<1>5. /\ IsOffer(a) /\ a.cell = c /\ a.cost >= TrueDist[c]
      /\ a.share = Cardinality(ServedAt(c, query.goals, query.machine, query.fee))
  BY <1>1, <1>3, <1>4, OfferIs
<1> QED BY <1>2, <1>3, <1>5 DEF Share, a

(* The limit allows at least the best ratio, and a goal left of k          *)
(* endpoints k times as much unless the straight line excludes it.         *)
LEMMA ReachIs ==
  ASSUME query \in Queries, NEW cost \in Nat, NEW share \in Nat \ {0},
         NEW left, left \subseteq QueryGoals,
         NEW lim, lim = Reach([cost |-> cost, share |-> share], left)
  PROVE  /\ lim.share = share /\ lim.cost \in Nat /\ lim.cost >= cost
         /\ lim = [cost |-> lim.cost, share |-> lim.share]
         /\ \A c \in left : lim.cost >= cost * Share(c) \/ ~(Near(c) * share <= cost * Share(c))
<1> DEFINE ratio == [cost |-> cost, share |-> share]
           rivals == {c \in left : Near(c) * ratio.share <= ratio.cost * Share(c)}
           ks == {1} \cup {Share(c) : c \in rivals}
           k == Max(ks)
           n == Cardinality(DOMAIN query.goals)
<1>1. \A c \in left : Share(c) \in Nat \ {0}
  BY GoalFacts
<1>2. n \in Nat /\ \A c \in left : Share(c) <= n
  <2>1. IsFiniteSet(DOMAIN query.goals)
    BY QueriesAssumption
  <2>2. ASSUME NEW c \in left PROVE Share(c) <= n
    <3>1. ServedAt(c, query.goals, query.machine, query.fee) \in SUBSET DOMAIN query.goals
      BY DEF ServedAt
    <3> QED BY <2>1, <3>1, FS_Subset DEF Share
  <2> QED BY <2>1, <2>2, FS_CardinalityType
<1>3. ks \subseteq Nat /\ ks # {} /\ n + 1 \in Nat /\ \A y \in ks : y <= n + 1
  <2> HIDE DEF n
  <2> QED BY <1>1, <1>2
<1>4. k \in ks /\ \A y \in ks : y <= k
  <2> HIDE DEF ks, n
  <2> QED BY <1>3, MaxIs
<1>5. lim = [cost |-> cost * k, share |-> share]
  BY DEF Reach
<1>6. lim.cost = cost * k /\ lim.share = share
  <2> HIDE DEF k
  <2> QED BY <1>5
<1>7. k \in Nat /\ 1 <= k /\ \A c \in rivals : Share(c) <= k
  BY <1>3, <1>4
<1> HIDE DEF k, ks
<1>8. \A j \in Nat : j <= k => cost * j \in Nat /\ cost * j <= cost * k
  <2> TAKE j \in Nat
  <2> HAVE j <= k
  <2>1. j * cost <= k * cost
    BY <1>7, TimesMonotone
  <2> QED BY <1>7, <2>1
<1>9. cost * 1 = cost /\ cost * k \in Nat
  BY <1>7
<1>10. lim.cost \in Nat /\ lim.cost >= cost
  BY <1>6, <1>7, <1>8, <1>9
<1>11. ASSUME NEW c \in left, Near(c) * share <= cost * Share(c) PROVE lim.cost >= cost * Share(c)
  <2>1. c \in rivals
    BY <1>11
  <2>2. Share(c) \in Nat /\ Share(c) <= k
    BY <1>1, <1>7, <2>1
  <2>3. cost * Share(c) \in Nat /\ cost * Share(c) <= cost * k
    BY <1>8, <2>2
  <2> QED BY <1>6, <1>9, <2>3
<1> QED BY <1>5, <1>6, <1>10, <1>11

(* A heap that is not empty yields a cell.                                 *)
LEMMA SomethingPops ==
  ASSUME Shapes, Frontier # {}
  PROVE  \E p \in Frontier : Popped(p)
<1> DEFINE costs == {dist[c] : c \in Frontier}
           cheapest == {c \in Frontier : dist[c] = Min(costs)}
           p == Min(cheapest)
<1>1. Frontier \subseteq Cell /\ Frontier \subseteq Nat /\ \A c \in Frontier : dist[c] \in Nat
  <2>1. Frontier \subseteq Cell
    BY DEF Frontier
  <2>2. \A c \in Cell : dist[c] \in Nat
    BY InfinityIs DEF Shapes, Field
  <2> QED BY <2>1, <2>2, CellFinite
<1>2. costs \subseteq Nat /\ costs # {}
  BY <1>1
<1>3. Min(costs) \in costs /\ \A v \in costs : Min(costs) <= v
  BY <1>2, MinIs
<1>4. cheapest # {} /\ cheapest \subseteq Nat
  BY <1>1, <1>3
<1>5. p \in cheapest /\ \A c \in cheapest : p <= c
  BY <1>4, MinIs
<1> HIDE DEF p
<1>6. p \in Frontier /\ dist[p] = Min(costs) /\ \A c \in Frontier : dist[c] = Min(costs) => p <= c
  BY <1>5
<1>7. \A c \in Frontier : Min(costs) <= dist[c]
  BY <1>3
<1> HIDE DEF costs, cheapest
<1>8. \A c \in Frontier : dist[p] < dist[c] \/ (dist[p] = dist[c] /\ p <= c)
  BY <1>1, <1>6, <1>7
<1> QED BY <1>6, <1>8 DEF Popped

(* The limit is a ratio.                                                   *)
LEMMA LimitType ==
  ASSUME SearchInv
  PROVE  limit \in [cost : Nat, share : Nat \ {0}]
<1>1. query \in Queries /\ FoundInv /\ alive \subseteq QueryGoals
  BY DEF SearchInv, Shapes, FoundInv
<1>2. CASE Served = {}
  BY <1>1, <1>2, InfinityIs DEF FoundInv
<1>3. CASE Served # {}
  <2>1. PICK g \in Served : found = OfferOf(g)
    BY <1>1, <1>3 DEF FoundInv
  <2>2. g \in QueryGoals /\ IsOffer(found)
    BY <1>1, <2>1, GoalFacts DEF Served
  <2>3. limit = Reach([cost |-> found.cost, share |-> found.share], alive)
    BY <1>1, <1>3 DEF FoundInv, Ratio
  <2>4. found.cost \in Nat /\ found.share \in Nat \ {0}
    BY <2>2 DEF IsOffer
  <2>5. /\ limit.share = found.share /\ limit.cost \in Nat
        /\ limit = [cost |-> limit.cost, share |-> limit.share]
    BY <1>1, <2>3, <2>4, ReachIs
  <2> QED BY <2>4, <2>5
<1> QED BY <1>2, <1>3

LEMMA PassKeepsFound ==
  ASSUME SearchInv, NEW p \in Cell, Pass(p)
  PROVE  FoundInv'
<1>1. /\ query' = query /\ settled' = settled \cup {p} /\ alive' = alive /\ found' = found /\ limit' = limit
      /\ p \notin QueryGoals
  BY DEF Pass, Expand
<1>2. QueryGoals' = QueryGoals /\ (\A c : Share(c)' = Share(c) /\ OfferOf(c)' = OfferOf(c))
      /\ \A ratio, left : Reach(ratio, left)' = Reach(ratio, left)
  BY <1>1, QueryStands
<1>3. Served' = Served
  BY <1>1, <1>2 DEF Served
<1>4. alive' = {c \in QueryGoals \ settled' : Share(c) > 1}
  BY <1>1 DEF SearchInv, FoundInv
<1>5. alive' = {c \in QueryGoals' \ settled' : Share(c)' > 1}
  BY <1>2, <1>4
<1>6. Reach(Ratio(found), alive)' = Reach(Ratio(found), alive)
  BY <1>1, <1>2 DEF Ratio
<1>7. Served' = {} => found' = NoOffer /\ limit' = [cost |-> Infinity, share |-> 1]
  BY <1>1, <1>3 DEF SearchInv, FoundInv
<1>8. Served' # {} => /\ \E g \in Served' : found' = OfferOf(g)'
                      /\ \A g \in Served' : found' = OfferOf(g)' \/ Beats(found', OfferOf(g)')
                      /\ limit' = Reach(Ratio(found), alive)'
  BY <1>1, <1>2, <1>3, <1>6 DEF SearchInv, FoundInv
<1>9. Served' # {} => /\ \E g \in Served' : found' = OfferOf(g)'
                      /\ \A g \in Served' : found' = OfferOf(g)' \/ Beats(found, OfferOf(g))'
                      /\ limit' = Reach(Ratio(found), alive)'
  BY <1>8 DEF Beats
<1> QED BY <1>5, <1>7, <1>9 DEF FoundInv

LEMMA ServeKeepsFound ==
  ASSUME SearchInv, NEW p \in Cell, Serve(p)
  PROVE  FoundInv'
<1> DEFINE wins == found.cell = NoCell \/ Beats(OfferOf(p), found)
<1>1. Popped(p) /\ p \in QueryGoals /\ Expand(p) /\ Shapes /\ DijkstraInv /\ query \in Queries
  BY DEF Serve, SearchInv, Shapes
<1>2. /\ query' = query /\ settled' = settled \cup {p}
      /\ p \notin settled /\ dist[p] = TrueDist[p]
  BY <1>1, PoppedIsFinal DEF Expand
<1>3. /\ found' = IF wins THEN OfferOf(p) ELSE found
      /\ alive' = alive \ {p}
      /\ limit' = IF wins \/ p \in alive THEN Reach(Ratio(found'), alive') ELSE limit
  BY <1>2 DEF Serve, OfferOf
<1> HIDE DEF wins
<1>4. QueryGoals' = QueryGoals /\ (\A c : Share(c)' = Share(c) /\ OfferOf(c)' = OfferOf(c))
      /\ \A ratio, left : Reach(ratio, left)' = Reach(ratio, left)
  BY <1>2, QueryStands
<1>5. Served' = Served \cup {p} /\ Served \subseteq QueryGoals /\ p \notin Served
  BY <1>1, <1>2, <1>4 DEF Served
<1>6. alive' = {c \in QueryGoals' \ settled' : Share(c)' > 1}
  BY <1>2, <1>3, <1>4 DEF SearchInv, FoundInv
<1>7. \A c \in QueryGoals : IsOffer(OfferOf(c)) /\ OfferOf(c).cell = c /\ c \in Nat
  BY <1>1, GoalFacts
<1>8. Served = {} => wins
  BY DEF SearchInv, FoundInv, NoOffer, wins
<1>9. /\ \E g \in Served' : found' = OfferOf(g)
      /\ \A g \in Served' : found' = OfferOf(g) \/ Beats(found', OfferOf(g))
  <2>1. CASE Served = {}
    BY <1>3, <1>5, <1>8, <2>1
  <2>2. CASE Served # {} /\ wins
    <3>1. found' = OfferOf(p) /\ p \in Served'
      BY <1>3, <1>5, <2>2
    <3>2. PICK g \in Served : found = OfferOf(g)
      BY <2>2 DEF SearchInv, FoundInv
    <3>3. g \in QueryGoals /\ found.cell = g /\ g \in Nat /\ IsOffer(found) /\ IsOffer(OfferOf(p))
      BY <1>1, <1>5, <1>7, <3>2
    <3>4. Beats(OfferOf(p), found)
      BY <2>2, <3>3 DEF wins, NoCell
    <3>5. ASSUME NEW h \in Served PROVE Beats(OfferOf(p), OfferOf(h))
      <4>1. found = OfferOf(h) \/ Beats(found, OfferOf(h))
        BY <2>2 DEF SearchInv, FoundInv
      <4>2. IsOffer(OfferOf(h))
        BY <1>5, <1>7
      <4>3. CASE Beats(found, OfferOf(h))
        BY <3>3, <3>4, <4>2, <4>3, BeatsTransitive
      <4> QED BY <3>4, <4>1, <4>3
    <3> QED BY <1>5, <3>1, <3>5
  <2>3. CASE Served # {} /\ ~wins
    <3>1. found' = found
      BY <1>3, <2>3
    <3>2. PICK g \in Served : found = OfferOf(g)
      BY <2>3 DEF SearchInv, FoundInv
    <3>3. /\ found.cell = g /\ IsOffer(found) /\ IsOffer(OfferOf(p)) /\ OfferOf(p).cell = p /\ g # p
          /\ g \in Served'
      BY <1>1, <1>5, <1>7, <3>2
    <3>4. ~Beats(OfferOf(p), found)
      BY <2>3 DEF wins
    <3>5. Beats(found, OfferOf(p))
      BY <3>3, <3>4, BeatsTotal
    <3>6. \A h \in Served : found = OfferOf(h) \/ Beats(found, OfferOf(h))
      BY <2>3 DEF SearchInv, FoundInv
    <3> QED BY <1>5, <3>1, <3>2, <3>3, <3>5, <3>6
  <2> QED BY <2>1, <2>2, <2>3
<1>10. limit' = Reach(Ratio(found'), alive')
  <2>1. CASE wins \/ p \in alive
    BY <1>3, <2>1
  <2>2. CASE ~wins /\ p \notin alive
    <3>1. Served # {} /\ found' = found /\ limit' = limit
      BY <1>3, <1>8, <2>2
    <3>2. alive' = alive
      BY <1>3, <2>2
    <3>3. limit = Reach(Ratio(found), alive)
      BY <3>1 DEF SearchInv, FoundInv
    <3> QED BY <3>1, <3>2, <3>3
  <2> QED BY <2>1, <2>2
<1>11. Reach(Ratio(found), alive)' = Reach(Ratio(found'), alive')
  <2>1. Ratio(found)' = Ratio(found')
    BY DEF Ratio
  <2> QED BY <1>2, <2>1 DEF Reach, Near, Share
<1>12. /\ Served' # {}
       /\ \E g \in Served' : found' = OfferOf(g)'
       /\ \A g \in Served' : found' = OfferOf(g)' \/ Beats(found', OfferOf(g)')
       /\ limit' = Reach(Ratio(found), alive)'
  BY <1>4, <1>5, <1>9, <1>10, <1>11
<1>13. \A g \in Served' : found' = OfferOf(g)' \/ Beats(found, OfferOf(g))'
  BY <1>12 DEF Beats
<1> QED BY <1>6, <1>12, <1>13 DEF FoundInv

LEMMA StopIsBeyond ==
  ASSUME SearchInv, Stop
  PROVE  StopInv'
<1>1. /\ query' = query /\ settled' = settled /\ limit' = limit /\ Shapes /\ DijkstraInv /\ query \in Queries
      /\ \A c \in Frontier : Popped(c) => Beyond(dist[c])
  BY DEF Stop, SearchInv, Shapes
<1>2. limit.share \in Nat /\ limit.cost \in Nat
  BY LimitType
<1>3. ASSUME NEW u \in Cell \ settled, Reachable(u)
      PROVE  TrueDist[u] * limit.share > limit.cost
  <2>1. PICK p \in Frontier : Popped(p)
    <3>1. Frontier # {}
      BY <1>1, <1>3, SomethingOnTheHeap
    <3> QED BY <1>1, <3>1, SomethingPops
  <2>2. p \in Cell /\ Beyond(dist[p])
    BY <1>1, <2>1 DEF Frontier
  <2>3. TrueDist[p] * limit.share > limit.cost /\ TrueDist[p] <= TrueDist[u]
        /\ TrueDist[p] \in Nat /\ TrueDist[u] \in Nat
    BY <1>1, <1>3, <2>1, <2>2, PoppedIsFinal, DistFacts DEF Beyond
  <2>4. TrueDist[p] * limit.share <= TrueDist[u] * limit.share
    BY <1>2, <2>3, TimesMonotone
  <2>5. TrueDist[p] * limit.share \in Nat /\ TrueDist[u] * limit.share \in Nat
    BY <1>2, <2>3
  <2> QED BY <1>2, <2>3, <2>4, <2>5
<1>4. \A u \in Cell \ settled' : Reachable(u)' => TrueDist'[u] * limit'.share > limit'.cost
  BY <1>1, <1>3, QueryStands
<1> QED BY <1>4 DEF StopInv

-----------------------------------------------------------------------------
(* The invariant.                                                          *)

LEMMA InitSearchInv == SearchInit => SearchInv
<1> SUFFICES ASSUME SearchInit PROVE SearchInv
  OBVIOUS
<1>1. query \in Queries /\ settled = {} /\ dist = Seeded(query.seeds) /\ running = TRUE
  BY DEF SearchInit, Seeded
<1>2. Shapes
  <2>1. dist \in Field
    BY <1>1, CallFacts, SeededType
  <2> QED BY <1>1, <2>1 DEF SearchInit, Shapes
<1>3. DijkstraInv
  <2>1. \A c \in Cell : TrueDist[c] <= dist[c] /\ dist[c] <= Seeded(query.seeds)[c]
    BY <1>1, DistFacts
  <2> QED BY <1>1, <2>1 DEF DijkstraInv
<1>4. CameInv
  <2> SUFFICES ASSUME NEW c \in Cell, dist[c] < Infinity
               PROVE  came[c] = NoCell /\ c \in DOMAIN query.seeds /\ dist[c] = query.seeds[c]
    BY DEF CameInv
  <2>1. dist[c] = IF c \in DOMAIN query.seeds THEN query.seeds[c] ELSE Infinity
    BY <1>1 DEF Seeded
  <2>2. dist[c] # Infinity
    BY InfinityIs
  <2> QED BY <2>1, <2>2 DEF SearchInit
<1>5. FoundInv
  <2>1. Served = {}
    BY <1>1 DEF Served
  <2> QED BY <1>1, <2>1 DEF SearchInit, FoundInv
<1> QED BY <1>1, <1>2, <1>3, <1>4, <1>5 DEF SearchInv, StopInv

LEMMA NextSearchInv == SearchInv /\ [SearchNext]_searchVars => SearchInv'
<1> SUFFICES ASSUME SearchInv, [SearchNext]_searchVars PROVE SearchInv'
  OBVIOUS
<1>1. ASSUME NEW p \in Cell, Pass(p) PROVE SearchInv'
  <2>1. Popped(p) /\ Expand(p) /\ running' = TRUE
    BY <1>1 DEF Pass, Expand
  <2>2. Shapes' /\ DijkstraInv' /\ CameInv'
    BY <2>1, ExpandKeepsDijkstra, ExpandKeepsCame DEF SearchInv
  <2> QED BY <1>1, <2>1, <2>2, PassKeepsFound DEF SearchInv, StopInv
<1>2. ASSUME NEW p \in Cell, Serve(p) PROVE SearchInv'
  <2>1. Popped(p) /\ Expand(p) /\ running' = TRUE
    BY <1>2 DEF Serve, Expand
  <2>2. Shapes' /\ DijkstraInv' /\ CameInv'
    BY <2>1, ExpandKeepsDijkstra, ExpandKeepsCame DEF SearchInv
  <2> QED BY <1>2, <2>1, <2>2, ServeKeepsFound DEF SearchInv, StopInv
<1>3. ASSUME UNCHANGED <<query, dist, came, settled, alive, found, limit>>
      PROVE  DijkstraInv' /\ CameInv' /\ FoundInv'
  <2>1. query' = query /\ dist' = dist /\ came' = came /\ settled' = settled
        /\ alive' = alive /\ found' = found /\ limit' = limit
    BY <1>3
  <2>2. DijkstraInv'
    BY <2>1 DEF SearchInv, DijkstraInv, TrueDist, Walls, Reachable
  <2>3. CameInv'
    BY <2>1 DEF SearchInv, CameInv, TrueDist, Walls
  <2>4. FoundInv'
    BY <2>1 DEF SearchInv, FoundInv, Served, QueryGoals, OfferOf, TrueDist, Share, Reach, Near, Ratio, Beats
  <2> QED BY <2>2, <2>3, <2>4
<1>4. ASSUME Stop PROVE SearchInv'
  <2>1. Shapes'
    BY <1>4 DEF Stop, SearchInv, Shapes
  <2> QED BY <1>3, <1>4, <2>1, StopIsBeyond DEF SearchInv, Stop
<1>5. ASSUME UNCHANGED searchVars PROVE SearchInv'
  <2>1. UNCHANGED <<query, dist, came, settled, alive, found, limit>> /\ running' = running
    BY <1>5 DEF searchVars
  <2>2. Shapes'
    BY <2>1 DEF SearchInv, Shapes
  <2>3. StopInv'
    BY <2>1 DEF SearchInv, StopInv, TrueDist, Reachable
  <2> QED BY <1>3, <2>1, <2>2, <2>3 DEF SearchInv
<1> QED BY <1>1, <1>2, <1>4, <1>5 DEF SearchNext

(* What is known of the loop's variables holds throughout every call.     *)
THEOREM SearchInductive == SearchSpec => []SearchInv
BY InitSearchInv, NextSearchInv, PTL DEF SearchSpec

(* A popped cell keeps its cost and the cell it was entered from.          *)
THEOREM SettledStays == SearchSpec => SettledIsFinal
<1>1. ASSUME SearchInv, [SearchNext]_searchVars, NEW c \in settled
      PROVE  dist'[c] = dist[c] /\ came'[c] = came[c]
  <2>1. c \in Cell
    BY <1>1 DEF SearchInv, Shapes
  <2>2. ASSUME NEW p \in Cell, Popped(p), Expand(p)
        PROVE  dist'[c] = dist[c] /\ came'[c] = came[c]
    BY <1>1, <2>1, <2>2, ExpandAt DEF SearchInv
  <2>3. CASE \E p \in Cell : Pass(p) \/ Serve(p)
    BY <2>2, <2>3 DEF Pass, Serve
  <2>4. CASE Stop \/ UNCHANGED searchVars
    BY <2>4 DEF Stop, searchVars
  <2> QED BY <1>1, <2>3, <2>4 DEF SearchNext
<1>2. SearchInv /\ [SearchNext]_searchVars => [\A c \in settled : dist'[c] = dist[c] /\ came'[c] = came[c]]_searchVars
  BY <1>1
<1>3. SearchSpec => []SearchInv
  BY SearchInductive
<1> QED BY <1>2, <1>3, PTL DEF SearchSpec, SettledIsFinal

-----------------------------------------------------------------------------
(* The early stop.                                                         *)

(* A goal left behind when the loop stops loses to what was found.         *)
LEMMA LeftBehindLoses ==
  ASSUME SearchInv, ~running, NEW h \in QueryGoals \ settled, Reachable(h), Served # {}
  PROVE  Beats(found, OfferOf(h))
<1>1. query \in Queries /\ FoundInv /\ alive \subseteq QueryGoals
  BY DEF SearchInv, Shapes, FoundInv
<1>2. PICK g \in Served : found = OfferOf(g)
  BY <1>1 DEF FoundInv
<1>3. g \in QueryGoals /\ IsOffer(found)
  BY <1>1, <1>2, GoalFacts DEF Served
<1> DEFINE cost == found.cost
           share == found.share
           t == TrueDist[h]
           k == Share(h)
           b == OfferOf(h)
<1>4. cost \in Nat /\ share \in Nat \ {0}
  BY <1>3 DEF IsOffer
<1>5. /\ h \in Cell /\ k \in Nat \ {0} /\ b.share = k /\ b.cost >= t /\ b.cost \in Nat
      /\ t \in Nat
  BY <1>1, GoalFacts, DistFacts DEF IsOffer
<1>6. limit = Reach([cost |-> cost, share |-> share], alive)
  BY <1>1 DEF FoundInv, Ratio
<1>7. /\ limit.share = share /\ limit.cost \in Nat /\ limit.cost >= cost
      /\ h \in alive => limit.cost >= cost * k \/ ~(Near(h) * share <= cost * k)
  BY <1>1, <1>4, <1>6, ReachIs
<1>8. t * share > limit.cost
  BY <1>5, <1>7 DEF SearchInv, StopInv
<1>9. Near(h) \in Nat /\ Near(h) <= t
  <2> DEFINE lines == {Manhattan(h, s) : s \in DOMAIN query.seeds}
  <2>1. PICK s \in DOMAIN query.seeds : Manhattan(h, s) \in Nat /\ Manhattan(h, s) <= t
    BY <1>1, <1>5, CallFacts, StraightLine DEF Reachable
  <2>2. \A e \in DOMAIN query.seeds : Manhattan(h, e) \in Nat
    BY <1>1, <1>5, DistFacts, ManhattanType
  <2>3. lines \subseteq Nat /\ lines # {} /\ Manhattan(h, s) \in lines
    BY <2>1, <2>2
  <2>4. Min(lines) \in Nat /\ Min(lines) <= Manhattan(h, s)
    BY <2>3, MinIs
  <2>5. Near(h) = Min(lines)
    BY DEF Near
  <2> HIDE DEF lines
  <2> QED BY <1>5, <2>1, <2>4, <2>5
<1>10. h \notin alive => k = 1
  BY <1>1, <1>5 DEF FoundInv
<1> HIDE DEF cost, share, t, k, b
<1>11. t * share \in Nat /\ Near(h) * share \in Nat /\ cost * k \in Nat /\ Near(h) * share <= t * share
  BY <1>4, <1>5, <1>9, TimesMonotone
<1>12. cost * k < t * share
  <2>1. CASE h \in alive
    BY <1>7, <1>8, <1>11, <2>1
  <2>2. CASE h \notin alive
    <3>1. cost * k = cost
      BY <1>4, <1>10, <2>2
    <3> QED BY <1>4, <1>7, <1>8, <1>11, <3>1
  <2> QED BY <2>1, <2>2
<1>13. t * share <= b.cost * share /\ b.cost * share \in Nat
  BY <1>4, <1>5, TimesMonotone
<1>14. found.cost * b.share < b.cost * found.share
  BY <1>5, <1>11, <1>12, <1>13 DEF cost, share
<1> QED BY <1>14 DEF Beats, b

(* When the loop has stopped, no offer of a reachable goal is better.      *)
LEMMA FoundIsBest ==
  ASSUME SearchInv, ~running
  PROVE  found = BestGoal(TrueDist, query.goals, query.machine, query.fee)
<1> DEFINE goals == {g \in QueryGoals : Reachable(g)}
           offers == {OfferOf(c) : c \in goals}
<1>1. query \in Queries /\ FoundInv /\ StopInv /\ DijkstraInv /\ settled \subseteq Cell
  BY DEF SearchInv, Shapes
<1>2. BestGoal(TrueDist, query.goals, query.machine, query.fee) = Best(offers)
  BY DEF BestGoal, OfferOf, QueryGoals, Reachable
<1>3. Served \subseteq goals
  BY <1>1 DEF Served, DijkstraInv
<1>4. CASE Served = {}
  <2>1. ASSUME NEW h \in goals PROVE FALSE
    <3>1. h \in Cell \ settled /\ TrueDist[h] \in Nat /\ TrueDist[h] < Infinity
      BY <1>1, <1>4, <2>1, GoalFacts, DistFacts DEF Served, Reachable
    <3>2. limit.cost = Infinity /\ limit.share = 1
      BY <1>1, <1>4 DEF FoundInv
    <3>3. TrueDist[h] * 1 > Infinity
      BY <1>1, <2>1, <3>1, <3>2 DEF StopInv
    <3> QED BY <3>1, <3>3, InfinityIs
  <2>2. offers = {}
    BY <2>1
  <2>3. found = NoOffer
    BY <1>1, <1>4 DEF FoundInv
  <2> QED BY <1>2, <2>2, <2>3 DEF Best
<1>5. CASE Served # {}
  <2>1. PICK g \in Served : found = OfferOf(g)
    BY <1>1, <1>5 DEF FoundInv
  <2>2. ASSUME NEW h \in goals PROVE OfferOf(h) = found \/ Beats(found, OfferOf(h))
    <3>1. CASE h \in settled
      BY <1>1, <1>5, <3>1 DEF FoundInv, Served
    <3>2. CASE h \notin settled
      BY <1>5, <3>2, LeftBehindLoses
    <3> QED BY <3>1, <3>2
  <2>3. \A h \in goals : IsOffer(OfferOf(h))
    BY <1>1, GoalFacts
  <2>4. found \in offers /\ (\A b \in offers : IsOffer(b)) /\ \A b \in offers : b = found \/ Beats(found, b)
    BY <1>3, <2>1, <2>2, <2>3
  <2> HIDE DEF offers
  <2> QED BY <1>2, <2>4, BestIs
<1> QED BY <1>4, <1>5

(* The cell a popped cell was entered from is the one PathTo steps to.     *)
LEMMA CameIsCameFrom ==
  ASSUME SearchInv, NEW c \in settled
  PROVE  came[c] = CameFrom(c, TrueDist, query.extra, query.seeds)
<1> DEFINE ways == {n \in Beside[c] : TrueDist[n] + StepCost(query.extra, c) = TrueDist[c]}
           from == came[c]
<1>1. /\ query \in Queries /\ settled \subseteq Cell /\ c \in Cell /\ dist[c] = TrueDist[c] /\ dist[c] < Infinity
      /\ \A s \in settled : \A u \in Cell \ settled : Reachable(u) =>
           TrueDist[s] < TrueDist[u] \/ (TrueDist[s] = TrueDist[u] /\ s <= u)
  BY DEF SearchInv, Shapes, DijkstraInv, Reachable
<1>2. /\ \A n \in Cell : TrueDist[n] \in Nat /\ n \in Nat
      /\ StepCost(query.extra, c) \in Nat /\ StepCost(query.extra, c) >= 1
      /\ Beside[c] \subseteq Cell
      /\ c \in DOMAIN query.seeds => query.seeds[c] \in Nat
  BY <1>1, DistFacts
<1>3. CASE from = NoCell /\ c \in DOMAIN query.seeds /\ dist[c] = query.seeds[c]
  BY <1>1, <1>3 DEF CameFrom
<1>4. CASE /\ from \in settled \cap Beside[c] /\ c \notin Walls
           /\ dist[c] = TrueDist[from] + StepCost(query.extra, c)
           /\ \A n \in settled \cap Beside[c] :
                TrueDist[n] + StepCost(query.extra, c) = dist[c] => from <= n
           /\ c \in DOMAIN query.seeds => dist[c] < query.seeds[c]
  <2>1. ~(c \in DOMAIN query.seeds /\ TrueDist[c] = query.seeds[c])
    BY <1>1, <1>2, <1>4
  <2>2. from \in ways
    BY <1>1, <1>4
  <2>3. ASSUME NEW n \in ways PROVE from <= n
    <3>1. n \in Cell /\ TrueDist[n] < TrueDist[c] /\ TrueDist[n] + StepCost(query.extra, c) = dist[c]
      BY <1>1, <1>2
    <3>2. Reachable(n)
      BY <1>1, <1>2, <3>1, InfinityIs DEF Reachable
    <3>3. n \in settled
      BY <1>1, <1>2, <3>1, <3>2
    <3> QED BY <1>4, <3>1, <3>3
  <2>4. ways \subseteq Nat
    BY <1>2
  <2>5. Min(ways) \in ways /\ \A y \in ways : Min(ways) <= y
    BY <2>2, <2>4, MinIs
  <2>6. CameFrom(c, TrueDist, query.extra, query.seeds) = Min(ways)
    BY <2>1 DEF CameFrom
  <2> HIDE DEF ways
  <2>7. Min(ways) <= from /\ from <= Min(ways) /\ Min(ways) \in Nat /\ from \in Nat
    BY <2>2, <2>3, <2>4, <2>5
  <2> HIDE DEF from
  <2> QED BY <2>6, <2>7 DEF from
<1> QED BY <1>1, <1>3, <1>4 DEF SearchInv, CameInv

LEMMA InvariantTypes ==
  ASSUME SearchInv
  PROVE  SearchTypeOK
<1>1. query \in Queries /\ FoundInv
  BY DEF SearchInv, Shapes
<1>2. \A c \in QueryGoals : c \in Cell /\ OfferOf(c).cell = c
  BY <1>1, GoalFacts
<1>3. alive \in SUBSET Cell
  BY <1>1, <1>2 DEF FoundInv
<1>4. found.cell \in Cell \cup {NoCell}
  <2>1. CASE Served = {}
    BY <1>1, <2>1 DEF FoundInv, NoOffer
  <2>2. CASE Served # {}
    <3>1. PICK g \in Served : found = OfferOf(g)
      BY <1>1, <2>2 DEF FoundInv
    <3> QED BY <1>2, <3>1 DEF Served
  <2> QED BY <2>1, <2>2
<1>5. limit \in [cost : Nat, share : Nat \ {0}]
  BY LimitType
<1> QED BY <1>3, <1>4, <1>5 DEF SearchInv, Shapes, Field, SearchTypeOK

(* Stopping early never changes the answer: for every region, walls,       *)
(* prices and endpoints, what the loop ends with is the cheapest offer of  *)
(* all reachable dock cells, and "came" spells its path.                   *)
THEOREM StopIsAlwaysExact == SearchSpec => []StopIsExact
<1>1. SearchInv => StopIsExact
  BY FoundIsBest, CameIsCameFrom, InvariantTypes DEF StopIsExact
<1>2. SearchSpec => []SearchInv
  BY SearchInductive
<1> QED BY <1>1, <1>2, PTL

-----------------------------------------------------------------------------
(* Connected pieces.                                                       *)

(* No part of held is cut off from the rest of it.                         *)
Joined(held) ==
  \A part \in SUBSET held : part # {} /\ part # held =>
    \E n \in part : \E c \in held \ part : c \in Adj(n)

LEMMA JoinedOne ==
  ASSUME NEW c
  PROVE  Joined({c})
BY DEF Joined

(* Pieces that share a cell make one piece.                                *)
LEMMA JoinedUnion ==
  ASSUME NEW a, NEW b, Joined(a), Joined(b), NEW m \in a \cap b
  PROVE  Joined(a \cup b)
<1> SUFFICES ASSUME NEW part \in SUBSET (a \cup b), part # {}, part # a \cup b
             PROVE  \E n \in part : \E c \in (a \cup b) \ part : c \in Adj(n)
  BY DEF Joined
<1>1. ASSUME NEW s \in {a, b}, part \cap s # {}, part \cap s # s
      PROVE  \E n \in part : \E c \in (a \cup b) \ part : c \in Adj(n)
  <2>1. part \cap s \in SUBSET s /\ Joined(s)
    BY <1>1
  <2>2. \E n \in part \cap s : \E c \in s \ (part \cap s) : c \in Adj(n)
    BY <1>1, <2>1 DEF Joined
  <2>3. s \subseteq a \cup b
    BY <1>1
  <2> QED BY <2>2, <2>3
<1>2. CASE m \in part
  <2>1. part \cap a # a \/ part \cap b # b
    OBVIOUS
  <2> QED BY <1>1, <1>2, <2>1
<1>3. CASE m \notin part
  <2>1. part \cap a # {} \/ part \cap b # {}
    OBVIOUS
  <2> QED BY <1>1, <1>3, <2>1
<1> QED BY <1>2, <1>3

(* What Connected grows from the first cell of held, round by round.       *)
Around(held, near) == near \cup {c \in held : \E n \in near : c \in Adj(n)}

GrowsOver(held, grown) ==
  /\ grown[0] = {Min(held)}
  /\ \A k \in 0 .. Cardinality(held) : grown[k] \subseteq held
  /\ \A k \in 1 .. Cardinality(held) : grown[k] = Around(held, grown[k-1])

LEMMA ConnectedGrows ==
  ASSUME NEW held \in SUBSET Cell, held # {}
  PROVE  /\ IsFiniteSet(held) /\ Cardinality(held) \in Nat /\ Min(held) \in held
         /\ \E grown : /\ GrowsOver(held, grown)
                       /\ Connected(held) <=> grown[Cardinality(held)] = held
<1> DEFINE N == Cardinality(held)
           Body(f) == [k \in 0 .. N |->
             IF k = 0 THEN {Min(held)}
             ELSE f[k-1] \cup {c \in held : \E n \in f[k-1] : c \in Adj(n)}]
           grown == CHOOSE f : f = Body(f)
           T == SUBSET held
           start == {Min(held)}
           F == [near \in T |-> Around(held, near)]
<1>1. IsFiniteSet(held) /\ N \in Nat
  BY CellFinite, FS_Subset, FS_CardinalityType
<1>2. Connected(held) <=> grown[N] = held
  BY DEF Connected
<1>3. start \in T /\ Min(held) \in held
  BY CellFinite, MinIs
<1>4. F \in [T -> T] /\ \A near \in T : F[near] = Around(held, near)
  BY DEF Around
<1>5. \A f : Body(f) = [k \in 0 .. N |-> IF k = 0 THEN start ELSE Around(held, f[k-1])]
  BY DEF Around
<1> HIDE DEF N, start, F, T, Body
<1>6. PICK g : Repeats(g, T, start, F, N)
  BY <1>1, <1>3, <1>4, Rounds
<1>7. g = Body(g)
  <2>1. ASSUME NEW k \in 0 .. N PROVE g[k] = IF k = 0 THEN start ELSE Around(held, g[k-1])
    <3>1. CASE k = 0
      BY <1>6, <3>1 DEF Repeats
    <3>2. CASE k # 0
      <4>1. k \in 1 .. N /\ k - 1 \in 0 .. N
        BY <1>1, <3>2
      <4> QED BY <1>4, <1>6, <3>2, <4>1 DEF Repeats
    <3> QED BY <3>1, <3>2
  <2>2. g = [k \in 0 .. N |-> g[k]]
    BY <1>6 DEF Repeats
  <2>3. g = [k \in 0 .. N |-> IF k = 0 THEN start ELSE Around(held, g[k-1])]
    BY <2>1, <2>2
  <2> QED BY <1>5, <2>3
<1>8. grown = Body(grown)
  BY <1>7
<1> HIDE DEF grown
<1>9. Repeats(grown, T, start, F, N)
  <2>1. grown = [k \in 0 .. N |-> IF k = 0 THEN start ELSE Around(held, grown[k-1])]
    BY <1>5, <1>8
  <2>2. /\ grown = [k \in 0 .. N |-> grown[k]] /\ grown[0] = start
        /\ \A k \in 1 .. N : grown[k] = Around(held, grown[k-1])
    BY <1>1, <2>1
  <2> QED BY <1>1, <1>3, <1>4, <2>2, Unrolls
<1>10. /\ \A k \in 0 .. N : grown[k] \subseteq held
       /\ \A k \in 1 .. N : grown[k] = Around(held, grown[k-1])
  <2>1. \A k \in 0 .. N : grown[k] \in T
    BY <1>9 DEF Repeats
  <2>2. \A k \in 1 .. N : k - 1 \in 0 .. N
    BY <1>1
  <2> QED BY <1>4, <1>9, <2>1, <2>2 DEF Repeats, T
<1>11. GrowsOver(held, grown)
  BY <1>9, <1>10 DEF Repeats, GrowsOver, start, N
<1> QED BY <1>1, <1>2, <1>3, <1>11 DEF N

(* Growing from its first cell, a piece is taken in as many rounds as it   *)
(* has cells.                                                              *)
LEMMA JoinedConnects ==
  ASSUME NEW held \in SUBSET Cell, held # {}, Joined(held)
  PROVE  Connected(held)
<1> DEFINE N == Cardinality(held)
<1>1. IsFiniteSet(held) /\ N \in Nat
  BY ConnectedGrows
<1>2. PICK grown : GrowsOver(held, grown) /\ (Connected(held) <=> grown[N] = held)
  BY ConnectedGrows
<1>3. /\ \A k \in 0 .. N : grown[k] \subseteq held
      /\ \A k \in 1 .. N : grown[k] = Around(held, grown[k-1])
  BY <1>2 DEF GrowsOver
<1> HIDE DEF N
<1> DEFINE S == {k \in 0 .. N : grown[k] = held \/ Cardinality(grown[k]) >= k + 1}
<1>4. 0 \in S
  <2>1. grown[0] = {Min(held)}
    BY <1>2 DEF GrowsOver
  <2>2. Cardinality({Min(held)}) = 1
    BY FS_Singleton
  <2> QED BY <1>1, <2>1, <2>2
<1>5. \A k \in 0 .. N - 1 : k \in S => k + 1 \in S
  <2> SUFFICES ASSUME NEW k \in 0 .. N - 1, grown[k] = held \/ Cardinality(grown[k]) >= k + 1
               PROVE  grown[k+1] = held \/ Cardinality(grown[k+1]) >= (k + 1) + 1
    BY <1>1
  <2>1. k + 1 \in 1 .. N /\ (k + 1) - 1 = k /\ k \in 0 .. N /\ k + 1 \in 0 .. N
    BY <1>1
  <2>2. /\ grown[k] \subseteq held /\ grown[k+1] \subseteq held
        /\ grown[k+1] = Around(held, grown[k]) /\ grown[k] \subseteq grown[k+1]
    BY <1>3, <2>1 DEF Around
  <2>3. CASE grown[k] = held
    BY <2>2, <2>3
  <2>4. CASE grown[k] # held
    <3> HIDE DEF S
    <3>1. IsFiniteSet(grown[k]) /\ IsFiniteSet(grown[k+1])
          /\ Cardinality(grown[k]) \in Nat /\ Cardinality(grown[k+1]) \in Nat
      BY <1>1, <2>2, FS_Subset, FS_CardinalityType
    <3>2. grown[k] # {}
      <4>1. Cardinality(grown[k]) # 0
        BY <2>1, <2>4, <3>1
      <4> QED BY <4>1, FS_EmptySet
    <3>3. PICK n \in grown[k] : \E c \in held \ grown[k] : c \in Adj(n)
      BY <2>2, <2>4, <3>2 DEF Joined
    <3>4. grown[k] # grown[k+1]
      BY <2>2, <3>3 DEF Around
    <3>5. Cardinality(grown[k]) <= Cardinality(grown[k+1]) /\ Cardinality(grown[k]) # Cardinality(grown[k+1])
      BY <2>2, <3>1, <3>4, FS_Subset
    <3> QED BY <2>1, <2>4, <3>1, <3>5
  <2> QED BY <2>3, <2>4
<1> HIDE DEF S
<1>6. N \in S
  BY <1>1, <1>4, <1>5, UpTo
<1>7. grown[N] = held
  <2>1. grown[N] \subseteq held
    BY <1>1, <1>3
  <2>2. Cardinality(grown[N]) <= N /\ Cardinality(grown[N]) \in Nat
    BY <1>1, <2>1, FS_Subset, FS_CardinalityType DEF N
  <2> QED BY <1>1, <1>6, <2>2 DEF S
<1> QED BY <1>2, <1>7

(* ... and what Connected takes in is not cut in two.                      *)
LEMMA ConnectedJoins ==
  ASSUME NEW held \in SUBSET (Cell \ Hard), Connected(held)
  PROVE  held # {} /\ Joined(held)
<1>1. held # {} /\ held \in SUBSET Cell
  BY DEF Connected
<1>2. PICK grown : GrowsOver(held, grown) /\ grown[Cardinality(held)] = held
  BY <1>1, ConnectedGrows
<1>3. Cardinality(held) \in Nat /\ Min(held) \in held
  BY <1>1, ConnectedGrows
<1>4. ASSUME NEW part \in SUBSET held, Min(held) \in part,
             \A n \in part : \A c \in held : c \in Adj(n) => c \in part
      PROVE  part = held
  <2> DEFINE S == {k \in 0 .. Cardinality(held) : grown[k] \subseteq part}
  <2>1. 0 \in S
    BY <1>2, <1>3, <1>4 DEF GrowsOver
  <2>2. \A k \in 0 .. Cardinality(held) - 1 : k \in S => k + 1 \in S
    <3> SUFFICES ASSUME NEW k \in 0 .. Cardinality(held) - 1, grown[k] \subseteq part
                 PROVE  k + 1 \in 0 .. Cardinality(held) /\ grown[k+1] \subseteq part
      BY <1>3
    <3>1. k + 1 \in 1 .. Cardinality(held) /\ (k + 1) - 1 = k
      BY <1>3
    <3>2. grown[k+1] = Around(held, grown[k])
      BY <1>2, <3>1 DEF GrowsOver
    <3> QED BY <1>4, <3>1, <3>2 DEF Around
  <2> HIDE DEF S
  <2>3. \A k \in 0 .. Cardinality(held) : k \in S
    BY <1>3, <2>1, <2>2, UpTo
  <2>4. Cardinality(held) \in S
    BY <1>3, <2>3
  <2> QED BY <1>2, <2>4 DEF S
<1> SUFFICES ASSUME NEW part \in SUBSET held, part # {}, part # held,
                    ~\E n \in part : \E c \in held \ part : c \in Adj(n)
             PROVE  FALSE
  BY <1>1 DEF Joined
<1>5. CASE Min(held) \in part
  BY <1>4, <1>5
<1>6. CASE Min(held) \notin part
  <2> DEFINE rest == held \ part
  <2>1. \A n \in rest : \A c \in held : c \in Adj(n) => c \in rest
    <3> SUFFICES ASSUME NEW n \in rest, NEW c \in part, c \in Adj(n) PROVE FALSE
      OBVIOUS
    <3>1. n \in Adj(c)
      BY AdjSymmetric
    <3> QED BY <3>1
  <2>2. rest \in SUBSET held /\ Min(held) \in rest
    BY <1>3, <1>6
  <2> HIDE DEF rest
  <2>3. rest = held
    BY <1>4, <2>1, <2>2
  <2> QED BY <2>3 DEF rest
<1> QED BY <1>5, <1>6

(* A piece that goes from one cell to another has a cell at every distance *)
(* between.                                                                *)
LEMMA PieceReaches ==
  ASSUME NEW held \in SUBSET Cell, Joined(held), NEW a \in held, NEW b \in held
  PROVE  /\ Manhattan(b, a) \in Nat
         /\ Cardinality(held) \in Nat /\ 1 + Manhattan(b, a) <= Cardinality(held)
<1> DEFINE far == Manhattan(b, a)
           at == [m \in 0 .. far |-> CHOOSE c \in held : Manhattan(c, a) = m]
<1>1. a \in Nat /\ \A c \in held : c \in Nat /\ Manhattan(c, a) \in Nat
  BY CellFinite, ManhattanType
<1>2. far \in Nat /\ IsFiniteSet(held) /\ Cardinality(held) \in Nat
  BY <1>1, CellFinite, FS_Subset, FS_CardinalityType
<1>3. Manhattan(a, a) = 0
  <2>1. X(a) \in Nat /\ Y(a) \in Nat /\ Z(a) \in Nat
    BY <1>1, Coordinates
  <2> QED BY <2>1 DEF Manhattan, Apart
<1>4. ASSUME NEW m \in 0 .. far PROVE \E c \in held : Manhattan(c, a) = m
  <2> DEFINE part == {c \in held : Manhattan(c, a) < m}
  <2>1. CASE m = 0
    BY <1>3, <2>1
  <2>2. CASE m # 0
    <3>1. a \in part /\ b \notin part
      BY <1>2, <1>3, <2>2
    <3>2. part \in SUBSET held
      OBVIOUS
    <3> HIDE DEF part
    <3>3. PICK n \in part : \E c \in held \ part : c \in Adj(n)
      BY <3>1, <3>2 DEF Joined
    <3>4. PICK c \in held \ part : c \in Adj(n)
      BY <3>3
    <3>5. n \in Nat /\ c \in Nat /\ Manhattan(n, a) \in Nat /\ Manhattan(c, a) \in Nat
      BY <1>1, <3>2
    <3>6. Manhattan(c, a) <= Manhattan(n, a) + 1
      BY <1>1, <3>4, <3>5, StepManhattan
    <3>7. Manhattan(n, a) < m /\ ~(Manhattan(c, a) < m)
      BY DEF part
    <3>8. Manhattan(c, a) = m
      BY <1>2, <3>5, <3>6, <3>7
    <3> QED BY <3>8
  <2> QED BY <2>1, <2>2
<1> HIDE DEF far
<1>5. \A m \in 0 .. far : at[m] \in held /\ Manhattan(at[m], a) = m
  BY <1>4
<1> HIDE DEF at
<1>6. at \in [0 .. far -> held] /\ \A m, n \in 0 .. far : at[m] = at[n] => m = n
  <2>1. at = [m \in 0 .. far |-> at[m]]
    BY DEF at
  <2> QED BY <1>5, <2>1
<1>7. at \in Injection(0 .. far, held)
  BY <1>6 DEF Injection, IsInjective
<1>8. Cardinality(0 .. far) <= Cardinality(held)
  BY <1>2, <1>7, FS_Injection
<1>9. Cardinality(0 .. far) = far + 1
  BY <1>2, FS_Interval
<1> QED BY <1>2, <1>8, <1>9 DEF far

(* The cells of a walk are a piece.                                        *)
Walk(w) ==
  /\ w \in Seq(Cell) /\ w # <<>>
  /\ \A j \in 1 .. Len(w) - 1 : w[j+1] \in Adj(w[j]) /\ w[j] \in Adj(w[j+1])

LEMMA WalkJoined ==
  ASSUME NEW w, Walk(w)
  PROVE  Range(w) \subseteq Cell /\ Joined(Range(w))
<1> DEFINE n == Len(w)
<1>1. n \in Nat /\ n >= 1 /\ Range(w) = {w[j] : j \in 1 .. n} /\ \A j \in 1 .. n : w[j] \in Cell
  BY DEF Walk, Range
<1> SUFFICES ASSUME NEW part \in SUBSET Range(w), part # {}, part # Range(w)
             PROVE  \E m \in part : \E c \in Range(w) \ part : c \in Adj(m)
  BY <1>1 DEF Joined
<1>2. SUFFICES ASSUME \A j \in 1 .. n - 1 : w[j] \in part <=> w[j+1] \in part
               PROVE  FALSE
  <2>1. PICK j \in 1 .. n - 1 : ~(w[j] \in part <=> w[j+1] \in part)
    BY <1>2
  <2>2. j \in 1 .. n /\ j + 1 \in 1 .. n
    BY <1>1
  <2>3. w[j] \in Range(w) /\ w[j+1] \in Range(w) /\ w[j+1] \in Adj(w[j]) /\ w[j] \in Adj(w[j+1])
    BY <1>1, <2>2 DEF Walk
  <2> QED BY <2>1, <2>3
<1> DEFINE S == {j \in 0 .. n - 1 : w[j+1] \in part <=> w[1] \in part}
<1>3. 0 \in S
  BY <1>1
<1>4. \A j \in 0 .. (n - 1) - 1 : j \in S => j + 1 \in S
  <2> SUFFICES ASSUME NEW j \in 0 .. (n - 1) - 1, w[j+1] \in part <=> w[1] \in part
               PROVE  j + 1 \in 0 .. n - 1 /\ (w[(j+1)+1] \in part <=> w[1] \in part)
    OBVIOUS
  <2>1. j + 1 \in 1 .. n - 1 /\ j + 1 \in 0 .. n - 1
    BY <1>1
  <2> QED BY <1>2, <2>1
<1>5. n - 1 \in Nat
  BY <1>1
<1> HIDE DEF S
<1>6. \A j \in 0 .. n - 1 : j \in S
  BY <1>3, <1>4, <1>5, UpTo
<1>7. \A j \in 1 .. n : w[j] \in part <=> w[1] \in part
  <2> TAKE j \in 1 .. n
  <2>1. j - 1 \in 0 .. n - 1 /\ (j - 1) + 1 = j
    BY <1>1
  <2> QED BY <1>6, <2>1 DEF S
<1> QED BY <1>1, <1>7

-----------------------------------------------------------------------------
(* The inductive invariant.                                                *)

Several(held) == \E a, b \in held : a # b

(* Free cells in one piece.                                                *)
Piece(held) == held # {} /\ held \subseteq Open /\ Joined(held)

(* The endpoints docked so far hold docks within held, none on a key of    *)
(* another connection of its machine.                                      *)
DockedIn(held, docks) ==
  /\ \A i \in Endpoint : docks[i] # NoCell => docks[i] \in held \cap call.cand[i]
  /\ \A i, j \in Endpoint :
       i # j /\ MachineOf(i) = MachineOf(j) /\ docks[i] # NoCell /\ docks[j] # NoCell =>
         call.key[i][docks[i]] # call.key[j][docks[j]]

BestInv ==
  /\ best.cost \in Nat
  /\ best # NoTree =>
       /\ Piece(best.cells)
       /\ best.terminal \in [Endpoint -> Cell]
       /\ DockedIn(best.cells, best.terminal)
       /\ call.trunk => Several(best.cells)

(* Until the first path decides where the net starts nothing is held, and  *)
(* every key it may start on is banned; from then on the next leg may      *)
(* leave from every cell of the piece.                                     *)
GrowInv ==
  phase = "grow" =>
    /\ DOMAIN reach \subseteq Open /\ \A c \in DOMAIN reach : reach[c] \in 0 .. Infinity
    /\ terminal[0] = NoCell =>
         /\ cells = {} /\ ~legged /\ \A i \in Endpoint : terminal[i] = NoCell
         /\ DOMAIN reach = FreeStarts
         /\ banned = {call.key[0][c] : c \in FreeStarts}
    /\ terminal[0] # NoCell =>
         /\ DOMAIN reach = cells /\ Piece(cells) /\ DockedIn(cells, terminal)
         /\ legged => Several(cells)

IInv == call \in Calls /\ TypeOK /\ todo \subseteq FreeStarts /\ BestInv /\ GrowInv

LEMMA CallIs ==
  ASSUME call \in Calls
  PROVE  /\ 0 \in Endpoint /\ Endpoint \subseteq Nat /\ IsFiniteSet(Endpoint) /\ Last \in Endpoint
         /\ call.extra \in [Cell -> Nat]
         /\ \A i \in Endpoint : /\ call.cand[i] \subseteq Cell \ Hard
                                /\ \A c \in call.cand[i] : call.fee[i][c] \in Nat
         /\ FreeStarts \subseteq Open /\ FreeStarts \subseteq call.cand[0]
         /\ \A c \in FreeStarts : Entry(c) \in 0 .. Infinity
         /\ Open \subseteq Cell
<1>1. /\ 0 \in Endpoint /\ Endpoint \subseteq Nat /\ IsFiniteSet(Endpoint)
      /\ call.extra \in [Cell -> Nat]
      /\ \A i \in Endpoint : /\ call.cand[i] \subseteq Cell \ Hard
                             /\ \A c \in call.cand[i] : call.fee[i][c] \in Nat
      /\ \A c \in call.cand[0] : call.extra[c] + call.fee[0][c] <= Infinity
  BY CallsAssumption DEF Endpoint
<1>2. Last \in Endpoint
  BY <1>1, FiniteMax DEF Last
<1>3. FreeStarts \subseteq Open /\ FreeStarts \subseteq call.cand[0] /\ Open \subseteq Cell
  BY <1>1 DEF FreeStarts, Open
<1>4. \A c \in FreeStarts : Entry(c) \in 0 .. Infinity
  <2> TAKE c \in FreeStarts
  <2>1. call.extra[c] \in Nat /\ call.fee[0][c] \in Nat /\ call.extra[c] + call.fee[0][c] <= Infinity
    BY <1>1, <1>3
  <2> QED BY <2>1, InfinityIs DEF Entry
<1> QED BY <1>1, <1>2, <1>3, <1>4

(* A descent from a free cell is a walk over free cells.                    *)
LEMMA DescentIs ==
  ASSUME NEW goal, NEW D, NEW extra, NEW w \in Descents(goal, D, extra, call.blocked), w[1] \in Open
  PROVE  /\ Walk(w) /\ w[1] \in Range(w) /\ goal \in Range(w) /\ Range(w) \subseteq Open
         /\ Len(w) > 1 => Several(Range(w))
<1>1. /\ w \in Seq(Cell) /\ w # <<>> /\ w[Len(w)] = goal
      /\ \A j \in 1 .. Len(w) - 1 : w[j+1] \in Adj(w[j]) /\ w[j+1] \notin call.blocked \cup Hard
  BY DEF Descents
<1>2. Len(w) \in Nat /\ Len(w) >= 1 /\ \A j \in 1 .. Len(w) : w[j] \in Cell
  BY <1>1
<1>3. Range(w) = {w[j] : j \in 1 .. Len(w)}
  BY <1>1 DEF Range
<1>4. \A j \in 1 .. Len(w) : w[j] \in Open
  <2> TAKE j \in 1 .. Len(w)
  <2>1. CASE j = 1
    BY <2>1
  <2>2. CASE j # 1
    <3>1. j - 1 \in 1 .. Len(w) - 1 /\ (j - 1) + 1 = j /\ w[j] \in Cell
      BY <1>2, <2>2
    <3>2. w[j] \notin call.blocked \cup Hard
      BY <1>1, <3>1
    <3> QED BY <3>1, <3>2 DEF Open
  <2> QED BY <2>1, <2>2
<1>5. \A j \in 1 .. Len(w) - 1 : w[j] \in Adj(w[j+1]) /\ w[j] # w[j+1]
  <2> TAKE j \in 1 .. Len(w) - 1
  <2>1. j \in 1 .. Len(w) /\ j + 1 \in 1 .. Len(w)
    BY <1>2
  <2>2. w[j] \in Cell \ Hard
    BY <1>4, <2>1 DEF Open
  <2>3. w[j+1] \in Cell /\ w[j+1] \in Adj(w[j])
    BY <1>1, <1>2, <2>1
  <2> QED BY <2>2, <2>3, AdjSymmetric
<1>6. Walk(w)
  BY <1>1, <1>5 DEF Walk
<1>7. w[1] \in Range(w) /\ goal \in Range(w) /\ Range(w) \subseteq Open
  <2>1. 1 \in 1 .. Len(w) /\ Len(w) \in 1 .. Len(w)
    BY <1>2
  <2> QED BY <1>1, <1>3, <1>4, <2>1
<1>8. ASSUME Len(w) > 1 PROVE Several(Range(w))
  <2>1. 1 \in 1 .. Len(w) - 1 /\ 1 \in 1 .. Len(w) /\ 2 \in 1 .. Len(w) /\ 1 + 1 = 2
    BY <1>2, <1>8
  <2>2. w[1] # w[2]
    BY <1>5, <2>1
  <2>3. w[1] \in Range(w) /\ w[2] \in Range(w)
    BY <1>3, <2>1
  <2> QED BY <2>2, <2>3 DEF Several
<1> QED BY <1>6, <1>7, <1>8

(* A leg from seeds on free cells to the docks goals leaves open.          *)
LEMMA LegIs ==
  ASSUME call \in Calls,
         NEW seeds, DOMAIN seeds \subseteq Open, \A c \in DOMAIN seeds : seeds[c] \in 0 .. Infinity,
         NEW goals, DOMAIN goals \subseteq Endpoint,
         \A i \in DOMAIN goals : goals[i] \subseteq call.cand[i],
         NEW D, D = Distances(seeds, call.extra, call.blocked),
         NEW offer, offer = BestGoal(D, goals, call.machine, call.fee), offer # NoOffer,
         NEW path, path = PathTo(offer.cell, D, call.extra, seeds),
         NEW served, served = ServedAt(offer.cell, goals, call.machine, call.fee)
  PROVE  /\ path \in Seq(Cell) /\ path[1] \in DOMAIN seeds
         /\ path[1] \in Range(path) /\ offer.cell \in Range(path)
         /\ Range(path) \subseteq Open /\ Joined(Range(path))
         /\ Len(path) > 1 => Several(Range(path))
         /\ served \subseteq DOMAIN goals /\ \A i \in served : offer.cell \in goals[i]
         /\ \A i, j \in served : MachineOf(i) = MachineOf(j) => i = j
         /\ offer.cell \in GoalCells(goals)
<1>1. Priced(seeds, call.extra)
  BY CallIs DEF Priced
<1>2. Relaxed(D, seeds, call.extra, call.blocked) /\ Reached(D, seeds, call.extra, call.blocked)
  BY <1>1, DistancesSolve
<1>3. D \in Field
  BY <1>2 DEF Relaxed
<1>4. Docked(goals, call.fee)
  <2>1. DOMAIN goals \subseteq Nat /\ IsFiniteSet(DOMAIN goals)
    BY CallIs, FS_Subset
  <2>2. \A i \in DOMAIN goals : goals[i] \subseteq Cell /\ \A c \in goals[i] : call.fee[i][c] \in Nat
    BY CallIs
  <2> QED BY <2>1, <2>2 DEF Docked
<1>5. offer.cell \in GoalCells(goals) /\ offer.cell \in Cell /\ D[offer.cell] < Infinity
  BY <1>3, <1>4, FoundIs
<1>6. path \in Descents(offer.cell, D, call.extra, call.blocked) /\ path[1] \in DOMAIN seeds
  BY <1>1, <1>2, <1>5, PathIs
<1>7. /\ Walk(path) /\ path[1] \in Range(path) /\ offer.cell \in Range(path)
      /\ Range(path) \subseteq Open
      /\ Len(path) > 1 => Several(Range(path))
  <2>1. path[1] \in Open
    BY <1>6
  <2> QED BY <1>6, <2>1, DescentIs
<1>8. path \in Seq(Cell) /\ Joined(Range(path))
  BY <1>7, WalkJoined DEF Walk
<1>9. served \subseteq DOMAIN goals /\ \A i \in served : offer.cell \in goals[i]
  BY <1>4, <1>5, ServedIs
<1>10. \A i, j \in served : MachineOf(i) = MachineOf(j) => i = j
  BY <1>4, ServedApart DEF MachineOf
<1> QED BY <1>5, <1>6, <1>7, <1>8, <1>9, <1>10

-----------------------------------------------------------------------------
(* What a tree costs.                                                      *)

Steps == [c \in Cell |-> StepCost(call.extra, c)]

Fees(docks) == [i \in Endpoint |-> call.fee[i][docks[i]]]

(* A tree costs a step into each of its cells and a fee for each dock, so  *)
(* never less than it has cells.                                           *)
LEMMA CostIs ==
  ASSUME call \in Calls, NEW held \in SUBSET Cell,
         NEW docks, \A i \in Endpoint : docks[i] \in call.cand[i]
  PROVE  /\ CostOf(held, docks) = SumOf(Steps, held) + SumOf(Fees(docks), Endpoint)
         /\ SumOf(Steps, held) \in Nat /\ SumOf(Fees(docks), Endpoint) \in Nat
         /\ Cardinality(held) \in Nat /\ SumOf(Steps, held) >= Cardinality(held)
         /\ CostOf(held, docks) \in Nat /\ CostOf(held, docks) >= Cardinality(held)
<1> DEFINE StepSum == MapThenSumSet(LAMBDA c : StepCost(call.extra, c), held)
           StepBody(g) == [s \in SUBSET held |->
             IF s = {} THEN 0
             ELSE StepCost(call.extra, CHOOSE c \in s : TRUE) + g[s \ {CHOOSE c \in s : TRUE}]]
           StepsBody(g) == [s \in SUBSET held |->
             IF s = {} THEN 0 ELSE Steps[CHOOSE c \in s : TRUE] + g[s \ {CHOOSE c \in s : TRUE}]]
           FeeSums == MapThenSumSet(LAMBDA i : call.fee[i][docks[i]], Endpoint)
           FeeBody(g) == [s \in SUBSET Endpoint |->
             IF s = {} THEN 0
             ELSE call.fee[CHOOSE i \in s : TRUE][docks[CHOOSE i \in s : TRUE]]
                    + g[s \ {CHOOSE i \in s : TRUE}]]
           FeesBody(g) == [s \in SUBSET Endpoint |->
             IF s = {} THEN 0 ELSE Fees(docks)[CHOOSE i \in s : TRUE] + g[s \ {CHOOSE i \in s : TRUE}]]
<1>1. /\ IsFiniteSet(held) /\ Cardinality(held) \in Nat /\ IsFiniteSet(Endpoint)
      /\ \A c \in held : Steps[c] \in Nat /\ Steps[c] >= 1
      /\ \A i \in Endpoint : Fees(docks)[i] \in Nat
  <2>1. \A c \in held : call.extra[c] \in Nat
    BY CallIs
  <2>2. \A c \in held : Steps[c] = 1 + call.extra[c]
    BY DEF Steps, StepCost
  <2>3. \A i \in Endpoint : Fees(docks)[i] \in Nat
    BY CallIs DEF Fees
  <2>4. IsFiniteSet(held) /\ Cardinality(held) \in Nat /\ IsFiniteSet(Endpoint)
    BY CallIs, CellFinite, FS_Subset, FS_CardinalityType
  <2> QED BY <2>1, <2>2, <2>3, <2>4
<1>2. StepSum = SumOf(Steps, held)
  <2>1. StepSum = (CHOOSE g : g = StepBody(g))[held]
    BY DEF MapThenSumSet, MapThenFoldSet
  <2>2. SumOf(Steps, held) = (CHOOSE g : g = StepsBody(g))[held]
    BY DEF SumOf, MapThenSumSet, MapThenFoldSet
  <2>3. \A g : StepBody(g) = StepsBody(g)
    BY DEF Steps
  <2> HIDE DEF StepSum, StepBody, StepsBody
  <2>4. \A g : g = StepBody(g) <=> g = StepsBody(g)
    BY <2>3
  <2>5. (CHOOSE g : g = StepBody(g)) = (CHOOSE g : g = StepsBody(g))
    BY <2>4, Zenon
  <2> QED BY <2>1, <2>2, <2>5
<1>3. FeeSums = SumOf(Fees(docks), Endpoint)
  <2>1. FeeSums = (CHOOSE g : g = FeeBody(g))[Endpoint]
    BY DEF MapThenSumSet, MapThenFoldSet
  <2>2. SumOf(Fees(docks), Endpoint) = (CHOOSE g : g = FeesBody(g))[Endpoint]
    BY DEF SumOf, MapThenSumSet, MapThenFoldSet
  <2>3. \A g : FeeBody(g) = FeesBody(g)
    BY DEF Fees
  <2> HIDE DEF FeeSums, FeeBody, FeesBody
  <2>4. \A g : g = FeeBody(g) <=> g = FeesBody(g)
    BY <2>3
  <2>5. (CHOOSE g : g = FeeBody(g)) = (CHOOSE g : g = FeesBody(g))
    BY <2>4, Zenon
  <2> QED BY <2>1, <2>2, <2>5
<1>4. CostOf(held, docks) = StepSum + FeeSums
  BY DEF CostOf
<1> HIDE DEF StepSum, FeeSums
<1>5. SumOf(Steps, held) \in Nat /\ SumOf(Fees(docks), Endpoint) \in Nat
  BY <1>1, SumsOfAll
<1>6. SumOf(Steps, held) >= Cardinality(held)
  BY <1>1, SumCounts
<1> QED BY <1>1, <1>2, <1>3, <1>4, <1>5, <1>6

-----------------------------------------------------------------------------
(* Steps.                                                                  *)

(* A growth from one start holds that start alone.                         *)
LEMMA LoneStart ==
  ASSUME call \in Calls, NEW c \in FreeStarts, NEW docks,
         docks = [i \in Endpoint |-> IF i = 0 THEN c ELSE NoCell]
  PROVE  /\ Piece({c}) /\ DockedIn({c}, docks)
         /\ docks[0] = c /\ c # NoCell /\ docks \in [Endpoint -> Cell \cup {NoCell}]
<1>1. 0 \in Endpoint /\ c \in Cell /\ c \in call.cand[0] /\ {c} \subseteq Open
  BY CallIs
<1>2. c # NoCell
  BY <1>1, CellFinite DEF NoCell
<1>3. docks[0] = c /\ \A i \in Endpoint : i # 0 => docks[i] = NoCell
  BY <1>1
<1>4. DockedIn({c}, docks)
  BY <1>1, <1>3 DEF DockedIn
<1>5. Piece({c})
  BY <1>1, JoinedOne DEF Piece
<1> QED BY <1>1, <1>2, <1>3, <1>4, <1>5

LEMMA InitIInv == Init => IInv
<1> SUFFICES ASSUME Init PROVE IInv
  OBVIOUS
<1>1. /\ call \in Calls /\ todo = Singles /\ best = NoTree /\ phase = "grow" /\ legged = FALSE
      /\ reach = IF Cardinality(FreeStarts) = 1 THEN [c \in FreeStarts |-> 0]
                                                ELSE [c \in FreeStarts |-> Entry(c)]
      /\ cells = IF Cardinality(FreeStarts) = 1 THEN FreeStarts ELSE {}
      /\ terminal = [i \in Endpoint |->
                       IF i = 0 /\ Cardinality(FreeStarts) = 1 THEN Min(FreeStarts) ELSE NoCell]
      /\ banned = IF Cardinality(FreeStarts) = 1 THEN {} ELSE {call.key[0][c] : c \in FreeStarts}
  BY DEF Init
<1>2. /\ 0 \in Endpoint /\ FreeStarts \subseteq Open /\ Open \subseteq Cell
      /\ \A c \in FreeStarts : Entry(c) \in 0 .. Infinity
  BY <1>1, CallIs
<1>3. todo \subseteq FreeStarts
  BY <1>1 DEF Singles
<1>4. DOMAIN reach = FreeStarts /\ \A c \in DOMAIN reach : reach[c] \in 0 .. Infinity
  BY <1>1, <1>2, InfinityIs
<1>5. BestInv
  BY <1>1, InfinityIs DEF BestInv, NoTree
<1>6. CASE Cardinality(FreeStarts) = 1
  <2>1. IsFiniteSet(FreeStarts)
    BY <1>2, CellFinite, FS_Subset
  <2>2. PICK c : FreeStarts = {c}
    BY <1>6, <2>1, FS_Singleton
  <2>3. Min(FreeStarts) = c
    <3>1. FreeStarts \subseteq Nat
      BY <1>2, CellFinite
    <3> QED BY <2>2, <3>1, MinIs
  <2>4. cells = {c} /\ terminal = [i \in Endpoint |-> IF i = 0 THEN c ELSE NoCell] /\ c \in FreeStarts
    BY <1>1, <1>6, <2>2, <2>3
  <2>5. /\ Piece(cells) /\ DockedIn(cells, terminal)
        /\ terminal[0] = c /\ c # NoCell /\ terminal \in [Endpoint -> Cell \cup {NoCell}]
    BY <1>1, <2>4, LoneStart
  <2>6. GrowInv
    BY <1>1, <1>2, <1>4, <2>2, <2>4, <2>5 DEF GrowInv
  <2>7. TypeOK
    BY <1>1, <1>2, <1>3, <1>4, <2>4, <2>5 DEF TypeOK, NoTree
  <2> QED BY <1>1, <1>3, <1>5, <2>6, <2>7 DEF IInv
<1>7. CASE Cardinality(FreeStarts) # 1
  <2>1. cells = {} /\ \A i \in Endpoint : terminal[i] = NoCell
    BY <1>1, <1>7
  <2>2. terminal \in [Endpoint -> Cell \cup {NoCell}]
    BY <1>1, <1>7
  <2>3. GrowInv
    BY <1>1, <1>2, <1>4, <1>7, <2>1 DEF GrowInv
  <2>4. TypeOK
    BY <1>1, <1>2, <1>3, <1>4, <2>1, <2>2 DEF TypeOK, NoTree
  <2> QED BY <1>1, <1>3, <1>5, <2>3, <2>4 DEF IInv
<1> QED BY <1>6, <1>7

(* What is said of the call alone stands.                                  *)
LEMMA CallStands ==
  ASSUME call' = call
  PROVE  /\ Endpoint' = Endpoint /\ Open' = Open /\ FreeStarts' = FreeStarts
BY DEF Endpoint, Open, FreeStarts

LEMMA BestStands ==
  ASSUME IInv, call' = call, best' = best
  PROVE  BestInv' /\ best'.cells \in SUBSET Cell
<1>1. Endpoint' = Endpoint /\ Open' = Open
  BY DEF Endpoint, Open
<1> QED BY <1>1 DEF IInv, TypeOK, BestInv, Piece, DockedIn, MachineOf

(* A finished tree is kept as the best only if it is sound.                *)
LEMMA KeepIs ==
  ASSUME IInv, call' = call, NEW held, NEW docks, Keep(held, docks),
         Piece(held), docks \in [Endpoint -> Cell], DockedIn(held, docks),
         call.trunk => Several(held)
  PROVE  BestInv' /\ best'.cells \in SUBSET Cell
<1> DEFINE tree == [cost |-> CostOf(held, docks), cells |-> held, terminal |-> docks]
<1>1. best' = tree \/ best' = best
  BY DEF Keep
<1>2. Endpoint' = Endpoint /\ Open' = Open /\ Open \subseteq Cell
  BY CallIs DEF Endpoint, Open, IInv
<1>3. tree.cells = held /\ tree.terminal = docks /\ tree.cost \in Nat
  <2>1. \A i \in Endpoint : docks[i] \in call.cand[i]
    BY CellFinite DEF DockedIn, NoCell
  <2>2. held \in SUBSET Cell /\ call \in Calls
    BY <1>2 DEF Piece, IInv
  <2> QED BY <2>1, <2>2, CostIs
<1> HIDE DEF tree
<1>4. CASE best' = tree
  BY <1>2, <1>3, <1>4 DEF BestInv, Piece, DockedIn, MachineOf
<1>5. CASE best' = best
  BY <1>5, BestStands
<1> QED BY <1>1, <1>4, <1>5

LEMMA JoinIInv ==
  ASSUME IInv, Join
  PROVE  IInv'
<1> DEFINE offer == BestGoal(Dist, Goals, call.machine, call.fee)
           path == PathTo(offer.cell, Dist, call.extra, reach)
           served == ServedAt(offer.cell, Goals, call.machine, call.fee)
           first == IF terminal[0] = NoCell THEN path[1] ELSE terminal[0]
<1>1. /\ phase = "grow" /\ offer # NoOffer
      /\ terminal' = [i \in Endpoint |-> IF i = 0 THEN first
                                         ELSE IF i \in served THEN offer.cell
                                         ELSE terminal[i]]
      /\ cells' = cells \cup Range(path)
      /\ legged' = (legged \/ Len(path) > 1)
      /\ reach' = [c \in cells \cup Range(path) |-> 0]
      /\ banned' = {} /\ call' = call /\ todo' = todo /\ best' = best /\ phase' = phase
  BY DEF Join, LeaveFrom
<1>2. /\ call \in Calls /\ TypeOK /\ terminal \in [Endpoint -> Cell \cup {NoCell}]
      /\ todo \subseteq FreeStarts /\ todo \in SUBSET Cell
      /\ DOMAIN reach \subseteq Open /\ \A c \in DOMAIN reach : reach[c] \in 0 .. Infinity
      /\ terminal[0] = NoCell =>
           /\ cells = {} /\ ~legged /\ \A i \in Endpoint : terminal[i] = NoCell
           /\ DOMAIN reach = FreeStarts
           /\ banned = {call.key[0][c] : c \in FreeStarts}
      /\ terminal[0] # NoCell =>
           /\ DOMAIN reach = cells /\ Piece(cells) /\ DockedIn(cells, terminal)
           /\ legged => Several(cells)
  BY <1>1 DEF IInv, TypeOK, GrowInv
<1>3. /\ 0 \in Endpoint /\ FreeStarts \subseteq call.cand[0] /\ Open \subseteq Cell
      /\ Endpoint' = Endpoint /\ Open' = Open /\ FreeStarts' = FreeStarts
  BY <1>1, <1>2, CallIs, CallStands
<1>4. Goals = [i \in Pending |-> GoalsFor(i)]
  <2> DEFINE g == [i \in Pending |-> GoalsFor(i)]
  <2>1. g \in [Pending -> SUBSET Cell]
    <3>1. \A i \in Pending : GoalsFor(i) \in SUBSET Cell
      BY <1>2, CallIs DEF Pending, GoalsFor
    <3> QED BY <3>1
  <2>2. Goals = Table(g)
    BY DEF Goals
  <2> HIDE DEF g
  <2> QED BY <2>1, <2>2, TableIs DEF g
<1>5. /\ DOMAIN Goals = Pending /\ Pending \subseteq Endpoint
      /\ \A i \in Pending : Goals[i] = GoalsFor(i) /\ GoalsFor(i) \subseteq call.cand[i]
  BY <1>4 DEF Pending, GoalsFor
<1> HIDE DEF offer, path, served
<1>6. /\ path \in Seq(Cell) /\ path[1] \in DOMAIN reach
      /\ path[1] \in Range(path) /\ offer.cell \in Range(path)
      /\ Range(path) \subseteq Open /\ Joined(Range(path))
      /\ Len(path) > 1 => Several(Range(path))
      /\ served \subseteq Pending /\ \A i \in served : offer.cell \in GoalsFor(i)
      /\ \A i, j \in served : MachineOf(i) = MachineOf(j) => i = j
  <2>1. Dist = Distances(reach, call.extra, call.blocked)
    BY DEF Dist
  <2>2. \A i \in DOMAIN Goals : Goals[i] \subseteq call.cand[i]
    BY <1>5
  <2>3. /\ path \in Seq(Cell) /\ path[1] \in DOMAIN reach
        /\ path[1] \in Range(path) /\ offer.cell \in Range(path)
        /\ Range(path) \subseteq Open /\ Joined(Range(path))
        /\ Len(path) > 1 => Several(Range(path))
        /\ served \subseteq DOMAIN Goals /\ \A i \in served : offer.cell \in Goals[i]
        /\ \A i, j \in served : MachineOf(i) = MachineOf(j) => i = j
    <3>1. /\ offer = BestGoal(Dist, Goals, call.machine, call.fee)
          /\ path = PathTo(offer.cell, Dist, call.extra, reach)
          /\ served = ServedAt(offer.cell, Goals, call.machine, call.fee)
      BY Zenon DEF offer, path, served
    <3>2. DOMAIN Goals \subseteq Endpoint
      BY <1>5
    <3>3. /\ call \in Calls /\ DOMAIN reach \subseteq Open /\ offer # NoOffer
          /\ \A c \in DOMAIN reach : reach[c] \in 0 .. Infinity
      BY <1>1, <1>2
    <3> HIDE DEF first
    <3> QED BY <2>1, <2>2, <3>1, <3>2, <3>3, LegIs
  <2> QED BY <1>5, <2>3
<1>7. \A c \in Cell : c # NoCell
  BY CellFinite DEF NoCell
<1>8. /\ first \in Cell /\ first # NoCell
      /\ terminal'[0] = first
      /\ \A i \in served : i \in Endpoint /\ i # 0 /\ terminal[i] = NoCell /\ terminal'[i] = offer.cell
      /\ \A i \in Endpoint : i # 0 /\ i \notin served => terminal'[i] = terminal[i]
      /\ terminal' \in [Endpoint -> Cell \cup {NoCell}]
  <2>1. path[1] \in Cell /\ offer.cell \in Cell
    BY <1>3, <1>6
  <2>2. first \in Cell
    BY <1>2, <1>3, <2>1
  <2> HIDE DEF first
  <2>3. \A i \in served : i \in Endpoint /\ i # 0 /\ terminal[i] = NoCell
    BY <1>6 DEF Pending
  <2> QED BY <1>1, <1>2, <1>3, <1>7, <2>1, <2>2, <2>3
<1>9. \A i \in served : /\ offer.cell \in call.cand[i]
                        /\ call.key[i][offer.cell] \notin KeysHeld(MachineOf(i))
                        /\ MachineOf(i) = MachineOf(0) => call.key[i][offer.cell] \notin banned
  BY <1>6 DEF GoalsFor
<1>10. Piece(cells')
  <2>1. cells' # {} /\ cells' \subseteq Open
    BY <1>1, <1>2, <1>6 DEF Piece
  <2>2. CASE terminal[0] = NoCell
    <3>1. cells' = Range(path)
      BY <1>1, <1>2, <2>2
    <3> QED BY <1>6, <2>1, <3>1 DEF Piece
  <2>3. CASE terminal[0] # NoCell
    <3>1. Joined(cells) /\ path[1] \in cells \cap Range(path)
      BY <1>2, <1>6, <2>3 DEF Piece
    <3>2. Joined(cells \cup Range(path))
      BY <1>6, <3>1, JoinedUnion
    <3> QED BY <1>1, <2>1, <3>2 DEF Piece
  <2> QED BY <2>2, <2>3
<1>11. \A i \in Endpoint : terminal'[i] # NoCell => terminal'[i] \in cells' \cap call.cand[i]
  <2> SUFFICES ASSUME NEW i \in Endpoint, terminal'[i] # NoCell
               PROVE  terminal'[i] \in cells' \cap call.cand[i]
    OBVIOUS
  <2>1. CASE i \in served
    BY <1>1, <1>6, <1>8, <1>9, <2>1
  <2>2. CASE i # 0 /\ i \notin served
    <3>1. terminal'[i] = terminal[i] /\ terminal[0] # NoCell
      BY <1>2, <1>8, <2>2
    <3> QED BY <1>1, <1>2, <3>1 DEF DockedIn
  <2>3. CASE i = 0
    BY <1>1, <1>2, <1>3, <1>6, <1>8, <2>3 DEF DockedIn
  <2> QED BY <2>1, <2>2, <2>3
<1>12. ASSUME NEW i \in served, NEW j \in Endpoint, i # j, MachineOf(i) = MachineOf(j), terminal'[j] # NoCell
       PROVE  call.key[i][terminal'[i]] # call.key[j][terminal'[j]]
  <2>1. j \notin served /\ terminal'[i] = offer.cell
    BY <1>6, <1>8, <1>12
  <2>2. CASE terminal[j] # NoCell
    <3>1. terminal'[j] = terminal[j]
      BY <1>8, <2>1, <2>2
    <3>2. call.key[j][terminal[j]] \in KeysHeld(MachineOf(i))
      BY <1>12, <2>2 DEF KeysHeld
    <3> QED BY <1>9, <2>1, <3>1, <3>2
  <2>3. CASE terminal[j] = NoCell
    <3>1. j = 0
      BY <1>8, <1>12, <2>1, <2>3
    <3>2. terminal'[0] = path[1] /\ path[1] \in FreeStarts /\ banned = {call.key[0][c] : c \in FreeStarts}
      BY <1>2, <1>6, <1>8, <2>3, <3>1
    <3>3. call.key[i][offer.cell] \notin banned
      BY <1>9, <1>12, <3>1
    <3> QED BY <2>1, <3>1, <3>2, <3>3
  <2> QED BY <2>2, <2>3
<1>13. ASSUME NEW i \in Endpoint, NEW j \in Endpoint, i # j, MachineOf(i) = MachineOf(j),
              terminal'[i] # NoCell, terminal'[j] # NoCell
       PROVE  call.key[i][terminal'[i]] # call.key[j][terminal'[j]]
  <2>1. CASE i \in served
    BY <1>12, <1>13, <2>1
  <2>2. CASE j \in served
    BY <1>12, <1>13, <2>2
  <2>3. CASE i \notin served /\ j \notin served
    <3>1. terminal[0] # NoCell
      BY <1>2, <1>8, <1>13, <2>3
    <3>2. terminal'[i] = terminal[i] /\ terminal'[j] = terminal[j]
      BY <1>8, <2>3, <3>1
    <3> QED BY <1>2, <1>13, <3>1, <3>2 DEF DockedIn
  <2> QED BY <2>1, <2>2, <2>3
<1>14. DockedIn(cells', terminal')
  BY <1>11, <1>13 DEF DockedIn
<1>15. legged' => Several(cells')
  <2>1. CASE legged
    <3>1. Several(cells)
      BY <1>2, <2>1
    <3> QED BY <1>1, <3>1 DEF Several
  <2>2. CASE Len(path) > 1
    <3>1. Several(Range(path))
      BY <1>6, <2>2
    <3> QED BY <1>1, <3>1 DEF Several
  <2> QED BY <1>1, <2>1, <2>2
<1>16. GrowInv'
  <2>1. DOMAIN reach' = cells' /\ \A c \in DOMAIN reach' : reach'[c] \in 0 .. Infinity
    BY <1>1, InfinityIs
  <2>2. DOMAIN reach' \subseteq Open' /\ terminal'[0] # NoCell
    BY <1>3, <1>8, <1>10, <2>1 DEF Piece
  <2>3. Piece(cells)'
    BY <1>3, <1>10 DEF Piece
  <2>4. DockedIn(cells, terminal)'
    BY <1>1, <1>3, <1>14 DEF DockedIn, MachineOf
  <2>5. Several(cells)' <=> Several(cells')
    BY DEF Several
  <2> HIDE DEF first
  <2> QED BY <1>15, <2>1, <2>2, <2>3, <2>4, <2>5 DEF GrowInv
<1>17. TypeOK'
  <2>1. cells' \in SUBSET Cell /\ DOMAIN reach' = cells'
    BY <1>1, <1>3, <1>10 DEF Piece
  <2>2. legged' \in BOOLEAN
    BY <1>1, <1>2 DEF TypeOK
  <2> HIDE DEF first
  <2> QED BY <1>1, <1>2, <1>3, <1>8, <2>1, <2>2 DEF TypeOK
<1>18. BestInv'
  BY <1>1, BestStands
<1> QED BY <1>1, <1>2, <1>3, <1>16, <1>17, <1>18 DEF IInv

(* Where nothing of the growth changes but that it may end.                *)
LEMMA GrowthStands ==
  ASSUME IInv, UNCHANGED <<call, reach, cells, terminal, banned, legged>>,
         todo' \subseteq todo, phase' = phase \/ phase' \in {"pick", "done"},
         BestInv', best'.cells \in SUBSET Cell
  PROVE  IInv'
<1>1. /\ call' = call /\ reach' = reach /\ cells' = cells /\ terminal' = terminal
      /\ banned' = banned /\ legged' = legged
      /\ Endpoint' = Endpoint /\ Open' = Open /\ FreeStarts' = FreeStarts
  BY CallStands
<1>2. TypeOK'
  BY <1>1 DEF IInv, TypeOK
<1>3. GrowInv'
  BY <1>1 DEF IInv, GrowInv, Piece, DockedIn, MachineOf, Several
<1> QED BY <1>1, <1>2, <1>3 DEF IInv

(* A growth that needs nothing more holds a dock of every endpoint.        *)
LEMMA GrownIs ==
  ASSUME IInv, Grown
  PROVE  /\ Piece(cells) /\ terminal \in [Endpoint -> Cell] /\ DockedIn(cells, terminal)
         /\ legged => Several(cells)
         /\ DOMAIN reach = cells
<1>1. /\ call \in Calls /\ terminal \in [Endpoint -> Cell \cup {NoCell}]
      /\ phase = "grow" /\ Endpoint # {0} /\ Pending = {} /\ GrowInv
  BY DEF IInv, TypeOK, Grown
<1>2. PICK i \in Endpoint : i # 0
  BY <1>1, CallIs
<1>3. \A j \in Endpoint : j # 0 => terminal[j] # NoCell
  BY <1>1 DEF Pending
<1>4. terminal[0] # NoCell
  BY <1>1, <1>2, <1>3 DEF GrowInv
<1>5. terminal \in [Endpoint -> Cell]
  BY <1>1, <1>3, <1>4
<1> QED BY <1>1, <1>4, <1>5 DEF GrowInv

LEMMA FinishIInv ==
  ASSUME IInv, Finish
  PROVE  IInv'
<1>1. /\ Grown /\ (legged \/ ~call.trunk) /\ Keep(cells, terminal) /\ phase' = "pick"
      /\ UNCHANGED <<call, todo, reach, cells, terminal, banned, legged>>
  BY DEF Finish
<1>2. call.trunk => Several(cells)
  BY <1>1, GrownIs
<1>3. BestInv' /\ best'.cells \in SUBSET Cell
  BY <1>1, <1>2, GrownIs, KeepIs
<1> QED BY <1>1, <1>3, GrowthStands

(* The last endpoint of a power net moves to a dock outside the piece.     *)
LEMMA StubIInv ==
  ASSUME IInv, Stub
  PROVE  IInv'
<1> DEFINE from == [c \in cells |-> 0]
           away == Distances(from, call.extra, call.blocked)
           offer == BestGoal(away, StubGoals, call.machine, call.fee)
           path == PathTo(offer.cell, away, call.extra, from)
           held == cells \cup Range(path)
           docks == [terminal EXCEPT ![Last] = offer.cell]
           served == ServedAt(offer.cell, StubGoals, call.machine, call.fee)
<1>1. /\ Grown /\ phase' = "pick"
      /\ UNCHANGED <<call, todo, reach, cells, terminal, banned, legged>>
      /\ IF offer = NoOffer THEN UNCHANGED best ELSE Keep(held, docks)
  BY DEF Stub
<1>2. /\ call \in Calls /\ Piece(cells) /\ terminal \in [Endpoint -> Cell] /\ DockedIn(cells, terminal)
      /\ Last \in Endpoint
  BY <1>1, GrownIs, CallIs DEF IInv
<1>3. CASE offer = NoOffer
  <2>1. best' = best
    BY <1>1, <1>3
  <2> QED BY <1>1, <2>1, BestStands, GrowthStands
<1>4. CASE offer # NoOffer
  <2> DEFINE others == {call.key[j][terminal[j]] : j \in {k \in Endpoint \ {Last} :
                                                            MachineOf(k) = MachineOf(Last)}}
  <2>1. StubGoals = [i \in {Last} |-> {c \in call.cand[Last] \ (call.blocked \cup cells) :
                                          call.key[Last][c] \notin others}]
    BY DEF StubGoals
  <2>2. DOMAIN StubGoals = {Last} /\ \A i \in DOMAIN StubGoals : StubGoals[i] \subseteq call.cand[i]
    BY <2>1
  <2>3. DOMAIN from \subseteq Open /\ \A c \in DOMAIN from : from[c] \in 0 .. Infinity
    BY <1>2, InfinityIs DEF Piece
  <2>4. /\ path \in Seq(Cell) /\ path[1] \in cells
        /\ path[1] \in Range(path) /\ offer.cell \in Range(path)
        /\ Range(path) \subseteq Open /\ Joined(Range(path))
        /\ offer.cell \in GoalCells(StubGoals)
    <3>1. DOMAIN from = cells /\ DOMAIN StubGoals \subseteq Endpoint
      BY <1>2, <2>2
    <3> HIDE DEF from, away, offer, path, served
    <3>2. /\ away = Distances(from, call.extra, call.blocked)
          /\ offer = BestGoal(away, StubGoals, call.machine, call.fee)
          /\ path = PathTo(offer.cell, away, call.extra, from)
          /\ served = ServedAt(offer.cell, StubGoals, call.machine, call.fee)
      BY Zenon DEF away, offer, path, served
    <3>3. call \in Calls /\ offer # NoOffer
      BY <1>2, <1>4
    <3> HIDE DEF held, docks, others
    <3> QED BY <2>2, <2>3, <3>1, <3>2, <3>3, LegIs
  <2>5. offer.cell \in call.cand[Last] \ cells /\ call.key[Last][offer.cell] \notin others
    BY <2>1, <2>4 DEF GoalCells, Range
  <2> HIDE DEF from, away, offer, path, served
  <2>6. Keep(held, docks)
    BY <1>1, <1>4
  <2>7. /\ docks[Last] = offer.cell /\ \A i \in Endpoint : i # Last => docks[i] = terminal[i]
        /\ docks \in [Endpoint -> Cell]
    BY <1>2, <2>5, CallIs
  <2>8. Piece(held)
    <3>1. Joined(held)
      BY <1>2, <2>4, JoinedUnion DEF Piece
    <3> QED BY <1>2, <2>4, <3>1 DEF Piece
  <2>9. DockedIn(held, docks)
    <3>1. \A i \in Endpoint : docks[i] \in held \cap call.cand[i]
      <4> TAKE i \in Endpoint
      <4>1. CASE i = Last
        BY <2>4, <2>5, <2>7, <4>1
      <4>2. CASE i # Last
        <5>1. docks[i] = terminal[i] /\ terminal[i] # NoCell
          BY <1>2, <2>7, <4>2, CellFinite DEF NoCell
        <5> QED BY <1>2, <5>1 DEF DockedIn
      <4> QED BY <4>1, <4>2
    <3>2. ASSUME NEW j \in Endpoint, j # Last, MachineOf(j) = MachineOf(Last)
          PROVE  call.key[j][docks[j]] # call.key[Last][docks[Last]]
      <4>1. call.key[j][terminal[j]] \in others
        BY <3>2
      <4> QED BY <2>5, <2>7, <3>2, <4>1
    <3>3. ASSUME NEW i \in Endpoint, NEW j \in Endpoint, i # j, MachineOf(i) = MachineOf(j)
          PROVE  call.key[i][docks[i]] # call.key[j][docks[j]]
      <4>1. CASE i = Last
        BY <3>2, <3>3, <4>1
      <4>2. CASE j = Last
        BY <3>2, <3>3, <4>2
      <4>3. CASE i # Last /\ j # Last
        <5>1. docks[i] = terminal[i] /\ docks[j] = terminal[j] /\ terminal[i] # NoCell /\ terminal[j] # NoCell
          BY <1>2, <2>7, <4>3, CellFinite DEF NoCell
        <5> QED BY <1>2, <3>3, <5>1 DEF DockedIn
      <4> QED BY <4>1, <4>2, <4>3
    <3> HIDE DEF docks, held
    <3> QED BY <3>1, <3>3 DEF DockedIn
  <2>10. Several(held)
    BY <2>4, <2>5 DEF Several
  <2> HIDE DEF docks, held
  <2>11. BestInv' /\ best'.cells \in SUBSET Cell
    BY <1>1, <2>6, <2>7, <2>8, <2>9, <2>10, KeepIs
  <2> QED BY <1>1, <2>11, GrowthStands
<1> QED BY <1>3, <1>4

LEMMA TryStartIInv ==
  ASSUME IInv, NEW c \in Cell, TryStart(c)
  PROVE  IInv'
<1> DEFINE seeds == [d \in {c} |-> 0]
<1>1. c \in todo /\ todo' = todo \ {c} /\ Grow(seeds) /\ call' = call /\ best' = best
  BY DEF TryStart, StartTurn
<1>2. call \in Calls /\ c \in FreeStarts /\ 0 \in Endpoint /\ FreeStarts \subseteq Open /\ c \in Nat
  BY <1>1, CallIs, CellFinite DEF IInv
<1>3. DOMAIN seeds = {c} /\ Cardinality(DOMAIN seeds) = 1 /\ Min({c}) = c
  <2>1. DOMAIN seeds = {c}
    OBVIOUS
  <2>2. Cardinality({c}) = 1
    BY FS_Singleton
  <2>3. Min({c}) = c
    BY <1>2, MinIs
  <2> QED BY <2>1, <2>2, <2>3
<1>4. /\ phase' = "grow" /\ legged' = FALSE /\ reach' = seeds /\ cells' = {c} /\ banned' = {}
      /\ terminal' = [i \in Endpoint |-> IF i = 0 THEN c ELSE NoCell]
  BY <1>1, <1>3 DEF Grow
<1>5. /\ Piece({c}) /\ DockedIn({c}, terminal')
      /\ terminal'[0] = c /\ c # NoCell /\ terminal' \in [Endpoint -> Cell \cup {NoCell}]
  BY <1>2, <1>4, LoneStart
<1>6. Endpoint' = Endpoint /\ Open' = Open /\ FreeStarts' = FreeStarts
  BY <1>1, CallStands
<1>7. DOMAIN reach' = {c} /\ \A d \in DOMAIN reach' : reach'[d] \in 0 .. Infinity
  BY <1>4, InfinityIs
<1> HIDE DEF seeds
<1>8. Piece(cells)' /\ DockedIn(cells, terminal)'
  BY <1>1, <1>4, <1>5, <1>6 DEF Piece, DockedIn, MachineOf
<1>9. GrowInv'
  BY <1>2, <1>4, <1>5, <1>6, <1>7, <1>8 DEF GrowInv
<1>10. BestInv' /\ best'.cells \in SUBSET Cell
  BY <1>1, BestStands
<1>11. TypeOK'
  BY <1>1, <1>4, <1>5, <1>6, <1>7, <1>10 DEF IInv, TypeOK
<1> QED BY <1>1, <1>6, <1>9, <1>10, <1>11 DEF IInv

LEMMA NextIInv == IInv /\ [Next]_vars => IInv'
<1> SUFFICES ASSUME IInv, [Next]_vars PROVE IInv'
  OBVIOUS
<1>1. CASE Join
  BY <1>1, JoinIInv
<1>2. CASE Stuck
  BY <1>2, BestStands, GrowthStands DEF Stuck
<1>3. CASE Finish
  BY <1>3, FinishIInv
<1>4. CASE Stub
  BY <1>4, StubIInv
<1>5. CASE Return
  BY <1>5, BestStands, GrowthStands DEF Return
<1>6. ASSUME NEW c \in Cell, TryStart(c) PROVE IInv'
  BY <1>6, TryStartIInv
<1>7. ASSUME NEW c \in Cell, SkipStart(c) PROVE IInv'
  BY <1>7, BestStands, GrowthStands DEF SkipStart
<1>8. CASE UNCHANGED vars
  BY <1>8, BestStands, GrowthStands DEF vars
<1> QED BY <1>1, <1>2, <1>3, <1>4, <1>5, <1>6, <1>7, <1>8 DEF Next

(* Whatever is grown, at every leg, is a piece of free cells that holds    *)
(* the docks given so far.                                                 *)
THEOREM GrowthInductive == Spec => []IInv
BY InitIInv, NextIInv, PTL DEF Spec

(* A tree that comes back is one connected piece of free cells with a dock *)
(* of every endpoint, no claim key twice on one machine, and never a       *)
(* one-block cable.                                                        *)
THEOREM AlwaysSound == Spec => []TreeIsSound
<1>1. ASSUME IInv PROVE TreeIsSound
  <2>1. TypeOK /\ call \in Calls /\ BestInv
    BY <1>1 DEF IInv
  <2> SUFFICES ASSUME best # NoTree
               PROVE  /\ best.cells \subseteq Open /\ Connected(best.cells)
                      /\ best.terminal \in Docks(best.cells)
                      /\ call.trunk => Cardinality(best.cells) > 1
    BY <2>1 DEF TreeIsSound
  <2> DEFINE held == best.cells  docks == best.terminal
  <2>2. /\ Piece(held) /\ docks \in [Endpoint -> Cell] /\ DockedIn(held, docks)
        /\ call.trunk => Several(held)
    BY <2>1 DEF BestInv
  <2>3. held \in SUBSET Cell /\ held # {} /\ held \subseteq Open /\ Joined(held)
    BY <2>1, <2>2 DEF TypeOK, Piece
  <2> HIDE DEF held, docks
  <2>4. Connected(held)
    BY <2>3, JoinedConnects
  <2>5. docks \in Docks(held)
    <3>1. \A i \in Endpoint : docks[i] # NoCell
      BY <2>2, CellFinite DEF NoCell
    <3>2. \A i \in Endpoint : docks[i] \in held /\ docks[i] \in call.cand[i]
      BY <2>2, <3>1 DEF DockedIn
    <3>3. \A i \in Endpoint : docks[i] \in held \cap GoalCells(call.cand)
      BY <3>2 DEF GoalCells, Range, Endpoint
    <3>4. docks \in [Endpoint -> held \cap GoalCells(call.cand)]
      BY <2>2, <3>3
    <3> QED BY <2>2, <3>1, <3>2, <3>4 DEF Docks, DockedIn
  <2>6. Several(held) => Cardinality(held) > 1
    <3> SUFFICES ASSUME NEW a \in held, NEW b \in held, a # b PROVE Cardinality(held) > 1
      BY DEF Several
    <3>1. IsFiniteSet(held) /\ Cardinality(held) \in Nat
      BY <2>3, CellFinite, FS_Subset, FS_CardinalityType
    <3>2. {a} \in SUBSET held /\ {a} # held
      OBVIOUS
    <3>3. Cardinality({a}) = 1 /\ IsFiniteSet({a})
      BY FS_Singleton
    <3>4. Cardinality({a}) <= Cardinality(held) /\ Cardinality({a}) # Cardinality(held)
      BY <3>1, <3>2, FS_Subset
    <3> QED BY <3>1, <3>3, <3>4
  <2> QED BY <2>2, <2>3, <2>4, <2>5, <2>6 DEF held, docks
<1>2. IInv => TreeIsSound
  BY <1>1
<1>3. Spec => []IInv
  BY GrowthInductive
<1> QED BY <1>2, <1>3, PTL

-----------------------------------------------------------------------------
(* Starts that are skipped.                                                *)

LEMMA DocksAre ==
  ASSUME NEW held, NEW d \in Docks(held)
  PROVE  \A i \in Endpoint : d[i] \in held /\ d[i] \in call.cand[i]
BY DEF Docks

(* The cheapest docks of a piece exist, and it still has a step per cell.  *)
LEMMA CheapestIs ==
  ASSUME call \in Calls, NEW held \in SUBSET Cell, Docks(held) # {}
  PROVE  /\ Cheapest(held) \in Nat /\ Cardinality(held) \in Nat
         /\ Cheapest(held) >= Cardinality(held)
         /\ \E d \in Docks(held) : Cheapest(held) = CostOf(held, d)
<1> DEFINE costs == {CostOf(held, d) : d \in Docks(held)}
           least == CHOOSE cost \in costs : \A d \in Docks(held) : cost <= CostOf(held, d)
<1>1. \A d \in Docks(held) : /\ CostOf(held, d) \in Nat /\ Cardinality(held) \in Nat
                             /\ CostOf(held, d) >= Cardinality(held)
  BY DocksAre, CostIs
<1>2. costs \subseteq Nat /\ costs # {}
  BY <1>1
<1>3. Min(costs) \in costs /\ \A y \in costs : Min(costs) <= y
  BY <1>2, MinIs
<1>4. \E cost \in costs : \A d \in Docks(held) : cost <= CostOf(held, d)
  BY <1>3
<1>5. Cheapest(held) = least
  BY DEF Cheapest
<1>6. least \in costs
  BY <1>4
<1> HIDE DEF least
<1> QED BY <1>1, <1>5, <1>6

(* A tree has no fewer cells than its start is away from the nearest dock  *)
(* of any endpoint.                                                        *)
LEMMA FewestIs ==
  ASSUME call \in Calls, NEW held \in SUBSET Cell, Joined(held),
         NEW d \in Docks(held), NEW c \in held
  PROVE  FewestCells(c) \in Nat /\ FewestCells(c) <= Cardinality(held)
<1> DEFINE near(i) == {Manhattan(c, x) : x \in call.cand[i]}
           V == {0} \cup {Min(near(i)) : i \in Endpoint \ {0}}
           n == Cardinality(held) - 1
<1>1. Cardinality(held) \in Nat /\ Cardinality(held) >= 1
  <2>1. /\ Cardinality(held) \in Nat /\ 1 + Manhattan(c, c) <= Cardinality(held)
        /\ Manhattan(c, c) \in Nat
    BY PieceReaches
  <2> QED BY <2>1
<1>2. ASSUME NEW i \in Endpoint PROVE Min(near(i)) \in Nat /\ Min(near(i)) <= n
  <2>1. d[i] \in held /\ d[i] \in call.cand[i] /\ call.cand[i] \subseteq Cell
    BY DocksAre, CallIs
  <2>2. near(i) \subseteq Nat /\ Manhattan(c, d[i]) \in near(i)
    <3>1. \A x \in call.cand[i] : x \in Nat /\ c \in Nat
      BY <2>1, CellFinite
    <3> QED BY <2>1, <3>1, ManhattanType
  <2>3. Min(near(i)) \in near(i) /\ Min(near(i)) <= Manhattan(c, d[i])
    BY <2>2, MinIs
  <2>4. Manhattan(c, d[i]) \in Nat /\ 1 + Manhattan(c, d[i]) <= Cardinality(held)
    BY <2>1, PieceReaches
  <2> HIDE DEF near
  <2> QED BY <1>1, <2>2, <2>3, <2>4
<1> HIDE DEF near
<1>3. V \subseteq Nat /\ V # {} /\ n \in Nat /\ \A y \in V : y <= n
  BY <1>1, <1>2
<1>4. FewestCells(c) = 1 + Max(V)
  BY DEF FewestCells, near
<1> HIDE DEF V
<1>5. Max(V) \in Nat /\ Max(V) <= n
  BY <1>3, MaxIs
<1> HIDE DEF n
<1> QED BY <1>1, <1>4, <1>5 DEF n

(* Passing over a start that cannot win passes over no better tree: every  *)
(* tree that could be grown from it costs more than the best one so far,   *)
(* or as much with no fewer cells.                                         *)
THEOREM SkippedNeverWins == Spec => SkippedCouldNotWin
<1>1. ASSUME IInv, NEW c \in Cell, SkipStart(c), NEW held \in Candidates, c \in held,
             NEW d \in Docks(held), d[0] = c
      PROVE  \/ Cheapest(held) > best.cost
             \/ Cheapest(held) = best.cost /\ Cardinality(held) >= Cardinality(best.cells)
  <2>1. held \in SUBSET (Cell \ Hard) /\ Connected(held)
    BY DEF Candidates, Pieces
  <2>2. held \in SUBSET Cell /\ Joined(held) /\ call \in Calls
    BY <1>1, <2>1, ConnectedJoins DEF IInv
  <2>3. FewestCells(c) \in Nat /\ FewestCells(c) <= Cardinality(held)
    BY <1>1, <2>2, FewestIs
  <2>4. Cheapest(held) \in Nat /\ Cardinality(held) \in Nat /\ Cheapest(held) >= Cardinality(held)
    BY <2>2, CheapestIs
  <2>5. best.cost \in Nat /\ Cardinality(best.cells) \in Nat
    <3>1. best.cells \in SUBSET Cell
      BY <1>1 DEF IInv, TypeOK
    <3> QED BY <1>1, <3>1, CellFinite, FS_Subset, FS_CardinalityType DEF IInv, BestInv
  <2>6. \/ FewestCells(c) > best.cost
        \/ FewestCells(c) = best.cost /\ FewestCells(c) >= Cardinality(best.cells)
    BY <1>1 DEF SkipStart, CannotWin
  <2> QED BY <2>3, <2>4, <2>5, <2>6
<1>2. IInv => [\A c \in Cell : SkipStart(c) =>
                 \A held \in Candidates :
                   c \in held /\ (\E d \in Docks(held) : d[0] = c) =>
                     \/ Cheapest(held) > best.cost
                     \/ Cheapest(held) = best.cost /\ Cardinality(held) >= Cardinality(best.cells)]_vars
  BY <1>1
<1> QED BY <1>2, GrowthInductive, PTL DEF SkippedCouldNotWin

-----------------------------------------------------------------------------
(* Nets of two machines.                                                   *)

(* The cells of a walk of cheapest steps cost no more than its last cell   *)
(* is away, whatever its first one was entered at.                         *)
LEMMA WalkCosts ==
  ASSUME call \in Calls, NEW D \in Field, NEW goal, NEW w \in Descents(goal, D, call.extra, call.blocked)
  PROVE  /\ SumOf(Steps, Range(w)) \in Nat
         /\ SumOf(Steps, Range(w)) + D[w[1]] <= D[goal] + Steps[w[1]]
<1> DEFINE n == Len(w)
           Upto(k) == {w[j] : j \in 1 .. k}
           S == {k \in 0 .. n - 1 : SumOf(Steps, Upto(k + 1)) + D[w[1]] <= D[w[k+1]] + Steps[w[1]]}
<1>1. /\ n \in Nat /\ n >= 1 /\ w[n] = goal /\ Range(w) = Upto(n) /\ \A j \in 1 .. n : w[j] \in Cell
      /\ \A j \in 1 .. n - 1 : D[w[j+1]] = D[w[j]] + StepCost(call.extra, w[j+1])
  BY DEF Descents, Range
<1>2. /\ \A c \in Cell : Steps[c] \in Nat /\ Steps[c] = StepCost(call.extra, c) /\ D[c] \in Nat
      /\ IsFiniteSet(Cell)
  <2>1. \A c \in Cell : call.extra[c] \in Nat
    BY CallIs
  <2>2. \A c \in Cell : Steps[c] = StepCost(call.extra, c)
    BY DEF Steps
  <2>3. \A c \in Cell : D[c] \in Nat
    BY InfinityIs DEF Field
  <2>4. \A c \in Cell : StepCost(call.extra, c) \in Nat
    BY <2>1 DEF StepCost
  <2> QED BY <2>2, <2>3, <2>4, CellFinite
<1>3. ASSUME NEW held \in SUBSET Cell
      PROVE  /\ SumOf(Steps, held) \in Nat /\ SumOf(Steps, {}) = 0
             /\ \A x \in held : SumOf(Steps, held) = Steps[x] + SumOf(Steps, held \ {x})
  <2>1. IsFiniteSet(held) /\ \A c \in held : Steps[c] \in Nat
    BY <1>2, FS_Subset
  <2> QED BY <2>1, SumsOfAll, SumAdds
<1>4. \A k \in 0 .. n : Upto(k) \in SUBSET Cell
  BY <1>1
<1>5. 0 \in S
  <2>1. Upto(0 + 1) = {w[1]} /\ w[1] \in Cell
    BY <1>1
  <2>2. SumOf(Steps, {w[1]}) = Steps[w[1]] + SumOf(Steps, {w[1]} \ {w[1]})
    BY <1>3, <2>1
  <2>3. {w[1]} \ {w[1]} = {}
    OBVIOUS
  <2>4. SumOf(Steps, Upto(0 + 1)) = Steps[w[1]]
    BY <1>2, <1>3, <2>1, <2>2, <2>3
  <2> HIDE DEF Upto
  <2> QED BY <1>1, <1>2, <2>1, <2>4
<1>6. \A k \in 0 .. (n - 1) - 1 : k \in S => k + 1 \in S
  <2> SUFFICES ASSUME NEW k \in 0 .. (n - 1) - 1,
                      SumOf(Steps, Upto(k + 1)) + D[w[1]] <= D[w[k+1]] + Steps[w[1]]
               PROVE  SumOf(Steps, Upto((k + 1) + 1)) + D[w[1]] <= D[w[(k+1)+1]] + Steps[w[1]]
    BY <1>1
  <2> DEFINE before == Upto(k + 1)  after == Upto((k + 1) + 1)  c == w[(k+1)+1]
  <2>1. /\ k + 1 \in 1 .. n - 1 /\ k + 1 \in 0 .. n /\ (k + 1) + 1 \in 0 .. n
        /\ (k + 1) + 1 \in 1 .. n /\ k + 1 \in 1 .. n /\ 1 \in 1 .. n
    BY <1>1
  <2>2. after = before \cup {c} /\ c \in Cell
    BY <1>1, <2>1
  <2>3. before \in SUBSET Cell /\ after \in SUBSET Cell
    BY <1>4, <2>1
  <2>4. D[c] = D[w[k+1]] + Steps[c] /\ w[k+1] \in Cell /\ w[1] \in Cell
    BY <1>1, <1>2, <2>1, <2>2
  <2> HIDE DEF before, after, c, Upto
  <2>5. SumOf(Steps, after) <= SumOf(Steps, before) + Steps[c] /\ SumOf(Steps, after) \in Nat
    <3>1. CASE c \in before
      <4>1. after = before
        BY <2>2, <3>1
      <4>2. SumOf(Steps, before) \in Nat /\ Steps[c] \in Nat
        BY <1>2, <1>3, <2>2, <2>3
      <4> QED BY <4>1, <4>2
    <3>2. CASE c \notin before
      <4>1. after \ {c} = before /\ c \in after
        BY <2>2, <3>2
      <4>2. SumOf(Steps, after) = Steps[c] + SumOf(Steps, before)
        BY <1>3, <2>3, <4>1
      <4>3. SumOf(Steps, before) \in Nat /\ Steps[c] \in Nat /\ SumOf(Steps, after) \in Nat
        BY <1>2, <1>3, <2>2, <2>3
      <4> QED BY <4>2, <4>3
    <3> QED BY <3>1, <3>2
  <2>6. SumOf(Steps, before) + D[w[1]] <= D[w[k+1]] + Steps[w[1]]
    BY DEF before
  <2>7. SumOf(Steps, before) \in Nat
    BY <1>3, <2>3
  <2>8. SumOf(Steps, after) + D[w[1]] <= D[c] + Steps[w[1]]
    <3>1. /\ D[c] \in Nat /\ D[w[1]] \in Nat /\ D[w[k+1]] \in Nat
          /\ Steps[c] \in Nat /\ Steps[w[1]] \in Nat
      BY <1>2, <2>2, <2>4
    <3> DEFINE all == SumOf(Steps, after)  most == SumOf(Steps, before)
               step == Steps[c]  first == Steps[w[1]]
               from == D[w[1]]  last == D[w[k+1]]  end == D[c]
    <3>2. /\ all \in Nat /\ most \in Nat /\ step \in Nat /\ first \in Nat
          /\ from \in Nat /\ last \in Nat /\ end = last + step
          /\ all <= most + step /\ most + from <= last + first
      BY <2>4, <2>5, <2>6, <2>7, <3>1
    <3> HIDE DEF all, most, step, first, from, last, end
    <3>3. all + from <= end + first
      BY <3>2
    <3> QED BY <3>3 DEF all, first, from, end
  <2> QED BY <2>8 DEF after, c
<1>7. n - 1 \in Nat /\ (n - 1) + 1 = n
  BY <1>1
<1> HIDE DEF S
<1>8. \A k \in 0 .. n - 1 : k \in S
  BY <1>5, <1>6, <1>7, UpTo
<1>9. n - 1 \in S
  BY <1>7, <1>8
<1>10. Range(w) \in SUBSET Cell
  BY <1>1, <1>4
<1> QED BY <1>1, <1>3, <1>7, <1>9, <1>10 DEF S

(* A piece that holds a seed costs no less than getting to any of its      *)
(* cells from there.                                                       *)
LEMMA PieceCosts ==
  ASSUME call \in Calls, NEW seeds, NEW D, Relaxed(D, seeds, call.extra, call.blocked),
         NEW held \in SUBSET Open, Joined(held),
         NEW a \in held \cap DOMAIN seeds, seeds[a] \in Nat, NEW b \in held
  PROVE  SumOf(Steps, held) \in Nat /\ D[b] + Steps[a] <= seeds[a] + SumOf(Steps, held)
<1> DEFINE Within(part) == a \in part /\ \A x \in part : D[x] + Steps[a] <= seeds[a] + SumOf(Steps, part)
           sizes == {Cardinality(part) : part \in {p \in SUBSET held : Within(p)}}
<1>1. /\ \A c \in Cell : Steps[c] \in Nat /\ Steps[c] = StepCost(call.extra, c) /\ D[c] \in Nat
      /\ held \in SUBSET Cell /\ IsFiniteSet(held) /\ Cardinality(held) \in Nat
  <2>1. \A c \in Cell : call.extra[c] \in Nat
    BY CallIs
  <2>2. held \in SUBSET Cell
    BY CallIs
  <2>3. IsFiniteSet(held) /\ Cardinality(held) \in Nat
    BY <2>2, CellFinite, FS_Subset, FS_CardinalityType
  <2> QED BY <2>1, <2>2, <2>3, InfinityIs DEF Steps, StepCost, Field, Relaxed
<1>2. ASSUME NEW part \in SUBSET held
      PROVE  /\ SumOf(Steps, part) \in Nat /\ SumOf(Steps, {}) = 0
             /\ \A x \in part : SumOf(Steps, part) = Steps[x] + SumOf(Steps, part \ {x})
  <2>1. IsFiniteSet(part) /\ \A c \in part : Steps[c] \in Nat
    BY <1>1, FS_Subset
  <2> QED BY <2>1, SumsOfAll, SumAdds
<1>3. \A part \in SUBSET held : IsFiniteSet(part) /\ Cardinality(part) \in Nat
                                /\ Cardinality(part) <= Cardinality(held)
  BY <1>1, FS_Subset, FS_CardinalityType
<1>4. {a} \in SUBSET held /\ Within({a})
  <2>1. a \in Cell /\ D[a] <= seeds[a]
    BY <1>1 DEF Relaxed, Seeded
  <2>2. SumOf(Steps, {a}) = Steps[a] + SumOf(Steps, {a} \ {a}) /\ {a} \ {a} = {}
    BY <1>2
  <2>3. SumOf(Steps, {a}) = Steps[a]
    BY <1>1, <1>2, <2>1, <2>2
  <2> QED BY <1>1, <2>1, <2>3
<1>5. sizes \subseteq Nat /\ sizes # {} /\ \A y \in sizes : y <= Cardinality(held)
  <2> HIDE DEF Within
  <2> QED BY <1>3, <1>4
<1>6. Max(sizes) \in sizes /\ \A y \in sizes : y <= Max(sizes)
  <2> HIDE DEF sizes
  <2> QED BY <1>1, <1>5, MaxIs
<1>7. PICK part \in SUBSET held : Within(part) /\ Cardinality(part) = Max(sizes)
  <2> HIDE DEF Within
  <2> QED BY <1>6
<1>8. part = held
  <2> SUFFICES ASSUME part # held PROVE FALSE
    OBVIOUS
  <2>1. PICK n \in part : \E y \in held \ part : y \in Adj(n)
    BY <1>7 DEF Joined
  <2>2. PICK y \in held \ part : y \in Adj(n)
    BY <2>1
  <2> DEFINE more == part \cup {y}
  <2>3. n \in Cell /\ y \in Cell /\ more \in SUBSET held /\ more \ {y} = part
    BY <1>1
  <2>4. D[y] <= D[n] + Steps[y]
    <3>1. y \in Cell \ (call.blocked \cup Hard) /\ n \in Beside[y]
      BY <2>2, <2>3, BesideIs DEF Open
    <3> QED BY <1>1, <3>1 DEF Relaxed
  <2>5. SumOf(Steps, more) = Steps[y] + SumOf(Steps, part)
    BY <1>2, <2>3
  <2> HIDE DEF more
  <2>6. /\ Steps[y] \in Nat /\ Steps[a] \in Nat /\ SumOf(Steps, part) \in Nat
        /\ D[n] \in Nat /\ D[y] \in Nat /\ D[n] + Steps[a] <= seeds[a] + SumOf(Steps, part)
    BY <1>1, <1>2, <1>7, <2>3
  <2>7. \A x \in part : D[x] + Steps[a] <= seeds[a] + SumOf(Steps, more)
    <3> TAKE x \in part
    <3>1. D[x] \in Nat /\ D[x] + Steps[a] <= seeds[a] + SumOf(Steps, part)
      BY <1>1, <1>7
    <3> QED BY <2>5, <2>6, <3>1
  <2>8. D[y] + Steps[a] <= seeds[a] + SumOf(Steps, more)
    BY <2>4, <2>5, <2>6
  <2>9. Within(more)
    BY <1>7, <2>7, <2>8 DEF more
  <2>10. Cardinality(more) = Cardinality(part) + 1
    BY <1>3, FS_AddElement DEF more
  <2> HIDE DEF Within
  <2>11. Cardinality(more) <= Max(sizes)
    BY <1>6, <2>3, <2>9
  <2> QED BY <1>3, <1>7, <2>10, <2>11
<1> QED BY <1>2, <1>7, <1>8

(* What a tree costs, and that none costs less (costs past Infinity are    *)
(* not told apart).                                                        *)
Costs(held, docks) == SumOf(Steps, held) + SumOf(Fees(docks), Endpoint)

NoneCheaper(cost) ==
  \A held \in Candidates : \A d \in Docks(held) :
    cost <= Costs(held, d) \/ Infinity <= Costs(held, d)

LEMMA PairCosts ==
  ASSUME call \in Calls, NEW j \in Endpoint, j # 0, Endpoint = {0, j}, NEW held \in SUBSET Cell,
         NEW docks, \A i \in Endpoint : docks[i] \in call.cand[i]
  PROVE  /\ call.fee[0][docks[0]] \in Nat /\ call.fee[j][docks[j]] \in Nat
         /\ SumOf(Steps, held) \in Nat /\ Costs(held, docks) \in Nat
         /\ Costs(held, docks) =
              SumOf(Steps, held) + (call.fee[0][docks[0]] + call.fee[j][docks[j]])
<1> DEFINE v == Fees(docks)
<1>1. SumOf(Steps, held) \in Nat /\ SumOf(v, Endpoint) \in Nat
  BY CostIs
<1>2. /\ IsFiniteSet(Endpoint) /\ \A i \in Endpoint : v[i] \in Nat
      /\ v[0] = call.fee[0][docks[0]] /\ v[j] = call.fee[j][docks[j]] /\ 0 \in Endpoint
  <2>1. \A i \in Endpoint : v[i] = call.fee[i][docks[i]] /\ call.fee[i][docks[i]] \in Nat
    BY CallIs DEF Fees
  <2> QED BY <2>1, CallIs
<1>3. Costs(held, docks) = SumOf(Steps, held) + SumOf(v, Endpoint)
  BY DEF Costs
<1> HIDE DEF v
<1>4. SumOf(v, Endpoint) = v[0] + SumOf(v, {j})
  <2>1. Endpoint \ {0} = {j}
    OBVIOUS
  <2>2. SumOf(v, Endpoint) = v[0] + SumOf(v, Endpoint \ {0})
    BY <1>2, SumAdds
  <2> QED BY <2>1, <2>2
<1>5. SumOf(v, {j}) = v[j] + 0
  <2>1. IsFiniteSet({j}) /\ (\A i \in {j} : v[i] \in Nat) /\ {j} \ {j} = {}
    BY <1>2, FS_Singleton
  <2>2. SumOf(v, {j}) = v[j] + SumOf(v, {j} \ {j})
    BY <2>1, SumAdds
  <2>3. SumOf(v, {}) = 0
    BY <1>2, SumsOfAll
  <2> QED BY <2>1, <2>2, <2>3
<1>6. SumOf(v, Endpoint) = v[0] + v[j]
  BY <1>2, <1>4, <1>5
<1> QED BY <1>1, <1>2, <1>3, <1>6

(* The first leg of a net of two machines, from any of the first one's     *)
(* docks to any of the second's: no other choice of docks and path is      *)
(* cheaper, and where there is no leg no tree is cheaper than Infinity.    *)
(* What a start is entered at need not be its price, but must fall short   *)
(* of it by the same toll everywhere.                                      *)
LEMMA FirstLeg ==
  ASSUME call \in Calls, NEW j \in Endpoint, j # 0, Endpoint = {0, j},
         NEW seeds, DOMAIN seeds = FreeStarts, NEW toll \in Nat,
         \A c \in FreeStarts : /\ seeds[c] \in 0 .. Infinity
                               /\ Steps[c] + call.fee[0][c] = seeds[c] + toll,
         NEW goals, goals = [i \in {j} |-> call.cand[j] \ call.blocked],
         NEW D, D = Distances(seeds, call.extra, call.blocked),
         NEW offer, offer = BestGoal(D, goals, call.machine, call.fee)
  PROVE  /\ offer = NoOffer => NoneCheaper(Infinity)
         /\ offer # NoOffer =>
              \A path, docks :
                /\ path = PathTo(offer.cell, D, call.extra, seeds)
                /\ docks[0] = path[1] /\ docks[j] = offer.cell
                => NoneCheaper(Costs(Range(path), docks))
<1> DEFINE fee == call.fee[j]
<1>1. /\ 0 \in Endpoint /\ FreeStarts \subseteq Open /\ Open \subseteq Cell
      /\ FreeStarts \subseteq call.cand[0] /\ call.cand[j] \subseteq Cell \ Hard
      /\ \A c \in call.cand[j] : fee[c] \in Nat
      /\ \A c \in call.cand[0] : call.fee[0][c] \in Nat
      /\ call.extra \in [Cell -> Nat]
  BY CallIs
<1>2. Relaxed(D, seeds, call.extra, call.blocked) /\ Reached(D, seeds, call.extra, call.blocked)
      /\ Priced(seeds, call.extra)
  <2>1. Priced(seeds, call.extra)
    BY <1>1 DEF Priced
  <2> QED BY <2>1, DistancesSolve
<1>3. D \in Field /\ \A c \in Cell : D[c] \in Nat /\ D[c] <= Infinity
  <2>1. D \in Field
    BY <1>2 DEF Relaxed
  <2> QED BY <2>1, InfinityIs DEF Field
<1>4. \A c \in Cell : Steps[c] \in Nat
  <2>1. \A c \in Cell : call.extra[c] \in Nat
    BY <1>1
  <2> QED BY <2>1 DEF Steps, StepCost
<1>5. /\ DOMAIN goals = {j} /\ goals[j] = call.cand[j] \ call.blocked
      /\ GoalCells(goals) = call.cand[j] \ call.blocked
      /\ Docked(goals, call.fee)
  <2>1. DOMAIN goals = {j} /\ goals[j] = call.cand[j] \ call.blocked
    OBVIOUS
  <2>2. GoalCells(goals) = goals[j]
    BY <2>1 DEF GoalCells, Range
  <2>3. IsFiniteSet({j}) /\ j \in Nat
    BY CallIs, FS_Singleton
  <2> QED BY <1>1, <2>1, <2>2, <2>3 DEF Docked
<1> HIDE DEF fee
<1>6. ASSUME NEW held \in Candidates, NEW d \in Docks(held)
      PROVE  /\ d[j] \in GoalCells(goals) /\ d[j] \in Cell /\ fee[d[j]] \in Nat
             /\ Costs(held, d) \in Nat /\ D[d[j]] + (toll + fee[d[j]]) <= Costs(held, d)
  <2>1. /\ held \subseteq Open /\ Joined(held) /\ held \in SUBSET Cell
        /\ \A i \in Endpoint : d[i] \in held /\ d[i] \in call.cand[i]
    <3>1. held \in SUBSET (Cell \ Hard) /\ Connected(held) /\ held \subseteq Open
      BY DEF Candidates, Pieces
    <3> QED BY <1>1, <3>1, ConnectedJoins, DocksAre
  <2>2. d[0] \in FreeStarts /\ d[0] \in held /\ d[j] \in held /\ d[j] \in GoalCells(goals)
    BY <1>1, <1>5, <2>1 DEF FreeStarts, Open
  <2>3. SumOf(Steps, held) \in Nat /\ D[d[j]] + Steps[d[0]] <= seeds[d[0]] + SumOf(Steps, held)
    <3>1. seeds[d[0]] \in Nat /\ d[0] \in held \cap DOMAIN seeds
      BY <2>2, InfinityIs
    <3> QED BY <1>2, <2>1, <2>2, <3>1, PieceCosts
  <2>4. /\ call.fee[0][d[0]] \in Nat /\ fee[d[j]] \in Nat /\ Costs(held, d) \in Nat
        /\ Costs(held, d) = SumOf(Steps, held) + (call.fee[0][d[0]] + fee[d[j]])
    BY <2>1, PairCosts DEF fee
  <2>5. /\ D[d[j]] \in Nat /\ Steps[d[0]] \in Nat /\ seeds[d[0]] \in Nat
        /\ Steps[d[0]] + call.fee[0][d[0]] = seeds[d[0]] + toll
    BY <1>1, <1>3, <1>4, <2>1, <2>2, InfinityIs
  <2>6. D[d[j]] + (toll + fee[d[j]]) <= Costs(held, d)
    BY <2>3, <2>4, <2>5
  <2> QED BY <2>1, <2>2, <2>4, <2>6
<1>7. ASSUME offer = NoOffer PROVE NoneCheaper(Infinity)
  <2> SUFFICES ASSUME NEW held \in Candidates, NEW d \in Docks(held) PROVE Infinity <= Costs(held, d)
    BY DEF NoneCheaper
  <2>1. D[d[j]] = Infinity
    <3>1. \A dock \in GoalCells(goals) : D[dock] = Infinity
      BY <1>3, <1>5, <1>7, FoundIs
    <3> QED BY <1>6, <3>1
  <2> QED BY <1>6, <2>1, InfinityIs
<1>8. ASSUME offer # NoOffer, NEW path, path = PathTo(offer.cell, D, call.extra, seeds),
             NEW docks, docks[0] = path[1], docks[j] = offer.cell
      PROVE  NoneCheaper(Costs(Range(path), docks))
  <2> DEFINE goal == offer.cell
  <2>1. goal \in GoalCells(goals) /\ goal \in Cell /\ D[goal] < Infinity
    BY <1>3, <1>5, <1>8, FoundIs
  <2>2. ASSUME NEW c \in GoalCells(goals)
        PROVE  /\ Offer(c, D[c], goals, call.machine, call.fee).cost = D[c] + fee[c]
               /\ Offer(c, D[c], goals, call.machine, call.fee).share = 1
    <3>1. /\ ServedAt(c, goals, call.machine, call.fee) \subseteq {j}
          /\ ServedAt(c, goals, call.machine, call.fee) # {}
      BY <1>5, ServedIs
    <3>2. ServedAt(c, goals, call.machine, call.fee) = {j}
      BY <3>1
    <3>3. IsFiniteSet({j}) /\ Cardinality({j}) = 1
      BY FS_Singleton
    <3>4. FeeSum(call.fee, c, {j}) = fee[c]
      <4>1. \A i \in {j} : call.fee[i][c] \in Nat
        BY <1>1, <1>5 DEF fee
      <4> QED BY <3>3, <4>1, FeesSum DEF fee
    <3> QED BY <3>2, <3>3, <3>4 DEF Offer, FeeSum
  <2>3. ASSUME NEW c \in GoalCells(goals), D[c] < Infinity
        PROVE  D[goal] + fee[goal] <= D[c] + fee[c]
    <3> DEFINE rival == Offer(c, D[c], goals, call.machine, call.fee)
    <3>1. /\ offer = Offer(goal, D[goal], goals, call.machine, call.fee)
          /\ rival = offer \/ Beats(offer, rival)
      BY <1>3, <1>5, <2>3, FoundBeats
    <3>2. /\ rival.cost = D[c] + fee[c] /\ rival.share = 1
          /\ offer.cost = D[goal] + fee[goal] /\ offer.share = 1
      BY <2>1, <2>2, <3>1
    <3>3. /\ D[c] \in Nat /\ fee[c] \in Nat /\ D[goal] \in Nat /\ fee[goal] \in Nat
      BY <1>1, <1>3, <1>5, <2>1
    <3> HIDE DEF rival, goal
    <3> QED BY <3>1, <3>2, <3>3 DEF Beats
  <2>4. path \in Descents(goal, D, call.extra, call.blocked)
        /\ path[1] \in FreeStarts /\ D[path[1]] = seeds[path[1]]
    <3>1. path = PathTo(goal, D, call.extra, seeds)
      BY <1>8
    <3>2. DOMAIN seeds = FreeStarts
      OBVIOUS
    <3> HIDE DEF goal
    <3> QED BY <1>2, <2>1, <3>1, <3>2, PathIs
  <2> HIDE DEF goal
  <2>5. /\ SumOf(Steps, Range(path)) \in Nat
        /\ SumOf(Steps, Range(path)) + D[path[1]] <= D[goal] + Steps[path[1]]
    BY <1>3, <2>4, WalkCosts
  <2>6. Range(path) \in SUBSET Cell
    <3>1. path \in Seq(Cell)
      BY <2>4 DEF Descents
    <3> QED BY <3>1 DEF Range
  <2>7. /\ call.fee[0][path[1]] \in Nat /\ fee[goal] \in Nat /\ Costs(Range(path), docks) \in Nat
        /\ Costs(Range(path), docks) =
             SumOf(Steps, Range(path)) + (call.fee[0][path[1]] + fee[goal])
    <3>1. docks[0] \in call.cand[0] /\ docks[j] \in call.cand[j]
      BY <1>1, <1>5, <1>8, <2>1, <2>4 DEF goal
    <3>2. \A i \in Endpoint : docks[i] \in call.cand[i]
      BY <3>1
    <3>3. /\ call.fee[0][docks[0]] \in Nat /\ call.fee[j][docks[j]] \in Nat
          /\ Costs(Range(path), docks) \in Nat
          /\ Costs(Range(path), docks) =
               SumOf(Steps, Range(path)) + (call.fee[0][docks[0]] + call.fee[j][docks[j]])
      BY <2>6, <3>2, PairCosts
    <3> QED BY <1>8, <3>3 DEF fee, goal
  <2>8. Costs(Range(path), docks) <= D[goal] + (toll + fee[goal])
    <3>1. /\ D[goal] \in Nat /\ Steps[path[1]] \in Nat /\ seeds[path[1]] \in Nat
          /\ Steps[path[1]] + call.fee[0][path[1]] = seeds[path[1]] + toll
      BY <1>1, <1>3, <1>4, <2>1, <2>4, InfinityIs DEF goal
    <3> QED BY <2>4, <2>5, <2>7, <3>1
  <2> SUFFICES ASSUME NEW held \in Candidates, NEW d \in Docks(held)
               PROVE  \/ Costs(Range(path), docks) <= Costs(held, d)
                      \/ Infinity <= Costs(held, d)
    BY DEF NoneCheaper
  <2>9. /\ d[j] \in GoalCells(goals) /\ D[d[j]] \in Nat /\ fee[d[j]] \in Nat
        /\ Costs(held, d) \in Nat /\ D[d[j]] + (toll + fee[d[j]]) <= Costs(held, d)
        /\ D[goal] \in Nat
    BY <1>3, <1>6, <2>1 DEF goal
  <2>10. CASE D[d[j]] < Infinity
    <3>1. D[goal] + fee[goal] <= D[d[j]] + fee[d[j]]
      BY <2>3, <2>9, <2>10
    <3> QED BY <2>7, <2>8, <2>9, <3>1
  <2>11. CASE ~(D[d[j]] < Infinity)
    BY <2>9, <2>11, InfinityIs
  <2> QED BY <2>10, <2>11
<1> QED BY <1>7, <1>8

(* Before its first leg a net of two machines may leave from every start,  *)
(* each entered short of its price by the same toll.                       *)
Fresh ==
  /\ DOMAIN reach = FreeStarts /\ \A c \in cells : FreeStarts = {c}
  /\ terminal[0] # NoCell => FreeStarts = {terminal[0]}
  /\ \A i \in Endpoint : i # 0 => terminal[i] = NoCell
  /\ \E toll \in Nat : \A c \in FreeStarts : Steps[c] + call.fee[0][c] = reach[c] + toll

PairInv ==
  TwoMachines /\ ~call.trunk =>
    /\ todo = {}
    /\ phase = "grow" => best = NoTree /\ (Fresh \/ (Pending = {} /\ NoneCheaper(Costs(cells, terminal))))
    /\ phase # "grow" => best.cost <= Infinity /\ NoneCheaper(best.cost)

LEMMA SecondMachine ==
  ASSUME call \in Calls, TwoMachines
  PROVE  \E j \in Endpoint : j # 0 /\ Endpoint = {0, j} /\ MachineOf(j) # MachineOf(0)
<1>1. 0 \in Endpoint /\ IsFiniteSet(Endpoint) /\ Cardinality(Endpoint) = 2
  BY CallIs DEF TwoMachines
<1>2. Cardinality(Endpoint \ {0}) = 1 /\ IsFiniteSet(Endpoint \ {0})
  <2>1. Cardinality(Endpoint \ {0}) = 2 - 1 /\ IsFiniteSet(Endpoint \ {0})
    BY <1>1, FS_RemoveElement
  <2> QED BY <2>1
<1>3. PICK j : Endpoint \ {0} = {j}
  BY <1>2, FS_Singleton
<1> QED BY <1>1, <1>3 DEF TwoMachines

LEMMA PairStands ==
  ASSUME call' = call
  PROVE  /\ Endpoint' = Endpoint /\ FreeStarts' = FreeStarts /\ Steps' = Steps
         /\ TwoMachines' = TwoMachines
         /\ \A cost : NoneCheaper(cost)' = NoneCheaper(cost)
<1>1. Endpoint' = Endpoint /\ FreeStarts' = FreeStarts /\ Open' = Open
  BY CallStands
<1>2. Steps' = Steps
  BY DEF Steps
<1>3. TwoMachines' = TwoMachines
  BY <1>1 DEF TwoMachines, MachineOf
<1>4. \A held : Docks(held)' = Docks(held)
  BY <1>1 DEF Docks, MachineOf
<1>5. Candidates' = Candidates
  BY <1>1, <1>4 DEF Candidates
<1>6. \A held, d : Costs(held, d)' = Costs(held, d)
  BY <1>1, <1>2 DEF Costs, Fees
<1> QED BY <1>1, <1>2, <1>3, <1>4, <1>5, <1>6 DEF NoneCheaper

LEMMA InitPair ==
  ASSUME Init
  PROVE  PairInv
<1> SUFFICES ASSUME TwoMachines PROVE todo = {} /\ Fresh
  BY DEF PairInv, Init
<1>1. /\ call \in Calls /\ todo = Singles
      /\ reach = IF Cardinality(FreeStarts) = 1 THEN [c \in FreeStarts |-> 0]
                                                ELSE [c \in FreeStarts |-> Entry(c)]
      /\ cells = IF Cardinality(FreeStarts) = 1 THEN FreeStarts ELSE {}
      /\ terminal = [i \in Endpoint |->
                       IF i = 0 /\ Cardinality(FreeStarts) = 1 THEN Min(FreeStarts) ELSE NoCell]
  BY DEF Init
<1>2. todo = {}
  BY <1>1 DEF Singles, TwoMachines
<1>3. /\ 0 \in Endpoint /\ FreeStarts \subseteq Cell /\ \A i \in Endpoint : i # 0 => terminal[i] = NoCell
      /\ \A c \in FreeStarts : call.extra[c] \in Nat /\ call.fee[0][c] \in Nat
  <2>1. /\ 0 \in Endpoint /\ FreeStarts \subseteq Cell /\ call.extra \in [Cell -> Nat]
        /\ \A c \in FreeStarts : call.fee[0][c] \in Nat
    BY <1>1, CallIs
  <2> QED BY <1>1, <2>1
<1>4. \A c \in FreeStarts : Steps[c] = 1 + call.extra[c]
  BY <1>3 DEF Steps, StepCost
<1>5. CASE Cardinality(FreeStarts) = 1
  <2>1. IsFiniteSet(FreeStarts)
    BY <1>3, CellFinite, FS_Subset
  <2>2. PICK c : FreeStarts = {c}
    BY <1>5, <2>1, FS_Singleton
  <2>3. Min(FreeStarts) = c
    <3>1. FreeStarts \subseteq Nat
      BY <1>3, CellFinite
    <3> QED BY <2>2, <3>1, MinIs
  <2>4. terminal[0] = c /\ cells = {c} /\ reach = [x \in {c} |-> 0]
    BY <1>1, <1>3, <1>5, <2>2, <2>3
  <2> DEFINE toll == Steps[c] + call.fee[0][c]
  <2>5. toll \in Nat /\ \A x \in FreeStarts : Steps[x] + call.fee[0][x] = reach[x] + toll
    BY <1>3, <1>4, <2>2, <2>4
  <2> HIDE DEF toll
  <2> QED BY <1>2, <1>3, <2>2, <2>4, <2>5 DEF Fresh
<1>6. CASE Cardinality(FreeStarts) # 1
  <2>1. cells = {} /\ terminal[0] = NoCell /\ reach = [c \in FreeStarts |-> Entry(c)]
    BY <1>1, <1>3, <1>6
  <2>2. \A c \in FreeStarts : Steps[c] + call.fee[0][c] = reach[c] + 1
    BY <1>3, <1>4, <2>1 DEF Entry
  <2>3. 1 \in Nat
    OBVIOUS
  <2> QED BY <1>2, <1>3, <2>1, <2>2, <2>3 DEF Fresh
<1> QED BY <1>5, <1>6

(* What it then searches: every dock of the second machine is a goal.      *)
LEMMA FreshIs ==
  ASSUME IInv, phase = "grow", Fresh,
         NEW j \in Endpoint, j # 0, Endpoint = {0, j}, MachineOf(j) # MachineOf(0)
  PROVE  /\ Pending = {j}
         /\ Goals = [i \in {j} |-> call.cand[j] \ call.blocked]
         /\ Dist = Distances(reach, call.extra, call.blocked)
         /\ DOMAIN reach = FreeStarts /\ \A c \in FreeStarts : reach[c] \in 0 .. Infinity
         /\ \E toll \in Nat : \A c \in FreeStarts : Steps[c] + call.fee[0][c] = reach[c] + toll
<1>1. Pending = {j}
  BY DEF Pending, Fresh
<1>2. Goals = [i \in {j} |-> call.cand[j] \ call.blocked]
  <2> DEFINE g == [i \in {j} |-> call.cand[j] \ call.blocked]
  <2>1. KeysHeld(MachineOf(j)) = {}
    BY DEF KeysHeld, Fresh
  <2>2. GoalsFor(j) = call.cand[j] \ call.blocked
    BY <2>1 DEF GoalsFor
  <2>3. [i \in Pending |-> GoalsFor(i)] = g
    BY <1>1, <2>2
  <2>4. Goals = Table(g)
    BY <2>3 DEF Goals
  <2>5. g \in [{j} -> SUBSET Cell]
    BY CallIs DEF IInv
  <2> HIDE DEF g
  <2> QED BY <2>4, <2>5, TableIs DEF g
<1> QED BY <1>1, <1>2 DEF Fresh, Dist, IInv, GrowInv

(* The first leg of a net of two machines is its only one.                 *)
LEMMA JoinPair ==
  ASSUME IInv, PairInv, Join, TwoMachines, ~call.trunk
  PROVE  Pending' = {} /\ NoneCheaper(Costs(cells, terminal))'
<1> DEFINE offer == BestGoal(Dist, Goals, call.machine, call.fee)
           path == PathTo(offer.cell, Dist, call.extra, reach)
           served == ServedAt(offer.cell, Goals, call.machine, call.fee)
           first == IF terminal[0] = NoCell THEN path[1] ELSE terminal[0]
<1>1. /\ phase = "grow" /\ Pending # {} /\ offer # NoOffer
      /\ terminal' = [i \in Endpoint |-> IF i = 0 THEN first
                                         ELSE IF i \in served THEN offer.cell
                                         ELSE terminal[i]]
      /\ cells' = cells \cup Range(path)
      /\ call' = call
  BY DEF Join
<1>2. call \in Calls /\ Fresh
  BY <1>1 DEF IInv, PairInv
<1>3. PICK j \in Endpoint : j # 0 /\ Endpoint = {0, j} /\ MachineOf(j) # MachineOf(0)
  BY <1>2, SecondMachine
<1>4. /\ Pending = {j}
      /\ Goals = [i \in {j} |-> call.cand[j] \ call.blocked]
      /\ Dist = Distances(reach, call.extra, call.blocked)
      /\ DOMAIN reach = FreeStarts /\ \A c \in FreeStarts : reach[c] \in 0 .. Infinity
      /\ \E toll \in Nat : \A c \in FreeStarts : Steps[c] + call.fee[0][c] = reach[c] + toll
  BY <1>1, <1>2, <1>3, FreshIs
<1>5. PICK toll \in Nat : \A c \in FreeStarts : Steps[c] + call.fee[0][c] = reach[c] + toll
  BY <1>4
<1> HIDE DEF offer, path, served, first
<1>6. /\ offer = BestGoal(Dist, Goals, call.machine, call.fee)
      /\ path = PathTo(offer.cell, Dist, call.extra, reach)
      /\ served = ServedAt(offer.cell, Goals, call.machine, call.fee)
  BY Zenon DEF offer, path, served
<1>7. path[1] \in FreeStarts /\ path[1] \in Range(path) /\ served = {j} /\ offer.cell \in call.cand[j]
  <2>1. /\ DOMAIN Goals = {j} /\ \A i \in DOMAIN Goals : Goals[i] \subseteq call.cand[i]
        /\ GoalCells(Goals) = Goals[j] /\ Goals[j] \subseteq call.cand[j]
    BY <1>4 DEF GoalCells, Range
  <2>2. DOMAIN Goals \subseteq Endpoint /\ DOMAIN reach \subseteq Open
        /\ \A c \in DOMAIN reach : reach[c] \in 0 .. Infinity
    BY <1>2, <1>4, <2>1, CallIs
  <2>3. /\ path[1] \in FreeStarts /\ path[1] \in Range(path)
        /\ served \subseteq {j} /\ offer.cell \in GoalCells(Goals)
    <3>1. /\ DOMAIN reach = FreeStarts /\ Dist = Distances(reach, call.extra, call.blocked)
          /\ call \in Calls /\ offer # NoOffer
      BY <1>1, <1>2, <1>4
    <3>2. path[1] \in DOMAIN reach /\ path[1] \in Range(path) /\ served \subseteq DOMAIN Goals
          /\ offer.cell \in GoalCells(Goals)
      BY <1>6, <2>1, <2>2, <3>1, LegIs
    <3> QED BY <2>1, <3>1, <3>2
  <2>4. served # {}
    <3>1. Docked(Goals, call.fee)
      <4>1. IsFiniteSet({j}) /\ j \in Nat
        BY <1>2, CallIs, FS_Singleton
      <4>2. call.cand[j] \subseteq Cell /\ \A c \in call.cand[j] : call.fee[j][c] \in Nat
        BY <1>2, CallIs
      <4> QED BY <2>1, <4>1, <4>2 DEF Docked
    <3> QED BY <1>6, <2>3, <3>1, ServedIs
  <2> QED BY <2>1, <2>3, <2>4
<1>8. first = path[1] /\ cells' = Range(path)
  BY <1>1, <1>2, <1>7 DEF Fresh, first
<1>9. terminal'[0] = path[1] /\ terminal'[j] = offer.cell /\ offer.cell # NoCell
  <2>1. 0 \in Endpoint /\ offer.cell \in Cell
    BY <1>2, <1>7, CallIs
  <2> QED BY <1>1, <1>3, <1>7, <1>8, <2>1, CellFinite DEF NoCell
<1>10. Pending' = {}
  <2>1. Endpoint' = Endpoint
    BY <1>1, CallStands
  <2> QED BY <1>3, <1>9, <2>1 DEF Pending
<1>11. NoneCheaper(Costs(Range(path), terminal'))
  <2>1. \A w, docks :
          /\ w = PathTo(offer.cell, Dist, call.extra, reach)
          /\ docks[0] = w[1] /\ docks[j] = offer.cell
          => NoneCheaper(Costs(Range(w), docks))
    <3>1. /\ \A c \in FreeStarts : /\ reach[c] \in 0 .. Infinity
                                   /\ Steps[c] + call.fee[0][c] = reach[c] + toll
          /\ toll \in Nat /\ j \in Endpoint /\ j # 0 /\ Endpoint = {0, j}
          /\ call \in Calls /\ offer # NoOffer
      BY <1>1, <1>2, <1>3, <1>4, <1>5
    <3>2. offer = BestGoal(Dist, Goals, call.machine, call.fee)
      BY <1>6
    <3> QED BY <1>4, <3>1, <3>2, FirstLeg
  <2> QED BY <1>6, <1>9, <2>1
<1>12. Costs(cells, terminal)' = Costs(Range(path), terminal')
  BY <1>1, <1>8 DEF Costs, Steps, Fees, Endpoint
<1>13. NoneCheaper(Costs(cells, terminal))'
  <2> DEFINE cost == Costs(Range(path), terminal')
  <2>1. \A c : NoneCheaper(c)' = NoneCheaper(c)
    BY <1>1, PairStands
  <2> QED BY <1>11, <1>12, <2>1
<1> QED BY <1>10, <1>13

LEMMA FinishPair ==
  ASSUME IInv, PairInv, Finish, TwoMachines, ~call.trunk
  PROVE  (best.cost <= Infinity /\ NoneCheaper(best.cost))'
<1>1. /\ Grown /\ phase = "grow" /\ Pending = {} /\ Keep(cells, terminal) /\ call' = call
  BY DEF Finish, Grown
<1>2. /\ call \in Calls /\ cells \in SUBSET Cell /\ best = NoTree /\ best.cost = Infinity
      /\ Fresh \/ (Pending = {} /\ NoneCheaper(Costs(cells, terminal)))
  BY <1>1 DEF IInv, TypeOK, PairInv, NoTree
<1>3. NoneCheaper(Costs(cells, terminal))
  <2>1. \E j \in Endpoint : j # 0 /\ Endpoint = {0, j} /\ MachineOf(j) # MachineOf(0)
    BY <1>2, SecondMachine
  <2>2. Fresh => Pending # {}
    BY <1>1, <2>1, FreshIs
  <2> QED BY <1>1, <1>2, <2>2
<1>4. CostOf(cells, terminal) = Costs(cells, terminal) /\ CostOf(cells, terminal) \in Nat
  <2>1. \A i \in Endpoint : terminal[i] \in call.cand[i]
    BY <1>1, GrownIs, CellFinite DEF DockedIn, NoCell
  <2> QED BY <1>2, <2>1, CostIs DEF Costs
<1> DEFINE cost == Costs(cells, terminal)
           tree == [cost |-> CostOf(cells, terminal), cells |-> cells, terminal |-> terminal]
<1>5. \/ best'.cost = cost /\ cost <= Infinity
      \/ best'.cost = Infinity /\ Infinity <= cost
  <2>1. best' = IF \/ tree.cost < best.cost
                   \/ tree.cost = best.cost /\ Cardinality(cells) < Cardinality(best.cells)
                THEN tree ELSE best
    BY <1>1 DEF Keep
  <2>2. tree.cost = cost /\ cost \in Nat /\ Infinity \in Nat
    BY <1>4, InfinityIs
  <2> HIDE DEF tree, cost
  <2> QED BY <1>2, <2>1, <2>2
<1>6. NoneCheaper(best'.cost)
  <2>1. CASE best'.cost = cost
    BY <1>3, <2>1
  <2>2. CASE best'.cost = Infinity /\ Infinity <= cost
    <3> SUFFICES ASSUME NEW held \in Candidates, NEW d \in Docks(held) PROVE Infinity <= Costs(held, d)
      BY <2>2 DEF NoneCheaper
    <3>1. cost <= Costs(held, d) \/ Infinity <= Costs(held, d)
      BY <1>3 DEF NoneCheaper
    <3>2. Costs(held, d) \in Nat
      <4>1. held \in SUBSET Cell
        BY DEF Candidates, Pieces
      <4> QED BY <1>2, <4>1, DocksAre, CostIs DEF Costs
    <3>3. cost \in Nat /\ Infinity \in Nat
      BY <1>4, InfinityIs
    <3> HIDE DEF cost
    <3> QED BY <2>2, <3>1, <3>2, <3>3
  <2> QED BY <1>5, <2>1, <2>2
<1>7. best'.cost <= Infinity
  BY <1>4, <1>5, InfinityIs
<1>8. \A c : NoneCheaper(c)' = NoneCheaper(c)
  BY <1>1, PairStands
<1> QED BY <1>6, <1>7, <1>8

LEMMA StuckPair ==
  ASSUME IInv, PairInv, Stuck, TwoMachines, ~call.trunk
  PROVE  (best.cost <= Infinity /\ NoneCheaper(best.cost))'
<1>1. /\ phase = "grow" /\ call' = call /\ best' = best
      /\ \/ Endpoint = {0} \/ FreeStarts = {}
         \/ Pending # {} /\ BestGoal(Dist, Goals, call.machine, call.fee) = NoOffer
  BY DEF Stuck
<1>2. call \in Calls /\ best.cost = Infinity /\ (Fresh \/ Pending = {})
  BY <1>1 DEF IInv, PairInv, NoTree
<1>3. PICK j \in Endpoint : j # 0 /\ Endpoint = {0, j} /\ MachineOf(j) # MachineOf(0)
  BY <1>2, SecondMachine
<1>4. NoneCheaper(Infinity)
  <2>1. CASE FreeStarts = {}
    <3> SUFFICES ASSUME NEW held \in Candidates, NEW d \in Docks(held) PROVE FALSE
      BY DEF NoneCheaper
    <3>1. d[0] \in held /\ d[0] \in call.cand[0] /\ held \subseteq Open
      BY <1>2, CallIs, DocksAre DEF Candidates
    <3> QED BY <2>1, <3>1 DEF FreeStarts, Open
  <2>2. CASE FreeStarts # {}
    <3> DEFINE offer == BestGoal(Dist, Goals, call.machine, call.fee)
    <3>1. offer = NoOffer /\ Fresh
      BY <1>1, <1>2, <1>3, <2>2
    <3>2. /\ Goals = [i \in {j} |-> call.cand[j] \ call.blocked]
          /\ Dist = Distances(reach, call.extra, call.blocked)
          /\ DOMAIN reach = FreeStarts /\ \A c \in FreeStarts : reach[c] \in 0 .. Infinity
          /\ \E toll \in Nat : \A c \in FreeStarts : Steps[c] + call.fee[0][c] = reach[c] + toll
      BY <1>1, <1>3, <3>1, FreshIs
    <3>3. PICK toll \in Nat : \A c \in FreeStarts : Steps[c] + call.fee[0][c] = reach[c] + toll
      BY <3>2
    <3>4. \A c \in FreeStarts : /\ reach[c] \in 0 .. Infinity
                                /\ Steps[c] + call.fee[0][c] = reach[c] + toll
      BY <3>2, <3>3
    <3> HIDE DEF offer
    <3>5. offer = BestGoal(Dist, Goals, call.machine, call.fee)
      BY Zenon DEF offer
    <3> QED BY <1>2, <1>3, <3>1, <3>2, <3>4, <3>5, FirstLeg
  <2> QED BY <2>1, <2>2
<1>5. \A c : NoneCheaper(c)' = NoneCheaper(c)
  BY <1>1, PairStands
<1> QED BY <1>1, <1>2, <1>4, <1>5, InfinityIs

LEMMA NextPair ==
  ASSUME IInv, PairInv, [Next]_vars
  PROVE  PairInv'
<1>1. call' = call
  BY DEF Next, vars, Join, Stuck, Finish, Stub, Return, TryStart, SkipStart
<1>2. TwoMachines' = TwoMachines /\ \A c : NoneCheaper(c)' = NoneCheaper(c)
  BY <1>1, PairStands
<1> SUFFICES ASSUME TwoMachines, ~call.trunk
             PROVE  /\ todo' = {}
                    /\ phase' = "grow" => /\ best' = NoTree
                                          /\ \/ Fresh'
                                             \/ Pending' = {} /\ NoneCheaper(Costs(cells, terminal))'
                    /\ phase' # "grow" => (best.cost <= Infinity /\ NoneCheaper(best.cost))'
  BY <1>1, <1>2 DEF PairInv
<1>3. /\ todo = {}
      /\ phase = "grow" => best = NoTree /\ (Fresh \/ (Pending = {} /\ NoneCheaper(Costs(cells, terminal))))
      /\ phase # "grow" => best.cost <= Infinity /\ NoneCheaper(best.cost)
  BY DEF PairInv
<1>4. CASE Join
  <2>1. phase' = phase /\ phase = "grow" /\ todo' = todo /\ best' = best
    BY <1>4 DEF Join
  <2> QED BY <1>3, <1>4, <2>1, JoinPair
<1>5. CASE Stuck
  BY <1>3, <1>5, StuckPair DEF Stuck
<1>6. CASE Finish
  BY <1>3, <1>6, FinishPair DEF Finish
<1>7. CASE Stub
  BY <1>7 DEF Stub
<1>8. CASE Return
  <2>1. phase = "pick" /\ phase' = "done" /\ best' = best /\ todo' = todo
    BY <1>8 DEF Return
  <2> QED BY <1>2, <1>3, <2>1
<1>9. ASSUME NEW c \in Cell, TryStart(c) \/ SkipStart(c) PROVE FALSE
  BY <1>3, <1>9 DEF TryStart, SkipStart, StartTurn
<1>10. CASE UNCHANGED vars
  <2>1. /\ todo' = todo /\ reach' = reach /\ cells' = cells /\ terminal' = terminal
        /\ best' = best /\ phase' = phase
    BY <1>10 DEF vars
  <2>2. Endpoint' = Endpoint /\ FreeStarts' = FreeStarts /\ Steps' = Steps
    BY <1>1, PairStands
  <2>3. Fresh => Fresh'
    BY <1>1, <2>1, <2>2 DEF Fresh
  <2>4. Pending' = Pending /\ Costs(cells, terminal)' = Costs(cells, terminal)
    BY <1>1, <2>1, <2>2 DEF Pending, Costs, Fees
  <2> QED BY <1>2, <1>3, <2>1, <2>3, <2>4
<1> QED BY <1>4, <1>5, <1>6, <1>7, <1>8, <1>9, <1>10 DEF Next

(* A net that joins two machines gets its cheapest tree: no other choice   *)
(* of docks and path costs less.                                           *)
THEOREM PairsCheapest == Spec => []PairIsCheapest
<1>1. ASSUME IInv, PairInv PROVE PairIsCheapest
  <2> SUFFICES ASSUME phase = "done", TwoMachines, ~call.trunk, NEW held \in Candidates
               PROVE  best.cost <= Cheapest(held)
    BY DEF PairIsCheapest
  <2>1. call \in Calls /\ best.cost \in Nat /\ best.cost <= Infinity /\ NoneCheaper(best.cost)
    BY <1>1 DEF IInv, BestInv, PairInv
  <2>2. held \in SUBSET Cell /\ Docks(held) # {}
    BY DEF Candidates, Pieces
  <2>3. PICK d \in Docks(held) : Cheapest(held) = CostOf(held, d)
    BY <2>1, <2>2, CheapestIs
  <2>4. CostOf(held, d) = Costs(held, d) /\ CostOf(held, d) \in Nat
    BY <2>1, <2>2, DocksAre, CostIs DEF Costs
  <2>5. best.cost <= Costs(held, d) \/ Infinity <= Costs(held, d)
    BY <2>1 DEF NoneCheaper
  <2> QED BY <2>1, <2>3, <2>4, <2>5, InfinityIs
<1>2. IInv /\ PairInv => PairIsCheapest
  BY <1>1
<1>3. Init => IInv /\ PairInv
  BY InitIInv, InitPair
<1>4. (IInv /\ PairInv) /\ [Next]_vars => (IInv /\ PairInv)'
  BY NextIInv, NextPair
<1> QED BY <1>2, <1>3, <1>4, PTL DEF Spec
=============================================================================
