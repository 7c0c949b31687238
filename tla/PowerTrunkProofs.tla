--------------------------- MODULE PowerTrunkProofs ---------------------------
(***************************************************************************)
(* One power trunk of router/power.py, for every region, all obstacles and *)
(* any number of sinks: what is laid is a tree rooted at the source, on    *)
(* free cells, with every endpoint on a dock of its own, and every block   *)
(* of a returned trunk is built for what flows through it.                 *)
(***************************************************************************)
EXTENDS PowerTrunk, TreeSearchProofs

-----------------------------------------------------------------------------
(* The inductive invariant.                                                *)

Seg == DOMAIN segs

(* Every segment enters a new cell from one laid before it.                *)
TreeInv ==
  /\ Trunk \subseteq Free
  /\ \A k \in Seg :
       /\ segs[k][2] \in Adj(segs[k][1])
       /\ segs[k][1] \in {Root} \cup {segs[j][2] : j \in 1 .. k - 1}
       /\ segs[k][2] # Root
  /\ \A j, k \in Seg : segs[j][2] = segs[k][2] => j = k
  /\ \A i \in Endpoint : docked[i] # NoCell => docked[i] \in Trunk \cap call.cand[i]

IInv ==
  /\ call \in Calls /\ TypeOK /\ HatchesApart
  /\ Root = NoCell => segs = <<>> /\ \A i \in Endpoint : docked[i] = NoCell
  /\ Root # NoCell => TreeInv

-----------------------------------------------------------------------------
(* Legs.                                                                   *)

Ones == [c \in Cell |-> 0]

Zeros == [c \in Trunk |-> 0]

(* From the trunk, costs count steps: no more of them than cells.          *)
LEMMA StepsFromTrunk ==
  ASSUME Trunk \subseteq Cell
  PROVE  /\ FromTrunk \in Field
         /\ \A c \in Cell : FromTrunk[c] \in Nat
         /\ \A c \in Cell : FromTrunk[c] = 0 <=> c \in Trunk
         /\ \A c \in Cell : FromTrunk[c] < Infinity /\ c \notin Trunk => c \notin LegWalls \cup Hard
         /\ \A c \in Cell : FromTrunk[c] < Infinity => FromTrunk[c] <= Cardinality(Cell)
<1> DEFINE D == FromTrunk
<1>1. Priced(Zeros, Ones)
  BY InfinityIs DEF Priced, Zeros, Ones
<1>2. D = Distances(Zeros, Ones, LegWalls)
  BY DEF FromTrunk, Zeros, Ones
<1>3. Relaxed(D, Zeros, Ones, LegWalls) /\ Reached(D, Zeros, Ones, LegWalls)
  BY <1>1, <1>2, DistancesSolve
<1> HIDE DEF D
<1>4. \A c \in Cell : StepCost(Ones, c) = 1
  BY DEF StepCost, Ones
<1>5. D \in Field /\ \A c \in Cell : D[c] \in Nat /\ D[c] <= Infinity
  BY <1>3, InfinityIs DEF Relaxed, Field
<1>6. \A c \in Trunk : D[c] = 0
  <2> TAKE c \in Trunk
  <2>1. Seeded(Zeros)[c] = 0
    BY DEF Seeded, Zeros
  <2>2. D[c] <= Seeded(Zeros)[c]
    BY <1>3 DEF Relaxed
  <2> QED BY <1>5, <2>1, <2>2
<1>7. Beside = [c \in Cell |-> {n \in Cell : c \in Adj(n)}]
  BY BesideIs
<1>8. ASSUME NEW c \in Cell, c \notin Trunk, D[c] < Infinity
      PROVE  c \notin LegWalls \cup Hard /\ \E n \in Cell : D[c] = D[n] + 1
  <2>1. D[c] # Infinity /\ c \notin DOMAIN Zeros
    BY <1>5, <1>8, InfinityIs DEF Zeros
  <2>2. c \notin LegWalls \cup Hard /\ \E n \in Beside[c] : D[c] = D[n] + StepCost(Ones, c)
    BY <1>3, <2>1 DEF Reached
  <2> QED BY <1>4, <1>7, <2>2
<1>9. \A c \in Cell : D[c] = 0 <=> c \in Trunk
  <2> TAKE c \in Cell
  <2>1. ASSUME D[c] = 0, c \notin Trunk PROVE FALSE
    <3>1. D[c] < Infinity
      BY <2>1, InfinityIs
    <3>2. PICK n \in Cell : D[c] = D[n] + 1
      BY <1>8, <2>1, <3>1
    <3> QED BY <1>5, <2>1, <3>2
  <2> QED BY <1>6, <2>1
<1>10. \A c \in Cell : D[c] < Infinity => D[c] <= Cardinality(Cell)
  <2> DEFINE far == {c \in Cell : D[c] < Infinity /\ D[c] > Rank(D, c)}
             costs == {D[c] : c \in far}
  <2>1. \A c \in Cell : /\ Rank(D, c) \in Nat /\ Rank(D, c) <= Cardinality(Cell) /\ Cardinality(Cell) \in Nat
                        /\ \A n \in Cell : D[n] < D[c] => Rank(D, n) < Rank(D, c)
    BY <1>5, RankIs, CellFinite
  <2>2. ASSUME far # {} PROVE FALSE
    <3>1. costs \subseteq Nat /\ costs # {}
      BY <1>5, <2>2
    <3>2. Min(costs) \in costs /\ \A v \in costs : Min(costs) <= v
      BY <3>1, MinIs
    <3>3. PICK c \in far : \A b \in far : D[c] <= D[b]
      BY <3>2
    <3>4. c \in Cell /\ D[c] < Infinity /\ D[c] > Rank(D, c) /\ Rank(D, c) \in Nat /\ D[c] \in Nat
      BY <1>5, <2>1
    <3>5. c \notin Trunk
      BY <1>6, <3>4
    <3>6. PICK n \in Cell : D[c] = D[n] + 1
      BY <1>8, <3>4, <3>5
    <3>7. D[n] \in Nat /\ D[n] < D[c] /\ Rank(D, n) < Rank(D, c) /\ Rank(D, n) \in Nat
      BY <1>5, <2>1, <3>4, <3>6
    <3>8. n \in far
      BY <3>4, <3>6, <3>7, InfinityIs
    <3> QED BY <3>3, <3>4, <3>7, <3>8
  <2>3. \A c \in Cell : D[c] < Infinity => D[c] <= Rank(D, c)
    BY <1>5, <2>1, <2>2
  <2> HIDE DEF far, costs
  <2> QED BY <1>5, <2>1, <2>3
<1> QED BY <1>5, <1>8, <1>9, <1>10 DEF D

(* A way back from a goal of sink i, each step one farther from the trunk. *)
Ways(i) ==
  {w \in Seq(Cell) :
     /\ w # <<>> /\ w[Len(w)] \in LegGoals(i) /\ FromTrunk[w[Len(w)]] < Infinity
     /\ \A j \in 1 .. Len(w) - 1 :
          /\ w[j+1] \in Adj(w[j])
          /\ FromTrunk[w[j+1]] = FromTrunk[w[j]] + 1}

(* One more cell in front of each of them, until it starts on the trunk.   *)
Longer(ws) ==
  UNION {IF FromTrunk[Head(w)] = 0 THEN {w}
         ELSE {<<n>> \o w : n \in {m \in Beside[Head(w)] :
                                     /\ FromTrunk[m] = FromTrunk[Head(w)] - 1
                                     /\ m \in Trunk \/ m \notin LegWalls}} : w \in ws}

LEMMA LongerWays ==
  ASSUME Trunk \subseteq Cell, NEW i, NEW ws \in SUBSET Ways(i)
  PROVE  /\ Longer(ws) \in SUBSET Ways(i)
         /\ \A v \in Longer(ws) : \E w \in ws :
              /\ v[Len(v)] = w[Len(w)]
              /\ \/ v = w /\ FromTrunk[w[1]] = 0
                 \/ FromTrunk[v[1]] = FromTrunk[w[1]] - 1
<1> DEFINE D == FromTrunk
<1>1. \A c \in Cell : D[c] \in Nat
  BY StepsFromTrunk
<1>2. \A c \in Cell : \A m \in Beside[c] : m \in Cell /\ c \in Adj(m)
  BY BesideIs
<1> SUFFICES ASSUME NEW v \in Longer(ws)
             PROVE  v \in Ways(i) /\ \E w \in ws :
                       /\ v[Len(v)] = w[Len(w)]
                       /\ (v = w /\ D[w[1]] = 0) \/ D[v[1]] = D[w[1]] - 1
  OBVIOUS
<1>3. PICK w \in ws : v \in IF D[Head(w)] = 0 THEN {w}
         ELSE {<<n>> \o w : n \in {m \in Beside[Head(w)] :
                                     /\ D[m] = D[Head(w)] - 1
                                     /\ m \in Trunk \/ m \notin LegWalls}}
  BY DEF Longer
<1>4. /\ w \in Ways(i) /\ w \in Seq(Cell) /\ w # <<>> /\ Len(w) \in Nat /\ Len(w) >= 1
      /\ Head(w) = w[1] /\ w[1] \in Cell /\ \A j \in 1 .. Len(w) : w[j] \in Cell
  BY DEF Ways
<1>5. CASE D[Head(w)] = 0
  BY <1>3, <1>4, <1>5
<1>6. CASE D[Head(w)] # 0
  <2>1. PICK m \in Beside[w[1]] : D[m] = D[w[1]] - 1 /\ v = <<m>> \o w
    BY <1>3, <1>4, <1>6
  <2>2. m \in Cell /\ w[1] \in Adj(m) /\ D[w[1]] = D[m] + 1
    BY <1>1, <1>2, <1>4, <2>1
  <2>3. /\ v \in Seq(Cell) /\ Len(v) = Len(w) + 1 /\ v[1] = m
        /\ \A j \in 1 .. Len(w) : v[j+1] = w[j]
    BY <1>4, <2>1, <2>2
  <2>4. v[Len(v)] = w[Len(w)] /\ v # <<>>
    BY <1>4, <2>3
  <2>5. ASSUME NEW j \in 1 .. Len(v) - 1 PROVE v[j+1] \in Adj(v[j]) /\ D[v[j+1]] = D[v[j]] + 1
    <3>1. CASE j = 1
      BY <1>4, <2>2, <2>3, <3>1
    <3>2. CASE j # 1
      <4>1. j - 1 \in 1 .. Len(w) - 1 /\ j \in 1 .. Len(w) /\ (j - 1) + 1 = j /\ j - 1 \in 1 .. Len(w)
        BY <1>4, <2>3, <3>2
      <4>2. v[j+1] = w[j] /\ v[j] = w[j-1]
        BY <2>3, <4>1
      <4>3. w[j] \in Adj(w[j-1]) /\ D[w[j]] = D[w[j-1]] + 1
        BY <1>4, <4>1 DEF Ways
      <4> QED BY <4>2, <4>3
    <3> QED BY <3>1, <3>2
  <2>6. v \in Ways(i)
    BY <1>4, <2>3, <2>4, <2>5 DEF Ways
  <2> QED BY <2>1, <2>3, <2>4, <2>6
<1> QED BY <1>5, <1>6

(* The legs of sink i are ways that start on the trunk.                    *)
LEMMA LegsAreWays ==
  ASSUME Trunk \subseteq Cell, NEW i, LegGoals(i) \subseteq Cell, NEW w \in Legs(i)
  PROVE  w \in Ways(i) /\ FromTrunk[w[1]] = 0
<1> DEFINE D == FromTrunk
           N == Cardinality(Cell)
           goals == {g \in LegGoals(i) : D[g] < Infinity /\ \A h \in LegGoals(i) : D[g] <= D[h]}
           start == {<<g>> : g \in goals}
           Body(f) == [k \in 0 .. N |->
             IF k = 0 THEN {<<g>> : g \in goals}
             ELSE UNION {IF D[Head(v)] = 0 THEN {v}
                         ELSE {<<n>> \o v : n \in {m \in Beside[Head(v)] :
                                                     /\ D[m] = D[Head(v)] - 1
                                                     /\ m \in Trunk \/ m \notin LegWalls}} : v \in f[k-1]}]
           ways == CHOOSE f : f = Body(f)
           T == SUBSET Ways(i)
           F == [ws \in T |-> Longer(ws)]
<1>1. N \in Nat
  BY CellFinite
<1>2. w \in ways[N]
  BY DEF Legs
<1>3. start \in T
  <2>1. ASSUME NEW g \in goals PROVE <<g>> \in Ways(i)
    BY DEF Ways
  <2> QED BY <2>1
<1>4. F \in [T -> T] /\ \A ws \in T : F[ws] = Longer(ws)
  BY LongerWays
<1>5. \A f : Body(f) = [k \in 0 .. N |-> IF k = 0 THEN start ELSE Longer(f[k-1])]
  BY DEF Longer
<1> HIDE DEF N, D, start, F, T, Body
<1>6. PICK g : Repeats(g, T, start, F, N)
  BY <1>1, <1>3, <1>4, Rounds
<1>7. g = Body(g)
  <2>1. \A k \in 1 .. N : k - 1 \in 0 .. N
    BY <1>1
  <2>2. g = [k \in 0 .. N |-> IF k = 0 THEN start ELSE Longer(g[k-1])]
    <3>1. ASSUME NEW k \in 0 .. N PROVE g[k] = IF k = 0 THEN start ELSE Longer(g[k-1])
      <4>1. CASE k = 0
        BY <1>6, <4>1 DEF Repeats
      <4>2. CASE k # 0
        <5>1. k \in 1 .. N
          BY <1>1, <4>2
        <5> QED BY <1>4, <1>6, <2>1, <4>2, <5>1 DEF Repeats
      <4> QED BY <4>1, <4>2
    <3>2. g = [k \in 0 .. N |-> g[k]]
      BY <1>6 DEF Repeats
    <3> QED BY <3>1, <3>2
  <2> QED BY <1>5, <2>2
<1>8. ways = Body(ways)
  BY <1>7
<1> HIDE DEF ways
<1>9. Repeats(ways, T, start, F, N)
  <2>1. ways = [k \in 0 .. N |-> IF k = 0 THEN start ELSE Longer(ways[k-1])]
    BY <1>5, <1>8
  <2>2. \A k \in 0 .. N : ways[k] = IF k = 0 THEN start ELSE Longer(ways[k-1])
    BY <2>1
  <2>3. ways = [k \in 0 .. N |-> ways[k]]
    BY <2>1
  <2>4. 0 \in 0 .. N /\ \A k \in 1 .. N : k \in 0 .. N /\ k # 0
    BY <1>1
  <2>5. ways[0] = start /\ \A k \in 1 .. N : ways[k] = Longer(ways[k-1])
    BY <2>2, <2>4
  <2> QED BY <1>1, <1>3, <1>4, <2>3, <2>5, Unrolls
<1> DEFINE Walked(k) == \A v \in ways[k] : D[v[1]] = 0 \/ D[v[1]] + k = D[v[Len(v)]]
           S == {k \in 0 .. N : Walked(k)}
<1>10. \A k \in 0 .. N : ways[k] \in SUBSET Ways(i)
  BY <1>9 DEF Repeats, T
<1>11. \A k \in 1 .. N : k - 1 \in 0 .. N /\ ways[k] = Longer(ways[k-1])
  BY <1>1, <1>4, <1>9, <1>10 DEF Repeats, T
<1>12. /\ \A c \in Cell : D[c] \in Nat
       /\ \A c \in Cell : D[c] < Infinity => D[c] <= N
  BY StepsFromTrunk DEF D, N
<1>13. \A v \in Ways(i) : v[1] \in Cell /\ v[Len(v)] \in Cell /\ D[v[Len(v)]] < Infinity
  BY DEF Ways, D
<1>14. 0 \in S
  <2>1. ways[0] = {<<goal>> : goal \in goals} /\ goals \subseteq Cell
    BY <1>9 DEF Repeats, start
  <2>2. ASSUME NEW v \in ways[0] PROVE D[v[1]] + 0 = D[v[Len(v)]]
    <3>1. PICK c \in Cell : v = <<c>>
      BY <2>1
    <3>2. v[1] = c /\ v[Len(v)] = c
      BY <3>1
    <3> QED BY <1>12, <3>2
  <2>3. 0 \in 0 .. N
    BY <1>1
  <2> QED BY <2>2, <2>3
<1>15. \A k \in 0 .. N - 1 : k \in S => k + 1 \in S
  <2> SUFFICES ASSUME NEW k \in 0 .. N - 1, Walked(k), NEW v \in ways[k+1]
               PROVE  D[v[1]] = 0 \/ D[v[1]] + (k + 1) = D[v[Len(v)]]
    BY <1>1
  <2>1. k + 1 \in 1 .. N /\ (k + 1) - 1 = k /\ k \in 0 .. N /\ k + 1 \in 0 .. N
    BY <1>1
  <2>2. v \in Longer(ways[k]) /\ ways[k] \in SUBSET Ways(i) /\ v \in Ways(i)
    BY <1>10, <1>11, <2>1
  <2>3. PICK u \in ways[k] : /\ v[Len(v)] = u[Len(u)]
                             /\ \/ v = u /\ D[u[1]] = 0
                                \/ D[v[1]] = D[u[1]] - 1
    BY <2>2, LongerWays DEF D
  <2>4. u \in Ways(i) /\ D[v[1]] \in Nat /\ D[u[1]] \in Nat /\ D[u[Len(u)]] \in Nat
    BY <1>12, <1>13, <2>2
  <2>5. D[u[1]] = 0 \/ D[u[1]] + k = D[u[Len(u)]]
    BY <2>3
  <2> HIDE DEF S
  <2>6. CASE v = u /\ D[u[1]] = 0
    BY <2>6
  <2>7. CASE D[v[1]] = D[u[1]] - 1
    <3>1. D[u[1]] # 0
      BY <2>4, <2>7
    <3>2. D[u[1]] + k = D[v[Len(v)]] /\ k \in Nat
      BY <2>3, <2>5, <3>1
    <3> DEFINE here == D[v[1]]  there == D[u[1]]  far == D[v[Len(v)]]
    <3>3. here \in Nat /\ there \in Nat /\ here = there - 1 /\ there + k = far /\ k \in Nat
      BY <2>4, <2>7, <3>2
    <3> HIDE DEF here, there, far
    <3>4. here + (k + 1) = far
      BY <3>3
    <3> QED BY <3>4 DEF here, far
  <2> QED BY <2>3, <2>6, <2>7
<1> HIDE DEF S
<1>16. N \in S
  BY <1>1, <1>14, <1>15, UpTo
<1>17. w \in Ways(i) /\ (D[w[1]] = 0 \/ D[w[1]] + N = D[w[Len(w)]])
  BY <1>1, <1>2, <1>10, <1>16 DEF S
<1>18. D[w[1]] \in Nat /\ D[w[Len(w)]] \in Nat /\ D[w[Len(w)]] <= N
  BY <1>12, <1>13, <1>17
<1>19. D[w[1]] = 0
  BY <1>1, <1>17, <1>18
<1> QED BY <1>17, <1>19 DEF D

(* A leg leaves the trunk by its first cell and runs over free cells, none *)
(* twice, to a dock of the sink.                                           *)
LEMMA LegIs ==
  ASSUME Trunk \subseteq Free, NEW i, NEW w \in Legs(i)
  PROVE  /\ w \in Seq(Cell) /\ Len(w) \in Nat /\ Len(w) >= 2
         /\ w[1] \in Trunk /\ w[Len(w)] \in LegGoals(i)
         /\ \A j \in 2 .. Len(w) : w[j] \in Free \ Trunk
         /\ \A j \in 1 .. Len(w) - 1 : w[j+1] \in Adj(w[j])
         /\ \A j, k \in 1 .. Len(w) : w[j] = w[k] => j = k
<1> DEFINE D == FromTrunk
<1>1. Trunk \subseteq Cell /\ LegGoals(i) \subseteq Cell
  BY DEF Free, LegGoals
<1>2. /\ \A c \in Cell : D[c] \in Nat
      /\ \A c \in Cell : D[c] = 0 <=> c \in Trunk
      /\ \A c \in Cell : D[c] < Infinity /\ c \notin Trunk => c \notin LegWalls \cup Hard
  BY <1>1, StepsFromTrunk
<1>3. w \in Ways(i) /\ D[w[1]] = 0
  BY <1>1, LegsAreWays
<1>4. /\ w \in Seq(Cell) /\ w # <<>> /\ Len(w) \in Nat /\ Len(w) >= 1
      /\ w[Len(w)] \in LegGoals(i) /\ D[w[Len(w)]] < Infinity
      /\ \A j \in 1 .. Len(w) - 1 : w[j+1] \in Adj(w[j]) /\ D[w[j+1]] = D[w[j]] + 1
      /\ \A j \in 1 .. Len(w) : w[j] \in Cell
  BY <1>3 DEF Ways
<1> DEFINE n == Len(w)
           S == {j \in 0 .. n - 1 : D[w[j+1]] = j}
<1> HIDE DEF D
<1>5. \A j \in 0 .. n - 1 : j \in S
  <2>1. 0 \in S
    BY <1>3, <1>4
  <2>2. \A j \in 0 .. (n - 1) - 1 : j \in S => j + 1 \in S
    <3> TAKE j \in 0 .. (n - 1) - 1
    <3>1. j + 1 \in 1 .. Len(w) - 1 /\ j + 1 \in 0 .. n - 1
      BY <1>4
    <3> QED BY <1>4, <3>1
  <2>3. n - 1 \in Nat
    BY <1>4
  <2> HIDE DEF S, n
  <2> QED BY <2>1, <2>2, <2>3, UpTo
<1>6. \A j \in 1 .. n : D[w[j]] = j - 1
  <2> TAKE j \in 1 .. n
  <2>1. j - 1 \in 0 .. n - 1 /\ (j - 1) + 1 = j
    BY <1>4
  <2> QED BY <1>5, <2>1
<1> HIDE DEF S
<1>7. D[w[n]] = n - 1 /\ D[w[1]] = 0
  BY <1>4, <1>6
<1>8. \A j \in 2 .. n : w[j] \in Free \ Trunk
  <2> TAKE j \in 2 .. n
  <2>1. j \in 1 .. n /\ w[j] \in Cell /\ D[w[j]] = j - 1 /\ j - 1 # 0 /\ j - 1 <= n - 1
    BY <1>4, <1>6
  <2>2. D[w[j]] < Infinity /\ w[j] \notin Trunk
    BY <1>2, <1>4, <1>7, <2>1, InfinityIs
  <2> QED BY <1>2, <2>1, <2>2 DEF Free, LegWalls
<1>9. w[1] \in Trunk
  BY <1>2, <1>4, <1>7
<1>10. n >= 2
  <2>1. w[n] \notin Trunk
    BY <1>4 DEF LegGoals
  <2> QED BY <1>4, <1>9, <2>1
<1>11. \A j, k \in 1 .. n : w[j] = w[k] => j = k
  BY <1>4, <1>6
<1> QED BY <1>4, <1>8, <1>9, <1>10, <1>11

-----------------------------------------------------------------------------
(* Steps.                                                                  *)

LEMMA CallIs ==
  ASSUME call \in Calls
  PROVE  /\ 0 \in Endpoint /\ Endpoint \subseteq Nat /\ Sinks \subseteq Endpoint /\ 0 \notin Sinks
         /\ \A i \in Endpoint : call.cand[i] \subseteq Free
BY CallsAssumption DEF Endpoint, Sinks, Free

LEMMA NextSinkIs ==
  ASSUME call \in Calls, SinkTurn
  PROVE  NextSink \in Sinks /\ docked[NextSink] = NoCell
<1> DEFINE waiting == {i \in Sinks : docked[i] = NoCell}
<1>1. waiting \subseteq Nat /\ waiting # {}
  BY CallIs DEF SinkTurn
<1>2. Min(waiting) \in waiting
  BY <1>1, MinIs
<1> QED BY <1>2 DEF NextSink

(* Only gauges cables come in are built.                                   *)
LEMMA GaugeType ==
  ASSUME NEW amps
  PROVE  GaugeFor(amps) \in Gauges
<1>1. Max(Gauges) \in Gauges /\ Gauges \subseteq Nat
  BY GaugeAssumption, FiniteMax
<1> DEFINE V == {g \in Gauges : amps <= g} \cup {Max(Gauges)}
<1>2. V \subseteq Gauges /\ V \subseteq Nat /\ V # {}
  BY <1>1
<1>3. Min(V) \in V
  BY <1>2, MinIs
<1> QED BY <1>2, <1>3 DEF GaugeFor

LEMMA InitIInv == Init => IInv
<1> SUFFICES ASSUME Init PROVE IInv
  OBVIOUS
<1>1. call \in Calls /\ docked = [i \in Endpoint |-> NoCell] /\ segs = <<>> /\ gauge = <<>>
      /\ outcome = "routing"
  BY DEF Init
<1>2. Range(gauge) = {} /\ DOMAIN gauge = {}
  BY <1>1 DEF Range
<1>3. TypeOK
  BY <1>1, <1>2 DEF TypeOK
<1>4. Root = NoCell /\ \A i \in Endpoint : docked[i] = NoCell
  BY <1>1, CallIs DEF Root
<1>5. HatchesApart
  BY <1>1, <1>4, CallIs DEF HatchesApart
<1> QED BY <1>1, <1>3, <1>4, <1>5 DEF IInv

(* What is laid stands while nothing but the verdict changes.              *)
LEMMA LaidStands ==
  ASSUME IInv, UNCHANGED <<call, docked, segs>>
  PROVE  /\ call' \in Calls /\ HatchesApart'
         /\ Root' = NoCell => segs' = <<>> /\ \A i \in Endpoint' : docked'[i] = NoCell
         /\ Root' # NoCell => TreeInv'
         /\ Endpoint' = Endpoint /\ Trunk' = Trunk /\ Root' = Root
<1>1. call' = call /\ docked' = docked /\ segs' = segs
  OBVIOUS
<1>2. Endpoint' = Endpoint /\ Root' = Root /\ Sinks' = Sinks /\ Free' = Free /\ Seg' = Seg
  BY <1>1 DEF Endpoint, Root, Sinks, Free, Seg
<1>3. Trunk' = Trunk
  BY <1>1, <1>2 DEF Trunk
<1>4. HatchesApart'
  BY <1>1, <1>2 DEF IInv, HatchesApart
<1>5. TreeInv => TreeInv'
  BY <1>1, <1>2, <1>3 DEF TreeInv
<1> QED BY <1>1, <1>2, <1>3, <1>4, <1>5 DEF IInv

LEMMA FailIInv ==
  ASSUME IInv, NEW why \in {"face_reachability", "no_path", "voltage_tier", "voltage_drop", "amperage"},
         Fail(why)
  PROVE  IInv'
<1>1. UNCHANGED <<call, docked, segs>> /\ gauge' = gauge /\ outcome' = why
  BY DEF Fail
<1>2. TypeOK'
  BY <1>1, LaidStands DEF IInv, TypeOK
<1> QED BY <1>1, <1>2, LaidStands DEF IInv

LEMMA SizeIInv ==
  ASSUME IInv, Size
  PROVE  IInv'
<1> DEFINE sum == Subtree
           amps == [c \in Trunk \ {Root} |-> Amps(Parent[c], c, sum)]
<1>1. CASE \E c \in DOMAIN amps : amps[c] > Max(Gauges)
  BY <1>1, FailIInv DEF Size
<1>2. CASE ~\E c \in DOMAIN amps : amps[c] > Max(Gauges)
  <2>1. /\ gauge' = [c \in DOMAIN amps |-> GaugeFor(amps[c])]
        /\ outcome' = "routed" /\ UNCHANGED <<call, docked, segs>>
    BY <1>2 DEF Size
  <2>2. DOMAIN gauge' = Trunk \ {Root}
    BY <2>1
  <2>3. Range(gauge') \subseteq Gauges
    BY <2>1, GaugeType DEF Range
  <2>4. Trunk \ {Root} \subseteq Cell
    <3>1. ASSUME NEW k \in DOMAIN segs PROVE segs[k][2] \in Cell
      BY DEF IInv, TypeOK
    <3> QED BY <3>1 DEF Trunk, Range
  <2>5. TypeOK'
    BY <2>1, <2>2, <2>3, <2>4, LaidStands DEF IInv, TypeOK
  <2> QED BY <2>1, <2>5, LaidStands DEF IInv
<1> QED BY <1>1, <1>2

LEMMA DockSourceIInv ==
  ASSUME IInv, NEW c \in Cell, DockSource(c)
  PROVE  IInv'
<1>1. /\ Root = NoCell /\ c \in call.cand[0] /\ docked' = [docked EXCEPT ![0] = c]
      /\ call' = call /\ segs' = segs /\ gauge' = gauge /\ outcome' = outcome
  BY DEF DockSource
<1>2. /\ call \in Calls /\ segs = <<>> /\ TypeOK
      /\ docked \in [Endpoint -> Cell \cup {NoCell}] /\ \A i \in Endpoint : docked[i] = NoCell
  BY <1>1 DEF IInv, TypeOK
<1>3. /\ 0 \in Endpoint /\ Sinks \subseteq Endpoint /\ 0 \notin Sinks /\ c \in Free
      /\ Endpoint' = Endpoint /\ Sinks' = Sinks /\ Free' = Free
  BY <1>1, <1>2, CallIs DEF Endpoint, Sinks, Free
<1>4. docked'[0] = c /\ \A i \in Endpoint : i # 0 => docked'[i] = NoCell
  BY <1>1, <1>2, <1>3
<1>5. Root' = c /\ c # NoCell
  BY <1>4, CellFinite DEF Root, NoCell
<1>6. Trunk' = {c} /\ Seg' = {}
  BY <1>1, <1>2, <1>5 DEF Trunk, Range, Seg
<1>7. TypeOK'
  BY <1>1, <1>2, <1>3 DEF TypeOK
<1>8. HatchesApart'
  BY <1>3, <1>4 DEF HatchesApart
<1>9. TreeInv'
  BY <1>1, <1>3, <1>4, <1>6 DEF TreeInv
<1> QED BY <1>1, <1>2, <1>5, <1>7, <1>8, <1>9 DEF IInv

(* The claim keys of one machine's hatches stay apart when its next sink   *)
(* takes a dock whose key none of them holds.                              *)
LEMMA DockApart ==
  ASSUME IInv, SinkTurn, NEW c \in DocksFor(NextSink),
         call' = call, docked' = [docked EXCEPT ![NextSink] = c]
  PROVE  /\ HatchesApart' /\ Root' = Root
         /\ docked'[NextSink] = c /\ \A i \in Endpoint : i # NextSink => docked'[i] = docked[i]
         /\ NextSink \in Sinks /\ c \in call.cand[NextSink] /\ docked' \in [Endpoint -> Cell \cup {NoCell}]
<1> DEFINE n == NextSink
<1>1. call \in Calls /\ docked \in [Endpoint -> Cell \cup {NoCell}] /\ HatchesApart
  BY DEF IInv, TypeOK
<1>2. n \in Sinks /\ docked[n] = NoCell /\ n \in Endpoint /\ n # 0 /\ 0 \in Endpoint
      /\ Sinks \subseteq Endpoint
  BY <1>1, NextSinkIs, CallIs
<1>3. c \in call.cand[n] /\ call.key[n][c] \notin KeysHeld(n) /\ c \in Cell
  BY <1>1, <1>2, CallIs DEF DocksFor, Free
<1> HIDE DEF n
<1>4. docked'[n] = c /\ (\A i \in Endpoint : i # n => docked'[i] = docked[i])
      /\ docked' \in [Endpoint -> Cell \cup {NoCell}]
  BY <1>1, <1>2, <1>3 DEF n
<1>5. ASSUME NEW j \in Sinks, j # n, call.machine[j] = call.machine[n], docked[j] # NoCell
      PROVE  call.key[j][docked[j]] # call.key[n][c]
  BY <1>3, <1>5 DEF KeysHeld
<1>6. ASSUME NEW i \in Sinks, NEW j \in Sinks, i # j, call.machine[i] = call.machine[j],
             docked'[i] # NoCell, docked'[j] # NoCell
      PROVE  call.key[i][docked'[i]] # call.key[j][docked'[j]]
  <2>1. CASE i = n
    BY <1>2, <1>4, <1>5, <1>6, <2>1
  <2>2. CASE j = n
    BY <1>2, <1>4, <1>5, <1>6, <2>2
  <2>3. CASE i # n /\ j # n
    BY <1>1, <1>2, <1>4, <1>6, <2>3 DEF HatchesApart
  <2> QED BY <2>1, <2>2, <2>3
<1>7. HatchesApart'
  <2>1. Sinks' = Sinks
    BY DEF Sinks, Endpoint
  <2> QED BY <1>6, <2>1 DEF HatchesApart
<1>8. Root' = Root
  BY <1>2, <1>4 DEF Root
<1> QED BY <1>2, <1>3, <1>4, <1>7, <1>8 DEF n

LEMMA TapIInv ==
  ASSUME IInv, NEW c \in Cell, Tap(c)
  PROVE  IInv'
<1>1. /\ SinkTurn /\ c \in Taps(NextSink) /\ docked' = [docked EXCEPT ![NextSink] = c]
      /\ call' = call /\ segs' = segs /\ gauge' = gauge /\ outcome' = outcome /\ Root # NoCell
  BY DEF Tap, SinkTurn
<1>2. c \in DocksFor(NextSink) /\ c \in Trunk
  BY <1>1 DEF Taps
<1>3. /\ HatchesApart' /\ Root' = Root
      /\ docked'[NextSink] = c /\ \A i \in Endpoint : i # NextSink => docked'[i] = docked[i]
      /\ c \in call.cand[NextSink] /\ docked' \in [Endpoint -> Cell \cup {NoCell}]
  BY <1>1, <1>2, DockApart
<1>4. Endpoint' = Endpoint /\ Free' = Free /\ Seg' = Seg /\ Trunk' = Trunk
  BY <1>1, <1>3 DEF Endpoint, Free, Seg, Trunk
<1>5. TypeOK'
  BY <1>1, <1>3, <1>4 DEF IInv, TypeOK
<1>6. TreeInv
  BY <1>1 DEF IInv
<1>7. \A i \in Endpoint' : docked'[i] # NoCell => docked'[i] \in Trunk' \cap call'.cand[i]
  BY <1>1, <1>2, <1>3, <1>4, <1>6 DEF TreeInv
<1>8. TreeInv'
  BY <1>1, <1>3, <1>4, <1>6, <1>7 DEF TreeInv
<1> QED BY <1>1, <1>3, <1>5, <1>8 DEF IInv

(* A leg brings its cells into the tree one after another.                 *)
LEMMA ExtendIInv ==
  ASSUME IInv, SinkTurn, NEW w \in Legs(NextSink), Extend(w)
  PROVE  IInv'
<1> DEFINE n == Len(segs)
           m == Len(w)
           s == Segments(w)
           c == w[m]
<1>1. /\ call' = call /\ gauge' = gauge /\ outcome' = outcome
      /\ docked' = [docked EXCEPT ![NextSink] = c] /\ segs' = segs \o s
  BY DEF Extend, Last
<1>2. Root # NoCell /\ TreeInv /\ segs \in Seq(Cell \X Cell) /\ call \in Calls
  BY DEF SinkTurn, IInv, TypeOK
<1>3. /\ w \in Seq(Cell) /\ m \in Nat /\ m >= 2
      /\ w[1] \in Trunk /\ c \in LegGoals(NextSink)
      /\ \A j \in 2 .. m : w[j] \in Free \ Trunk
      /\ \A j \in 1 .. m - 1 : w[j+1] \in Adj(w[j])
      /\ \A j, k \in 1 .. m : w[j] = w[k] => j = k
  BY <1>2, LegIs DEF TreeInv
<1>4. c \in DocksFor(NextSink)
  BY <1>3 DEF LegGoals
<1>5. /\ HatchesApart' /\ Root' = Root
      /\ docked'[NextSink] = c /\ \A i \in Endpoint : i # NextSink => docked'[i] = docked[i]
      /\ c \in call.cand[NextSink] /\ docked' \in [Endpoint -> Cell \cup {NoCell}]
  BY <1>1, <1>4, DockApart
<1>6. Endpoint' = Endpoint /\ Free' = Free
  BY <1>1 DEF Endpoint, Free
<1>7. /\ s \in Seq(Cell \X Cell) /\ Len(s) = m - 1
      /\ \A j \in 1 .. m - 1 : s[j] = <<w[j], w[j+1]>>
  <2>1. s = [j \in 1 .. m - 1 |-> <<w[j], w[j+1]>>]
    BY DEF Segments
  <2>2. \A j \in 1 .. m - 1 : <<w[j], w[j+1]>> \in Cell \X Cell
    BY <1>3
  <2> HIDE DEF s, m
  <2> QED BY <1>3, <2>1, <2>2
<1> HIDE DEF s
<1>8. /\ n \in Nat /\ segs' \in Seq(Cell \X Cell) /\ Len(segs') = n + (m - 1)
      /\ \A k \in 1 .. n : segs'[k] = segs[k]
      /\ \A j \in 1 .. m - 1 : segs'[n+j] = <<w[j], w[j+1]>>
      /\ Seg' = 1 .. n + (m - 1) /\ Seg = 1 .. n
  <2>1. n \in Nat /\ segs' \in Seq(Cell \X Cell) /\ Len(segs') = n + (m - 1)
    <3> DEFINE P == Cell \X Cell
    <3>1. segs \in Seq(P) /\ s \in Seq(P) /\ segs' = segs \o s
      BY <1>1, <1>2, <1>7
    <3> HIDE DEF P
    <3>2. segs' \in Seq(P) /\ Len(segs') = Len(segs) + Len(s) /\ Len(segs) \in Nat
      BY <3>1
    <3> QED BY <1>7, <3>2 DEF P
  <2>2. \A k \in 1 .. n : segs'[k] = segs[k]
    BY <1>1, <1>2, <1>7
  <2>3. \A j \in 1 .. m - 1 : segs'[n+j] = s[j]
    BY <1>1, <1>2, <1>3, <1>7
  <2> QED BY <1>2, <1>3, <1>7, <2>1, <2>2, <2>3 DEF Seg
<1> HIDE DEF n, m, c
<1>9. ASSUME NEW k \in Seg', k \notin 1 .. n
      PROVE  \E j \in 1 .. m - 1 : k = n + j /\ segs'[k] = <<w[j], w[j+1]>>
  <2>1. k - n \in 1 .. m - 1 /\ k = n + (k - n)
    BY <1>3, <1>8, <1>9
  <2> QED BY <1>8, <2>1
<1>10. Trunk = {Root} \cup {segs[k][2] : k \in 1 .. n}
  BY <1>8 DEF Trunk, Range, Seg
<1>11. Trunk' = Trunk \cup {w[j] : j \in 2 .. m}
  <2>1. Trunk' = {Root} \cup {segs'[k][2] : k \in Seg'}
    BY <1>5 DEF Trunk, Range, Seg
  <2>2. \A j \in 2 .. m : w[j] \in Trunk'
    <3> TAKE j \in 2 .. m
    <3>1. j - 1 \in 1 .. m - 1 /\ n + (j - 1) \in Seg' /\ (j - 1) + 1 = j
      BY <1>3, <1>8
    <3>2. segs'[n + (j - 1)][2] = w[j]
      BY <1>8, <3>1
    <3> QED BY <2>1, <3>1, <3>2
  <2>3. \A k \in 1 .. n : k \in Seg' /\ segs'[k][2] = segs[k][2]
    BY <1>3, <1>8
  <2>4. ASSUME NEW k \in Seg' PROVE segs'[k][2] \in Trunk \cup {w[j] : j \in 2 .. m}
    <3>1. CASE k \in 1 .. n
      BY <1>8, <1>10, <3>1
    <3>2. CASE k \notin 1 .. n
      <4>1. PICK j \in 1 .. m - 1 : segs'[k][2] = w[j+1]
        BY <1>9, <3>2
      <4>2. j + 1 \in 2 .. m
        BY <1>3
      <4> QED BY <4>1, <4>2
    <3> QED BY <3>1, <3>2
  <2>5. \A k \in 1 .. n : segs[k][2] \in Trunk'
    BY <2>1, <2>3
  <2> QED BY <1>10, <2>1, <2>2, <2>4, <2>5
<1>12. Trunk' \subseteq Free'
  BY <1>2, <1>3, <1>6, <1>11 DEF TreeInv
<1>13. ASSUME NEW k \in Seg'
       PROVE  /\ segs'[k][2] \in Adj(segs'[k][1])
              /\ segs'[k][1] \in {Root} \cup {segs'[j][2] : j \in 1 .. k - 1}
              /\ segs'[k][2] # Root
  <2>1. CASE k \in 1 .. n
    <3>1. \A j \in 1 .. k - 1 : j \in 1 .. n /\ segs'[j] = segs[j]
      BY <1>8, <2>1
    <3>2. /\ segs[k][2] \in Adj(segs[k][1]) /\ segs[k][2] # Root
          /\ segs[k][1] \in {Root} \cup {segs[j][2] : j \in 1 .. k - 1}
      BY <1>2, <1>8, <2>1 DEF TreeInv
    <3>3. {segs'[j][2] : j \in 1 .. k - 1} = {segs[j][2] : j \in 1 .. k - 1}
      BY <3>1
    <3> QED BY <1>8, <2>1, <3>2, <3>3
  <2>2. CASE k \notin 1 .. n
    <3>1. PICK j \in 1 .. m - 1 : k = n + j /\ segs'[k] = <<w[j], w[j+1]>>
      BY <1>9, <2>2
    <3>2. w[j+1] \in Adj(w[j]) /\ w[j+1] \notin Trunk
      <4>1. j + 1 \in 2 .. m
        BY <1>3
      <4> QED BY <1>3, <4>1
    <3>3. w[j+1] # Root
      BY <1>10, <3>2
    <3>4. w[j] \in {Root} \cup {segs'[i][2] : i \in 1 .. k - 1}
      <4>1. CASE j = 1
        <5>1. w[1] = Root \/ \E i \in 1 .. n : w[1] = segs[i][2]
          BY <1>3, <1>10
        <5>2. \A i \in 1 .. n : i \in 1 .. k - 1 /\ segs'[i] = segs[i]
          BY <1>8, <3>1
        <5> QED BY <4>1, <5>1, <5>2
      <4>2. CASE j # 1
        <5>1. j - 1 \in 1 .. m - 1 /\ n + (j - 1) \in 1 .. k - 1 /\ (j - 1) + 1 = j
          BY <1>3, <1>8, <3>1, <4>2
        <5>2. segs'[n + (j - 1)][2] = w[j]
          BY <1>8, <5>1
        <5> QED BY <5>1, <5>2
      <4> QED BY <4>1, <4>2
    <3> QED BY <3>1, <3>2, <3>3, <3>4
  <2> QED BY <2>1, <2>2
<1>14. ASSUME NEW j \in Seg', NEW k \in Seg', segs'[j][2] = segs'[k][2]
       PROVE  j = k
  <2>1. \A i \in 1 .. n : segs'[i][2] \in Trunk
    BY <1>8, <1>10
  <2>2. ASSUME NEW i \in Seg', i \notin 1 .. n
        PROVE  \E a \in 1 .. m - 1 : i = n + a /\ segs'[i][2] = w[a+1] /\ w[a+1] \notin Trunk
    <3>1. PICK a \in 1 .. m - 1 : i = n + a /\ segs'[i] = <<w[a], w[a+1]>>
      BY <1>9, <2>2
    <3>2. a + 1 \in 2 .. m
      BY <1>3
    <3> QED BY <1>3, <3>1, <3>2
  <2>3. CASE j \in 1 .. n /\ k \in 1 .. n
    <3>1. segs[j][2] = segs[k][2]
      BY <1>8, <1>14, <2>3
    <3> QED BY <1>2, <1>8, <2>3, <3>1 DEF TreeInv
  <2>4. CASE j \notin 1 .. n /\ k \notin 1 .. n
    <3>1. PICK a \in 1 .. m - 1 : j = n + a /\ segs'[j][2] = w[a+1]
      BY <2>2, <2>4
    <3>2. PICK b \in 1 .. m - 1 : k = n + b /\ segs'[k][2] = w[b+1]
      BY <2>2, <2>4
    <3>3. a + 1 \in 1 .. m /\ b + 1 \in 1 .. m /\ w[a+1] = w[b+1]
      BY <1>3, <1>14, <3>1, <3>2
    <3>4. a + 1 = b + 1
      BY <1>3, <3>3
    <3> QED BY <1>3, <3>1, <3>2, <3>4
  <2> QED BY <1>14, <2>1, <2>2, <2>3, <2>4
<1>15. c \in Trunk'
  BY <1>3, <1>11 DEF c
<1>16. \A i \in Endpoint' : docked'[i] # NoCell => docked'[i] \in Trunk' \cap call'.cand[i]
  BY <1>1, <1>2, <1>5, <1>6, <1>11, <1>15 DEF TreeInv
<1>17. TreeInv'
  BY <1>5, <1>12, <1>13, <1>14, <1>16 DEF TreeInv
<1>18. TypeOK'
  BY <1>1, <1>5, <1>6, <1>8 DEF IInv, TypeOK
<1> QED BY <1>1, <1>2, <1>5, <1>17, <1>18 DEF IInv

LEMMA NextIInv == IInv /\ [Next]_vars => IInv'
<1> SUFFICES ASSUME IInv, [Next]_vars PROVE IInv'
  OBVIOUS
<1>1. CASE NoCandidates
  BY <1>1, FailIInv DEF NoCandidates
<1>2. CASE \E c \in Cell : DockSource(c) \/ Tap(c)
  BY <1>2, DockSourceIInv, TapIInv
<1>3. CASE ExtendTo
  BY <1>3, ExtendIInv DEF ExtendTo
<1>4. CASE NoDock
  BY <1>4, FailIInv DEF NoDock
<1>5. CASE NoLeg
  BY <1>5, FailIInv DEF NoLeg
<1>6. CASE Reject
  BY <1>6, FailIInv DEF Reject
<1>7. CASE Size
  BY <1>7, SizeIInv
<1>8. CASE UNCHANGED vars
  <2>1. UNCHANGED <<call, docked, segs>> /\ gauge' = gauge /\ outcome' = outcome
    BY <1>8 DEF vars
  <2>2. TypeOK'
    BY <2>1, LaidStands DEF IInv, TypeOK
  <2> QED BY <2>1, <2>2, LaidStands DEF IInv
<1> QED BY <1>1, <1>2, <1>3, <1>4, <1>5, <1>6, <1>7, <1>8 DEF Next

(* Whatever is laid, at every step, is the beginning of such a tree.       *)
THEOREM TrunkInductive == Spec => []IInv
BY InitIInv, NextIInv, PTL DEF Spec

(* As many cells as the source's and one for each segment.                 *)
LEMMA TrunkSize ==
  ASSUME TreeInv, segs \in Seq(Cell \X Cell)
  PROVE  Cardinality(Trunk) = Len(segs) + 1
<1> DEFINE n == Len(segs)
           f == [k \in 1 .. n + 1 |-> IF k <= n THEN segs[k][2] ELSE Root]
<1>1. n \in Nat /\ Seg = 1 .. n
  BY DEF Seg
<1>2. Trunk = {Root} \cup {segs[k][2] : k \in 1 .. n}
  BY <1>1 DEF Trunk, Range, Seg
<1>3. f[n+1] = Root /\ \A k \in 1 .. n : f[k] = segs[k][2]
  BY <1>1
<1>4. f \in [1 .. n + 1 -> Trunk]
  BY <1>1, <1>2
<1>5. ASSUME NEW t \in Trunk PROVE \E k \in 1 .. n + 1 : f[k] = t
  <2>1. CASE t = Root
    BY <1>1, <1>3, <2>1
  <2>2. ASSUME NEW k \in 1 .. n, t = segs[k][2] PROVE \E j \in 1 .. n + 1 : f[j] = t
    BY <1>1, <1>3, <2>2
  <2> QED BY <1>2, <2>1, <2>2
<1>6. ASSUME NEW j \in 1 .. n + 1, NEW k \in 1 .. n + 1, f[j] = f[k] PROVE j = k
  <2>1. \A i \in 1 .. n : segs[i][2] # Root
    BY <1>1 DEF TreeInv
  <2>2. CASE j \in 1 .. n /\ k \in 1 .. n
    BY <1>1, <1>3, <1>6, <2>2 DEF TreeInv
  <2>3. \A i \in 1 .. n + 1 : i \in 1 .. n \/ i = n + 1
    BY <1>1
  <2> HIDE DEF f, n
  <2> QED BY <1>3, <1>6, <2>1, <2>2, <2>3
<1>7. DOMAIN f = 1 .. n + 1 /\ n + 1 \in Nat
  BY <1>1
<1> HIDE DEF f
<1>8. f \in Bijection(1 .. n + 1, Trunk)
  BY <1>4, <1>5, <1>6, <1>7 DEF Bijection, Injection, Surjection, IsInjective
<1>9. ExistsBijection(1 .. n + 1, Trunk)
  BY <1>8 DEF ExistsBijection
<1> HIDE DEF n
<1>10. Cardinality(Trunk) = n + 1
  BY <1>7, <1>9, FS_CountingElements
<1> QED BY <1>10 DEF n

(* The cable is a tree rooted at the source, on free cells, its endpoints  *)
(* on docks of their own, and a machine's hatches are distinct blocks.     *)
THEOREM AlwaysATree == Spec => []TrunkIsTree
<1>1. ASSUME IInv PROVE TrunkIsTree
  <2>1. TypeOK /\ HatchesApart /\ (Root # NoCell => TreeInv)
    BY <1>1 DEF IInv
  <2>2. segs \in Seq(Cell \X Cell)
    BY <2>1 DEF TypeOK
  <2>3. TreeInv => Cardinality(Trunk) = Len(segs) + 1
    BY <2>2, TrunkSize
  <2> QED BY <2>1, <2>3 DEF TrunkIsTree, TreeInv, Seg
<1>2. IInv => TrunkIsTree
  BY <1>1
<1>3. Spec => []IInv
  BY TrunkInductive
<1> QED BY <1>2, <1>3, PTL

-----------------------------------------------------------------------------
(* The way back to the source.                                             *)

(* The segment a block is entered by, none for the source's.               *)
Entry(c) == IF c = Root THEN 0 ELSE CHOOSE k \in Seg : segs[k][2] = c

(* A laid trunk: what of the invariant the ways and the loads rest on.     *)
LaidTree == Root # NoCell /\ TreeInv /\ segs \in Seq(Cell \X Cell)

(* A block is entered from one that was entered earlier.                   *)
LEMMA EntryIs ==
  ASSUME LaidTree
  PROVE  /\ Root \in Trunk /\ Entry(Root) = 0 /\ Seg = 1 .. Len(segs) /\ Len(segs) \in Nat
         /\ \A c \in Trunk : Entry(c) \in 0 .. Len(segs)
         /\ \A k \in Seg : /\ segs[k][2] \in Trunk \ {Root} /\ Entry(segs[k][2]) = k
                           /\ Parent[segs[k][2]] = segs[k][1]
         /\ \A c \in Trunk \ {Root} :
              /\ Entry(c) \in Seg /\ segs[Entry(c)] = <<Parent[c], c>>
              /\ Parent[c] \in Trunk /\ Entry(Parent[c]) < Entry(c)
<1>1. Seg = 1 .. Len(segs) /\ Len(segs) \in Nat /\ \A k \in Seg : segs[k] \in Cell \X Cell
  BY DEF LaidTree, Seg
<1>2. Root \in Trunk /\ Entry(Root) = 0
  BY DEF Trunk, Entry
<1>3. ASSUME NEW k \in Seg
      PROVE  /\ segs[k][2] \in Trunk \ {Root} /\ Entry(segs[k][2]) = k
             /\ Parent[segs[k][2]] = segs[k][1]
  <2> DEFINE c == segs[k][2]
  <2>1. c \in Trunk \ {Root}
    BY DEF LaidTree, TreeInv, Trunk, Range, Seg
  <2>2. \A j \in Seg : segs[j][2] = c => j = k
    BY DEF LaidTree, TreeInv
  <2>3. Entry(c) = k
    BY <2>1, <2>2 DEF Entry
  <2>4. \E s \in Range(segs) : s[2] = c
    BY DEF Range, Seg
  <2>5. \A s \in Range(segs) : s[2] = c => s = segs[k]
    BY <2>2 DEF Range, Seg
  <2>6. (CHOOSE s \in Range(segs) : s[2] = c) = segs[k]
    <3> HIDE DEF c
    <3> QED BY <2>4, <2>5
  <2>7. Parent[c] = segs[k][1]
    <3> HIDE DEF c
    <3> QED BY <2>1, <2>6 DEF Parent
  <2> QED BY <2>1, <2>3, <2>7
<1>4. ASSUME NEW c \in Trunk \ {Root} PROVE \E k \in Seg : segs[k][2] = c
  BY <1>4 DEF Trunk, Range, Seg
<1>5. \A c \in Trunk : Entry(c) \in 0 .. Len(segs)
  BY <1>1, <1>2, <1>3, <1>4
<1>6. ASSUME NEW c \in Trunk \ {Root}
      PROVE  /\ Entry(c) \in Seg /\ segs[Entry(c)] = <<Parent[c], c>>
             /\ Parent[c] \in Trunk /\ Entry(Parent[c]) < Entry(c)
  <2>1. PICK k \in Seg : segs[k][2] = c
    BY <1>4
  <2>2. Entry(c) = k /\ Parent[c] = segs[k][1]
    BY <1>3, <2>1
  <2>3. segs[k] = <<segs[k][1], segs[k][2]>>
    BY <1>1
  <2>4. segs[k][1] \in {Root} \cup {segs[j][2] : j \in 1 .. k - 1}
    BY DEF LaidTree, TreeInv
  <2>5. CASE segs[k][1] = Root
    BY <1>1, <1>2, <2>1, <2>2, <2>3, <2>5
  <2>6. ASSUME NEW j \in 1 .. k - 1, segs[k][1] = segs[j][2]
        PROVE  Parent[c] \in Trunk /\ Entry(Parent[c]) < k
    <3>1. j \in Seg /\ j < k
      BY <1>1
    <3>2. segs[j][2] \in Trunk /\ Entry(segs[j][2]) = j
      BY <1>3, <3>1
    <3> QED BY <2>2, <2>6, <3>1, <3>2
  <2> QED BY <2>1, <2>2, <2>3, <2>4, <2>5, <2>6
<1> QED BY <1>1, <1>2, <1>3, <1>5, <1>6

(* One more round of walking back.                                         *)
Behind(way) == way \cup {Parent[b] : b \in way \ {Root}}

(* With a block, such a set has the block it was entered from.             *)
WalkedBack(S) == \A b \in S \ {Root} : Parent[b] \in S

(* The way to a block is the least such set that holds it: as many rounds  *)
(* as there are cells are enough.                                          *)
LEMMA WayIs ==
  ASSUME LaidTree, NEW d \in Trunk
  PROVE  /\ d \in WayTo(d) /\ WayTo(d) \subseteq Trunk /\ WalkedBack(WayTo(d))
         /\ \A S : d \in S /\ WalkedBack(S) => WayTo(d) \subseteq S
<1> DEFINE N == Cardinality(Cell)
           T == SUBSET Trunk
           F == [way \in T |-> Behind(way)]
           Body(f) == [k \in 0 .. N |->
                         IF k = 0 THEN {d} ELSE f[k-1] \cup {Parent[b] : b \in f[k-1] \ {Root}}]
           back == CHOOSE f : f = Body(f)
<1>1. N \in Nat
  BY CellFinite
<1>2. WayTo(d) = back[N]
  BY DEF WayTo
<1>3. {d} \in T
  OBVIOUS
<1>4. F \in [T -> T] /\ \A way \in T : F[way] = Behind(way)
  <2>1. ASSUME NEW way \in T PROVE Behind(way) \in T
    BY EntryIs DEF Behind
  <2> QED BY <2>1
<1>5. \A f : Body(f) = [k \in 0 .. N |-> IF k = 0 THEN {d} ELSE Behind(f[k-1])]
  BY DEF Behind
<1> HIDE DEF N, F, T, Body
<1>6. PICK g : Repeats(g, T, {d}, F, N)
  BY <1>1, <1>3, <1>4, Rounds
<1>7. g = Body(g)
  <2>1. \A k \in 1 .. N : k - 1 \in 0 .. N
    BY <1>1
  <2>2. g = [k \in 0 .. N |-> IF k = 0 THEN {d} ELSE Behind(g[k-1])]
    <3>1. ASSUME NEW k \in 0 .. N PROVE g[k] = IF k = 0 THEN {d} ELSE Behind(g[k-1])
      <4>1. CASE k = 0
        BY <1>6, <4>1 DEF Repeats
      <4>2. CASE k # 0
        <5>1. k \in 1 .. N
          BY <1>1, <4>2
        <5> QED BY <1>4, <1>6, <2>1, <4>2, <5>1 DEF Repeats
      <4> QED BY <4>1, <4>2
    <3>2. g = [k \in 0 .. N |-> g[k]]
      BY <1>6 DEF Repeats
    <3> QED BY <3>1, <3>2
  <2> QED BY <1>5, <2>2
<1>8. back = Body(back)
  BY <1>7
<1> HIDE DEF back
<1>9. Repeats(back, T, {d}, F, N)
  <2>1. back = [k \in 0 .. N |-> IF k = 0 THEN {d} ELSE Behind(back[k-1])]
    BY <1>5, <1>8
  <2>2. /\ back = [k \in 0 .. N |-> back[k]] /\ back[0] = {d}
        /\ \A k \in 1 .. N : back[k] = Behind(back[k-1])
    <3>1. 0 \in 0 .. N /\ \A k \in 1 .. N : k \in 0 .. N /\ k # 0
      BY <1>1
    <3>2. \A k \in 0 .. N : back[k] = IF k = 0 THEN {d} ELSE Behind(back[k-1])
      BY <2>1
    <3>3. back = [k \in 0 .. N |-> back[k]]
      BY <2>1
    <3> QED BY <3>1, <3>2, <3>3
  <2> QED BY <1>1, <1>3, <1>4, <2>2, Unrolls
<1>10. /\ back[0] = {d} /\ \A k \in 0 .. N : back[k] \subseteq Trunk
       /\ \A k \in 0 .. N - 1 : back[k+1] = Behind(back[k])
  <2>1. \A k \in 0 .. N : back[k] \in T
    BY <1>9 DEF Repeats
  <2>2. \A k \in 0 .. N - 1 : k + 1 \in 1 .. N /\ (k + 1) - 1 = k /\ k \in 0 .. N
    BY <1>1
  <2>3. \A k \in 1 .. N : back[k] = F[back[k-1]]
    BY <1>9 DEF Repeats
  <2>4. back[0] = {d}
    BY <1>9 DEF Repeats
  <2> QED BY <1>4, <2>1, <2>2, <2>3, <2>4 DEF T
(* What a round leaves open was entered that much earlier.                 *)
<1> DEFINE Open(k) == \A b \in back[k] \ {Root} : Parent[b] \in back[k] \/ Entry(b) + k <= Entry(d)
           R == {k \in 0 .. N : d \in back[k] /\ Open(k)}
<1>11. 0 \in R
  <2>1. Entry(d) \in Nat
    BY EntryIs
  <2> QED BY <1>1, <1>10, <2>1
<1>12. \A k \in 0 .. N - 1 : k \in R => k + 1 \in R
  <2> SUFFICES ASSUME NEW k \in 0 .. N - 1, d \in back[k], Open(k)
               PROVE  d \in back[k+1] /\ Open(k + 1)
    BY <1>1
  <2>1. back[k+1] = Behind(back[k]) /\ k \in 0 .. N /\ k \in Nat
    BY <1>1, <1>10
  <2>2. d \in back[k+1]
    BY <2>1 DEF Behind
  <2>3. ASSUME NEW b \in back[k+1] \ {Root}, Parent[b] \notin back[k+1]
        PROVE  Entry(b) + (k + 1) <= Entry(d)
    <3>1. b \notin back[k]
      BY <2>1, <2>3 DEF Behind
    <3>2. PICK a \in back[k] \ {Root} : b = Parent[a]
      BY <2>1, <3>1 DEF Behind
    <3>3. Entry(a) + k <= Entry(d)
      BY <3>1, <3>2
    <3>4. a \in Trunk \ {Root}
      BY <1>10, <2>1
    <3>5. Entry(b) < Entry(a)
      BY <3>2, <3>4, EntryIs
    <3>6. Entry(a) \in Nat /\ Entry(b) \in Nat /\ Entry(d) \in Nat
      BY <1>10, <2>1, <3>2, <3>4, EntryIs
    <3> QED BY <2>1, <3>3, <3>5, <3>6
  <2> QED BY <2>2, <2>3
<1> HIDE DEF R
<1>13. N \in R
  <2>1. \A k \in 0 .. N : k \in R
    BY <1>1, <1>11, <1>12, UpTo
  <2> QED BY <1>1, <2>1
<1>14. Entry(d) <= N
  <2>1. Cardinality(Trunk) = Len(segs) + 1
    BY TrunkSize DEF LaidTree
  <2>2. Trunk \subseteq Cell
    BY DEF LaidTree, TreeInv, Free
  <2>3. Cardinality(Trunk) <= N
    BY <2>2, CellFinite, FS_Subset DEF N
  <2>4. Entry(d) \in 0 .. Len(segs) /\ Len(segs) \in Nat
    BY EntryIs
  <2> QED BY <1>1, <2>1, <2>3, <2>4
<1>15. WalkedBack(back[N])
  <2> SUFFICES ASSUME NEW b \in back[N] \ {Root} PROVE Parent[b] \in back[N]
    BY DEF WalkedBack
  <2>1. b \in Trunk \ {Root}
    BY <1>1, <1>10
  <2>2. Entry(b) \in Nat /\ Entry(b) >= 1
    BY <2>1, EntryIs
  <2>3. Entry(d) \in Nat
    BY EntryIs
  <2>4. ~(Entry(b) + N <= Entry(d))
    BY <1>1, <1>14, <2>2, <2>3
  <2> QED BY <1>13, <2>4 DEF R
<1>16. ASSUME NEW S, d \in S, WalkedBack(S) PROVE back[N] \subseteq S
  <2> DEFINE Q == {k \in 0 .. N : back[k] \subseteq S}
  <2>1. 0 \in Q
    BY <1>1, <1>10, <1>16
  <2>2. \A k \in 0 .. N - 1 : k \in Q => k + 1 \in Q
    <3> SUFFICES ASSUME NEW k \in 0 .. N - 1, back[k] \subseteq S PROVE back[k+1] \subseteq S
      BY <1>1
    <3> QED BY <1>10, <1>16 DEF Behind, WalkedBack
  <2> HIDE DEF Q
  <2>3. \A k \in 0 .. N : k \in Q
    BY <1>1, <2>1, <2>2, UpTo
  <2> QED BY <1>1, <2>3 DEF Q
<1>17. d \in back[N] /\ back[N] \subseteq Trunk
  BY <1>1, <1>10, <1>13 DEF R
<1> QED BY <1>2, <1>15, <1>16, <1>17

(* A block is on the way to d when it is d, or feeds one on that way.      *)
LEMMA WayFeeds ==
  ASSUME LaidTree, NEW d \in Trunk, NEW c \in Trunk
  PROVE  /\ c \in WayTo(d) <=> c = d \/ \E j \in Seg : segs[j][1] = c /\ segs[j][2] \in WayTo(d)
         /\ c \in WayTo(d) => WayTo(c) \subseteq WayTo(d) /\ Entry(c) <= Entry(d)
         /\ c # Root => WayTo(c) \subseteq {c} \cup WayTo(Parent[c])
<1> DEFINE W == WayTo(d)
<1>1. d \in W /\ W \subseteq Trunk /\ WalkedBack(W) /\ \A S : d \in S /\ WalkedBack(S) => W \subseteq S
  BY WayIs
<1> HIDE DEF W
<1>2. ASSUME NEW j \in Seg, segs[j][1] = c, segs[j][2] \in W PROVE c \in W
  <2>1. segs[j][2] # Root /\ Parent[segs[j][2]] = c
    BY <1>2, EntryIs
  <2> QED BY <1>1, <1>2, <2>1 DEF WalkedBack
<1>3. ASSUME c \in W, c # d PROVE \E j \in Seg : segs[j][1] = c /\ segs[j][2] \in W
  <2> DEFINE S == {d} \cup {b \in W : \E j \in Seg : segs[j][1] = b /\ segs[j][2] \in W}
  <2>1. WalkedBack(S)
    <3> SUFFICES ASSUME NEW b \in S \ {Root} PROVE Parent[b] \in S
      BY DEF WalkedBack
    <3>1. b \in W \ {Root} /\ b \in Trunk
      BY <1>1
    <3>2. Parent[b] \in W
      BY <1>1, <3>1 DEF WalkedBack
    <3>3. Entry(b) \in Seg /\ segs[Entry(b)] = <<Parent[b], b>>
      BY <3>1, EntryIs
    <3>4. segs[Entry(b)][1] = Parent[b] /\ segs[Entry(b)][2] = b
      BY <3>3
    <3> QED BY <3>1, <3>2, <3>3, <3>4
  <2>2. W \subseteq S
    BY <1>1, <2>1
  <2> QED BY <1>3, <2>2
<1>4. ASSUME c \in W PROVE WayTo(c) \subseteq W /\ Entry(c) <= Entry(d)
  <2>1. WayTo(c) \subseteq W
    BY <1>1, <1>4, WayIs
  <2> DEFINE S == {b \in Trunk : Entry(b) <= Entry(d)}
  <2>2. d \in S
    <3>1. Entry(d) \in Nat
      BY EntryIs
    <3> QED BY <3>1
  <2>3. WalkedBack(S)
    <3> SUFFICES ASSUME NEW b \in Trunk \ {Root}, Entry(b) <= Entry(d) PROVE Parent[b] \in S
      BY DEF WalkedBack
    <3>1. Parent[b] \in Trunk /\ Entry(Parent[b]) < Entry(b)
      BY EntryIs
    <3>2. Entry(b) \in Nat /\ Entry(d) \in Nat /\ Entry(Parent[b]) \in Nat
      BY <3>1, EntryIs
    <3> QED BY <3>1, <3>2
  <2>4. W \subseteq S
    BY <1>1, <2>2, <2>3
  <2> QED BY <1>4, <2>1, <2>4
<1>5. ASSUME c # Root PROVE WayTo(c) \subseteq {c} \cup WayTo(Parent[c])
  <2> DEFINE p == Parent[c]  S == {c} \cup WayTo(p)
  <2>1. p \in Trunk
    BY <1>5, EntryIs
  <2> HIDE DEF p
  <2>2. p \in WayTo(p) /\ WalkedBack(WayTo(p))
    BY <2>1, WayIs
  <2>3. WalkedBack(S)
    BY <2>2 DEF WalkedBack, p
  <2>4. WayTo(c) \subseteq S
    BY <2>3, WayIs
  <2> QED BY <2>4 DEF p
<1> QED BY <1>1, <1>2, <1>3, <1>4, <1>5 DEF W

(* Two blocks entered from one are not on the way to the same block, nor   *)
(* on the way to the one they are entered from.                            *)
LEMMA WaysPart ==
  ASSUME LaidTree, NEW d \in Trunk, NEW j \in Seg, segs[j][2] \in WayTo(d)
  PROVE  /\ d # segs[j][1]
         /\ \A k \in Seg : segs[k][1] = segs[j][1] /\ segs[k][2] \in WayTo(d) => k = j
<1> DEFINE Chained(b) == \A e \in WayTo(d) : e \in WayTo(b) \/ b \in WayTo(e)
           S == {b \in WayTo(d) : Chained(b)}
<1>1. /\ d \in WayTo(d) /\ WayTo(d) \subseteq Trunk /\ WalkedBack(WayTo(d))
      /\ \A Q : d \in Q /\ WalkedBack(Q) => WayTo(d) \subseteq Q
  BY WayIs
<1>2. \A b \in Trunk : b \in WayTo(b) /\ WalkedBack(WayTo(b))
  BY WayIs
<1>3. d \in S
  BY <1>1
<1>4. WalkedBack(S)
  <2> SUFFICES ASSUME NEW b \in WayTo(d) \ {Root}, Chained(b) PROVE Parent[b] \in S
    BY DEF WalkedBack
  <2> DEFINE q == Parent[b]
  <2>1. b \in Trunk /\ q \in Trunk /\ q \in WayTo(d)
    BY <1>1, EntryIs DEF WalkedBack
  <2>2. ASSUME NEW e \in WayTo(d) PROVE e \in WayTo(q) \/ q \in WayTo(e)
    <3>1. CASE b \in WayTo(e)
      BY <1>1, <1>2, <2>2, <3>1 DEF WalkedBack
    <3>2. CASE e \in WayTo(b)
      <4>1. WayTo(b) \subseteq {b} \cup WayTo(q)
        BY <2>1, WayFeeds
      <4>2. CASE e = b
        BY <1>2, <2>1, <4>2 DEF WalkedBack
      <4> QED BY <3>2, <4>1, <4>2
    <3> QED BY <2>2, <3>1, <3>2
  <2> QED BY <2>1, <2>2
<1>5. \A b \in WayTo(d) : Chained(b)
  BY <1>1, <1>3, <1>4
<1> HIDE DEF Chained, S
<1>6. \A k \in Seg : /\ segs[k][2] \in Trunk \ {Root} /\ Entry(segs[k][2]) = k
                     /\ Parent[segs[k][2]] = segs[k][1] /\ segs[k][1] \in Trunk
                     /\ Entry(segs[k][1]) \in Nat /\ Entry(segs[k][1]) < k /\ k \in Nat
  <2> TAKE k \in Seg
  <2>1. segs[k][2] \in Trunk \ {Root} /\ Entry(segs[k][2]) = k /\ Parent[segs[k][2]] = segs[k][1]
    BY EntryIs
  <2>2. Parent[segs[k][2]] \in Trunk /\ Entry(Parent[segs[k][2]]) < Entry(segs[k][2])
    BY <2>1, EntryIs
  <2>3. Entry(segs[k][1]) \in Nat /\ k \in Nat
    BY <2>1, <2>2, EntryIs
  <2> QED BY <2>1, <2>2, <2>3
(* A block on the way to another comes with the one that other is from.    *)
<1>7. ASSUME NEW k \in Seg, NEW i \in Seg, segs[k][1] = segs[i][1], segs[k][2] \in WayTo(segs[i][2])
      PROVE  k = i
  <2>1. CASE segs[k][2] = segs[i][2]
    BY <1>6, <2>1
  <2>2. CASE segs[k][2] # segs[i][2]
    <3>1. segs[k][2] \in WayTo(segs[i][1])
      BY <1>6, <1>7, <2>2, WayFeeds
    <3>2. Entry(segs[k][2]) <= Entry(segs[i][1])
      BY <1>6, <3>1, WayFeeds
    <3>3. k <= Entry(segs[k][1])
      BY <1>6, <1>7, <3>2
    <3> QED BY <1>6, <3>3
  <2> QED BY <2>1, <2>2
<1>8. d # segs[j][1]
  <2> SUFFICES ASSUME d = segs[j][1] PROVE FALSE
    OBVIOUS
  <2>1. Entry(segs[j][2]) <= Entry(d)
    BY <1>6, WayFeeds
  <2> QED BY <1>6, <2>1
<1>9. ASSUME NEW k \in Seg, segs[k][1] = segs[j][1], segs[k][2] \in WayTo(d)
      PROVE  k = j
  <2>1. segs[k][2] \in WayTo(segs[j][2]) \/ segs[j][2] \in WayTo(segs[k][2])
    BY <1>5, <1>9 DEF Chained
  <2> QED BY <1>7, <1>9, <2>1
<1> QED BY <1>8, <1>9

-----------------------------------------------------------------------------
(* Depths.                                                                 *)

(* Every block of a laid trunk has a distance from the source.             *)
LEMMA DepthIs ==
  ASSUME LaidTree
  PROVE  \A c \in Trunk : Depth[c] \in Nat
<1> DEFINE n == Len(segs)
           base == [c \in {Root} |-> 0]
           Deeper(near, k) == [c \in DOMAIN near \cup {segs[k][2]} |->
                                 IF c \in DOMAIN near THEN near[c] ELSE near[segs[k][1]] + 1]
           Body(f) == [k \in 0 .. n |-> IF k = 0 THEN base ELSE Deeper(f[k-1], k)]
           Deep(g, m) == g = [k \in 0 .. m |-> IF k = 0 THEN base ELSE Deeper(g[k-1], k)]
           deep == CHOOSE f : f = Body(f)
           R == {m \in 0 .. n : \E g : Deep(g, m)}
           Until(k) == {Root} \cup {segs[j][2] : j \in 1 .. k}
           Q == {k \in 0 .. n : deep[k] \in [Until(k) -> Nat]}
<1>1. n \in Nat /\ Seg = 1 .. n
  BY EntryIs
<1>2. Depth = deep[n]
  BY DEF Depth
<1>3. 0 \in R
  <2> DEFINE g == [k \in 0 .. 0 |-> base]
  <2> HIDE DEF base, Deeper
  <2>1. Deep(g, 0)
    OBVIOUS
  <2> HIDE DEF Deep
  <2> QED BY <1>1, <2>1
<1>4. \A m \in 0 .. n - 1 : m \in R => m + 1 \in R
  <2> SUFFICES ASSUME NEW m \in 0 .. n - 1, NEW g, Deep(g, m) PROVE \E h : Deep(h, m + 1)
    <3> HIDE DEF Deep
    <3> QED BY <1>1
  <2> HIDE DEF base, Deeper
  <2> DEFINE h == [k \in 0 .. m + 1 |-> IF k <= m THEN g[k] ELSE Deeper(g[m], m + 1)]
  <2>1. m \in Nat
    BY <1>1
  <2>2. ASSUME NEW k \in 0 .. m + 1
        PROVE  h[k] = IF k = 0 THEN base ELSE Deeper(h[k-1], k)
    <3>1. CASE k = 0
      BY <2>1, <3>1
    <3>2. CASE k # 0 /\ k <= m
      <4>1. k - 1 \in 0 .. m /\ k \in 0 .. m /\ k - 1 \in 0 .. m + 1 /\ k - 1 <= m
        BY <2>1, <3>2
      <4>2. h[k] = g[k] /\ h[k-1] = g[k-1]
        BY <3>2, <4>1
      <4>3. g[k] = Deeper(g[k-1], k)
        BY <3>2, <4>1
      <4> QED BY <3>2, <4>2, <4>3
    <3>3. CASE k = m + 1
      <4>1. k - 1 = m /\ m \in 0 .. m + 1 /\ ~(k <= m) /\ k # 0
        BY <2>1, <3>3
      <4>2. h[k] = Deeper(g[m], k) /\ h[k-1] = g[m]
        BY <3>3, <4>1
      <4> QED BY <4>1, <4>2
    <3> QED BY <2>1, <3>1, <3>2, <3>3
  <2>3. h = [k \in 0 .. m + 1 |-> h[k]]
    OBVIOUS
  <2> HIDE DEF h
  <2>4. Deep(h, m + 1)
    BY <2>2, <2>3
  <2> HIDE DEF Deep
  <2> QED BY <2>4
<1> HIDE DEF R
<1>5. PICK g : Deep(g, n)
  <2>1. \A m \in 0 .. n : m \in R
    BY <1>1, <1>3, <1>4, UpTo
  <2>2. n \in R
    BY <1>1, <2>1
  <2> HIDE DEF Deep
  <2> QED BY <2>2 DEF R
<1>6. deep = Body(deep)
  BY <1>5
<1> HIDE DEF deep, Q
<1>7. deep[0] = base /\ \A k \in 1 .. n : deep[k] = Deeper(deep[k-1], k)
  <2> HIDE DEF base, Deeper
  <2>1. \A k \in 0 .. n : deep[k] = IF k = 0 THEN base ELSE Deeper(deep[k-1], k)
    BY <1>6
  <2> QED BY <1>1, <2>1
<1>8. 0 \in Q
  <2>1. Until(0) = {Root} /\ 0 \in 0 .. n
    BY <1>1
  <2>2. base \in [{Root} -> Nat]
    OBVIOUS
  <2> HIDE DEF base, Until
  <2>3. deep[0] \in [Until(0) -> Nat]
    BY <1>7, <2>1, <2>2
  <2> QED BY <2>1, <2>3 DEF Q
<1>9. \A k \in 0 .. n - 1 : k \in Q => k + 1 \in Q
  <2> SUFFICES ASSUME NEW k \in 0 .. n - 1, deep[k] \in [Until(k) -> Nat]
               PROVE  deep[k+1] \in [Until(k + 1) -> Nat]
    <3> HIDE DEF Until
    <3> QED BY <1>1 DEF Q
  <2> DEFINE near == deep[k]  from == segs[k+1][1]  to == segs[k+1][2]
  <2>1. k + 1 \in 1 .. n /\ (k + 1) - 1 = k /\ k \in Nat
    BY <1>1
  <2>2. deep[k+1] = [c \in DOMAIN near \cup {to} |->
                       IF c \in DOMAIN near THEN near[c] ELSE near[from] + 1]
    <3>1. deep[k+1] = Deeper(near, k + 1)
      <4> HIDE DEF Deeper
      <4> QED BY <1>7, <2>1
    <3> QED BY <3>1
  <2>3. from \in Until(k)
    <3>1. from \in {Root} \cup {segs[j][2] : j \in 1 .. (k + 1) - 1}
      BY <1>1, <2>1 DEF LaidTree, TreeInv
    <3> QED BY <2>1, <3>1
  <2>4. Until(k + 1) = Until(k) \cup {to}
    <3>1. 1 .. k + 1 = (1 .. k) \cup {k + 1}
      BY <2>1
    <3> QED BY <3>1
  <2> HIDE DEF near, from, to, Until
  <2>5. near \in [Until(k) -> Nat]
    BY DEF near
  <2>6. [c \in DOMAIN near \cup {to} |-> IF c \in DOMAIN near THEN near[c] ELSE near[from] + 1]
          \in [Until(k) \cup {to} -> Nat]
    BY <2>3, <2>5
  <2> QED BY <2>2, <2>4, <2>6
<1>10. n \in Q
  <2>1. \A k \in 0 .. n : k \in Q
    BY <1>1, <1>8, <1>9, UpTo
  <2> QED BY <1>1, <2>1
<1>11. Trunk \subseteq Until(n)
  BY <1>1 DEF Trunk, Range, Seg
<1> QED BY <1>2, <1>10, <1>11 DEF Q

-----------------------------------------------------------------------------
(* Loads folded up the tree.                                               *)

(* One segment folded: what is beyond it is added to where it comes from.  *)
Folded(sum, s) == [sum EXCEPT ![s[1]] = @ + sum[s[2]]]

(* The last segment is folded first.                                       *)
LEMMA SubtreeFolds ==
  ASSUME LaidTree
  PROVE  \E f : /\ f[0] = LoadAt /\ f[Len(segs)] = Subtree
                /\ \A k \in 0 .. Len(segs) - 1 : f[k+1] = Folded(f[k], segs[Len(segs) - k])
<1> DEFINE n == Len(segs)
           order == Reverse(segs)
           S == 1 .. n
           Body(h) == [s \in SUBSET S |->
                         IF s = {} THEN LoadAt ELSE Folded(h[s \ {Max(s)}], order[Max(s)])]
           iter == CHOOSE h : h = Body(h)
           Part(h, m) == /\ h = [s \in SUBSET S |-> h[s]]
                         /\ \A s \in SUBSET S : Cardinality(s) <= m =>
                              h[s] = IF s = {} THEN LoadAt ELSE Folded(h[s \ {Max(s)}], order[Max(s)])
           T == {m \in 0 .. n : \E h : Part(h, m)}
<1>1. n \in Nat /\ Len(order) = n /\ DOMAIN order = S /\ \A i \in S : order[i] = segs[n - i + 1]
  BY EntryIs DEF Reverse
<1>2. Subtree = iter[S]
  BY <1>1 DEF Subtree, FoldUp, FoldLeft, MapThenFoldSet, Folded
<1>3. IsFiniteSet(S) /\ Cardinality(S) = n
  <2>1. 1 \in Int /\ n \in Int /\ n - 1 + 1 = n
    BY <1>1
  <2>2. IsFiniteSet(S) /\ Cardinality(S) = IF 1 > n THEN 0 ELSE n - 1 + 1
    <3> HIDE DEF n
    <3> QED BY <2>1, FS_Interval
  <2> QED BY <1>1, <2>1, <2>2
<1>4. ASSUME NEW s \in SUBSET S
      PROVE  /\ Cardinality(s) \in Nat /\ Cardinality(s) <= n /\ (Cardinality(s) = 0 => s = {})
             /\ s # {} => /\ Max(s) \in s /\ s \ {Max(s)} \in SUBSET S
                          /\ Cardinality(s \ {Max(s)}) = Cardinality(s) - 1
  <2>1. IsFiniteSet(s)
    BY <1>3, FS_Subset
  <2>2. Cardinality(s) \in Nat /\ Cardinality(s) <= n /\ (Cardinality(s) = 0 => s = {})
    <3> HIDE DEF S, n
    <3> QED BY <1>3, SumStep
  <2>3. s # {} => Max(s) \in s
    <3>1. s \subseteq Nat
      BY <1>1
    <3> QED BY <2>1, <3>1, FiniteMax
  <2>4. s # {} => Cardinality(s \ {Max(s)}) = Cardinality(s) - 1
    BY <2>1, <2>3, FS_RemoveElement
  <2> QED BY <2>2, <2>3, <2>4
<1> HIDE DEF order
<1>5. 0 \in T
  <2> DEFINE h == [s \in SUBSET S |-> LoadAt]
  <2>1. \A s \in SUBSET S : Cardinality(s) <= 0 => s = {}
    <3> SUFFICES ASSUME NEW s \in SUBSET S, Cardinality(s) <= 0 PROVE s = {}
      OBVIOUS
    <3>1. Cardinality(s) \in Nat /\ (Cardinality(s) = 0 => s = {})
      BY <1>4
    <3> QED BY <3>1
  <2>2. Part(h, 0)
    BY <2>1
  <2> HIDE DEF Part
  <2> QED BY <1>1, <2>2
<1>6. \A m \in 0 .. n - 1 : m \in T => m + 1 \in T
  <2> SUFFICES ASSUME NEW m \in 0 .. n - 1, NEW h, Part(h, m) PROVE \E g : Part(g, m + 1)
    <3> HIDE DEF Part
    <3> QED BY <1>1
  <2> DEFINE Next1(f, s) == Folded(f[s \ {Max(s)}], order[Max(s)])
             g == [s \in SUBSET S |-> IF Cardinality(s) <= m THEN h[s] ELSE Next1(h, s)]
  <2>1. m \in Nat
    BY <1>1
  <2>2. ASSUME NEW s \in SUBSET S, Cardinality(s) <= m + 1
        PROVE  g[s] = IF s = {} THEN LoadAt ELSE Folded(g[s \ {Max(s)}], order[Max(s)])
    <3> DEFINE less == s \ {Max(s)}
    <3>1. CASE s = {}
      <4>1. Cardinality(s) <= m
        BY <2>1, <3>1, FS_EmptySet
      <4>2. h[s] = LoadAt
        BY <3>1, <4>1
      <4> QED BY <3>1, <4>1, <4>2
    <3>2. CASE s # {}
      <4>1. less \in SUBSET S /\ Cardinality(less) = Cardinality(s) - 1 /\ Cardinality(s) \in Nat
        BY <1>4, <3>2
      <4>2. Cardinality(less) <= m
        BY <2>1, <2>2, <4>1
      <4>3. g[less] = h[less]
        <5> HIDE DEF less
        <5> QED BY <4>1, <4>2
      <4>4. g[s] = Next1(h, s)
        <5>1. CASE Cardinality(s) <= m
          BY <3>2, <5>1
        <5>2. CASE ~(Cardinality(s) <= m)
          <6> HIDE DEF Next1
          <6> QED BY <5>2
        <5> QED BY <5>1, <5>2
      <4> HIDE DEF g
      <4> QED BY <3>2, <4>3, <4>4
    <3> QED BY <3>1, <3>2
  <2>3. g = [s \in SUBSET S |-> g[s]]
    OBVIOUS
  <2> HIDE DEF g
  <2>4. Part(g, m + 1)
    BY <2>2, <2>3
  <2> HIDE DEF Part
  <2> QED BY <2>4
<1> HIDE DEF T
<1>7. PICK h : Part(h, n)
  <2>1. \A m \in 0 .. n : m \in T
    BY <1>1, <1>5, <1>6, UpTo
  <2>2. n \in T
    BY <1>1, <2>1
  <2> HIDE DEF Part
  <2> QED BY <2>2 DEF T
<1>8. h = Body(h)
  <2>1. \A s \in SUBSET S : Cardinality(s) <= n
    BY <1>4
  <2>2. \A s \in SUBSET S :
          h[s] = IF s = {} THEN LoadAt ELSE Folded(h[s \ {Max(s)}], order[Max(s)])
    BY <1>7, <2>1
  <2>3. h = [s \in SUBSET S |-> h[s]]
    BY <1>7
  <2> QED BY <2>2, <2>3
<1>9. iter = Body(iter)
  BY <1>8
<1> HIDE DEF iter
<1>10. \A s \in SUBSET S :
         iter[s] = IF s = {} THEN LoadAt ELSE Folded(iter[s \ {Max(s)}], order[Max(s)])
  BY <1>9
<1> DEFINE f == [k \in 0 .. n |-> iter[1 .. k]]
<1>11. f[0] = LoadAt
  <2>1. 1 .. 0 = {}
    OBVIOUS
  <2>2. iter[{}] = LoadAt
    BY <1>10
  <2> QED BY <1>1, <2>1, <2>2
<1>12. f[n] = Subtree
  BY <1>1, <1>2
<1>13. ASSUME NEW k \in 0 .. n - 1 PROVE f[k+1] = Folded(f[k], segs[n - k])
  <2>1. k \in Nat /\ k + 1 \in Nat /\ k + 1 \in S /\ k + 1 \in 0 .. n /\ k \in 0 .. n
        /\ k + 1 \in 1 .. k + 1
    <3> HIDE DEF n
    <3> QED BY <1>1
  <2>8. 1 .. k + 1 \in SUBSET S /\ 1 .. k + 1 # {} /\ 1 .. k + 1 \subseteq Nat
    <3> HIDE DEF n
    <3> QED BY <1>1, <2>1
  <2>2. Max(1 .. k + 1) = k + 1
    <3>1. \A y \in 1 .. k + 1 : y <= k + 1
      BY <2>1
    <3>2. Max(1 .. k + 1) \in 1 .. k + 1 /\ \A y \in 1 .. k + 1 : y <= Max(1 .. k + 1)
      <4> DEFINE U == 1 .. k + 1
      <4>1. U \subseteq Nat /\ U # {} /\ \A y \in U : y <= k + 1
        BY <2>8, <3>1
      <4> HIDE DEF U
      <4>2. Max(U) \in U /\ \A y \in U : y <= Max(U)
        BY <2>1, <4>1, MaxIs
      <4> QED BY <4>2 DEF U
    <3> QED BY <2>1, <3>2
  <2>3. (1 .. k + 1) \ {k + 1} = 1 .. k
    BY <2>1
  <2>4. iter[1 .. k + 1] = Folded(iter[1 .. k], order[k + 1])
    BY <1>10, <2>2, <2>3, <2>8
  <2>5. order[k + 1] = segs[n - (k + 1) + 1] /\ n - (k + 1) + 1 = n - k
    BY <1>1, <2>1
  <2>6. f[k+1] = iter[1 .. k + 1] /\ f[k] = iter[1 .. k]
    BY <2>1
  <2> QED BY <2>4, <2>5, <2>6
<1> HIDE DEF f
<1> QED BY <1>11, <1>12, <1>13

(* The sinks fed through block c, and of those the ones it reaches by      *)
(* segments laid after the m-th, or docked at the block itself.            *)
Fed(c) == {i \in Sinks : c \in WayTo(docked[i])}

FedPast(c, m) ==
  {i \in Sinks : \/ docked[i] = c
                 \/ \E j \in Seg : j > m /\ segs[j][1] = c /\ segs[j][2] \in WayTo(docked[i])}

(* A trunk every endpoint of which is docked.                              *)
DockedTree == LaidTree /\ IsFiniteSet(Sinks) /\ \A i \in Sinks : docked[i] \in Trunk

(* What a block feeds in the end, before any segment is folded, and as the *)
(* m-th one is.                                                            *)
LEMMA FedPastIs ==
  ASSUME DockedTree, NEW c \in Trunk
  PROVE  /\ FedPast(c, 0) = Fed(c)
         /\ FedPast(c, Len(segs)) = {i \in Sinks : docked[i] = c}
         /\ \A m \in Seg :
              /\ FedPast(segs[m][2], m) = Fed(segs[m][2])
              /\ segs[m][1] # c => FedPast(c, m - 1) = FedPast(c, m)
              /\ segs[m][1] = c => /\ FedPast(c, m - 1) = FedPast(c, m) \cup Fed(segs[m][2])
                                   /\ FedPast(c, m) \cap Fed(segs[m][2]) = {}
<1>1. /\ Seg = 1 .. Len(segs) /\ Len(segs) \in Nat /\ LaidTree
      /\ \A i \in Sinks : docked[i] \in Trunk
  BY EntryIs DEF DockedTree
<1>2. ASSUME NEW b \in Trunk
      PROVE  \A i \in Sinks : b \in WayTo(docked[i]) <=>
               b = docked[i] \/ \E j \in Seg : segs[j][1] = b /\ segs[j][2] \in WayTo(docked[i])
  BY <1>1, WayFeeds
<1>3. FedPast(c, 0) = Fed(c)
  <2>1. \A j \in Seg : j > 0
    BY <1>1
  <2> QED BY <1>2, <2>1 DEF FedPast, Fed
<1>4. FedPast(c, Len(segs)) = {i \in Sinks : docked[i] = c}
  <2>1. \A j \in Seg : ~(j > Len(segs))
    BY <1>1
  <2> QED BY <2>1 DEF FedPast
<1>5. ASSUME NEW m \in Seg
      PROVE  /\ FedPast(segs[m][2], m) = Fed(segs[m][2])
             /\ segs[m][1] # c => FedPast(c, m - 1) = FedPast(c, m)
             /\ segs[m][1] = c => /\ FedPast(c, m - 1) = FedPast(c, m) \cup Fed(segs[m][2])
                                  /\ FedPast(c, m) \cap Fed(segs[m][2]) = {}
  <2> DEFINE e == segs[m][2]
  <2>1. e \in Trunk \ {Root} /\ Entry(e) = m
    BY <1>1, EntryIs
  <2>2. \A j \in Seg : segs[j][1] = e => j > m
    <3> SUFFICES ASSUME NEW j \in Seg, segs[j][1] = e PROVE j > m
      OBVIOUS
    <3>1. segs[j][2] \in Trunk \ {Root} /\ Entry(segs[j][2]) = j /\ Parent[segs[j][2]] = e
      BY <1>1, EntryIs
    <3>2. Entry(e) < j
      BY <1>1, <3>1, EntryIs
    <3> QED BY <1>1, <2>1, <3>2
  <2>3. FedPast(e, m) = Fed(e)
    BY <1>2, <2>1, <2>2 DEF FedPast, Fed
  <2>4. \A j \in Seg : j > m - 1 <=> j > m \/ j = m
    BY <1>1
  <2>5. ASSUME segs[m][1] # c PROVE FedPast(c, m - 1) = FedPast(c, m)
    BY <2>4, <2>5 DEF FedPast
  <2>6. ASSUME segs[m][1] = c PROVE FedPast(c, m - 1) = FedPast(c, m) \cup Fed(e)
    BY <2>4, <2>6 DEF FedPast, Fed
  <2>7. ASSUME segs[m][1] = c, NEW i \in Fed(e) PROVE i \notin FedPast(c, m)
    <3>1. i \in Sinks /\ docked[i] \in Trunk /\ segs[m][2] \in WayTo(docked[i])
      BY <1>1, <2>7 DEF Fed
    <3>2. docked[i] # c /\ \A k \in Seg : segs[k][1] = c /\ segs[k][2] \in WayTo(docked[i]) => k = m
      BY <1>1, <2>7, <3>1, WaysPart
    <3>3. \A k \in Seg : k > m => k # m
      BY <1>1
    <3> QED BY <3>2, <3>3 DEF FedPast
  <2> QED BY <2>3, <2>5, <2>6, <2>7
<1> QED BY <1>3, <1>4, <1>5

LoadOf == [i \in Sinks |-> Load(i)]

SteadyOf == [i \in Sinks |-> Steady(i)]

(* The sums of the model, as sums of these.                                *)
LEMMA LoadSums ==
  ASSUME NEW S \in SUBSET Sinks
  PROVE  /\ MapThenSumSet(Load, S) = SumOf(LoadOf, S)
         /\ MapThenSumSet(Steady, S) = SumOf(SteadyOf, S)
<1> DEFINE Sum1(g) == [s \in SUBSET S |->
                         IF s = {} THEN 0
                         ELSE Load(CHOOSE i \in s : TRUE) + g[s \ {CHOOSE i \in s : TRUE}]]
           Sum2(g) == [s \in SUBSET S |->
                         IF s = {} THEN 0
                         ELSE LoadOf[CHOOSE i \in s : TRUE] + g[s \ {CHOOSE i \in s : TRUE}]]
           Sum3(g) == [s \in SUBSET S |->
                         IF s = {} THEN 0
                         ELSE Steady(CHOOSE i \in s : TRUE) + g[s \ {CHOOSE i \in s : TRUE}]]
           Sum4(g) == [s \in SUBSET S |->
                         IF s = {} THEN 0
                         ELSE SteadyOf[CHOOSE i \in s : TRUE] + g[s \ {CHOOSE i \in s : TRUE}]]
<1>1. /\ MapThenSumSet(Load, S) = (CHOOSE g : g = Sum1(g))[S]
      /\ MapThenSumSet(Steady, S) = (CHOOSE g : g = Sum3(g))[S]
  BY DEF MapThenSumSet, MapThenFoldSet
<1>2. /\ SumOf(LoadOf, S) = (CHOOSE g : g = Sum2(g))[S]
      /\ SumOf(SteadyOf, S) = (CHOOSE g : g = Sum4(g))[S]
  BY DEF SumOf, MapThenSumSet, MapThenFoldSet
<1>3. \A i \in Sinks : LoadOf[i] = Load(i) /\ SteadyOf[i] = Steady(i)
  BY DEF LoadOf, SteadyOf
<1>4. \A g : Sum1(g) = Sum2(g) /\ Sum3(g) = Sum4(g)
  BY <1>3
<1> HIDE DEF Sum1, Sum2, Sum3, Sum4
<1>5. \A g : (g = Sum1(g) <=> g = Sum2(g)) /\ (g = Sum3(g) <=> g = Sum4(g))
  BY <1>4
<1>6. (CHOOSE g : g = Sum1(g)) = (CHOOSE g : g = Sum2(g))
  BY <1>5, Zenon
<1>7. (CHOOSE g : g = Sum3(g)) = (CHOOSE g : g = Sum4(g))
  BY <1>5, Zenon
<1> QED BY <1>1, <1>2, <1>6, <1>7

(* Folded leaves first, every block comes to hold what it feeds.           *)
LEMMA SubtreeIs ==
  ASSUME DockedTree, \A i \in Sinks : Load(i) \in Nat
  PROVE  \A c \in Trunk : Subtree[c] = SumOf(LoadOf, Fed(c))
<1> DEFINE n == Len(segs)
<1>1. /\ LaidTree /\ n \in Nat /\ Seg = 1 .. n /\ IsFiniteSet(Sinks)
      /\ \A i \in Sinks : LoadOf[i] \in Nat
  BY EntryIs DEF DockedTree, LoadOf
<1>2. PICK f : /\ f[0] = LoadAt /\ f[n] = Subtree
               /\ \A k \in 0 .. n - 1 : f[k+1] = Folded(f[k], segs[n - k])
  BY <1>1, SubtreeFolds
<1>3. \A s \in SUBSET Sinks : SumOf(LoadOf, s) \in Nat
  BY <1>1, SumsOfAll
<1>4. \A c : \A m : FedPast(c, m) \in SUBSET Sinks /\ Fed(c) \in SUBSET Sinks
  BY DEF FedPast, Fed
<1> DEFINE Holds(g, m) == g = [c \in Trunk |-> SumOf(LoadOf, FedPast(c, m))]
           R == {k \in 0 .. n : Holds(f[k], n - k)}
<1>5. 0 \in R
  <2>1. ASSUME NEW c \in Trunk PROVE LoadAt[c] = SumOf(LoadOf, FedPast(c, n))
    <3>1. FedPast(c, n) = {i \in Sinks : docked[i] = c}
      BY FedPastIs
    <3>2. MapThenSumSet(Load, {i \in Sinks : docked[i] = c})
            = SumOf(LoadOf, {i \in Sinks : docked[i] = c})
      BY LoadSums
    <3> QED BY <3>1, <3>2 DEF LoadAt
  <2>2. LoadAt = [c \in Trunk |-> LoadAt[c]]
    BY DEF LoadAt
  <2>3. LoadAt = [c \in Trunk |-> SumOf(LoadOf, FedPast(c, n))]
    BY <2>1, <2>2
  <2>4. n - 0 = n /\ 0 \in 0 .. n
    BY <1>1
  <2> HIDE DEF n
  <2> QED BY <1>2, <2>3, <2>4
<1>6. \A k \in 0 .. n - 1 : k \in R => k + 1 \in R
  <2> SUFFICES ASSUME NEW k \in 0 .. n - 1, Holds(f[k], n - k)
               PROVE  Holds(f[k+1], n - (k + 1))
    <3> HIDE DEF Holds
    <3> QED BY <1>1
  <2> DEFINE m == n - k  p == segs[m][1]  e == segs[m][2]
  <2>1. m \in Seg /\ n - (k + 1) = m - 1
    BY <1>1
  <2>2. f[k+1] = [f[k] EXCEPT ![p] = @ + f[k][e]]
    BY <1>2 DEF Folded
  <2>3. e \in Trunk /\ p \in Trunk
    <3>1. segs[m][2] \in Trunk \ {Root} /\ Parent[segs[m][2]] = segs[m][1]
      BY <1>1, <2>1, EntryIs
    <3>2. Parent[segs[m][2]] \in Trunk
      BY <1>1, <3>1, EntryIs
    <3> QED BY <3>1, <3>2
  <2> HIDE DEF m, n
  <2>4. f[k] = [c \in Trunk |-> SumOf(LoadOf, FedPast(c, m))]
    BY DEF m
  <2>5. ASSUME NEW c \in Trunk, c # p PROVE f[k+1][c] = SumOf(LoadOf, FedPast(c, m - 1))
    <3>1. FedPast(c, m - 1) = FedPast(c, m)
      BY <2>1, <2>5, FedPastIs
    <3>2. f[k+1][c] = f[k][c]
      BY <2>2, <2>4, <2>5
    <3> QED BY <2>4, <2>5, <3>1, <3>2
  <2>6. f[k+1][p] = SumOf(LoadOf, FedPast(p, m - 1))
    <3>1. /\ FedPast(p, m - 1) = FedPast(p, m) \cup Fed(e) /\ FedPast(p, m) \cap Fed(e) = {}
          /\ FedPast(e, m) = Fed(e)
      BY <2>1, <2>3, FedPastIs
    <3>2. f[k+1][p] = f[k][p] + f[k][e]
      BY <2>2, <2>3, <2>4
    <3>3. SumOf(LoadOf, FedPast(p, m) \cup Fed(e))
            = SumOf(LoadOf, FedPast(p, m)) + SumOf(LoadOf, Fed(e))
      BY <1>1, <1>4, <3>1, SumsApart
    <3> HIDE DEF p, e
    <3> QED BY <2>3, <2>4, <3>1, <3>2, <3>3
  <2>7. f[k+1] = [c \in Trunk |-> f[k+1][c]]
    BY <2>2, <2>4
  <2> HIDE DEF p, e
  <2>8. f[k+1] = [c \in Trunk |-> SumOf(LoadOf, FedPast(c, m - 1))]
    BY <2>5, <2>6, <2>7
  <2> QED BY <2>1, <2>8
<1> HIDE DEF R
<1>7. n \in R
  <2>1. \A k \in 0 .. n : k \in R
    BY <1>1, <1>5, <1>6, UpTo
  <2> QED BY <1>1, <2>1
<1>8. Subtree = [c \in Trunk |-> SumOf(LoadOf, FedPast(c, 0))]
  <2>1. Holds(f[n], n - n) /\ n - n = 0
    BY <1>1, <1>7 DEF R
  <2> HIDE DEF n
  <2> QED BY <1>2, <2>1
<1> TAKE c \in Trunk
<1>9. FedPast(c, 0) = Fed(c)
  BY FedPastIs
<1> QED BY <1>8, <1>9

-----------------------------------------------------------------------------
(* Amps.                                                                   *)

(* As few whole amps as carry the load.                                    *)
LEMMA WholeAmpsIs ==
  ASSUME NEW load \in Nat
  PROVE  WholeAmps(load) \in Nat /\ \A k \in Nat : WholeAmps(load) <= k <=> load <= k * Scale
<1> DEFINE q == WholeAmps(load)
           r == (load + Scale - 1) % Scale
<1>1. Scale \in Nat \ {0} /\ load + Scale - 1 \in Nat
  BY ScaleAssumption
<1>2. q \in Nat /\ r \in 0 .. Scale - 1 /\ load + Scale - 1 = q * Scale + r
  BY <1>1, Division DEF WholeAmps
<1> HIDE DEF q, r
<1>3. ASSUME NEW k \in Nat PROVE q <= k <=> load <= k * Scale
  <2>1. q * Scale \in Nat /\ k * Scale \in Nat
    BY <1>1, <1>2
  <2>2. q <= k => q * Scale <= k * Scale
    BY <1>1, <1>2, TimesMonotone
  <2>3. k + 1 <= q => (k + 1) * Scale <= q * Scale
    BY <1>1, <1>2, TimesMonotone
  <2>4. (k + 1) * Scale = k * Scale + Scale
    BY <1>1
  <2>5. q <= k => load <= k * Scale
    BY <1>1, <1>2, <2>1, <2>2
  <2>6. load <= k * Scale => ~(k + 1 <= q)
    BY <1>1, <1>2, <2>1, <2>3, <2>4
  <2> QED BY <1>2, <2>5, <2>6
<1> QED BY <1>2, <1>3 DEF q

LEMMA WholeAmpsGrow ==
  ASSUME NEW a \in Nat, NEW b \in Nat, a <= b
  PROVE  WholeAmps(a) <= WholeAmps(b)
<1>1. Scale \in Nat
  BY ScaleAssumption
<1>2. WholeAmps(a) \in Nat /\ WholeAmps(b) \in Nat /\ WholeAmps(b) * Scale \in Nat
  BY <1>1, WholeAmpsIs
<1>3. b <= WholeAmps(b) * Scale
  BY <1>2, WholeAmpsIs
<1> QED BY <1>2, <1>3, WholeAmpsIs

(* A load of k whole amps or more.                                         *)
LEMMA WholeAmpsLeast ==
  ASSUME NEW load \in Nat, NEW k \in Nat, k * Scale <= load
  PROVE  k <= WholeAmps(load)
<1> DEFINE q == WholeAmps(load)
<1>1. Scale \in Nat \ {0} /\ k * Scale \in Nat
  BY ScaleAssumption
<1>2. q \in Nat /\ load <= q * Scale
  BY WholeAmpsIs
<1> HIDE DEF q
<1>3. q < k => q * Scale < k * Scale
  BY <1>1, <1>2, TimesStrict
<1>4. q * Scale \in Nat
  BY <1>1, <1>2
<1> QED BY <1>1, <1>2, <1>3, <1>4 DEF q

(* A trunk whose every sink has voltage left at its distance.              *)
PoweredTree == DockedTree /\ call \in Calls /\ Unpowered = {}

LEMMA SteadyIs ==
  ASSUME PoweredTree
  PROVE  /\ \A i \in Sinks : Steady(i) \in Nat /\ Load(i) \in Nat
         /\ \A s \in SUBSET Sinks : MapThenSumSet(Steady, s) \in Nat
         /\ Output \in Nat /\ Output = WholeAmps(SumOf(SteadyOf, Sinks))
<1>1. ASSUME NEW i \in Sinks PROVE Steady(i) \in Nat
  <2>1. call.eut[i] \in Nat /\ call.volts[i] \in Int
    BY CallsAssumption DEF PoweredTree, Sinks, Endpoint
  <2>2. Depth[docked[i]] \in Nat
    BY DepthIs DEF PoweredTree, DockedTree
  <2>3. CASE call.eut[i] = 0
    BY <2>3 DEF Steady
  <2>4. CASE call.eut[i] > 0
    <3>1. ~(Volts(i) <= 0)
      BY <2>4 DEF PoweredTree, Unpowered
    <3>2. Volts(i) \in Nat \ {0}
      BY <2>1, <2>2, <3>1 DEF Volts
    <3>3. call.eut[i] * Scale \in Nat
      BY <2>1, ScaleAssumption
    <3>4. (call.eut[i] * Scale) \div Volts(i) \in Nat
      BY <3>2, <3>3, Division
    <3> QED BY <3>4 DEF Steady
  <2> QED BY <2>1, <2>3, <2>4
<1>2. \A s \in SUBSET Sinks : SumOf(SteadyOf, s) \in Nat /\ MapThenSumSet(Steady, s) = SumOf(SteadyOf, s)
  <2>1. IsFiniteSet(Sinks) /\ \A i \in Sinks : SteadyOf[i] \in Nat
    BY <1>1 DEF SteadyOf, PoweredTree, DockedTree
  <2> QED BY <2>1, SumsOfAll, LoadSums
<1>3. Output \in Nat /\ Output = WholeAmps(SumOf(SteadyOf, Sinks))
  BY <1>2, WholeAmpsIs DEF Output
<1>4. ASSUME NEW i \in Sinks PROVE Load(i) \in Nat
  BY <1>1, <1>3, ScaleAssumption DEF Load
<1> QED BY <1>1, <1>2, <1>3, <1>4

(* Every segment is sized for what may flow through its far block, and     *)
(* those off the source's own block for no more.                           *)
LEMMA AmpsAre ==
  ASSUME PoweredTree
  PROVE  /\ \A c \in Trunk : Through(c) \in Nat /\ Through(c) <= Output
         /\ \A c \in Trunk \ {Root} :
              /\ Amps(Parent[c], c, Subtree) \in Nat
              /\ Through(c) <= Amps(Parent[c], c, Subtree)
              /\ Parent[c] = Root => Amps(Parent[c], c, Subtree) = Output
              /\ Parent[c] # Root => Amps(Parent[c], c, Subtree) <= Through(c)
<1>1. /\ DockedTree /\ IsFiniteSet(Sinks) /\ Scale \in Nat \ {0}
      /\ \A i \in Sinks : Steady(i) \in Nat /\ Load(i) \in Nat
      /\ \A i \in Sinks : SteadyOf[i] \in Nat /\ LoadOf[i] \in Nat
      /\ Output \in Nat /\ Output = WholeAmps(SumOf(SteadyOf, Sinks))
  BY SteadyIs, ScaleAssumption DEF PoweredTree, DockedTree, SteadyOf, LoadOf
<1>2. \A s \in SUBSET Sinks : /\ SumOf(SteadyOf, s) \in Nat /\ SumOf(LoadOf, s) \in Nat
                              /\ MapThenSumSet(Steady, s) = SumOf(SteadyOf, s)
                              /\ SumOf(SteadyOf, s) <= SumOf(SteadyOf, Sinks)
                              /\ \A i \in s : LoadOf[i] <= SumOf(LoadOf, s)
  BY <1>1, SumsOfAll, LoadSums, SumsGrow
<1>3. ASSUME NEW c \in Trunk
      PROVE  /\ Fed(c) \in SUBSET Sinks /\ Through(c) \in Nat /\ Through(c) <= Output
             /\ Fed(c) \cap Acceptors # {} =>
                  Through(c) = Output /\ Output <= WholeAmps(SumOf(LoadOf, Fed(c)))
             /\ Fed(c) \cap Acceptors = {} => Through(c) = WholeAmps(SumOf(LoadOf, Fed(c)))
             /\ WholeAmps(SumOf(LoadOf, Fed(c))) \in Nat
  <2>1. Fed(c) \in SUBSET Sinks
    BY DEF Fed
  <2>2. Through(c) = IF Fed(c) \cap Acceptors # {} THEN Output
                     ELSE WholeAmps(MapThenSumSet(Steady, Fed(c)))
    BY DEF Through, Fed
  <2>3. WholeAmps(SumOf(LoadOf, Fed(c))) \in Nat
    BY <1>2, <2>1, WholeAmpsIs
  <2>4. CASE Fed(c) \cap Acceptors # {}
    <3>1. PICK i \in Fed(c) : i \in Acceptors
      BY <2>4
    <3>2. LoadOf[i] = Output * Scale
      BY <2>1, <3>1 DEF LoadOf, Load
    <3>3. Output * Scale <= SumOf(LoadOf, Fed(c))
      BY <1>2, <2>1, <3>2
    <3>4. Output <= WholeAmps(SumOf(LoadOf, Fed(c)))
      BY <1>1, <1>2, <2>1, <3>3, WholeAmpsLeast
    <3> QED BY <1>1, <2>1, <2>2, <2>3, <2>4, <3>4
  <2>5. CASE Fed(c) \cap Acceptors = {}
    <3>1. \A i \in Fed(c) : SteadyOf[i] = LoadOf[i]
      BY <2>1, <2>5 DEF SteadyOf, LoadOf, Load
    <3>2. SumOf(SteadyOf, Fed(c)) = SumOf(LoadOf, Fed(c))
      BY <3>1, SumsAgree
    <3>3. Through(c) = WholeAmps(SumOf(LoadOf, Fed(c)))
      BY <1>2, <2>1, <2>2, <2>5, <3>2
    <3>4. WholeAmps(SumOf(SteadyOf, Fed(c))) <= WholeAmps(SumOf(SteadyOf, Sinks))
      BY <1>2, <2>1, WholeAmpsGrow
    <3> QED BY <1>1, <2>1, <2>3, <2>5, <3>2, <3>3, <3>4
  <2> QED BY <2>4, <2>5
<1>4. ASSUME NEW c \in Trunk \ {Root}
      PROVE  /\ Amps(Parent[c], c, Subtree) \in Nat
             /\ Through(c) <= Amps(Parent[c], c, Subtree)
             /\ Parent[c] = Root => Amps(Parent[c], c, Subtree) = Output
             /\ Parent[c] # Root => Amps(Parent[c], c, Subtree) <= Through(c)
  <2> DEFINE whole == WholeAmps(SumOf(LoadOf, Fed(c)))
  <2>1. Subtree[c] = SumOf(LoadOf, Fed(c))
    BY <1>1, SubtreeIs
  <2>2. Amps(Parent[c], c, Subtree)
          = IF Parent[c] = Root \/ (Acceptors # {} /\ whole > Output) THEN Output ELSE whole
    BY <2>1 DEF Amps
  <2> HIDE DEF whole
  <2>3. /\ Through(c) \in Nat /\ Through(c) <= Output /\ whole \in Nat
        /\ (Fed(c) \cap Acceptors # {} => Through(c) = Output /\ Output <= whole)
        /\ (Fed(c) \cap Acceptors = {} => Through(c) = whole)
    BY <1>3 DEF whole
  <2>4. Fed(c) \cap Acceptors # {} => Acceptors # {}
    OBVIOUS
  <2> QED BY <1>1, <2>2, <2>3, <2>4
<1> QED BY <1>3, <1>4

(* The thinnest cable that carries the amps, when there is one.            *)
LEMMA GaugeIs ==
  ASSUME NEW amps \in Nat, amps <= Max(Gauges)
  PROVE  /\ GaugeFor(amps) \in Gauges /\ amps <= GaugeFor(amps)
         /\ \A g \in Gauges : amps <= g => GaugeFor(amps) <= g
<1> DEFINE V == {g \in Gauges : amps <= g} \cup {Max(Gauges)}
<1>1. Max(Gauges) \in Gauges /\ Gauges \subseteq Nat
  BY GaugeAssumption, FiniteMax
<1>2. V \subseteq Nat /\ V # {} /\ \A g \in V : amps <= g /\ g \in Gauges
  BY <1>1
<1>3. Min(V) \in V /\ \A g \in V : Min(V) <= g
  BY <1>2, MinIs
<1>4. GaugeFor(amps) = Min(V)
  BY DEF GaugeFor
<1>5. \A g \in Gauges : amps <= g => g \in V
  OBVIOUS
<1> HIDE DEF V
<1> QED BY <1>2, <1>3, <1>4, <1>5

-----------------------------------------------------------------------------
(* What is sized stays sized.                                              *)

(* A returned trunk is sized for its loads, each in reach of some cable.   *)
RoutedInv ==
  outcome = "routed" =>
    /\ Unpowered = {} /\ \A i \in Endpoint : docked[i] # NoCell
    /\ gauge = [c \in Trunk \ {Root} |-> GaugeFor(Amps(Parent[c], c, Subtree))]
    /\ \A c \in Trunk \ {Root} : Amps(Parent[c], c, Subtree) <= Max(Gauges)

(* The last sink never taps a trunk without a segment.                     *)
LaidInv == docked[LastSink] # NoCell => segs # <<>>

SizedInv == IInv /\ LaidInv /\ RoutedInv

LEMMA LastSinkIs ==
  ASSUME call \in Calls
  PROVE  /\ IsFiniteSet(Sinks) /\ LastSink \in Sinks /\ \A i \in Sinks : i \in Nat /\ i <= LastSink
         /\ Sinks \subseteq Endpoint /\ 0 \in Endpoint /\ 0 \notin Sinks
<1>1. Sinks \subseteq Nat /\ 1 \in Sinks /\ IsFiniteSet(Endpoint) /\ Sinks \subseteq Endpoint
      /\ 0 \in Endpoint /\ 0 \notin Sinks
  BY CallsAssumption DEF Sinks, Endpoint
<1>2. IsFiniteSet(Sinks)
  BY <1>1, FS_Subset
<1>3. Max(Sinks) \in Sinks /\ \A i \in Sinks : i <= Max(Sinks)
  BY <1>1, <1>2, FiniteMax
<1> QED BY <1>1, <1>2, <1>3 DEF LastSink

LEMMA PoweredIs ==
  ASSUME IInv, Unpowered = {}, \A i \in Endpoint : docked[i] # NoCell
  PROVE  PoweredTree
<1>1. call \in Calls /\ IsFiniteSet(Sinks) /\ Sinks \subseteq Endpoint /\ 0 \in Endpoint
  BY LastSinkIs DEF IInv
<1>2. Root # NoCell
  BY <1>1 DEF Root
<1>3. LaidTree
  BY <1>2 DEF IInv, LaidTree, TypeOK
<1> QED BY <1>1, <1>3 DEF PoweredTree, DockedTree, LaidTree, TreeInv

(* The sizing reads nothing but the call and what is laid.                 *)
LEMMA SizingStands ==
  ASSUME UNCHANGED <<call, docked, segs>>
  PROVE  /\ Endpoint' = Endpoint /\ Trunk' = Trunk /\ Root' = Root /\ LastSink' = LastSink
         /\ Unpowered' = Unpowered
         /\ \A c : Amps(Parent[c], c, Subtree)' = Amps(Parent[c], c, Subtree)
<1>1. call' = call /\ docked' = docked /\ segs' = segs
  OBVIOUS
<1>2. /\ Endpoint' = Endpoint /\ Trunk' = Trunk /\ Root' = Root /\ Parent' = Parent
      /\ Acceptors' = Acceptors /\ LastSink' = LastSink
  BY <1>1 DEF Endpoint, Trunk, Root, Parent, Acceptors, Sinks, LastSink
<1>3. Unpowered' = Unpowered
  BY <1>1, SMT DEF Unpowered, Volts, Depth, Sinks, Endpoint, Root
<1>4. Output' = Output
  BY <1>1, SMT DEF Output, MapThenFoldSet, MapThenSumSet, WholeAmps, Steady, Volts, Depth,
     Sinks, Endpoint, Root
<1>5. Subtree' = Subtree
  BY <1>1, SMT DEF Subtree, FoldUp, FoldLeft, MapThenFoldSet, MapThenSumSet, LoadAt, Load, Output,
     WholeAmps, Steady, Volts, Depth, Trunk, Acceptors, Sinks, Endpoint, Root
<1>6. \A c : Amps(Parent[c], c, Subtree)' = Amps(Parent[c], c, Subtree)
  BY <1>2, <1>4, <1>5 DEF Amps, WholeAmps
<1> QED BY <1>2, <1>3, <1>6

LEMMA InitSized == Init => SizedInv
<1> SUFFICES ASSUME Init PROVE SizedInv
  OBVIOUS
<1>1. IInv
  BY InitIInv
<1>2. call \in Calls /\ outcome = "routing" /\ docked = [i \in Endpoint |-> NoCell]
  BY DEF Init
<1>3. LaidInv
  BY <1>2, LastSinkIs DEF LaidInv
<1> QED BY <1>1, <1>2, <1>3 DEF SizedInv, RoutedInv

(* Where the trunk stands, so does what was found out about it.            *)
LEMMA StandingSized ==
  ASSUME SizedInv, UNCHANGED <<call, docked, segs>>, UNCHANGED gauge \/ outcome' # "routed",
         outcome' = "routed" => outcome = "routed"
  PROVE  LaidInv' /\ RoutedInv'
<1>1. /\ Endpoint' = Endpoint /\ Trunk' = Trunk /\ Root' = Root /\ LastSink' = LastSink
      /\ Unpowered' = Unpowered
      /\ \A c : Amps(Parent[c], c, Subtree)' = Amps(Parent[c], c, Subtree)
  BY SizingStands
<1>2. LaidInv'
  BY <1>1 DEF SizedInv, LaidInv
<1>3. RoutedInv'
  BY <1>1 DEF SizedInv, RoutedInv
<1> QED BY <1>2, <1>3

LEMMA SizeSized ==
  ASSUME SizedInv, Size
  PROVE  LaidInv' /\ RoutedInv'
<1> DEFINE sum == Subtree
           amps == [c \in Trunk \ {Root} |-> Amps(Parent[c], c, sum)]
<1>1. CASE \E c \in DOMAIN amps : amps[c] > Max(Gauges)
  BY <1>1, StandingSized DEF Size, Fail
<1>2. CASE ~\E c \in DOMAIN amps : amps[c] > Max(Gauges)
  <2>1. /\ gauge' = [c \in DOMAIN amps |-> GaugeFor(amps[c])]
        /\ UNCHANGED <<call, docked, segs>> /\ Unpowered = {} /\ \A i \in Endpoint : docked[i] # NoCell
    BY <1>2 DEF Size, Sizing
  <2>2. /\ Endpoint' = Endpoint /\ Trunk' = Trunk /\ Root' = Root /\ LastSink' = LastSink
        /\ Unpowered' = Unpowered
        /\ \A c : Amps(Parent[c], c, Subtree)' = Amps(Parent[c], c, Subtree)
    BY <2>1, SizingStands
  <2>3. gauge' = [c \in Trunk \ {Root} |-> GaugeFor(Amps(Parent[c], c, Subtree))]
    BY <2>1
  <2>4. \A c \in Trunk \ {Root} : Amps(Parent[c], c, Subtree) <= Max(Gauges)
    <3>1. \A c \in Trunk \ {Root} : Amps(Parent[c], c, Subtree) \in Nat
      BY <2>1, PoweredIs, AmpsAre DEF SizedInv
    <3>2. Max(Gauges) \in Nat
      BY GaugeAssumption, FiniteMax
    <3> QED BY <1>2, <3>1, <3>2
  <2>5. LaidInv'
    BY <2>1, <2>2 DEF SizedInv, LaidInv
  <2> QED BY <2>1, <2>2, <2>3, <2>4, <2>5 DEF RoutedInv
<1> QED BY <1>1, <1>2

LEMMA NextSized == SizedInv /\ [Next]_vars => SizedInv'
<1> SUFFICES ASSUME SizedInv, [Next]_vars PROVE SizedInv'
  OBVIOUS
<1>1. IInv /\ IInv' /\ call \in Calls
  BY NextIInv DEF SizedInv, IInv
<1>2. /\ LastSink \in Sinks /\ LastSink # 0 /\ Sinks \subseteq Endpoint /\ 0 \in Endpoint
      /\ \A i \in Sinks : i \in Nat /\ i <= LastSink
  BY <1>1, LastSinkIs
<1>3. ASSUME call' = call PROVE LastSink' = LastSink
  BY <1>3 DEF LastSink, Sinks, Endpoint
<1>4. ASSUME NEW why \in {"face_reachability", "no_path", "voltage_tier", "voltage_drop", "amperage"},
             Fail(why)
      PROVE  LaidInv' /\ RoutedInv'
  BY <1>4, StandingSized DEF Fail
<1>5. ASSUME NEW c \in Cell, DockSource(c) PROVE LaidInv' /\ RoutedInv'
  <2>1. /\ outcome' = "routing" /\ call' = call /\ segs' = segs
        /\ docked' = [docked EXCEPT ![0] = c] /\ Root = NoCell
    BY <1>5 DEF DockSource
  <2>2. docked[LastSink] = NoCell /\ docked'[LastSink] = docked[LastSink]
    BY <1>1, <1>2, <2>1 DEF IInv
  <2> QED BY <1>3, <2>1, <2>2 DEF LaidInv, RoutedInv
<1>6. ASSUME NEW c \in Cell, Tap(c) PROVE LaidInv' /\ RoutedInv'
  <2>1. /\ outcome' = "routing" /\ call' = call /\ segs' = segs /\ SinkTurn
        /\ docked' = [docked EXCEPT ![NextSink] = c] /\ c \in Taps(NextSink)
    BY <1>6 DEF Tap, SinkTurn
  <2>2. segs # <<>> \/ NextSink < LastSink
    BY <2>1 DEF Taps, MayTap
  <2>3. NextSink \in Sinks
    BY <1>1, <2>1, NextSinkIs
  <2>4. segs # <<>> \/ docked'[LastSink] = docked[LastSink]
    <3>1. NextSink < LastSink => NextSink # LastSink
      BY <1>2, <2>3
    <3> HIDE DEF NextSink
    <3> QED BY <2>1, <2>2, <3>1
  <2> QED BY <1>3, <2>1, <2>4 DEF SizedInv, LaidInv, RoutedInv
<1>7. ASSUME ExtendTo PROVE LaidInv' /\ RoutedInv'
  <2>1. PICK w \in Legs(NextSink) : SinkTurn /\ Extend(w)
    BY <1>7 DEF ExtendTo
  <2>2. outcome' = "routing" /\ segs' = segs \o Segments(w)
    BY <2>1 DEF Extend, SinkTurn
  <2>3. Trunk \subseteq Free /\ segs \in Seq(Cell \X Cell)
    BY <1>1, <2>1 DEF SinkTurn, IInv, TreeInv, TypeOK
  <2>4. w \in Seq(Cell) /\ Len(w) \in Nat /\ Len(w) >= 2
    BY <2>3, LegIs
  <2>5. Len(Segments(w)) >= 1 /\ Segments(w) \in Seq(Cell \X Cell)
    <3>1. /\ Segments(w) = [k \in 1 .. Len(w) - 1 |-> <<w[k], w[k+1]>>]
          /\ \A k \in 1 .. Len(w) - 1 : <<w[k], w[k+1]>> \in Cell \X Cell
      BY <2>4 DEF Segments
    <3> QED BY <2>4, <3>1
  <2>6. segs' # <<>>
    BY <2>2, <2>3, <2>5
  <2> QED BY <2>2, <2>6 DEF LaidInv, RoutedInv
<1>8. ASSUME UNCHANGED vars PROVE LaidInv' /\ RoutedInv'
  BY <1>8, StandingSized DEF vars
<1>9. ASSUME NoCandidates \/ NoDock \/ NoLeg \/ Reject PROVE LaidInv' /\ RoutedInv'
  BY <1>4, <1>9 DEF NoCandidates, NoDock, NoLeg, Reject
<1>10. ASSUME Size PROVE LaidInv' /\ RoutedInv'
  BY <1>10, SizeSized
<1>11. LaidInv' /\ RoutedInv'
  BY <1>5, <1>6, <1>7, <1>8, <1>9, <1>10 DEF Next
<1> QED BY <1>1, <1>11 DEF SizedInv

THEOREM SizedInductive == Spec => []SizedInv
BY InitSized, NextSized, PTL DEF Spec

(* Of a returned trunk every segment is the thinnest cable for its amps.   *)
LEMMA BuiltFor ==
  ASSUME SizedInv, outcome = "routed"
  PROVE  /\ PoweredTree /\ segs # <<>> /\ DOMAIN gauge = Trunk \ {Root}
         /\ \A c \in DOMAIN gauge :
              /\ gauge[c] \in Gauges /\ Amps(Parent[c], c, Subtree) <= gauge[c]
              /\ \A g \in Gauges : Amps(Parent[c], c, Subtree) <= g => gauge[c] <= g
<1>1. IInv /\ LaidInv /\ RoutedInv
  BY DEF SizedInv
<1>2. PoweredTree
  BY <1>1, PoweredIs DEF RoutedInv
<1>3. segs # <<>>
  <2>1. LastSink \in Endpoint
    BY <1>1, LastSinkIs DEF IInv
  <2> QED BY <1>1, <2>1 DEF LaidInv, RoutedInv
<1>4. gauge = [c \in Trunk \ {Root} |-> GaugeFor(Amps(Parent[c], c, Subtree))]
  BY <1>1 DEF RoutedInv
<1>5. \A c \in Trunk \ {Root} : /\ Amps(Parent[c], c, Subtree) \in Nat
                                /\ Amps(Parent[c], c, Subtree) <= Max(Gauges)
  BY <1>1, <1>2, AmpsAre DEF RoutedInv
<1> QED BY <1>2, <1>3, <1>4, <1>5, GaugeIs

(* No block of a returned cable burns: what is built is enough for all     *)
(* that may flow through it, at the source for the whole output.           *)
THEOREM NothingBurns == Spec => []NoBlockBurns
<1>1. ASSUME SizedInv PROVE NoBlockBurns
  <2> SUFFICES ASSUME outcome = "routed" PROVE segs # <<>> /\ \A c \in Trunk : Through(c) <= Built(c)
    BY DEF NoBlockBurns
  <2>1. /\ PoweredTree /\ LaidTree /\ segs # <<>> /\ DOMAIN gauge = Trunk \ {Root}
        /\ \A c \in DOMAIN gauge : gauge[c] \in Gauges /\ Amps(Parent[c], c, Subtree) <= gauge[c]
    BY <1>1, BuiltFor DEF PoweredTree, DockedTree
  <2>2. Gauges \subseteq Nat /\ IsFiniteSet(Gauges)
    BY GaugeAssumption
  <2>3. ASSUME NEW c \in Trunk
        PROVE  \E d \in DOMAIN gauge : (d = c \/ Parent[d] = c) /\ Through(c) <= gauge[d]
    <3>1. ASSUME NEW d \in DOMAIN gauge, Through(c) <= Amps(Parent[d], d, Subtree)
          PROVE  Through(c) <= gauge[d]
      <4>1. Through(c) \in Nat /\ Amps(Parent[d], d, Subtree) \in Nat /\ gauge[d] \in Nat
        BY <2>1, <2>2, AmpsAre
      <4> QED BY <2>1, <3>1, <4>1
    <3>2. CASE c # Root
      <4>1. c \in DOMAIN gauge /\ Through(c) <= Amps(Parent[c], c, Subtree)
        BY <2>1, <3>2, AmpsAre
      <4> QED BY <3>1, <4>1
    <3>3. CASE c = Root
      <4>1. 1 \in Seg /\ segs[1][1] = Root
        <5>1. Seg = 1 .. Len(segs) /\ Len(segs) \in Nat /\ Len(segs) # 0
          BY <2>1, EntryIs DEF LaidTree
        <5>2. segs[1][1] \in {Root} \cup {segs[j][2] : j \in 1 .. 1 - 1}
          BY <2>1, <5>1 DEF LaidTree, TreeInv
        <5> QED BY <5>1, <5>2
      <4> DEFINE d == segs[1][2]
      <4>2. d \in DOMAIN gauge /\ Parent[d] = Root
        BY <2>1, <4>1, EntryIs
      <4>3. Through(c) <= Output /\ Amps(Parent[d], d, Subtree) = Output
        BY <2>1, <4>2, AmpsAre
      <4> HIDE DEF d
      <4> QED BY <3>1, <3>3, <4>2, <4>3
    <3> QED BY <3>2, <3>3
  <2>4. ASSUME NEW c \in Trunk PROVE Through(c) <= Built(c)
    <3> DEFINE V == {gauge[d] : d \in {e \in DOMAIN gauge : e = c \/ Parent[e] = c}}
    <3>1. PICK d \in DOMAIN gauge : (d = c \/ Parent[d] = c) /\ Through(c) <= gauge[d]
      BY <2>3
    <3>2. V \subseteq Gauges /\ gauge[d] \in V
      BY <2>1, <3>1
    <3>3. V \subseteq Nat /\ IsFiniteSet(V)
      BY <2>2, <3>2, FS_Subset
    <3>4. Built(c) = Max(V)
      BY DEF Built
    <3> HIDE DEF V
    <3>5. Max(V) \in V /\ gauge[d] <= Max(V)
      BY <3>2, <3>3, FiniteMax
    <3>6. Through(c) \in Nat /\ gauge[d] \in Nat /\ Max(V) \in Nat
      BY <2>1, <3>2, <3>3, <3>5, AmpsAre
    <3> QED BY <3>1, <3>4, <3>5, <3>6
  <2> QED BY <2>1, <2>4
<1>2. SizedInv => NoBlockBurns
  BY <1>1
<1>3. Spec => []SizedInv
  BY SizedInductive
<1> QED BY <1>2, <1>3, PTL

(* Nor is cable wasted: off the source's own block no thinner cable would  *)
(* carry what may flow through a segment.                                  *)
THEOREM NothingWasted == Spec => []NoWastedCable
<1>1. ASSUME SizedInv PROVE NoWastedCable
  <2> SUFFICES ASSUME outcome = "routed", NEW c \in DOMAIN gauge, Parent[c] # Root,
                      NEW g \in Gauges, Through(c) <= g
               PROVE  gauge[c] <= g
    BY DEF NoWastedCable
  <2>1. /\ PoweredTree /\ c \in Trunk \ {Root}
        /\ Amps(Parent[c], c, Subtree) <= g => gauge[c] <= g
    BY <1>1, BuiltFor
  <2>2. /\ Through(c) \in Nat /\ Amps(Parent[c], c, Subtree) \in Nat
        /\ Amps(Parent[c], c, Subtree) <= Through(c)
    BY <2>1, AmpsAre
  <2>3. g \in Nat
    BY GaugeAssumption
  <2> QED BY <2>1, <2>2, <2>3
<1>2. SizedInv => NoWastedCable
  BY <1>1
<1>3. Spec => []SizedInv
  BY SizedInductive
<1> QED BY <1>2, <1>3, PTL
=============================================================================
