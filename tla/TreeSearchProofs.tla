-------------------------- MODULE TreeSearchProofs --------------------------
(***************************************************************************)
(* What one search over the grid answers, for every region, every set of   *)
(* walls and all prices: the distances TreeSearch computes in rounds solve *)
(* the equations of a shortest way, and the best offer is the only one.    *)
(***************************************************************************)
EXTENDS TreeSearch, TLAPS, FiniteSetTheorems, WellFoundedInduction

-----------------------------------------------------------------------------
(* Natural numbers.                                                        *)

(* A set of naturals has a least element, and Min is it.                   *)
LEMMA MinIs ==
  ASSUME NEW S, S \subseteq Nat, S # {}
  PROVE  Min(S) \in S /\ \A y \in S : Min(S) <= y
<1>1. PICK x \in S : \A y \in S : ~(<<y, x>> \in OpToRel(<, Nat))
  BY NatLessThanWellFounded, WFMin
<1>2. \A y \in S : ~(y < x)
  BY <1>1 DEF OpToRel
<1>3. \A y \in S : x <= y
  BY <1>2
<1> QED BY <1>3 DEF Min

(* A bounded one has a greatest element, and Max is it.                    *)
LEMMA MaxIs ==
  ASSUME NEW S, S \subseteq Nat, S # {}, NEW n \in Nat, \A y \in S : y <= n
  PROVE  Max(S) \in S /\ \A y \in S : y <= Max(S)
<1> DEFINE gaps == {n - y : y \in S}
<1>1. gaps \subseteq Nat /\ gaps # {}
  <2>1. \A y \in S : n - y \in Nat
    OBVIOUS
  <2> QED BY <2>1
<1>2. Min(gaps) \in gaps /\ \A g \in gaps : Min(gaps) <= g
  BY <1>1, MinIs
<1>3. PICK x \in S : n - x = Min(gaps)
  BY <1>2
<1>4. \A y \in S : x >= y
  <2> TAKE y \in S
  <2>1. n - x <= n - y
    BY <1>2, <1>3
  <2> QED BY <2>1
<1> HIDE DEF gaps
<1> QED BY <1>4 DEF Max

(* A set that holds 0 and, with k, k + 1 holds every number up to n.       *)
LEMMA UpTo ==
  ASSUME NEW n \in Nat, NEW S, 0 \in S, \A k \in 0 .. n - 1 : k \in S => k + 1 \in S
  PROVE  \A k \in 0 .. n : k \in S
<1> DEFINE missing == (0 .. n) \ S
<1>1. SUFFICES ASSUME missing # {} PROVE FALSE
  OBVIOUS
<1>2. Min(missing) \in missing /\ \A y \in missing : Min(missing) <= y
  BY <1>1, MinIs
<1> DEFINE k == Min(missing)
<1>3. k \in 0 .. n /\ k # 0 /\ k \notin S
  BY <1>2
<1> HIDE DEF k
<1>4. k - 1 \in 0 .. n - 1 /\ k - 1 \notin missing
  BY <1>2, <1>3 DEF k
<1>5. k - 1 \in S
  BY <1>4
<1> QED BY <1>3, <1>4, <1>5

(* A finite set of naturals is bounded.                                    *)
LEMMA FiniteMax ==
  ASSUME NEW S, S \subseteq Nat, S # {}, IsFiniteSet(S)
  PROVE  Max(S) \in S /\ \A y \in S : y <= Max(S)
<1>1. PICK n \in Nat : ExistsBijection(1 .. n, S)
  BY FS_NatBijection
<1>2. PICK f \in [1 .. n -> S] : \A g \in S : \E k \in 1 .. n : f[k] = g
  BY <1>1 DEF ExistsBijection, Bijection, Surjection
<1> DEFINE Bounded(k) == \E m \in Nat : \A j \in 1 .. k : f[j] <= m
           T == {k \in 0 .. n : Bounded(k)}
<1>3. Bounded(0) /\ \A j \in 1 .. n : f[j] \in Nat
  <2>1. \A j \in 1 .. 0 : f[j] <= 0
    OBVIOUS
  <2>2. \A j \in 1 .. n : f[j] \in S
    OBVIOUS
  <2> QED BY <2>1, <2>2
<1>4. ASSUME NEW k \in 0 .. n - 1, Bounded(k) PROVE Bounded(k + 1)
  <2>1. PICK m \in Nat : \A j \in 1 .. k : f[j] <= m
    BY <1>4
  <2>2. k + 1 \in 1 .. n /\ f[k+1] \in Nat /\ \A j \in 1 .. k : f[j] \in Nat
    BY <1>3
  <2>3. m + f[k+1] \in Nat /\ \A j \in 1 .. k + 1 : f[j] <= m + f[k+1]
    BY <2>1, <2>2
  <2> QED BY <2>3
<1>5. Bounded(n)
  <2> HIDE DEF Bounded
  <2>1. 0 \in T /\ \A k \in 0 .. n - 1 : k \in T => k + 1 \in T
    BY <1>3, <1>4
  <2> HIDE DEF T
  <2>2. \A k \in 0 .. n : k \in T
    BY <2>1, UpTo
  <2> QED BY <2>2 DEF T
<1>6. PICK m \in Nat : \A j \in 1 .. n : f[j] <= m
  BY <1>5
<1>7. \A g \in S : g <= m
  BY <1>2, <1>6
<1> QED BY <1>7, MaxIs

(* g lists what repeating the step F on b gives, n times.                  *)
Repeats(g, T, b, F, n) ==
  g \in [0 .. n -> T] /\ g[0] = b /\ \A k \in 1 .. n : g[k] = F[g[k-1]]

(* Repeating a step n times defines a function.                            *)
LEMMA Rounds ==
  ASSUME NEW T, NEW b \in T, NEW F \in [T -> T], NEW n \in Nat
  PROVE  \E g : Repeats(g, T, b, F, n)
<1> DEFINE S == {m \in 0 .. n : \E g \in [0 .. m -> T] :
                   g[0] = b /\ \A k \in 1 .. m : g[k] = F[g[k-1]]}
<1>1. 0 \in S
  <2> DEFINE g == [k \in 0 .. 0 |-> b]
  <2>1. g \in [0 .. 0 -> T] /\ g[0] = b /\ \A k \in 1 .. 0 : g[k] = F[g[k-1]]
    OBVIOUS
  <2> HIDE DEF g
  <2>2. 0 \in 0 .. n
    OBVIOUS
  <2> QED BY <2>1, <2>2
<1>2. \A m \in 0 .. n - 1 : m \in S => m + 1 \in S
  <2> SUFFICES ASSUME NEW m \in 0 .. n - 1, m \in S PROVE m + 1 \in S
    OBVIOUS
  <2>1. PICK g \in [0 .. m -> T] : g[0] = b /\ \A k \in 1 .. m : g[k] = F[g[k-1]]
    OBVIOUS
  <2> DEFINE h == [k \in 0 .. m + 1 |-> IF k <= m THEN g[k] ELSE F[g[m]]]
  <2>2. h \in [0 .. m + 1 -> T]
    OBVIOUS
  <2>3. h[0] = b
    BY <2>1
  <2>4. ASSUME NEW k \in 1 .. m + 1 PROVE h[k] = F[h[k-1]]
    <3>1. CASE k <= m
      <4>1. k - 1 \in 0 .. m /\ k \in 1 .. m
        BY <3>1
      <4>2. h[k] = g[k] /\ h[k-1] = g[k-1] /\ g[k] = F[g[k-1]]
        BY <2>1, <3>1, <4>1
      <4> QED BY <4>2
    <3>2. CASE k = m + 1
      <4>1. h[k] = F[g[m]] /\ h[k-1] = g[m]
        BY <3>2
      <4> QED BY <4>1
    <3> QED BY <3>1, <3>2
  <2> HIDE DEF h
  <2> QED BY <2>2, <2>3, <2>4
<1> HIDE DEF S
<1>3. n \in S
  BY <1>1, <1>2, UpTo
<1> QED BY <1>3 DEF S, Repeats

(* A function that starts at b and goes on by F where it stays in T is     *)
(* that repetition.                                                        *)
LEMMA Unrolls ==
  ASSUME NEW T, NEW b \in T, NEW F \in [T -> T], NEW n \in Nat,
         NEW d, d = [k \in 0 .. n |-> d[k]], d[0] = b,
         \A k \in 1 .. n : d[k-1] \in T => d[k] = F[d[k-1]]
  PROVE  Repeats(d, T, b, F, n)
<1> DEFINE S == {k \in 0 .. n : d[k] \in T}
<1>1. 0 \in S
  OBVIOUS
<1>2. \A k \in 0 .. n - 1 : k \in S => k + 1 \in S
  <2> SUFFICES ASSUME NEW k \in 0 .. n - 1, d[k] \in T PROVE k + 1 \in S
    OBVIOUS
  <2>1. k + 1 \in 1 .. n /\ (k + 1) - 1 = k /\ k + 1 \in 0 .. n
    OBVIOUS
  <2>2. d[k+1] = F[d[k]]
    BY <2>1
  <2> QED BY <2>1, <2>2
<1> HIDE DEF S
<1>3. \A k \in 0 .. n : k \in S
  BY <1>1, <1>2, UpTo
<1>4. \A k \in 0 .. n : d[k] \in T
  BY <1>3 DEF S
<1>5. \A k \in 1 .. n : k - 1 \in 0 .. n
  OBVIOUS
<1>6. \A k \in 1 .. n : d[k] = F[d[k-1]]
  BY <1>4, <1>5
<1> QED BY <1>4, <1>6 DEF Repeats

-----------------------------------------------------------------------------
(* The grid.                                                               *)

LEMMA CellFinite ==
  /\ Cell \subseteq Nat
  /\ IsFiniteSet(Cell) /\ Cardinality(Cell) \in Nat
<1>1. SX * SY * SZ \in Nat
  BY RegionAssumption
<1>2. SX * SY * SZ - 1 \in Int
  BY <1>1
<1> HIDE RegionAssumption
<1>3. IsFiniteSet(Cell)
  BY <1>2, FS_Interval DEF Cell
<1> QED BY <1>2, <1>3, FS_CardinalityType DEF Cell

(* Tabulating a function gives the function.                               *)
LEMMA TableIs ==
  ASSUME NEW S, NEW T, NEW f \in [S -> T]
  PROVE  Table(f) = f
BY DEF Table

LEMMA BesideIs ==
  /\ Beside = [c \in Cell |-> {n \in Cell : c \in Adj(n)}]
  /\ \A c \in Cell : Beside[c] \subseteq Cell
<1> DEFINE into == [c \in Cell |-> {n \in Cell : c \in Adj(n)}]
<1>1. into \in [Cell -> SUBSET Cell]
  OBVIOUS
<1>2. Beside = Table(into)
  BY DEF Beside
<1> HIDE DEF into
<1>3. Table(into) = into
  BY <1>1, TableIs
<1> QED BY <1>1, <1>2, <1>3 DEF into

-----------------------------------------------------------------------------
(* The equations of a shortest way.                                        *)

Field == [Cell -> 0 .. Infinity]

LEMMA InfinityIs == Infinity \in Nat \ {0}
BY SMT DEF Infinity

(* What a caller hands over: entry costs of some cells, prices of all.     *)
Priced(seeds, extra) ==
  /\ DOMAIN seeds \subseteq Cell
  /\ \A c \in DOMAIN seeds : seeds[c] \in 0 .. Infinity
  /\ extra \in [Cell -> Nat]

Seeded(seeds) == [c \in Cell |-> IF c \in DOMAIN seeds THEN seeds[c] ELSE Infinity]

(* Nothing is cheaper by one step than x says.                             *)
Relaxed(x, seeds, extra, blocked) ==
  /\ x \in Field
  /\ \A c \in Cell : x[c] <= Seeded(seeds)[c]
  /\ \A c \in Cell \ (blocked \cup Hard) : \A n \in Beside[c] : x[c] <= x[n] + StepCost(extra, c)

(* Every cost x gives is that of a seed or comes by one step.              *)
Reached(x, seeds, extra, blocked) ==
  \A c \in Cell :
    \/ x[c] = Infinity
    \/ c \in DOMAIN seeds /\ x[c] = seeds[c]
    \/ c \notin blocked \cup Hard /\ \E n \in Beside[c] : x[c] = x[n] + StepCost(extra, c)

LEMMA SeededType ==
  ASSUME NEW seeds, NEW extra, Priced(seeds, extra)
  PROVE  /\ Seeded(seeds) \in Field
         /\ \A c \in Cell : StepCost(extra, c) \in Nat /\ StepCost(extra, c) >= 1
BY InfinityIs DEF Seeded, Field, Priced, StepCost

(* The greatest relaxed function is reached: it is the cheapest cost.      *)
LEMMA GreatestRelaxed ==
  ASSUME NEW seeds, NEW extra, NEW blocked, Priced(seeds, extra)
  PROVE  \E x : /\ Relaxed(x, seeds, extra, blocked) /\ Reached(x, seeds, extra, blocked)
                /\ \A y : Relaxed(y, seeds, extra, blocked) => \A c \in Cell : y[c] <= x[c]
<1> DEFINE L == {y \in Field : Relaxed(y, seeds, extra, blocked)}
           zero == [c \in Cell |-> 0]
           x == [c \in Cell |-> Max({y[c] : y \in L})]
<1>0. Seeded(seeds) \in Field /\ \A c \in Cell : StepCost(extra, c) \in Nat /\ StepCost(extra, c) >= 1
  BY SeededType
<1>1. zero \in L
  <2>1. zero \in Field
    BY InfinityIs DEF Field
  <2>2. \A c \in Cell : zero[c] = 0 /\ Beside[c] \subseteq Cell /\ 0 <= Seeded(seeds)[c]
    BY <1>0, BesideIs, InfinityIs DEF Field
  <2>3. \A c \in Cell : \A n \in Beside[c] : zero[c] <= zero[n] + StepCost(extra, c)
    BY <1>0, <2>2
  <2> HIDE DEF zero
  <2> QED BY <2>1, <2>2, <2>3 DEF Relaxed
<1>2. ASSUME NEW c \in Cell
      PROVE  /\ x[c] \in 0 .. Infinity
             /\ \E y \in L : x[c] = y[c]
             /\ \A y \in L : y[c] <= x[c]
  <2> DEFINE V == {y[c] : y \in L}
  <2>1. V \subseteq 0 .. Infinity /\ V # {}
    BY <1>1 DEF Field
  <2>2. V \subseteq Nat /\ Infinity \in Nat /\ \A v \in V : v <= Infinity
    BY <2>1, InfinityIs
  <2>3. Max(V) \in V /\ \A v \in V : v <= Max(V)
    BY <2>1, <2>2, MaxIs
  <2>4. x[c] = Max(V)
    OBVIOUS
  <2> QED BY <2>1, <2>3, <2>4
<1>3. Relaxed(x, seeds, extra, blocked)
  <2>1. x \in Field
    BY <1>2 DEF Field
  <2>2. ASSUME NEW c \in Cell PROVE x[c] <= Seeded(seeds)[c]
    <3>1. PICK y \in L : x[c] = y[c]
      BY <1>2
    <3> QED BY <3>1 DEF Relaxed
  <2>3. ASSUME NEW c \in Cell \ (blocked \cup Hard), NEW n \in Beside[c]
        PROVE  x[c] <= x[n] + StepCost(extra, c)
    <3>1. PICK y \in L : x[c] = y[c]
      BY <1>2
    <3>2. n \in Cell /\ y[c] <= y[n] + StepCost(extra, c)
      BY <3>1, BesideIs DEF Relaxed
    <3>3. y[n] <= x[n] /\ y[n] \in Nat /\ x[n] \in Nat /\ x[c] \in Nat
      BY <1>2, <3>2, InfinityIs DEF Field
    <3> HIDE DEF x
    <3> QED BY <1>0, <3>1, <3>2, <3>3
  <2> HIDE DEF x
  <2> QED BY <2>1, <2>2, <2>3 DEF Relaxed
<1>4. Reached(x, seeds, extra, blocked)
  <2> SUFFICES ASSUME NEW c \in Cell, x[c] # Infinity,
                      ~(c \in DOMAIN seeds /\ x[c] = seeds[c]),
                      ~(c \notin blocked \cup Hard /\ \E n \in Beside[c] : x[c] = x[n] + StepCost(extra, c))
               PROVE  FALSE
    BY DEF Reached
  <2> HIDE DEF x, L
  <2> DEFINE y == [x EXCEPT ![c] = @ + 1]
  <2>1. x \in Field /\ x[c] + 1 \in 0 .. Infinity
    BY <1>2, <1>3, InfinityIs DEF Relaxed, Field
  <2>2. y \in Field /\ y[c] = x[c] + 1 /\ \A d \in Cell : d # c => y[d] = x[d]
    BY <2>1 DEF Field
  <2> HIDE DEF y
  <2>3. \A d \in Cell : x[d] \in Nat /\ y[d] \in Nat /\ x[d] <= y[d]
    BY <2>1, <2>2, InfinityIs DEF Field
  <2>4. ASSUME NEW d \in Cell PROVE y[d] <= Seeded(seeds)[d]
    <3>1. x[d] <= Seeded(seeds)[d]
      BY <1>3 DEF Relaxed
    <3>2. CASE d = c
      <4>1. x[c] # Seeded(seeds)[c] /\ Seeded(seeds)[c] \in Nat
        BY <1>0, InfinityIs DEF Seeded, Field
      <4> QED BY <2>2, <2>3, <3>1, <3>2, <4>1
    <3> QED BY <2>2, <3>1, <3>2
  <2>5. ASSUME NEW d \in Cell \ (blocked \cup Hard), NEW n \in Beside[d]
        PROVE  y[d] <= y[n] + StepCost(extra, d)
    <3>1. n \in Cell /\ x[d] <= x[n] + StepCost(extra, d)
      BY <1>3, BesideIs DEF Relaxed
    <3>2. CASE d = c
      <4>1. x[c] # x[n] + StepCost(extra, c)
        BY <3>2
      <4> QED BY <1>0, <2>2, <2>3, <3>1, <3>2, <4>1
    <3> QED BY <1>0, <2>2, <2>3, <3>1, <3>2
  <2>6. y \in L
    BY <2>2, <2>4, <2>5 DEF Relaxed, L
  <2>7. y[c] <= x[c]
    BY <1>2, <2>6
  <2> QED BY <2>2, <2>3, <2>7
<1>5. ASSUME NEW y, Relaxed(y, seeds, extra, blocked), NEW c \in Cell PROVE y[c] <= x[c]
  <2>1. y \in L
    BY <1>5 DEF Relaxed
  <2> QED BY <1>2, <2>1
<1> QED BY <1>3, <1>4, <1>5

-----------------------------------------------------------------------------
(* Distances finds that cost in as many rounds as there are cells.         *)

Nearer(extra, blocked, x) ==
  [c \in Cell |->
     IF c \in blocked \cup Hard THEN x[c]
     ELSE Min({x[c]} \cup {x[n] + StepCost(extra, c) : n \in Beside[c]})]

(* y is what one round makes of x.                                         *)
OneRound(y, x, extra, blocked) ==
  /\ y \in Field
  /\ \A c \in Cell : y[c] <= x[c]
  /\ \A c \in Cell \ (blocked \cup Hard) : \A n \in Beside[c] : y[c] <= x[n] + StepCost(extra, c)
  /\ \A c \in Cell :
       \/ y[c] = x[c]
       \/ c \notin blocked \cup Hard /\ \E n \in Beside[c] : y[c] = x[n] + StepCost(extra, c)

LEMMA NearerIs ==
  ASSUME NEW seeds, NEW extra, NEW blocked, Priced(seeds, extra), NEW x \in Field,
         NEW y, y = Nearer(extra, blocked, x)
  PROVE  OneRound(y, x, extra, blocked)
<1>1. \A c \in Cell : StepCost(extra, c) \in Nat /\ x[c] \in Nat /\ x[c] <= Infinity /\ Beside[c] \subseteq Cell
  BY SeededType, BesideIs, InfinityIs DEF Field
<1>2. ASSUME NEW c \in Cell, c \in blocked \cup Hard PROVE y[c] = x[c]
  BY <1>2 DEF Nearer
<1>3. ASSUME NEW c \in Cell \ (blocked \cup Hard)
      PROVE  /\ y[c] = x[c] \/ \E n \in Beside[c] : y[c] = x[n] + StepCost(extra, c)
             /\ y[c] \in Nat /\ y[c] <= x[c]
             /\ \A n \in Beside[c] : y[c] <= x[n] + StepCost(extra, c)
  <2> DEFINE V == {x[c]} \cup {x[n] + StepCost(extra, c) : n \in Beside[c]}
  <2>1. V \subseteq Nat /\ V # {}
    BY <1>1
  <2>2. Min(V) \in V /\ \A v \in V : Min(V) <= v
    BY <2>1, MinIs
  <2>3. y[c] = Min(V)
    BY DEF Nearer
  <2>4. y[c] \in V /\ \A v \in V : y[c] <= v
    BY <2>2, <2>3
  <2>5. x[c] \in V /\ \A n \in Beside[c] : x[n] + StepCost(extra, c) \in V
    OBVIOUS
  <2> QED BY <2>1, <2>4, <2>5
<1>4. \A c \in Cell : y[c] \in Nat /\ y[c] <= x[c]
  BY <1>1, <1>2, <1>3
<1>5. y \in Field
  <2>1. \A c \in Cell : y[c] \in 0 .. Infinity
    <3> QED BY <1>1, <1>4, InfinityIs
  <2>2. y = [c \in Cell |-> y[c]]
    BY DEF Nearer
  <2> QED BY <2>1, <2>2 DEF Field
<1>6. \A c \in Cell : y[c] = x[c] \/ (c \notin blocked \cup Hard /\ \E n \in Beside[c] : y[c] = x[n] + StepCost(extra, c))
  BY <1>2, <1>3
<1>7. \A c \in Cell \ (blocked \cup Hard) : \A n \in Beside[c] : y[c] <= x[n] + StepCost(extra, c)
  BY <1>3
<1> QED BY <1>4, <1>5, <1>6, <1>7 DEF OneRound

(* The rounds TreeSearch computes.                                         *)
LEMMA DistanceRounds ==
  ASSUME NEW seeds, NEW extra, NEW blocked, Priced(seeds, extra)
  PROVE  \E d \in [0 .. Cardinality(Cell) -> Field] :
           /\ Distances(seeds, extra, blocked) = d[Cardinality(Cell)]
           /\ d[0] = Seeded(seeds)
           /\ \A k \in 1 .. Cardinality(Cell) : d[k] = Nearer(extra, blocked, d[k-1])
<1> DEFINE N == Cardinality(Cell)
           Body(d) == [k \in 0 .. N |->
             IF k = 0
             THEN [c \in Cell |-> IF c \in DOMAIN seeds THEN seeds[c] ELSE Infinity]
             ELSE [c \in Cell |->
                     IF c \in blocked \cup Hard THEN Table(d[k-1])[c]
                     ELSE Min({Table(d[k-1])[c]} \cup
                              {Table(d[k-1])[n] + StepCost(extra, c) : n \in Beside[c]})]]
           d == CHOOSE f : f = Body(f)
           F == [x \in Field |-> Nearer(extra, blocked, x)]
<1>1. N \in Nat
  BY CellFinite
<1>2. Distances(seeds, extra, blocked) = Table(d[N])
  BY DEF Distances
<1>3. ASSUME NEW x \in Field PROVE Table(x) = x
  BY TableIs DEF Field
<1>4. Seeded(seeds) \in Field /\ \A x \in Field : Nearer(extra, blocked, x) \in Field
  BY SeededType, NearerIs DEF OneRound
<1>5. F \in [Field -> Field] /\ \A x \in Field : F[x] = Nearer(extra, blocked, x)
  BY <1>4
<1> HIDE DEF N, F
<1>6. PICK g : Repeats(g, Field, Seeded(seeds), F, N)
  BY <1>1, <1>4, <1>5, Rounds
<1>7. ASSUME NEW f, NEW k \in 0 .. N
      PROVE  Body(f)[k] = IF k = 0 THEN Seeded(seeds) ELSE Nearer(extra, blocked, Table(f[k-1]))
  BY DEF Seeded, Nearer
<1>8. ASSUME NEW f, \A k \in 1 .. N : f[k-1] \in Field
      PROVE  Body(f) = [k \in 0 .. N |-> IF k = 0 THEN Seeded(seeds) ELSE F[f[k-1]]]
  <2>1. ASSUME NEW k \in 0 .. N
        PROVE  Body(f)[k] = IF k = 0 THEN Seeded(seeds) ELSE F[f[k-1]]
    <3> HIDE DEF Body
    <3>1. CASE k = 0
      BY <1>7, <3>1
    <3>2. CASE k # 0
      <4>1. k \in 1 .. N
        BY <1>1, <3>2
      <4>2. f[k-1] \in Field
        BY <1>8, <4>1
      <4> QED BY <1>3, <1>5, <1>7, <3>2, <4>2
    <3> QED BY <3>1, <3>2
  <2>2. Body(f) = [k \in 0 .. N |-> Body(f)[k]]
    OBVIOUS
  <2> HIDE DEF Body
  <2> QED BY <2>1, <2>2
<1>9. g = Body(g)
  <2>1. \A k \in 1 .. N : k - 1 \in 0 .. N
    BY <1>1
  <2>2. \A k \in 1 .. N : g[k-1] \in Field
    BY <1>6, <2>1 DEF Repeats
  <2>3. ASSUME NEW k \in 0 .. N PROVE g[k] = IF k = 0 THEN Seeded(seeds) ELSE F[g[k-1]]
    BY <1>1, <1>6 DEF Repeats
  <2>4. g = [k \in 0 .. N |-> g[k]]
    BY <1>6 DEF Repeats
  <2> HIDE DEF Body
  <2>5. Body(g) = [k \in 0 .. N |-> IF k = 0 THEN Seeded(seeds) ELSE F[g[k-1]]]
    BY <1>8, <2>2
  <2> QED BY <2>3, <2>4, <2>5
<1>10. d = Body(d)
  <2> HIDE DEF Body
  <2> QED BY <1>9
<1> HIDE DEF d
<1>11. \A k \in 0 .. N : d[k] \in Field
  <2> DEFINE S == {k \in 0 .. N : d[k] \in Field}
  <2>1. ASSUME NEW k \in 0 .. N
        PROVE d[k] = IF k = 0 THEN Seeded(seeds) ELSE Nearer(extra, blocked, Table(d[k-1]))
    <3> HIDE DEF Body
    <3> QED BY <1>7, <1>10
  <2> HIDE DEF Body
  <2>2. 0 \in S
    BY <1>1, <1>4, <2>1
  <2>3. \A k \in 0 .. N - 1 : k \in S => k + 1 \in S
    <3> SUFFICES ASSUME NEW k \in 0 .. N - 1, d[k] \in Field PROVE k + 1 \in S
      OBVIOUS
    <3>1. k + 1 \in 0 .. N /\ k + 1 # 0 /\ (k + 1) - 1 = k
      BY <1>1
    <3>2. d[k+1] = Nearer(extra, blocked, d[k])
      BY <1>3, <2>1, <3>1
    <3> QED BY <1>4, <3>1, <3>2
  <2> HIDE DEF S
  <2>4. \A k \in 0 .. N : k \in S
    BY <1>1, <2>2, <2>3, UpTo
  <2> QED BY <2>4 DEF S
<1>12. \A k \in 1 .. N : k - 1 \in 0 .. N /\ k \in 0 .. N /\ k # 0
  BY <1>1
<1>13. d = [k \in 0 .. N |-> IF k = 0 THEN Seeded(seeds) ELSE F[d[k-1]]]
  <2> HIDE DEF Body
  <2> QED BY <1>8, <1>10, <1>11, <1>12
<1> HIDE DEF Body
<1>14. d \in [0 .. N -> Field]
  BY <1>11, <1>13
<1>15. 0 \in 0 .. N /\ N \in 0 .. N
  BY <1>1
<1>16. d[0] = Seeded(seeds)
  BY <1>13, <1>15
<1>17. \A k \in 1 .. N : d[k] = Nearer(extra, blocked, d[k-1])
  BY <1>5, <1>11, <1>12, <1>13
<1>18. Distances(seeds, extra, blocked) = d[N]
  BY <1>2, <1>3, <1>11, <1>15
<1> QED BY <1>14, <1>16, <1>17, <1>18 DEF N

(* How many cells are strictly cheaper than c.                             *)
Rank(x, c) == Cardinality({b \in Cell : x[b] < x[c]})

LEMMA RankIs ==
  ASSUME NEW x \in Field, NEW c \in Cell
  PROVE  /\ Rank(x, c) \in 0 .. Cardinality(Cell)
         /\ \A n \in Cell : x[n] < x[c] => Rank(x, n) < Rank(x, c)
<1> DEFINE Under(b) == {a \in Cell : x[a] < x[b]}
<1>1. \A b \in Cell : x[b] \in Nat
  BY InfinityIs DEF Field
<1>2. ASSUME NEW b \in Cell
      PROVE  IsFiniteSet(Under(b)) /\ Rank(x, b) \in Nat /\ Rank(x, b) = Cardinality(Under(b))
  <2>1. Under(b) \in SUBSET Cell
    OBVIOUS
  <2>2. IsFiniteSet(Under(b))
    BY <2>1, CellFinite, FS_Subset
  <2> QED BY <2>2, FS_CardinalityType DEF Rank
<1>3. Rank(x, c) <= Cardinality(Cell)
  <2>1. Under(c) \in SUBSET Cell
    OBVIOUS
  <2> HIDE DEF Under
  <2> QED BY <1>2, <2>1, CellFinite, FS_Subset
<1>4. ASSUME NEW n \in Cell, x[n] < x[c] PROVE Rank(x, n) < Rank(x, c)
  <2>1. Under(n) \in SUBSET Under(c)
    BY <1>1, <1>4
  <2>2. n \in Under(c) /\ n \notin Under(n)
    BY <1>1, <1>4
  <2> HIDE DEF Under
  <2>3. Cardinality(Under(n)) <= Cardinality(Under(c)) /\ Cardinality(Under(n)) # Cardinality(Under(c))
    BY <1>2, <2>1, <2>2, FS_Subset
  <2> QED BY <1>2, <2>3
<1> HIDE DEF Under
<1> QED BY <1>2, <1>3, <1>4, CellFinite

(* Distances(...) solves the equations of a shortest way: no cell is       *)
(* cheaper by one step from another, and every cost is that of a seed or   *)
(* comes by one step.                                                      *)
THEOREM DistancesSolve ==
  ASSUME NEW seeds, NEW extra, NEW blocked, Priced(seeds, extra),
         NEW D, D = Distances(seeds, extra, blocked)
  PROVE  Relaxed(D, seeds, extra, blocked) /\ Reached(D, seeds, extra, blocked)
<1> DEFINE N == Cardinality(Cell)
<1>1. PICK x : Relaxed(x, seeds, extra, blocked) /\ Reached(x, seeds, extra, blocked)
  BY GreatestRelaxed
<1>2. PICK d \in [0 .. N -> Field] :
        D = d[N] /\ d[0] = Seeded(seeds) /\ \A k \in 1 .. N : d[k] = Nearer(extra, blocked, d[k-1])
  BY DistanceRounds
<1>3. N \in Nat
  BY CellFinite
<1> HIDE DEF N
<1>4. /\ x \in Field /\ \A c \in Cell : x[c] \in Nat /\ x[c] <= Infinity
      /\ \A c \in Cell : x[c] <= Seeded(seeds)[c] /\ Seeded(seeds)[c] \in Nat
      /\ \A k \in 0 .. N : \A c \in Cell : d[k][c] \in Nat /\ d[k][c] <= Infinity
      /\ \A c \in Cell : StepCost(extra, c) \in Nat /\ StepCost(extra, c) >= 1 /\ Beside[c] \subseteq Cell
  BY <1>1, SeededType, BesideIs, InfinityIs DEF Relaxed, Field
<1>5. ASSUME NEW k \in 0 .. N - 1
      PROVE  /\ \A c \in Cell : d[k+1][c] <= d[k][c]
             /\ \A c \in Cell \ (blocked \cup Hard) : \A n \in Beside[c] :
                  d[k+1][c] <= d[k][n] + StepCost(extra, c)
             /\ \A c \in Cell :
                  \/ d[k+1][c] = d[k][c]
                  \/ c \notin blocked \cup Hard /\ \E n \in Beside[c] : d[k+1][c] = d[k][n] + StepCost(extra, c)
  <2>1. k + 1 \in 1 .. N /\ (k + 1) - 1 = k /\ k \in 0 .. N
    BY <1>3
  <2> DEFINE y == d[k+1]  z == d[k]
  <2>2. z \in Field /\ y = Nearer(extra, blocked, z)
    BY <1>2, <2>1
  <2> HIDE DEF y, z
  <2>3. OneRound(y, z, extra, blocked)
    BY <2>2, NearerIs
  <2> QED BY <2>3 DEF y, z, OneRound
<1>6. \A k \in 0 .. N : \A c \in Cell : x[c] <= d[k][c]
  <2> DEFINE S == {k \in 0 .. N : \A c \in Cell : x[c] <= d[k][c]}
  <2>1. 0 \in S
    BY <1>2, <1>3, <1>4
  <2>2. \A k \in 0 .. N - 1 : k \in S => k + 1 \in S
    <3> SUFFICES ASSUME NEW k \in 0 .. N - 1, k \in S PROVE k + 1 \in S
      OBVIOUS
    <3>1. k + 1 \in 0 .. N /\ k \in 0 .. N
      BY <1>3
    <3>2. ASSUME NEW c \in Cell PROVE x[c] <= d[k+1][c]
      <4>1. CASE d[k+1][c] = d[k][c]
        BY <4>1
      <4>2. ASSUME c \notin blocked \cup Hard,
                   NEW n \in Beside[c], d[k+1][c] = d[k][n] + StepCost(extra, c)
            PROVE  x[c] <= d[k+1][c]
        <5>1. n \in Cell /\ x[c] <= x[n] + StepCost(extra, c) /\ x[n] <= d[k][n]
          BY <1>1, <1>4, <4>2 DEF Relaxed
        <5> QED BY <1>4, <3>1, <4>2, <5>1
      <4> QED BY <1>5, <4>1, <4>2
    <3> QED BY <3>1, <3>2
  <2> HIDE DEF S
  <2>3. \A k \in 0 .. N : k \in S
    BY <1>3, <2>1, <2>2, UpTo
  <2> QED BY <2>3 DEF S
<1>7. \A k \in 0 .. N : \A c \in Cell : Rank(x, c) <= k => d[k][c] = x[c]
  <2> DEFINE S == {k \in 0 .. N : \A c \in Cell :
                     d[k][c] <= Seeded(seeds)[c] /\ (Rank(x, c) <= k => d[k][c] = x[c])}
  <2>1. ASSUME NEW k \in 0 .. N, NEW c \in Cell,
               d[k][c] <= Seeded(seeds)[c],
               \A n \in Beside[c] : x[c] = x[n] + StepCost(extra, c) /\ c \notin blocked \cup Hard =>
                                      d[k][c] <= x[n] + StepCost(extra, c)
        PROVE  d[k][c] = x[c]
    <3>1. x[c] <= d[k][c] /\ x[c] \in Nat /\ d[k][c] \in Nat /\ d[k][c] <= Infinity
      BY <1>4, <1>6
    <3>2. CASE x[c] = Infinity
      BY <3>1, <3>2
    <3>3. CASE c \in DOMAIN seeds /\ x[c] = seeds[c]
      BY <2>1, <3>1, <3>3 DEF Seeded
    <3>4. CASE c \notin blocked \cup Hard /\ \E n \in Beside[c] : x[c] = x[n] + StepCost(extra, c)
      BY <2>1, <3>1, <3>4
    <3> QED BY <1>1, <3>2, <3>3, <3>4 DEF Reached
  <2>2. ASSUME NEW c \in Cell PROVE \A n \in Beside[c] : x[c] = x[n] + StepCost(extra, c) =>
                                       n \in Cell /\ Rank(x, n) < Rank(x, c) /\ Rank(x, n) \in Nat
    <3> TAKE n \in Beside[c]
    <3> HAVE x[c] = x[n] + StepCost(extra, c)
    <3>1. n \in Cell /\ x[n] < x[c]
      BY <1>4
    <3> QED BY <1>3, <1>4, <3>1, RankIs DEF N
  <2>3. 0 \in S
    <3> SUFFICES ASSUME NEW c \in Cell, Rank(x, c) <= 0 PROVE d[0][c] = x[c]
      BY <1>2, <1>3, <1>4
    <3>1. Rank(x, c) \in 0 .. N
      BY <1>4, RankIs DEF N
    <3>2. \A n \in Beside[c] : x[c] # x[n] + StepCost(extra, c)
      BY <1>3, <2>2, <3>1
    <3> HIDE DEF S
    <3>3. 0 \in 0 .. N /\ d[0][c] <= Seeded(seeds)[c]
      BY <1>2, <1>3, <1>4
    <3> QED BY <2>1, <3>2, <3>3
  <2>4. \A k \in 0 .. N - 1 : k \in S => k + 1 \in S
    <3> SUFFICES ASSUME NEW k \in 0 .. N - 1, k \in S PROVE k + 1 \in S
      OBVIOUS
    <3>1. k + 1 \in 0 .. N /\ k \in 0 .. N /\ k \in Nat
      BY <1>3
    <3>2. \A c \in Cell : d[k][c] <= Seeded(seeds)[c] /\ (Rank(x, c) <= k => d[k][c] = x[c])
      OBVIOUS
    <3> HIDE DEF S
    <3>3. \A c \in Cell : d[k+1][c] <= Seeded(seeds)[c]
      BY <1>4, <1>5, <3>1, <3>2
    <3>4. ASSUME NEW c \in Cell, Rank(x, c) <= k + 1 PROVE d[k+1][c] = x[c]
      <4>1. ASSUME NEW n \in Beside[c], x[c] = x[n] + StepCost(extra, c), c \notin blocked \cup Hard
            PROVE  d[k+1][c] <= x[n] + StepCost(extra, c)
        <5>1. n \in Cell /\ Rank(x, n) < Rank(x, c) /\ Rank(x, n) \in Nat /\ Rank(x, c) \in 0 .. N
          BY <1>4, <2>2, <4>1, RankIs DEF N
        <5>2. d[k][n] = x[n]
          BY <1>3, <3>1, <3>2, <3>4, <5>1
        <5> QED BY <1>5, <4>1, <5>2
      <4> QED BY <2>1, <3>1, <3>3, <4>1
    <3> QED BY <3>1, <3>3, <3>4 DEF S
  <2> HIDE DEF S
  <2>5. \A k \in 0 .. N : k \in S
    BY <1>3, <2>3, <2>4, UpTo
  <2> QED BY <2>5 DEF S
<1>8. \A c \in Cell : d[N][c] = x[c]
  BY <1>3, <1>4, <1>7, RankIs DEF N
<1>9. d[N] \in Field
  BY <1>3
<1>10. D = x
  BY <1>2, <1>4, <1>8, <1>9 DEF Field
<1> QED BY <1>1, <1>10

-----------------------------------------------------------------------------
(* Packed cells and straight lines.                                        *)

LEMMA Division ==
  ASSUME NEW n \in Nat, NEW m \in Nat \ {0}
  PROVE  n \div m \in Nat /\ n % m \in 0 .. m - 1 /\ n = (n \div m) * m + (n % m)
OBVIOUS

LEMMA TimesMonotone ==
  ASSUME NEW a \in Nat, NEW b \in Nat, NEW c \in Nat, a <= b
  PROVE  a * c <= b * c
<1>1. PICK d \in Nat : b = a + d
  <2> b - a \in Nat /\ b = a + (b - a)
    OBVIOUS
  <2> QED OBVIOUS
<1>2. d * c \in Nat /\ a * c \in Nat
  OBVIOUS
<1>3. b * c = a * c + d * c
  BY <1>1
<1> QED BY <1>2, <1>3

(* Strict in the factor that grows, when the other is not zero.            *)
LEMMA TimesStrict ==
  ASSUME NEW a \in Nat, NEW b \in Nat, NEW c \in Nat \ {0}, a < b
  PROVE  a * c < b * c
<1>1. (a + 1) * c <= b * c
  BY TimesMonotone
<1>2. (a + 1) * c = a * c + c
  OBVIOUS
<1>3. a * c \in Nat /\ b * c \in Nat
  OBVIOUS
<1> QED BY <1>1, <1>2, <1>3

(* Quotient and remainder are the only ones.                               *)
LEMMA DivisionUnique ==
  ASSUME NEW m \in Nat \ {0}, NEW q \in Nat, NEW r \in 0 .. m - 1
  PROVE  (q * m + r) \div m = q /\ (q * m + r) % m = r
<1> DEFINE n == q * m + r
           p == n \div m
           s == n % m
<1>1. n \in Nat /\ q * m \in Nat
  OBVIOUS
<1>2. p \in Nat /\ s \in 0 .. m - 1 /\ n = p * m + s
  <2> HIDE DEF n
  <2> QED BY <1>1, Division
<1>3. p * m \in Nat /\ p * m + s = q * m + r
  BY <1>2
<1> HIDE DEF p, s, n
<1>4. ~(p < q)
  <2>1. p < q => (p + 1) * m <= q * m
    BY <1>2, TimesMonotone
  <2>2. (p + 1) * m = p * m + m
    BY <1>2
  <2> QED BY <1>1, <1>2, <1>3, <2>1, <2>2
<1>5. ~(q < p)
  <2>1. q < p => (q + 1) * m <= p * m
    BY <1>2, TimesMonotone
  <2>2. (q + 1) * m = q * m + m
    OBVIOUS
  <2> QED BY <1>1, <1>2, <1>3, <2>1, <2>2
<1>6. p = q
  BY <1>2, <1>4, <1>5
<1> QED BY <1>1, <1>2, <1>3, <1>6 DEF p, s, n

LEMMA Coordinates ==
  ASSUME NEW c \in Nat
  PROVE  /\ X(c) \in Nat /\ Y(c) \in 0 .. SY - 1 /\ Z(c) \in 0 .. SZ - 1
         /\ c = Enc(X(c), Y(c), Z(c))
<1>1. c \div SZ \in Nat /\ Z(c) \in 0 .. SZ - 1 /\ c = (c \div SZ) * SZ + Z(c)
  BY RegionAssumption, Division DEF Z
<1>2. X(c) \in Nat /\ Y(c) \in 0 .. SY - 1 /\ c \div SZ = X(c) * SY + Y(c)
  BY <1>1, RegionAssumption, Division DEF X, Y
<1> QED BY <1>1, <1>2 DEF Enc

LEMMA Packed ==
  ASSUME NEW x \in Nat, NEW y \in 0 .. SY - 1, NEW z \in 0 .. SZ - 1
  PROVE  X(Enc(x, y, z)) = x /\ Y(Enc(x, y, z)) = y /\ Z(Enc(x, y, z)) = z
<1> DEFINE w == x * SY + y
<1>1. w \in Nat /\ w \div SY = x /\ w % SY = y
  BY RegionAssumption, DivisionUnique
<1>2. Enc(x, y, z) = w * SZ + z
  BY DEF Enc
<1> HIDE DEF w
<1>3. Enc(x, y, z) \div SZ = w /\ Enc(x, y, z) % SZ = z
  BY <1>1, <1>2, RegionAssumption, DivisionUnique
<1> QED BY <1>1, <1>3 DEF X, Y, Z

(* A step changes one coordinate by one, and meets no wall.                *)
LEMMA AdjIs ==
  ASSUME NEW n \in Nat, NEW c \in Adj(n)
  PROVE  /\ c \notin Hard
         /\ \/ X(c) \in {X(n) - 1, X(n) + 1} /\ Y(c) = Y(n) /\ Z(c) = Z(n)
            \/ X(c) = X(n) /\ Y(c) \in {Y(n) - 1, Y(n) + 1} /\ Z(c) = Z(n)
            \/ X(c) = X(n) /\ Y(c) = Y(n) /\ Z(c) \in {Z(n) - 1, Z(n) + 1}
<1> DEFINE x == X(n)  y == Y(n)  z == Z(n)
<1>1. x \in Nat /\ y \in 0 .. SY - 1 /\ z \in 0 .. SZ - 1 /\ n = (x * SY + y) * SZ + z
  BY Coordinates DEF Enc
<1>2. c \notin Hard
  BY DEF Adj
<1>3. \/ x > 0 /\ c = n + (-(SY * SZ))
      \/ y > 0 /\ c = n + (-SZ)
      \/ z > 0 /\ c = n + (-1)
      \/ z < SZ - 1 /\ c = n + 1
      \/ y < SY - 1 /\ c = n + SZ
      \/ x < SX - 1 /\ c = n + SY * SZ
  <2> DEFINE step == {<<X(n) > 0, -(SY * SZ)>>, <<Y(n) > 0, -SZ>>, <<Z(n) > 0, -1>>,
                      <<Z(n) < SZ - 1, 1>>, <<Y(n) < SY - 1, SZ>>, <<X(n) < SX - 1, SY * SZ>>}
  <2>1. c \in {n + s[2] : s \in {t \in step : t[1]}}
    <3> HIDE DEF x, y, z
    <3> QED BY Zenon DEF Adj
  <2> HIDE DEF step
  <2>2. PICK s \in step : s[1] /\ c = n + s[2]
    BY <2>1
  <2>3. \/ s = <<x > 0, -(SY * SZ)>> \/ s = <<y > 0, -SZ>> \/ s = <<z > 0, -1>>
        \/ s = <<z < SZ - 1, 1>> \/ s = <<y < SY - 1, SZ>> \/ s = <<x < SX - 1, SY * SZ>>
    BY <2>2, Zenon DEF step
  <2> HIDE DEF x, y, z
  <2>4. ASSUME NEW g \in BOOLEAN, NEW d, s = <<g, d>> PROVE g /\ c = n + d
    <3>1. s[1] = g /\ s[2] = d
      BY <2>4
    <3> QED BY <2>2, <3>1
  <2>5. /\ (x > 0) \in BOOLEAN /\ (y > 0) \in BOOLEAN /\ (z > 0) \in BOOLEAN
        /\ (z < SZ - 1) \in BOOLEAN /\ (y < SY - 1) \in BOOLEAN /\ (x < SX - 1) \in BOOLEAN
    BY <1>1, RegionAssumption
  <2> QED BY <2>3, <2>4, <2>5, Zenon
<1> HIDE DEF x, y, z
<1>4. SX \in Nat /\ SY \in Nat /\ SZ \in Nat
  BY RegionAssumption
<1>5. CASE x > 0 /\ c = n + (-(SY * SZ))
  <2>1. x - 1 \in Nat /\ c = Enc(x - 1, y, z)
    BY <1>1, <1>4, <1>5 DEF Enc
  <2> QED BY <1>1, <1>2, <2>1, Packed DEF x, y, z
<1>6. CASE x < SX - 1 /\ c = n + SY * SZ
  <2>1. x + 1 \in Nat /\ c = Enc(x + 1, y, z)
    BY <1>1, <1>4, <1>6 DEF Enc
  <2> QED BY <1>1, <1>2, <2>1, Packed DEF x, y, z
<1>7. CASE y > 0 /\ c = n + (-SZ)
  <2>1. y - 1 \in 0 .. SY - 1 /\ c = Enc(x, y - 1, z)
    BY <1>1, <1>4, <1>7 DEF Enc
  <2> QED BY <1>1, <1>2, <2>1, Packed DEF x, y, z
<1>8. CASE y < SY - 1 /\ c = n + SZ
  <2>1. y + 1 \in 0 .. SY - 1 /\ c = Enc(x, y + 1, z)
    BY <1>1, <1>4, <1>8 DEF Enc
  <2> QED BY <1>1, <1>2, <2>1, Packed DEF x, y, z
<1>9. CASE z > 0 /\ c = n + (-1)
  <2>1. z - 1 \in 0 .. SZ - 1 /\ c = Enc(x, y, z - 1)
    BY <1>1, <1>4, <1>9 DEF Enc
  <2> QED BY <1>1, <1>2, <2>1, Packed DEF x, y, z
<1>10. CASE z < SZ - 1 /\ c = n + 1
  <2>1. z + 1 \in 0 .. SZ - 1 /\ c = Enc(x, y, z + 1)
    BY <1>1, <1>4, <1>10 DEF Enc
  <2> QED BY <1>1, <1>2, <2>1, Packed DEF x, y, z
<1> QED BY <1>3, <1>5, <1>6, <1>7, <1>8, <1>9, <1>10

(* One step takes a cell at most one farther from any other.               *)
LEMMA StepManhattan ==
  ASSUME NEW n \in Nat, NEW c \in Adj(n), c \in Nat, NEW s \in Nat
  PROVE  /\ Manhattan(c, s) \in Nat /\ Manhattan(n, s) \in Nat
         /\ Manhattan(c, s) <= Manhattan(n, s) + 1
<1>1. ASSUME NEW a \in Int, NEW b \in Int
      PROVE  Apart(a, b) \in Nat
  BY DEF Apart
<1>2. ASSUME NEW a \in Int, NEW b \in Int, NEW d \in {a - 1, a + 1}
      PROVE  Apart(d, b) <= Apart(a, b) + 1
  BY DEF Apart
<1>3. \A e \in {n, c, s} : X(e) \in Int /\ Y(e) \in Int /\ Z(e) \in Int
  BY Coordinates
<1> DEFINE ax(e) == Apart(X(e), X(s))
           ay(e) == Apart(Y(e), Y(s))
           az(e) == Apart(Z(e), Z(s))
<1>4. \A e \in {n, c} : ax(e) \in Nat /\ ay(e) \in Nat /\ az(e) \in Nat
  BY <1>1, <1>3
<1>5. \/ ax(c) <= ax(n) + 1 /\ ay(c) = ay(n) /\ az(c) = az(n)
      \/ ax(c) = ax(n) /\ ay(c) <= ay(n) + 1 /\ az(c) = az(n)
      \/ ax(c) = ax(n) /\ ay(c) = ay(n) /\ az(c) <= az(n) + 1
  <2>1. CASE X(c) \in {X(n) - 1, X(n) + 1} /\ Y(c) = Y(n) /\ Z(c) = Z(n)
    BY <1>2, <1>3, <2>1
  <2>2. CASE X(c) = X(n) /\ Y(c) \in {Y(n) - 1, Y(n) + 1} /\ Z(c) = Z(n)
    BY <1>2, <1>3, <2>2
  <2>3. CASE X(c) = X(n) /\ Y(c) = Y(n) /\ Z(c) \in {Z(n) - 1, Z(n) + 1}
    BY <1>2, <1>3, <2>3
  <2> QED BY <2>1, <2>2, <2>3, AdjIs
<1>6. /\ Manhattan(c, s) = ax(c) + ay(c) + az(c)
      /\ Manhattan(n, s) = ax(n) + ay(n) + az(n)
  BY DEF Manhattan
<1> HIDE DEF ax, ay, az
<1> QED BY <1>4, <1>5, <1>6

LEMMA ManhattanType ==
  ASSUME NEW c \in Nat, NEW d \in Nat
  PROVE  Manhattan(c, d) \in Nat
<1>1. ASSUME NEW a \in Nat, NEW b \in Nat PROVE Apart(a, b) \in Nat
  BY DEF Apart
<1>2. /\ X(c) \in Nat /\ Y(c) \in Nat /\ Z(c) \in Nat
      /\ X(d) \in Nat /\ Y(d) \in Nat /\ Z(d) \in Nat
  BY Coordinates, RegionAssumption
<1>3. /\ Apart(X(c), X(d)) \in Nat /\ Apart(Y(c), Y(d)) \in Nat /\ Apart(Z(c), Z(d)) \in Nat
  BY <1>1, <1>2
<1> QED BY <1>3 DEF Manhattan

(* No cell is cheaper than the straight line from the nearest seed.        *)
LEMMA StraightLine ==
  ASSUME NEW seeds, NEW extra, NEW blocked, Priced(seeds, extra), NEW D,
         Relaxed(D, seeds, extra, blocked), Reached(D, seeds, extra, blocked),
         NEW c \in Cell, D[c] < Infinity
  PROVE  \E s \in DOMAIN seeds : Manhattan(c, s) \in Nat /\ Manhattan(c, s) <= D[c]
<1> DEFINE Short(a) == \E s \in DOMAIN seeds : Manhattan(a, s) \in Nat /\ Manhattan(a, s) <= D[a]
           far == {a \in Cell : D[a] < Infinity /\ ~Short(a)}
           costs == {D[a] : a \in far}
<1>1. /\ \A a \in Cell : D[a] \in Nat /\ D[a] <= Infinity
      /\ \A a \in Cell : StepCost(extra, a) \in Nat /\ StepCost(extra, a) >= 1
      /\ \A a \in Cell : Beside[a] = {n \in Cell : a \in Adj(n)}
  BY SeededType, BesideIs, InfinityIs DEF Relaxed, Field
<1>2. SUFFICES ASSUME far # {} PROVE FALSE
  BY DEF far
<1>3. PICK a \in far : \A b \in far : D[a] <= D[b]
  <2>1. costs \subseteq Nat /\ costs # {}
    BY <1>1, <1>2
  <2>2. Min(costs) \in costs /\ \A v \in costs : Min(costs) <= v
    BY <2>1, MinIs
  <2> QED BY <2>2
<1>4. a \in Cell /\ D[a] < Infinity /\ ~Short(a) /\ D[a] # Infinity
  BY <1>1, InfinityIs
<1>5. CASE a \in DOMAIN seeds /\ D[a] = seeds[a]
  <2>1. a \in Nat
    BY <1>4, CellFinite
  <2>2. Manhattan(a, a) = 0
    BY <2>1, Coordinates DEF Manhattan, Apart
  <2> QED BY <1>1, <1>4, <1>5, <2>2
<1>6. ASSUME NEW n \in Beside[a], D[a] = D[n] + StepCost(extra, a) PROVE FALSE
  <2>1. n \in Cell /\ a \in Adj(n)
    BY <1>1, <1>4
  <2>2. D[n] < D[a] /\ D[n] \in Nat /\ D[a] \in Nat
    BY <1>1, <1>4, <1>6, <2>1
  <2>3. n \notin far
    BY <1>3, <2>2
  <2>4. Short(n)
    BY <1>4, <2>1, <2>2, <2>3, InfinityIs
  <2>5. PICK s \in DOMAIN seeds : Manhattan(n, s) <= D[n]
    BY <2>4
  <2>6. n \in Nat /\ a \in Nat /\ s \in Nat
    BY <1>4, <2>1, CellFinite DEF Priced
  <2>7. Manhattan(a, s) \in Nat /\ Manhattan(n, s) \in Nat /\ Manhattan(a, s) <= Manhattan(n, s) + 1
    BY <2>1, <2>6, StepManhattan
  <2>8. Manhattan(a, s) <= D[a]
    BY <2>2, <2>5, <2>7
  <2> QED BY <1>4, <2>7, <2>8
<1> QED BY <1>4, <1>5, <1>6 DEF Reached

-----------------------------------------------------------------------------
(* Neighbours.                                                             *)

(* Cells that differ by one in one coordinate.                             *)
OneApart(n, c) ==
  \/ X(c) \in {X(n) - 1, X(n) + 1} /\ Y(c) = Y(n) /\ Z(c) = Z(n)
  \/ X(c) = X(n) /\ Y(c) \in {Y(n) - 1, Y(n) + 1} /\ Z(c) = Z(n)
  \/ X(c) = X(n) /\ Y(c) = Y(n) /\ Z(c) \in {Z(n) - 1, Z(n) + 1}

(* The cells of the region are those of a box.                             *)
LEMMA WithinRegion ==
  ASSUME NEW c \in Cell
  PROVE  X(c) \in 0 .. SX - 1
<1> DEFINE x == X(c)  y == Y(c)  z == Z(c)  row == x * SY + y
<1>1. x \in Nat /\ y \in 0 .. SY - 1 /\ z \in 0 .. SZ - 1 /\ c = row * SZ + z /\ c \in Nat
  BY Coordinates, CellFinite DEF Enc
<1>2. SX \in Nat \ {0} /\ SY \in Nat \ {0} /\ SZ \in Nat \ {0}
  BY RegionAssumption
<1>3. c < SX * SY * SZ
  <2>1. SX * SY * SZ \in Nat
    BY <1>2
  <2> QED BY <2>1 DEF Cell
<1> HIDE DEF x, y, z
<1>4. ASSUME x >= SX PROVE FALSE
  <2>1. x * SY \in Nat /\ SX * SY \in Nat /\ SX * SY <= x * SY
    BY <1>1, <1>2, <1>4, TimesMonotone
  <2>2. row \in Nat /\ SX * SY <= row
    BY <1>1, <2>1
  <2> DEFINE a == SX * SY
  <2>3. a \in Nat /\ a <= row
    BY <2>1, <2>2
  <2> HIDE DEF a, row
  <2>4. a * SZ <= row * SZ /\ a * SZ \in Nat /\ row * SZ \in Nat
    BY <1>2, <2>2, <2>3, TimesMonotone
  <2>5. c < a * SZ
    BY <1>3 DEF a
  <2> DEFINE p == a * SZ  q == row * SZ
  <2>6. p \in Nat /\ q \in Nat /\ p <= q /\ c < p /\ c = q + z
    BY <1>1, <2>4, <2>5
  <2> HIDE DEF p, q
  <2> QED BY <1>1, <2>6
<1> QED BY <1>1, <1>2, <1>4 DEF x

(* A free cell of the region one step away is a neighbour.                 *)
LEMMA AdjFrom ==
  ASSUME NEW n \in Cell, NEW c \in Cell, c \notin Hard, OneApart(n, c)
  PROVE  c \in Adj(n)
<1> DEFINE x == X(n)  y == Y(n)  z == Z(n)
           step == {<<X(n) > 0, -(SY * SZ)>>, <<Y(n) > 0, -SZ>>, <<Z(n) > 0, -1>>,
                    <<Z(n) < SZ - 1, 1>>, <<Y(n) < SY - 1, SZ>>, <<X(n) < SX - 1, SY * SZ>>}
<1>1. /\ x \in 0 .. SX - 1 /\ y \in 0 .. SY - 1 /\ z \in 0 .. SZ - 1 /\ n = (x * SY + y) * SZ + z
      /\ X(c) \in 0 .. SX - 1 /\ Y(c) \in 0 .. SY - 1 /\ Z(c) \in 0 .. SZ - 1
      /\ c = (X(c) * SY + Y(c)) * SZ + Z(c)
  BY Coordinates, WithinRegion, CellFinite DEF Enc
<1>2. SX \in Nat \ {0} /\ SY \in Nat \ {0} /\ SZ \in Nat \ {0}
  BY RegionAssumption
<1>3. ASSUME NEW g, NEW d, <<g, d>> \in step PROVE g /\ c = n + d => c \in Adj(n)
  <2> HIDE DEF x, y, z, step
  <2>1. <<g, d>>[1] = g /\ <<g, d>>[2] = d
    OBVIOUS
  <2>2. g /\ c = n + d => c \in {n + s[2] : s \in {t \in step : t[1]}}
    BY <1>3, <2>1, Zenon
  <2>3. Adj(n) = {n + s[2] : s \in {t \in step : t[1]}} \ Hard
    BY Zenon DEF Adj, step
  <2> QED BY <2>2, <2>3
<1> HIDE DEF x, y, z
<1>4. \/ x > 0 /\ c = n + (-(SY * SZ))
      \/ y > 0 /\ c = n + (-SZ)
      \/ z > 0 /\ c = n + (-1)
      \/ z < SZ - 1 /\ c = n + 1
      \/ y < SY - 1 /\ c = n + SZ
      \/ x < SX - 1 /\ c = n + SY * SZ
  <2>1. CASE X(c) = x - 1 /\ Y(c) = y /\ Z(c) = z
    BY <1>1, <1>2, <2>1
  <2>2. CASE X(c) = x + 1 /\ Y(c) = y /\ Z(c) = z
    BY <1>1, <1>2, <2>2
  <2>3. CASE X(c) = x /\ Y(c) = y - 1 /\ Z(c) = z
    BY <1>1, <1>2, <2>3
  <2>4. CASE X(c) = x /\ Y(c) = y + 1 /\ Z(c) = z
    BY <1>1, <1>2, <2>4
  <2>5. CASE X(c) = x /\ Y(c) = y /\ Z(c) = z - 1
    BY <1>1, <1>2, <2>5
  <2>6. CASE X(c) = x /\ Y(c) = y /\ Z(c) = z + 1
    BY <1>1, <1>2, <2>6
  <2> QED BY <2>1, <2>2, <2>3, <2>4, <2>5, <2>6 DEF OneApart, x, y, z
<1>5. /\ <<x > 0, -(SY * SZ)>> \in step /\ <<y > 0, -SZ>> \in step /\ <<z > 0, -1>> \in step
      /\ <<z < SZ - 1, 1>> \in step /\ <<y < SY - 1, SZ>> \in step
      /\ <<x < SX - 1, SY * SZ>> \in step
  BY Zenon DEF x, y, z
<1> HIDE DEF step
<1>6. /\ x > 0 /\ c = n + (-(SY * SZ)) => c \in Adj(n)
      /\ y > 0 /\ c = n + (-SZ) => c \in Adj(n)
      /\ z > 0 /\ c = n + (-1) => c \in Adj(n)
      /\ z < SZ - 1 /\ c = n + 1 => c \in Adj(n)
      /\ y < SY - 1 /\ c = n + SZ => c \in Adj(n)
      /\ x < SX - 1 /\ c = n + SY * SZ => c \in Adj(n)
  BY <1>3, <1>5, Zenon
<1> QED BY <1>4, <1>6, Zenon

(* Free cells are each other's neighbours.                                 *)
LEMMA AdjSymmetric ==
  ASSUME NEW n \in Cell \ Hard, NEW c \in Cell, c \in Adj(n)
  PROVE  n \in Adj(c) /\ n # c
<1>1. n \in Nat /\ c \in Nat
  BY CellFinite
<1>2. OneApart(n, c)
  BY <1>1, AdjIs DEF OneApart
<1>3. X(n) \in Nat /\ Y(n) \in Nat /\ Z(n) \in Nat
  BY <1>1, Coordinates
<1>4. OneApart(c, n) /\ n # c
  BY <1>2, <1>3 DEF OneApart
<1> QED BY <1>4, AdjFrom

-----------------------------------------------------------------------------
(* Sums over finite sets.                                                  *)

Pick(s) == CHOOSE i \in s : TRUE

(* g gives the sum of v over every subset of S of at most m elements.      *)
Sums(g, v, S, m) ==
  \A s \in SUBSET S : Cardinality(s) <= m =>
    g[s] \in Nat /\ g[s] = IF s = {} THEN 0 ELSE v[Pick(s)] + g[s \ {Pick(s)}]

LEMMA SumStep ==
  ASSUME NEW S, IsFiniteSet(S), NEW s \in SUBSET S
  PROVE  /\ Cardinality(s) \in Nat /\ Cardinality(s) <= Cardinality(S)
         /\ Cardinality(s) = 0 <=> s = {}
         /\ s # {} => /\ Pick(s) \in s /\ s \ {Pick(s)} \in SUBSET S
                      /\ Cardinality(s \ {Pick(s)}) = Cardinality(s) - 1
<1>1. IsFiniteSet(s) /\ Cardinality(s) \in Nat /\ Cardinality(S) \in Nat /\ Cardinality(s) <= Cardinality(S)
  BY FS_Subset, FS_CardinalityType
<1>2. Cardinality(s) = 0 <=> s = {}
  BY <1>1, FS_EmptySet
<1>3. s # {} => Pick(s) \in s
  BY DEF Pick
<1>4. s # {} => Cardinality(s \ {Pick(s)}) = Cardinality(s) - 1
  BY <1>1, <1>3, FS_RemoveElement
<1> QED BY <1>1, <1>2, <1>3, <1>4

LEMMA SumsExist ==
  ASSUME NEW S, IsFiniteSet(S), NEW v, \A i \in S : v[i] \in Nat
  PROVE  \E g : /\ g = [s \in SUBSET S |-> g[s]]
                /\ Sums(g, v, S, Cardinality(S))
<1> DEFINE n == Cardinality(S)
           T == {m \in 0 .. n : \E g : g = [s \in SUBSET S |-> g[s]] /\ Sums(g, v, S, m)}
<1>1. n \in Nat
  BY FS_CardinalityType
<1>2. 0 \in T
  <2> DEFINE g == [s \in SUBSET S |-> 0]
  <2>1. g = [s \in SUBSET S |-> g[s]]
    OBVIOUS
  <2>2. Sums(g, v, S, 0)
    <3> SUFFICES ASSUME NEW s \in SUBSET S, Cardinality(s) <= 0
                 PROVE  g[s] \in Nat /\ g[s] = IF s = {} THEN 0 ELSE v[Pick(s)] + g[s \ {Pick(s)}]
      BY DEF Sums
    <3>1. Cardinality(s) \in Nat /\ (Cardinality(s) = 0 => s = {})
      BY SumStep
    <3>2. s = {}
      BY <3>1
    <3> QED BY <3>2
  <2> HIDE DEF g
  <2> QED BY <1>1, <2>1, <2>2
<1>3. \A m \in 0 .. n - 1 : m \in T => m + 1 \in T
  <2> SUFFICES ASSUME NEW m \in 0 .. n - 1, m \in T PROVE m + 1 \in T
    OBVIOUS
  <2>1. PICK g : g = [s \in SUBSET S |-> g[s]] /\ Sums(g, v, S, m)
    OBVIOUS
  <2>2. m \in Nat /\ m + 1 \in 0 .. n
    BY <1>1
  <2> HIDE DEF T
  <2> DEFINE h == [s \in SUBSET S |->
                     IF Cardinality(s) <= m THEN g[s] ELSE v[Pick(s)] + g[s \ {Pick(s)}]]
  <2>3. h = [s \in SUBSET S |-> h[s]]
    OBVIOUS
  <2>4. ASSUME NEW s \in SUBSET S, Cardinality(s) <= m + 1
        PROVE  h[s] \in Nat /\ h[s] = IF s = {} THEN 0 ELSE v[Pick(s)] + h[s \ {Pick(s)}]
    <3> DEFINE less == s \ {Pick(s)}
    <3>1. /\ Cardinality(s) \in Nat /\ (Cardinality(s) = 0 <=> s = {})
          /\ s # {} => Pick(s) \in S /\ less \in SUBSET S /\ Cardinality(less) = Cardinality(s) - 1
      BY SumStep DEF less
    <3>2. h[s] = IF Cardinality(s) <= m THEN g[s] ELSE v[Pick(s)] + g[less]
      OBVIOUS
    <3>3. less \in SUBSET S /\ Cardinality(less) <= m => h[less] = g[less]
      OBVIOUS
    <3> HIDE DEF h, less
    <3>4. CASE s = {}
      <4>1. Cardinality(s) <= m
        BY <2>2, <3>1, <3>4
      <4>2. g[s] = 0
        BY <2>1, <3>4, <4>1 DEF Sums
      <4> QED BY <3>2, <3>4, <4>1, <4>2
    <3>5. CASE s # {} /\ Cardinality(s) <= m
      <4>1. Cardinality(less) <= m
        BY <2>2, <3>1, <3>5
      <4>2. g[s] \in Nat /\ g[s] = v[Pick(s)] + g[less]
        BY <2>1, <3>5 DEF Sums, less
      <4> QED BY <3>1, <3>2, <3>3, <3>5, <4>1, <4>2 DEF less
    <3>6. CASE s # {} /\ ~(Cardinality(s) <= m)
      <4>1. Cardinality(less) <= m
        BY <2>2, <2>4, <3>1, <3>6
      <4>2. g[less] \in Nat
        BY <2>1, <3>1, <3>6, <4>1 DEF Sums
      <4> QED BY <3>1, <3>2, <3>3, <3>6, <4>1, <4>2 DEF less
    <3> QED BY <3>4, <3>5, <3>6
  <2> HIDE DEF h
  <2>5. Sums(h, v, S, m + 1)
    BY <2>4 DEF Sums
  <2> QED BY <2>2, <2>3, <2>5 DEF T
<1> HIDE DEF T
<1>4. n \in T
  BY <1>1, <1>2, <1>3, UpTo
<1> QED BY <1>4 DEF T

(* The sum of v over S.                                                    *)
SumOf(v, S) == MapThenSumSet(LAMBDA i : v[i], S)

(* Any table of the sums over subsets has it.                              *)
LEMMA SumSolves ==
  ASSUME NEW S, IsFiniteSet(S), NEW v, NEW g, Sums(g, v, S, Cardinality(S))
  PROVE  SumOf(v, S) = g[S]
<1> DEFINE n == Cardinality(S)
           table == [s \in SUBSET S |-> g[s]]
           Body(h) == [s \in SUBSET S |->
                         IF s = {} THEN 0
                         ELSE v[CHOOSE i \in s : TRUE] + h[s \ {CHOOSE i \in s : TRUE}]]
           sum == CHOOSE h : h = Body(h)
<1>1. SumOf(v, S) = sum[S]
  BY DEF SumOf, MapThenSumSet, MapThenFoldSet
<1>2. n \in Nat /\ n <= n
  BY FS_CardinalityType
<1>3. \A s \in SUBSET S : g[s] = IF s = {} THEN 0 ELSE v[Pick(s)] + g[s \ {Pick(s)}]
  BY SumStep DEF Sums
<1>4. table = Body(table)
  <2>1. ASSUME NEW s \in SUBSET S PROVE table[s] = Body(table)[s]
    <3>1. Body(table)[s] = IF s = {} THEN 0 ELSE v[Pick(s)] + table[s \ {Pick(s)}]
      BY DEF Pick
    <3>2. s \ {Pick(s)} \in SUBSET S
      OBVIOUS
    <3> QED BY <1>3, <3>1, <3>2
  <2>2. table = [s \in SUBSET S |-> table[s]] /\ Body(table) = [s \in SUBSET S |-> Body(table)[s]]
    OBVIOUS
  <2> HIDE DEF table, Body
  <2> QED BY <2>1, <2>2
<1>5. sum = Body(sum)
  BY <1>4
<1> HIDE DEF sum
<1>6. \A s \in SUBSET S : sum[s] = IF s = {} THEN 0 ELSE v[Pick(s)] + sum[s \ {Pick(s)}]
  BY <1>5 DEF Pick
<1> DEFINE T == {m \in 0 .. n : \A s \in SUBSET S : Cardinality(s) <= m => sum[s] = g[s]}
<1>7. 0 \in T
  <2>1. ASSUME NEW s \in SUBSET S, Cardinality(s) <= 0 PROVE sum[s] = g[s]
    <3>1. Cardinality(s) \in Nat /\ (Cardinality(s) = 0 => s = {})
      BY SumStep
    <3>2. s = {}
      BY <2>1, <3>1
    <3> QED BY <1>3, <1>6, <3>2
  <2> QED BY <1>2, <2>1
<1>8. \A m \in 0 .. n - 1 : m \in T => m + 1 \in T
  <2> SUFFICES ASSUME NEW m \in 0 .. n - 1, \A s \in SUBSET S : Cardinality(s) <= m => sum[s] = g[s],
                      NEW s \in SUBSET S, Cardinality(s) <= m + 1
               PROVE  sum[s] = g[s]
    BY <1>2
  <2>1. CASE s = {}
    BY <1>3, <1>6, <2>1
  <2>2. CASE s # {}
    <3>1. /\ Cardinality(s) \in Nat /\ s \ {Pick(s)} \in SUBSET S
          /\ Cardinality(s \ {Pick(s)}) = Cardinality(s) - 1
      BY <2>2, SumStep
    <3>2. Cardinality(s \ {Pick(s)}) <= m
      BY <1>2, <3>1
    <3> QED BY <1>3, <1>6, <2>2, <3>1, <3>2
  <2> QED BY <2>1, <2>2
<1> HIDE DEF T
<1>9. \A m \in 0 .. n : m \in T
  BY <1>2, <1>7, <1>8, UpTo
<1>10. n \in T
  BY <1>2, <1>9
<1> QED BY <1>1, <1>2, <1>10 DEF T

(* One table has the sums over all subsets.                                *)
LEMMA SumsOfAll ==
  ASSUME NEW S, IsFiniteSet(S), NEW v, \A i \in S : v[i] \in Nat
  PROVE  \A s \in SUBSET S :
           /\ SumOf(v, s) \in Nat
           /\ SumOf(v, s) = IF s = {} THEN 0 ELSE v[Pick(s)] + SumOf(v, s \ {Pick(s)})
<1>1. PICK g : Sums(g, v, S, Cardinality(S))
  BY SumsExist
<1>2. ASSUME NEW s \in SUBSET S PROVE SumOf(v, s) = g[s]
  <2>1. IsFiniteSet(s) /\ Cardinality(s) \in Nat /\ Cardinality(s) <= Cardinality(S)
    BY FS_Subset, FS_CardinalityType
  <2>2. \A t \in SUBSET s : t \in SUBSET S /\ Cardinality(t) <= Cardinality(S)
    BY SumStep
  <2>3. Sums(g, v, s, Cardinality(s))
    BY <1>1, <2>2 DEF Sums
  <2> QED BY <2>1, <2>3, SumSolves
<1>3. \A s \in SUBSET S : Cardinality(s) <= Cardinality(S)
  BY SumStep
<1> TAKE s \in SUBSET S
<1>4. s \ {Pick(s)} \in SUBSET S
  OBVIOUS
<1> QED BY <1>1, <1>2, <1>3, <1>4 DEF Sums

(* A sum counts no less than its members, where each counts at least one.  *)
LEMMA SumCounts ==
  ASSUME NEW S, IsFiniteSet(S), NEW v, \A i \in S : v[i] \in Nat /\ v[i] >= 1
  PROVE  SumOf(v, S) >= Cardinality(S)
<1> DEFINE n == Cardinality(S)
           T == {m \in 0 .. n : \A s \in SUBSET S : Cardinality(s) <= m => SumOf(v, s) >= Cardinality(s)}
<1>1. n \in Nat /\ n <= n
  BY FS_CardinalityType
<1>2. \A s \in SUBSET S :
        /\ SumOf(v, s) \in Nat
        /\ SumOf(v, s) = IF s = {} THEN 0 ELSE v[Pick(s)] + SumOf(v, s \ {Pick(s)})
  BY SumsOfAll
<1>3. 0 \in T
  <2>1. ASSUME NEW s \in SUBSET S, Cardinality(s) <= 0 PROVE SumOf(v, s) >= Cardinality(s)
    <3>1. Cardinality(s) \in Nat /\ (Cardinality(s) = 0 => s = {})
      BY SumStep
    <3>2. s = {} /\ Cardinality(s) = 0
      BY <2>1, <3>1
    <3>3. SumOf(v, s) = 0
      BY <1>2, <3>2
    <3> QED BY <3>2, <3>3
  <2> QED BY <1>1, <2>1
<1>4. \A m \in 0 .. n - 1 : m \in T => m + 1 \in T
  <2> SUFFICES ASSUME NEW m \in 0 .. n - 1,
                      \A s \in SUBSET S : Cardinality(s) <= m => SumOf(v, s) >= Cardinality(s),
                      NEW s \in SUBSET S, Cardinality(s) <= m + 1
               PROVE  SumOf(v, s) >= Cardinality(s)
    BY <1>1
  <2>1. CASE s = {}
    BY <1>2, <2>1, FS_EmptySet
  <2>2. CASE s # {}
    <3>1. /\ Cardinality(s) \in Nat /\ s \ {Pick(s)} \in SUBSET S /\ Pick(s) \in S
          /\ Cardinality(s \ {Pick(s)}) = Cardinality(s) - 1
      BY <2>2, SumStep
    <3>2. Cardinality(s \ {Pick(s)}) <= m
      BY <1>1, <3>1
    <3>3. SumOf(v, s \ {Pick(s)}) >= Cardinality(s) - 1
      BY <3>1, <3>2
    <3>4. /\ SumOf(v, s) = v[Pick(s)] + SumOf(v, s \ {Pick(s)})
          /\ SumOf(v, s \ {Pick(s)}) \in Nat /\ v[Pick(s)] \in Nat /\ v[Pick(s)] >= 1
      BY <1>2, <2>2, <3>1
    <3> QED BY <3>1, <3>3, <3>4
  <2> QED BY <2>1, <2>2
<1> HIDE DEF T
<1>5. \A m \in 0 .. n : m \in T
  BY <1>1, <1>3, <1>4, UpTo
<1>6. n \in T
  BY <1>1, <1>5
<1> QED BY <1>1, <1>6 DEF T

(* Any member may be taken out first.                                      *)
LEMMA SumAdds ==
  ASSUME NEW S, IsFiniteSet(S), NEW v, \A i \in S : v[i] \in Nat, NEW x \in S
  PROVE  SumOf(v, S) = v[x] + SumOf(v, S \ {x})
<1> DEFINE n == Cardinality(S)
           Adds(s) == \A y \in s : SumOf(v, s) = v[y] + SumOf(v, s \ {y})
           T == {m \in 0 .. n : \A s \in SUBSET S : Cardinality(s) <= m => Adds(s)}
<1>1. n \in Nat /\ n <= n
  BY FS_CardinalityType
<1>2. \A s \in SUBSET S :
        /\ SumOf(v, s) \in Nat
        /\ SumOf(v, s) = IF s = {} THEN 0 ELSE v[Pick(s)] + SumOf(v, s \ {Pick(s)})
  BY SumsOfAll
<1>3. 0 \in T
  <2>1. ASSUME NEW s \in SUBSET S, Cardinality(s) <= 0 PROVE Adds(s)
    <3>1. Cardinality(s) \in Nat /\ (Cardinality(s) = 0 => s = {})
      BY SumStep
    <3>2. s = {}
      BY <2>1, <3>1
    <3> QED BY <3>2
  <2> HIDE DEF Adds
  <2> QED BY <1>1, <2>1
<1>4. \A m \in 0 .. n - 1 : m \in T => m + 1 \in T
  <2> SUFFICES ASSUME NEW m \in 0 .. n - 1, \A s \in SUBSET S : Cardinality(s) <= m => Adds(s),
                      NEW s \in SUBSET S, Cardinality(s) <= m + 1
               PROVE  Adds(s)
    <3> HIDE DEF Adds
    <3> QED BY <1>1
  <2> SUFFICES ASSUME NEW y \in s PROVE SumOf(v, s) = v[y] + SumOf(v, s \ {y})
    OBVIOUS
  <2> DEFINE p == Pick(s)
  <2>1. /\ Cardinality(s) \in Nat /\ p \in s /\ p \in S
        /\ Cardinality(s \ {p}) = Cardinality(s) - 1
    BY SumStep
  <2>2. SumOf(v, s) = v[p] + SumOf(v, s \ {p})
    BY <1>2
  <2> HIDE DEF p
  <2>3. CASE y = p
    BY <2>2, <2>3
  <2>4. CASE y # p
    <3> DEFINE less == s \ {y}
               both == (s \ {y}) \ {p}
    <3>1. IsFiniteSet(s) /\ Cardinality(less) = Cardinality(s) - 1
      BY FS_Subset, FS_RemoveElement
    <3>2. Adds(s \ {p}) /\ Adds(less)
      <4>1. Cardinality(s \ {p}) <= m /\ Cardinality(less) <= m
        BY <1>1, <2>1, <3>1
      <4>2. s \ {p} \in SUBSET S /\ less \in SUBSET S
        OBVIOUS
      <4> HIDE DEF Adds, less
      <4> QED BY <4>1, <4>2
    <3>3. SumOf(v, s \ {p}) = v[y] + SumOf(v, (s \ {p}) \ {y})
      BY <2>4, <3>2
    <3>4. SumOf(v, less) = v[p] + SumOf(v, both)
      BY <2>1, <2>4, <3>2
    <3>5. (s \ {p}) \ {y} = both /\ less = s \ {y}
      OBVIOUS
    <3>6. SumOf(v, both) \in Nat /\ v[p] \in Nat /\ v[y] \in Nat
      BY <1>2, <2>1
    <3> HIDE DEF both, less
    <3>7. SumOf(v, s) = v[p] + (v[y] + SumOf(v, both)) /\ SumOf(v, s \ {y}) = v[p] + SumOf(v, both)
      BY <2>2, <3>3, <3>4, <3>5
    <3> QED BY <3>6, <3>7
  <2> QED BY <2>3, <2>4
<1> HIDE DEF T
<1>5. \A m \in 0 .. n : m \in T
  BY <1>1, <1>3, <1>4, UpTo
<1>6. n \in T
  BY <1>1, <1>5
<1> QED BY <1>1, <1>6 DEF T

(* Two sets apart are summed apart.                                        *)
LEMMA SumsApart ==
  ASSUME NEW S, IsFiniteSet(S), NEW v, \A i \in S : v[i] \in Nat,
         NEW A \in SUBSET S, NEW B \in SUBSET S, A \cap B = {}
  PROVE  SumOf(v, A \cup B) = SumOf(v, A) + SumOf(v, B)
<1> DEFINE n == Cardinality(S)
           Joint(b) == SumOf(v, A \cup b) = SumOf(v, A) + SumOf(v, b)
           T == {m \in 0 .. n : \A b \in SUBSET B : Cardinality(b) <= m => Joint(b)}
<1>1. n \in Nat
  BY FS_CardinalityType
<1>2. /\ \A s \in SUBSET S : SumOf(v, s) \in Nat /\ IsFiniteSet(s)
      /\ SumOf(v, {}) = 0
  BY SumsOfAll, FS_Subset
<1>3. \A s \in SUBSET S : \A x \in s : SumOf(v, s) = v[x] + SumOf(v, s \ {x})
  BY <1>2, SumAdds
<1>4. Joint({})
  <2>1. A \cup {} = A /\ SumOf(v, A) \in Nat
    BY <1>2
  <2> QED BY <1>2, <2>1
<1>5. 0 \in T
  <2>1. ASSUME NEW b \in SUBSET B, Cardinality(b) <= 0 PROVE Joint(b)
    <3>1. Cardinality(b) \in Nat /\ (Cardinality(b) = 0 => b = {})
      BY SumStep
    <3>2. b = {}
      BY <2>1, <3>1
    <3> HIDE DEF Joint
    <3> QED BY <1>4, <3>2
  <2> HIDE DEF Joint
  <2> QED BY <1>1, <2>1
<1>6. \A m \in 0 .. n - 1 : m \in T => m + 1 \in T
  <2> SUFFICES ASSUME NEW m \in 0 .. n - 1, \A b \in SUBSET B : Cardinality(b) <= m => Joint(b),
                      NEW b \in SUBSET B, Cardinality(b) <= m + 1
               PROVE  Joint(b)
    <3> HIDE DEF Joint
    <3> QED BY <1>1
  <2>1. CASE b = {}
    BY <1>4, <2>1
  <2>2. CASE b # {}
    <3>1. PICK x \in b : TRUE
      BY <2>2
    <3> DEFINE less == b \ {x}
    <3>2. Cardinality(b) \in Nat /\ Cardinality(less) = Cardinality(b) - 1
      <4>1. IsFiniteSet(b)
        BY <1>2
      <4> QED BY <3>1, <4>1, FS_CardinalityType, FS_RemoveElement
    <3>3. Cardinality(less) <= m
      BY <1>1, <3>2
    <3>4. Joint(less)
      <4> HIDE DEF Joint
      <4> QED BY <3>3
    <3>5. SumOf(v, b) = v[x] + SumOf(v, less)
      BY <1>3, <3>1
    <3>6. SumOf(v, A \cup b) = v[x] + SumOf(v, A \cup less)
      <4>1. (A \cup b) \ {x} = A \cup less /\ x \in A \cup b /\ A \cup b \in SUBSET S
        BY <3>1
      <4> QED BY <1>3, <4>1
    <3>7. SumOf(v, A) \in Nat /\ SumOf(v, less) \in Nat /\ v[x] \in Nat
      BY <1>2, <3>1
    <3> HIDE DEF less
    <3> QED BY <3>4, <3>5, <3>6, <3>7
  <2> QED BY <2>1, <2>2
<1> HIDE DEF T
<1>7. \A m \in 0 .. n : m \in T
  BY <1>1, <1>5, <1>6, UpTo
<1>8. n \in T /\ Cardinality(B) <= n
  <2>1. n \in T
    BY <1>1, <1>7
  <2>2. Cardinality(B) <= n
    BY SumStep
  <2> QED BY <2>1, <2>2
<1> HIDE DEF Joint
<1>9. Joint(B)
  BY <1>8 DEF T
<1> QED BY <1>9 DEF Joint

(* A sum grows with its set, and has each of its members in it.            *)
LEMMA SumsGrow ==
  ASSUME NEW S, IsFiniteSet(S), NEW v, \A i \in S : v[i] \in Nat,
         NEW A \in SUBSET S, NEW B \in SUBSET A
  PROVE  SumOf(v, B) <= SumOf(v, A) /\ \A i \in A : v[i] <= SumOf(v, A)
<1>1. \A s \in SUBSET S : SumOf(v, s) \in Nat /\ IsFiniteSet(s)
  BY SumsOfAll, FS_Subset
<1>2. SumOf(v, A) = SumOf(v, B) + SumOf(v, A \ B)
  <2>1. B \cup (A \ B) = A /\ B \cap (A \ B) = {}
    OBVIOUS
  <2> QED BY <2>1, SumsApart
<1>3. ASSUME NEW i \in A PROVE v[i] <= SumOf(v, A)
  <2>1. SumOf(v, A) = v[i] + SumOf(v, A \ {i})
    BY <1>1, SumAdds
  <2>2. v[i] \in Nat /\ SumOf(v, A \ {i}) \in Nat
    BY <1>1
  <2> QED BY <2>1, <2>2
<1>4. SumOf(v, A) \in Nat /\ SumOf(v, B) \in Nat /\ SumOf(v, A \ B) \in Nat
  BY <1>1
<1>5. SumOf(v, B) <= SumOf(v, A)
  BY <1>2, <1>4
<1> QED BY <1>3, <1>5

(* Only what the members are given counts.                                 *)
LEMMA SumsAgree ==
  ASSUME NEW S, NEW v, NEW w, \A i \in S : v[i] = w[i]
  PROVE  SumOf(v, S) = SumOf(w, S)
<1> DEFINE Sum(u, g) == [s \in SUBSET S |->
                           IF s = {} THEN 0
                           ELSE u[CHOOSE i \in s : TRUE] + g[s \ {CHOOSE i \in s : TRUE}]]
<1>1. /\ SumOf(v, S) = (CHOOSE g : g = Sum(v, g))[S]
      /\ SumOf(w, S) = (CHOOSE g : g = Sum(w, g))[S]
  BY DEF SumOf, MapThenSumSet, MapThenFoldSet
<1>2. \A g : Sum(v, g) = Sum(w, g)
  OBVIOUS
<1> HIDE DEF Sum
<1>3. \A g : g = Sum(v, g) <=> g = Sum(w, g)
  BY <1>2
<1>4. (CHOOSE g : g = Sum(v, g)) = (CHOOSE g : g = Sum(w, g))
  BY <1>3, Zenon
<1> QED BY <1>1, <1>4

(* What the endpoints S pay for their casings at cell c.                   *)
FeeSum(fee, c, S) == MapThenSumSet(LAMBDA i : fee[i][c], S)

(* Whatever the casing prices are, a sum of them is a price, and that of   *)
(* one endpoint is its own.                                                *)
LEMMA FeesSum ==
  ASSUME NEW S, IsFiniteSet(S), NEW fee, NEW c, \A i \in S : fee[i][c] \in Nat
  PROVE  FeeSum(fee, c, S) \in Nat /\ \A j : S = {j} => FeeSum(fee, c, S) = fee[j][c]
<1> DEFINE v == [i \in S |-> fee[i][c]]
           First(g) == [s \in SUBSET S |->
                          IF s = {} THEN 0
                          ELSE fee[CHOOSE i \in s : TRUE][c] + g[s \ {CHOOSE i \in s : TRUE}]]
           Second(g) == [s \in SUBSET S |->
                           IF s = {} THEN 0
                           ELSE v[CHOOSE i \in s : TRUE] + g[s \ {CHOOSE i \in s : TRUE}]]
<1>1. FeeSum(fee, c, S) = (CHOOSE g : g = First(g))[S]
  BY DEF FeeSum, MapThenSumSet, MapThenFoldSet
<1>2. SumOf(v, S) = (CHOOSE g : g = Second(g))[S]
  BY DEF SumOf, MapThenSumSet, MapThenFoldSet
<1>3. \A g : First(g) = Second(g)
  OBVIOUS
<1>4. \A i \in S : v[i] \in Nat
  OBVIOUS
<1> HIDE DEF v, First, Second
<1>5. \A g : g = First(g) <=> g = Second(g)
  BY <1>3
<1>6. (CHOOSE g : g = First(g)) = (CHOOSE g : g = Second(g))
  BY <1>5, Zenon
<1>7. /\ SumOf(v, S) \in Nat /\ SumOf(v, {}) = 0
      /\ S # {} => SumOf(v, S) = v[Pick(S)] + SumOf(v, S \ {Pick(S)})
  <2>1. S \in SUBSET S /\ {} \in SUBSET S
    OBVIOUS
  <2>2. \A s \in SUBSET S :
          /\ SumOf(v, s) \in Nat
          /\ SumOf(v, s) = IF s = {} THEN 0 ELSE v[Pick(s)] + SumOf(v, s \ {Pick(s)})
    BY <1>4, SumsOfAll
  <2> QED BY ONLY <2>1, <2>2
<1>8. ASSUME NEW j, S = {j} PROVE SumOf(v, S) = fee[j][c]
  <2>1. Pick(S) = j /\ S \ {Pick(S)} = {} /\ v[j] \in Nat /\ v[j] = fee[j][c]
    BY <1>4, <1>8 DEF Pick, v
  <2> QED BY <1>7, <1>8, <2>1
<1> QED BY <1>1, <1>2, <1>6, <1>7, <1>8

-----------------------------------------------------------------------------
(* Offers.                                                                 *)

IsOffer(a) == a.cost \in Nat /\ a.share \in Nat \ {0} /\ a.cell \in Nat

(* Ratios compared by cross-multiplication are ordered.                    *)
LEMMA Ratios ==
  ASSUME NEW p \in Nat, NEW q \in Nat, NEW r \in Nat,
         NEW l \in Nat \ {0}, NEW m \in Nat \ {0}, NEW n \in Nat \ {0},
         p * m <= q * l, q * n <= r * m
  PROVE  /\ p * n <= r * l
         /\ p * m < q * l \/ q * n < r * m => p * n < r * l
<1>1. p * m \in Nat /\ q * l \in Nat /\ q * n \in Nat /\ r * m \in Nat /\ p * n \in Nat /\ r * l \in Nat
  OBVIOUS
<1>2. /\ (p * m) * n <= (q * l) * n
      /\ (q * n) * l <= (r * m) * l
      /\ p * m < q * l => (p * m) * n < (q * l) * n
      /\ q * n < r * m => (q * n) * l < (r * m) * l
  BY <1>1, TimesMonotone, TimesStrict
<1>3. (p * m) * n = (p * n) * m /\ (q * l) * n = (q * n) * l /\ (r * m) * l = (r * l) * m
  OBVIOUS
<1> DEFINE u == (p * n) * m
           w == (q * n) * l
           t == (r * l) * m
<1>4. u \in Nat /\ w \in Nat /\ t \in Nat
  OBVIOUS
<1>5. u <= w /\ w <= t /\ (p * m < q * l => u < w) /\ (q * n < r * m => w < t)
  BY <1>2, <1>3
<1>6. /\ r * l < p * n => t < u
      /\ r * l <= p * n => t <= u
  BY <1>1, TimesMonotone, TimesStrict
<1> HIDE DEF u, w, t
<1>7. u <= t /\ (p * m < q * l \/ q * n < r * m => u < t)
  BY <1>4, <1>5
<1> DEFINE pn == p * n  rl == r * l
<1>8. pn \in Nat /\ rl \in Nat /\ (rl < pn => t < u) /\ (rl <= pn => t <= u)
  BY <1>1, <1>6
<1> HIDE DEF pn, rl
<1>9. pn <= rl /\ (p * m < q * l \/ q * n < r * m => pn < rl)
  BY <1>4, <1>7, <1>8
<1> QED BY <1>9 DEF pn, rl

LEMMA BeatsTransitive ==
  ASSUME NEW a, NEW b, NEW c, IsOffer(a), IsOffer(b), IsOffer(c), Beats(a, b), Beats(b, c)
  PROVE  Beats(a, c)
<1> DEFINE p == a.cost  q == b.cost  r == c.cost  l == a.share  m == b.share  n == c.share
<1>1. /\ p \in Nat /\ q \in Nat /\ r \in Nat
      /\ l \in Nat \ {0} /\ m \in Nat \ {0} /\ n \in Nat \ {0}
      /\ a.cell \in Nat /\ b.cell \in Nat /\ c.cell \in Nat
  BY DEF IsOffer
<1>2. /\ p * m < q * l \/ (p * m = q * l /\ (l > m \/ (l = m /\ a.cell < b.cell)))
      /\ q * n < r * m \/ (q * n = r * m /\ (m > n \/ (m = n /\ b.cell < c.cell)))
  BY DEF Beats
<1>3. SUFFICES p * n < r * l \/ (p * n = r * l /\ (l > n \/ (l = n /\ a.cell < c.cell)))
  BY DEF Beats
<1> HIDE DEF p, q, r, l, m, n
<1>4. p * m \in Nat /\ q * l \in Nat /\ q * n \in Nat /\ r * m \in Nat /\ p * n \in Nat /\ r * l \in Nat
  BY <1>1
<1>5. p * m <= q * l /\ q * n <= r * m
  BY <1>2, <1>4
<1>6. p * n <= r * l /\ (p * m < q * l \/ q * n < r * m => p * n < r * l)
  BY <1>1, <1>5, Ratios
<1>7. CASE p * m < q * l \/ q * n < r * m
  BY <1>6, <1>7
<1>8. CASE p * m = q * l /\ q * n = r * m
  <2>1. r * m <= q * n /\ q * l <= p * m
    BY <1>4, <1>8
  <2>2. r * l <= p * n
    BY <1>1, <2>1, Ratios
  <2>3. p * n = r * l
    BY <1>4, <1>6, <2>2
  <2>4. /\ l > m \/ (l = m /\ a.cell < b.cell)
        /\ m > n \/ (m = n /\ b.cell < c.cell)
    BY <1>2, <1>4, <1>8
  <2> QED BY <1>1, <2>3, <2>4
<1> QED BY <1>2, <1>7, <1>8

LEMMA BeatsTotal ==
  ASSUME NEW a, NEW b, IsOffer(a), IsOffer(b)
  PROVE  /\ a.cell # b.cell => Beats(a, b) \/ Beats(b, a)
         /\ ~(Beats(a, b) /\ Beats(b, a))
<1> DEFINE left == a.cost * b.share  right == b.cost * a.share
<1>1. left \in Nat /\ right \in Nat
  BY DEF IsOffer
<1>2. /\ Beats(a, b) <=> (left < right \/ (left = right /\ a.share > b.share)
                          \/ (left = right /\ a.share = b.share /\ a.cell < b.cell))
      /\ Beats(b, a) <=> (right < left \/ (right = left /\ b.share > a.share)
                          \/ (right = left /\ b.share = a.share /\ b.cell < a.cell))
  BY DEF Beats
<1> HIDE DEF left, right
<1> QED BY <1>1, <1>2 DEF IsOffer

(* An offer that beats every other is the best one.                        *)
LEMMA BestIs ==
  ASSUME NEW offers, \A b \in offers : IsOffer(b),
         NEW a \in offers, \A b \in offers : b = a \/ Beats(a, b)
  PROVE  Best(offers) = a
<1> DEFINE best == CHOOSE e \in offers : \A b \in offers : b = e \/ Beats(e, b)
<1>1. Best(offers) = best
  BY DEF Best
<1>2. best \in offers /\ \A b \in offers : b = best \/ Beats(best, b)
  OBVIOUS
<1> HIDE DEF best
<1>3. best = a
  BY <1>2, BeatsTotal
<1> QED BY <1>1, <1>3

(* What a caller hands over about the endpoints.                           *)
Docked(goals, fee) ==
  /\ DOMAIN goals \subseteq Nat /\ IsFiniteSet(DOMAIN goals)
  /\ \A i \in DOMAIN goals : goals[i] \subseteq Cell /\ \A c \in goals[i] : fee[i][c] \in Nat

(* A dock cell serves some endpoint, and makes an offer at no less than    *)
(* what reaching it costs.                                                 *)
LEMMA ServedIs ==
  ASSUME NEW goals, NEW machine, NEW fee, Docked(goals, fee), NEW c \in GoalCells(goals)
  PROVE  /\ ServedAt(c, goals, machine, fee) \subseteq DOMAIN goals
         /\ ServedAt(c, goals, machine, fee) # {}
         /\ IsFiniteSet(ServedAt(c, goals, machine, fee))
         /\ Cardinality(ServedAt(c, goals, machine, fee)) \in Nat \ {0}
         /\ \A i \in ServedAt(c, goals, machine, fee) : c \in goals[i] /\ fee[i][c] \in Nat
         /\ c \in Cell
<1> DEFINE S == ServedAt(c, goals, machine, fee)
           at == {i \in DOMAIN goals : c \in goals[i]}
           fees == {fee[i][c] : i \in at}
           least == {i \in at : fee[i][c] = Min(fees)}
           i0 == Min(least)
<1>1. at # {} /\ at \subseteq Nat /\ c \in Cell /\ \A i \in at : fee[i][c] \in Nat
  BY DEF GoalCells, Range, Docked
<1>2. fees \subseteq Nat /\ fees # {}
  BY <1>1
<1>3. Min(fees) \in fees /\ \A v \in fees : Min(fees) <= v
  BY <1>2, MinIs
<1>4. least # {} /\ least \subseteq Nat
  BY <1>1, <1>3
<1>5. i0 \in least /\ \A j \in least : i0 <= j
  BY <1>4, MinIs
<1>6. i0 \in at /\ \A j \in at : fee[i0][c] < fee[j][c] \/ (fee[i0][c] = fee[j][c] /\ i0 <= j)
  <2> HIDE DEF i0, fees
  <2>1. i0 \in at /\ fee[i0][c] = Min(fees)
    BY <1>5
  <2>2. ASSUME NEW j \in at PROVE fee[i0][c] < fee[j][c] \/ (fee[i0][c] = fee[j][c] /\ i0 <= j)
    <3>1. Min(fees) <= fee[j][c]
      BY <1>3 DEF fees
    <3>2. fee[j][c] = Min(fees) => i0 <= j
      BY <1>5
    <3> QED BY <1>1, <2>1, <3>1, <3>2
  <2> QED BY <2>1, <2>2
<1> HIDE DEF i0
<1>7. i0 \in S
  BY <1>6 DEF ServedAt
<1>8. S \in SUBSET DOMAIN goals /\ \A i \in S : c \in goals[i] /\ fee[i][c] \in Nat
  BY DEF ServedAt, Docked
<1> HIDE DEF S, at, fees, least
<1>9. IsFiniteSet(S) /\ Cardinality(S) \in Nat
  BY <1>8, FS_Subset, FS_CardinalityType DEF Docked
<1>10. Cardinality(S) # 0
  BY <1>7, <1>9, FS_EmptySet
<1> QED BY <1>1, <1>7, <1>8, <1>9, <1>10 DEF S

LEMMA OfferIs ==
  ASSUME NEW goals, NEW machine, NEW fee, Docked(goals, fee), NEW c \in GoalCells(goals),
         NEW cost \in Nat, NEW a, a = Offer(c, cost, goals, machine, fee)
  PROVE  /\ IsOffer(a) /\ a.cell = c /\ a.cost >= cost
         /\ a.share = Cardinality(ServedAt(c, goals, machine, fee))
         /\ a = [cell |-> a.cell, cost |-> a.cost, share |-> a.share]
<1> DEFINE S == ServedAt(c, goals, machine, fee)
           sum == FeeSum(fee, c, S)
<1>1. IsFiniteSet(S) /\ Cardinality(S) \in Nat \ {0} /\ c \in Nat /\ \A i \in S : fee[i][c] \in Nat
  BY ServedIs, CellFinite
<1>2. a = [cell |-> c, cost |-> cost + sum, share |-> Cardinality(S)]
  BY DEF Offer, FeeSum
<1> HIDE DEF S
<1>3. sum \in Nat
  BY <1>1, FeesSum
<1> HIDE DEF sum
<1>4. a.cell = c /\ a.cost = cost + sum /\ a.share = Cardinality(S)
  BY <1>2
<1>5. cost + sum >= cost /\ cost + sum \in Nat
  BY <1>3
<1> QED BY <1>1, <1>2, <1>4, <1>5 DEF IsOffer, S

-----------------------------------------------------------------------------
(* What a search answers.                                                  *)

(* A step back comes from a nearer neighbour, and stops at a seed.         *)
LEMMA BackIs ==
  ASSUME NEW seeds, NEW extra, NEW blocked, NEW D, Priced(seeds, extra),
         Relaxed(D, seeds, extra, blocked), Reached(D, seeds, extra, blocked),
         NEW c \in Cell, D[c] < Infinity,
         NEW from, from = CameFrom(c, D, extra, seeds)
  PROVE  IF from = NoCell THEN c \in DOMAIN seeds /\ D[c] = seeds[c]
         ELSE /\ from \in Cell /\ c \in Adj(from) /\ c \notin blocked \cup Hard
              /\ D[from] < D[c] /\ D[c] = D[from] + StepCost(extra, c)
<1> DEFINE ways == {n \in Beside[c] : D[n] + StepCost(extra, c) = D[c]}
<1>1. /\ \A n \in Cell : D[n] \in Nat /\ n \in Nat
      /\ StepCost(extra, c) \in Nat /\ StepCost(extra, c) >= 1 /\ D[c] # Infinity
  BY InfinityIs, SeededType, CellFinite DEF Relaxed, Field
<1>2. CASE c \in DOMAIN seeds /\ D[c] = seeds[c]
  BY <1>2 DEF CameFrom
<1>3. CASE ~(c \in DOMAIN seeds /\ D[c] = seeds[c])
  <2>1. c \notin blocked \cup Hard /\ \E n \in Beside[c] : D[c] = D[n] + StepCost(extra, c)
    BY <1>1, <1>3 DEF Reached
  <2>2. ways \subseteq Nat /\ ways # {} /\ \A n \in ways : n \in Cell /\ c \in Adj(n)
    BY <1>1, <2>1, BesideIs
  <2>3. Min(ways) \in ways
    BY <2>2, MinIs
  <2>4. from = Min(ways)
    BY <1>3 DEF CameFrom
  <2>5. from \in Cell /\ D[from] + StepCost(extra, c) = D[c] /\ from \in Nat /\ c \in Adj(from)
    BY <1>1, <2>2, <2>3, <2>4
  <2> HIDE DEF ways
  <2>6. from # NoCell /\ D[from] < D[c]
    BY <1>1, <2>5 DEF NoCell
  <2> QED BY <2>1, <2>5, <2>6
<1> QED BY <1>2, <1>3

(* A walk to goal, each of its cells as near as a step from the one before *)
(* makes it.                                                               *)
Descents(goal, D, extra, blocked) ==
  {w \in Seq(Cell) :
     /\ w # <<>> /\ w[Len(w)] = goal
     /\ \A j \in 1 .. Len(w) : D[w[j]] < Infinity
     /\ \A j \in 1 .. Len(w) - 1 :
          /\ w[j+1] \in Adj(w[j]) /\ w[j+1] \notin blocked \cup Hard
          /\ D[w[j+1]] = D[w[j]] + StepCost(extra, w[j+1])}

(* One cell more in front of it, while there is one to come from.          *)
Backed(w, D, extra, seeds) ==
  LET from == CameFrom(w[1], D, extra, seeds)
  IN  IF from = NoCell THEN w ELSE <<from>> \o w

LEMMA BackedIs ==
  ASSUME NEW seeds, NEW extra, NEW blocked, NEW D, Priced(seeds, extra),
         Relaxed(D, seeds, extra, blocked), Reached(D, seeds, extra, blocked),
         NEW goal, NEW w \in Descents(goal, D, extra, blocked), NEW v, v = Backed(w, D, extra, seeds)
  PROVE  /\ v \in Descents(goal, D, extra, blocked)
         /\ \/ v = w /\ CameFrom(w[1], D, extra, seeds) = NoCell
            \/ D[v[1]] < D[w[1]]
         /\ w[1] \in Cell /\ v[1] \in Cell
<1> DEFINE from == CameFrom(w[1], D, extra, seeds)
<1>1. /\ w \in Seq(Cell) /\ w # <<>> /\ Len(w) \in Nat /\ Len(w) >= 1
      /\ w[Len(w)] = goal /\ \A j \in 1 .. Len(w) : w[j] \in Cell /\ D[w[j]] < Infinity
      /\ \A j \in 1 .. Len(w) - 1 :
           /\ w[j+1] \in Adj(w[j]) /\ w[j+1] \notin blocked \cup Hard
          /\ D[w[j+1]] = D[w[j]] + StepCost(extra, w[j+1])
  BY DEF Descents
<1>2. w[1] \in Cell /\ D[w[1]] < Infinity
  BY <1>1
<1>3. from # NoCell => /\ from \in Cell /\ w[1] \in Adj(from) /\ w[1] \notin blocked \cup Hard
                       /\ D[from] < D[w[1]] /\ D[w[1]] = D[from] + StepCost(extra, w[1])
  BY <1>2, BackIs
<1>4. v = IF from = NoCell THEN w ELSE <<from>> \o w
  BY DEF Backed
<1>5. CASE from = NoCell
  BY <1>2, <1>4, <1>5
<1>6. CASE from # NoCell
  <2> HIDE DEF from
  <2>1. /\ v \in Seq(Cell) /\ Len(v) = Len(w) + 1 /\ v[1] = from /\ v # <<>>
        /\ \A j \in 1 .. Len(w) : v[j+1] = w[j]
    BY <1>1, <1>3, <1>4, <1>6
  <2>2. v[Len(v)] = goal
    BY <1>1, <2>1
  <2>3. ASSUME NEW j \in 1 .. Len(v), j # 1
        PROVE  j - 1 \in 1 .. Len(w) /\ v[j] = w[j-1] /\ (j - 1) + 1 = j
    BY <1>1, <2>1, <2>3
  <2>4. D[from] < Infinity
    BY <1>2, <1>3, <1>6, InfinityIs DEF Relaxed, Field
  <2>5. \A j \in 1 .. Len(v) : D[v[j]] < Infinity
    <3> TAKE j \in 1 .. Len(v)
    <3>1. CASE j = 1
      BY <2>1, <2>4, <3>1
    <3>2. CASE j # 1
      BY <1>1, <2>3, <3>2
    <3> QED BY <3>1, <3>2
  <2>6. ASSUME NEW j \in 1 .. Len(v) - 1
        PROVE  /\ v[j+1] \in Adj(v[j]) /\ v[j+1] \notin blocked \cup Hard
               /\ D[v[j+1]] = D[v[j]] + StepCost(extra, v[j+1])
    <3>1. j \in 1 .. Len(w) /\ v[j+1] = w[j] /\ j \in 1 .. Len(v)
      BY <1>1, <2>1
    <3>2. CASE j = 1
      BY <1>3, <1>6, <2>1, <3>1, <3>2
    <3>3. CASE j # 1
      <4>1. j - 1 \in 1 .. Len(w) - 1 /\ v[j] = w[j-1] /\ (j - 1) + 1 = j
        BY <1>1, <2>3, <3>1, <3>3
      <4> QED BY <1>1, <3>1, <4>1
    <3> QED BY <3>2, <3>3
  <2>7. v \in Descents(goal, D, extra, blocked)
    BY <2>1, <2>2, <2>5, <2>6 DEF Descents
  <2> QED BY <1>2, <1>3, <1>6, <2>1, <2>7
<1> QED BY <1>5, <1>6

(* PathTo answers such a walk from a seed.                                 *)
LEMMA PathIs ==
  ASSUME NEW seeds, NEW extra, NEW blocked, NEW D, Priced(seeds, extra),
         Relaxed(D, seeds, extra, blocked), Reached(D, seeds, extra, blocked),
         NEW goal \in Cell, D[goal] < Infinity,
         NEW w, w = PathTo(goal, D, extra, seeds)
  PROVE  w \in Descents(goal, D, extra, blocked) /\ w[1] \in DOMAIN seeds /\ D[w[1]] = seeds[w[1]]
<1> DEFINE N == Cardinality(Cell)
           T == Descents(goal, D, extra, blocked)
           Body(f) == [k \in 0 .. N |->
             IF k = 0 THEN <<goal>>
             ELSE IF CameFrom(Head(f[k-1]), D, extra, seeds) = NoCell THEN f[k-1]
                  ELSE <<CameFrom(Head(f[k-1]), D, extra, seeds)>> \o f[k-1]]
           back == CHOOSE f : f = Body(f)
           F == [v \in T |-> Backed(v, D, extra, seeds)]
<1>1. N \in Nat
  BY CellFinite
<1>2. w = back[N]
  BY DEF PathTo
<1>3. <<goal>> \in T
  BY DEF Descents
<1>4. F \in [T -> T] /\ \A v \in T : F[v] = Backed(v, D, extra, seeds)
  BY BackedIs
<1>5. \A v \in T : v # <<>> /\ Head(v) = v[1]
  BY DEF Descents
<1>6. ASSUME NEW f, NEW k \in 0 .. N, k # 0 => f[k-1] \in T
      PROVE  Body(f)[k] = IF k = 0 THEN <<goal>> ELSE F[f[k-1]]
  <2>1. CASE k = 0
    BY <2>1
  <2>2. CASE k # 0
    <3>1. Body(f)[k] = IF CameFrom(Head(f[k-1]), D, extra, seeds) = NoCell THEN f[k-1]
                       ELSE <<CameFrom(Head(f[k-1]), D, extra, seeds)>> \o f[k-1]
      BY <2>2
    <3> HIDE DEF Body
    <3> QED BY <1>4, <1>5, <1>6, <2>2, <3>1 DEF Backed
  <2> QED BY <2>1, <2>2
<1>7. \A f : Body(f) = [k \in 0 .. N |-> Body(f)[k]]
  OBVIOUS
<1> HIDE DEF N, F, T, Body
<1>8. PICK g : Repeats(g, T, <<goal>>, F, N)
  BY <1>1, <1>3, <1>4, Rounds
<1>9. g = Body(g)
  <2>1. ASSUME NEW k \in 0 .. N PROVE g[k] = Body(g)[k]
    <3>1. CASE k = 0
      BY <1>6, <1>8, <3>1 DEF Repeats
    <3>2. CASE k # 0
      <4>1. k \in 1 .. N /\ k - 1 \in 0 .. N
        BY <1>1, <3>2
      <4> QED BY <1>6, <1>8, <3>2, <4>1 DEF Repeats
    <3> QED BY <3>1, <3>2
  <2>2. g = [k \in 0 .. N |-> g[k]]
    BY <1>8 DEF Repeats
  <2> QED BY <1>7, <2>1, <2>2
<1>10. back = Body(back)
  BY <1>9
<1> HIDE DEF back
<1>11. Repeats(back, T, <<goal>>, F, N)
  <2>1. back = [k \in 0 .. N |-> back[k]]
    BY <1>7, <1>10
  <2>2. back[0] = <<goal>>
    BY <1>1, <1>6, <1>10
  <2>3. \A k \in 1 .. N : back[k-1] \in T => back[k] = F[back[k-1]]
    <3> TAKE k \in 1 .. N
    <3>1. k \in 0 .. N /\ k # 0
      BY <1>1
    <3> QED BY <1>6, <1>10, <3>1
  <2> QED BY <1>1, <1>3, <1>4, <2>1, <2>2, <2>3, Unrolls
<1>12. /\ \A k \in 0 .. N : back[k] \in T
       /\ \A k \in 1 .. N : back[k] = Backed(back[k-1], D, extra, seeds)
  <2>1. \A k \in 0 .. N : back[k] \in T
    BY <1>11 DEF Repeats
  <2>2. \A k \in 1 .. N : k - 1 \in 0 .. N
    BY <1>1
  <2> QED BY <1>4, <1>11, <2>1, <2>2 DEF Repeats
<1> DEFINE Ended(v) == CameFrom(v[1], D, extra, seeds) = NoCell
           Close(k) == Ended(back[k]) \/ Rank(D, back[k][1]) + k <= N
           S == {k \in 0 .. N : Close(k)}
<1>13. \A v \in T : v[1] \in Cell /\ D[v[1]] < Infinity
  BY DEF T, Descents
<1>14. \A c \in Cell : /\ Rank(D, c) \in Nat /\ Rank(D, c) <= N
                       /\ \A n \in Cell : D[n] < D[c] => Rank(D, n) < Rank(D, c)
  BY RankIs, <1>1 DEF Relaxed, N
<1>15. 0 \in S
  <2>1. back[0] \in T /\ Rank(D, back[0][1]) \in Nat /\ Rank(D, back[0][1]) <= N
    BY <1>1, <1>12, <1>13, <1>14
  <2> QED BY <1>1, <2>1
<1>16. \A k \in 0 .. N - 1 : k \in S => k + 1 \in S
  <2> HIDE DEF Close
  <2> SUFFICES ASSUME NEW k \in 0 .. N - 1, Close(k) PROVE Close(k + 1)
    BY <1>1
  <2> DEFINE u == back[k]  v == back[k+1]
  <2>1. k + 1 \in 1 .. N /\ (k + 1) - 1 = k /\ k \in 0 .. N /\ k \in Nat
    BY <1>1
  <2>2. u \in T /\ v = Backed(u, D, extra, seeds)
    BY <1>12, <2>1
  <2>3. /\ (v = u /\ Ended(u)) \/ D[v[1]] < D[u[1]]
        /\ u[1] \in Cell /\ v[1] \in Cell
    <3> HIDE DEF u, v
    <3>1. u \in Descents(goal, D, extra, blocked)
      BY <2>2 DEF T
    <3> QED BY <2>2, <3>1, BackedIs
  <2>4. Ended(u) => v = u
    BY <2>2 DEF Backed
  <2> HIDE DEF S
  <2>5. CASE Ended(u)
    BY <2>4, <2>5 DEF Close
  <2>6. CASE ~Ended(u)
    <3>1. Rank(D, v[1]) < Rank(D, u[1]) /\ Rank(D, v[1]) \in Nat /\ Rank(D, u[1]) \in Nat
      BY <1>14, <2>3, <2>6
    <3>2. Rank(D, u[1]) + k <= N
      BY <2>6 DEF Close
    <3> HIDE DEF u, v
    <3>3. Rank(D, v[1]) + (k + 1) <= N
      BY <1>1, <2>1, <3>1, <3>2
    <3> QED BY <3>3 DEF v, Close
  <2> QED BY <2>5, <2>6
<1> HIDE DEF S
<1>17. N \in S
  BY <1>1, <1>15, <1>16, UpTo
<1>18. w \in T /\ (Ended(w) \/ Rank(D, w[1]) + N <= N)
  BY <1>1, <1>2, <1>12, <1>17 DEF S
<1>19. Ended(w)
  <2> SUFFICES ASSUME ~Ended(w) PROVE FALSE
    OBVIOUS
  <2> DEFINE v == Backed(w, D, extra, seeds)
  <2>1. D[v[1]] < D[w[1]] /\ w[1] \in Cell /\ v[1] \in Cell
    <3> HIDE DEF v
    <3>1. w \in Descents(goal, D, extra, blocked)
      BY <1>18 DEF T
    <3> QED BY <3>1, BackedIs DEF v
  <2>2. Rank(D, v[1]) < Rank(D, w[1]) /\ Rank(D, v[1]) \in Nat /\ Rank(D, w[1]) \in Nat
    BY <1>14, <2>1
  <2> QED BY <1>1, <1>18, <2>2
<1>20. w[1] \in DOMAIN seeds /\ D[w[1]] = seeds[w[1]]
  BY <1>13, <1>18, <1>19, BackIs
<1> QED BY <1>18, <1>20 DEF T

(* Where any dock is reached, what a search finds is a dock it reaches     *)
(* whose offer no other beats.                                             *)
LEMMA FoundBeats ==
  ASSUME NEW goals, NEW machine, NEW fee, Docked(goals, fee), NEW D \in Field,
         NEW found, found = BestGoal(D, goals, machine, fee),
         NEW dock \in GoalCells(goals), D[dock] < Infinity
  PROVE  /\ found.cell \in GoalCells(goals) /\ found.cell \in Cell /\ D[found.cell] < Infinity
         /\ found = Offer(found.cell, D[found.cell], goals, machine, fee)
         /\ \A g \in GoalCells(goals) : D[g] < Infinity =>
              LET offer == Offer(g, D[g], goals, machine, fee)
              IN  IsOffer(offer) /\ (offer = found \/ Beats(found, offer))
<1> DEFINE G == {g \in GoalCells(goals) : D[g] < Infinity}
           Off(c) == Offer(c, D[c], goals, machine, fee)
           offers == {Off(c) : c \in G}
           Over(c) == {g \in G : Beats(Off(g), Off(c))}
           counts == {Cardinality(Over(c)) : c \in G}
<1>1. found = Best(offers)
  BY DEF BestGoal
<1>2. dock \in G
  OBVIOUS
<1>3. G \in SUBSET Cell /\ G # {}
  BY <1>2, ServedIs
<1>4. \A c \in G : IsOffer(Off(c)) /\ Off(c).cell = c
  <2> TAKE c \in G
  <2>1. c \in GoalCells(goals) /\ D[c] \in Nat
    BY <1>3, InfinityIs DEF Field
  <2> QED BY <2>1, OfferIs
<1> HIDE DEF G, Off
<1>5. \A c \in G : IsFiniteSet(Over(c)) /\ Cardinality(Over(c)) \in Nat
  <2> TAKE c \in G
  <2>1. Over(c) \in SUBSET Cell
    BY <1>3
  <2> HIDE DEF Over
  <2> QED BY <2>1, CellFinite, FS_Subset, FS_CardinalityType
<1>6. PICK c \in G : \A g \in G : Cardinality(Over(c)) <= Cardinality(Over(g))
  <2>1. counts \subseteq Nat /\ counts # {}
    BY <1>3, <1>5
  <2> HIDE DEF Over
  <2>2. Min(counts) \in counts /\ \A v \in counts : Min(counts) <= v
    BY <2>1, MinIs
  <2> QED BY <2>2
<1>7. \A g \in G : ~Beats(Off(g), Off(c))
  <2> SUFFICES ASSUME NEW g \in G, Beats(Off(g), Off(c)) PROVE FALSE
    OBVIOUS
  <2>1. Over(g) \in SUBSET Over(c)
    BY <1>4, BeatsTransitive
  <2>2. g \in Over(c) /\ g \notin Over(g)
    BY <1>4, BeatsTotal
  <2> HIDE DEF Over
  <2>3. Cardinality(Over(g)) <= Cardinality(Over(c)) /\ Cardinality(Over(g)) # Cardinality(Over(c))
    BY <1>5, <2>1, <2>2, FS_Subset
  <2> QED BY <1>5, <1>6, <2>3
<1>8. \A b \in offers : b = Off(c) \/ Beats(Off(c), b)
  <2> SUFFICES ASSUME NEW g \in G PROVE Off(g) = Off(c) \/ Beats(Off(c), Off(g))
    OBVIOUS
  <2>1. CASE g = c
    BY <2>1
  <2>2. CASE g # c
    BY <1>4, <1>7, <2>2, BeatsTotal
  <2> QED BY <2>1, <2>2
<1>9. found = Off(c)
  <2>1. \A b \in offers : IsOffer(b)
    BY <1>4
  <2>2. Off(c) \in offers
    OBVIOUS
  <2> HIDE DEF offers
  <2> QED BY <1>1, <1>8, <2>1, <2>2, BestIs
<1>10. \A g \in G : IsOffer(Off(g)) /\ (Off(g) = found \/ Beats(found, Off(g)))
  BY <1>4, <1>8, <1>9
<1>11. found.cell = c
  BY <1>4, <1>9
<1> HIDE DEF Over, counts, offers
<1> QED BY <1>3, <1>9, <1>10, <1>11 DEF G, Off

(* An offer is found just where a dock is reached.                         *)
LEMMA FoundIs ==
  ASSUME NEW goals, NEW machine, NEW fee, Docked(goals, fee), NEW D \in Field,
         NEW found, found = BestGoal(D, goals, machine, fee)
  PROVE  /\ found # NoOffer =>
              found.cell \in GoalCells(goals) /\ found.cell \in Cell /\ D[found.cell] < Infinity
         /\ found = NoOffer => \A dock \in GoalCells(goals) : D[dock] = Infinity
<1>1. found # NoOffer => \E dock \in GoalCells(goals) : D[dock] < Infinity
  BY DEF BestGoal, Best
<1>2. ASSUME NEW dock \in GoalCells(goals), D[dock] < Infinity PROVE found # NoOffer
  <2>1. found.cell \in Cell
    BY <1>2, FoundBeats
  <2> QED BY <2>1, CellFinite DEF NoOffer, NoCell
<1>3. \A dock \in GoalCells(goals) : D[dock] \in 0 .. Infinity
  BY ServedIs DEF Field
<1> QED BY <1>1, <1>2, <1>3, FoundBeats, InfinityIs

(* Of each machine a dock serves one endpoint.                             *)
LEMMA ServedApart ==
  ASSUME NEW goals, NEW machine, NEW fee, Docked(goals, fee), NEW c,
         NEW i \in ServedAt(c, goals, machine, fee), NEW j \in ServedAt(c, goals, machine, fee),
         machine[i] = machine[j]
  PROVE  i = j
<1>1. /\ i \in DOMAIN goals /\ j \in DOMAIN goals /\ c \in goals[i] /\ c \in goals[j]
      /\ fee[i][c] < fee[j][c] \/ (fee[i][c] = fee[j][c] /\ i <= j)
      /\ fee[j][c] < fee[i][c] \/ (fee[j][c] = fee[i][c] /\ j <= i)
  BY DEF ServedAt
<1>2. i \in Nat /\ j \in Nat /\ fee[i][c] \in Nat /\ fee[j][c] \in Nat
  BY <1>1 DEF Docked
<1> QED BY <1>1, <1>2
=============================================================================
