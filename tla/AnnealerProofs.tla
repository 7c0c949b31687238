--------------------------- MODULE AnnealerProofs ---------------------------
(***************************************************************************)
(* Safety of the annealed placer, for every line, region, seed that fits   *)
(* and length of the walk: what it holds stays legal, the cells it keeps   *)
(* up are the ones covered, columns stay columns, asking the gate          *)
(* afterwards picks the state asking at every step would have kept, scores *)
(* cut short change no choice, and a machine the gate names for its docks  *)
(* proves that the layout cannot dock everything at once.                  *)
(***************************************************************************)
EXTENDS Annealer, TLAPS, FiniteSetTheorems, WellFoundedInduction

-----------------------------------------------------------------------------
(* Least and greatest elements.                                            *)

(* Some element of a set of naturals is the least.                         *)
LEMMA LeastNat ==
  ASSUME NEW S, S \subseteq Nat, S # {}
  PROVE  \E x \in S : \A y \in S : x <= y
<1>1. PICK x \in S : \A y \in S : ~(<<y, x>> \in OpToRel(<, Nat))
  BY NatLessThanWellFounded, WFMin
<1>2. \A y \in S : ~(y < x)
  BY <1>1 DEF OpToRel
<1> QED BY <1>2

(* A set that holds 0 and, with k, k + 1 holds every number up to n.       *)
LEMMA UpTo ==
  ASSUME NEW n \in Nat, NEW S, 0 \in S, \A k \in 0 .. n - 1 : k \in S => k + 1 \in S
  PROVE  \A k \in 0 .. n : k \in S
<1> DEFINE missing == (0 .. n) \ S
<1>1. SUFFICES ASSUME missing # {} PROVE FALSE
  OBVIOUS
<1>2. PICK k \in missing : \A y \in missing : k <= y
  <2>1. missing \subseteq Nat
    OBVIOUS
  <2> HIDE DEF missing
  <2> QED BY <1>1, <2>1, LeastNat
<1>3. k \in 0 .. n /\ k # 0 /\ k \notin S
  BY <1>2
<1>4. k - 1 \in 0 .. n - 1 /\ k - 1 \notin missing
  BY <1>2, <1>3
<1> QED BY <1>3, <1>4

(* A finite set of integers has a least and a greatest element.            *)
LEMMA FiniteBounds ==
  ASSUME NEW S, S \subseteq Int, S # {}, IsFiniteSet(S)
  PROVE  (\E x \in S : \A y \in S : x <= y) /\ (\E x \in S : \A y \in S : y <= x)
<1>0. PICK n \in Nat : ExistsBijection(1 .. n, S)
  BY FS_NatBijection
<1>1. PICK f \in [1 .. n -> S] : \A g \in S : \E k \in 1 .. n : f[k] = g
  BY <1>0 DEF ExistsBijection, Bijection, Surjection
<1> DEFINE T == {k \in 0 .. n :
                   k > 0 => \E a, b \in 1 .. k : \A j \in 1 .. k : f[a] <= f[j] /\ f[j] <= f[b]}
<1>2. 0 \in T
  OBVIOUS
<1>3. \A k \in 0 .. n - 1 : k \in T => k + 1 \in T
  <2> SUFFICES ASSUME NEW k \in 0 .. n - 1, k \in T PROVE k + 1 \in T
    OBVIOUS
  <2>1. \A j \in 1 .. k + 1 : f[j] \in Int
    <3>1. \A j \in 1 .. k + 1 : j \in 1 .. n
      BY <1>0
    <3>2. \A j \in 1 .. n : f[j] \in Int
      OBVIOUS
    <3> HIDE DEF T
    <3> QED BY <3>1, <3>2
  <2>2. CASE k = 0
    <3>1. \A j \in 1 .. k + 1 : j = 1
      BY <2>2
    <3> QED BY <2>1, <2>2, <3>1
  <2>3. CASE k > 0
    <3>1. PICK a \in 1 .. k, b \in 1 .. k : \A j \in 1 .. k : f[a] <= f[j] /\ f[j] <= f[b]
      BY <2>3
    <3> DEFINE lo == IF f[k + 1] < f[a] THEN k + 1 ELSE a
               hi == IF f[k + 1] > f[b] THEN k + 1 ELSE b
    <3>2. lo \in 1 .. k + 1 /\ hi \in 1 .. k + 1
      OBVIOUS
    <3>3. \A j \in 1 .. k + 1 : f[lo] <= f[j] /\ f[j] <= f[hi]
      <4> TAKE j \in 1 .. k + 1
      <4>1. j \in 1 .. k \/ j = k + 1
        OBVIOUS
      <4> QED BY <2>1, <3>1, <4>1
    <3>4. k + 1 \in 0 .. n
      BY <1>0
    <3> HIDE DEF lo, hi
    <3> QED BY <3>2, <3>3, <3>4
  <2> QED BY <2>2, <2>3
<1>4. n \in T
  <2> HIDE DEF T
  <2> QED BY <1>2, <1>3, UpTo
<1>5. n > 0
  <2>1. PICK k \in 1 .. n : TRUE
    BY <1>1
  <2> QED BY <1>0, <2>1
<1>6. PICK a \in 1 .. n, b \in 1 .. n : \A j \in 1 .. n : f[a] <= f[j] /\ f[j] <= f[b]
  BY <1>4, <1>5
<1>7. f[a] \in S /\ f[b] \in S
  OBVIOUS
<1>8. \A y \in S : f[a] <= y /\ y <= f[b]
  BY <1>1, <1>6
<1> QED BY <1>7, <1>8

LEMMA FiniteMin ==
  ASSUME NEW S, S \subseteq Int, S # {}, IsFiniteSet(S)
  PROVE  Min(S) \in S /\ Min(S) \in Int /\ \A y \in S : Min(S) <= y
<1>1. \E x \in S : \A y \in S : x <= y
  BY FiniteBounds
<1> QED BY <1>1 DEF Min

LEMMA FiniteMax ==
  ASSUME NEW S, S \subseteq Int, S # {}, IsFiniteSet(S)
  PROVE  Max(S) \in S /\ Max(S) \in Int /\ \A y \in S : y <= Max(S)
<1>1. \E x \in S : \A y \in S : x >= y
  BY FiniteBounds
<1> QED BY <1>1 DEF Max

-----------------------------------------------------------------------------
(* Sequences in order.                                                     *)

(* A strict order in which any two members of S are comparable.            *)
Ordered(S, before) ==
  /\ \A x \in S : <<x, x>> \notin before
  /\ \A x, y, z \in S : <<x, y>> \in before /\ <<y, z>> \in before => <<x, z>> \in before
  /\ \A x, y \in S : x # y => <<x, y>> \in before \/ <<y, x>> \in before

(* Those of S that come before one of them.                                *)
Earlier(S, before, x) == {y \in S : <<y, x>> \in before}

(* InOrder lists every member of an ordered set once.                      *)
LEMMA InOrderLists ==
  ASSUME NEW S, IsFiniteSet(S), NEW before, Ordered(S, before)
  PROVE  /\ Cardinality(S) \in Nat
         /\ DOMAIN InOrder(S, before) = 1 .. Cardinality(S)
         /\ InOrder(S, before) \in Seq(S)
         /\ \A k \in 1 .. Cardinality(S) : InOrder(S, before)[k] \in S
         /\ \A k, l \in 1 .. Cardinality(S) : InOrder(S, before)[k] = InOrder(S, before)[l] => k = l
         /\ \A x \in S : \E k \in 1 .. Cardinality(S) : InOrder(S, before)[k] = x
<1> DEFINE n == Cardinality(S)
           rank == [x \in S |-> Cardinality(Earlier(S, before, x)) + 1]
           seq == [k \in 1 .. n |-> CHOOSE x \in S : Cardinality({y \in S : <<y, x>> \in before}) = k - 1]
<1>1. n \in Nat
  BY FS_CardinalityType
<1>2. \A x \in S : /\ IsFiniteSet(Earlier(S, before, x)) /\ Cardinality(Earlier(S, before, x)) \in Nat
                   /\ Cardinality(Earlier(S, before, x)) <= n - 1
  <2> TAKE x \in S
  <2>1. Earlier(S, before, x) \in SUBSET (S \ {x})
    BY DEF Earlier, Ordered
  <2>2. IsFiniteSet(S \ {x}) /\ Cardinality(S \ {x}) = n - 1
    BY FS_RemoveElement
  <2>3. IsFiniteSet(Earlier(S, before, x)) /\ Cardinality(Earlier(S, before, x)) <= n - 1
    BY <2>1, <2>2, FS_Subset
  <2> QED BY <2>3, FS_CardinalityType
<1>3. rank \in [S -> 1 .. n]
  BY <1>1, <1>2
<1>4. \A x, y \in S : <<x, y>> \in before => rank[x] < rank[y]
  <2> SUFFICES ASSUME NEW x \in S, NEW y \in S, <<x, y>> \in before PROVE rank[x] < rank[y]
    OBVIOUS
  <2>1. Earlier(S, before, x) \cup {x} \in SUBSET Earlier(S, before, y) /\ x \notin Earlier(S, before, x)
    BY DEF Earlier, Ordered
  <2>2. Cardinality(Earlier(S, before, x) \cup {x}) = Cardinality(Earlier(S, before, x)) + 1
    BY <1>2, <2>1, FS_AddElement
  <2>3. Cardinality(Earlier(S, before, x) \cup {x}) <= Cardinality(Earlier(S, before, y))
    BY <1>2, <2>1, FS_Subset
  <2> QED BY <1>2, <2>2, <2>3
<1>5. \A x, y \in S : rank[x] = rank[y] => x = y
  <2> SUFFICES ASSUME NEW x \in S, NEW y \in S, rank[x] = rank[y] PROVE x = y
    OBVIOUS
  <2>1. rank[x] \in Int /\ rank[y] \in Int
    BY <1>3
  <2>2. <<x, y>> \notin before /\ <<y, x>> \notin before
    BY <1>4, <2>1
  <2> HIDE DEF rank
  <2> QED BY <2>2 DEF Ordered
<1>6. rank \in Surjection(S, 1 .. n)
  <2>1. rank \in Injection(S, 1 .. n)
    <3> HIDE DEF rank
    <3> QED BY <1>3, <1>5 DEF Injection, IsInjective
  <2>2. IsFiniteSet(1 .. n) /\ Cardinality(1 .. n) = n
    BY <1>1, FS_Interval
  <2> QED BY <2>1, <2>2, FS_Injection
<1>7. \A k \in 1 .. n : seq[k] \in S /\ rank[seq[k]] = k
  <2> TAKE k \in 1 .. n
  <2>1. PICK x \in S : rank[x] = k
    BY <1>6 DEF Surjection
  <2>2. Cardinality(Earlier(S, before, x)) = k - 1
    BY <1>2, <2>1
  <2>3. \E z \in S : Cardinality({y \in S : <<y, z>> \in before}) = k - 1
    BY <2>2 DEF Earlier
  <2>4. seq[k] \in S /\ Cardinality({y \in S : <<y, seq[k]>> \in before}) = k - 1
    BY <2>3
  <2> QED BY <2>4 DEF Earlier
<1>8. \A x \in S : seq[rank[x]] = x
  <2> TAKE x \in S
  <2>1. rank[x] \in 1 .. n /\ seq[rank[x]] \in S /\ rank[seq[rank[x]]] = rank[x]
    BY <1>3, <1>7
  <2> HIDE DEF rank, seq
  <2> QED BY <1>5, <2>1
<1>9. seq \in [1 .. n -> S]
  BY <1>7
<1>10. InOrder(S, before) = seq
  <2>1. SubSeq(seq, 1, n) = seq
    <3> HIDE DEF seq
    <3>1. seq \in Seq(S) /\ Len(seq) = n /\ SubSeq(seq, 1, n) \in Seq(S) /\ Len(SubSeq(seq, 1, n)) = n
      BY <1>1, <1>9
    <3>2. \A k \in 1 .. n : SubSeq(seq, 1, n)[k] = seq[k]
      BY <1>1, <1>9, <3>1
    <3> QED BY <3>1, <3>2
  <2> QED BY <2>1 DEF InOrder
<1> HIDE DEF rank, seq
<1>11. seq \in Seq(S) /\ DOMAIN seq = 1 .. n
  BY <1>1, <1>9
<1> QED BY <1>1, <1>3, <1>7, <1>8, <1>10, <1>11

(* Numbers that differ order what they number.                             *)
LEMMA ByKeyLists ==
  ASSUME NEW S, IsFiniteSet(S), NEW key,
         \A x \in S : key[x] \in Int,
         \A x, y \in S : key[x] = key[y] => x = y
  PROVE  /\ Cardinality(S) \in Nat
         /\ DOMAIN ByKey(S, key) = 1 .. Cardinality(S)
         /\ ByKey(S, key) \in Seq(S)
         /\ \A k \in 1 .. Cardinality(S) : ByKey(S, key)[k] \in S
         /\ \A k, l \in 1 .. Cardinality(S) : ByKey(S, key)[k] = ByKey(S, key)[l] => k = l
         /\ \A x \in S : \E k \in 1 .. Cardinality(S) : ByKey(S, key)[k] = x
<1> DEFINE before == {p \in S \X S : key[p[1]] < key[p[2]]}
<1>1. \A x, y \in S : <<x, y>> \in before <=> key[x] < key[y]
  OBVIOUS
<1>2. ByKey(S, key) = InOrder(S, before)
  BY DEF ByKey
<1> HIDE DEF before
<1>3. Ordered(S, before)
  BY <1>1 DEF Ordered
<1> QED BY <1>2, <1>3, InOrderLists
-----------------------------------------------------------------------------
(* Sums over finite sets.                                                  *)

Pick(s) == CHOOSE i \in s : TRUE

(* g gives the sum of v over every subset of S of at most m elements.      *)
Sums(g, v, S, m) ==
  \A s \in SUBSET S : Cardinality(s) <= m =>
    g[s] \in Int /\ g[s] = IF s = {} THEN 0 ELSE v[Pick(s)] + g[s \ {Pick(s)}]

LEMMA SumStep ==
  ASSUME NEW S, IsFiniteSet(S), NEW s \in SUBSET S
  PROVE  /\ Cardinality(s) \in Nat /\ Cardinality(s) <= Cardinality(S)
         /\ Cardinality(s) = 0 <=> s = {}
         /\ s # {} => /\ Pick(s) \in s /\ s \ {Pick(s)} \in SUBSET S
                      /\ Cardinality(s \ {Pick(s)}) = Cardinality(s) - 1
<1>1. IsFiniteSet(s) /\ Cardinality(s) \in Nat /\ Cardinality(S) \in Nat /\ Cardinality(s) <= Cardinality(S)
  BY FS_Subset, FS_CardinalityType
<1>2. Cardinality(s) = 0 <=> s = {}
  BY <1>1, FS_EmptySet
<1>3. s # {} => Pick(s) \in s
  BY DEF Pick
<1>4. s # {} => Cardinality(s \ {Pick(s)}) = Cardinality(s) - 1
  BY <1>1, <1>3, FS_RemoveElement
<1> QED BY <1>1, <1>2, <1>3, <1>4

LEMMA SumsExist ==
  ASSUME NEW S, IsFiniteSet(S), NEW v, \A i \in S : v[i] \in Int
  PROVE  \E g : /\ g = [s \in SUBSET S |-> g[s]]
                /\ Sums(g, v, S, Cardinality(S))
<1> DEFINE n == Cardinality(S)
           T == {m \in 0 .. n : \E g : g = [s \in SUBSET S |-> g[s]] /\ Sums(g, v, S, m)}
<1>1. n \in Nat
  BY FS_CardinalityType
<1>2. 0 \in T
  <2> DEFINE g == [s \in SUBSET S |-> 0]
  <2>1. g = [s \in SUBSET S |-> g[s]]
    OBVIOUS
  <2>2. Sums(g, v, S, 0)
    <3> SUFFICES ASSUME NEW s \in SUBSET S, Cardinality(s) <= 0
                 PROVE  g[s] \in Int /\ g[s] = IF s = {} THEN 0 ELSE v[Pick(s)] + g[s \ {Pick(s)}]
      BY DEF Sums
    <3>1. Cardinality(s) \in Nat /\ (Cardinality(s) = 0 => s = {})
      BY SumStep
    <3>2. s = {}
      BY <3>1
    <3> QED BY <3>2
  <2> HIDE DEF g
  <2> QED BY <1>1, <2>1, <2>2
<1>3. \A m \in 0 .. n - 1 : m \in T => m + 1 \in T
  <2> SUFFICES ASSUME NEW m \in 0 .. n - 1, m \in T PROVE m + 1 \in T
    OBVIOUS
  <2>1. PICK g : g = [s \in SUBSET S |-> g[s]] /\ Sums(g, v, S, m)
    OBVIOUS
  <2>2. m \in Nat /\ m + 1 \in 0 .. n
    BY <1>1
  <2> HIDE DEF T
  <2> DEFINE h == [s \in SUBSET S |->
                     IF Cardinality(s) <= m THEN g[s] ELSE v[Pick(s)] + g[s \ {Pick(s)}]]
  <2>3. h = [s \in SUBSET S |-> h[s]]
    OBVIOUS
  <2>4. ASSUME NEW s \in SUBSET S, Cardinality(s) <= m + 1
        PROVE  h[s] \in Int /\ h[s] = IF s = {} THEN 0 ELSE v[Pick(s)] + h[s \ {Pick(s)}]
    <3> DEFINE less == s \ {Pick(s)}
    <3>1. /\ Cardinality(s) \in Nat /\ (Cardinality(s) = 0 <=> s = {})
          /\ s # {} => Pick(s) \in S /\ less \in SUBSET S /\ Cardinality(less) = Cardinality(s) - 1
      BY SumStep DEF less
    <3>2. h[s] = IF Cardinality(s) <= m THEN g[s] ELSE v[Pick(s)] + g[less]
      OBVIOUS
    <3>3. less \in SUBSET S /\ Cardinality(less) <= m => h[less] = g[less]
      OBVIOUS
    <3> HIDE DEF h, less
    <3>4. CASE s = {}
      <4>1. Cardinality(s) <= m
        BY <2>2, <3>1, <3>4
      <4>2. g[s] = 0
        BY <2>1, <3>4, <4>1 DEF Sums
      <4> QED BY <3>2, <3>4, <4>1, <4>2
    <3>5. CASE s # {} /\ Cardinality(s) <= m
      <4>1. Cardinality(less) <= m
        BY <2>2, <3>1, <3>5
      <4>2. g[s] \in Int /\ g[s] = v[Pick(s)] + g[less]
        BY <2>1, <3>5 DEF Sums, less
      <4> QED BY <3>1, <3>2, <3>3, <3>5, <4>1, <4>2 DEF less
    <3>6. CASE s # {} /\ ~(Cardinality(s) <= m)
      <4>1. Cardinality(less) <= m
        BY <2>2, <2>4, <3>1, <3>6
      <4>2. g[less] \in Int
        BY <2>1, <3>1, <3>6, <4>1 DEF Sums
      <4> QED BY <3>1, <3>2, <3>3, <3>6, <4>1, <4>2 DEF less
    <3> QED BY <3>4, <3>5, <3>6
  <2> HIDE DEF h
  <2>5. Sums(h, v, S, m + 1)
    BY <2>4 DEF Sums
  <2> QED BY <2>2, <2>3, <2>5 DEF T
<1> HIDE DEF T
<1>4. n \in T
  BY <1>1, <1>2, <1>3, UpTo
<1> QED BY <1>4 DEF T

(* The sum of v over S.                                                    *)
SumOf(v, S) == MapThenSumSet(LAMBDA i : v[i], S)

(* Any table of the sums over subsets has it.                              *)
LEMMA SumSolves ==
  ASSUME NEW S, IsFiniteSet(S), NEW v, NEW g, Sums(g, v, S, Cardinality(S))
  PROVE  SumOf(v, S) = g[S]
<1> DEFINE n == Cardinality(S)
           table == [s \in SUBSET S |-> g[s]]
           Equation(h) == [s \in SUBSET S |->
                         IF s = {} THEN 0
                         ELSE v[CHOOSE i \in s : TRUE] + h[s \ {CHOOSE i \in s : TRUE}]]
           sum == CHOOSE h : h = Equation(h)
<1>1. SumOf(v, S) = sum[S]
  BY DEF SumOf, MapThenSumSet, MapThenFoldSet
<1>2. n \in Nat /\ n <= n
  BY FS_CardinalityType
<1>3. \A s \in SUBSET S : g[s] = IF s = {} THEN 0 ELSE v[Pick(s)] + g[s \ {Pick(s)}]
  BY SumStep DEF Sums
<1>4. table = Equation(table)
  <2>1. ASSUME NEW s \in SUBSET S PROVE table[s] = Equation(table)[s]
    <3>1. Equation(table)[s] = IF s = {} THEN 0 ELSE v[Pick(s)] + table[s \ {Pick(s)}]
      BY DEF Pick
    <3>2. s \ {Pick(s)} \in SUBSET S
      OBVIOUS
    <3> QED BY <1>3, <3>1, <3>2
  <2>2. table = [s \in SUBSET S |-> table[s]] /\ Equation(table) = [s \in SUBSET S |-> Equation(table)[s]]
    OBVIOUS
  <2> HIDE DEF table, Equation
  <2> QED BY <2>1, <2>2
<1>5. sum = Equation(sum)
  BY <1>4
<1> HIDE DEF sum
<1>6. \A s \in SUBSET S : sum[s] = IF s = {} THEN 0 ELSE v[Pick(s)] + sum[s \ {Pick(s)}]
  BY <1>5 DEF Pick
<1> DEFINE T == {m \in 0 .. n : \A s \in SUBSET S : Cardinality(s) <= m => sum[s] = g[s]}
<1>7. 0 \in T
  <2>1. ASSUME NEW s \in SUBSET S, Cardinality(s) <= 0 PROVE sum[s] = g[s]
    <3>1. Cardinality(s) \in Nat /\ (Cardinality(s) = 0 => s = {})
      BY SumStep
    <3>2. s = {}
      BY <2>1, <3>1
    <3> QED BY <1>3, <1>6, <3>2
  <2> QED BY <1>2, <2>1
<1>8. \A m \in 0 .. n - 1 : m \in T => m + 1 \in T
  <2> SUFFICES ASSUME NEW m \in 0 .. n - 1, \A s \in SUBSET S : Cardinality(s) <= m => sum[s] = g[s],
                      NEW s \in SUBSET S, Cardinality(s) <= m + 1
               PROVE  sum[s] = g[s]
    BY <1>2
  <2>1. CASE s = {}
    BY <1>3, <1>6, <2>1
  <2>2. CASE s # {}
    <3>1. /\ Cardinality(s) \in Nat /\ s \ {Pick(s)} \in SUBSET S
          /\ Cardinality(s \ {Pick(s)}) = Cardinality(s) - 1
      BY <2>2, SumStep
    <3>2. Cardinality(s \ {Pick(s)}) <= m
      BY <1>2, <3>1
    <3> QED BY <1>3, <1>6, <2>2, <3>1, <3>2
  <2> QED BY <2>1, <2>2
<1> HIDE DEF T
<1>9. \A m \in 0 .. n : m \in T
  BY <1>2, <1>7, <1>8, UpTo
<1>10. n \in T
  BY <1>2, <1>9
<1> QED BY <1>1, <1>2, <1>10 DEF T

(* A total of finitely many integers is one.                               *)
LEMMA TotalType ==
  ASSUME NEW v, IsFiniteSet(DOMAIN v), \A i \in DOMAIN v : v[i] \in Int
  PROVE  Total(v) \in Int
<1> DEFINE S == DOMAIN v
<1>1. PICK g : Sums(g, v, S, Cardinality(S))
  BY SumsExist
<1>2. Total(v) = SumOf(v, S)
  BY DEF Total, SumOf
<1>3. Cardinality(S) \in Nat /\ Cardinality(S) <= Cardinality(S)
  BY FS_CardinalityType
<1> HIDE DEF S
<1>4. SumOf(v, S) = g[S]
  BY <1>1, SumSolves DEF S
<1> QED BY <1>1, <1>2, <1>3, <1>4 DEF Sums
-----------------------------------------------------------------------------
(* A line.                                                                 *)

(* What is assumed of the machines of a line.                              *)
LEMMA LineFacts ==
  ASSUME line \in Lines
  PROVE  /\ Machines = DOMAIN Machine /\ IsFiniteSet(Machines)
         /\ Region \in Extents
         /\ \A m \in Machines :
              /\ Machine[m].size \in Extents
              /\ Machine[m].facings \in Seq(Compass) /\ Machine[m].facings # <<>>
              /\ Machine[m].number \in Nat
<1>1. ProblemIsSound(line)
  BY LineAssumption
<1>2. Machines = DOMAIN Machine
  BY <1>1 DEF ProblemIsSound, Machines, MachineOrder, Machine
<1>3. IsFiniteSet(Machines)
  <2> DEFINE s == line.order
  <2>1. s \in Seq(Range(s))
    BY ShapeAssumption DEF Listed
  <2>2. Machines = Range(s)
    BY DEF Machines, MachineOrder, Range
  <2> HIDE DEF s
  <2>3. Len(s) \in Nat /\ DOMAIN s = 1 .. Len(s)
    BY <2>1
  <2>4. IsFiniteSet(DOMAIN s)
    BY <2>3, FS_Interval
  <2>5. Range(s) = {s[i] : i \in DOMAIN s}
    BY DEF Range
  <2>6. IsFiniteSet({s[i] : i \in DOMAIN s})
    <3>1. [i \in DOMAIN s |-> s[i]] \in Surjection(DOMAIN s, {s[i] : i \in DOMAIN s})
      BY DEF Surjection
    <3> QED BY <2>4, <3>1, FS_Surjection
  <2> QED BY <2>2, <2>5, <2>6
<1>4. ASSUME NEW m \in Machines
      PROVE  /\ Machine[m].size \in Extents
             /\ Machine[m].facings \in Seq(Compass) /\ Machine[m].facings # <<>>
             /\ Machine[m].number \in Nat
  <2>1. m \in DOMAIN line.machine
    BY <1>2 DEF Machine
  <2>2. /\ line.machine[m].size \in Extents /\ line.machine[m].facings \in Seq(Compass)
        /\ line.machine[m].number \in Nat
    BY <2>1, ShapeAssumption
  <2>3. line.machine[m].facings # <<>>
    BY <1>1, <2>1 DEF ProblemIsSound, MachineIsSound
  <2> QED BY <2>2, <2>3 DEF Machine
<1>5. Region \in Extents
  BY ShapeAssumption DEF Region
<1> QED BY <1>2, <1>3, <1>4, <1>5

(* A sequence has its members at 1 up to its length.                       *)
LEMMA SeqFacts ==
  ASSUME NEW S, NEW s \in Seq(S)
  PROVE  /\ Len(s) \in Nat /\ DOMAIN s = 1 .. Len(s) /\ IsFiniteSet(DOMAIN s)
         /\ \A i \in DOMAIN s : s[i] \in S
         /\ Range(s) = {s[i] : i \in DOMAIN s} /\ Range(s) \subseteq S
         /\ s # <<>> => 1 \in DOMAIN s /\ Len(s) >= 1
<1>1. Len(s) \in Nat /\ DOMAIN s = 1 .. Len(s) /\ \A i \in DOMAIN s : s[i] \in S
  OBVIOUS
<1>2. IsFiniteSet(DOMAIN s)
  BY <1>1, FS_Interval
<1>3. Range(s) = {s[i] : i \in DOMAIN s}
  BY DEF Range
<1>4. s # <<>> => 1 \in DOMAIN s /\ Len(s) >= 1
  OBVIOUS
<1> QED BY <1>1, <1>2, <1>3, <1>4

-----------------------------------------------------------------------------
(* Cells and boxes.                                                        *)

LEMMA TripleIs ==
  /\ \A t \in Triple : t = <<t[1], t[2], t[3]>> /\ t[1] \in Int /\ t[2] \in Int /\ t[3] \in Int
  /\ \A x, y, z \in Int : <<x, y, z>> \in Triple
  /\ \A t \in Extents : /\ t = <<t[1], t[2], t[3]>>
                        /\ t[1] \in Nat \ {0} /\ t[2] \in Nat \ {0} /\ t[3] \in Nat \ {0}
  /\ \A x, y, z \in Nat \ {0} : <<x, y, z>> \in Extents
  /\ Extents \subseteq Triple
BY DEF Triple, Extents

LEMMA TripleArithmetic ==
  ASSUME NEW s \in Triple, NEW t \in Triple
  PROVE  /\ Plus(s, t) \in Triple /\ Minus(s, t) \in Triple
         /\ Minus(Plus(s, t), t) = s /\ Plus(Minus(s, t), t) = s
         /\ \A a \in 1 .. 3 : Plus(s, t)[a] = s[a] + t[a]
<1>1. /\ s = <<s[1], s[2], s[3]>> /\ s[1] \in Int /\ s[2] \in Int /\ s[3] \in Int
      /\ t = <<t[1], t[2], t[3]>> /\ t[1] \in Int /\ t[2] \in Int /\ t[3] \in Int
  BY TripleIs
<1>2. Plus(s, t) \in Triple /\ Minus(s, t) \in Triple
  BY <1>1, TripleIs DEF Plus, Minus
<1>3. Minus(Plus(s, t), t) = <<s[1], s[2], s[3]>> /\ Plus(Minus(s, t), t) = <<s[1], s[2], s[3]>>
  BY <1>1 DEF Plus, Minus
<1>4. \A a \in 1 .. 3 : Plus(s, t)[a] = s[a] + t[a]
  BY <1>1 DEF Plus
<1> QED BY <1>1, <1>2, <1>3, <1>4

LEMMA StepType ==
  ASSUME NEW c \in Triple, NEW f \in Faces
  PROVE  Step(c, f) \in Triple
BY TripleIs DEF Step, Faces, Delta

(* The extents of a turned box.                                            *)
LEMMA TurnedIs ==
  ASSUME NEW s \in Extents, NEW f \in Compass
  PROVE  /\ Turned(s, f) \in Extents
         /\ s = <<1, 1, 1>> => Turned(s, f) = <<1, 1, 1>>
         /\ f \in {"N", "S"} => Turned(s, f) = s
BY TripleIs DEF Turned, Compass, CWSteps

(* The cells of a box.                                                     *)
LEMMA BoxIs ==
  ASSUME NEW o \in Triple, NEW s \in Extents
  PROVE  /\ BoxCells(o, s) \subseteq Triple
         /\ \A c \in Triple : c \in BoxCells(o, s) <=>
              \A a \in 1 .. 3 : o[a] <= c[a] /\ c[a] <= o[a] + s[a] - 1
         /\ IsFiniteSet(BoxCells(o, s))
         /\ o \in BoxCells(o, s)
<1> DEFINE I(a) == o[a] .. o[a] + s[a] - 1
<1>1. BoxCells(o, s) = I(1) \X I(2) \X I(3)
  BY DEF BoxCells
<1>2. /\ o[1] \in Int /\ o[2] \in Int /\ o[3] \in Int /\ o = <<o[1], o[2], o[3]>>
      /\ s[1] \in Nat \ {0} /\ s[2] \in Nat \ {0} /\ s[3] \in Nat \ {0}
  BY TripleIs
<1>3. BoxCells(o, s) \subseteq Triple
  BY <1>1, <1>2 DEF Triple
<1>4. ASSUME NEW c \in Triple
      PROVE  c \in BoxCells(o, s) <=> \A a \in 1 .. 3 : o[a] <= c[a] /\ c[a] <= o[a] + s[a] - 1
  <2>1. c = <<c[1], c[2], c[3]>> /\ c[1] \in Int /\ c[2] \in Int /\ c[3] \in Int
    BY TripleIs
  <2>2. c \in I(1) \X I(2) \X I(3) <=> c[1] \in I(1) /\ c[2] \in I(2) /\ c[3] \in I(3)
    <3> HIDE DEF I
    <3> QED BY <2>1
  <2>3. c[1] \in I(1) /\ c[2] \in I(2) /\ c[3] \in I(3)
          <=> \A a \in 1 .. 3 : o[a] <= c[a] /\ c[a] <= o[a] + s[a] - 1
    BY <1>2, <2>1
  <2> QED BY <1>1, <2>2, <2>3
<1>5. IsFiniteSet(BoxCells(o, s))
  <2>1. IsFiniteSet(I(1)) /\ IsFiniteSet(I(2)) /\ IsFiniteSet(I(3))
    <3>1. \A x, y \in Int : IsFiniteSet(x .. y)
      BY FS_Interval
    <3>2. o[1] + s[1] - 1 \in Int /\ o[2] + s[2] - 1 \in Int /\ o[3] + s[3] - 1 \in Int
      BY <1>2
    <3> QED BY <1>2, <3>1, <3>2
  <2> HIDE DEF I
  <2>2. IsFiniteSet((I(1) \X I(2)) \X I(3))
    BY <2>1, FS_Product
  <2> DEFINE flat(p) == <<p[1][1], p[1][2], p[2]>>
  <2>3. IsFiniteSet({flat(p) : p \in (I(1) \X I(2)) \X I(3)})
    <3>1. [p \in (I(1) \X I(2)) \X I(3) |-> flat(p)]
             \in Surjection((I(1) \X I(2)) \X I(3), {flat(p) : p \in (I(1) \X I(2)) \X I(3)})
      BY DEF Surjection
    <3> QED BY <2>2, <3>1, FS_Surjection
  <2>4. I(1) \X I(2) \X I(3) \subseteq {flat(p) : p \in (I(1) \X I(2)) \X I(3)}
    <3> SUFFICES ASSUME NEW x \in I(1), NEW y \in I(2), NEW z \in I(3)
                 PROVE  \E p \in (I(1) \X I(2)) \X I(3) : flat(p) = <<x, y, z>>
      OBVIOUS
    <3>1. <<<<x, y>>, z>> \in (I(1) \X I(2)) \X I(3) /\ flat(<<<<x, y>>, z>>) = <<x, y, z>>
      OBVIOUS
    <3> QED BY <3>1
  <2> QED BY <1>1, <2>3, <2>4, FS_Subset
<1>6. o \in BoxCells(o, s)
  BY <1>1, <1>2
<1> QED BY <1>3, <1>4, <1>5, <1>6
-----------------------------------------------------------------------------
(* Units.                                                                  *)

(* One machine, or several single blocks that turn alike and need not face *)
(* outside.                                                                *)
IsUnit(u) ==
  /\ u \in Seq(Machines) /\ u # <<>>
  /\ \A j, k \in DOMAIN u : u[j] = u[k] => j = k
  /\ Len(u) > 1 => \A j \in DOMAIN u : /\ Machine[u[j]].size = <<1, 1, 1>>
                                       /\ Machine[u[j]].facings = Machine[u[1]].facings
                                       /\ ~FrontsOutside(u[j])

LEMMA UnitFacts ==
  ASSUME line \in Lines, NEW u, IsUnit(u)
  PROVE  /\ Len(u) \in Nat /\ Len(u) >= 1 /\ DOMAIN u = 1 .. Len(u) /\ 1 \in DOMAIN u
         /\ IsFiniteSet(DOMAIN u)
         /\ \A j \in DOMAIN u : u[j] \in Machines /\ u[j] \in Range(u)
         /\ \A m \in Range(u) : \E j \in DOMAIN u : u[j] = m
         /\ Range(u) \subseteq Machines
         /\ Len(u) = 1 => Range(u) = {u[1]}
         /\ UnitFacings(u) \in Seq(Compass) /\ UnitFacings(u) # <<>>
         /\ Range(UnitFacings(u)) \subseteq Compass
         /\ \A j \in DOMAIN u : Machine[u[j]].facings = UnitFacings(u)
<1>1. u \in Seq(Machines) /\ u # <<>>
  BY DEF IsUnit
<1>2. /\ Len(u) \in Nat /\ Len(u) >= 1 /\ DOMAIN u = 1 .. Len(u) /\ 1 \in DOMAIN u
      /\ IsFiniteSet(DOMAIN u) /\ Range(u) = {u[j] : j \in DOMAIN u}
      /\ \A j \in DOMAIN u : u[j] \in Machines
  BY <1>1, SeqFacts
<1>3. UnitFacings(u) \in Seq(Compass) /\ UnitFacings(u) # <<>>
  BY <1>2, LineFacts DEF UnitFacings
<1>4. Range(UnitFacings(u)) \subseteq Compass
  BY <1>3, SeqFacts
<1>5. \A j \in DOMAIN u : Machine[u[j]].facings = UnitFacings(u)
  <2> TAKE j \in DOMAIN u
  <2>1. Len(u) = 1 => j = 1
    BY <1>2
  <2> QED BY <1>2, <2>1 DEF UnitFacings, IsUnit
<1>6. Len(u) = 1 => Range(u) = {u[1]}
  BY <1>2
<1> QED BY <1>2, <1>3, <1>4, <1>5, <1>6

LEMMA OneOrMore ==
  ASSUME line \in Lines, NEW u, IsUnit(u)
  PROVE  Len(u) = 1 \/ Len(u) > 1
<1> DEFINE n == Len(u)
<1>1. n \in Nat /\ n >= 1
  BY UnitFacts
<1> HIDE DEF n
<1>2. n = 1 \/ n > 1
  BY <1>1
<1> QED BY <1>2 DEF n

LEMMA PoseIs ==
  /\ \A at \in Pose : at.cell \in Triple /\ at.front \in Compass /\ at = [cell |-> at.cell, front |-> at.front]
  /\ \A c \in Triple, f \in Compass : [cell |-> c, front |-> f] \in Pose
BY DEF Pose

(* A member stands on its column's axis, each on a place of its own.       *)
LEMMA OffsetIs ==
  ASSUME line \in Lines, NEW u, IsUnit(u), NEW f \in Compass, NEW j \in DOMAIN u
  PROVE  /\ UnitOffset(u, j, f) \in Triple
         /\ \A a \in 1 .. 3 : UnitOffset(u, j, f)[a] \in 0 .. Len(u) - 1
         /\ Len(u) = 1 => UnitOffset(u, j, f) = <<0, 0, 0>>
         /\ Len(u) > 1 => /\ f = "N" => UnitOffset(u, j, f) = <<0, 0, j - 1>>
                          /\ f = "S" => UnitOffset(u, j, f) = <<0, 0, Len(u) - j>>
                          /\ f = "W" => UnitOffset(u, j, f) = <<j - 1, 0, 0>>
                          /\ f = "E" => UnitOffset(u, j, f) = <<Len(u) - j, 0, 0>>
<1> DEFINE n == Len(u)
           off == UnitOffset(u, j, f)
<1>1. n \in Nat /\ n >= 1 /\ j \in 1 .. n
  BY UnitFacts
<1>2. /\ n = 1 => off = <<0, 0, 0>>
      /\ n # 1 => /\ f = "N" => off = <<0, 0, j - 1>>
                  /\ f = "S" => off = <<0, 0, n - j>>
                  /\ f = "W" => off = <<j - 1, 0, 0>>
                  /\ f = "E" => off = <<n - j, 0, 0>>
  BY DEF UnitOffset, ColumnOffset
<1> HIDE DEF n, off
<1>3. n = 1 \/ n > 1
  BY <1>1
<1>4. j - 1 \in 0 .. n - 1 /\ n - j \in 0 .. n - 1 /\ 0 \in 0 .. n - 1
  BY <1>1
<1>5. ASSUME NEW x \in 0 .. n - 1, NEW y \in 0 .. n - 1, NEW z \in 0 .. n - 1, off = <<x, y, z>>
      PROVE  off \in Triple /\ \A a \in 1 .. 3 : off[a] \in 0 .. n - 1
  <2>1. x \in Int /\ y \in Int /\ z \in Int
    BY <1>1
  <2>2. \A a \in 1 .. 3 : a = 1 \/ a = 2 \/ a = 3
    OBVIOUS
  <2> QED BY <1>5, <2>1, <2>2, TripleIs
<1>6. f \in {"N", "S", "W", "E"}
  BY DEF Compass
<1>7. off \in Triple /\ \A a \in 1 .. 3 : off[a] \in 0 .. n - 1
  BY <1>2, <1>3, <1>4, <1>5, <1>6
<1>8. /\ n = 1 => off = <<0, 0, 0>>
      /\ n > 1 => /\ f = "N" => off = <<0, 0, j - 1>>
                  /\ f = "S" => off = <<0, 0, n - j>>
                  /\ f = "W" => off = <<j - 1, 0, 0>>
                  /\ f = "E" => off = <<n - j, 0, 0>>
  BY <1>1, <1>2
<1> QED BY <1>7, <1>8 DEF n, off

(* Where the members of a unit are put.                                    *)
LEMMA PlacedIs ==
  ASSUME line \in Lines, NEW u, IsUnit(u), NEW at \in Pose
  PROVE  /\ UnitPlaced(u, at) \in [Range(u) -> Pose]
         /\ \A j \in DOMAIN u :
              /\ UnitPlaced(u, at)[u[j]] = [cell |-> Plus(at.cell, UnitOffset(u, j, at.front)), front |-> at.front]
              /\ UnitPlaced(u, at)[u[j]].cell = Plus(at.cell, UnitOffset(u, j, at.front))
              /\ UnitPlaced(u, at)[u[j]].front = at.front
<1> DEFINE put(j) == [cell |-> Plus(at.cell, UnitOffset(u, j, at.front)), front |-> at.front]
<1>1. \A j \in DOMAIN u : put(j) \in Pose
  BY PoseIs, OffsetIs, TripleArithmetic
<1>2. \A j \in DOMAIN u : (CHOOSE k \in DOMAIN u : u[k] = u[j]) = j
  BY DEF IsUnit
<1>3. DOMAIN UnitPlaced(u, at) = Range(u)
  BY DEF UnitPlaced, Range
<1>4. \A j \in DOMAIN u : UnitPlaced(u, at)[u[j]] = put(j)
  BY <1>2 DEF UnitPlaced
<1>5. \A m \in Range(u) : \E j \in DOMAIN u : u[j] = m
  BY DEF Range
<1>6. \A m \in Range(u) : UnitPlaced(u, at)[m] \in Pose
  <2> HIDE DEF put
  <2> QED BY <1>1, <1>4, <1>5
<1>7. UnitPlaced(u, at) = [m \in Range(u) |-> UnitPlaced(u, at)[m]]
  BY <1>3 DEF UnitPlaced, Range
<1>8. UnitPlaced(u, at) \in [Range(u) -> Pose]
  BY <1>6, <1>7
<1> QED BY <1>4, <1>8

LEMMA UnitSizeIs ==
  ASSUME line \in Lines, NEW u, IsUnit(u), NEW f \in Compass
  PROVE  /\ UnitSize(u, f) \in Extents
         /\ \A j \in DOMAIN u : Turned(Machine[u[j]].size, f) \in Extents
         /\ Len(u) > 1 => \A j \in DOMAIN u : Turned(Machine[u[j]].size, f) = <<1, 1, 1>>
<1>1. Len(u) \in Nat /\ Len(u) >= 1 /\ 1 \in DOMAIN u /\ \A j \in DOMAIN u : u[j] \in Machines
  BY UnitFacts
<1>2. \A j \in DOMAIN u : Turned(Machine[u[j]].size, f) \in Extents
  BY <1>1, LineFacts, TurnedIs
<1>3. Len(u) > 1 => \A j \in DOMAIN u : Turned(Machine[u[j]].size, f) = <<1, 1, 1>>
  BY <1>1, LineFacts, TurnedIs DEF IsUnit
<1>4. <<Len(u), 1, 1>> \in Extents /\ <<1, 1, Len(u)>> \in Extents
  BY <1>1, TripleIs
<1> QED BY <1>1, <1>2, <1>3, <1>4 DEF UnitSize
(* A column's box, cell by cell.                                           *)
LEMMA ColumnCells ==
  ASSUME line \in Lines, NEW u, IsUnit(u), Len(u) > 1, NEW at \in Pose
  PROVE  /\ \A j \in DOMAIN u : Plus(at.cell, UnitOffset(u, j, at.front)) \in UnitCells(u, at)
         /\ \A c \in UnitCells(u, at) : \E j \in DOMAIN u : c = Plus(at.cell, UnitOffset(u, j, at.front))
         /\ \A j, k \in DOMAIN u :
              Plus(at.cell, UnitOffset(u, j, at.front)) = Plus(at.cell, UnitOffset(u, k, at.front)) => j = k
<1> DEFINE n == Len(u)
           f == at.front
           o == at.cell
           s == UnitSize(u, f)
           stand(j) == Plus(o, UnitOffset(u, j, f))
<1>1. n \in Nat /\ n >= 1 /\ DOMAIN u = 1 .. n
  BY UnitFacts
<1>2. o \in Triple /\ f \in Compass
  BY PoseIs
<1>3. o = <<o[1], o[2], o[3]>> /\ o[1] \in Int /\ o[2] \in Int /\ o[3] \in Int
  BY <1>2, TripleIs
<1>4. UnitCells(u, at) = BoxCells(o, s)
  BY DEF UnitCells
<1>5. BoxCells(o, s) = (o[1] .. o[1] + s[1] - 1) \X (o[2] .. o[2] + s[2] - 1) \X (o[3] .. o[3] + s[3] - 1)
  BY DEF BoxCells
<1>6. s = IF f \in {"E", "W"} THEN <<n, 1, 1>> ELSE <<1, 1, n>>
  BY <1>1 DEF UnitSize
<1>7. ASSUME NEW j \in 1 .. n
      PROVE  /\ f = "N" => stand(j) = <<o[1], o[2], o[3] + j - 1>>
             /\ f = "S" => stand(j) = <<o[1], o[2], o[3] + n - j>>
             /\ f = "W" => stand(j) = <<o[1] + j - 1, o[2], o[3]>>
             /\ f = "E" => stand(j) = <<o[1] + n - j, o[2], o[3]>>
  <2>1. /\ f = "N" => UnitOffset(u, j, f) = <<0, 0, j - 1>>
        /\ f = "S" => UnitOffset(u, j, f) = <<0, 0, n - j>>
        /\ f = "W" => UnitOffset(u, j, f) = <<j - 1, 0, 0>>
        /\ f = "E" => UnitOffset(u, j, f) = <<n - j, 0, 0>>
    BY <1>1, <1>2, OffsetIs
  <2> HIDE DEF f, o
  <2>2. j \in Int /\ n \in Int
    BY <1>1
  <2> QED BY <1>3, <2>1, <2>2 DEF Plus
<1> HIDE DEF n, f, o, s, stand
<1>8. (n > 1) /\ f \in {"N", "S", "W", "E"}
  BY <1>2 DEF n, Compass
<1>9. /\ \A j \in 1 .. n : stand(j) \in BoxCells(o, s)
      /\ \A c \in BoxCells(o, s) : \E j \in 1 .. n : c = stand(j)
      /\ \A j, k \in 1 .. n : stand(j) = stand(k) => j = k
  <2>1. CASE f = "N"
    <3>1. s = <<1, 1, n>> /\ \A j \in 1 .. n : stand(j) = <<o[1], o[2], o[3] + j - 1>>
      BY <1>6, <1>7, <2>1
    <3>2. BoxCells(o, s) = (o[1] .. o[1]) \X (o[2] .. o[2]) \X (o[3] .. o[3] + n - 1)
      BY <1>1, <1>3, <1>5, <3>1
    <3>3. ASSUME NEW c \in BoxCells(o, s) PROVE \E j \in 1 .. n : c = stand(j)
      <4>1. /\ c = <<o[1], o[2], c[3]>> /\ c[3] \in o[3] .. o[3] + n - 1
        BY <1>3, <3>2
      <4>2. c[3] - o[3] + 1 \in 1 .. n /\ o[3] + (c[3] - o[3] + 1) - 1 = c[3]
        BY <1>1, <1>3, <4>1
      <4> QED BY <3>1, <4>1, <4>2
    <3>4. \A j \in 1 .. n : o[3] + j - 1 \in o[3] .. o[3] + n - 1
      BY <1>1, <1>3
    <3>5. \A j, k \in 1 .. n : stand(j) = stand(k) => j = k
      BY <1>1, <1>3, <3>1
    <3> HIDE DEF stand
    <3> QED BY <1>3, <3>1, <3>2, <3>3, <3>4, <3>5
  <2>2. CASE f = "S"
    <3>1. s = <<1, 1, n>> /\ \A j \in 1 .. n : stand(j) = <<o[1], o[2], o[3] + n - j>>
      BY <1>6, <1>7, <2>2
    <3>2. BoxCells(o, s) = (o[1] .. o[1]) \X (o[2] .. o[2]) \X (o[3] .. o[3] + n - 1)
      BY <1>1, <1>3, <1>5, <3>1
    <3>3. ASSUME NEW c \in BoxCells(o, s) PROVE \E j \in 1 .. n : c = stand(j)
      <4>1. /\ c = <<o[1], o[2], c[3]>> /\ c[3] \in o[3] .. o[3] + n - 1
        BY <1>3, <3>2
      <4>2. o[3] + n - c[3] \in 1 .. n /\ o[3] + n - (o[3] + n - c[3]) = c[3]
        BY <1>1, <1>3, <4>1
      <4> QED BY <3>1, <4>1, <4>2
    <3>4. \A j \in 1 .. n : o[3] + n - j \in o[3] .. o[3] + n - 1
      BY <1>1, <1>3
    <3>5. \A j, k \in 1 .. n : stand(j) = stand(k) => j = k
      BY <1>1, <1>3, <3>1
    <3> QED BY <1>3, <3>1, <3>2, <3>3, <3>4, <3>5
  <2>3. CASE f = "W"
    <3>1. s = <<n, 1, 1>> /\ \A j \in 1 .. n : stand(j) = <<o[1] + j - 1, o[2], o[3]>>
      BY <1>6, <1>7, <2>3
    <3>2. BoxCells(o, s) = (o[1] .. o[1] + n - 1) \X (o[2] .. o[2]) \X (o[3] .. o[3])
      BY <1>1, <1>3, <1>5, <3>1
    <3>3. ASSUME NEW c \in BoxCells(o, s) PROVE \E j \in 1 .. n : c = stand(j)
      <4>1. /\ c = <<c[1], o[2], o[3]>> /\ c[1] \in o[1] .. o[1] + n - 1
        BY <1>3, <3>2
      <4>2. c[1] - o[1] + 1 \in 1 .. n /\ o[1] + (c[1] - o[1] + 1) - 1 = c[1]
        BY <1>1, <1>3, <4>1
      <4> QED BY <3>1, <4>1, <4>2
    <3>4. \A j \in 1 .. n : o[1] + j - 1 \in o[1] .. o[1] + n - 1
      BY <1>1, <1>3
    <3>5. \A j, k \in 1 .. n : stand(j) = stand(k) => j = k
      BY <1>1, <1>3, <3>1
    <3> QED BY <1>3, <3>1, <3>2, <3>3, <3>4, <3>5
  <2>4. CASE f = "E"
    <3>1. s = <<n, 1, 1>> /\ \A j \in 1 .. n : stand(j) = <<o[1] + n - j, o[2], o[3]>>
      BY <1>6, <1>7, <2>4
    <3>2. BoxCells(o, s) = (o[1] .. o[1] + n - 1) \X (o[2] .. o[2]) \X (o[3] .. o[3])
      BY <1>1, <1>3, <1>5, <3>1
    <3>3. ASSUME NEW c \in BoxCells(o, s) PROVE \E j \in 1 .. n : c = stand(j)
      <4>1. /\ c = <<c[1], o[2], o[3]>> /\ c[1] \in o[1] .. o[1] + n - 1
        BY <1>3, <3>2
      <4>2. o[1] + n - c[1] \in 1 .. n /\ o[1] + n - (o[1] + n - c[1]) = c[1]
        BY <1>1, <1>3, <4>1
      <4> QED BY <3>1, <4>1, <4>2
    <3>4. \A j \in 1 .. n : o[1] + n - j \in o[1] .. o[1] + n - 1
      BY <1>1, <1>3
    <3>5. \A j, k \in 1 .. n : stand(j) = stand(k) => j = k
      BY <1>1, <1>3, <3>1
    <3> QED BY <1>3, <3>1, <3>2, <3>3, <3>4, <3>5
  <2> QED BY <1>8, <2>1, <2>2, <2>3, <2>4
<1> QED BY <1>1, <1>4, <1>9 DEF stand, o, f
-----------------------------------------------------------------------------
(* What a unit covers, and what its members do.                            *)

(* A box lies in the region when its cells do.                             *)
LEMMA WithinIs ==
  ASSUME NEW o \in Triple, NEW s \in Extents, NEW r \in Extents
  PROVE  BoxWithin(o, s, r) <=> \A c \in BoxCells(o, s) : InRegion(c, r)
<1>1. /\ o = <<o[1], o[2], o[3]>> /\ o[1] \in Int /\ o[2] \in Int /\ o[3] \in Int
      /\ s[1] \in Nat \ {0} /\ s[2] \in Nat \ {0} /\ s[3] \in Nat \ {0}
      /\ r[1] \in Nat \ {0} /\ r[2] \in Nat \ {0} /\ r[3] \in Nat \ {0}
  BY TripleIs
<1> DEFINE far == <<o[1] + s[1] - 1, o[2] + s[2] - 1, o[3] + s[3] - 1>>
<1>2. ASSUME BoxWithin(o, s, r), NEW c \in BoxCells(o, s) PROVE InRegion(c, r)
  <2>1. c \in Triple /\ \A a \in 1 .. 3 : o[a] <= c[a] /\ c[a] <= o[a] + s[a] - 1
    BY BoxIs
  <2>2. c[1] \in Int /\ c[2] \in Int /\ c[3] \in Int
    BY <2>1, TripleIs
  <2>3. \A a \in 1 .. 3 : a = 1 \/ a = 2 \/ a = 3
    OBVIOUS
  <2> QED BY <1>1, <1>2, <2>1, <2>2, <2>3 DEF BoxWithin, InRegion
<1>3. ASSUME \A c \in BoxCells(o, s) : InRegion(c, r) PROVE BoxWithin(o, s, r)
  <2>1. far \in Triple /\ far[1] = o[1] + s[1] - 1 /\ far[2] = o[2] + s[2] - 1 /\ far[3] = o[3] + s[3] - 1
    BY <1>1, TripleIs
  <2> HIDE DEF far
  <2>2. \A a \in 1 .. 3 : a = 1 \/ a = 2 \/ a = 3
    OBVIOUS
  <2>3. \A a \in 1 .. 3 : o[a] <= far[a] /\ far[a] <= o[a] + s[a] - 1
    BY <1>1, <2>1, <2>2
  <2>4. far \in BoxCells(o, s) /\ o \in BoxCells(o, s)
    BY <2>1, <2>3, BoxIs
  <2>5. InRegion(far, r) /\ InRegion(o, r)
    BY <1>3, <2>4
  <2> QED BY <1>1, <2>1, <2>2, <2>5 DEF BoxWithin, InRegion
<1> QED BY <1>2, <1>3

LEMMA UnitBox ==
  ASSUME NEW o \in Triple
  PROVE  BoxCells(o, <<1, 1, 1>>) = {o}
<1>1. o = <<o[1], o[2], o[3]>> /\ o[1] \in Int /\ o[2] \in Int /\ o[3] \in Int
  BY TripleIs
<1>2. BoxCells(o, <<1, 1, 1>>) = (o[1] .. o[1]) \X (o[2] .. o[2]) \X (o[3] .. o[3])
  BY <1>1 DEF BoxCells
<1>3. (o[1] .. o[1]) = {o[1]} /\ (o[2] .. o[2]) = {o[2]} /\ (o[3] .. o[3]) = {o[3]}
  BY <1>1
<1> QED BY <1>1, <1>2, <1>3

(* The cells a unit takes are those of its members, each its own.          *)
LEMMA UnitBodies ==
  ASSUME line \in Lines, NEW u, IsUnit(u), NEW at \in Pose
  PROVE  /\ \A m \in Range(u) : Body(m, UnitPlaced(u, at)[m]) \subseteq UnitCells(u, at)
         /\ \A c \in UnitCells(u, at) : \E m \in Range(u) : c \in Body(m, UnitPlaced(u, at)[m])
         /\ \A m, k \in Range(u) :
              m # k => Body(m, UnitPlaced(u, at)[m]) \cap Body(k, UnitPlaced(u, at)[k]) = {}
<1> DEFINE stand(j) == Plus(at.cell, UnitOffset(u, j, at.front))
           p == UnitPlaced(u, at)
<1>1. /\ Len(u) \in Nat /\ Len(u) >= 1 /\ 1 \in DOMAIN u /\ \A m \in Range(u) : \E j \in DOMAIN u : u[j] = m
      /\ \A j \in DOMAIN u : u[j] \in Range(u) /\ u[j] \in Machines
      /\ Len(u) = 1 => Range(u) = {u[1]}
  BY UnitFacts
<1>2. at.cell \in Triple /\ at.front \in Compass
  BY PoseIs
<1>3. \A j \in DOMAIN u : Body(u[j], p[u[j]]) = BoxCells(stand(j), Turned(Machine[u[j]].size, at.front))
  BY PlacedIs DEF Body
<1>4. CASE Len(u) = 1
  <2>1. UnitOffset(u, 1, at.front) = <<0, 0, 0>>
    BY <1>1, <1>2, <1>4, OffsetIs
  <2>2. stand(1) = at.cell
    BY <1>2, <2>1, TripleIs DEF Plus
  <2>3. Body(u[1], p[u[1]]) = UnitCells(u, at)
    BY <1>1, <1>3, <1>4, <2>2 DEF UnitCells, UnitSize
  <2> QED BY <1>1, <1>4, <2>3
<1>5. CASE Len(u) > 1
  <2>1. \A j \in DOMAIN u : stand(j) \in Triple
    BY <1>2, OffsetIs, TripleArithmetic
  <2>2. \A j \in DOMAIN u : Body(u[j], p[u[j]]) = {stand(j)}
    BY <1>2, <1>3, <1>5, <2>1, UnitSizeIs, UnitBox
  <2>3. /\ \A j \in DOMAIN u : stand(j) \in UnitCells(u, at)
        /\ \A c \in UnitCells(u, at) : \E j \in DOMAIN u : c = stand(j)
        /\ \A j, k \in DOMAIN u : stand(j) = stand(k) => j = k
    BY <1>5, ColumnCells
  <2> HIDE DEF stand, p
  <2>4. ASSUME NEW m \in Range(u), NEW k \in Range(u), m # k
        PROVE  Body(m, p[m]) \cap Body(k, p[k]) = {}
    <3>1. PICK i \in DOMAIN u : u[i] = m
      BY <1>1
    <3>2. PICK j \in DOMAIN u : u[j] = k
      BY <1>1
    <3>3. stand(i) # stand(j)
      BY <2>3, <2>4, <3>1, <3>2
    <3> QED BY <2>2, <3>1, <3>2, <3>3
  <2>5. ASSUME NEW m \in Range(u) PROVE Body(m, p[m]) \subseteq UnitCells(u, at)
    <3>1. PICK i \in DOMAIN u : u[i] = m
      BY <1>1
    <3> QED BY <2>2, <2>3, <3>1
  <2>6. ASSUME NEW c \in UnitCells(u, at) PROVE \E m \in Range(u) : c \in Body(m, p[m])
    <3>1. PICK j \in DOMAIN u : c = stand(j)
      BY <2>3
    <3>2. u[j] \in Range(u) /\ c \in Body(u[j], p[u[j]])
      BY <1>1, <2>2, <3>1
    <3> QED BY <3>2
  <2>7. /\ \A m \in Range(u) : Body(m, p[m]) \subseteq UnitCells(u, at)
        /\ \A c \in UnitCells(u, at) : \E m \in Range(u) : c \in Body(m, p[m])
        /\ \A m, k \in Range(u) : m # k => Body(m, p[m]) \cap Body(k, p[k]) = {}
    <3> HIDE <1>4
    <3> QED BY ONLY <2>4, <2>5, <2>6
  <2> USE DEF p
  <2> QED BY ONLY <2>7
<1>6. Len(u) = 1 \/ Len(u) > 1
  BY OneOrMore
<1> QED BY ONLY <1>4, <1>5, <1>6

(* A pose a machine, and one a unit, may take in an empty region.          *)
MachineSound(m, p) ==
  /\ p \in Pose
  /\ BoxWithin(p.cell, Turned(Machine[m].size, p.front), Region)
  /\ p.front \in Range(Machine[m].facings)
  /\ Body(m, p) \cap Reserved = {}
  /\ FrontsOutside(m) => FrontOnBoundary(p.cell, Turned(Machine[m].size, p.front), p.front, Region)

Sound(u, at) ==
  /\ at \in Pose
  /\ at.front \in Range(UnitFacings(u))
  /\ FeedOk(u, at)
  /\ BoxWithin(at.cell, UnitSize(u, at.front), Region)
  /\ UnitCells(u, at) \cap Reserved = {}

(* A unit's pose is sound when its members' are.                           *)
LEMMA SoundMembers ==
  ASSUME line \in Lines, NEW u, IsUnit(u), NEW at \in Pose
  PROVE  Sound(u, at) <=> \A m \in Range(u) : MachineSound(m, UnitPlaced(u, at)[m])
<1> DEFINE p == UnitPlaced(u, at)
           size(m) == Turned(Machine[m].size, at.front)
<1>1. /\ Len(u) \in Nat /\ Len(u) >= 1 /\ 1 \in DOMAIN u /\ \A m \in Range(u) : \E j \in DOMAIN u : u[j] = m
      /\ \A j \in DOMAIN u : u[j] \in Range(u) /\ u[j] \in Machines /\ Machine[u[j]].facings = UnitFacings(u)
      /\ Len(u) = 1 => Range(u) = {u[1]}
  BY UnitFacts
<1>2. at.cell \in Triple /\ at.front \in Compass
  BY PoseIs
<1>3. \A m \in Range(u) : /\ p[m] \in Pose /\ p[m].front = at.front
                          /\ Machine[m].facings = UnitFacings(u)
                          /\ size(m) \in Extents /\ p[m].cell \in Triple
                          /\ Body(m, p[m]) = BoxCells(p[m].cell, size(m))
  <2> TAKE m \in Range(u)
  <2>1. PICK j \in DOMAIN u : u[j] = m
    BY <1>1
  <2>2. p[m] \in Pose /\ p[m].front = at.front
    BY <2>1, PlacedIs
  <2>3. size(m) \in Extents /\ Machine[m].facings = UnitFacings(u)
    BY <1>1, <1>2, <2>1, UnitSizeIs
  <2> HIDE DEF p
  <2>4. p[m].cell \in Triple /\ Body(m, p[m]) = BoxCells(p[m].cell, size(m))
    BY <2>2, PoseIs DEF Body
  <2> QED BY <2>2, <2>3, <2>4
<1>4. Region \in Extents /\ UnitSize(u, at.front) \in Extents
  BY <1>2, LineFacts, UnitSizeIs
<1>5. BoxWithin(at.cell, UnitSize(u, at.front), Region)
        <=> \A m \in Range(u) : BoxWithin(p[m].cell, size(m), Region)
  <2>1. BoxWithin(at.cell, UnitSize(u, at.front), Region)
          <=> \A c \in UnitCells(u, at) : InRegion(c, Region)
    BY <1>2, <1>4, WithinIs DEF UnitCells
  <2>2. \A m \in Range(u) : BoxWithin(p[m].cell, size(m), Region)
                             <=> \A c \in Body(m, p[m]) : InRegion(c, Region)
    BY <1>3, <1>4, WithinIs
  <2> HIDE DEF p, size
  <2> QED BY <2>1, <2>2, UnitBodies DEF p
<1>6. UnitCells(u, at) \cap Reserved = {} <=> \A m \in Range(u) : Body(m, p[m]) \cap Reserved = {}
  BY UnitBodies
<1>7. FeedOk(u, at)
        <=> \A m \in Range(u) : FrontsOutside(m) => FrontOnBoundary(p[m].cell, size(m), at.front, Region)
  <2>1. CASE Len(u) = 1
    <3>1. UnitOffset(u, 1, at.front) = <<0, 0, 0>>
      BY <1>1, <1>2, <2>1, OffsetIs
    <3>2. p[u[1]].cell = at.cell
      <4>0. \A j \in DOMAIN u : p[u[j]].cell = Plus(at.cell, UnitOffset(u, j, at.front))
        BY PlacedIs
      <4> HIDE DEF p
      <4>1. p[u[1]].cell = Plus(at.cell, UnitOffset(u, 1, at.front))
        BY <1>1, <4>0
      <4>2. Plus(at.cell, <<0, 0, 0>>) = at.cell
        BY <1>2, TripleIs DEF Plus
      <4> QED BY <3>1, <4>1, <4>2
    <3>3. UnitSize(u, at.front) = size(u[1])
      BY <2>1 DEF UnitSize
    <3>4. FeedOk(u, at) <=> (FrontsOutside(u[1]) => FrontOnBoundary(at.cell, size(u[1]), at.front, Region))
      BY <2>1, <3>3 DEF FeedOk, UnitOutside
    <3>5. \A m \in Range(u) : m = u[1]
      BY <1>1, <2>1
    <3>6. u[1] \in Range(u)
      BY <1>1
    <3> HIDE DEF p, size
    <3>7. (\A m \in Range(u) : FrontsOutside(m) => FrontOnBoundary(p[m].cell, size(m), at.front, Region))
            <=> (FrontsOutside(u[1]) => FrontOnBoundary(p[u[1]].cell, size(u[1]), at.front, Region))
      BY ONLY <3>5, <3>6
    <3> QED BY ONLY <3>2, <3>4, <3>7
  <2>2. CASE Len(u) > 1
    <3>1. \A m \in Range(u) : ~FrontsOutside(m)
      BY <1>1, <2>2 DEF IsUnit
    <3> QED BY <1>1, <2>2, <3>1 DEF FeedOk, UnitOutside
  <2>3. Len(u) = 1 \/ Len(u) > 1
    BY OneOrMore
  <2> QED BY ONLY <2>1, <2>2, <2>3
<1> HIDE DEF p
<1>8. PICK k : k \in Range(u)
  BY <1>1
<1> QED BY <1>3, <1>5, <1>6, <1>7, <1>8 DEF Sound, MachineSound, p
-----------------------------------------------------------------------------
(* Layouts unit by unit.                                                   *)

(* The machines of some units, and their part of a layout.                 *)
MembersOf(us) == UNION {Range(u) : u \in us}
PartOf(us, L) == Restrict(L, MembersOf(us))

(* A unit stands as one.                                                   *)
Standing(u, L) == \A m \in Range(u) : L[m] = UnitPlaced(u, UnitPose(u, L))[m]

(* Units laid soundly and apart, and nothing else.                         *)
LaidOut(us, L) ==
  /\ L \in [MembersOf(us) -> Pose]
  /\ \A u \in us : IsUnit(u) /\ Standing(u, L) /\ Sound(u, UnitPose(u, L))
  /\ \A u, v \in us : u # v => /\ Range(u) \cap Range(v) = {}
                               /\ UnitCells(u, UnitPose(u, L)) \cap UnitCells(v, UnitPose(v, L)) = {}

(* Where a unit was put is where it is read to be.                         *)
LEMMA PutPose ==
  ASSUME line \in Lines, NEW u, IsUnit(u), NEW at \in Pose, NEW L,
         \A m \in Range(u) : L[m] = UnitPlaced(u, at)[m]
  PROVE  UnitPose(u, L) = at /\ Standing(u, L)
<1> DEFINE off == UnitOffset(u, 1, at.front)
<1>1. 1 \in DOMAIN u /\ u[1] \in Range(u)
  BY UnitFacts
<1>2. L[u[1]].front = at.front /\ L[u[1]].cell = Plus(at.cell, off)
  <2>1. L[u[1]] = UnitPlaced(u, at)[u[1]]
    BY <1>1
  <2>2. \A j \in DOMAIN u : /\ UnitPlaced(u, at)[u[j]].cell = Plus(at.cell, UnitOffset(u, j, at.front))
                            /\ UnitPlaced(u, at)[u[j]].front = at.front
    BY PlacedIs
  <2> QED BY <1>1, <2>1, <2>2
<1>3. at.cell \in Triple /\ off \in Triple /\ at = [cell |-> at.cell, front |-> at.front]
  BY <1>1, PoseIs, OffsetIs
<1>4. Minus(Plus(at.cell, off), off) = at.cell
  BY <1>3, TripleArithmetic
<1>5. UnitPose(u, L) = at
  <2> HIDE DEF off
  <2>1. UnitPose(u, L) = [cell |-> Minus(L[u[1]].cell, UnitOffset(u, 1, L[u[1]].front)), front |-> L[u[1]].front]
    BY DEF UnitPose
  <2> QED BY <1>2, <1>3, <1>4, <2>1 DEF off
<1> QED BY <1>5 DEF Standing

(* What is read of a unit depends on where its members are alone.          *)
LEMMA SamePose ==
  ASSUME line \in Lines, NEW u, IsUnit(u), NEW L, NEW N, \A m \in Range(u) : N[m] = L[m]
  PROVE  /\ UnitPose(u, N) = UnitPose(u, L)
         /\ Standing(u, L) => Standing(u, N)
<1>1. u[1] \in Range(u)
  BY UnitFacts
<1>2. UnitPose(u, N) = UnitPose(u, L)
  BY <1>1 DEF UnitPose
<1> QED BY <1>2 DEF Standing

(* What some units cover.                                                  *)
LEMMA LaidCover ==
  ASSUME line \in Lines, NEW us, NEW L, LaidOut(us, L)
  PROVE  Covered(L) = UNION {UnitCells(u, UnitPose(u, L)) : u \in us}
<1>1. DOMAIN L = MembersOf(us)
  BY DEF LaidOut
<1>2. \A u \in us : /\ \A m \in Range(u) : Body(m, L[m]) \subseteq UnitCells(u, UnitPose(u, L))
                    /\ \A c \in UnitCells(u, UnitPose(u, L)) : \E m \in Range(u) : c \in Body(m, L[m])
  <2> TAKE u \in us
  <2>1. IsUnit(u) /\ UnitPose(u, L) \in Pose /\ \A m \in Range(u) : L[m] = UnitPlaced(u, UnitPose(u, L))[m]
    BY DEF LaidOut, Standing, Sound
  <2> QED BY <2>1, UnitBodies
<1>3. ASSUME NEW c \in Covered(L) PROVE \E u \in us : c \in UnitCells(u, UnitPose(u, L))
  BY <1>1, <1>2 DEF Covered, MembersOf
<1>4. ASSUME NEW u \in us, NEW c \in UnitCells(u, UnitPose(u, L)) PROVE c \in Covered(L)
  <2>1. PICK m \in Range(u) : c \in Body(m, L[m])
    BY <1>2
  <2>2. m \in DOMAIN L
    BY <1>1 DEF MembersOf
  <2> QED BY <2>1, <2>2 DEF Covered
<1> QED BY <1>3, <1>4

(* Some units of a layout are a layout of their own.                       *)
LEMMA LaidPart ==
  ASSUME line \in Lines, NEW us, NEW L, LaidOut(us, L), NEW vs \in SUBSET us
  PROVE  /\ LaidOut(vs, PartOf(vs, L))
         /\ \A v \in vs : UnitPose(v, PartOf(vs, L)) = UnitPose(v, L)
         /\ DOMAIN PartOf(vs, L) = MembersOf(vs)
         /\ \A m \in MembersOf(vs) : PartOf(vs, L)[m] = L[m]
         /\ Covered(PartOf(vs, L)) = Covered(L) \ UNION {UnitCells(u, UnitPose(u, L)) : u \in us \ vs}
<1> DEFINE N == PartOf(vs, L)
<1>1. /\ DOMAIN N = MembersOf(vs) /\ \A m \in MembersOf(vs) : N[m] = L[m]
      /\ MembersOf(vs) \subseteq MembersOf(us)
  BY DEF PartOf, Restrict, MembersOf
<1>2. N \in [MembersOf(vs) -> Pose]
  <2>1. L \in [MembersOf(us) -> Pose]
    BY DEF LaidOut
  <2>2. N = [m \in MembersOf(vs) |-> L[m]]
    BY DEF PartOf, Restrict
  <2> QED BY <1>1, <2>1, <2>2
<1> HIDE DEF N
<1>3. \A v \in vs : UnitPose(v, N) = UnitPose(v, L) /\ Standing(v, N)
  <2> TAKE v \in vs
  <2>1. IsUnit(v) /\ Standing(v, L) /\ \A m \in Range(v) : N[m] = L[m]
    BY <1>1 DEF LaidOut, MembersOf
  <2> QED BY <2>1, SamePose
<1>4. LaidOut(vs, N)
  BY <1>2, <1>3 DEF LaidOut
<1>5. Covered(N) = Covered(L) \ UNION {UnitCells(u, UnitPose(u, L)) : u \in us \ vs}
  <2>1. Covered(N) = UNION {UnitCells(u, UnitPose(u, N)) : u \in vs}
    BY <1>4, LaidCover
  <2>2. Covered(L) = UNION {UnitCells(u, UnitPose(u, L)) : u \in us}
    BY LaidCover
  <2>3. \A u, v \in us : u # v => UnitCells(u, UnitPose(u, L)) \cap UnitCells(v, UnitPose(v, L)) = {}
    BY DEF LaidOut
  <2>4. ASSUME NEW c \in Covered(N)
        PROVE  c \in Covered(L) /\ \A u \in us \ vs : c \notin UnitCells(u, UnitPose(u, L))
    <3>1. PICK v \in vs : c \in UnitCells(v, UnitPose(v, L))
      BY <1>3, <2>1
    <3> QED BY <2>2, <2>3, <3>1
  <2>5. ASSUME NEW c \in Covered(L), \A u \in us \ vs : c \notin UnitCells(u, UnitPose(u, L))
        PROVE  c \in Covered(N)
    <3>1. PICK v \in us : c \in UnitCells(v, UnitPose(v, L))
      BY <2>2
    <3>2. v \in vs
      BY <2>5, <3>1
    <3> QED BY <1>3, <2>1, <3>1, <3>2
  <2> QED BY <2>4, <2>5
<1> QED BY <1>1, <1>3, <1>4, <1>5 DEF N

(* One more unit put down where there is room.                             *)
LEMMA LaidPut ==
  ASSUME line \in Lines, NEW us, NEW L, LaidOut(us, L),
         NEW u, IsUnit(u), Range(u) \cap MembersOf(us) = {},
         NEW at, Sound(u, at), UnitCells(u, at) \cap Covered(L) = {}
  PROVE  /\ LaidOut(us \cup {u}, Overlaid(L, UnitPlaced(u, at)))
         /\ UnitPose(u, Overlaid(L, UnitPlaced(u, at))) = at
         /\ \A v \in us : UnitPose(v, Overlaid(L, UnitPlaced(u, at))) = UnitPose(v, L)
         /\ Covered(Overlaid(L, UnitPlaced(u, at))) = Covered(L) \cup UnitCells(u, at)
<1> DEFINE N == Overlaid(L, UnitPlaced(u, at))
           ws == us \cup {u}
<1>0. at \in Pose
  BY DEF Sound
<1>1. UnitPlaced(u, at) \in [Range(u) -> Pose] /\ L \in [MembersOf(us) -> Pose]
  BY <1>0, PlacedIs DEF LaidOut
<1>2. MembersOf(ws) = Range(u) \cup MembersOf(us)
  BY DEF MembersOf
<1>3. N = [m \in Range(u) \cup MembersOf(us) |-> IF m \in Range(u) THEN UnitPlaced(u, at)[m] ELSE L[m]]
  BY <1>1 DEF Overlaid
<1>4. /\ \A m \in Range(u) : N[m] = UnitPlaced(u, at)[m]
      /\ \A m \in MembersOf(us) : N[m] = L[m]
      /\ N \in [MembersOf(ws) -> Pose]
  <2>1. \A m \in Range(u) : m \in Range(u) \cup MembersOf(us)
    OBVIOUS
  <2>2. \A m \in MembersOf(us) : m \in Range(u) \cup MembersOf(us) /\ m \notin Range(u)
    OBVIOUS
  <2> HIDE DEF N, ws
  <2>3. /\ \A m \in Range(u) : N[m] = UnitPlaced(u, at)[m]
        /\ \A m \in MembersOf(us) : N[m] = L[m]
    BY <1>3, <2>1, <2>2
  <2>4. \A m \in Range(u) \cup MembersOf(us) : N[m] \in Pose
    BY <1>1, <2>3
  <2>5. DOMAIN N = Range(u) \cup MembersOf(us)
    BY <1>3
  <2>6. N = [m \in Range(u) \cup MembersOf(us) |-> N[m]]
    BY <1>3
  <2> QED BY <1>2, <2>3, <2>4, <2>6
<1> HIDE DEF N
<1>5. UnitPose(u, N) = at /\ Standing(u, N)
  BY <1>0, <1>4, PutPose
<1>6. \A v \in us : IsUnit(v) /\ Standing(v, N) /\ UnitPose(v, N) = UnitPose(v, L)
  <2> TAKE v \in us
  <2>1. IsUnit(v) /\ Standing(v, L) /\ \A m \in Range(v) : N[m] = L[m]
    BY <1>4 DEF LaidOut, MembersOf
  <2> QED BY <2>1, SamePose
<1>7. Covered(L) = UNION {UnitCells(v, UnitPose(v, L)) : v \in us}
  BY LaidCover
<1>8. \A v \in us : Range(u) \cap Range(v) = {} /\ UnitCells(u, at) \cap UnitCells(v, UnitPose(v, L)) = {}
  BY <1>7 DEF MembersOf
<1>9. LaidOut(ws, N)
  <2>1. \A v \in ws : IsUnit(v) /\ Standing(v, N) /\ Sound(v, UnitPose(v, N))
    BY <1>5, <1>6 DEF LaidOut
  <2>2. ASSUME NEW v \in ws, NEW w \in ws, v # w
        PROVE  /\ Range(v) \cap Range(w) = {}
               /\ UnitCells(v, UnitPose(v, N)) \cap UnitCells(w, UnitPose(w, N)) = {}
    <3>1. CASE v = u
      BY <1>5, <1>6, <1>8, <2>2, <3>1
    <3>2. CASE w = u
      BY <1>5, <1>6, <1>8, <2>2, <3>2
    <3>3. CASE v \in us /\ w \in us
      BY <1>6, <2>2, <3>3 DEF LaidOut
    <3> QED BY <3>1, <3>2, <3>3
  <2> HIDE DEF ws
  <2> QED BY <1>4, <2>1, <2>2 DEF LaidOut
<1>10. Covered(N) = Covered(L) \cup UnitCells(u, at)
  <2>1. Covered(N) = UNION {UnitCells(v, UnitPose(v, N)) : v \in ws}
    BY <1>9, LaidCover
  <2> QED BY <1>5, <1>6, <1>7, <2>1
<1> QED BY <1>5, <1>6, <1>9, <1>10 DEF N, ws

(* Units that take in every machine are laid out as the layout is legal.   *)
LEMMA LaidLegal ==
  ASSUME line \in Lines, NEW us, NEW L, LaidOut(us, L), MembersOf(us) = Machines
  PROVE  /\ Legal(L) /\ L \in [Machines -> Pose]
         /\ \A m \in Machines : MachineSound(m, L[m])
<1>1. L \in [Machines -> Pose]
  BY DEF LaidOut
<1>2. \A m \in Machines : \E u \in us : m \in Range(u)
  BY DEF MembersOf
<1>3. \A u \in us : /\ IsUnit(u) /\ UnitPose(u, L) \in Pose /\ Sound(u, UnitPose(u, L))
                    /\ \A m \in Range(u) : L[m] = UnitPlaced(u, UnitPose(u, L))[m]
  BY DEF LaidOut, Standing, Sound
<1>4. ASSUME NEW m \in Machines PROVE MachineSound(m, L[m])
  <2>1. PICK u \in us : m \in Range(u)
    BY <1>2
  <2>2. MachineSound(m, UnitPlaced(u, UnitPose(u, L))[m])
    BY <1>3, <2>1, SoundMembers
  <2> QED BY <1>3, <2>1, <2>2
<1>5. ASSUME NEW a \in Machines, NEW b \in Machines, a # b
      PROVE  Body(a, L[a]) \cap Body(b, L[b]) = {}
  <2>1. PICK u \in us : a \in Range(u)
    BY <1>2
  <2>2. PICK v \in us : b \in Range(v)
    BY <1>2
  <2>3. CASE u = v
    <3>1. Body(a, UnitPlaced(u, UnitPose(u, L))[a]) \cap Body(b, UnitPlaced(u, UnitPose(u, L))[b]) = {}
      BY <1>3, <1>5, <2>1, <2>2, <2>3, UnitBodies
    <3> QED BY <1>3, <2>1, <2>2, <2>3, <3>1
  <2>4. CASE u # v
    <3>1. UnitCells(u, UnitPose(u, L)) \cap UnitCells(v, UnitPose(v, L)) = {}
      BY <2>4 DEF LaidOut
    <3>2. /\ Body(a, UnitPlaced(u, UnitPose(u, L))[a]) \subseteq UnitCells(u, UnitPose(u, L))
          /\ Body(b, UnitPlaced(v, UnitPose(v, L))[b]) \subseteq UnitCells(v, UnitPose(v, L))
      BY <1>3, <2>1, <2>2, UnitBodies
    <3>3. L[a] = UnitPlaced(u, UnitPose(u, L))[a] /\ L[b] = UnitPlaced(v, UnitPose(v, L))[b]
      BY <1>3, <2>1, <2>2
    <3> QED BY <3>1, <3>2, <3>3
  <2> QED BY <2>3, <2>4
<1> QED BY <1>1, <1>4, <1>5 DEF Legal, MachineSound

LEMMA LegalLaid ==
  ASSUME line \in Lines, NEW us, NEW L, MembersOf(us) = Machines,
         L \in [Machines -> Pose], Legal(L),
         \A u \in us : IsUnit(u) /\ Standing(u, L) /\ UnitPose(u, L) \in Pose,
         \A u, v \in us : u # v => Range(u) \cap Range(v) = {}
  PROVE  LaidOut(us, L)
<1>1. \A m \in Machines : MachineSound(m, L[m])
  BY DEF Legal, MachineSound
<1>2. \A u \in us : /\ Range(u) \subseteq Machines
                    /\ \A m \in Range(u) : L[m] = UnitPlaced(u, UnitPose(u, L))[m]
  BY DEF MembersOf, Standing
<1>3. ASSUME NEW u \in us PROVE Sound(u, UnitPose(u, L))
  <2>1. \A m \in Range(u) : MachineSound(m, UnitPlaced(u, UnitPose(u, L))[m])
    BY <1>1, <1>2
  <2> QED BY <2>1, SoundMembers
<1>4. ASSUME NEW u \in us, NEW v \in us, u # v
      PROVE  UnitCells(u, UnitPose(u, L)) \cap UnitCells(v, UnitPose(v, L)) = {}
  <2> SUFFICES ASSUME NEW c, c \in UnitCells(u, UnitPose(u, L)), c \in UnitCells(v, UnitPose(v, L))
               PROVE  FALSE
    OBVIOUS
  <2>1. PICK a \in Range(u) : c \in Body(a, UnitPlaced(u, UnitPose(u, L))[a])
    BY UnitBodies
  <2>2. PICK b \in Range(v) : c \in Body(b, UnitPlaced(v, UnitPose(v, L))[b])
    BY UnitBodies
  <2>3. c \in Body(a, L[a]) /\ c \in Body(b, L[b]) /\ a \in Machines /\ b \in Machines
    BY <1>2, <2>1, <2>2
  <2>4. a # b
    BY <1>4, <2>1, <2>2
  <2> QED BY <2>3, <2>4 DEF Legal
<1> QED BY <1>3, <1>4 DEF LaidOut

(* Kept up by what moved, the occupied cells are the covered ones.         *)
LEMMA OccupiedFollows ==
  ASSUME line \in Lines, NEW next, DOMAIN next = Machines, DOMAIN current = Machines,
         occupied = Covered(current),
         \A a, b \in Machines : a # b => Body(a, current[a]) \cap Body(b, current[b]) = {}
  PROVE  OccupiedAfter(next) = Covered(next)
<1> DEFINE moved == {m \in Machines : next[m] # current[m]}
<1>1. OccupiedAfter(next) = (occupied \ UNION {Body(m, current[m]) : m \in moved})
                               \cup UNION {Body(m, next[m]) : m \in moved}
  BY DEF OccupiedAfter
<1>2. ASSUME NEW c \in OccupiedAfter(next) PROVE c \in Covered(next)
  <2>1. CASE \E m \in moved : c \in Body(m, next[m])
    BY <2>1 DEF Covered
  <2>2. CASE c \in occupied /\ \A m \in moved : c \notin Body(m, current[m])
    <3>1. PICK m \in Machines : c \in Body(m, current[m])
      BY <2>2 DEF Covered
    <3>2. next[m] = current[m]
      BY <2>2, <3>1
    <3> QED BY <3>1, <3>2 DEF Covered
  <2> HIDE DEF moved
  <2> QED BY <1>1, <1>2, <2>1, <2>2
<1>3. ASSUME NEW c \in Covered(next) PROVE c \in OccupiedAfter(next)
  <2>1. PICK m \in Machines : c \in Body(m, next[m])
    BY DEF Covered
  <2>2. CASE m \in moved
    <3> HIDE DEF moved
    <3> QED BY <1>1, <2>1, <2>2
  <2>3. CASE m \notin moved
    <3>1. next[m] = current[m]
      BY <2>3
    <3>2. c \in occupied
      BY <2>1, <3>1 DEF Covered
    <3>3. \A k \in moved : k \in Machines /\ k # m
      BY <2>3
    <3>4. \A k \in moved : c \notin Body(k, current[k])
      BY <2>1, <3>1, <3>3
    <3> HIDE DEF moved
    <3> QED BY <1>1, <3>2, <3>4
  <2> QED BY <2>2, <2>3
<1> QED BY <1>2, <1>3

(* A unit put elsewhere, clear of the others.                              *)
LEMMA LaidMove ==
  ASSUME line \in Lines, NEW us, NEW L, LaidOut(us, L), NEW u \in us, NEW at, Sound(u, at),
         UnitCells(u, at) \cap (Covered(L) \ UnitCells(u, UnitPose(u, L))) = {}
  PROVE  LaidOut(us, Relaid(L, u, at))
<1> DEFINE rest == us \ {u}
           part == PartOf(rest, L)
<1>1. /\ LaidOut(rest, part) /\ DOMAIN part = MembersOf(rest) /\ \A m \in MembersOf(rest) : part[m] = L[m]
      /\ Covered(part) = Covered(L) \ UnitCells(u, UnitPose(u, L))
  <2>1. us \ rest = {u} /\ rest \in SUBSET us
    OBVIOUS
  <2> HIDE DEF rest
  <2>2. UNION {UnitCells(v, UnitPose(v, L)) : v \in us \ rest} = UnitCells(u, UnitPose(u, L))
    BY <2>1
  <2> QED BY <2>1, <2>2, LaidPart
<1>2. IsUnit(u) /\ Range(u) \cap MembersOf(rest) = {}
  BY DEF LaidOut, MembersOf
<1>3. rest \cup {u} = us /\ MembersOf(us) = Range(u) \cup MembersOf(rest) /\ DOMAIN L = MembersOf(us)
  BY DEF MembersOf, LaidOut
<1> HIDE DEF rest, part
<1>4. LaidOut(us, Overlaid(part, UnitPlaced(u, at)))
  BY <1>1, <1>2, <1>3, LaidPut
<1>5. DOMAIN UnitPlaced(u, at) = Range(u)
  BY <1>2, PlacedIs DEF Sound
<1>6. Relaid(L, u, at) = Overlaid(part, UnitPlaced(u, at))
  <2>1. Relaid(L, u, at) = [m \in Range(u) \cup MembersOf(rest) |->
                              IF m \in Range(u) THEN UnitPlaced(u, at)[m] ELSE L[m]]
    BY <1>3, <1>5 DEF Relaid, Overlaid
  <2>2. Overlaid(part, UnitPlaced(u, at)) = [m \in Range(u) \cup MembersOf(rest) |->
                              IF m \in Range(u) THEN UnitPlaced(u, at)[m] ELSE part[m]]
    BY <1>1, <1>5 DEF Overlaid
  <2> QED BY <1>1, <2>1, <2>2
<1> QED BY <1>4, <1>6

(* Two units put elsewhere at once, clear of the others and of each other. *)
LEMMA LaidTrade ==
  ASSUME line \in Lines, NEW us, NEW L, LaidOut(us, L), NEW u \in us, NEW v \in us, u # v,
         NEW p, Sound(u, p), NEW q, Sound(v, q), UnitCells(u, p) \cap UnitCells(v, q) = {},
         (UnitCells(u, p) \cup UnitCells(v, q))
            \cap (Covered(L) \ (UnitCells(u, UnitPose(u, L)) \cup UnitCells(v, UnitPose(v, L)))) = {}
  PROVE  LaidOut(us, Relaid(Relaid(L, u, p), v, q))
<1> DEFINE rest == us \ {u, v}
           part == PartOf(rest, L)
           one == Overlaid(part, UnitPlaced(u, p))
           both == Overlaid(one, UnitPlaced(v, q))
<1>1. /\ LaidOut(rest, part) /\ DOMAIN part = MembersOf(rest) /\ \A m \in MembersOf(rest) : part[m] = L[m]
      /\ Covered(part) = Covered(L) \ (UnitCells(u, UnitPose(u, L)) \cup UnitCells(v, UnitPose(v, L)))
  <2>1. us \ rest = {u, v} /\ rest \in SUBSET us
    OBVIOUS
  <2> HIDE DEF rest
  <2>2. UNION {UnitCells(w, UnitPose(w, L)) : w \in us \ rest}
           = UnitCells(u, UnitPose(u, L)) \cup UnitCells(v, UnitPose(v, L))
    BY <2>1
  <2> QED BY <2>1, <2>2, LaidPart
<1>2. /\ IsUnit(u) /\ IsUnit(v) /\ Range(u) \cap MembersOf(rest) = {}
      /\ Range(v) \cap MembersOf(rest \cup {u}) = {} /\ Range(u) \cap Range(v) = {}
  BY DEF LaidOut, MembersOf
<1>3. /\ (rest \cup {u}) \cup {v} = us /\ DOMAIN L = MembersOf(us)
      /\ MembersOf(us) = Range(v) \cup (Range(u) \cup MembersOf(rest))
  BY DEF MembersOf, LaidOut
<1>4. DOMAIN UnitPlaced(u, p) = Range(u) /\ DOMAIN UnitPlaced(v, q) = Range(v)
  BY <1>2, PlacedIs DEF Sound
<1> HIDE DEF rest, part
<1>5. LaidOut(rest \cup {u}, one) /\ Covered(one) = Covered(part) \cup UnitCells(u, p)
  <2>1. UnitCells(u, p) \cap Covered(part) = {}
    BY <1>1
  <2>2. LaidOut(rest, part) /\ IsUnit(u) /\ Range(u) \cap MembersOf(rest) = {}
    BY <1>1, <1>2
  <2>3. /\ LaidOut(rest \cup {u}, Overlaid(part, UnitPlaced(u, p)))
        /\ Covered(Overlaid(part, UnitPlaced(u, p))) = Covered(part) \cup UnitCells(u, p)
    <3>1. ASSUME NEW N, N = Overlaid(part, UnitPlaced(u, p))
          PROVE  LaidOut(rest \cup {u}, N) /\ Covered(N) = Covered(part) \cup UnitCells(u, p)
      BY <2>1, <2>2, <3>1, LaidPut
    <3> QED BY <3>1
  <2> QED BY <2>3
<1>6. UnitCells(v, q) \cap Covered(one) = {}
  BY <1>1, <1>5
<1>7. LaidOut(us, both)
  <2> HIDE DEF one
  <2> QED BY <1>2, <1>3, <1>5, <1>6, LaidPut
<1>8. Relaid(Relaid(L, u, p), v, q) = both
  <2> DEFINE all == Range(v) \cup (Range(u) \cup MembersOf(rest))
             first == Relaid(L, u, p)
  <2>1. DOMAIN first = all /\ \A m \in all : first[m] = IF m \in Range(u) THEN UnitPlaced(u, p)[m] ELSE L[m]
    BY <1>3, <1>4 DEF Relaid, Overlaid
  <2>2. /\ DOMAIN one = Range(u) \cup MembersOf(rest)
        /\ \A m \in DOMAIN one : one[m] = IF m \in Range(u) THEN UnitPlaced(u, p)[m] ELSE part[m]
    BY <1>1, <1>4 DEF Overlaid
  <2>3. Relaid(first, v, q) = [m \in all |-> IF m \in Range(v) THEN UnitPlaced(v, q)[m] ELSE first[m]]
    <3>1. Range(v) \cup all = all
      OBVIOUS
    <3> HIDE DEF all, first
    <3> QED BY <1>4, <2>1, <3>1 DEF Relaid, Overlaid
  <2>4. both = [m \in all |-> IF m \in Range(v) THEN UnitPlaced(v, q)[m] ELSE one[m]]
    <3> HIDE DEF one
    <3> QED BY <1>4, <2>2 DEF Overlaid
  <2> HIDE DEF all, first, one, both
  <2>5. \A m \in all : m \notin Range(v) => first[m] = one[m]
    <3> SUFFICES ASSUME NEW m \in all, m \notin Range(v) PROVE first[m] = one[m]
      OBVIOUS
    <3>1. m \in DOMAIN one /\ (m \notin Range(u) => m \in MembersOf(rest))
      BY <2>2 DEF all
    <3> QED BY <1>1, <2>1, <2>2, <3>1
  <2> QED BY <2>3, <2>4, <2>5 DEF first
<1> QED BY <1>7, <1>8
-----------------------------------------------------------------------------
(* The small moves.                                                        *)

(* The units make up the line, stand soundly and apart, and cover what the *)
(* walk takes to be occupied.                                              *)
Stands ==
  /\ line \in Lines
  /\ Listed(units)
  /\ \A i, j \in DOMAIN units : units[i] = units[j] => i = j
  /\ MembersOf(Range(units)) = Machines
  /\ LaidOut(Range(units), current)
  /\ occupied = Covered(current)

LEMMA StandsUnits ==
  ASSUME Stands, NEW u \in Range(units)
  PROVE  /\ IsUnit(u) /\ Sound(u, UnitPose(u, current)) /\ Standing(u, current)
         /\ UnitPose(u, current).cell \in Triple
         /\ UnitPose(u, current).front \in Range(UnitFacings(u))
BY PoseIs DEF Stands, LaidOut, Sound

(* What the other units cover.                                             *)
LEMMA LiftedIs ==
  ASSUME Stands
  PROVE  /\ \A u \in Range(units) : Lifted({u}) = Covered(current) \ UnitCells(u, UnitPose(u, current))
         /\ \A u, v \in Range(units) :
              Lifted({u, v}) = Covered(current)
                 \ (UnitCells(u, UnitPose(u, current)) \cup UnitCells(v, UnitPose(v, current)))
<1>1. occupied = Covered(current)
  BY DEF Stands
<1>2. ASSUME NEW u PROVE UNION {UnitCells(w, UnitPose(w, current)) : w \in {u}} = UnitCells(u, UnitPose(u, current))
  OBVIOUS
<1>3. ASSUME NEW u, NEW v
      PROVE  UNION {UnitCells(w, UnitPose(w, current)) : w \in {u, v}}
                = UnitCells(u, UnitPose(u, current)) \cup UnitCells(v, UnitPose(v, current))
  OBVIOUS
<1> QED BY <1>1, <1>2, <1>3 DEF Lifted

(* A unit lands soundly, clear of what the others cover.                   *)
LEMMA LandingIs ==
  ASSUME line \in Lines, NEW u, IsUnit(u), NEW cell \in Triple, NEW front \in Range(UnitFacings(u)),
         NEW shut, NEW at \in Landing(u, cell, front, shut)
  PROVE  Sound(u, at) /\ UnitCells(u, at) \cap shut = {}
<1> DEFINE ways == <<front>> \o UnitFacings(u)
           faces == UnitFacings(u)
<1>1. faces \in Seq(Compass) /\ Range(faces) \subseteq Compass
  BY UnitFacts
<1>2. \A i \in DOMAIN ways : ways[i] \in Range(faces)
  <2> HIDE DEF faces
  <2>0. /\ Len(faces) \in Nat /\ DOMAIN faces = 1 .. Len(faces) /\ \A i \in 1 .. Len(faces) : faces[i] \in Range(faces)
    BY <1>1, SeqFacts
  <2>1. front \in Range(faces) /\ front \in Compass
    BY <1>1 DEF faces
  <2>2. <<front>> \in Seq(Compass) /\ Len(<<front>>) = 1
    BY <2>1
  <2>3. DOMAIN ways = 1 .. 1 + Len(faces)
    BY <1>1, <2>2 DEF faces
  <2>4. ASSUME NEW i \in 1 .. 1 + Len(faces)
        PROVE  ways[i] = IF i = 1 THEN front ELSE faces[i - 1]
    BY <1>1, <2>0, <2>2 DEF faces
  <2>5. \A i \in 1 .. 1 + Len(faces) : i # 1 => i - 1 \in 1 .. Len(faces)
    BY <2>0
  <2> HIDE DEF ways
  <2> QED BY <2>0, <2>1, <2>3, <2>4, <2>5
<1>3. at \in FeedPose(u, cell, front) /\ Clear(u, at, shut)
  BY DEF Landing
<1>4. PICK i \in DOMAIN ways : at = [cell |-> cell, front |-> ways[i]] /\ FeedOk(u, [cell |-> cell, front |-> ways[i]])
  BY <1>3 DEF FeedPose
<1> HIDE DEF ways, faces
<1>5. ways[i] \in Range(faces) /\ ways[i] \in Compass
  BY <1>1, <1>2
<1>6. at \in Pose /\ at.front \in Range(faces) /\ FeedOk(u, at)
  BY <1>4, <1>5, PoseIs
<1> QED BY <1>3, <1>6 DEF Sound, Clear, faces

(* What a unit's corner may be put at.                                     *)
LEMMA OriginsAre ==
  ASSUME line \in Lines, NEW u, IsUnit(u), NEW f \in Compass
  PROVE  RandomOrigins(u, f) \subseteq Triple
<1>1. Region \in Extents /\ UnitSize(u, f) \in Extents
  BY LineFacts, UnitSizeIs
<1>2. \A x, y, z \in Int : (0 .. x) \X (0 .. y) \X (0 .. z) \subseteq Triple
  BY DEF Triple
<1>3. /\ Region[1] \in Int /\ Region[2] \in Int /\ Region[3] \in Int
      /\ UnitSize(u, f)[1] \in Int /\ UnitSize(u, f)[2] \in Int /\ UnitSize(u, f)[3] \in Int
  BY <1>1, TripleIs
<1>4. /\ Region[1] - UnitSize(u, f)[1] \in Int /\ Region[2] - UnitSize(u, f)[2] \in Int
      /\ Region[3] - UnitSize(u, f)[3] \in Int
  BY <1>3
<1> QED BY <1>2, <1>4 DEF RandomOrigins

(* A unit set down where it lands leaves a layout laid out.                *)
LEMMA SettledLaid ==
  ASSUME Stands, NEW u \in Range(units), NEW cells, cells \subseteq Triple,
         NEW next \in Settled(u, Landings(u, cells))
  PROVE  LaidOut(Range(units), next)
<1>1. PICK c \in cells : \E at \in Landing(u, c, UnitPose(u, current).front, Lifted({u})) : next = Relaid(current, u, at)
  BY DEF Settled, Landings
<1>2. PICK at \in Landing(u, c, UnitPose(u, current).front, Lifted({u})) : next = Relaid(current, u, at)
  BY <1>1
<1>3. IsUnit(u) /\ UnitPose(u, current).front \in Range(UnitFacings(u)) /\ line \in Lines /\ c \in Triple
  BY <1>1, StandsUnits DEF Stands
<1>4. Sound(u, at) /\ UnitCells(u, at) \cap Lifted({u}) = {}
  BY <1>2, <1>3, LandingIs
<1>5. UnitCells(u, at) \cap (Covered(current) \ UnitCells(u, UnitPose(u, current))) = {}
  BY <1>4, LiftedIs
<1>6. LaidOut(Range(units), current)
  BY DEF Stands
<1> QED BY <1>2, <1>3, <1>4, <1>5, <1>6, LaidMove

LEMMA RelocateLaid ==
  ASSUME Stands, NEW next \in Relocate
  PROVE  next = NoMove \/ LaidOut(Range(units), next)
<1>1. PICK u \in Range(units) : next \in Relocations(u)
  BY DEF Relocate
<1>2. IsUnit(u) /\ UnitPose(u, current).front \in Compass /\ line \in Lines
  BY StandsUnits, PoseIs DEF Stands, Sound
<1>3. RandomOrigins(u, UnitPose(u, current).front) \subseteq Triple
  BY <1>2, OriginsAre
<1>4. \/ next \in Settled(u, Landings(u, RandomOrigins(u, UnitPose(u, current).front)))
      \/ next = NoMove
  BY <1>1 DEF Relocations, Drawn
<1> QED BY <1>3, <1>4, SettledLaid

LEMMA NudgeLaid ==
  ASSUME Stands, NEW next \in Nudge
  PROVE  next = NoMove \/ LaidOut(Range(units), next)
<1>1. PICK u \in Range(units) : next \in NudgesOf(u)
  BY DEF Nudge
<1>2. Around(UnitPose(u, current).cell) \subseteq Triple
  BY StandsUnits, StepType DEF Around
<1>3. next = NoMove \/ next \in Settled(u, Landings(u, Around(UnitPose(u, current).cell)))
  BY <1>1 DEF NudgesOf, OrNoMove
<1> QED BY <1>2, <1>3, SettledLaid

LEMMA SwapLaid ==
  ASSUME Stands, NEW next \in Swap
  PROVE  next = NoMove \/ LaidOut(Range(units), next)
<1> SUFFICES ASSUME next # NoMove PROVE LaidOut(Range(units), next)
  OBVIOUS
<1>1. PICK i \in DOMAIN units, j \in DOMAIN units : i # j /\ next \in Swapped(units[i], units[j])
  BY DEF Swap
<1> DEFINE u == units[i]
           v == units[j]
           shut == Lifted({u, v})
<1>2. u \in Range(units) /\ v \in Range(units) /\ u # v
  BY <1>1 DEF Stands, Range
<1> HIDE DEF u, v
<1>3. next \in Traded(u, v, Landing(u, UnitPose(v, current).cell, UnitPose(u, current).front, shut),
                            Landing(v, UnitPose(u, current).cell, UnitPose(v, current).front, shut))
  BY <1>1 DEF Swapped, SwappedFrom, OrNoMove, u, v
<1> HIDE DEF shut
<1>4. PICK p \in Landing(u, UnitPose(v, current).cell, UnitPose(u, current).front, shut),
           q \in Landing(v, UnitPose(u, current).cell, UnitPose(v, current).front, shut) :
             UnitCells(u, p) \cap UnitCells(v, q) = {} /\ next = Relaid(Relaid(current, u, p), v, q)
  BY <1>3 DEF Traded
<1>5. /\ line \in Lines /\ IsUnit(u) /\ IsUnit(v)
      /\ UnitPose(u, current).cell \in Triple /\ UnitPose(u, current).front \in Range(UnitFacings(u))
      /\ UnitPose(v, current).cell \in Triple /\ UnitPose(v, current).front \in Range(UnitFacings(v))
  BY <1>2, StandsUnits DEF Stands
<1>6. Sound(u, p) /\ UnitCells(u, p) \cap shut = {}
  BY <1>5, LandingIs
<1>7. Sound(v, q) /\ UnitCells(v, q) \cap shut = {}
  BY <1>5, LandingIs
<1>8. shut = Covered(current) \ (UnitCells(u, UnitPose(u, current)) \cup UnitCells(v, UnitPose(v, current)))
  BY <1>2, LiftedIs DEF shut
<1>9. (UnitCells(u, p) \cup UnitCells(v, q))
         \cap (Covered(current) \ (UnitCells(u, UnitPose(u, current)) \cup UnitCells(v, UnitPose(v, current)))) = {}
  BY <1>6, <1>7, <1>8
<1>10. LaidOut(Range(units), current)
  BY DEF Stands
<1> QED BY <1>2, <1>4, <1>5, <1>6, <1>7, <1>9, <1>10, LaidTrade

(* A turn either lands like any other move or keeps the cells it stood on. *)
LEMMA ReorientLaid ==
  ASSUME Stands, NEW next \in Reorientations
  PROVE  next = NoMove \/ LaidOut(Range(units), next)
<1> SUFFICES ASSUME next # NoMove PROVE LaidOut(Range(units), next)
  OBVIOUS
<1>1. PICK u \in Range(units) :
        \E at \in Turns(u, UnitPose(u, current), Lifted({u})) : next = Relaid(current, u, at)
  BY DEF Reorientations, OrNoMove
<1> DEFINE p == UnitPose(u, current)
<1>2. PICK at \in Turns(u, p, Lifted({u})) : next = Relaid(current, u, at)
  BY <1>1
<1>3. /\ line \in Lines /\ IsUnit(u) /\ Sound(u, p) /\ p \in Pose /\ p.cell \in Triple
      /\ Range(UnitFacings(u)) \subseteq Compass
  BY StandsUnits, PoseIs, UnitFacts DEF Stands, Sound
<1>4. LaidOut(Range(units), current) /\ Lifted({u}) = Covered(current) \ UnitCells(u, p)
  BY LiftedIs DEF Stands
<1> HIDE DEF p
<1>5. PICK f \in Range(UnitFacings(u)) :
        /\ at = [cell |-> p.cell, front |-> f] /\ FeedOk(u, at)
        /\ UnitSize(u, at.front) = UnitSize(u, p.front) \/ Clear(u, at, Lifted({u}))
  BY <1>2 DEF Turns
<1>6. at \in Pose /\ at.cell = p.cell /\ at.front = f
  BY <1>3, <1>5, PoseIs
<1>7. CASE Clear(u, at, Lifted({u}))
  <2>1. Sound(u, at) /\ UnitCells(u, at) \cap Lifted({u}) = {}
    BY <1>5, <1>6, <1>7 DEF Sound, Clear
  <2>2. UnitCells(u, at) \cap (Covered(current) \ UnitCells(u, UnitPose(u, current))) = {}
    BY <1>4, <2>1 DEF p
  <2> QED BY <1>2, <1>3, <1>4, <2>1, <2>2, LaidMove
<1>8. CASE UnitSize(u, at.front) = UnitSize(u, p.front)
  <2>1. UnitCells(u, at) = UnitCells(u, p)
    BY <1>6, <1>8 DEF UnitCells
  <2>2. Sound(u, at)
    BY <1>3, <1>5, <1>6, <1>8, <2>1 DEF Sound
  <2>3. UnitCells(u, at) \cap (Covered(current) \ UnitCells(u, UnitPose(u, current))) = {}
    BY <2>1 DEF p
  <2> QED BY <1>2, <1>3, <1>4, <2>2, <2>3, LaidMove
<1> QED BY <1>5, <1>7, <1>8
-----------------------------------------------------------------------------
(* Costs are integers.                                                     *)

(* A listed sequence has finitely many places and members.                 *)
LEMMA ListedFinite ==
  ASSUME NEW s, Listed(s)
  PROVE  /\ s \in Seq(Range(s)) /\ Len(s) \in Nat /\ DOMAIN s = 1 .. Len(s)
         /\ IsFiniteSet(DOMAIN s) /\ IsFiniteSet({s[i] : i \in DOMAIN s})
         /\ s # <<>> => 1 \in DOMAIN s
<1>1. s \in Seq(Range(s))
  BY DEF Listed
<1>2. /\ Len(s) \in Nat /\ DOMAIN s = 1 .. Len(s) /\ IsFiniteSet(DOMAIN s)
      /\ s # <<>> => 1 \in DOMAIN s
  BY <1>1, SeqFacts
<1>3. IsFiniteSet({s[i] : i \in DOMAIN s})
  <2>1. [i \in DOMAIN s |-> s[i]] \in Surjection(DOMAIN s, {s[i] : i \in DOMAIN s})
    BY DEF Surjection
  <2> QED BY <1>2, <2>1, FS_Surjection
<1> QED BY <1>1, <1>2, <1>3

(* The nets, networks and ports of a line.                                 *)
LEMMA ShapeFacts ==
  ASSUME line \in Lines
  PROVE  /\ IsFiniteSet(DOMAIN Nets) /\ IsFiniteSet(DOMAIN Networks)
         /\ \A i \in DOMAIN Nets : IsFiniteSet(DOMAIN Nets[i].ends)
         /\ \A m \in Machines : /\ Listed(Machine[m].ports)
                                /\ \A q \in PortsOf(m) : q.pins \subseteq RelativeFaces
                                /\ Listed(Machine[m].devices)
                                /\ \A i \in DOMAIN Machine[m].devices : Listed(Machine[m].devices[i].ports)
<1>1. /\ Listed(Nets) /\ Listed(Networks) /\ \A i \in DOMAIN Nets : Listed(Nets[i].ends)
  BY ShapeAssumption DEF Nets, Networks
<1>2. Machines = DOMAIN line.machine
  BY LineFacts DEF Machine
<1>3. \A m \in Machines : /\ Listed(Machine[m].ports)
                          /\ \A i \in DOMAIN Machine[m].ports : Machine[m].ports[i].pins \subseteq RelativeFaces
                          /\ Listed(Machine[m].devices)
                          /\ \A i \in DOMAIN Machine[m].devices : Listed(Machine[m].devices[i].ports)
  BY <1>2, ShapeAssumption DEF Machine
<1>4. \A m \in Machines : \A q \in PortsOf(m) : q.pins \subseteq RelativeFaces
  BY <1>3 DEF PortsOf, PortsIn
<1> QED BY <1>1, <1>3, <1>4, ListedFinite

(* The faces a port may use are faces.                                     *)
LEMMA FacesAre ==
  ASSUME NEW front \in Compass, NEW pins \in SUBSET RelativeFaces
  PROVE  PortFaces(pins, front) \subseteq Faces
<1>1. ASSUME NEW p \in RelativeFaces PROVE AbsoluteFace(front, p) \in Faces
  <2>1. CASE p \in {"up", "down"}
    BY <2>1 DEF AbsoluteFace, Faces
  <2>2. CASE p \in {"front", "right", "back", "left"}
    <3> DEFINE turn == [front |-> 0, right |-> 1, back |-> 2, left |-> 3]
    <3>1. AbsoluteFace(front, p) = Clockwise[1 + ((CWSteps[front] + turn[p]) % 4)]
      BY <2>2 DEF AbsoluteFace
    <3>2. turn[p] \in 0 .. 3 /\ CWSteps[front] \in 0 .. 3
      BY <2>2 DEF CWSteps, Compass
    <3> HIDE DEF turn
    <3>3. 1 + ((CWSteps[front] + turn[p]) % 4) \in 1 .. 4
      BY <3>2
    <3>4. \A i \in 1 .. 4 : Clockwise[i] \in Faces
      BY DEF Clockwise, Faces
    <3> QED BY <3>1, <3>3, <3>4
  <2> QED BY <2>1, <2>2 DEF RelativeFaces
<1> QED BY <1>1 DEF PortFaces

(* A machine has finitely many ports to dock, all of them its own.         *)
LEMMA ChargedAre ==
  ASSUME line \in Lines, NEW m \in Machines
  PROVE  IsFiniteSet(ChargedPorts(m)) /\ \A p \in ChargedPorts(m) : Port(m, p) \in PortsOf(m)
<1>1. ProblemIsSound(line) /\ Machines = DOMAIN line.machine
  BY LineAssumption, LineFacts DEF Machine
<1> DEFINE ids == {q.id : q \in PortsOf(m)}
<1>2. ASSUME NEW n \in NetSet, NEW e \in Ends(n), e[1] = m PROVE e[2] \in ids
  <2>1. PICK i \in DOMAIN line.nets : n = line.nets[i]
    BY DEF NetSet, Nets
  <2>2. NetIsSound(n, line.machine)
    BY <1>1, <2>1 DEF ProblemIsSound
  <2>3. \E q \in PortsIn(line.machine[m]) : q.id = e[2]
    BY <1>2, <2>2 DEF NetIsSound
  <2> QED BY <2>3 DEF PortsOf, Machine
<1>3. ASSUME NEW i \in DOMAIN Machine[m].devices, Machine[m].devices[i].ports # <<>>
      PROVE  Machine[m].devices[i].ports[1] \in ids
  <2>1. MachineIsSound(line.machine[m])
    BY <1>1 DEF ProblemIsSound
  <2>2. \A k \in DOMAIN Machine[m].devices[i].ports :
           \E q \in PortsIn(Machine[m]) : q.id = Machine[m].devices[i].ports[k]
    BY <2>1 DEF MachineIsSound, Machine
  <2>3. 1 \in DOMAIN Machine[m].devices[i].ports
    BY <1>3, ShapeFacts, ListedFinite
  <2> QED BY <2>2, <2>3 DEF PortsOf
<1>4. ChargedPorts(m) \subseteq ids
  <2> HIDE DEF ids
  <2> QED BY <1>2, <1>3 DEF ChargedPorts
<1>5. IsFiniteSet(ids)
  <2>1. IsFiniteSet(PortsOf(m))
    BY ShapeFacts, ListedFinite DEF PortsOf, PortsIn
  <2>2. [q \in PortsOf(m) |-> q.id] \in Surjection(PortsOf(m), ids)
    BY DEF Surjection
  <2> QED BY <2>1, <2>2, FS_Surjection
<1>6. \A p \in ids : Port(m, p) \in PortsOf(m)
  BY DEF Port
<1> QED BY <1>4, <1>5, <1>6, FS_Subset

(* The cells in the region are finitely many.                              *)
LEMMA RegionCells ==
  ASSUME line \in Lines, NEW S, \A c \in S : c \in Triple /\ InRegion(c, Region)
  PROVE  IsFiniteSet(S)
<1> DEFINE o == <<0, 0, 0>>
<1>1. Region \in Extents /\ o \in Triple
  BY LineFacts, TripleIs
<1>2. Region[1] \in Int /\ Region[2] \in Int /\ Region[3] \in Int
  BY <1>1, TripleIs
<1>3. ASSUME NEW c \in S PROVE c \in BoxCells(o, Region)
  <2>1. c \in Triple /\ c[1] \in Int /\ c[2] \in Int /\ c[3] \in Int /\ InRegion(c, Region)
    BY TripleIs
  <2>2. \A a \in 1 .. 3 : a = 1 \/ a = 2 \/ a = 3
    OBVIOUS
  <2>3. o[1] = 0 /\ o[2] = 0 /\ o[3] = 0
    OBVIOUS
  <2> HIDE DEF o
  <2>4. \A a \in 1 .. 3 : o[a] <= c[a] /\ c[a] <= o[a] + Region[a] - 1
    BY <1>2, <2>1, <2>2, <2>3 DEF InRegion
  <2> QED BY <1>1, <2>1, <2>4, BoxIs
<1>4. IsFiniteSet(BoxCells(o, Region))
  BY <1>1, BoxIs
<1> HIDE DEF o
<1> QED BY <1>3, <1>4, FS_Subset

(* A layout of some of the machines.                                       *)
Partial(L) == L \in [DOMAIN L -> Pose] /\ DOMAIN L \subseteq Machines

LEMMA BodyIs ==
  ASSUME line \in Lines, NEW L, Partial(L), NEW m \in DOMAIN L
  PROVE  /\ L[m].cell \in Triple /\ L[m].front \in Compass
         /\ Turned(Machine[m].size, L[m].front) \in Extents
         /\ Body(m, L[m]) \subseteq Triple /\ IsFiniteSet(Body(m, L[m]))
<1>1. L[m].cell \in Triple /\ L[m].front \in Compass
  BY PoseIs DEF Partial
<1>2. Turned(Machine[m].size, L[m].front) \in Extents
  BY <1>1, LineFacts, TurnedIs DEF Partial
<1> QED BY <1>1, <1>2, BoxIs DEF Body

(* What one machine asks of the cells around it.                           *)
IsDemand(d) == d.needed \in Nat /\ d.stranded \in Nat /\ IsFiniteSet(d.cells)

LEMMA DemandIs ==
  ASSUME line \in Lines, NEW L, Partial(L), NEW m \in DOMAIN L, NEW shut,
         NEW ports \in SUBSET ChargedPorts(m)
  PROVE  IsDemand(DemandOf(m, ports, L, shut))
<1>1. m \in Machines /\ L[m].front \in Compass /\ Body(m, L[m]) \subseteq Triple
  BY BodyIs DEF Partial
<1>2. ASSUME NEW faces \in SUBSET Faces
      PROVE  \A c \in SeenBy(m, faces, L, shut) : c \in Triple /\ InRegion(c, Region)
  BY <1>1, StepType DEF SeenBy, ShellCells
<1>3. IsFiniteSet(ports) /\ \A p \in ports : Port(m, p) \in PortsOf(m)
  BY <1>1, ChargedAre, FS_Subset
<1>4. ASSUME NEW p \in ports PROVE AllowedFaces(m, p, L[m].front) \subseteq Faces
  <2>1. Port(m, p).pins \subseteq RelativeFaces
    BY <1>1, <1>3, ShapeFacts
  <2> QED BY <1>1, <2>1, FacesAre DEF AllowedFaces
<1>5. Cardinality(ports) \in Nat
  BY <1>3, FS_CardinalityType
<1>6. CASE \E q \in PortsOf(m) : q.pins # {}
  <2> DEFINE seen == [p \in ports |-> SeenBy(m, AllowedFaces(m, p, L[m].front), L, shut)]
             d == [machine |-> m, needed |-> Cardinality(ports), cells |-> UNION {seen[p] : p \in ports},
                   stranded |-> Cardinality({p \in ports : seen[p] = {}})]
  <2>1. DemandOf(m, ports, L, shut) = d
    BY <1>6 DEF DemandOf
  <2>2. d.needed = Cardinality(ports) /\ d.cells = UNION {seen[p] : p \in ports}
        /\ d.stranded = Cardinality({p \in ports : seen[p] = {}})
    OBVIOUS
  <2>3. \A p \in ports : \A c \in seen[p] : c \in Triple /\ InRegion(c, Region)
    BY <1>2, <1>4
  <2>4. IsFiniteSet({p \in ports : seen[p] = {}})
    BY <1>3, FS_Subset
  <2> HIDE DEF seen, d
  <2>5. IsFiniteSet(UNION {seen[p] : p \in ports})
    BY <2>3, RegionCells
  <2>6. Cardinality({p \in ports : seen[p] = {}}) \in Nat
    BY <2>4, FS_CardinalityType
  <2> QED BY <1>5, <2>1, <2>2, <2>5, <2>6 DEF IsDemand
<1>7. CASE ~(\E q \in PortsOf(m) : q.pins # {})
  <2>1. IsFiniteSet(SeenBy(m, Faces \ {L[m].front}, L, shut))
    BY <1>2, RegionCells
  <2> QED BY <1>5, <1>7, <2>1 DEF DemandOf, IsDemand
<1> QED BY <1>6, <1>7

LEMMA MaxOfPair ==
  ASSUME NEW x \in Int, NEW y \in Int
  PROVE  Max({x, y}) \in Int /\ Max({x, y}) >= x
<1>1. {x, y} \subseteq Int /\ {x, y} # {} /\ IsFiniteSet({x, y}) /\ x \in {x, y}
  <2>1. IsFiniteSet({x} \cup {y})
    BY FS_Singleton, FS_Union
  <2>2. {x} \cup {y} = {x, y}
    OBVIOUS
  <2> QED BY <2>1, <2>2
<1> QED BY <1>1, FiniteMax

LEMMA MaxOfThree ==
  ASSUME NEW x \in Int, NEW y \in Int, NEW z \in Int
  PROVE  Max({x, y, z}) \in Int
<1>1. {x, y, z} \subseteq Int /\ {x, y, z} # {} /\ IsFiniteSet({x, y, z})
  <2>1. IsFiniteSet(({x} \cup {y}) \cup {z})
    BY FS_Singleton, FS_Union
  <2>2. ({x} \cup {y}) \cup {z} = {x, y, z}
    OBVIOUS
  <2> QED BY <2>1, <2>2
<1> QED BY <1>1, FiniteMax

(* What a machine is short of.                                             *)
LEMMA GapType ==
  ASSUME NEW d, IsDemand(d), NEW tight, IsFiniteSet(tight)
  PROVE  Gap(d, tight) \in Int
<1> DEFINE reached(c) == Cardinality({k \in tight : c \in k.cells})
           share(c) == 60 \div Max({1, reached(c)})
           shares == [c \in d.cells |-> share(c)]
<1>1. ASSUME NEW c PROVE share(c) \in Int
  <2>1. IsFiniteSet({k \in tight : c \in k.cells})
    BY FS_Subset
  <2>2. reached(c) \in Int
    BY <2>1, FS_CardinalityType
  <2> HIDE DEF reached
  <2>3. Max({1, reached(c)}) \in Int /\ Max({1, reached(c)}) >= 1
    BY <2>2, MaxOfPair
  <2> DEFINE n == Max({1, reached(c)})
  <2> HIDE DEF n
  <2>4. 60 \div n \in Int
    BY <2>3 DEF n
  <2> QED BY <2>4 DEF n
<1>2. Total(shares) \in Int
  <2>1. IsFiniteSet(DOMAIN shares)
    BY DEF IsDemand
  <2>2. \A c \in DOMAIN shares : shares[c] \in Int
    BY <1>1
  <2> HIDE DEF shares
  <2> QED BY <2>1, <2>2, TotalType
<1>3. Gap(d, tight) = Max({0, 60 * d.needed - Total(shares), 60 * d.stranded})
  BY DEF Gap
<1> HIDE DEF shares
<1>4. 60 * d.needed - Total(shares) \in Int /\ 60 * d.stranded \in Int
  BY <1>2 DEF IsDemand
<1> QED BY <1>3, <1>4, MaxOfThree

LEMMA ShortfallType ==
  ASSUME line \in Lines, NEW L, Partial(L), NEW free
  PROVE  FaceShortfall(L, free) \in Int
<1> DEFINE shut == Reserved \cup UNION {Body(m, L[m]) : m \in DOMAIN L}
           demand(m) == DemandOf(m, {p \in ChargedPorts(m) : <<m, p>> \notin free}, L, shut)
           demands == {demand(m) : m \in DOMAIN L}
           tight == WithoutSlack(demands)
           gaps == [d \in {k \in demands : k.needed > 0} |-> Gap(d, tight)]
<1>1. IsFiniteSet(DOMAIN L)
  BY LineFacts, FS_Subset DEF Partial
<1>2. IsFiniteSet(demands)
  <2>1. [m \in DOMAIN L |-> demand(m)] \in Surjection(DOMAIN L, demands)
    BY DEF Surjection
  <2> QED BY <1>1, <2>1, FS_Surjection
<1>3. \A d \in demands : IsDemand(d)
  <2> SUFFICES ASSUME NEW m \in DOMAIN L PROVE IsDemand(demand(m))
    OBVIOUS
  <2> HIDE DEF shut
  <2>1. {p \in ChargedPorts(m) : <<m, p>> \notin free} \in SUBSET ChargedPorts(m)
    OBVIOUS
  <2> QED BY <2>1, DemandIs
<1>4. FaceShortfall(L, free) = Total(gaps)
  BY DEF FaceShortfall, Demands, ShortfallOf, SharedOut
<1> HIDE DEF demands
<1>5. IsFiniteSet(tight)
  BY <1>2, FS_Subset DEF WithoutSlack
<1> HIDE DEF tight
<1>6. IsFiniteSet(DOMAIN gaps)
  BY <1>2, FS_Subset
<1>7. \A d \in DOMAIN gaps : gaps[d] \in Int
  BY <1>3, <1>5, GapType
<1> HIDE DEF gaps
<1> QED BY <1>4, <1>6, <1>7, TotalType

(* Some values of finitely many machines lie between two integers.         *)
LEMMA SpanType ==
  ASSUME NEW S, IsFiniteSet(S), S # {}, NEW lo, NEW hi,
         \A m \in S : lo[m] \in Int /\ hi[m] \in Int
  PROVE  Max({hi[m] : m \in S}) - Min({lo[m] : m \in S}) \in Int
<1>1. IsFiniteSet({hi[m] : m \in S}) /\ IsFiniteSet({lo[m] : m \in S})
  <2>1. [m \in S |-> hi[m]] \in Surjection(S, {hi[m] : m \in S})
    BY DEF Surjection
  <2>2. [m \in S |-> lo[m]] \in Surjection(S, {lo[m] : m \in S})
    BY DEF Surjection
  <2> QED BY <2>1, <2>2, FS_Surjection
<1>2. {hi[m] : m \in S} \subseteq Int /\ {lo[m] : m \in S} \subseteq Int
  OBVIOUS
<1>3. {hi[m] : m \in S} # {} /\ {lo[m] : m \in S} # {}
  OBVIOUS
<1>4. Max({hi[m] : m \in S}) \in Int
  BY <1>1, <1>2, <1>3, FiniteMax
<1>5. Min({lo[m] : m \in S}) \in Int
  BY <1>1, <1>2, <1>3, FiniteMin
<1> QED BY <1>4, <1>5

LEMMA PerimeterType ==
  ASSUME line \in Lines, NEW L, Partial(L), NEW w
  PROVE  HalfPerimeter(w, L) \in Int
<1> DEFINE on == {e[2] : e \in WireEnds(w)} \cap DOMAIN L
           along(a) == {Centre(m, L)[a] : m \in on}
           span(a) == Max(along(a)) - Min(along(a))
<1>1. IsFiniteSet(DOMAIN L)
  BY LineFacts, FS_Subset DEF Partial
<1>2. IsFiniteSet(on) /\ on \subseteq DOMAIN L
  BY <1>1, FS_Subset
<1>3. ASSUME NEW m \in DOMAIN L, NEW a \in 1 .. 3 PROVE Centre(m, L)[a] \in Int
  <2>1. L[m].cell \in Triple /\ Turned(Machine[m].size, L[m].front) \in Extents
    BY BodyIs
  <2>2. L[m].cell[a] \in Int /\ Turned(Machine[m].size, L[m].front)[a] \in Int
    <3>1. a = 1 \/ a = 2 \/ a = 3
      OBVIOUS
    <3> QED BY <2>1, <3>1, TripleIs
  <2>3. Centre(m, L)[a] = 2 * L[m].cell[a] + Turned(Machine[m].size, L[m].front)[a]
    BY DEF Centre
  <2> QED BY <2>2, <2>3
<1>4. HalfPerimeter(w, L) = IF on = {} THEN 0 ELSE span(1) + span(2) + span(3)
  BY DEF HalfPerimeter
<1> HIDE DEF on
<1>5. ASSUME on # {}, NEW a \in 1 .. 3 PROVE span(a) \in Int
  <2> DEFINE v == [m \in on |-> Centre(m, L)[a]]
  <2>1. \A m \in on : v[m] \in Int
    BY <1>2, <1>3
  <2>2. along(a) = {v[m] : m \in on}
    OBVIOUS
  <2> HIDE DEF v
  <2>3. Max({v[m] : m \in on}) - Min({v[m] : m \in on}) \in Int
    BY <1>2, <1>5, <2>1, SpanType
  <2> QED BY <2>2, <2>3
<1> HIDE DEF span
<1>6. on # {} => span(1) \in Int /\ span(2) \in Int /\ span(3) \in Int
  BY <1>5
<1> QED BY <1>4, <1>6

LEMMA SizeType ==
  ASSUME line \in Lines, NEW L, Partial(L)
  PROVE  SizeCost(L) \in Int
<1> DEFINE low(a) == Min({L[m].cell[a] : m \in DOMAIN L})
           high(a) == Max({L[m].cell[a] + Turned(Machine[m].size, L[m].front)[a] : m \in DOMAIN L})
           wide(a) == high(a) - low(a)
<1>1. IsFiniteSet(DOMAIN L)
  BY LineFacts, FS_Subset DEF Partial
<1>2. ASSUME NEW m \in DOMAIN L, NEW a \in 1 .. 3
      PROVE  L[m].cell[a] \in Int /\ L[m].cell[a] + Turned(Machine[m].size, L[m].front)[a] \in Int
  <2>1. L[m].cell \in Triple /\ Turned(Machine[m].size, L[m].front) \in Extents
    BY BodyIs
  <2>2. L[m].cell[a] \in Int /\ Turned(Machine[m].size, L[m].front)[a] \in Int
    <3>1. a = 1 \/ a = 2 \/ a = 3
      OBVIOUS
    <3> QED BY <2>1, <3>1, TripleIs
  <2> QED BY <2>2
<1>3. ASSUME DOMAIN L # {}, NEW a \in 1 .. 3 PROVE wide(a) \in Int
  <2> DEFINE lo == [m \in DOMAIN L |-> L[m].cell[a]]
             hi == [m \in DOMAIN L |-> L[m].cell[a] + Turned(Machine[m].size, L[m].front)[a]]
  <2>1. \A m \in DOMAIN L : lo[m] \in Int /\ hi[m] \in Int
    BY <1>2
  <2>2. /\ {lo[m] : m \in DOMAIN L} = {L[m].cell[a] : m \in DOMAIN L}
        /\ {hi[m] : m \in DOMAIN L}
              = {L[m].cell[a] + Turned(Machine[m].size, L[m].front)[a] : m \in DOMAIN L}
    OBVIOUS
  <2> HIDE DEF lo, hi
  <2>3. Max({hi[m] : m \in DOMAIN L}) - Min({lo[m] : m \in DOMAIN L}) \in Int
    BY <1>1, <1>3, <2>1, SpanType
  <2> QED BY <2>2, <2>3
<1>4. SizeCost(L) = IF DOMAIN L = {} THEN 0
                    ELSE Weights[1] * (wide(1) * wide(3)) + Weights[2] * (wide(1) * wide(3)) * wide(2)
  BY DEF SizeCost
<1> HIDE DEF wide
<1>5. Weights[1] \in Int /\ Weights[2] \in Int
  BY WeightsAssumption
<1>6. DOMAIN L # {} => wide(1) \in Int /\ wide(2) \in Int /\ wide(3) \in Int
  BY <1>3
<1>7. ASSUME NEW x \in Int, NEW y \in Int PROVE x * y \in Int
  OBVIOUS
<1>8. DOMAIN L # {} =>
        /\ Weights[1] * (wide(1) * wide(3)) \in Int
        /\ Weights[2] * (wide(1) * wide(3)) * wide(2) \in Int
  <2> SUFFICES ASSUME DOMAIN L # {}
               PROVE  /\ Weights[1] * (wide(1) * wide(3)) \in Int
                      /\ Weights[2] * (wide(1) * wide(3)) * wide(2) \in Int
    OBVIOUS
  <2>1. wide(1) * wide(3) \in Int
    BY <1>6, <1>7
  <2>2. Weights[1] * (wide(1) * wide(3)) \in Int /\ Weights[2] * (wide(1) * wide(3)) \in Int
    BY <1>5, <1>7, <2>1
  <2> QED BY <1>6, <1>7, <2>2
<1> QED BY <1>4, <1>8

(* The wires, and the ends of each, are finitely many.                     *)
LEMMA WiresFinite ==
  ASSUME line \in Lines
  PROVE  IsFiniteSet(Wires) /\ \A w \in Wires : IsFiniteSet(WireEnds(w))
<1> DEFINE nets == {k \in DOMAIN Nets : Nets[k].com # "power" /\ ~RidesMe(Nets[k])}
           mes == {k \in DOMAIN Networks : Cardinality(NetworkMachines(k)) > 1}
<1>1. IsFiniteSet(nets) /\ IsFiniteSet(mes)
  BY ShapeFacts, FS_Subset
<1>2. Wires = {<<"net", i>> : i \in nets} \cup {<<"me", i>> : i \in mes}
  BY DEF Wires
<1> HIDE DEF mes
<1>3. IsFiniteSet({<<"net", i>> : i \in nets})
  <2>1. [i \in nets |-> <<"net", i>>] \in Surjection(nets, {<<"net", i>> : i \in nets})
    BY DEF Surjection
  <2> QED BY <1>1, <2>1, FS_Surjection
<1>4. IsFiniteSet({<<"me", i>> : i \in mes})
  <2>1. [i \in mes |-> <<"me", i>>] \in Surjection(mes, {<<"me", i>> : i \in mes})
    BY DEF Surjection
  <2> QED BY <1>1, <2>1, FS_Surjection
<1>5. ASSUME NEW i \in nets PROVE IsFiniteSet(WireEnds(<<"net", i>>))
  <2> DEFINE S == DOMAIN Nets[i].ends
             T == {<<j, Nets[i].ends[j][1]>> : j \in S}
  <2>1. IsFiniteSet(S)
    BY ShapeFacts
  <2>2. [j \in S |-> <<j, Nets[i].ends[j][1]>>] \in Surjection(S, T)
    BY DEF Surjection
  <2>3. WireEnds(<<"net", i>>) = T
    BY DEF WireEnds
  <2> HIDE DEF S, T
  <2> QED BY <2>1, <2>2, <2>3, FS_Surjection
<1>6. ASSUME NEW i \in mes PROVE IsFiniteSet(WireEnds(<<"me", i>>))
  <2> DEFINE S == NetworkMachines(i)
             T == {<<0, m>> : m \in S}
  <2>1. IsFiniteSet(S)
    BY LineFacts, FS_Subset DEF NetworkMachines
  <2>2. [m \in S |-> <<0, m>>] \in Surjection(S, T)
    BY DEF Surjection
  <2>3. WireEnds(<<"me", i>>) = T
    BY DEF WireEnds
  <2> HIDE DEF S, T
  <2> QED BY <2>1, <2>2, <2>3, FS_Surjection
<1> HIDE DEF nets
<1>7. IsFiniteSet(Wires)
  BY <1>2, <1>3, <1>4, FS_Union
<1>8. ASSUME NEW w \in Wires PROVE IsFiniteSet(WireEnds(w))
  BY <1>2, <1>5, <1>6
<1> QED BY <1>7, <1>8

LEMMA CostType ==
  ASSUME line \in Lines, NEW L, Partial(L)
  PROVE  Cost(L) \in Int
<1> DEFINE lengths == [w \in Wires |-> HalfPerimeter(w, L)]
           ejecting == {i \in DirectNets : Ejects(i, L)}
<1>1. Total(lengths) \in Int
  <2>1. IsFiniteSet(DOMAIN lengths) /\ \A w \in DOMAIN lengths : lengths[w] \in Int
    BY WiresFinite, PerimeterType
  <2> HIDE DEF lengths
  <2> QED BY <2>1, TotalType
<1>2. Cardinality(ejecting) \in Int
  <2>1. ejecting \in SUBSET DOMAIN Nets
    BY DEF DirectNets
  <2> HIDE DEF ejecting
  <2> QED BY <2>1, ShapeFacts, FS_Subset, FS_CardinalityType
<1>3. FaceShortfall(L, UNION {DirectEnds(i) : i \in ejecting}) \in Int
  BY ShortfallType
<1>4. Cost(L) = WireWeight * Total(lengths) + SizeCost(L)
                  + (ShortWeight * FaceShortfall(L, UNION {DirectEnds(i) : i \in ejecting})
                       - AutoWeight * Cardinality(ejecting))
  BY DEF Cost, FaceCost
<1>5. SizeCost(L) \in Int
  BY SizeType
<1> HIDE DEF lengths, ejecting
<1> QED BY <1>1, <1>2, <1>3, <1>4, <1>5 DEF WireWeight, ShortWeight, AutoWeight

(* What putting a unit back adds, its rewards apart.                       *)
LEMMA GrowthType ==
  ASSUME line \in Lines, NEW u, NEW with, Partial(with), NEW b, Partial(b.at)
  PROVE  Growth(u, with, b) \in Int
<1> DEFINE lengths == [w \in Wires |-> Ties(u, w) * HalfPerimeter(w, with)]
<1>1. ASSUME NEW w \in Wires PROVE Ties(u, w) \in Int
  <2> DEFINE n == Cardinality({e \in WireEnds(w) : e[2] \in Range(u)})
  <2>1. n \in Int
    <3>1. {e \in WireEnds(w) : e[2] \in Range(u)} \in SUBSET WireEnds(w)
      OBVIOUS
    <3> QED BY <3>1, WiresFinite, FS_Subset, FS_CardinalityType
  <2>2. Ties(u, w) = IF n > 0 /\ Len(u) > 1 THEN 1 ELSE n
    BY DEF Ties
  <2> HIDE DEF n
  <2> QED BY <2>1, <2>2
<1>2. Total(lengths) \in Int
  <2>1. ASSUME NEW w \in Wires PROVE lengths[w] \in Int
    <3>1. Ties(u, w) \in Int /\ HalfPerimeter(w, with) \in Int
      BY <1>1, PerimeterType
    <3>2. lengths[w] = Ties(u, w) * HalfPerimeter(w, with)
      OBVIOUS
    <3> HIDE DEF lengths
    <3> QED BY <3>1, <3>2
  <2>2. IsFiniteSet(DOMAIN lengths) /\ DOMAIN lengths = Wires
    BY WiresFinite
  <2> HIDE DEF lengths
  <2> QED BY <2>1, <2>2, TotalType
<1>3. SizeCost(with) \in Int /\ SizeCost(b.at) \in Int
  BY SizeType
<1>4. Growth(u, with, b) = WireWeight * Total(lengths)
                             + (IF b.at = <<>> THEN 0 ELSE SizeCost(with) - SizeCost(b.at))
  BY DEF Growth
<1> HIDE DEF lengths
<1> QED BY <1>2, <1>3, <1>4 DEF WireWeight

(* What a unit may earn is bounded by the nets it touches.                 *)
LEMMA EarnedIs ==
  ASSUME line \in Lines, NEW u, NEW with, NEW b
  PROVE  /\ Earned(u, with, b) \in Nat /\ Cardinality(Touching(u)) \in Nat
         /\ Earned(u, with, b) <= Cardinality(Touching(u))
<1> DEFINE T == Touching(u)
           S == {i \in T : /\ \E e \in DirectEnds(i) : e[1] \in DOMAIN b.at
                           /\ Ejects(i, with)}
<1>1. T \in SUBSET DOMAIN Nets
  BY DEF Touching, DirectNets
<1>2. Earned(u, with, b) = Cardinality(S) /\ S \in SUBSET T
  BY DEF Earned
<1> HIDE DEF S, T
<1>3. IsFiniteSet(T)
  BY <1>1, ShapeFacts, FS_Subset
<1>4. IsFiniteSet(S) /\ Cardinality(S) <= Cardinality(T)
  BY <1>2, <1>3, FS_Subset
<1> QED BY <1>2, <1>3, <1>4, FS_CardinalityType DEF T

(* A score stands in for the full one: it is the full one below the bound, *)
(* and no better than the bound otherwise.                                 *)
LEMMA ScoreIs ==
  ASSUME line \in Lines, NEW u, NEW with, Partial(with), NEW b, Partial(b.at),
         NEW bound \in Int, bound <= Unbounded
  PROVE  /\ ScoreWith(u, with, b, bound) \in Int
         /\ ScoreWith(u, with, b, bound) < bound <=> ScoreWith(u, with, b, Unbounded) < bound
         /\ ScoreWith(u, with, b, bound) < bound =>
               ScoreWith(u, with, b, bound) = ScoreWith(u, with, b, Unbounded)
<1> DEFINE rest == Growth(u, with, b)
           won == Earned(u, with, b)
           most == Cardinality(Touching(u))
<1>1. rest \in Int /\ won \in Nat /\ most \in Nat /\ won <= most
  BY GrowthType, EarnedIs
<1>2. \A m \in Int : ScoreWith(u, with, b, m) = IF rest - 1200 * most >= m THEN 1000000000 ELSE rest - 1200 * won
  BY DEF ScoreWith, Score, AutoWeight, Unbounded
<1> HIDE DEF rest, won, most
<1>3. /\ ScoreWith(u, with, b, bound)
            = IF rest - 1200 * most >= bound THEN 1000000000 ELSE rest - 1200 * won
      /\ ScoreWith(u, with, b, Unbounded)
            = IF rest - 1200 * most >= 1000000000 THEN 1000000000 ELSE rest - 1200 * won
      /\ bound <= 1000000000
  BY <1>2 DEF Unbounded
<1>4. rest - 1200 * won >= rest - 1200 * most /\ rest - 1200 * won \in Int /\ rest - 1200 * most \in Int
  BY <1>1
<1> QED BY <1>3, <1>4
-----------------------------------------------------------------------------
(* Repetitions.                                                            *)

(* What n steps within S may record, from a base.                          *)
Runs(n, S, base, step) == {g \in [0 .. n -> S] : g[0] = base /\ \A k \in 1 .. n : g[k] = step[<<k, g[k - 1]>>]}

(* A step that stays in S can be repeated.                                 *)
LEMMA Iterates ==
  ASSUME NEW n \in Nat, NEW S, NEW base \in S, NEW step \in [(1 .. n) \X S -> S]
  PROVE  \E g : g \in Runs(n, S, base, step)
<1> DEFINE Run(m) == {g \in [0 .. m -> S] : g[0] = base /\ \A k \in 1 .. m : g[k] = step[<<k, g[k - 1]>>]}
           T == {m \in 0 .. n : Run(m) # {}}
<1>1. 0 \in T
  <2> DEFINE g == [k \in 0 .. 0 |-> base]
  <2>1. g \in Run(0)
    OBVIOUS
  <2> HIDE DEF Run
  <2> QED BY <2>1
<1>2. \A m \in 0 .. n - 1 : m \in T => m + 1 \in T
  <2> SUFFICES ASSUME NEW m \in 0 .. n - 1, NEW g \in Run(m) PROVE Run(m + 1) # {}
    OBVIOUS
  <2> DEFINE h == [k \in 0 .. m + 1 |-> IF k = m + 1 THEN step[<<m + 1, g[m]>>] ELSE g[k]]
  <2>1. m \in Nat /\ m + 1 \in 1 .. n
    OBVIOUS
  <2>2. /\ \A k \in 0 .. m : g[k] \in S /\ k # m + 1
        /\ g[0] = base /\ \A k \in 1 .. m : g[k] = step[<<k, g[k - 1]>>]
    BY <2>1
  <2>3. step[<<m + 1, g[m]>>] \in S
    <3>1. g[m] \in S
      BY <2>1, <2>2
    <3> QED BY <2>1, <3>1
  <2>4. \A k \in 0 .. m + 1 : k = m + 1 \/ k \in 0 .. m
    BY <2>1
  <2>5. h \in [0 .. m + 1 -> S]
    BY <2>2, <2>3, <2>4
  <2>6. \A k \in 0 .. m : h[k] = g[k]
    BY <2>1, <2>2
  <2>7. h[m + 1] = step[<<m + 1, g[m]>>]
    BY <2>1
  <2> HIDE DEF h
  <2>8. h[0] = base
    BY <2>1, <2>2, <2>6
  <2>9. ASSUME NEW k \in 1 .. m + 1 PROVE h[k] = step[<<k, h[k - 1]>>]
    <3>1. CASE k = m + 1
      <4>1. k - 1 = m /\ m \in 0 .. m
        BY <2>1, <3>1
      <4> QED BY <2>6, <2>7, <3>1, <4>1
    <3>2. CASE k # m + 1
      <4>1. k \in 1 .. m /\ k \in 0 .. m /\ k - 1 \in 0 .. m
        BY <2>1, <3>2
      <4> QED BY <2>2, <2>6, <4>1
    <3> QED BY <3>1, <3>2
  <2> QED BY <2>5, <2>8, <2>9
<1> HIDE DEF Run
<1>3. n \in T
  <2> HIDE DEF T
  <2>1. \A k \in 0 .. n : k \in T
    BY <1>1, <1>2, UpTo
  <2> QED BY <2>1
<1> QED BY <1>3 DEF Run, Runs

-----------------------------------------------------------------------------
(* The best spot for a unit.                                               *)

(* A build: some machines laid down, and the order they came in.           *)
IsBuild(b) == Partial(b.at) /\ b.order \in Seq(DOMAIN b.at)

(* A layout stays one of the line's machines when a unit is put down.      *)
LEMMA OverlaidPartial ==
  ASSUME line \in Lines, NEW L, Partial(L), NEW u, IsUnit(u), NEW at \in Pose
  PROVE  /\ Partial(Overlaid(L, UnitPlaced(u, at)))
         /\ DOMAIN Overlaid(L, UnitPlaced(u, at)) = Range(u) \cup DOMAIN L
<1> DEFINE N == Overlaid(L, UnitPlaced(u, at))
<1>1. UnitPlaced(u, at) \in [Range(u) -> Pose] /\ Range(u) \subseteq Machines
  BY PlacedIs, UnitFacts
<1>2. N = [m \in Range(u) \cup DOMAIN L |-> IF m \in Range(u) THEN UnitPlaced(u, at)[m] ELSE L[m]]
  BY <1>1 DEF Overlaid
<1>3. \A m \in DOMAIN L : L[m] \in Pose
  BY DEF Partial
<1>4. \A m \in Range(u) \cup DOMAIN L : N[m] \in Pose
  BY <1>1, <1>2, <1>3
<1>5. DOMAIN N = Range(u) \cup DOMAIN L /\ N = [m \in DOMAIN N |-> N[m]]
  BY <1>2
<1> HIDE DEF N
<1> QED BY <1>1, <1>4, <1>5 DEF Partial, N

(* A pose a unit fits at in a build, and what is kept of the ones tried.   *)
Spots(u, b) == {at \in Pose : Fits(u, at, b) /\ at.front \in Range(UnitFacings(u))}
Kept(u, b) == {NoSpot} \cup {[cost |-> c, at |-> at] : c \in {i \in Int : i <= Unbounded}, at \in Spots(u, b)}

LEMMA KeptIs ==
  ASSUME NEW u, NEW b, NEW best \in Kept(u, b)
  PROVE  /\ best.cost \in Int /\ best.cost <= Unbounded
         /\ best = NoSpot \/ best.at \in Spots(u, b)
BY DEF Kept, NoSpot, Unbounded

(* One more spot tried: the same one is kept when scores are cut short.    *)
LEMMA TriedIs ==
  ASSUME line \in Lines, NEW u, IsUnit(u), NEW b, IsBuild(b), NEW best \in Kept(u, b),
         NEW at \in Pose, at.front \in Range(UnitFacings(u))
  PROVE  /\ Tried(u, b, best, at, TRUE) \in Kept(u, b)
         /\ Tried(u, b, best, at, FALSE) = Tried(u, b, best, at, TRUE)
<1> DEFINE with == Overlaid(b.at, UnitPlaced(u, at))
           short == ScoreWith(u, with, b, best.cost)
           full == ScoreWith(u, with, b, Unbounded)
<1>1. Partial(with) /\ Partial(b.at)
  BY OverlaidPartial DEF IsBuild
<1>2. best.cost \in Int /\ best.cost <= Unbounded
  BY KeptIs
<1> HIDE DEF with
<1>3. /\ short \in Int /\ full \in Int
      /\ short < best.cost <=> full < best.cost
      /\ short < best.cost => short = full
  <2>1. Unbounded \in Int /\ Unbounded <= Unbounded
    BY DEF Unbounded
  <2> QED BY <1>1, <1>2, <2>1, ScoreIs
<1>4. /\ Tried(u, b, best, at, TRUE) = IF Fits(u, at, b) THEN Better(best, short, at) ELSE best
      /\ Tried(u, b, best, at, FALSE) = IF Fits(u, at, b) THEN Better(best, full, at) ELSE best
  BY DEF Tried, MarginalCost, with
<1> HIDE DEF short, full
<1>5. Better(best, short, at) = Better(best, full, at)
  BY <1>3 DEF Better
<1>6. Fits(u, at, b) => Better(best, short, at) \in Kept(u, b)
  <2>1. CASE Fits(u, at, b) /\ short < best.cost
    <3>1. short \in Int /\ short <= Unbounded
      BY <1>2, <1>3, <2>1 DEF Unbounded
    <3>2. at \in Spots(u, b)
      BY <2>1 DEF Spots
    <3> QED BY <2>1, <3>1, <3>2 DEF Better, Kept
  <2>2. CASE ~(short < best.cost)
    BY <2>2 DEF Better
  <2> QED BY <2>1, <2>2
<1>7. Tried(u, b, best, at, TRUE) \in Kept(u, b)
  <2>1. CASE Fits(u, at, b)
    BY <1>4, <1>6, <2>1
  <2>2. CASE ~Fits(u, at, b)
    BY <1>4, <2>2
  <2> QED BY <2>1, <2>2
<1>8. Tried(u, b, best, at, FALSE) = Tried(u, b, best, at, TRUE)
  <2>1. CASE Fits(u, at, b)
    BY <1>4, <1>5, <2>1
  <2>2. CASE ~Fits(u, at, b)
    BY <1>4, <2>2
  <2> QED BY <2>1, <2>2
<1> QED BY <1>7, <1>8

(* The spots tried one after the other.                                    *)
PoseTried(u, cells, k) == [cell |-> cells[1 + ((k - 1) \div 4)], front |-> UnitFacings(u)[1 + ((k - 1) % 4)]]
AfterTrying(u, b, cells, k, best, bounded) ==
  IF 1 + ((k - 1) % 4) > Len(UnitFacings(u)) THEN best
  ELSE Tried(u, b, best, PoseTried(u, cells, k), bounded)

LEMMA AfterTryingIs ==
  ASSUME line \in Lines, NEW u, IsUnit(u), NEW b, IsBuild(b), NEW best \in Kept(u, b),
         NEW cells \in Seq(Triple), NEW k \in 1 .. 4 * Len(cells)
  PROVE  /\ AfterTrying(u, b, cells, k, best, TRUE) \in Kept(u, b)
         /\ AfterTrying(u, b, cells, k, best, FALSE) = AfterTrying(u, b, cells, k, best, TRUE)
<1> DEFINE n == Len(cells)
           faces == UnitFacings(u)
           i == 1 + ((k - 1) \div 4)
           j == 1 + ((k - 1) % 4)
<1>1. n \in Nat /\ DOMAIN cells = 1 .. n /\ \A x \in 1 .. n : cells[x] \in Triple
  OBVIOUS
<1>2. i \in 1 .. n
  <2> HIDE DEF n
  <2>1. k \in 1 .. 4 * n
    BY DEF n
  <2> QED BY <1>1, <2>1
<1>3. faces \in Seq(Compass) /\ Range(faces) \subseteq Compass
  BY UnitFacts
<1>4. CASE j > Len(faces)
  BY <1>4 DEF AfterTrying
<1>5. CASE ~(j > Len(faces))
  <2>1. Len(faces) \in Nat /\ DOMAIN faces = 1 .. Len(faces) /\ \A x \in 1 .. Len(faces) : faces[x] \in Range(faces)
    <3> HIDE DEF faces
    <3> QED BY <1>3, SeqFacts
  <2>2. j \in Int /\ j >= 1
    OBVIOUS
  <2> DEFINE size == Len(faces)
             at == PoseTried(u, cells, k)
  <2>3. j \in 1 .. size
    <3>1. size \in Nat
      BY <2>1
    <3> HIDE DEF j, size
    <3> QED BY <1>5, <2>2, <3>1 DEF size
  <2>4. faces[j] \in Range(faces) /\ faces[j] \in Compass /\ cells[i] \in Triple
    BY <1>1, <1>2, <1>3, <2>1, <2>3
  <2>5. at = [cell |-> cells[i], front |-> faces[j]]
    BY DEF PoseTried
  <2> HIDE DEF i, j, faces, at
  <2>6. at \in Pose /\ at.front \in Range(UnitFacings(u))
    BY <2>4, <2>5, PoseIs DEF faces
  <2>7. \A bounded \in BOOLEAN : AfterTrying(u, b, cells, k, best, bounded) = Tried(u, b, best, at, bounded)
    BY <1>5 DEF AfterTrying, at, j, faces
  <2> QED BY <2>6, <2>7, TriedIs
<1> QED BY <1>4, <1>5

(* The best spot is one that was tried and fits, and it does not matter    *)
(* whether scores are cut short.                                           *)
LEMMA BestIs ==
  ASSUME line \in Lines, NEW u, IsUnit(u), NEW b, IsBuild(b), NEW first \in Kept(u, b),
         NEW cells \in Seq(Triple)
  PROVE  /\ BestOf(u, b, first, cells, TRUE) \in Kept(u, b)
         /\ BestOf(u, b, first, cells, FALSE) = BestOf(u, b, first, cells, TRUE)
<1> DEFINE n == 4 * Len(cells)
           S == Kept(u, b)
           step == [p \in (1 .. n) \X S |-> AfterTrying(u, b, cells, p[1], p[2], TRUE)]
           Next4(g, bounded) == [k \in 0 .. n |-> IF k = 0 THEN first
                                                 ELSE AfterTrying(u, b, cells, k, g[k - 1], bounded)]
           run(bounded) == CHOOSE g : g = Next4(g, bounded)
<1>1. n \in Nat
  OBVIOUS
<1>2. \A k \in 1 .. n : \A s \in S : step[<<k, s>>] = AfterTrying(u, b, cells, k, s, TRUE)
  OBVIOUS
<1>3. \A k \in 1 .. n : \A s \in S : /\ AfterTrying(u, b, cells, k, s, TRUE) \in S
                                     /\ AfterTrying(u, b, cells, k, s, FALSE) = AfterTrying(u, b, cells, k, s, TRUE)
  BY AfterTryingIs
<1>4. /\ BestOf(u, b, first, cells, TRUE) = run(TRUE)[n]
      /\ BestOf(u, b, first, cells, FALSE) = run(FALSE)[n]
  BY DEF BestOf, AfterTrying, PoseTried
<1> HIDE DEF n, S, step
<1>5. PICK g \in [0 .. n -> S] : g[0] = first /\ \A k \in 1 .. n : g[k] = step[<<k, g[k - 1]>>]
  <2>1. first \in S
    BY DEF S
  <2>2. step \in [(1 .. n) \X S -> S]
    BY <1>3 DEF step
  <2>3. PICK h : h \in Runs(n, S, first, step)
    BY ONLY <1>1, <2>1, <2>2, Iterates
  <2> HIDE DEF run, Next4
  <2> QED BY <2>3 DEF Runs
<1>6. \A k \in 1 .. n : k - 1 \in 0 .. n /\ k # 0
  BY <1>1
<1>7. \A k \in 0 .. n : k = 0 \/ k \in 1 .. n
  BY <1>1
<1>8. ASSUME NEW bounded \in BOOLEAN PROVE run(bounded)[n] = g[n]
  <2>1. \A k \in 1 .. n : g[k] = AfterTrying(u, b, cells, k, g[k - 1], bounded)
    <3> TAKE k \in 1 .. n
    <3>1. g[k - 1] \in S
      BY <1>5, <1>6
    <3> QED BY <1>2, <1>3, <1>5, <3>1
  <2>2. \A k \in 0 .. n : g[k] = Next4(g, bounded)[k]
    BY <1>5, <1>7, <2>1
  <2>3. g = Next4(g, bounded)
    <3>1. g = [k \in 0 .. n |-> g[k]]
      OBVIOUS
    <3> QED BY <2>2, <3>1
  <2> DEFINE h == run(bounded)
  <2>4. h = Next4(h, bounded)
    BY <2>3
  <2> HIDE DEF h
  <2>5. h[0] = first /\ \A k \in 1 .. n : h[k] = AfterTrying(u, b, cells, k, h[k - 1], bounded)
    <3>1. \A k \in 0 .. n : h[k] = IF k = 0 THEN first ELSE AfterTrying(u, b, cells, k, h[k - 1], bounded)
      BY <2>4
    <3>2. 0 \in 0 .. n /\ \A k \in 1 .. n : k \in 0 .. n /\ k # 0
      BY <1>1
    <3> QED BY <3>1, <3>2
  <2> DEFINE T == {k \in 0 .. n : h[k] = g[k]}
  <2>6. 0 \in T
    BY <1>1, <1>5, <2>5
  <2>7. \A k \in 0 .. n - 1 : k \in T => k + 1 \in T
    <3> SUFFICES ASSUME NEW k \in 0 .. n - 1, h[k] = g[k] PROVE k + 1 \in 0 .. n /\ h[k + 1] = g[k + 1]
      OBVIOUS
    <3>1. k + 1 \in 1 .. n /\ k + 1 \in 0 .. n /\ (k + 1) - 1 = k
      BY <1>1
    <3> QED BY <2>1, <2>5, <3>1
  <2>8. n \in T
    <3> HIDE DEF T
    <3>1. \A k \in 0 .. n : k \in T
      BY <1>1, <2>6, <2>7, UpTo
    <3> QED BY <1>1, <3>1
  <2> QED BY <2>8 DEF h
<1>9. g[n] \in S
  BY <1>1, <1>5
<1> QED BY <1>4, <1>8, <1>9 DEF S

(* What holds at first, and after each step when before it, holds to the   *)
(* end.                                                                    *)
LEMMA Holds ==
  ASSUME NEW n \in Nat, NEW S, NEW h, h[0] \in S, \A k \in 1 .. n : h[k - 1] \in S => h[k] \in S
  PROVE  \A k \in 0 .. n : h[k] \in S
<1> DEFINE T == {k \in 0 .. n : h[k] \in S}
<1>1. 0 \in T
  OBVIOUS
<1>2. \A k \in 0 .. n - 1 : k \in T => k + 1 \in T
  <2> SUFFICES ASSUME NEW k \in 0 .. n - 1, h[k] \in S PROVE k + 1 \in 0 .. n /\ h[k + 1] \in S
    OBVIOUS
  <2>1. k + 1 \in 1 .. n /\ k + 1 \in 0 .. n /\ (k + 1) - 1 = k
    OBVIOUS
  <2> QED BY <2>1
<1> HIDE DEF T
<1>3. \A k \in 0 .. n : k \in T
  BY <1>1, <1>2, UpTo
<1> QED BY <1>3 DEF T

-----------------------------------------------------------------------------
(* The origins beside a unit's neighbours.                                 *)

LEMMA AroundIs ==
  ASSUME NEW body, body \subseteq Triple, IsFiniteSet(body)
  PROVE  AroundBox(body) \in Seq(Triple)
<1> DEFINE before == {p \in body \X body : CellLess(p[1], p[2])}
           cells == InOrder(body, before)
           n == Len(cells)
<1>1. \A x, y \in body : <<x, y>> \in before <=> CellLess(x, y)
  OBVIOUS
<1>2. \A t \in body : t = <<t[1], t[2], t[3]>> /\ t[1] \in Int /\ t[2] \in Int /\ t[3] \in Int
  BY TripleIs
<1>3. Ordered(body, before)
  <2> HIDE DEF before
  <2>1. \A x \in body : ~CellLess(x, x)
    BY <1>2 DEF CellLess
  <2>2. \A x, y, z \in body : CellLess(x, y) /\ CellLess(y, z) => CellLess(x, z)
    BY <1>2 DEF CellLess
  <2>3. \A x, y \in body : x # y => CellLess(x, y) \/ CellLess(y, x)
    BY <1>2 DEF CellLess
  <2> QED BY <1>1, <2>1, <2>2, <2>3 DEF Ordered
<1>4. cells \in Seq(body)
  <2> HIDE DEF before
  <2> QED BY <1>3, InOrderLists
<1>5. AroundBox(body) = [k \in 1 .. 6 * n |-> Step(cells[1 + ((k - 1) \div 6)], FaceOrder[1 + ((k - 1) % 6)])]
  BY DEF AroundBox
<1> HIDE DEF before, cells
<1>6. n \in Nat /\ \A k \in 1 .. n : cells[k] \in Triple
  BY <1>4
<1> HIDE DEF n
<1>7. 6 * n \in Nat
  BY <1>6
<1>8. \A k \in 1 .. 6 * n : 1 + ((k - 1) \div 6) \in 1 .. n /\ 1 + ((k - 1) % 6) \in 1 .. 6
  BY <1>6
<1>9. \A j \in 1 .. 6 : FaceOrder[j] \in Faces
  BY DEF FaceOrder, Faces
<1>10. \A k \in 1 .. 6 * n : Step(cells[1 + ((k - 1) \div 6)], FaceOrder[1 + ((k - 1) % 6)]) \in Triple
  BY <1>6, <1>8, <1>9, StepType
<1> QED BY <1>5, <1>7, <1>10

LEMMA JoinedIs ==
  ASSUME NEW s \in Seq(Triple), NEW t \in Seq(Triple)
  PROVE  Joined(s, t) \in Seq(Triple)
<1> DEFINE new == {k \in DOMAIN t : /\ t[k] \notin Range(s) /\ InRegion(t[k], Region)
                                    /\ \A j \in 1 .. k - 1 : t[j] # t[k]}
           picks == ByKey(new, [k \in new |-> k])
           more == [k \in DOMAIN picks |-> t[picks[k]]]
<1>1. DOMAIN t = 1 .. Len(t) /\ IsFiniteSet(DOMAIN t) /\ \A i \in DOMAIN t : t[i] \in Triple
  BY SeqFacts
<1>2. new \in SUBSET DOMAIN t
  OBVIOUS
<1>3. Joined(s, t) = s \o more
  BY DEF Joined
<1> HIDE DEF new
<1>4. picks \in Seq(new)
  <2>1. IsFiniteSet(new)
    BY <1>1, <1>2, FS_Subset
  <2>2. \A k \in new : [i \in new |-> i][k] \in Int
    BY <1>1, <1>2
  <2>3. \A k, l \in new : [i \in new |-> i][k] = [i \in new |-> i][l] => k = l
    OBVIOUS
  <2> QED BY <2>1, <2>2, <2>3, ByKeyLists
<1> HIDE DEF picks
<1>5. more \in Seq(Triple)
  <2>1. DOMAIN picks = 1 .. Len(picks) /\ Len(picks) \in Nat /\ \A k \in DOMAIN picks : picks[k] \in DOMAIN t
    BY <1>2, <1>4
  <2> QED BY <1>1, <2>1
<1> HIDE DEF more
<1> QED BY <1>3, <1>5

LEMMA NeighbourOriginsAre ==
  ASSUME line \in Lines, NEW u, NEW at \in Pose, NEW b, IsBuild(b)
  PROVE  NeighbourOrigins(u, at, b) \in Seq(Triple)
<1> DEFINE related == (UNION {Related(m) : m \in Range(u)}) \ Range(u)
           after(s, m) == IF m \notin related \/ Len(s) >= MaxCandidates THEN s
                          ELSE Joined(s, AroundBox(Body(m, b.at[m])))
           n == Len(b.order)
           S == Seq(Triple)
           step == [p \in (1 .. n) \X S |-> after(p[2], b.order[p[1]])]
           Found(g) == [k \in 0 .. n |-> IF k = 0 THEN <<at.cell>> ELSE after(g[k - 1], b.order[k])]
           found == CHOOSE g : g = Found(g)
<1>1. NeighbourOrigins(u, at, b) = found[n]
  BY DEF NeighbourOrigins
<1>2. n \in Nat /\ \A k \in 1 .. n : b.order[k] \in DOMAIN b.at
  BY DEF IsBuild
<1>3. <<at.cell>> \in S
  BY PoseIs
<1>4. \A s \in S : \A m \in DOMAIN b.at : after(s, m) \in S
  <2> TAKE s \in S
  <2> TAKE m \in DOMAIN b.at
  <2>1. Body(m, b.at[m]) \subseteq Triple /\ IsFiniteSet(Body(m, b.at[m]))
    BY BodyIs DEF IsBuild
  <2>2. Joined(s, AroundBox(Body(m, b.at[m]))) \in S
    BY <2>1, AroundIs, JoinedIs
  <2> QED BY <2>2
<1> HIDE DEF related, n, after
<1>5. step \in [(1 .. n) \X S -> S]
  BY <1>2, <1>4
<1>6. \A k \in 1 .. n : \A s \in S : step[<<k, s>>] = after(s, b.order[k])
  OBVIOUS
<1> HIDE DEF S, step
<1>7. PICK g : g \in Runs(n, S, <<at.cell>>, step)
  BY ONLY <1>2, <1>3, <1>5, Iterates
<1>8. g \in [0 .. n -> S] /\ g[0] = <<at.cell>> /\ \A k \in 1 .. n : g[k] = step[<<k, g[k - 1]>>]
  BY <1>7 DEF Runs
<1>9. \A k \in 1 .. n : k - 1 \in 0 .. n /\ k # 0
  BY <1>2
<1>10. g = Found(g)
  <2>1. \A k \in 1 .. n : g[k] = after(g[k - 1], b.order[k])
    BY <1>6, <1>8, <1>9
  <2>2. \A k \in 0 .. n : k = 0 \/ k \in 1 .. n
    BY <1>2
  <2>3. \A k \in 0 .. n : g[k] = Found(g)[k]
    BY <1>8, <2>1, <2>2
  <2>4. g = [k \in 0 .. n |-> g[k]]
    BY <1>8
  <2> QED BY <2>3, <2>4
<1>11. found = Found(found)
  BY <1>10
<1> HIDE DEF found
<1>12. found[0] \in S /\ \A k \in 1 .. n : found[k - 1] \in S => found[k] \in S
  <2>1. \A k \in 0 .. n : found[k] = IF k = 0 THEN <<at.cell>> ELSE after(found[k - 1], b.order[k])
    BY <1>11
  <2>2. found[0] = <<at.cell>>
    BY <1>2, <2>1
  <2>3. \A k \in 1 .. n : found[k] = after(found[k - 1], b.order[k])
    BY <1>9, <2>1
  <2> QED BY <1>2, <1>3, <1>4, <2>2, <2>3 DEF S
<1>13. found[n] \in S
  <2>1. \A k \in 0 .. n : found[k] \in S
    BY <1>2, <1>12, Holds
  <2> QED BY <1>2, <2>1
<1> QED BY <1>1, <1>13 DEF S

(* The best spot beside the neighbours, scores cut short or not.           *)
LEMMA BesideIs ==
  ASSUME line \in Lines, NEW u, IsUnit(u), NEW at \in Pose, NEW b, IsBuild(b)
  PROVE  /\ BestBeside(u, at, b, TRUE) \in Kept(u, b)
         /\ BestBeside(u, at, b, TRUE) = BestBeside(u, at, b, FALSE)
<1>1. NeighbourOrigins(u, at, b) \in Seq(Triple)
  BY NeighbourOriginsAre
<1>2. NoSpot \in Kept(u, b)
  BY DEF Kept
<1> QED BY <1>1, <1>2, BestIs DEF BestBeside

(* What is left when some of the units are lifted.                         *)
LEMMA WithoutIs ==
  ASSUME Stands, NEW us \in SUBSET Range(units)
  PROVE  LET b == Without(MembersOf(us))
         IN /\ IsBuild(b) /\ LaidOut(Range(units) \ us, b.at)
            /\ DOMAIN b.at = MembersOf(Range(units) \ us)
            /\ MembersOf(Range(units) \ us) \cap MembersOf(us) = {}
<1> DEFINE vs == Range(units) \ us
           kept == Machines \ MembersOf(us)
           key == [m \in kept |-> CHOOSE i \in DOMAIN Order : Order[i] = m]
           b == Without(MembersOf(us))
<1>1. line \in Lines /\ MembersOf(Range(units)) = Machines /\ LaidOut(Range(units), current)
  BY DEF Stands
<1>2. \A u, v \in Range(units) : u # v => Range(u) \cap Range(v) = {}
  BY <1>1 DEF LaidOut
<1>3. MembersOf(vs) \cap MembersOf(us) = {}
  BY <1>2 DEF MembersOf
<1>4. MembersOf(vs) = kept
  <2>1. MembersOf(vs) \subseteq kept
    BY <1>1, <1>3 DEF MembersOf
  <2>2. kept \subseteq MembersOf(vs)
    BY <1>1 DEF MembersOf
  <2> QED BY <2>1, <2>2
<1>5. b = [at |-> [m \in kept |-> current[m]], order |-> ByKey(kept, key)]
  BY Zenon DEF Without
<1>6. b.at = PartOf(vs, current)
  BY <1>4, <1>5 DEF PartOf, Restrict
<1>7. LaidOut(vs, b.at) /\ DOMAIN b.at = MembersOf(vs)
  BY <1>1, <1>6, LaidPart
<1>8. Partial(b.at)
  <2>1. b.at \in [MembersOf(vs) -> Pose] /\ MembersOf(vs) \subseteq Machines
    BY <1>4, <1>7 DEF LaidOut
  <2> QED BY <1>7, <2>1 DEF Partial
<1>9. ByKey(kept, key) \in Seq(kept)
  <2>1. /\ Listed(Order) /\ Range(Order) = Machines
    BY <1>1, SeedAssumption, LineFacts DEF Order, Machine
  <2>2. /\ DOMAIN Order = 1 .. Len(Order) /\ \A m \in Machines : \E i \in DOMAIN Order : Order[i] = m
    BY <2>1, SeqFacts DEF Listed
  <2>3. \A m \in kept : key[m] \in Int /\ Order[key[m]] = m
    BY <2>2
  <2>4. IsFiniteSet(kept)
    BY <1>1, LineFacts, FS_Subset
  <2>5. \A k, l \in kept : key[k] = key[l] => k = l
    BY <2>3
  <2> HIDE DEF kept, key
  <2> QED BY <2>3, <2>4, <2>5, ByKeyLists
<1>10. b.order \in Seq(DOMAIN b.at)
  BY <1>4, <1>5, <1>7, <1>9
<1> QED BY <1>3, <1>7, <1>8, <1>10 DEF IsBuild

(* Scores cut short change no choice.                                      *)
LEMMA EarlyOutStands ==
  ASSUME Stands
  PROVE  EarlyOutChangesNothing
<1> SUFFICES ASSUME NEW u \in Range(units)
             PROVE  BestBeside(u, UnitPose(u, current), Without(Range(u)), TRUE)
                      = BestBeside(u, UnitPose(u, current), Without(Range(u)), FALSE)
  BY DEF EarlyOutChangesNothing
<1>1. line \in Lines /\ IsUnit(u) /\ UnitPose(u, current) \in Pose
  BY StandsUnits DEF Stands, Sound
<1>2. MembersOf({u}) = Range(u)
  BY DEF MembersOf
<1>3. IsBuild(Without(Range(u)))
  BY <1>2, WithoutIs
<1> QED BY <1>1, <1>3, BesideIs

-----------------------------------------------------------------------------
(* Insertions.                                                             *)

(* Wherever a unit goes back, it fits.                                     *)
LEMMA InsertionsAre ==
  ASSUME line \in Lines, NEW u, IsUnit(u), NEW at \in Pose, NEW b, IsBuild(b)
  PROVE  Insertions(u, at, b) \subseteq Spots(u, b)
<1> DEFINE best == BestBeside(u, at, b, TRUE)
<1>1. best \in Kept(u, b)
  BY BesideIs
<1> HIDE DEF best
<1>2. \A spot \in WithDraws(u, at, b, best) : spot \in Kept(u, b)
  <2>1. RandomOrigins(u, at.front) \subseteq Triple
    BY OriginsAre, PoseIs
  <2>2. \A c \in Triple : BestOf(u, b, best, <<c>>, TRUE) \in Kept(u, b)
    <3> TAKE c \in Triple
    <3>1. <<c>> \in Seq(Triple)
      OBVIOUS
    <3> QED BY <1>1, <3>1, BestIs
  <2> QED BY <1>1, <2>1, <2>2 DEF WithDraws
<1>3. FirstFit(u, b) \subseteq Spots(u, b)
  <2>1. Range(ScanFacings(u)) \subseteq Range(UnitFacings(u)) /\ Range(UnitFacings(u)) \subseteq Compass
    <3>1. DOMAIN <<UnitFacings(u)[1]>> = {1} /\ <<UnitFacings(u)[1]>>[1] = UnitFacings(u)[1]
      OBVIOUS
    <3>2. 1 \in DOMAIN UnitFacings(u)
      BY UnitFacts
    <3>3. UnitFacings(u)[1] \in Range(UnitFacings(u))
      BY <3>2 DEF Range
    <3>4. Range(<<UnitFacings(u)[1]>>) = {UnitFacings(u)[1]}
      BY <3>1 DEF Range
    <3> QED BY <3>3, <3>4, UnitFacts DEF ScanFacings
  <2>2. \A x \in FitsAnywhere(u, b, ScanFacings(u)) : x \in Spots(u, b)
    <3> TAKE x \in FitsAnywhere(u, b, ScanFacings(u))
    <3>1. /\ x = [cell |-> x.cell, front |-> x.front] /\ x.front \in Range(ScanFacings(u)) /\ Fits(u, x, b)
          /\ x.cell \in (0 .. Region[1] - 1) \X (0 .. Region[2] - 1) \X (0 .. Region[3] - 1)
      BY DEF FitsAnywhere
    <3>2. x.cell \in Triple
      <4>1. Region[1] \in Int /\ Region[2] \in Int /\ Region[3] \in Int
        BY LineFacts, TripleIs
      <4>2. \A k, l, m \in Int : (0 .. k - 1) \X (0 .. l - 1) \X (0 .. m - 1) \subseteq Triple
        BY DEF Triple
      <4> QED BY <3>1, <4>1, <4>2
    <3> QED BY <2>1, <3>1, <3>2, PoseIs DEF Spots
  <2> QED BY <2>2 DEF FirstFit, FirstScanned
<1>4. ASSUME NEW spot \in WithDraws(u, at, b, best), spot # NoSpot PROVE spot.at \in Spots(u, b)
  BY <1>2, <1>4, KeptIs
<1>5. Insertions(u, at, b) = UNION {IF spot = NoSpot THEN FirstFit(u, b) ELSE {spot.at} :
                                      spot \in WithDraws(u, at, b, best)}
  BY DEF Insertions, best
<1> QED BY <1>3, <1>4, <1>5

(* A spot that fits is sound, off what is laid.                            *)
LEMMA SpotIs ==
  ASSUME NEW u, NEW b, NEW at \in Spots(u, b)
  PROVE  Sound(u, at) /\ UnitCells(u, at) \cap Covered(b.at) = {}
BY DEF Spots, Fits, Clear, Sound

-----------------------------------------------------------------------------
(* Putting units back.                                                     *)

(* The builds there are, and the ones that lay out just these units.       *)
Builds == {NoBuild} \cup {b \in [at : UNION {[D -> Pose] : D \in SUBSET Machines}, order : Seq(Machines)] : IsBuild(b)}
LaysOut(us, b) == b = NoBuild \/ LaidOut(us, b.at)

LEMMA BuildsAre ==
  /\ NoBuild \in Builds
  /\ \A b \in Builds : b = NoBuild \/ IsBuild(b)
  /\ \A at, order : IsBuild([at |-> at, order |-> order]) => [at |-> at, order |-> order] \in Builds
<1>1. \A at, order : IsBuild([at |-> at, order |-> order]) => [at |-> at, order |-> order] \in Builds
  <2> TAKE at, order
  <2> DEFINE b == [at |-> at, order |-> order]
  <2>1. HAVE IsBuild(b)
  <2>2. b.at = at /\ b.order = order
    OBVIOUS
  <2>3. at \in [DOMAIN at -> Pose] /\ DOMAIN at \in SUBSET Machines /\ order \in Seq(DOMAIN at)
    BY <2>1, <2>2 DEF IsBuild, Partial
  <2>4. order \in Seq(Machines)
    BY <2>3
  <2>5. b \in [at : UNION {[D -> Pose] : D \in SUBSET Machines}, order : Seq(Machines)]
    BY <2>3, <2>4
  <2> QED BY <2>1, <2>5 DEF Builds
<1> QED BY <1>1 DEF Builds

(* One more unit, where it fits or not at all.                             *)
LEMMA WithUnitIs ==
  ASSUME line \in Lines, NEW u, IsUnit(u), UnitPose(u, current) \in Pose, NEW b \in Builds,
         NEW c \in WithUnit(u, b)
  PROVE  /\ c \in Builds
         /\ \A us : LaysOut(us, b) /\ Range(u) \cap MembersOf(us) = {} => LaysOut(us \cup {u}, c)
<1> DEFINE spots == Insertions(u, UnitPose(u, current), b)
<1>1. CASE c = NoBuild
  BY <1>1, BuildsAre DEF LaysOut
<1>2. CASE c # NoBuild
  <2>1. b # NoBuild /\ IsBuild(b)
    BY <1>2, BuildsAre DEF WithUnit
  <2>2. PICK at \in spots : c = [at |-> Overlaid(b.at, UnitPlaced(u, at)), order |-> b.order \o u]
    BY <1>2 DEF WithUnit
  <2>3. at \in Spots(u, b)
    BY <2>1, <2>2, InsertionsAre
  <2> HIDE DEF spots
  <2> DEFINE L == Overlaid(b.at, UnitPlaced(u, at))
  <2>4. at \in Pose /\ Sound(u, at) /\ UnitCells(u, at) \cap Covered(b.at) = {}
    BY <2>3, SpotIs DEF Sound
  <2>5. Partial(L) /\ DOMAIN L = Range(u) \cup DOMAIN b.at
    BY <2>1, <2>4, OverlaidPartial DEF IsBuild
  <2>6. c.at = L /\ c.order = b.order \o u
    BY <2>2
  <2> HIDE DEF L
  <2>7. b.order \o u \in Seq(DOMAIN L)
    <3>1. b.order \in Seq(DOMAIN L)
      BY <2>1, <2>5 DEF IsBuild
    <3>2. u \in Seq(DOMAIN L)
      <4>1. Len(u) \in Nat /\ DOMAIN u = 1 .. Len(u) /\ \A j \in DOMAIN u : u[j] \in DOMAIN L
        BY <2>5, UnitFacts
      <4>2. u \in Seq(Machines)
        BY DEF IsUnit
      <4> QED BY <4>1, <4>2
    <3> QED BY <3>1, <3>2
  <2>8. c \in Builds
    BY <2>2, <2>5, <2>6, <2>7, BuildsAre DEF IsBuild, L
  <2>9. ASSUME NEW us, LaysOut(us, b), Range(u) \cap MembersOf(us) = {} PROVE LaysOut(us \cup {u}, c)
    <3>1. LaidOut(us, b.at)
      BY <2>1, <2>9 DEF LaysOut
    <3>2. LaidOut(us \cup {u}, L)
      BY <2>4, <2>9, <3>1, LaidPut DEF L
    <3> QED BY <2>6, <3>2 DEF LaysOut
  <2> QED BY <2>8, <2>9
<1> QED BY <1>1, <1>2

(* Putting units back one after the other.                                 *)
LEMMA RecreateIs ==
  ASSUME line \in Lines, NEW us, NEW b \in Builds, LaysOut(us, b),
         NEW todo, Listed(todo),
         \A j \in DOMAIN todo : IsUnit(todo[j]) /\ UnitPose(todo[j], current) \in Pose
                                  /\ Range(todo[j]) \cap MembersOf(us) = {},
         \A i, j \in DOMAIN todo : i # j => Range(todo[i]) \cap Range(todo[j]) = {},
         NEW next \in Recreate(todo, b)
  PROVE  next = NoMove \/ LaidOut(us \cup Range(todo), next)
<1> DEFINE n == Len(todo)
           S == SUBSET Builds
           after(k, built) == UNION {WithUnit(todo[k], c) : c \in built}
           step == [p \in (1 .. n) \X S |-> after(p[1], p[2])]
           All(g) == [k \in 0 .. n |-> IF k = 0 THEN {b} ELSE after(k, g[k - 1])]
           builds == CHOOSE g : g = All(g)
           upTo(k) == us \cup {todo[j] : j \in 1 .. k}
<1>1. Recreate(todo, b) = {IF c = NoBuild THEN NoMove ELSE c.at : c \in builds[n]}
  BY DEF Recreate
<1>2. n \in Nat /\ DOMAIN todo = 1 .. n
  BY ListedFinite
<1>3. \A k \in 1 .. n : \A built \in S : after(k, built) \in S
  BY <1>2, WithUnitIs
<1>4. {b} \in S
  OBVIOUS
<1> HIDE DEF n, after
<1>5. step \in [(1 .. n) \X S -> S]
  BY <1>3
<1>6. \A k \in 1 .. n : \A s \in S : step[<<k, s>>] = after(k, s)
  OBVIOUS
<1> HIDE DEF S, step
<1>7. PICK g : g \in Runs(n, S, {b}, step)
  BY ONLY <1>2, <1>4, <1>5, Iterates
<1>8. g \in [0 .. n -> S] /\ g[0] = {b} /\ \A k \in 1 .. n : g[k] = step[<<k, g[k - 1]>>]
  BY <1>7 DEF Runs
<1>9. \A k \in 1 .. n : k - 1 \in 0 .. n /\ k # 0
  BY <1>2
<1>10. g = All(g)
  <2>1. \A k \in 1 .. n : g[k] = after(k, g[k - 1])
    BY <1>6, <1>8, <1>9
  <2>2. \A k \in 0 .. n : k = 0 \/ k \in 1 .. n
    BY <1>2
  <2>3. \A k \in 0 .. n : g[k] = All(g)[k]
    BY <1>8, <2>1, <2>2
  <2>4. g = [k \in 0 .. n |-> g[k]]
    BY <1>8
  <2> QED BY <2>3, <2>4
<1>11. builds = All(builds)
  BY <1>10
<1> HIDE DEF builds
<1>12. builds[0] = {b} /\ \A k \in 1 .. n : builds[k] = after(k, builds[k - 1])
  <2>1. \A k \in 0 .. n : builds[k] = IF k = 0 THEN {b} ELSE after(k, builds[k - 1])
    BY <1>11
  <2> QED BY <1>2, <1>9, <2>1
<1> DEFINE T == {k \in 0 .. n : \A c \in builds[k] : c \in Builds /\ LaysOut(upTo(k), c)}
<1>13. 0 \in T
  <2>1. upTo(0) = us
    OBVIOUS
  <2>2. \A c \in builds[0] : c \in Builds /\ LaysOut(us, c)
    BY <1>12
  <2> HIDE DEF upTo
  <2> QED BY <1>2, <2>1, <2>2
<1>14. \A k \in 0 .. n - 1 : k \in T => k + 1 \in T
  <2> SUFFICES ASSUME NEW k \in 0 .. n - 1, \A c \in builds[k] : c \in Builds /\ LaysOut(upTo(k), c)
               PROVE  k + 1 \in 0 .. n /\ \A c \in builds[k + 1] : c \in Builds /\ LaysOut(upTo(k + 1), c)
    OBVIOUS
  <2>1. k \in Nat /\ k + 1 \in 1 .. n /\ k + 1 \in 0 .. n /\ (k + 1) - 1 = k
    BY <1>2
  <2>2. builds[k + 1] = UNION {WithUnit(todo[k + 1], c) : c \in builds[k]}
    BY <1>12, <2>1 DEF after
  <2> DEFINE u == todo[k + 1]
  <2>3. IsUnit(u) /\ UnitPose(u, current) \in Pose
    BY <1>2, <2>1
  <2>4. upTo(k + 1) = upTo(k) \cup {u}
    <3>1. \A j : j \in 1 .. k + 1 <=> j \in 1 .. k \/ j = k + 1
      BY <2>1
    <3> QED BY <3>1
  <2>5. Range(u) \cap MembersOf(upTo(k)) = {}
    <3>1. \A j \in 1 .. k : j \in DOMAIN todo /\ j # k + 1
      BY <1>2, <2>1
    <3>2. \A j \in 1 .. k : Range(u) \cap Range(todo[j]) = {}
      BY <1>2, <2>1, <3>1
    <3>3. Range(u) \cap MembersOf(us) = {}
      BY <1>2, <2>1
    <3> QED BY <3>2, <3>3 DEF MembersOf
  <2> HIDE DEF u, upTo
  <2>6. ASSUME NEW c \in builds[k], NEW d \in WithUnit(u, c)
        PROVE  d \in Builds /\ LaysOut(upTo(k + 1), d)
    <3>1. c \in Builds /\ LaysOut(upTo(k), c)
      OBVIOUS
    <3> QED BY <2>3, <2>4, <2>5, <2>6, <3>1, WithUnitIs
  <2>7. \A d \in builds[k + 1] : \E c \in builds[k] : d \in WithUnit(u, c)
    BY <2>2 DEF u
  <2>8. \A d \in builds[k + 1] : d \in Builds /\ LaysOut(upTo(k + 1), d)
    BY <2>6, <2>7
  <2> QED BY <2>1, <2>8
<1>15. n \in T
  <2> HIDE DEF T
  <2>1. \A k \in 0 .. n : k \in T
    BY <1>2, <1>13, <1>14, UpTo
  <2> QED BY <1>2, <2>1
<1>16. upTo(n) = us \cup Range(todo)
  BY <1>2 DEF Range
<1>17. PICK c \in builds[n] : next = IF c = NoBuild THEN NoMove ELSE c.at
  BY <1>1
<1>18. LaysOut(us \cup Range(todo), c)
  BY <1>15, <1>16
<1> QED BY <1>17, <1>18 DEF LaysOut

(* A cluster is some of the units.                                         *)
Growths == [cluster : SUBSET DOMAIN units, frontier : Seq(DOMAIN units)]

LEMMA GrowIs ==
  ASSUME IsFiniteSet(DOMAIN units), NEW k, NEW g \in Growths
  PROVE  Grow(g, k) \subseteq Growths
<1> DEFINE D == DOMAIN units
           room == k - Cardinality(g.cluster)
           new == Beside(Head(g.frontier)) \ g.cluster
<1>1. g.cluster \in SUBSET D /\ g.frontier \in Seq(D) /\ new \in SUBSET D
  BY DEF Growths, Beside
<1>2. Grow(g, k) = IF room = 0 \/ g.frontier = <<>> THEN {g}
                   ELSE IF Cardinality(new) >= room
                        THEN {[cluster |-> g.cluster \cup some, frontier |-> <<>>] : some \in kSubset(room, new)}
                   ELSE {[cluster |-> g.cluster \cup new, frontier |-> Tail(g.frontier) \o s] : s \in SetToSeqs(new)}
  BY DEF Grow
<1> HIDE DEF room, new
<1>3. \A some \in kSubset(room, new) : [cluster |-> g.cluster \cup some, frontier |-> <<>>] \in Growths
  BY <1>1 DEF kSubset, Growths
<1>4. g.frontier # <<>> =>
        \A s \in SetToSeqs(new) : [cluster |-> g.cluster \cup new, frontier |-> Tail(g.frontier) \o s] \in Growths
  <2> SUFFICES ASSUME g.frontier # <<>>, NEW s \in SetToSeqs(new)
               PROVE  [cluster |-> g.cluster \cup new, frontier |-> Tail(g.frontier) \o s] \in Growths
    OBVIOUS
  <2> DEFINE size == Cardinality(new)
  <2>1. size \in Nat
    BY <1>1, FS_Subset, FS_CardinalityType
  <2>2. s \in [1 .. size -> new]
    BY DEF SetToSeqs
  <2> HIDE DEF size
  <2>3. s \in Seq(D)
    BY <1>1, <2>1, <2>2
  <2>4. Tail(g.frontier) \in Seq(D)
    <3> DEFINE f == g.frontier
    <3>1. f \in Seq(D) /\ f # <<>>
      BY <1>1
    <3> HIDE DEF f, D
    <3>2. Tail(f) \in Seq(D)
      BY <3>1
    <3> QED BY <3>2 DEF f
  <2>5. Tail(g.frontier) \o s \in Seq(D)
    BY <2>3, <2>4
  <2> QED BY <1>1, <2>5 DEF Growths
<1> QED BY <1>2, <1>3, <1>4

LEMMA GrownIs ==
  ASSUME IsFiniteSet(DOMAIN units), Len(units) \in Nat, NEW i \in DOMAIN units, NEW k
  PROVE  Grown(i, k) \subseteq SUBSET DOMAIN units
<1> DEFINE n == Len(units)
           S == SUBSET Growths
           seed == {[cluster |-> {i}, frontier |-> <<i>>]}
           after(gs) == UNION {Grow(g, k) : g \in gs}
           step == [p \in (1 .. n) \X S |-> after(p[2])]
           All(h) == [x \in 0 .. n |-> IF x = 0 THEN seed ELSE after(h[x - 1])]
           grown == CHOOSE h : h = All(h)
<1>1. Grown(i, k) = {g.cluster : g \in grown[n]}
  BY DEF Grown
<1>2. n \in Nat
  OBVIOUS
<1>3. \A gs \in S : after(gs) \in S
  BY GrowIs
<1>4. seed \in S
  BY DEF Growths
<1> HIDE DEF n, after, seed
<1>5. step \in [(1 .. n) \X S -> S]
  BY <1>3
<1>6. \A x \in 1 .. n : \A s \in S : step[<<x, s>>] = after(s)
  OBVIOUS
<1> HIDE DEF S, step
<1>7. PICK h : h \in Runs(n, S, seed, step)
  BY ONLY <1>2, <1>4, <1>5, Iterates
<1>8. h \in [0 .. n -> S] /\ h[0] = seed /\ \A x \in 1 .. n : h[x] = step[<<x, h[x - 1]>>]
  BY <1>7 DEF Runs
<1>9. \A x \in 1 .. n : x - 1 \in 0 .. n /\ x # 0
  BY <1>2
<1>10. h = All(h)
  <2>1. \A x \in 1 .. n : h[x] = after(h[x - 1])
    BY <1>6, <1>8, <1>9
  <2>2. \A x \in 0 .. n : x = 0 \/ x \in 1 .. n
    BY <1>2
  <2>3. \A x \in 0 .. n : h[x] = All(h)[x]
    BY <1>8, <2>1, <2>2
  <2>4. h = [x \in 0 .. n |-> h[x]]
    BY <1>8
  <2> QED BY <2>3, <2>4
<1>11. grown = All(grown)
  BY <1>10
<1> HIDE DEF grown
<1>12. grown[0] = seed /\ \A x \in 1 .. n : grown[x] = after(grown[x - 1])
  <2>1. \A x \in 0 .. n : grown[x] = IF x = 0 THEN seed ELSE after(grown[x - 1])
    BY <1>11
  <2> QED BY <1>2, <1>9, <2>1
<1>13. grown[n] \in S
  <2>1. \A x \in 1 .. n : grown[x - 1] \in S => grown[x] \in S
    BY <1>3, <1>12
  <2>2. grown[0] \in S
    BY <1>4, <1>12
  <2>3. \A x \in 0 .. n : grown[x] \in S
    BY <1>2, <2>1, <2>2, Holds
  <2> QED BY <1>2, <2>3
<1>14. \A g \in grown[n] : g.cluster \in SUBSET DOMAIN units
  BY <1>13 DEF S, Growths
<1> QED BY <1>1, <1>14

LEMMA ClustersAre ==
  ASSUME IsFiniteSet(DOMAIN units), Len(units) \in Nat
  PROVE  Clusters \subseteq SUBSET DOMAIN units
<1>1. ASSUME NEW i \in DOMAIN units, NEW k, NEW cluster \in Grown(i, k)
      PROVE  Padded(cluster, k) \subseteq SUBSET DOMAIN units
  <2>1. cluster \in SUBSET DOMAIN units
    BY <1>1, GrownIs
  <2> DEFINE pads == kSubset(k - Cardinality(cluster), DOMAIN units \ cluster)
  <2>2. \A pad \in pads : pad \in SUBSET DOMAIN units
    BY DEF kSubset
  <2>3. Padded(cluster, k) = {cluster \cup pad : pad \in pads}
    BY DEF Padded
  <2> HIDE DEF pads
  <2> QED BY <2>1, <2>2, <2>3
<1> QED BY <1>1 DEF Clusters

(* The units of a cluster, each once.                                      *)
LEMMA ReinsertionIs ==
  ASSUME IsFiniteSet(DOMAIN units), DOMAIN units \subseteq Nat,
         \A i, j \in DOMAIN units : units[i] = units[j] => i = j,
         NEW cluster \in SUBSET DOMAIN units
  PROVE  LET todo == Reinsertion(cluster)
         IN /\ Listed(todo) /\ Range(todo) = {units[i] : i \in cluster}
            /\ \A i, j \in DOMAIN todo : todo[i] = todo[j] => i = j
<1> DEFINE ties == [i \in DOMAIN units |-> Cardinality(Beside(i) \ cluster)]
           before == {p \in cluster \X cluster :
                         ties[p[1]] > ties[p[2]] \/ (ties[p[1]] = ties[p[2]] /\ p[1] < p[2])}
           sorted == InOrder(cluster, before)
           todo == Reinsertion(cluster)
<1>1. todo = [x \in DOMAIN sorted |-> units[sorted[x]]]
  <2>1. before = {p \in cluster \X cluster :
                    \/ Cardinality(Beside(p[1]) \ cluster) > Cardinality(Beside(p[2]) \ cluster)
                    \/ (Cardinality(Beside(p[1]) \ cluster) = Cardinality(Beside(p[2]) \ cluster) /\ p[1] < p[2])}
    OBVIOUS
  <2> QED BY <2>1 DEF Reinsertion
<1>2. \A i \in cluster : ties[i] \in Int /\ i \in Int
  <2> TAKE i \in cluster
  <2>1. Beside(i) \ cluster \in SUBSET DOMAIN units
    BY DEF Beside
  <2>2. Cardinality(Beside(i) \ cluster) \in Int
    BY <2>1, FS_Subset, FS_CardinalityType
  <2> QED BY <2>2
<1>3. \A x, y \in cluster : <<x, y>> \in before <=> ties[x] > ties[y] \/ (ties[x] = ties[y] /\ x < y)
  BY Zenon
<1> HIDE DEF ties, before
<1>4. Ordered(cluster, before)
  <2>1. \A x \in cluster : <<x, x>> \notin before
    BY <1>2, <1>3
  <2>2. \A x, y, z \in cluster : <<x, y>> \in before /\ <<y, z>> \in before => <<x, z>> \in before
    BY <1>2, <1>3
  <2>3. \A x, y \in cluster : x # y => <<x, y>> \in before \/ <<y, x>> \in before
    BY <1>2, <1>3
  <2> QED BY <2>1, <2>2, <2>3 DEF Ordered
<1> DEFINE n == Cardinality(cluster)
<1>5. /\ n \in Nat /\ DOMAIN sorted = 1 .. n
      /\ \A k \in 1 .. n : sorted[k] \in cluster
      /\ \A k, l \in 1 .. n : sorted[k] = sorted[l] => k = l
      /\ \A x \in cluster : \E k \in 1 .. n : sorted[k] = x
  BY <1>4, FS_Subset, InOrderLists
<1> HIDE DEF n, sorted
<1>6. DOMAIN todo = 1 .. n /\ \A k \in 1 .. n : todo[k] = units[sorted[k]]
  BY <1>1, <1>5
<1>7. Range(todo) = {units[i] : i \in cluster}
  <2>1. Range(todo) = {todo[k] : k \in 1 .. n}
    BY <1>6 DEF Range
  <2> QED BY <1>5, <1>6, <2>1
<1>8. Listed(todo)
  <2>1. \A k \in 1 .. n : todo[k] \in Range(todo)
    BY <1>6 DEF Range
  <2>2. todo = [k \in 1 .. n |-> todo[k]]
    BY <1>1, <1>5, <1>6
  <2> HIDE DEF todo
  <2> QED BY <1>5, <2>1, <2>2 DEF Listed
<1>9. \A i, j \in DOMAIN todo : todo[i] = todo[j] => i = j
  BY <1>5, <1>6
<1> QED BY <1>7, <1>8, <1>9

(* Ruin and recreate leaves every unit laid.                               *)
LEMMA RuinLaid ==
  ASSUME Stands, NEW next \in RuinAndRecreate
  PROVE  next = NoMove \/ LaidOut(Range(units), next)
<1>1. CASE Len(units) < 2
  BY <1>1 DEF RuinAndRecreate
<1>2. CASE ~(Len(units) < 2)
  <2>1. /\ line \in Lines /\ IsFiniteSet(DOMAIN units) /\ Len(units) \in Nat /\ DOMAIN units \subseteq Nat
        /\ \A i, j \in DOMAIN units : units[i] = units[j] => i = j
    <3>1. IsFiniteSet(DOMAIN units) /\ Len(units) \in Nat /\ DOMAIN units = 1 .. Len(units)
      BY ListedFinite DEF Stands
    <3>2. \A m \in Nat : 1 .. m \subseteq Nat
      OBVIOUS
    <3> QED BY <3>1, <3>2 DEF Stands
  <2>2. PICK cluster \in Clusters : next \in Rebuilt(cluster)
    BY <1>2 DEF RuinAndRecreate
  <2>3. cluster \in SUBSET DOMAIN units
    BY <2>1, ClustersAre
  <2> DEFINE todo == Reinsertion(cluster)
             us == {units[i] : i \in cluster}
             vs == Range(units) \ us
             b == Without(MembersOf(us))
  <2>4. Listed(todo) /\ Range(todo) = us /\ \A i, j \in DOMAIN todo : todo[i] = todo[j] => i = j
    BY <2>1, <2>3, ReinsertionIs
  <2>5. us \in SUBSET Range(units)
    BY <2>3 DEF Range
  <2>6. next \in Recreate(todo, b)
    <3>1. UNION {Range(units[i]) : i \in cluster} = MembersOf(us)
      BY DEF MembersOf
    <3> QED BY <2>2, <3>1 DEF Rebuilt
  <2> HIDE DEF us
  <2>7. IsBuild(b) /\ LaidOut(vs, b.at) /\ MembersOf(vs) \cap MembersOf(us) = {}
    BY <2>5, WithoutIs
  <2>8. b \in Builds /\ LaysOut(vs, b)
    <3>1. \E at, order : b = [at |-> at, order |-> order]
      BY DEF Without
    <3> QED BY <2>7, <3>1, BuildsAre DEF LaysOut
  <2> HIDE DEF todo, b
  <2>9. \A j \in DOMAIN todo : todo[j] \in us
    BY <2>4 DEF Range
  <2>10. \A j \in DOMAIN todo : IsUnit(todo[j]) /\ UnitPose(todo[j], current) \in Pose
                                  /\ Range(todo[j]) \cap MembersOf(vs) = {}
    <3> TAKE j \in DOMAIN todo
    <3>1. todo[j] \in Range(units)
      BY <2>5, <2>9
    <3>2. Range(todo[j]) \subseteq MembersOf(us)
      BY <2>9 DEF MembersOf
    <3> QED BY <2>7, <3>1, <3>2, StandsUnits DEF Sound
  <2>11. \A i, j \in DOMAIN todo : i # j => Range(todo[i]) \cap Range(todo[j]) = {}
    <3> SUFFICES ASSUME NEW i \in DOMAIN todo, NEW j \in DOMAIN todo, i # j
                 PROVE  Range(todo[i]) \cap Range(todo[j]) = {}
      OBVIOUS
    <3>1. todo[i] # todo[j] /\ todo[i] \in Range(units) /\ todo[j] \in Range(units)
      BY <2>4, <2>5, <2>9
    <3> QED BY <3>1 DEF Stands, LaidOut
  <2>12. next = NoMove \/ LaidOut(vs \cup Range(todo), next)
    <3> HIDE DEF vs
    <3> QED BY <2>1, <2>4, <2>6, <2>8, <2>10, <2>11, RecreateIs
  <2>13. vs \cup Range(todo) = Range(units)
    BY <2>4, <2>5
  <2> QED BY <2>12, <2>13
<1> QED BY <1>1, <1>2

-----------------------------------------------------------------------------
(* The units read off the seed.                                            *)

Grouped(g) == g # ""

(* A group's column lists its machines once, by number.                    *)
LEMMA ColumnIs ==
  ASSUME line \in Lines, NEW g, Grouped(g), Parallel(g)
  PROVE  /\ IsUnit(ColumnOf(g)) /\ Len(ColumnOf(g)) > 1
         /\ Range(ColumnOf(g)) = Numbered(g)
<1> DEFINE S == Numbered(g)
           key == [m \in S |-> Machine[m].number]
           u == ColumnOf(g)
           n == Cardinality(S)
<1>1. S \in SUBSET Machines /\ IsFiniteSet(S) /\ u = ByKey(S, key)
  BY LineFacts, FS_Subset DEF Numbered, ColumnOf
<1>2. n >= 2 /\ \A a, b \in S : Columnable(a, b)
  BY DEF Parallel
<1>3. \A m \in S : key[m] \in Int
  <2>1. \A m \in S : Machine[m].number \in Nat
    BY <1>1, LineFacts
  <2> HIDE DEF S
  <2> QED BY <2>1
<1>4. \A a, b \in S : key[a] = key[b] => a = b
  <2> SUFFICES ASSUME NEW a \in S, NEW b \in S, key[a] = key[b], a # b PROVE FALSE
    OBVIOUS
  <2>1. /\ a \in DOMAIN line.machine /\ b \in DOMAIN line.machine
        /\ line.machine[a].group = g /\ line.machine[b].group = g
        /\ line.machine[a].number = line.machine[b].number
    BY <1>1, LineFacts DEF Numbered, Machine
  <2> QED BY <2>1, GroupAssumption DEF Grouped
<1> HIDE DEF S, key, u
<1>5. n \in Nat /\ DOMAIN u = 1 .. n /\ u \in Seq(S)
  BY <1>1, <1>3, <1>4, ByKeyLists
<1>14. \A k \in 1 .. n : u[k] \in S
  BY <1>1, <1>3, <1>4, ByKeyLists
<1>15. \A k, l \in 1 .. n : u[k] = u[l] => k = l
  BY <1>1, <1>3, <1>4, ByKeyLists
<1>16. \A x \in S : \E k \in 1 .. n : u[k] = x
  BY <1>1, <1>3, <1>4, ByKeyLists
<1> HIDE DEF n
<1>6. Len(u) = n
  BY <1>5
<1>7. Range(u) = S
  <2>1. Range(u) = {u[k] : k \in 1 .. n}
    BY <1>5 DEF Range
  <2> QED BY <1>14, <1>16, <2>1
<1>8. u \in Seq(Machines) /\ u # <<>>
  <2>1. u \in Seq(Machines)
    BY <1>1, <1>5
  <2>2. u # <<>>
    BY <1>2, <1>5, <1>6
  <2> QED BY <2>1, <2>2
<1>9. \A j \in DOMAIN u : /\ Machine[u[j]].size = <<1, 1, 1>>
                          /\ Machine[u[j]].facings = Machine[u[1]].facings
                          /\ ~FrontsOutside(u[j])
  <2>1. 1 \in 1 .. n
    BY <1>2, <1>5
  <2>2. \A j \in DOMAIN u : Columnable(u[j], u[1])
    BY <1>2, <1>5, <1>14, <2>1
  <2> QED BY <2>2 DEF Columnable
<1>10. IsUnit(u)
  BY <1>5, <1>8, <1>9, <1>15 DEF IsUnit
<1>11. Len(u) > 1
  BY <1>2, <1>5, <1>6
<1> QED BY <1>7, <1>10, <1>11 DEF S, u

(* A machine moves with itself, and with what moves with it.               *)
LEMMA UnitWithIs ==
  ASSUME line \in Lines, NEW L, NEW m \in Machines
  PROVE  /\ IsUnit(UnitWith(m, L)) /\ m \in Range(UnitWith(m, L))
         /\ \A k \in Range(UnitWith(m, L)) : UnitWith(k, L) = UnitWith(m, L)
         /\ Len(UnitWith(m, L)) > 1 => LaidAsColumn(UnitWith(m, L), L)
<1> DEFINE columns(k) == {u \in ParallelGroups : LaidAsColumn(u, L) /\ k \in Range(u)}
<1>1. \A k : UnitWith(k, L) = IF columns(k) = {} THEN <<k>> ELSE CHOOSE u \in columns(k) : TRUE
  BY DEF UnitWith
<1>2. ASSUME NEW u \in ParallelGroups, NEW v \in ParallelGroups, NEW k \in Range(u) \cap Range(v)
      PROVE  u = v
  <2>1. PICK g : u = ColumnOf(g) /\ Grouped(g) /\ Parallel(g)
    BY DEF ParallelGroups, Grouped
  <2>2. PICK h : v = ColumnOf(h) /\ Grouped(h) /\ Parallel(h)
    BY DEF ParallelGroups, Grouped
  <2>3. k \in Numbered(g) /\ k \in Numbered(h)
    BY <2>1, <2>2, ColumnIs
  <2> QED BY <2>1, <2>2, <2>3 DEF Numbered
<1>3. \A u \in ParallelGroups : IsUnit(u) /\ Len(u) > 1
  <2> SUFFICES ASSUME NEW u \in ParallelGroups PROVE IsUnit(u) /\ Len(u) > 1
    OBVIOUS
  <2>1. PICK g : u = ColumnOf(g) /\ Grouped(g) /\ Parallel(g)
    BY DEF ParallelGroups, Grouped
  <2> QED BY <2>1, ColumnIs
<1> DEFINE v == UnitWith(m, L)
<1>4. CASE columns(m) = {}
  <2>1. v = <<m>>
    BY <1>1, <1>4
  <2>2. v \in Seq(Machines) /\ v # <<>> /\ Len(v) = 1 /\ DOMAIN v = {1} /\ v[1] = m
    BY <2>1
  <2>3. IsUnit(v) /\ Range(v) = {m}
    BY <2>2 DEF IsUnit, Range
  <2> QED BY <2>2, <2>3
<1>5. CASE columns(m) # {}
  <2>1. v \in columns(m)
    BY <1>1, <1>5
  <2>2. \A k \in Range(v) : columns(k) = {v}
    <3> SUFFICES ASSUME NEW k \in Range(v) PROVE columns(k) = {v}
      OBVIOUS
    <3>1. v \in columns(k)
      BY <2>1
    <3>2. \A w \in columns(k) : w = v
      BY <1>2, <2>1
    <3> QED BY <3>1, <3>2
  <2>3. \A k \in Range(v) : UnitWith(k, L) = v
    <3> SUFFICES ASSUME NEW k \in Range(v) PROVE UnitWith(k, L) = v
      OBVIOUS
    <3> DEFINE c == columns(k)
    <3>1. c = {v}
      BY <2>2
    <3>2. UnitWith(k, L) = IF c = {} THEN <<k>> ELSE CHOOSE u \in c : TRUE
      BY <1>1
    <3> HIDE DEF c, v
    <3>3. (CHOOSE u \in c : TRUE) \in c /\ c # {}
      BY <3>1
    <3> QED BY <3>1, <3>2, <3>3
  <2> QED BY <1>3, <2>1, <2>3
<1> QED BY <1>4, <1>5

(* A unit as the seed laid it stands at the pose of its first member.      *)
LEMMA SeedStanding ==
  ASSUME line \in Lines, NEW L \in [Machines -> Pose], NEW u, IsUnit(u),
         Len(u) > 1 => LaidAsColumn(u, L)
  PROVE  Standing(u, L) /\ UnitPose(u, L) \in Pose
<1>1. \A j \in DOMAIN u : u[j] \in Machines /\ L[u[j]] \in Pose
  BY UnitFacts
<1>2. \A m \in Range(u) : \E j \in DOMAIN u : u[j] = m
  BY UnitFacts
<1>3. \E at \in Pose : \A j \in DOMAIN u : L[u[j]] = UnitPlaced(u, at)[u[j]]
  <2>1. CASE Len(u) = 1
    <3> DEFINE p == L[u[1]]
    <3>1. p \in Pose /\ DOMAIN u = {1} /\ 1 \in DOMAIN u
      BY <1>1, <2>1, UnitFacts
    <3>2. UnitOffset(u, 1, p.front) = <<0, 0, 0>>
      BY <2>1 DEF UnitOffset
    <3>3. UnitPlaced(u, p)[u[1]] = [cell |-> Plus(p.cell, <<0, 0, 0>>), front |-> p.front]
      <4> HIDE DEF p
      <4>1. UnitPlaced(u, p)[u[1]] = [cell |-> Plus(p.cell, UnitOffset(u, 1, p.front)), front |-> p.front]
        BY <3>1, PlacedIs
      <4> QED BY <3>2, <4>1
    <3> HIDE DEF p
    <3>4. Plus(p.cell, <<0, 0, 0>>) = p.cell
      <4>1. p.cell = <<p.cell[1], p.cell[2], p.cell[3]>> /\ p.cell[1] \in Int /\ p.cell[2] \in Int /\ p.cell[3] \in Int
        BY <3>1, PoseIs, TripleIs
      <4> QED BY <4>1 DEF Plus
    <3>5. UnitPlaced(u, p)[u[1]] = p
      BY <3>1, <3>3, <3>4, PoseIs
    <3> QED BY <3>1, <3>5 DEF p
  <2>2. CASE Len(u) > 1
    <3> DEFINE along(a) == {L[u[j]].cell[a] : j \in DOMAIN u}
               at == [cell |-> <<Min(along(1)), Min(along(2)), Min(along(3))>>, front |-> L[u[1]].front]
    <3>1. \A j \in DOMAIN u : L[u[j]] = UnitPlaced(u, at)[u[j]]
      BY <2>2 DEF LaidAsColumn
    <3>2. ASSUME NEW a \in 1 .. 3 PROVE Min(along(a)) \in Int
      <4> DEFINE S == along(a)
      <4>1. S \subseteq Int
        BY <1>1, PoseIs, TripleIs
      <4>2. IsFiniteSet(S)
        <5>1. IsFiniteSet(DOMAIN u)
          BY UnitFacts
        <5>2. [j \in DOMAIN u |-> L[u[j]].cell[a]] \in Surjection(DOMAIN u, S)
          BY DEF Surjection
        <5> HIDE DEF S
        <5> QED BY <5>1, <5>2, FS_Surjection
      <4>3. S # {}
        <5>1. 1 \in DOMAIN u
          BY UnitFacts
        <5>2. L[u[1]].cell[a] \in S
          BY <5>1
        <5> QED BY <5>2
      <4> HIDE DEF S
      <4>4. Min(S) \in Int
        BY <4>1, <4>2, <4>3, FiniteMin
      <4> QED BY <4>4 DEF S
    <3>3. L[u[1]].front \in Compass
      BY <1>1, UnitFacts, PoseIs
    <3>4. Min(along(1)) \in Int /\ Min(along(2)) \in Int /\ Min(along(3)) \in Int
      BY <3>2
    <3> HIDE DEF along
    <3>5. at \in Pose
      BY <3>3, <3>4, PoseIs, TripleIs
    <3> HIDE DEF at
    <3> QED BY <3>1, <3>5
  <2> QED BY <2>1, <2>2, OneOrMore
<1>4. PICK at \in Pose : \A j \in DOMAIN u : L[u[j]] = UnitPlaced(u, at)[u[j]]
  BY <1>3
<1>5. \A m \in Range(u) : L[m] = UnitPlaced(u, at)[m]
  BY <1>2, <1>4
<1> QED BY <1>5, PutPose

(* The units read off a layout of the whole line partition it.             *)
LEMMA UnitsAre ==
  ASSUME line \in Lines, NEW L \in [Machines -> Pose]
  PROVE  LET us == UnitsOf(Order, L)
         IN /\ Listed(us) /\ \A i, j \in DOMAIN us : us[i] = us[j] => i = j
            /\ MembersOf(Range(us)) = Machines
            /\ \A u \in Range(us) : IsUnit(u) /\ Standing(u, L) /\ UnitPose(u, L) \in Pose
            /\ \A u, v \in Range(us) : u # v => Range(u) \cap Range(v) = {}
<1> DEFINE with == [m \in Machines |-> UnitWith(m, L)]
           us == UnitsOf(Order, L)
           leads == {i \in DOMAIN Order : \A j \in 1 .. i - 1 : Order[j] \notin Range(with[Order[i]])}
           key == [i \in leads |-> i]
           leaders == ByKey(leads, key)
           n == Cardinality(leads)
<1>1. /\ DOMAIN Order = 1 .. Len(Order) /\ IsFiniteSet(DOMAIN Order)
      /\ \A i \in DOMAIN Order : Order[i] \in Machines
      /\ \A m \in Machines : \E i \in DOMAIN Order : Order[i] = m
  <2>1. Listed(Order) /\ Range(Order) = Machines
    BY SeedAssumption, LineFacts DEF Order, Machine
  <2> QED BY <2>1, SeqFacts DEF Listed
<1>2. \A m \in Machines : /\ IsUnit(with[m]) /\ m \in Range(with[m]) /\ Range(with[m]) \subseteq Machines
                          /\ \A k \in Range(with[m]) : with[k] = with[m]
                          /\ Standing(with[m], L) /\ UnitPose(with[m], L) \in Pose
  <2> TAKE m \in Machines
  <2>1. /\ IsUnit(with[m]) /\ m \in Range(with[m])
        /\ \A k \in Range(with[m]) : UnitWith(k, L) = with[m]
        /\ Len(with[m]) > 1 => LaidAsColumn(with[m], L)
    BY UnitWithIs
  <2>2. Range(with[m]) \subseteq Machines
    BY <2>1, UnitFacts
  <2>3. Standing(with[m], L) /\ UnitPose(with[m], L) \in Pose
    BY <2>1, SeedStanding
  <2> QED BY <2>1, <2>2, <2>3
<1>3. us = [k \in DOMAIN leaders |-> with[Order[leaders[k]]]]
  <2>1. \A i \in DOMAIN Order : with[Order[i]] = UnitWith(Order[i], L)
    BY <1>1
  <2>2. leads = {i \in DOMAIN Order : \A j \in 1 .. i - 1 : Order[j] \notin Range(UnitWith(Order[i], L))}
    BY <2>1
  <2>3. us = [k \in DOMAIN leaders |-> UnitWith(Order[leaders[k]], L)]
    BY <2>2 DEF UnitsOf
  <2>4. \A k \in DOMAIN leaders : leaders[k] \in DOMAIN Order
    <3>1. IsFiniteSet(leads)
      BY <1>1, FS_Subset
    <3>2. \A i \in leads : key[i] \in Int
      BY <1>1
    <3>3. \A i, j \in leads : key[i] = key[j] => i = j
      OBVIOUS
    <3> HIDE DEF leads, key
    <3>4. \A k \in DOMAIN leaders : leaders[k] \in leads
      BY <3>1, <3>2, <3>3, ByKeyLists
    <3> QED BY <3>4 DEF leads
  <2>5. \A k \in DOMAIN leaders : with[Order[leaders[k]]] = UnitWith(Order[leaders[k]], L)
    BY <2>1, <2>4
  <2> HIDE DEF leaders, with
  <2> QED BY <2>3, <2>5
<1>4. \A i \in leads : i \in DOMAIN Order /\ Order[i] \in Machines
  BY <1>1
<1>5. ASSUME NEW i \in leads, NEW j \in leads, with[Order[i]] = with[Order[j]] PROVE i = j
  <2>1. Order[i] \in Range(with[Order[j]]) /\ Order[j] \in Range(with[Order[i]])
    BY <1>2, <1>4, <1>5
  <2>2. ~(i < j) /\ ~(j < i)
    <3>1. i \in Int /\ j \in Int /\ i >= 1 /\ j >= 1
      BY <1>1
    <3>2. i < j => i \in 1 .. j - 1
      BY <3>1
    <3>3. j < i => j \in 1 .. i - 1
      BY <3>1
    <3> QED BY <2>1, <3>2, <3>3
  <2>3. i \in Int /\ j \in Int
    BY <1>1
  <2> HIDE DEF leads
  <2> QED BY <2>2, <2>3
<1>6. ASSUME NEW m \in Machines PROVE \E i \in leads : with[Order[i]] = with[m]
  <2> DEFINE S == {i \in DOMAIN Order : Order[i] \in Range(with[m])}
  <2>1. S \subseteq Nat /\ S # {}
    <3>1. \E i \in DOMAIN Order : Order[i] = m
      BY <1>1
    <3>2. m \in Range(with[m])
      BY <1>2
    <3>3. DOMAIN Order \subseteq Nat
      BY <1>1
    <3> QED BY <3>1, <3>2, <3>3
  <2>2. PICK i \in S : \A j \in S : i <= j
    <3> HIDE DEF S
    <3> QED BY <2>1, LeastNat
  <2>3. with[Order[i]] = with[m]
    BY <1>2, <2>2
  <2>4. \A j \in 1 .. i - 1 : Order[j] \notin Range(with[m])
    <3> TAKE j \in 1 .. i - 1
    <3>1. i \in 1 .. Len(Order) /\ Len(Order) \in Nat
      BY <1>1
    <3>2. j \in 1 .. Len(Order) /\ ~(i <= j)
      BY <3>1
    <3> QED BY <1>1, <2>2, <3>2
  <2>5. i \in leads
    BY <2>2, <2>3, <2>4
  <2> QED BY <2>3, <2>5
<1>7. IsFiniteSet(leads) /\ (\A i \in leads : key[i] \in Int) /\ \A i, j \in leads : key[i] = key[j] => i = j
  <2>1. IsFiniteSet(leads)
    BY <1>1, FS_Subset
  <2>2. \A i \in leads : key[i] \in Int
    BY <1>1
  <2> QED BY <2>1, <2>2
<1> HIDE DEF with, leads, key, us
<1>8. n \in Nat /\ DOMAIN leaders = 1 .. n
  BY <1>7, ByKeyLists
<1>9. \A k \in 1 .. n : leaders[k] \in leads
  BY <1>7, ByKeyLists
<1>10. \A k, l \in 1 .. n : leaders[k] = leaders[l] => k = l
  BY <1>7, ByKeyLists
<1>11. \A i \in leads : \E k \in 1 .. n : leaders[k] = i
  BY <1>7, ByKeyLists
<1> HIDE DEF n, leaders
<1>12. DOMAIN us = 1 .. n /\ \A k \in 1 .. n : us[k] = with[Order[leaders[k]]]
  BY <1>3, <1>8
<1>13. \A i, j \in DOMAIN us : us[i] = us[j] => i = j
  BY <1>5, <1>9, <1>10, <1>12
<1>14. Listed(us)
  <2>1. \A k \in 1 .. n : us[k] \in Range(us)
    BY <1>12 DEF Range
  <2>2. us = [k \in 1 .. n |-> us[k]]
    BY <1>3, <1>8, <1>12
  <2> QED BY <1>8, <2>1, <2>2 DEF Listed
<1>15. Range(us) = {us[k] : k \in 1 .. n}
  BY <1>12 DEF Range
<1>16. \A u \in Range(us) : \E m \in Machines : u = with[m]
  <2> TAKE u \in Range(us)
  <2>1. PICK k \in 1 .. n : u = us[k]
    BY <1>15
  <2>2. Order[leaders[k]] \in Machines
    BY <1>4, <1>9
  <2> QED BY <1>12, <2>1, <2>2
<1>17. \A m \in Machines : with[m] \in Range(us)
  <2> TAKE m \in Machines
  <2>1. PICK i \in leads : with[Order[i]] = with[m]
    BY <1>6
  <2>2. PICK k \in 1 .. n : leaders[k] = i
    BY <1>11
  <2> QED BY <1>12, <1>15, <2>1, <2>2
<1>18. MembersOf(Range(us)) = Machines
  <2>1. \A m \in Machines : m \in MembersOf(Range(us))
    BY <1>2, <1>17 DEF MembersOf
  <2>2. \A m \in MembersOf(Range(us)) : m \in Machines
    BY <1>2, <1>16 DEF MembersOf
  <2> QED BY <2>1, <2>2
<1>19. \A u \in Range(us) : IsUnit(u) /\ Standing(u, L) /\ UnitPose(u, L) \in Pose
  BY <1>2, <1>16
<1>20. ASSUME NEW u \in Range(us), NEW v \in Range(us), NEW k \in Range(u) \cap Range(v)
       PROVE  u = v
  <2>1. PICK a \in Machines : u = with[a]
    BY <1>16
  <2>2. PICK b \in Machines : v = with[b]
    BY <1>16
  <2>3. with[k] = u /\ with[k] = v
    BY <1>2, <2>1, <2>2
  <2> QED BY <2>3
<1>21. \A u, v \in Range(us) : u # v => Range(u) \cap Range(v) = {}
  BY <1>20
<1> QED BY <1>13, <1>14, <1>18, <1>19, <1>21 DEF us

(* Members that stand where their unit is put are laid as its column.      *)
LEMMA StandingColumn ==
  ASSUME line \in Lines, NEW u, IsUnit(u), Len(u) > 1, NEW L, Standing(u, L), UnitPose(u, L) \in Pose
  PROVE  LaidAsColumn(u, L)
<1> DEFINE at == UnitPose(u, L)
           n == Len(u)
           along(a) == {L[u[j]].cell[a] : j \in DOMAIN u}
<1>1. n \in Nat /\ n > 1 /\ DOMAIN u = 1 .. n /\ 1 \in DOMAIN u /\ \A j \in DOMAIN u : u[j] \in Range(u)
  BY UnitFacts
<1>2. at.cell \in Triple /\ at.front \in Compass /\ at = [cell |-> at.cell, front |-> at.front]
  BY PoseIs
<1>3. \A j \in DOMAIN u : L[u[j]] = UnitPlaced(u, at)[u[j]]
  BY <1>1 DEF Standing
<1>10. at \in Pose
  OBVIOUS
<1> HIDE DEF at
<1>4. \A j \in DOMAIN u : /\ L[u[j]].cell = Plus(at.cell, UnitOffset(u, j, at.front))
                          /\ L[u[j]].front = at.front
  <2>1. \A j \in DOMAIN u : /\ UnitPlaced(u, at)[u[j]].cell = Plus(at.cell, UnitOffset(u, j, at.front))
                            /\ UnitPlaced(u, at)[u[j]].front = at.front
    BY <1>10, PlacedIs
  <2> QED BY <1>3, <2>1
<1>5. ASSUME NEW j \in DOMAIN u, NEW a \in 1 .. 3
      PROVE  /\ L[u[j]].cell[a] = at.cell[a] + UnitOffset(u, j, at.front)[a]
             /\ UnitOffset(u, j, at.front)[a] \in 0 .. n - 1
  <2>1. UnitOffset(u, j, at.front) \in Triple
    BY <1>2, OffsetIs
  <2>2. Plus(at.cell, UnitOffset(u, j, at.front))[a] = at.cell[a] + UnitOffset(u, j, at.front)[a]
    BY <1>2, <2>1, TripleArithmetic
  <2> QED BY <1>2, <1>4, <2>2, OffsetIs
<1>6. ASSUME NEW a \in 1 .. 3 PROVE \E j \in DOMAIN u : UnitOffset(u, j, at.front)[a] = 0
  <2>1. n \in DOMAIN u
    BY <1>1
  <2>2. /\ at.front = "N" => UnitOffset(u, 1, at.front) = <<0, 0, 0>>
        /\ at.front = "W" => UnitOffset(u, 1, at.front) = <<0, 0, 0>>
    <3>1. /\ at.front = "N" => UnitOffset(u, 1, at.front) = <<0, 0, 1 - 1>>
          /\ at.front = "W" => UnitOffset(u, 1, at.front) = <<1 - 1, 0, 0>>
      BY <1>1, <1>2, OffsetIs
    <3> QED BY <3>1
  <2>3. /\ at.front = "S" => UnitOffset(u, n, at.front) = <<0, 0, 0>>
        /\ at.front = "E" => UnitOffset(u, n, at.front) = <<0, 0, 0>>
    <3>1. /\ at.front = "S" => UnitOffset(u, n, at.front) = <<0, 0, n - n>>
          /\ at.front = "E" => UnitOffset(u, n, at.front) = <<n - n, 0, 0>>
      BY <1>1, <1>2, <2>1, OffsetIs
    <3>2. n - n = 0
      BY <1>1
    <3> QED BY <3>1, <3>2
  <2>4. <<0, 0, 0>>[a] = 0
    OBVIOUS
  <2>5. at.front \in {"N", "S", "W", "E"}
    BY <1>2 DEF Compass
  <2> QED BY <1>1, <2>1, <2>2, <2>3, <2>4, <2>5
<1>7. ASSUME NEW a \in 1 .. 3 PROVE Min(along(a)) = at.cell[a]
  <2> DEFINE S == along(a)
  <2>1. at.cell[a] \in Int
    BY <1>2, TripleIs
  <2>2. \A j \in DOMAIN u : /\ L[u[j]].cell[a] = at.cell[a] + UnitOffset(u, j, at.front)[a]
                            /\ UnitOffset(u, j, at.front)[a] \in Nat
    BY <1>1, <1>5
  <2>3. \A x \in S : x \in Int /\ at.cell[a] <= x
    BY <2>1, <2>2
  <2>4. at.cell[a] \in S
    <3>1. PICK j \in DOMAIN u : UnitOffset(u, j, at.front)[a] = 0
      BY <1>6
    <3>2. L[u[j]].cell[a] = at.cell[a]
      BY <2>1, <2>2, <3>1
    <3> QED BY <3>2
  <2> HIDE DEF S
  <2>5. Min(S) = CHOOSE x \in S : \A y \in S : x <= y
    BY DEF Min
  <2>6. Min(S) \in S /\ Min(S) <= at.cell[a]
    BY <2>3, <2>4, <2>5
  <2>7. Min(S) = at.cell[a]
    BY <2>1, <2>3, <2>6
  <2> QED BY <2>7 DEF S
<1>8. Min(along(1)) = at.cell[1] /\ Min(along(2)) = at.cell[2] /\ Min(along(3)) = at.cell[3]
  BY <1>7
<1>9. [cell |-> <<Min(along(1)), Min(along(2)), Min(along(3))>>, front |-> L[u[1]].front] = at
  <2>1. at.cell = <<at.cell[1], at.cell[2], at.cell[3]>>
    BY <1>2, TripleIs
  <2>2. L[u[1]].front = at.front
    BY <1>1, <1>4
  <2> HIDE DEF along
  <2> QED BY <1>2, <1>8, <2>1, <2>2
<1> QED BY <1>3, <1>9 DEF LaidAsColumn
-----------------------------------------------------------------------------
(* The state to hand back.                                                 *)

(* What an accepted state is.                                              *)
AnyMachine == UNION {DOMAIN P.machine : P \in Lines}
States == [cost : Int, at : UNION {[D -> Pose] : D \in SUBSET AnyMachine}]

(* The states the gate passes.                                             *)
Uncrowded == {i \in DOMAIN accepted : CrowdedMachines(accepted[i].at) = {}}

(* i is the cheapest of a pool and, of its equals, the first.              *)
FirstCheapest(pool, i) == i \in pool /\ \A j \in pool \ {i} : Cheaper(i, j)

LEMMA AcceptedIs ==
  ASSUME accepted \in Seq(States)
  PROVE  /\ Len(accepted) \in Nat /\ DOMAIN accepted = 1 .. Len(accepted)
         /\ \A i \in DOMAIN accepted : accepted[i].cost \in Int /\ i \in Int
<1>1. /\ Len(accepted) \in Nat /\ DOMAIN accepted = 1 .. Len(accepted)
      /\ \A i \in DOMAIN accepted : accepted[i] \in States
  BY SeqFacts
<1>2. \A s \in States : s.cost \in Int
  BY DEF States
<1> QED BY <1>1, <1>2

(* There is at most one such, so it is the one chosen.                     *)
LEMMA CheapestIs ==
  ASSUME accepted \in Seq(States), NEW pool \in SUBSET DOMAIN accepted, NEW i, FirstCheapest(pool, i)
  PROVE  CheapestOf(pool) = accepted[i].at
<1>1. \A a, b \in DOMAIN accepted : Cheaper(a, b) => ~Cheaper(b, a)
  BY AcceptedIs DEF Cheaper
<1>2. \A k \in pool : (\A j \in pool \ {k} : Cheaper(k, j)) => k = i
  BY <1>1 DEF FirstCheapest
<1>3. i \in pool /\ \A j \in pool \ {i} : Cheaper(i, j)
  BY DEF FirstCheapest
<1>4. (CHOOSE k \in pool : \A j \in pool \ {k} : Cheaper(k, j)) = i
  BY <1>2, <1>3
<1> QED BY <1>4 DEF CheapestOf

(* Of all accepted states, the first of the lowest.                        *)
LEMMA LowestIs ==
  ASSUME accepted \in Seq(States), accepted # <<>>
  PROVE  FirstCheapest(DOMAIN accepted, Min(Lowest))
<1> DEFINE D == DOMAIN accepted
           n == Len(accepted)
           costs == {accepted[i].cost : i \in D}
           low == Lowest
<1>1. n \in Nat /\ D = 1 .. n /\ 1 \in D /\ \A i \in D : accepted[i].cost \in Int
  <2>1. n \in Nat /\ n # 0 /\ D = 1 .. n /\ \A i \in D : accepted[i].cost \in Int
    BY AcceptedIs
  <2> HIDE DEF n, D
  <2>2. 1 \in 1 .. n
    BY <2>1
  <2> QED BY <2>1, <2>2
<1>2. low = {i \in D : \A j \in D : accepted[i].cost <= accepted[j].cost}
  BY DEF Lowest
<1>3. low # {}
  <2>1. costs \subseteq Int /\ accepted[1].cost \in costs
    BY <1>1
  <2>2. IsFiniteSet(costs)
    <3>1. IsFiniteSet(D)
      BY SeqFacts
    <3>2. [i \in D |-> accepted[i].cost] \in Surjection(D, costs)
      BY DEF Surjection
    <3> HIDE DEF costs, D
    <3> QED BY <3>1, <3>2, FS_Surjection
  <2>3. \E c \in costs : \A d \in costs : c <= d
    <3> HIDE DEF costs
    <3> QED BY <2>1, <2>2, FiniteBounds
  <2> HIDE DEF low, D
  <2> QED BY <1>2, <2>3
<1> HIDE DEF low
<1>4. low \subseteq Nat
  <2>1. low \subseteq 1 .. n
    BY <1>1, <1>2
  <2> QED BY <1>1, <2>1
<1>5. Min(low) \in low /\ \A i \in low : Min(low) <= i
  <2>1. \E x \in low : \A y \in low : x <= y
    BY <1>3, <1>4, LeastNat
  <2> QED BY <2>1 DEF Min
<1> DEFINE least == Min(low)
<1> HIDE DEF n, D, least
<1>6. ASSUME NEW j \in D, j # least PROVE Cheaper(least, j)
  <2>1. least \in D /\ \A k \in D : accepted[least].cost <= accepted[k].cost
    BY <1>2, <1>5 DEF least
  <2>2. accepted[least].cost \in Int /\ accepted[j].cost \in Int /\ accepted[least].cost <= accepted[j].cost
    BY <1>1, <2>1
  <2>3. CASE accepted[least].cost < accepted[j].cost
    BY <2>3 DEF Cheaper
  <2>4. CASE accepted[least].cost = accepted[j].cost
    <3>1. j \in low
      BY <1>2, <2>1, <2>4
    <3>2. least <= j /\ least \in Int /\ j \in Int
      <4>1. least \in low /\ least <= j
        BY <1>5, <3>1 DEF least
      <4>2. \A x \in low : x \in Int
        BY <1>4
      <4> QED BY <3>1, <4>1, <4>2
    <3>3. least < j
      BY <1>6, <3>2
    <3> QED BY <2>4, <3>3 DEF Cheaper
  <2> QED BY <2>2, <2>3, <2>4
<1>7. least \in D
  BY <1>2, <1>5 DEF least
<1> QED BY <1>6, <1>7 DEF FirstCheapest, least, low, D

(* Asking online keeps nothing while the gate passes nothing, and then the *)
(* first cheapest of what it passes.                                       *)
LEMMA OnlineIs ==
  ASSUME accepted \in Seq(States)
  PROVE  /\ Online = 0 => Uncrowded = {}
         /\ Online # 0 => FirstCheapest(Uncrowded, Online)
<1> DEFINE n == Len(accepted)
           S == 0 .. n
           passes(i) == CrowdedMachines(accepted[i].at) = {}
           after(k, s) == IF /\ s = 0 \/ accepted[k].cost < accepted[s].cost
                             /\ passes(k)
                          THEN k ELSE s
           step == [p \in (1 .. n) \X S |-> after(p[1], p[2])]
           All(g) == [i \in 0 .. n |-> IF i = 0 THEN 0 ELSE after(i, g[i - 1])]
           kept == CHOOSE g : g = All(g)
           pool(k) == {i \in 1 .. k : passes(i)}
<1>1. Online = kept[n]
  BY DEF Online
<1>2. n \in Nat /\ DOMAIN accepted = 1 .. n /\ \A i \in 1 .. n : accepted[i].cost \in Int
  BY AcceptedIs
<1>3. Uncrowded = pool(n)
  BY <1>2 DEF Uncrowded
<1> HIDE DEF n, passes
<1>4. \A k \in 1 .. n : \A s \in S : after(k, s) \in S
  BY <1>2
<1>5. step \in [(1 .. n) \X S -> S] /\ 0 \in S
  <2>1. 0 \in S
    BY <1>2
  <2> HIDE DEF S, after
  <2> QED BY <1>4, <2>1
<1>6. \A k \in 1 .. n : \A s \in S : step[<<k, s>>] = after(k, s)
  <2> HIDE DEF S, after
  <2> QED OBVIOUS
<1> HIDE DEF S, step, after
<1>7. PICK g : g \in Runs(n, S, 0, step)
  BY ONLY <1>2, <1>5, Iterates
<1>8. g \in [0 .. n -> S] /\ g[0] = 0 /\ \A k \in 1 .. n : g[k] = step[<<k, g[k - 1]>>]
  BY <1>7 DEF Runs
<1>9. \A k \in 1 .. n : k - 1 \in 0 .. n /\ k # 0
  BY <1>2
<1>10. g = All(g)
  <2>1. \A k \in 1 .. n : g[k] = after(k, g[k - 1])
    BY <1>6, <1>8, <1>9
  <2>2. \A k \in 0 .. n : k = 0 \/ k \in 1 .. n
    BY <1>2
  <2>3. \A k \in 0 .. n : g[k] = All(g)[k]
    BY <1>8, <2>1, <2>2
  <2>4. g = [k \in 0 .. n |-> g[k]]
    BY <1>8
  <2> QED BY <2>3, <2>4
<1>11. kept = All(kept)
  BY <1>10
<1> HIDE DEF kept
<1>12. kept[0] = 0 /\ \A k \in 1 .. n : kept[k] = after(k, kept[k - 1])
  <2>1. \A k \in 0 .. n : kept[k] = IF k = 0 THEN 0 ELSE after(k, kept[k - 1])
    BY <1>11
  <2> QED BY <1>2, <1>9, <2>1
<1> DEFINE Right(k, s) == IF s = 0 THEN pool(k) = {} ELSE FirstCheapest(pool(k), s)
           T == {k \in 0 .. n : Right(k, kept[k])}
<1>13. 0 \in T
  <2>1. pool(0) = {}
    OBVIOUS
  <2> HIDE DEF pool
  <2> QED BY <1>2, <1>12, <2>1
<1>14. ASSUME NEW k \in 0 .. n - 1, Right(k, kept[k]) PROVE Right(k + 1, kept[k + 1])
  <2> DEFINE s == kept[k]
             m == k + 1
  <2>1. k \in Nat /\ m \in 1 .. n /\ m \in Int /\ m # 0 /\ m - 1 = k
    BY <1>2
  <2>2. kept[m] = after(m, s)
    BY <1>12, <2>1
  <2>3. pool(m) = pool(k) \cup (IF passes(m) THEN {m} ELSE {})
    <3>1. \A i : i \in 1 .. m <=> i \in 1 .. k \/ i = m
      BY <2>1
    <3> QED BY <3>1
  <2>4. /\ \A i \in pool(k) : i \in 1 .. n /\ i < m /\ i # m /\ i \in Int
        /\ m \in 1 .. n
    <3>1. \A i \in 1 .. k : i \in 1 .. n /\ i < m /\ i # m /\ i \in Int
      BY <1>2, <2>1
    <3> QED BY <2>1, <3>1
  <2>5. Right(k, s)
    BY <1>14
  <2> DEFINE A == pool(k)
             B == pool(m)
  <2>6. B = A \cup (IF passes(m) THEN {m} ELSE {})
    BY <2>3
  <2>7. \A i \in A : i \in 1 .. n /\ i < m /\ i # m /\ i \in Int
    BY <2>4
  <2>8. IF s = 0 THEN A = {} ELSE FirstCheapest(A, s)
    BY <2>5
  <2>9. Right(m, kept[m]) <=> IF kept[m] = 0 THEN B = {} ELSE FirstCheapest(B, kept[m])
    OBVIOUS
  <2> HIDE DEF s, m, A, B, pool
  <2>10. CASE ~passes(m)
    <3>1. kept[m] = s /\ B = A
      BY <2>2, <2>6, <2>10 DEF after
    <3> QED BY <2>8, <2>9, <3>1 DEF m
  <2>11. CASE passes(m) /\ s = 0
    <3>1. kept[m] = m /\ B = {m}
      BY <2>2, <2>6, <2>8, <2>11 DEF after
    <3>2. FirstCheapest(B, m)
      BY <3>1 DEF FirstCheapest
    <3> QED BY <2>1, <2>9, <3>1, <3>2 DEF m
  <2>12. CASE passes(m) /\ s # 0
    <3>1. s \in A /\ \A j \in A \ {s} : Cheaper(s, j)
      BY <2>8, <2>12 DEF FirstCheapest
    <3>2. B = A \cup {m} /\ s \in 1 .. n /\ s < m /\ s # m
      BY <2>6, <2>7, <2>12, <3>1
    <3>3. accepted[s].cost \in Int /\ accepted[m].cost \in Int /\ m \in 1 .. n
      BY <1>2, <2>4, <3>2
    <3>4. CASE accepted[m].cost < accepted[s].cost
      <4>1. kept[m] = m
        BY <2>2, <2>12, <3>4 DEF after
      <4>2. ASSUME NEW j \in A PROVE Cheaper(m, j)
        <5>1. accepted[s].cost <= accepted[j].cost
          <6>1. CASE j = s
            BY <3>3, <6>1
          <6>2. CASE j # s
            <7>1. Cheaper(s, j) /\ accepted[j].cost \in Int
              BY <1>2, <2>7, <3>1, <6>2
            <7> QED BY <3>3, <7>1 DEF Cheaper
          <6> QED BY <6>1, <6>2
        <5>2. accepted[j].cost \in Int
          BY <1>2, <2>7
        <5>3. accepted[m].cost < accepted[j].cost
          BY <3>3, <3>4, <5>1, <5>2
        <5> QED BY <5>3 DEF Cheaper
      <4>3. FirstCheapest(B, m)
        BY <3>2, <4>2 DEF FirstCheapest
      <4> QED BY <2>1, <2>9, <4>1, <4>3 DEF m
    <3>5. CASE ~(accepted[m].cost < accepted[s].cost)
      <4>1. kept[m] = s
        BY <2>2, <2>12, <3>5 DEF after
      <4>2. Cheaper(s, m)
        BY <3>2, <3>3, <3>5 DEF Cheaper
      <4>3. FirstCheapest(B, s)
        BY <3>1, <3>2, <4>2 DEF FirstCheapest
      <4> QED BY <2>9, <2>12, <4>1, <4>3 DEF m
    <3> QED BY <3>4, <3>5
  <2> QED BY <2>10, <2>11, <2>12
<1>15. \A k \in 0 .. n - 1 : k \in T => k + 1 \in T
  <2> HIDE DEF Right
  <2>1. \A k \in 0 .. n - 1 : k + 1 \in 0 .. n
    BY <1>2
  <2> QED BY <1>14, <2>1
<1>16. n \in T
  <2> HIDE DEF T
  <2>1. \A k \in 0 .. n : k \in T
    BY <1>2, <1>13, <1>15, UpTo
  <2> QED BY <1>2, <2>1
<1>17. Right(n, Online)
  BY <1>1, <1>16
<1> QED BY <1>3, <1>17
-----------------------------------------------------------------------------
(* The walk.                                                               *)

(* What TypeOK says, with the types of what is accepted; a line of one     *)
(* machine takes no step.                                                  *)
Walks ==
  /\ done \in 0 .. Iterations
  /\ accepted \in Seq(States)
  /\ Len(accepted) \in 1 .. done + 1
  /\ accepted[Len(accepted)].at = current
  /\ chosen = Unchosen \/ chosen \in {accepted[i].at : i \in DOMAIN accepted}
  /\ Len(Order) < 2 => done = 0

IInv == Stands /\ Walks

(* What a unit or a layout is depends on the line alone.                   *)
LEMMA FrameLaid ==
  ASSUME line' = line, NEW us, NEW L
  PROVE  LaidOut(us, L)' <=> LaidOut(us, L)
<1>1. Machine' = Machine /\ Machines' = Machines /\ Region' = Region /\ Reserved' = Reserved
  BY DEF Machine, Machines, MachineOrder, Region, Reserved
<1>2. ASSUME NEW m PROVE FrontsOutside(m)' <=> FrontsOutside(m)
  BY <1>1 DEF FrontsOutside, SuppliesPower, PortsOf
<1>3. ASSUME NEW u PROVE IsUnit(u)' <=> IsUnit(u)
  BY <1>1, <1>2 DEF IsUnit
<1>4. ASSUME NEW u, NEW f PROVE UnitSize(u, f)' = UnitSize(u, f)
  BY <1>1 DEF UnitSize
<1>5. ASSUME NEW u, NEW at PROVE UnitCells(u, at)' = UnitCells(u, at)
  BY <1>4 DEF UnitCells
<1>6. ASSUME NEW u, NEW at PROVE FeedOk(u, at)' <=> FeedOk(u, at)
  BY <1>1, <1>2, <1>4 DEF FeedOk, UnitOutside
<1>7. ASSUME NEW u, NEW at PROVE Sound(u, at)' <=> Sound(u, at)
  <2>1. UnitFacings(u)' = UnitFacings(u)
    BY <1>1 DEF UnitFacings
  <2> QED BY <1>1, <1>4, <1>5, <1>6, <2>1 DEF Sound
<1> QED BY <1>3, <1>5, <1>7 DEF LaidOut

LEMMA FrameCovered ==
  ASSUME line' = line, NEW L
  PROVE  Covered(L)' = Covered(L)
<1>1. Machine' = Machine
  BY DEF Machine
<1>2. ASSUME NEW m, NEW at PROVE Body(m, at)' = Body(m, at)
  BY <1>1 DEF Body
<1> QED BY <1>2 DEF Covered

LEMMA FrameStands ==
  ASSUME Stands, line' = line, units' = units,
         LaidOut(Range(units), current'), occupied' = Covered(current')
  PROVE  Stands'
<1>1. \A us, L : (LaidOut(us, L)' <=> LaidOut(us, L)) /\ Covered(L)' = Covered(L)
  BY FrameLaid, FrameCovered
<1>2. Machines' = Machines
  BY DEF Machines, MachineOrder
<1>3. LaidOut(Range(units), current)'
  BY <1>1 DEF LaidOut, Standing
<1>4. occupied' = Covered(current)'
  BY <1>1
<1> QED BY <1>2, <1>3, <1>4 DEF Stands

(* A layout that stands is legal, and one the walk may accept.             *)
LEMMA StandsLegal ==
  ASSUME Stands, NEW L, LaidOut(Range(units), L)
  PROVE  /\ Legal(L) /\ DOMAIN L = Machines /\ Cost(L) \in Int
         /\ [cost |-> Cost(L), at |-> L] \in States
<1>1. line \in Lines /\ MembersOf(Range(units)) = Machines
  BY DEF Stands
<1>2. Legal(L) /\ L \in [Machines -> Pose]
  BY <1>1, LaidLegal
<1>3. Partial(L) /\ DOMAIN L = Machines
  BY <1>2 DEF Partial
<1>4. Cost(L) \in Int
  BY <1>1, <1>3, CostType
<1>5. Machines \in SUBSET AnyMachine
  BY <1>1, LineFacts DEF AnyMachine, Machine
<1>6. L \in UNION {[D -> Pose] : D \in SUBSET AnyMachine}
  BY <1>2, <1>5
<1> QED BY <1>2, <1>3, <1>4, <1>6 DEF States

LEMMA InvariantInit == Init => IInv
<1> SUFFICES ASSUME Init PROVE IInv
  OBVIOUS
<1> DEFINE L == Seeds[line.id].at
<1>1. /\ line \in Lines /\ Legal(L) /\ units = UnitsOf(Order, L) /\ current = L
      /\ occupied = Covered(L) /\ accepted = <<[cost |-> Cost(L), at |-> L]>>
      /\ done = 0 /\ chosen = Unchosen
  BY DEF Init
<1>2. L \in [Machines -> Pose]
  <2>1. L \in [DOMAIN line.machine -> Pose]
    BY <1>1, SeedAssumption
  <2>2. Machines = DOMAIN line.machine
    BY <1>1, LineFacts DEF Machine
  <2> QED BY <2>1, <2>2
<1> HIDE DEF L
<1>3. /\ Listed(units) /\ \A i, j \in DOMAIN units : units[i] = units[j] => i = j
      /\ MembersOf(Range(units)) = Machines
      /\ \A u \in Range(units) : IsUnit(u) /\ Standing(u, L) /\ UnitPose(u, L) \in Pose
      /\ \A u, v \in Range(units) : u # v => Range(u) \cap Range(v) = {}
  BY <1>1, <1>2, UnitsAre
<1>4. LaidOut(Range(units), L)
  BY <1>1, <1>2, <1>3, LegalLaid
<1>5. Stands
  BY <1>1, <1>3, <1>4 DEF Stands
<1>6. [cost |-> Cost(L), at |-> L] \in States
  BY <1>4, <1>5, StandsLegal
<1>7. Walks
  <2> DEFINE s == [cost |-> Cost(L), at |-> L]
  <2>1. s.at = current /\ s \in States /\ accepted = <<s>>
    BY <1>1, <1>6
  <2> HIDE DEF s
  <2>2. accepted \in Seq(States) /\ Len(accepted) = 1 /\ accepted[1] = s
    BY <2>1
  <2> QED BY <1>1, <2>1, <2>2, IterationsAssumption DEF Walks
<1> QED BY <1>5, <1>7 DEF IInv

(* Every move proposes a sound layout, or none.                            *)
LEMMA MovesLaid ==
  ASSUME Stands, NEW next \in Relocate \cup Nudge \cup Swap \cup Reorientations \cup RuinAndRecreate
  PROVE  next = NoMove \/ LaidOut(Range(units), next)
<1>1. CASE next \in Relocate
  BY <1>1, RelocateLaid
<1>2. CASE next \in Nudge
  BY <1>2, NudgeLaid
<1>3. CASE next \in Swap
  BY <1>3, SwapLaid
<1>4. CASE next \in Reorientations
  BY <1>4, ReorientLaid
<1>5. CASE next \in RuinAndRecreate
  BY <1>5, RuinLaid
<1> QED BY <1>1, <1>2, <1>3, <1>4, <1>5

LEMMA RefuseKeeps ==
  ASSUME IInv, Walking, Refuse, done' = done + 1, UNCHANGED <<line, units, chosen>>
  PROVE  IInv'
<1>1. current' = current /\ occupied' = occupied /\ accepted' = accepted
  BY DEF Refuse
<1>2. Stands'
  BY <1>1, FrameStands DEF IInv, Stands
<1>3. Order' = Order
  BY DEF Order
<1>4. done \in 0 .. Iterations /\ done < Iterations /\ Len(accepted) \in 1 .. done + 1 /\ ~(Len(Order) < 2)
  <2>1. Len(Order) \in Nat
    <3>1. Listed(Order)
      BY SeedAssumption DEF IInv, Stands, Order
    <3> QED BY <3>1, ListedFinite
  <2> QED BY <2>1 DEF IInv, Walks, Walking
<1>5. done' \in 0 .. Iterations /\ Len(accepted) \in 1 .. done' + 1
  BY <1>4, IterationsAssumption
<1>6. Walks'
  BY <1>1, <1>3, <1>4, <1>5 DEF IInv, Walks
<1> QED BY <1>2, <1>6 DEF IInv

LEMMA AcceptKeeps ==
  ASSUME IInv, Walking, NEW next, LaidOut(Range(units), next), Accept(next, Cost(next)),
         done' = done + 1, UNCHANGED <<line, units, chosen>>
  PROVE  IInv'
<1> DEFINE s == [cost |-> Cost(next), at |-> next]
<1>1. Stands /\ Walks /\ line \in Lines /\ occupied = Covered(current) /\ LaidOut(Range(units), current)
  BY DEF IInv, Stands
<1>2. Legal(current) /\ DOMAIN current = Machines /\ DOMAIN next = Machines /\ s \in States
  BY <1>1, StandsLegal
<1>3. current' = next /\ occupied' = OccupiedAfter(next) /\ accepted' = Append(accepted, s)
  BY DEF Accept
<1>4. occupied' = Covered(next)
  <2>1. \A a, b \in Machines : a # b => Body(a, current[a]) \cap Body(b, current[b]) = {}
    BY <1>2 DEF Legal
  <2> QED BY <1>1, <1>2, <1>3, <2>1, OccupiedFollows
<1>5. Stands'
  BY <1>1, <1>3, <1>4, FrameStands
<1>6. Order' = Order /\ chosen' = chosen /\ chosen = Unchosen
  BY DEF Order, Walking
<1>7. ~(Len(Order) < 2)
  <2>1. Len(Order) \in Nat
    <3>1. Listed(Order)
      BY <1>1, SeedAssumption DEF Order
    <3> QED BY <3>1, ListedFinite
  <2> QED BY <2>1 DEF Walking
<1>8. s.at = next
  OBVIOUS
<1> HIDE DEF s
<1> DEFINE n == Len(accepted)
<1>9. accepted \in Seq(States) /\ n \in Nat
  BY <1>1 DEF Walks
<1>10. accepted' \in Seq(States) /\ Len(accepted') = n + 1 /\ accepted'[n + 1] = s
  BY <1>2, <1>3, <1>9
<1>11. done \in 0 .. Iterations /\ done < Iterations /\ n \in 1 .. done + 1
  BY <1>1 DEF Walks, Walking
<1> HIDE DEF n
<1>12. done' \in 0 .. Iterations /\ n + 1 \in 1 .. done' + 1
  BY <1>9, <1>11, IterationsAssumption
<1>13. Walks'
  BY <1>3, <1>6, <1>7, <1>8, <1>10, <1>12 DEF Walks
<1> QED BY <1>5, <1>13 DEF IInv

(* What is handed back is one of the accepted states, the one asking       *)
(* online would have kept.                                                 *)
LEMMA ChooseIs ==
  ASSUME IInv, Choose
  PROVE  /\ chosen' \in {accepted[i].at : i \in DOMAIN accepted}
         /\ chosen' = accepted[IF Online # 0 THEN Online ELSE Min(Lowest)].at
<1> DEFINE n == Len(accepted)
           pick == IF Online # 0 THEN Online ELSE Min(Lowest)
<1>1. /\ accepted \in Seq(States) /\ accepted # <<>> /\ n \in 1 .. done + 1 /\ done \in Nat
      /\ accepted[n].at = current
      /\ Len(Order) < 2 => done = 0
  <2>1. /\ accepted \in Seq(States) /\ n \in 1 .. done + 1 /\ done \in 0 .. Iterations
        /\ accepted[n].at = current /\ (Len(Order) < 2 => done = 0)
    BY DEF IInv, Walks
  <2>2. n # 0
    BY <2>1
  <2> QED BY <2>1, <2>2
<1>2. DOMAIN accepted = 1 .. n /\ Uncrowded \in SUBSET DOMAIN accepted
  BY <1>1, AcceptedIs DEF Uncrowded
<1>3. /\ Online = 0 => Uncrowded = {} /\ FirstCheapest(DOMAIN accepted, pick)
      /\ Online # 0 => FirstCheapest(Uncrowded, pick)
  BY <1>1, OnlineIs, LowestIs
<1>4. pick \in DOMAIN accepted
  <2>1. CASE Online = 0
    BY <1>3, <2>1 DEF FirstCheapest
  <2>2. CASE Online # 0
    <3> HIDE DEF pick
    <3> QED BY <1>2, <1>3, <2>2 DEF FirstCheapest
  <2> QED BY <2>1, <2>2
<1> HIDE DEF pick
<1>5. FirstCheapest(AllOr(Uncrowded), pick)
  <2>1. CASE Online = 0
    BY <1>3, <2>1 DEF AllOr
  <2>2. CASE Online # 0
    <3>1. Uncrowded # {}
      BY <1>3, <2>2 DEF FirstCheapest
    <3> QED BY <1>3, <2>2, <3>1 DEF AllOr
  <2> QED BY <2>1, <2>2
<1>6. CheapestUncrowded = accepted[pick].at
  <2>1. AllOr(Uncrowded) \in SUBSET DOMAIN accepted
    BY <1>2 DEF AllOr
  <2>2. CheapestOf(AllOr(Uncrowded)) = accepted[pick].at
    BY <1>1, <1>5, <2>1, CheapestIs
  <2> QED BY <2>2 DEF CheapestUncrowded, Uncrowded
<1>7. Len(Order) < 2 => current = accepted[pick].at
  <2> SUFFICES ASSUME Len(Order) < 2 PROVE current = accepted[pick].at
    OBVIOUS
  <2>1. n = 1
    <3>1. done = 0 /\ n \in 1 .. done + 1
      BY <1>1
    <3> HIDE DEF n
    <3> QED BY <3>1
  <2>2. pick = 1
    <3> HIDE DEF n
    <3> QED BY <1>2, <1>4, <2>1
  <2> QED BY <1>1, <2>1, <2>2
<1>8. chosen' = accepted[pick].at
  BY <1>6, <1>7 DEF Choose
<1> QED BY <1>4, <1>8 DEF pick

LEMMA InvariantNext == IInv /\ [Next]_vars => IInv'
<1> SUFFICES ASSUME IInv, [Next]_vars PROVE IInv'
  OBVIOUS
<1>1. CASE Move
  <2>1. PICK next \in Relocate \cup Nudge \cup Swap \cup Reorientations \cup RuinAndRecreate : Consider(next)
    BY <1>1 DEF Move
  <2>2. Walking /\ done' = done + 1 /\ UNCHANGED <<line, units, chosen>>
    BY <1>1, <2>1 DEF Move, Consider
  <2>3. next = NoMove \/ LaidOut(Range(units), next)
    BY <2>1, MovesLaid DEF IInv
  <2>4. CASE Refuse
    BY <2>2, <2>4, RefuseKeeps
  <2>5. CASE ~Refuse
    <3>1. next # NoMove /\ Accept(next, Cost(next))
      BY <2>1, <2>5 DEF Consider
    <3> QED BY <2>2, <2>3, <3>1, AcceptKeeps
  <2> QED BY <2>4, <2>5
<1>2. CASE Choose
  <2>1. UNCHANGED <<line, units, current, occupied, accepted, done>>
    BY <1>2 DEF Choose
  <2>2. Stands'
    BY <2>1, FrameStands DEF IInv, Stands
  <2>3. chosen' \in {accepted[i].at : i \in DOMAIN accepted}
    BY <1>2, ChooseIs
  <2>4. Order' = Order
    BY <2>1 DEF Order
  <2> QED BY <2>1, <2>2, <2>3, <2>4 DEF IInv, Walks
<1>3. CASE UNCHANGED vars
  <2>1. UNCHANGED <<line, units, current, occupied, accepted, done, chosen>>
    BY <1>3 DEF vars
  <2>2. Stands'
    BY <2>1, FrameStands DEF IInv, Stands
  <2>3. Order' = Order
    BY <2>1 DEF Order
  <2> QED BY <2>1, <2>2, <2>3 DEF IInv, Walks
<1> QED BY <1>1, <1>2, <1>3 DEF Next

LEMMA InvariantImplies == IInv => LayoutsLegal /\ OccupiedExact /\ ColumnsStayRigid /\ EarlyOutChangesNothing
<1> SUFFICES ASSUME IInv PROVE LayoutsLegal /\ OccupiedExact /\ ColumnsStayRigid /\ EarlyOutChangesNothing
  OBVIOUS
<1>1. Stands /\ Walks /\ LaidOut(Range(units), current)
  BY DEF IInv, Stands
<1>2. LayoutsLegal
  <2>1. TypeOK
    BY <1>1 DEF Stands, Walks, TypeOK
  <2> QED BY <1>1, <2>1, StandsLegal DEF LayoutsLegal
<1>3. OccupiedExact
  BY <1>1 DEF Stands, OccupiedExact
<1>4. ColumnsStayRigid
  <2> SUFFICES ASSUME NEW u \in Range(units), Len(u) > 1 PROVE LaidAsColumn(u, current)
    BY DEF ColumnsStayRigid
  <2>1. IsUnit(u) /\ Standing(u, current) /\ UnitPose(u, current) \in Pose
    BY <1>1, StandsUnits DEF Sound
  <2> QED BY <1>1, <2>1, StandingColumn DEF Stands
<1>5. EarlyOutChangesNothing
  BY <1>1, EarlyOutStands
<1> QED BY <1>2, <1>3, <1>4, <1>5

(* The units partition the line, stand soundly and apart, and cover what   *)
(* the walk keeps as occupied: this holds at first and every step of       *)
(* search.py's walk keeps it.                                              *)
THEOREM AnnealerInductive == Spec => []IInv
<1>1. Init => IInv
  BY InvariantInit
<1>2. IInv /\ [Next]_vars => IInv'
  BY InvariantNext
<1> QED BY <1>1, <1>2, PTL DEF Spec

(* Whatever is drawn, however a cluster is ruined and put back, the walk   *)
(* holds legal layouts alone, and hands back one it held.                  *)
THEOREM LayoutsAlwaysLegal == Spec => []LayoutsLegal
<1>1. IInv => LayoutsLegal
  BY InvariantImplies
<1> QED BY <1>1, AnnealerInductive, PTL

(* The occupied set kept up by deltas is the one a rebuild would give      *)
(* (_apply_occupied_delta against _occupied).                             *)
THEOREM OccupiedAlwaysExact == Spec => []OccupiedExact
<1>1. IInv => OccupiedExact
  BY InvariantImplies
<1> QED BY <1>1, AnnealerInductive, PTL

(* The members of a bank stay a column, head first, under every move.      *)
THEOREM ColumnsAlwaysRigid == Spec => []ColumnsStayRigid
<1>1. IInv => ColumnsStayRigid
  BY InvariantImplies
<1> QED BY <1>1, AnnealerInductive, PTL

(* Scores cut short by the early-out of _marginal_insertion_cost pick      *)
(* the spot full scores would pick, in every state and for every unit.     *)
THEOREM EarlyOutSound == Spec => []EarlyOutChangesNothing
<1>1. IInv => EarlyOutChangesNothing
  BY InvariantImplies
<1> QED BY <1>1, AnnealerInductive, PTL

(* Asking the crowding gate once the walk is over hands back the state     *)
(* asking at every new low would have kept (_cheapest_uncrowded).          *)
THEOREM OnlineChoice == Spec => ChosenIsTheOnlineChoice
<1> DEFINE A == chosen' # chosen =>
                  \E kept \in {Online} : chosen' = accepted[IF kept # 0 THEN kept ELSE Min(Lowest)].at
<1>1. IInv /\ [Next]_vars => [A]_vars
  <2> SUFFICES ASSUME IInv, [Next]_vars PROVE [A]_vars
    OBVIOUS
  <2>1. CASE Move
    <3>1. chosen' = chosen
      BY <2>1 DEF Move, Consider
    <3> QED BY <3>1
  <2>2. CASE Choose
    <3>1. chosen' = accepted[IF Online # 0 THEN Online ELSE Min(Lowest)].at
      BY <2>2, ChooseIs
    <3>2. A
      BY <3>1
    <3> QED BY <3>2
  <2>3. CASE UNCHANGED vars
    BY <2>3
  <2> QED BY <2>1, <2>2, <2>3 DEF Next
<1>2. Spec => [][A]_vars
  BY <1>1, AnnealerInductive, PTL DEF Spec
<1> QED BY <1>2 DEF ChosenIsTheOnlineChoice
-----------------------------------------------------------------------------
(* The search of an augmenting path.                                       *)

(* Of finitely many cells one is the first.                                *)
LEMMA FirstCellIs ==
  ASSUME NEW S, S \subseteq Triple, IsFiniteSet(S), S # {}
  PROVE  FirstCell(S) \in S
<1> DEFINE before(x) == {y \in S : CellLess(y, x)}
           sizes == {Cardinality(before(x)) : x \in S}
<1>1. \A t \in S : t = <<t[1], t[2], t[3]>> /\ t[1] \in Int /\ t[2] \in Int /\ t[3] \in Int
  BY TripleIs
<1>2. \A x \in S : IsFiniteSet(before(x)) /\ Cardinality(before(x)) \in Nat
  BY FS_Subset, FS_CardinalityType
<1>3. PICK x \in S : \A y \in S : Cardinality(before(x)) <= Cardinality(before(y))
  <2>1. sizes \subseteq Nat /\ sizes # {} /\ \A k \in sizes : \E x \in S : k = Cardinality(before(x))
    BY <1>2
  <2>2. \A x \in S : Cardinality(before(x)) \in sizes
    OBVIOUS
  <2> HIDE DEF before, sizes
  <2>3. PICK k \in sizes : \A l \in sizes : k <= l
    BY <2>1, LeastNat
  <2> QED BY <2>1, <2>2, <2>3
<1>4. ASSUME NEW y \in S, x # y PROVE CellLess(x, y)
  <2>1. SUFFICES ASSUME CellLess(y, x) PROVE FALSE
    <3>1. x[1] # y[1] \/ x[2] # y[2] \/ x[3] # y[3]
      BY <1>1, <1>4
    <3>2. /\ x[1] \in Int /\ x[2] \in Int /\ x[3] \in Int
          /\ y[1] \in Int /\ y[2] \in Int /\ y[3] \in Int
      BY <1>1
    <3> QED BY <3>1, <3>2 DEF CellLess
  <2>2. before(y) \cup {y} \subseteq before(x) /\ y \notin before(y)
    <3>1. ASSUME NEW z \in S, CellLess(z, y) PROVE CellLess(z, x)
      BY <1>1, <2>1, <3>1 DEF CellLess
    <3>2. ~CellLess(y, y)
      BY <1>1 DEF CellLess
    <3> QED BY <2>1, <3>1, <3>2
  <2>3. Cardinality(before(y) \cup {y}) = Cardinality(before(y)) + 1
    BY <1>2, <2>2, FS_AddElement
  <2>4. Cardinality(before(y) \cup {y}) <= Cardinality(before(x))
    BY <1>2, <2>2, FS_Subset
  <2> HIDE DEF before
  <2> QED BY <1>2, <1>3, <2>3, <2>4
<1> QED BY <1>4 DEF FirstCell

(* Lists of cells to choose from: one list per demand, of the same cells   *)
(* a finite floor has.                                                     *)
CellsIn(options) == UNION Range(options)
IsChoice(options) ==
  /\ options \in Seq(SUBSET Triple)
  /\ CellsIn(options) \subseteq Triple /\ IsFiniteSet(CellsIn(options))

LEMMA ChoiceIs ==
  ASSUME NEW options, IsChoice(options)
  PROVE  /\ Len(options) \in Nat /\ DOMAIN options = 1 .. Len(options)
         /\ \A d \in DOMAIN options : options[d] \subseteq CellsIn(options)
         /\ Cardinality(CellsIn(options)) \in Nat
<1>1. Len(options) \in Nat /\ DOMAIN options = 1 .. Len(options)
  BY DEF IsChoice
<1>2. \A d \in DOMAIN options : options[d] \in Range(options)
  BY DEF Range
<1>3. Cardinality(CellsIn(options)) \in Nat
  BY FS_CardinalityType DEF IsChoice
<1> QED BY <1>1, <1>2, <1>3 DEF CellsIn

Seatings(options) == [CellsIn(options) -> 0 .. Len(options)]
Frames(options) == [d : DOMAIN options, left : SUBSET CellsIn(options),
                    taken : Seatings(options), seen : SUBSET CellsIn(options)]
Finds(options) == [ok : BOOLEAN, taken : Seatings(options), seen : SUBSET CellsIn(options)]

(* What the search does on a frame, f giving what it does on others.       *)
Search(f, at, options) ==
  IF at.left = {} THEN [ok |-> FALSE, taken |-> at.taken, seen |-> at.seen]
  ELSE LET c == FirstCell(at.left)
           others == [at EXCEPT !.left = @ \ {c}]
           moved == f[[d |-> at.taken[c], left |-> options[at.taken[c]],
                       taken |-> at.taken, seen |-> at.seen \cup {c}]]
       IN IF c \in at.seen THEN f[others]
          ELSE IF at.taken[c] = Nobody
               THEN [ok |-> TRUE, taken |-> [at.taken EXCEPT ![c] = at.d], seen |-> at.seen]
          ELSE IF moved.ok THEN [moved EXCEPT !.taken[c] = at.d]
          ELSE f[[others EXCEPT !.seen = moved.seen]]

(* Nobody holds two cells, and the demand none but those already seen.     *)
Seatable(options, at) ==
  /\ \A x, y \in CellsIn(options) : at.taken[x] = at.taken[y] /\ at.taken[x] # 0 => x = y
  /\ \A x \in CellsIn(options) : at.taken[x] = at.d => x \in at.seen

(* A path found moves no cell that was seen, seats none twice, and seats   *)
(* but the demand and those that were seated.                              *)
Reseats(options, at, taken) ==
  /\ \A x \in at.seen : taken[x] = at.taken[x]
  /\ \A x, y \in CellsIn(options) :
        taken[x] = taken[y] /\ taken[x] # 0 => x = y \/ (taken[x] = at.d /\ (x \in at.seen \/ y \in at.seen))
  /\ \A x \in CellsIn(options) :
        taken[x] = 0 \/ taken[x] = at.d \/ \E y \in CellsIn(options) : taken[x] = at.taken[y]

(* A search that fails has seen all its demand may take, and each cell it  *)
(* came to see has a holder who may take only what was seen.               *)
Closed(options, at, seen) ==
  /\ at.seen \subseteq seen /\ at.left \subseteq seen
  /\ \A x \in seen \ at.seen : at.taken[x] # 0 /\ options[at.taken[x]] \subseteq seen

Right(options, at, r) ==
  /\ r \in Finds(options)
  /\ ~r.ok => Closed(options, at, r.seen)
  /\ r.ok /\ Seatable(options, at) => Reseats(options, at, r.taken)

(* How much of a search is left.                                           *)
Toll(options, at) ==
  Cardinality(CellsIn(options) \ at.seen) * (Cardinality(CellsIn(options)) + 1) + Cardinality(at.left)

LEMMA Weighs ==
  ASSUME NEW a \in Nat, NEW b \in Nat, NEW m \in Nat, NEW x \in Nat, NEW y \in Nat, x < m, a < b
  PROVE  a * m + x < b * m + y
<1>1. PICK t \in Nat : b = a + 1 + t
  <2>1. b - a - 1 \in Nat /\ b = a + 1 + (b - a - 1)
    OBVIOUS
  <2> QED BY <2>1
<1>2. b * m = a * m + m + t * m
  BY <1>1
<1>3. t * m \in Nat /\ a * m \in Nat
  OBVIOUS
<1> QED BY <1>2, <1>3

LEMMA TollIs ==
  ASSUME NEW options, IsChoice(options), NEW at \in Frames(options)
  PROVE  /\ Toll(options, at) \in Nat
         /\ Toll(options, at) < (Cardinality(CellsIn(options)) + 1) * (Cardinality(CellsIn(options)) + 1)
         /\ \A b \in Frames(options) :
              \/ b.seen = at.seen /\ b.left \subseteq at.left /\ b.left # at.left
              \/ at.seen \subseteq b.seen /\ b.seen # at.seen
              => Toll(options, b) < Toll(options, at)
<1> DEFINE C == CellsIn(options)
           n == Cardinality(C)
           free(b) == Cardinality(C \ b.seen)
           size(b) == Cardinality(b.left)
<1>1. n \in Nat /\ IsFiniteSet(C)
  BY ChoiceIs DEF IsChoice
<1>2. \A b \in Frames(options) : b.seen \subseteq C /\ b.left \subseteq C
  BY DEF Frames
<1>3. \A b \in Frames(options) : IsFiniteSet(C \ b.seen) /\ IsFiniteSet(b.left)
  BY <1>1, <1>2, FS_Subset
<1>4. \A b \in Frames(options) : free(b) \in Nat /\ free(b) <= n /\ size(b) \in Nat /\ size(b) <= n
  <2> TAKE b \in Frames(options)
  <2>1. C \ b.seen \in SUBSET C /\ b.left \in SUBSET C
    BY <1>2
  <2> QED BY <1>1, <1>3, <2>1, FS_Subset, FS_CardinalityType
<1>5. \A b \in Frames(options) : Toll(options, b) = free(b) * (n + 1) + size(b)
  BY DEF Toll
<1> HIDE DEF n
<1>6. ASSUME NEW b \in Frames(options), b.seen = at.seen, b.left \subseteq at.left, b.left # at.left
      PROVE  Toll(options, b) < Toll(options, at)
  <2>1. size(b) < size(at)
    <3>1. IsFiniteSet(at.left) /\ b.left \in SUBSET at.left
      BY <1>3, <1>6
    <3>2. size(b) <= size(at) /\ (size(b) = size(at) => b.left = at.left)
      BY <3>1, FS_Subset
    <3> HIDE DEF free, size
    <3> QED BY <1>4, <1>6, <3>2
  <2>2. free(b) = free(at)
    BY <1>6
  <2> HIDE DEF free, size
  <2>3. free(at) \in Nat /\ free(at) * (n + 1) \in Nat /\ size(b) \in Nat /\ size(at) \in Nat
    BY <1>1, <1>4
  <2>4. /\ Toll(options, b) = free(at) * (n + 1) + size(b)
        /\ Toll(options, at) = free(at) * (n + 1) + size(at)
    BY <1>5, <2>2
  <2> QED BY <2>1, <2>3, <2>4
<1>7. ASSUME NEW b \in Frames(options), at.seen \subseteq b.seen, b.seen # at.seen
      PROVE  Toll(options, b) < Toll(options, at)
  <2>1. free(b) < free(at)
    <3>1. C \ b.seen \in SUBSET (C \ at.seen) /\ C \ b.seen # C \ at.seen
      BY <1>2, <1>7
    <3>2. free(b) <= free(at) /\ (free(b) = free(at) => C \ b.seen = C \ at.seen)
      BY <1>3, <3>1, FS_Subset
    <3> HIDE DEF free, size
    <3> QED BY <1>4, <3>1, <3>2
  <2> HIDE DEF free, size
  <2>2. /\ free(b) \in Nat /\ free(at) \in Nat /\ size(b) \in Nat /\ size(at) \in Nat
        /\ n + 1 \in Nat /\ size(b) < n + 1
    BY <1>1, <1>4
  <2>3. free(b) * (n + 1) + size(b) < free(at) * (n + 1) + size(at)
    BY <2>1, <2>2, Weighs
  <2> QED BY <1>5, <2>3
<1>8. Toll(options, at) \in Nat /\ Toll(options, at) < (n + 1) * (n + 1)
  <2> HIDE DEF free, size
  <2>1. /\ free(at) \in Nat /\ size(at) \in Nat /\ n + 1 \in Nat
        /\ free(at) < n + 1 /\ size(at) < n + 1
    BY <1>1, <1>4
  <2>2. free(at) * (n + 1) \in Nat /\ (n + 1) * (n + 1) \in Nat
    BY <2>1
  <2>3. free(at) * (n + 1) + size(at) < (n + 1) * (n + 1) + 0
    BY <2>1, Weighs
  <2> QED BY <1>5, <2>1, <2>2, <2>3
<1> QED BY <1>6, <1>7, <1>8 DEF n

(* The frames a search looks into: each is one with less left.             *)
Deeper(at, c, options) ==
  [d |-> at.taken[c], left |-> options[at.taken[c]], taken |-> at.taken, seen |-> at.seen \cup {c}]
Skipping(at, c, seen) == [d |-> at.d, left |-> at.left \ {c}, taken |-> at.taken, seen |-> seen]

LEMMA FrameIs ==
  ASSUME NEW options, IsChoice(options), NEW at \in Frames(options)
  PROVE  /\ at = [d |-> at.d, left |-> at.left, taken |-> at.taken, seen |-> at.seen]
         /\ at.d \in DOMAIN options /\ at.taken \in Seatings(options)
         /\ at.left \subseteq CellsIn(options) /\ at.seen \subseteq CellsIn(options)
         /\ at.left # {} => FirstCell(at.left) \in at.left
<1>1. /\ at.d \in DOMAIN options /\ at.taken \in Seatings(options)
      /\ at.left \subseteq CellsIn(options) /\ at.seen \subseteq CellsIn(options)
      /\ at = [d |-> at.d, left |-> at.left, taken |-> at.taken, seen |-> at.seen]
  BY DEF Frames
<1>2. at.left \subseteq Triple /\ IsFiniteSet(at.left)
  BY <1>1, FS_Subset DEF IsChoice
<1> QED BY <1>1, <1>2, FirstCellIs

LEMMA DeeperIs ==
  ASSUME NEW options, IsChoice(options), NEW at \in Frames(options), NEW c \in at.left
  PROVE  /\ c \notin at.seen /\ at.taken[c] # 0 =>
              /\ at.taken[c] \in DOMAIN options
              /\ Deeper(at, c, options) \in Frames(options)
              /\ Toll(options, Deeper(at, c, options)) < Toll(options, at)
         /\ \A seen \in SUBSET CellsIn(options) : at.seen \subseteq seen =>
              /\ Skipping(at, c, seen) \in Frames(options)
              /\ Toll(options, Skipping(at, c, seen)) < Toll(options, at)
<1> DEFINE C == CellsIn(options)
<1>1. /\ at.d \in DOMAIN options /\ at.taken \in Seatings(options)
      /\ at.left \subseteq C /\ at.seen \subseteq C
  BY FrameIs
<1>2. ASSUME c \notin at.seen, at.taken[c] # 0
      PROVE  /\ at.taken[c] \in DOMAIN options
             /\ Deeper(at, c, options) \in Frames(options)
             /\ Toll(options, Deeper(at, c, options)) < Toll(options, at)
  <2> DEFINE b == Deeper(at, c, options)
  <2>1. at.taken[c] \in 0 .. Len(options) /\ DOMAIN options = 1 .. Len(options) /\ Len(options) \in Nat
    BY <1>1, ChoiceIs DEF Seatings
  <2>2. at.taken[c] \in DOMAIN options
    BY <1>2, <2>1
  <2>3. options[at.taken[c]] \subseteq C
    BY <2>2, ChoiceIs
  <2>4. b \in Frames(options)
    BY <1>1, <2>2, <2>3 DEF Deeper, Frames
  <2>5. at.seen \subseteq b.seen /\ b.seen # at.seen
    BY <1>2 DEF Deeper
  <2> HIDE DEF b
  <2>6. Toll(options, b) < Toll(options, at)
    BY <2>4, <2>5, TollIs
  <2> QED BY <2>2, <2>4, <2>6 DEF b
<1>3. ASSUME NEW seen \in SUBSET C, at.seen \subseteq seen
      PROVE  /\ Skipping(at, c, seen) \in Frames(options)
             /\ Toll(options, Skipping(at, c, seen)) < Toll(options, at)
  <2> DEFINE b == Skipping(at, c, seen)
  <2>1. b \in Frames(options)
    BY <1>1 DEF Skipping, Frames
  <2>2. /\ b.seen = seen /\ b.left \subseteq at.left /\ b.left # at.left
    BY DEF Skipping
  <2> HIDE DEF b
  <2>3. Toll(options, b) < Toll(options, at)
    BY <1>3, <2>1, <2>2, TollIs
  <2> QED BY <2>1, <2>3 DEF b
<1> QED BY <1>2, <1>3

(* What is done on a frame, case by case.                                  *)
LEMMA SearchIs ==
  ASSUME NEW options, IsChoice(options), NEW at \in Frames(options), NEW f, NEW c, c = FirstCell(at.left)
  PROVE  /\ at.left = {} => Search(f, at, options) = [ok |-> FALSE, taken |-> at.taken, seen |-> at.seen]
         /\ at.left # {} /\ c \in at.seen => Search(f, at, options) = f[Skipping(at, c, at.seen)]
         /\ at.left # {} /\ c \notin at.seen /\ at.taken[c] = 0 =>
              Search(f, at, options) = [ok |-> TRUE, taken |-> [at.taken EXCEPT ![c] = at.d], seen |-> at.seen]
         /\ at.left # {} /\ c \notin at.seen /\ at.taken[c] # 0 /\ f[Deeper(at, c, options)].ok =>
              Search(f, at, options) = [f[Deeper(at, c, options)] EXCEPT !.taken[c] = at.d]
         /\ at.left # {} /\ c \notin at.seen /\ at.taken[c] # 0 /\ ~f[Deeper(at, c, options)].ok =>
              Search(f, at, options) = f[Skipping(at, c, f[Deeper(at, c, options)].seen)]
<1>1. at = [d |-> at.d, left |-> at.left, taken |-> at.taken, seen |-> at.seen]
  BY FrameIs
<1>2. [at EXCEPT !.left = @ \ {c}] = Skipping(at, c, at.seen)
  BY <1>1 DEF Skipping
<1>3. \A s : [[at EXCEPT !.left = @ \ {c}] EXCEPT !.seen = s] = Skipping(at, c, s)
  <2> TAKE s
  <2>1. [Skipping(at, c, at.seen) EXCEPT !.seen = s] = Skipping(at, c, s)
    BY DEF Skipping
  <2> QED BY <1>2, <2>1
<1>4. CASE at.left = {}
  BY <1>4 DEF Search
<1>5. CASE at.left # {}
  <2>1. Search(f, at, options)
          = IF c \in at.seen THEN f[Skipping(at, c, at.seen)]
            ELSE IF at.taken[c] = 0
                 THEN [ok |-> TRUE, taken |-> [at.taken EXCEPT ![c] = at.d], seen |-> at.seen]
            ELSE IF f[Deeper(at, c, options)].ok THEN [f[Deeper(at, c, options)] EXCEPT !.taken[c] = at.d]
            ELSE f[Skipping(at, c, f[Deeper(at, c, options)].seen)]
    BY <1>2, <1>3, <1>5, Zenon DEF Search, Deeper, Nobody
  <2> QED BY <1>5, <2>1
<1> QED BY <1>4, <1>5

LEMMA SearchRight ==
  ASSUME NEW options, IsChoice(options), NEW at \in Frames(options), NEW f,
         \A b \in Frames(options) : Toll(options, b) < Toll(options, at) => Right(options, b, f[b])
  PROVE  Right(options, at, Search(f, at, options))
<1> DEFINE C == CellsIn(options)
           c == FirstCell(at.left)
           r == Search(f, at, options)
<1> SUFFICES Right(options, at, r)
  OBVIOUS
<1>1. /\ at.d \in DOMAIN options /\ at.taken \in Seatings(options)
      /\ at.left \subseteq C /\ at.seen \subseteq C
      /\ at.left # {} => c \in at.left
  BY FrameIs
<1>2. \A x \in C : at.taken[x] \in 0 .. Len(options)
  BY <1>1 DEF Seatings
<1>3. CASE at.left = {}
  <2>1. r = [ok |-> FALSE, taken |-> at.taken, seen |-> at.seen]
    BY <1>3, SearchIs
  <2>2. r \in Finds(options) /\ ~r.ok /\ r.seen = at.seen
    BY <1>1, <2>1 DEF Finds
  <2> HIDE DEF r
  <2> QED BY <1>3, <2>2 DEF Right, Closed
<1>4. CASE at.left # {} /\ c \in at.seen
  <2> DEFINE b == Skipping(at, c, at.seen)
  <2>1. r = f[b]
    BY <1>4, SearchIs
  <2>2. b \in Frames(options) /\ Right(options, b, f[b])
    BY <1>1, <1>4, DeeperIs
  <2>3. b.d = at.d /\ b.left = at.left \ {c} /\ b.taken = at.taken /\ b.seen = at.seen
    BY DEF Skipping
  <2> HIDE DEF r, b, c
  <2>4. Closed(options, b, r.seen) => Closed(options, at, r.seen)
    BY <1>4, <2>3 DEF Closed
  <2>5. Seatable(options, at) => Seatable(options, b)
    BY <2>3 DEF Seatable
  <2>6. Reseats(options, b, r.taken) => Reseats(options, at, r.taken)
    BY <2>3 DEF Reseats
  <2> QED BY <2>1, <2>2, <2>4, <2>5, <2>6 DEF Right
<1>5. CASE at.left # {} /\ c \notin at.seen /\ at.taken[c] = 0
  <2> DEFINE taken == [at.taken EXCEPT ![c] = at.d]
  <2>1. r = [ok |-> TRUE, taken |-> taken, seen |-> at.seen]
    BY <1>5, SearchIs
  <2>2. c \in C /\ at.d \in 1 .. Len(options)
    BY <1>1, <1>5, ChoiceIs
  <2>3. taken \in Seatings(options) /\ taken[c] = at.d /\ \A x \in C \ {c} : taken[x] = at.taken[x]
    BY <1>1, <2>2 DEF Seatings
  <2>4. r \in Finds(options) /\ r.ok /\ r.taken = taken
    BY <1>1, <2>1, <2>3 DEF Finds
  <2>5. ASSUME Seatable(options, at) PROVE Reseats(options, at, taken)
    <3>1. \A x \in at.seen : x \in C \ {c}
      BY <1>1, <1>5
    <3>2. \A x, y \in C : at.taken[x] = at.taken[y] /\ at.taken[x] # 0 => x = y
      BY <2>5 DEF Seatable
    <3>3. \A x \in C : at.taken[x] = at.d => x \in at.seen
      BY <2>5 DEF Seatable
    <3> HIDE DEF taken, c
    <3> QED BY <2>2, <2>3, <3>1, <3>2, <3>3 DEF Reseats
  <2> HIDE DEF r, taken
  <2> QED BY <2>4, <2>5 DEF Right
<1>6. CASE at.left # {} /\ c \notin at.seen /\ at.taken[c] # 0
  <2> DEFINE h == at.taken[c]
             b == Deeper(at, c, options)
             m == f[b]
  <2>1. h \in DOMAIN options /\ b \in Frames(options) /\ Right(options, b, m)
    BY <1>1, <1>6, DeeperIs
  <2>2. b.d = h /\ b.left = options[h] /\ b.taken = at.taken /\ b.seen = at.seen \cup {c}
    BY DEF Deeper
  <2>3. c \in C /\ at.d \in 1 .. Len(options)
    BY <1>1, <1>6, ChoiceIs
  <2>4. m \in Finds(options)
    BY <2>1 DEF Right
  <2>5. m.taken \in Seatings(options) /\ m.seen \in SUBSET C /\ m.ok \in BOOLEAN
    BY <2>4 DEF Finds
  <2>6. CASE m.ok
    <3> DEFINE taken == [m.taken EXCEPT ![c] = at.d]
    <3>1. r = [m EXCEPT !.taken[c] = at.d]
      BY <1>6, <2>6, SearchIs
    <3>2. r = [ok |-> m.ok, taken |-> taken, seen |-> m.seen]
      <4>1. m = [ok |-> m.ok, taken |-> m.taken, seen |-> m.seen]
        BY <2>4 DEF Finds
      <4> HIDE DEF m, r
      <4>2. [m EXCEPT !.taken[c] = at.d] = [m EXCEPT !.taken = taken]
        OBVIOUS
      <4>3. [m EXCEPT !.taken = taken] = [ok |-> m.ok, taken |-> taken, seen |-> m.seen]
        BY <4>1
      <4> QED BY <3>1, <4>2, <4>3
    <3>3. taken \in Seatings(options) /\ taken[c] = at.d /\ \A x \in C \ {c} : taken[x] = m.taken[x]
      BY <2>3, <2>5 DEF Seatings
    <3> HIDE DEF r, m, b, taken, h, c
    <3>4. r \in Finds(options) /\ r.ok /\ r.taken = taken
      BY <2>5, <2>6, <3>2, <3>3 DEF Finds
    <3>5. ASSUME Seatable(options, at) PROVE Reseats(options, at, taken)
      <4>1. \A x, y \in C : at.taken[x] = at.taken[y] /\ at.taken[x] # 0 => x = y
        BY <3>5 DEF Seatable
      <4>2. \A x \in C : at.taken[x] = at.d => x \in at.seen
        BY <3>5 DEF Seatable
      <4>3. h # at.d /\ h # 0 /\ h = at.taken[c]
        BY <1>6, <2>3, <4>2 DEF h
      <4>4. Seatable(options, b)
        BY <2>2, <2>3, <4>1, <4>3 DEF Seatable
      <4>5. Reseats(options, b, m.taken)
        BY <2>1, <2>6, <4>4 DEF Right
      <4>6. \A x \in at.seen \cup {c} : m.taken[x] = at.taken[x]
        BY <2>2, <4>5 DEF Reseats
      <4>7. \A x, y \in C : m.taken[x] = m.taken[y] /\ m.taken[x] # 0 =>
              x = y \/ (m.taken[x] = h /\ (x \in at.seen \cup {c} \/ y \in at.seen \cup {c}))
        BY <2>2, <4>5 DEF Reseats
      <4>8. \A x \in C : m.taken[x] = 0 \/ m.taken[x] = h \/ \E y \in C : m.taken[x] = at.taken[y]
        BY <2>2, <4>5 DEF Reseats
      <4>9. \A x \in at.seen : taken[x] = at.taken[x]
        <5>1. \A x \in at.seen : x \in C \ {c}
          BY <1>1, <1>6
        <5> QED BY <3>3, <4>6, <5>1
      <4>10. \A x \in C : taken[x] = 0 \/ taken[x] = at.d \/ \E y \in C : taken[x] = at.taken[y]
        BY <2>3, <3>3, <4>3, <4>8
      <4>11. ASSUME NEW x \in C, NEW y \in C, taken[x] = taken[y], taken[x] # 0, x # y
             PROVE  taken[x] = at.d /\ (x \in at.seen \/ y \in at.seen)
        <5>1. \A z \in C : m.taken[z] = at.d => z \in at.seen
          <6> SUFFICES ASSUME NEW z \in C, m.taken[z] = at.d PROVE z \in at.seen
            OBVIOUS
          <6>1. at.d # 0
            BY <2>3
          <6>2. PICK w \in C : at.d = at.taken[w]
            BY <4>3, <4>8, <6>1
          <6>3. w \in at.seen /\ m.taken[w] = at.d
            BY <4>2, <4>6, <6>2
          <6> QED BY <4>3, <4>7, <6>1, <6>3
        <5>2. CASE x = c \/ y = c
          BY <3>3, <4>11, <5>1, <5>2
        <5>3. CASE x # c /\ y # c
          <6>1. m.taken[x] = m.taken[y] /\ m.taken[x] # 0 /\ taken[x] = m.taken[x] /\ taken[y] = m.taken[y]
            BY <3>3, <4>11, <5>3
          <6>2. m.taken[x] = h /\ m.taken[y] = h /\ (x \in at.seen \/ y \in at.seen)
            BY <4>7, <4>11, <5>3, <6>1
          <6>3. CASE x \in at.seen
            BY <2>3, <4>1, <4>3, <4>6, <5>3, <6>2, <6>3
          <6>4. CASE y \in at.seen
            BY <2>3, <4>1, <4>3, <4>6, <5>3, <6>2, <6>4
          <6> QED BY <6>2, <6>3, <6>4
        <5> QED BY <5>2, <5>3
      <4> QED BY <4>9, <4>10, <4>11 DEF Reseats
    <3> QED BY <3>4, <3>5 DEF Right
  <2>7. CASE ~m.ok
    <3> DEFINE g == Skipping(at, c, m.seen)
    <3>1. r = f[g]
      BY <1>6, <2>7, SearchIs
    <3>2. Closed(options, b, m.seen)
      BY <2>1, <2>7 DEF Right
    <3>3. at.seen \subseteq m.seen /\ c \in m.seen /\ options[h] \subseteq m.seen
      BY <2>2, <3>2 DEF Closed
    <3>4. \A x \in m.seen : x \notin at.seen /\ x # c => at.taken[x] # 0 /\ options[at.taken[x]] \subseteq m.seen
      BY <2>2, <3>2 DEF Closed
    <3>5. g \in Frames(options) /\ Right(options, g, r)
      BY <1>1, <1>6, <2>5, <3>1, <3>3, DeeperIs
    <3>6. g.d = at.d /\ g.left = at.left \ {c} /\ g.taken = at.taken /\ g.seen = m.seen
      BY DEF Skipping
    <3> HIDE DEF r, m, b, g
    <3>7. r \in Finds(options)
      BY <3>5 DEF Right
    <3>8. ASSUME ~r.ok PROVE Closed(options, at, r.seen)
      <4>1. Closed(options, g, r.seen)
        BY <3>5, <3>8 DEF Right
      <4>2. m.seen \subseteq r.seen /\ at.left \ {c} \subseteq r.seen
        BY <3>6, <4>1 DEF Closed
      <4>3. \A x \in r.seen \ m.seen : at.taken[x] # 0 /\ options[at.taken[x]] \subseteq r.seen
        BY <3>6, <4>1 DEF Closed
      <4>4. ASSUME NEW x \in r.seen, x \notin at.seen PROVE at.taken[x] # 0 /\ options[at.taken[x]] \subseteq r.seen
        <5>1. CASE x = c
          BY <1>6, <3>3, <4>2, <5>1
        <5>2. CASE x # c /\ x \in m.seen
          BY <3>4, <4>2, <4>4, <5>2
        <5>3. CASE x \notin m.seen
          BY <4>3, <5>3
        <5> QED BY <5>1, <5>2, <5>3
      <4> QED BY <3>3, <4>2, <4>4 DEF Closed
    <3>9. ASSUME r.ok, Seatable(options, at) PROVE Reseats(options, at, r.taken)
      <4>1. /\ \A x, y \in C : at.taken[x] = at.taken[y] /\ at.taken[x] # 0 => x = y
            /\ \A x \in C : at.taken[x] = at.d => x \in at.seen
        BY <3>9 DEF Seatable
      <4>2. Seatable(options, g)
        BY <3>3, <3>6, <4>1 DEF Seatable
      <4>3. Reseats(options, g, r.taken)
        BY <3>5, <3>9, <4>2 DEF Right
      <4>4. \A x \in m.seen : r.taken[x] = at.taken[x]
        BY <3>6, <4>3 DEF Reseats
      <4>5. \A x, y \in C : r.taken[x] = r.taken[y] /\ r.taken[x] # 0 =>
              x = y \/ (r.taken[x] = at.d /\ (x \in m.seen \/ y \in m.seen))
        BY <3>6, <4>3 DEF Reseats
      <4>6. \A x \in C : r.taken[x] = 0 \/ r.taken[x] = at.d \/ \E y \in C : r.taken[x] = at.taken[y]
        BY <3>6, <4>3 DEF Reseats
      <4>7. \A x \in m.seen : x \in C
        BY <2>5
      <4>8. \A x \in m.seen : r.taken[x] = at.d => x \in at.seen
        BY <4>1, <4>4, <4>7
      <4>9. \A x, y \in C : r.taken[x] = r.taken[y] /\ r.taken[x] # 0 =>
              x = y \/ (r.taken[x] = at.d /\ (x \in at.seen \/ y \in at.seen))
        BY <4>5, <4>8
      <4>10. \A x \in at.seen : r.taken[x] = at.taken[x]
        BY <3>3, <4>4
      <4> QED BY <4>6, <4>9, <4>10 DEF Reseats
    <3> QED BY <3>7, <3>8, <3>9 DEF Right
  <2> QED BY <2>6, <2>7
<1> QED BY <1>3, <1>4, <1>5, <1>6

(* A search depends on deeper ones alone.                                  *)
LEMMA SearchSame ==
  ASSUME NEW options, IsChoice(options), NEW at \in Frames(options), NEW f, NEW g,
         \A b \in Frames(options) : Toll(options, b) < Toll(options, at) =>
             Right(options, b, f[b]) /\ g[b] = f[b]
  PROVE  Search(g, at, options) = Search(f, at, options)
<1> DEFINE C == CellsIn(options)
           c == FirstCell(at.left)
<1>1. at.left # {} => c \in at.left
  BY FrameIs
<1>2. at.seen \in SUBSET C
  BY FrameIs
<1>3. CASE at.left = {}
  <2>1. Search(f, at, options) = [ok |-> FALSE, taken |-> at.taken, seen |-> at.seen]
    BY <1>3, SearchIs
  <2>2. Search(g, at, options) = [ok |-> FALSE, taken |-> at.taken, seen |-> at.seen]
    BY <1>3, SearchIs
  <2> QED BY <2>1, <2>2
<1>4. CASE at.left # {} /\ c \in at.seen
  <2>1. Skipping(at, c, at.seen) \in Frames(options)
        /\ Toll(options, Skipping(at, c, at.seen)) < Toll(options, at)
    BY <1>1, <1>2, <1>4, DeeperIs
  <2> QED BY <1>4, <2>1, SearchIs
<1>5. CASE at.left # {} /\ c \notin at.seen /\ at.taken[c] = 0
  <2> DEFINE r == [ok |-> TRUE, taken |-> [at.taken EXCEPT ![c] = at.d], seen |-> at.seen]
  <2>1. Search(f, at, options) = r
    BY <1>5, SearchIs
  <2>2. Search(g, at, options) = r
    BY <1>5, SearchIs
  <2> QED BY <2>1, <2>2
<1>6. CASE at.left # {} /\ c \notin at.seen /\ at.taken[c] # 0
  <2> DEFINE b == Deeper(at, c, options)
  <2>1. b \in Frames(options) /\ Toll(options, b) < Toll(options, at)
    BY <1>1, <1>6, DeeperIs
  <2>2. g[b] = f[b] /\ Right(options, b, f[b])
    BY <2>1
  <2>3. CASE f[b].ok
    BY <1>6, <2>2, <2>3, SearchIs
  <2>4. CASE ~f[b].ok
    <3> DEFINE s == f[b].seen
    <3>1. s \in SUBSET C /\ b.seen \subseteq s
      BY <2>2, <2>4 DEF Right, Finds, Closed
    <3>2. at.seen \subseteq s
      BY <3>1 DEF Deeper
    <3>3. Skipping(at, c, s) \in Frames(options) /\ Toll(options, Skipping(at, c, s)) < Toll(options, at)
      BY <1>1, <1>6, <3>1, <3>2, DeeperIs
    <3>4. g[Skipping(at, c, s)] = f[Skipping(at, c, s)]
      BY <3>3
    <3>5. Search(f, at, options) = f[Skipping(at, c, s)]
      BY <1>6, <2>4, SearchIs
    <3>6. Search(g, at, options) = g[Skipping(at, c, g[b].seen)]
      BY <1>6, <2>2, <2>4, SearchIs
    <3> QED BY <2>2, <3>4, <3>5, <3>6
  <2> QED BY <2>3, <2>4
<1> QED BY <1>3, <1>4, <1>5, <1>6

(* The search is well defined: it looks into frames with less left alone.  *)
LEMMA AugmentIs ==
  ASSUME NEW options, IsChoice(options), NEW d \in DOMAIN options, NEW taken \in Seatings(options)
  PROVE  Right(options, [d |-> d, left |-> options[d], taken |-> taken, seen |-> {}],
               Augment(d, options, taken))
<1> DEFINE F == Frames(options)
           most == (Cardinality(CellsIn(options)) + 1) * (Cardinality(CellsIn(options)) + 1)
           toll(at) == Toll(options, at)
           Found(g) == [at \in F |-> Search(g, at, options)]
           Answers(k, g) == \A at \in F : toll(at) < k => g[at] = Search(g, at, options) /\ Right(options, at, g[at])
           T == {k \in 0 .. most : \E g : Answers(k, g)}
           found == CHOOSE g : g = Found(g)
           start == [d |-> d, left |-> options[d], taken |-> taken, seen |-> {}]
<1>1. Augment(d, options, taken) = found[start]
  BY DEF Augment, Search, Frames, Seatings, CellsIn
<1>2. start \in F
  BY ChoiceIs DEF Frames
<1>3. most \in Nat /\ \A at \in F : toll(at) \in Nat /\ toll(at) < most
  <2>1. Cardinality(CellsIn(options)) \in Nat
    BY ChoiceIs
  <2>2. most \in Nat
    BY <2>1
  <2> QED BY <2>2, TollIs
<1> HIDE DEF F, most, toll
<1>4. 0 \in T
  <2>1. Answers(0, [at \in F |-> 0])
    BY <1>3
  <2> HIDE DEF Answers
  <2> QED BY <1>3, <2>1
<1>5. \A k \in 0 .. most - 1 : k \in T => k + 1 \in T
  <2> SUFFICES ASSUME NEW k \in 0 .. most - 1, NEW g, Answers(k, g)
               PROVE  k + 1 \in 0 .. most /\ \E h : Answers(k + 1, h)
    OBVIOUS
  <2> DEFINE h == [at \in F |-> Search(g, at, options)]
  <2>1. k \in Nat /\ k + 1 \in 0 .. most
    BY <1>3
  <2>2. \A b \in F : toll(b) < k => Right(options, b, g[b]) /\ h[b] = g[b]
    OBVIOUS
  <2>3. ASSUME NEW at \in F, toll(at) < k + 1
        PROVE  h[at] = Search(h, at, options) /\ Right(options, at, h[at])
    <3>1. \A b \in F : toll(b) < toll(at) => toll(b) < k
      BY <1>3, <2>1, <2>3
    <3>2. \A b \in F : toll(b) < toll(at) => Right(options, b, g[b]) /\ h[b] = g[b]
      BY <2>2, <3>1
    <3>3. h[at] = Search(g, at, options)
      OBVIOUS
    <3> HIDE DEF h
    <3>4. Right(options, at, Search(g, at, options))
      BY <3>2, SearchRight DEF F, toll
    <3>5. Search(h, at, options) = Search(g, at, options)
      BY <3>2, SearchSame DEF F, toll
    <3> QED BY <3>3, <3>4, <3>5
  <2> HIDE DEF h
  <2>4. Answers(k + 1, h)
    BY <2>3
  <2> HIDE DEF Answers
  <2> QED BY <2>1, <2>4
<1>6. PICK g : Answers(most, g)
  <2> HIDE DEF T
  <2>1. \A k \in 0 .. most : k \in T
    BY <1>3, <1>4, <1>5, UpTo
  <2>2. most \in T
    BY <1>3, <2>1
  <2> HIDE DEF Answers
  <2> QED BY <2>2 DEF T
<1> DEFINE f == [at \in F |-> g[at]]
<1>7. \A at \in F : f[at] = g[at] /\ Right(options, at, g[at]) /\ g[at] = Search(g, at, options)
  BY <1>3, <1>6
<1>8. \A at \in F : Search(f, at, options) = Search(g, at, options)
  <2> TAKE at \in F
  <2> HIDE DEF f
  <2> QED BY <1>7, SearchSame DEF F
<1>9. f = Found(f)
  <2>1. \A at \in F : f[at] = Search(f, at, options)
    BY <1>7, <1>8
  <2> QED BY <2>1
<1>10. found = Found(found)
  <2> HIDE DEF f, Found
  <2> QED BY <1>9
<1> HIDE DEF found
<1>11. \A at \in F : found[at] = Search(found, at, options)
  BY <1>10
<1> DEFINE U == {k \in 0 .. most : \A at \in F : toll(at) < k => Right(options, at, found[at])}
<1>12. 0 \in U
  BY <1>3
<1>13. \A k \in 0 .. most - 1 : k \in U => k + 1 \in U
  <2> SUFFICES ASSUME NEW k \in 0 .. most - 1, \A at \in F : toll(at) < k => Right(options, at, found[at]),
                      NEW at \in F, toll(at) < k + 1
               PROVE  k + 1 \in 0 .. most /\ Right(options, at, found[at])
    BY <1>3
  <2>1. k \in Nat /\ k + 1 \in 0 .. most
    BY <1>3
  <2>2. \A b \in F : toll(b) < toll(at) => Right(options, b, found[b])
    BY <1>3, <2>1
  <2>3. Right(options, at, Search(found, at, options))
    BY <2>2, SearchRight DEF F, toll
  <2> QED BY <1>11, <2>1, <2>3
<1>14. most \in U
  <2> HIDE DEF U
  <2>1. \A k \in 0 .. most : k \in U
    BY <1>3, <1>12, <1>13, UpTo
  <2> QED BY <1>3, <2>1
<1>15. Right(options, start, found[start])
  <2> HIDE DEF start
  <2> QED BY <1>2, <1>3, <1>14
<1> QED BY <1>1, <1>15

-----------------------------------------------------------------------------
(* Where every demand can have a cell of its own, each is seated.          *)

(* Each demand a cell it may take, no cell for two.                        *)
Matching(options, own) ==
  /\ \A d \in DOMAIN options : own[d] \in options[d]
  /\ \A d, e \in DOMAIN options : own[d] = own[e] => d = e

(* The first k demands alone are seated, none twice.                       *)
SeatedTo(options, taken, k) ==
  /\ taken \in Seatings(options)
  /\ \A x, y \in CellsIn(options) : taken[x] = taken[y] /\ taken[x] # 0 => x = y
  /\ \A x \in CellsIn(options) : taken[x] <= k

(* A failed search would have closed a set of cells in which the holders   *)
(* and the demand, one more than there are cells, all have their own.      *)
LEMMA SeatIs ==
  ASSUME NEW options, IsChoice(options), NEW own, Matching(options, own),
         NEW d \in DOMAIN options, NEW taken, SeatedTo(options, taken, d - 1)
  PROVE  /\ Augment(d, options, taken).ok
         /\ SeatedTo(options, Augment(d, options, taken).taken, d)
<1> DEFINE C == CellsIn(options)
           at == [d |-> d, left |-> options[d], taken |-> taken, seen |-> {}]
           r == Augment(d, options, taken)
<1>1. /\ d \in Nat /\ d >= 1 /\ d <= Len(options) /\ Len(options) \in Nat /\ DOMAIN options = 1 .. Len(options)
      /\ options[d] \subseteq C /\ IsFiniteSet(C)
  BY ChoiceIs DEF IsChoice
<1>2. /\ taken \in Seatings(options)
      /\ \A x, y \in C : taken[x] = taken[y] /\ taken[x] # 0 => x = y
      /\ \A x \in C : taken[x] <= d - 1 /\ taken[x] \in Nat /\ taken[x] \in 0 .. Len(options)
  BY <1>1 DEF SeatedTo, Seatings
<1>3. Right(options, at, r)
  BY <1>2, AugmentIs
<1> HIDE DEF r
<1>4. at.d = d /\ at.left = options[d] /\ at.taken = taken /\ at.seen = {}
  OBVIOUS
<1> HIDE DEF at
<1>5. r \in Finds(options)
  BY <1>3 DEF Right
<1>6. r.ok
  <2> SUFFICES ASSUME ~r.ok PROVE FALSE
    OBVIOUS
  <2> DEFINE s == r.seen
             to == [x \in s |-> own[taken[x]]]
  <2>1. s \subseteq C /\ IsFiniteSet(s)
    BY <1>1, <1>5, FS_Subset DEF Finds
  <2>2. Closed(options, at, s)
    BY <1>3 DEF Right
  <2>3. options[d] \subseteq s /\ \A x \in s : taken[x] # 0 /\ options[taken[x]] \subseteq s
    BY <1>4, <2>2 DEF Closed
  <2>4. \A x \in s : taken[x] \in DOMAIN options /\ taken[x] # d
    BY <1>1, <1>2, <2>1, <2>3
  <2> HIDE DEF s
  <2>5. to \in Injection(s, s)
    <3>1. \A x \in s : to[x] \in s
      BY <2>3, <2>4 DEF Matching
    <3>2. \A x, y \in s : to[x] = to[y] => x = y
      <4> SUFFICES ASSUME NEW x \in s, NEW y \in s, own[taken[x]] = own[taken[y]] PROVE x = y
        OBVIOUS
      <4>1. taken[x] = taken[y]
        BY <2>4 DEF Matching
      <4> QED BY <1>2, <2>1, <2>3, <4>1
    <3> QED BY <3>1, <3>2 DEF Injection, IsInjective
  <2>6. to \in Surjection(s, s)
    <3> HIDE DEF to
    <3> QED BY <2>1, <2>5, FS_Injection
  <2>7. own[d] \in s
    BY <2>3 DEF Matching
  <2>8. PICK x \in s : to[x] = own[d]
    BY <2>6, <2>7 DEF Surjection
  <2>9. own[taken[x]] = own[d]
    BY <2>8
  <2> QED BY <2>4, <2>9 DEF Matching
<1>7. Seatable(options, at)
  BY <1>1, <1>2, <1>4 DEF Seatable
<1>8. Reseats(options, at, r.taken)
  BY <1>3, <1>6, <1>7 DEF Right
<1>9. r.taken \in Seatings(options)
  BY <1>5 DEF Finds
<1>10. \A x, y \in C : r.taken[x] = r.taken[y] /\ r.taken[x] # 0 => x = y
  BY <1>4, <1>8 DEF Reseats
<1>11. \A x \in C : r.taken[x] <= d
  <2> TAKE x \in C
  <2>1. r.taken[x] = 0 \/ r.taken[x] = d \/ \E y \in C : r.taken[x] = taken[y]
    BY <1>4, <1>8 DEF Reseats
  <2> QED BY <1>1, <1>2, <2>1
<1> QED BY <1>6, <1>9, <1>10, <1>11 DEF SeatedTo, r

(* crowded_machines' search misses no way to seat everyone: where each     *)
(* demand could have a cell of its own, stand-ins and own connections      *)
(* alike, the machine hosts them, in whatever order they ask.              *)
THEOREM HostsSeatsAll ==
  ASSUME NEW own, NEW standIns, IsChoice(standIns \o own), NEW to, Matching(standIns \o own, to)
  PROVE  Hosts(own, standIns)
<1> DEFINE options == standIns \o own
           C == CellsIn(options)
           n == Len(options)
           S == [taken : Seatings(options), ok : BOOLEAN]
           empty == [c \in C |-> Nobody]
           base == [taken |-> empty, ok |-> TRUE]
           seat(acc, d) == LET a == Augment(d, options, acc.taken)
                           IN [taken |-> a.taken, ok |-> acc.ok /\ (a.ok \/ d <= Len(standIns))]
           step == [p \in (1 .. n) \X S |-> seat(p[2], p[1])]
           All(g) == [d \in 0 .. n |-> IF d = 0 THEN base ELSE seat(g[d - 1], d)]
           seated == CHOOSE g : g = All(g)
<1>1. Hosts(own, standIns) = seated[n].ok
  BY DEF Hosts, CellsIn
<1>2. n \in Nat /\ DOMAIN options = 1 .. n /\ IsChoice(options)
  BY ChoiceIs
<1>3. base \in S
  BY <1>2 DEF Seatings, Nobody
<1>4. \A d \in 1 .. n : \A acc \in S : seat(acc, d) \in S
  <2> TAKE d \in 1 .. n
  <2> TAKE acc \in S
  <2>1. Augment(d, options, acc.taken) \in Finds(options)
    BY <1>2, AugmentIs DEF Right
  <2> QED BY <2>1 DEF Finds
<1> HIDE DEF n, base, seat, options
<1>5. step \in [(1 .. n) \X S -> S]
  BY <1>4
<1>6. \A k \in 1 .. n : \A s \in S : step[<<k, s>>] = seat(s, k)
  OBVIOUS
<1> HIDE DEF S, step
<1>7. PICK g : g \in Runs(n, S, base, step)
  BY ONLY <1>2, <1>3, <1>5, Iterates
<1>8. g \in [0 .. n -> S] /\ g[0] = base /\ \A k \in 1 .. n : g[k] = step[<<k, g[k - 1]>>]
  BY <1>7 DEF Runs
<1>9. \A k \in 1 .. n : k - 1 \in 0 .. n /\ k # 0
  BY <1>2
<1>10. g = All(g)
  <2>1. \A k \in 1 .. n : g[k] = seat(g[k - 1], k)
    BY <1>6, <1>8, <1>9
  <2>2. \A k \in 0 .. n : k = 0 \/ k \in 1 .. n
    BY <1>2
  <2>3. \A k \in 0 .. n : g[k] = All(g)[k]
    BY <1>8, <2>1, <2>2
  <2>4. g = [k \in 0 .. n |-> g[k]]
    BY <1>8
  <2> QED BY <2>3, <2>4
<1>11. seated = All(seated)
  BY <1>10
<1> HIDE DEF seated
<1>12. seated[0] = base /\ \A k \in 1 .. n : seated[k] = seat(seated[k - 1], k)
  <2>1. \A k \in 0 .. n : seated[k] = IF k = 0 THEN base ELSE seat(seated[k - 1], k)
    BY <1>11
  <2> QED BY <1>2, <1>9, <2>1
<1> DEFINE T == {k \in 0 .. n : seated[k].ok /\ SeatedTo(options, seated[k].taken, k)}
<1>13. 0 \in T
  <2>1. seated[0].ok /\ seated[0].taken = empty
    BY <1>12 DEF base
  <2>2. empty \in Seatings(options) /\ \A x \in C : empty[x] = 0
    BY <1>2 DEF Seatings, Nobody
  <2> HIDE DEF empty
  <2>3. SeatedTo(options, empty, 0)
    BY <2>2 DEF SeatedTo
  <2> QED BY <1>2, <2>1, <2>3
<1>14. \A k \in 0 .. n - 1 : k \in T => k + 1 \in T
  <2> SUFFICES ASSUME NEW k \in 0 .. n - 1, seated[k].ok, SeatedTo(options, seated[k].taken, k)
               PROVE  k + 1 \in 0 .. n /\ seated[k + 1].ok /\ SeatedTo(options, seated[k + 1].taken, k + 1)
    OBVIOUS
  <2> DEFINE d == k + 1
             a == Augment(d, options, seated[k].taken)
  <2>1. d \in 1 .. n /\ d \in 0 .. n /\ d - 1 = k
    BY <1>2
  <2>2. a.ok /\ SeatedTo(options, a.taken, d)
    <3> HIDE DEF d
    <3> QED BY <1>2, <2>1, SeatIs DEF options
  <2>3. seated[d] = [taken |-> a.taken, ok |-> seated[k].ok /\ (a.ok \/ d <= Len(standIns))]
    <3> HIDE DEF d
    <3> QED BY <1>12, <2>1 DEF seat
  <2> HIDE DEF a, d
  <2>4. seated[d].ok /\ seated[d].taken = a.taken
    <3>1. seated[k].ok /\ (a.ok \/ d <= Len(standIns))
      BY <2>2
    <3>2. seated[d].taken = a.taken /\ seated[d].ok = (seated[k].ok /\ (a.ok \/ d <= Len(standIns)))
      BY <2>3
    <3> QED BY <3>1, <3>2, Zenon
  <2> QED BY <2>1, <2>2, <2>4 DEF d
<1>15. n \in T
  <2> HIDE DEF T
  <2>1. \A k \in 0 .. n : k \in T
    BY <1>2, <1>13, <1>14, UpTo
  <2> QED BY <1>2, <2>1
<1> QED BY <1>1, <1>15 DEF n

-----------------------------------------------------------------------------
(* Parts of sequences, and sequences of sequences.                         *)

(* What is sifted from a sequence stands in it, each at a place of its own.*)
LEMMA SiftedIs ==
  ASSUME NEW S, NEW s \in Seq(S), NEW places
  PROVE  /\ Sifted(s, places) \in Seq(S)
         /\ \E w \in [DOMAIN Sifted(s, places) -> DOMAIN s] :
              /\ \A k \in DOMAIN Sifted(s, places) : w[k] \in places /\ Sifted(s, places)[k] = s[w[k]]
              /\ \A k, l \in DOMAIN Sifted(s, places) : w[k] = w[l] => k = l
<1> DEFINE n == Len(s)
           Q == Seq(S)
           after(k, t) == IF k \in places THEN Append(t, s[k]) ELSE t
           step == [p \in (1 .. n) \X Q |-> after(p[1], p[2])]
           All(g) == [k \in 0 .. n |-> IF k = 0 THEN <<>>
                                       ELSE IF k \in places THEN Append(g[k - 1], s[k]) ELSE g[k - 1]]
           upTo == CHOOSE g : g = All(g)
<1>1. Sifted(s, places) = upTo[n]
  BY DEF Sifted
<1>2. n \in Nat /\ DOMAIN s = 1 .. n /\ \A k \in 1 .. n : s[k] \in S
  OBVIOUS
<1>3. <<>> \in Q
  OBVIOUS
<1>4. \A k \in 1 .. n : \A t \in Q : after(k, t) \in Q
  BY <1>2
<1> HIDE DEF n
<1>5. step \in [(1 .. n) \X Q -> Q]
  <2> HIDE DEF after
  <2> QED BY <1>4
<1>6. \A k \in 1 .. n : \A t \in Q : step[<<k, t>>] = after(k, t)
  OBVIOUS
<1> HIDE DEF Q, step
<1>7. PICK g : g \in Runs(n, Q, <<>>, step)
  BY ONLY <1>2, <1>3, <1>5, Iterates
<1>8. g \in [0 .. n -> Q] /\ g[0] = <<>> /\ \A k \in 1 .. n : g[k] = step[<<k, g[k - 1]>>]
  BY <1>7 DEF Runs
<1>9. \A k \in 1 .. n : k - 1 \in 0 .. n /\ k # 0
  BY <1>2
<1>10. g = All(g)
  <2>1. \A k \in 1 .. n : g[k] = after(k, g[k - 1])
    BY <1>6, <1>8, <1>9
  <2>2. \A k \in 0 .. n : k = 0 \/ k \in 1 .. n
    BY <1>2
  <2>3. \A k \in 0 .. n : g[k] = All(g)[k]
    BY <1>8, <2>1, <2>2
  <2>4. g = [k \in 0 .. n |-> g[k]]
    BY <1>8
  <2> QED BY <2>3, <2>4
<1>11. upTo = All(upTo)
  BY <1>10
<1> HIDE DEF upTo
<1>12. /\ upTo[0] = <<>>
       /\ \A k \in 1 .. n : upTo[k] = IF k \in places THEN Append(upTo[k - 1], s[k]) ELSE upTo[k - 1]
  <2>1. \A k \in 0 .. n : upTo[k] = IF k = 0 THEN <<>>
                                    ELSE IF k \in places THEN Append(upTo[k - 1], s[k]) ELSE upTo[k - 1]
    BY <1>11
  <2> QED BY <1>2, <1>9, <2>1
<1> DEFINE Stand(t, w, k) ==
             /\ t \in Seq(S) /\ w \in [DOMAIN t -> 1 .. k]
             /\ \A i \in DOMAIN t : w[i] \in places /\ t[i] = s[w[i]]
             /\ \A i, j \in DOMAIN t : w[i] = w[j] => i = j
           T == {k \in 0 .. n : \E w : Stand(upTo[k], w, k)}
<1>13. 0 \in T
  <2>1. <<>> \in Seq(S) /\ <<>> \in [DOMAIN <<>> -> 1 .. 0] /\ DOMAIN <<>> = {}
    OBVIOUS
  <2>2. Stand(upTo[0], <<>>, 0)
    BY <1>12, <2>1
  <2> HIDE DEF Stand
  <2> QED BY <1>2, <2>2
<1>14. \A k \in 0 .. n - 1 : k \in T => k + 1 \in T
  <2> SUFFICES ASSUME NEW k \in 0 .. n - 1, NEW w, Stand(upTo[k], w, k)
               PROVE  k + 1 \in 0 .. n /\ \E v : Stand(upTo[k + 1], v, k + 1)
    <3> HIDE DEF Stand
    <3> QED OBVIOUS
  <2> DEFINE t == upTo[k]
             d == k + 1
  <2>1. k \in Nat /\ d \in 1 .. n /\ d \in 0 .. n /\ d - 1 = k
    BY <1>2
  <2>2. /\ t \in Seq(S) /\ w \in [DOMAIN t -> 1 .. k] /\ Len(t) \in Nat /\ DOMAIN t = 1 .. Len(t)
        /\ \A i \in DOMAIN t : w[i] \in places /\ t[i] = s[w[i]]
        /\ \A i, j \in DOMAIN t : w[i] = w[j] => i = j
    OBVIOUS
  <2>3. upTo[d] = IF d \in places THEN Append(t, s[d]) ELSE t
    <3> HIDE DEF d
    <3> QED BY <1>12, <2>1
  <2> HIDE DEF t
  <2>4. CASE d \notin places
    <3>1. w \in [DOMAIN t -> 1 .. d]
      BY <2>1, <2>2
    <3> HIDE DEF d
    <3>2. Stand(upTo[d], w, d)
      BY <2>2, <2>3, <2>4, <3>1
    <3> HIDE DEF Stand
    <3> QED BY <2>1, <3>2 DEF d
  <2>5. CASE d \in places
    <3> DEFINE m == Len(t) + 1
               a == Append(t, s[d])
               v == [i \in 1 .. m |-> IF i = m THEN d ELSE w[i]]
    <3>1. a \in Seq(S) /\ DOMAIN a = 1 .. m /\ a[m] = s[d] /\ \A i \in DOMAIN t : a[i] = t[i]
      BY <1>2, <2>1, <2>2
    <3>2. \A i \in 1 .. m : i = m \/ (i # m /\ i \in DOMAIN t)
      BY <2>2
    <3>3. m \in 1 .. m
      BY <2>2
    <3>4. v[m] = d /\ \A i \in DOMAIN t : v[i] = w[i] /\ v[i] \in 1 .. k /\ v[i] # d
      BY <2>1, <2>2, <3>3
    <3>5. v \in [1 .. m -> 1 .. d]
      <4>1. d \in 1 .. d /\ \A i \in 1 .. k : i \in 1 .. d
        BY <2>1
      <4>2. \A i \in 1 .. m : v[i] \in 1 .. d
        BY <3>2, <3>4, <4>1
      <4> QED BY <4>2
    <3> HIDE DEF v, a, m, d
    <3>6. \A i \in DOMAIN a : v[i] \in places /\ a[i] = s[v[i]]
      BY <2>2, <2>5, <3>1, <3>2, <3>4
    <3>7. \A i, j \in DOMAIN a : v[i] = v[j] => i = j
      BY <2>2, <3>1, <3>2, <3>4
    <3>8. upTo[d] = a
      BY <2>3, <2>5 DEF a
    <3>9. Stand(upTo[d], v, d)
      BY <3>1, <3>5, <3>6, <3>7, <3>8
    <3> HIDE DEF Stand
    <3> QED BY <2>1, <3>9 DEF d
  <2> QED BY <2>4, <2>5
<1>15. n \in T
  <2> HIDE DEF T
  <2>1. \A k \in 0 .. n : k \in T
    BY <1>2, <1>13, <1>14, UpTo
  <2> QED BY <1>2, <2>1
<1>16. PICK w : Stand(upTo[n], w, n)
  BY <1>15
<1> QED BY <1>1, <1>2, <1>16

(* What stands in a flattened sequence stands in one of its parts, each at *)
(* a place of its own.                                                     *)
LEMMA FlattenIs ==
  ASSUME NEW S, NEW ss \in Seq(Seq(S))
  PROVE  /\ FlattenSeq(ss) \in Seq(S)
         /\ \E w \in [DOMAIN FlattenSeq(ss) -> DOMAIN ss], v \in [DOMAIN FlattenSeq(ss) -> Nat] :
              /\ \A k \in DOMAIN FlattenSeq(ss) :
                    v[k] \in DOMAIN ss[w[k]] /\ FlattenSeq(ss)[k] = ss[w[k]][v[k]]
              /\ \A k, l \in DOMAIN FlattenSeq(ss) : w[k] = w[l] /\ v[k] = v[l] => k = l
<1> DEFINE n == Len(ss)
           Q == Seq(S)
           step == [p \in (1 .. n - 1) \X Q |-> p[2] \o ss[p[1] + 1]]
           All(g) == [i \in 1 .. n |-> IF i = 1 THEN ss[i] ELSE g[i - 1] \o ss[i]]
           flat == CHOOSE g : g = All(g)
           Stand(t, w, v, k) ==
             /\ t \in Seq(S) /\ w \in [DOMAIN t -> 1 .. k] /\ v \in [DOMAIN t -> Nat]
             /\ \A i \in DOMAIN t : v[i] \in DOMAIN ss[w[i]] /\ t[i] = ss[w[i]][v[i]]
             /\ \A i, j \in DOMAIN t : w[i] = w[j] /\ v[i] = v[j] => i = j
           T == {k \in 0 .. n - 1 : \E w, v : Stand(flat[k + 1], w, v, k + 1)}
<1>1. FlattenSeq(ss) = IF n = 0 THEN ss ELSE flat[n]
  BY DEF FlattenSeq
<1>2. n \in Nat /\ DOMAIN ss = 1 .. n /\ \A k \in 1 .. n : ss[k] \in Q
  OBVIOUS
<1>3. CASE n = 0
  <2>1. ss = <<>>
    BY <1>3
  <2>2. FlattenSeq(ss) = <<>> /\ DOMAIN <<>> = {} /\ <<>> \in Seq(S)
    BY <1>1, <1>3, <2>1
  <2>3. <<>> \in [{} -> DOMAIN ss] /\ <<>> \in [{} -> Nat]
    OBVIOUS
  <2> QED BY ONLY <2>2, <2>3
<1>4. CASE n # 0
  <2>1. n - 1 \in Nat /\ \A k \in 1 .. n - 1 : k + 1 \in 1 .. n /\ k + 1 # 1 /\ k + 1 - 1 = k
    BY <1>2, <1>4
  <2>2. ss[1] \in Q
    BY <1>2, <1>4
  <2>3. \A k \in 1 .. n - 1 : \A t \in Q : t \o ss[k + 1] \in Q
    BY <1>2, <2>1
  <2> HIDE DEF n, Q
  <2>4. step \in [(1 .. n - 1) \X Q -> Q]
    BY <2>3
  <2>5. \A k \in 1 .. n - 1 : \A t \in Q : step[<<k, t>>] = t \o ss[k + 1]
    OBVIOUS
  <2> HIDE DEF step
  <2>6. PICK g : g \in Runs(n - 1, Q, ss[1], step)
    BY ONLY <2>1, <2>2, <2>4, Iterates
  <2>7. g \in [0 .. n - 1 -> Q] /\ g[0] = ss[1] /\ \A k \in 1 .. n - 1 : g[k] = step[<<k, g[k - 1]>>]
    BY <2>6 DEF Runs
  <2> DEFINE h == [i \in 1 .. n |-> g[i - 1]]
  <2>8. h = All(h)
    <3>1. \A i \in 1 .. n : i = 1 \/ (i # 1 /\ i - 1 \in 1 .. n - 1 /\ i - 1 \in 1 .. n /\ (i - 1) - 1 \in 0 .. n - 1
                                       /\ (i - 1) + 1 = i)
      BY <1>2
    <3>2. \A k \in 1 .. n - 1 : g[k] = g[k - 1] \o ss[k + 1]
      <4> TAKE k \in 1 .. n - 1
      <4>1. k - 1 \in 0 .. n - 1
        BY <2>1
      <4> QED BY <2>5, <2>7, <4>1
    <3>3. ASSUME NEW i \in 1 .. n PROVE h[i] = All(h)[i]
      <4>1. CASE i = 1
        BY <2>7, <4>1
      <4>2. CASE i # 1
        <5>1. g[i - 1] = g[(i - 1) - 1] \o ss[i]
          BY <3>1, <3>2, <4>2
        <5>2. h[i - 1] = g[(i - 1) - 1]
          BY <3>1, <4>2
        <5> QED BY <4>2, <5>1, <5>2
      <4> QED BY <4>1, <4>2
    <3>4. h = [i \in 1 .. n |-> h[i]] /\ All(h) = [i \in 1 .. n |-> All(h)[i]]
      OBVIOUS
    <3> HIDE DEF h, All
    <3> QED BY <3>3, <3>4
  <2>9. flat = All(flat)
    BY <2>8
  <2> HIDE DEF flat
  <2>10. flat[1] = ss[1] /\ \A k \in 1 .. n - 1 : flat[k + 1] = flat[k] \o ss[k + 1]
    <3>1. \A i \in 1 .. n : flat[i] = IF i = 1 THEN ss[i] ELSE flat[i - 1] \o ss[i]
      BY <2>9
    <3>2. flat[1] = ss[1]
      BY <1>2, <1>4, <3>1
    <3>3. ASSUME NEW k \in 1 .. n - 1 PROVE flat[k + 1] = flat[k] \o ss[k + 1]
      <4> DEFINE i == k + 1
      <4>1. i \in 1 .. n /\ i # 1 /\ i - 1 = k
        BY <2>1
      <4> HIDE DEF i
      <4>2. flat[i] = flat[i - 1] \o ss[i]
        BY <3>1, <4>1
      <4> QED BY <4>1, <4>2 DEF i
    <3> QED BY <3>2, <3>3
  <2>11. 0 \in T
    <3> DEFINE t == ss[1]
               w == [i \in DOMAIN t |-> 1]
               v == [i \in DOMAIN t |-> i]
    <3>1. t \in Seq(S) /\ DOMAIN t \subseteq Nat
      BY <2>2 DEF Q
    <3>2. w \in [DOMAIN t -> 1 .. 1] /\ v \in [DOMAIN t -> Nat] /\ \A i \in DOMAIN t : w[i] = 1 /\ v[i] = i
      BY <3>1
    <3> HIDE DEF w, v
    <3>3. Stand(t, w, v, 1)
      BY <3>1, <3>2
    <3>4. 0 + 1 = 1 /\ 0 \in 0 .. n - 1
      BY <2>1
    <3> HIDE DEF Stand
    <3> QED BY <2>10, <3>3, <3>4
  <2>12. \A k \in 0 .. (n - 1) - 1 : k \in T => k + 1 \in T
    <3> SUFFICES ASSUME NEW k \in 0 .. (n - 1) - 1, NEW w, NEW v, Stand(flat[k + 1], w, v, k + 1)
                 PROVE  k + 1 \in 0 .. n - 1 /\ \E x, y : Stand(flat[k + 1 + 1], x, y, k + 1 + 1)
      <4> HIDE DEF Stand
      <4> QED OBVIOUS
    <3> DEFINE d == k + 1
               t == flat[d]
               r == ss[d + 1]
               a == t \o r
               p == Len(t)
               x == [i \in 1 .. p + Len(r) |-> IF i <= p THEN w[i] ELSE d + 1]
               y == [i \in 1 .. p + Len(r) |-> IF i <= p THEN v[i] ELSE i - p]
    <3>1. d \in 1 .. n - 1 /\ d \in 0 .. n - 1 /\ d + 1 \in 1 .. n /\ d \in Nat
      BY <1>2, <2>1
    <3>2. /\ t \in Seq(S) /\ w \in [DOMAIN t -> 1 .. d] /\ v \in [DOMAIN t -> Nat]
          /\ p \in Nat /\ DOMAIN t = 1 .. p
          /\ \A i \in DOMAIN t : v[i] \in DOMAIN ss[w[i]] /\ t[i] = ss[w[i]][v[i]]
          /\ \A i, j \in DOMAIN t : w[i] = w[j] /\ v[i] = v[j] => i = j
      OBVIOUS
    <3>3. flat[d + 1] = a
      <4> HIDE DEF d
      <4> QED BY <2>10, <3>1
    <3>4. r \in Seq(S) /\ Len(r) \in Nat /\ DOMAIN r = 1 .. Len(r)
      <4> HIDE DEF d
      <4>1. r \in Q
        BY <1>2, <3>1
      <4> QED BY <4>1 DEF Q
    <3> HIDE DEF t, r, d
    <3>5. /\ a \in Seq(S) /\ DOMAIN a = 1 .. p + Len(r)
          /\ \A i \in 1 .. p : a[i] = t[i]
          /\ \A i \in 1 .. p + Len(r) : i > p => a[i] = r[i - p] /\ i - p \in DOMAIN r
      BY <3>2, <3>4
    <3> HIDE DEF p
    <3>6. \A i \in 1 .. p + Len(r) : /\ i \in Nat
                                     /\ i <= p => i \in 1 .. p /\ x[i] = w[i] /\ y[i] = v[i]
                                     /\ ~(i <= p) => i > p /\ x[i] = d + 1 /\ y[i] = i - p
      BY <3>2, <3>4
    <3>7. x \in [1 .. p + Len(r) -> 1 .. d + 1] /\ y \in [1 .. p + Len(r) -> Nat]
      <4>1. \A i \in 1 .. p + Len(r) : x[i] \in 1 .. d + 1 /\ y[i] \in Nat
        <5> TAKE i \in 1 .. p + Len(r)
        <5>1. CASE i <= p
          <6>1. w[i] \in 1 .. d /\ v[i] \in Nat
            BY <3>2, <3>6, <5>1
          <6> QED BY <3>1, <3>6, <5>1, <6>1
        <5>2. CASE ~(i <= p)
          BY <3>1, <3>2, <3>6, <5>2
        <5> QED BY <5>1, <5>2
      <4>2. x = [i \in 1 .. p + Len(r) |-> x[i]] /\ y = [i \in 1 .. p + Len(r) |-> y[i]]
        OBVIOUS
      <4> HIDE DEF x, y
      <4> QED BY <4>1, <4>2
    <3> HIDE DEF x, y, a
    <3>8. \A i \in DOMAIN a : y[i] \in DOMAIN ss[x[i]] /\ a[i] = ss[x[i]][y[i]]
      <4> TAKE i \in DOMAIN a
      <4>1. CASE i <= p
        BY <3>2, <3>5, <3>6, <4>1
      <4>2. CASE ~(i <= p)
        BY <3>5, <3>6, <4>2 DEF r
      <4> QED BY <4>1, <4>2
    <3>9. ASSUME NEW i \in DOMAIN a, NEW j \in DOMAIN a, x[i] = x[j], y[i] = y[j] PROVE i = j
      <4>1. \A e \in 1 .. p : w[e] # d + 1
        <5> TAKE e \in 1 .. p
        <5>1. w[e] \in 1 .. d
          BY <3>2
        <5> QED BY <3>1, <5>1
      <4>2. CASE i <= p /\ j <= p
        <5>1. i \in DOMAIN t /\ j \in DOMAIN t /\ w[i] = w[j] /\ v[i] = v[j]
          BY <3>2, <3>5, <3>6, <3>9, <4>2
        <5> QED BY <3>2, <5>1
      <4>3. CASE ~(i <= p) /\ ~(j <= p)
        <5>1. i - p = j - p /\ i \in Nat /\ j \in Nat
          BY <3>5, <3>6, <3>9, <4>3
        <5> QED BY <3>2, <5>1
      <4>4. CASE i <= p /\ ~(j <= p)
        BY <3>5, <3>6, <3>9, <4>1, <4>4
      <4>5. CASE ~(i <= p) /\ j <= p
        BY <3>5, <3>6, <3>9, <4>1, <4>5
      <4> QED BY <4>2, <4>3, <4>4, <4>5
    <3>10. Stand(flat[d + 1], x, y, d + 1)
      BY <3>3, <3>5, <3>7, <3>8, <3>9
    <3> HIDE DEF Stand
    <3> QED BY <3>1, <3>10 DEF d
  <2>13. n - 1 \in T
    <3> HIDE DEF T
    <3>1. \A k \in 0 .. n - 1 : k \in T
      BY <2>1, <2>11, <2>12, UpTo
    <3> QED BY <2>1, <3>1
  <2>14. n - 1 + 1 = n
    BY <1>2
  <2>15. PICK w, v : Stand(flat[n], w, v, n)
    BY <2>13, <2>14
  <2>16. FlattenSeq(ss) = flat[n]
    BY <1>1, <1>4
  <2>17. DOMAIN ss = 1 .. n
    BY <1>2
  <2>18. /\ flat[n] \in Seq(S) /\ w \in [DOMAIN flat[n] -> 1 .. n] /\ v \in [DOMAIN flat[n] -> Nat]
         /\ \A i \in DOMAIN flat[n] : v[i] \in DOMAIN ss[w[i]] /\ flat[n][i] = ss[w[i]][v[i]]
         /\ \A i, j \in DOMAIN flat[n] : w[i] = w[j] /\ v[i] = v[j] => i = j
    BY <2>15
  <2> HIDE DEF n
  <2> DEFINE all == FlattenSeq(ss)
  <2>19. /\ all \in Seq(S) /\ w \in [DOMAIN all -> DOMAIN ss] /\ v \in [DOMAIN all -> Nat]
         /\ \A k \in DOMAIN all : v[k] \in DOMAIN ss[w[k]] /\ all[k] = ss[w[k]][v[k]]
         /\ \A k, l \in DOMAIN all : w[k] = w[l] /\ v[k] = v[l] => k = l
    BY ONLY <2>16, <2>17, <2>18
  <2>20. \E x \in [DOMAIN all -> DOMAIN ss], y \in [DOMAIN all -> Nat] :
           /\ \A k \in DOMAIN all : y[k] \in DOMAIN ss[x[k]] /\ all[k] = ss[x[k]][y[k]]
           /\ \A k, l \in DOMAIN all : x[k] = x[l] /\ y[k] = y[l] => k = l
    <3> HIDE DEF all
    <3> w \in [DOMAIN all -> DOMAIN ss] /\ v \in [DOMAIN all -> Nat]
      BY <2>19
    <3> WITNESS w \in [DOMAIN all -> DOMAIN ss], v \in [DOMAIN all -> Nat]
    <3> QED BY ONLY <2>19
  <2> QED BY ONLY <2>19, <2>20
<1> QED BY <1>3, <1>4

(* A set listed as a sequence is listed once each.                         *)
LEMMA SetListed ==
  ASSUME NEW S, IsFiniteSet(S)
  PROVE  /\ SetToSeq(S) \in Seq(S)
         /\ \A k, l \in DOMAIN SetToSeq(S) : SetToSeq(S)[k] = SetToSeq(S)[l] => k = l
<1>1. Cardinality(S) \in Nat
  BY FS_CardinalityType
<1>2. PICK g \in [1 .. Cardinality(S) -> S] : \A k, l \in 1 .. Cardinality(S) : g[k] = g[l] => k = l
  <2>1. PICK g : ExistsBijection(1 .. Cardinality(S), S) /\ g \in Bijection(1 .. Cardinality(S), S)
    BY FS_CardinalityType DEF ExistsBijection
  <2> QED BY <2>1 DEF Bijection, Injection, IsInjective
<1>3. \E f \in [1 .. Cardinality(S) -> S] : IsInjective(f)
  BY <1>2 DEF IsInjective
<1>4. SetToSeq(S) \in [1 .. Cardinality(S) -> S] /\ IsInjective(SetToSeq(S))
  BY <1>3 DEF SetToSeq
<1> QED BY <1>1, <1>4 DEF IsInjective

-----------------------------------------------------------------------------
(* The connections the gate asks about.                                    *)

(* The cells of the region.                                                *)
Site == {c \in Triple : InRegion(c, Region)}

LEMMA SlotType ==
  ASSUME NEW off \in Triple, NEW size \in Extents, NEW f \in Compass
  PROVE  RotatedSlot(off, size, f) \in Triple
<1>1. /\ off[1] \in Int /\ off[2] \in Int /\ off[3] \in Int
      /\ size[1] \in Int /\ size[3] \in Int
  BY TripleIs
<1>2. CWSteps[f] = 0 \/ CWSteps[f] = 1 \/ CWSteps[f] = 2 \/ CWSteps[f] = 3
  BY DEF CWSteps, Compass
<1> QED BY <1>1, <1>2, TripleIs DEF RotatedSlot

(* A connection docks within the region.                                   *)
LEMMA DocksAre ==
  ASSUME line \in Lines, NEW L, Partial(L), NEW m \in DOMAIN L, NEW p, Port(m, p) \in PortsOf(m),
         NEW obstacles, NEW claimed
  PROVE  {t.cell : t \in DockCandidates(m, p, L[m], obstacles, {}, claimed)} \subseteq Site
<1>1. m \in Machines /\ L[m].cell \in Triple /\ L[m].front \in Compass /\ Body(m, L[m]) \subseteq Triple
  BY BodyIs DEF Partial
<1>2. AllowedFaces(m, p, L[m].front) \subseteq Faces
  <2>1. Port(m, p).pins \subseteq RelativeFaces
    BY <1>1, ShapeFacts
  <2> QED BY <1>1, <2>1, FacesAre DEF AllowedFaces
<1>3. HostCells(m, p, L[m]) \subseteq Triple
  <2>1. \A s \in Machine[m].slots : s.off \in Triple
    <3>1. m \in DOMAIN line.machine
      BY <1>1, LineFacts DEF Machine
    <3> QED BY <3>1, ShapeAssumption DEF Machine
  <2>2. SlotsFor(m, p) \subseteq Machine[m].slots
    BY DEF SlotsFor, NamingOrAny
  <2>3. Machine[m].size \in Extents
    BY <1>1, LineFacts
  <2>4. \A s \in SlotsFor(m, p) :
          Plus(L[m].cell, RotatedSlot(s.off, Machine[m].size, L[m].front)) \in Triple
    <3> TAKE s \in SlotsFor(m, p)
    <3>1. RotatedSlot(s.off, Machine[m].size, L[m].front) \in Triple
      BY <1>1, <2>1, <2>2, <2>3, SlotType
    <3> QED BY <1>1, <3>1, TripleArithmetic
  <2> QED BY <1>1, <2>4 DEF HostCells
<1>4. ASSUME NEW t \in DockCandidates(m, p, L[m], obstacles, {}, claimed) PROVE t.cell \in Site
  <2>1. PICK c \in HostCells(m, p, L[m]), f \in AllowedFaces(m, p, L[m].front) :
          t = [machine |-> m, port |-> p, face |-> f, cell |-> Step(c, f)]
    BY DEF DockCandidates
  <2>2. InRegion(t.cell, Region)
    BY DEF DockCandidates
  <2>3. t.cell = Step(c, f)
    BY <2>1
  <2> QED BY <1>2, <1>3, <2>1, <2>2, <2>3, StepType DEF Site
<1> QED BY <1>4

(* Connections of these machines and nets, each with cells of the region.  *)
Connections(nets) == [machine : Machines, net : nets, cells : SUBSET Site]

LEMMA ConnectionsAre ==
  ASSUME line \in Lines, NEW L, Partial(L), DOMAIN L = Machines
  PROVE  \E nets : DockedConnections(L) \in Seq(Connections(nets))
<1> DEFINE auto == AssignAutoOutputs(L)
           obstacles == ObstacleCells(L)
           cells(m, p) == {t.cell : t \in DockCandidates(m, p, L[m], obstacles, {}, auto.claimed[m])}
           ofNet(n) == IF n.id \in auto.covered \/ RidesMe(n) THEN <<>>
                       ELSE [i \in DOMAIN PipedEnds(n, auto) |->
                               [machine |-> PipedEnds(n, auto)[i][1], net |-> n.id,
                                cells |-> cells(PipedEnds(n, auto)[i][1], PipedEnds(n, auto)[i][2])]]
           ofDevices(m) == [i \in DOMAIN DevicePorts(m) |->
                               [machine |-> m, net |-> <<"me", DevicePorts(m)[i][2]>>,
                                cells |-> cells(m, DevicePorts(m)[i][1])]]
           piped == [i \in DOMAIN Nets |-> ofNet(Nets[i])]
           docked == [i \in DOMAIN MachineOrder |-> ofDevices(MachineOrder[i])]
           keys == {n.id : n \in NetSet} \cup UNION {{<<"me", DevicePorts(m)[i][2]>> : i \in DOMAIN DevicePorts(m)} : m \in Machines}
           C == Connections(keys)
<1>1. DockedConnections(L) = FlattenSeq(piped) \o FlattenSeq(docked)
  BY DEF DockedConnections, ConnectionsAfter
<1>2. \A m \in Machines : \A p : Port(m, p) \in PortsOf(m) => cells(m, p) \subseteq Site
  <2> TAKE m \in Machines
  <2> TAKE p
  <2> HAVE Port(m, p) \in PortsOf(m)
  <2> HIDE DEF auto, obstacles
  <2> QED BY DocksAre
<1> HIDE DEF auto, cells
<1>3. ProblemIsSound(line) /\ Machines = DOMAIN line.machine
  BY LineAssumption, LineFacts DEF Machine
<1>4. ASSUME NEW i \in DOMAIN Nets PROVE ofNet(Nets[i]) \in Seq(C)
  <2> DEFINE n == Nets[i]
             ends == PipedEnds(n, auto)
  <2>1. n \in NetSet /\ Listed(n.ends)
    BY ShapeAssumption DEF Nets, NetSet
  <2>2. NetIsSound(n, line.machine)
    BY <1>3 DEF ProblemIsSound, Nets
  <2>3. ends \in Seq(Range(n.ends))
    BY <2>1, SiftedIs DEF PipedEnds, Listed
  <2>4. \A e \in Range(n.ends) : e[1] \in Machines /\ Port(e[1], e[2]) \in PortsOf(e[1])
    <3> TAKE e \in Range(n.ends)
    <3>1. e \in Ends(n)
      BY DEF Range, Ends
    <3>2. e[1] \in Machines /\ \E q \in PortsIn(line.machine[e[1]]) : q.id = e[2]
      BY <1>3, <2>2, <3>1 DEF NetIsSound
    <3> QED BY <3>2 DEF Port, PortsOf, Machine
  <2> HIDE DEF n, ends
  <2>5. \A k \in DOMAIN ends : ends[k] \in Range(n.ends)
    BY <2>3
  <2>6. \A k \in DOMAIN ends : [machine |-> ends[k][1], net |-> n.id, cells |-> cells(ends[k][1], ends[k][2])] \in C
    <3> TAKE k \in DOMAIN ends
    <3>1. ends[k][1] \in Machines /\ cells(ends[k][1], ends[k][2]) \subseteq Site
      BY <1>2, <2>4, <2>5
    <3>2. n.id \in keys
      BY <2>1
    <3> HIDE DEF keys
    <3> QED BY <3>1, <3>2 DEF Connections
  <2>7. Len(ends) \in Nat /\ DOMAIN ends = 1 .. Len(ends)
    BY <2>3
  <2>8. <<>> \in Seq(C)
    OBVIOUS
  <2> HIDE DEF C
  <2>9. [k \in DOMAIN ends |-> [machine |-> ends[k][1], net |-> n.id, cells |-> cells(ends[k][1], ends[k][2])]] \in Seq(C)
    BY <2>6, <2>7
  <2> QED BY <2>8, <2>9 DEF n, ends
<1>5. ASSUME NEW m \in Machines PROVE ofDevices(m) \in Seq(C)
  <2> DEFINE all == Machine[m].devices
             serving == Sifted(all, {i \in DOMAIN all : all[i].ports # <<>>})
             ports == DevicePorts(m)
  <2>1. Listed(all) /\ \A i \in DOMAIN all : Listed(all[i].ports)
    BY ShapeFacts
  <2>2. serving \in Seq(Range(all))
    BY <2>1, SiftedIs DEF Listed
  <2>3. PICK w \in [DOMAIN serving -> DOMAIN all] :
          \A k \in DOMAIN serving : w[k] \in {i \in DOMAIN all : all[i].ports # <<>>} /\ serving[k] = all[w[k]]
    <3> DEFINE places == {i \in DOMAIN all : all[i].ports # <<>>}
    <3>1. all \in Seq(Range(all)) /\ serving = Sifted(all, places)
      BY <2>1 DEF Listed
    <3> HIDE DEF all, serving, places
    <3>2. \E w \in [DOMAIN serving -> DOMAIN all] :
             \A k \in DOMAIN serving : w[k] \in places /\ serving[k] = all[w[k]]
      BY <3>1, SiftedIs
    <3> QED BY <3>2 DEF places
  <2>4. ports = [k \in DOMAIN serving |-> <<serving[k].ports[1], serving[k].network>>]
    BY Zenon DEF DevicePorts
  <2>5. Len(serving) \in Nat /\ DOMAIN serving = 1 .. Len(serving) /\ DOMAIN ports = DOMAIN serving
    BY <2>2, <2>4
  <2>6. \A i \in DOMAIN all : \A k \in DOMAIN all[i].ports : \E q \in PortsOf(m) : q.id = all[i].ports[k]
    <3>1. MachineIsSound(line.machine[m])
      BY <1>3 DEF ProblemIsSound
    <3> QED BY <3>1 DEF MachineIsSound, Machine, PortsOf
  <2> HIDE DEF serving, all
  <2>7. \A k \in DOMAIN ports : Port(m, ports[k][1]) \in PortsOf(m)
    <3> TAKE k \in DOMAIN ports
    <3>1. w[k] \in DOMAIN all /\ all[w[k]].ports # <<>> /\ serving[k] = all[w[k]]
      BY <2>3, <2>5
    <3>2. 1 \in DOMAIN all[w[k]].ports
      BY <2>1, <3>1, ListedFinite
    <3>3. ports[k][1] = all[w[k]].ports[1]
      BY <2>4, <2>5, <3>1
    <3>4. \E q \in PortsOf(m) : q.id = ports[k][1]
      BY <2>6, <3>1, <3>2, <3>3
    <3> QED BY <3>4 DEF Port
  <2>8. \A k \in DOMAIN ports : [machine |-> m, net |-> <<"me", ports[k][2]>>, cells |-> cells(m, ports[k][1])] \in C
    <3> TAKE k \in DOMAIN ports
    <3>1. cells(m, ports[k][1]) \subseteq Site
      BY <1>2, <2>7
    <3>2. <<"me", ports[k][2]>> \in keys
      OBVIOUS
    <3> HIDE DEF keys, ports
    <3> QED BY <3>1, <3>2 DEF Connections
  <2> HIDE DEF ports, C
  <2>9. [k \in DOMAIN ports |-> [machine |-> m, net |-> <<"me", ports[k][2]>>, cells |-> cells(m, ports[k][1])]] \in Seq(C)
    BY <2>5, <2>8
  <2> QED BY <2>9 DEF ports
<1> HIDE DEF ofNet, ofDevices, C
<1>6. Listed(Nets) /\ Listed(MachineOrder) /\ \A i \in DOMAIN MachineOrder : MachineOrder[i] \in Machines
  BY ShapeAssumption DEF Nets, MachineOrder, Machines
<1>7. piped \in Seq(Seq(C)) /\ docked \in Seq(Seq(C))
  <2>1. /\ Len(Nets) \in Nat /\ DOMAIN Nets = 1 .. Len(Nets)
        /\ Len(MachineOrder) \in Nat /\ DOMAIN MachineOrder = 1 .. Len(MachineOrder)
    BY <1>6, ListedFinite
  <2> QED BY <1>4, <1>5, <1>6, <2>1
<1> HIDE DEF piped, docked
<1>8. FlattenSeq(piped) \in Seq(C) /\ FlattenSeq(docked) \in Seq(C)
  <2>1. FlattenSeq(piped) \in Seq(C)
    BY <1>7, FlattenIs
  <2>2. FlattenSeq(docked) \in Seq(C)
    BY <1>7, FlattenIs
  <2> QED BY <2>1, <2>2
<1>9. DockedConnections(L) \in Seq(C)
  BY ONLY <1>1, <1>8
<1> QED BY <1>9 DEF C

-----------------------------------------------------------------------------
(* Where the routers could dock everything, the gate names nobody.         *)

(* A cell for each of the first k connections: a cell is shared by         *)
(* different machines on one net alone.                                    *)
Docking(conns, k, to) ==
  /\ \A i \in 1 .. k : to[i] \in conns[i].cells
  /\ \A i, j \in 1 .. k : i # j /\ to[i] = to[j] =>
        conns[i].net = conns[j].net /\ conns[i].machine # conns[j].machine

LEMMA DockableIs ==
  ASSUME NEW nets, NEW conns \in Seq(Connections(nets)), Dockable(conns)
  PROVE  \E to : Docking(conns, Len(conns), to)
<1> DEFINE n == Len(conns)
           docked(conn, c) == [cell |-> c, net |-> conn.net, machine |-> conn.machine]
           clear(held, conn, c) == \A h \in held : h.cell = c => h.net = conn.net /\ h.machine # conn.machine
           more(held, i) == {held \cup {docked(conns[i], c)} : c \in {d \in conns[i].cells : clear(held, conns[i], d)}}
           after(W, i) == UNION {more(held, i) : held \in W}
           D == [cell : Site, net : nets, machine : Machines]
           Q == SUBSET SUBSET D
           step == [p \in (1 .. n) \X Q |-> after(p[2], p[1])]
           All(g) == [i \in 0 .. n |-> IF i = 0 THEN {{}} ELSE after(g[i - 1], i)]
           ways == CHOOSE g : g = All(g)
           Fills(held, k, to) == Docking(conns, k, to) /\ \A i \in 1 .. k : docked(conns[i], to[i]) \in held
           Good(k) == \A held \in ways[k] : \E to : Fills(held, k, to)
           T == {k \in 0 .. n : Good(k)}
<1>1. ways[n] # {}
  BY DEF Dockable
<1>2. n \in Nat /\ \A i \in 1 .. n : conns[i] \in Connections(nets)
  OBVIOUS
<1>3. {{}} \in Q
  OBVIOUS
<1>4. \A i \in 1 .. n : \A W \in Q : after(W, i) \in Q
  <2> TAKE i \in 1 .. n
  <2>1. \A c \in conns[i].cells : docked(conns[i], c) \in D
    <3>1. /\ conns[i].machine \in Machines /\ conns[i].net \in nets /\ conns[i].cells \subseteq Site
      BY <1>2 DEF Connections
    <3> QED BY <3>1
  <2> HIDE DEF D, docked, clear
  <2> QED BY <2>1
<1> HIDE DEF n, Q, docked, clear
<1>5. step \in [(1 .. n) \X Q -> Q]
  <2> HIDE DEF after
  <2> QED BY <1>4
<1> HIDE DEF more
<1>6. \A i \in 1 .. n : \A W \in Q : step[<<i, W>>] = after(W, i)
  OBVIOUS
<1> HIDE DEF step
<1>7. PICK g : g \in Runs(n, Q, {{}}, step)
  BY ONLY <1>2, <1>3, <1>5, Iterates
<1>8. g \in [0 .. n -> Q] /\ g[0] = {{}} /\ \A k \in 1 .. n : g[k] = step[<<k, g[k - 1]>>]
  BY <1>7 DEF Runs
<1>9. \A k \in 1 .. n : k - 1 \in 0 .. n /\ k # 0
  BY <1>2
<1>10. g = All(g)
  <2>1. \A k \in 1 .. n : g[k] = after(g[k - 1], k)
    BY <1>6, <1>8, <1>9
  <2> HIDE DEF after
  <2>2. \A k \in 0 .. n : k = 0 \/ k \in 1 .. n
    BY <1>2
  <2>3. \A k \in 0 .. n : g[k] = All(g)[k]
    BY <1>8, <2>1, <2>2
  <2>4. g = [k \in 0 .. n |-> g[k]]
    BY <1>8
  <2> QED BY <2>3, <2>4
<1>11. ways = All(ways)
  BY <1>10
<1> HIDE DEF ways
<1>12. ways[0] = {{}} /\ \A k \in 1 .. n : ways[k] = after(ways[k - 1], k)
  <2> HIDE DEF after
  <2>1. \A k \in 0 .. n : ways[k] = IF k = 0 THEN {{}} ELSE after(ways[k - 1], k)
    BY <1>11
  <2> QED BY <1>2, <1>9, <2>1
<1>13. 0 \in T
  <2>1. Fills({}, 0, <<>>)
    BY DEF Docking
  <2>2. \A held \in ways[0] : held = {}
    BY <1>12
  <2> HIDE DEF Fills
  <2>3. Good(0)
    BY <2>1, <2>2
  <2> HIDE DEF Good
  <2> QED BY <1>2, <2>3
<1>14. \A k \in 0 .. n - 1 : k \in T => k + 1 \in T
  <2> SUFFICES ASSUME NEW k \in 0 .. n - 1, Good(k) PROVE Good(k + 1)
    <3> HIDE DEF Good
    <3> QED BY <1>2
  <2> SUFFICES ASSUME NEW all \in ways[k + 1] PROVE \E to : Fills(all, k + 1, to)
    <3> HIDE DEF Fills
    <3> QED OBVIOUS
  <2> DEFINE d == k + 1
  <2>1. d \in 1 .. n /\ d \in 0 .. n /\ d - 1 = k /\ k \in Nat
    BY <1>2
  <2>2. \A i \in 1 .. d : i = d \/ (i # d /\ i \in 1 .. k)
    BY <2>1
  <2>3. ways[d] = after(ways[k], d)
    <3> HIDE DEF d, after
    <3> QED BY <1>12, <2>1
  <2>4. d \in 1 .. d
    BY <2>1
  <2> HIDE DEF d, Fills
  <2>5. PICK held \in ways[k] : all \in more(held, d)
    BY <2>3 DEF d
  <2>6. PICK c \in conns[d].cells : clear(held, conns[d], c) /\ all = held \cup {docked(conns[d], c)}
    BY <2>5 DEF more
  <2>7. PICK to : Fills(held, k, to)
    OBVIOUS
  <2> DEFINE on == [i \in 1 .. d |-> IF i = d THEN c ELSE to[i]]
  <2>8. on[d] = c /\ \A i \in 1 .. k : i # d => on[i] = to[i]
    <3>1. \A i \in 1 .. k : i \in 1 .. d
      BY <2>1
    <3> QED BY <2>4, <3>1
  <2> HIDE DEF on
  <2>9. \A i \in 1 .. k : to[i] \in conns[i].cells /\ docked(conns[i], to[i]) \in held
    BY <2>7 DEF Fills, Docking
  <2>10. \A i \in 1 .. d : on[i] \in conns[i].cells /\ docked(conns[i], on[i]) \in all
    BY <2>2, <2>6, <2>8, <2>9
  <2>11. ASSUME NEW i \in 1 .. k, i # d, on[i] = on[d]
         PROVE  conns[i].net = conns[d].net /\ conns[i].machine # conns[d].machine
    <3>1. docked(conns[i], c) \in held
      BY <2>8, <2>9, <2>11
    <3> QED BY <2>6, <3>1 DEF clear, docked
  <2>12. ASSUME NEW i \in 1 .. d, NEW j \in 1 .. d, i # j, on[i] = on[j]
         PROVE  conns[i].net = conns[j].net /\ conns[i].machine # conns[j].machine
    <3>1. CASE i # d /\ j # d
      <4>1. i \in 1 .. k /\ j \in 1 .. k /\ to[i] = to[j]
        BY <2>2, <2>8, <2>12, <3>1
      <4> QED BY <2>7, <2>12, <4>1 DEF Fills, Docking
    <3>2. CASE i = d
      <4>1. j \in 1 .. k /\ j # d /\ on[j] = on[d]
        BY <2>2, <2>12, <3>2
      <4> QED BY <2>11, <3>2, <4>1
    <3>3. CASE j = d
      <4>1. i \in 1 .. k /\ i # d /\ on[i] = on[d]
        BY <2>2, <2>12, <3>3
      <4> QED BY <2>11, <3>3, <4>1
    <3> QED BY <3>1, <3>2, <3>3
  <2>13. Fills(all, d, on)
    BY <2>10, <2>12 DEF Fills, Docking
  <2> QED BY <2>13 DEF d
<1>15. n \in T
  <2> HIDE DEF T
  <2>1. \A k \in 0 .. n : k \in T
    BY <1>2, <1>13, <1>14, UpTo
  <2> QED BY <1>2, <2>1
<1>16. PICK held \in ways[n] : TRUE
  BY <1>1
<1>17. \E to : Fills(held, n, to)
  <2> HIDE DEF Fills
  <2> QED BY <1>15
<1> QED BY <1>17 DEF n

(* Demands drawn from the connections: each takes any cell its connection  *)
(* could, no connection stands for two demands, and those of one net are   *)
(* of one machine.                                                         *)
Stood(conns, options, place) ==
  /\ place \in [DOMAIN options -> DOMAIN conns]
  /\ \A x \in DOMAIN options : conns[place[x]].cells \subseteq options[x]
  /\ \A x, y \in DOMAIN options : place[x] = place[y] => x = y
  /\ \A x, y \in DOMAIN options :
        conns[place[x]].net = conns[place[y]].net => conns[place[x]].machine = conns[place[y]].machine

(* Stand-ins are drawn so, from nets the machine does not carry.           *)
LEMMA StandInsAre ==
  ASSUME NEW nets, NEW conns \in Seq(Connections(nets)), NEW m
  PROVE  /\ StandIns(m, conns) \in Seq(SUBSET Site)
         /\ \E place : /\ Stood(conns, StandIns(m, conns), place)
                       /\ \A x \in DOMAIN StandIns(m, conns) : \A i \in DOMAIN conns :
                             conns[i].machine = m => conns[i].net # conns[place[x]].net
<1> DEFINE all == {conns[i] : i \in DOMAIN conns}
           own == {c \in all : c.machine = m}
           mine == {c.net : c \in own}
           reach == UNION {c.cells : c \in own}
           near == {c.machine : c \in {d \in all : d.cells \cap reach # {}}} \ {m}
           around == {i \in DOMAIN conns : conns[i].machine \in near /\ conns[i].net \notin mine}
           On(k) == {j \in around : conns[j].net = k}
           cells(k) == UNION {conns[i].cells : i \in On(k)}
           Held(b, k) == {i \in around : conns[i].machine = b /\ conns[i].net = k}
           most(k) == CHOOSE c \in {Cardinality(Held(b, k)) : b \in near} : \A b \in near : Cardinality(Held(b, k)) <= c
           keys == {conns[i].net : i \in around}
           listed == SetToSeq(keys)
           parts == [i \in DOMAIN listed |-> [j \in 1 .. most(listed[i]) |-> cells(listed[i])]]
           Draws(k) == {f \in [1 .. most(k) -> On(k)] :
                          /\ \A x, y \in 1 .. most(k) : f[x] = f[y] => x = y
                          /\ \A x, y \in 1 .. most(k) : conns[f[x]].machine = conns[f[y]].machine}
           Q == Seq(SUBSET Site)
<1>1. StandIns(m, conns) = FlattenSeq(parts)
  BY DEF StandIns
<1>2. /\ Len(conns) \in Nat /\ DOMAIN conns = 1 .. Len(conns) /\ IsFiniteSet(DOMAIN conns)
      /\ \A i \in DOMAIN conns : conns[i] \in Connections(nets)
  BY SeqFacts
<1>3. \A i \in DOMAIN conns : conns[i].machine = m => conns[i].net \in mine
  OBVIOUS
<1>4. around \subseteq DOMAIN conns /\ IsFiniteSet(around)
  BY <1>2, FS_Subset
<1>5. IsFiniteSet(near)
  <2> DEFINE machines == {conns[i].machine : i \in DOMAIN conns}
  <2>1. [i \in DOMAIN conns |-> conns[i].machine] \in Surjection(DOMAIN conns, machines)
    BY DEF Surjection
  <2>2. IsFiniteSet(machines)
    BY <1>2, <2>1, FS_Surjection
  <2>3. near \subseteq machines
    OBVIOUS
  <2> HIDE DEF machines, near
  <2> QED BY <2>2, <2>3, FS_Subset
<1>6. \A i \in around : conns[i].machine \in near /\ conns[i].net \notin mine
  OBVIOUS
<1> HIDE DEF mine, near, around
<1>7. ASSUME NEW k \in keys PROVE most(k) \in Nat /\ Draws(k) # {}
  <2> DEFINE counts == {Cardinality(Held(b, k)) : b \in near}
  <2>1. PICK i \in around : k = conns[i].net
    OBVIOUS
  <2>2. near # {}
    BY <1>6, <2>1
  <2>3. \A b : IsFiniteSet(Held(b, k)) /\ Cardinality(Held(b, k)) \in Nat
    BY <1>4, FS_Subset, FS_CardinalityType
  <2>4. IsFiniteSet(counts)
    <3>1. [b \in near |-> Cardinality(Held(b, k))] \in Surjection(near, counts)
      BY DEF Surjection
    <3> HIDE DEF counts
    <3> QED BY <1>5, <3>1, FS_Surjection
  <2>5. counts \subseteq Int /\ counts # {}
    <3> HIDE DEF Held
    <3>1. \A b \in near : Cardinality(Held(b, k)) \in Int
      BY <2>3
    <3> QED BY <2>2, <3>1
  <2>6. \E c \in counts : \A l \in counts : l <= c
    <3> HIDE DEF counts
    <3> QED BY <2>4, <2>5, FiniteBounds
  <2>7. \E c \in counts : \A b \in near : Cardinality(Held(b, k)) <= c
    BY <2>6
  <2>8. most(k) \in counts
    BY <2>7
  <2>9. PICK b \in near : most(k) = Cardinality(Held(b, k))
    BY <2>8
  <2> HIDE DEF most
  <2> DEFINE B == Held(b, k)
  <2>10. B \subseteq On(k) /\ \A x \in B : conns[x].machine = b
    OBVIOUS
  <2>11. PICK f : f \in Bijection(1 .. most(k), B)
    <3>1. ExistsBijection(1 .. Cardinality(B), B)
      <4> HIDE DEF Held
      <4> QED BY <2>3, FS_CardinalityType
    <3> QED BY <2>9, <3>1 DEF ExistsBijection
  <2>12. f \in [1 .. most(k) -> B] /\ \A x, y \in 1 .. most(k) : f[x] = f[y] => x = y
    BY <2>11 DEF Bijection, Injection, IsInjective
  <2> HIDE DEF B, On
  <2>13. f \in Draws(k)
    BY <2>10, <2>12
  <2>14. most(k) \in Nat
    BY <2>3, <2>9
  <2> HIDE DEF Draws
  <2> QED BY <2>13, <2>14
<1> HIDE DEF most
<1>8. /\ listed \in Seq(keys) /\ \A x, y \in DOMAIN listed : listed[x] = listed[y] => x = y
  <2>1. [i \in around |-> conns[i].net] \in Surjection(around, keys)
    BY DEF Surjection
  <2>2. IsFiniteSet(keys)
    BY <1>4, <2>1, FS_Surjection
  <2> HIDE DEF keys
  <2> QED BY <2>2, SetListed
<1>9. \A k : cells(k) \subseteq Site
  BY <1>2, <1>4 DEF Connections
<1> HIDE DEF keys, listed, cells
<1>10. Len(listed) \in Nat /\ DOMAIN listed = 1 .. Len(listed) /\ \A i \in DOMAIN listed : listed[i] \in keys
  BY <1>8
<1>11. parts \in Seq(Q) /\ DOMAIN parts = DOMAIN listed
  <2>1. \A i \in DOMAIN listed : [j \in 1 .. most(listed[i]) |-> cells(listed[i])] \in Q
    <3> TAKE i \in DOMAIN listed
    <3>1. most(listed[i]) \in Nat /\ cells(listed[i]) \in SUBSET Site
      BY <1>7, <1>9, <1>10
    <3> QED BY <3>1
  <2> HIDE DEF Q
  <2> QED BY <1>10, <2>1
<1>12. \A i \in DOMAIN parts : /\ DOMAIN parts[i] = 1 .. most(listed[i])
                               /\ \A j \in DOMAIN parts[i] : parts[i][j] = cells(listed[i])
  OBVIOUS
<1> HIDE DEF parts
<1> DEFINE flat == FlattenSeq(parts)
<1>13. flat \in Q
  BY <1>11, FlattenIs
<1>14. PICK w \in [DOMAIN flat -> DOMAIN parts], v \in [DOMAIN flat -> Nat] :
         /\ \A k \in DOMAIN flat : v[k] \in DOMAIN parts[w[k]] /\ flat[k] = parts[w[k]][v[k]]
         /\ \A k, l \in DOMAIN flat : w[k] = w[l] /\ v[k] = v[l] => k = l
  BY <1>11, FlattenIs
<1> HIDE DEF flat
<1> DEFINE key(x) == listed[w[x]]
           draw(k) == CHOOSE f \in Draws(k) : TRUE
           place == [x \in DOMAIN flat |-> draw(key(x))[v[x]]]
<1>15. ASSUME NEW x \in DOMAIN flat
       PROVE  /\ w[x] \in DOMAIN listed /\ key(x) \in keys /\ v[x] \in 1 .. most(key(x))
              /\ flat[x] = cells(key(x)) /\ draw(key(x)) \in Draws(key(x))
  <2>1. w[x] \in DOMAIN listed /\ key(x) \in keys
    BY <1>10, <1>11, <1>14
  <2>2. v[x] \in 1 .. most(key(x)) /\ flat[x] = cells(key(x))
    BY <1>11, <1>12, <1>14
  <2>3. draw(key(x)) \in Draws(key(x))
    <3> HIDE DEF Draws, key
    <3> QED BY <1>7, <2>1
  <2> HIDE DEF draw, Draws
  <2> QED BY <2>1, <2>2, <2>3
<1> HIDE DEF draw, key
<1>16. ASSUME NEW x \in DOMAIN flat PROVE place[x] = draw(key(x))[v[x]] /\ place[x] \in On(key(x))
  BY <1>15
<1>17. ASSUME NEW x \in DOMAIN flat
       PROVE  /\ place[x] \in DOMAIN conns /\ place[x] \in around /\ conns[place[x]].net = key(x)
              /\ conns[place[x]].cells \subseteq flat[x]
  <2>1. place[x] \in On(key(x)) /\ flat[x] = cells(key(x))
    BY <1>15, <1>16
  <2> HIDE DEF place
  <2> QED BY <1>4, <2>1 DEF cells
<1>18. ASSUME NEW x \in DOMAIN flat, NEW y \in DOMAIN flat, key(x) = key(y)
       PROVE  /\ conns[place[x]].machine = conns[place[y]].machine
              /\ place[x] = place[y] => x = y
  <2> DEFINE f == draw(key(x))
  <2>1. f \in Draws(key(x)) /\ v[x] \in 1 .. most(key(x)) /\ v[y] \in 1 .. most(key(x))
    BY <1>15, <1>18
  <2>2. place[x] = f[v[x]] /\ place[y] = f[v[y]]
    BY <1>16, <1>18
  <2> HIDE DEF place, f
  <2>3. f[v[x]] = f[v[y]] => v[x] = v[y]
    BY <2>1
  <2>4. conns[f[v[x]]].machine = conns[f[v[y]]].machine
    BY <2>1
  <2>5. w[x] = w[y]
    BY <1>8, <1>15, <1>18 DEF key
  <2> QED BY <1>14, <2>2, <2>3, <2>4, <2>5
<1>19. place \in [DOMAIN flat -> DOMAIN conns]
  BY <1>17
<1> HIDE DEF place
<1>20. Stood(conns, flat, place)
  BY <1>17, <1>18, <1>19 DEF Stood
<1>21. \A x \in DOMAIN flat : \A i \in DOMAIN conns : conns[i].machine = m => conns[i].net # conns[place[x]].net
  BY <1>3, <1>6, <1>17
<1> QED BY <1>1, <1>13, <1>20, <1>21 DEF flat

(* Demands so drawn have each a cell of its own where all can dock.        *)
LEMMA StoodMatch ==
  ASSUME NEW conns, DOMAIN conns = 1 .. Len(conns), NEW to, Docking(conns, Len(conns), to),
         NEW options, NEW place, Stood(conns, options, place)
  PROVE  Matching(options, [x \in DOMAIN options |-> to[place[x]]])
<1> DEFINE own == [x \in DOMAIN options |-> to[place[x]]]
<1>1. \A x \in DOMAIN options : place[x] \in 1 .. Len(conns)
  BY DEF Stood
<1>2. \A x \in DOMAIN options : own[x] = to[place[x]] /\ own[x] \in options[x]
  BY <1>1 DEF Stood, Docking
<1> HIDE DEF own
<1>3. ASSUME NEW x \in DOMAIN options, NEW y \in DOMAIN options, own[x] = own[y] PROVE x = y
  <2> SUFFICES ASSUME place[x] # place[y] PROVE FALSE
    BY DEF Stood
  <2>1. /\ conns[place[x]].net = conns[place[y]].net
        /\ conns[place[x]].machine # conns[place[y]].machine
    BY <1>1, <1>2, <1>3 DEF Docking
  <2> QED BY <2>1 DEF Stood
<1> QED BY <1>2, <1>3 DEF Matching, own

(* A layout whose connections can all dock leaves no machine unseated.     *)
LEMMA DockableSeats ==
  ASSUME line \in Lines, NEW nets, NEW conns \in Seq(Connections(nets)), Dockable(conns)
  PROVE  Unseated(conns) = {}
<1> DEFINE own(m) == Sifted(conns, {i \in DOMAIN conns : conns[i].machine = m})
           carried(m) == [i \in DOMAIN own(m) |-> own(m)[i].cells]
<1> SUFFICES ASSUME NEW m \in Machines PROVE Hosts(carried(m), StandIns(m, conns))
  BY DEF Unseated
<1> DEFINE mine == carried(m)
           others == StandIns(m, conns)
           options == others \o mine
           places == {i \in DOMAIN conns : conns[i].machine = m}
           sifted == own(m)
<1>1. Len(conns) \in Nat /\ DOMAIN conns = 1 .. Len(conns) /\ \A i \in DOMAIN conns : conns[i] \in Connections(nets)
  BY SeqFacts
<1>2. PICK to : Docking(conns, Len(conns), to)
  BY DockableIs
<1>3. /\ sifted \in Seq(Connections(nets))
      /\ \E w \in [DOMAIN sifted -> DOMAIN conns] :
           /\ \A k \in DOMAIN sifted : w[k] \in places /\ sifted[k] = conns[w[k]]
           /\ \A k, l \in DOMAIN sifted : w[k] = w[l] => k = l
  <2>1. sifted = Sifted(conns, places)
    OBVIOUS
  <2> HIDE DEF places, sifted, own
  <2>2. sifted \in Seq(Connections(nets))
    BY <2>1, SiftedIs
  <2>3. \E w \in [DOMAIN sifted -> DOMAIN conns] :
           /\ \A k \in DOMAIN sifted : w[k] \in places /\ sifted[k] = conns[w[k]]
           /\ \A k, l \in DOMAIN sifted : w[k] = w[l] => k = l
    BY <2>1, SiftedIs
  <2> QED BY <2>2, <2>3
<1>4. PICK w \in [DOMAIN sifted -> DOMAIN conns] :
           /\ \A k \in DOMAIN sifted : w[k] \in places /\ sifted[k] = conns[w[k]]
           /\ \A k, l \in DOMAIN sifted : w[k] = w[l] => k = l
  BY <1>3
<1>5. /\ Len(sifted) \in Nat /\ DOMAIN sifted = 1 .. Len(sifted)
      /\ \A k \in DOMAIN sifted : sifted[k].cells \subseteq Site
  <2> HIDE DEF sifted, own
  <2>1. Len(sifted) \in Nat /\ DOMAIN sifted = 1 .. Len(sifted)
    BY <1>3
  <2>2. \A k \in DOMAIN sifted : sifted[k] \in Connections(nets)
    BY <1>3
  <2> QED BY <2>1, <2>2 DEF Connections
<1>6. /\ mine \in Seq(SUBSET Site) /\ Len(mine) \in Nat /\ DOMAIN mine = 1 .. Len(mine)
      /\ DOMAIN mine = DOMAIN sifted
      /\ \A k \in DOMAIN mine : /\ w[k] \in DOMAIN conns /\ conns[w[k]].machine = m
                                /\ mine[k] = conns[w[k]].cells
  <2>1. mine = [i \in DOMAIN sifted |-> sifted[i].cells]
    OBVIOUS
  <2> HIDE DEF mine, sifted
  <2> QED BY <1>4, <1>5, <2>1
<1>7. /\ others \in Seq(SUBSET Site)
      /\ \E place : /\ Stood(conns, others, place)
                    /\ \A x \in DOMAIN others : \A i \in DOMAIN conns :
                          conns[i].machine = m => conns[i].net # conns[place[x]].net
  BY StandInsAre
<1>8. PICK place : /\ Stood(conns, others, place)
                   /\ \A x \in DOMAIN others : \A i \in DOMAIN conns :
                          conns[i].machine = m => conns[i].net # conns[place[x]].net
  BY <1>7
<1> HIDE DEF sifted, others
<1>9. \A k, l \in DOMAIN mine : w[k] = w[l] => k = l
  BY <1>4, <1>6
<1> HIDE DEF mine
<1> DEFINE p == Len(others)
           spot == [x \in DOMAIN options |-> IF x <= p THEN place[x] ELSE w[x - p]]
<1>10. /\ options \in Seq(SUBSET Site) /\ p \in Nat /\ DOMAIN others = 1 .. p
       /\ DOMAIN options = 1 .. p + Len(mine)
       /\ \A x \in DOMAIN options : /\ x <= p => x \in DOMAIN others /\ options[x] = others[x]
                                    /\ ~(x <= p) => x - p \in DOMAIN mine /\ options[x] = mine[x - p]
  BY <1>6, <1>7
<1> HIDE DEF options, p
<1>11. \A x \in DOMAIN options :
          /\ x <= p => /\ spot[x] = place[x] /\ x \in DOMAIN others /\ options[x] = others[x]
          /\ ~(x <= p) => /\ spot[x] = w[x - p] /\ x - p \in DOMAIN mine /\ options[x] = mine[x - p]
                          /\ conns[spot[x]].machine = m
  BY <1>6, <1>10
<1>12. \A x \in DOMAIN options : spot[x] \in DOMAIN conns /\ conns[spot[x]].cells \subseteq options[x]
  <2> TAKE x \in DOMAIN options
  <2>1. CASE x <= p
    BY <1>8, <1>11, <2>1 DEF Stood
  <2>2. CASE ~(x <= p)
    BY <1>6, <1>11, <2>2
  <2> QED BY <2>1, <2>2
<1>13. spot \in [DOMAIN options -> DOMAIN conns]
  BY <1>12
<1> HIDE DEF spot
<1>14. ASSUME NEW x \in DOMAIN options, NEW y \in DOMAIN options, x <= p, ~(y <= p)
       PROVE  conns[spot[x]].net # conns[spot[y]].net
  BY <1>8, <1>11, <1>12, <1>14
<1>15. ASSUME NEW x \in DOMAIN options, NEW y \in DOMAIN options
       PROVE  /\ spot[x] = spot[y] => x = y
              /\ conns[spot[x]].net = conns[spot[y]].net => conns[spot[x]].machine = conns[spot[y]].machine
  <2>1. CASE x <= p /\ y <= p
    BY <1>8, <1>11, <2>1 DEF Stood
  <2>2. CASE ~(x <= p) /\ ~(y <= p)
    <3>1. w[x - p] = w[y - p] => x - p = y - p
      BY <1>9, <1>11, <2>2
    <3>2. x \in Int /\ y \in Int /\ p \in Int
      BY <1>6, <1>10
    <3>3. x - p = y - p => x = y
      BY <3>2
    <3> QED BY <1>11, <2>2, <3>1, <3>3
  <2>3. CASE x <= p /\ ~(y <= p)
    BY <1>14, <2>3
  <2>4. CASE ~(x <= p) /\ y <= p
    BY <1>14, <2>4
  <2> QED BY <2>1, <2>2, <2>3, <2>4
<1>16. Stood(conns, options, spot)
  BY <1>12, <1>13, <1>15 DEF Stood
<1>17. Matching(options, [x \in DOMAIN options |-> to[spot[x]]])
  BY <1>1, <1>2, <1>16, StoodMatch
<1>18. IsChoice(options)
  <2>1. Site \subseteq Triple /\ IsFiniteSet(Site)
    BY RegionCells DEF Site
  <2>2. CellsIn(options) \subseteq Site
    BY <1>10 DEF CellsIn, Range
  <2>3. options \in Seq(SUBSET Triple)
    <3>1. \A x \in DOMAIN options : options[x] \in SUBSET Triple
      BY <1>10, <2>1
    <3>2. Len(options) \in Nat /\ DOMAIN options = 1 .. Len(options) /\ options = [x \in DOMAIN options |-> options[x]]
      BY <1>10
    <3> QED BY <3>1, <3>2
  <2> QED BY <2>1, <2>2, <2>3, FS_Subset DEF IsChoice
<1>19. Hosts(mine, others)
  BY <1>17, <1>18, HostsSeatsAll DEF options
<1> QED BY <1>19 DEF mine, others

(* A machine the gate names without an ME clash really cannot be served:   *)
(* in every layout of the walk, where the connections could all dock at    *)
(* once, the augmenting paths of crowded_machines seat every machine.      *)
THEOREM GateNamesProved == Spec => []GateNamesAreProofs
<1>1. IInv => GateNamesAreProofs
  <2> SUFFICES ASSUME IInv, Dockable(DockedConnections(current))
               PROVE  CrowdedMachines(current) \subseteq MEBlockClashes(current)
    BY DEF GateNamesAreProofs
  <2>1. line \in Lines /\ MembersOf(Range(units)) = Machines /\ LaidOut(Range(units), current)
    BY DEF IInv, Stands
  <2>2. current \in [Machines -> Pose]
    BY <2>1, LaidLegal
  <2>3. Partial(current) /\ DOMAIN current = Machines
    BY <2>2 DEF Partial
  <2>4. PICK nets : DockedConnections(current) \in Seq(Connections(nets))
    BY <2>1, <2>3, ConnectionsAre
  <2>5. Unseated(DockedConnections(current)) = {}
    BY <2>1, <2>4, DockableSeats
  <2> DEFINE docked == DockedConnections(current)
  <2>6. CrowdedMachines(current) = MEBlockClashes(current) \cup UNION {Unseated(conns) : conns \in {docked}}
    BY DEF CrowdedMachines
  <2> HIDE DEF docked
  <2>7. UNION {Unseated(conns) : conns \in {docked}} = Unseated(docked)
    BY Zenon
  <2> QED BY <2>5, <2>6, <2>7 DEF docked
<1> QED BY <1>1, AnnealerInductive, PTL
=============================================================================
