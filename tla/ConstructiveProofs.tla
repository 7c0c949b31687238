------------------------- MODULE ConstructiveProofs -------------------------
(***************************************************************************)
(* Safety of the constructive placer for every line, in any region.        *)
(***************************************************************************)
EXTENDS Constructive, TLAPS, FiniteSetTheorems, WellFoundedInduction

-----------------------------------------------------------------------------
(* Least elements.                                                         *)

(* Some element of a set has the least rank, if ranks are naturals.        *)
LEMMA LeastRank ==
  ASSUME NEW S, S # {}, NEW rank \in [S -> Nat]
  PROVE  \E x \in S : \A y \in S : rank[x] <= rank[y]
<1> DEFINE T == {rank[x] : x \in S}
<1>1. T \subseteq Nat /\ T # {}
  OBVIOUS
<1>2. PICK n \in T : \A m \in T : ~(<<m, n>> \in OpToRel(<, Nat))
  BY <1>1, NatLessThanWellFounded, WFMin
<1>3. \A m \in T : n <= m
  <2>1. \A m \in T : ~(m < n)
    BY <1>1, <1>2 DEF OpToRel
  <2> QED BY <1>1, <2>1
<1>4. PICK x \in S : rank[x] = n
  BY DEF T
<1> QED BY <1>3, <1>4

-----------------------------------------------------------------------------
(* Sequences in order of a key.                                            *)

(* Making a sequence once changes nothing.                                 *)
LEMMA LaidIs ==
  ASSUME NEW S, NEW n \in Nat, NEW s \in [1 .. n -> S]
  PROVE  Laid(s) = s
<1>1. Len(s) = n
  OBVIOUS
<1> QED BY <1>1 DEF Laid

(* How many of S come before one of them.                                  *)
Below(S, key, i) == {j \in S : key[j] < key[i]}

(* If keys differ, InOrder lists every member of S once.                   *)
LEMMA InOrderLists ==
  ASSUME NEW S, IsFiniteSet(S), NEW key,
         \A i \in S : key[i] \in Int,
         \A i, j \in S : key[i] = key[j] => i = j
  PROVE  /\ Cardinality(S) \in Nat
         /\ DOMAIN InOrder(S, key) = 1 .. Cardinality(S)
         /\ InOrder(S, key) \in Seq(S)
         /\ \A k \in 1 .. Cardinality(S) : InOrder(S, key)[k] \in S
         /\ \A k, l \in 1 .. Cardinality(S) : InOrder(S, key)[k] = InOrder(S, key)[l] => k = l
         /\ \A i \in S : \E k \in 1 .. Cardinality(S) : InOrder(S, key)[k] = i
<1> DEFINE n == Cardinality(S)
           rank == [i \in S |-> Cardinality(Below(S, key, i)) + 1]
           seq == [k \in 1 .. n |-> CHOOSE i \in S : Cardinality({j \in S : key[j] < key[i]}) = k - 1]
<1>1. n \in Nat
  BY FS_CardinalityType
<1>2. \A i \in S : /\ IsFiniteSet(Below(S, key, i)) /\ Cardinality(Below(S, key, i)) \in Nat
                   /\ Cardinality(Below(S, key, i)) <= n - 1
  <2> TAKE i \in S
  <2>1. Below(S, key, i) \in SUBSET (S \ {i})
    BY DEF Below
  <2>2. IsFiniteSet(S \ {i}) /\ Cardinality(S \ {i}) = n - 1
    BY FS_RemoveElement
  <2>3. IsFiniteSet(Below(S, key, i)) /\ Cardinality(Below(S, key, i)) <= n - 1
    BY <2>1, <2>2, FS_Subset
  <2> QED BY <2>3, FS_CardinalityType
<1>3. rank \in [S -> 1 .. n]
  BY <1>1, <1>2
<1>4. \A i, j \in S : key[i] < key[j] => rank[i] < rank[j]
  <2> SUFFICES ASSUME NEW i \in S, NEW j \in S, key[i] < key[j] PROVE rank[i] < rank[j]
    OBVIOUS
  <2>1. Below(S, key, i) \cup {i} \in SUBSET Below(S, key, j) /\ i \notin Below(S, key, i)
    BY DEF Below
  <2>2. Cardinality(Below(S, key, i) \cup {i}) = Cardinality(Below(S, key, i)) + 1
    BY <1>2, <2>1, FS_AddElement
  <2>3. Cardinality(Below(S, key, i) \cup {i}) <= Cardinality(Below(S, key, j))
    BY <1>2, <2>1, FS_Subset
  <2> QED BY <1>2, <2>2, <2>3
<1>5. rank \in Injection(S, 1 .. n)
  <2>1. \A i, j \in S : rank[i] = rank[j] => i = j
    <3> SUFFICES ASSUME NEW i \in S, NEW j \in S, rank[i] = rank[j] PROVE i = j
      OBVIOUS
    <3>1. rank[i] \in Int /\ rank[j] \in Int
      BY <1>3
    <3>2. ~(key[i] < key[j]) /\ ~(key[j] < key[i])
      BY <1>4, <3>1
    <3> HIDE DEF rank
    <3> QED BY <3>2
  <2> HIDE DEF rank
  <2> QED BY <1>3, <2>1 DEF Injection, IsInjective
<1>6. rank \in Surjection(S, 1 .. n)
  <2>1. IsFiniteSet(1 .. n) /\ Cardinality(1 .. n) = n
    BY <1>1, FS_Interval
  <2> QED BY <1>5, <2>1, FS_Injection
<1>7. \A k \in 1 .. n : seq[k] \in S /\ rank[seq[k]] = k
  <2> TAKE k \in 1 .. n
  <2>1. PICK i \in S : rank[i] = k
    BY <1>6 DEF Surjection
  <2>2. Cardinality(Below(S, key, i)) = k - 1
    BY <1>2, <2>1
  <2>3. \E x \in S : Cardinality({j \in S : key[j] < key[x]}) = k - 1
    BY <2>2 DEF Below
  <2>4. seq[k] \in S /\ Cardinality({j \in S : key[j] < key[seq[k]]}) = k - 1
    BY <2>3
  <2> QED BY <2>4 DEF Below
<1>8. \A i \in S : seq[rank[i]] = i
  <2> TAKE i \in S
  <2>1. rank[i] \in 1 .. n /\ seq[rank[i]] \in S /\ rank[seq[rank[i]]] = rank[i]
    BY <1>3, <1>7
  <2> HIDE DEF rank, seq
  <2> QED BY <1>5, <2>1 DEF Injection, IsInjective
<1>9. seq \in [1 .. n -> S]
  BY <1>7
<1>10. InOrder(S, key) = seq
  <2>1. Laid(seq) = seq
    <3> HIDE DEF seq
    <3> QED BY <1>1, <1>9, LaidIs
  <2> QED BY <2>1 DEF InOrder
<1> HIDE DEF rank, seq
<1>11. seq \in Seq(S) /\ DOMAIN seq = 1 .. n
  BY <1>1, <1>9
<1> QED BY <1>1, <1>3, <1>7, <1>8, <1>10, <1>11

-----------------------------------------------------------------------------
(* A line.                                                                 *)

(* What is assumed of the machines of a call.                              *)
LEMMA MachineFacts ==
  ASSUME line \in Lines
  PROVE  /\ Len(Machines) \in Nat /\ DOMAIN Machines = 1 .. Len(Machines)
         /\ \A i \in DOMAIN Machines :
              /\ Machines[i].facings \in Seq(Facing)
              /\ Machines[i].facings # <<>>
              /\ Machines[i].facings[1] \in Range(Machines[i].facings)
              /\ Range(Machines[i].facings) \subseteq Facing
              /\ Machines[i].outside \in BOOLEAN
              /\ Machines[i].number \in Nat
              /\ \A f \in Facing : /\ Machines[i].size[f][1] \in Nat \ {0}
                                   /\ Machines[i].size[f][2] \in Nat \ {0}
                                   /\ Machines[i].size[f][3] \in Nat \ {0}
<1>1. Machines \in Seq(Range(Machines))
  BY LineAssumption DEF Machines
<1>2. Len(Machines) \in Nat /\ DOMAIN Machines = 1 .. Len(Machines)
  BY <1>1
<1>3. ASSUME NEW i \in DOMAIN Machines
      PROVE  /\ Machines[i].facings \in Seq(Facing)
             /\ Machines[i].facings # <<>>
             /\ Machines[i].outside \in BOOLEAN
             /\ Machines[i].number \in Nat
             /\ Machines[i].size \in [Facing -> (Nat \ {0}) \X (Nat \ {0}) \X (Nat \ {0})]
  <2>1. Machines[i] \in Range(Machines)
    BY DEF Range
  <2> QED BY <2>1, LineAssumption DEF Machines
<1>4. ASSUME NEW i \in DOMAIN Machines
      PROVE  /\ Machines[i].facings[1] \in Range(Machines[i].facings)
             /\ Range(Machines[i].facings) \subseteq Facing
  <2> DEFINE s == Machines[i].facings
  <2>1. s \in Seq(Facing) /\ s # <<>>
    BY <1>3
  <2> HIDE DEF s
  <2>2. 1 \in DOMAIN s /\ \A k \in DOMAIN s : s[k] \in Facing
    BY <2>1
  <2>3. s[1] \in Range(s) /\ Range(s) \subseteq Facing
    BY <2>2 DEF Range
  <2> QED BY <2>3 DEF s
<1>5. ASSUME NEW i \in DOMAIN Machines, NEW f \in Facing
      PROVE  /\ Machines[i].size[f][1] \in Nat \ {0}
             /\ Machines[i].size[f][2] \in Nat \ {0}
             /\ Machines[i].size[f][3] \in Nat \ {0}
  <2> DEFINE z == Machines[i].size[f]
  <2>1. z \in (Nat \ {0}) \X (Nat \ {0}) \X (Nat \ {0})
    BY <1>3, <1>5
  <2> HIDE DEF z
  <2>2. z[1] \in Nat \ {0} /\ z[2] \in Nat \ {0} /\ z[3] \in Nat \ {0}
    BY <2>1
  <2> QED BY <2>2 DEF z
<1> QED BY <1>2, <1>3, <1>4, <1>5

(* A column's members are interchangeable single blocks.                   *)
LEMMA GroupFacts ==
  ASSUME line \in Lines, NEW i \in DOMAIN Machines, NEW j \in DOMAIN Machines,
         Machines[i].group # Alone, Machines[i].group = Machines[j].group
  PROVE  /\ ~Machines[i].outside /\ Machines[i].facings = Machines[j].facings
         /\ \A f \in Facing : Machines[i].size[f] = <<1, 1, 1>>
         /\ i # j => Machines[i].number # Machines[j].number
BY GroupAssumption DEF Machines

-----------------------------------------------------------------------------
(* Units.                                                                  *)

(* One machine, or several of one group.                                   *)
IsUnit(u) ==
  /\ u \in Seq(DOMAIN Machines) /\ u # <<>>
  /\ \A k, l \in DOMAIN u : u[k] = u[l] => k = l
  /\ Len(u) > 1 => \A k \in DOMAIN u : /\ Machines[u[k]].group = Machines[u[1]].group
                                       /\ Machines[u[k]].group # Alone

(* The machines a head stands for.                                         *)
Led(heads) ==
  {i \in DOMAIN Machines :
     \E h \in heads : i = h \/ (Machines[h].group # Alone /\ Machines[i].group = Machines[h].group)}

(* The unit of a head is one, of the machines the head stands for.         *)
LEMMA UnitOfIs ==
  ASSUME line \in Lines, NEW h \in DOMAIN Machines
  PROVE  IsUnit(UnitOf(h)) /\ Range(UnitOf(h)) = Led({h})
<1>1. CASE Machines[h].group = Alone
  <2>1. UnitOf(h) = <<h>>
    BY <1>1 DEF UnitOf
  <2>2. Led({h}) = {h}
    BY <1>1 DEF Led
  <2> QED BY <2>1, <2>2 DEF IsUnit, Range
<1>2. CASE Machines[h].group # Alone
  <2> DEFINE S == {i \in DOMAIN Machines : Machines[i].group = Machines[h].group}
             key == [i \in DOMAIN Machines |-> Machines[i].number]
             u == InOrder(S, key)
  <2>1. UnitOf(h) = u /\ Led({h}) = S
    BY <1>2 DEF UnitOf, Members, Led
  <2>2. IsFiniteSet(S)
    <3>1. IsFiniteSet(DOMAIN Machines)
      BY MachineFacts, FS_Interval
    <3> QED BY <3>1, FS_Subset
  <2>3. \A i \in S : key[i] \in Int
    BY MachineFacts
  <2>4. \A i, j \in S : key[i] = key[j] => i = j
    BY <1>2, GroupFacts
  <2>5. /\ Cardinality(S) \in Nat /\ DOMAIN u = 1 .. Cardinality(S) /\ u \in Seq(S)
        /\ \A k \in DOMAIN u : u[k] \in S
        /\ \A k, l \in DOMAIN u : u[k] = u[l] => k = l
        /\ \A i \in S : \E k \in DOMAIN u : u[k] = i
    <3> HIDE DEF S, key
    <3>1. /\ Cardinality(S) \in Nat /\ DOMAIN u = 1 .. Cardinality(S) /\ u \in Seq(S)
          /\ \A k \in 1 .. Cardinality(S) : u[k] \in S
          /\ \A k, l \in 1 .. Cardinality(S) : u[k] = u[l] => k = l
          /\ \A i \in S : \E k \in 1 .. Cardinality(S) : u[k] = i
      BY ONLY <2>2, <2>3, <2>4, InOrderLists DEF u
    <3> HIDE DEF u
    <3> QED BY <3>1
  <2> HIDE DEF u
  <2>6. Range(u) = S
    BY <2>5 DEF Range
  <2>7. h \in S /\ \A i \in S : i \in DOMAIN Machines /\ Machines[i].group = Machines[h].group
    OBVIOUS
  <2> HIDE DEF S
  <2>8. u \in Seq(DOMAIN Machines)
    BY <2>5, <2>7
  <2>9. u # <<>> /\ 1 \in DOMAIN u
    <3>1. PICK k \in DOMAIN u : u[k] = h
      BY <2>5, <2>7
    <3> QED BY <2>5, <3>1
  <2>10. \A k \in DOMAIN u : Machines[u[k]].group = Machines[u[1]].group /\ Machines[u[k]].group # Alone
    BY <1>2, <2>5, <2>7, <2>9
  <2> QED BY <2>1, <2>5, <2>6, <2>8, <2>9, <2>10 DEF IsUnit
<1> QED BY <1>1, <1>2

(* Different heads stand for different machines.                           *)
LEMMA HeadsApart ==
  ASSUME line \in Lines, NEW h \in Heads, NEW k \in Heads, h # k
  PROVE  Led({h}) \cap Led({k}) = {}
<1> SUFFICES ASSUME NEW i \in Led({h}) \cap Led({k}) PROVE FALSE
  OBVIOUS
<1>1. h \in DOMAIN Machines /\ k \in DOMAIN Machines /\ DOMAIN Machines \subseteq Nat
  BY MachineFacts DEF Heads
<1>2. Machines[h].group = Machines[k].group /\ Machines[h].group # Alone
  BY DEF Led
<1>3. h \notin 1 .. k - 1 /\ k \notin 1 .. h - 1
  BY <1>2 DEF Heads
<1>4. h \in 1 .. Len(Machines) /\ k \in 1 .. Len(Machines) /\ Len(Machines) \in Nat
  BY <1>1, MachineFacts
<1> QED BY <1>3, <1>4

(* Together they stand for all.                                            *)
LEMMA HeadsLeadAll ==
  ASSUME line \in Lines
  PROVE  Led(Heads) = DOMAIN Machines
<1> SUFFICES ASSUME NEW i \in DOMAIN Machines PROVE i \in Led(Heads)
  BY DEF Led
<1>1. CASE Machines[i].group = Alone
  BY <1>1 DEF Led, Heads
<1>2. CASE Machines[i].group # Alone
  <2> DEFINE S == {j \in DOMAIN Machines : Machines[j].group = Machines[i].group}
             rank == [j \in S |-> j]
  <2>1. rank \in [S -> Nat] /\ S # {}
    BY MachineFacts
  <2>2. PICK h \in S : \A j \in S : h <= j
    <3>1. \E h \in S : \A j \in S : rank[h] <= rank[j]
      <4> HIDE DEF S, rank
      <4> QED BY <2>1, LeastRank
    <3> QED BY <3>1
  <2>3. \A j \in 1 .. h - 1 : Machines[j].group # Machines[h].group
    <3> SUFFICES ASSUME NEW j \in 1 .. h - 1, Machines[j].group = Machines[h].group PROVE FALSE
      OBVIOUS
    <3>1. h \in 1 .. Len(Machines) /\ Len(Machines) \in Nat /\ DOMAIN Machines = 1 .. Len(Machines)
      BY MachineFacts
    <3>2. j \in S /\ j < h
      BY <3>1
    <3> QED BY <2>2, <3>1, <3>2
  <2>4. h \in Heads
    BY <2>3 DEF Heads
  <2> QED BY <1>2, <2>4 DEF Led
<1> QED BY <1>1, <1>2

-----------------------------------------------------------------------------
(* The queue.                                                              *)

(* Only single blocks that need not face outside are shelved.              *)
Shelvable(i) ==
  /\ ~Machines[i].outside
  /\ \A f \in Range(Machines[i].facings) : Machines[i].size[f] = <<1, 1, 1>>

IsQueued(x) ==
  /\ IsUnit(x.members)
  /\ \/ x.slot = NoSlot
     \/ Len(x.slot) = 3 /\ \A i \in Range(x.members) : Shelvable(i)

(* The units of a queue share the machines of M out between them.          *)
Splits(q, M) ==
  /\ q \in Seq(Range(q))
  /\ \A k \in DOMAIN q : IsQueued(q[k])
  /\ \A k, l \in DOMAIN q : k # l => Range(q[k].members) \cap Range(q[l].members) = {}
  /\ M = UNION {Range(q[k].members) : k \in DOMAIN q}

(* A function on 1 .. n is a sequence.                                     *)
LEMMA FunctionIsSeq ==
  ASSUME NEW n \in Nat, NEW q, DOMAIN q = 1 .. n, q = [k \in 1 .. n |-> q[k]]
  PROVE  q \in Seq(Range(q)) /\ Len(q) = n
<1>1. q \in [1 .. n -> Range(q)]
  BY DEF Range
<1> HIDE DEF Range
<1> QED BY <1>1

(* The first unit taken off, the others still share out what is left.      *)
LEMMA TailSplits ==
  ASSUME NEW q, NEW M, Splits(q, M), q # <<>>
  PROVE  /\ 1 \in DOMAIN q /\ IsQueued(q[1]) /\ Range(q[1].members) \subseteq M
         /\ Splits(Tail(q), M \ Range(q[1].members))
<1> DEFINE n == Len(q)  t == Tail(q)
<1>1. n \in Nat \ {0} /\ DOMAIN q = 1 .. n
  <2>1. q \in Seq(Range(q))
    BY DEF Splits
  <2> HIDE DEF Range
  <2> QED BY <2>1
<1>2. DOMAIN t = 1 .. n - 1 /\ (\A k \in 1 .. n - 1 : t[k] = q[k + 1]) /\ t \in Seq(Range(t))
  <2>1. q \in Seq(Range(q))
    BY DEF Splits
  <2>2. t \in Seq(Range(q)) /\ DOMAIN t = 1 .. n - 1 /\ \A k \in 1 .. n - 1 : t[k] = q[k + 1]
    <3> HIDE DEF Range
    <3> QED BY <2>1, <1>1
  <2>3. t = [k \in 1 .. n - 1 |-> t[k]]
    <3> HIDE DEF Range, t
    <3> QED BY <2>2
  <2> HIDE DEF t
  <2>4. n - 1 \in Nat
    BY <1>1
  <2> HIDE DEF n
  <2> QED BY <2>2, <2>3, <2>4, FunctionIsSeq
<1> HIDE DEF n, t
<1>3. 1 \in DOMAIN q /\ \A k \in DOMAIN q : k # 1 => k - 1 \in DOMAIN t /\ t[k - 1] = q[k]
  BY <1>1, <1>2
<1>4. \A k \in DOMAIN t : k + 1 \in DOMAIN q /\ k + 1 # 1 /\ t[k] = q[k + 1]
  BY <1>1, <1>2
<1>5. \A k \in DOMAIN t : IsQueued(t[k])
  BY <1>4 DEF Splits
<1>6. \A k, l \in DOMAIN t : k # l => Range(t[k].members) \cap Range(t[l].members) = {}
  <2>1. \A k, l \in DOMAIN t : k # l => k + 1 # l + 1
    BY <1>1, <1>2
  <2> QED BY <1>4, <2>1 DEF Splits
<1>7. M \ Range(q[1].members) = UNION {Range(t[k].members) : k \in DOMAIN t}
  <2>1. ASSUME NEW i \in M \ Range(q[1].members)
        PROVE  \E k \in DOMAIN t : i \in Range(t[k].members)
    <3>1. PICK k \in DOMAIN q : i \in Range(q[k].members)
      BY <2>1 DEF Splits
    <3> QED BY <1>3, <2>1, <3>1
  <2>2. ASSUME NEW k \in DOMAIN t, NEW i \in Range(t[k].members)
        PROVE  i \in M \ Range(q[1].members)
    <3>1. i \in Range(q[k + 1].members) /\ k + 1 \in DOMAIN q /\ k + 1 # 1
      BY <1>4, <2>2
    <3> QED BY <1>3, <3>1 DEF Splits
  <2> QED BY <2>1, <2>2
<1>8. Range(q[1].members) \subseteq M
  BY <1>3 DEF Splits
<1>9. IsQueued(q[1])
  BY <1>3 DEF Splits
<1>10. Splits(t, M \ Range(q[1].members))
  BY <1>2, <1>5, <1>6, <1>7 DEF Splits
<1> QED BY <1>3, <1>8, <1>9, <1>10 DEF t

(* One queue after another.                                                *)
LEMMA ConcatSplits ==
  ASSUME NEW p, NEW q, NEW M, NEW N, Splits(p, M), Splits(q, N), M \cap N = {}
  PROVE  Splits(p \o q, M \cup N)
<1> DEFINE m == Len(p)  n == Len(q)  r == p \o q
<1>1. p \in Seq(Range(p)) /\ q \in Seq(Range(q))
  BY DEF Splits
<1>2. m \in Nat /\ n \in Nat /\ DOMAIN p = 1 .. m /\ DOMAIN q = 1 .. n
  <2> HIDE DEF Range
  <2> QED BY <1>1
<1>3. /\ DOMAIN r = 1 .. m + n /\ r \in Seq(Range(r))
      /\ \A k \in 1 .. m : r[k] = p[k]
      /\ \A k \in 1 .. n : r[m + k] = q[k]
  <2> DEFINE S == Range(p) \cup Range(q)
  <2>1. p \in Seq(S) /\ q \in Seq(S)
    <3>1. p \in [1 .. m -> S] /\ q \in [1 .. n -> S]
      <4>1. \A k \in 1 .. m : p[k] \in S
        BY <1>2 DEF Range
      <4>2. \A k \in 1 .. n : q[k] \in S
        BY <1>2 DEF Range
      <4>3. p = [k \in 1 .. m |-> p[k]] /\ q = [k \in 1 .. n |-> q[k]]
        <5> HIDE DEF Range
        <5> QED BY <1>1
      <4> HIDE DEF S, m, n
      <4> QED BY <4>1, <4>2, <4>3
    <3> HIDE DEF S
    <3> QED BY <1>2, <3>1
  <2>2. /\ r \in Seq(S) /\ Len(r) = m + n /\ DOMAIN r = 1 .. m + n
        /\ \A k \in 1 .. m : r[k] = p[k]
        /\ \A k \in 1 .. n : r[m + k] = q[k]
    <3> HIDE DEF S
    <3> QED BY <1>2, <2>1
  <2>3. r = [k \in 1 .. m + n |-> r[k]]
    <3> HIDE DEF S, r, m, n
    <3> QED BY <2>2
  <2>4. m + n \in Nat
    BY <1>2
  <2> HIDE DEF r, m, n
  <2> QED BY <2>2, <2>3, <2>4, FunctionIsSeq
<1> HIDE DEF m, n, r
<1>4. \A k \in DOMAIN r : \/ k \in DOMAIN p /\ r[k] = p[k]
                          \/ k - m \in DOMAIN q /\ k \notin DOMAIN p /\ r[k] = q[k - m]
  <2> TAKE k \in DOMAIN r
  <2>1. CASE k <= m
    BY <1>2, <1>3, <2>1
  <2>2. CASE k > m
    <3>1. k - m \in 1 .. n /\ m + (k - m) = k
      BY <1>2, <1>3, <2>2
    <3> QED BY <1>2, <1>3, <2>2, <3>1
  <2> QED BY <1>2, <1>3, <2>1, <2>2
<1>5. /\ \A k \in DOMAIN p : k \in DOMAIN r /\ r[k] = p[k]
      /\ \A k \in DOMAIN q : m + k \in DOMAIN r /\ r[m + k] = q[k]
  BY <1>2, <1>3
<1>6. \A k \in DOMAIN p : IsQueued(p[k]) /\ Range(p[k].members) \subseteq M
  BY DEF Splits
<1>7. \A k \in DOMAIN q : IsQueued(q[k]) /\ Range(q[k].members) \subseteq N
  BY DEF Splits
<1>8. \A k \in DOMAIN r : IsQueued(r[k])
  BY <1>4, <1>6, <1>7
<1>9. ASSUME NEW k \in DOMAIN r, NEW l \in DOMAIN r, k # l
      PROVE  Range(r[k].members) \cap Range(r[l].members) = {}
  <2>1. CASE k \in DOMAIN p /\ l \in DOMAIN p
    BY <1>4, <1>5, <1>9, <2>1 DEF Splits
  <2>2. CASE k \notin DOMAIN p /\ l \notin DOMAIN p
    <3>1. k - m \in DOMAIN q /\ l - m \in DOMAIN q /\ r[k] = q[k - m] /\ r[l] = q[l - m]
      BY <1>4, <2>2
    <3>2. k - m # l - m
      BY <1>2, <1>3, <1>9
    <3> QED BY <3>1, <3>2 DEF Splits
  <2>3. CASE k \in DOMAIN p /\ l \notin DOMAIN p
    <3>1. Range(r[k].members) \subseteq M /\ Range(r[l].members) \subseteq N
      BY <1>4, <1>5, <1>6, <1>7, <2>3
    <3> QED BY <3>1
  <2>4. CASE k \notin DOMAIN p /\ l \in DOMAIN p
    <3>1. Range(r[l].members) \subseteq M /\ Range(r[k].members) \subseteq N
      BY <1>4, <1>5, <1>6, <1>7, <2>4
    <3> QED BY <3>1
  <2> QED BY <2>1, <2>2, <2>3, <2>4
<1>10. M \cup N = UNION {Range(r[k].members) : k \in DOMAIN r}
  <2>1. ASSUME NEW i \in M PROVE \E k \in DOMAIN r : i \in Range(r[k].members)
    <3>1. PICK k \in DOMAIN p : i \in Range(p[k].members)
      BY <2>1 DEF Splits
    <3> QED BY <1>5, <3>1
  <2>2. ASSUME NEW i \in N PROVE \E k \in DOMAIN r : i \in Range(r[k].members)
    <3>1. PICK k \in DOMAIN q : i \in Range(q[k].members)
      BY <2>2 DEF Splits
    <3> QED BY <1>5, <3>1
  <2>3. \A k \in DOMAIN r : Range(r[k].members) \subseteq M \cup N
    BY <1>4, <1>6, <1>7
  <2> QED BY <2>1, <2>2, <2>3
<1>11. Splits(r, M \cup N)
  BY <1>3, <1>8, <1>9, <1>10 DEF Splits
<1> QED BY <1>11 DEF r

(* Units queued, each with a slot or none, are a queue.                    *)
LEMMA QueueSplits ==
  ASSUME NEW n \in Nat, NEW q, DOMAIN q = 1 .. n, q = [k \in 1 .. n |-> q[k]], NEW M,
         \A k \in 1 .. n : IsQueued(q[k]),
         \A k, l \in 1 .. n : k # l => Range(q[k].members) \cap Range(q[l].members) = {},
         M = UNION {Range(q[k].members) : k \in 1 .. n}
  PROVE  Splits(q, M)
BY FunctionIsSeq DEF Splits

(* A sequence of units that share the machines of M out between them.      *)
Shares(us, M) ==
  /\ DOMAIN us = 1 .. Len(us) /\ Len(us) \in Nat
  /\ \A k \in DOMAIN us : IsUnit(us[k])
  /\ \A k, l \in DOMAIN us : k # l => Range(us[k]) \cap Range(us[l]) = {}
  /\ M = UNION {Range(us[k]) : k \in DOMAIN us}

(* They are queued without slots, or with any.                             *)
LEMMA QueuedShares ==
  ASSUME NEW us, NEW M, Shares(us, M)
  PROVE  /\ Splits(Unslotted(us), M)
         /\ (\A i \in M : Shelvable(i)) => Splits(Slotted(us), M)
<1> DEFINE n == Len(us)
<1>1. n \in Nat /\ DOMAIN us = 1 .. n
  BY DEF Shares
<1>2. Splits(Unslotted(us), M)
  <2> DEFINE q == Unslotted(us)
  <2>1. DOMAIN q = 1 .. n /\ q = [k \in 1 .. n |-> q[k]] /\ \A k \in 1 .. n : q[k].members = us[k] /\ q[k].slot = NoSlot
    BY <1>1 DEF Unslotted
  <2> HIDE DEF q
  <2>2. \A k \in 1 .. n : IsQueued(q[k])
    BY <1>1, <2>1 DEF IsQueued, Shares
  <2>3. \A k, l \in 1 .. n : k # l => Range(q[k].members) \cap Range(q[l].members) = {}
    BY <1>1, <2>1 DEF Shares
  <2>4. M = UNION {Range(q[k].members) : k \in 1 .. n}
    BY <1>1, <2>1 DEF Shares
  <2>5. Splits(q, M)
    <3> HIDE DEF n
    <3> QED BY <1>1, <2>1, <2>2, <2>3, <2>4, QueueSplits
  <2> QED BY <2>5 DEF q
<1>3. ASSUME \A i \in M : Shelvable(i)
      PROVE  Splits(Slotted(us), M)
  <2> DEFINE per == BestShelf(us)
             q == [k \in DOMAIN us |->
                     [members |-> us[k], slot |-> <<SlotX(us, per, k), 0, SlotZ(us, per, k)>>]]
  <2>1. DOMAIN q = 1 .. n /\ q = [k \in 1 .. n |-> q[k]] /\ \A k \in 1 .. n : q[k].members = us[k] /\ Len(q[k].slot) = 3
    BY <1>1
  <2>6. Slotted(us) = q
    BY DEF Slotted
  <2> HIDE DEF q
  <2>2. \A k \in 1 .. n : IsQueued(q[k])
    <3>1. \A k \in 1 .. n : Range(us[k]) \subseteq M
      BY <1>1 DEF Shares
    <3> QED BY <1>1, <1>3, <2>1, <3>1 DEF IsQueued, Shares
  <2>3. \A k, l \in 1 .. n : k # l => Range(q[k].members) \cap Range(q[l].members) = {}
    BY <1>1, <2>1 DEF Shares
  <2>4. M = UNION {Range(q[k].members) : k \in 1 .. n}
    BY <1>1, <2>1 DEF Shares
  <2>5. Splits(q, M)
    <3> HIDE DEF n
    <3> QED BY <1>1, <2>1, <2>2, <2>3, <2>4, QueueSplits
  <2> QED BY <2>5, <2>6
<1> QED BY <1>2, <1>3

(* The units of some heads share out the machines these stand for.         *)
LEMMA UnitsShare ==
  ASSUME line \in Lines, NEW heads \in SUBSET Heads
  PROVE  Shares(Units(heads), Led(heads))
<1> DEFINE key == [i \in DOMAIN Machines |-> i]
           n == Cardinality(heads)
           flow == InOrder(heads, key)
           us == [k \in 1 .. n |-> UnitOf(flow[k])]
<1>1. DOMAIN Machines = 1 .. Len(Machines) /\ Len(Machines) \in Nat /\ heads \subseteq DOMAIN Machines
  BY MachineFacts DEF Heads
<1>2. /\ n \in Nat /\ DOMAIN flow = 1 .. n
      /\ \A k \in 1 .. n : flow[k] \in heads
      /\ \A k, l \in 1 .. n : flow[k] = flow[l] => k = l
      /\ \A i \in heads : \E k \in 1 .. n : flow[k] = i
  <2>1. IsFiniteSet(heads)
    <3>1. IsFiniteSet(DOMAIN Machines)
      BY <1>1, FS_Interval
    <3> QED BY <1>1, <3>1, FS_Subset
  <2>2. \A i \in heads : key[i] \in Int
    BY <1>1
  <2>3. \A i, j \in heads : key[i] = key[j] => i = j
    BY <1>1
  <2> HIDE DEF key
  <2> QED BY <2>1, <2>2, <2>3, InOrderLists
<1>3. Units(heads) = us
  <2>1. Units(heads) = Laid(us)
    <3>1. Units(heads) = Laid([k \in DOMAIN flow |-> UnitOf(flow[k])])
      BY DEF Units
    <3> HIDE DEF flow
    <3> QED BY <1>2, <3>1
  <2>2. us \in [1 .. n -> Range(us)]
    BY DEF Range
  <2> HIDE DEF us
  <2> QED BY <1>2, <2>1, <2>2, LaidIs
<1>4. DOMAIN us = 1 .. n /\ Len(us) = n /\ \A k \in 1 .. n : us[k] = UnitOf(flow[k])
  <2> HIDE DEF flow, n
  <2> QED BY <1>2
<1> HIDE DEF us, flow, n
<1>5. \A k \in 1 .. n : IsUnit(us[k]) /\ Range(us[k]) = Led({flow[k]})
  <2> TAKE k \in 1 .. n
  <2>1. flow[k] \in DOMAIN Machines
    BY <1>1, <1>2
  <2> QED BY <1>4, <2>1, UnitOfIs
<1>6. \A k, l \in 1 .. n : k # l => Range(us[k]) \cap Range(us[l]) = {}
  <2> TAKE k, l \in 1 .. n
  <2> HAVE k # l
  <2>1. flow[k] \in Heads /\ flow[l] \in Heads /\ flow[k] # flow[l]
    BY <1>2
  <2> QED BY <1>5, <2>1, HeadsApart
<1>7. Led(heads) = UNION {Range(us[k]) : k \in 1 .. n}
  <2>1. ASSUME NEW i \in Led(heads) PROVE \E k \in 1 .. n : i \in Range(us[k])
    <3>1. PICK h \in heads : i \in Led({h})
      BY <2>1 DEF Led
    <3>2. PICK k \in 1 .. n : flow[k] = h
      BY <1>2
    <3> QED BY <1>5, <3>1, <3>2
  <2>2. ASSUME NEW k \in 1 .. n, NEW i \in Range(us[k]) PROVE i \in Led(heads)
    <3>1. i \in Led({flow[k]}) /\ flow[k] \in heads
      BY <1>2, <1>5, <2>2
    <3> QED BY <3>1 DEF Led
  <2> QED BY <2>1, <2>2
<1>8. Shares(us, Led(heads))
  BY <1>2, <1>4, <1>5, <1>6, <1>7 DEF Shares
<1> QED BY <1>3, <1>8

(* One unit for each of some different machines.                           *)
LEMMA SinglesShare ==
  ASSUME line \in Lines, NEW s \in Seq(DOMAIN Machines), \A k, l \in DOMAIN s : s[k] = s[l] => k = l
  PROVE  Shares([k \in DOMAIN s |-> <<s[k]>>], Range(s))
<1> DEFINE us == [k \in DOMAIN s |-> <<s[k]>>]
<1>1. DOMAIN s = 1 .. Len(s) /\ Len(s) \in Nat
  OBVIOUS
<1>2. DOMAIN us = 1 .. Len(s) /\ Len(us) = Len(s) /\ \A k \in DOMAIN us : us[k] = <<s[k]>> /\ s[k] \in DOMAIN Machines
  BY <1>1
<1> HIDE DEF us
<1>3. \A k \in DOMAIN us : IsUnit(us[k]) /\ Range(us[k]) = {s[k]}
  <2> TAKE k \in DOMAIN us
  <2> DEFINE i == s[k]
  <2>1. us[k] = <<i>> /\ i \in DOMAIN Machines
    BY <1>2
  <2> HIDE DEF i
  <2>2. IsUnit(<<i>>) /\ Range(<<i>>) = {i}
    BY <2>1 DEF IsUnit, Range
  <2> QED BY <2>1, <2>2 DEF i
<1>4. Range(s) = UNION {Range(us[k]) : k \in DOMAIN us}
  <2>1. Range(s) = {s[k] : k \in DOMAIN us}
    BY <1>1, <1>2 DEF Range
  <2> QED BY <1>3, <2>1
<1>5. \A k, l \in DOMAIN us : k # l => Range(us[k]) \cap Range(us[l]) = {}
  BY <1>1, <1>2, <1>3
<1>6. Shares(us, Range(s))
  BY <1>1, <1>2, <1>3, <1>4, <1>5 DEF Shares
<1> QED BY <1>6 DEF us

(* Either seed queues every machine of the line, once.                     *)
LEMMA SeedsSplit ==
  ASSUME line \in Lines
  PROVE  /\ Splits(PlainTodo, DOMAIN Machines)
         /\ Splits(GroupedTodo(Units(Heads \ Outside)), DOMAIN Machines)
<1>1. Splits(PlainTodo, DOMAIN Machines)
  <2> DEFINE s == [i \in DOMAIN Machines |-> i]
             us == [k \in DOMAIN s |-> <<s[k]>>]
  <2>1. s \in Seq(DOMAIN Machines) /\ DOMAIN s = DOMAIN Machines
    BY MachineFacts
  <2>2. Shares(us, Range(s))
    <3> HIDE DEF s
    <3>1. \A k, l \in DOMAIN s : s[k] = s[l] => k = l
      BY <2>1 DEF s
    <3> QED BY <2>1, <3>1, SinglesShare
  <2>3. Range(s) = DOMAIN Machines
    BY DEF Range
  <2>4. Unslotted(us) = PlainTodo
    BY DEF Unslotted, PlainTodo
  <2> HIDE DEF us
  <2> QED BY <2>2, <2>3, <2>4, QueuedShares
<1>2. CASE SingleBlocksOnly
  <2>1. Splits(Slotted(Units(Heads \ Outside)), Led(Heads \ Outside))
    <3>1. \A i \in Led(Heads \ Outside) : Shelvable(i)
      <4> TAKE i \in Led(Heads \ Outside)
      <4>1. PICK h \in Heads \ Outside :
              i = h \/ (Machines[h].group # Alone /\ Machines[i].group = Machines[h].group)
        BY DEF Led
      <4>2. i \in DOMAIN Machines /\ h \in DOMAIN Machines /\ ~Machines[h].outside
        BY DEF Led, Heads, Outside
      <4>3. ~Machines[i].outside
        BY <4>1, <4>2, GroupFacts
      <4>4. \A f \in Range(Machines[i].facings) : Machines[i].size[f] = <<1, 1, 1>>
        <5>1. Machines[i] \in Range(Machines)
          BY <4>2 DEF Range
        <5> QED BY <1>2, <5>1 DEF SingleBlocksOnly
      <4> QED BY <4>3, <4>4 DEF Shelvable
    <3> QED BY <3>1, UnitsShare, QueuedShares
  <2>2. Splits(Unslotted(Units(Outside)), Led(Outside))
    <3>1. Outside \in SUBSET Heads
      BY DEF Outside
    <3> QED BY <3>1, UnitsShare, QueuedShares
  <2>3. Led(Heads \ Outside) \cap Led(Outside) = {}
    <3> SUFFICES ASSUME NEW i \in Led(Heads \ Outside), i \in Led(Outside) PROVE FALSE
      OBVIOUS
    <3>1. PICK h \in Heads \ Outside : i \in Led({h})
      BY DEF Led
    <3>2. PICK k \in Outside : i \in Led({k})
      BY DEF Led
    <3> QED BY <3>1, <3>2, HeadsApart DEF Outside
  <2>4. Led(Heads \ Outside) \cup Led(Outside) = DOMAIN Machines
    <3>1. Led(Heads \ Outside) \cup Led(Outside) = Led(Heads)
      BY DEF Led, Outside
    <3> QED BY <3>1, HeadsLeadAll
  <2> QED BY <1>1, <1>2, <2>1, <2>2, <2>3, <2>4, ConcatSplits DEF GroupedTodo
<1>3. CASE ~SingleBlocksOnly
  <2>1. Splits(Unslotted(Units(Heads)), DOMAIN Machines)
    BY UnitsShare, QueuedShares, HeadsLeadAll
  <2> QED BY <1>1, <1>3, <2>1 DEF GroupedTodo
<1> QED BY <1>1, <1>2, <1>3

-----------------------------------------------------------------------------
(* Geometry.                                                               *)

(* A box of one block is its corner.                                       *)
LEMMA UnitBox ==
  ASSUME NEW c \in Cell
  PROVE  Box(c, <<1, 1, 1>>) = {c}
<1>1. c[1] \in Int /\ c[2] \in Int /\ c[3] \in Int /\ c = <<c[1], c[2], c[3]>>
  BY RegionAssumption DEF Cell
<1>2. Plus(c, <<0, 0, 0>>) = c
  BY <1>1 DEF Plus
<1>3. (0 .. 1 - 1) \X (0 .. 1 - 1) \X (0 .. 1 - 1) = {<<0, 0, 0>>}
  BY 0 .. 1 - 1 = {0}
<1> QED BY <1>2, <1>3 DEF Box

(* A block of a column lies in the column's box, each in a cell of its own.*)
LEMMA ColumnCells ==
  ASSUME line \in Lines, NEW u, IsUnit(u), NEW o \in Cell, Box(o, ColumnSize(u)) \subseteq Cell,
         NEW j \in DOMAIN u
  PROVE  /\ Plus(o, ColumnOffset(Len(u), j, UnitFacing(u))) \in Box(o, ColumnSize(u))
         /\ \A k \in DOMAIN u :
              Plus(o, ColumnOffset(Len(u), j, UnitFacing(u))) =
              Plus(o, ColumnOffset(Len(u), k, UnitFacing(u))) => j = k
<1> DEFINE n == Len(u)  f == UnitFacing(u)  d == ColumnOffset(n, j, f)  z == ColumnSize(u)
<1>1. n \in Nat /\ DOMAIN u = 1 .. n /\ n > 0 /\ u[1] \in DOMAIN Machines
  BY DEF IsUnit
<1>2. f \in Facing
  BY <1>1, MachineFacts DEF UnitFacing
<1>3. o[1] \in Int /\ o[2] \in Int /\ o[3] \in Int
  BY RegionAssumption DEF Cell
<1>4. d \in (0 .. z[1] - 1) \X (0 .. z[2] - 1) \X (0 .. z[3] - 1)
  <2>1. CASE f \in {"north", "south"}
    <3>1. z = <<1, 1, n>>
      BY <2>1 DEF ColumnSize
    <3>2. d = <<0, 0, j - 1>> \/ d = <<0, 0, n - j>>
      BY <2>1 DEF ColumnOffset
    <3> HIDE DEF d, z
    <3> QED BY <1>1, <3>1, <3>2
  <2>2. CASE f \in {"west", "east"}
    <3>1. z = <<n, 1, 1>>
      BY <2>2 DEF ColumnSize
    <3>2. d = <<j - 1, 0, 0>> \/ d = <<n - j, 0, 0>>
      BY <2>2 DEF ColumnOffset
    <3> HIDE DEF d, z
    <3> QED BY <1>1, <3>1, <3>2
  <2> QED BY <1>2, <2>1, <2>2 DEF Facing
<1>5. Plus(o, d) \in Box(o, z)
  <2> HIDE DEF d, z
  <2> QED BY <1>4 DEF Box
<1>6. ASSUME NEW k \in DOMAIN u, Plus(o, d) = Plus(o, ColumnOffset(n, k, f))
      PROVE  j = k
  <2> DEFINE e == ColumnOffset(n, k, f)
  <2>1. o[1] + d[1] = o[1] + e[1] /\ o[3] + d[3] = o[3] + e[3]
    <3> HIDE DEF d, e
    <3> QED BY <1>6 DEF Plus, e
  <2>2. j \in Int /\ k \in Int
    BY <1>1
  <2>3. CASE f = "north"
    <3>1. d[3] = j - 1 /\ e[3] = k - 1
      BY <2>3 DEF ColumnOffset
    <3> HIDE DEF d, e
    <3> QED BY <1>3, <2>1, <2>2, <3>1
  <2>4. CASE f = "south"
    <3>1. d[3] = n - j /\ e[3] = n - k
      BY <2>4 DEF ColumnOffset
    <3> HIDE DEF d, e, n
    <3> QED BY <1>1, <1>3, <2>1, <2>2, <3>1
  <2>5. CASE f = "west"
    <3>1. d[1] = j - 1 /\ e[1] = k - 1
      BY <2>5 DEF ColumnOffset
    <3> HIDE DEF d, e
    <3> QED BY <1>3, <2>1, <2>2, <3>1
  <2>6. CASE f = "east"
    <3>1. d[1] = n - j /\ e[1] = n - k
      BY <2>6 DEF ColumnOffset
    <3> HIDE DEF d, e, n
    <3> QED BY <1>1, <1>3, <2>1, <2>2, <3>1
  <2> QED BY <1>2, <2>3, <2>4, <2>5, <2>6 DEF Facing
<1> QED BY <1>5, <1>6

-----------------------------------------------------------------------------
(* The scan.                                                               *)

LEMMA ScanRankIs ==
  ASSUME line \in Lines, NEW c \in Cell, NEW spaced
  PROVE  ScanRank(c, spaced) \in Nat
<1>1. SX \in Nat /\ SY \in Nat /\ SZ \in Nat
  BY RegionAssumption
<1>2. c[1] \in Nat /\ c[2] \in Nat /\ c[3] \in Nat
  BY <1>1 DEF Cell
<1>3. c[2] * SZ \in Nat
  BY <1>1, <1>2
<1>4. (c[2] * SZ + c[3]) * SX \in Nat
  BY <1>1, <1>2, <1>3
<1>5. SX * SY \in Nat
  BY <1>1
<1>6. SX * SY * SZ \in Nat
  BY <1>1, <1>5
<1> DEFINE a == (c[2] * SZ + c[3]) * SX  b == SX * SY * SZ
<1>7. ScanRank(c, spaced) = a + c[1] \/ ScanRank(c, spaced) = a + c[1] + b
  BY DEF ScanRank
<1>8. a \in Nat /\ b \in Nat
  BY <1>4, <1>6
<1> HIDE DEF a, b
<1> QED BY <1>2, <1>7, <1>8

(* A machine that fits somewhere has a first spot.                         *)
LEMMA FirstSpotIs ==
  ASSUME line \in Lines, NEW i \in DOMAIN Machines, NEW taken, NEW spaced, Spots(i, taken) # {}
  PROVE  FirstSpot(i, taken, spaced) \in Spots(i, taken)
<1> DEFINE S == Spots(i, taken)
           rank == [at \in S |-> SpotRank(i, at, spaced)]
           facings == Machines[i].facings
<1>1. \A at \in S : at.cell \in Cell /\ at.facing \in Range(facings)
  BY MachineFacts DEF Spots
<1>2. \A f \in Range(facings) : FacingRank(i, f) \in Nat
  <2> TAKE f \in Range(facings)
  <2> DEFINE K == {k \in DOMAIN facings : facings[k] = f}
             id == [k \in K |-> k]
  <2>1. facings \in Seq(Facing)
    BY MachineFacts
  <2> HIDE DEF facings
  <2>2. K # {} /\ K \subseteq Nat
    BY <2>1 DEF Range
  <2> HIDE DEF K
  <2>3. id \in [K -> Nat]
    BY <2>2
  <2>4. \E k \in K : \A l \in K : id[k] <= id[l]
    <3> HIDE DEF id
    <3> QED BY <2>2, <2>3, LeastRank
  <2>5. \E k \in K : \A l \in K : k <= l
    BY <2>4
  <2>6. Min(K) \in K
    BY <2>5 DEF Min
  <2> QED BY <2>2, <2>6 DEF FacingRank, K, facings
<1>3. Len(facings) \in Nat
  BY MachineFacts
<1>4. rank \in [S -> Nat]
  <2> SUFFICES ASSUME NEW at \in S PROVE SpotRank(i, at, spaced) \in Nat
    OBVIOUS
  <2> DEFINE a == ScanRank(at.cell, spaced)  b == Len(facings) + 1  f == FacingRank(i, at.facing)
  <2>1. a \in Nat /\ b \in Nat /\ f \in Nat
    BY <1>1, <1>2, <1>3, ScanRankIs
  <2>2. SpotRank(i, at, spaced) = a * b + f
    BY DEF SpotRank
  <2> HIDE DEF a, b, f
  <2>3. a * b \in Nat
    BY <2>1
  <2> QED BY <2>1, <2>2, <2>3
<1>5. \E x \in S : \A y \in S : rank[x] <= rank[y]
  <2> HIDE DEF S, rank
  <2> QED BY <1>4, LeastRank DEF S
<1>6. \E x \in S : \A y \in S : SpotRank(i, x, spaced) <= SpotRank(i, y, spaced)
  BY <1>5
<1> QED BY <1>6 DEF FirstSpot

(* A column that fits somewhere is laid where it fits.                     *)
LEMMA ColumnOriginIs ==
  ASSUME line \in Lines, ColumnFits # {}
  PROVE  ColumnOrigin \in ColumnFits
<1> DEFINE S == ColumnFits
           rank == [o \in S |-> ScanRank(o, FALSE)]
<1>1. rank \in [S -> Nat]
  BY ScanRankIs DEF ColumnFits
<1>2. \E x \in S : \A y \in S : rank[x] <= rank[y]
  <2> HIDE DEF S, rank
  <2> QED BY <1>1, LeastRank DEF S
<1>3. \E x \in S : \A y \in S : ScanRank(x, FALSE) <= ScanRank(y, FALSE)
  BY <1>2
<1> QED BY <1>3 DEF ColumnOrigin

-----------------------------------------------------------------------------
(* The invariant.                                                          *)

Legal(i, at) ==
  /\ at.cell \in Cell
  /\ at.facing \in Range(Machines[i].facings)
  /\ Body(i, at) \subseteq Cell \ line.reserved
  /\ Machines[i].outside => FrontOnWall(at.cell, Machines[i].size[at.facing], at.facing)

AllLegal(p) ==
  /\ DOMAIN p \subseteq DOMAIN Machines
  /\ \A i \in DOMAIN p : Legal(i, p[i])
  /\ \A i, j \in DOMAIN p : i # j => Body(i, p[i]) \cap Body(j, p[j]) = {}

(* The machines not placed yet are queued, each in one unit, so a unit     *)
(* laid clear of everything occupied never moves a machine.                *)
IInv ==
  /\ line \in Lines
  /\ mode \in {"grouped", "plain", "ok", "wont_fit"}
  /\ AllLegal(placed)
  /\ Splits(todo, DOMAIN Machines \ DOMAIN placed)
  /\ mode = "ok" => DOMAIN placed = DOMAIN Machines

(* What is legal and what is a queue depend on the line, never on what is  *)
(* placed or queued so far.                                                *)
LEMMA FrameQueue ==
  ASSUME line' = line
  PROVE  Splits(todo, DOMAIN Machines \ DOMAIN placed)' <=>
         Splits(todo', DOMAIN Machines \ DOMAIN placed')
<1>1. Machines' = Machines
  BY DEF Machines
<1>2. ASSUME NEW u PROVE IsUnit(u)' <=> IsUnit(u)
  BY <1>1 DEF IsUnit
<1>3. ASSUME NEW i PROVE Shelvable(i)' <=> Shelvable(i)
  BY <1>1 DEF Shelvable
<1>4. ASSUME NEW x PROVE IsQueued(x)' <=> IsQueued(x)
  BY <1>2, <1>3 DEF IsQueued
<1> QED BY <1>1, <1>4 DEF Splits

LEMMA FrameLegal ==
  ASSUME line' = line
  PROVE  AllLegal(placed)' <=> AllLegal(placed')
<1>1. Machines' = Machines
  BY DEF Machines
<1>2. ASSUME NEW i, NEW at PROVE Body(i, at)' = Body(i, at)
  BY <1>1 DEF Body
<1>3. ASSUME NEW i, NEW at PROVE Legal(i, at)' <=> Legal(i, at)
  BY <1>1, <1>2 DEF Legal
<1> QED BY <1>1, <1>2, <1>3 DEF AllLegal

LEMMA Frame ==
  ASSUME line \in Lines, line' = line, mode' \in {"grouped", "plain", "ok", "wont_fit"},
         AllLegal(placed'), Splits(todo', DOMAIN Machines \ DOMAIN placed'),
         mode' = "ok" => DOMAIN placed' = DOMAIN Machines
  PROVE  IInv'
<1>1. Machines' = Machines
  BY DEF Machines
<1>2. AllLegal(placed)' /\ Splits(todo, DOMAIN Machines \ DOMAIN placed)'
  BY FrameLegal, FrameQueue
<1> QED BY <1>1, <1>2 DEF IInv

LEMMA InvariantImplies == IInv => PlacementsLegal
<1> SUFFICES ASSUME IInv PROVE PlacementsLegal
  OBVIOUS
<1>1. \A u \in Range(todo) : /\ Range(u.members) \subseteq DOMAIN line.machines
                             /\ u.slot = NoSlot \/ Len(u.slot) = 3
  <2> SUFFICES ASSUME NEW k \in DOMAIN todo
               PROVE  /\ Range(todo[k].members) \subseteq DOMAIN line.machines
                      /\ todo[k].slot = NoSlot \/ Len(todo[k].slot) = 3
    BY DEF Range
  <2>1. IsQueued(todo[k]) /\ Range(todo[k].members) \subseteq DOMAIN Machines
    BY DEF IInv, Splits
  <2> QED BY <2>1 DEF IsQueued, Machines
<1>2. \A i \in DOMAIN placed : placed[i].cell \in Cell /\ placed[i].facing \in Facing
  BY MachineFacts DEF IInv, AllLegal, Legal
<1>3. TypeOK
  BY <1>1, <1>2 DEF IInv, AllLegal, Machines, TypeOK
<1> QED BY <1>3 DEF IInv, AllLegal, Legal, PlacementsLegal

LEMMA InvariantInit == Init => IInv
<1> SUFFICES ASSUME Init PROVE IInv
  OBVIOUS
<1>1. line \in Lines /\ placed = <<>> /\ mode \in {"grouped", "plain"}
  BY DEF Init
<1>2. DOMAIN placed = {} /\ DOMAIN Machines \ DOMAIN placed = DOMAIN Machines
  BY <1>1
<1>3. Splits(todo, DOMAIN Machines)
  BY <1>1, SeedsSplit DEF Init
<1>4. AllLegal(placed)
  BY <1>2 DEF AllLegal
<1> QED BY <1>1, <1>2, <1>3, <1>4 DEF IInv

(* The first unit of the queue is one.                                     *)
LEMMA UnitIs ==
  ASSUME IInv, Placing
  PROVE  /\ IsUnit(Unit) /\ Unit \in Seq(DOMAIN Machines) /\ 1 \in DOMAIN Unit
         /\ Range(Unit) \subseteq DOMAIN Machines \ DOMAIN placed
         /\ IsQueued(todo[1])
         /\ Splits(Tail(todo), (DOMAIN Machines \ DOMAIN placed) \ Range(Unit))
<1>1. todo # <<>> /\ Splits(todo, DOMAIN Machines \ DOMAIN placed)
  BY DEF IInv, Placing
<1>2. /\ IsQueued(todo[1]) /\ Range(Unit) \subseteq DOMAIN Machines \ DOMAIN placed
      /\ Splits(Tail(todo), (DOMAIN Machines \ DOMAIN placed) \ Range(Unit))
  BY <1>1, TailSplits DEF Unit
<1>3. IsUnit(Unit)
  BY <1>2 DEF IsQueued, Unit
<1> QED BY <1>2, <1>3 DEF IsUnit

(* Laying a unit clear of what is occupied, and of itself, is legal.       *)
LEMMA PutIsLegal ==
  ASSUME IInv, Placing, NEW at, DOMAIN at = Range(Unit), Put(at),
         \A i \in Range(Unit) : Legal(i, at[i]) /\ Body(i, at[i]) \cap Occupied = {},
         \A i, j \in Range(Unit) : i # j => Body(i, at[i]) \cap Body(j, at[j]) = {}
  PROVE  IInv'
<1> DEFINE p == [i \in DOMAIN placed \cup DOMAIN at |-> IF i \in DOMAIN at THEN at[i] ELSE placed[i]]
<1>1. placed' = p /\ todo' = Tail(todo) /\ line' = line /\ mode' = mode
  BY DEF Put
<1>2. DOMAIN p = DOMAIN placed \cup Range(Unit)
  OBVIOUS
<1>3. \A i \in Range(Unit) : p[i] = at[i] /\ i \notin DOMAIN placed /\ i \in DOMAIN Machines
  BY UnitIs
<1>4. \A i \in DOMAIN placed : p[i] = placed[i] /\ i \notin Range(Unit)
  BY <1>3
<1> HIDE DEF p
<1>5. AllLegal(p)
  <2>1. DOMAIN p \subseteq DOMAIN Machines
    BY <1>2, <1>3 DEF IInv, AllLegal
  <2>2. \A i \in DOMAIN p : Legal(i, p[i])
    BY <1>2, <1>3, <1>4 DEF IInv, AllLegal
  <2>3. ASSUME NEW i \in DOMAIN placed, NEW j \in Range(Unit)
        PROVE  Body(i, placed[i]) \cap Body(j, at[j]) = {}
    <3>1. Body(i, placed[i]) \subseteq Occupied
      BY <2>3 DEF Occupied
    <3> QED BY <2>3, <3>1
  <2>4. ASSUME NEW i \in DOMAIN p, NEW j \in DOMAIN p, i # j
        PROVE  Body(i, p[i]) \cap Body(j, p[j]) = {}
    <3>1. CASE i \in DOMAIN placed /\ j \in DOMAIN placed
      BY <1>4, <2>4, <3>1 DEF IInv, AllLegal
    <3>2. CASE i \in Range(Unit) /\ j \in Range(Unit)
      BY <1>3, <2>4, <3>2
    <3>3. CASE i \in DOMAIN placed /\ j \in Range(Unit)
      BY <1>3, <1>4, <2>3, <3>3
    <3>4. CASE i \in Range(Unit) /\ j \in DOMAIN placed
      BY <1>3, <1>4, <2>3, <3>4
    <3> QED BY <1>2, <2>4, <3>1, <3>2, <3>3, <3>4
  <2> QED BY <2>1, <2>2, <2>4 DEF AllLegal
<1>6. Splits(Tail(todo), DOMAIN Machines \ DOMAIN p)
  <2>1. DOMAIN Machines \ DOMAIN p = (DOMAIN Machines \ DOMAIN placed) \ Range(Unit)
    BY <1>2
  <2> QED BY <2>1, UnitIs
<1>7. line \in Lines /\ mode \in {"grouped", "plain"}
  BY DEF IInv, Placing
<1> QED BY <1>1, <1>5, <1>6, <1>7, Frame

(* A column is laid member by member in the box found for it.              *)
LEMMA LayColumnIsLegal ==
  ASSUME IInv, LayColumn
  PROVE  IInv'
<1> DEFINE origin == ColumnOrigin
           f == UnitFacing(Unit)
           position == [i \in Range(Unit) |-> CHOOSE j \in DOMAIN Unit : Unit[j] = i]
           at == [i \in Range(Unit) |->
                    [cell |-> Plus(origin, ColumnOffset(Len(Unit), position[i], f)), facing |-> f]]
<1>1. Placing /\ Len(Unit) > 1 /\ ColumnFits # {} /\ Put(at)
  BY DEF LayColumn, Column
<1>2. /\ origin \in Cell /\ Box(origin, ColumnSize(Unit)) \subseteq Cell \ Occupied
      /\ line \in Lines
  BY <1>1, ColumnOriginIs DEF ColumnFits, IInv
<1>3. /\ IsUnit(Unit) /\ 1 \in DOMAIN Unit
      /\ \A k \in DOMAIN Unit : Unit[k] \in DOMAIN Machines
  BY <1>1, UnitIs
<1>4. ASSUME NEW i \in Range(Unit)
      PROVE  /\ position[i] \in DOMAIN Unit /\ Unit[position[i]] = i
             /\ i \in DOMAIN Machines /\ Machines[i].group # Alone
             /\ Machines[i].group = Machines[Unit[1]].group
  <2>1. PICK k \in DOMAIN Unit : Unit[k] = i
    BY <1>4 DEF Range
  <2>2. position[i] \in DOMAIN Unit /\ Unit[position[i]] = i
    BY <2>1
  <2> QED BY <1>1, <1>3, <2>1, <2>2 DEF IsUnit
<1> HIDE DEF position, origin
<1>5. ASSUME NEW i \in Range(Unit)
      PROVE  /\ at[i].cell \in Cell \ Occupied /\ at[i].facing = f
             /\ f \in Range(Machines[i].facings) /\ f \in Facing
             /\ ~Machines[i].outside
             /\ Body(i, at[i]) = {at[i].cell}
  <2>1. at[i].cell = Plus(origin, ColumnOffset(Len(Unit), position[i], f)) /\ at[i].facing = f
    BY <1>5
  <2>2. at[i].cell \in Cell \ Occupied
    BY <1>2, <1>3, <1>4, <1>5, <2>1, ColumnCells
  <2>3. /\ Machines[i].facings = Machines[Unit[1]].facings /\ ~Machines[i].outside
        /\ \A g \in Facing : Machines[i].size[g] = <<1, 1, 1>>
    BY <1>2, <1>3, <1>4, <1>5, GroupFacts
  <2>4. f \in Range(Machines[i].facings) /\ f \in Facing
    BY <1>2, <1>4, <1>5, <2>3, MachineFacts DEF UnitFacing
  <2>5. Body(i, at[i]) = {at[i].cell}
    BY <2>1, <2>2, <2>3, <2>4, UnitBox DEF Body
  <2> QED BY <2>1, <2>2, <2>3, <2>4, <2>5
<1>6. ASSUME NEW i \in Range(Unit), NEW j \in Range(Unit), i # j
      PROVE  at[i].cell # at[j].cell
  <2>1. position[i] # position[j]
    BY <1>4, <1>6
  <2>2. /\ at[i].cell = Plus(origin, ColumnOffset(Len(Unit), position[i], f))
        /\ at[j].cell = Plus(origin, ColumnOffset(Len(Unit), position[j], f))
    BY <1>6
  <2>3. position[i] \in DOMAIN Unit /\ position[j] \in DOMAIN Unit
    BY <1>4, <1>6
  <2> QED BY <1>2, <1>3, <2>1, <2>2, <2>3, ColumnCells
<1>7. DOMAIN at = Range(Unit)
  OBVIOUS
<1> HIDE DEF at, f
<1>8. line.reserved \subseteq Occupied
  BY DEF Occupied
<1>9. \A i \in Range(Unit) : Legal(i, at[i]) /\ Body(i, at[i]) \cap Occupied = {}
  BY <1>5, <1>8 DEF Legal
<1>10. \A i, j \in Range(Unit) : i # j => Body(i, at[i]) \cap Body(j, at[j]) = {}
  BY <1>5, <1>6
<1> QED BY <1>1, <1>7, <1>9, <1>10, PutIsLegal

(* A column taken apart queues the same machines.                          *)
LEMMA DissolveIsLegal ==
  ASSUME IInv, Dissolve
  PROVE  IInv'
<1> DEFINE s == [j \in DOMAIN Unit |-> <<Unit[j]>>]
           M == DOMAIN Machines \ DOMAIN placed
<1>1. Placing /\ todo' = Unslotted(s) \o Tail(todo) /\ UNCHANGED <<line, placed, mode>> /\ line \in Lines
  BY DEF Dissolve, Column, IInv
<1>2. /\ IsUnit(Unit) /\ Unit \in Seq(DOMAIN Machines) /\ Range(Unit) \subseteq M
      /\ Splits(Tail(todo), M \ Range(Unit))
  BY <1>1, UnitIs
<1>3. Splits(Unslotted(s), Range(Unit))
  <2>1. Shares(s, Range(Unit))
    BY <1>1, <1>2, SinglesShare DEF IsUnit
  <2> HIDE DEF s
  <2> QED BY <2>1, QueuedShares
<1>4. Splits(Unslotted(s) \o Tail(todo), Range(Unit) \cup (M \ Range(Unit)))
  <2>1. Range(Unit) \cap (M \ Range(Unit)) = {}
    OBVIOUS
  <2> HIDE DEF s, M
  <2> QED BY <1>2, <1>3, <2>1, ConcatSplits
<1>5. Range(Unit) \cup (M \ Range(Unit)) = M
  BY <1>2
<1> HIDE DEF s, M
<1>6. Splits(Unslotted(s) \o Tail(todo), M)
  BY <1>4, <1>5
<1>7. Splits(todo', DOMAIN Machines \ DOMAIN placed')
  BY <1>1, <1>6 DEF M
<1>8. AllLegal(placed') /\ mode' \in {"grouped", "plain"}
  BY <1>1 DEF IInv, Placing
<1> QED BY <1>1, <1>7, <1>8, Frame

(* One machine laid where it fits.                                         *)
LEMMA SingleIsLegal ==
  ASSUME IInv, Single, NEW at, Legal(Unit[1], at), Body(Unit[1], at) \cap Occupied = {},
         Put([i \in {Unit[1]} |-> at])
  PROVE  IInv'
<1> DEFINE put == [i \in {Unit[1]} |-> at]
<1>1. Placing /\ Len(Unit) = 1 /\ Unit \in Seq(DOMAIN Machines)
  BY UnitIs DEF Single
<1>2. Range(Unit) = {Unit[1]}
  <2>1. DOMAIN Unit = {1}
    BY <1>1
  <2> QED BY <2>1 DEF Range
<1>3. DOMAIN put = Range(Unit) /\ \A i \in Range(Unit) : i = Unit[1] /\ put[i] = at
  BY <1>2
<1> HIDE DEF put
<1>4. Put(put)
  BY DEF put
<1>5. \A i \in Range(Unit) : Legal(i, put[i]) /\ Body(i, put[i]) \cap Occupied = {}
  BY <1>3
<1>6. \A i, j \in Range(Unit) : i # j => Body(i, put[i]) \cap Body(j, put[j]) = {}
  BY <1>3
<1> QED BY <1>1, <1>3, <1>4, <1>5, <1>6, PutIsLegal

(* A shelf slot is found free before it is taken.                          *)
LEMMA LayOnShelfIsLegal ==
  ASSUME IInv, LayOnShelf
  PROVE  IInv'
<1> DEFINE h == Unit[1]
           at == [cell |-> todo[1].slot, facing |-> UnitFacing(Unit)]
<1>1. Single /\ Placing /\ Len(Unit) = 1 /\ Slot /\ Put([i \in {h} |-> at]) /\ line \in Lines
  BY DEF LayOnShelf, Single, IInv
<1>2. /\ IsUnit(Unit) /\ Unit \in Seq(DOMAIN Machines) /\ 1 \in DOMAIN Unit /\ h \in DOMAIN Machines
      /\ h \in Range(Unit) /\ IsQueued(todo[1])
  BY <1>1, UnitIs DEF Range
<1>3. Shelvable(h)
  BY <1>1, <1>2 DEF Slot, IsQueued, Unit
<1>4. at.facing \in Range(Machines[h].facings)
  BY <1>1, <1>2, MachineFacts DEF UnitFacing
<1>5. at.cell \in Cell /\ Box(at.cell, ColumnSize(Unit)) \subseteq Cell \ Occupied
  BY <1>1 DEF Slot, ColumnFits
<1>6. ColumnSize(Unit) = <<1, 1, 1>>
  BY <1>1 DEF ColumnSize
<1> HIDE DEF at
<1>7. Body(h, at) = {at.cell} /\ Box(at.cell, ColumnSize(Unit)) = {at.cell}
  BY <1>3, <1>4, <1>5, <1>6, UnitBox DEF Body, Shelvable
<1>8. Legal(h, at) /\ Body(h, at) \cap Occupied = {}
  BY <1>3, <1>4, <1>5, <1>7 DEF Legal, Shelvable, Occupied
<1> QED BY <1>1, <1>8, SingleIsLegal

LEMMA LayFirstFitIsLegal ==
  ASSUME IInv, LayFirstFit
  PROVE  IInv'
<1> DEFINE h == Unit[1]
           at == FirstSpot(h, Occupied, Spaced)
<1>1. Single /\ Placing /\ Put([i \in {h} |-> at]) /\ line \in Lines /\ Spots(h, Occupied) # {}
  <2>1. [i \in {h} |-> FirstSpot(i, Occupied, Spaced)] = [i \in {h} |-> at]
    OBVIOUS
  <2> QED BY <2>1 DEF LayFirstFit, Single, IInv
<1>2. h \in DOMAIN Machines
  BY <1>1, UnitIs
<1>3. at \in Spots(h, Occupied)
  BY <1>1, <1>2, FirstSpotIs
<1> HIDE DEF at
<1>4. Legal(h, at) /\ Body(h, at) \cap Occupied = {}
  BY <1>1, <1>2, <1>3, MachineFacts DEF Legal, Spots, Occupied
<1> QED BY <1>1, <1>4, SingleIsLegal

(* The plain seed starts over with nothing placed.                         *)
LEMMA FallBackIsLegal ==
  ASSUME IInv, FallBack
  PROVE  IInv'
<1>1. line' = line /\ line \in Lines /\ mode' = "plain" /\ placed' = <<>> /\ todo' = PlainTodo
  BY DEF FallBack, IInv
<1>2. Splits(PlainTodo, DOMAIN Machines)
  BY <1>1, SeedsSplit
<1>3. DOMAIN (placed') = {} /\ DOMAIN Machines \ DOMAIN (placed') = DOMAIN Machines
  BY <1>1
<1>4. Splits(todo', DOMAIN Machines \ DOMAIN placed')
  BY <1>1, <1>2, <1>3
<1>5. AllLegal(placed')
  BY <1>3 DEF AllLegal
<1> QED BY <1>1, <1>4, <1>5, Frame

(* The call ends, with every machine placed when it says so.               *)
LEMMA EndIsLegal ==
  ASSUME IInv, WontFit \/ AllPlaced \/ UNCHANGED vars
  PROVE  IInv'
<1>1. /\ line \in Lines /\ line' = line /\ AllLegal(placed')
      /\ Splits(todo', DOMAIN Machines \ DOMAIN placed')
  BY DEF WontFit, AllPlaced, vars, IInv
<1>2. CASE WontFit \/ UNCHANGED vars
  BY <1>1, <1>2, Frame DEF WontFit, vars, IInv
<1>3. CASE AllPlaced
  <2>1. DOMAIN todo = {}
    BY <1>3 DEF AllPlaced
  <2>2. DOMAIN Machines \ DOMAIN placed = {}
    BY <2>1 DEF IInv, Splits
  <2>3. DOMAIN placed' = DOMAIN Machines /\ mode' = "ok"
    BY <1>3, <2>2 DEF IInv, AllLegal, AllPlaced
  <2> QED BY <1>1, <2>3, Frame
<1> QED BY <1>2, <1>3

(* The placer keeps the invariant, whatever the line and the region.       *)
THEOREM PlacerInductive == Spec => []IInv
<1>1. IInv /\ [Next]_vars => IInv'
  BY LayColumnIsLegal, DissolveIsLegal, LayOnShelfIsLegal, LayFirstFitIsLegal, FallBackIsLegal,
     EndIsLegal DEF Next
<1> QED BY <1>1, InvariantInit, PTL DEF Spec

(* No two bodies meet, none leaves the region or lies on a reserved cell,  *)
(* and a front that must face outside does (placement/constructive.py).    *)
THEOREM LegalPlacements == Spec => []PlacementsLegal
BY PlacerInductive, InvariantImplies, PTL

(* One step along an axis after another is one step by their sum.          *)
LEMMA PlusTwice ==
  ASSUME NEW o, o[1] \in Int, o[2] \in Int, o[3] \in Int, NEW p \in Int, NEW q \in Int
  PROVE  /\ Plus(Plus(o, <<0, 0, p>>), <<0, 0, q>>) = Plus(o, <<0, 0, p + q>>)
         /\ Plus(Plus(o, <<p, 0, 0>>), <<q, 0, 0>>) = Plus(o, <<p + q, 0, 0>>)
<1>1. Plus(Plus(o, <<0, 0, p>>), <<0, 0, q>>) = <<(o[1] + 0) + 0, (o[2] + 0) + 0, (o[3] + p) + q>>
  BY DEF Plus
<1>2. Plus(o, <<0, 0, p + q>>) = <<o[1] + 0, o[2] + 0, o[3] + (p + q)>>
  BY DEF Plus
<1>3. Plus(Plus(o, <<p, 0, 0>>), <<q, 0, 0>>) = <<(o[1] + p) + q, (o[2] + 0) + 0, (o[3] + 0) + 0>>
  BY DEF Plus
<1>4. Plus(o, <<p + q, 0, 0>>) = <<o[1] + (p + q), o[2] + 0, o[3] + 0>>
  BY DEF Plus
<1>5. ASSUME NEW i \in Int PROVE (i + p) + q = i + (p + q) /\ (i + 0) + 0 = i + 0
  OBVIOUS
<1> QED BY <1>1, <1>2, <1>3, <1>4, <1>5

(* The members of a column laid together, each in front of the next.       *)
LEMMA ColumnStands ==
  ASSUME IInv, LayColumn, NEW j \in 2 .. Len(Unit)
  PROVE  LET at == placed'[Unit[j]] IN Plus(at.cell, Ahead(at.facing)) = placed'[Unit[j-1]].cell
<1> DEFINE origin == ColumnOrigin
           n == Len(Unit)
           f == UnitFacing(Unit)
           position == [i \in Range(Unit) |-> CHOOSE k \in DOMAIN Unit : Unit[k] = i]
           at == [i \in Range(Unit) |->
                    [cell |-> Plus(origin, ColumnOffset(n, position[i], f)), facing |-> f]]
<1>1. Placing /\ ColumnFits # {} /\ Put(at) /\ line \in Lines
  BY DEF LayColumn, Column, IInv
<1>2. /\ IsUnit(Unit) /\ Unit \in Seq(DOMAIN Machines) /\ n \in Nat /\ DOMAIN Unit = 1 .. n
      /\ f \in Facing
  <2>1. IsUnit(Unit) /\ Unit \in Seq(DOMAIN Machines) /\ 1 \in DOMAIN Unit
    BY <1>1, UnitIs
  <2>2. f \in Facing
    BY <1>1, <2>1, MachineFacts DEF UnitFacing
  <2> HIDE DEF f
  <2> QED BY <2>1, <2>2
<1>3. origin[1] \in Int /\ origin[2] \in Int /\ origin[3] \in Int
  <2>1. origin \in Cell
    BY <1>1, ColumnOriginIs DEF ColumnFits
  <2> HIDE DEF origin
  <2> QED BY <2>1, RegionAssumption DEF Cell
<1>4. ASSUME NEW k \in 1 .. n
      PROVE  placed'[Unit[k]] = [cell |-> Plus(origin, ColumnOffset(n, k, f)), facing |-> f]
  <2>1. Unit[k] \in Range(Unit)
    BY <1>2, <1>4 DEF Range
  <2>2. position[Unit[k]] = k
    BY <1>2, <1>4, <2>1 DEF IsUnit
  <2>3. placed'[Unit[k]] = at[Unit[k]]
    <3> HIDE DEF at
    <3>1. DOMAIN at = Range(Unit)
      BY DEF at
    <3> QED BY <1>1, <2>1, <3>1 DEF Put
  <2> HIDE DEF position
  <2> QED BY <2>1, <2>2, <2>3
<1> DEFINE a == ColumnOffset(n, j, f)  b == ColumnOffset(n, j - 1, f)  h == Ahead(f)
<1>5. j \in 1 .. n /\ j - 1 \in 1 .. n /\ j \in Int
  BY <1>2
<1>6. Plus(Plus(origin, a), h) = Plus(origin, b)
  <2> HIDE DEF a, b, h, origin
  <2>1. CASE f = "north"
    <3>1. a = <<0, 0, j - 1>> /\ b = <<0, 0, (j - 1) + (-1)>> /\ h = <<0, 0, -1>>
      BY <2>1, <1>5 DEF ColumnOffset, Ahead, a, b, h
    <3>2. j - 1 \in Int /\ -1 \in Int
      BY <1>2, <1>5
    <3>3. Plus(Plus(origin, <<0, 0, j - 1>>), <<0, 0, -1>>) = Plus(origin, <<0, 0, (j - 1) + (-1)>>)
      BY <1>3, <3>2, PlusTwice
    <3> QED BY <3>1, <3>3
  <2>2. CASE f = "south"
    <3>1. a = <<0, 0, n - j>> /\ b = <<0, 0, (n - j) + 1>> /\ h = <<0, 0, 1>>
      BY <1>2, <1>5, <2>2 DEF ColumnOffset, Ahead, a, b, h
    <3>2. n - j \in Int /\ 1 \in Int
      BY <1>2, <1>5
    <3>3. Plus(Plus(origin, <<0, 0, n - j>>), <<0, 0, 1>>) = Plus(origin, <<0, 0, (n - j) + 1>>)
      BY <1>3, <3>2, PlusTwice
    <3> QED BY <3>1, <3>3
  <2>3. CASE f = "west"
    <3>1. a = <<j - 1, 0, 0>> /\ b = <<(j - 1) + (-1), 0, 0>> /\ h = <<-1, 0, 0>>
      BY <2>3, <1>5 DEF ColumnOffset, Ahead, a, b, h
    <3>2. j - 1 \in Int /\ -1 \in Int
      BY <1>2, <1>5
    <3>3. Plus(Plus(origin, <<j - 1, 0, 0>>), <<-1, 0, 0>>) = Plus(origin, <<(j - 1) + (-1), 0, 0>>)
      BY <1>3, <3>2, PlusTwice
    <3> QED BY <3>1, <3>3
  <2>4. CASE f = "east"
    <3>1. a = <<n - j, 0, 0>> /\ b = <<(n - j) + 1, 0, 0>> /\ h = <<1, 0, 0>>
      BY <1>2, <1>5, <2>4 DEF ColumnOffset, Ahead, a, b, h
    <3>2. n - j \in Int /\ 1 \in Int
      BY <1>2, <1>5
    <3>3. Plus(Plus(origin, <<n - j, 0, 0>>), <<1, 0, 0>>) = Plus(origin, <<(n - j) + 1, 0, 0>>)
      BY <1>3, <3>2, PlusTwice
    <3> QED BY <3>1, <3>3
  <2> QED BY <1>2, <2>1, <2>2, <2>3, <2>4 DEF Facing
<1> HIDE DEF a, b, h, f, n, origin
<1>7. /\ placed'[Unit[j]].cell = Plus(origin, a) /\ placed'[Unit[j]].facing = f
      /\ placed'[Unit[j-1]].cell = Plus(origin, b)
  <2>1. /\ placed'[Unit[j]] = [cell |-> Plus(origin, a), facing |-> f]
        /\ placed'[Unit[j-1]] = [cell |-> Plus(origin, b), facing |-> f]
    BY <1>4, <1>5 DEF a, b
  <2> QED BY <2>1
<1> QED BY <1>6, <1>7 DEF h

(* A group laid as a column stands back to front, one front free, in any   *)
(* region (docstring of column_offsets, placement/groups.py).              *)
THEOREM ColumnsStand == Spec => ColumnsBackToFront
<1>1. IInv /\ [Next]_vars =>
        [LayColumn => \A j \in 2 .. Len(Unit) :
                        LET at == placed'[Unit[j]] IN
                        Plus(at.cell, Ahead(at.facing)) = placed'[Unit[j-1]].cell]_vars
  BY ColumnStands
<1>2. Spec => [][LayColumn => \A j \in 2 .. Len(Unit) :
                                LET at == placed'[Unit[j]] IN
                                Plus(at.cell, Ahead(at.facing)) = placed'[Unit[j-1]].cell]_vars
  BY <1>1, PlacerInductive, PTL DEF Spec
<1> QED BY <1>2 DEF ColumnsBackToFront

-----------------------------------------------------------------------------
(* The plain seed.                                                         *)

(* What is in the way of machine i when those before it are placed.        *)
TakenBefore(i) == line.reserved \cup UNION {Body(j, placed[j]) : j \in 1 .. i - 1}

(* The machines after the k-th, each a unit of its own with no slot.       *)
PlainQueue(k) == [j \in 1 .. Len(Machines) - k |-> [members |-> <<k + j>>, slot |-> NoSlot]]

(* The first k machines are placed, each at its first spot among those     *)
(* before it, and the next, if the seed has given up, has none.            *)
PlainTo(k) ==
  /\ DOMAIN placed = 1 .. k
  /\ \A i \in 1 .. k : /\ Spots(i, TakenBefore(i)) # {}
                       /\ placed[i] = FirstSpot(i, TakenBefore(i), line.lattice /\ SingleBlocksOnly)
  /\ mode = "plain" => todo = PlainQueue(k)
  /\ mode = "wont_fit" => k < Len(Machines) /\ Spots(k + 1, TakenBefore(k + 1)) = {}

(* A call that is, or ended, in the plain seed has done only first fits.   *)
PlainInv ==
  /\ line \in Lines
  /\ mode \in {"plain", "wont_fit"} => \E k \in 0 .. Len(Machines) : PlainTo(k)

(* The plain seed starts from nothing placed.                              *)
LEMMA PlainStarts ==
  line \in Lines /\ placed = <<>> /\ mode = "plain" /\ todo = PlainTodo => PlainInv
<1> SUFFICES ASSUME line \in Lines, placed = <<>>, mode = "plain", todo = PlainTodo
             PROVE  PlainInv
  OBVIOUS
<1>1. Len(Machines) \in Nat /\ DOMAIN Machines = 1 .. Len(Machines)
  BY MachineFacts
<1>2. PlainTodo = PlainQueue(0)
  BY <1>1 DEF PlainTodo, PlainQueue
<1>3. DOMAIN placed = 1 .. 0
  OBVIOUS
<1>4. PlainTo(0)
  BY <1>2, <1>3 DEF PlainTo
<1> QED BY <1>1, <1>4 DEF PlainInv

(* The head of its queue, and what is in the way of it.                    *)
LEMMA PlainHead ==
  ASSUME line \in Lines, NEW k \in 0 .. Len(Machines), PlainTo(k), mode = "plain", Placing
  PROVE  /\ k + 1 \in 1 .. Len(Machines) /\ Unit = <<k + 1>> /\ ~Slot
         /\ Tail(todo) = PlainQueue(k + 1)
         /\ Occupied = TakenBefore(k + 1)
         /\ Spaced = (line.lattice /\ SingleBlocksOnly)
<1>1. Len(Machines) \in Nat /\ k \in Nat /\ k <= Len(Machines)
  BY MachineFacts
<1> DEFINE n == Len(Machines)
<1>2. todo = PlainQueue(k) /\ todo # <<>>
  BY DEF PlainTo, Placing
<1>3. k < n
  <2>1. CASE k = n
    <3>1. todo = [j \in 1 .. 0 |-> [members |-> <<k + j>>, slot |-> NoSlot]]
      BY <1>1, <1>2, <2>1 DEF PlainQueue
    <3> QED BY <1>2, <3>1
  <2> QED BY <1>1, <2>1
<1> HIDE DEF n
<1>4. n - k \in Nat /\ n - (k + 1) = (n - k) - 1 /\ 1 \in 1 .. n - k
  BY <1>1, <1>3 DEF n
<1>5. todo[1] = [members |-> <<k + 1>>, slot |-> NoSlot]
  BY <1>2, <1>4 DEF PlainQueue, n
<1>6. Tail(todo) = PlainQueue(k + 1)
  <2> DEFINE q == [j \in 1 .. n - k |-> [members |-> <<k + j>>, slot |-> NoSlot]]
  <2>1. todo = q
    BY <1>2 DEF PlainQueue, n
  <2>2. Len(q) = n - k
    BY <1>4
  <2>3. Tail(q) = [j \in 1 .. (n - k) - 1 |-> q[j + 1]]
    BY <1>4, <2>2
  <2>4. ASSUME NEW j \in 1 .. (n - k) - 1
        PROVE  q[j + 1] = [members |-> <<(k + 1) + j>>, slot |-> NoSlot]
    <3>1. j + 1 \in 1 .. n - k /\ k + (j + 1) = (k + 1) + j
      BY <1>1, <1>4
    <3> QED BY <3>1
  <2> HIDE DEF q
  <2> QED BY <1>4, <2>1, <2>3, <2>4 DEF PlainQueue, n
<1>7. Occupied = TakenBefore(k + 1)
  <2>1. DOMAIN placed = 1 .. (k + 1) - 1
    BY <1>1 DEF PlainTo
  <2> QED BY <2>1 DEF Occupied, TakenBefore
<1>8. Unit = <<k + 1>> /\ ~Slot
  BY <1>5 DEF Unit, Slot
<1>9. Spaced = (line.lattice /\ SingleBlocksOnly)
  BY DEF Spaced
<1>10. k + 1 \in 1 .. Len(Machines)
  BY <1>1, <1>3 DEF n
<1> QED BY <1>6, <1>7, <1>8, <1>9, <1>10

(* Where a machine may go depends on the line and on what is in its way.   *)
LEMMA FirstSpotStays ==
  ASSUME line' = line, NEW i, TakenBefore(i)' = TakenBefore(i)
  PROVE  /\ Spots(i, TakenBefore(i))' = Spots(i, TakenBefore(i))
         /\ FirstSpot(i, TakenBefore(i), line.lattice /\ SingleBlocksOnly)'
              = FirstSpot(i, TakenBefore(i), line.lattice /\ SingleBlocksOnly)
<1> DEFINE flag == line.lattice /\ SingleBlocksOnly
<1>1. Machines' = Machines
  BY DEF Machines
<1>2. Spots(i, TakenBefore(i))' = Spots(i, TakenBefore(i))
  BY <1>1 DEF Spots, Body
<1>3. flag' = flag
  BY <1>1 DEF SingleBlocksOnly
<1> HIDE DEF flag
<1>4. FirstSpot(i, TakenBefore(i), flag)' = FirstSpot(i, TakenBefore(i), flag)
  BY <1>1, <1>2, <1>3 DEF FirstSpot, SpotRank, FacingRank, ScanRank
<1> QED BY <1>2, <1>4 DEF flag

(* So what has been placed goes on being so placed while nothing moves.    *)
LEMMA PlainStays ==
  ASSUME line' = line, placed' = placed, NEW k, PlainTo(k)
  PROVE  /\ DOMAIN placed' = 1 .. k
         /\ \A i \in 1 .. k :
              /\ Spots(i, TakenBefore(i))' # {}
              /\ placed'[i] = FirstSpot(i, TakenBefore(i), line.lattice /\ SingleBlocksOnly)'
         /\ Spots(k + 1, TakenBefore(k + 1))' = Spots(k + 1, TakenBefore(k + 1))
<1>1. ASSUME NEW i PROVE TakenBefore(i)' = TakenBefore(i)
  BY DEF TakenBefore, Body, Machines
<1>2. Spots(k + 1, TakenBefore(k + 1))' = Spots(k + 1, TakenBefore(k + 1))
  BY <1>1, FirstSpotStays
<1>3. ASSUME NEW i \in 1 .. k
      PROVE  /\ Spots(i, TakenBefore(i))' # {}
             /\ placed'[i] = FirstSpot(i, TakenBefore(i), line.lattice /\ SingleBlocksOnly)'
  <2>1. TakenBefore(i)' = TakenBefore(i)
    BY <1>1
  <2>2. /\ Spots(i, TakenBefore(i)) # {}
        /\ placed[i] = FirstSpot(i, TakenBefore(i), line.lattice /\ SingleBlocksOnly)
    BY DEF PlainTo
  <2> QED BY <2>1, <2>2, FirstSpotStays
<1> QED BY <1>2, <1>3 DEF PlainTo

(* A first fit places the next machine of the queue.                       *)
LEMMA PlainFirstFit ==
  ASSUME line \in Lines, NEW k \in 0 .. Len(Machines), PlainTo(k), mode = "plain", LayFirstFit
  PROVE  PlainInv'
<1> DEFINE flag == line.lattice /\ SingleBlocksOnly
           spot == FirstSpot(k + 1, Occupied, Spaced)
<1>1. Placing /\ Spots(Unit[1], Occupied) # {}
      /\ Put([i \in {Unit[1]} |-> FirstSpot(i, Occupied, Spaced)])
  BY DEF LayFirstFit, Single
<1>2. /\ k + 1 \in 1 .. Len(Machines) /\ Unit = <<k + 1>>
      /\ Tail(todo) = PlainQueue(k + 1)
      /\ Occupied = TakenBefore(k + 1) /\ Spaced = flag
  BY <1>1, PlainHead
<1>3. Unit[1] = k + 1 /\ k \in Nat
  BY <1>2, MachineFacts
<1>4. /\ placed' = [i \in DOMAIN placed \cup {k + 1} |-> IF i \in {k + 1} THEN spot ELSE placed[i]]
      /\ todo' = PlainQueue(k + 1) /\ line' = line /\ mode' = mode
  BY <1>1, <1>2, <1>3 DEF Put
<1>5. DOMAIN placed = 1 .. k
  BY DEF PlainTo
<1>6. DOMAIN placed' = 1 .. k + 1
  BY <1>3, <1>4, <1>5
<1>7. placed'[k + 1] = spot /\ \A i \in 1 .. k : placed'[i] = placed[i]
  BY <1>3, <1>4, <1>5
<1> HIDE DEF spot
<1>8. SingleBlocksOnly' = SingleBlocksOnly /\ PlainQueue(k + 1)' = PlainQueue(k + 1)
      /\ Machines' = Machines
  BY <1>4 DEF SingleBlocksOnly, PlainQueue, Machines
<1>9. ASSUME NEW i \in 1 .. k + 1
      PROVE  TakenBefore(i)' = TakenBefore(i)
  <2>1. \A j \in 1 .. i - 1 : j \in 1 .. k
    BY <1>3
  <2>2. \A j \in 1 .. i - 1 : Body(j, placed[j])' = Body(j, placed[j])
    BY <1>7, <1>8, <2>1 DEF Body
  <2> QED BY <1>4, <2>2 DEF TakenBefore
<1>10. ASSUME NEW i \in 1 .. k + 1
       PROVE  /\ Spots(i, TakenBefore(i))' = Spots(i, TakenBefore(i))
              /\ FirstSpot(i, TakenBefore(i), flag)' = FirstSpot(i, TakenBefore(i), flag)
  BY <1>4, <1>9, FirstSpotStays
<1>11. ASSUME NEW i \in 1 .. k + 1
       PROVE  Spots(i, TakenBefore(i)) # {} /\ placed'[i] = FirstSpot(i, TakenBefore(i), flag)
  <2>1. CASE i = k + 1
    BY <1>1, <1>2, <1>3, <1>7, <2>1 DEF spot
  <2>2. CASE i \in 1 .. k
    <3>1. Spots(i, TakenBefore(i)) # {} /\ placed[i] = FirstSpot(i, TakenBefore(i), flag)
      BY <2>2 DEF PlainTo
    <3> HIDE DEF flag
    <3> QED BY <1>7, <2>2, <3>1
  <2> QED BY <1>3, <2>1, <2>2
<1>12. PlainTo(k + 1)'
  <2>1. \A i \in 1 .. k + 1 :
          Spots(i, TakenBefore(i))' # {} /\ placed'[i] = FirstSpot(i, TakenBefore(i), flag)'
    <3> HIDE DEF flag
    <3> QED BY <1>10, <1>11
  <2>2. todo' = PlainQueue(k + 1)' /\ mode' = "plain"
    BY <1>4, <1>8
  <2> QED BY <1>6, <2>1, <2>2 DEF PlainTo
<1>13. k + 1 \in 0 .. Len(Machines') /\ line' \in Lines
  BY <1>2, <1>3, <1>4, <1>8, MachineFacts
<1> QED BY <1>12, <1>13 DEF PlainInv

(* The plain seed gives up at the first machine that has no spot.          *)
LEMMA PlainWontFit ==
  ASSUME line \in Lines, NEW k \in 0 .. Len(Machines), PlainTo(k), WontFit
  PROVE  PlainInv'
<1>1. mode = "plain" /\ mode' = "wont_fit" /\ placed' = placed /\ line' = line
      /\ Placing /\ Spots(Unit[1], Occupied) = {}
  BY DEF WontFit, Stuck, Single
<1>2. k + 1 \in 1 .. Len(Machines) /\ Unit = <<k + 1>> /\ Occupied = TakenBefore(k + 1)
  BY <1>1, PlainHead
<1>3. Spots(k + 1, TakenBefore(k + 1)) = {} /\ k < Len(Machines)
  BY <1>1, <1>2, MachineFacts
<1>4. PlainTo(k)'
  <2>1. /\ DOMAIN placed' = 1 .. k
        /\ \A i \in 1 .. k :
             /\ Spots(i, TakenBefore(i))' # {}
             /\ placed'[i] = FirstSpot(i, TakenBefore(i), line.lattice /\ SingleBlocksOnly)'
        /\ Spots(k + 1, TakenBefore(k + 1))' = Spots(k + 1, TakenBefore(k + 1))
    BY <1>1, PlainStays
  <2>2. Len(Machines)' = Len(Machines)
    BY <1>1 DEF Machines
  <2> QED BY <1>1, <1>3, <2>1, <2>2 DEF PlainTo
<1> QED BY <1>1, <1>4 DEF PlainInv, Machines

(* Every step keeps the plain seed plain.                                  *)
LEMMA PlainNext == PlainInv /\ [Next]_vars => PlainInv'
<1> SUFFICES ASSUME PlainInv, [Next]_vars PROVE PlainInv'
  OBVIOUS
<1>1. line \in Lines
  BY DEF PlainInv
<1>2. ASSUME mode = "plain", Placing
      PROVE  Len(Unit) = 1 /\ ~Slot
  <2>1. PICK k \in 0 .. Len(Machines) : PlainTo(k)
    BY <1>2 DEF PlainInv
  <2>2. Unit = <<k + 1>> /\ ~Slot
    BY <1>1, <1>2, <2>1, PlainHead
  <2> QED BY <2>2
<1>3. CASE LayColumn \/ Dissolve \/ LayOnShelf
  <2>1. mode' = mode /\ line' = line /\ Placing /\ (Len(Unit) > 1 \/ Slot)
    BY <1>3 DEF LayColumn, Dissolve, LayOnShelf, Column, Single, Put
  <2>2. mode # "plain"
    <3> SUFFICES ASSUME mode = "plain" PROVE FALSE
      OBVIOUS
    <3>1. Len(Unit) = 1 /\ ~Slot
      BY <1>2, <2>1
    <3> QED BY <2>1, <3>1
  <2>3. mode = "grouped"
    BY <2>1, <2>2 DEF Placing
  <2> QED BY <1>1, <2>1, <2>3 DEF PlainInv
<1>4. CASE LayFirstFit
  <2>1. CASE mode = "plain"
    <3>1. PICK k \in 0 .. Len(Machines) : PlainTo(k)
      BY <2>1 DEF PlainInv
    <3> QED BY <1>1, <1>4, <2>1, <3>1, PlainFirstFit
  <2>2. CASE mode = "grouped"
    <3>1. mode' = "grouped" /\ line' = line
      BY <1>4, <2>2 DEF LayFirstFit, Put
    <3> QED BY <1>1, <3>1 DEF PlainInv
  <2> QED BY <1>4, <2>1, <2>2 DEF LayFirstFit, Single, Placing
<1>5. CASE FallBack
  <2>1. (line \in Lines /\ placed = <<>> /\ mode = "plain" /\ todo = PlainTodo)'
    BY <1>1, <1>5 DEF FallBack, PlainTodo, Machines
  <2> QED BY <2>1, PlainStarts, PTL
<1>6. CASE WontFit
  <2>1. PICK k \in 0 .. Len(Machines) : PlainTo(k)
    BY <1>6 DEF PlainInv, WontFit
  <2> QED BY <1>1, <1>6, <2>1, PlainWontFit
<1>7. CASE AllPlaced
  BY <1>1, <1>7 DEF PlainInv, AllPlaced
<1>8. CASE UNCHANGED vars
  <2>1. line' = line /\ todo' = todo /\ placed' = placed /\ mode' = mode
    BY <1>8 DEF vars
  <2>2. Machines' = Machines /\ \A k : PlainQueue(k)' = PlainQueue(k)
    BY <2>1 DEF Machines, PlainQueue
  <2>3. ASSUME NEW k, PlainTo(k) PROVE PlainTo(k)'
    <3>1. /\ DOMAIN placed' = 1 .. k
          /\ \A i \in 1 .. k :
               /\ Spots(i, TakenBefore(i))' # {}
               /\ placed'[i] = FirstSpot(i, TakenBefore(i), line.lattice /\ SingleBlocksOnly)'
          /\ Spots(k + 1, TakenBefore(k + 1))' = Spots(k + 1, TakenBefore(k + 1))
      BY <2>1, <2>3, PlainStays
    <3>2. /\ mode = "plain" => todo = PlainQueue(k)
          /\ mode = "wont_fit" => k < Len(Machines) /\ Spots(k + 1, TakenBefore(k + 1)) = {}
      BY <2>3 DEF PlainTo
    <3> QED BY <2>1, <2>2, <3>1, <3>2 DEF PlainTo
  <2> QED BY <1>1, <2>1, <2>2, <2>3 DEF PlainInv
<1> QED BY <1>3, <1>4, <1>5, <1>6, <1>7, <1>8 DEF Next

(* The invariant holds of every call.                                      *)
LEMMA PlainSeeds == Spec => []PlainInv
<1>1. Init => PlainInv
  <2> SUFFICES ASSUME Init PROVE PlainInv
    OBVIOUS
  <2>1. line \in Lines /\ placed = <<>> /\ (mode = "grouped" \/ (mode = "plain" /\ todo = PlainTodo))
    BY DEF Init
  <2>2. CASE mode = "grouped"
    BY <2>1, <2>2 DEF PlainInv
  <2> QED BY <2>1, <2>2, PlainStarts
<1> QED BY <1>1, PlainNext, PTL DEF Spec

(* A set that holds 0 and, with j, j + 1 holds every number up to n.       *)
LEMMA CountUp ==
  ASSUME NEW n \in Nat, NEW S, 0 \in S, \A j \in 0 .. n - 1 : j \in S => j + 1 \in S
  PROVE  n \in S
<1> DEFINE missing == (0 .. n) \ S
           id == [j \in missing |-> j]
<1> SUFFICES ASSUME n \notin S PROVE FALSE
  OBVIOUS
<1>1. missing # {} /\ id \in [missing -> Nat]
  OBVIOUS
<1>2. \E x \in missing : \A y \in missing : id[x] <= id[y]
  <2> HIDE DEF missing, id
  <2> QED BY <1>1, LeastRank
<1>3. PICK x \in missing : \A y \in missing : x <= y
  BY <1>2
<1>4. x \in 0 .. n /\ x # 0 /\ x \notin S
  BY <1>3
<1>5. x - 1 \in 0 .. n - 1 /\ (x - 1) + 1 = x
  BY <1>4
<1>6. x - 1 \notin missing
  BY <1>3, <1>4
<1>7. x - 1 \in S
  BY <1>5, <1>6
<1> QED BY <1>4, <1>5, <1>7

(* When the plain seed has given up at machine k + 1, the whole line's     *)
(* first fit stops there as well.                                          *)
LEMMA FirstFitStops ==
  ASSUME line \in Lines, mode = "wont_fit", NEW k \in 0 .. Len(Machines), PlainTo(k)
  PROVE  Len(FirstFitAll(line.lattice /\ SingleBlocksOnly)) < Len(Machines)
<1> DEFINE n == Len(Machines)
           spaced == line.lattice /\ SingleBlocksOnly
           Way(before) == line.reserved \cup UNION {Body(i, before[i]) : i \in DOMAIN before}
           Step(before, j) == IF Len(before) = j - 1 /\ Spots(j, Way(before)) # {}
                                THEN Append(before, FirstSpot(j, Way(before), spaced))
                                ELSE before
           Is(f) == f = [j \in 0 .. n |-> IF j = 0 THEN <<>> ELSE Step(f[j-1], j)]
           upto(j) == [i \in 1 .. j |-> placed[i]]
           fits == [j \in 0 .. n |-> IF j <= k THEN upto(j) ELSE upto(k)]
           laid == CHOOSE f : Is(f)
<1>1. n \in Nat /\ k \in Nat /\ k < n
  BY MachineFacts DEF PlainTo
<1>2. ASSUME NEW j \in 0 .. k
      PROVE  upto(j) \in Seq(Range(placed)) /\ Len(upto(j)) = j /\ Way(upto(j)) = TakenBefore(j + 1)
  <2>1. DOMAIN placed = 1 .. k
    BY DEF PlainTo
  <2>2. \A i \in 1 .. j : placed[i] \in Range(placed)
    <3>1. \A i \in 1 .. j : i \in 1 .. k
      BY <1>1
    <3> QED BY <2>1, <3>1 DEF Range
  <2>3. upto(j) \in [1 .. j -> Range(placed)] /\ j \in Nat
    BY <1>1, <2>2
  <2>4. DOMAIN upto(j) = 1 .. (j + 1) - 1 /\ \A i \in 1 .. (j + 1) - 1 : upto(j)[i] = placed[i]
    BY <2>3
  <2>5. Way(upto(j)) = TakenBefore(j + 1)
    <3> HIDE DEF upto
    <3> QED BY <2>4 DEF TakenBefore
  <2>6. upto(j) \in Seq(Range(placed)) /\ Len(upto(j)) = j
    <3> HIDE DEF upto
    <3> QED BY <2>3
  <2> QED BY <2>5, <2>6
<1>3. upto(0) = <<>>
  OBVIOUS
<1>4. ASSUME NEW j \in 1 .. k
      PROVE  Step(upto(j - 1), j) = upto(j)
  <2>1. j - 1 \in 0 .. k /\ (j - 1) + 1 = j /\ j \in Nat
    BY <1>1
  <2>2. /\ upto(j - 1) \in Seq(Range(placed)) /\ Len(upto(j - 1)) = j - 1
        /\ Way(upto(j - 1)) = TakenBefore(j)
    BY <1>2, <2>1
  <2>3. Spots(j, TakenBefore(j)) # {} /\ placed[j] = FirstSpot(j, TakenBefore(j), spaced)
    BY DEF PlainTo
  <2>4. Append(upto(j - 1), placed[j]) = upto(j)
    BY <2>1, <2>2
  <2> HIDE DEF upto, Way, spaced
  <2> QED BY <2>2, <2>3, <2>4
<1>5. ASSUME NEW j \in k + 1 .. n
      PROVE  Step(upto(k), j) = upto(k)
  <2>1. Len(upto(k)) = k /\ Way(upto(k)) = TakenBefore(k + 1)
    <3>1. k \in 0 .. k
      BY <1>1
    <3> HIDE DEF upto, Way
    <3> QED BY <1>2, <3>1
  <2>2. Spots(k + 1, TakenBefore(k + 1)) = {}
    BY DEF PlainTo
  <2>3. j = k + 1 \/ j - 1 # k
    BY <1>1
  <2> HIDE DEF upto, Way, spaced
  <2> QED BY <2>1, <2>2, <2>3
<1>6. Is(fits)
  <2> HIDE DEF Step, upto
  <2>1. ASSUME NEW j \in 0 .. n
        PROVE  fits[j] = IF j = 0 THEN <<>> ELSE Step(fits[j-1], j)
    <3>1. CASE j = 0
      BY <1>1, <1>3, <3>1
    <3>2. CASE j \in 1 .. k
      <4>1. fits[j] = upto(j) /\ fits[j - 1] = upto(j - 1) /\ j # 0
        BY <1>1, <3>2
      <4> QED BY <1>4, <3>2, <4>1
    <3>3. CASE j \in k + 1 .. n
      <4>1. fits[j] = upto(k) /\ fits[j - 1] = upto(k) /\ j # 0
        BY <1>1, <3>3
      <4> QED BY <1>5, <3>3, <4>1
    <3> QED BY <1>1, <3>1, <3>2, <3>3
  <2>2. fits = [j \in 0 .. n |-> fits[j]]
    OBVIOUS
  <2> HIDE DEF fits
  <2> QED BY <2>1, <2>2
<1>7. Is(laid)
  <2> HIDE DEF Is
  <2> QED BY <1>6
<1> HIDE DEF laid
<1>8. laid[n] = fits[n]
  <2> DEFINE S == {j \in 0 .. n : laid[j] = fits[j]}
  <2>1. \A j \in 0 .. n : /\ laid[j] = IF j = 0 THEN <<>> ELSE Step(laid[j-1], j)
                          /\ fits[j] = IF j = 0 THEN <<>> ELSE Step(fits[j-1], j)
    <3> HIDE DEF Step, fits
    <3>1. /\ laid = [j \in 0 .. n |-> IF j = 0 THEN <<>> ELSE Step(laid[j-1], j)]
          /\ fits = [j \in 0 .. n |-> IF j = 0 THEN <<>> ELSE Step(fits[j-1], j)]
      BY <1>6, <1>7
    <3> QED BY <3>1
  <2> HIDE DEF Step, fits
  <2>2. 0 \in S
    BY <1>1, <2>1
  <2>3. ASSUME NEW j \in 0 .. n - 1, j \in S PROVE j + 1 \in S
    <3>1. j + 1 \in 0 .. n /\ j + 1 # 0 /\ (j + 1) - 1 = j
      BY <1>1
    <3> QED BY <2>1, <2>3, <3>1
  <2>4. n \in S
    <3> HIDE DEF S
    <3> QED BY <1>1, <2>2, <2>3, CountUp
  <2> QED BY <2>4
<1>9. fits[n] = upto(k)
  <2> HIDE DEF upto
  <2> QED BY <1>1
<1>10. Len(laid[n]) = k
  <2>1. Len(upto(k)) = k
    BY <1>1, <1>2
  <2> HIDE DEF upto, fits
  <2> QED BY <1>8, <1>9, <2>1
<1>11. FirstFitAll(spaced) = laid[n]
  BY DEF FirstFitAll, laid
<1> QED BY <1>1, <1>10, <1>11

(* Whatever the line, a seed that was tried in groups and given up is one  *)
(* the plain first fit cannot place either (docstring of                   *)
(* placement/constructive.py).                                             *)
THEOREM GroupingSafe == Spec => []GroupingNeverLoses
<1>1. PlainInv => GroupingNeverLoses
  <2> SUFFICES ASSUME PlainInv, mode = "wont_fit"
               PROVE  Len(FirstFitAll(line.lattice /\ SingleBlocksOnly)) < Len(Machines)
    BY DEF GroupingNeverLoses
  <2>1. PICK k \in 0 .. Len(Machines) : PlainTo(k)
    BY DEF PlainInv
  <2> QED BY <2>1, FirstFitStops DEF PlainInv
<1> QED BY <1>1, PlainSeeds, PTL
=============================================================================
