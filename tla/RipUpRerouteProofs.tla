-------------------------- MODULE RipUpRerouteProofs --------------------------
(***************************************************************************)
(* Safety of the power router's retry loop for every set of nets, every    *)
(* deterministic trunk layer and every pass budget, and that stopping on a *)
(* failed set seen before gives up nothing the loop could have reached.    *)
(***************************************************************************)
EXTENDS RipUpReroute, TLAPS, FiniteSetTheorems, WellFoundedInduction

(* A net still to be visited has no trunk and no failure, a visited one    *)
(* exactly one of the two.                                                 *)
Fates ==
  /\ \A n \in pending : trunk[n] = {} /\ n \notin failed
  /\ \A n \in Net \ pending : n \in failed <=> trunk[n] = {}
  /\ Ended => pending = {}

IInv == TypeOK /\ TrunksApart /\ Fates

(* The loop starts with nothing laid and every net to visit.               *)
LEMMA InitIInv == Init => IInv
BY PassAssumption DEF Init, IInv, TypeOK, TrunksApart, Fates, Ended

(* A trunk is laid around every trunk of this pass, so it meets none.      *)
LEMMA LayTrunkIInv ==
  ASSUME IInv, NEW n \in Net, LayTrunk(n)
  PROVE  IInv'
<1>1. TrunkNow(n) \in SUBSET Cell /\ TrunkNow(n) \cap Taken = {}
  <2>1. Taken \in SUBSET Cell
    BY DEF IInv, TypeOK, Taken
  <2>2. lay \in Lays
    BY DEF IInv, TypeOK
  <2>3. lay[n][Taken] \in SUBSET Cell /\ lay[n][Taken] \cap Taken = {}
    BY <2>1, <2>2, LayAssumption
  <2> QED BY <2>3 DEF TrunkNow
<1>2. \A m \in Net : trunk'[m] = IF m = n THEN TrunkNow(n) ELSE trunk[m]
  BY DEF IInv, TypeOK, LayTrunk
<1>3. n \in pending /\ TrunkNow(n) # {}
  BY DEF LayTrunk, Turn
<1>4. TypeOK'
  BY <1>1 DEF IInv, TypeOK, LayTrunk
<1>5. TrunksApart'
  <2>1. \A m \in Net : TrunkNow(n) \cap trunk[m] = {}
    BY <1>1 DEF Taken
  <2> QED BY <1>2, <2>1 DEF IInv, TrunksApart
<1>6. Fates'
  BY <1>2, <1>3 DEF IInv, TypeOK, Fates, Ended, LayTrunk
<1> QED BY <1>4, <1>5, <1>6 DEF IInv

(* Every step keeps the invariant.                                         *)
LEMMA NextIInv == IInv /\ [Next]_vars => IInv'
<1> SUFFICES ASSUME IInv, [Next]_vars PROVE IInv'
  OBVIOUS
<1>1. ASSUME NEW n \in Net, LayTrunk(n) PROVE IInv'
  BY <1>1, LayTrunkIInv
<1>2. ASSUME NEW n \in Net, FailNet(n) PROVE IInv'
  <2>1. TypeOK' /\ TrunksApart'
    BY <1>2 DEF IInv, TypeOK, TrunksApart, FailNet
  <2>2. Fates'
    BY <1>2 DEF IInv, TypeOK, Fates, Ended, FailNet, Turn
  <2> QED BY <2>1, <2>2 DEF IInv
<1>3. CASE Clean \/ Cycling \/ Spent
  <2>1. TypeOK'
    BY <1>3 DEF IInv, TypeOK, Clean, Cycling, Spent, PassOver, Remember
  <2>2. TrunksApart' /\ Fates'
    BY <1>3 DEF IInv, TrunksApart, Fates, Ended, Clean, Cycling, Spent, PassOver
  <2> QED BY <2>1, <2>2 DEF IInv
<1>4. CASE RipUp
  <2>1. TypeOK'
    BY <1>4, PassAssumption DEF IInv, TypeOK, RipUp, PassOver, StartPass, Leaders, Remember, LastPass
  <2>2. TrunksApart' /\ Fates'
    BY <1>4 DEF IInv, TrunksApart, Fates, Ended, RipUp, PassOver, StartPass
  <2> QED BY <2>1, <2>2 DEF IInv
<1>5. CASE UNCHANGED vars
  BY <1>5 DEF IInv, vars, TypeOK, TrunksApart, Fates, Ended
<1> QED BY <1>1, <1>2, <1>3, <1>4, <1>5 DEF Next

(* The invariant holds throughout.                                         *)
THEOREM Inductive == Spec => []IInv
BY InitIInv, NextIInv, PTL DEF Spec

(* Every variable of the retry loop keeps its shape.                       *)
THEOREM TypeCorrect == Spec => []TypeOK
<1>1. IInv => TypeOK
  BY DEF IInv
<1> QED BY <1>1, Inductive, PTL

(* No order of the tiers and no number of retries ever puts two trunks on  *)
(* one cell.                                                               *)
THEOREM Apart == Spec => []TrunksApart
<1>1. IInv => TrunksApart
  BY DEF IInv
<1> QED BY <1>1, Inductive, PTL

(* However the loop ends, what it returns answers every net once: with a   *)
(* trunk or with a failure of the same pass.                               *)
THEOREM Answered == Spec => []EveryNetAnswered
<1>1. IInv => EveryNetAnswered
  BY DEF IInv, Fates, EveryNetAnswered
<1> QED BY <1>1, Inductive, PTL

-----------------------------------------------------------------------------
(* What a pass does, as a function of the nets that lead it.               *)

(* Some element of a set has the least rank, if ranks are naturals.        *)
LEMMA LeastRanked ==
  ASSUME NEW S, S # {}, NEW rank \in [S -> Nat]
  PROVE  \E x \in S : \A y \in S : rank[x] <= rank[y]
<1> DEFINE T == {rank[x] : x \in S}
<1>1. T \subseteq Nat /\ T # {}
  OBVIOUS
<1>2. PICK n \in T : \A m \in T : ~(<<m, n>> \in OpToRel(<, Nat))
  BY <1>1, NatLessThanWellFounded, WFMin
<1>3. \A m \in T : n <= m
  <2>1. \A m \in T : ~(m < n)
    BY <1>1, <1>2 DEF OpToRel
  <2> QED BY <1>1, <2>1
<1>4. PICK x \in S : rank[x] = n
  BY DEF T
<1> QED BY <1>3, <1>4

(* A set that holds 0 and, with k, k + 1 holds every number up to n.       *)
LEMMA CountsUpTo ==
  ASSUME NEW n \in Nat, NEW S, 0 \in S, \A k \in 0 .. n - 1 : k \in S => k + 1 \in S
  PROVE  \A k \in 0 .. n : k \in S
<1> DEFINE missing == (0 .. n) \ S
           itself == [k \in missing |-> k]
<1>1. SUFFICES ASSUME missing # {} PROVE FALSE
  OBVIOUS
<1>2. itself \in [missing -> Nat]
  OBVIOUS
<1> HIDE DEF missing, itself
<1>3. PICK k \in missing : \A j \in missing : itself[k] <= itself[j]
  BY <1>1, <1>2, LeastRanked
<1>4. k \in 0 .. n /\ k # 0 /\ k \notin S /\ \A j \in missing : k <= j
  BY <1>3 DEF missing, itself
<1>5. k - 1 \in 0 .. n - 1 /\ k - 1 \notin missing
  BY <1>4
<1>6. k - 1 \in S
  BY <1>5 DEF missing
<1> QED BY <1>4, <1>5, <1>6

(* g lists what taking the steps F[1] .. F[n] from b gives.                *)
Takes(g, T, b, F, n) ==
  g \in [0 .. n -> T] /\ g[0] = b /\ \A k \in 1 .. n : g[k] = F[k][g[k-1]]

(* Taking n steps defines a function.                                      *)
LEMMA StepsTaken ==
  ASSUME NEW T, NEW b \in T, NEW n \in Nat, NEW F \in [1 .. n -> [T -> T]]
  PROVE  \E g : Takes(g, T, b, F, n)
<1> DEFINE S == {m \in 0 .. n : \E g \in [0 .. m -> T] :
                   g[0] = b /\ \A k \in 1 .. m : g[k] = F[k][g[k-1]]}
<1>1. 0 \in S
  <2> DEFINE g == [k \in 0 .. 0 |-> b]
  <2>1. g \in [0 .. 0 -> T] /\ g[0] = b /\ \A k \in 1 .. 0 : g[k] = F[k][g[k-1]]
    OBVIOUS
  <2> HIDE DEF g
  <2>2. 0 \in 0 .. n
    OBVIOUS
  <2> QED BY <2>1, <2>2
<1>2. \A m \in 0 .. n - 1 : m \in S => m + 1 \in S
  <2> SUFFICES ASSUME NEW m \in 0 .. n - 1, m \in S PROVE m + 1 \in S
    OBVIOUS
  <2>1. PICK g \in [0 .. m -> T] : g[0] = b /\ \A k \in 1 .. m : g[k] = F[k][g[k-1]]
    OBVIOUS
  <2> DEFINE h == [k \in 0 .. m + 1 |-> IF k <= m THEN g[k] ELSE F[m+1][g[m]]]
  <2>2. h \in [0 .. m + 1 -> T]
    <3>1. m + 1 \in 1 .. n /\ m \in 0 .. m
      OBVIOUS
    <3>2. F[m+1] \in [T -> T] /\ g[m] \in T
      BY <3>1
    <3> QED BY <3>2
  <2>3. h[0] = b
    BY <2>1
  <2>4. ASSUME NEW k \in 1 .. m + 1 PROVE h[k] = F[k][h[k-1]]
    <3>1. CASE k <= m
      <4>1. k - 1 \in 0 .. m /\ k \in 1 .. m
        BY <3>1
      <4>2. h[k] = g[k] /\ h[k-1] = g[k-1] /\ g[k] = F[k][g[k-1]]
        BY <2>1, <3>1, <4>1
      <4> QED BY <4>2
    <3>2. CASE k = m + 1
      <4>1. h[k] = F[m+1][g[m]] /\ h[k-1] = g[m]
        BY <3>2
      <4> QED BY <3>2, <4>1
    <3> QED BY <3>1, <3>2
  <2>5. m + 1 \in 0 .. n
    OBVIOUS
  <2> HIDE DEF h
  <2> QED BY <2>2, <2>3, <2>4, <2>5
<1> HIDE DEF S
<1>3. \A k \in 0 .. n : k \in S
  BY <1>1, <1>2, CountsUpTo
<1>4. n \in S
  BY <1>3
<1> QED BY <1>4 DEF S, Takes

(* The steps determine it.                                                 *)
LEMMA StepsDetermine ==
  ASSUME NEW T, NEW b \in T, NEW n \in Nat, NEW F \in [1 .. n -> [T -> T]],
         NEW g, Takes(g, T, b, F, n), NEW h, h[0] = b,
         \A k \in 1 .. n : h[k-1] \in T => h[k] = F[k][h[k-1]]
  PROVE  \A k \in 0 .. n : h[k] = g[k] /\ h[k] \in T
<1> DEFINE S == {k \in 0 .. n : h[k] = g[k] /\ h[k] \in T}
<1>1. 0 \in S
  BY DEF Takes
<1>2. \A k \in 0 .. n - 1 : k \in S => k + 1 \in S
  <2> SUFFICES ASSUME NEW k \in 0 .. n - 1, h[k] = g[k], h[k] \in T PROVE k + 1 \in S
    OBVIOUS
  <2>1. k + 1 \in 1 .. n /\ (k + 1) - 1 = k /\ k + 1 \in 0 .. n
    OBVIOUS
  <2>2. h[k+1] = F[k+1][h[k]] /\ g[k+1] = F[k+1][g[k]]
    BY <2>1 DEF Takes
  <2>3. F[k+1] \in [T -> T]
    BY <2>1
  <2> QED BY <2>1, <2>2, <2>3
<1> HIDE DEF S
<1>3. \A k \in 0 .. n : k \in S
  BY <1>1, <1>2, CountsUpTo
<1> QED BY <1>3 DEF S

(* m has its turn before n in a pass that lead leads.                      *)
Precedes(lead, m, n) ==
  \/ m \in lead /\ n \notin lead
  \/ (m \in lead <=> n \in lead) /\ Rank[m] < Rank[n]

Nets == Cardinality(Net)

LEMMA NetsType == Nets \in Nat
BY NetAssumption, FS_CardinalityType DEF Nets

LEMMA FirstOfSome ==
  ASSUME NEW lead, NEW S \in SUBSET Net, S # {}
  PROVE  \E n \in S : \A m \in S \ {n} : Precedes(lead, n, m)
<1>1. ASSUME NEW U \in SUBSET Net, U # {}
      PROVE  \E n \in U : \A m \in U \ {n} : Rank[n] < Rank[m]
  <2> DEFINE rank == [n \in U |-> Rank[n]]
  <2>1. rank \in [U -> Nat]
    BY RankAssumption
  <2> HIDE DEF rank
  <2>2. PICK n \in U : \A m \in U : rank[n] <= rank[m]
    BY <1>1, <2>1, LeastRanked
  <2>3. \A m \in U \ {n} : Rank[n] <= Rank[m] /\ Rank[n] # Rank[m] /\ Rank[n] \in Nat /\ Rank[m] \in Nat
    BY <2>2, RankAssumption DEF rank
  <2> QED BY <2>3
<1>2. CASE S \cap lead # {}
  <2>1. PICK n \in S \cap lead : \A m \in (S \cap lead) \ {n} : Rank[n] < Rank[m]
    BY <1>1, <1>2
  <2> QED BY <2>1 DEF Precedes
<1>3. CASE S \cap lead = {}
  <2>1. PICK n \in S : \A m \in S \ {n} : Rank[n] < Rank[m]
    BY <1>1
  <2> QED BY <1>3, <2>1 DEF Precedes
<1> QED BY <1>2, <1>3

(* Picking who goes first among the others, again and again, orders all.   *)
LEMMA SomeOrder ==
  ASSUME NEW lead
  PROVE  \E order \in [1 .. Nets -> Net] :
           \A i, j \in 1 .. Nets : i < j => Precedes(lead, order[i], order[j])
<1> DEFINE Begins(f, k) ==
             /\ f \in [1 .. k -> Net]
             /\ \A i, j \in 1 .. k : i < j => Precedes(lead, f[i], f[j])
             /\ \A i \in 1 .. k : \A n \in Net \ {f[j] : j \in 1 .. k} : Precedes(lead, f[i], n)
           S == {k \in 0 .. Nets : \E f : Begins(f, k)}
<1>1. 0 \in S
  <2> DEFINE f == [i \in 1 .. 0 |-> CHOOSE n \in Net : TRUE]
  <2>1. f \in [1 .. 0 -> Net]
    OBVIOUS
  <2>2. Begins(f, 0)
    BY <2>1
  <2> HIDE DEF f, Begins
  <2> QED BY <2>2, NetsType
<1>2. \A k \in 0 .. Nets - 1 : k \in S => k + 1 \in S
  <2> SUFFICES ASSUME NEW k \in 0 .. Nets - 1, k \in S PROVE k + 1 \in S
    OBVIOUS
  <2>1. PICK f : Begins(f, k)
    OBVIOUS
  <2> DEFINE rest == Net \ {f[j] : j \in 1 .. k}
  <2>2. k \in Nat /\ k < Nets /\ k + 1 \in 0 .. Nets
    BY NetsType
  <2>3. rest # {}
    <3> SUFFICES ASSUME Net = {f[j] : j \in 1 .. k} PROVE FALSE
      BY <2>1
    <3>1. f \in Surjection(1 .. k, Net)
      BY <2>1 DEF Surjection
    <3>2. Nets <= k
      BY <2>2, <3>1, FS_SurjCardinalityBound DEF ExistsSurjection, Nets
    <3> QED BY <2>2, <3>2, NetsType
  <2>4. PICK n \in rest : \A m \in rest \ {n} : Precedes(lead, n, m)
    <3>1. rest \in SUBSET Net
      OBVIOUS
    <3> QED BY <2>3, <3>1, FirstOfSome
  <2> DEFINE g == [i \in 1 .. k + 1 |-> IF i <= k THEN f[i] ELSE n]
  <2>5. g \in [1 .. k + 1 -> Net] /\ g[k+1] = n /\ \A i \in 1 .. k : g[i] = f[i]
    BY <2>1, <2>2
  <2>6. {g[j] : j \in 1 .. k + 1} = {f[j] : j \in 1 .. k} \cup {n}
    <3>1. \A j \in 1 .. k + 1 : j \in 1 .. k \/ j = k + 1
      BY <2>2
    <3>2. \A j \in 1 .. k : j \in 1 .. k + 1
      BY <2>2
    <3>3. k + 1 \in 1 .. k + 1
      BY <2>2
    <3> HIDE DEF g
    <3> QED BY <2>5, <3>1, <3>2, <3>3
  <2> HIDE DEF g
  <2>7. ASSUME NEW i \in 1 .. k + 1, NEW j \in 1 .. k + 1, i < j
        PROVE  Precedes(lead, g[i], g[j])
    <3>1. i \in 1 .. k
      BY <2>2, <2>7
    <3>2. CASE j \in 1 .. k
      BY <2>1, <2>5, <2>7, <3>1, <3>2
    <3>3. CASE j = k + 1
      BY <2>1, <2>4, <2>5, <3>1, <3>3
    <3> QED BY <2>2, <3>2, <3>3
  <2>8. ASSUME NEW i \in 1 .. k + 1, NEW m \in Net \ {g[j] : j \in 1 .. k + 1}
        PROVE  Precedes(lead, g[i], m)
    <3>1. m \in rest \ {n}
      BY <2>6
    <3>2. CASE i \in 1 .. k
      BY <2>1, <2>5, <3>1, <3>2
    <3>3. CASE i = k + 1
      BY <2>4, <2>5, <3>1, <3>3
    <3> QED BY <2>2, <3>2, <3>3
  <2>9. Begins(g, k + 1)
    BY <2>5, <2>7, <2>8
  <2> QED BY <2>2, <2>9
<1> HIDE DEF S
<1>3. \A k \in 0 .. Nets : k \in S
  BY <1>1, <1>2, CountsUpTo, NetsType
<1>4. Nets \in S
  BY <1>3, NetsType
<1> QED BY <1>4 DEF S

(* The order of a pass visits every net once, the leading nets first.      *)
LEMMA OrderIs ==
  ASSUME NEW lead
  PROVE  /\ FailedFirst(lead) \in [1 .. Nets -> Net]
         /\ \A i, j \in 1 .. Nets : i < j => Precedes(lead, FailedFirst(lead)[i], FailedFirst(lead)[j])
         /\ \A i, j \in 1 .. Nets : FailedFirst(lead)[i] = FailedFirst(lead)[j] => i = j
         /\ \A n \in Net : \E i \in 1 .. Nets : FailedFirst(lead)[i] = n
<1> DEFINE Fits(o) == \A i, j \in DOMAIN o : i < j => Precedes(lead, o[i], o[j])
           order == FailedFirst(lead)
<1>1. \A n \in Net : ~Precedes(lead, n, n)
  BY RankAssumption DEF Precedes
<1>2. ASSUME NEW o \in [1 .. Nets -> Net], \A i, j \in 1 .. Nets : i < j => Precedes(lead, o[i], o[j])
      PROVE  \A i, j \in 1 .. Nets : o[i] = o[j] => i = j
  <2> SUFFICES ASSUME NEW i \in 1 .. Nets, NEW j \in 1 .. Nets, o[i] = o[j], i # j PROVE FALSE
    OBVIOUS
  <2>1. i < j \/ j < i
    BY NetsType
  <2> QED BY <1>1, <1>2, <2>1
<1>3. \E o \in Orders : Fits(o)
  <2>1. PICK o \in [1 .. Nets -> Net] : \A i, j \in 1 .. Nets : i < j => Precedes(lead, o[i], o[j])
    BY SomeOrder
  <2>2. o \in Orders
    BY <1>2, <2>1 DEF Orders, IsInjective, Nets
  <2> QED BY <2>1, <2>2
<1>4. order = CHOOSE o \in Orders : Fits(o)
  BY DEF FailedFirst, Precedes
<1> HIDE DEF order, Fits
<1>5. order \in Orders /\ Fits(order)
  BY <1>3, <1>4
<1>6. /\ order \in [1 .. Nets -> Net]
      /\ \A i, j \in 1 .. Nets : i < j => Precedes(lead, order[i], order[j])
  BY <1>5 DEF Orders, Fits, Nets
<1>7. \A i, j \in 1 .. Nets : order[i] = order[j] => i = j
  BY <1>2, <1>6
<1>8. order \in Surjection(1 .. Nets, Net)
  <2>1. order \in Injection(1 .. Nets, Net)
    BY <1>6, <1>7 DEF Injection, IsInjective
  <2>2. Cardinality(1 .. Nets) = Nets
    BY NetsType, FS_Interval
  <2> QED BY <2>1, <2>2, NetAssumption, FS_Injection DEF Nets
<1> QED BY <1>6, <1>7, <1>8 DEF order, Surjection

Blank == [n \in Net |-> {}]

Trunks == [Net -> SUBSET Cell]

Turns(f, order) ==
  [k \in 1 .. Nets |->
     [t \in Trunks |-> [t EXCEPT ![order[k]] = f[order[k]][UNION Range(t)]]]]

(* The trunks after each turn of a pass.                                   *)
PassOf(f, lead) ==
  CHOOSE g : Takes(g, Trunks, Blank, Turns(f, FailedFirst(lead)), Nets)

FailsOf(f, lead) == {n \in Net : PassOf(f, lead)[Nets][n] = {}}

LEMMA TurnsType ==
  ASSUME NEW f \in Lays, NEW order \in [1 .. Nets -> Net]
  PROVE  /\ Blank \in Trunks
         /\ Turns(f, order) \in [1 .. Nets -> [Trunks -> Trunks]]
<1>1. \A t \in Trunks, n \in Net : f[n][UNION Range(t)] \in SUBSET Cell
  <2> TAKE t \in Trunks, n \in Net
  <2>1. UNION Range(t) \in SUBSET Cell
    BY DEF Trunks, Range
  <2>2. f \in [Net -> [SUBSET Cell -> SUBSET Cell]]
    BY LayAssumption
  <2> QED BY <2>1, <2>2
<1>2. \A t \in Trunks, n \in Net : [t EXCEPT ![n] = f[n][UNION Range(t)]] \in Trunks
  BY <1>1 DEF Trunks
<1>3. \A k \in 1 .. Nets : order[k] \in Net
  OBVIOUS
<1> QED BY <1>2, <1>3 DEF Turns, Blank, Trunks

LEMMA PassIs ==
  ASSUME NEW f \in Lays, NEW lead
  PROVE  Takes(PassOf(f, lead), Trunks, Blank, Turns(f, FailedFirst(lead)), Nets)
<1>1. FailedFirst(lead) \in [1 .. Nets -> Net]
  BY OrderIs
<1>2. \E g : Takes(g, Trunks, Blank, Turns(f, FailedFirst(lead)), Nets)
  BY <1>1, TurnsType, NetsType, StepsTaken
<1> QED BY <1>2 DEF PassOf

(* A pass computed apart from the loop.                                    *)
LEMMA LaidIs ==
  ASSUME lay \in Lays, NEW lead
  PROVE  LaidInOrder(FailedFirst(lead)) = PassOf(lay, lead)[Nets]
<1> DEFINE order == FailedFirst(lead)
           F == Turns(lay, order)
           After(k, t) == [t EXCEPT ![order[k]] = lay[order[k]][UNION Range(t)]]
           Body(c) == [k \in 0 .. Nets |-> IF k = 0 THEN Blank ELSE After(k, c[k-1])]
           cells == CHOOSE c : c = Body(c)
           g == PassOf(lay, lead)
<1>1. LaidInOrder(order) = cells[Nets]
  BY DEF LaidInOrder, Nets, Blank
<1>2. F \in [1 .. Nets -> [Trunks -> Trunks]] /\ Blank \in Trunks
  BY OrderIs, TurnsType
<1>3. \A k \in 1 .. Nets : \A t \in Trunks : F[k][t] = After(k, t)
  BY DEF Turns
<1>4. \A c : Body(c) = [k \in 0 .. Nets |-> IF k = 0 THEN Blank ELSE After(k, c[k-1])]
  OBVIOUS
<1>5. Takes(g, Trunks, Blank, F, Nets)
  BY PassIs
<1> HIDE DEF order, F, After, Body, g
<1>6. g = Body(g)
  <2>1. ASSUME NEW k \in 0 .. Nets PROVE g[k] = IF k = 0 THEN Blank ELSE After(k, g[k-1])
    <3>1. CASE k = 0
      BY <1>5, <3>1 DEF Takes
    <3>2. CASE k # 0
      <4>1. k \in 1 .. Nets /\ k - 1 \in 0 .. Nets
        BY <3>2, NetsType
      <4>2. g[k] = F[k][g[k-1]] /\ g[k-1] \in Trunks
        BY <1>5, <4>1 DEF Takes
      <4> QED BY <1>3, <3>2, <4>1, <4>2
    <3> QED BY <3>1, <3>2
  <2>2. g = [k \in 0 .. Nets |-> g[k]]
    BY <1>5 DEF Takes
  <2>3. g = [k \in 0 .. Nets |-> IF k = 0 THEN Blank ELSE After(k, g[k-1])]
    BY <2>1, <2>2
  <2> QED BY <1>4, <2>3
<1>7. cells = Body(cells)
  BY <1>6
<1> HIDE DEF cells
<1>8. cells = [k \in 0 .. Nets |-> IF k = 0 THEN Blank ELSE After(k, cells[k-1])]
  BY <1>4, <1>7
<1>9. cells[0] = Blank
  BY <1>8, NetsType
<1>10. ASSUME NEW k \in 1 .. Nets, cells[k-1] \in Trunks PROVE cells[k] = F[k][cells[k-1]]
  <2>1. k \in 0 .. Nets /\ k # 0
    BY NetsType
  <2>2. cells[k] = After(k, cells[k-1])
    BY <1>8, <2>1
  <2> QED BY <1>3, <1>10, <2>2
<1>11. \A k \in 0 .. Nets : cells[k] = g[k] /\ cells[k] \in Trunks
  BY <1>2, <1>5, <1>9, <1>10, NetsType, StepsDetermine
<1>12. cells[Nets] = g[Nets]
  BY <1>11, NetsType
<1> QED BY <1>1, <1>12 DEF g, order

LEMMA FailsAfterIs ==
  ASSUME lay \in Lays, NEW lead
  PROVE  FailsAfter(lead) = FailsOf(lay, lead)
BY LaidIs DEF FailsAfter, FailsOf

(* A set of failed sets that lacks none of its followers has every failed  *)
(* set that comes after one of its own.                                    *)
LEMMA OrbitWithin ==
  ASSUME lay \in Lays, NEW ring \in SUBSET SUBSET Net, NEW start \in ring,
         \A f \in ring : FailsOf(lay, f) \in ring
  PROVE  Orbit(start) \subseteq ring
<1> DEFINE M == Cardinality(SUBSET Net)
           T == SUBSET ring
           On(so) == so \cup {FailsAfter(f) : f \in so \ {{}}}
           F == [k \in 1 .. M |-> [so \in T |-> On(so)]]
           Body(r) == [k \in 0 .. M |-> IF k = 0 THEN {start} ELSE On(r[k-1])]
           orbit == CHOOSE r : r = Body(r)
<1>1. M \in Nat
  BY NetAssumption, FS_SUBSET, FS_CardinalityType
<1>2. Orbit(start) = orbit[M]
  BY DEF Orbit
<1>3. {start} \in T
  OBVIOUS
<1>4. \A so \in T : On(so) \in T
  BY FailsAfterIs
<1>5. F \in [1 .. M -> [T -> T]] /\ \A k \in 1 .. M : \A so \in T : F[k][so] = On(so)
  BY <1>4
<1>6. \A r : Body(r) = [k \in 0 .. M |-> IF k = 0 THEN {start} ELSE On(r[k-1])]
  OBVIOUS
<1> HIDE DEF M, F, On, Body, T
<1>7. PICK g : Takes(g, T, {start}, F, M)
  BY <1>1, <1>3, <1>5, StepsTaken
<1>8. g = Body(g)
  <2>1. ASSUME NEW k \in 0 .. M PROVE g[k] = IF k = 0 THEN {start} ELSE On(g[k-1])
    <3>1. CASE k = 0
      BY <1>7, <3>1 DEF Takes
    <3>2. CASE k # 0
      <4>1. k \in 1 .. M /\ k - 1 \in 0 .. M
        BY <1>1, <3>2
      <4>2. g[k] = F[k][g[k-1]] /\ g[k-1] \in T
        BY <1>7, <4>1 DEF Takes
      <4> QED BY <1>5, <3>2, <4>1, <4>2
    <3> QED BY <3>1, <3>2
  <2>2. g = [k \in 0 .. M |-> g[k]]
    BY <1>7 DEF Takes
  <2>3. g = [k \in 0 .. M |-> IF k = 0 THEN {start} ELSE On(g[k-1])]
    BY <2>1, <2>2
  <2> QED BY <1>6, <2>3
<1>9. orbit = Body(orbit)
  BY <1>8
<1> HIDE DEF orbit
<1>10. orbit = [k \in 0 .. M |-> IF k = 0 THEN {start} ELSE On(orbit[k-1])]
  BY <1>6, <1>9
<1>11. orbit[0] = {start}
  BY <1>1, <1>10
<1>12. ASSUME NEW k \in 1 .. M, orbit[k-1] \in T PROVE orbit[k] = F[k][orbit[k-1]]
  <2>1. k \in 0 .. M /\ k # 0
    BY <1>1
  <2>2. orbit[k] = On(orbit[k-1])
    BY <1>10, <2>1
  <2> QED BY <1>5, <1>12, <2>2
<1>13. \A k \in 0 .. M : orbit[k] = g[k] /\ orbit[k] \in T
  BY <1>1, <1>3, <1>5, <1>7, <1>11, <1>12, StepsDetermine
<1>14. orbit[M] \in T
  BY <1>1, <1>13
<1> QED BY <1>2, <1>14 DEF T

-----------------------------------------------------------------------------
(* Stopping on a repeat.                                                   *)

(* The turns so far, in the order of the pass, made the trunks there are.  *)
AsComputed ==
  phase = "pass" =>
    \E k \in 0 .. Nets :
      /\ pending = Net \ {FailedFirst(first)[i] : i \in 1 .. k}
      /\ trunk = PassOf(lay, first)[k]

(* The failed sets seen follow one another, up to the one that leads now.  *)
Chained ==
  /\ phase # "spent" =>
       /\ {} \notin seen
       /\ first \in seen \/ seen = {}
       /\ \A s \in seen : s = first \/ FailsOf(lay, s) \in seen
  /\ phase = "cycling" =>
       /\ failed \in seen
       /\ \A s \in seen : FailsOf(lay, s) \in seen

RInv == IInv /\ AsComputed /\ Chained

(* Whoever has its turn is the next in the order of the pass.              *)
LEMMA TurnIsNext ==
  ASSUME IInv, NEW k \in 0 .. Nets, NEW n \in Net, Turn(n),
         pending = Net \ {FailedFirst(first)[i] : i \in 1 .. k}
  PROVE  k + 1 \in 1 .. Nets /\ n = FailedFirst(first)[k+1]
<1> DEFINE order == FailedFirst(first)
<1>1. n \in pending /\ \A m \in pending : Before(n, m)
  BY DEF Turn
<1>2. PICK j \in 1 .. Nets : order[j] = n
  BY OrderIs
<1>3. j \notin 1 .. k
  BY <1>1, <1>2
<1>4. k + 1 \in 1 .. Nets /\ k + 1 <= j
  BY <1>3, NetsType
<1>5. order[k+1] \in pending
  <2>1. order[k+1] \in Net
    BY <1>4, OrderIs
  <2>2. \A i \in 1 .. k : i \in 1 .. Nets /\ i # k + 1
    BY NetsType
  <2>3. \A i \in 1 .. k : order[i] # order[k+1]
    BY <1>4, <2>2, OrderIs
  <2> QED BY <2>1, <2>3
<1>6. Before(n, order[k+1]) /\ order[k+1] \in Net
  BY <1>1, <1>4, <1>5, OrderIs
<1>7. CASE k + 1 < j
  <2>1. Precedes(first, order[k+1], n)
    BY <1>2, <1>4, <1>7, OrderIs
  <2> QED BY <1>6, <2>1, RankAssumption DEF Before, Precedes
<1>8. CASE k + 1 = j
  BY <1>2, <1>4, <1>8
<1> QED BY <1>4, <1>7, <1>8, NetsType

(* A turn does what the next step of the computed pass does.               *)
LEMMA TurnComputes ==
  ASSUME IInv, AsComputed, NEW n \in Net, LayTrunk(n) \/ FailNet(n)
  PROVE  AsComputed'
<1> DEFINE order == FailedFirst(first)
           F == Turns(lay, order)
           g == PassOf(lay, first)
<1>1. /\ phase = "pass" /\ Turn(n) /\ lay' = lay /\ first' = first
      /\ pending' = pending \ {n}
  BY DEF LayTrunk, FailNet
<1>2. PICK k \in 0 .. Nets :
        pending = Net \ {order[i] : i \in 1 .. k} /\ trunk = g[k]
  BY <1>1 DEF AsComputed
<1>3. k + 1 \in 1 .. Nets /\ n = order[k+1]
  BY <1>1, <1>2, TurnIsNext
<1>4. trunk \in Trunks /\ lay \in Lays
  BY DEF IInv, TypeOK, Trunks
<1>5. g[k+1] = [trunk EXCEPT ![n] = TrunkNow(n)]
  <2>1. Takes(g, Trunks, Blank, F, Nets)
    BY <1>4, PassIs
  <2>2. (k + 1) - 1 = k
    BY NetsType
  <2>3. g[k+1] = F[k+1][trunk]
    BY <1>2, <1>3, <2>1, <2>2 DEF Takes
  <2>4. F[k+1][trunk] = [trunk EXCEPT ![n] = lay[n][UNION Range(trunk)]]
    BY <1>3, <1>4 DEF Turns
  <2>5. UNION Range(trunk) = Taken
    BY <1>4 DEF Trunks, Range, Taken
  <2> QED BY <2>3, <2>4, <2>5 DEF TrunkNow
<1>6. trunk' = g[k+1]
  <2>1. CASE LayTrunk(n)
    BY <1>5, <2>1 DEF LayTrunk
  <2>2. CASE FailNet(n)
    <3>1. trunk' = trunk /\ TrunkNow(n) = {} /\ trunk[n] = {}
      BY <2>2 DEF IInv, Fates, FailNet, Turn
    <3>2. [trunk EXCEPT ![n] = {}] = trunk
      BY <1>4, <3>1 DEF Trunks
    <3> QED BY <1>5, <3>1, <3>2
  <2> QED BY <2>1, <2>2
<1>7. pending' = Net \ {order[i] : i \in 1 .. k + 1}
  <2>1. {order[i] : i \in 1 .. k + 1} = {order[i] : i \in 1 .. k} \cup {n}
    <3>1. \A i \in 1 .. k + 1 : i \in 1 .. k \/ i = k + 1
      BY NetsType
    <3>2. k + 1 \in 1 .. k + 1 /\ \A i \in 1 .. k : i \in 1 .. k + 1
      BY NetsType
    <3> HIDE DEF order
    <3> QED BY <1>3, <3>1, <3>2
  <2> QED BY <1>1, <1>2, <2>1
<1>8. k + 1 \in 0 .. Nets
  BY <1>3
<1> QED BY <1>1, <1>6, <1>7, <1>8 DEF AsComputed

(* A pass that is over failed on what the computed pass fails on.          *)
LEMMA PassOutcome ==
  ASSUME IInv, AsComputed, PassOver
  PROVE  failed = FailsOf(lay, first)
<1> DEFINE order == FailedFirst(first)
<1>1. phase = "pass" /\ pending = {}
  BY DEF PassOver
<1>2. PICK k \in 0 .. Nets :
        pending = Net \ {order[i] : i \in 1 .. k} /\ trunk = PassOf(lay, first)[k]
  BY <1>1 DEF AsComputed
<1>3. k = Nets
  <2> SUFFICES ASSUME k # Nets PROVE FALSE
    OBVIOUS
  <2>1. k + 1 \in 1 .. Nets /\ \A i \in 1 .. k : i \in 1 .. Nets /\ i # k + 1
    BY NetsType
  <2>2. order[k+1] \in Net /\ \A i \in 1 .. k : order[i] # order[k+1]
    BY <2>1, OrderIs
  <2> QED BY <1>1, <1>2, <2>2
<1>4. \A n \in Net : n \in failed <=> trunk[n] = {}
  BY <1>1 DEF IInv, Fates
<1>5. failed \subseteq Net
  BY DEF IInv, TypeOK
<1> QED BY <1>2, <1>3, <1>4, <1>5 DEF FailsOf

LEMMA InitRInv == Init => RInv
<1> SUFFICES ASSUME Init PROVE AsComputed /\ Chained
  BY InitIInv DEF RInv
<1>1. AsComputed
  <2>1. PassOf(lay, first)[0] = Blank
    BY PassIs DEF Init, Takes
  <2>2. 0 \in 0 .. Nets /\ pending = Net \ {FailedFirst(first)[i] : i \in 1 .. 0}
    BY NetsType DEF Init
  <2> QED BY <2>1, <2>2 DEF AsComputed, Init, Blank
<1>2. Chained
  BY DEF Chained, Init
<1> QED BY <1>1, <1>2

LEMMA NextRInv == RInv /\ [Next]_vars => RInv'
<1> SUFFICES ASSUME RInv, [Next]_vars PROVE AsComputed' /\ Chained'
  BY NextIInv DEF RInv
<1>1. IInv /\ AsComputed /\ Chained
  BY DEF RInv
<1>2. ASSUME NEW n \in Net, LayTrunk(n) \/ FailNet(n) PROVE AsComputed' /\ Chained'
  <2>1. /\ phase = "pass" /\ phase' = phase /\ lay' = lay
        /\ first' = first /\ seen' = seen
    BY <1>2 DEF LayTrunk, FailNet
  <2>2. Chained'
    BY <1>1, <2>1 DEF Chained
  <2> QED BY <1>1, <1>2, <2>2, TurnComputes
<1>3. CASE Clean \/ Spent
  <2>1. phase' \in {"clean", "spent"} /\ phase = "pass"
    BY <1>3 DEF Clean, Spent, PassOver
  <2>2. Chained'
    BY <1>1, <1>3, <2>1 DEF Chained, Clean, Spent
  <2> QED BY <2>1, <2>2 DEF AsComputed
<1>4. CASE Cycling
  <2>1. /\ failed = FailsOf(lay, first) /\ failed \in seen
        /\ phase = "pass" /\ phase' = "cycling"
        /\ lay' = lay /\ first' = first /\ seen' = seen /\ failed' = failed
    BY <1>1, <1>4, PassOutcome DEF Cycling, PassOver
  <2>2. \A s \in seen : FailsOf(lay, s) \in seen
    BY <1>1, <2>1 DEF Chained
  <2> QED BY <1>1, <2>1, <2>2 DEF AsComputed, Chained
<1>5. CASE RipUp
  <2>1. /\ failed = FailsOf(lay, first) /\ failed # {}
        /\ phase = "pass" /\ phase' = "pass" /\ lay' = lay
        /\ seen' = seen \cup {failed} /\ first' = failed
        /\ pending' = Net /\ trunk' = Blank
    BY <1>1, <1>5, PassOutcome DEF RipUp, PassOver, StartPass, Leaders, Remember, Blank
  <2>2. Chained'
    BY <1>1, <2>1 DEF Chained
  <2>3. AsComputed'
    <3>1. PassOf(lay, failed)[0] = Blank
      BY <1>1, PassIs DEF IInv, TypeOK, Takes
    <3>2. 0 \in 0 .. Nets /\ Net = Net \ {FailedFirst(failed)[i] : i \in 1 .. 0}
      BY NetsType
    <3> QED BY <2>1, <3>1, <3>2 DEF AsComputed
  <2> QED BY <2>2, <2>3
<1>6. CASE UNCHANGED vars
  BY <1>1, <1>6 DEF vars, AsComputed, Chained
<1> QED BY <1>2, <1>3, <1>4, <1>5, <1>6 DEF Next

(* The retry loop only stops on a repeat where its failed-first rule, run  *)
(* on for ever, would never come to a clean pass.                          *)
THEOREM RepeatAlwaysHopeless == Spec => []RepeatIsHopeless
<1>1. RInv => RepeatIsHopeless
  <2> SUFFICES ASSUME RInv, phase = "cycling" PROVE {} \notin Orbit(failed)
    BY DEF RepeatIsHopeless
  <2>1. lay \in Lays /\ seen \in SUBSET SUBSET Net
    BY DEF RInv, IInv, TypeOK
  <2>2. failed \in seen /\ {} \notin seen /\ \A s \in seen : FailsOf(lay, s) \in seen
    BY DEF RInv, Chained
  <2>3. Orbit(failed) \subseteq seen
    BY <2>1, <2>2, OrbitWithin
  <2> QED BY <2>2, <2>3
<1> QED BY <1>1, InitRInv, NextRInv, PTL DEF Spec

-----------------------------------------------------------------------------
(* How many passes are run.                                                *)

Following(f) == [k \in 1 .. MaxPasses |-> [lead \in SUBSET Net |-> FailsOf(f, lead)]]

(* The failed sets of the passes, each led by the one before.              *)
SetsOf(f) == CHOOSE g : Takes(g, SUBSET Net, {}, Following(f), MaxPasses)

LEMMA SetsTake ==
  ASSUME NEW f \in Lays
  PROVE  /\ Following(f) \in [1 .. MaxPasses -> [SUBSET Net -> SUBSET Net]]
         /\ Takes(SetsOf(f), SUBSET Net, {}, Following(f), MaxPasses)
<1>1. Following(f) \in [1 .. MaxPasses -> [SUBSET Net -> SUBSET Net]]
  BY DEF Following, FailsOf
<1>2. {} \in SUBSET Net /\ MaxPasses \in Nat
  BY PassAssumption
<1>3. \E g : Takes(g, SUBSET Net, {}, Following(f), MaxPasses)
  BY <1>1, <1>2, StepsTaken
<1> QED BY <1>1, <1>3 DEF SetsOf

(* Each of them is what the pass led by the one before fails on.           *)
LEMMA SetsFollow ==
  ASSUME NEW f \in Lays
  PROVE  /\ SetsOf(f)[0] = {}
         /\ \A k \in 1 .. MaxPasses : SetsOf(f)[k] = FailsOf(f, SetsOf(f)[k-1])
<1> DEFINE g == SetsOf(f)
<1>1. Takes(g, SUBSET Net, {}, Following(f), MaxPasses)
  BY SetsTake
<1>2. ASSUME NEW k \in 1 .. MaxPasses PROVE g[k] = FailsOf(f, g[k-1])
  <2>1. k - 1 \in 0 .. MaxPasses
    BY PassAssumption
  <2>2. g[k-1] \in SUBSET Net /\ g[k] = Following(f)[k][g[k-1]]
    BY <1>1, <2>1 DEF Takes
  <2> QED BY <2>2 DEF Following
<1> QED BY <1>1, <1>2 DEF Takes

(* They are the sets computed apart from the loop.                         *)
LEMMA SetsAre ==
  ASSUME lay \in Lays
  PROVE  \A k \in 0 .. MaxPasses : FailedSets[k] = SetsOf(lay)[k]
<1> DEFINE T == SUBSET Net
           none == {}
           F == Following(lay)
           g == SetsOf(lay)
           Body(h) == [k \in 0 .. MaxPasses |-> IF k = 0 THEN none ELSE FailsAfter(h[k-1])]
           sets == CHOOSE h : h = Body(h)
<1>1. FailedSets = sets
  BY DEF FailedSets
<1>2. F \in [1 .. MaxPasses -> [T -> T]] /\ Takes(g, T, none, F, MaxPasses)
  BY SetsTake
<1>3. \A h : Body(h) = [k \in 0 .. MaxPasses |-> IF k = 0 THEN none ELSE FailsAfter(h[k-1])]
  OBVIOUS
<1>4. \A lead : FailsAfter(lead) = FailsOf(lay, lead)
  BY FailsAfterIs
<1>5. g[0] = none /\ \A k \in 1 .. MaxPasses : g[k] = FailsOf(lay, g[k-1])
  BY SetsFollow
<1>6. \A k \in 1 .. MaxPasses : \A lead \in T : F[k][lead] = FailsOf(lay, lead)
  BY DEF Following
<1>7. MaxPasses \in Nat
  BY PassAssumption
<1>8. none \in T
  OBVIOUS
<1> HIDE DEF T, none, F, g, Body
<1>9. g = Body(g)
  <2>1. ASSUME NEW k \in 0 .. MaxPasses PROVE g[k] = IF k = 0 THEN none ELSE FailsAfter(g[k-1])
    <3>1. CASE k = 0
      BY <1>5, <3>1
    <3>2. CASE k # 0
      <4>1. k \in 1 .. MaxPasses
        BY <1>7, <3>2
      <4> QED BY <1>4, <1>5, <3>2, <4>1
    <3> QED BY <3>1, <3>2
  <2>2. g = [k \in 0 .. MaxPasses |-> g[k]]
    BY <1>2 DEF Takes
  <2>3. g = [k \in 0 .. MaxPasses |-> IF k = 0 THEN none ELSE FailsAfter(g[k-1])]
    BY <2>1, <2>2
  <2> QED BY <1>3, <2>3
<1>10. sets = Body(sets)
  BY <1>9
<1> HIDE DEF sets
<1>11. sets = [k \in 0 .. MaxPasses |-> IF k = 0 THEN none ELSE FailsAfter(sets[k-1])]
  BY <1>3, <1>10
<1>12. sets[0] = none
  BY <1>7, <1>11
<1>13. ASSUME NEW k \in 1 .. MaxPasses, sets[k-1] \in T
       PROVE  sets[k] = F[k][sets[k-1]]
  <2>1. k \in 0 .. MaxPasses /\ k # 0
    BY <1>7
  <2>2. sets[k] = FailsAfter(sets[k-1])
    BY <1>11, <2>1
  <2> QED BY <1>4, <1>6, <1>13, <2>2
<1>14. \A k \in 0 .. MaxPasses : sets[k] = g[k] /\ sets[k] \in T
  BY <1>2, <1>7, <1>8, <1>12, <1>13, StepsDetermine
<1> QED BY <1>1, <1>14 DEF g

(* The passes so far failed on the sets computed, which are all different  *)
(* and not empty, and the loop ended as the last of them says.             *)
Counted ==
  LET sets == SetsOf(lay) IN
  /\ first = sets[pass-1]
  /\ \A k \in 1 .. pass - 1 : sets[k] # {} /\ \A j \in 1 .. k - 1 : sets[j] # sets[k]
  /\ phase # "spent" => seen = {sets[k] : k \in 1 .. pass - 1}
  /\ Ended => /\ failed = sets[pass]
              /\ phase = "clean" <=> failed = {}
              /\ phase = "cycling" <=> \E j \in 1 .. pass - 1 : sets[j] = failed
              /\ phase = "spent" => pass = MaxPasses

CInv == RInv /\ Counted

LEMMA InitCInv == Init => CInv
<1> SUFFICES ASSUME Init PROVE Counted
  BY InitRInv DEF CInv
<1>1. first = SetsOf(lay)[pass-1] /\ 1 .. pass - 1 = {}
  BY SetsFollow DEF Init
<1> QED BY <1>1 DEF Init, Counted, Ended

LEMMA NextCInv == CInv /\ [Next]_vars => CInv'
<1> SUFFICES ASSUME CInv, [Next]_vars PROVE Counted'
  BY NextRInv DEF CInv
<1> DEFINE sets == SetsOf(lay)
<1>1. IInv /\ AsComputed /\ Counted /\ lay \in Lays /\ pass \in 1 .. MaxPasses
  BY DEF CInv, RInv, IInv, TypeOK
<1>2. ASSUME PassOver
      PROVE  /\ failed = sets[pass] /\ first = sets[pass-1]
             /\ seen = {sets[k] : k \in 1 .. pass - 1}
             /\ \A k \in 1 .. pass - 1 : sets[k] # {} /\ \A j \in 1 .. k - 1 : sets[j] # sets[k]
  <2>1. /\ first = sets[pass-1] /\ seen = {sets[k] : k \in 1 .. pass - 1}
        /\ \A k \in 1 .. pass - 1 : sets[k] # {} /\ \A j \in 1 .. k - 1 : sets[j] # sets[k]
    BY <1>1, <1>2 DEF Counted, PassOver
  <2>2. failed = FailsOf(lay, first)
    BY <1>1, <1>2, PassOutcome
  <2>3. sets[pass] = FailsOf(lay, sets[pass-1])
    BY <1>1, SetsFollow
  <2> QED BY <2>1, <2>2, <2>3
<1>3. ASSUME NEW n \in Net, LayTrunk(n) \/ FailNet(n) PROVE Counted'
  <2>1. /\ phase = "pass" /\ phase' = phase /\ lay' = lay
        /\ first' = first /\ seen' = seen /\ pass' = pass
    BY <1>3 DEF LayTrunk, FailNet
  <2> QED BY <1>1, <2>1 DEF Counted, Ended
<1>4. CASE Clean \/ Cycling \/ Spent
  <2>1. /\ PassOver /\ lay' = lay /\ first' = first /\ pass' = pass /\ failed' = failed
        /\ \/ phase' = "clean" /\ failed = {} /\ seen' = seen
           \/ phase' = "cycling" /\ failed # {} /\ failed \in seen /\ seen' = seen
           \/ phase' = "spent" /\ failed # {} /\ failed \notin seen /\ pass = MaxPasses
    BY <1>4 DEF Clean, Cycling, Spent, LastPass
  <2>2. failed \in seen <=> \E j \in 1 .. pass - 1 : sets[j] = failed
    BY <1>2, <2>1
  <2>3. failed = {} => failed \notin seen
    BY <1>2, <2>1
  <2> HIDE DEF sets
  <2> QED BY <1>2, <2>1, <2>2, <2>3 DEF Counted, Ended, sets
<1>5. CASE RipUp
  <2>1. /\ PassOver /\ failed # {} /\ failed \notin seen
        /\ lay' = lay /\ first' = failed /\ pass' = pass + 1
        /\ seen' = seen \cup {failed} /\ phase' = "pass"
    BY <1>5 DEF RipUp, PassOver, Leaders, Remember
  <2>2. /\ pass' - 1 = pass
        /\ \A k \in 1 .. pass : k \in 1 .. pass - 1 \/ k = pass
        /\ \A k \in 1 .. pass - 1 : k \in 1 .. pass
        /\ pass \in 1 .. pass
    BY <1>1, <2>1, PassAssumption
  <2>3. \A k \in 1 .. pass : sets[k] # {} /\ \A j \in 1 .. k - 1 : sets[j] # sets[k]
    <3> HIDE DEF sets
    <3> QED BY <1>2, <2>1, <2>2
  <2>4. seen' = {sets[k] : k \in 1 .. pass}
    <3> HIDE DEF sets
    <3> QED BY <1>2, <2>1, <2>2
  <2> QED BY <1>2, <2>1, <2>2, <2>3, <2>4 DEF Counted, Ended
<1>6. CASE UNCHANGED vars
  BY <1>1, <1>6 DEF vars, Counted, Ended
<1> QED BY <1>3, <1>4, <1>5, <1>6 DEF Next

(* For any nets, any deterministic layer and any budget the loop runs as   *)
(* many passes as its rule says, and answers for the last of them.         *)
THEOREM AlwaysStopsInTime == Spec => []StopsInTime
<1>1. CInv => StopsInTime
  <2> SUFFICES ASSUME CInv, Ended PROVE StopsInTime
    BY DEF StopsInTime
  <2> DEFINE sets == SetsOf(lay)
  <2>1. Counted /\ lay \in Lays /\ pass \in 1 .. MaxPasses
    BY DEF CInv, RInv, IInv, TypeOK
  <2>2. \A k \in 1 .. pass : FailedSets[k] = sets[k]
    <3>1. \A k \in 1 .. pass : k \in 0 .. MaxPasses
      BY <2>1, PassAssumption
    <3> QED BY <2>1, <3>1, SetsAre
  <2>3. /\ pass \in 1 .. pass
        /\ \A k \in 1 .. pass - 1 : k \in 1 .. pass
        /\ \A k \in 1 .. pass : \A j \in 1 .. k - 1 : j \in 1 .. pass
    BY <2>1, PassAssumption
  <2> HIDE DEF sets
  <2>4. /\ failed = sets[pass]
        /\ \A k \in 1 .. pass - 1 : sets[k] # {} /\ \A j \in 1 .. k - 1 : sets[j] # sets[k]
        /\ phase = "clean" <=> failed = {}
        /\ phase = "cycling" <=> \E j \in 1 .. pass - 1 : sets[j] = failed
        /\ phase = "spent" => pass = MaxPasses
    BY <2>1 DEF Counted, sets
  <2> QED BY <2>2, <2>3, <2>4 DEF StopsInTime
<1> QED BY <1>1, InitCInv, NextCInv, PTL DEF Spec
=============================================================================
