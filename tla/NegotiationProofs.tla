-------------------------- MODULE NegotiationProofs --------------------------
(***************************************************************************)
(* Safety of the negotiation for every set of nets, every geometry and     *)
(* every round budget.                                                     *)
(***************************************************************************)
EXTENDS Negotiation, TLAPS, FiniteSetTheorems

(* A net either holds one of its own trees or nothing, and a net that has  *)
(* left the negotiation holds nothing.                                     *)
TreesAreTheirs ==
  /\ \A n \in Net : tree[n] = {} \/ tree[n] \in Trees[n]
  /\ \A n \in Net \ active : /\ tree[n] = {}
                             /\ failure[n] \in {"face_reachability", "routing"}

(* While rounds run nothing is kept yet, and only nets still to be visited *)
(* in this round may lack a tree.                                          *)
Routing ==
  phase = "route" =>
    /\ kept = {} /\ taken = {}
    /\ \A n \in active : failure[n] = "none" /\ (tree[n] # {} \/ n \in pending)

(* Once rounds are over every active net has a tree and exactly one fate:  *)
(* still to be salvaged, kept, or dropped as congestion.                   *)
Sorting ==
  phase # "route" =>
    \A n \in active :
      /\ tree[n] # {}
      /\ failure[n] \in {"none", "congestion"}
      /\ failure[n] = "none" <=> n \in pending \cup kept

(* The salvage has kept exactly what "taken" records, best rank first.     *)
SalvageOrder ==
  phase = "salvage" =>
    /\ taken = UNION {tree[m] : m \in kept}
    /\ \A m \in kept, n \in pending : m # n /\ Before(m, n)

IInv ==
  /\ TypeOK
  /\ LedgerExact
  /\ TreesAreTheirs
  /\ Routing
  /\ Sorting
  /\ SalvageOrder
  /\ pending \subseteq active /\ kept \subseteq active
  /\ phase = "done" => pending = {}
  /\ CollisionFree
  /\ CongestionHasCause

-----------------------------------------------------------------------------
(* Swapping one net's tree and recounting keeps the ledger exact.          *)
LEMMA RecountExact ==
  ASSUME TypeOK, LedgerExact,
         NEW n \in Net, NEW new \in SUBSET Resource,
         tree' = [tree EXCEPT ![n] = new],
         usage' = Recounted(n, new)
  PROVE  usage' \in [Resource -> Nat] /\ LedgerExact'
<1> DEFINE Others(r) == Holders(r) \ {n}
<1>1. ASSUME NEW r \in Resource
      PROVE  /\ IsFiniteSet(Others(r)) /\ n \notin Others(r)
             /\ usage[r] = Cardinality(Others(r)) + (IF r \in tree[n] THEN 1 ELSE 0)
             /\ Cardinality(Others(r)) \in Nat
  <2>1. IsFiniteSet(Holders(r))
    BY NetAssumption, FS_Subset DEF Holders
  <2>2. /\ IsFiniteSet(Others(r))
        /\ Cardinality(Others(r)) =
             IF n \in Holders(r) THEN Cardinality(Holders(r)) - 1 ELSE Cardinality(Holders(r))
    BY <2>1, FS_RemoveElement
  <2>3. usage[r] = Cardinality(Holders(r)) /\ usage[r] \in Nat
    BY DEF LedgerExact, TypeOK
  <2>4. n \in Holders(r) <=> r \in tree[n]
    BY DEF Holders
  <2>5. Cardinality(Others(r)) \in Nat
    BY <2>2, FS_CardinalityType
  <2> HIDE DEF Others
  <2>6. usage[r] = Cardinality(Others(r)) + (IF r \in tree[n] THEN 1 ELSE 0)
    BY <2>2, <2>3, <2>4, <2>5
  <2> QED BY <2>2, <2>5, <2>6 DEF Others
<1>2. ASSUME NEW r \in Resource
      PROVE  Holders(r)' = IF r \in new THEN Others(r) \cup {n} ELSE Others(r)
  <2>1. \A m \in Net : tree'[m] = IF m = n THEN new ELSE tree[m]
    BY DEF TypeOK
  <2> QED BY <2>1 DEF Holders
<1>3. ASSUME NEW r \in Resource
      PROVE  usage'[r] = Cardinality(Holders(r)') /\ usage'[r] \in Nat
  <2>1. usage'[r] = usage[r] - (IF r \in tree[n] THEN 1 ELSE 0) + (IF r \in new THEN 1 ELSE 0)
    BY DEF Recounted
  <2>2. Cardinality(Others(r) \cup {n}) = Cardinality(Others(r)) + 1
    BY <1>1, FS_AddElement
  <2> HIDE DEF Others
  <2>3. usage'[r] = Cardinality(Others(r)) + (IF r \in new THEN 1 ELSE 0)
    BY <2>1, <1>1
  <2>4. CASE r \in new
    BY <2>2, <2>3, <2>4, <1>1, <1>2
  <2>5. CASE r \notin new
    BY <2>3, <2>5, <1>1, <1>2
  <2> QED BY <2>4, <2>5
<1>4. usage' \in [Resource -> Nat]
  <2>1. usage' = [r \in Resource |-> usage'[r]]
    BY DEF Recounted
  <2> QED BY <2>1, <1>3
<1> QED BY <1>3, <1>4 DEF LedgerExact

(* With no resource over-used, two nets' trees cannot meet.                *)
LEMMA NothingSharedIsDisjoint ==
  ASSUME TypeOK, LedgerExact, OverUsed = {},
         NEW m \in Net, NEW n \in Net, m # n
  PROVE  tree[m] \cap tree[n] = {}
<1> SUFFICES ASSUME NEW r \in tree[m] \cap tree[n] PROVE FALSE
  OBVIOUS
<1>1. r \in Resource
  BY DEF TypeOK
<1>2. usage[r] = Cardinality(Holders(r)) /\ ~(usage[r] > 1) /\ usage[r] \in Nat
  BY <1>1 DEF LedgerExact, OverUsed, TypeOK
<1>3. IsFiniteSet(Holders(r)) /\ {m} \cup {n} \subseteq Holders(r)
  BY NetAssumption, FS_Subset DEF Holders
<1>4. /\ IsFiniteSet({m}) /\ Cardinality({m}) = 1
  BY FS_Singleton
<1>5. Cardinality({m} \cup {n}) = 2
  BY <1>4, FS_AddElement
<1>6. Cardinality({m} \cup {n}) <= Cardinality(Holders(r))
  BY <1>3, FS_Subset
<1> QED BY <1>2, <1>5, <1>6

-----------------------------------------------------------------------------
(* The negotiation starts with an exact, empty ledger and nothing kept.    *)
LEMMA InitIInv == Init => IInv
<1> SUFFICES ASSUME Init PROVE IInv
  OBVIOUS
<1>1. TypeOK
  BY NetAssumption, RoundAssumption DEF Init, TypeOK, Reason
<1>2. LedgerExact
  <2>1. \A r \in Resource : Holders(r) = {}
    BY DEF Init, Holders
  <2> QED BY <2>1, FS_EmptySet DEF Init, LedgerExact
<1> QED BY <1>1, <1>2, NetAssumption
        DEF Init, IInv, TreesAreTheirs, Routing, Sorting, SalvageOrder, CollisionFree,
            CongestionHasCause

(* A visit that gives net n the tree new keeps the invariant.              *)
LEMMA RerouteIInv ==
  ASSUME IInv, NEW n \in Net, NEW t \in Trees[n], Reroute(n, t)
  PROVE  IInv'
<1>1. t \in SUBSET Resource /\ t # {}
  BY TreeAssumption
<1>2. usage' \in [Resource -> Nat] /\ LedgerExact'
  BY <1>1, RecountExact DEF IInv, Reroute
<1>3. n \in active
  BY DEF IInv, Reroute, Turn
<1>4. TypeOK'
  BY <1>1, <1>2 DEF IInv, TypeOK, Reroute
<1>5. \A m \in Net : tree'[m] = IF m = n THEN t ELSE tree[m]
  BY DEF IInv, TypeOK, Reroute
<1>6. TreesAreTheirs'
  BY <1>3, <1>5 DEF IInv, TreesAreTheirs, Reroute
<1>7. Routing' /\ Sorting' /\ SalvageOrder'
  BY <1>1, <1>5 DEF IInv, TypeOK, Routing, Sorting, SalvageOrder, Reroute
<1>8. CollisionFree' /\ CongestionHasCause'
  BY <1>5 DEF IInv, TypeOK, Routing, CollisionFree, CongestionHasCause, Reroute, TreesAreTheirs
<1> QED BY <1>2, <1>4, <1>6, <1>7, <1>8 DEF IInv, Reroute

(* A net that finds no tree leaves the ledger, the round and the race.     *)
LEMMA NoPathIInv ==
  ASSUME IInv, NEW n \in Net, NoPath(n)
  PROVE  IInv'
<1>1. {} \in SUBSET Resource
  OBVIOUS
<1>2. usage' \in [Resource -> Nat] /\ LedgerExact'
  BY <1>1, RecountExact DEF IInv, NoPath
<1>3. n \in active
  BY DEF IInv, NoPath, Turn
<1>4. TypeOK'
  BY <1>2 DEF IInv, TypeOK, NoPath, Reason
<1>5. \A m \in Net : /\ tree'[m] = IF m = n THEN {} ELSE tree[m]
                     /\ failure'[m] = IF m = n THEN "routing" ELSE failure[m]
  BY DEF IInv, TypeOK, NoPath
<1>6. TreesAreTheirs'
  BY <1>3, <1>5 DEF IInv, TreesAreTheirs, NoPath
<1>7. Routing' /\ Sorting' /\ SalvageOrder'
  BY <1>5 DEF IInv, TypeOK, Routing, Sorting, SalvageOrder, NoPath
<1>8. CollisionFree' /\ CongestionHasCause'
  BY <1>5 DEF IInv, TypeOK, Routing, CollisionFree, CongestionHasCause, NoPath, TreesAreTheirs
<1> QED BY <1>2, <1>4, <1>6, <1>7, <1>8 DEF IInv, NoPath, Routing

(* When nothing is over-used every active net's tree can be kept.          *)
LEMMA ConvergeIInv ==
  ASSUME IInv, Converge
  PROVE  IInv'
<1>1. TypeOK'
  BY DEF IInv, TypeOK, Converge
<1>2. LedgerExact'
  BY DEF IInv, LedgerExact, Holders, Converge
<1>3. \A n \in active : tree[n] # {} /\ failure[n] = "none"
  BY DEF IInv, Routing, Converge, RoundOver
<1>4. CollisionFree'
  <2>1. active \subseteq Net
    BY DEF IInv, TypeOK
  <2>2. \A m, n \in active : m # n => tree[m] \cap tree[n] = {}
    BY <2>1, NothingSharedIsDisjoint DEF IInv, Converge
  <2> QED BY <2>2 DEF CollisionFree, Converge
<1>5. CongestionHasCause'
  BY <1>3 DEF IInv, CongestionHasCause, Converge, TreesAreTheirs
<1>6. Sorting' /\ Routing' /\ SalvageOrder'
  BY <1>3 DEF Sorting, Routing, SalvageOrder, Converge
<1> QED BY <1>1, <1>2, <1>4, <1>5, <1>6
        DEF IInv, TreesAreTheirs, Converge, RoundOver

(* Ending a round into another one or into the salvage.                    *)
LEMMA RoundEndIInv ==
  ASSUME IInv, RoundOver, CountStall, BeginSalvage \/ NextRound
  PROVE  IInv'
<1>1. TypeOK'
  BY RoundAssumption DEF IInv, TypeOK, CountStall, RecordSince, BeginSalvage, NextRound, OverUsed
<1>2. LedgerExact'
  BY DEF IInv, LedgerExact, Holders, BeginSalvage, NextRound
<1>3. \A n \in active : tree[n] # {} /\ failure[n] = "none"
  BY DEF IInv, Routing, RoundOver
<1>4. kept = {} /\ taken = {}
  BY DEF IInv, Routing, RoundOver
<1>5. Sorting' /\ Routing' /\ SalvageOrder'
  BY <1>3, <1>4 DEF Sorting, Routing, SalvageOrder, BeginSalvage, NextRound, RoundOver
<1>6. CollisionFree' /\ CongestionHasCause'
  BY DEF IInv, CollisionFree, CongestionHasCause, BeginSalvage, NextRound
<1> QED BY <1>1, <1>2, <1>5, <1>6
        DEF IInv, TreesAreTheirs, BeginSalvage, NextRound, RoundOver

(* A salvaged tree meets nothing kept before it.                           *)
LEMMA SalvageIInv ==
  ASSUME IInv, NEW n \in Net, Salvage(n)
  PROVE  IInv'
<1>1. TypeOK'
  BY DEF IInv, TypeOK, Salvage
<1>2. LedgerExact'
  BY DEF IInv, LedgerExact, Holders, Salvage
<1>3. n \in active /\ n \in pending /\ n \notin kept
  BY DEF IInv, Salvage, SalvageTurn, SalvageOrder
<1>4. Sorting' /\ Routing'
  BY <1>3 DEF IInv, Sorting, Routing, Salvage
<1>5. taken' = UNION {tree'[m] : m \in kept'}
  BY DEF IInv, SalvageOrder, Salvage
<1>6. \A m \in kept', o \in pending' : m # o /\ Before(m, o)
  BY DEF IInv, SalvageOrder, Salvage, SalvageTurn
<1>7. CollisionFree'
  <2>1. \A m \in kept : tree[m] \cap tree[n] = {}
    BY DEF IInv, SalvageOrder, Salvage
  <2> QED BY <2>1 DEF IInv, CollisionFree, Salvage
<1>8. CongestionHasCause'
  BY DEF IInv, CongestionHasCause, Salvage
<1> QED BY <1>1, <1>2, <1>3, <1>4, <1>5, <1>6, <1>7, <1>8
        DEF IInv, TreesAreTheirs, Salvage, SalvageOrder, Before

(* A dropped net meets a net kept before it, which outranks it.            *)
LEMMA DropIInv ==
  ASSUME IInv, NEW n \in Net, Drop(n)
  PROVE  IInv'
<1>1. TypeOK'
  BY DEF IInv, TypeOK, Drop, Reason
<1>2. LedgerExact'
  BY DEF IInv, LedgerExact, Holders, Drop
<1>3. n \in active /\ n \in pending /\ n \notin kept
  BY DEF IInv, Drop, SalvageTurn, SalvageOrder
<1>4. \A m \in Net : failure'[m] = IF m = n THEN "congestion" ELSE failure[m]
  BY DEF IInv, TypeOK, Drop
<1>5. Sorting' /\ Routing'
  BY <1>3, <1>4 DEF IInv, TypeOK, Sorting, Routing, Drop
<1>6. SalvageOrder'
  BY DEF IInv, SalvageOrder, Drop, Before
<1>7. \E m \in kept : /\ tree[m] \cap tree[n] # {}
                      /\ n \in Power => m \in Power
  BY DEF IInv, SalvageOrder, Drop, SalvageTurn, Before
<1>8. CongestionHasCause'
  BY <1>4, <1>7 DEF IInv, CongestionHasCause, Drop
<1>9. TreesAreTheirs' /\ CollisionFree'
  BY <1>3, <1>4 DEF IInv, TypeOK, TreesAreTheirs, CollisionFree, Drop
<1> QED BY <1>1, <1>2, <1>5, <1>6, <1>8, <1>9 DEF IInv, Drop

(* Every step keeps the invariant.                                         *)
LEMMA NextIInv == IInv /\ [Next]_vars => IInv'
<1> SUFFICES ASSUME IInv, [Next]_vars PROVE IInv'
  OBVIOUS
<1>1. ASSUME NEW n \in Net, KeepTree(n) PROVE IInv'
  <2>1. TypeOK' /\ LedgerExact'
    BY <1>1 DEF IInv, TypeOK, LedgerExact, Holders, KeepTree
  <2>2. TreesAreTheirs' /\ CollisionFree' /\ CongestionHasCause'
    BY <1>1 DEF IInv, TreesAreTheirs, CollisionFree, CongestionHasCause, KeepTree
  <2>3. Routing' /\ Sorting' /\ SalvageOrder'
    BY <1>1 DEF IInv, Routing, Sorting, SalvageOrder, KeepTree, InConflict
  <2> QED BY <1>1, <2>1, <2>2, <2>3 DEF IInv, KeepTree
<1>2. ASSUME NEW n \in Net, NEW t \in Trees[n], Reroute(n, t) PROVE IInv'
  BY <1>2, RerouteIInv
<1>3. ASSUME NEW n \in Net, NoPath(n) PROVE IInv'
  BY <1>3, NoPathIInv
<1>4. ASSUME NEW n \in Net, Salvage(n) PROVE IInv'
  BY <1>4, SalvageIInv
<1>5. ASSUME NEW n \in Net, Drop(n) PROVE IInv'
  BY <1>5, DropIInv
<1>6. CASE Converge
  BY <1>6, ConvergeIInv
<1>7. CASE GiveUp
  BY <1>7, RoundEndIInv DEF GiveUp
<1>8. CASE NextRound
  BY <1>8, RoundEndIInv DEF NextRound
<1>9. CASE OutOfRounds
  BY <1>9, RoundEndIInv DEF OutOfRounds
<1>10. CASE Salvaged
  <2>1. TypeOK' /\ LedgerExact'
    BY <1>10 DEF IInv, TypeOK, LedgerExact, Holders, Salvaged
  <2>2. TreesAreTheirs' /\ CollisionFree' /\ CongestionHasCause'
    BY <1>10 DEF IInv, TreesAreTheirs, CollisionFree, CongestionHasCause, Salvaged
  <2>3. Routing' /\ Sorting' /\ SalvageOrder'
    BY <1>10 DEF IInv, Routing, Sorting, SalvageOrder, Salvaged
  <2> QED BY <1>10, <2>1, <2>2, <2>3 DEF IInv, Salvaged
<1>11. CASE UNCHANGED vars
  BY <1>11 DEF IInv, vars, TypeOK, LedgerExact, Holders, TreesAreTheirs, Routing, Sorting,
               SalvageOrder, CollisionFree, CongestionHasCause
<1> QED BY <1>1, <1>2, <1>3, <1>4, <1>5, <1>6, <1>7, <1>8, <1>9, <1>10, <1>11 DEF Next, Visit

-----------------------------------------------------------------------------
(* The invariant holds throughout.                                         *)
THEOREM Inductive == Spec => []IInv
BY InitIInv, NextIInv, PTL DEF Spec

(* Every variable of _negotiate keeps its shape, whatever the nets.        *)
THEOREM TypeCorrect == Spec => []TypeOK
<1>1. IInv => TypeOK
  BY DEF IInv
<1> QED BY <1>1, Inductive, PTL

(* The incremental counts of _count always agree with the trees.           *)
THEOREM LedgerAlwaysExact == Spec => []LedgerExact
<1>1. IInv => LedgerExact
  BY DEF IInv
<1> QED BY <1>1, Inductive, PTL

(* What _negotiate returns never has two nets on one cell or casing block, *)
(* converged or salvaged.                                                  *)
THEOREM NoCollision == Spec => []CollisionFree
<1>1. IInv => CollisionFree
  BY DEF IInv
<1> QED BY <1>1, Inductive, PTL

(* Every net leaves _negotiate either with a tree of its own or with a     *)
(* reason, never with both and never with neither.                         *)
THEOREM Answered == Spec => []EveryNetAnswered
<1>1. IInv => EveryNetAnswered
  <2> SUFFICES ASSUME IInv, phase = "done", NEW n \in Net
               PROVE  /\ (n \in kept) <=> (failure[n] = "none")
                      /\ n \in kept => tree[n] \in Trees[n]
    BY DEF EveryNetAnswered
  <2>1. CASE n \in active
    BY <2>1 DEF IInv, Sorting, TreesAreTheirs
  <2>2. CASE n \notin active
    BY <2>2 DEF IInv, TreesAreTheirs
  <2> QED BY <2>1, <2>2
<1> QED BY <1>1, Inductive, PTL

(* A net dropped by the salvage really meets a net that was kept, and a    *)
(* power net only ever gives way to another power net.                     *)
THEOREM Caused == Spec => []CongestionHasCause
<1>1. IInv => CongestionHasCause
  BY DEF IInv
<1> QED BY <1>1, Inductive, PTL

(* The early-out of _congestion_is_irreducible only stops a negotiation no *)
(* choice of trees could have finished.                                    *)
THEOREM GivesUpOnlyOnProof == Spec => NeverGivesUpRoutable
<1>1. ASSUME IInv, GiveUp, active \cap Brittle = {} PROVE ~Routable
  <2> SUFFICES ASSUME Routable PROVE FALSE
    OBVIOUS
  <2>1. PICK choice : /\ \A n \in active : choice[n] \in Trees[n]
                      /\ \A m, n \in active : m # n => choice[m] \cap choice[n] = {}
    BY DEF Routable
  <2>2. PICK r \in OverUsed : TRUE
    BY <1>1 DEF GiveUp
  <2>3. PICK m \in active, n \in active : m # n /\ Forced(m, r) /\ Forced(n, r)
    BY <1>1, <2>2 DEF GiveUp, SeemsStuck, Irreducible
  <2>4. r \in choice[m] /\ r \in choice[n]
    BY <2>1, <2>3 DEF Forced
  <2> QED BY <2>1, <2>3, <2>4
<1>2. IInv /\ [Next]_vars => [GiveUp /\ active \cap Brittle = {} => ~Routable]_vars
  BY <1>1
<1> QED BY <1>2, Inductive, PTL DEF Spec, NeverGivesUpRoutable

-----------------------------------------------------------------------------
(* What earlier rounds leave to this one.                                  *)

(* Trees from before this round only meet where the round was told to look *)
(* when it began, and one that was left alone lies clear of that.          *)
OldApart ==
  phase = "route" =>
    /\ \A m, n \in active \ relaid : m # n => tree[m] \cap tree[n] \subseteq over
    /\ \A n \in active \ (relaid \cup pending) : tree[n] \cap over = {}

(* Two of the nets in race could leave no other way out of r.              *)
Doubly(r, race) == \E m, n \in race : m # n /\ Forced(m, r) /\ Forced(n, r)

(* The stall counts the rounds since the contested set came up, and a set  *)
(* that was asked about has a resource that is not forced on two nets.     *)
Standing ==
  phase = "route" =>
    /\ prevOver = over
    /\ over # {} => since \in 1 .. round - 1 /\ stall = round - 1 - since
    /\ over # {} /\ stall >= StallRounds => \E r \in over : ~Doubly(r, active)

HInv == IInv /\ OldApart /\ Standing

(* Two trees only ever meet on an over-used resource.                      *)
LEMMA SharedIsOverUsed ==
  ASSUME TypeOK, LedgerExact,
         NEW m \in Net, NEW n \in Net, m # n
  PROVE  tree[m] \cap tree[n] \subseteq OverUsed
<1> SUFFICES ASSUME NEW r \in tree[m] \cap tree[n] PROVE r \in OverUsed
  OBVIOUS
<1>1. r \in Resource
  BY DEF TypeOK
<1>2. usage[r] = Cardinality(Holders(r)) /\ usage[r] \in Nat
  BY <1>1 DEF LedgerExact, TypeOK
<1>3. IsFiniteSet(Holders(r)) /\ {m} \cup {n} \subseteq Holders(r)
  BY NetAssumption, FS_Subset DEF Holders
<1>4. IsFiniteSet({m}) /\ Cardinality({m}) = 1
  BY FS_Singleton
<1>5. Cardinality({m} \cup {n}) = 2
  BY <1>4, FS_AddElement
<1>6. Cardinality({m} \cup {n}) <= Cardinality(Holders(r))
  BY <1>3, FS_Subset
<1> QED BY <1>1, <1>2, <1>5, <1>6 DEF OverUsed

(* The round that ends counts the rounds since what it ends with came up.  *)
LEMMA StallCounts ==
  ASSUME IInv, Standing, RoundOver, OverUsed # {}, CountStall
  PROVE  /\ since' \in 1 .. round /\ stall' = round - since'
         /\ prevOver' = OverUsed /\ over' = OverUsed
         /\ stall' > StallRounds =>
              /\ OverUsed = over /\ stall >= StallRounds
<1>1. prevOver = over /\ round \in 1 .. MaxRounds /\ stall \in Nat
  BY DEF IInv, TypeOK, Standing, RoundOver
<1>2. CASE OverUsed = over
  <2>1. since \in 1 .. round - 1 /\ stall = round - 1 - since
    BY <1>2 DEF Standing, RoundOver
  <2>2. since' = since /\ stall' = stall + 1 /\ prevOver' = prevOver /\ over' = OverUsed
    BY <1>1, <1>2 DEF CountStall, RecordSince
  <2> QED BY <1>1, <1>2, <2>1, <2>2, RoundAssumption
<1>3. CASE OverUsed # over
  <2>1. since' = round /\ stall' = 0 /\ prevOver' = OverUsed /\ over' = OverUsed
    BY <1>1, <1>3 DEF CountStall, RecordSince
  <2> QED BY <1>1, <2>1, RoundAssumption
<1> QED BY <1>2, <1>3

(* When a round is over, what cannot be proven is not forced on two nets:  *)
(* whoever is forced on a resource holds it.                               *)
LEMMA UnprovenIsNotDoubly ==
  ASSUME IInv, RoundOver
  PROVE  ProvenStuck(OverUsed) <=> \A r \in OverUsed : Doubly(r, active)
<1>1. \A n \in active : tree[n] \in Trees[n]
  BY DEF IInv, TypeOK, Routing, TreesAreTheirs, RoundOver
<1>2. \A n \in active : \A r : Forced(n, r) => r \in tree[n]
  BY <1>1 DEF Forced
<1> QED BY <1>2 DEF ProvenStuck, Irreducible, Doubly

(* A round that follows finds old trees apart but for what is contested.   *)
LEMMA NextRoundHInv ==
  ASSUME HInv, NextRound
  PROVE  OldApart' /\ Standing'
<1>1. /\ IInv /\ Standing /\ RoundOver /\ OverUsed # {} /\ CountStall /\ NotProven
      /\ round' = round + 1 /\ active' = active /\ tree' = tree
      /\ pending' = active /\ relaid' = {}
  BY DEF HInv, NextRound
<1>2. /\ since' \in 1 .. round /\ stall' = round - since'
      /\ prevOver' = OverUsed /\ over' = OverUsed
      /\ stall' > StallRounds => OverUsed = over /\ stall >= StallRounds
  BY <1>1, StallCounts
<1>3. OldApart'
  <2>1. \A m, n \in active : m # n => tree[m] \cap tree[n] \subseteq OverUsed
    BY <1>1, SharedIsOverUsed DEF IInv, TypeOK
  <2> QED BY <1>1, <1>2, <2>1 DEF OldApart
<1>4. ASSUME stall' >= StallRounds PROVE \E r \in OverUsed : ~Doubly(r, active)
  <2>1. stall' \in Int
    <3>1. round \in Nat
      BY <1>1, RoundAssumption DEF IInv, TypeOK
    <3> QED BY <1>2, <3>1
  <2>2. CASE stall' = StallRounds
    <3>1. ~ProvenStuck(OverUsed)
      BY <1>1, <2>2 DEF NotProven
    <3> QED BY <1>1, <3>1, UnprovenIsNotDoubly
  <2>3. CASE stall' > StallRounds
    BY <1>1, <1>2, <2>3 DEF Standing, RoundOver
  <2> QED BY <1>4, <2>1, <2>2, <2>3, RoundAssumption
<1>5. Standing'
  <2>1. \A r : Doubly(r, active)' = Doubly(r, active)
    BY <1>1 DEF Doubly, Forced
  <2>2. round \in Nat /\ stall' = round' - 1 - since' /\ since' \in 1 .. round' - 1
    BY <1>1, <1>2 DEF IInv, TypeOK
  <2>3. stall' >= StallRounds => \E r \in over' : ~Doubly(r, active)'
    BY <1>2, <1>4, <2>1
  <2> QED BY <1>2, <2>2, <2>3 DEF Standing
<1> QED BY <1>3, <1>5

LEMMA InitHInv == Init => HInv
<1> SUFFICES ASSUME Init PROVE OldApart /\ Standing
  BY InitIInv DEF HInv
<1> QED BY DEF Init, OldApart, Standing

LEMMA NextHInv == HInv /\ [Next]_vars => HInv'
<1> SUFFICES ASSUME HInv, [Next]_vars PROVE OldApart' /\ Standing'
  BY NextIInv DEF HInv
<1>1. IInv /\ OldApart /\ Standing
  BY DEF HInv
<1>2. ASSUME active' \subseteq active,
             UNCHANGED <<prevOver, over, since, round, stall>>, phase = "route"
      PROVE  Standing'
  <2>1. \A r : Doubly(r, active)' => Doubly(r, active)
    BY <1>2 DEF Doubly, Forced
  <2> QED BY <1>1, <1>2, <2>1 DEF Standing
<1>3. ASSUME NEW n \in Net, KeepTree(n) PROVE OldApart' /\ Standing'
  <2>1. OldApart'
    BY <1>1, <1>3 DEF OldApart, KeepTree, InConflict
  <2>2. Standing'
    BY <1>2, <1>3 DEF KeepTree
  <2> QED BY <2>1, <2>2
<1>4. ASSUME NEW n \in Net, NEW t \in Trees[n], Reroute(n, t) PROVE OldApart' /\ Standing'
  <2>1. \A m \in Net : m # n => tree'[m] = tree[m]
    BY <1>1, <1>4 DEF IInv, TypeOK, Reroute
  <2>2. active \subseteq Net /\ active' = active
    BY <1>1, <1>4 DEF IInv, TypeOK, Reroute
  <2>3. OldApart'
    BY <1>1, <1>4, <2>1, <2>2 DEF OldApart, Reroute
  <2>4. Standing'
    BY <1>2, <1>4 DEF Reroute
  <2> QED BY <2>3, <2>4
<1>5. ASSUME NEW n \in Net, NoPath(n) PROVE OldApart' /\ Standing'
  <2>1. \A m \in Net : m # n => tree'[m] = tree[m]
    BY <1>1, <1>5 DEF IInv, TypeOK, NoPath
  <2>2. active' = active \ {n} /\ active \subseteq Net
    BY <1>1, <1>5 DEF IInv, TypeOK, NoPath
  <2>3. OldApart'
    BY <1>1, <1>5, <2>1, <2>2 DEF OldApart, NoPath
  <2>4. Standing'
    BY <1>2, <1>5, <2>2 DEF NoPath
  <2> QED BY <2>3, <2>4
<1>6. ASSUME NEW n \in Net, Salvage(n) \/ Drop(n) PROVE OldApart' /\ Standing'
  BY <1>6 DEF OldApart, Standing, Salvage, Drop
<1>7. CASE Converge \/ GiveUp \/ OutOfRounds \/ Salvaged
  BY <1>7 DEF OldApart, Standing, Converge, GiveUp, OutOfRounds, BeginSalvage, Salvaged
<1>8. CASE NextRound
  BY <1>8, NextRoundHInv
<1>9. CASE UNCHANGED vars
  BY <1>1, <1>9 DEF vars, OldApart, Standing, Doubly, Forced
<1> QED BY <1>3, <1>4, <1>5, <1>6, <1>7, <1>8, <1>9 DEF Next, Visit

(* However often nets are ripped up and whoever fails, no two trees that a *)
(* finished round left standing meet.                                      *)
THEOREM NoOverlapEscapes == Spec => []NoOldOverlap
<1>1. HInv => NoOldOverlap
  <2> SUFFICES ASSUME HInv, RoundOver,
                      NEW m \in active \ relaid, NEW n \in active \ relaid, m # n
               PROVE  tree[m] \cap tree[n] = {}
    BY DEF NoOldOverlap
  <2>1. tree[m] \cap tree[n] \subseteq over /\ tree[m] \cap over = {}
    BY DEF HInv, OldApart, RoundOver
  <2> QED BY <2>1
<1> QED BY <1>1, InitHInv, NextHInv, PTL DEF Spec

(* The loop is broken off after exactly the rounds a stall takes, and one  *)
(* question per stall is enough never to go on over a proven overlap.      *)
THEOREM AlwaysBrokenOffInTime == Spec => BrokenOffInTime
<1> DEFINE repeats == round - since'
           InTime == /\ NextRound /\ ProvenStuck(OverUsed) => repeats < StallRounds
                     /\ GiveUp => repeats = StallRounds
<1>1. ASSUME HInv, NextRound, ProvenStuck(OverUsed) PROVE repeats < StallRounds
  <2>1. /\ IInv /\ Standing /\ RoundOver /\ OverUsed # {} /\ CountStall /\ NotProven
        /\ phase = "route" /\ round \in Nat
    BY <1>1 DEF HInv, IInv, TypeOK, NextRound, RoundOver
  <2>2. /\ since' \in 1 .. round /\ stall' = repeats
        /\ stall' > StallRounds => OverUsed = over /\ stall >= StallRounds
    BY <2>1, StallCounts
  <2>3. \A r \in OverUsed : Doubly(r, active)
    BY <1>1, <2>1, UnprovenIsNotDoubly
  <2>4. stall' # StallRounds
    BY <1>1, <2>1 DEF NotProven
  <2>5. ~(stall' > StallRounds)
    BY <2>1, <2>2, <2>3 DEF Standing
  <2>6. stall' \in Int
    BY <2>1, <2>2
  <2>7. stall' < StallRounds
    BY <2>4, <2>5, <2>6, RoundAssumption
  <2> QED BY <2>2, <2>7
<1>2. ASSUME HInv, GiveUp PROVE repeats = StallRounds
  <2>1. /\ IInv /\ Standing /\ RoundOver /\ OverUsed # {} /\ CountStall
        /\ stall' = StallRounds
    BY <1>2 DEF HInv, GiveUp
  <2> QED BY <2>1, StallCounts
<1>3. HInv /\ [Next]_vars => [InTime]_vars
  BY <1>1, <1>2
<1> QED BY <1>3, InitHInv, NextHInv, PTL DEF Spec, BrokenOffInTime
=============================================================================
