----------------------------- MODULE Negotiation -----------------------------
(***************************************************************************)
(* The negotiated congestion of src/gtnh_solver/router/core.py             *)
(* (_negotiate): every net is routed as a tree over shared resources, the  *)
(* nets on an over-used resource are ripped up and routed again, round     *)
(* after round, until nothing is shared, the overlap is proven geometric,  *)
(* or the round budget is spent; then a collision-free subset is kept.     *)
(*                                                                         *)
(* A resource is a grid cell or a multiblock's casing key: the code keeps  *)
(* two ledgers of the same shape for the two and always reads them         *)
(* together.  A tree is the set of resources it holds, {} when the net     *)
(* holds none.  What a price does to the choice of tree is left open here  *)
(* (any tree may come back), so what holds here holds for every pricing.   *)
(*                                                                         *)
(* relaid and since are history: no guard reads them, and the code has no  *)
(* such variables.  They remember what properties say of earlier rounds.   *)
(***************************************************************************)
EXTENDS Naturals, FiniteSets

CONSTANTS
  Net,          \* the nets handed to _negotiate
  Power,        \* the power nets among them
  Resource,     \* cells and casing keys
  Trees,        \* Trees[n]: every tree the geometry allows net n
  Dockless,     \* nets with an endpoint no free cell can dock
  Brittle,      \* nets whose greedy search may come back empty-handed although
                \* a tree exists (SteinerTree shows such a net)
  Rank,         \* position of a net in problem order
  MaxRounds,    \* _MAX_ROUNDS, or the caller's lower cap
  StallRounds   \* _STALL_ROUNDS

ASSUME NetAssumption ==
  /\ IsFiniteSet(Net)
  /\ Power \subseteq Net /\ Dockless \subseteq Net /\ Brittle \subseteq Net

ASSUME TreeAssumption == Trees \in [Net -> SUBSET ((SUBSET Resource) \ {{}})]

ASSUME RankAssumption ==
  /\ Rank \in [Net -> Nat]
  /\ \A m, n \in Net : Rank[m] = Rank[n] => m = n

ASSUME RoundAssumption == MaxRounds \in Nat \ {0} /\ StallRounds \in Nat

VARIABLES
  tree,      \* net -> the resources of its current tree, {} when it has none
  active,    \* nets still taking part
  failure,   \* net -> why it failed, "none" while it has not
  usage,     \* resource -> how many current trees hold it
  over,      \* resources over-used when the last round ended
  prevOver,  \* the over-used set the stall counter compares with
  stall,     \* rounds the over-used set has stayed identical
  round,     \* the round being run, from 1
  pending,   \* nets this round (or the salvage) has still to visit
  phase,     \* "route", "salvage", then "done"
  kept,      \* the nets whose trees are returned
  taken,     \* resources of the nets salvaged so far
  relaid,    \* history: nets given a tree in the round being run
  since      \* history: the first of the rounds in a row that ended with over

vars == <<tree, active, failure, usage, over, prevOver, stall, round,
          pending, phase, kept, taken, relaid, since>>

Reason == {"none", "face_reachability", "routing", "congestion"}

(* Every variable of _negotiate keeps its shape: the ledger counts no more *)
(* holders than there are nets, and the rounds stay in their budget.       *)
TypeOK ==
  /\ tree \in [Net -> SUBSET Resource]
  /\ active \in SUBSET Net
  /\ failure \in [Net -> Reason]
  /\ usage \in [Resource -> Nat]
  /\ over \in SUBSET Resource
  /\ prevOver \in SUBSET Resource
  /\ stall \in Nat
  /\ round \in 1..MaxRounds
  /\ pending \in SUBSET Net
  /\ phase \in {"route", "salvage", "done"}
  /\ kept \in SUBSET Net
  /\ taken \in SUBSET Resource
  /\ relaid \in SUBSET Net
  /\ since \in 0..MaxRounds

-----------------------------------------------------------------------------
(* Operators                                                               *)

Holders(r) == {n \in Net : r \in tree[n]}

(* Mutant: only three nets on one resource count as a conflict.            *)
OverUsedByThree == {r \in Resource : usage[r] > 2}

OverUsed == {r \in Resource : usage[r] > 1}

(* A resource is forced on a net when the net has no tree without it.      *)
Forced(n, r) == \A t \in Trees[n] : r \in t

(* Every contested resource is forced on two of the nets holding it, where *)
(* the probes of the nets in mute come back empty and read as forced.      *)
Irreducible(contested, mute) ==
  \A r \in contested : \E m, n \in active :
     /\ m # n
     /\ r \in tree[m] /\ r \in tree[n]
     /\ m \in mute \/ Forced(m, r)
     /\ n \in mute \/ Forced(n, r)

ProvenStuck(contested) == Irreducible(contested, {})

(* Mutant: one net with no way round a resource is taken for a proof.      *)
SeemsStuckOnOne(contested) ==
  \A r \in contested : \E m \in active : r \in tree[m] /\ Forced(m, r)

(* A brittle net's probe can come back empty too.                          *)
SeemsStuck(contested) == Irreducible(contested, Brittle)

(* Nets are visited in problem order ...                                   *)
Turn(n) == n \in pending /\ \A m \in pending : Rank[n] <= Rank[m]

(* Mutant: salvage in problem order alone.                                 *)
BeforeByRank(m, n) == Rank[m] <= Rank[n]

(* ... and salvaged power first, then in problem order.                    *)
Before(m, n) ==
  \/ m \in Power /\ n \notin Power
  \/ (m \in Power <=> n \in Power) /\ Rank[m] <= Rank[n]

SalvageTurn(n) == n \in pending /\ \A m \in pending : Before(n, m)

(* Mutants: the dropped tree is not uncounted, or is uncounted twice.      *)
RecountedAddOnly(n, new) ==
  [r \in Resource |-> usage[r] + (IF r \in new THEN 1 ELSE 0)]

RecountedTwice(n, new) ==
  [r \in Resource |->
     usage[r] - (IF r \in tree[n] THEN 2 ELSE 0) + (IF r \in new THEN 1 ELSE 0)]

(* The ledger once net n has dropped its tree and taken the tree new.      *)
Recounted(n, new) ==
  [r \in Resource |->
     usage[r] - (IF r \in tree[n] THEN 1 ELSE 0) + (IF r \in new THEN 1 ELSE 0)]

-----------------------------------------------------------------------------
Init ==
  /\ tree = [n \in Net |-> {}]
  /\ active = Net \ Dockless
  /\ failure = [n \in Net |-> IF n \in Dockless THEN "face_reachability" ELSE "none"]
  /\ usage = [r \in Resource |-> 0]
  /\ over = {}
  /\ prevOver = {}
  /\ stall = 0
  /\ round = 1
  /\ pending = Net \ Dockless
  /\ phase = "route"
  /\ kept = {}
  /\ taken = {}
  /\ relaid = {}
  /\ since = 0

(* Mutant: a tree is ripped up only where all of it is contested.          *)
InConflictWhole(n) == tree[n] \subseteq over

InConflict(n) == tree[n] = {} \/ tree[n] \cap over # {}

(* A net on no contested resource keeps its tree.                          *)
KeepTree(n) ==
  /\ phase = "route" /\ Turn(n) /\ ~InConflict(n)
  /\ pending' = pending \ {n}
  /\ UNCHANGED <<tree, active, failure, usage, over, prevOver, stall, round,
                 phase, kept, taken, relaid, since>>

(* A net in conflict is ripped up and routed again.                        *)
Reroute(n, t) ==
  /\ phase = "route" /\ Turn(n) /\ InConflict(n)
  /\ t \in Trees[n]
  /\ tree' = [tree EXCEPT ![n] = t]
  /\ usage' = Recounted(n, t)
  /\ pending' = pending \ {n}
  /\ relaid' = relaid \cup {n}
  /\ UNCHANGED <<active, failure, over, prevOver, stall, round, phase, kept, taken, since>>

(* The search found no tree: the net fails now and holds nothing.          *)
NoPath(n) ==
  /\ phase = "route" /\ Turn(n) /\ InConflict(n)
  /\ Trees[n] = {} \/ n \in Brittle
  /\ tree' = [tree EXCEPT ![n] = {}]
  /\ usage' = Recounted(n, {})
  /\ failure' = [failure EXCEPT ![n] = "routing"]
  /\ active' = active \ {n}
  /\ pending' = pending \ {n}
  /\ UNCHANGED <<over, prevOver, stall, round, phase, kept, taken, relaid, since>>

RoundOver == phase = "route" /\ pending = {}

(* Nothing is shared: every active net's tree is kept.                     *)
Converge ==
  /\ RoundOver /\ OverUsed = {}
  /\ over' = {}
  /\ kept' = active
  /\ phase' = "done"
  /\ UNCHANGED <<tree, active, failure, usage, prevOver, stall, round, pending, taken,
                 relaid, since>>

(* Since which round each one has ended with what this one ends with.      *)
RecordSince == since' = IF OverUsed = over THEN since ELSE round

(* Mutant: another contested set goes on with the count of the one before. *)
CountStallNoReset ==
  /\ RecordSince
  /\ over' = OverUsed
  /\ IF OverUsed = prevOver
       THEN stall' = stall + 1 /\ UNCHANGED prevOver
       ELSE prevOver' = OverUsed /\ UNCHANGED stall

(* The stall counter as a round ends with something still shared.          *)
CountStall ==
  /\ RecordSince
  /\ over' = OverUsed
  /\ IF OverUsed = prevOver
       THEN stall' = stall + 1 /\ UNCHANGED prevOver
       ELSE stall' = 0 /\ prevOver' = OverUsed

(* Mutant: only the nets free of conflict are sorted out.                  *)
BeginSalvageOfClean ==
  /\ phase' = "salvage"
  /\ pending' = {n \in active : tree[n] \cap OverUsed = {}}
  /\ UNCHANGED <<tree, active, failure, usage, round, kept, taken, relaid>>

BeginSalvage ==
  /\ phase' = "salvage"
  /\ pending' = active
  /\ UNCHANGED <<tree, active, failure, usage, round, kept, taken, relaid>>

(* The set has not moved for StallRounds rounds, and is proven stuck.      *)
GiveUp ==
  /\ RoundOver /\ OverUsed # {}
  /\ CountStall
  /\ stall' = StallRounds
  /\ SeemsStuck(OverUsed)
  /\ BeginSalvage

NotProven == stall' # StallRounds \/ ~ProvenStuck(OverUsed)

NextRound ==
  /\ RoundOver /\ OverUsed # {}
  /\ CountStall
  /\ NotProven
  /\ round < MaxRounds
  /\ round' = round + 1
  /\ pending' = active
  /\ relaid' = {}
  /\ UNCHANGED <<tree, active, failure, usage, phase, kept, taken>>

OutOfRounds ==
  /\ RoundOver /\ OverUsed # {}
  /\ CountStall
  /\ NotProven
  /\ round = MaxRounds
  /\ BeginSalvage

(* Salvage: keep a tree no tree kept before it meets.                      *)
Salvage(n) ==
  /\ phase = "salvage" /\ SalvageTurn(n)
  /\ tree[n] \cap taken = {}
  /\ kept' = kept \cup {n}
  /\ taken' = taken \cup tree[n]
  /\ pending' = pending \ {n}
  /\ UNCHANGED <<tree, active, failure, usage, over, prevOver, stall, round, phase, relaid, since>>

Drop(n) ==
  /\ phase = "salvage" /\ SalvageTurn(n)
  /\ tree[n] \cap taken # {}
  /\ failure' = [failure EXCEPT ![n] = "congestion"]
  /\ pending' = pending \ {n}
  /\ UNCHANGED <<tree, active, usage, over, prevOver, stall, round, phase, kept, taken,
                 relaid, since>>

Salvaged ==
  /\ phase = "salvage" /\ pending = {}
  /\ phase' = "done"
  /\ UNCHANGED <<tree, active, failure, usage, over, prevOver, stall, round,
                 pending, kept, taken, relaid, since>>

Visit(n) ==
  \/ KeepTree(n)
  \/ \E t \in Trees[n] : Reroute(n, t)
  \/ NoPath(n)

Next ==
  \/ \E n \in Net : Visit(n) \/ Salvage(n) \/ Drop(n)
  \/ Converge \/ GiveUp \/ NextRound \/ OutOfRounds \/ Salvaged

Spec == Init /\ [][Next]_vars

-----------------------------------------------------------------------------
(* Properties                                                              *)

(* The incremental ledger never drifts from the trees it counts, across    *)
(* rip-ups, failures and re-routes (the _count pairs of _negotiate).       *)
LedgerExact == \A r \in Resource : usage[r] = Cardinality(Holders(r))

(* No two kept nets share a cell or a casing block: what the validator     *)
(* enforces as ROUTE_CELL_COLLISION.                                       *)
CollisionFree ==
  \A m, n \in kept : m # n => tree[m] \cap tree[n] = {}

(* No net is lost and none is reported twice: at the end each is either    *)
(* kept with a tree or failed with a reason.                               *)
EveryNetAnswered ==
  phase = "done" =>
    \A n \in Net : /\ (n \in kept) <=> (failure[n] = "none")
                   /\ n \in kept => tree[n] \in Trees[n]

(* Congestion is only blamed where a kept net really stands in the way, so *)
(* the salvaged subset cannot be enlarged; and a power net only ever gives *)
(* way to a power net (every machine on the line needs it).                *)
CongestionHasCause ==
  \A n \in Net : failure[n] = "congestion" =>
    \E m \in kept : /\ tree[m] \cap tree[n] # {}
                    /\ n \in Power => m \in Power

(* Some choice of trees for the nets still taking part shares nothing.     *)
Routable ==
  \E choice \in [active -> UNION {Trees[n] : n \in Net}] :
    /\ \A n \in active : choice[n] \in Trees[n]
    /\ \A m, n \in active : m # n => choice[m] \cap choice[n] = {}

(* Giving up early is sound: when the early-out fires on nets whose probes *)
(* are complete, no choice of trees at all is free of overlap.             *)
NeverGivesUpRoutable ==
  [][GiveUp /\ active \cap Brittle = {} => ~Routable]_vars

(* A round looks at what was contested when it began, while trees change   *)
(* under it (contested, contested_keys).  No overlap escapes that stale    *)
(* look: of the nets a finished round gave no new tree, no two meet, so    *)
(* what is shared when a round ends is shared with a tree of this round.   *)
NoOldOverlap ==
  RoundOver => \A m, n \in active \ relaid : m # n => tree[m] \cap tree[n] = {}

(* Asking for a proof once per stall, when the count is exactly            *)
(* _STALL_ROUNDS, neither wastes rounds nor cuts any short: another round  *)
(* is never begun over an overlap that can be proven and has repeated so   *)
(* often, though nets fail and trees move meanwhile; and the loop is only  *)
(* broken off over one that has repeated that often on end.                *)
BrokenOffInTime ==
  [][LET repeats == round - since' IN
     /\ NextRound /\ ProvenStuck(OverUsed) => repeats < StallRounds
     /\ GiveUp => repeats = StallRounds]_vars
=============================================================================
