----------------------------- MODULE RipUpReroute -----------------------------
(***************************************************************************)
(* The power router's retry loop: _rip_up_reroute and _route_pass of       *)
(* src/gtnh_solver/router/power.py.  A pass lays the tier nets one after   *)
(* another, each trunk an obstacle to the nets after it; when a net fails, *)
(* every trunk is ripped up and the pass is run again with the failed nets *)
(* first, until a pass is clean, a failed set repeats, or the pass budget  *)
(* is spent.                                                               *)
(*                                                                         *)
(* What one call of _route_trunk lays is a fixed function of the net and   *)
(* of the cells taken so far: the code is deterministic and keeps nothing  *)
(* between calls (PowerTrunk models the call itself).  A behaviour is one  *)
(* problem, its function picked from Lays.                                 *)
(***************************************************************************)
EXTENDS Naturals, FiniteSets, Functions

CONSTANTS
  Net,       \* the power nets
  Cell,
  Lays,      \* functions net -> taken cells -> the net's trunk, {} for none
  Rank,      \* position of a net in problem order
  MaxPasses  \* _MAX_PASSES

ASSUME NetAssumption == IsFiniteSet(Net)

ASSUME LayAssumption ==
  /\ Lays \subseteq [Net -> [SUBSET Cell -> SUBSET Cell]]
  /\ \A f \in Lays, n \in Net, taken \in SUBSET Cell : f[n][taken] \cap taken = {}

ASSUME RankAssumption ==
  /\ Rank \in [Net -> Nat]
  /\ \A m, n \in Net : Rank[m] = Rank[n] => m = n

ASSUME PassAssumption == MaxPasses \in Nat \ {0}

VARIABLES
  lay,       \* what each trunk looks like around the cells taken so far
  pending,   \* nets this pass has still to visit
  first,     \* the nets that lead this pass: those the last one failed on
  trunk,     \* net -> the cells of its trunk in this pass, {} for none
  failed,    \* nets this pass failed on
  seen,      \* failed sets of the passes so far
  pass,      \* the pass being run, from 1
  phase      \* "pass", then "clean", "cycling" or "spent"

vars == <<lay, pending, first, trunk, failed, seen, pass, phase>>

(* Every variable of the retry loop keeps its shape, within its passes.    *)
TypeOK ==
  /\ lay \in Lays
  /\ pending \in SUBSET Net /\ first \in SUBSET Net /\ failed \in SUBSET Net
  /\ trunk \in [Net -> SUBSET Cell]
  /\ seen \in SUBSET SUBSET Net
  /\ pass \in 1 .. MaxPasses
  /\ phase \in {"pass", "clean", "cycling", "spent"}

-----------------------------------------------------------------------------
Taken == UNION {trunk[n] : n \in Net}

(* Mutant: the net before it is forgotten by the time a net is laid.       *)
TrunkAroundNone(n) == lay[n][{}]

(* What net n gets when its turn comes (a net that is not one source and   *)
(* some sinks: nothing, whatever is taken).                                *)
TrunkNow(n) == lay[n][Taken]

(* The order of a pass: the nets that failed last, then the others, each   *)
(* group in problem order.                                                 *)
Before(m, n) ==
  \/ m \in first /\ n \notin first
  \/ (m \in first <=> n \in first) /\ Rank[m] <= Rank[n]

Turn(n) == n \in pending /\ \A m \in pending : Before(n, m)

Init ==
  /\ lay \in Lays
  /\ pending = Net
  /\ first = {}
  /\ trunk = [n \in Net |-> {}]
  /\ failed = {}
  /\ seen = {}
  /\ pass = 1
  /\ phase = "pass"

LayTrunk(n) ==
  /\ phase = "pass" /\ Turn(n) /\ TrunkNow(n) # {}
  /\ trunk' = [trunk EXCEPT ![n] = TrunkNow(n)]
  /\ pending' = pending \ {n}
  /\ UNCHANGED <<lay, first, failed, seen, pass, phase>>

(* A net that cannot be laid is skipped; the pass goes on without it.      *)
FailNet(n) ==
  /\ phase = "pass" /\ Turn(n) /\ TrunkNow(n) = {}
  /\ failed' = failed \cup {n}
  /\ pending' = pending \ {n}
  /\ UNCHANGED <<lay, first, trunk, seen, pass, phase>>

PassOver == phase = "pass" /\ pending = {}

Clean ==
  /\ PassOver /\ failed = {}
  /\ phase' = "clean"
  /\ UNCHANGED <<lay, pending, first, trunk, failed, seen, pass>>

(* The same nets failed before: more reordering only goes round in a ring. *)
Cycling ==
  /\ PassOver /\ failed # {} /\ failed \in seen
  /\ phase' = "cycling"
  /\ UNCHANGED <<lay, pending, first, trunk, failed, seen, pass>>

(* Mutant: the failures are carried over into the next pass.               *)
StartPassKeepingFailures ==
  /\ pending' = Net
  /\ trunk' = [n \in Net |-> {}]
  /\ UNCHANGED failed

StartPass ==
  /\ pending' = Net
  /\ trunk' = [n \in Net |-> {}]
  /\ failed' = {}

(* Mutant: the failed nets wait for their usual turn.                      *)
LeadersNone == {}

Leaders == failed

(* Mutant: only the failed set of this pass is remembered.                 *)
RememberLast == {failed}

Remember == seen \cup {failed}

LastPass == pass = MaxPasses

(* Everything is ripped up, and the failed nets get first pick.            *)
RipUp ==
  /\ PassOver /\ failed # {} /\ failed \notin seen /\ ~LastPass
  /\ seen' = Remember
  /\ first' = Leaders
  /\ StartPass
  /\ pass' = pass + 1
  /\ UNCHANGED <<lay, phase>>

Spent ==
  /\ PassOver /\ failed # {} /\ failed \notin seen /\ LastPass
  /\ seen' = Remember
  /\ phase' = "spent"
  /\ UNCHANGED <<lay, pending, first, trunk, failed, pass>>

Next ==
  \/ \E n \in Net : LayTrunk(n) \/ FailNet(n)
  \/ Clean \/ Cycling \/ RipUp \/ Spent

Spec == Init /\ [][Next]_vars

-----------------------------------------------------------------------------
(* Properties                                                              *)

Ended == phase # "pass"

(* No two trunks ever share a cell, within a pass and in what is returned: *)
(* a finished trunk is an obstacle to the next tier's.                     *)
TrunksApart == \A m, n \in Net : m # n => trunk[m] \cap trunk[n] = {}

(* Routes and failures come from the same pass: every net is returned with *)
(* a trunk or with a failure, never with both and never with neither.      *)
EveryNetAnswered == Ended => \A n \in Net : n \in failed <=> trunk[n] = {}

-----------------------------------------------------------------------------
(* One pass as a function of the order of the nets, computed apart from    *)
(* the loop.                                                               *)
LaidInOrder(order) ==
  LET cells[k \in 0 .. Cardinality(Net)] ==
        IF k = 0 THEN [n \in Net |-> {}]
        ELSE LET before == cells[k-1]
             IN  [before EXCEPT ![order[k]] = lay[order[k]][UNION Range(before)]]
  IN  cells[Cardinality(Net)]

Orders == {order \in [1 .. Cardinality(Net) -> Net] : IsInjective(order)}

FailedFirst(lead) ==
  CHOOSE order \in Orders : \A i, j \in DOMAIN order : i < j =>
     \/ order[i] \in lead /\ order[j] \notin lead
     \/ (order[i] \in lead <=> order[j] \in lead) /\ Rank[order[i]] < Rank[order[j]]

FailsAfter(lead) == LET cells == LaidInOrder(FailedFirst(lead)) IN {n \in Net : cells[n] = {}}

(* The failed sets of the passes after one that failed on start.           *)
Orbit(start) ==
  LET ring[k \in 0 .. Cardinality(SUBSET Net)] ==
        IF k = 0 THEN {start}
        ELSE LET so == ring[k-1] IN so \cup {FailsAfter(f) : f \in so \ {{}}}
  IN  ring[Cardinality(SUBSET Net)]

(* Stopping on a repeat loses nothing: run on without end, the same        *)
(* failed-first rule would never come to a clean pass.                     *)
RepeatIsHopeless == phase = "cycling" => {} \notin Orbit(failed)

(* The failed set of each pass, each led by the one before (none leads the *)
(* first), computed apart from the loop.                                   *)
FailedSets ==
  LET sets[k \in 0 .. MaxPasses] == IF k = 0 THEN {} ELSE FailsAfter(sets[k-1])
  IN  sets

(* Neither a pass too many nor one too few is run: the loop ends on the    *)
(* first pass that is clean or repeats a failed set of any pass before it, *)
(* on the last one there may be (_MAX_PASSES) if there is none, and says   *)
(* which of these it was.                                                  *)
StopsInTime ==
  LET sets == FailedSets
      Repeats(k) == \E j \in 1 .. k - 1 : sets[j] = sets[k]
  IN  Ended =>
        /\ failed = sets[pass]
        /\ \A k \in 1 .. pass - 1 : sets[k] # {} /\ ~Repeats(k)
        /\ phase = "clean" <=> failed = {}
        /\ phase = "cycling" <=> Repeats(pass)
        /\ phase = "spent" => pass = MaxPasses

(* What a stop on a repeat leaves is "a genuine infeasibility, not an      *)
(* ordering accident" (docstring of _rip_up_reroute): no other order of    *)
(* the nets would have laid them all.                                      *)
RepeatIsGenuine == phase = "cycling" => \A order \in Orders : {} \in Range(LaidInOrder(order))

=============================================================================
