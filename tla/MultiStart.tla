----------------------------- MODULE MultiStart -----------------------------
(***************************************************************************)
(* The multi-start of src/gtnh_solver/solver/core.py: solve, _search,      *)
(* _another_round and _Rounds.  A round is a grid of attempts (weighting   *)
(* mode, seed).  The first of all runs here and is timed; the rest run     *)
(* here in turn, or in a process pool in any order, and are ranked in grid *)
(* order.  A round count or a time budget buys more rounds.                *)
(*                                                                         *)
(* An attempt (anneal, gate, route, validate) is a function of its mode    *)
(* and seed: what it comes to is chosen when it first runs.  The line      *)
(* fixes whether the annealer's seed can be placed (no attempt can         *)
(* otherwise), whether it has ME blocks, and the fast path's layout.       *)
(***************************************************************************)
EXTENDS Integers, Sequences, FiniteSets, FiniteSetsExt, Functions

CONSTANTS
  Modes,            \* the annealing weightings, in grid order
  Outcome,          \* what an attempt comes to: [kind, rank], rank a quality or a net count
  Lines,            \* [fits, me, fast]
  Calls,            \* [optimize, attempts, jobs, rounds, budget], the last two a Nat or NoLimit
  Columns,          \* the bank-column candidate
  NoLimit,
  Durations,        \* how long a round may take
  MaxBudgetRounds,  \* _MAX_BUDGET_ROUNDS
  MaxSeed           \* bounds what an instance's seeds are numbered with

VARIABLES
  line, call,   \* the problem, and how solve was called
  phase,        \* "start", "columns", "first", "attempts", "ranked", "fallback", "done"
  done,         \* rounds run so far
  pool,         \* "none", "open", "closed"
  running,      \* this round's attempts in a pool process (grid indices)
  finished,     \* this round's attempts that returned
  cursor,       \* how many of them the ranking has read
  came,         \* candidate -> outcome, for those that have run
  best,         \* [valid, partial, gated]: a candidate or Nobody
  spent, last,  \* the clock: so far, and the last round's
  answer        \* [path, from], or NoAnswer

vars == <<line, call, phase, done, pool, running, finished, cursor, came, best, spent, last, answer>>

Nobody == <<>>
NoAnswer == <<>>

CeilDiv(a, b) == (a + b - 1) \div b

(* The weightings are distinct, and the bank columns are no attempt.       *)
ASSUME GridAssumption ==
  /\ Modes \in Seq(Range(Modes)) /\ Modes # <<>>
  /\ \A i, j \in DOMAIN Modes : Modes[i] = Modes[j] => i = j
  /\ Columns # Nobody /\ Columns \notin Range(Modes) \X Nat

ASSUME OutcomeAssumption ==
  \A o \in Outcome : o.kind \in {"valid", "partial", "gated"} /\ o.rank \in Int

ASSUME LineAssumption == \A l \in Lines : l.fits \in BOOLEAN

(* What solve accepts: at least one attempt, process and round, and not    *)
(* both a round count and a budget.                                        *)
ASSUME CallAssumption ==
  /\ NoLimit \notin Nat
  /\ Calls \subseteq [optimize : BOOLEAN, attempts : Nat \ {0}, jobs : Nat \ {0},
                      rounds : (Nat \ {0}) \cup {NoLimit}, budget : Nat \cup {NoLimit}]
  /\ \A c \in Calls : c.rounds = NoLimit \/ c.budget = NoLimit

ASSUME TimeAssumption == Durations \subseteq Nat /\ MaxBudgetRounds \in Nat \ {0}

(* The most rounds a call may come to.                                     *)
MostRounds(c) ==
  IF c.rounds # NoLimit THEN c.rounds ELSE IF c.budget # NoLimit THEN MaxBudgetRounds ELSE 1

ASSUME SeedAssumption ==
  MaxSeed \in Nat /\ \A c \in Calls : MostRounds(c) * CeilDiv(c.attempts, Len(Modes)) <= MaxSeed

(* One attempt, one round.                                                 *)
Minimal(c) == [c EXCEPT !.attempts = 1, !.rounds = NoLimit, !.budget = NoLimit]

(* Mutant: the next round starts one seed on, whatever a round takes.      *)
SeedOverlapping(r, k) == r + ((k - 1) \div Len(Modes))

SeedOf(r, k) == r * CeilDiv(call.attempts, Len(Modes)) + ((k - 1) \div Len(Modes))

(* Entry k of round r's grid: every mode of a seed before the next seed.   *)
Attempt(r, k) == <<Modes[((k - 1) % Len(Modes)) + 1], SeedOf(r, k)>>

Index == 1 .. call.attempts

Workers == Min({call.jobs, call.attempts - 1})

(* Every variable keeps its shape, and no more attempts run at once than   *)
(* there are processes.                                                    *)
TypeOK ==
  /\ line \in Lines /\ call \in Calls \cup {Minimal(c) : c \in Calls}
  /\ phase \in {"start", "columns", "first", "attempts", "ranked", "fallback", "done"}
  /\ done \in Nat /\ cursor \in 0 .. call.attempts
  /\ pool \in {"none", "open", "closed"}
  /\ running \subseteq Index \ finished /\ finished \subseteq Index
  /\ running # {} => pool = "open" /\ Cardinality(running) <= Workers
  /\ Range(came) \subseteq Outcome
  /\ Range(best) \subseteq DOMAIN came \cup {Nobody}
  /\ phase = "done" <=> answer # NoAnswer
  /\ phase = "done" => pool # "open"

-----------------------------------------------------------------------------
Init ==
  /\ line \in Lines /\ call \in Calls
  /\ phase = "start"
  /\ done = 0
  /\ pool = "none"
  /\ running = {} /\ finished = {} /\ cursor = 0
  /\ came = <<>>
  /\ best = [valid |-> Nobody, partial |-> Nobody, gated |-> Nobody]
  /\ spent = 0 /\ last = 0
  /\ answer = NoAnswer

Idle == UNCHANGED <<running, finished, cursor, spent, last>>

Conclude(path, from) ==
  /\ phase' = "done"
  /\ answer' = [path |-> path, from |-> from]
  /\ pool' = IF pool = "open" THEN "closed" ELSE pool
  /\ Idle /\ UNCHANGED <<line, call, came, best>>

(* The fast path lays the constructive placement as it stands; a line with *)
(* ME blocks gets one minimal attempt instead, whatever limits were given. *)
SolveFast ==
  /\ phase = "start" /\ ~call.optimize /\ ~line.me
  /\ Conclude("constructive", Nobody)
  /\ UNCHANGED done

StartSearch ==
  /\ phase = "start" /\ (call.optimize \/ line.me)
  /\ phase' = "columns"
  /\ call' = IF call.optimize THEN call ELSE Minimal(call)
  /\ Idle /\ UNCHANGED <<line, done, pool, came, best, answer>>

(* How long a step may take; only a budget reads the clock.                *)
Elapsed == IF call.budget = NoLimit THEN {0} ELSE Durations

(* The bank-column candidate is routed first; only a VALID one is kept.    *)
RouteColumns ==
  /\ phase = "columns"
  /\ phase' = "first"
  /\ \/ UNCHANGED <<came, best>>
     \/ \E o \in Outcome : /\ o.kind = "valid"
                           /\ came' = [a \in {Columns} |-> o]
                           /\ best' = [best EXCEPT !.valid = Columns]
  /\ spent' \in Elapsed \cup {0}
  /\ UNCHANGED <<line, call, done, pool, running, finished, cursor, last, answer>>

(* What entry k of the current grid comes to.                              *)
ComesTo(k, o) ==
  LET a == Attempt(done, k) IN
  /\ o \in (IF a \in DOMAIN came THEN {came[a]} ELSE Outcome)
  /\ came' = [b \in DOMAIN came \cup {a} |-> IF b = a THEN o ELSE came[b]]

(* Machines that do not fit the region: every attempt finds the same.      *)
Infeasible ==
  /\ phase = "first" /\ ~line.fits
  /\ Conclude("infeasible", Nobody)
  /\ done' = done + 1

(* The first attempt runs here; when it was slow, and there are processes  *)
(* to use and attempts left, a pool is started for the rest of the solve.  *)
RunFirst ==
  /\ phase = "first" /\ line.fits
  /\ \E o \in Outcome : ComesTo(1, o)
  /\ finished' = {1}
  /\ phase' = "attempts"
  /\ \E slow \in BOOLEAN :
       pool' = IF slow /\ call.jobs > 1 /\ call.attempts > 1 THEN "open" ELSE pool
  /\ UNCHANGED <<line, call, done, running, cursor, best, spent, last, answer>>

(* Mutant: the round's last attempt is cut off the grid.                   *)
UnstartedShort == (1 .. call.attempts - 1) \ (finished \cup running)

Unstarted == Index \ (finished \cup running)

RunHere ==
  /\ phase = "attempts" /\ pool = "none" /\ Unstarted # {}
  /\ \E o \in Outcome : ComesTo(Min(Unstarted), o)
  /\ finished' = finished \cup {Min(Unstarted)}
  /\ UNCHANGED <<line, call, phase, done, pool, running, cursor, best, spent, last, answer>>

(* Mutant: a pool of as many processes as there are attempts.              *)
FreeProcessAlways == TRUE

FreeProcess == Cardinality(running) < Workers

(* A free pool process takes the earliest submitted attempt.               *)
PoolTakes ==
  /\ phase = "attempts" /\ pool = "open" /\ Unstarted # {}
  /\ FreeProcess
  /\ running' = running \cup {Min(Unstarted)}
  /\ UNCHANGED <<line, call, phase, done, pool, finished, cursor, came, best, spent, last, answer>>

PoolReturns(k) ==
  /\ phase = "attempts" /\ k \in running
  /\ \E o \in Outcome : ComesTo(k, o)
  /\ running' = running \ {k}
  /\ finished' = finished \cup {k}
  /\ UNCHANGED <<line, call, phase, done, pool, cursor, best, spent, last, answer>>

-----------------------------------------------------------------------------
(* Ranking                                                                 *)

(* Mutant: a tie goes to the later candidate.                              *)
BetterOrTied(a, b) == b = Nobody \/ came[a].rank <= came[b].rank

Better(a, b) == b = Nobody \/ came[a].rank < came[b].rank

(* Mutant: a placement the gate turned away is forgotten.                  *)
ReadForgetting(a) ==
  LET kind == came[a].kind IN
  IF kind = "gated" \/ ~Better(a, best[kind]) THEN best ELSE [best EXCEPT ![kind] = a]

(* What is kept once attempt a is read: the better of a kind, but of the   *)
(* placements the gate turned away the first.                              *)
Read(a) ==
  LET kind == came[a].kind
      kept == IF kind = "gated" THEN best.gated # Nobody ELSE ~Better(a, best[kind])
  IN  IF kept THEN best ELSE [best EXCEPT ![kind] = a]

(* The round is over: its attempts are read one by one in grid order.      *)
RankNext ==
  /\ phase = "attempts" /\ finished = Index /\ cursor < call.attempts
  /\ best' = Read(Attempt(done, cursor + 1))
  /\ cursor' = cursor + 1
  /\ UNCHANGED <<line, call, phase, done, pool, running, finished, came, spent, last, answer>>

(* Mutant: the last round alone is held against the budget.                *)
FitsBudgetAlone(elapsed, took) == took <= call.budget

FitsBudget(elapsed, took) == elapsed + took <= call.budget

(* _another_round, after n rounds.                                         *)
AnotherRound(n, elapsed, took) ==
  IF call.rounds # NoLimit THEN n < call.rounds
  ELSE call.budget # NoLimit /\ n < MaxBudgetRounds /\ FitsBudget(elapsed, took)

EndRound ==
  /\ phase = "attempts" /\ cursor = call.attempts
  /\ done' = done + 1
  /\ \E took \in Elapsed :
       /\ last' = took
       /\ spent' = spent + took
       /\ IF AnotherRound(done + 1, spent + took, took)
            THEN /\ finished' = {} /\ cursor' = 0
                 /\ UNCHANGED <<phase, pool>>
            ELSE /\ phase' = "ranked"
                 /\ pool' = IF pool = "open" THEN "closed" ELSE pool
                 /\ UNCHANGED <<finished, cursor>>
  /\ UNCHANGED <<line, call, running, came, best, answer>>

-----------------------------------------------------------------------------
(* The answer                                                              *)

FinishValid ==
  /\ phase = "ranked" /\ best.valid # Nobody
  /\ Conclude("valid", best.valid)
  /\ UNCHANGED done

(* Mutant: the fast path's layout is only laid when nothing was routed.    *)
NoneValidNorPartial == phase = "ranked" /\ best.valid = Nobody /\ best.partial = Nobody

(* No attempt came out VALID: the fast path's placement is laid, when it   *)
(* can be placed and passes the crowding gate.                             *)
NoneValid == phase = "ranked" /\ best.valid = Nobody

FinishFast ==
  /\ NoneValid /\ line.fast = "valid"
  /\ Conclude("fast", Nobody)
  /\ UNCHANGED done

NotFast ==
  /\ phase = "ranked" /\ best.valid = Nobody /\ ~(NoneValid /\ line.fast = "valid")
  /\ phase' = "fallback"
  /\ Idle /\ UNCHANGED <<line, call, done, pool, came, best, answer>>

FinishPartial ==
  /\ phase = "fallback" /\ best.partial # Nobody
  /\ Conclude("partial", best.partial)
  /\ UNCHANGED done

(* Nothing was ever routed: the first placement turned away is, and the    *)
(* routers say what it comes to.                                           *)
FinishGated ==
  /\ phase = "fallback" /\ best.partial = Nobody
  /\ Conclude("gated", best.gated)
  /\ UNCHANGED done

Next ==
  \/ SolveFast \/ StartSearch \/ RouteColumns \/ Infeasible \/ RunFirst
  \/ RunHere \/ PoolTakes \/ (\E k \in Index : PoolReturns(k))
  \/ RankNext \/ EndRound
  \/ FinishValid \/ FinishFast \/ NotFast \/ FinishPartial \/ FinishGated

(* Every attempt returns (its stages are bounded), here or in a process.   *)
Spec == Init /\ [][Next]_vars /\ WF_vars(Next)

-----------------------------------------------------------------------------
(* Properties                                                              *)

ModeRank(m) == CHOOSE i \in DOMAIN Modes : Modes[i] = m

(* The bank columns first, then by seed, then by mode.                     *)
Earlier(a, b) ==
  \/ a = Columns /\ b # Columns
  \/ /\ a # Columns /\ b # Columns
     /\ \/ a[2] < b[2]
        \/ a[2] = b[2] /\ ModeRank(a[1]) < ModeRank(b[1])

Candidate == {Columns} \cup (Range(Modes) \X (0 .. MaxSeed))

Grid == INSTANCE BestOfGrid WITH
  Candidate <- Candidate, Earlier <- Earlier, Outcome <- Outcome,
  line <- line, came <- came,
  answer <- IF phase = "done" /\ answer.path = "constructive" THEN NoAnswer ELSE answer

(* Whatever processes ran the attempts and in whatever order they came     *)
(* back, the answer is the one their outcomes and the grid order give      *)
(* ("a given input and seed yields the same layout whatever jobs is and    *)
(* however the timing falls").                                             *)
Promise == Grid!Spec

(* Optimizing is never worse than not (#132): on a line whose machines     *)
(* the annealer's seed can place, a VALID fast layout means a VALID answer.*)
NeverWorseThanFast ==
  phase = "done" /\ line.fits /\ line.fast = "valid" =>
    answer.path \in {"valid", "fast", "constructive"}

(* "No two rounds anneal the same seed": n rounds are n grids' worth of    *)
(* different attempts, also when the grid is no whole number of seeds.     *)
RoundsAreFresh ==
  phase = "attempts" /\ cursor = call.attempts =>
    Cardinality(DOMAIN came \ {Columns}) = (done + 1) * call.attempts

(* The assertion of _search: when no attempt was routed, the gate turned   *)
(* one away and its placement is at hand.                                  *)
ParachuteAtHand ==
  phase = "fallback" /\ best.partial = Nobody => best.gated # Nobody

(* The budget is a soft ceiling, overrun by less than the last round: what *)
(* was spent before a later round began still fitted.                      *)
BudgetIsSoft ==
  call.budget # NoLimit /\ done > 1 => spent - last <= call.budget

(* What the solve promises about the rounds it buys: fresh, and overrunning *)
(* the budget by less than one of them, with no more attempts at once than *)
(* there are processes.                                                    *)
RoundsHold == TypeOK /\ RoundsAreFresh /\ BudgetIsSoft

(* Every call answers: no attempt is waited for that nobody runs.          *)
Terminates == <>(phase = "done")
=============================================================================
