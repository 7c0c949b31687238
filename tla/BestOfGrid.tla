------------------------------ MODULE BestOfGrid ------------------------------
(***************************************************************************)
(* What solve() of src/gtnh_solver/solver/core.py promises of its          *)
(* multi-start (module docstring): the attempts come in in any order, and  *)
(* the answer is a function of what they came to and never of the order.   *)
(***************************************************************************)
EXTENDS Integers

CONSTANTS
  Candidate,         \* the attempts and the bank-column candidate
  Earlier(_, _),     \* the order they are ranked in
  Outcome            \* [kind |-> "valid" | "partial" | "gated", rank |-> a number]

VARIABLES
  line,     \* fits: the machines can be placed; fast: what the fast path's layout came to
  came,     \* candidate -> outcome, for those that have run
  answer    \* [path, from], or NoAnswer

absVars == <<line, came, answer>>

NoAnswer == <<>>

Nobody == <<>>   \* the answer is the layout of no candidate

Kind(k) == {a \in DOMAIN came : came[a].kind = k}

FirstOf(S) == CHOOSE a \in S : \A b \in S : a = b \/ Earlier(a, b)

(* Least rank, and among equals the earliest.                              *)
BestOf(S) == FirstOf({a \in S : \A b \in S : came[a].rank <= came[b].rank})

(* The best VALID layout, else the fast path's if that is VALID, else the  *)
(* fewest unrouted nets, else the first placement the gate turned away.    *)
Verdict ==
  CASE ~line.fits                                -> [path |-> "infeasible", from |-> Nobody]
    [] line.fits /\ Kind("valid") # {}           -> [path |-> "valid", from |-> BestOf(Kind("valid"))]
    [] line.fits /\ Kind("valid") = {} /\ line.fast = "valid"
                                                 -> [path |-> "fast", from |-> Nobody]
    [] line.fits /\ Kind("valid") = {} /\ line.fast # "valid" /\ Kind("partial") # {}
                                                 -> [path |-> "partial", from |-> BestOf(Kind("partial"))]
    [] OTHER                                     -> [path |-> "gated", from |-> FirstOf(Kind("gated"))]

Init == came = <<>> /\ answer = NoAnswer /\ line.fits \in BOOLEAN

ComeIn ==
  /\ answer = NoAnswer
  /\ \E a \in Candidate \ DOMAIN came, o \in Outcome :
       came' = [b \in DOMAIN came \cup {a} |-> IF b = a THEN o ELSE came[b]]
  /\ UNCHANGED <<line, answer>>

Answer ==
  /\ answer = NoAnswer
  /\ ~line.fits \/ came # <<>>
  /\ answer' = Verdict
  /\ UNCHANGED <<line, came>>

Next == ComeIn \/ Answer

Spec == Init /\ [][Next]_absVars
===============================================================================
