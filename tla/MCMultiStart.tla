---------------------------- MODULE MCMultiStart ----------------------------
(***************************************************************************)
(* Two weightings, and rounds of up to four attempts, a whole number of    *)
(* seeds or not, in a pool or here; up to three rounds.                    *)
(***************************************************************************)
EXTENDS MultiStart, TLC

CONSTANTS footprint, volume, columns, none

TwoModes == <<volume, footprint>>

Out(kind, rank) == [kind |-> kind, rank |-> rank]

MCOutcome == {Out("partial", 1), Out("valid", 1), Out("valid", 2), Out("gated", 0)}

MCLines == [fits : BOOLEAN, me : {FALSE}, fast : {"valid", "partial"}] \cup
           [fits : {TRUE}, me : {TRUE}, fast : {"partial"}]

Once(optimize, attempts, jobs) ==
  [optimize |-> optimize, attempts |-> attempts, jobs |-> jobs,
   rounds |-> NoLimit, budget |-> NoLimit]

(* The fast path, one round in every way it can run, and rounds bought by  *)
(* count or by the clock.                                                  *)
MCCalls ==
  {Once(FALSE, 3, 3), Once(TRUE, 4, 2), Once(TRUE, 3, 1), Once(TRUE, 1, 3),
   [Once(TRUE, 3, 1) EXCEPT !.rounds = 2], [Once(TRUE, 2, 2) EXCEPT !.rounds = 2],
   [Once(TRUE, 1, 1) EXCEPT !.rounds = 3],
   [Once(TRUE, 1, 1) EXCEPT !.budget = 3], [Once(TRUE, 1, 1) EXCEPT !.budget = 5],
   [Once(TRUE, 1, 4) EXCEPT !.budget = 0]}
=============================================================================
