--------------------------- MODULE MCSteinerSearch ---------------------------
(***************************************************************************)
(* Calls on a 3 x 3 floor with one wall.  Every choice of prices, dock     *)
(* groups and starts below is one call.                                    *)
(***************************************************************************)
EXTENDS SteinerSearch

MCHard == {Enc(1, 0, 1)}
MCMachine == <<"m1", "m2", "m1">>

Free == Cell \ MCHard

(* Entry costs: the joint start from two docks, and a tree already laid.   *)
SeedChoices ==
  {[c \in {Enc(0,0,0), Enc(0,0,2)} |-> IF c = Enc(0,0,0) THEN e ELSE 0] : e \in {0, 3}} \cup
  {[c \in {Enc(0,0,0)} |-> 0], [c \in {Enc(0,0,0), Enc(1,0,0)} |-> 0]}

(* Priced corners, a priced doorway, nothing priced.                       *)
ExtraChoices ==
  {[c \in Cell |-> IF c \in priced THEN e ELSE 0] :
     priced \in SUBSET {Enc(1,0,0), Enc(2,0,1), Enc(0,0,1)}, e \in {1, 4}}

(* Endpoints 1 and 3 are two connections of machine m1.                    *)
GoalChoices ==
  {[i \in {1, 2, 3} |-> CASE i = 1 -> one [] i = 2 -> two [] i = 3 -> three] :
     one \in {{Enc(2,0,0)}, {Enc(1,0,0), Enc(2,0,2)}},
     two \in {{Enc(2,0,2)}, {Enc(1,0,2), Enc(2,0,0)}, {Enc(2,0,2), Enc(2,0,1)}},
     three \in {{Enc(2,0,2)}, {Enc(2,0,0), Enc(1,0,2)}}}

FeeChoices ==
  {[i \in {1, 2, 3} |-> [c \in Cell |-> IF c = Enc(2,0,2) /\ i # 2 THEN f[i] ELSE 0]] :
     f \in {<<0, 0, 0>>, <<3, 0, 0>>, <<2, 0, 5>>}}

BlockedChoices == {{}, {Enc(2,0,0)}, {Enc(1,0,0), Enc(1,0,2)}}

MCQueries ==
  {[seeds |-> s, goals |-> g, machine |-> MCMachine, extra |-> x, fee |-> f, blocked |-> b] :
     s \in SeedChoices, g \in GoalChoices, x \in ExtraChoices,
     f \in FeeChoices, b \in BlockedChoices}
=============================================================================
