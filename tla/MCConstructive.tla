--------------------------- MODULE MCConstructive ---------------------------
(***************************************************************************)
(* Short lines in a shallow region: single blocks, a group of three in     *)
(* each facing, its instance numbers out of flow order or not, a source    *)
(* whose front faces outside, and a box two cells wide.                    *)
(***************************************************************************)
EXTENDS Constructive, TLC

CONSTANTS alone, g, h

Unit1 == [f \in Facing |-> <<1, 1, 1>>]
Wide2 == [f \in Facing |-> IF f \in {"north", "south"} THEN <<2, 1, 1>> ELSE <<1, 1, 2>>]

Block(group, number, facings) ==
  [group |-> group, number |-> number, facings |-> facings, size |-> Unit1, outside |-> FALSE]
Lone == Block(alone, 0, <<"north">>)
Source == [Lone EXCEPT !.outside = TRUE, !.facings = <<"north", "east", "south">>]
Long == [Lone EXCEPT !.size = Wide2, !.facings = <<"west", "north">>]

Triple(group, facing, order) == [k \in 1 .. 3 |-> Block(group, order[k], <<facing>>)]

Call(machines, reserved, lattice) ==
  [machines |-> machines, reserved |-> reserved, lattice |-> lattice]

Orders == {<<1, 2, 3>>, <<2, 3, 1>>}

(* The walls' edges, the floor's middle, a floor nearly taken, and one     *)
(* with a single free cell on the north wall and none on the south.        *)
Reserves == {{}, {<<0, 0, 0>>, <<2, 0, 1>>}, {<<1, 0, 0>>, <<1, 0, 1>>, <<1, 0, 2>>, <<3, 0, 2>>},
             ((0 .. 3) \X {0} \X {0, 2}) \cup {<<1, 0, 1>>},
             ((0 .. 3) \X {0} \X (0 .. 3)) \
                {<<0, 0, 0>>, <<0, 0, 1>>, <<0, 0, 2>>, <<1, 0, 1>>, <<2, 0, 1>>}}

MCLines ==
  {Call(m, r, lattice) :
     m \in UNION {
       {<<Source, Lone>> \o Triple(g, f, o),
        Triple(g, f, o) \o <<Lone, Source>> \o Triple(h, "north", <<1, 2, 3>>),
        <<Long>> \o Triple(g, f, o) \o <<Source>>,
        <<Lone, Lone, Lone, Source, Source>>} : f \in Facing, o \in Orders},
     r \in Reserves, lattice \in BOOLEAN}

(* Nine blocks and a source in a three by four floor with two cells taken. *)
TightLines ==
  {Call([k \in 1 .. 9 |-> Lone] \o <<Source>>, {<<1, 0, 3>>, <<2, 0, 2>>}, TRUE)}
=============================================================================
