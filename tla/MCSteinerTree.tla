---------------------------- MODULE MCSteinerTree ----------------------------
(***************************************************************************)
(* Nets of two and three endpoints on a 3 x 3 floor with one wall: the     *)
(* docks of machine m0 lie west, those of the others east, with one cell   *)
(* that two machines share.                                                *)
(***************************************************************************)
EXTENDS SteinerTree

MCHard == {Enc(1, 0, 1)}

(* What a net's endpoints have, from endpoint 0 on.                        *)
Net(items) == [i \in 0 .. Len(items) - 1 |-> items[i + 1]]
Pair == Net(<<"m0", "m1">>)
Apart3 == Net(<<"m0", "m1", "m2">>)
Twice == Net(<<"m0", "m1", "m1">>)
FirstTwice == Net(<<"m0", "m0", "m1">>)

West == {{Enc(0,0,1)}, {Enc(0,0,0), Enc(0,0,2)}, {Enc(0,0,0), Enc(0,0,1), Enc(1,0,0)}}
East == {{Enc(2,0,0), Enc(1,0,2)}, {Enc(1,0,0), Enc(2,0,2)}}

(* A single block claims its dock cell and pays no casing price; a         *)
(* multiblock claims the casing cell behind it, which may face two docks.  *)
Corner == {Enc(1,0,0), Enc(2,0,0)}
Docking(machine) ==
  LET ownKey == [i \in DOMAIN machine |-> [c \in Cell |-> c]]
      casing == [i \in DOMAIN machine |-> [c \in Cell |-> IF c \in Corner THEN 99 ELSE c]]
      free == [i \in DOMAIN machine |-> [c \in Cell |-> 0]]
      contended == [i \in DOMAIN machine |->
                      [c \in Cell |-> IF c \in Corner /\ machine[i] = "m1" THEN 2 ELSE 0]]
  IN  {[key |-> ownKey, fee |-> free], [key |-> casing, fee |-> free],
       [key |-> casing, fee |-> contended]}

Prices == {[c \in Cell |-> IF c \in dear THEN 5 ELSE 0] :
             dear \in {{}, {Enc(1,0,0)}, {Enc(0,0,0), Enc(1,0,2)}, {Enc(2,0,1)}}}

(* A plain pipe, a pipe with a cell walled off, a cable.                   *)
Kind == {[blocked |-> {}, trunk |-> FALSE], [blocked |-> {Enc(0,0,0)}, trunk |-> FALSE],
         [blocked |-> {}, trunk |-> TRUE]}

(* prefer is a start an earlier tree really grew from.                     *)
Over(machine, cands) ==
  {r \in {[cand |-> Net(g), machine |-> machine, key |-> k.key, extra |-> x, fee |-> k.fee,
           blocked |-> b.blocked, prefer |-> p, trunk |-> b.trunk] :
            g \in cands, k \in Docking(machine), x \in Prices, b \in Kind,
            p \in {NoCell, Enc(0,0,1)}} :
     r.prefer \in r.cand[0] \cup {NoCell}}

(* Connections of one machine may dock on the same faces, as two inputs of *)
(* it do ...                                                               *)
MCCalls ==
  Over(Pair, {<<w, e>> : w \in West, e \in East \cup West}) \cup
  Over(Apart3, {<<w, e1, e2>> : w \in West, e1 \in East, e2 \in East}) \cup
  Over(Twice, {<<w, e, e>> : w \in West, e \in East}) \cup
  Over(FirstTwice, {<<w, w, e>> : w \in West, e \in East})

(* ... or one of them on a single face the other can take too.             *)
UnevenCalls ==
  Over(Twice, {<<w, {Enc(1,0,0), Enc(2,0,2)}, {c}>> : w \in West, c \in {Enc(1,0,0), Enc(2,0,2)}})
=============================================================================
