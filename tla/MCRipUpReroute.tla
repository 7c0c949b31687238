--------------------------- MODULE MCRipUpReroute ---------------------------
(***************************************************************************)
(* Three tier nets over four cells.  Each net lists the trunks it would    *)
(* lay, best first, and lays the first that is free: a wide net takes more *)
(* than the choke c1, a narrow one may have one way, or none at all.       *)
(***************************************************************************)
EXTENDS RipUpReroute, Sequences, TLC

CONSTANTS lv, mv, hv, c1, c2, c3, c4

MCNet == {lv, mv, hv}
MCCell == {c1, c2, c3, c4}
MCRank == (lv :> 1) @@ (mv :> 2) @@ (hv :> 3)

Ways == {<<>>, <<{c1}, {c2}>>, <<{c2}>>, <<{c1, c3}, {c3, c4}>>, <<{c3}, {c1, c2}>>,
         <<{c2, c3}, {c1}>>, <<{c4, c1}, {c2}>>}

FirstFree(ways, taken) ==
  LET free == {i \in DOMAIN ways : ways[i] \cap taken = {}} IN
  IF free = {} THEN {} ELSE ways[CHOOSE i \in free : \A j \in free : i <= j]

Tabled(ways) == [taken \in SUBSET MCCell |-> FirstFree(ways, taken)]

MCLays == {[n \in Net |-> Tabled(w[n])] : w \in [Net -> Ways]}
=============================================================================
