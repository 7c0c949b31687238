---------------------------- MODULE MCNegotiation ----------------------------
(***************************************************************************)
(* A small instance of Negotiation.  Five resources stand for four cells   *)
(* and a casing key: nets b and q meet in the choke c1 neither can avoid,  *)
(* a holds the c2 that q and p can go round, and x has no dock.  The       *)
(* brittle b may fail although it has trees, and the nets left could all   *)
(* be routed.                                                              *)
(***************************************************************************)
EXTENDS Negotiation, TLC

CONSTANTS a, b, p, q, x, c1, c2, c3, c4, k1

MCNet == {a, b, p, q, x}
MCPower == {p, q}
MCResource == {c1, c2, c3, c4, k1}
MCDockless == {x}
MCBrittle == {b}
MCRank == (a :> 1) @@ (p :> 2) @@ (b :> 3) @@ (x :> 4) @@ (q :> 5)

MCTrees ==
  (a :> {{c2}, {c2, c3}}) @@ (p :> {{c2, c4}, {c3, c4}, {k1}}) @@
  (b :> {{c1}, {c1, c4}}) @@ (q :> {{c1, c2}, {c1, k1}}) @@ (x :> {})
=============================================================================
