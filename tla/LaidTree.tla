------------------------------ MODULE LaidTree ------------------------------
(***************************************************************************)
(* The trees the two routers hand back, as the stages after them see them: *)
(* a terminal per end, in net order, and the cells between, laid leg by    *)
(* leg.  How a tree is found is SteinerTree's and PowerTrunk's matter;     *)
(* here each end taps the tree where it can and else takes a shortest leg, *)
(* and where several would do, any.                                        *)
(*                                                                         *)
(* A tree is [terminals, segs, cells, held]; segs are <<parent, child>> in *)
(* the order laid, held the units <<machine, claim key>> it contends over. *)
(***************************************************************************)
EXTENDS AutoOutput

NoTree == [terminals |-> <<>>, segs |-> <<>>, cells |-> {}, held |-> {}]

Rooted(t) == [terminals |-> <<t>>, segs |-> <<>>, cells |-> {t.cell},
              held |-> {<<t.machine, ClaimKey(t)>>}]

\* Steps from the tree to every free cell it can reach.
RECURSIVE Flood(_, _, _)
Flood(far, k, free) ==
    LET edge == {c \in DOMAIN far : far[c] = k - 1}
        next == {c \in (UNION {Around(e) : e \in edge}) \cap free : c \notin DOMAIN far}
    IN IF next = {} THEN far
       ELSE Flood([c \in DOMAIN far \cup next |-> IF c \in next THEN k ELSE far[c]], k + 1, free)
Distances(from, free) == Flood([c \in from |-> 0], 1, free)

\* Every shortest way back from a path's head to the tree.
RECURSIVE WaysBack(_, _)
WaysBack(path, far) ==
    IF far[Head(path)] = 0 THEN {path}
    ELSE UNION {WaysBack(<<c>> \o path, far) :
                   c \in {d \in Around(Head(path)) \cap DOMAIN far : far[d] = far[Head(path)] - 1}}

Hops(path) == [k \in 1 .. Len(path) - 1 |-> <<path[k], path[k + 1]>>]

Join(tree, t, path) ==
    [terminals |-> Append(tree.terminals, t), segs |-> tree.segs \o Hops(path),
     cells |-> tree.cells \cup Range(path), held |-> tree.held \cup {<<t.machine, ClaimKey(t)>>}]

NearestDocks(docks, far) ==
    LET reached == {t \in docks : t.cell \in DOMAIN far}
    IN {t \in reached : \A u \in reached : far[t.cell] <= far[u.cell]}

ByLeg(tree, docks, far) ==
    UNION {{Join(tree, t, path) : path \in WaysBack(<<t.cell>>, far)} : t \in NearestDocks(docks, far)}

FreeCells(shut) == BoxCells(<<0, 0, 0>>, Region) \ shut

\* A tap of the tree where the end may tap, else a shortest leg out of it.
Attached(tree, docks, shut, mayTap) ==
    LET taps == {t \in docks : mayTap /\ t.cell \in tree.cells}
    IN IF taps # {} THEN {Join(tree, t, <<t.cell>>) : t \in taps}
       ELSE ByLeg(tree, {t \in docks : t.cell \notin tree.cells}, Distances(tree.cells, FreeCells(shut)))

Held(tree, m) == {h[2] : h \in {x \in tree.held : x[1] = m}}
DocksOf(e, tree, L, shut, claimed) ==
    DockCandidates(e[1], e[2], L[e[1]], shut, {}, claimed[e[1]] \cup Held(tree, e[1]))

\* Every tree a pipe of these ends may come out as, none when an end cannot
\* be docked or reached.
RECURSIVE Grown(_, _, _, _, _)
Grown(tree, ends, L, shut, claimed) ==
    IF ends = <<>> THEN {tree}
    ELSE UNION {Grown(t, Tail(ends), L, shut, claimed) :
                   t \in Attached(tree, DocksOf(Head(ends), tree, L, shut, claimed), shut, TRUE)}

Trees(ends, L, shut, claimed) ==
    UNION {Grown(Rooted(t), Tail(ends), L, shut, claimed) :
              t \in DocksOf(Head(ends), NoTree, L, shut, claimed)}

\* The cell behind a filter takes whatever the filter pushes, so only a net
\* the filter feeds may run there.
ForeignBacks(id, L) == {c \in DOMAIN FilterBacks(L) : id \notin FilterBacks(L)[c]}
=============================================================================
