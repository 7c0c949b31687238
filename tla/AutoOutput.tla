----------------------------- MODULE AutoOutput -----------------------------
(***************************************************************************)
(* Where connections may meet a placed machine (router/_grid.py), and      *)
(* which producers need no pipe because GT lets them eject straight into   *)
(* the consumer they touch (router/auto.py).  The router decides it once,  *)
(* net by net in problem order, and every decision spends something: a     *)
(* single block its one ejecting face, a multiblock a casing cell.         *)
(***************************************************************************)
EXTENDS Line, SequencesExt

-----------------------------------------------------------------------------
(* Where connections may meet a placed machine (router/_grid.py): the      *)
(* obstacles every router avoids, the casing cells that may host a port's  *)
(* hatch, the cells outside them a route may dock on, and the unit two     *)
(* connections of one machine contend over.  A layout L maps each placed   *)
(* machine to [cell, front].                                               *)

Body(m, at) == BoxCells(at.cell, Turned(Machine[m].size, at.front))

\* A muffler vents through the one face that leaves its own structure.
HatchFaces(m, at, kind, layers) ==
    LET body == Body(m, at)
        slots == {s \in Machine[m].slots : kind \in s.kinds /\ s.layer \in layers}
        hosts == {Plus(at.cell, RotatedSlot(s.off, Machine[m].size, at.front)) : s \in slots}
    IN {h \in {<<c, f, Step(c, f)>> : c \in hosts, f \in Faces \ {at.front}} : h[3] \notin body}

AnyLayer(m) == {s.layer : s \in Machine[m].slots}

\* The cell a muffler with no other choice must keep clear.
VentCells(L) ==
    UNION {LET vents == {h[3] : h \in HatchFaces(m, L[m], "Muffler", AnyLayer(m))}
           IN IF Cardinality(vents) = 1 THEN vents ELSE {} : m \in DOMAIN L}

ObstacleCells(L) == Reserved \cup VentCells(L) \cup UNION {Body(m, L[m]) : m \in DOMAIN L}

\* The cells a filter's output may leave by, each with the nets it feeds.
FilterBacks(L) ==
    LET outlets == UNION {{<<m, q.id>> : q \in {r \in PortsOf(m) : r.com = "item" /\ r.dir = "out"}} :
                             m \in {k \in DOMAIN L : Machine[k].filter # {}}}
        behind(o) == {Step(c, f) : c \in Body(o[1], L[o[1]]),
                                   f \in AllowedFaces(o[1], o[2], L[o[1]].front)}
    IN [c \in UNION {behind(o) : o \in outlets} |->
           {n.id : n \in {x \in NetSet : \E o \in outlets : c \in behind(o) /\ o \in Ends(x)}}]

-----------------------------------------------------------------------------
(* Docking one port.  A machine with no recorded slots may be met at any   *)
(* cell of its body.                                                       *)

HostCells(m, p, at) ==
    IF ~IsMultiblock(m) THEN Body(m, at)
    ELSE {Plus(at.cell, RotatedSlot(s.off, Machine[m].size, at.front)) : s \in SlotsFor(m, p)}

\* A multiblock contends over casing cells, a single block over the cells
\* outside it: a claim rules out a host or a dock accordingly.
DockCandidates(m, p, at, obstacles, docked, claimed) ==
    LET body == Body(m, at)
        hosts == HostCells(m, p, at) \ (IF IsMultiblock(m) THEN claimed ELSE {})
        shut == body \cup obstacles \cup docked \cup (IF IsMultiblock(m) THEN {} ELSE claimed)
    IN {t \in {[machine |-> m, port |-> p, face |-> f, cell |-> Step(c, f)] :
                   c \in hosts, f \in AllowedFaces(m, p, at.front)} :
           t.cell \notin shut /\ InRegion(t.cell, Region)}

BodyCell(t) == Step(t.cell, Opposite[t.face])

ClaimKey(t) == IF IsMultiblock(t.machine) THEN BodyCell(t) ELSE t.cell

ClaimsByMachine(terminals) ==
    [m \in Machines |-> {ClaimKey(t) : t \in {u \in terminals : u.machine = m}}]

-----------------------------------------------------------------------------
(* Free connections.                                                       *)

FaceRank == [f \in Faces |-> CHOOSE i \in 1 .. 6 : FaceOrder[i] = f]

\* A single block ejects every output slot of a kind through one face.
EjectsAlone(m, com) ==
    IsMultiblock(m) \/ Cardinality({q \in PortsOf(m) : q.dir = "out" /\ q.com = com}) = 1

\* The producers of a net that may eject into its one consumer.  With several
\* producers the consumer keeps its pipe, so it must be a single block.
AutoCandidates(n) ==
    LET from == Producers(n)
        to == Consumers(n)
    IN IF n.com = "power" \/ RidesMe(n) \/ Len(to) # 1 \/ from = <<>> THEN <<>>
       ELSE IF Len(from) = 1 THEN from
       ELSE IF IsMultiblock(to[1][1]) THEN <<>>
       ELSE SelectSeq(from, LAMBDA e : EjectsAlone(e[1], n.com))

\* The faces and the touching pair of host cells a free connection would use,
\* in face order and then by ascending source cell; NoPair when there is none.
NoPair == <<>>
FirstPair(pairs) ==
    IF pairs = {} THEN NoPair
    ELSE CHOOSE p \in pairs : \A q \in pairs :
             p = q \/ FaceRank[p[1]] < FaceRank[q[1]] \/ (p[1] = q[1] /\ CellLess(p[2], q[2]))

AutoPair(src, dst, L, claimed) ==
    LET hosts == HostCells(src[1], src[2], L[src[1]]) \ claimed[src[1]]
        targets == HostCells(dst[1], dst[2], L[dst[1]]) \ claimed[dst[1]]
        faces == {f \in AllowedFaces(src[1], src[2], L[src[1]].front) :
                     Opposite[f] \in AllowedFaces(dst[1], dst[2], L[dst[1]].front)}
    IN FirstPair({p \in faces \X hosts : Step(p[2], p[1]) \in targets})

NothingClaimed == [m \in Machines |-> {}]

\* The placement cost's question: the router's rule with nothing claimed yet.
AutoOutputPossible(src, dst, L) == AutoPair(src, dst, L, NothingClaimed) # NoPair

-----------------------------------------------------------------------------
(* The router's decision, with what it has spent so far.                   *)

Spend(claimed, m, c) == IF IsMultiblock(m) THEN [claimed EXCEPT ![m] = @ \cup {c}] ELSE claimed

Claim(a, n, src, dst, pair) ==
    IF pair = NoPair THEN a
    ELSE [a EXCEPT !.spent = @ \cup {src[1]},
                   !.claimed = Spend(Spend(@, src[1], pair[2]), dst[1], Step(pair[2], pair[1])),
                   !.autos = Append(@, [net |-> n.id, src |-> src, face |-> pair[1], dst |-> dst])]

Connect(a, n, src, L) ==
    LET dst == Consumers(n)[1]
    IN Claim(a, n, src, dst, IF src[1] \in a.spent /\ ~IsMultiblock(src[1]) THEN NoPair
                             ELSE AutoPair(src, dst, L, a.claimed))

\* A net is covered once every producer ejects; fed holds the ends whose
\* connection is free on a net that still needs a pipe.
Settle(n, a, ejecting) ==
    IF ejecting = {} THEN a
    ELSE IF Cardinality(ejecting) = Len(Producers(n)) THEN [a EXCEPT !.covered = @ \cup {n.id}]
    ELSE [a EXCEPT !.fed = @ \cup {<<n.id, e>> : e \in ejecting}]

AssignNet(a, n, L) ==
    LET on(acc) == {acc.autos[i].src : i \in {j \in DOMAIN acc.autos : acc.autos[j].net = n.id}}
        settle(acc) == Settle(n, acc, on(acc))
    IN settle(FoldLeft(LAMBDA acc, src : Connect(acc, n, src, L), a, AutoCandidates(n)))

AssignAutoOutputs(L) ==
    FoldLeft(LAMBDA a, n : AssignNet(a, n, L),
             [spent |-> {}, claimed |-> NothingClaimed, autos |-> <<>>, covered |-> {}, fed |-> {}],
             Nets)

\* The ends a net's pipe still has to reach.
PipedEnds(n, a) == Sifted(n.ends, {i \in DOMAIN n.ends : <<n.id, n.ends[i]>> \notin a.fed})
=============================================================================
