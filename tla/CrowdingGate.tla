---------------------------- MODULE CrowdingGate ----------------------------
(***************************************************************************)
(* The gate in front of routing (placement/feasibility.py): the machines   *)
(* of a layout that provably cannot dock every connection they carry.      *)
(*                                                                         *)
(* One view is decided per machine: its own connections, and stand-ins for *)
(* the nets around it that it does not carry, each with the cells it could *)
(* stand on, seated by augmenting paths.                                   *)
(***************************************************************************)
EXTENDS AutoOutput

\* Every end and ME device a router will dock on L, in the order they are
\* asked, with the cells each may take.
ConnectionsAfter(auto, obstacles, L) ==
    LET cells(m, p) == {t.cell : t \in DockCandidates(m, p, L[m], obstacles, {}, auto.claimed[m])}
        ofNet(n) == IF n.id \in auto.covered \/ RidesMe(n) THEN <<>>
                    ELSE LET ends == PipedEnds(n, auto)
                         IN [i \in DOMAIN ends |-> [machine |-> ends[i][1], net |-> n.id,
                                                    cells |-> cells(ends[i][1], ends[i][2])]]
        ofDevices(m) == LET ports == DevicePorts(m)
                        IN [i \in DOMAIN ports |-> [machine |-> m, net |-> <<"me", ports[i][2]>>,
                                                    cells |-> cells(m, ports[i][1])]]
    IN FlattenSeq([i \in DOMAIN Nets |-> ofNet(Nets[i])])
          \o FlattenSeq([i \in DOMAIN MachineOrder |-> ofDevices(MachineOrder[i])])

DockedConnections(L) == ConnectionsAfter(AssignAutoOutputs(L), ObstacleCells(L), L)

\* The cells the nets m does not carry need around it: as many per net as one
\* neighbour's connections on it, each on any cell that net's could take.
StandIns(m, conns) ==
    LET all == {conns[i] : i \in DOMAIN conns}
        own == {c \in all : c.machine = m}
        mine == {c.net : c \in own}
        reach == UNION {c.cells : c \in own}
        near == {c.machine : c \in {d \in all : d.cells \cap reach # {}}} \ {m}
        around == {i \in DOMAIN conns : conns[i].machine \in near /\ conns[i].net \notin mine}
        cells(k) == UNION {conns[i].cells : i \in {j \in around : conns[j].net = k}}
        most(k) == LET count(b) == Cardinality({i \in around : conns[i].machine = b
                                                              /\ conns[i].net = k})
                   IN CHOOSE c \in {count(b) : b \in near} : \A b \in near : count(b) <= c
        nets == SetToSeq({conns[i].net : i \in around})
    IN FlattenSeq([i \in DOMAIN nets |-> [j \in 1 .. most(nets[i]) |-> cells(nets[i])]])

\* One search of an augmenting path: the demand takes a cell nobody holds, or
\* one whose holder can be seated elsewhere.  seen outlives a failed branch.
Nobody == 0
Augment(d, options, taken) ==
    LET cells == UNION Range(options)
        try[at \in [d : DOMAIN options, left : SUBSET cells,
                    taken : [cells -> 0 .. Len(options)], seen : SUBSET cells]] ==
            IF at.left = {} THEN [ok |-> FALSE, taken |-> at.taken, seen |-> at.seen]
            ELSE LET c == FirstCell(at.left)
                     others == [at EXCEPT !.left = @ \ {c}]
                     moved == try[[d |-> at.taken[c], left |-> options[at.taken[c]],
                                   taken |-> at.taken, seen |-> at.seen \cup {c}]]
                 IN IF c \in at.seen THEN try[others]
                    ELSE IF at.taken[c] = Nobody
                         THEN [ok |-> TRUE, taken |-> [at.taken EXCEPT ![c] = at.d], seen |-> at.seen]
                    ELSE IF moved.ok THEN [moved EXCEPT !.taken[c] = at.d]
                    ELSE try[[others EXCEPT !.seen = moved.seen]]
    IN try[[d |-> d, left |-> options[d], taken |-> taken, seen |-> {}]]

\* Mutant: each takes the first free cell and nobody is moved for another.
HostsGreedily(own, standIns) ==
    LET options == standIns \o own
        seat(acc, d) == LET free == options[d] \ acc.taken
                        IN IF free = {} THEN [acc EXCEPT !.ok = @ /\ d <= Len(standIns)]
                           ELSE [acc EXCEPT !.taken = @ \cup {FirstCell(free)}]
    IN FoldLeft(seat, [taken |-> {}, ok |-> TRUE], [d \in DOMAIN options |-> d]).ok

\* Whether every one of own is seated after the stand-ins have been; a
\* stand-in left standing is not held against own.
Hosts(own, standIns) ==
    LET options == standIns \o own
        empty == [c \in UNION Range(options) |-> Nobody]
        seat(acc, d) == LET a == Augment(d, options, acc.taken)
                        IN [taken |-> a.taken,
                            ok |-> acc.ok /\ (a.ok \/ d <= Len(standIns))]
        seated[d \in 0 .. Len(options)] == IF d = 0 THEN [taken |-> empty, ok |-> TRUE]
                                           ELSE seat(seated[d-1], d)
    IN seated[Len(options)].ok

\* ME blocks where AE would close a loop or merge two networks.
MEBlockClashes(L) ==
    LET blocks == {m \in DOMAIN L : Machine[m].role # ""}
        touch(a, b) == \E c \in Body(a, L[a]) : Around(c) \cap Body(b, L[b]) # {}
        joins(a, b) == /\ Machine[a].network = Machine[b].network
                       /\ {Machine[a].role, Machine[b].role} # {"attach"}
                       /\ ~({Machine[a].role, Machine[b].role} \subseteq {"link", "acceptor"})
    IN {a \in blocks : \E b \in blocks \ {a} : touch(a, b) /\ ~joins(a, b)}

Unseated(conns) ==
    LET carried(m) == LET own == Sifted(conns, {i \in DOMAIN conns : conns[i].machine = m})
                      IN [i \in DOMAIN own |-> own[i].cells]
    IN {m \in Machines : carried(m) # <<>> /\ ~Hosts(carried(m), StandIns(m, conns))}

CrowdedMachines(L) == MEBlockClashes(L) \cup UNION {Unseated(conns) : conns \in {DockedConnections(L)}}

-----------------------------------------------------------------------------
(* The shortfall no placement mends: a single block with more connections  *)
(* than faces, or whose pins leave one of them no face of its own.         *)

SingleBlockIOFaces == 5

DockingPorts(m) ==
    LET nets == SelectSeq(Nets, LAMBDA n : ~RidesMe(n))
        onM(n) == SelectSeq(n.ends, LAMBDA e : e[1] = m)
        ends == FlattenSeq([i \in DOMAIN nets |-> onM(nets[i])])
        devices == DevicePorts(m)
    IN [i \in DOMAIN ends |-> ends[i][2]] \o [i \in DOMAIN devices |-> devices[i][1]]

FacesFit(m, ports) ==
    LET faces(p) == AllowedFaces(m, p, Machine[m].facings[1])
        options == [d \in DOMAIN ports |-> {Delta[f] : f \in faces(ports[d])}]
    IN Hosts(options, <<>>)

SingleBlockShortfalls ==
    {m \in Machines :
        /\ Volume(m) = 1
        /\ IF \E q \in PortsOf(m) : q.pins # {} THEN ~FacesFit(m, DockingPorts(m))
           ELSE Len(DockingPorts(m)) > SingleBlockIOFaces}
=============================================================================
