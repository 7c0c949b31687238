------------------------------ MODULE MCAssembly ------------------------------
(***************************************************************************)
(* Small lines for TLC, each crowded where a stage can spoil a later one.  *)
(***************************************************************************)
EXTENDS Delivery, MCLines

At(cell, front) == [cell |-> cell, front |-> front]
Rated(q, rate) == [q EXCEPT !.rate = rate]

\* A mill of six casing cells, five of them hatches, fed by a pipe from one
\* side and emptied into the bin it touches; a wall source that may move.
MillKinds == {"InputBus", "OutputBus", "Energy", "Maintenance", "Muffler"}
Mill ==
    Problem(<<"mill", "feed", "bin", "source">>,
            [m \in {"mill", "feed", "bin", "source"} |->
                CASE m = "mill" ->
                     [Multi(<<3, 1, 2>>, <<"N">>,
                            <<In("ore", "item"), Out("dust", "item"), [In("eu", "power") EXCEPT !.amps = 2]>>,
                            {Slot(<<x, 0, z>>, MillKinds) : x \in 0 .. 2, z \in 0 .. 1} \ {Slot(<<1, 0, 0>>, MillKinds)})
                        EXCEPT !.eut = 30]
                  [] m = "feed" -> Block(<<"S">>, <<Rated(Out("ore", "item"), 24)>>)
                  [] m = "bin" -> Block(<<"E">>, <<In("dust", "item")>>)
                  [] m = "source" -> Source(<<"S", "W">>)],
            <<Net("ore", "item", << <<"feed", "ore">>, <<"mill", "ore">> >>),
              Net("dust", "item", << <<"mill", "dust">>, <<"bin", "dust">> >>),
              Net("eu", "power", << <<"source", "eu">>, <<"mill", "eu">> >>)>>,
            <<4, 1, 5>>)
MillStart == [m \in {"mill", "feed", "bin", "source"} |->
                 CASE m = "mill" -> At(<<0, 0, 1>>, "N")
                   [] m = "feed" -> At(<<0, 0, 4>>, "S")
                   [] m = "bin" -> At(<<3, 0, 2>>, "E")
                   [] m = "source" -> At(<<3, 0, 4>>, "S")]

\* Two senders and two targets whose three streams meet in one block.
Crossing ==
    Problem(<<"p1", "p2", "c1", "c2">>,
            [m \in {"p1", "p2", "c1", "c2"} |->
                CASE m = "p1" -> Block(<<"W">>, <<Rated(Out("ore", "item"), 72)>>)
                  [] m = "p2" -> Block(<<"W">>, <<Rated(Out("ore", "item"), 24)>>)
                  [] m = "c1" -> Block(<<"E">>, <<Rated(In("ore", "item"), 48)>>)
                  [] m = "c2" -> Block(<<"E">>, <<Rated(In("ore", "item"), 48)>>)],
            <<[Net("ore", "item", << <<"p1", "ore">>, <<"p2", "ore">>, <<"c1", "ore">>, <<"c2", "ore">> >>)
                 EXCEPT !.flow = 96]>>,
            <<3, 1, 3>>)
CrossingStart == [m \in {"p1", "p2", "c1", "c2"} |->
                     CASE m = "p1" -> At(<<0, 0, 0>>, "W")
                       [] m = "p2" -> At(<<0, 0, 2>>, "W")
                       [] m = "c1" -> At(<<2, 0, 0>>, "E")
                       [] m = "c2" -> At(<<2, 0, 2>>, "E")]


\* A main network let in by one stub: three machines in a corridor with one
\* level above, more than a cable with a part on it carries past.
StubRow == <<"m1", "m2", "m3", "stub">>
Stub ==
    [Problem(StubRow,
             [m \in Range(StubRow) |->
                 IF m = "stub" THEN Infrastructure("attach", "main", <<"W">>)
                 ELSE OnMe(Block(<<"S">>, <<Out("dust", "item")>>), <<Device("out", "interface", <<"dust">>, "main")>>)],
             [i \in 1 .. 3 |-> MeNet(StubRow[i], "item", << <<StubRow[i], "dust">> >>, "main")],
             <<4, 2, 2>>) EXCEPT !.networks = <<MainNetwork("main", 3)>>]
StubStart == [m \in Range(StubRow) |->
                 CASE m = "stub" -> At(<<0, 0, 0>>, "W")
                   [] m = "m1" -> At(<<1, 0, 1>>, "S")
                   [] m = "m2" -> At(<<2, 0, 1>>, "S")
                   [] m = "m3" -> At(<<3, 0, 1>>, "S")]

\* Two networks of the line's own side by side, one with a controller: their
\* cables must keep a cell apart.
PairRow == <<"a1", "a2", "b1", "b2", "ctl", "link">>
Pair ==
    [Problem(PairRow,
             [m \in Range(PairRow) |->
                 CASE m \in {"a1", "b1"} ->
                      OnMe(Block(<<"N">>, <<Out("dust", "item")>>),
                           <<Device("out", "interface", <<"dust">>, IF m = "a1" THEN "red" ELSE "blue")>>)
                   [] m \in {"a2", "b2"} ->
                      OnMe(Block(<<"N", "S">>, <<In("dust", "item")>>),
                           <<Device("in", "export_bus", <<"dust">>, IF m = "a2" THEN "red" ELSE "blue")>>)
                   [] m = "ctl" -> Infrastructure("controller", "blue", <<"N">>)
                   [] m = "link" -> Infrastructure("link", "blue", <<"E">>)],
             <<MeNet("x", "item", << <<"a1", "dust">>, <<"a2", "dust">> >>, "red"),
               MeNet("y", "item", << <<"b1", "dust">>, <<"b2", "dust">> >>, "blue")>>,
             <<5, 1, 5>>) EXCEPT !.networks = <<Subnet("red", FALSE), Subnet("blue", FALSE)>>]
PairStart == [m \in Range(PairRow) |->
                 CASE m = "a1" -> At(<<0, 0, 0>>, "N")
                   [] m = "a2" -> At(<<4, 0, 0>>, "N")
                   [] m = "b1" -> At(<<0, 0, 3>>, "N")
                   [] m = "b2" -> At(<<3, 0, 4>>, "S")
                   [] m = "ctl" -> At(<<1, 0, 4>>, "N")
                   [] m = "link" -> At(<<4, 0, 3>>, "E")]

\* Power has one way out of its corner and ME two: laid first, ME takes it.
CornerRow == <<"m", "source", "stub">>
Corner ==
    [Problem(CornerRow,
             [m \in Range(CornerRow) |->
                 CASE m = "m" -> [OnMe(Block(<<"E">>, <<Out("dust", "item"), [In("eu", "power") EXCEPT !.amps = 2]>>),
                                       <<Device("out", "interface", <<"dust">>, "main")>>) EXCEPT !.eut = 16]
                   [] m = "source" -> Source(<<"W">>)
                   [] m = "stub" -> Infrastructure("attach", "main", <<"S">>)],
             <<MeNet("x", "item", << <<"m", "dust">> >>, "main"),
               Net("eu", "power", << <<"source", "eu">>, <<"m", "eu">> >>)>>,
             <<4, 2, 2>>) EXCEPT !.networks = <<MainNetwork("main", 3)>>,
                                 !.reserved = {<<0, 1, 0>>, <<0, 0, 1>>, <<0, 1, 1>>, <<2, 0, 1>>, <<2, 1, 1>>}]
CornerStart == [m \in Range(CornerRow) |->
                   CASE m = "m" -> At(<<3, 0, 1>>, "E")
                     [] m = "source" -> At(<<0, 0, 0>>, "W")
                     [] m = "stub" -> At(<<1, 0, 1>>, "S")]

\* A network powered by the line's own supply, stored through a link.
FedRow == <<"acceptor", "link", "m", "source">>
Fed ==
    [Problem(FedRow,
             [m \in Range(FedRow) |->
                 CASE m = "acceptor" -> [Infrastructure("acceptor", "red", <<"N">>)
                                            EXCEPT !.ports = <<[In("eu", "power") EXCEPT !.amps = 2]>>, !.eut = 24]
                   [] m = "link" -> Infrastructure("link", "red", <<"E">>)
                   [] m = "m" -> OnMe(Block(<<"S">>, <<Rated(Out("dust", "item"), 24)>>),
                                      <<Device("out", "interface", <<"dust">>, "red")>>)
                   [] m = "source" -> Source(<<"N", "W">>)],
             <<MeNet("x", "item", << <<"m", "dust">> >>, "red"),
               Net("eu", "power", << <<"source", "eu">>, <<"acceptor", "eu">> >>)>>,
             <<4, 2, 3>>) EXCEPT !.networks = <<Subnet("red", TRUE)>>]
FedStart == [m \in Range(FedRow) |->
                CASE m = "acceptor" -> At(<<2, 0, 0>>, "N")
                  [] m = "link" -> At(<<3, 0, 2>>, "E")
                  [] m = "m" -> At(<<0, 0, 2>>, "S")
                  [] m = "source" -> At(<<1, 0, 0>>, "N")]

\* A tower of three output layers, one unused, whose muffler's back is
\* to a wall; its light fraction piped, its heavy one into the tank it touches.
TowerRow == <<"feed", "heavy", "light", "tower">>
Tower ==
    [Problem(TowerRow,
            [m \in Range(TowerRow) |->
                CASE m = "feed" -> Block(<<"W">>, <<Out("oil", "fluid")>>)
                  [] m = "heavy" -> Block(<<"E">>, <<In("heavy", "fluid")>>)
                  [] m = "light" -> Block(<<"E">>, <<In("light", "fluid")>>)
                  [] m = "tower" ->
                     Multi(<<2, 3, 1>>, <<"N">>,
                           <<In("oil", "fluid"), LayerOut("heavy", 0), LayerOut("light", 2)>>,
                           {LayerSlot(<<1, y, 0>>, {"OutputHatch"}, y) : y \in 0 .. 2}
                             \cup {Slot(<<0, 0, 0>>, {"InputHatch"}), Slot(<<0, 1, 0>>, {"Maintenance"}),
                                   Slot(<<0, 2, 0>>, {"Muffler", "InputHatch"})})],
            <<Net("oil", "fluid", << <<"feed", "oil">>, <<"tower", "oil">> >>),
              Net("heavy", "fluid", << <<"tower", "heavy">>, <<"heavy", "heavy">> >>),
              Net("light", "fluid", << <<"tower", "light">>, <<"light", "light">> >>)>>,
            <<4, 3, 3>>) EXCEPT !.reserved = BoxCells(<<0, 0, 2>>, <<4, 3, 1>>)]
TowerStart == [m \in Range(TowerRow) |->
                  CASE m = "feed" -> At(<<0, 0, 0>>, "W")
                    [] m = "heavy" -> At(<<3, 0, 1>>, "E")
                    [] m = "light" -> At(<<3, 1, 0>>, "E")
                    [] m = "tower" -> At(<<1, 0, 1>>, "N")]

\* A merged run sorted by two filters, one of which empties into a bin behind
\* it and the other by a pipe.
SortRow == <<"p", "f1", "f2", "c1", "c2">>
Sorting ==
    Problem(SortRow,
            [m \in Range(SortRow) |->
                CASE m = "p" -> Block(<<"W">>, <<Rated(Out("mix", "item"), 96)>>)
                  [] m = "f1" -> ItemFilter({"gem"}, <<"W">>)
                  [] m = "f2" -> ItemFilter({"dust"}, <<"W">>)
                  [] m = "c1" -> Block(<<"E">>, <<Rated(In("gem", "item"), 48)>>)
                  [] m = "c2" -> Block(<<"N">>, <<Rated(In("dust", "item"), 48)>>)],
            <<[Net("mix", "item", << <<"p", "mix">>, <<"f1", "in">>, <<"f2", "in">> >>)
                 EXCEPT !.items = {"gem", "dust"}, !.flow = 96],
              Net("gem", "item", << <<"f1", "out">>, <<"c1", "gem">> >>),
              Net("dust", "item", << <<"f2", "out">>, <<"c2", "dust">> >>)>>,
            <<5, 1, 3>>)
SortStart == [m \in Range(SortRow) |->
                 CASE m = "p" -> At(<<0, 0, 1>>, "W")
                   [] m = "f1" -> At(<<2, 0, 0>>, "W")
                   [] m = "f2" -> At(<<2, 0, 2>>, "W")
                   [] m = "c1" -> At(<<3, 0, 0>>, "E")
                   [] m = "c2" -> At(<<4, 0, 2>>, "N")]

\* Chains of banks with no cell to spare: a stage of two fed and emptied by
\* chests and powered from above, and two such stages that need no power.
Stage(powered) ==
    Block(<<"N", "S">>,
          <<Rated(In("in", "item"), 24), Rated(Out("out", "item"), 24)>>
          \o (IF powered THEN <<[In("eu", "power") EXCEPT !.amps = 1]>> ELSE <<>>))
EndsOf(machines, port) == [i \in DOMAIN machines |-> <<machines[i], port>>]
Chained(stages, powered, region, reserved) ==
    LET levels == << <<"feed">> >> \o stages \o << <<"drain">> >>
        sources == IF powered THEN <<"source">> ELSE <<>>
        row == FlattenSeq(levels) \o sources
        eu == Net("eu", "power", EndsOf(sources, "eu") \o EndsOf(FlattenSeq(stages), "eu"))
    IN [Problem(row,
                [m \in Range(row) |->
                    CASE m = "feed" -> Block(<<"N", "S">>, <<Rated(Out("out", "item"), 48)>>)
                      [] m = "drain" -> Block(<<"N", "S">>, <<Rated(In("in", "item"), 48)>>)
                      [] m = "source" -> Source(<<"N", "S">>)
                      [] OTHER -> [Stage(powered) EXCEPT !.eut = IF powered THEN 16 ELSE 0]],
                [i \in 1 .. Len(stages) + 1 |->
                    [Net("n" \o ToString(i), "item", EndsOf(levels[i], "out") \o EndsOf(levels[i + 1], "in"))
                        EXCEPT !.flow = 48]]
                \o (IF powered THEN <<eu>> ELSE <<>>),
                region) EXCEPT !.reserved = reserved]
OneBank == Chained(<< <<"a1", "a2">> >>, TRUE, <<3, 2, 3>>, BoxCells(<<0, 1, 0>>, <<1, 1, 3>>) \cup BoxCells(<<2, 1, 0>>, <<1, 1, 3>>))
TwoBanks == Chained(<< <<"a1", "a2">>, <<"b1", "b2">> >>, FALSE, <<3, 2, 3>>, BoxCells(<<0, 1, 0>>, <<1, 1, 3>>))

-----------------------------------------------------------------------------
(* The adapter's lines, in a corner of the region it draws for them.       *)

MCPlansOf == [washers |-> Washers, mixer |-> Mixer, glut |-> Glut, reactor |-> Reactor, drain |-> Drain, depot |-> Depot,
               vault |-> Vault, silo |-> Silo]
MixerStart ==
    "mixer" :> At(<<3, 0, 1>>, "N") @@ "out" :> At(<<4, 0, 1>>, "E") @@ "as" :> At(<<0, 0, 0>>, "N")
    @@ "spare" :> At(<<1, 0, 0>>, "N") @@ "bs" :> At(<<2, 0, 0>>, "N") @@ "cs" :> At(<<0, 0, 2>>, "S")
    @@ "ds" :> At(<<1, 0, 2>>, "S") @@ "es" :> At(<<2, 0, 2>>, "S")

\* The corner of its region each is tried in, what is walled off there, where
\* its machines stand, and the ones tried elsewhere too.
MCCorners ==
    [washers |-> [region |-> <<6, 1, 2>>, reserved |-> {}, moved |-> {"ores", "item-filter:washer:sand"},
                  start |-> "ores" :> At(<<0, 0, 0>>, "W") @@ "washer#1" :> At(<<2, 0, 0>>, "N")
                            @@ "washer#2" :> At(<<2, 0, 1>>, "S") @@ "item-filter:washer:sand" :> At(<<4, 0, 0>>, "W")
                            @@ "item-filter:washer:gem" :> At(<<4, 0, 1>>, "W") @@ "sands" :> At(<<5, 0, 0>>, "E")
                            @@ "output-buffer:washer:gem" :> At(<<5, 0, 1>>, "E")],
     mixer |-> [region |-> <<5, 1, 3>>, reserved |-> {}, moved |-> {}, start |-> MixerStart],
     glut |-> [region |-> <<5, 1, 3>>, reserved |-> {}, moved |-> {}, start |-> MixerStart],
     reactor |-> [region |-> <<5, 1, 4>>, moved |-> {"right"},
                  reserved |-> BoxCells(<<0, 0, 0>>, <<1, 1, 3>>) \cup BoxCells(<<4, 0, 1>>, <<1, 1, 3>>),
                  start |-> "field" :> At(<<1, 0, 0>>, "N") @@ "reactor" :> At(<<1, 0, 1>>, "W")
                            @@ "left" :> At(<<0, 0, 3>>, "S") @@ "right" :> At(<<2, 0, 3>>, "S")
                            @@ "power-source:LV" :> At(<<4, 0, 0>>, "N")],
     drain |-> [region |-> <<6, 1, 3>>, reserved |-> {<<0, 0, 1>>}, moved |-> {"power-source:LV#2"},
                start |-> "m1" :> At(<<1, 0, 1>>, "S") @@ "m2" :> At(<<2, 0, 1>>, "S") @@ "m3" :> At(<<3, 0, 1>>, "N")
                          @@ "power-source:LV#1" :> At(<<0, 0, 0>>, "W") @@ "power-source:LV#2" :> At(<<5, 0, 2>>, "E")],
     depot |-> [region |-> <<5, 2, 2>>, reserved |-> {}, moved |-> {"coil"},
                start |-> "press#1" :> At(<<1, 0, 1>>, "S") @@ "press#2" :> At(<<2, 0, 1>>, "S")
                          @@ "coil" :> At(<<3, 0, 1>>, "S") @@ "output-buffer:coil:wire" :> At(<<4, 0, 1>>, "E")
                          @@ "me-attach:main:1" :> At(<<0, 0, 0>>, "W")],
     vault |-> [region |-> <<6, 1, 3>>, reserved |-> {<<0, 0, 0>>, <<0, 0, 2>>, <<1, 0, 2>>}, moved |-> {"plates"},
                start |-> "press" :> At(<<1, 0, 0>>, "N") @@ "plates" :> At(<<2, 0, 0>>, "N")
                          @@ "burner" :> At(<<3, 0, 0>>, "N") @@ "me-controller:red" :> At(<<0, 0, 1>>, "N")
                          @@ "me-acceptor:red" :> At(<<5, 0, 1>>, "E") @@ "power-source:LV" :> At(<<3, 0, 2>>, "S")],
     silo |-> [region |-> <<4, 1, 2>>, reserved |-> {}, moved |-> {"burner"},
               start |-> "press" :> At(<<0, 0, 0>>, "N") @@ "burner" :> At(<<1, 0, 0>>, "N")
                         @@ "me-controller:red" :> At(<<2, 0, 0>>, "N") @@ "me-link:red:item" :> At(<<3, 0, 1>>, "E")]]
MCAdapted ==
    {[A!ProblemOf(MCPlansOf[id])
        EXCEPT !.id = id, !.region = MCCorners[id].region, !.reserved = MCCorners[id].reserved] : id \in DOMAIN MCPlansOf}

-----------------------------------------------------------------------------
(* Placements: the ones above, with some machines moved to every pose the  *)
(* placer may give them.                                                   *)

OutsideFront(r) == r.outside \/ \E q \in PortsIn(r) : q.com = "power" /\ q.dir = "out"
BodyIn(P, L, m) == BoxCells(L[m].cell, Turned(P.machine[m].size, L[m].front))

Fits(P, L) ==
    /\ \A m \in DOMAIN L :
          LET box == Turned(P.machine[m].size, L[m].front) IN
          /\ BoxWithin(L[m].cell, box, P.region)
          /\ OutsideFront(P.machine[m]) => FrontOnBoundary(L[m].cell, box, L[m].front, P.region)
          /\ BodyIn(P, L, m) \cap P.reserved = {}
    /\ \A m, k \in DOMAIN L : m # k => BodyIn(P, L, m) \cap BodyIn(P, L, k) = {}

Poses(P, m) == {At(c, f) : c \in BoxCells(<<0, 0, 0>>, P.region), f \in Range(P.machine[m].facings)}
WithMoved(P, L, m) == {K \in {[L EXCEPT ![m] = pose] : pose \in Poses(P, m)} : Fits(P, K)}
Moving(P, L, m) == UNION {WithMoved(Q, K, m) : Q \in {P}, K \in {L}}
MovingBoth(P, L, m, k) == UNION {Moving(P, K, k) : K \in Moving(P, L, m)}

HandLines == {Named("mill", Mill), Named("crossing", Crossing), Named("stub", Stub), Named("pair", Pair),
              Named("corner", Corner), Named("fed", Fed), Named("tower", Tower), Named("sorting", Sorting),
              Named("bank", OneBank), Named("banks", TwoBanks)}
MCLinesOf == HandLines \cup MCAdapted
HandStarts == [mill |-> Moving(Mill, MillStart, "bin") \cup Moving(Mill, MillStart, "source"),
               crossing |-> Moving(Crossing, CrossingStart, "c2"),
               stub |-> MovingBoth(Stub, StubStart, "m1", "m2"),
               pair |-> Moving(Pair, PairStart, "a2") \cup Moving(Pair, PairStart, "b2"),
               corner |-> Moving(Corner, CornerStart, "m"),
               fed |-> MovingBoth(Fed, FedStart, "m", "link"),
               tower |-> Moving(Tower, TowerStart, "heavy") \cup Moving(Tower, TowerStart, "feed"),
               bank |-> {}, banks |-> {},
               sorting |-> Moving(Sorting, SortStart, "f1") \cup Moving(Sorting, SortStart, "c1")]
StartsIn(P) ==
    LET start == MCCorners[P.id].start IN {start} \cup UNION {Moving(P, start, m) : m \in MCCorners[P.id].moved}
MCStarts == [id \in {P.id : P \in MCLinesOf} |->
                IF id \in DOMAIN MCCorners THEN UNION {StartsIn(P) : P \in {Q \in MCAdapted : Q.id = id}}
                ELSE HandStarts[id]]
=============================================================================
