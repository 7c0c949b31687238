------------------------------ MODULE MCAnnealer ------------------------------
(***************************************************************************)
(* Three lines for TLC: "blocks", single blocks only (so nudges happen) with *)
(* a column of two and a power source whose front feeds from outside, and  *)
(* "multi", a box of two by one that swings when turned, an item filter    *)
(* with pinned faces and a reserved cell, and "tight", where two free cells *)
(* are left for two nets.                                                  *)
(***************************************************************************)
EXTENDS Annealer, MCLines

Blocks ==
    Problem(<<"feed", "cut#1", "cut#2", "source">>,
            [m \in {"feed", "cut#1", "cut#2", "source"} |->
                CASE m = "feed" -> Block(<<"N", "E">>, <<Out("ore", "item")>>)
                  [] m = "cut#1" -> Member("cut", 1, <<"N", "E">>, <<In("ore", "item"), In("eu", "power")>>)
                  [] m = "cut#2" -> Member("cut", 2, <<"N", "E">>, <<In("ore", "item"), In("eu", "power")>>)
                  [] m = "source" -> Source(<<"N", "W">>)],
            <<Net("ore", "item", << <<"feed", "ore">>, <<"cut#1", "ore">> >>),
              Net("eu", "power", << <<"source", "eu">>, <<"cut#1", "eu">>, <<"cut#2", "eu">> >>)>>,
            <<3, 1, 3>>)

Turning ==
    [Problem(<<"tank", "sieve", "bin">>,
             [m \in {"tank", "sieve", "bin"} |->
                 CASE m = "tank" -> Multi(<<2, 1, 1>>, <<"N", "E">>, <<Out("dust", "item")>>,
                                          {Slot(<<0, 0, 0>>, {"OutputBus"}), Slot(<<1, 0, 0>>, {"InputBus"})})
                   [] m = "sieve" -> [Block(<<"N", "S", "E", "W">>,
                                            <<PinIn("dust", "item", {"front", "up"}),
                                              PinOut("gem", "item", {"back"})>>)
                                        EXCEPT !.filter = {"gem"}]
                   [] m = "bin" -> Block(<<"N", "W">>, <<In("gem", "item")>>)],
             <<Net("dust", "item", << <<"tank", "dust">>, <<"sieve", "dust">> >>),
               Net("gem", "item", << <<"sieve", "gem">>, <<"bin", "gem">> >>)>>,
             <<3, 1, 3>>) EXCEPT !.reserved = {<<0, 0, 2>>}]

\* Two free cells for two nets: what the crowding gate is about.
Tight ==
    Problem(<<"mill", "wash", "fan", "source">>,
            [m \in {"mill", "wash", "fan", "source"} |->
                CASE m = "mill" -> Block(<<"N", "E">>, <<Out("ore", "item")>>)
                  [] m = "wash" -> Block(<<"S", "E">>, <<In("ore", "item")>>)
                  [] m = "fan" -> Block(<<"N">>, <<In("eu", "power")>>)
                  [] m = "source" -> Source(<<"N", "S">>)],
            <<Net("ore", "item", << <<"mill", "ore">>, <<"wash", "ore">> >>),
              Net("eu", "power", << <<"source", "eu">>, <<"fan", "eu">> >>)>>,
            <<2, 1, 3>>)

MCLinesOf == {Named("blocks", Blocks), Named("multi", Turning), Named("tight", Tight)}

At(cell, front) == [cell |-> cell, front |-> front]
MCSeeds ==
    [k \in {"blocks", "multi", "tight"} |->
        CASE k = "blocks" ->
             [order |-> <<"feed", "cut#1", "cut#2", "source">>,
              at |-> [m \in {"feed", "cut#1", "cut#2", "source"} |->
                         CASE m = "feed" -> At(<<0, 0, 0>>, "N")
                           [] m = "cut#1" -> At(<<2, 0, 0>>, "N")
                           [] m = "cut#2" -> At(<<2, 0, 1>>, "N")
                           [] m = "source" -> At(<<1, 0, 0>>, "N")]]
          [] k = "tight" ->
             [order |-> <<"mill", "wash", "fan", "source">>,
              at |-> [m \in {"mill", "wash", "fan", "source"} |->
                         CASE m = "mill" -> At(<<0, 0, 0>>, "N")
                           [] m = "wash" -> At(<<1, 0, 0>>, "S")
                           [] m = "fan" -> At(<<0, 0, 1>>, "N")
                           [] m = "source" -> At(<<0, 0, 2>>, "S")]]
          [] k = "multi" ->
             [order |-> <<"tank", "sieve", "bin">>,
              at |-> [m \in {"tank", "sieve", "bin"} |->
                         CASE m = "tank" -> At(<<0, 0, 0>>, "N")
                           [] m = "sieve" -> At(<<2, 0, 0>>, "N")
                           [] m = "bin" -> At(<<0, 0, 1>>, "N")]]]
MCWeights == <<300, 6>>
=============================================================================
