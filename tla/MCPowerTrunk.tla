----------------------------- MODULE MCPowerTrunk -----------------------------
(***************************************************************************)
(* Cables on a 4 x 3 floor with two walls, at a tier of six volts: a draw  *)
(* of 6 is one amp at the source, two amps three blocks away, and a run of *)
(* six blocks delivers nothing.                                            *)
(***************************************************************************)
EXTENDS PowerTrunk

MCHard == {Enc(1, 0, 1), Enc(2, 0, 1)}
MCVolts == 6
MCScale == 60
MCGauges == {1, 2, 4, 8, 12, 16}

SourceDocks == {{Enc(0,0,1)}, {Enc(1,0,0), Enc(0,0,2)}, {}}
SinkDocks == {{Enc(0,0,1), Enc(2,0,0)}, {Enc(1,0,0), Enc(2,0,0)}, {Enc(3,0,1)}, {Enc(1,0,0)}}

(* What a net's endpoints have, from the source on.                        *)
Net(items) == [i \in 0 .. Len(items) - 1 |-> items[i + 1]]
OneMachine == Net(<<"src", "m1", "m1">>)
ThreeMachines == Net(<<"src", "m1", "m2", "m3">>)

(* A casing block that faces two of the docks, or a block per dock.        *)
OwnKey(machine) == [i \in DOMAIN machine |-> [c \in Cell |-> c]]
Casing(machine) == [i \in DOMAIN machine |->
                      [c \in Cell |-> IF c \in {Enc(1,0,0), Enc(2,0,0)} THEN 99 ELSE c]]

(* Light, acceptors, heavy, over the thickest cable, a lower tier, an idle *)
(* machine, and a tier off the ladder.                                     *)
Draw(e, v, acc) ==
  [eut |-> Net(<<0, e[1], e[2], e[1]>>), volts |-> Net(<<MCVolts, MCVolts, v, MCVolts>>),
   acceptor |-> [i \in 0 .. 3 |-> i = acc]]

Draws == {Draw(<<3, 3>>, MCVolts, 0), Draw(<<3, 9>>, MCVolts, 1), Draw(<<3, 9>>, MCVolts, 2),
          Draw(<<30, 18>>, MCVolts, 0), Draw(<<60, 30>>, MCVolts, 2), Draw(<<6, 12>>, 3, 0),
          Draw(<<0, 6>>, MCVolts, 0), Draw(<<6, 6>>, Unknown, 0)}

Walls == {{}, {Enc(3,0,0), Enc(2,0,2)}}

Over(machine, key, cands) ==
  {[cand |-> Net(g), machine |-> machine, key |-> key, blocked |-> w, eut |-> d.eut,
    volts |-> d.volts, acceptor |-> d.acceptor] : g \in cands, w \in Walls, d \in Draws}

(* Two hatches of one machine, and sinks of three machines, for several    *)
(* legs and several taps on one cable.                                     *)
MCCalls ==
  Over(OneMachine, Casing(OneMachine), SourceDocks \X SinkDocks \X SinkDocks) \cup
  Over(ThreeMachines, OwnKey(ThreeMachines),
       (SourceDocks \ {{}}) \X SinkDocks \X SinkDocks \X {{Enc(3,0,1)}, {Enc(0,0,2), Enc(2,0,0)}})
=============================================================================
