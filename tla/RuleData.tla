------------------------------ MODULE RuleData ------------------------------
(***************************************************************************)
(* The numbers GT fixes, shared by the routers and by the gate that checks *)
(* them (dataset/voltage.py, dataset/pipe_capacity.py, ir/output.py): what *)
(* is shared is this data, never the code that applies it.                 *)
(*                                                                         *)
(* Amps are whole numbers of 1/AmpScale amp, items and insertions whole    *)
(* numbers of 1/Parts, so a fraction the code keeps as a float is exact    *)
(* here for the rates a checked line uses.                                 *)
(***************************************************************************)
EXTENDS Integers

CONSTANTS SmartCapacity,   \* channels through a smart cable, or any block: 8
          DenseCapacity,   \* channels through a dense cable: 32
          AdhocDevices     \* devices a network with no controller serves: 8

ASSUME RuleDataAssumption == /\ {SmartCapacity, DenseCapacity, AdhocDevices} \subseteq Nat \ {0}
                             /\ SmartCapacity < DenseCapacity

AmpScale == 840
Parts == 12

\* The voltage ladder, lowest first; a tier off it has no voltage.  Its last
\* step, MAX, is 2^31 V, past the numbers TLC works in.
Ladder == <<"ULV", "LV", "MV", "HV", "EV", "IV", "LuV", "ZPM", "UV", "UHV", "UEV", "UIV", "UMV", "UXV">>
LadderVolts ==
    [ULV |-> 8, LV |-> 32, MV |-> 128, HV |-> 512, EV |-> 2048, IV |-> 8192, LuV |-> 32768,
     ZPM |-> 131072, UV |-> 524288, UHV |-> 2097152, UEV |-> 8388608, UIV |-> 33554432,
     UMV |-> 134217728, UXV |-> 536870912]
LadderIndex(tier) == CHOOSE i \in DOMAIN Ladder : Ladder[i] = tier
OnLadder(tier) == tier \in DOMAIN LadderVolts

\* A cable loses a volt per block.
LossPerBlock == 1

Thicknesses == {1, 2, 4, 8, 12, 16}

\* Insertions an item pipe makes per service interval.
PipeLadder == <<"tiny", "small", "normal", "large", "huge">>
PipeCapacity == [tiny |-> Parts \div 4, small |-> Parts \div 2, normal |-> Parts,
                 large |-> 2 * Parts, huge |-> 4 * Parts]
ItemsPerInsertion == 64

-----------------------------------------------------------------------------
(* AE2 and GT's ME hatches (dataset/me.py).                                *)

CableCapacity == [smart |-> SmartCapacity, dense |-> DenseCapacity]
PartCables == {"smart"}

GtHatches == {"gt_output_bus_me", "gt_output_hatch_me", "gt_stocking_input_bus_me",
              "gt_stocking_input_hatch_me"}
StorageBuses == {"storage_bus", "fluid_storage_bus"}

\* An AE cable joins its own colour, and fluix joins all.
ColoursConnect(a, b) == a = "fluix" \/ b = "fluix" \/ a = b

\* The controllers AE runs as one stand within seven blocks.
ClusterSpan == 7

\* AE/t in 1/AePart: what a device and a controller idle at, what an item per
\* service interval of 40 ticks costs in 1/Parts, and a channel through one
\* block (1/128 AE); all of it tenfold in this pack, and 2 AE to an EU.
AePart == 1920
IdleAe == AePart
ControllerAe == 3 * AePart
AePerMovedPart == AePart \div (40 * Parts)
AePerChannelBlock == AePart \div 128
UsageMultiplier == 10
AePerEu == 2
ProviderBuffer == 80000
GridBuffer == 1000
=============================================================================
