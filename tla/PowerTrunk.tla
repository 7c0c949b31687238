------------------------------ MODULE PowerTrunk ------------------------------
(***************************************************************************)
(* One power trunk: _route_trunk and _size_trunk of                        *)
(* src/gtnh_solver/router/power.py.  The source docks, then each sink taps *)
(* the trunk where one of its docks already is a cable cell or is reached  *)
(* by a new leg; then every cable segment is sized for the amps behind it. *)
(*                                                                         *)
(* Endpoint 0 is the source, the others the sinks in net order.  A call is *)
(* picked from Calls: cand (endpoint -> the cells it may dock on), machine *)
(* (endpoint -> its machine), key (endpoint -> cell -> claim key),         *)
(* blocked, and per sink its draw eut, its tier's volts (Unknown off the   *)
(* ladder) and whether it is an Energy Acceptor (acceptor).  Where the     *)
(* code breaks a tie by face order or by the search's heap, any of the     *)
(* tied choices may be taken.  Amps are kept exact, in units of 1/Scale.   *)
(***************************************************************************)
EXTENDS TreeSearch, SequencesExt

CONSTANTS Calls, Scale, Gauges

ASSUME ScaleAssumption == Scale \in Nat \ {0}
ASSUME GaugeAssumption == Gauges \subseteq Nat \ {0} /\ IsFiniteSet(Gauges) /\ Gauges # {}

(* A call has a source and a sink (any other net is malformed),            *)
(* dock_candidates only answers free cells, and no draw is negative.       *)
ASSUME CallsAssumption ==
  \A c \in Calls :
    /\ {0, 1} \subseteq DOMAIN c.cand /\ DOMAIN c.cand \subseteq Nat /\ IsFiniteSet(DOMAIN c.cand)
    /\ \A i \in DOMAIN c.cand :
         /\ c.cand[i] \subseteq Cell \ (Hard \cup c.blocked)
         /\ c.eut[i] \in Nat /\ c.volts[i] \in Int

Unknown == -1

VARIABLES
  call,      \* the arguments
  docked,    \* endpoint -> its terminal's cell, NoCell until it has one
  segs,      \* the segments <<parent, child>> in the order they were laid
  gauge,     \* child cell of a segment -> the segment's thickness
  outcome    \* "routing", "routed", or why the net failed

vars == <<call, docked, segs, gauge, outcome>>

Endpoint == DOMAIN call.cand

(* Every variable keeps its shape; a segment's gauge is one cables come    *)
(* in.                                                                     *)
TypeOK ==
  /\ docked \in [Endpoint -> Cell \cup {NoCell}]
  /\ segs \in Seq(Cell \X Cell)
  /\ DOMAIN gauge \in SUBSET Cell /\ Range(gauge) \subseteq Gauges
  /\ outcome \in {"routing", "routed", "face_reachability", "no_path",
                  "voltage_tier", "voltage_drop", "amperage"}

-----------------------------------------------------------------------------
(* The trunk                                                               *)

Sinks == Endpoint \ {0}

Root == docked[0]

Trunk == {Root} \cup {s[2] : s \in Range(segs)}

Parent == [c \in Trunk \ {Root} |-> (CHOOSE s \in Range(segs) : s[2] = c)[1]]

(* Cable blocks from the source.                                           *)
Depth ==
  LET deep[k \in 0 .. Len(segs)] ==
        IF k = 0 THEN [c \in {Root} |-> 0]
        ELSE LET near == deep[k-1] IN
             [c \in DOMAIN near \cup {segs[k][2]} |->
                IF c \in DOMAIN near THEN near[c] ELSE near[segs[k][1]] + 1]
  IN  deep[Len(segs)]

NextSink == Min({i \in Sinks : docked[i] = NoCell})

LastSink == Max(Sinks)

(* Mutant: two hatches of one machine may share a casing block.            *)
KeysHeldNot(i) == {}

(* The claim keys the machine's earlier hatches on this net hold (the code *)
(* also records their dock cells, which are no casing cell).               *)
KeysHeld(i) == {call.key[j][docked[j]] : j \in {h \in Sinks : docked[h] # NoCell
                                                              /\ call.machine[h] = call.machine[i]}}

DocksFor(i) == {c \in call.cand[i] : call.key[i][c] \notin KeysHeld(i)}

(* Mutant: a sink may tap a trunk that has no segment.                     *)
MayTapAlways(i) == TRUE

(* A cable's gauge lives on its segments, so one has to be laid.           *)
MayTap(i) == segs # <<>> \/ i < LastSink

Taps(i) == IF MayTap(i) THEN DocksFor(i) \cap Trunk ELSE {}

Free == Cell \ (Hard \cup call.blocked)

LegGoals(i) == (DocksFor(i) \cap Free) \ Trunk

(* A leg leaves the trunk anywhere and never meets it again.               *)
LegWalls == call.blocked \cup Trunk

(* Mutant: every leg is measured from the source, through its own cable.   *)
FromSource == Distances([c \in {Root} |-> 0], [c \in Cell |-> 0], call.blocked)

FromTrunk ==
  Distances([c \in Trunk |-> 0], [c \in Cell |-> 0], LegWalls)

(* Every shortest way from the trunk to the nearest dock cell of sink i.   *)
Legs(i) ==
  LET far == FromTrunk
      goals == {g \in LegGoals(i) : far[g] < Infinity /\ \A h \in LegGoals(i) : far[g] <= far[h]}
      ways[k \in 0 .. Cardinality(Cell)] ==
        IF k = 0 THEN {<<g>> : g \in goals}
        ELSE UNION {IF far[Head(w)] = 0 THEN {w}
                    ELSE {<<n>> \o w : n \in {m \in Beside[Head(w)] :
                                                /\ far[m] = far[Head(w)] - 1
                                                /\ m \in Trunk \/ m \notin LegWalls}} : w \in ways[k-1]}
  IN  ways[Cardinality(Cell)]

Segments(path) == [k \in 1 .. Len(path) - 1 |-> <<path[k], path[k+1]>>]

-----------------------------------------------------------------------------
(* Sizing                                                                  *)

(* What sink i draws at its distance, in 1/Scale amps: cable loss takes a  *)
(* volt per block, and the fewer volts arrive the more amps it takes.      *)
Volts(i) == call.volts[i] - Depth[docked[i]]

Steady(i) == IF call.eut[i] = 0 THEN 0 ELSE (call.eut[i] * Scale) \div Volts(i)

WholeAmps(load) == (load + Scale - 1) \div Scale

(* The source's whole output, all of it through the root block.            *)
Output == WholeAmps(MapThenSumSet(Steady, Sinks))

Acceptors == {i \in Sinks : call.acceptor[i]}

(* An acceptor may take all its source puts out until its store is full.   *)
Load(i) == IF i \in Acceptors THEN Output * Scale ELSE Steady(i)

LoadAt == [c \in Trunk |-> MapThenSumSet(Load, {i \in Sinks : docked[i] = c})]

FoldUp(order) ==
  FoldLeft(LAMBDA sum, s : [sum EXCEPT ![s[1]] = @ + sum[s[2]]], LoadAt, order)

(* Mutant: the sums folded in the order the cable was laid.                *)
SubtreeInLaidOrder == FoldUp(segs)

(* Every segment's far side, folded leaves first.                          *)
Subtree == FoldUp(Reverse(segs))

(* Mutant: beside an acceptor a segment may be sized past the source.      *)
AmpsUncapped(parent, child, sum) == IF parent = Root THEN Output ELSE WholeAmps(sum[child])

Amps(parent, child, sum) ==
  LET amps == WholeAmps(sum[child]) IN
  IF parent = Root \/ (Acceptors # {} /\ amps > Output) THEN Output ELSE amps

(* Mutant: a gauge no cable is made in.                                    *)
GaugeForExact(amps) == amps

(* Smallest gauge that carries amps, the thickest for anything over it.    *)
GaugeFor(amps) == Min({g \in Gauges : amps <= g} \cup {Max(Gauges)})

Unpowered == {i \in Sinks : call.eut[i] > 0 /\ (call.volts[i] = Unknown \/ Volts(i) <= 0)}

-----------------------------------------------------------------------------
Init ==
  /\ call \in Calls
  /\ docked = [i \in Endpoint |-> NoCell]
  /\ segs = <<>>
  /\ gauge = <<>>
  /\ outcome = "routing"

Fail(why) ==
  /\ outcome' = why
  /\ UNCHANGED <<call, docked, segs, gauge>>

(* Every endpoint's docks are looked up before anything is laid.           *)
NoCandidates ==
  /\ outcome = "routing" /\ Root = NoCell
  /\ \E i \in Endpoint : call.cand[i] = {}
  /\ Fail("face_reachability")

(* The source docks on the face nearest its first sink.                    *)
DockSource(c) ==
  LET near(d) == Min({Manhattan(d, t) : t \in call.cand[1]}) IN
  /\ outcome = "routing" /\ Root = NoCell
  /\ \A i \in Endpoint : call.cand[i] # {}
  /\ c \in call.cand[0]
  /\ \A d \in call.cand[0] : near(c) <= near(d)
  /\ docked' = [docked EXCEPT ![0] = c]
  /\ UNCHANGED <<call, segs, gauge, outcome>>

SinkTurn == outcome = "routing" /\ Root # NoCell /\ \E i \in Sinks : docked[i] = NoCell

(* The shallowest cable block in front of one of the sink's docks.         *)
Tap(c) ==
  /\ SinkTurn /\ c \in Taps(NextSink)
  /\ \A d \in Taps(NextSink) : Depth[c] <= Depth[d]
  /\ docked' = [docked EXCEPT ![NextSink] = c]
  /\ UNCHANGED <<call, segs, gauge, outcome>>

Extend(path) ==
  /\ docked' = [docked EXCEPT ![NextSink] = Last(path)]
  /\ segs' = segs \o Segments(path)
  /\ UNCHANGED <<call, gauge, outcome>>

ExtendTo == SinkTurn /\ Taps(NextSink) = {} /\ \E path \in Legs(NextSink) : Extend(path)

NoDock ==
  /\ SinkTurn /\ Taps(NextSink) = {} /\ LegGoals(NextSink) = {}
  /\ Fail("face_reachability")

NoLeg ==
  /\ SinkTurn /\ Taps(NextSink) = {} /\ LegGoals(NextSink) # {} /\ Legs(NextSink) = {}
  /\ Fail("no_path")

Sizing == outcome = "routing" /\ \A i \in Endpoint : docked[i] # NoCell

(* A tier off the ladder, or a run its voltage does not survive.           *)
Reject ==
  /\ Sizing /\ Unpowered # {}
  /\ Fail(IF call.volts[Min(Unpowered)] = Unknown THEN "voltage_tier" ELSE "voltage_drop")

Size ==
  /\ Sizing /\ Unpowered = {}
  /\ LET sum == Subtree
         amps == [c \in Trunk \ {Root} |-> Amps(Parent[c], c, sum)]
     IN  IF \E c \in DOMAIN amps : amps[c] > Max(Gauges)
           THEN Fail("amperage")
           ELSE /\ gauge' = [c \in DOMAIN amps |-> GaugeFor(amps[c])]
                /\ outcome' = "routed"
                /\ UNCHANGED <<call, docked, segs>>

Next ==
  \/ NoCandidates \/ (\E c \in Cell : DockSource(c) \/ Tap(c))
  \/ ExtendTo \/ NoDock \/ NoLeg \/ Reject \/ Size

Spec == Init /\ [][Next]_vars

-----------------------------------------------------------------------------
(* Properties                                                              *)

HatchesApart ==
  \A i, j \in Sinks :
    /\ i # j /\ call.machine[i] = call.machine[j]
    /\ docked[i] # NoCell /\ docked[j] # NoCell
    => call.key[i][docked[i]] # call.key[j][docked[j]]

(* The cable is a tree rooted at the source: every block but the source's  *)
(* is entered by one segment, from a block laid before it, and none of it  *)
(* lies in an obstacle.  Two energy hatches of one machine are two casing  *)
(* blocks.                                                                 *)
TrunkIsTree ==
  /\ TypeOK
  /\ HatchesApart
  /\ Root # NoCell =>
    /\ Trunk \subseteq Free
    /\ Cardinality(Trunk) = Len(segs) + 1
    /\ \A k \in DOMAIN segs :
         /\ segs[k][2] \in Adj(segs[k][1])
         /\ segs[k][1] \in {Root} \cup {segs[j][2] : j \in 1 .. k - 1}
    /\ \A i \in Endpoint : docked[i] # NoCell => docked[i] \in Trunk \cap call.cand[i]

(* The blocks on the way from the source to c, found by walking back.      *)
WayTo(c) ==
  LET back[k \in 0 .. Cardinality(Cell)] ==
        IF k = 0 THEN {c}
        ELSE LET way == back[k-1] IN way \cup {Parent[b] : b \in way \ {Root}}
  IN  back[Cardinality(Cell)]

(* A block is built at the thickest segment touching it (route_blocks).    *)
Built(c) == Max({gauge[d] : d \in {e \in DOMAIN gauge : e = c \/ Parent[e] = c}})

(* What may flow through block c at once: the steady draw of every sink    *)
(* fed through it, or the source's whole output when one of those is an    *)
(* acceptor filling up; and never more than the source puts out.           *)
Through(c) ==
  LET fed == {i \in Sinks : c \in WayTo(docked[i])} IN
  IF fed \cap Acceptors # {} THEN Output ELSE WholeAmps(MapThenSumSet(Steady, fed))

(* No block of a returned cable burns: each is built for all that may flow *)
(* through it, the source's own block for the whole output (docstring of   *)
(* _size_trunk, issue 347).                                                *)
NoBlockBurns ==
  outcome = "routed" =>
    /\ segs # <<>>
    /\ \A c \in Trunk : Through(c) <= Built(c)

(* Nor is cable wasted: a segment away from the source is the smallest     *)
(* gauge for what may flow through it.                                     *)
NoWastedCable ==
  outcome = "routed" =>
    \A c \in DOMAIN gauge : Parent[c] # Root =>
      \A g \in Gauges : Through(c) <= g => gauge[c] <= g
=============================================================================
