------------------------------- MODULE Assembly -------------------------------
(***************************************************************************)
(* One attempt from a placement to a verdict (solver/core.py, _assemble):  *)
(* free connections, pipes, the cable of power and of the ME networks in   *)
(* the order that leaves less undone, hatches, and the gate.  Every stage  *)
(* works around what the earlier ones spent, cells outside the machines    *)
(* and casing cells inside them, and the gate knows nothing of any stage.  *)
(***************************************************************************)
EXTENDS SourceRepair, Hatches, MERouter, CrowdingGate, BankColumns

CONSTANTS
    Lines,     \* the problems to solve
    Starts     \* line -> the placements handed to an attempt

ASSUME LineAssumption == \A P \in Lines : ProblemIsSound(P)

VARIABLES
    at,         \* the placement: machine -> [cell, front]
    repairing,  \* whether power sources may be moved (the optimize path)
    stage,      \* "pipes", "other" (order of the cables), "hatches" or "done"
    autos,      \* the router's free connections and what they spent
    left,       \* nets still to be piped
    pipes,      \* the routes laid
    failed,     \* nets no pipe could be laid for
    laid,       \* the cable kept: [at, power, me]
    result      \* [status, constraint, failed, layout]

vars == <<line, at, repairing, stage, autos, left, pipes, failed, laid, result>>

Gate == INSTANCE ValidatorMe

NothingLaid == [at |-> <<>>, power |-> [routes |-> <<>>, cells |-> {}, failed |-> {}], me |-> NoNetworks]
Unassembled == [status |-> "open", constraint |-> "", failed |-> {}, layout |-> <<>>]

\* What the router pipes: every net but those on ME, covered whole, or power.
ToPipe(a) ==
    LET piped(n) == ~RidesMe(n) /\ n.com # "power" /\ n.id \notin a.covered IN SelectSeq(Nets, piped)

\* The bank columns, where the line is a chain of banks and the crowding gate
\* has nothing against them.
ColumnStarts == {L \in {BankLayout} : L # NoColumns /\ CrowdedMachines(L) = {}}

Init ==
    /\ line \in Lines
    /\ \/ /\ at \in Starts[line.id]
          /\ repairing \in IF PowerNets = <<>> THEN {FALSE} ELSE BOOLEAN
       \/ /\ at \in ColumnStarts
          /\ repairing = (PowerNets # <<>>)
    /\ stage = "pipes"
    /\ autos = AssignAutoOutputs(at)
    /\ left = ToPipe(autos)
    /\ pipes = <<>>
    /\ failed = {}
    /\ laid = NothingLaid
    /\ result = Unassembled

-----------------------------------------------------------------------------
(* Pipes, around the machines, one another and the casing cells the free   *)
(* connections took.                                                       *)

IsSplit(n) == \E f \in autos.fed : f[1] = n.id

\* Casing cells and faces spent, per machine: by terminals, by free
\* connections, and by ME devices.
WithClaims(claimed, terminals) == [m \in Machines |-> claimed[m] \cup ClaimsByMachine(terminals)[m]]
TerminalsIn(routes) == UNION {Range(r.terminals) : r \in Range(routes)}

PipeClaims == WithClaims(autos.claimed, TerminalsIn(pipes))

PipeShut(n) == ObstacleCells(at) \cup CellsOf(pipes) \cup ForeignBacks(n.id, at)

PipeTrees(n) == Trees(PipedEnds(n, autos), at, PipeShut(n), WithClaims(autos.claimed, TerminalsIn(pipes)))

LayPipe(n, trees) ==
    \E tree \in trees :
        /\ pipes' = Append(pipes, AsRoute([n EXCEPT !.ends = PipedEnds(n, autos)], tree, IsSplit(n)))
        /\ failed' = failed

\* A net the negotiation leaves without a tree is skipped, not fatal.
SkipPipe(n, trees) ==
    /\ trees = {}
    /\ failed' = failed \cup {n.id}
    /\ pipes' = pipes

Pipe ==
    /\ stage = "pipes" /\ left # <<>>
    /\ left' = Tail(left)
    /\ \E trees \in {PipeTrees(Head(left))} : LayPipe(Head(left), trees) \/ SkipPipe(Head(left), trees)
    /\ UNCHANGED <<line, at, repairing, stage, autos, laid, result>>

-----------------------------------------------------------------------------
(* Cable: power and the ME networks, the second around the first.          *)

\* Each works around the other's cells and claims, if that came before it.
WithMe(cable, claimed) ==
    [cable EXCEPT !.me = RouteMe(cable.at, CellsOf(pipes) \cup cable.power.cells,
                                 WithClaims(claimed, TerminalsIn(cable.power.routes)))]
WithPower(cable, claimed) ==
    LayPower(cable.at, CellsOf(pipes) \cup cable.me.cells,
             WithClaims(claimed, Range(cable.me.terminals)), repairing) @@ cable

LayCable(order, claimed) ==
    FoldLeft(LAMBDA cable, kind : IF kind = "me" THEN WithMe(cable, claimed) ELSE WithPower(cable, claimed),
             [NothingLaid EXCEPT !.at = at], order)

\* The nets an attempt at the cable leaves unmoved, and how badly it failed.
Riding(networks) == {n.id : n \in {x \in NetSet : x.me \in networks}}
\* Mutant: the nets riding a network that failed are not reported.
FailedNetsOfPower(cable) == cable.power.failed
FailedNets(cable) == cable.power.failed \cup Riding(cable.me.failed)
Failures(cable) ==
    IF FailedNets(cable) = {} /\ cable.me.failed # {} THEN 1 ELSE Cardinality(FailedNets(cable))

CableOrder == IF stage = "other" THEN <<"power", "me">> ELSE <<"me", "power">>

KeepFirst(cable) ==
    /\ stage = "pipes"
    /\ laid' = cable
    /\ stage' = IF Networks # <<>> /\ Failures(cable) > 0 THEN "other" ELSE "hatches"

\* The other order is tried only after a failure, and kept only if it leaves
\* less undone.
KeepLesserFailure(cable) ==
    /\ stage = "other"
    /\ laid' = IF Failures(cable) < Failures(laid) THEN cable ELSE laid
    /\ stage' = "hatches"

Cable ==
    /\ stage \in {"pipes", "other"} /\ left = <<>>
    /\ \E cable \in {LayCable(CableOrder, PipeClaims)} : KeepFirst(cable) \/ KeepLesserFailure(cable)
    /\ UNCHANGED <<line, at, repairing, autos, left, pipes, failed, result>>

-----------------------------------------------------------------------------
(* Hatches, and the verdict.                                               *)

AutoConnection(a) ==
    [net |-> a.net, src |-> a.src[1], face |-> a.face, dst |-> a.dst[1], dstFace |-> Opposite[a.face]]

LayoutOf(hatches) ==
    [at |-> laid.at, routes |-> pipes \o laid.power.routes, hatches |-> hatches,
     autos |-> [i \in DOMAIN autos.autos |-> AutoConnection(autos.autos[i])], me |-> laid.me.networks]

\* The first stage that stalled names the result.
Stalled(plan) ==
    CASE failed # {} -> "routing"
      [] failed = {} /\ laid.me.failed # {} -> "me"
      [] failed = {} /\ laid.me.failed = {} /\ laid.power.failed # {} -> "power"
      [] failed = {} /\ laid.me.failed = {} /\ laid.power.failed = {} /\ plan.short # {} -> "hatches"
      [] OTHER -> ""

Starves(v) == v[1] \in {"POWER_SUPPLY_INSUFFICIENT", "ME_POWER_INSUFFICIENT"}
StarvedMachines(report) ==
    IF \A v \in report : Starves(v) /\ v[2] \in Machines THEN {v[2] : v \in report} ELSE {}
PowerNetsOf(machines) == {n.id : n \in {x \in Range(PowerNets) : \E e \in Ends(x) : e[1] \in machines}}

Judged(layout, report) ==
    IF report = {} THEN [status |-> "valid", constraint |-> "", failed |-> {}, layout |-> layout]
    ELSE [status |-> "partial_invalid", layout |-> layout,
          constraint |-> IF StarvedMachines(report) # {} THEN "power_supply" ELSE "validation",
          failed |-> PowerNetsOf(StarvedMachines(report))]

Verdict(layout, stalled) ==
    IF stalled # ""
    THEN [status |-> "partial_invalid", constraint |-> stalled, layout |-> layout,
          failed |-> failed \cup FailedNets(laid)]
    ELSE Judged(layout, Gate!Violations(layout))

Finish ==
    /\ stage = "hatches"
    /\ \E plan \in {PlaceHatches(pipes \o laid.power.routes, laid.me.terminals, autos.autos,
                                 StructureCells(laid.at, CellsOf(pipes) \cup laid.power.cells \cup laid.me.cells),
                                 laid.at)} :
          result' = Verdict(LayoutOf(plan.hatches), Stalled(plan))
    /\ stage' = "done"
    /\ UNCHANGED <<line, at, repairing, autos, left, pipes, failed, laid>>

Next == Pipe \/ Cable \/ Finish

Spec == Init /\ [][Next]_vars

-----------------------------------------------------------------------------

\* A pipe laid at the largest size there is, and still too thin.
BeyondAnyPipe(v, Z) ==
    v[1] = "ITEM_PIPE_SIZE_INSUFFICIENT" /\ \A r \in Gate!RoutesOf(Z) : r.net = v[2][1] => r.size = Last(PipeLadder)

(* The stages agree with the gate: an attempt in which none of them failed *)
(* is valid, or all that is wrong with it is a machine too far from its    *)
(* source or a run no pipe carries.  Anything else would be a bug in one   *)
(* of them (solver/core.py, _validation_infeasibility).                    *)
StagesAgreeWithGate ==
    stage = "done" /\ result.constraint = "validation" =>
        \A v \in Gate!Violations(result.layout) : BeyondAnyPipe(v, result.layout)

\* A layout short of one thing it was given.  The segments that leave the
\* source's block build it together, each for all of it: they thin as one.
ThinnerCables(r) ==
    LET AtRoot(i) == Gate!RootOf(r) \in Range(r.segments[i])
        thinned == {{i \in DOMAIN r.thick : AtRoot(i)}} \cup {{i} : i \in {j \in DOMAIN r.thick : ~AtRoot(j)}}
        Below(g) == Max({1} \cup {h \in Thicknesses : h < g})
    IN {[r EXCEPT !.thick = [i \in DOMAIN @ |-> IF i \in S THEN Below(@[i]) ELSE @[i]]] :
           S \in {T \in thinned : \A i \in T : r.thick[i] > 1}}
LesserRoutes(r) ==
    {[r EXCEPT !.terminals = RemoveAt(@, i)] : i \in DOMAIN r.terminals}
    \cup {[r EXCEPT !.segments = RemoveAt(@, i), !.thick = IF @ = <<>> THEN @ ELSE RemoveAt(@, i)] :
              i \in DOMAIN r.segments}
    \cup IF r.com = "power" THEN ThinnerCables(r) ELSE {}

LesserNetworks(k) ==
    {[k EXCEPT !.cells = RemoveAt(@, i)] : i \in DOMAIN k.cells}
    \cup {[k EXCEPT !.devices = @ \ {d}] : d \in k.devices}
    \cup {[k EXCEPT !.kind[c] = "smart"] : c \in {d \in Range(k.cells) : k.kind[d] = "dense"}}

LesserLayouts(Z) ==
    {[Z EXCEPT !.hatches = @ \ {h}] : h \in Z.hatches}
    \cup {[Z EXCEPT !.autos = RemoveAt(@, i)] : i \in DOMAIN Z.autos}
    \cup UNION {{[Z EXCEPT !.routes[i] = r] : r \in LesserRoutes(Z.routes[i])} : i \in DOMAIN Z.routes}
    \cup UNION {{[Z EXCEPT !.me[i] = k] : k \in LesserNetworks(Z.me[i])} : i \in DOMAIN Z.me}

\* A valid layout holds nothing the gate would not miss: with any one cable,
\* hatch, terminal, device or free connection gone, or a cable or segment one
\* gauge thinner, it is refused.
NothingIsSpare ==
    stage = "done" /\ result.status = "valid" =>
        \A Z \in LesserLayouts(result.layout) : Gate!Violations(Z) # {}

\* The nets of a layout that nothing moves: no route, and a producer no free
\* connection empties; or a network that was not built.
Unmoved(Z) ==
    {n.id : n \in {x \in Gate!Built : ~Gate!IsRouted(x, Z) /\ (Gate!Fed(x, Z) = {} \/ Gate!Fed(x, Z) # Gate!Sources(x))}}
    \cup {n.id : n \in {x \in NetSet : x.me \notin {""} \cup {Z.me[i].id : i \in DOMAIN Z.me}}}

\* What a stalled attempt reports failed is what its layout leaves unmoved,
\* whatever the order of the cables and the source moves behind it: attempts
\* are ranked, and nets promoted, on that report (solver/core.py, _assemble).
FailedNetsAreUnmoved ==
    stage = "done" /\ result.constraint \in {"routing", "me", "power", "hatches"} =>
        result.failed = Unmoved(result.layout)

=============================================================================
