------------------------------- MODULE Delivery -------------------------------
(***************************************************************************)
(* From a plan to a verdict: the adapter's problem handed to an attempt,   *)
(* and what the attempt's layout then does for the plan.  Nothing of the   *)
(* adapter is used to say so but the plan it reads and its instance names. *)
(***************************************************************************)
EXTENDS Assembly

CONSTANT Plans    \* line -> the plan it was adapted from, for the lines that have one

A == INSTANCE Adapter WITH StubChannels <- DenseCapacity, AdhocMaxDevices <- AdhocDevices

Planned == line.id \in DOMAIN Plans
Plan == A!PlanRead(Plans[line.id])
InNodes(id) == id \in A!NodeIds(Plan)
Instances(id) == IF InNodes(id) THEN Range(A!InstanceIds(A!NodeOf(Plan, id))) ELSE {id}

-----------------------------------------------------------------------------
(* What moves where in a layout.                                           *)

NetworkIds == {k.id : k \in Range(Networks)}
Filters == {m \in Machines : Machine[m].filter # {}}
ForItem(p, res) == p.res \in {res, A!MergedItems}
Takes(t, res) == Port(t.machine, t.port).dir = "in" /\ ForItem(Port(t.machine, t.port), res)
Gives(t, res) == Port(t.machine, t.port).dir = "out" /\ ForItem(Port(t.machine, t.port), res)

PipedLinks(r, res) ==
    IF res \notin Gate!NetOf(r.net).items THEN {}
    ELSE {<<s.machine, t.machine>> : s \in {x \in Range(r.terminals) : Gives(x, res)},
                                     t \in {x \in Range(r.terminals) : Takes(x, res)}}
EjectedLinks(Z, res) == {<<a.src, a.dst>> : a \in {x \in Range(Z.autos) : res \in Gate!NetOf(x.net).items}}
\* Into a network by a device on a port that gives, out of it by one that takes.
NetworkLinks(k, res) ==
    LET served(d, dir) == \E p \in Range(Gate!Endpoint(<<d.machine, d.id>>).ports) :
                             \E n \in NetSet : /\ n.me = k.id /\ res \in n.items /\ <<d.machine, p>> \in Ends(n)
                                               /\ Port(d.machine, p).dir = dir
    IN {<<d.machine, k.id>> : d \in {x \in k.devices : served(x, "out")}}
       \cup {<<k.id, d.machine>> : d \in {x \in k.devices : served(x, "in")}}
Links(Z, res) ==
    UNION {PipedLinks(r, res) : r \in Range(Z.routes)} \cup EjectedLinks(Z, res)
    \cup UNION {NetworkLinks(k, res) : k \in Range(Z.me)}

\* Straight there, or by way of a filter that passes it or a network.
Reaches(a, b, links, res) ==
    \/ <<a, b>> \in links
    \/ \E by \in {f \in Filters : res \in Machine[f].filter} \cup NetworkIds : {<<a, by>>, <<by, b>>} \subseteq links

-----------------------------------------------------------------------------

\* Every edge of the plan is served between every pair of machines it stands
\* for; a storage the line has no block for is one of its networks.
Standing(id) == IF id \in Machines THEN {id} ELSE NetworkIds
EdgeServed(e, Z) ==
    LET links == Links(Z, e.res)
    IN \A a \in Instances(e.source), b \in Instances(e.target) :
          \E x \in Standing(a), y \in Standing(b) : Reaches(x, y, links, e.res)

\* What no edge takes is kept by a chest or a network.
Untaken(node) ==
    {f.res : f \in {x \in UNION {Range(run.out) : run \in Range(node.runs)} :
                       ~\E e \in Range(Plan.edges) : e.source = node.id /\ e.res = x.res}}
Keepers == NetworkIds \cup {m \in Machines : Machine[m].store}
KeptAll(node, Z) ==
    \A res \in Untaken(node) : LET links == Links(Z, res) IN
        \A a \in Instances(node.id) : \E b \in Keepers : Reaches(a, b, links, res)

\* Nothing is piped to a machine whose recipe does not take it, nor to none:
\* an item a run carries and no one takes would stop it.
Inputs(m) == UNION {UNION {{f.res : f \in Range(run.in)} : run \in Range(n.runs)} :
                       n \in {x \in Range(Plan.nodes) : m \in Range(A!InstanceIds(x))}}
Wanted(m) == IF Machine[m].filter # {} THEN Machine[m].filter
             ELSE IF Machine[m].store THEN {q.res : q \in PortsOf(m)} ELSE Inputs(m)
NoneStrays(r) ==
    LET items == Gate!NetOf(r.net).items
        sinks == {t.machine : t \in {x \in Range(r.terminals) : Port(x.machine, x.port).dir = "in"}}
    IN /\ items \subseteq UNION {Wanted(m) : m \in sinks}
       /\ \A m \in sinks \ Filters : items \subseteq Wanted(m)

(* A layout passed as valid does what its plan says: every edge carries    *)
(* its resource from each machine it stands for to each, whatever merging, *)
(* filtering, ejecting and ME came between; every by-product is kept; and  *)
(* nothing reaches a machine that has no use for it (adapter/core.py).     *)
DeliversThePlan ==
    stage = "done" /\ Planned /\ result.status = "valid" =>
        /\ \A e \in Range(Plan.edges) : EdgeServed(e, result.layout)
        /\ \A node \in Range(Plan.nodes) : KeptAll(node, result.layout)
        /\ \A r \in {x \in Range(result.layout.routes) : x.com = "item"} : NoneStrays(r)

-----------------------------------------------------------------------------
(* Power.                                                                  *)

NetsFeeding(m, p) == {n \in Range(PowerNets) : <<m, p>> \in Ends(n)}
DrawOf(n) == FoldSet(LAMBDA e, a : a + PortEut(e[1], e[2]), 0, Range(Consumers(n)))
TierOf(n) == Machine[Producers(n)[1][1]].tier
FitsACable(eut, tier) == eut <= A!MaxCableAmps * LadderVolts[tier]

EveryHatchFedOnce ==
    \A m \in Machines : \A p \in {q \in PortsOf(m) : q.com = "power" /\ q.dir = "in"} :
        /\ Cardinality(NetsFeeding(m, p.id)) = 1
        /\ \A n \in NetsFeeding(m, p.id) : TierOf(n) = Machine[m].tier

\* No run is past its cable, and none of a tier could have been spared.
RunsAreFew ==
    \A n \in Range(PowerNets) :
        /\ FitsACable(DrawOf(n), TierOf(n))
        /\ \A k \in Range(PowerNets) \ {n} : TierOf(k) = TierOf(n) => ~FitsACable(DrawOf(n) + DrawOf(k), TierOf(n))

Furthest(r) == LET depth == Gate!DepthOn(r) IN Max({depth[t.cell] : t \in Range(r.terminals)})

(* The cables are enough before any is laid: every hatch is on one run of  *)
(* its machine's tier, no run is past the thickest cable and no two would  *)
(* fit one; and a machine is starved only further from its source than the *)
(* run its hatches were sized for (adapter/power.py:_partition_by_amperage,*)
(* dataset/voltage.py:DESIGN_RUN_BLOCKS).                                  *)
FeedsAreCarried ==
    Planned /\ stage = "done" =>
        /\ ~PowerExternal => EveryHatchFedOnce /\ RunsAreFew
        /\ result.constraint = "power_supply" =>
              \E r \in Range(result.layout.routes) : r.com = "power" /\ Furthest(r) > A!DesignRunBlocks
=============================================================================
