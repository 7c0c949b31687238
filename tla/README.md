# Verification of the GTNH process-line solver

This directory is a TLA+ development of the solver in `src/src/gtnh_solver`: modules that
model its algorithms, TLC configurations that check them on small instances, and theorems that
TLAPS proves for every instance. Each definition that stands for code is listed with its
source lines in `PROJECT.json` under `map`. Paths below are relative to
`src/src/gtnh_solver/`.

The solver takes a factory planner's export of a GregTech process line (machines, recipes,
nets of items, fluids, power and ME) and lays it out in a bounding region: a pose for each
machine, a tree of pipe or cable for each net, casing hatches, ME parts. It is a
single-threaded program of bounded search loops, with one exception (a process pool for the
attempts of the multi-start). What is hard in it is not concurrency but *order and
bookkeeping*: greedy choices that later ones depend on, ledgers kept incrementally over many
rounds, early stops that claim a proof, retry loops that have to end without giving up what
another order would have found.

## 1. Inventory

How a solve runs:

```
cli -> adapter (+ dataset) -> InputIR -> solver.solve
         |                                 |-- placement: constructive seed -> anneal -> crowding gate
         |                                 |-- _assemble: auto outputs -> route (negotiation over Steiner trees)
         |                                 |              -> _lay_cable (ME forests, power trunks, source repair)
         |                                 |              -> hatches -> validator
         |                                 `-- rank the attempts of a round; buy another round or answer
         `-> previewer, schematic export, system files
```

Everything a stage hands to the next is a frozen value; nothing is shared but the call stack.
Stages interact in three ways. A stage's result *blocks cells* for the next (auto outputs for
the negotiation, item and fluid trees for cable and ME, everything for the hatches). A stage
*reserves* for a later one (the negotiation lays power trees that are thrown away, so that the
cable will have room). And a stage *reports failures* that the ranking of attempts compares.

| component | state it keeps | operations | what makes it correct | status |
|---|---|---|---|---|
| adapter (`adapter/core.py`, `power.py`, `me.py`, `me_build.py`) | tables under construction | map nodes, storages and edges; crop managers; buffers; power; merge item nets; build ME | every edge of the plan is served in a valid layout; every hatch is on one run, no run past its cable | partly (section 6) |
| IR, nets (`ir/*`) | frozen values | lookups, geometry, refusals | - | modelled |
| dataset (`dataset/*`) | read-only tables | lookups, arithmetic | - | partly: the arithmetic |
| constructive placement (`placement/constructive.py`, `groups.py`) | occupied cells, queue of units | `place` and everything below it | poses legal, fronts open where needed, columns in flow order, grouping never loses a line | modelled |
| annealed placement (`placement/search.py`) | placement, occupied set, cost, accepted states | relocate, nudge, swap, turn, ruin and recreate; gate the best | layouts stay legal, occupied set never drifts, columns stay rigid, the state returned is the cheapest uncrowded one | modelled |
| crowding gate (`placement/feasibility.py`) | a matching | augmenting paths, ME block clashes | names a machine only when its connections cannot all dock | modelled |
| auto outputs (`router/auto.py`), hatches (`router/hatches.py`) | claims on casing cells | greedy and augmenting assignment | no face or casing cell spent twice, none left short that could be served | modelled |
| router geometry (`router/_grid.py`) | none | obstacles, dock candidates, claim keys, `astar_multi` | the same for every router | modelled |
| negotiated router (`router/core.py`) | trees, usage ledgers, history prices, over-used set, stall count | `route`, `_negotiate`, `_count`, `_congestion_is_irreducible`, salvage | ledger equals the trees; kept nets share nothing; every net answered once; giving up only on a proof, in time and not sooner | modelled but for the prices |
| Steiner tree search (`router/steiner.py`) | heap, best costs, predecessors, tree grown so far | `Grid`, `route_tree`, `_grow`, `_search` | early stop is exact; the tree is one a validator accepts; pruned starts could not win; any routable net gets a tree | modelled |
| item pipes (`router/item_pipes.py`) | none | sizing | every block of a run carries what is inserted through it | modelled |
| power router (`router/power.py`) | trunks of this pass, failed sets seen, terminals, segments, gauges | `route_power`, `_rip_up_reroute`, `_route_pass`, `_route_trunk`, `_size_trunk` | trunks apart; a pass's answers agree; the retry ends on the right pass and gives up nothing it could reach; no cable burns, none is wasted | modelled |
| ME router (`router/me.py`) | forests, barred cells, failed sets | preparation, one network, passes, rip-up | channels within limits; networks a cell apart; ends | modelled |
| assembly (`solver/core.py` `_assemble`, `_lay_cable`) | what is laid so far, the better of two orders | stages in order, verdict | a stage that succeeds is never refused by the gate; a half-done order leaves no trace | modelled |
| source repair (`solver/repair.py`, `_structure.py`) | poses of sources, routes of their nets | hill climb | never worse; a moved source's nets are re-laid around everybody else | modelled |
| multi-start solver (`solver/core.py`) | best of each kind, pool, rounds, clock | `solve`, `_search`, `_another_round`, `_Rounds`, `_attempt` | the answer depends on the outcomes alone, never worse than the fast path, fresh seeds, budget, ends | modelled |
| validator (`validator/*`) | none | every check of one layout | it is the independent judge of all the above | modelled |
| bank columns (`placement/banks.py`) | none | the chain of banks, its columns and caps | no two machines on one column cell; what it lays routes and validates | modelled |
| plan reading, previewer, schematic export, command line and system files, extractor and tools | files | reading, rendering, writing | - | not modelled (section 6) |

`PROJECT.json` lists the hard places under `hazards`, each at its line, with the properties
that would catch it going wrong.

## 2. Modules

Arrows of the table: a module EXTENDS what it composes.

| module | models | composes |
|---|---|---|
| **the problem** | | |
| `Line` | `ir/geometry.py`: faces, turned boxes, slots, walls; the problem, its refusals and lookups (`ir/input_ir.py`, `ir/nets.py`, `ir/me.py`) | |
| `RuleData` | the numbers GT and AE2 fix (`dataset/voltage.py`, `pipe_capacity.py`, `ir/output.py`) | |
| **the adapter** | | |
| `PlanMapping` | a plan made machines and nets: splits, crop managers, generated power, buffers | |
| `MeBuild` | `adapter/me_build.py`, `dataset/me.py`: devices, stubs, links, controllers, acceptors | `PlanMapping`, `RuleData` |
| `Adapter` | `adapter/power.py`: hatches, sources, cable runs; item nets merged (filters, shared inputs); `to_input_ir`: all of it in its order, and the region | `MeBuild` |
| **placement** | | |
| `Constructive` | `place`, grouped and plain | |
| `BankColumns` | `placement/banks.py` | `Line` |
| `AutoOutput` | `router/auto.py`, and `router/_grid.py`: obstacles, backs, vents, dock candidates, claim keys | `Line` |
| `CrowdingGate` | `placement/feasibility.py` | `AutoOutput` |
| `PlacementCost` | what the annealer minimises, and its clusters and columns | `CrowdingGate` |
| `Annealer` | the walk and the choice after it | `PlacementCost` |
| **routing** | | |
| `Negotiation` | `_negotiate` with `_count` and the early-out | trees as a set per net |
| `TreeSearch` | `Grid`, and what one `_search` call answers, as functions | |
| `SteinerSearch` | the Dijkstra loop of `_search` that computes that | `TreeSearch` |
| `SteinerTree` | `route_tree` and `_grow` | `TreeSearch` |
| `RipUpReroute` | `_rip_up_reroute` and `_route_pass` | trunks as functions of what is taken |
| `PowerTrunk` | `_route_trunk`, `_size_trunk`, `astar_multi`, `whole_amps`, step by step | `TreeSearch` |
| `LaidTree` | the trees the routers hand on, as sets of possible trees | `AutoOutput` |
| `TrunkLaying` | `route()`'s published route, `router/item_pipes.py`; `route_power` as one operator | `LaidTree`, `RuleData` |
| `MERouter` | `router/me.py` | `LaidTree`, `RuleData` |
| `Hatches` | `router/hatches.py` | `AutoOutput` |
| **the gate** | | |
| `Validator`, `ValidatorMe` | `validator/_geometry.py`, `core.py`, `me.py`: the violations of a layout | `Line` and `RuleData` alone |
| **the solver** | | |
| `SourceRepair` | `solver/repair.py`, `_structure.py` | `TrunkLaying` |
| `Assembly` | one attempt from a placement to its verdict | `SourceRepair`, `Hatches`, `MERouter`, `BankColumns`, `CrowdingGate`, an instance of `ValidatorMe` |
| `Delivery` | what a layout does for the plan it came from | `Assembly`, an instance of `Adapter` |
| `BestOfGrid` | what the multi-start promises: the verdict on its attempts' outcomes | |
| `MultiStart` | `solve`, `_search`, `_Rounds` | implements `BestOfGrid` |
| **proofs** | | |
| `TreeSearchProofs` | what the functions of `TreeSearch` compute: the lemmas the next three rest on | `TreeSearch` |
| `SteinerProofs` | theorems of the loop and of whole calls | `SteinerSearch`, `SteinerTree`, `TreeSearchProofs` |
| `PowerTrunkProofs` | theorems | `PowerTrunk`, `TreeSearchProofs` |
| `NegotiationProofs`, `RipUpRerouteProofs`, `MultiStartProofs`, `ConstructiveProofs`, `AnnealerProofs` | theorems | the module they name |
| `MC*` | the instances TLC checks; `MCLines` has what two of them share | |

Definitions whose comment starts with "Mutant" are not part of the models: each replaces one
definition to show that a property notices (`mutants` in `PROJECT.json`).

**Adapter.** A plan is the record the planner's export parses to (`PlanMapping` gives its
fields). Each step is an operator from a draft (machines, nets) to a draft, in the order of
`to_input_ir`, because each reads what the one before it made. A rate is worked out as the code
does it, from the recipes a card runs, the variant its tier and coil select, parallels and
overclocks; input overrides are taken as applied to a recipe's inputs, and plans are ones the
adapter accepts.

**Annealer.** One move a step: the kinds of move are the disjuncts, a draw of the generator is
a choice, and `Consider` is what the code does with the state a move proposes. `occupied` is
kept by the code's deltas over machines, columns and clusters. `accepted` lists the states of
the walk, which is what the code gates afterwards. A move is the set of layouts its draws may
propose, `NoMove` when they may all fail; a rebuild lists its outcomes unit by unit.

**Negotiation.** `tree`, `active`, `failure`, `usage`, `over`, `prevOver`, `stall`, `round` are
the loop's variables; `pending` is how far the `for` over the nets has come; `phase`, `kept`,
`taken` belong to the salvage. One action is one net's turn (`KeepTree`, `Reroute`, `NoPath`) or
the end of a round (`Converge`, `GiveUp`, `NextRound`, `OutOfRounds`), then one net's salvage.
`relaid` and `since` are history, which no guard reads: who got a tree in this round, and since
which round the rounds have ended with the same contested set. The code's ledgers for cells and
for casing keys have one shape and are read together, so a resource stands for either. Any tree of
a net may come back from a search: what prices do to the choice is left open, so whatever holds
here holds for any pricing. A net in `Brittle` may come back empty-handed though it has trees,
which the Steiner search can do (finding 1).

**SteinerSearch, TreeSearch, SteinerTree.** `TreeSearch` says by definition what a search
answers: exact distances, the offer of each dock cell, the best offer, its path. The loop in
`SteinerSearch` has the heap as a set (`Frontier`), the ratio limit and the goals still alive,
and is checked against it; `SteinerTree` then grows whole trees from `TreeSearch` answers.
Costs are naturals, ratios are compared by cross-multiplication. One behaviour is one call;
the calls are enumerated by the MC modules.

**RipUpReroute, PowerTrunk, TrunkLaying.** `_route_trunk` is deterministic and keeps nothing,
so for the retry loop a net is a function from the taken cells to its trunk. `PowerTrunk` opens
that function: docking, tapping, legs, then the loads folded up the tree and the gauges. Where
the code breaks a tie by face order or heap order any tied choice may be taken. Amps are exact
in units of 1/`Scale`, which the instance chooses so that every division in it is exact.
`TrunkLaying` is the whole call as the stages around it see it, with one of those choices taken;
the backstop on passes is left out of it, since a repeated failed set always ends the loop
first.

**Assembly.** The variables are what a stage hands to the next. A step is one net piped, one
order of the cables laid and compared, or the hatches with the verdict. The negotiation is
replaced by what it returns: nets piped one after another around one another, each by *any* of
its trees (`LaidTree`). A line that is a chain of banks starts from its columns as well, as the
multi-start's first candidate does, where the crowding gate passes them.
Power sources may be moved where the call allows it and there is power.
`Gate` is the validator: it reads the problem and the layout and shares no definition with a
stage but the data of `RuleData` and the problem itself, as in the code.

**Validator.** Violations are `<<code, where>>` pairs; a layout is valid when there is none.

**Constructive.** The queue of units (a column of parallel machines, a shelf slot, a single
machine) and the occupied cells; the grouped form first and, when it cannot place something,
the plain one from an empty region. The region's lattice, shelves, facings and scan order are
translated as they stand; `_flow_order` is abstracted: the lines of an instance are given in
flow order.

**MultiStart, BestOfGrid.** An attempt is a function of its mode and seed, chosen when it
first runs. The pool takes attempts in order and returns them in any order; ranking reads
them in grid order. `fast = "valid"` means the fast layout is placed, passes the gate and
validates. The bank-column candidate only counts when it is VALID. An exception that escapes
a pool process is not modelled. The clock is only read when there is a budget.

## 3. What the runs check

Each run takes the interesting corners on the smallest instance that has them and ends well
within five minutes on two cores.

| run | instance | properties |
|---|---|---|
| `assembly` | 18 lines: 10 by hand (a multiblock mill, crossing streams, a stub in a corridor, two networks, a corner with one way out, a fed network, a tower, a sorter, one bank with power and two without), 8 adapted from plans (filters, shared inputs, split draws and runs, ME in three forms); starts with one or two machines moved over all their poses, for the banks the columns they are laid in | `StagesAgreeWithGate`, `NothingIsSpare`, `FailedNetsAreUnmoved`, `DeliversThePlan`, `FeedsAreCarried` |
| `annealing` | 3 lines of 3 or 4 machines, every walk of two moves | `LayoutsLegal`, `OccupiedExact`, `ColumnsStayRigid`, `ChosenIsTheOnlineChoice`, `GateNamesAreProofs`, `EarlyOutChangesNothing` |
| `negotiation` | 5 nets (2 power, 1 dockless, 1 brittle), 5 resources, 5 rounds, stall 2 | `LedgerExact`, `CollisionFree`, `EveryNetAnswered`, `CongestionHasCause`, `NoOldOverlap`, `NeverGivesUpRoutable`, `BrokenOffInTime` |
| `steiner_search` | 3x3 floor with a wall, 3 pending endpoints (two of one machine), priced cells and casings | `StopIsExact`, `SettledIsFinal`, `Returns` |
| `steiner_tree` | the same floor, nets of 2 and 3 endpoints, machines joined twice, shared casing blocks, cables, an earlier start | `TreeIsSound`, `PairIsCheapest`, `EvenTreeIsFound`, `SkippedCouldNotWin` |
| `ripup` | 3 nets with 7 ways each over 4 cells, 3 passes | `TrunksApart`, `EveryNetAnswered`, `RepeatIsHopeless`, `StopsInTime` |
| `power_trunk` | 4x3 floor with two walls, 2-3 sinks, 8 draws, gauges 1 to 16 | `TrunkIsTree`, `NoBlockBurns`, `NoWastedCable` |
| `constructive` | 4x4 floor, lines of 4 to 8 machines, groups in each facing, 5 kinds of reserved cells | `PlacementsLegal`, `GroupingNeverLoses`, `ColumnsBackToFront` |
| `multistart` | 2 modes, up to 4 attempts a round, up to 3 rounds, pool of 2, budgets | `RoundsHold`, `NeverWorseThanFast`, `ParachuteAtHand`, `Promise`, `Terminates` |
| `tree_uneven`, `ripup_order`, `constructive_tight` | | the findings below |

The type invariant of a module is a conjunct of one of its state properties.

What `assembly` shows, since it puts the most code together. The gate is written from the
validator and the stages from the stages, so agreement is not by construction.
`StagesAgreeWithGate`: when no stage failed, the gate refuses nothing, but for a run beyond the
thickest pipe there is (a machine too far from its source is reported under a constraint of its
own). Dropping a vent, a claim, a halo or a direction of insertion from a stage breaks it.
`NothingIsSpare` is the other half: the gate would miss every cable, hatch, terminal, device
and gauge of a valid layout, so neither the stages do too much nor the gate asks too little.
Pipe sizes are left out of it, since the size of a run is the largest one block of it needs.
`FailedNetsAreUnmoved`: attempts are ranked, and nets promoted, by what a stalled one reports.
`DeliversThePlan` and `FeedsAreCarried` go from the plan, before the adapter, to the layout,
after the gate, and use no definition of the adapter but the names it gives to instances.

Why the bounds are enough. *Assembly*: each line is as crowded as needed for one stage to spoil
a later one, and has starts where it does and where it does not; capacities of cables are
lowered (2 and 3 channels, 2 devices) so that three machines reach them. An adapted line is
tried in a corner of the region the adapter draws, which keeps its search spaces finite and
its routes short. *Annealing*: a delta that drifts shows after one move and is built upon by
the second; each kind of move applies in some line. *Negotiation*: a conflict needs two nets on
one resource, an early-out two nets forced onto it and a false alarm a third net with a way
round; five rounds with a stall of two reach the early-out, a set that goes on standing after
it could not be proven, a set that changes under a count, the last round and every salvage.
*Search and tree*: sharing, competition and detours need two docks per endpoint and one wall,
and a tree that branches needs three endpoints; the floor is two-dimensional, the third axis
only adds neighbours. *Rip-up*: three nets have eight failed sets, and three passes are enough
for a repeat, of the set just before or of an older one, as well as for the backstop; the
code's backstop of 16 is only a larger bound.
*Trunk*: three sinks branch twice, six volts die within the floor, and the draws lie on both
sides of a whole amp and of the thickest gauge. *Constructive*: a column of three, a shelf
row and a fallback all fit in 4x4 and fail in its reserved variants. *MultiStart*: an odd grid
of two modes is the case where a round is no whole number of seeds; two workers for three
waiting attempts is the case where one has to queue.

Large regions, the real tables of machines and long lines are out of reach of exhaustive
checking; the theorems of section 5 do not depend on them.

### Fairness

`Terminates` (`multistart`) and `Returns` (`steiner_search`) assume weak fairness of the
next-state relation as a whole. The search and the solve are single-threaded code without a wait,
so a step that can be taken is taken. For the pool, an attempt is bounded computation in a process
of its own and the parent waits for all of them, so again some step is always taken until the end.
Nothing stronger is assumed: no fairness of one action over another, no fair choice of trees or
prices. `Assembly` and `Annealer` count down what they have left, and the negotiation and the
retry loop are `for` loops over a range: that they end needs no check, and what is checked of them
is which round or pass they end on.

## 4. Findings

1. **A net that has a tree may get none** (`tree_uneven`). `_grow` joins greedily and never
   takes a join back. When a machine has two connections on one net and the first may dock on
   the only cell the second can use, it may take it, and the call returns `None`, which its
   docstring and `_negotiate` both take for proof that the geometry allows no tree.
   `EvenTreeIsFound` shows, on the instances, that the claim does hold where a machine's
   connections share their docks on an open floor.
2. **A repeated failed set is not a genuine infeasibility** (`ripup_order`). The retry loop
   stops on a repeat, and rightly as far as its own rule goes: run on, it would never come to
   a clean pass (`RepeatIsHopeless`). But another order of the nets may lay them all, so what
   is left is, against the docstring, an ordering accident.
3. **A seed that does not fit is not a line that does not fit** (`constructive_tight`). The
   spaced seed can fail where the plain row fits, and the solve then answers INFEASIBLE
   although the fast path would have laid the line; `NeverWorseThanFast` is therefore stated
   for the lines whose seed fits.

Smaller things the models had to allow for, which no run of its own is spent on:

* A net whose only two connections are one machine's own, on the same faces, never gets a tree:
  the joint start bans every claim key the first endpoint may end on (`steiner.py:259`), which
  are all the second one has, and a net of two has no other start. No plan here has such an
  edge, so `PairIsCheapest` and `EvenTreeIsFound` speak of nets that leave their machine.
* A pipe beyond the largest size is laid at that size for the validator to refuse
  (`router/core.py:262`), and the solve then tells the user "this indicates a solver/router
  bug" (`solver/core.py:989`). `StagesAgreeWithGate` excepts exactly that case.
* `_partition_by_amperage` (`adapter/power.py:279`) packs a run up to the full 16 A at the
  source. A run packed exactly full always fails once it is laid, since a block of cable
  already loses something; the code says so, and `FeedsAreCarried` has it as the far end.
* `_storage_ports` (`adapter/core.py:1683`) writes a port for each edge of a storage, so a
  port several edges share keeps the rate of the last one rather than their sum.

## 5. What is proved

TLAPS proves, for every value of the constants:

* `NegotiationProofs`: type correctness, `LedgerExact`, `CollisionFree`, `EveryNetAnswered`,
  `CongestionHasCause`, `NoOldOverlap`, `NeverGivesUpRoutable`, `BrokenOffInTime`, for any finite set of
  nets, any trees, any ranks, any round budget and stall bound.
* `RipUpRerouteProofs`: type correctness, `TrunksApart`, `EveryNetAnswered`, `RepeatIsHopeless`
  and `StopsInTime`, for any finite set of nets, any function that lays trunks outside the taken
  cells, any pass budget.
* `MultiStartProofs`: type correctness, `RoundsHold`, `NeverWorseThanFast`, `ParachuteAtHand`,
  and `Promise`, that the multi-start implements `BestOfGrid`, for any list of weightings, any
  outcomes, any grid size, process count, round count and budget.
* `ConstructiveProofs`: `PlacementsLegal` (with type correctness), `ColumnsBackToFront` and
  `GroupingNeverLoses`, for any region and any lines, however columns, shelf slots and scan
  positions mix in them.
* `TreeSearchProofs`: `DistancesSolve`, that the distances computed in rounds solve the
  equations of a shortest way, for any region, walls and prices; with it that the path walked
  back descends to a seed, that the best offer exists and is the only one, and what sums and
  Manhattan distances over packed cells do.
* `SteinerProofs`: of a search `SettledIsFinal` and `StopIsExact`, for any region, walls,
  prices, seeds and goals; of a call `TreeIsSound` (with type correctness), `PairIsCheapest`
  and `SkippedCouldNotWin`, for any region, walls, prices, claim keys and any finite number of
  endpoints and starts.
* `PowerTrunkProofs`: `TrunkIsTree` (with type correctness), `NoBlockBurns` and
  `NoWastedCable`, for any region, obstacles, candidates, draws, voltages, acceptors and gauges.
* `AnnealerProofs`: `LayoutsLegal` (with type correctness), `OccupiedExact`,
  `ColumnsStayRigid`, `EarlyOutChangesNothing`, `ChosenIsTheOnlineChoice` and
  `GateNamesAreProofs`, for any line, region, legal seed, weights and length of the walk,
  whatever is drawn; with the last that the gate's search by augmenting paths is complete
  (`HostsSeatsAll`).

The assumptions are the `ASSUME`s of those modules, which TLC evaluates on every run:

* `Negotiation`, `RipUpReroute`: the nets are finitely many, their ranks are distinct naturals,
  trees are non-empty sets of resources, trunks avoid what is taken. The first two are how a
  list of nets is, the third is how `_search` and `_route_trunk` are called (obstacles are
  walls).
* `MultiStart`: the weightings are a non-empty sequence without repeats; calls are what `solve`
  accepts (at least one attempt, process and round, not both a count and a budget); durations
  and the cap on rounds are naturals; `MaxSeed` is large enough for the seeds the calls can
  reach, so that the set of candidates of the abstract specification is a constant.
* The region has a positive extent each way and the walls lie in it (`RegionAssumption`,
  `HardAssumption`).
* `SteinerSearch`, `SteinerTree`: prices are naturals; seeds and goals are cells; endpoints are
  numbered from 0 and finitely many; what an endpoint may dock on is no wall, which is all
  `dock_candidates` answers; a start is entered at no more than `Infinity`, as `float("inf")`
  is above every price. Nothing is assumed of longer sums: where a cost would pass `Infinity`
  the statements do not tell it from no way at all, and still hold.
* `PowerTrunk`: `Scale` and the gauges are positive, the gauges finitely many and at least one;
  a net has its source and at least one sink (`_malformed` refuses any other) and finitely many
  endpoints; an endpoint's candidates are free cells, its draw is a natural, the voltage of its
  tier an integer.
* `Constructive`: the region has a positive extent each way; a machine has a legal facing and
  a box of positive extents at each of the four; the members of a group are single blocks with
  the same facings and different numbers, none facing outside (`_columnable`).
* `PlacementCost`: `LineAssumption` (the problem is one the solver accepts) and
  `ShapeAssumption`, that the fields of a problem have the types `ir/input_ir.py` gives them;
  `ContendersAssumption`, at most six machines, so that a share of a cell is a whole number of
  sixtieths (used for nothing but the unit of costs); `GroupAssumption`, that two machines of
  a group have different numbers, as two ids that only differ in their number do.
* `Annealer`: `SeedAssumption`, that a seed lists every machine once and gives each a pose. The
  walk starts from a seed that is legal (`Init`), which is what `optimize_placement` makes sure
  of: it returns the constructive placement untouched unless that is complete, and a complete
  one is legal (`LegalPlacements`).

The arguments. *Negotiation*: `CollisionFree` is not inductive by itself, since it speaks of
kept nets only and they are kept by two different ways. On convergence it follows from the
ledger: no count above one and `usage[r] = Cardinality(Holders(r))` means no two holders
(`NothingSharedIsDisjoint`), so the ledger has to be part of the invariant, and its step
(`RecountExact`) is the one place with cardinalities. In the salvage it follows from `taken`
being the union of the kept trees, and `CongestionHasCause` from the order of the salvage:
whoever was kept before a net stands before it in `Before`. `IInv` joins these with what
relates `active`, `failure` and `tree`. The early-out is sound because a resource forced on
two nets is in every tree of both, so any choice of trees overlaps there. `NoOldOverlap` needs what holds
inside a round (`OldApart`): trees from before it only meet where it was told to look, which is
what the exact ledger says when it begins, and those it left alone lie clear of that.
`BrokenOffInTime` needs the count to be the rounds gone by since the set came up, and what a
question without proof leaves behind (`Standing`): a resource that is not forced on two of the
nets. Later rounds cannot undo that, since who is forced is geometry and nets only leave, so
asking again would be in vain. *RipUpReroute*: a
net still pending has neither trunk nor failure, a visited one exactly one of the two
(`Fates`), and a trunk is laid outside everything taken, so it meets none.

*MultiStart*: the abstract verdict is a function of all outcomes, the program keeps three
running bests. Its invariant says that `came` is exactly the columns, the attempts of the
rounds gone by and those finished of this one (`Progress`), and that each running best is the
preferred one of its kind among the attempts *read so far* (`BestIsKept`), which the pool lets
differ from those that have come in. Reading in grid order keeps it (`ReadKeeps`): everything
read before stands `Earlier`, so a strict comparison keeps the first of equals. That a later
round is all new (`RoundsAreFresh`, and that `came` grows rather than being overwritten) comes
down to arithmetic: round `r` takes seeds from a block of `CeilDiv(attempts, modes)` starting
at `r` times that, so attempts of different rounds lie in different blocks (`BlocksApart`,
`AttemptOrder`). When the ranking is done everything has been read, the bests are those of the
whole set (`KeptIsTheBest`), and each way to finish is the abstract `Answer` (`StepRefines`).

*Constructive*: that what is placed is legal is kept by any unit laid clear of `Occupied`, but
only if the unit moves no machine that stands already, and only a queue that names every
machine left exactly once ends with all placed. `IInv` therefore joins `AllLegal` with
`Splits(todo, DOMAIN Machines \ DOMAIN placed)`. That the queues are such splits at the start
and after a column is dissolved needs what `_flow_units` does: sorting lists each member once
(`InOrderLists`, by the rank of an element, a bijection onto `1 .. n`), different heads lead
different machines, and together they lead all (`HeadsApart`, `HeadsLeadAll`). A slot computed
up front is part of it too: only single blocks that need not face outside have one
(`Shelvable`), so the one cell tested for it is the whole body. A column's blocks lie in the
box that was tested, each in a cell of its own (`ColumnCells`). The shelf's arithmetic plays
no part: slots are tested before they are used, so they may be anything. `GroupingNeverLoses`
rests on the restart: once in the plain seed, by the fallback or from the start, the machines
stand as a prefix of the line, each at the first spot left by those before it (`PlainInv`), so
nothing of the grouped attempt is carried over. Where that seed gives up, the placements it
made satisfy the equations of `FirstFitAll` at every machine, hence are what that function
computes, and it stops there too (`FirstFitStops`).

*What a recursive function computes.* `Distances`, `PathTo`, `Connected`, the passes of the
retry loop and the sums are functions defined by recursion on a number of rounds or on a
subset. The induction theorems of the library take an operator and cannot be used, but two
facts over sets can: a non-empty set of naturals has a least member (`WFMin`), hence a set that
holds 0 and with each `k` holds `k + 1` holds all up to `n` (`UpTo`), hence repeating a step
`n` times defines a function and any function that satisfies the equations is that one
(`Rounds`, `Unrolls`). So what `f[n]` is can be argued round by round, for every size of the
region.

*TreeSearch*: that the rounds reach a solution needs one to compare with: the greatest function
that no step relaxes further exists and each of its values is reached by a step or is a seed
(`GreatestRelaxed`); after round `k` all cells with fewer than `k` strictly cheaper ones agree
with it (`DistanceRounds`, `Rank`), and no cell has more cheaper ones than there are cells. The
path takes one cell a round, always a strictly cheaper one, so it too ends within as many.
Packed cells are dealt with once: coordinates from division (`Coordinates`, `Packed`), after
which a neighbour differs by one in one axis and is a neighbour both ways (`AdjFrom`,
`AdjSymmetric`).

*SteinerSearch*: the invariant is that of Dijkstra's loop, stated against `Distances`: no entry
is below the true distance, settled cells are exact and have relaxed their neighbours, the
frontier holds a cell on the way to every one not settled. `StopIsExact` adds the limit: it is
the ratio an offer not yet popped has to beat, and the cells still open cost more.

*SteinerTree*: a tree is a piece no part of which is cut off (`Joined`), which pieces sharing a
cell keep (`JoinedUnion`) and which is the same as growing to the whole from one cell
(`JoinedConnects`, `ConnectedJoins`). `IInv` says so of what is grown at every leg, with the
docks given so far inside it and no key of a machine twice; while the first endpoint has no
terminal, all keys it may end on are banned, which is what keeps its choice, made last, from
colliding. For `SkippedCouldNotWin` a connected piece from a start to a dock has a cell at
every Manhattan distance on the way (`PieceReaches`), and a tree costs at least one per cell
(`SumCounts`). `PairIsCheapest` weighs the one leg of such a net from both sides. Along a path
each cell adds its step to the distance, so the tree costs what its dock is away plus a toll
(`WalkCosts`); any piece that holds a start costs no less than getting from there to any of
its cells, which is seen by taking a largest part for which it is true (`PieceCosts`). The toll
is the same for every start, since the joint start enters each at its own price (`Fresh`), and
the dock was the best offer.

*PowerTrunk*: each segment enters a cell no segment entered before, from one the trunk already
has, so following parents from any cell leads to the source without a cycle; docks are distinct
because a sink may only dock where no other does. Sizing folds the loads over the segments
from the last laid to the first; since a segment leaves a block laid before it, once the folding
is past the `m`-th segment a block holds the loads of exactly the sinks it reaches through later
ones (`FedPast`), and in the end of all it feeds (`SubtreeIs`). Two segments out of one block
feed different sinks (`WaysPart`), so no load is counted twice. What feeds a sink is read off
the tree by walking back from it, as many rounds as there are cells (`WayIs`). Of the amps then
three things are left to see (`AmpsAre`): an acceptor behind a block brings the whole output
with it, without one the load is the steady draw, and no draw behind a block exceeds the
output. `SizedInv` carries the gauges from the step that sizes to every later state, and that
the last sink never taps a bare source block, without which there would be no segment to carry
the output.

*RipUpReroute, the repeat*: a pass is determined by the set of nets it leads with
(`TurnComputes`, `PassOutcome`), so the failed sets form a chain, each the outcome of leading
with the one before it. If the last one was seen before, the chain has closed and every later
pass repeats one of it; none of them is empty, or the loop had ended there. The same chain,
computed from the empty set that leads the first pass (`SetsAre`), gives `StopsInTime`: what has
been seen is exactly its first links, all different (`Counted`).

*Annealer*: none of the invariants is inductive alone. A move replaces units, so that a layout
stays legal needs the units to cover the line, no machine twice; a unit is clear of the others
only if what is kept as occupied is what they cover; and a column is put down whole only if it
is one of the units. `Stands` joins these, `Walks` says it of the list of accepted states.
Every move, from a nudge to a rebuilt cluster, is shown to be one thing: some units are taken
up and put down elsewhere, each whole, inside, facing as it may, clear of what stayed and of
one another (`LaidOut`, with `RelocateLaid`, `NudgeLaid`, `SwapLaid`, `ReorientLaid`, `RuinLaid`),
and one lemma each says that this keeps a layout legal (`LaidLegal`) and the delta exact
(`OccupiedFollows`). A rebuild puts back one unit after another, and its lemma holds after each
of them (`RecreateIs`). That the seed's units partition the line, and that each group it laid
as a column is one of them, is where `UnitsOf` is opened (`UnitsAre`). `OnlineChoice` compares
two ways through the same list: after `i` states the one kept so far is the cheapest that
passes, the first of equals (`OnlineIs`), which is how the sorted list is read (`CheapestIs`).
`EarlyOutSound` needs every part of the cost to be an integer (`CostType`) and a reward never
to be counted that the bound had left out (`EarnedIs`); then a candidate dropped early scores
no less than the incumbent, so both scans agree after each candidate (`KeptIs`, `BestIs`).

*Crowding gate*: `Augment` is a function that calls itself on frames, so first it has to be
well defined: each call has fewer cells unseen, or as many and fewer left to try, and the weight
`Toll` of the two falls (`TollIs`, `AugmentIs`). What a call does is stated for all frames at
once (`Right`): a path that is found moves no cell that was seen and seats nobody twice
(`Reseats`), and a search that fails leaves a closed set: it has seen all its demand may take,
and each cell it came to see has a holder who may take only what was seen (`Closed`). If every
demand could have a cell of its own, the holders of a closed set and the demand would have
theirs inside it, one more than it has cells (`SeatIs`), so no search fails, in whatever order
the demands ask (`HostsSeatsAll`). What is left for `GateNamesProved` is that a joint docking is
such a choice for every machine's view: an own connection takes the cell it docks on, and the
stand-ins of a net take those of the one neighbour with most connections on it, which differ as
they are of one machine (`StandInsAre`, `StoodMatch`, `DockableSeats`). The lists the gate is
given are sifted and flattened from the nets; `SiftedIs` and `FlattenIs` say that each entry
stands for a place of its own.

Only model-checked: liveness (`Terminates`, `Returns`), which is out of the prover's reach;
`EvenTreeIsFound`, which is a fact about the instances rather than about every floor, since a
greedy join can still be led into a pocket; and all that `assembly` shows, where the stages
and the validator reach RECURSIVE operators (`LaidTree`, `MERouter`, `TrunkLaying`,
`Validator`, `ValidatorMe`), which the prover does not take.

## 6. What is left out

Where a model stands for less than its code:

* *Negotiated router*: `_prices` is left open (any tree may come back), so nothing is claimed
  about which tree a price chooses; prices in `SteinerSearch` are naturals. In `Assembly` the
  nets are piped one after another, each by any of its trees.
* *Adapter*: input overrides are taken as applied; fluids on ME, speed cards as the user's
  choice, refusals and warnings are left out; rates are integers in exact fractions; the
  voltage ladder stops at UXV, as MAX is past TLC's integers; names are sorted in plan order,
  and problem order stands for id order.
* *ME router*: where the code breaks a tie by face or heap order the model takes one of the
  tied choices, always the same; all machines are placed; the cache of searches that failed
  before is left out, as it never changes an answer; and so is `endpoint_faces`, which a caller
  may pin a device's faces with.
* *Hatches*: the port of an auto-output is the one that ejects; `_auto_ports` takes a machine's
  first endpoint on the net.
* *Adapter, power*: plans are ones whose machines can be powered (no `UnpowerableError`).
* *Validator*: upgrade cards, wildcard and fuzzy filters, fluids by ME, the abstentions for
  machines without data, and the push rate of a normal output bus are left out.
* *Annealer*: feedback weights, which the solver's attempts do not pass, and tracing.
* *Bank columns*: pinned I/O, which the adapter never writes; `bank_columns` does not read
  `Machine.outside_front`, so a bank of machines that need an open front (no line here has one)
  is left to the gate to refuse.
* *Multi-start*: an exception that escapes a process of the pool, and what the trace records.
* Rounding of floats everywhere: the models compute exactly.

### Not modelled

* *Plan reading* (`adapter/plan.py`, `structure_blocks.py`, `producer.py`, `shadow.py`): parsing and
  checking of an export, and names of blocks; what it makes enters `Adapter` as a plan.
* *Previewer* and *schematic export*: rendering and writing of a finished layout, and their
  file formats.
* *Command line and system files* (`cli.py`, `system_io.py`, with `route_blocks.py`,
  `output_faces.py`, `hatch_locks.py`): arguments, printing and files, and the translation of a
  finished layout into blocks and settings for the exporters.
* *Extractor and tools*: build-time extraction of game data.

### Plan

1. Proofs of what `assembly` shows, which needs the modules its stages and the validator are
   in to be written with recursive functions throughout.
2. The prices of `_negotiate` as a refinement of `Negotiation`.
3. `output_faces.py` and `hatch_locks.py` as operators on a layout of `Assembly`, against what
   `DeliversThePlan` asks of the same layout.
