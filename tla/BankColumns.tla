----------------------------- MODULE BankColumns -----------------------------
(***************************************************************************)
(* The layout of a line that is one chain of banks (placement/banks.py):   *)
(* a stage done by several machines stands as a column along z, the next   *)
(* one diagonally above it, and whatever is alone caps a free column at    *)
(* the region's far wall.  A column is its <<x, y>>.                       *)
(***************************************************************************)
EXTENDS Line, SequencesExt

NoColumns == <<>>

-----------------------------------------------------------------------------
(* The chain.                                                              *)

NetsOn(m) == {n.id : n \in {x \in NetSet : \E e \in Ends(x) : e[1] = m}}

\* A bank is every machine on the same nets, power sources apart.
BankOf(m) == SelectSeq(MachineOrder, LAMBDA k : ~SuppliesPower(k) /\ NetsOn(k) = NetsOn(m))
Banks == {BankOf(m) : m \in {k \in Machines : ~SuppliesPower(k)}}

MaterialNets == {n \in NetSet : n.com # "power"}
Giving(n) == {e[1] : e \in Range(Producers(n))}
Taking(n) == {e[1] : e \in Range(Consumers(n))}
BanksOf(machines) == {BankOf(m) : m \in machines}

\* A net of material runs from one bank to another.
LinksBanks(n) ==
    /\ \A m \in Giving(n) \cup Taking(n) : ~SuppliesPower(m)
    /\ Cardinality(BanksOf(Giving(n))) = 1 /\ Cardinality(BanksOf(Taking(n))) = 1
    /\ BanksOf(Giving(n)) # BanksOf(Taking(n))

BankLinks == UNION {BanksOf(Giving(n)) \X BanksOf(Taking(n)) : n \in MaterialNets}
ChainHeads == {b \in Banks : \A l \in BankLinks : l[2] # b}

IsChain ==
    /\ \A m \in Machines : Machine[m].size = <<1, 1, 1>>
    /\ \A n \in MaterialNets : LinksBanks(n)
    /\ \A k, l \in BankLinks : (k[1] = l[1]) = (k[2] = l[2])
    /\ Cardinality(ChainHeads) = 1
    /\ \E b \in Banks : Len(b) > 1

\* From the one bank nothing feeds, each to the one it feeds.
Walk ==
    LET feeds(b) == {l[2] : l \in {k \in BankLinks : k[1] = b}}
        onward(walked, i) == IF feeds(Last(walked)) = {} THEN walked
                             ELSE Append(walked, CHOOSE b \in feeds(Last(walked)) : TRUE)
    IN FoldLeft(onward, <<CHOOSE b \in ChainHeads : TRUE>>, [i \in 2 .. Cardinality(Banks) |-> i])

-----------------------------------------------------------------------------
(* The columns.                                                            *)

StageColumn(k) == <<1 + ((k - 1) % 2), k - 1>>

\* The column that carries the pipe of stages k and k + 1: of the two beside
\* both, the one away from the middle, if the pair before left it.
PipeColumns(stages) ==
    LET beside(k) == << <<2 - ((k - 1) % 2), k - 1>>, <<1 + ((k - 1) % 2), k>> >>
        choose(used, k) == LET pair == IF k % 2 = 1 THEN beside(k) ELSE Reverse(beside(k))
                           IN used \cup {IF pair[1] \in used THEN pair[2] ELSE pair[1]}
    IN FoldLeft(choose, {StageColumn(k) : k \in 1 .. stages}, [k \in 1 .. stages - 1 |-> k])

NextColumns(c) == << <<c[1] - 1, c[2]>>, <<c[1] + 1, c[2]>>, <<c[1], c[2] + 1>>, <<c[1], c[2] - 1>> >>
InSection(c) == c[1] \in 0 .. Region[1] - 1 /\ c[2] \in 0 .. Region[2] - 1

\* Mutant: a column may be capped twice.
FreeSidesAny(c, used) == SelectSeq(NextColumns(c), LAMBDA s : InSection(s))

FreeSides(c, used) == SelectSeq(NextColumns(c), LAMBDA s : InSection(s) /\ s \notin used)

\* The free column beside the most stages, the lowest and then the leftmost
\* of equals, where one cable feeds them all.
Spines(stages, used) ==
    LET free == {<<x, y>> : x \in {i \in 0 .. 3 : i < Region[1]},
                            y \in {i \in 0 .. stages : i < Region[2]}} \ used
        touching(c) == Cardinality(Range(NextColumns(c)) \cap {StageColumn(k) : k \in 1 .. stages})
        before(c, d) == \/ touching(c) > touching(d)
                        \/ touching(c) = touching(d) /\ c[2] < d[2]
                        \/ touching(c) = touching(d) /\ c[2] = d[2] /\ c[1] <= d[1]
    IN {c \in free : \A d \in free : before(c, d)}

Preferring(m, f) == IF f \in Range(Machine[m].facings) THEN f ELSE Machine[m].facings[1]

\* One machine more on the cap row, in the first of some free columns.
Cap(laid, m, columns) ==
    IF columns = <<>> THEN [laid EXCEPT !.ok = FALSE]
    ELSE [laid EXCEPT !.used = @ \cup {columns[1]},
                      !.at = (m :> [cell |-> <<columns[1][1], columns[1][2], Region[3] - 1>>,
                                    front |-> Preferring(m, "S")]) @@ @]

CapSource(laid, m, stages) ==
    IF "S" \notin Range(Machine[m].facings) THEN [laid EXCEPT !.ok = FALSE]
    ELSE Cap(laid, m, SetToSeq(Spines(stages, laid.used)))

\* The stages in their columns, the feed and the drain beside the first and
\* the last of them, then the power sources.
LayColumns(stages, feed, drain) ==
    LET length == Max({Len(b) : b \in Range(stages)})
        count == Len(stages)
        z0 == Region[3] - 1 - length
        inStages == [m \in UNION {Range(b) : b \in Range(stages)} |->
                        LET k == CHOOSE i \in 1 .. count : m \in Range(stages[i])
                            j == CHOOSE i \in DOMAIN stages[k] : stages[k][i] = m
                        IN [cell |-> StageColumn(k) \o <<z0 + j - 1>>, front |-> Preferring(m, "N")]]
        bare == [ok |-> z0 >= 0 /\ count <= Region[2] /\ Region[1] >= 3,
                 used |-> PipeColumns(count), at |-> inStages]
        beside(laid, ends, k) ==
            FoldLeft(LAMBDA l, m : Cap(l, m, FreeSides(StageColumn(k), l.used)), laid, ends)
        capped == beside(beside(bare, feed, 1), drain, count)
    IN FoldLeft(LAMBDA l, m : CapSource(l, m, count), capped, SelectSeq(MachineOrder, SuppliesPower))

\* A lone machine at an end of the chain is its feed or its drain.
LaidColumns ==
    LET chain == Walk
        loneAt(i) == Len(chain) > 1 /\ Len(chain[i]) = 1
        feed == IF loneAt(1) THEN chain[1] ELSE <<>>
        drain == IF loneAt(Len(chain)) THEN chain[Len(chain)] ELSE <<>>
    IN LayColumns(SubSeq(chain, 1 + Len(feed), Len(chain) - Len(drain)), feed, drain)

\* The line's column layout, or none.
ColumnsOf(laid) ==
    IF laid.ok /\ {laid.at[m].cell : m \in Machines} \cap Reserved = {} THEN laid.at ELSE NoColumns

BankLayout ==
    IF ~IsChain THEN NoColumns
    ELSE IF Len(Walk) # Cardinality(Banks) THEN NoColumns
    ELSE ColumnsOf(LaidColumns)
=============================================================================
