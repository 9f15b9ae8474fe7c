----------------------------- MODULE Aggregates -----------------------------
(***************************************************************************)
(* One group of a view with one column of each aggregate of                *)
(* engine/aggregation.rs: rows arrive by block, blocks are rolled back,    *)
(* become final, or leave the window and come back.                        *)
(***************************************************************************)
EXTENDS Integers, SequencesExt, FiniteSetsExt, TLC

CONSTANTS MinBlocks, \* RUNNING_FOLD_MIN_BLOCKS
          Mode,      \* NumMode: "Int" or "BigInt"
          Limit,     \* the largest number of the accumulator
          Null,
          Inputs,    \* the lists of values that a call may bring
          Block,
          MaxCalls,  \* bound on the rows
          Sliding    \* whether blocks expire; then none becomes final

VARIABLES aggs,    \* the aggregates of the group
          expired, \* aggregates that hold the blocks out of the window
          rows,    \* history: the lists of values of each block, final ones included
          final    \* the blocks up to here are final

vars == <<aggs, expired, rows, final>>

Smallest == IF Mode = "Int" THEN - Limit - 1 ELSE 0

\* Saturating addition: NumAccum::add.
NumAdd(a, b) == Max({Smallest, Min({Limit, a + b})})

NumMin(a, b) == Min({a, b})

NumMax(a, b) == Max({a, b})

\* NumAccum::from_value on a list: the numbers, without the Nulls.
Numbers(values) == SelectSeq(values, LAMBDA v : v # Null)

AddAll(numbers) == FoldLeft(NumAdd, 0, numbers)

SumContribution(values) == IF Numbers(values) = <<>> THEN {} ELSE {AddAll(Numbers(values))}

\* A row counts for the existence of its group even when it is Null.
CountContribution(values) == {Len(Numbers(values))}

Add(total, count) == total + count

MinContribution(values) ==
    IF Numbers(values) = <<>> THEN {} ELSE {Min(ToSet(Numbers(values)))}

MinInto(acc, v) == IF acc = Null THEN v ELSE NumMin(acc, v)

MaxContribution(values) ==
    IF Numbers(values) = <<>> THEN {} ELSE {Max(ToSet(Numbers(values)))}

MaxInto(acc, v) == IF acc = Null THEN v ELSE NumMax(acc, v)

AvgContribution(values) ==
    IF Numbers(values) = <<>> THEN {} ELSE {<<AddAll(Numbers(values)), Len(Numbers(values))>>}

AddSumCount(total, block) == <<NumAdd(total[1], block[1]), total[2] + block[2]>>

Sum == INSTANCE RunningAggregate WITH
    Seed <- 0, Contribution <- SumContribution, Merge <- NumAdd, Op <- NumAdd

Count == INSTANCE RunningAggregate WITH
    Seed <- 0, Contribution <- CountContribution, Merge <- Add, Op <- Add

Minimum == INSTANCE RunningAggregate WITH
    Seed <- Null, Contribution <- MinContribution, Merge <- NumMin, Op <- MinInto

Maximum == INSTANCE RunningAggregate WITH
    Seed <- Null, Contribution <- MaxContribution, Merge <- NumMax, Op <- MaxInto

Avg == INSTANCE RunningAggregate WITH
    Seed <- <<0, 0>>, Contribution <- AvgContribution, Merge <- AddSumCount, Op <- AddSumCount

-----------------------------------------------------------------------------
(* FirstAgg and LastAgg: a finalized value and one value per block *)

NewEdge == [final |-> Null, blocks |-> Sum!NoBlocks]

Insert(a, b, v) ==
    [a EXCEPT !.blocks = [x \in DOMAIN @ \cup {b} |-> IF x = b THEN v ELSE @[x]]]

FirstAdd(a, b, values) ==
    IF b \in DOMAIN a.blocks \/ Numbers(values) = <<>> THEN a
    ELSE Insert(a, b, Head(Numbers(values)))

LastAdd(a, b, values) ==
    IF Numbers(values) = <<>> THEN a ELSE Insert(a, b, Last(Numbers(values)))

EdgeKeep(a, S) == [a EXCEPT !.blocks = Sum!Keep(@, S)]

EdgeInto(into, a, b) ==
    IF b \in DOMAIN a.blocks THEN Insert(into, b, a.blocks[b]) ELSE into

\* Lets a later final block replace the first value.
FaultyFirstFinalize(a, last) ==
    LET drained == {b \in DOMAIN a.blocks : b <= last}
    IN  [final  |-> IF drained = {} THEN a.final ELSE a.blocks[Min(drained)],
         blocks |-> Sum!Keep(a.blocks, DOMAIN a.blocks \ drained)]

FirstFinalize(a, last) ==
    LET drained == {b \in DOMAIN a.blocks : b <= last}
    IN  [final  |-> IF a.final # Null \/ drained = {} THEN a.final ELSE a.blocks[Min(drained)],
         blocks |-> Sum!Keep(a.blocks, DOMAIN a.blocks \ drained)]

LastFinalize(a, last) ==
    LET drained == {b \in DOMAIN a.blocks : b <= last}
    IN  [final  |-> IF drained = {} THEN a.final ELSE a.blocks[Max(drained)],
         blocks |-> Sum!Keep(a.blocks, DOMAIN a.blocks \ drained)]

FirstValue(a) ==
    IF a.final # Null \/ DOMAIN a.blocks = {} THEN a.final ELSE a.blocks[Min(DOMAIN a.blocks)]

LastValue(a) ==
    IF DOMAIN a.blocks = {} THEN a.final ELSE a.blocks[Max(DOMAIN a.blocks)]

EdgeHasData(a) == a.final # Null \/ DOMAIN a.blocks # {}

-----------------------------------------------------------------------------
(* The aggregates of a group *)

\* create_agg for each column.
NewAggs == [sum |-> Sum!New, count |-> Count!New, min |-> Minimum!New, max |-> Maximum!New,
            avg |-> Avg!New, first |-> NewEdge, last |-> NewEdge]

AddToAll(a, b, values) ==
    [sum   |-> Sum!AddBlock(a.sum, b, values),     count |-> Count!AddBlock(a.count, b, values),
     min   |-> Minimum!AddBlock(a.min, b, values), max   |-> Maximum!AddBlock(a.max, b, values),
     avg   |-> Avg!AddBlock(a.avg, b, values),     first |-> FirstAdd(a.first, b, values),
     last  |-> LastAdd(a.last, b, values)]

RemoveFromAll(a, b) ==
    [sum   |-> Sum!RemoveBlock(a.sum, b),     count |-> Count!RemoveBlock(a.count, b),
     min   |-> Minimum!RemoveBlock(a.min, b), max   |-> Maximum!RemoveBlock(a.max, b),
     avg   |-> Avg!RemoveBlock(a.avg, b),     first |-> EdgeKeep(a.first, Block \ {b}),
     last  |-> EdgeKeep(a.last, Block \ {b})]

RemoveAfter(a, fork) ==
    [sum   |-> Sum!RemoveBlocksAfter(a.sum, fork),
     count |-> Count!RemoveBlocksAfter(a.count, fork),
     min   |-> Minimum!RemoveBlocksAfter(a.min, fork),
     max   |-> Maximum!RemoveBlocksAfter(a.max, fork),
     avg   |-> Avg!RemoveBlocksAfter(a.avg, fork),
     first |-> EdgeKeep(a.first, {b \in Block : b <= fork}),
     last  |-> EdgeKeep(a.last, {b \in Block : b <= fork})]

AllInto(into, a, b) ==
    [sum   |-> Sum!MovedInto(into.sum, a.sum, b),
     count |-> Count!MovedInto(into.count, a.count, b),
     min   |-> Minimum!MovedInto(into.min, a.min, b),
     max   |-> Maximum!MovedInto(into.max, a.max, b),
     avg   |-> Avg!MovedInto(into.avg, a.avg, b),
     first |-> EdgeInto(into.first, a.first, b),
     last  |-> EdgeInto(into.last, a.last, b)]

FinalizeAll(a, b) ==
    [sum   |-> Sum!FinalizeUpTo(a.sum, b),     count |-> Count!FinalizeUpTo(a.count, b),
     min   |-> Minimum!FinalizeUpTo(a.min, b), max   |-> Maximum!FinalizeUpTo(a.max, b),
     avg   |-> Avg!FinalizeUpTo(a.avg, b),     first |-> FirstFinalize(a.first, b),
     last  |-> LastFinalize(a.last, b)]

\* A count is stored without its flag: a stored group had a final block.
CountFromBytes(s) == [Count!New EXCEPT !.final = s.final, !.hasFinal = TRUE]

\* serialize_mv_group and deserialize_mv_group.
Reread(a) ==
    [sum   |-> Sum!FromBytes(Sum!WriteFinalized(a.sum)),
     count |-> CountFromBytes(Count!WriteFinalized(a.count)),
     min   |-> Minimum!FromBytes(Minimum!WriteFinalized(a.min)),
     max   |-> Maximum!FromBytes(Maximum!WriteFinalized(a.max)),
     avg   |-> Avg!FromBytes(Avg!WriteFinalized(a.avg)),
     first |-> EdgeKeep(a.first, {}),
     last  |-> EdgeKeep(a.last, {})]

\* window_record and read_window_record.
RereadBlocks(a) ==
    [sum   |-> Sum!ReadBlocks(a.sum),     count |-> Count!ReadBlocks(a.count),
     min   |-> Minimum!ReadBlocks(a.min), max   |-> Maximum!ReadBlocks(a.max),
     avg   |-> Avg!ReadBlocks(a.avg),     first |-> [NewEdge EXCEPT !.blocks = a.first.blocks],
     last  |-> [NewEdge EXCEPT !.blocks = a.last.blocks]]

\* avg_value: a quotient of whole numbers for 256-bit columns, else a ratio.
AvgValue(t) ==
    IF t[2] = 0 THEN Null ELSE IF Mode = "BigInt" THEN t[1] \div t[2] ELSE t

CurrentValues(a) ==
    [sum |-> Sum!Total(a.sum), count |-> Count!Total(a.count), min |-> Minimum!Total(a.min),
     max |-> Maximum!Total(a.max), avg |-> AvgValue(Avg!Total(a.avg)),
     first |-> FirstValue(a.first), last |-> LastValue(a.last)]

-----------------------------------------------------------------------------
NoRows == [b \in {} |-> <<>>]

Out == DOMAIN expired.count.blocks

Init == aggs = NewAggs /\ expired = NewAggs /\ rows = NoRows /\ final = 0

Calls == FoldLeft(LAMBDA n, b : n + Len(rows[b]), 0, SetToSeq(DOMAIN rows))

Added(b, values) ==
    [x \in DOMAIN rows \cup {b} |->
        IF x # b THEN rows[x] ELSE Append(IF b \in DOMAIN rows THEN rows[b] ELSE <<>>, values)]

\* Rows of an unfinal block of the window.
AddBlock(b, values) ==
    /\ b > final /\ b \notin Out
    /\ Calls < MaxCalls
    /\ aggs' = AddToAll(aggs, b, values)
    /\ rows' = Added(b, values)
    /\ UNCHANGED <<expired, final>>

\* A fork: the blocks above `fork` go, and no block out of the window is above it.
RemoveBlocksAfter(fork) ==
    /\ fork >= final
    /\ \A b \in Out : b <= fork
    /\ aggs' = RemoveAfter(aggs, fork)
    /\ rows' = Restrict(rows, {b \in DOMAIN rows : b <= fork})
    /\ UNCHANGED <<expired, final>>

FinalizeUpTo(b) ==
    /\ ~ Sliding /\ b > final
    /\ aggs' = FinalizeAll(aggs, b)
    /\ final' = b
    /\ UNCHANGED <<expired, rows>>

\* A block leaves the window, or a fork brings it back.
Expire(b) ==
    /\ Sliding /\ b \in DOMAIN aggs.count.blocks
    /\ expired' = AllInto(expired, aggs, b)
    /\ aggs' = RemoveFromAll(aggs, b)
    /\ UNCHANGED <<rows, final>>

Unexpire(b) ==
    /\ Sliding /\ b \in Out
    /\ aggs' = AllInto(aggs, expired, b)
    /\ expired' = RemoveFromAll(expired, b)
    /\ UNCHANGED <<rows, final>>

FeedBlock(a, b) == FoldLeft(LAMBDA acc, values : AddToAll(acc, b, values), a, rows[b])

\* The process stops; the store has the group as of the final block, or the
\* blocks of the window.
Reopen ==
    /\ \/ /\ Sliding
          /\ aggs' = RereadBlocks(aggs)
       \/ /\ ~ Sliding
          /\ aggs' = LET unfinal == {b \in DOMAIN rows : b > final}
                         stored  == unfinal # DOMAIN rows
                     IN  FoldLeft(FeedBlock, IF stored THEN Reread(aggs) ELSE NewAggs,
                                  SetToSortSeq(unfinal, <))
    /\ UNCHANGED <<expired, rows, final>>

Next ==
    \/ Reopen
    \/ \E b \in Block :
        \/ \E values \in Inputs : AddBlock(b, values)
        \/ RemoveBlocksAfter(b) \/ FinalizeUpTo(b) \/ Expire(b) \/ Unexpire(b)

Spec == Init /\ [][Next]_vars

-----------------------------------------------------------------------------
\* RunningFold promises to equal a fresh fold "bit for bit", although writes,
\* removals, moves and finality change its blocks under it.
RunningIsFresh ==
    /\ Sum!Fresh(aggs.sum) /\ Count!Fresh(aggs.count) /\ Minimum!Fresh(aggs.min)
    /\ Maximum!Fresh(aggs.max) /\ Avg!Fresh(aggs.avg)

\* The rows in the window, by block, and all numbers of them in block order.
InWindow == SetToSortSeq(DOMAIN rows \ Out, <)

Flat == FlattenSeq([i \in 1 .. Len(InWindow) |-> FlattenSeq(rows[InWindow[i]])])

BlockSum(b) == FoldLeft(NumAdd, 0, [i \in 1 .. Len(rows[b]) |-> AddAll(Numbers(rows[b][i]))])

\* What the rows of the window give when nothing is kept between reads.
Recomputed ==
    LET numbers == Numbers(Flat)
        sum     == FoldLeft(NumAdd, 0, [i \in 1 .. Len(InWindow) |-> BlockSum(InWindow[i])])
    IN  [sum   |-> sum,
         count |-> Len(numbers),
         min   |-> IF numbers = <<>> THEN Null ELSE Min(ToSet(numbers)),
         max   |-> IF numbers = <<>> THEN Null ELSE Max(ToSet(numbers)),
         avg   |-> AvgValue(<<sum, Len(numbers)>>),
         first |-> IF numbers = <<>> THEN Null ELSE Head(numbers),
         last  |-> IF numbers = <<>> THEN Null ELSE Last(numbers)]

\* Each aggregate gives the value of a recomputation over the rows that are
\* in the window, whatever became final, was rolled back, expired, came back
\* or was stored and read.
MatchesRows == CurrentValues(aggs) = Recomputed

\* A count has data once a row reached it, each other aggregate once a number
\* did, also after the number became final and the flag was stored: a view
\* emits an insert or a delete by this alone.
DataIffRows ==
    /\ Count!HasData(aggs.count) <=> InWindow # <<>>
    /\ \A has \in {Sum!HasData(aggs.sum), Minimum!HasData(aggs.min), Maximum!HasData(aggs.max),
                    Avg!HasData(aggs.avg), EdgeHasData(aggs.first), EdgeHasData(aggs.last)} :
            has <=> Numbers(Flat) # <<>>
=============================================================================
