-------------------------- MODULE RunningAggregate --------------------------
(***************************************************************************)
(* The state and the operations that SumAgg, CountAgg, MinAgg, MaxAgg and  *)
(* AvgAgg of engine/aggregation.rs have in common: a finalized value, a    *)
(* value per unfinal block, and a running fold of the two that a read      *)
(* takes when the blocks are many.  The map of blocks is the one of        *)
(* BlockMap.                                                               *)
(***************************************************************************)
EXTENDS Naturals, Sequences

CONSTANTS MinBlocks,       \* RUNNING_FOLD_MIN_BLOCKS
          Seed,            \* the finalized value of a new aggregate
          Contribution(_), \* what a list of values adds to a block: a set of at most one value
          Merge(_, _),     \* the value of a block with one more contribution
          Op(_, _)         \* a total with one more block

LOCAL INSTANCE SequencesExt
LOCAL INSTANCE FiniteSetsExt
LOCAL INSTANCE FiniteSets

NoBlocks == [b \in {} |-> Seed]

Keep(m, S) == [b \in DOMAIN m \cap S |-> m[b]]

\* The values of the blocks, in block order.
Values(m) ==
    LET order == SetToSortSeq(DOMAIN m, <) IN [i \in 1 .. Len(order) |-> m[order[i]]]

New == [final |-> Seed, hasFinal |-> FALSE, blocks |-> NoBlocks, running |-> {}]

FoldTotal(a) == FoldLeft(Op, a.final, Values(a.blocks))

\* RunningFold::new.
RunningFold(seed, blocks) ==
    LET newest == Max(DOMAIN blocks)
        below  == FoldLeft(Op, seed, Values(Keep(blocks, DOMAIN blocks \ {newest})))
    IN  [below |-> below, newest |-> newest, value |-> blocks[newest],
         total |-> Op(below, blocks[newest])]

Refold(a) ==
    [a EXCEPT !.running =
        IF Cardinality(DOMAIN a.blocks) < MinBlocks THEN {} ELSE {RunningFold(a.final, a.blocks)}]

\* RunningFold::wrote: the fold with the new value of block b, none when the
\* write landed below the newest block.
Wrote(r, b, v) ==
    LET below == IF b > r.newest THEN Op(r.below, r.value) ELSE r.below
    IN  IF b < r.newest THEN {}
        ELSE {[below |-> below, newest |-> b, value |-> v, total |-> Op(below, v)]}

AddBlock(a, b, values) ==
    IF Contribution(values) = {} THEN a
    ELSE LET part  == CHOOSE c \in Contribution(values) : TRUE
             value == IF b \in DOMAIN a.blocks THEN Merge(a.blocks[b], part) ELSE part
             new   == [a EXCEPT !.blocks = [x \in DOMAIN @ \cup {b} |-> IF x = b THEN value ELSE @[x]]]
             fold  == UNION {Wrote(r, b, value) : r \in a.running}
         IN  IF fold # {} THEN [new EXCEPT !.running = fold] ELSE Refold(new)

RemoveBlock(a, b) == [a EXCEPT !.blocks = Keep(@, DOMAIN @ \ {b}), !.running = {}]

RemoveBlocksAfter(a, fork) ==
    [a EXCEPT !.blocks = Keep(@, {b \in DOMAIN @ : b <= fork}), !.running = {}]

\* move_block: `a` loses block b as by remove_block, and `into` gets it.
MovedInto(into, a, b) ==
    LET moved == Keep(a.blocks, {b})
    IN  [into EXCEPT !.blocks = [x \in DOMAIN @ \cup DOMAIN moved |->
                                    IF x \in DOMAIN moved THEN moved[x] ELSE @[x]],
                     !.running = {}]

FinalizeUpTo(a, last) ==
    LET drained == Keep(a.blocks, {b \in DOMAIN a.blocks : b <= last})
        left    == Keep(a.blocks, {b \in DOMAIN a.blocks : b > last})
    IN  [final    |-> FoldLeft(Op, a.final, Values(drained)),
         hasFinal |-> a.hasFinal \/ DOMAIN drained # {},
         blocks   |-> left,
         running  |-> IF Cardinality(DOMAIN left) < MinBlocks THEN {} ELSE a.running]

\* The total that current_value turns into a value.
Total(a) == IF a.running = {} THEN FoldTotal(a) ELSE (CHOOSE r \in a.running : TRUE).total

HasData(a) == a.hasFinal \/ DOMAIN a.blocks # {}

\* write_finalized and from_bytes: the running fold is not stored.
WriteFinalized(a) == [final |-> a.final, hasFinal |-> a.hasFinal]

FromBytes(s) == [New EXCEPT !.final = s.final, !.hasFinal = s.hasFinal]

\* write_block of `a`, read by a new aggregate.
ReadBlocks(a) == [New EXCEPT !.blocks = a.blocks]

\* A running fold is what a fold from nothing gives.
Fresh(a) == \A r \in a.running : r = RunningFold(a.final, a.blocks) /\ r.total = FoldTotal(a)
=============================================================================
