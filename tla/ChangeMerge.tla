---------------------------- MODULE ChangeMerge ----------------------------
(***************************************************************************)
(* The merge of the records of a call into one batch (flush in change.rs). *)
(* A key stands for a table and a key of it.                               *)
(***************************************************************************)
EXTENDS TargetRows, MergeRecord

CONSTANT Hash(_)  \* hash_change_key

\* Leaves a cancelled record in its bucket.
FaultyAfterCancel(bucket, slot) == bucket

\* swap_remove: the last index takes the place of the removed one.
AfterCancel(bucket, slot) ==
    SubSeq([bucket EXCEPT ![slot] = Last(bucket)], 1, Len(bucket) - 1)

\* One record of the pass over the pending ones: merged into the first record of its
\* row that its bucket names, else appended.
MergeOne(acc, r) ==
    LET bucket == IF Hash(r.key) \in DOMAIN acc.index THEN acc.index[Hash(r.key)] ELSE <<>>
        slots  == {s \in DOMAIN bucket : acc.merged[bucket[s]].key = r.key}
        at     == bucket[Min(slots)]
        put(b) == Over(acc.index, Hash(r.key) :> b)
    IN  IF slots = {}
        THEN [merged |-> Append(acc.merged, r), index |-> put(Append(bucket, Len(acc.merged) + 1))]
        ELSE LET into == MergeInPlace(acc.merged[at], r)
             IN  [merged |-> [acc.merged EXCEPT ![at] = into],
                  index  |-> IF acc.merged[at].op = "Insert" /\ r.op = "Delete"
                             THEN put(AfterCancel(bucket, Min(slots))) ELSE acc.index]

\* flush: the records of the batch; none for no batch.
Flushed(pending) ==
    SelectSeq(FoldLeft(MergeOne, [merged |-> <<>>, index |-> Empty], pending).merged,
              LAMBDA r : ~ IsCancelled(r))

\* The target's rows after the records of a batch.
ApplyBatch(rows, batch) ==
    FoldLeft(LAMBDA acc, r : IF r.op = "Delete" THEN Without(acc, {r.key})
                             ELSE Over(acc, r.key :> r.values), rows, batch)

\* The row of key k.
RowOf(rows, k) == UNION {rows[x] : x \in DOMAIN rows \cap {k}}
=============================================================================
