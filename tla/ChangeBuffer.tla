---------------------------- MODULE ChangeBuffer ----------------------------
(***************************************************************************)
(* The change buffer of the database (ChangeBuffer in change.rs), fed by a *)
(* raw table, whose rows come and go and whose Deletes have no old row,    *)
(* and by a view, whose records have one.                                  *)
(***************************************************************************)
EXTENDS ChangeMerge

CONSTANTS RawKeys, ViewKeys, Values, MaxRecords, MaxSequence

VARIABLES pending,  \* the records since the last flush
          rows,     \* what they lead to
          target,   \* the rows after the last batch
          sequence, \* next_sequence
          batch     \* the batch that a flush would return (a history variable)

bufferVars == <<pending, rows, target, sequence, batch>>

BufferInit == pending = <<>> /\ rows = Empty /\ target = Empty /\ sequence = 1 /\ batch = <<>>

\* push, of one record.
Push(r) ==
    /\ Len(pending) < MaxRecords
    /\ pending' = Append(pending, r)
    /\ batch' \in {Flushed(pending')}
    /\ rows' = ApplyBatch(rows, <<r>>)
    /\ UNCHANGED <<target, sequence>>

\* A view's change of one row: emit_changes.
PushView(k, v) ==
    \/ k \notin DOMAIN rows /\ v # {} /\ Push(Record("Insert", k, v, {}))
    \/ k \in DOMAIN rows /\ v # {} /\ v # rows[k] /\ Push(Record("Update", k, v, rows[k]))
    \/ k \in DOMAIN rows /\ v = {} /\ Push(Record("Delete", k, rows[k], rows[k]))

\* A raw row: ingest, and rollback_to_batch.
PushRaw(k, v) ==
    \/ k \notin DOMAIN rows /\ v # {} /\ Push(Record("Insert", k, v, {}))
    \/ k \in DOMAIN rows /\ v = {} /\ Push(Record("Delete", k, rows[k], {}))

\* The end of a call: flush.
Flush ==
    /\ pending # <<>>
    /\ sequence <= MaxSequence
    /\ target' = ApplyBatch(target, batch)
    /\ sequence' = IF batch = <<>> THEN sequence ELSE sequence + 1
    /\ pending' = <<>> /\ batch' = <<>>
    /\ UNCHANGED rows

\* The process stops and opens the database: set_next_sequence.
Reopen ==
    /\ pending # <<>>
    /\ pending' = <<>> /\ batch' = <<>> /\ rows' = target
    /\ UNCHANGED <<target, sequence>>

BufferNext ==
    \/ Flush \/ Reopen
    \/ \E v \in {{}} \cup {{x} : x \in Values} :
        \/ \E k \in ViewKeys : PushView(k, v)
        \/ \E k \in RawKeys : PushRaw(k, v)

BufferSpec == BufferInit /\ [][BufferNext]_bufferVars

-----------------------------------------------------------------------------

\* Whatever records wait, the batch of a flush takes the target from the rows
\* of the last batch to the present ones.
BatchIsNetChange == ApplyBatch(target, batch) = rows

\* Each record of the batch fits the target as the last batch left it: one
\* record per row, an Insert of a row that is absent, an Update or a Delete of one
\* that is present, with its old values where the record has them.
BatchFitsTarget ==
    \A i \in DOMAIN batch :
        /\ Fits(batch[i], RowOf(target, batch[i].key), RowOf(rows, batch[i].key))
        /\ \A j \in DOMAIN batch : batch[j].key = batch[i].key => j = i

Net(k) == INSTANCE NetRecord WITH Key <- k, base <- RowOf(target, k), present <- RowOf(rows, k),
                                  net <- {r \in ToSet(batch) : r.key = k}

\* For each row, the buffer with its one list, its buckets and its merge at the
\* flush does what NetRecord does with one record per row.
ImplementsNetRecord ==
    /\ \A k \in RawKeys \cup ViewKeys : Net(k)!Init
    /\ [][\A k \in RawKeys \cup ViewKeys : Net(k)!Next \/ UNCHANGED Net(k)!vars]_bufferVars
=============================================================================
