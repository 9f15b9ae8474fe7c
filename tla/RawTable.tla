------------------------------ MODULE RawTable ------------------------------
(***************************************************************************)
(* A raw table (engine/raw_table.rs) with the write sets that wait for an  *)
(* ack.  The Deletes of a rollback are made from the stored rows, read     *)
(* through the write sets not yet committed (PendingWrites in              *)
(* storage/mod.rs); the records of a call become its batch (ChangeMerge).  *)
(* The rows of a block are a sequence of values; a row's key is its block  *)
(* and its index.  Blocks start at 1 and 0 stands for no block.            *)
(***************************************************************************)
EXTENDS ChangeMerge

CONSTANTS Inputs,     \* sequences of values: the rows of a block
          MaxBlock,
          MaxPending  \* places of the ack queue

VARIABLES disk,       \* the stored rows by block, with the target of the host
          queue,      \* the write sets that wait, oldest first
          chain,      \* the rows of the accepted blocks
          latest, final,
          hostRows,     \* the host's rows after all batches
          unfit       \* records that did not fit them (history)

rawVars == <<disk, queue, chain, latest, final, hostRows, unfit>>

Block == 1 .. MaxBlock

-----------------------------------------------------------------------------
(* Write sets *)

Put(b, rows) == [op |-> "Put", from |-> b, to |-> b, rows |-> rows]

DeleteAfter(b) == [op |-> "Delete", from |-> b + 1, to |-> MaxBlock, rows |-> <<>>]
DeleteUpTo(b) == [op |-> "Delete", from |-> 0, to |-> b, rows |-> <<>>]

\* One operation on the stored rows, as a commit does it.
ApplyOp(rows, o) ==
    IF o.op = "Put" THEN Over(rows, o.from :> o.rows) ELSE Without(rows, o.from .. o.to)

\* Reads the stored rows alone.
FaultyRawRowsAfter(stored, p, ops) == Without(stored, 0 .. p)

\* PendingWrites::raw_rows_after: the stored rows above p with the operations of
\* all pending write sets, in their order.
RawRowsAfter(stored, p, ops) ==
    FoldLeft(LAMBDA rows, o : IF o.op = "Put" /\ o.from <= p THEN rows ELSE ApplyOp(rows, o),
             Without(stored, 0 .. p), ops)

PendingOps == FlattenSeq([i \in DOMAIN queue |-> queue[i].ops])

-----------------------------------------------------------------------------
(* Records *)

\* A record for each row of the blocks in `rows`, in order.
RecordsOf(op, rows) ==
    LET order == SetToSortSeq(DOMAIN rows, <)
        of(b) == [i \in DOMAIN rows[b] |-> Record(op, <<b, i>>, {rows[b][i]}, {})]
    IN  FlattenSeq([n \in DOMAIN order |-> of(order[n])])

\* insert_changes.
InsertChanges(rows) == RecordsOf("Insert", rows)

\* rollback_to_batch: the Deletes, of what the store will have above p.
RollbackChanges(p) == RecordsOf("Delete", RawRowsAfter(disk.rows, p, PendingOps))

-----------------------------------------------------------------------------
(* Calls *)

\* The batch of the records, and the delivery of the write set.  A call without
\* a batch commits at once, or joins the newest waiting write set.
Deliver(records, ops) ==
    \E batch \in {Flushed(records)} :
    \E rows \in {ApplyBatch(hostRows, batch)} :
        /\ hostRows' = rows
        /\ unfit' = unfit \cup {batch[i] : i \in {j \in DOMAIN batch :
                        ~ Fits(batch[j], RowOf(hostRows, batch[j].key), RowOf(rows, batch[j].key))}}
        /\ LET w == [ops |-> ops, chain |-> chain', latest |-> latest', final |-> final', target |-> rows]
           IN  \/ batch # <<>> /\ queue' = Append(queue, w) /\ UNCHANGED disk
               \/ /\ batch = <<>> /\ queue # <<>>
                  /\ queue' = [queue EXCEPT ![Len(queue)] =
                                 [w EXCEPT !.ops = queue[Len(queue)].ops \o ops]]
                  /\ UNCHANGED disk
               \/ /\ batch = <<>> /\ queue = <<>>
                  /\ disk' = [w EXCEPT !.ops = <<>>] @@ [rows |-> FoldLeft(ApplyOp, disk.rows, ops)]
                  /\ UNCHANGED queue

RawInit ==
    /\ disk = [rows |-> Empty, ops |-> <<>>, chain |-> Empty, latest |-> 0, final |-> 0, target |-> Empty]
    /\ queue = <<>> /\ chain = Empty /\ latest = 0 /\ final = 0 /\ hostRows = Empty /\ unfit = {}

\* A call that rolls back to p, brings rows and moves finality to f, up to which
\* raw rows are purged (retention 0).
Ingest(p, new, f) ==
    /\ p \in final .. latest
    /\ \A b \in DOMAIN new : b > p
    /\ latest' = Max({p} \cup DOMAIN new)
    /\ f \in final .. latest'
    /\ new # Empty \/ f > final
    /\ Len(queue) < MaxPending
    /\ final' = f
    /\ chain' = Over(UpTo(chain, p), new)
    /\ LET order == SetToSortSeq(DOMAIN new, <)
           back  == IF p < latest THEN <<DeleteAfter(p)>> ELSE <<>>
           purge == IF f > final THEN <<DeleteUpTo(f)>> ELSE <<>>
       IN  Deliver((IF p < latest THEN RollbackChanges(p) ELSE <<>>) \o InsertChanges(new),
                   back \o [n \in DOMAIN order |-> Put(order[n], new[order[n]])] \o purge)

HandleFork(p) ==
    /\ p \in final .. latest - 1
    /\ Len(queue) < MaxPending
    /\ latest' = p /\ chain' = UpTo(chain, p)
    /\ UNCHANGED final
    /\ Deliver(RollbackChanges(p), <<DeleteAfter(p)>>)

Ack ==
    /\ queue # <<>>
    /\ disk' = [Head(queue) EXCEPT !.ops = <<>>] @@
               [rows |-> FoldLeft(ApplyOp, disk.rows, Head(queue).ops)]
    /\ queue' = Tail(queue)
    /\ UNCHANGED <<chain, latest, final, hostRows, unfit>>

\* The process stops; the host's rows are those of the batches it acked.
ReopenTable ==
    /\ chain' = disk.chain /\ latest' = disk.latest /\ final' = disk.final
    /\ hostRows' = disk.target /\ queue' = <<>>
    /\ UNCHANGED <<disk, unfit>>

NewRows == UNION {[S -> Inputs] : S \in {T \in SUBSET Block : Cardinality(T) <= 2}}

RawNext ==
    \/ Ack \/ ReopenTable
    \/ \E p \in 0 .. MaxBlock :
        \/ HandleFork(p)
        \/ \E new \in NewRows, f \in 0 .. MaxBlock : Ingest(p, new, f)

RawSpec == RawInit /\ [][RawNext]_rawVars

-----------------------------------------------------------------------------

\* The host has exactly the rows of the accepted blocks, after every sequence
\* of ingests, forks, acks and opens.
TargetIsChain ==
    hostRows = [x \in UNION {{<<b, i>> : i \in DOMAIN chain[b]} : b \in DOMAIN chain} |-> {chain[x[1]][x[2]]}]

\* No batch ever had a record that does not fit the host's rows.
RecordsFit == unfit = {}

\* What a later replay needs is stored, now and after any number of acks: the
\* rows of the blocks above finality, and no others there.
TailIsStored ==
    \A n \in 0 .. Len(queue) :
        LET rows == FoldLeft(LAMBDA r, w : FoldLeft(ApplyOp, r, w.ops), disk.rows, SubSeq(queue, 1, n))
            at   == IF n = 0 THEN disk ELSE queue[n]
        IN  Without(rows, 0 .. at.final) = Without(at.chain, 0 .. at.final)
=============================================================================
