----------------------------- MODULE MCReducers -----------------------------
(***************************************************************************)
(* Reducers side by side: one that runs row by row with deferred           *)
(* checkpoints, one with a batched runtime and two places in the ack       *)
(* queue, and the columns of a reducer's output.  A behaviour drives one   *)
(* of them, on the variables that they share.                              *)
(***************************************************************************)
EXTENDS Integers

VARIABLES part,
          chain, latest, final,
          red, checkpoint, committed, durable, outputs, disk, queue,  \* of Reducer
          names, growth, shared, position, base                        \* of EmitColumns

reducerVars == <<red, checkpoint, committed, durable, outputs, disk, queue>>
columnVars == <<names, growth, shared, position, base>>
vars == <<part, chain, latest, final, reducerVars, columnVars>>

Row(k, t, e, v) == [key |-> k, tag |-> t, entry |-> e, value |-> v]

\* Two groups whose rows alternate, an entry that is set, replaced and removed.
Alternating == {<<Row("a", 1, {"x"}, {1})>>,
                <<Row("b", 1, {}, {}), Row("a", 2, {"x"}, {}), Row("b", 2, {"x"}, {2})>>}
Mixed == Alternating \cup {<<Row("b", 3, {"x"}, {})>>}

ByRow == INSTANCE Reducer WITH Inputs <- Alternating, Batched <- FALSE, Cap <- 1,
                               MaxBlock <- 3, Interval <- 2, MaxPending <- 1
ByGroup == INSTANCE Reducer WITH Inputs <- Mixed, Batched <- TRUE, Cap <- 1,
                                 MaxBlock <- 2, Interval <- 1, MaxPending <- 2
Columns == INSTANCE EmitColumns WITH Names <- {"p", "q", "r"}, GroupBy <- <<"k">>, DownKey <- "q",
                                     MaxColumns <- 3, MaxBlock <- 3

ASSUME Columns!LimitAssumption

NoColumns == names = <<>> /\ growth = <<>> /\ shared = FALSE /\ position = {} /\ base = 0

NoReducer ==
    /\ red = <<>> /\ checkpoint = 0 /\ committed = 0 /\ durable = 0
    /\ outputs = <<>> /\ disk = <<>> /\ queue = <<>>

Init ==
    \/ part = "rows" /\ ByRow!Init /\ NoColumns
    \/ part = "groups" /\ ByGroup!Init /\ NoColumns
    \/ part = "columns" /\ Columns!Init /\ NoReducer

Next ==
    \/ part = "rows" /\ ByRow!Next /\ UNCHANGED <<part, columnVars>>
    \/ part = "groups" /\ ByGroup!Next /\ UNCHANGED <<part, columnVars>>
    \/ part = "columns" /\ Columns!Next /\ UNCHANGED <<part, reducerVars>>

Spec == Init /\ [][Next]_vars

-----------------------------------------------------------------------------
\* For every block that a fork may still name, the rollback to it gives each
\* group the state and the map of a fold over the rows up to that block: in
\* memory, after a load, and whatever ids eviction gave the groups.
UndoIsRefold ==
    /\ part = "rows" => ByRow!UndoIsRefold
    /\ part = "groups" => ByGroup!UndoIsRefold

\* The rows emitted for each accepted block are those of one fold over the
\* chain, in input order, row by row and in batches, and also when a replay
\* emits them again.
OutputsAreRefold ==
    /\ part = "rows" => ByRow!OutputsAreRefold
    /\ part = "groups" => ByGroup!OutputsAreRefold

\* Every store that a crash may meet has each group, with its map, as of its
\* own durable block; and a group leaves memory only when nothing of it is
\* unsaved, no change of its map to undo and no entry that waits for a
\* checkpoint.
StoredAsOfDurable ==
    /\ part = "rows" => ByRow!StoredAsOfDurable /\ ByRow!IdleGroupsAreSaved
    /\ part = "groups" => ByGroup!StoredAsOfDurable /\ ByGroup!IdleGroupsAreSaved

\* The output columns are those that the accepted blocks since the load use, in
\* the order of first use: no undone and no failed block left one, so none of them
\* takes room below the limit.  The position that a downstream node kept is that of
\* its column in the registry it kept it for.
ColumnsOfAcceptedBlocks ==
    part = "columns" => Columns!ColumnsOfAcceptedBlocks /\ Columns!KeptPositionIsRight
=============================================================================
