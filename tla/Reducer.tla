------------------------------- MODULE Reducer -------------------------------
(***************************************************************************)
(* A reducer (engine/reducer.rs) with a MAP field, driven by the calls of  *)
(* the database: its groups by id, the undo of each block, finality,       *)
(* checkpoints, eviction with new ids, load on demand, the per-row and the *)
(* batched path, and rows on which the runtime fails.                      *)
(*                                                                         *)
(* The body of the reducer appends the row's tag to the state of its       *)
(* group, changes an entry of the map, and emits the state, so a state     *)
(* tells the rows folded into it and their order.  Blocks start at 1 and   *)
(* 0 stands for no block.                                                  *)
(***************************************************************************)
EXTENDS MapField

CONSTANTS Inputs,     \* the rows of a block: sequences of [key, tag, entry, value]
          Batched,    \* use_batched_processing
          MaxBlock,
          Interval,   \* the checkpoint interval, 1 for none
          MaxPending, \* places of the ack queue
          Cap         \* max_resident_groups

VARIABLES red,        \* the state of ReducerEngine
          checkpoint, \* checkpoints: the number of the last checkpoint
          committed,  \* committed_checkpoint
          chain,      \* the rows of each block, as the raw table has them
          latest, final, durable,
          outputs,    \* the rows emitted for each block
          disk,       \* the committed store
          queue       \* the write sets that wait for an ack

blocks == <<chain, latest, final, durable>>
vars == <<red, checkpoint, committed, chain, latest, final, durable, outputs, disk, queue>>

Block == 1 .. MaxBlock

-----------------------------------------------------------------------------
(* The groups *)

\* reload; `all` has the groups by id, block_groups and pending_durable ids.
NewReducer(stored) ==
    [all |-> <<>>, blockGroups |-> Empty, pending |-> <<>>,
     readsStorage |-> DOMAIN stored.states # {}, stuck |-> {}]

\* load_state_from: the stored state and entries, else the default.
LoadState(r, stored, k) ==
    LET known == r.readsStorage /\ k \in DOMAIN stored.states
        maps  == {x \in DOMAIN stored.maps : x[1] = k}
    IN  [key |-> k, state |-> IF known THEN stored.states[k] ELSE <<>>,
         undo |-> Empty, pending |-> FALSE, written |-> 0,
         maps |-> NewMaps(IF known THEN [e \in {x[2] : x \in maps} |-> stored.maps[<<k, e>>]] ELSE Empty)]

IdsOf(r, k) == {i \in DOMAIN r.all : r.all[i].key = k}

\* Groups::id: loads a group that is not in memory.
WithGroup(r, stored, k) ==
    IF IdsOf(r, k) # {} THEN r ELSE [r EXCEPT !.all = Append(@, LoadState(r, stored, k))]

Id(r, k) == CHOOSE i \in IdsOf(r, k) : TRUE

At(f, b, else) == IF b \in DOMAIN f THEN f[b] ELSE else

\* Groups::change: the first change in a block keeps the state before it.
Change(r, id, b) ==
    IF b \in DOMAIN r.all[id].undo THEN r
    ELSE [r EXCEPT !.all[id].undo = Over(@, b :> r.all[id].state),
                   !.blockGroups = Over(@, b :> (At(@, b, {}) \cup {id}))]

\* The body of the reducer on one row.
Process(g, b, row) ==
    [g EXCEPT !.state = Append(@, row.tag),
              !.maps = IF row.entry = {} THEN @ ELSE SetEntry(@, b, The(row.entry), row.value)]

\* The rows of a block in the order in which the runtime gets them: as they
\* came, or group by group in the order of the groups' first rows.
Order(rows) ==
    LET first(i) == Min({j \in DOMAIN rows : rows[j].key = rows[i].key})
        before(i, j) == \/ ~ Batched /\ i < j
                        \/ Batched /\ (first(i) < first(j) \/ (first(i) = first(j) /\ i < j))
    IN  SetToSortSeq(DOMAIN rows, before)

\* One row: load, undo entry, body and emit.
ProcessRow(in, stored, b, rows, i) ==
    LET r     == WithGroup(in.red, stored, rows[i].key)
        id    == Id(r, rows[i].key)
        after == [Change(r, id, b) EXCEPT !.all[id] = Process(@, b, rows[i])]
    IN  [red |-> after, emits |-> Append(in.emits, [source |-> i, state |-> after.all[id].state])]

\* On the batched path the groups of all rows are loaded and changed before the
\* first row.
Prepared(r, stored, b, rows) ==
    LET step(acc, row) == LET with == WithGroup(acc, stored, row.key)
                          IN  Change(with, Id(with, row.key), b)
    IN  IF Batched THEN FoldSteps(step, r, rows)
        ELSE [r EXCEPT !.blockGroups = Over(@, b :> At(@, b, {}))]

\* The first n rows in the order of the runtime.
ProcessRows(r, stored, b, rows, n) ==
    FoldSteps(LAMBDA in, i : ProcessRow(in, stored, b, rows, i),
              [red |-> Prepared(r, stored, b, rows), emits |-> <<>>], SubSeq(Order(rows), 1, n))

\* Leaves the emits group by group.
FaultyTakeOutput(emits) == [i \in DOMAIN emits |-> emits[i].state]

\* take_output: the emits in the order of their input rows.
TakeOutput(emits) ==
    LET sorted == SortSeq(emits, LAMBDA x, y : x.source < y.source)
    IN  [i \in DOMAIN sorted |-> sorted[i].state]

\* process_block over the blocks of `new`: the reducer and the output of each.
ProcessAll(r, stored, new) ==
    FoldSteps(LAMBDA in, b :
                 LET done == ProcessRows(in.red, stored, b, new[b], Len(new[b]))
                 IN  [red |-> done.red, outputs |-> Over(in.outputs, b :> TakeOutput(done.emits))],
              [red |-> r, outputs |-> Empty], SetToSortSeq(DOMAIN new, <))

\* The state before the first block above p that changed the group.
RollbackGroup(g, p) ==
    LET above == {b \in DOMAIN g.undo : b > p}
    IN  [g EXCEPT !.state = IF above = {} THEN @ ELSE g.undo[Min(above)],
                  !.undo = UpTo(@, p), !.maps = RollbackMaps(@, p)]

Rollback(r, p) ==
    LET ids == UNION {r.blockGroups[b] : b \in {x \in DOMAIN r.blockGroups : x > p}}
    IN  [r EXCEPT !.all = [i \in DOMAIN @ |-> IF i \in ids THEN RollbackGroup(@[i], p) ELSE @[i]],
                  !.blockGroups = UpTo(@, p)]

AdvanceFinality(r, b) ==
    LET ids == UNION {r.blockGroups[x] : x \in {x \in DOMAIN r.blockGroups : x <= b}}
        new == {i \in ids : ~ r.all[i].pending}
        merge(g) == [g EXCEPT !.undo = Without(@, 1 .. b), !.maps = FinalizeMaps(@, b), !.pending = TRUE]
    IN  [r EXCEPT !.all = [i \in DOMAIN @ |-> IF i \in ids THEN merge(@[i]) ELSE @[i]],
                  !.blockGroups = Without(@, 1 .. b),
                  !.pending = @ \o SetToSeq(new)]

\* The state as of block b: the undo entry of the first block above it.
StateAsOf(g, b) ==
    LET above == {x \in DOMAIN g.undo : x > b}
    IN  IF above = {} THEN g.state ELSE g.undo[Min(above)]

\* write_checkpoint as of block b.
WriteCheckpoint(r, b, n) ==
    LET ids == ToSet(r.pending)
        key(i) == r.all[i].key
    IN  [red    |-> [r EXCEPT !.pending = <<>>,
                        !.all = [i \in DOMAIN @ |->
                            IF i \in ids THEN [@[i] EXCEPT !.pending = FALSE, !.written = n,
                                                           !.maps.unsaved = {}] ELSE @[i]]],
         states |-> [k \in {key(i) : i \in ids} |-> StateAsOf(r.all[Id(r, k)], b)],
         maps   |-> [x \in UNION {{<<key(i), e>> : e \in r.all[i].maps.unsaved} : i \in ids} |->
                        SavedEntries(r.all[Id(r, x[1])].maps, b)[x[2]]]]

-----------------------------------------------------------------------------
(* Eviction *)

Target == Cap - Cap \div 4

\* Eviction::due.
Due(r) ==
    LET waits == \E s \in r.stuck : Len(r.all) < s.resident + Cap \div 4 /\ committed <= s.committed
    IN  IF Len(r.all) <= Cap \/ waits THEN 0 ELSE Len(r.all) - Target

\* Group::stored.
Stored(r) ==
    {i \in DOMAIN r.all :
        r.all[i].undo = Empty /\ ~ r.all[i].pending /\ r.all[i].written <= committed}

\* Any set of so many groups whose writes are the oldest.
Victims(r, count) ==
    {S \in SUBSET Stored(r) :
        /\ Cardinality(S) = Min({count, Cardinality(Stored(r))})
        /\ \A i \in S, j \in Stored(r) \ S : r.all[i].written <= r.all[j].written}

\* Leaves the ids of the blocks as they were.
FaultyWithoutGroups(r, S) ==
    LET kept == SetToSortSeq(DOMAIN r.all \ S, <)
    IN  [r EXCEPT !.all = [i \in DOMAIN kept |-> @[kept[i]]]]

\* Groups::evict: the groups left move up, and the ids kept elsewhere follow.
WithoutGroups(r, S) ==
    LET kept  == SetToSortSeq(DOMAIN r.all \ S, <)
        newId == [i \in DOMAIN r.all \ S |-> CHOOSE j \in DOMAIN kept : kept[j] = i]
    IN  [r EXCEPT !.all = [i \in DOMAIN kept |-> @[kept[i]]],
                  !.blockGroups = [b \in DOMAIN @ |-> {newId[i] : i \in @[b]}],
                  !.pending = [n \in DOMAIN @ |-> newId[@[n]]]]

Evict(r) ==
    LET left(S) == Len(r.all) - Cardinality(S)
    IN  IF Due(r) = 0 THEN {r}
        ELSE {[WithoutGroups(r, S) EXCEPT
                    !.readsStorage = @ \/ S # {},
                    !.stuck = IF left(S) > Target
                              THEN {[resident |-> left(S), committed |-> committed]} ELSE {}] :
                S \in Victims(r, Due(r))}

-----------------------------------------------------------------------------
(* The store and the calls *)

NoSaves == [states |-> Empty, maps |-> Empty]

Write(saves) ==
    [states |-> saves.states, maps |-> saves.maps, checkpoint |-> checkpoint', chain |-> chain',
     latest |-> latest', final |-> final', durable |-> durable', outputs |-> outputs']

Commit(d, w) ==
    LET puts == {x \in DOMAIN w.maps : w.maps[x] # {}}
    IN  [states |-> Over(d.states, w.states),
         maps   |-> Over(Without(d.maps, DOMAIN w.maps), [x \in puts |-> The(w.maps[x])]),
         chain |-> w.chain, latest |-> w.latest, final |-> w.final, durable |-> w.durable,
         outputs |-> w.outputs]

\* Other nodes may have changes, so that a call returns a batch, or not.
Deliver(w) ==
    \/ queue' = Append(queue, w) /\ UNCHANGED <<disk, committed>>
    \/ queue = <<>> /\ disk' = Commit(disk, w) /\ committed' = w.checkpoint /\ UNCHANGED queue

Init ==
    /\ red = NewReducer(NoSaves) /\ checkpoint = 0 /\ committed = 0
    /\ chain = Empty /\ latest = 0 /\ final = 0 /\ durable = 0 /\ outputs = Empty
    /\ disk = [states |-> Empty, maps |-> Empty, chain |-> Empty, latest |-> 0, final |-> 0,
               durable |-> 0, outputs |-> Empty]
    /\ queue = <<>>

CheckpointDue(f, l) ==
    /\ durable < f
    /\ Interval = 1 \/ f < l \/ durable = 0 \/ f - durable >= Interval

\* ingest_data, as in View.
Ingest(p, new, f) ==
    /\ Len(queue) < MaxPending
    /\ p \in final .. latest
    /\ \A b \in DOMAIN new : b > p
    /\ new # Empty \/ (p = latest /\ f > final)
    /\ latest' = Max({p} \cup DOMAIN new)
    /\ f \in final .. latest'
    /\ final' = f
    /\ chain' = Over(UpTo(chain, p), new)
    /\ \E kept \in {Rollback(red, p)} :
       \E fed \in {ProcessAll(kept, disk, new)} :
       \E merged \in {AdvanceFinality(fed.red, f)} :
       \E due \in {CheckpointDue(f, latest')} :
       \E saves \in {IF due THEN WriteCheckpoint(merged, f, checkpoint + 1)
                     ELSE [red |-> merged, states |-> Empty, maps |-> Empty]} :
        /\ outputs' = Over(UpTo(outputs, p), fed.outputs)
        /\ checkpoint' = IF due THEN checkpoint + 1 ELSE checkpoint
        /\ durable' = IF due THEN f ELSE durable
        /\ red' \in Evict(saves.red)
        /\ Deliver(Write(saves))

\* A call of one block fails with the effect of n of its rows in the groups, that
\* of the failing row included or not: undo_ingest.
FailIngest(b, rows, n) ==
    /\ b > latest
    /\ Len(queue) < MaxPending
    /\ n <= Len(rows)
    /\ red' = IF latest = 0 THEN NewReducer(disk)
              ELSE Rollback(ProcessRows(red, disk, b, rows, n).red, latest)
    /\ UNCHANGED <<checkpoint, committed, blocks, outputs, disk, queue>>

HandleFork(p) ==
    /\ p \in final .. latest - 1
    /\ Len(queue) < MaxPending
    /\ red' = Rollback(red, p)
    /\ chain' = UpTo(chain, p) /\ latest' = p /\ outputs' = UpTo(outputs, p)
    /\ UNCHANGED <<checkpoint, final, durable>>
    /\ Deliver(Write(NoSaves))

Ack ==
    /\ queue # <<>>
    /\ disk' = Commit(disk, Head(queue))
    /\ committed' = Head(queue).checkpoint
    /\ queue' = Tail(queue)
    /\ UNCHANGED <<red, checkpoint, blocks, outputs>>

\* The process stops and opens the store: the replay of the blocks above the
\* durable one, and restore_finality.
Reopen ==
    /\ \E fed \in {ProcessAll(NewReducer(disk), disk, Without(disk.chain, 1 .. disk.durable))} :
        /\ red' = AdvanceFinality(fed.red, disk.final)
        /\ outputs' = Over(disk.outputs, fed.outputs)
    /\ checkpoint' = 0 /\ committed' = 0
    /\ chain' = disk.chain /\ latest' = disk.latest
    /\ final' = disk.final /\ durable' = disk.durable
    /\ queue' = <<>>
    /\ UNCHANGED disk

\* The rows that a call may bring: for at most two blocks.
NewRows == UNION {[S -> Inputs] : S \in {T \in SUBSET Block : Cardinality(T) <= 2}}

Next ==
    \/ Ack \/ Reopen
    \/ \E b \in Block, rows \in Inputs, n \in 0 .. 2 : FailIngest(b, rows, n)
    \/ \E p \in final .. latest :
        \/ HandleFork(p)
        \/ \E new \in NewRows, f \in final .. MaxBlock : Ingest(p, new, f)

Spec == Init /\ [][Next]_vars

-----------------------------------------------------------------------------
(* The fold by its definition *)

Keys == UNION {{rows[i].key : i \in DOMAIN rows} : rows \in Inputs}

\* All rows of c in order.
RowsOf(c) ==
    LET order == SetToSortSeq(DOMAIN c, <) IN FlattenSeq([i \in DOMAIN order |-> c[order[i]]])

RowsOfGroup(c, k) == SelectSeq(RowsOf(c), LAMBDA row : row.key = k)

StateOf(c, k) == LET rows == RowsOfGroup(c, k) IN [i \in DOMAIN rows |-> rows[i].tag]

EntriesOf(c, k) ==
    FoldLeft(LAMBDA es, row : IF row.entry = {} THEN es ELSE WithEntry(es, The(row.entry), row.value),
             Empty, RowsOfGroup(c, k))

\* What the reducer has of group k, in memory or by a load.
Found(r, k) == LET with == WithGroup(r, disk, k) IN with.all[Id(with, k)]

\* For every block that a fork may still name, the rollback to it gives each
\* group the state and the map of a fold over the rows up to that block: in
\* memory, after a load, and whatever ids eviction gave the groups.
UndoIsRefold ==
    \A p \in final .. latest : \E r \in {Rollback(red, p)}, c \in {UpTo(chain, p)} :
        \A k \in Keys :
            /\ Found(r, k).state = StateOf(c, k)
            /\ Found(r, k).maps.entries = EntriesOf(c, k)

\* The rows emitted for each accepted block are those of one fold over the
\* chain, in input order, on both paths and also when a replay emits them
\* again.
OutputsAreRefold ==
    \A b \in DOMAIN chain : \E c \in {Without(UpTo(chain, b), {b})} :
        outputs[b] = [i \in DOMAIN chain[b] |->
            StateOf(c, chain[b][i].key) \o
                StateOf(1 :> SubSeq(chain[b], 1, i), chain[b][i].key)]

\* Every store that a crash may meet has each group, with its map, as of its
\* own durable block.
StoredAsOfDurable ==
    \A n \in 0 .. Len(queue) :
        \E d \in {FoldLeft(Commit, disk, SubSeq(queue, 1, n))} :
        \E c \in {UpTo(d.chain, d.durable)} :
            /\ d.states = Restrict([k \in Keys |-> StateOf(c, k)], {k \in Keys : StateOf(c, k) # <<>>})
            /\ \A k \in Keys : EntriesOf(c, k) =
                [e \in {x[2] : x \in {y \in DOMAIN d.maps : y[1] = k}} |-> d.maps[<<k, e>>]]

\* A group leaves memory only when nothing of it is unsaved: its map has no
\* change to undo and no entry that waits for a checkpoint.
IdleGroupsAreSaved ==
    \A i \in DOMAIN red.all :
        red.all[i].undo = Empty /\ ~ red.all[i].pending =>
            red.all[i].maps.undo = <<>> /\ red.all[i].maps.unsaved = {}
=============================================================================
