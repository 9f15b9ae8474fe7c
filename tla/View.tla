-------------------------------- MODULE View --------------------------------
(***************************************************************************)
(* A view without a sliding window (engine/mv.rs) and its eviction         *)
(* (engine/evict.rs), driven by the calls of the database: groups are      *)
(* loaded from the store on demand, emit records, are undone by forks and  *)
(* by failed calls, become final, are written at checkpoints and leave     *)
(* memory.                                                                 *)
(*                                                                         *)
(* An aggregate is the set of the data it was fed (module Aggregates has   *)
(* the aggregates); its value tells two sets apart.  Blocks start at 1     *)
(* and 0 stands for no block.                                              *)
(***************************************************************************)
EXTENDS TargetRows

CONSTANTS Inputs,     \* the row sets of a block: sets of [key, tag]
          Null,       \* a tag that feeds nothing but a count
          Counts,     \* whether the view has a count, which Null rows feed
          MaxBlock,
          Interval,   \* the checkpoint interval, 1 for none
          MaxPending, \* places of the ack queue
          Cap         \* max_resident_groups

VARIABLES view,       \* the state of MVEngine
          checkpoint, \* checkpoints: the number of the last checkpoint
          committed,  \* committed_checkpoint
          chain,      \* the rows of each block, as the raw table has them
          latest, final, durable,
          image,      \* the rows of the view in the target
          unsound,    \* history: the records that did not meet the row they name
          disk,       \* the committed store
          queue       \* the write sets that wait for an ack, a sequence each

engine == <<view, checkpoint, committed>>
blocks == <<chain, latest, final, durable>>
vars == <<view, checkpoint, committed, chain, latest, final, durable, image, unsound, disk, queue>>

Block == 1 .. MaxBlock

\* What the rows of block b feed to group k.
Fed(b, rows, k) ==
    {[block |-> b, tag |-> r.tag] : r \in {q \in rows : q.key = k /\ (Counts \/ q.tag # Null)}}

-----------------------------------------------------------------------------
(* The view *)

\* Group::new; final holds the data of final blocks.
NewGroup == [final |-> {}, unfinal |-> {}, written |-> 0]

Value(g) == g.final \cup g.unfinal

\* has_data of any aggregate.
HasData(g) == Value(g) # {}

\* MVEngine::new and reload.
NewView(stored) ==
    [groups |-> Empty, blockGroups |-> Empty, pending |-> {}, removed |-> {},
     readsStorage |-> DOMAIN stored # {}, stuck |-> {}]

\* The group in memory or, with load_group, in the store: a set of at most one.
Resident(v, k) == {v.groups[x] : x \in DOMAIN v.groups \cap {k}}

Load(v, stored, k) ==
    IF Resident(v, k) # {} \/ ~ v.readsStorage THEN Resident(v, k)
    ELSE {[NewGroup EXCEPT !.final = stored[x]] : x \in DOMAIN stored \cap {k}}

\* Takes the value before the last change.
FaultySnapshot(touched, k, group) == {Value(g) : g \in group}

\* snapshot: the value of a group before its first change, none if it is new.
Snapshot(touched, k, group) ==
    IF k \in DOMAIN touched THEN touched[k] ELSE {Value(g) : g \in group}

\* apply_block: `in` has the view and what the call touched.
ApplyBlock(in, stored, b, rows) ==
    LET keys   == {r.key : r \in rows}
        loaded == [k \in keys |-> Load(in.view, stored, k)]
        fed(k) == LET g == IF loaded[k] = {} THEN NewGroup ELSE CHOOSE g \in loaded[k] : TRUE
                  IN  [g EXCEPT !.unfinal = @ \cup Fed(b, rows, k)]
    IN  [view    |-> [in.view EXCEPT !.groups = Over(@, [k \in keys |-> fed(k)]),
                                     !.blockGroups = Over(@, b :> keys)],
         touched |-> Over(in.touched, [k \in keys |-> Snapshot(in.touched, k, loaded[k])])]

\* The touched groups that have no data left.
Emptied(v, touched) == {k \in DOMAIN touched : \A g \in Resident(v, k) : ~ HasData(g)}

DropEmptyGroups(v, touched) ==
    LET empty == Emptied(v, touched)
    IN  [v EXCEPT !.groups = Without(@, empty),
                  !.removed = @ \cup {k \in empty : touched[k] # {}}]

\* emit_changes: an Insert has no old value, a Delete no new one.
Records(v, touched) ==
    {r \in {[key |-> k, old |-> touched[k],
             new |-> {Value(g) : g \in {h \in Resident(v, k) : HasData(h)}}] : k \in DOMAIN touched} :
        r.old # r.new}

\* Keeps the block after the fork point.
FaultyUnfed(g, p) == [g EXCEPT !.unfinal = {d \in @ : d.block <= p + 1}]

\* remove_blocks_after in each aggregate.
Unfed(g, p) == [g EXCEPT !.unfinal = {d \in @ : d.block <= p}]

\* rollback, with the groups that it touched.
Rollback(v, p) ==
    LET keys == UNION {v.blockGroups[b] : b \in {x \in DOMAIN v.blockGroups : x > p}}
    IN  [view    |-> [v EXCEPT !.blockGroups = UpTo(@, p),
                               !.groups = [k \in DOMAIN @ |-> IF k \in keys THEN Unfed(@[k], p) ELSE @[k]]],
         touched |-> [k \in keys |-> {Value(g) : g \in Resident(v, k)}]]

\* advance_finality with finalize_blocks_up_to.
AdvanceFinality(v, b) ==
    LET changed == UNION {v.blockGroups[x] : x \in {x \in DOMAIN v.blockGroups : x <= b}}
        merge(g) == [g EXCEPT !.final = @ \cup {d \in g.unfinal : d.block <= b},
                              !.unfinal = {d \in @ : d.block > b}]
    IN  [v EXCEPT !.blockGroups = Without(@, 1 .. b),
                  !.groups = [k \in DOMAIN @ |-> IF k \in changed THEN merge(@[k]) ELSE @[k]],
                  !.pending = @ \cup changed]

\* write_checkpoint: the view after checkpoint n, and what the store gets.
WriteCheckpoint(v, n) ==
    LET puts == v.pending \cap DOMAIN v.groups
    IN  [view |-> [v EXCEPT !.pending = {}, !.removed = {},
                            !.groups = [k \in DOMAIN @ |->
                                IF k \in puts THEN [@[k] EXCEPT !.written = n] ELSE @[k]]],
         puts |-> [k \in puts |-> v.groups[k].final],
         dels |-> v.removed \ DOMAIN v.groups]

-----------------------------------------------------------------------------
(* Eviction *)

Target == Cap - Cap \div 4

\* Eviction::due.
Due(v, count) ==
    LET waits == \E s \in v.stuck : count < s.resident + Cap \div 4 /\ committed <= s.committed
    IN  IF count <= Cap \/ waits THEN 0 ELSE count - Target

\* The groups that may leave memory.
Stored(v) ==
    {k \in DOMAIN v.groups :
        /\ v.groups[k].written <= committed
        /\ k \notin UNION Range(v.blockGroups) \cup v.pending}

\* Victims: any set of so many groups whose writes are the oldest.
Victims(v, count) ==
    {S \in SUBSET Stored(v) :
        /\ Cardinality(S) = Min({count, Cardinality(Stored(v))})
        /\ \A k \in S, l \in Stored(v) \ S : v.groups[k].written <= v.groups[l].written}

\* evict: the views that it may leave.
Evict(v) ==
    LET count == Due(v, Cardinality(DOMAIN v.groups))
        left(S) == Cardinality(DOMAIN v.groups) - Cardinality(S)
    IN  IF count = 0 THEN {v}
        ELSE {[v EXCEPT !.groups = Without(@, S),
                        !.readsStorage = @ \/ S # {},
                        !.stuck = IF left(S) > Target
                                  THEN {[resident |-> left(S), committed |-> committed]} ELSE {}] :
                S \in Victims(v, count)}

-----------------------------------------------------------------------------
(* The store and the queue *)

\* A write set with what a call leaves in the store beside the view's groups.
Write(puts, dels) ==
    [puts |-> puts, dels |-> dels, checkpoint |-> checkpoint', chain |-> chain', latest |-> latest',
     final |-> final', durable |-> durable', image |-> image']

Commit(d, w) ==
    [groups |-> Over(Without(d.groups, w.dels), w.puts), chain |-> w.chain, latest |-> w.latest,
     final |-> w.final, durable |-> w.durable, image |-> w.image]

CommitAll(d, writes) == FoldLeft(Commit, d, writes)

\* A call with a batch waits for its ack.  A call without one commits, or
\* joins the newest batch.  Other nodes may have changes when rows came.
Deliver(w, records, others) ==
    \/ /\ records # {} \/ others
       /\ queue' = Append(queue, <<w>>)
       /\ UNCHANGED <<disk, committed>>
    \/ /\ records = {}
       /\ IF queue = <<>>
          THEN disk' = Commit(disk, w) /\ committed' = w.checkpoint /\ UNCHANGED queue
          ELSE queue' = [queue EXCEPT ![Len(queue)] = Append(@, w)] /\ UNCHANGED <<disk, committed>>

-----------------------------------------------------------------------------
(* The calls *)

Init ==
    /\ view = NewView(Empty) /\ checkpoint = 0 /\ committed = 0
    /\ chain = Empty /\ latest = 0 /\ final = 0 /\ durable = 0
    /\ image = Empty /\ unsound = {}
    /\ disk = [groups |-> Empty, chain |-> Empty, latest |-> 0, final |-> 0, durable |-> 0,
               image |-> Empty]
    /\ queue = <<>>

\* Applies the blocks of `new` to `v` in order.
ApplyAll(v, new) ==
    FoldLeft(LAMBDA in, b : ApplyBlock(in, disk.groups, b, new[b]),
             [view |-> v, touched |-> Empty], SetToSortSeq(DOMAIN new, <))

\* A joined heartbeat takes a place of its own.
Places == FoldLeft(LAMBDA n, writes : n + Len(writes), 0, queue) < MaxPending

\* Whether the call writes a checkpoint, for finality f and latest block l.
CheckpointDue(f, l) ==
    /\ durable < f
    /\ Interval = 1 \/ f < l \/ durable = 0 \/ f - durable >= Interval

\* ingest_data: rollback to p when it is below the latest block, the rows of
\* `new`, finality up to f, a checkpoint when due, eviction, and the flush.
\* A call that brings nothing new is left out.
Ingest(p, new, f) ==
    /\ p \in final .. latest
    /\ \A b \in DOMAIN new : b > p
    /\ new # Empty \/ (p = latest /\ f > final)
    /\ latest' = Max({p} \cup DOMAIN new)
    /\ f \in final .. latest'
    /\ final' = f
    /\ chain' = Over(UpTo(chain, p), new)
    /\ \E undone \in {Rollback(view, p)} :
       \E fed \in {ApplyAll(DropEmptyGroups(undone.view, undone.touched), new)} :
       \E merged \in {AdvanceFinality(DropEmptyGroups(fed.view, fed.touched), f)} :
       \E due \in {CheckpointDue(f, latest')} :
       \E saved \in {IF due THEN WriteCheckpoint(merged, checkpoint + 1)
                     ELSE [view |-> merged, puts |-> Empty, dels |-> {}]} :
       \E back \in {Records(undone.view, undone.touched)}, more \in {Records(fed.view, fed.touched)} :
        /\ image' = Apply(Apply(image, back), more)
        /\ unsound' = unsound \cup Unsound(image, back) \cup Unsound(Apply(image, back), more)
        /\ checkpoint' = IF due THEN checkpoint + 1 ELSE checkpoint
        /\ durable' = IF due THEN f ELSE durable
        /\ view' \in Evict(saved.view)
        /\ Deliver(Write(saved.puts, saved.dels), back \cup more, new # Empty)

\* A call whose processing fails after the rows of `new`: undo_ingest.
FailIngest(new) ==
    /\ new # Empty /\ \A b \in DOMAIN new : b > latest
    /\ \E fed \in {ApplyAll(view, new)} :
       \E undone \in {Rollback(fed.view, latest)} :
        view' = IF latest = 0 THEN NewView(disk.groups)
                ELSE DropEmptyGroups(undone.view, undone.touched)
    /\ UNCHANGED <<checkpoint, committed, blocks, image, unsound, disk, queue>>

\* handle_fork.
HandleFork(p) ==
    /\ p \in final .. latest - 1
    /\ chain' = UpTo(chain, p) /\ latest' = p
    /\ UNCHANGED <<checkpoint, final, durable>>
    /\ \E undone \in {Rollback(view, p)} :
       \E back \in {Records(undone.view, undone.touched)} :
        /\ view' = DropEmptyGroups(undone.view, undone.touched)
        /\ image' = Apply(image, back)
        /\ unsound' = unsound \cup Unsound(image, back)
        /\ Deliver(Write(Empty, {}), back, TRUE)

\* ack of the oldest batch.
Ack ==
    /\ queue # <<>>
    /\ disk' = CommitAll(disk, Head(queue))
    /\ committed' = Last(Head(queue)).checkpoint
    /\ queue' = Tail(queue)
    /\ UNCHANGED <<view, checkpoint, blocks, image, unsound>>

\* replay_block over the blocks of `new`.
Replay(v, new) ==
    FoldLeft(LAMBDA acc, b :
                LET in == ApplyBlock([view |-> acc, touched |-> Empty], disk.groups, b, new[b])
                IN  DropEmptyGroups(in.view, in.touched),
             v, SetToSortSeq(DOMAIN new, <))

\* The process stops and opens the store: replay from the durable block, and
\* restore_finality.
Reopen ==
    /\ view' = AdvanceFinality(Replay(NewView(disk.groups),
                                      Without(disk.chain, 1 .. disk.durable)), disk.final)
    /\ checkpoint' = 0 /\ committed' = 0
    /\ chain' = disk.chain /\ latest' = disk.latest
    /\ final' = disk.final /\ durable' = disk.durable
    /\ image' = disk.image /\ queue' = <<>>
    /\ UNCHANGED <<disk, unsound>>

\* The rows that a call may bring: for at most two blocks.
NewRows == UNION {[S -> Inputs] : S \in {T \in SUBSET Block : Cardinality(T) <= 2}}

\* Every call begins with guard_pending_room.
Next ==
    \/ Ack \/ Reopen
    \/ Places /\ \E new \in NewRows : FailIngest(new)
    \/ Places /\ \E p \in final .. latest :
        \/ HandleFork(p)
        \/ \E new \in NewRows, f \in final .. MaxBlock : Ingest(p, new, f)

Spec == Init /\ [][Next]_vars

-----------------------------------------------------------------------------
\* The data of group k in the blocks of c.
DataOf(c, k) == UNION {Fed(b, c[b], k) : b \in DOMAIN c}

Keys == {r.key : r \in UNION Inputs}

\* The rows that the view has for the blocks of c: one for each group with data.
Recomputed(c) == [k \in {k \in Keys : DataOf(c, k) # {}} |-> DataOf(c, k)]

\* After each call the target has exactly the rows that a recomputation over
\* the accepted blocks gives (target equivalence, group presence), although
\* the view sees only the touched groups and keeps few of them in memory.
TargetIsRecomputed == image = Recomputed(chain)

\* What a record says of a row is true when the target applies it: an Insert
\* meets no row, an Update or a Delete the row that it names as the previous
\* one, also for groups that left memory and for rows that a fork brings.
RecordsSound == unsound = {}

\* What the view would find of group k: memory, else the store.
Found(k) == UNION {{[final |-> g.final, unfinal |-> g.unfinal]} : g \in Load(view, disk.groups, k)}

\* A group that is not in memory is in the store in its present final state,
\* whatever waits in the queue; one in memory has the data of its blocks,
\* split at the finalized block.
GroupsFound ==
    \A k \in Keys :
        LET all == DataOf(chain, k)
            fin == DataOf(UpTo(chain, final), k)
        IN  Found(k) = IF all = {} THEN {} ELSE {[final |-> fin, unfinal |-> all \ fin]}

\* Every store that a crash may meet has, in each group, the data up to its
\* own durable block: what the replay of the raw rows above it continues.
StoredAsOfDurable ==
    \A i \in 0 .. Len(queue) :
        LET d == FoldLeft(CommitAll, disk, SubSeq(queue, 1, i))
        IN  d.groups = Recomputed(UpTo(d.chain, d.durable))
=============================================================================
