------------------------------- MODULE Window -------------------------------
(***************************************************************************)
(* A view with a sliding window (engine/mv.rs), driven by the calls of the *)
(* database: blocks leave the window when the watermark passes them, stay  *)
(* aside until the block that expired them is final, come back when a fork *)
(* removes it, and are stored one by one as of the finalized block.  A     *)
(* window is never deferred, so each call that moves finality writes a     *)
(* checkpoint.                                                             *)
(*                                                                         *)
(* As in View, an aggregate is the set of the data it was fed, blocks      *)
(* start at 1 and 0 stands for no block.                                   *)
(***************************************************************************)
EXTENDS TargetRows

CONSTANTS Inputs,     \* the row sets of a block: sets of [key, tag, ts]
          Null,       \* a tag that feeds nothing
          NoTime,     \* a value of the time column that is no time
          Width,
          MaxBlock,
          MaxPending, \* places of the ack queue
          LateFailures \* whether a call may fail after a block of its own left the window

VARIABLES view,       \* the state of MVEngine
          chain,      \* the rows of each block, as the raw table has them
          latest, final,
          image,      \* the rows of the view in the target
          unsound,    \* history: the records that did not meet the row they name
          disk,       \* the committed store
          queue       \* the write sets that wait for an ack, a sequence each

vars == <<view, chain, latest, final, image, unsound, disk, queue>>

Block == 1 .. MaxBlock

Fed(b, rows, k) ==
    {[block |-> b, tag |-> r.tag] : r \in {q \in rows : q.key = k /\ q.tag # Null}}

Of(data, b) == {d \in data : d.block = b}

-----------------------------------------------------------------------------
(* The view *)

MaxTime(times) == IF times = Empty THEN 0 ELSE Max(Range(times))

\* restore_window: the groups of the stored blocks, each with its data.
NewView(stored) ==
    LET keys  == UNION {DOMAIN stored[b].groups : b \in DOMAIN stored}
        times == [b \in DOMAIN stored |-> stored[b].ts]
        at(k) == {b \in DOMAIN stored : k \in DOMAIN stored[b].groups}
    IN  [groups      |-> [k \in keys |-> UNION {stored[b].groups[k] : b \in at(k)}],
         blockGroups |-> [b \in {x \in DOMAIN stored : stored[x].groups # Empty} |->
                            DOMAIN stored[b].groups],
         times |-> times, watermark |-> MaxTime(times),
         expired |-> Empty, unstored |-> {}, writes |-> <<>>]

\* The group's data before its first change, none if it is not there.
Snapshot(touched, groups, k) ==
    IF k \in DOMAIN touched THEN touched[k] ELSE {groups[x] : x \in DOMAIN groups \cap {k}}

Touch(touched, groups, keys) ==
    Over(touched, [k \in keys |-> Snapshot(touched, groups, k)])

KeysOf(v, b) == IF b \in DOMAIN v.blockGroups THEN v.blockGroups[b] ELSE {}

\* What expiry keeps of block b: its time and the data of the groups in memory.
Expired(v, b) ==
    [block |-> b, ts |-> v.times[b],
     groups |-> [k \in KeysOf(v, b) \cap DOMAIN v.groups |-> Of(v.groups[k], b)]]

\* A block at the cutoff leaves too.
FaultyTakeOlderThan(v, cutoff) == {b \in DOMAIN v.times : v.times[b] <= cutoff}

TakeOlderThan(v, cutoff) == {b \in DOMAIN v.times : v.times[b] < cutoff}

\* expire_old_blocks, by block `by`.
ExpireOldBlocks(in, by) ==
    LET v    == in.view
        old  == TakeOlderThan(v, v.watermark - Width)
        keys == UNION {KeysOf(v, b) : b \in old}
    IN  [view    |-> [v EXCEPT
            !.times = Without(@, old), !.blockGroups = Without(@, old),
            !.groups = [k \in DOMAIN @ |->
                IF k \in keys THEN {d \in @[k] : ~ (d.block \in old /\ k \in KeysOf(v, d.block))} ELSE @[k]],
            !.expired = IF old = {} THEN @ ELSE Over(@, by :> {Expired(v, b) : b \in old})],
         touched |-> Touch(in.touched, v.groups, keys)]

\* The largest time of the rows, or the watermark if none has a time.
BlockTime(v, rows) ==
    LET times == {r.ts : r \in rows} \ {NoTime}
    IN  IF times = {} THEN v.watermark ELSE Max(times)

\* apply_block; a block that the store already gave is skipped.
ApplyBlock(in, b, rows) ==
    LET v    == in.view
        keys == {r.key : r \in rows}
        ts   == BlockTime(v, rows)
        fed  == [k \in keys |-> (IF k \in DOMAIN v.groups THEN v.groups[k] ELSE {}) \cup Fed(b, rows, k)]
    IN  IF b \in DOMAIN v.times THEN in
        ELSE ExpireOldBlocks(
                [view    |-> [v EXCEPT !.times = Over(@, b :> ts), !.unstored = @ \cup {b},
                                       !.watermark = Max({@, ts}),
                                       !.groups = Over(@, fed),
                                       !.blockGroups = Over(@, b :> keys)],
                 touched |-> Touch(in.touched, v.groups, keys)], b)

\* The state change of emit_changes and drop_empty_groups.
DropEmptyGroups(in) ==
    [in.view EXCEPT !.groups = Without(@, {k \in DOMAIN in.touched \cap DOMAIN @ : @[k] = {}})]

Records(in) ==
    {r \in {[key |-> k, old |-> in.touched[k],
             new |-> {in.view.groups[x] : x \in DOMAIN in.view.groups \cap {k}} \ {{}}] :
                k \in DOMAIN in.touched} : r.old # r.new}

\* restore_expired: the blocks up to p that blocks above it expired.
Unexpired(v, p) ==
    {e \in UNION {v.expired[x] : x \in {x \in DOMAIN v.expired : x > p}} : e.block <= p}

\* rollback to p, with the groups that it touched.
Rollback(v, p) ==
    LET keys  == UNION {v.blockGroups[b] : b \in {x \in DOMAIN v.blockGroups : x > p}}
        back  == Unexpired(v, p)
        again == UNION {DOMAIN e.groups : e \in back}
        kept  == [k \in DOMAIN v.groups |->
                    IF k \in keys THEN {d \in v.groups[k] : d.block <= p} ELSE v.groups[k]]
        data(k) == UNION {e.groups[k] : e \in {x \in back : k \in DOMAIN x.groups}}
        times == Over(UpTo(v.times, p), [b \in {e.block : e \in back} |->
                                            (CHOOSE e \in back : e.block = b).ts])
        undone == {x \in DOMAIN v.times \cup DOMAIN v.expired \cup DOMAIN v.blockGroups : x > p}
        old(b) == IF b \in DOMAIN v.blockGroups THEN v.blockGroups[b] ELSE {}
    IN  IF undone = {} THEN [view |-> v, touched |-> Empty]
        ELSE [view |-> [v EXCEPT
                !.times = times, !.watermark = MaxTime(times),
                !.expired = UpTo(@, p), !.unstored = {b \in @ : b <= p},
                !.blockGroups = Over(UpTo(@, p),
                    [b \in {e.block : e \in {x \in back : x.groups # Empty}} |->
                        old(b) \cup DOMAIN (CHOOSE e \in back : e.block = b).groups]),
                !.groups = Over(kept, [k \in again |->
                    (IF k \in DOMAIN kept THEN kept[k] ELSE {}) \cup data(k)])],
              touched |-> Touch(Empty, v.groups, keys \cup again)]

\* window_record: a group with no data in the block is left out.
WindowRecord(ts, groups) ==
    [ts |-> ts, groups |-> Restrict(groups, {k \in DOMAIN groups : groups[k] # {}})]

\* Deletes what a block that may still be rolled back expired.
FaultyGone(v, f, newlyFinal) ==
    {e.block : e \in UNION Range(v.expired)} \ newlyFinal

\* The stored blocks that a block now final expired.
Gone(v, f, newlyFinal) ==
    {e.block : e \in UNION {v.expired[x] : x \in {x \in DOMAIN v.expired : x <= f}}} \ newlyFinal

\* advance_window: the writes that bring the stored window to block f.
AdvanceWindow(v, f) ==
    LET newlyFinal == {b \in v.unstored : b <= f}
        inWindow   == newlyFinal \cap DOMAIN v.times
        record(b)  == WindowRecord(v.times[b],
                        [k \in KeysOf(v, b) \cap DOMAIN v.groups |-> Of(v.groups[k], b)])
        later      == {e \in UNION {v.expired[x] : x \in {x \in DOMAIN v.expired : x > f}} :
                        e.block \in newlyFinal}
        puts       == Over([b \in inWindow |-> record(b)],
                           [b \in {e.block : e \in later} |->
                                LET e == CHOOSE e \in later : e.block = b
                                IN  WindowRecord(e.ts, e.groups)])
    IN  [v EXCEPT !.unstored = @ \ newlyFinal,
                  !.expired = Restrict(@, {x \in DOMAIN @ : x > f}),
                  !.writes = Append(@, [puts |-> puts, dels |-> Gone(v, f, newlyFinal)])]

-----------------------------------------------------------------------------
(* The store and the calls *)

Commit(d, w) ==
    [window |-> FoldLeft(LAMBDA win, x : Without(Over(win, x.puts), x.dels), d.window, w.writes),
     chain |-> w.chain, latest |-> w.latest, final |-> w.final, image |-> w.image]

CommitAll(d, writes) == FoldLeft(Commit, d, writes)

Write(writes) ==
    [writes |-> writes, chain |-> chain', latest |-> latest', final |-> final', image |-> image']

Places == FoldLeft(LAMBDA n, writes : n + Len(writes), 0, queue) < MaxPending

\* As in View; a call whose records cancel out returns no batch.
Deliver(w, records, others) ==
    \/ /\ records # {} \/ others
       /\ queue' = Append(queue, <<w>>)
       /\ UNCHANGED disk
    \/ /\ records = {} \/ image' = image
       /\ IF queue = <<>> THEN disk' = Commit(disk, w) /\ UNCHANGED queue
          ELSE queue' = [queue EXCEPT ![Len(queue)] = Append(@, w)] /\ UNCHANGED disk

Init ==
    /\ view = NewView(Empty)
    /\ chain = Empty /\ latest = 0 /\ final = 0 /\ image = Empty /\ unsound = {}
    /\ disk = [window |-> Empty, chain |-> Empty, latest |-> 0, final |-> 0, image |-> Empty]
    /\ queue = <<>>

ApplyAll(v, new) ==
    FoldLeft(LAMBDA in, b : ApplyBlock(in, b, new[b]), [view |-> v, touched |-> Empty],
             SetToSortSeq(DOMAIN new, <))

\* ingest_data: rollback to p when it is below the latest block, the rows of
\* `new`, finality up to f with its checkpoint, and the flush.
Ingest(p, new, f) ==
    /\ p \in final .. latest
    /\ \A b \in DOMAIN new : b > p
    /\ new # Empty \/ (p = latest /\ f > final)
    /\ latest' = Max({p} \cup DOMAIN new)
    /\ f \in final .. latest'
    /\ final' = f
    /\ chain' = Over(UpTo(chain, p), new)
    /\ \E undone \in {Rollback(view, p)} :
       \E fed \in {ApplyAll(DropEmptyGroups(undone), new)} :
       \E moved \in {IF f > final THEN AdvanceWindow(DropEmptyGroups(fed), f) ELSE DropEmptyGroups(fed)} :
       \E back \in {Records(undone)}, more \in {Records(fed)} :
        /\ image' = Apply(Apply(image, back), more)
        /\ unsound' = unsound \cup Unsound(image, back) \cup Unsound(Apply(image, back), more)
        /\ view' = [moved EXCEPT !.writes = <<>>]
        /\ Deliver(Write(moved.writes), back \cup more, new # Empty)

\* A call whose processing fails after the rows of `new`: undo_ingest.
FailIngest(new) ==
    /\ new # Empty /\ \A b \in DOMAIN new : b > latest
    /\ \E fed \in {ApplyAll(view, new)} :
        /\ LateFailures \/ DOMAIN new \subseteq DOMAIN fed.view.times
        /\ view' = IF latest = 0 THEN NewView(disk.window)
                   ELSE DropEmptyGroups(Rollback(fed.view, latest))
    /\ UNCHANGED <<chain, latest, final, image, unsound, disk, queue>>

HandleFork(p) ==
    /\ p \in final .. latest - 1
    /\ chain' = UpTo(chain, p) /\ latest' = p
    /\ UNCHANGED final
    /\ \E undone \in {Rollback(view, p)} :
       \E back \in {Records(undone)} :
        /\ view' = DropEmptyGroups(undone)
        /\ image' = Apply(image, back)
        /\ unsound' = unsound \cup Unsound(image, back)
        /\ Deliver(Write(<<>>), back, TRUE)

Ack ==
    /\ queue # <<>>
    /\ disk' = CommitAll(disk, Head(queue))
    /\ queue' = Tail(queue)
    /\ UNCHANGED <<view, chain, latest, final, image, unsound>>

\* replay_block over the blocks of `new`.
Replay(v, new) ==
    FoldLeft(LAMBDA acc, b : DropEmptyGroups(ApplyBlock([view |-> acc, touched |-> Empty], b, new[b])),
             v, SetToSortSeq(DOMAIN new, <))

Reopen ==
    /\ view' = Replay(NewView(disk.window), Without(disk.chain, 1 .. disk.final))
    /\ chain' = disk.chain /\ latest' = disk.latest /\ final' = disk.final
    /\ image' = disk.image /\ queue' = <<>>
    /\ UNCHANGED <<disk, unsound>>

\* The rows that a call may bring: for at most two blocks.
NewRows == UNION {[S -> Inputs] : S \in {T \in SUBSET Block : Cardinality(T) <= 2}}

\* Every call begins with guard_pending_room.
Next ==
    \/ Ack \/ Reopen
    \/ Places /\ \E new \in NewRows : FailIngest(new)
    \/ Places /\ \E p \in final .. latest :
        \/ HandleFork(p)
        \/ \E new \in NewRows, f \in final .. MaxBlock : Ingest(p, new, f)

Spec == Init /\ [][Next]_vars

-----------------------------------------------------------------------------
(* The window by its definition *)

\* The time of each block of c: its largest time, or the largest of the
\* blocks before it.
Times(c) ==
    FoldLeft(LAMBDA times, b :
                LET own == {r.ts : r \in c[b]} \ {NoTime}
                IN  Over(times, b :> IF own = {} THEN MaxTime(times) ELSE Max(own)),
             Empty, SetToSortSeq(DOMAIN c, <))

\* The blocks of c in the window, and their times.
WindowTimes(c) ==
    LET within(times) == Restrict(times, {b \in DOMAIN c : times[b] >= MaxTime(times) - Width})
    IN  within(Times(c))

InWindow(c) == DOMAIN WindowTimes(c)

Keys == {r.key : r \in UNION Inputs}

\* The rows of the view for the blocks B of c.
RowsOf(c, B) ==
    LET data == [k \in Keys |-> UNION {Fed(b, c[b], k) : b \in B}]
    IN  Restrict(data, {k \in Keys : data[k] # {}})

Recomputed(c) == RowsOf(c, InWindow(c))

\* The blocks in the window of c as the store should have them.
RecomputedWindow(c) ==
    LET records(times) == [b \in DOMAIN times |->
            WindowRecord(times[b], [k \in {r.key : r \in c[b]} |-> Fed(b, c[b], k)])]
    IN  records(WindowTimes(c))

\* After each call the target has the rows of the blocks in the window and
\* no other: a block leaves on time, on arrival too, and comes back when the
\* block that expired it is rolled back.
WindowIsRecomputed == image = Recomputed(chain)

\* An Insert meets no row, an Update or a Delete the row that it names.
RecordsSound == unsound = {}

\* Every store that a crash may meet has the window as of its finalized
\* block, block by block: also the blocks that a later block expired, which a
\* fork may bring back, and none that a final block expired.
StoredWindow ==
    \A i \in 0 .. Len(queue) :
        LET d == FoldLeft(CommitAll, disk, SubSeq(queue, 1, i))
        IN  d.window = RecomputedWindow(UpTo(d.chain, d.final))

\* The blocks set aside are exactly those that a fork can bring back: in the
\* window as of finality or of a later block, and out of it now.  So the
\* stash empties once finality passes.
StashIsWhatForksNeed ==
    /\ \A by \in DOMAIN view.expired : by > final
    /\ {e.block : e \in UNION Range(view.expired)} =
            (UNION {InWindow(UpTo(chain, p)) : p \in final .. latest}
                \cup {b \in DOMAIN chain : b > final}) \ InWindow(chain)
=============================================================================
