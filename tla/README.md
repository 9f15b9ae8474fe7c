# TLA+ models of Settle

Settle is an embedded engine that derives tables from blockchain data and keeps
them right when the chain forks. This directory holds its specifications: TLA+
modules translated from the Rust source, TLC configurations that check them on
small instances, and proofs that TLAPS checks for every value of the constants.

## 1. The system and its parts

A host feeds blocks to one `Settle` instance (`src/src/db.rs`) and passes the
change batches it gets back to a target database.

| Part | Source | Role |
|---|---|---|
| Host calls | `db.rs` | `open`, `ingest`, `handle_fork`, `ack`, `register_reducer_callback`, each under one `&mut self` |
| Ack queue and journal | `db.rs`, `storage/journal.rs` | A call computes one write set. It waits in memory until the host acks the batch. In journal mode it is also stored, so an open can commit what the target applied |
| Chain state | `engine/dag.rs` | Latest block L, finality F, durable block D, block hashes, fork detection, rollback, deferral, checkpoints, purge, replay |
| Raw tables | `engine/raw_table.rs` | The rows of each block as they came, kept for the replay |
| Reducers | `engine/reducer.rs`, `reducer_runtime/` | Per-group state with undo by block; Lua, native or external code |
| Views and aggregates | `engine/mv.rs`, `engine/aggregation.rs`, `engine/blocks.rs` | Grouped aggregates, sliding windows |
| Eviction | `engine/evict.rs` | Bounds the groups in memory |
| Change buffer | `change.rs` | Merges the records of a call into one batch with the next sequence |
| Storage | `storage/` | Atomic commit of a write set; memory and RocksDB backends; format stamp |
| Schema, pipeline builder | `schema/`, `pipeline/` | Text to tree, builder to text; no state |
| Codecs, bindings | `types.rs`, `json_conv.rs`, `msgpack_conv.rs`, `js_codec/`, `napi.rs`, `wasm.rs` | Conversions at the border |

`PROJECT.json` lists every part with its status, the hazards of the code at
their lines, the source lines of each definition, and the runs.

There is no concurrency inside an instance: a call runs to its end. What
interleaves is the *order* of calls, the target's applies, acks, failures of a
write or a sync, crashes, power losses and opens, and, at the border to
JavaScript, what a reducer body does within a call. The models make one action
of each whole call; at the border, one of each step of the body.

## 2. Modules

A definition named `Faulty...` is a wrong variant of the one after it, there to
see that a property can fail. A module named `MC...` gives small instances for
TLC and has no model of its own.

### Durability: AckQueue

What a call leaves in memory, in the store and in the target.

- The effect of a call is abstract, a record of its number and its batch
  sequence (0 for a *heartbeat* call, which returns no batch). Calls are numbered, so a set of
  calls stands for a state, and "the store is the effect of the first calls" is
  `IsPrefixOf`.
- `survivors` is the set of stores that a power loss may leave: every commit
  adds its result, a sync leaves only the newest. RocksDB keeps a prefix of its log,
  which this is.
- `health` is the pair of gates `poisoned` and `sync_failed`.
- `Start` has the gates of a call. `ReturnBatch` is `push_pending`,
  `JoinHeartbeat` and `CommitHeartbeat` are the two ways of
  `commit_without_batch`, `Ack(n, k)` acks n batches of which k commit, and
  `Open` is `open` with `recover_journal` and the format check before and after it.
- `Apply` (the target), `PowerLoss` and `BackendOpened` are external.

`OpenSyncs` tells whether the backend makes durable what it finds at open.
RocksDB does: it flushes a recovered log. It matters only for a host that
changes between the modes: without it, a direct-mode open would serve commits that a second
power loss removes.

### Chain state: Engine

- The rows of one block are one `Row` (block, fork). The derived state of every
  reducer and view is the set of rows folded into it, split in `final` (no
  undo) and `unfinal`. A fold that no recomputation gives, a row twice or
  below a row folded before, sets `skewed`.
- `NoBlock` is -1, below every block, so Rust's `is_some_and(|d| d >= b)` is
  `d >= b`; `OrZero` is `unwrap_or(0)`.
- `Ingest` is the whole of `ingest_data`: gates, fork detection, row checks, rollback, the
  fold, the chain's hashes, finality, the checkpoint decision, purge, metadata,
  and the delivery of the write set. A failing reducer is the alternative
  `Reject`. `HandleFork`, `Ack`, `Reopen` and `RegisterCallback` are the other
  calls. Each one commits, or queues, exactly one `Write`.
- `Image(i)` is the store after i more acks: the stores that a crash can meet.
- `accepted` is history: the rows accepted and not rolled back. It is stored
  with each write set to know what a store *should* hold; no guard reads it for
  another purpose than whether a call has changes to return.
- When no batch is due by the model (a heartbeat), the call commits at once or
  joins; when rows changed, both outcomes are tried, because the changes of a
  call may cancel out (`flush` returns none).
- The memory of a poisoned instance is reset: nothing reads it before the drop.
- `Views` are the chains that the source may show. A hash names a block with
  all its ancestors, which `InputAssumption` states.

`AckQueue` and `Engine` share the queue: `Engine` refines a call of `AckQueue`
into its effect and leaves out the journal and the sync. The modules below give
the derived state of `Engine` its content, one kind of node each, driven by the
same calls.

### Nodes: RawTable, Reducer, View, Window

- `RawTable` makes the Deletes of a rollback from stored rows, read through the
  write sets that wait for an ack (`RawRowsAfter`), and merges the records of the call.
- `Reducer` has groups by id, the undo of each block, finality, checkpoints,
  eviction (which gives groups new ids), load on demand, the row-by-row and the
  batched path, and rows on which the runtime fails. Its body appends the row's
  tag to the group's state, so that a state tells which rows it folded, in which order.
  `MapField` is the MAP fields of one group: entries, the journal of unfinal
  changes, the keys changed since the last checkpoint.
- `EmitColumns` is the registry of output columns: growth per block, its undo, the
  limit, and the position that a downstream node keeps.
- `View` is a view without a window: load, fold, records, rollback, finality,
  checkpoint and eviction. `Window` is a sliding one: blocks expire, wait
  in a stash until the block that expired them is final, and come back on a fork.
  An aggregate is the set of the data fed to it; `Aggregates` has the real ones.
- `TargetRows` has the target's rows and how records change them.

They assume what `Engine` establishes: finality at most the latest block and
calls that bring something new. Blocks start at 1, and 0 stands for none.
`RawTable` purges up to finality (retention 0, no deferral; `Engine` has both).

### Aggregates and per-block data: RunningAggregate, Aggregates, Blocks, BlockMap

`Blocks` is the enum Empty/One/Many of `blocks.rs`, with the overflow of
`block + 1` at the highest block. `BlockMap` is its abstract specification: a map.
`RunningAggregate` is the common part of five aggregates, a value per unfinal
block with a running fold; `Aggregates` instantiates it with each contribution and
fold, adds First and Last, and drives all seven over the same rows. Numbers
saturate at a small `Limit`.

### Changes: MergeRecord, ChangeMerge, ChangeBuffer, NetRecord

`MergeRecord` merges two records of a row, `ChangeMerge` is `flush` with its hash
buckets, `ChangeBuffer` drives it with a raw table and a view. `NetRecord` is what
the buffer promises for one row: at most one record, the net change.

### Storage: KeyStore, RowCodec, JournalCodec, FormatStamp

- `KeyStore` sends each write to the maps of the memory backend and to the byte
  keys of the RocksDB backend, and compares every read. RocksDB is a sorted map
  with exclusive upper bounds; a byte is below `KeyBase` and numbers have two of them.
- `RowCodec` and `JournalCodec` encode to digits and decode (`ByteFormat`,
  `Reader`), and damage what is stored. Widths are constants; a character is one byte.
  `RowCodec` has both forms of a group key: a view's is its encoded values and is read
  back; a reducer's (`ReducerKey`) is that too, but for a single String, whose bytes
  are the key.
- `FormatStamp` is the check of the layouts at open, before and after the recovery
  of the journal, and the stamp that write sets carry until one commits.

### Border: SlotCodec, GroupCall, BatchCrossing, IngestCrossing, HostCallback

- `SlotCodec` is the layout in which values cross: tags, numbers, and one joined
  string whose ends count UTF-16 units (one character, `Astral`, takes two). A BigInt
  is read as UInt64, Int64, Uint256 or its text, by the size of a `Word`.
- `GroupCall` is the call of a reducer callback for a block, with the writer and the
  row layout that live on between blocks. `BatchCrossing` is a change batch on its
  way out, `IngestCrossing` the rows on their way in.
- `HostCallback` has the instances of one thread: callbacks, the context
  that a call installs, and the Map handles that a body may keep. A block moves the maps
  of its groups to HOST_MAPS (`Enter`) and they come back from there (`Returned`). A body
  that throws ends an ingest, which the engine undoes (`IngestThrows`), or a replay,
  which poisons the instance and takes the callback with it (`ReplayThrows`). A
  registration is refused on a poisoned instance and with a batch unacked (`Register`,
  `Ack`). Only a reducer of the schema has Map fields. Each instance has
  one external reducer, no instance is entered twice, and the reducers have names
  of their own (see section 6 for the other case).

### Suites

Each `MC...` module puts several components, or one under several settings, side
by side in one run. A variable (`part`, `setting`) says which of them a behaviour
drives; it never changes, and the others stay as they started. A suite of
modules whose variables differ EXTENDS them; settings of one module are INSTANCEs on the
same variables, and a property of the suite is the conjunction of theirs. `MCEngine`
EXTENDS `Engine`, with the constants of the configuration, and has a second set of
variables for four more settings.

## 3. Runs

`tlc -config <cfg> <module>`. Each takes one to three minutes.

| Run | Configuration, module | Drives | Distinct states |
|---|---|---|---|
| ack_journal | `AckQueue_journal.cfg`, `AckQueue` | journal mode, 5 calls, 3 places, with liveness | 102,904 |
| ack_mixed | `AckQueue_mixed.cfg`, `AckQueue` | both modes in turn, 5 calls, 3 places | 115,394 |
| engine | `Engine.cfg`, `MCEngine` | 3 chains with deferral (4 blocks, interval 2); a host that names few blocks (4 blocks); 2 places and retention (3 blocks); 3 chains without deferral (4 blocks); external reducer (3 blocks) | 151,269 |
| reducers | `Reducers.cfg`, `MCReducers` | row by row with deferral (3 blocks); batched with 2 places (2 blocks); output columns (3 blocks, limit 3) | 61,175 |
| aggregates | `Aggregates.cfg`, `MCAggregates` | the block enum; signed sums with finality; unsigned sums in a window (4 blocks, 4 calls) | 52,754 |
| views | `Views.cfg`, `MCViews` | deferral (3 blocks); 2 places (2 blocks); a sliding window (3 blocks) | 91,260 |
| changes | `Changes.cfg`, `MCChanges` | 5 records of 3 keys in one bucket; a raw table with 2 places (3 blocks) | 233,493 |
| storage | `Storage.cfg`, `MCStorage` | keys of both backends; values; journal entries; layouts | 439,013 |
| border | `Border.cfg`, `MCBorder` | a callback's blocks; a batch; ingests; three instances on a thread, two with Map fields (2 places, 3 calls) | 189,198 |

Three more runs show a disagreement between the code and its documents: engine_attach,
view_null and window_failed (section 6).

What they show. A property of a suite may join several of its components; the
names of those that are not obvious follow in parentheses.

- **ack_journal, ack_mixed.** `JournalRecovery`, `ExactlyOnce`: recovery from any
  crash ends with exactly the target's batches, each applied once.
  `CommittedPrefix`, `NeverAheadOfTarget`: the store is a prefix of the calls with
  the format stamp of its data, never ahead of the target.
  `MemoryIsStorePlusQueue`: memory is store plus queue, the queue keeps its bound,
  and only queued batches are journaled. `AckedSurvives`: an acked batch outlives a
  power loss. `OpenNeverBlocked`: changing the mode between opens leaves no store
  that each open refuses. `Drains`: the queue empties once faults stop.
- **engine.** `DerivedState`: the derived state is the fold of the accepted rows,
  and what can be undone is exactly the tail above finality (`UndoCoversTail`).
  `UndoRestores`: a failed ingest leaves no trace. `Recoverable`,
  `ReopenTransparent`: whatever is acked when the process stops, checkpoint plus raw
  rows give the accepted rows, and the hash to resume from is known
  (`FinalizedCursorKnown`). `WatermarkOrder`: D stays at or below F and L, less than
  an interval behind (`DeferralBounded`). `FinalBlocksStay`: final rows stay.
  `HeldIsCanonical`: what is held above finality is on the chain shown last, for a
  host that names each block above its finalized head. `SettingsHold`: the same under
  the other settings; `FinalHashStays`: without deferral the hash of a final block
  is not replaced (`FinalHashKept`).
- **reducers.** `UndoIsRefold`, `OutputsAreRefold`, `StoredAsOfDurable`: rollback,
  output and every store equal a fold over the rows, and a group leaves memory only
  when it is saved (`IdleGroupsAreSaved`). `ColumnsOfAcceptedBlocks`: the columns are
  those of accepted blocks, and a position kept downstream stays right
  (`KeptPositionIsRight`).
- **aggregates.** `IsBlockMap`: the enum implements a map. `MatchesRows`: values
  equal a recomputation, an aggregate has data exactly when a row reached it
  (`DataIffRows`), and the running fold is a fold from nothing (`RunningIsFresh`).
- **views.** `TargetIsRecomputed`, `RecordsSound`: the target has the rows of a
  recomputation, and each record meets the row it names. `GroupsFound`,
  `StoredAsOfDurable`: eviction, checkpoints and the stash
  (`StashIsWhatForksNeed`) lose nothing that a later call, a fork or an open needs.
- **changes.** `BatchIsNet`: a batch is the net change of its call and fits the
  target (`BatchIsNetChange`, `BatchFitsTarget`). `HostHasChain`: the host has the rows
  of the accepted blocks, and the store the tail (`TargetIsChain`, `RecordsFit`,
  `TailIsStored`). `ImplementsNetRecord`: for each row the hashed buffer implements `NetRecord`.
- **storage.** `BackendsAgree`: every read has the same answer from both backends.
  `FormatsReadBack`, `DamageRefused`: what is stored is read back, or refused;
  two groups of a reducer have different keys, with the exception of section 5.
  `LayoutsGuardData`, `AllowedChangesOpen`: no open reads data of another layout
  (`LayoutSafety`, `StampedWithData`), and no change that CN-32 allows is refused.
- **border.** `BodySees`, `ResultsLand`, `CrossingsArrive` (`BatchArrives`,
  `RowsLand`): what was sent arrives, whatever an earlier block, row or failed call left behind.
  `MapsStayApart`: a handle reaches its own group while its rows run, and maps
  return after a throw, in an ingest or in a replay. `AttachedCodeRuns`: a reducer runs
  its own code, and a callback that is attached to an instance which may ingest has
  seen every block that is not final.

**Bounds.** Five calls fill three places, overflow them, crash and continue:
the deepest scenario of the protocol (a batch, a joined heartbeat, a partial
ack, a power loss, a recovery and the next batch) takes four calls. Four blocks give
a fork block with a block below it that can be final, a tip and a gap, which is what
fork resolution and deferral (interval 2) tell apart; three are enough for a node, which
sees a fork, finality and one deferred block. One place is enough for
deferral and forks; the settings with two places are those in which a heartbeat
joins a batch and a rollback meets an unacked write set. Rollback chains end at the
highest block (`Tips`); a chain with a hole at the top names fewer hashes and
adds no conflict. One group in memory (`Cap` 1) makes each second group evict the
first. Two keys that begin with one another, the lowest and the highest byte and the
highest number are the cases that ranges of byte keys tell apart. Two blocks of a callback
and three ingests are enough for a writer to carry over what the call before left. Three
calls are enough for a callback to call into two more instances, and for a
registration that is refused with a batch unacked and made again after the ack.

**Fairness.** Only `Drains` needs any: weak fairness of the host's own
steps. A host applies what it gets, acks what it applied, drops an instance
that refuses work, and opens a closed store. Nothing of Settle is assumed fair, because a
call either returns or the process is gone. `Drains` speaks of behaviours
in which faults stop.

**Deadlock** is checked in every run: a closed store can always be opened or
lose power, an open one can always be dropped.

**Mutants.** Each property of each passing run fails for a wrong variant of a
definition that models the code. `PROJECT.json` lists them.

## 4. Proofs

`tlapm <module>.tla` for `AckQueueProofs`, `AckQueueModes`, `AckQueueTarget`,
`EngineOperations`, `EngineCalls`, `EngineProofs`, `HostCallbackProofs` and
`StructureProofs`; each of them takes up to some fifteen minutes. A module
extends the ones before it: the ack queue is proved in three, the engine in three.

**AckQueueProofs.** For every queue bound, every number of calls and
both values of `OpenSyncs`:

- `TypeCorrect`: `Spec => []TypeOK`, in both modes.
- `JournalInvariant`, `JournalAgreement`, `JournalExactlyOnce`: if each open is
  in journal mode, `JournalInv`, `JournalRecovery` and `ExactlyOnce` hold.

`JournalRecovery` speaks of any store that a crash may leave and
is not inductive: it does not say that a batch which the target will apply *next* is
journaled. `JournalInv` adds that. `TargetInv`: the target has one batch of each
sequence up to the applied one. `StoreInv(d)`, for each survivor d: it holds the
target's batches up to its last committed sequence, and its journal has part 0
of each later one the target applied. `QueueInv`: the queue has consecutive
sequences above the store's, and each survivor that lacks an entry's batch has it in
its journal (`JournaledIn`). The step that needs it most is `Apply`: the
batch becomes the target's, and every survivor must already be able to replay
it, which is the sync before `ReturnBatch` returns. A lemma states what each
write to the store keeps (`PutJournal`, `Committed`, `Reconciled`), and
one step per action combines them. `TypeOK` and `JournalInv` are no invariants of
a run: the proof covers every instance of them.

**AckQueueModes.** With no assumption on the modes of the hosts:
`StoreHoldsFirstCalls` (`CommittedPrefix`) and `QueueLeadsToMemory`
(`MemoryIsStorePlusQueue`). The inductive invariant is `SafetyInv`: each
survivor is a `Snapshot` of the store, an earlier state of it whose journal
would replay calls after its own; the queue is `Queued` behind the store, in
consecutive sequences and with later calls entry by entry; memory is
`Remembered` from both, and after a failure from calls that come after both.
"The first calls" is a statement about all pairs of calls, so each
write needs to know that what it adds comes after everything stored, and what
a heartbeat joins comes after every earlier entry.

**AckQueueTarget.** `SettleBehindTarget` (`NeverAheadOfTarget`), `AckIsDurable`
(`AckedSurvives`) and `SomeOpenSucceeds` (`OpenNeverBlocked`), if all hosts
open in one mode or the backend syncs what it finds at open (`OneModeOrSync`;
RocksDB does). Without that the first and the last are false: a direct open
serves commits that a second power loss takes back. The inductive invariant
`AgreementInv` adds to `SafetyInv` that each survivor's journal `Agrees` with the
target, or that there is no journal and hosts may open without one (`Direct`).

Assumed in the three: `MaxPending` is a positive number, `MaxCalls` a number,
`Modes` a nonempty set of Booleans, the other constants Booleans; and for
the three Journal theorems `Modes = {TRUE}`.

**EngineProofs**, with the lemmas of `EngineOperations` and `EngineCalls`. For
every chain, highest block, queue bound, checkpoint interval and retention:

- `WatermarksOrdered` (`WatermarkOrder`; with `DeferralIsBounded`),
  `DerivedStateFolded` (`DerivedState`; with `TailIsUndoable`),
  `StoresRecoverable` (`Recoverable`), `ReopenChangesNothing`
  (`ReopenTransparent`; with `CursorKnown`), `UndoIsExact` (`UndoRestores`) and
  `TailIsCanonical` (`HeldIsCanonical`): the invariants of the run engine.
- `FinalRowsStay`: its action property `FinalBlocksStay`.

None of them is inductive. `EngineInv` is: the store after any number of the waiting
acks (`Image(i)`) is sound (`StoreOK`), each keeps what is final in the one
before (`Later`), and the engine in memory mirrors the newest (`Mirrors`,
`Nodes`). `StoreOK` is what an open needs: the checkpoint is the accepted rows
up to the durable block, the raw rows above it are the accepted ones, the
finalized block has its hash, and the known hashes from finality on are of one
chain (`OneView`). Then an ack needs no argument, a crash
is the step to an image that is known to be sound, and a call has to show that
the one write set it adds leads from one sound store to another. The lemmas of
`EngineOperations` say what each operation (rollback, fold, finality,
checkpoint, purge, metadata, open, replay) does to the state, `EngineCalls`
combines them for `Ingest` and `HandleFork`. Assumed: the assumptions on the
constants that `Engine` states (`Assumptions`); for `DerivedStateFolded` and
`StoresRecoverable` that a host with an external reducer attaches its callback first
(`HostAttaches`; engine_attach shows why).

**HostCallbackProofs.** For any instances, names, groups, kept handles, places in
the ack queue and depth of calls: `AttachedIsCovered` (`AttachedCovers`), from the
invariant `CoverInv`, which adds that the callback of an ingest was covered before it.
It rests on two steps: a refused registration takes its callback with it, and a
replay that throws leaves the instance poisoned. If no two instances of a thread
have a reducer of the same name (`DistinctNames`), `HandlesStayApart` (`MapsStayApart`)
and `OwnCodeRuns` (`AttachedCodeRuns`), from `HostInv`: one callback runs at a time,
its groups have their maps in `HOST_MAPS`, each written by its own group alone, and only
the handle of the group that runs has the present epoch. With equal names an ingest
from a body can run the outer instance's code (section 6, item 8). Assumed: a block
that runs has rows of a group, and `MaxPending` is a positive number.

**StructureProofs.** For every highest block and every set of values,
`AlwaysWellFormed` (`Spec => []WellFormed`) and `BlocksImplementMap`
(`Spec => IsBlockMap`): each operation on the enum is the same operation on the map `Iter(blocks)`.
`WellFormed` is the inductive invariant; the refinement needs it because
`DropEmptyMap` and `FromMap` tell the forms apart by their domains. Assumed:
`MaxBlock` is a number. `MergeComposes`: two records of a row that follow each other
merge into one that takes the row from before the first to after the second, and
cancel exactly when it was and is absent. `BufferHoldsNetChange`: for every set of
values, the buffer's record of a row is always the net change since the last
batch. TLC shows in changes (`ImplementsNetRecord`) that the hashed buffer
behaves so for each key.

Induction over a queue or a block range goes by a least counterexample:
`NatSetInduction` takes the property as a set and rests on the library's `WFMin`.

**Only model-checked**: liveness (`Drains`, out of the prover's reach);
`FinalHashStays`, which lets a hash go and a missing one be set, so that it is not
transitive over the images as `Later` is; the reducers, views, windows and aggregates, whose
reference is a fold over rows; the hash buckets of the buffer; the raw table, the
codecs and the calls into JavaScript.

## 5. Limits of what is shown

- `ReopenTransparent` is about pipelines without external reducers: with one, the
  open waits for the callback, and `DerivedState` after the attach says what
  matters. It compares hashes from finality on: below it memory may keep the hash of
  an earlier durable block, which no call reads.
- `FinalHashKept` speaks of finality above block 0, and `DeferralBounded` of
  intervals above 1 (section 6, items 4 and 5). `FinalHashStays` is about engines
  without deferral: with it the hashes between D and F are still there, and the
  comparison starts at F, so a source that contradicts itself below its own
  finalized head replaces them.
- A damaged journal entry that ends between two operations decodes to fewer
  of them; the format cannot tell, and `EntryDamageIsSeen` says so.
- Two groups of a reducer can have one key: a single String column whose String has
  the bytes of an encoded Null key, or of another value that is no String
  (`reducer.rs:645`). DEF-25 wants two groups there, and GAP-30
  (`spec/13-conformance-tdd.md:334`) lists it as a defect. `GroupKeysApart` excepts
  exactly this case (`Spells`), and the values of the run contain it.
- A change of the virtual flag or of the runtime kind opens: neither is in the layout
  (`format.rs:195`, `format.rs:215`). CN-32 (`spec/06-consistency-durability.md:56`) says
  that the intent is to refuse both, and GAP-42 (`spec/13-conformance-tdd.md:345`) expects
  INCOMPATIBLE_STORAGE. `AllowedChangesOpen` is about the other changes of CN-32 and says
  nothing of these two (`SameKind`); the run makes both.
- The border reads a value without looking at the type of its field or column: every
  number of a callback is a Float64. The conversion that ADR-15 proposes does not exist (GAP-1),
  and `ResultsLand` and `RowsLand` are about what is read.

## 6. Where the code and its documents disagree

With a run:

1. engine_attach: a heartbeat between an open and the attach of a
   callback makes blocks final that the external reducer has not seen, when D = F
   at the open (`db.rs:1437`). They never reach the derived state
   (`spec/07-invariants.md:57`). The setting "hosted" of the run engine shows that a
   host which attaches first is safe.
2. view_null: a group that final blocks fed only NULLs, and that exists
   for an unfinal block alone, is stored with no data (`mv.rs:798`). After the rollback
   of that block its next row is an Update of a row that does not exist.
3. window_failed: a call fails after one of its own blocks left the window; the undo
   does not visit the group of that block (`mv.rs:680`), which stays in
   memory with no data and turns the next Insert into an Update.

Seen while modelling; the models follow the code:

4. A fork call on a database with hashes and no rows makes block 0 its latest
   block (`dag.rs:1090`); `spec/03-data-model.md:170` says that L is absent.
5. With F = 0, a conflict at block 0 is not refused (`db.rs:1188`);
   `spec/04-mutations.md:66` says that a conflict at or below F fails.
6. A hash above L of an earlier chain survives the call that brings its block
   from another fork without naming it (`dag.rs:1485`), and is evidence of a fork
   from then on; `spec/09-failure-model.md:46` says that the next call
   overwrites it. `HeldIsCanonical` is therefore about hosts that name each block.
7. The watermark of a sliding window starts at 0 and only rises (`mv.rs:566`), so a
   chain whose times are negative loses blocks that its window contains
   (`spec/03-data-model.md:87`). The times of the run are 0 or more.
8. An ingest made from the callback of another instance runs that instance's
   code when their reducers share a name (`external.rs:650`;
   `spec/04-mutations.md:183`). The run gives them different names.
9. The comment at `rocks.rs:704` calls a range delete order-independent within a
   write batch; a put in front of it (`rocks.rs:715`) is deleted too. `storage/mod.rs:223`
   relies on the order.

## 7. Not modelled

- The schema parser and the pipeline builder: text in, tree or text out, no state.
- Lua and JavaScript semantics: a reducer body is any choice of what it may do.
- The Lua bridge, the browser binding, the JSON and msgpack conversions: the same
  contract as the modelled paths, over formats that TLC cannot enumerate usefully.
- RocksDB itself (compaction, options), 256-bit and floating-point arithmetic,
  UTF-8 beyond one-byte characters.
- Performance counters, error types, re-exports: no later call reads them.
- The build of the node graph and its parallel branches: branches share no state.
- The replay that `register_reducer` starts: `Engine` has the one of
  `register_reducer_callback`.
- Read-only calls.
