------------------------------- MODULE Engine -------------------------------
(***************************************************************************)
(* The chain state of the engine: the latest, the finalized and the        *)
(* durable block, the block hashes, fork detection, backfill deferral,     *)
(* checkpoints, the purge of raw rows, the undo of a failed ingest, reopen *)
(* and the replay of an external reducer (src/src/engine/dag.rs, with the  *)
(* calls of src/src/db.rs that drive it).                                  *)
(*                                                                         *)
(* The rows of a block are one Row, named by the block and by the fork     *)
(* that it came from.  The derived state of all reducers and views is the  *)
(* set of the rows folded into it: `final` can no longer be undone.  A     *)
(* fold that no recomputation gives (a row twice, or below a row that was  *)
(* folded before it) sets `skewed`.                                        *)
(*                                                                         *)
(* Every call computes one write set.  The ack queue holds write sets in   *)
(* call order and an ack commits the oldest entry; module AckQueue has the *)
(* details of that protocol.  A definition named Faulty... is a wrong      *)
(* variant of the one after it, used to see that a property can fail.      *)
(***************************************************************************)
EXTENDS Integers, Sequences, FiniteSetsExt

CONSTANTS
    MaxBlock,       \* bound: block numbers are 0 .. MaxBlock
    Hash,           \* block hashes, one per fork of a block
    Views,          \* the chains that the source may show, each Block -> Hash; a
                    \* hash names a block with all its ancestors
    Chains,         \* the block sets that a rollback chain may name
    Loads,          \* the block sets that one ingest may bring rows for
    Interval,       \* config.backfill_checkpoint_interval
    DeferAllowed,   \* no sliding-window view (engine.defer_allowed)
    Retention,      \* config.raw_retention_blocks
    MaxPending,     \* config.max_pending_batches
    External,       \* the pipeline starts with an external reducer
    AttachFirst,    \* the host attaches the callback before it ingests
    CompleteChains  \* the host names each block above its finalized head

Block == 0 .. MaxBlock

\* None, below every block: `is_some_and(|d| d >= b)` reads d >= b.
NoBlock == -1

NoHash == "none"

MaxBlockAssumption == MaxBlock \in Nat
HashAssumption == NoHash \notin Hash
InputAssumption ==
    /\ Views \subseteq [Block -> Hash]
    /\ \A v, w \in Views, b \in Block : v[b] = w[b] => \A c \in 0 .. b : v[c] = w[c]
    /\ Chains \subseteq SUBSET Block
    /\ Loads \subseteq SUBSET Block
ConfigAssumption ==
    /\ Interval \in Nat /\ Retention \in Nat /\ MaxPending \in Nat \ {0}
    /\ DeferAllowed \in BOOLEAN /\ External \in BOOLEAN
    /\ AttachFirst \in BOOLEAN /\ CompleteChains \in BOOLEAN
Assumptions == MaxBlockAssumption /\ HashAssumption /\ InputAssumption /\ ConfigAssumption

VARIABLES
    disk,       \* the committed state
    pending,    \* the ack queue: the write sets that commit with one batch
    eng,        \* the engine in memory
    accepted,   \* history: the rows accepted and not rolled back
    attached,   \* the callback of the external reducer is attached
    poisoned

vars == <<disk, pending, eng, accepted, attached, poisoned>>

Row == [block : Block, tag : Hash]
OptBlock == Block \cup {NoBlock}
OptHash == Hash \cup {NoHash}

Rows(view, blocks) == {[block |-> b, tag |-> view[b]] : b \in blocks}
Upto(rows, b) == {r \in rows : r.block <= b}
Above(rows, b) == {r \in rows : r.block > b}

\* unwrap_or(0).
OrZero(b) == IF b = NoBlock THEN 0 ELSE b

-----------------------------------------------------------------------------
(* The store *)

Store == [rows : SUBSET Row, ckpt : SUBSET Row, latest : OptBlock, durable : OptBlock,
          finality : OptBlock, hashes : [Block -> OptHash], accepted : SUBSET Row]

EmptyStore ==
    [rows |-> {}, ckpt |-> {}, latest |-> NoBlock, durable |-> NoBlock, finality |-> NoBlock,
     hashes |-> [b \in Block |-> NoHash], accepted |-> {}]

\* A write set, its operations in this order: the raw rows above `after`
\* go, `rows` come, `ckpt` replaces the derived state if one is there, the
\* raw rows of `purge` go, the metadata and the changed hashes follow.
Write == [after : OptBlock, rows : SUBSET Row, ckpt : SUBSET SUBSET Row, purge : SUBSET Block,
          latest : OptBlock, durable : OptBlock, finality : OptBlock,
          hashes : UNION {[S -> OptHash] : S \in SUBSET Block}, accepted : SUBSET Row]

Written(new, old) == IF new = NoBlock THEN old ELSE new

Commit(d, w) ==
    LET kept == {r \in d.rows : /\ w.after = NoBlock \/ r.block <= w.after
                                /\ \A q \in w.rows : q.block # r.block}
    IN  [rows     |-> {r \in kept \cup w.rows : r.block \notin w.purge},
         ckpt     |-> IF w.ckpt = {} THEN d.ckpt ELSE UNION w.ckpt,
         latest   |-> Written(w.latest, d.latest),
         durable  |-> Written(w.durable, d.durable),
         finality |-> Written(w.finality, d.finality),
         hashes   |-> [b \in Block |-> IF b \in DOMAIN w.hashes THEN w.hashes[b] ELSE d.hashes[b]],
         accepted |-> w.accepted]

CommitAll(d, writes) ==
    LET after[i \in 0 .. Len(writes)] == IF i = 0 THEN d ELSE Commit(after[i - 1], writes[i])
    IN  after[Len(writes)]

ImageOf(d, batches, i) ==
    LET after[j \in 0 .. Len(batches)] ==
            IF j = 0 THEN d ELSE CommitAll(after[j - 1], batches[j])
    IN  after[i]

\* The store after the ack of the i oldest batches.
Image(i) == ImageOf(disk, pending, i)

Images == {Image(i) : i \in 0 .. Len(pending)}

-----------------------------------------------------------------------------
(* The engine *)

EngineState ==
    [latest : OptBlock, finalized : Block, durable : OptBlock, hasFinalized : BOOLEAN,
     nodesFinalAt : OptBlock, purged : OptBlock, hashes : [Block -> OptHash],
     changed : SUBSET Block, final : SUBSET Row, unfinal : SUBSET Row, skewed : BOOLEAN]

NewEngine ==
    [latest |-> NoBlock, finalized |-> 0, durable |-> NoBlock, hasFinalized |-> FALSE,
     nodesFinalAt |-> NoBlock, purged |-> NoBlock, hashes |-> [b \in Block |-> NoHash],
     changed |-> {}, final |-> {}, unfinal |-> {}, skewed |-> FALSE]

\* Fold rows into the reducers and views.
Fold(e, rows) ==
    [e EXCEPT !.skewed = @ \/ \E r \in rows, q \in e.final \cup e.unfinal : q.block >= r.block,
              !.unfinal = @ \cup rows]

\* process_batch_inner over the blocks of a call.
Process(e, rows) ==
    IF rows = {} THEN e
    ELSE LET blocks == {r.block : r \in rows}
             folded == Fold(e, rows)
         IN  [folded EXCEPT !.latest = Max({e.latest, Max(blocks)}),
                            !.durable = IF e.durable >= Min(blocks) THEN Min(blocks) - 1 ELSE @]

\* Below finality only the hashes of the durable and the latest block stay.
PruneBlockHashes(e) ==
    LET gone == {b \in Block : /\ b < e.finalized /\ e.hashes[b] # NoHash
                               /\ b \notin {e.durable, e.latest}}
    IN  [e EXCEPT !.hashes = [b \in Block |-> IF b \in gone THEN NoHash ELSE @[b]],
                  !.changed = @ \cup gone]

\* Every reducer and view merges its blocks up to b into its final state.
FinalizeNodes(e, b) == [e EXCEPT !.final = @ \cup Upto(e.unfinal, b), !.unfinal = Above(@, b)]

AdvanceFinality(e, b) ==
    IF e.hasFinalized /\ b = e.finalized /\ e.durable >= b
    THEN e
    ELSE PruneBlockHashes([FinalizeNodes(e, b) EXCEPT !.nodesFinalAt = NoBlock,
                                                      !.finalized = b, !.hasFinalized = TRUE])

\* Moves the durable block to finality, also above the data.
FaultyDurableAfter(e) == IF e.latest = NoBlock THEN e.durable ELSE e.finalized

DurableAfter(e) == IF e.latest = NoBlock THEN e.durable ELSE Min({e.finalized, e.latest})

\* Purges from the durable block on, with no regard to what a purge before
\* it has deleted.
FaultyPurgeRange(e) == IF e.durable = NoBlock THEN {} ELSE 0 .. Min({e.durable + 1, MaxBlock})

\* The blocks whose raw rows a checkpoint deletes, by purge_raw_rows.
PurgeRange(e) ==
    LET through == e.durable - Retention
        step == Max({Retention \div 10, 1})
    IN  IF \/ e.durable = NoBlock \/ through < 0
           \/ e.purged # NoBlock /\ through < e.purged + step
        THEN {} ELSE e.purged + 1 .. through

\* The purge of a checkpoint follows the new durable block.
Purged(e) == PurgeRange([e EXCEPT !.durable = DurableAfter(e)])

WriteCheckpoint(e) ==
    PruneBlockHashes([e EXCEPT !.durable = DurableAfter(e),
                               !.purged = IF Purged(e) = {} THEN @ ELSE Max(Purged(e))])

\* rollback_inner, for a target that check_rollback_target lets through.
Rollback(e, p) ==
    LET gone == {b \in Block : b > p /\ e.hashes[b] # NoHash}
    IN  IF p > OrZero(e.latest) THEN e
        ELSE [e EXCEPT !.unfinal = Upto(@, p), !.latest = p,
                       !.hashes = [b \in Block |-> IF b > p THEN NoHash ELSE @[b]],
                       !.changed = @ \cup gone]

\* Leaves the latest block where the failed ingest had moved it.
FaultyUndoIngest(e, block) ==
    IF block = NoBlock
    THEN [e EXCEPT !.final = disk.ckpt, !.unfinal = {}, !.latest = NoBlock]
    ELSE [e EXCEPT !.unfinal = Upto(@, block)]

\* undo_ingest: back to the latest block before the failed ingest.
UndoIngest(e, block) ==
    IF block = NoBlock
    THEN [e EXCEPT !.final = disk.ckpt, !.unfinal = {}, !.latest = NoBlock]
    ELSE IF block > OrZero(e.latest) THEN e
         ELSE [e EXCEPT !.unfinal = Upto(@, block), !.latest = block]

SetRollbackChain(e, view, supplied) ==
    [e EXCEPT !.changed = @ \cup {b \in supplied : e.hashes[b] # view[b]},
              !.hashes = [b \in Block |-> IF b \in supplied THEN view[b] ELSE @[b]]]

-----------------------------------------------------------------------------
(* Forks *)

\* Does not look at the latest block.
FaultyConflicts(e, view, supplied) ==
    {b \in supplied : b < e.latest /\ e.hashes[b] \notin {NoHash, view[b]}}

\* lowest_hash_conflict takes the least of these.
Conflicts(e, view, supplied) ==
    {b \in supplied : b <= e.latest /\ e.hashes[b] \notin {NoHash, view[b]}}

\* resolve_fork_cursor_bounded: the supplied blocks that match, in [F, L].
Ancestors(e, view, supplied) ==
    {b \in supplied : b <= OrZero(e.latest) /\ b >= e.finalized /\ e.hashes[b] = view[b]}

\* detect_fork: the highest ancestor below the lowest conflict, else 0.
ForkPoint(e, view, supplied) ==
    LET first == Min(Conflicts(e, view, supplied))
        below == Ancestors(e, view, {b \in supplied : b < first})
    IN  IF below = {} THEN 0 ELSE Max(below)

\* Lets a fork with no common ancestor roll back below finality.
FaultyForkRefused(e, view, supplied) ==
    /\ Conflicts(e, view, supplied) # {}
    /\ ForkPoint(e, view, supplied) \in 1 .. e.finalized - 1

ForkRefused(e, view, supplied) ==
    Conflicts(e, view, supplied) # {} /\ ForkPoint(e, view, supplied) < e.finalized

Forks(e, view, supplied) ==
    Conflicts(e, view, supplied) # {} /\ ForkPoint(e, view, supplied) < e.latest

-----------------------------------------------------------------------------
(* Open *)

\* Replays from the finality of the store.
FaultyReplayFrom(d) == d.finality + 1

ReplayFrom(d) == d.durable + 1

MissingCallback == External /\ ~attached

\* Makes the blocks final that the external reducer has still to replay.
FaultyRestoreFinality(e, b) == AdvanceFinality(e, b)

\* At open no callback is attached yet.
RestoreFinality(e, b) ==
    LET skipped == /\ e.durable # NoBlock /\ e.latest # NoBlock
                   /\ e.durable < Min({e.latest, b})
    IN  IF skipped /\ External
        THEN PruneBlockHashes([e EXCEPT !.nodesFinalAt = e.durable, !.finalized = b])
        ELSE AdvanceFinality(e, b)

\* The engine that `open` builds from a store.
Opened(d) ==
    LET restored == [NewEngine EXCEPT !.latest = d.latest, !.durable = d.durable,
                                      !.finalized = OrZero(d.durable),
                                      !.hasFinalized = d.durable # NoBlock,
                                      !.hashes = d.hashes, !.final = d.ckpt]
        tail == {r \in d.rows : r.block >= ReplayFrom(d) /\ r.block <= OrZero(d.latest)}
        replayed == IF External THEN restored ELSE Fold(restored, tail)
    IN  IF d.finality = NoBlock THEN replayed ELSE RestoreFinality(replayed, d.finality)

NodesFinalBlock(e) == IF e.nodesFinalAt = NoBlock THEN e.finalized ELSE e.nodesFinalAt

\* replay_reducer_chain: back to the final state, then the stored rows above.
ReplayChain(e, d) ==
    LET final == NodesFinalBlock(e)
    IN  IF OrZero(e.latest) <= final THEN e
        ELSE Fold([e EXCEPT !.unfinal = Upto(@, final)],
                  {r \in d.rows : r.block > final /\ r.block <= OrZero(e.latest)})

-----------------------------------------------------------------------------
(* The calls *)

Places ==
    LET sum[i \in 0 .. Len(pending)] == IF i = 0 THEN 0 ELSE sum[i - 1] + Len(pending[i])
    IN  sum[Len(pending)]

\* append_meta_to_batch: the metadata after the operations of the call.
WithMeta(ops, e, rows) ==
    [after    |-> ops.after, rows |-> ops.rows, ckpt |-> ops.ckpt, purge |-> ops.purge,
     latest   |-> e.latest, durable |-> e.durable,
     finality |-> IF e.hasFinalized THEN e.finalized ELSE NoBlock,
     hashes   |-> [b \in e.changed |-> e.hashes[b]],
     accepted |-> rows]

\* The write set waits with the batch of the call, or commits at once, or
\* joins the newest batch that waits.
Deliver(e, ops, rows, returned) ==
    \E w \in {WithMeta(ops, e, rows)} :
        /\ eng' = [e EXCEPT !.changed = {}]
        /\ accepted' = rows
        /\ IF returned
           THEN pending' = Append(pending, <<w>>) /\ UNCHANGED disk
           ELSE IF pending = <<>>
                THEN disk' = Commit(disk, w) /\ UNCHANGED pending
                ELSE /\ pending' = [pending EXCEPT ![Len(pending)] = Append(@, w)]
                     /\ UNCHANGED disk

\* Deferral needs a call without lag, a checkpoint to replay from and fewer
\* new final blocks than the interval.
CheckpointDue(e, head) ==
    ~ /\ Interval > 1 /\ DeferAllowed /\ head >= OrZero(e.latest)
      /\ e.durable # NoBlock
      /\ Min({head, OrZero(e.latest)}) - e.durable < Interval

\* The gates of a call that changes state.
Ready == ~poisoned /\ Places < MaxPending

\* guard_callbacks_replayed.
CallbacksReplayed == eng.nodesFinalAt # NoBlock => ~MissingCallback

\* The checks of ingest_data before it changes anything.
Admitted(view, supplied, head) ==
    /\ Ready
    /\ CallbacksReplayed
    /\ head >= eng.finalized
    /\ ~ForkRefused(eng, view, supplied)

\* What a careful host does before it ingests.
HostDiscipline(supplied, head) ==
    /\ AttachFirst => ~MissingCallback
    /\ CompleteChains => head .. MaxBlock \subseteq supplied

\* Takes a block that is the latest one already.
FaultyNewBlocks(blocks, recovery) == \A b \in blocks : b >= recovery

\* group_input_rows refuses a block at or below the latest one.
NewBlocks(blocks, recovery) == \A b \in blocks : b > recovery

Recovery(view, supplied) ==
    IF Forks(eng, view, supplied) THEN ForkPoint(eng, view, supplied) ELSE eng.latest

\* ingest_data past its checks, with the rows of `blocks`.  (TLC computes a
\* value bound by \E once.)
Accept(view, supplied, head, blocks, returned) ==
    LET forks == Forks(eng, view, supplied)
        recovery == Recovery(view, supplied)
        rows == Rows(view, blocks)
        kept == IF forks THEN Upto(accepted, recovery) ELSE accepted
    IN  /\ MissingCallback => blocks = {}
        /\ returned => rows # {} \/ kept # accepted
        /\ \E rolled \in {IF forks THEN Rollback(eng, recovery) ELSE eng} :
           \E processed \in {Process(rolled, rows)} :
           \E chained \in {SetRollbackChain(processed, view, supplied)} :
           \E final \in {AdvanceFinality(chained, head)} :
           \E checkpoint \in {CheckpointDue(processed, head) /\ final.durable < final.finalized} :
           \E done \in {IF checkpoint THEN WriteCheckpoint(final) ELSE final} :
                Deliver(done, [after |-> IF forks THEN recovery ELSE NoBlock, rows |-> rows,
                               ckpt  |-> IF checkpoint THEN {final.final} ELSE {},
                               purge |-> IF checkpoint THEN Purged(final) ELSE {}],
                        kept \cup rows, returned)
        /\ UNCHANGED <<attached, poisoned>>

\* A reducer fails at the last block of `rows`, which stays in part folded,
\* or there is no callback.
Failed(e, rows, recovery) ==
    LET last == Max({r.block : r \in rows})
    IN  UndoIngest(Fold(Process(e, Upto(rows, last - 1)), Above(rows, last - 1)), recovery)

\* Nothing reads the memory of a poisoned instance again.
Poison == poisoned' = TRUE /\ eng' = NewEngine /\ accepted' = {}

\* After a fork rollback a failure poisons, else the ingest is undone.
Reject(view, supplied, blocks) ==
    /\ blocks # {}
    /\ IF Forks(eng, view, supplied)
       THEN Poison
       ELSE /\ eng' = Failed(eng, Rows(view, blocks), Recovery(view, supplied))
            /\ UNCHANGED <<accepted, poisoned>>
    /\ UNCHANGED <<disk, pending, attached>>

Ingest(view, chain, head) ==
    LET supplied == chain \cup {head}
    IN  /\ HostDiscipline(supplied, head)
        /\ Admitted(view, supplied, head)
        /\ \E blocks \in {l \in Loads : NewBlocks(l, Recovery(view, supplied))} :
                \/ \E returned \in BOOLEAN : Accept(view, supplied, head, blocks, returned)
                \/ Reject(view, supplied, blocks)

HandleFork(view, chain, returned) ==
    LET ancestors == Ancestors(eng, view, chain)
        p == Max(ancestors)
        kept == Upto(accepted, p)
    IN  /\ Ready
        /\ ancestors # {}
        /\ returned => kept # accepted
        /\ \E rolled \in {Rollback(eng, p)} :
                Deliver(SetRollbackChain(rolled, view, chain),
                        [after |-> p, rows |-> {}, ckpt |-> {}, purge |-> {}], kept, returned)
        /\ UNCHANGED <<attached, poisoned>>

Ack ==
    /\ pending # <<>>
    /\ disk' = CommitAll(disk, Head(pending))
    /\ pending' = Tail(pending)
    /\ UNCHANGED <<eng, accepted, attached, poisoned>>

\* A crash or a drop, and the open after it.
Reopen ==
    /\ eng' = Opened(disk)
    /\ pending' = <<>>
    /\ accepted' = disk.accepted
    /\ attached' = FALSE
    /\ poisoned' = FALSE
    /\ UNCHANGED disk

\* register_reducer_callback; a replay that fails poisons the instance.
RegisterCallback ==
    /\ External /\ ~attached /\ ~poisoned
    /\ pending = <<>>
    /\ attached' = TRUE
    /\ \/ eng' = ReplayChain(eng, disk) /\ UNCHANGED <<accepted, poisoned>>
       \/ Poison
    /\ UNCHANGED <<disk, pending>>

Init ==
    /\ disk = EmptyStore
    /\ pending = <<>>
    /\ eng = NewEngine
    /\ accepted = {}
    /\ attached = FALSE
    /\ poisoned = FALSE

Next ==
    \/ \E view \in Views, chain \in Chains, head \in Block : Ingest(view, chain, head)
    \/ \E view \in Views, chain \in Chains, returned \in BOOLEAN :
            HandleFork(view, chain, returned)
    \/ Ack
    \/ Reopen
    \/ RegisterCallback

Spec == Init /\ [][Next]_vars

-----------------------------------------------------------------------------
(* Properties *)

\* The values of the variables.
TypeOK ==
    /\ disk \in Store
    /\ \A i \in 1 .. Len(pending) : \A j \in 1 .. Len(pending[i]) : pending[i][j] \in Write
    /\ eng \in EngineState
    /\ accepted \in SUBSET Row
    /\ attached \in BOOLEAN
    /\ poisoned \in BOOLEAN

\* The durable block is at or below both finality and the latest block, in
\* memory and in every store that a crash may leave.
DurableNeverAhead ==
    /\ eng.durable <= eng.finalized /\ eng.durable <= eng.latest
    /\ \A d \in Images : d.durable <= d.finality /\ d.durable <= d.latest

\* A deferral leaves fewer final blocks without a checkpoint than the interval.
DeferralBounded ==
    Interval > 1 /\ ~poisoned /\ eng.latest # NoBlock =>
        Min({eng.finalized, eng.latest}) - eng.durable < Interval

\* The durable block never passes finality or the data: an open that starts its
\* replay above the data would skip blocks.  Nor does it fall behind by an
\* interval, which bounds the replay of an open.
WatermarkOrder == DurableNeverAhead /\ DeferralBounded

\* While every callback is there, the derived state is the fold of each
\* accepted row, once and in block order.
FoldIsAccepted ==
    ~poisoned /\ ~MissingCallback =>
        /\ eng.final \cup eng.unfinal = accepted
        /\ ~eng.skewed

\* What can still be undone are exactly the blocks above finality, so a
\* rollback to any block that fork resolution may choose undoes them all.
UndoCoversTail ==
    ~poisoned =>
        /\ \A r \in eng.final : r.block <= NodesFinalBlock(eng)
        /\ \A r \in eng.unfinal : r.block > NodesFinalBlock(eng)

\* The derived state is the fold of the accepted rows, and what of it can still
\* be undone are exactly the blocks above finality: under deferral, after forks,
\* failed calls and opens, and after the attach of a callback.
DerivedState == FoldIsAccepted /\ UndoCoversTail

\* Whatever a crash leaves, the checkpoint holds the accepted rows up to the
\* durable block and the raw rows above it are there for the replay: no
\* purge, rollback or deferral loses or revives one.
Recoverable ==
    \A d \in Images :
        /\ d.ckpt = Upto(d.accepted, d.durable)
        /\ Above(d.rows, d.durable) = Above(d.accepted, d.durable)

\* Dropping the instance once every batch is acked and opening it again
\* changes nothing that a later call can see: the watermarks, the hashes
\* from finality on and the derived state are as they were.
ReopenShowsNothing ==
    LET now == Opened(Image(Len(pending)))
    IN  ~poisoned /\ ~External =>
            /\ now.latest = eng.latest /\ now.durable = eng.durable
            /\ now.finalized = eng.finalized
            /\ now.final = eng.final /\ now.unfinal = eng.unfinal
            /\ \A b \in Block : b >= eng.finalized => now.hashes[b] = eng.hashes[b]

\* The hash of the finalized block is known from the first ingest on, in memory
\* and in every store that a crash may leave.
FinalizedCursorKnown ==
    /\ eng.hasFinalized => eng.hashes[eng.finalized] # NoHash
    /\ \A d \in Images : d.finality # NoBlock => d.hashes[d.finality] # NoHash

\* A host cannot tell a reopened instance from the one before, and the cursor from
\* which it resumes is there after any crash.
ReopenTransparent == ReopenShowsNothing /\ FinalizedCursorKnown

\* Final rows stay in the store, and its finality does not go back.
FinalBlocksKept ==
    /\ disk'.finality >= disk.finality
    /\ LET m == Min({disk.finality, disk.latest})
       IN  Upto(disk'.accepted, m) = Upto(disk.accepted, m)

\* Final rows stay, whatever forks, crashes and opens follow, and the stored
\* finality never goes back.
FinalBlocksStay == [][FinalBlocksKept]_disk

\* An ingest that fails and does not poison leaves the engine as it was,
\* whatever rows it had processed.
UndoRestores ==
    ~poisoned =>
        \A view \in Views, blocks \in Loads \ {{}} :
            NewBlocks(blocks, eng.latest) => Failed(eng, Rows(view, blocks), eng.latest) = eng

\* For a host that names each block above its finalized head: what is held
\* above finality is on the chain that the source showed last, so no
\* sequence of forks, undone calls and reopens leaves a row of another fork.
HeldIsCanonical ==
    CompleteChains /\ ~poisoned =>
        \A r \in Above(accepted, eng.finalized) : eng.hashes[r.block] = r.tag

\* The stored hash of a final block is never replaced by another one, so a
\* conflict at or below finality never gets through (above block 0).
FinalHashKept ==
    \A b \in Block : 0 < disk.finality /\ b <= Min({disk.finality, disk.latest}) =>
        disk.hashes[b] = NoHash \/ disk'.hashes[b] \in {NoHash, disk.hashes[b]}
=============================================================================
