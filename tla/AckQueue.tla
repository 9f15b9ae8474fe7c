------------------------------ MODULE AckQueue ------------------------------
(***************************************************************************)
(* The ack queue, the journal and the durability protocol of `Settle`      *)
(* (src/src/db.rs): what a call leaves in memory, in the store and in the  *)
(* target, across failed commits, failed syncs, process crashes, power     *)
(* losses and reopens.                                                     *)
(*                                                                         *)
(* A call that changes state (`ingest`, `handle_fork`) is a record: its    *)
(* place in the order of calls, the sequence of the batch it returns (0    *)
(* for a heartbeat call, which returns none) and whether its write set     *)
(* carries the format stamp.  The order of the calls is the order of their *)
(* ids, so the set of the calls that a state holds stands for the state.   *)
(*                                                                         *)
(* A definition named Faulty... is a wrong variant of the one after it,    *)
(* used to see that a property can fail.                                   *)
(***************************************************************************)
EXTENDS Naturals, Sequences

CONSTANTS
    MaxPending,     \* config.max_pending_batches
    Modes,          \* how hosts open: TRUE with an applied sequence (journal mode)
    OpenSyncs,      \* the backend syncs the commits it finds when it opens
    MaxCalls        \* bound: calls that change state

ASSUME MaxPendingAssumption == MaxPending \in Nat \ {0}
ASSUME ModesAssumption == Modes \in SUBSET BOOLEAN /\ Modes # {}
ASSUME OpenSyncsAssumption == OpenSyncs \in BOOLEAN
ASSUME MaxCallsAssumption == MaxCalls \in Nat

VARIABLES
    disk,           \* the store as the process reads it
    survivors,      \* the stores that a power loss may leave; `disk` is one
    mem,            \* the calls that the state in memory holds
    nextSequence,   \* buffer.next_sequence
    pending,        \* self.pending, oldest first
    stamp,          \* self.stamp is not empty
    health,         \* "closed", or the gates `poisoned` and `sync_failed`
    journal,        \* self.journal
    target,         \* the batches the target applied, and the newest of them
    acked,          \* the batches whose ack returned Ok to the host
    issued          \* the calls so far

storeVars == <<disk, survivors>>
instanceVars == <<mem, nextSequence, pending, stamp, health, journal>>
hostVars == <<target, acked, issued>>
vars == <<storeVars, instanceVars, hostVars>>

-----------------------------------------------------------------------------
(* The store *)

Call == [id : Nat, seq : Nat, stamped : BOOLEAN]

\* One stored part of a journaled batch.
JournalPart == [sequence : Nat, part : Nat, call : Call]

Store == [calls : SUBSET Call, next : Nat \ {0}, journal : SUBSET JournalPart]

EmptyStore == [calls |-> {}, next |-> 1, journal |-> {}]

Batches(calls) == {c \in calls : c.seq # 0}

\* The newest batch whose writes the store holds.
LastCommitted(d) == d.next - 1

\* A store holds the format version exactly when a stamped call is in it.
HasVersion(d) == \E c \in d.calls : c.stamped

\* format::check: only a store without data may lack the version.
FormatCheck(d) == d.calls # {} => HasVersion(d)

\* put_journal: the part replaces a stored one of the same key.
PutJournal(d, sequence, part, call) ==
    [d EXCEPT !.journal =
        {p \in @ : ~(p.sequence = sequence /\ p.part = part)}
            \cup {[sequence |-> sequence, part |-> part, call |-> call]}]

-----------------------------------------------------------------------------
(* The ack queue *)

PendingAck == [batch : Call, beats : SUBSET Call, joined : Nat]

Sequence(entry) == entry.batch.seq

\* The places that a queue takes: one for a batch, one for each heartbeat
\* behind it.
Places(queue) ==
    LET places[i \in 0 .. Len(queue)] ==
            IF i = 0 THEN 0 ELSE places[i - 1] + 1 + queue[i].joined
    IN  places[Len(queue)]

UnackedBatches == Places(pending)

GuardPendingRoom == UnackedBatches < MaxPending

\* Commits the whole queue, whatever sequence is acked.
FaultyCommittedAll(k) ==
    [disk EXCEPT !.calls = @ \cup UNION {{pending[i].batch} \cup pending[i].beats :
                                            i \in 1 .. Len(pending)}]

\* The store after the commits of the k oldest entries.  A write set ends
\* with the deletes of its own journal parts.
Committed(k) ==
    [calls   |-> disk.calls \cup UNION {{pending[i].batch} \cup pending[i].beats : i \in 1 .. k},
     next    |-> IF k = 0 THEN disk.next ELSE Sequence(pending[k]) + 1,
     journal |-> {p \in disk.journal :
                    \A i \in 1 .. k : ~ /\ journal
                                        /\ p.sequence = Sequence(pending[i])
                                        /\ p.part <= pending[i].joined}]

-----------------------------------------------------------------------------
(* Journal recovery at open *)

\* Refuses a target that applied no more than the acked batches.
FaultyAccepts(d, applied) ==
    /\ applied > LastCommitted(d)
    /\ \A s \in LastCommitted(d) + 1 .. applied :
            \E p \in d.journal : p.sequence = s /\ p.part = 0

Accepts(d, applied) ==
    /\ applied >= LastCommitted(d)
    /\ \A s \in LastCommitted(d) + 1 .. applied :
            \E p \in d.journal : p.sequence = s /\ p.part = 0

\* Leaves out the newest batch that the target applied.
FaultyReplayed(d, applied) ==
    {p \in d.journal : p.sequence > LastCommitted(d) /\ p.sequence < applied}

Replayed(d, applied) ==
    {p \in d.journal : p.sequence > LastCommitted(d) /\ p.sequence <= applied}

\* Keeps the next sequence from before the recovery.
FaultyReconciled(d, applied) ==
    [calls   |-> d.calls \cup {p.call : p \in Replayed(d, applied)},
     next    |-> d.next,
     journal |-> {}]

\* Every part of batch s stores next_sequence s + 1.
Reconciled(d, applied) ==
    [calls   |-> d.calls \cup {p.call : p \in Replayed(d, applied)},
     next    |-> IF Replayed(d, applied) = {} THEN d.next ELSE applied + 1,
     journal |-> {}]

\* recover_journal without an applied sequence refuses a journal.
Recovers(mode, d) == IF mode THEN Accepts(d, target.applied) ELSE d.journal = {}

Recovered(mode, d) == IF mode THEN Reconciled(d, target.applied) ELSE d

-----------------------------------------------------------------------------
(* Calls that change state *)

Init ==
    /\ disk = EmptyStore
    /\ survivors = {EmptyStore}
    /\ mem = {}
    /\ nextSequence = 1
    /\ pending = <<>>
    /\ stamp = FALSE
    /\ health = "closed"
    /\ journal = FALSE
    /\ target = [calls |-> {}, applied |-> 0]
    /\ acked = {}
    /\ issued = 0

NewCall(seq) == [id |-> issued, seq |-> seq, stamped |-> stamp]

\* The gates of `ingest` and `handle_fork`, and the effect of the call on
\* memory.  From here on the engine state is ahead of the store.
Start(call) ==
    /\ health = "healthy"
    /\ GuardPendingRoom
    /\ issued < MaxCalls
    /\ issued' = issued + 1
    /\ mem' = mem \cup {call}
    /\ UNCHANGED <<journal, target, acked>>

\* flush returned a batch: push_pending.
ReturnBatch ==
    LET call == NewCall(nextSequence)
        written == PutJournal(disk, nextSequence, 0, call)
    IN  /\ Start(call)
        /\ nextSequence' = nextSequence + 1
        /\ pending' = Append(pending, [batch |-> call, beats |-> {}, joined |-> 0])
        /\ IF journal
           THEN disk' = written /\ survivors' = {written}
           ELSE UNCHANGED storeVars
        /\ UNCHANGED <<stamp, health>>

\* The journal write of push_pending fails: the caller gets no batch.
ReturnBatchFails ==
    LET call == NewCall(nextSequence)
        written == PutJournal(disk, nextSequence, 0, call)
    IN  /\ journal
        /\ Start(call)
        /\ nextSequence' = nextSequence + 1
        /\ \/ /\ health' = "poisoned"
              /\ UNCHANGED storeVars
           \/ /\ health' = "sync_failed"
              /\ disk' = written
              /\ survivors' = survivors \cup {written}
        /\ UNCHANGED <<pending, stamp>>

\* Commits at once, ahead of the unacked batches.
FaultyJoinHeartbeat ==
    LET written == [disk EXCEPT !.calls = @ \cup {NewCall(0)}]
    IN  /\ pending # <<>>
        /\ Start(NewCall(0))
        /\ disk' = written
        /\ survivors' = survivors \cup {written}
        /\ UNCHANGED <<nextSequence, pending, stamp, health>>

\* commit_without_batch behind unacked batches: the writes join the newest.
JoinHeartbeat ==
    LET call == NewCall(0)
        newest == Len(pending)
        part == pending[newest].joined + 1
        written == PutJournal(disk, Sequence(pending[newest]), part, call)
    IN  /\ pending # <<>>
        /\ Start(call)
        /\ IF journal
           THEN disk' = written /\ survivors' = survivors \cup {written}
           ELSE UNCHANGED storeVars
        /\ pending' = [pending EXCEPT ![newest] =
                [batch |-> @.batch, beats |-> @.beats \cup {call}, joined |-> part]]
        /\ UNCHANGED <<nextSequence, stamp, health>>

\* commit_without_batch with an empty queue: the commit is immediate and no
\* sync follows it.
CommitHeartbeat ==
    LET call == NewCall(0)
        written == [calls   |-> disk.calls \cup {call},
                    next    |-> nextSequence,
                    journal |-> disk.journal]
    IN  /\ pending = <<>>
        /\ Start(call)
        /\ disk' = written
        /\ survivors' = survivors \cup {written}
        /\ stamp' = FALSE
        /\ UNCHANGED <<nextSequence, pending, health>>

\* The journal write or the immediate commit of a heartbeat call fails.
HeartbeatFails ==
    /\ pending = <<>> \/ journal
    /\ Start(NewCall(0))
    /\ health' = "poisoned"
    /\ UNCHANGED <<storeVars, nextSequence, pending, stamp>>

\* A rollback that fails part way, a stage that fails after a rollback of
\* the same call, an undo that fails, or the replay of an attach that fails.
EnginePoison ==
    /\ health = "healthy"
    /\ health' = "poisoned"
    /\ UNCHANGED <<storeVars, mem, nextSequence, pending, stamp, journal, hostVars>>

-----------------------------------------------------------------------------
(* The target and the ack *)

\* The target applies the oldest returned batch that it lacks, and its
\* sequence with it.
Apply ==
    \E i \in 1 .. Len(pending) :
        /\ pending[i].batch \notin target.calls
        /\ \A j \in 1 .. i - 1 : pending[j].batch \in target.calls
        /\ target' = [calls   |-> target.calls \cup {pending[i].batch},
                      applied |-> Sequence(pending[i])]
        /\ UNCHANGED <<storeVars, instanceVars, acked, issued>>

\* Pops an entry before its commit.
FaultyAckPops(n, k) ==
    /\ health \in {"healthy", "poisoned"}
    /\ \A i \in 1 .. n : pending[i].batch \in target.calls
    /\ disk' = Committed(k)
    /\ pending' = SubSeq(pending, IF k < n THEN k + 2 ELSE k + 1, Len(pending))
    /\ stamp' = (stamp /\ k = 0)
    /\ UNCHANGED <<mem, nextSequence, journal, target, issued>>

\* ack of the n oldest batches, which the target applied: k commits succeed,
\* and with k < n the next one fails.
AckCommits(n, k) ==
    /\ health \in {"healthy", "poisoned"}
    /\ \A i \in 1 .. n : pending[i].batch \in target.calls
    /\ disk' = Committed(k)
    /\ pending' = SubSeq(pending, k + 1, Len(pending))
    /\ stamp' = (stamp /\ k = 0)
    /\ UNCHANGED <<mem, nextSequence, journal, target, issued>>

\* Returns Ok without a sync.
FaultyAck(n, k) ==
    /\ AckCommits(n, k)
    /\ survivors' = survivors \cup {Committed(i) : i \in 1 .. k}
    /\ acked' = IF k = n THEN acked \cup {pending[i].batch : i \in 1 .. n} ELSE acked
    /\ UNCHANGED health

Ack(n, k) ==
    /\ AckCommits(n, k)
    /\ survivors' = IF k > 0 /\ ~journal
                    THEN {Committed(k)}
                    ELSE survivors \cup {Committed(i) : i \in 1 .. k}
    /\ acked' = IF k = n THEN acked \cup {pending[i].batch : i \in 1 .. n} ELSE acked
    /\ UNCHANGED health

AckSyncFails(n, k) ==
    /\ k > 0 /\ ~journal
    /\ AckCommits(n, k)
    /\ survivors' = survivors \cup {Committed(i) : i \in 1 .. k}
    /\ health' = "sync_failed"
    /\ UNCHANGED acked

-----------------------------------------------------------------------------
(* Crashes and opens *)

Close ==
    /\ mem' = {}
    /\ pending' = <<>>
    /\ nextSequence' = 1
    /\ stamp' = FALSE
    /\ journal' = FALSE
    /\ health' = "closed"
    /\ UNCHANGED hostVars

\* The process stops, or the host drops the instance.
Crash ==
    /\ health # "closed"
    /\ Close
    /\ UNCHANGED storeVars

\* A power loss removes a suffix of the commits after the last sync.
PowerLoss ==
    /\ \E d \in survivors : disk' = d /\ survivors' = {d}
    /\ Close

\* Serves commits that it read back and did not sync.
FaultyBackendOpened == survivors

\* The backend opens the store before `open` reads it.
BackendOpened == IF OpenSyncs THEN {disk} ELSE survivors

\* Restores the newest committed sequence as the next one.
FaultyOpen(mode) ==
    LET d == Recovered(mode, disk)
    IN  /\ health = "closed"
        /\ FormatCheck(disk)
        /\ Recovers(mode, disk)
        /\ FormatCheck(d)
        /\ disk' = d
        /\ survivors' = IF disk.journal = {} THEN BackendOpened ELSE {d}
        /\ mem' = d.calls
        /\ nextSequence' = LastCommitted(d)
        /\ pending' = <<>>
        /\ stamp' = ~HasVersion(d)
        /\ health' = "healthy"
        /\ journal' = mode
        /\ UNCHANGED hostVars

\* open: the format check runs before and after the recovery, whose commit
\* and sync happen only if the journal holds a part.
Open(mode) ==
    LET d == Recovered(mode, disk)
    IN  /\ health = "closed"
        /\ FormatCheck(disk)
        /\ Recovers(mode, disk)
        /\ FormatCheck(d)
        /\ disk' = d
        /\ survivors' = IF disk.journal = {} THEN BackendOpened ELSE {d}
        /\ mem' = d.calls
        /\ nextSequence' = d.next
        /\ pending' = <<>>
        /\ stamp' = ~HasVersion(d)
        /\ health' = "healthy"
        /\ journal' = mode
        /\ UNCHANGED hostVars

\* The sync of the recovery commit fails, so open fails with the commit done.
OpenSyncFails(mode) ==
    /\ health = "closed"
    /\ FormatCheck(disk)
    /\ Recovers(mode, disk)
    /\ disk.journal # {}
    /\ disk' = Recovered(mode, disk)
    /\ survivors' = BackendOpened \cup {disk'}
    /\ UNCHANGED <<instanceVars, hostVars>>

-----------------------------------------------------------------------------
Next ==
    \/ ReturnBatch
    \/ ReturnBatchFails
    \/ JoinHeartbeat
    \/ CommitHeartbeat
    \/ HeartbeatFails
    \/ EnginePoison
    \/ Apply
    \/ \E n \in 1 .. Len(pending) : \E k \in 0 .. n : Ack(n, k) \/ AckSyncFails(n, k)
    \/ Crash
    \/ PowerLoss
    \/ \E mode \in Modes : Open(mode) \/ OpenSyncFails(mode)

Spec == Init /\ [][Next]_vars

\* What the environment or a storage failure does to the instance.
Fault ==
    \/ ReturnBatchFails
    \/ HeartbeatFails
    \/ EnginePoison
    \/ \E n \in 1 .. Len(pending) :
            \/ \E k \in 0 .. n - 1 : Ack(n, k)
            \/ \E k \in 1 .. n : AckSyncFails(n, k)
    \/ health = "healthy" /\ Crash
    \/ PowerLoss
    \/ \E mode \in Modes : OpenSyncFails(mode)

\* The host applies what it gets, acks what the target applied, drops an
\* instance that refuses work and opens a closed store.
HostFairness ==
    /\ WF_vars(Apply)
    /\ WF_vars(\E n \in 1 .. Len(pending) : Ack(n, n))
    /\ WF_vars(health # "healthy" /\ Crash)
    /\ WF_vars(\E mode \in Modes : Open(mode))

FairSpec == Spec /\ HostFairness

-----------------------------------------------------------------------------
(* Properties *)

\* The values of the variables.
TypeOK ==
    /\ disk \in Store
    /\ survivors \in SUBSET Store
    /\ disk \in survivors
    /\ mem \in SUBSET Call
    /\ nextSequence \in Nat \ {0}
    /\ pending \in Seq(PendingAck)
    /\ stamp \in BOOLEAN
    /\ health \in {"closed", "healthy", "poisoned", "sync_failed"}
    /\ journal \in BOOLEAN
    /\ target \in [calls : SUBSET Call, applied : Nat]
    /\ acked \in SUBSET Call
    /\ issued \in Nat

IsPrefixOf(calls, later) ==
    /\ calls \subseteq later
    /\ \A c \in calls, e \in later : e.id < c.id => e \in calls

\* What a crash or a power loss leaves in the store is the effect of the
\* first calls in the order they were made: a heartbeat never commits before
\* a batch that was returned before it, and no commit overtakes another.  With
\* the first of them came the format version, also through the journal.
CommittedPrefix ==
    \A d \in survivors :
        /\ IsPrefixOf(d.calls, IF health = "closed" THEN disk.calls ELSE mem)
        /\ FormatCheck(d)
        /\ Accepts(d, target.applied) => FormatCheck(Reconciled(d, target.applied))

\* While the instance takes work, memory is the store plus the queue, and the
\* queue holds consecutive sequences from the store's next one to
\* `next_sequence`: the acks in order lead the store to the state in memory.
\* Batches and joined heartbeats never take more than `max_pending_batches` places,
\* and the journal holds parts of them only.
MemoryIsStorePlusQueue ==
    /\ UnackedBatches <= MaxPending
    /\ \A i \in 1 .. Len(pending) : Sequence(pending[i]) = LastCommitted(disk) + i
    /\ health = "healthy" =>
        /\ nextSequence = disk.next + Len(pending)
        /\ mem = disk.calls \cup UNION {{pending[i].batch} \cup pending[i].beats :
                                            i \in 1 .. Len(pending)}
        /\ \A p \in disk.journal :
            \E i \in 1 .. Len(pending) :
                p.sequence = Sequence(pending[i]) /\ p.part <= pending[i].joined

\* Settle never gets ahead of the target: whatever a crash leaves in the
\* store, the target applied each batch in it.
NeverAheadOfTarget == \A d \in survivors : Batches(d.calls) \subseteq target.calls

\* A batch whose ack returned Ok outlives a power loss: its writes are in
\* the store, or in a journal part that the recovery of the open replays.
AckedSurvives ==
    \A d \in survivors :
        acked \subseteq d.calls \cup {p.call : p \in Replayed(d, target.applied)}

\* With the journal, whatever a crash leaves in the store, at any moment, the
\* open with the target's applied sequence is accepted, and it brings Settle
\* to exactly the batches that the target applied.
JournalRecovery ==
    \A d \in survivors :
        /\ Accepts(d, target.applied)
        /\ Batches(Reconciled(d, target.applied).calls) = target.calls

\* With the journal, the target gets each sequence once and in order: after a
\* crash no batch is returned again that it applied, and none is skipped.
ExactlyOnce == [][target' # target => target'.applied = target.applied + 1]_target

\* Once faults stop, the host that applies, acks and reopens ends with an
\* instance that takes work, an empty queue and every effect in the store.
Drains ==
    <>[][~Fault]_vars =>
        <>[](health = "healthy" /\ pending = <<>> /\ disk.calls = mem)

\* A drop and an open give an instance again: no crash leaves a store that
\* refuses both kinds of open.
OpenNeverBlocked == health = "closed" => \E mode \in Modes : Recovers(mode, disk)

-----------------------------------------------------------------------------
(* The inductive invariant of journal mode *)

\* The target applied one batch of each sequence up to the applied one.
TargetInv ==
    /\ \A t \in target.calls : 1 <= t.seq /\ t.seq <= target.applied
    /\ \A s \in 1 .. target.applied : \E t \in target.calls : t.seq = s
    /\ \A t, u \in target.calls : t.seq = u.seq => t = u

\* The store holds the first batches of the target, and the journal holds
\* the rest of them.
StoreInv(d) ==
    /\ LastCommitted(d) <= target.applied
    /\ Batches(d.calls) = {t \in target.calls : t.seq <= LastCommitted(d)}
    /\ \A s \in LastCommitted(d) + 1 .. target.applied :
            \E p \in d.journal : p.sequence = s /\ p.part = 0
    /\ \A p \in d.journal :
            /\ p.call.seq = IF p.part = 0 THEN p.sequence ELSE 0
            /\ p.part = 0 /\ p \in Replayed(d, target.applied) => p.call \in target.calls

\* Each store that does not hold the entry's batch has it in the journal.
JournaledIn(entry, d) ==
    Sequence(entry) > LastCommitted(d) =>
        /\ \E p \in d.journal : p.sequence = Sequence(entry) /\ p.part = 0
        /\ \A p \in d.journal :
                p.sequence = Sequence(entry) /\ p.part = 0 => p.call = entry.batch

QueueInv ==
    /\ \A i \in 1 .. Len(pending) :
            /\ Sequence(pending[i]) = LastCommitted(disk) + i
            /\ Sequence(pending[i]) <= target.applied => pending[i].batch \in target.calls
            /\ Batches(pending[i].beats) = {}
            /\ \A d \in survivors : JournaledIn(pending[i], d)
    /\ health = "closed" => pending = <<>>
    /\ health # "closed" => journal /\ target.applied <= LastCommitted(disk) + Len(pending)
    /\ health = "healthy" => nextSequence = disk.next + Len(pending)

\* In journal mode each store that a crash may leave holds a prefix of the
\* target's batches and journals the rest, and it journals the returned
\* batches that the target may still apply.  Every step keeps this.
JournalInv ==
    /\ TypeOK
    /\ TargetInv
    /\ \A d \in survivors : StoreInv(d)
    /\ QueueInv
=============================================================================
