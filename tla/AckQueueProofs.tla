--------------------------- MODULE AckQueueProofs ---------------------------
(***************************************************************************)
(* What the ack queue and the journal guarantee for every queue size,      *)
(* every number of calls and every order of faults.                        *)
(***************************************************************************)
EXTENDS AckQueue, SequenceTheorems, TLAPS

-----------------------------------------------------------------------------
(* The operators of the store return stores *)

\* A journal write of a call leaves a store.
LEMMA PutJournalType ==
    ASSUME NEW d \in Store, NEW s \in Nat, NEW n \in Nat, NEW c \in Call
    PROVE  PutJournal(d, s, n, c) \in Store
  <1>1. [sequence |-> s, part |-> n, call |-> c] \in JournalPart
    BY DEF JournalPart
  <1>. QED
    BY <1>1 DEF PutJournal, Store

\* The parts of a queue entry.
LEMMA EntryType ==
    ASSUME TypeOK, NEW i \in 1 .. Len(pending)
    PROVE  /\ pending[i] \in PendingAck
           /\ pending[i].batch \in Call
           /\ pending[i].beats \subseteq Call
           /\ pending[i].joined \in Nat
           /\ Sequence(pending[i]) \in Nat
  <1>1. pending[i] \in PendingAck
    BY ElementOfSeq DEF TypeOK
  <1>. QED
    BY <1>1 DEF PendingAck, Call, Sequence

\* The commit of queue entries leaves a store.
LEMMA CommittedType ==
    ASSUME TypeOK, NEW k \in 0 .. Len(pending)
    PROVE  Committed(k) \in Store
  <1>1. Len(pending) \in Nat
    BY LenProperties DEF TypeOK
  <1>2. UNION {{pending[i].batch} \cup pending[i].beats : i \in 1 .. k} \subseteq Call
    BY <1>1, EntryType
  <1>3. k # 0 => Sequence(pending[k]) + 1 \in Nat \ {0}
    BY <1>1, EntryType
  <1>4. Committed(k).journal \subseteq disk.journal
    BY DEF Committed
  <1>5. Committed(k).next \in Nat \ {0}
    BY <1>3 DEF Committed, TypeOK, Store
  <1>6. Committed(k).calls \in SUBSET Call
    BY <1>2 DEF Committed, TypeOK, Store
  <1>. QED
    BY <1>4, <1>5, <1>6 DEF Committed, TypeOK, Store

\* Journal recovery leaves a store.
LEMMA RecoveredType ==
    ASSUME TypeOK, NEW d \in Store, NEW mode \in BOOLEAN
    PROVE  Recovered(mode, d) \in Store
  <1>1. {p.call : p \in Replayed(d, target.applied)} \subseteq Call
    BY DEF Replayed, Store, JournalPart
  <1>2. target.applied + 1 \in Nat \ {0}
    BY DEF TypeOK
  <1>3. Reconciled(d, target.applied) \in Store
    BY <1>1, <1>2 DEF Reconciled, Store
  <1>. QED
    BY <1>3 DEF Recovered

\* Recovery of a store without a journal is the identity.
LEMMA NothingToRecover ==
    ASSUME NEW d \in Store, NEW mode, d.journal = {}
    PROVE  Recovered(mode, d) = d
  <1>1. Replayed(d, target.applied) = {}
    BY DEF Replayed
  <1>. QED
    BY <1>1 DEF Recovered, Reconciled, Store

\* A write set made by a call is a call.
LEMMA NewCallType ==
    ASSUME TypeOK, NEW s \in Nat
    PROVE  NewCall(s) \in Call
  BY DEF NewCall, Call, TypeOK

-----------------------------------------------------------------------------
(* Type correctness *)

\* A closed instance has no state of its own.
LEMMA CloseType ==
    ASSUME TypeOK, Close
    PROVE  /\ mem' \in SUBSET Call
           /\ nextSequence' \in Nat \ {0}
           /\ pending' \in Seq(PendingAck)
           /\ stamp' \in BOOLEAN
           /\ health' \in {"closed", "healthy", "poisoned", "sync_failed"}
           /\ journal' \in BOOLEAN
           /\ target' \in [calls : SUBSET Call, applied : Nat]
           /\ acked' \in SUBSET Call
           /\ issued' \in Nat
  <1>1. pending' \in Seq(PendingAck)
    BY EmptySeq DEF Close
  <1>2. nextSequence' \in Nat \ {0}
    BY DEF Close
  <1>. QED
    BY <1>1, <1>2, Zenon DEF Close, TypeOK, hostVars

\* One step of any handler, of the host or of the environment keeps the type
\* invariant.
LEMMA TypeStep == TypeOK /\ [Next]_vars => TypeOK'
  <1>. SUFFICES ASSUME TypeOK, [Next]_vars
                PROVE  TypeOK'
    OBVIOUS
  <1>1. CASE ReturnBatch
    <2>1. NewCall(nextSequence) \in Call
      BY NewCallType DEF TypeOK
    <2>2. PutJournal(disk, nextSequence, 0, NewCall(nextSequence)) \in Store
      BY <2>1, PutJournalType DEF TypeOK
    <2>3. [batch |-> NewCall(nextSequence), beats |-> {}, joined |-> 0] \in PendingAck
      BY <2>1 DEF PendingAck
    <2>4. pending' \in Seq(PendingAck)
      BY <2>3, <1>1 DEF ReturnBatch, TypeOK
    <2>. QED
      BY <2>1, <2>2, <2>4, <1>1 DEF ReturnBatch, Start, TypeOK, storeVars
  <1>2. CASE ReturnBatchFails
    <2>1. NewCall(nextSequence) \in Call
      BY NewCallType DEF TypeOK
    <2>2. PutJournal(disk, nextSequence, 0, NewCall(nextSequence)) \in Store
      BY <2>1, PutJournalType DEF TypeOK
    <2>. QED
      BY <2>1, <2>2, <1>2 DEF ReturnBatchFails, Start, TypeOK, storeVars
  <1>3. CASE JoinHeartbeat
    <2>1. NewCall(0) \in Call
      BY NewCallType
    <2>. DEFINE newest == pending[Len(pending)]
    <2>2. Len(pending) \in 1 .. Len(pending)
      BY <1>3, EmptySeq DEF JoinHeartbeat, TypeOK
    <2>. HIDE DEF newest
    <2>a. newest \in PendingAck /\ newest.joined + 1 \in Nat /\ Sequence(newest) \in Nat
      BY <2>2, EntryType DEF newest
    <2>3. PutJournal(disk, Sequence(newest), newest.joined + 1, NewCall(0)) \in Store
      BY <2>1, <2>a, PutJournalType DEF TypeOK
    <2>. DEFINE joined == [batch  |-> newest.batch,
                           beats  |-> newest.beats \cup {NewCall(0)},
                           joined |-> newest.joined + 1]
    <2>4. joined \in PendingAck
      BY <2>1, <2>a DEF PendingAck
    <2>5. pending' = [pending EXCEPT ![Len(pending)] = joined]
      BY <1>3 DEF JoinHeartbeat, newest
    <2>6. pending' \in Seq(PendingAck)
      BY <2>2, <2>4, <2>5, ExceptSeq DEF TypeOK
    <2>7. disk' \in Store /\ survivors' \in SUBSET Store /\ disk' \in survivors'
      BY <2>3, <1>3 DEF JoinHeartbeat, TypeOK, storeVars, newest
    <2>8. mem' \in SUBSET Call /\ issued' \in Nat
      BY <2>1, <1>3 DEF JoinHeartbeat, Start, TypeOK
    <2>. QED
      BY <2>6, <2>7, <2>8, <1>3 DEF JoinHeartbeat, Start, TypeOK
  <1>4. CASE CommitHeartbeat
    <2>1. NewCall(0) \in Call
      BY NewCallType
    <2>2. [calls   |-> disk.calls \cup {NewCall(0)},
           next    |-> nextSequence,
           journal |-> disk.journal] \in Store
      BY <2>1 DEF TypeOK, Store
    <2>3. disk' \in Store /\ survivors' \in SUBSET Store /\ disk' \in survivors'
      BY <2>2, <1>4, Zenon DEF CommitHeartbeat, TypeOK
    <2>a. Start(NewCall(0)) /\ stamp' = FALSE
      BY <1>4 DEF CommitHeartbeat
    <2>4. mem' \in SUBSET Call /\ issued' \in Nat
      BY <2>1, <2>a DEF Start, TypeOK
    <2>5. stamp' \in BOOLEAN
      BY <2>a, Zenon
    <2>. QED
      BY <2>3, <2>4, <2>5, <1>4 DEF CommitHeartbeat, Start, TypeOK
  <1>5. CASE HeartbeatFails
    <2>1. NewCall(0) \in Call
      BY NewCallType
    <2>. QED
      BY <2>1, <1>5 DEF HeartbeatFails, Start, TypeOK, storeVars
  <1>6. CASE EnginePoison
    BY <1>6 DEF EnginePoison, TypeOK, storeVars, hostVars
  <1>7. CASE Apply
    <2>1. PICK i \in 1 .. Len(pending) :
            target' = [calls   |-> target.calls \cup {pending[i].batch},
                       applied |-> Sequence(pending[i])]
      BY <1>7, Zenon DEF Apply
    <2>2. pending[i].batch \in Call /\ Sequence(pending[i]) \in Nat
      BY EntryType
    <2>3. target' \in [calls : SUBSET Call, applied : Nat]
      BY <2>1, <2>2 DEF TypeOK
    <2>. QED
      BY <2>3, <1>7 DEF Apply, TypeOK, storeVars, instanceVars
  <1>8. ASSUME NEW n \in 1 .. Len(pending), NEW k \in 0 .. n, Ack(n, k) \/ AckSyncFails(n, k)
        PROVE  TypeOK'
    <2>1. \A i \in 0 .. k : Committed(i) \in Store
      BY CommittedType DEF TypeOK
    <2>a. Len(pending) \in Nat /\ k + 1 \in Int
      BY LenProperties DEF TypeOK
    <2>b. \A i \in k + 1 .. Len(pending) : pending[i] \in PendingAck
      BY <2>a, EntryType
    <2>c. SubSeq(pending, k + 1, Len(pending)) \in Seq(PendingAck)
      BY <2>a, <2>b, SubSeqProperties
    <2>2. pending' \in Seq(PendingAck)
      BY <2>c, <1>8, Zenon DEF Ack, AckSyncFails, AckCommits
    <2>3. \A i \in 1 .. n : pending[i].batch \in Call
      BY <2>a, EntryType
    <2>4. k = 0 => Committed(k) = disk
      BY DEF Committed, TypeOK, Store
    <2>5. disk' \in survivors' /\ survivors' \in SUBSET Store /\ disk' \in Store
      BY <2>1, <2>4, <1>8 DEF Ack, AckSyncFails, AckCommits, TypeOK
    <2>6. acked' \in SUBSET Call
      BY <2>3, <1>8 DEF Ack, AckSyncFails, TypeOK
    <2>. QED
      BY <2>2, <2>5, <2>6, <1>8, Zenon DEF Ack, AckSyncFails, AckCommits, TypeOK
  <1>9. CASE Crash
    BY <1>9, CloseType DEF Crash, TypeOK, storeVars
  <1>10. CASE PowerLoss
    <2>1. PICK d \in survivors : disk' = d /\ survivors' = {d}
      BY <1>10 DEF PowerLoss
    <2>. QED
      BY <1>10, <2>1, CloseType DEF PowerLoss, TypeOK
  <1>11. ASSUME NEW mode \in Modes, Open(mode)
         PROVE  TypeOK'
    <2>1. mode \in BOOLEAN
      BY ModesAssumption
    <2>2. Recovered(mode, disk) \in Store
      BY <2>1, RecoveredType DEF TypeOK
    <2>3. disk.journal = {} => Recovered(mode, disk) = disk
      BY NothingToRecover DEF TypeOK
    <2>4. HasVersion(Recovered(mode, disk)) \in BOOLEAN
      BY DEF HasVersion
    <2>5. disk' \in survivors' /\ survivors' \in SUBSET Store /\ disk' \in Store
      BY <2>2, <2>3, <1>11 DEF Open, TypeOK, BackendOpened
    <2>. QED
      BY <2>1, <2>2, <2>4, <2>5, <1>11, EmptySeq DEF Open, TypeOK, Store, hostVars
  <1>12. ASSUME NEW mode \in Modes, OpenSyncFails(mode)
         PROVE  TypeOK'
    <2>1. Recovered(mode, disk) \in Store
      BY ModesAssumption, RecoveredType DEF TypeOK
    <2>. QED
      BY <2>1, <1>12 DEF OpenSyncFails, TypeOK, BackendOpened, instanceVars, hostVars
  <1>13. CASE UNCHANGED vars
    BY <1>13 DEF TypeOK, vars, storeVars, instanceVars, hostVars
  <1>. QED
    BY <1>1, <1>2, <1>3, <1>4, <1>5, <1>6, <1>7, <1>8, <1>9, <1>10, <1>11, <1>12, <1>13
    DEF Next

\* A new store and a closed instance satisfy the type invariant.
LEMMA InitType == Init => TypeOK
  <1>. SUFFICES ASSUME Init PROVE TypeOK
    OBVIOUS
  <1>1. EmptyStore \in Store
    BY DEF EmptyStore, Store
  <1>2. pending \in Seq(PendingAck)
    BY EmptySeq DEF Init
  <1>3. nextSequence \in Nat \ {0} /\ target \in [calls : SUBSET Call, applied : Nat]
    BY DEF Init
  <1>. QED
    BY <1>1, <1>2, <1>3, Zenon DEF Init, TypeOK

\* Type correctness of the ack queue and the store.
THEOREM TypeCorrect == Spec => []TypeOK
  BY InitType, TypeStep, PTL DEF Spec

-----------------------------------------------------------------------------
(* Journal mode: what each write to the store keeps *)

\* A journal write changes only the journal, and there only its own key.
LEMMA PutJournalFields ==
    ASSUME NEW d \in Store, NEW s, NEW n, NEW c
    PROVE  /\ PutJournal(d, s, n, c).calls = d.calls
           /\ PutJournal(d, s, n, c).next = d.next
           /\ PutJournal(d, s, n, c).journal =
                {p \in d.journal : ~(p.sequence = s /\ p.part = n)}
                    \cup {[sequence |-> s, part |-> n, call |-> c]}
  BY DEF PutJournal, Store

\* A journal write of a batch that the target did not apply, or of a joined
\* heartbeat, keeps the store recoverable.
LEMMA PutJournalStore ==
    ASSUME TypeOK,
           NEW d \in Store, StoreInv(d),
           NEW s \in Nat, NEW n \in Nat, NEW c \in Call,
           c.seq = IF n = 0 THEN s ELSE 0,
           n # 0 \/ s > target.applied
    PROVE  StoreInv(PutJournal(d, s, n, c))
  <1>. DEFINE w == PutJournal(d, s, n, c)
              new == [sequence |-> s, part |-> n, call |-> c]
  <1>1. /\ w.calls = d.calls
        /\ w.next = d.next
        /\ w.journal = {p \in d.journal : ~(p.sequence = s /\ p.part = n)} \cup {new}
    BY PutJournalFields
  <1>. HIDE DEF w
  <1>2. LastCommitted(w) = LastCommitted(d) /\ Batches(w.calls) = Batches(d.calls)
    BY <1>1 DEF LastCommitted
  <1>3. LastCommitted(d) \in Nat /\ target.applied \in Nat
    BY DEF LastCommitted, Store, TypeOK
  <1>4. ASSUME NEW t \in LastCommitted(d) + 1 .. target.applied
        PROVE  \E p \in w.journal : p.sequence = t /\ p.part = 0
    <2>1. PICK p \in d.journal : p.sequence = t /\ p.part = 0
      BY DEF StoreInv
    <2>2. ~(p.sequence = s /\ p.part = n)
      BY <1>3, <2>1
    <2>. QED
      BY <1>1, <2>1, <2>2
  <1>5. ASSUME NEW p \in w.journal
        PROVE  /\ p.call.seq = IF p.part = 0 THEN p.sequence ELSE 0
               /\ p.part = 0 /\ p \in Replayed(w, target.applied) => p.call \in target.calls
    <2>1. CASE p = new
      BY <2>1, <1>3 DEF Replayed
    <2>2. CASE p \in d.journal
      <3>1. p \in Replayed(w, target.applied) => p \in Replayed(d, target.applied)
        BY <2>2, <1>2 DEF Replayed
      <3>. QED
        BY <2>2, <3>1 DEF StoreInv
    <2>. QED
      BY <2>1, <2>2, <1>1
  <1>. QED
    BY <1>2, <1>4, <1>5 DEF StoreInv, w

\* A journal write keeps the part 0 of every other batch.
LEMMA PutJournalKeeps ==
    ASSUME NEW d \in Store, NEW e, JournaledIn(e, d),
           NEW s \in Nat, NEW n \in Nat, NEW c,
           s # Sequence(e) \/ n # 0
    PROVE  JournaledIn(e, PutJournal(d, s, n, c))
  <1>. DEFINE w == PutJournal(d, s, n, c)
              new == [sequence |-> s, part |-> n, call |-> c]
  <1>1. /\ w.next = d.next
        /\ w.journal = {p \in d.journal : ~(p.sequence = s /\ p.part = n)} \cup {new}
    BY PutJournalFields
  <1>2. new.sequence = s /\ new.part = n
    OBVIOUS
  <1>. HIDE DEF w, new
  <1>3. \A p : p.sequence = Sequence(e) /\ p.part = 0 => (p \in w.journal <=> p \in d.journal)
    BY <1>1, <1>2
  <1>. QED
    BY <1>1, <1>3 DEF JournaledIn, LastCommitted, w

\* A part 0 that was just written is the record of its batch.
LEMMA PutJournalRecords ==
    ASSUME NEW d \in Store, NEW e \in PendingAck
    PROVE  JournaledIn(e, PutJournal(d, Sequence(e), 0, e.batch))
  <1>. DEFINE w == PutJournal(d, Sequence(e), 0, e.batch)
              new == [sequence |-> Sequence(e), part |-> 0, call |-> e.batch]
  <1>1. w.journal = {p \in d.journal : ~(p.sequence = Sequence(e) /\ p.part = 0)} \cup {new}
    BY PutJournalFields
  <1>2. new.sequence = Sequence(e) /\ new.part = 0 /\ new.call = e.batch
    OBVIOUS
  <1>. HIDE DEF w, new
  <1>. QED
    BY <1>1, <1>2 DEF JournaledIn, w

\* The recovery of a recoverable store is accepted, and it leaves a store
\* with exactly the batches of the target.
LEMMA RecoveryAgrees ==
    ASSUME TypeOK, TargetInv, NEW d \in Store, StoreInv(d)
    PROVE  /\ Accepts(d, target.applied)
           /\ Batches(Reconciled(d, target.applied).calls) = target.calls
           /\ Reconciled(d, target.applied).next = target.applied + 1
           /\ StoreInv(Reconciled(d, target.applied))
  <1>. DEFINE a == target.applied
              r == Reconciled(d, a)
              c == LastCommitted(d)
  <1>1. a \in Nat /\ c \in Nat /\ d.next = c + 1 /\ c <= a
    BY DEF LastCommitted, Store, TypeOK, StoreInv
  <1>2. Accepts(d, a)
    BY <1>1 DEF Accepts, StoreInv
  <1>3. \A p \in d.journal : p.part \in Nat /\ p.sequence \in Nat
    BY DEF Store, JournalPart
  <1>4. Batches({p.call : p \in Replayed(d, a)}) = {t \in target.calls : t.seq > c}
    <2>1. ASSUME NEW p \in Replayed(d, a), p.call.seq # 0
          PROVE  p.call \in target.calls /\ p.call.seq > c
      BY <2>1, <1>1, <1>3 DEF StoreInv, Replayed
    <2>2. ASSUME NEW t \in target.calls, t.seq > c
          PROVE  \E p \in Replayed(d, a) : p.call = t /\ p.call.seq # 0
      <3>1. t.seq \in c + 1 .. a
        BY <2>2, <1>1 DEF TargetInv, TypeOK, Call
      <3>2. PICK p \in d.journal : p.sequence = t.seq /\ p.part = 0
        BY <3>1 DEF StoreInv
      <3>3. p \in Replayed(d, a)
        BY <3>1, <3>2, <1>1 DEF Replayed
      <3>4. p.call \in target.calls /\ p.call.seq = t.seq
        BY <3>2, <3>3 DEF StoreInv
      <3>5. p.call = t
        BY <3>4 DEF TargetInv
      <3>. QED
        BY <3>1, <3>3, <3>4, <3>5, <1>1
    <2>. QED
      BY <2>1, <2>2 DEF Batches
  <1>5. Batches(r.calls) = target.calls
    <2>1. r.calls = d.calls \cup {p.call : p \in Replayed(d, a)}
      BY DEF Reconciled
    <2>2. Batches(r.calls) = Batches(d.calls) \cup Batches({p.call : p \in Replayed(d, a)})
      BY <2>1 DEF Batches
    <2>3. Batches(d.calls) = {t \in target.calls : t.seq <= c}
      BY DEF StoreInv
    <2>4. \A t \in target.calls : t.seq \in Nat
      BY DEF TypeOK, Call
    <2>. QED
      BY <2>2, <2>3, <2>4, <1>1, <1>4
  <1>6. r.next = a + 1
    <2>1. CASE c = a
      BY <2>1, <1>1 DEF Reconciled, Replayed
    <2>2. CASE c < a
      <3>1. PICK p \in d.journal : p.sequence = a /\ p.part = 0
        BY <2>2, <1>1 DEF StoreInv
      <3>2. p \in Replayed(d, a)
        BY <2>2, <3>1, <1>1 DEF Replayed
      <3>. QED
        BY <3>2 DEF Reconciled
    <2>. QED
      BY <2>1, <2>2, <1>1
  <1>7. StoreInv(r)
    <2>1. r.journal = {}
      BY DEF Reconciled
    <2>2. LastCommitted(r) = a
      BY <1>1, <1>6 DEF LastCommitted
    <2>3. {t \in target.calls : t.seq <= a} = target.calls
      BY DEF TargetInv
    <2>. QED
      BY <1>1, <1>5, <2>1, <2>2, <2>3 DEF StoreInv
  <1>. QED
    BY <1>2, <1>5, <1>6, <1>7

\* The commits of acked entries keep the store recoverable, and the journal
\* keeps the entries behind them.
LEMMA CommittedStore ==
    ASSUME JournalInv, NEW k \in 1 .. Len(pending),
           \A i \in 1 .. k : pending[i].batch \in target.calls
    PROVE  /\ LastCommitted(Committed(k)) = LastCommitted(disk) + k
           /\ StoreInv(Committed(k))
           /\ \A i \in 1 .. Len(pending) : JournaledIn(pending[i], Committed(k))
  <1>. DEFINE w == Committed(k)
              c == LastCommitted(disk)
  <1>1. TypeOK /\ TargetInv /\ QueueInv /\ StoreInv(disk) /\ disk \in survivors /\ disk \in Store
    BY DEF JournalInv, TypeOK
  <1>2. Len(pending) \in Nat /\ target.applied \in Nat /\ c \in Nat
    BY <1>1, LenProperties DEF TypeOK, LastCommitted, Store
  <1>3. \A i \in 1 .. Len(pending) :
            /\ Sequence(pending[i]) = c + i
            /\ pending[i].batch.seq = c + i
            /\ Batches(pending[i].beats) = {}
            /\ JournaledIn(pending[i], disk)
    BY <1>1, Zenon DEF QueueInv, Sequence
  <1>4. LastCommitted(w) = c + k
    BY <1>2, <1>3 DEF Committed, LastCommitted
  <1>5. c + k <= target.applied
    BY <1>1, <1>2, <1>3 DEF TargetInv
  <1>6. \A p \in w.journal : p \in disk.journal
    BY DEF Committed
  <1>7. \A p \in disk.journal : p.sequence \in Nat /\ p.sequence > c + k => p \in w.journal
    BY <1>2, <1>3 DEF Committed
  <1>8. Batches(w.calls) = {t \in target.calls : t.seq <= c + k}
    <2>1. \A x : x \in w.calls <=>
                    \/ x \in disk.calls
                    \/ \E i \in 1 .. k : x = pending[i].batch \/ x \in pending[i].beats
      BY DEF Committed
    <2>2. Batches(disk.calls) = {t \in target.calls : t.seq <= c}
      BY <1>1 DEF StoreInv
    <2>3. ASSUME NEW x \in w.calls, x.seq # 0
          PROVE  x \in target.calls /\ x.seq <= c + k
      <3>1. CASE x \in disk.calls
        <4>1. x \in target.calls /\ x.seq <= c
          BY <3>1, <2>2, <2>3 DEF Batches
        <4>2. x.seq \in Nat
          BY <4>1, <1>1 DEF TypeOK, Call
        <4>. QED
          BY <4>1, <4>2, <1>2
      <3>2. CASE \E i \in 1 .. k : x = pending[i].batch \/ x \in pending[i].beats
        <4>1. PICK i \in 1 .. k : x = pending[i].batch \/ x \in pending[i].beats
          BY <3>2, Zenon
        <4>2. i \in 1 .. Len(pending) /\ i <= k /\ i \in Nat
          BY <1>2
        <4>3. x \notin pending[i].beats
          BY <4>2, <2>3, <1>3, Zenon DEF Batches
        <4>4. x \in target.calls /\ x.seq = c + i
          BY <4>1, <4>2, <4>3, <1>3, Zenon
        <4>. QED
          BY <4>2, <4>4, <1>2
      <3>. QED
        BY <3>1, <3>2, <2>1
    <2>4. ASSUME NEW t \in target.calls, t.seq <= c + k
          PROVE  t \in w.calls /\ t.seq # 0
      <3>1. t.seq \in Nat /\ t.seq >= 1
        BY <1>1 DEF TypeOK, Call, TargetInv
      <3>2. CASE t.seq <= c
        BY <3>1, <3>2, <2>1, <2>2 DEF Batches
      <3>3. CASE t.seq > c
        <4>. DEFINE i == t.seq - c
        <4>1. i \in 1 .. k /\ i \in 1 .. Len(pending) /\ c + i = t.seq
          BY <3>1, <3>3, <2>4, <1>2
        <4>. HIDE DEF i
        <4>2. pending[i].batch \in target.calls /\ pending[i].batch.seq = t.seq
          BY <4>1, <1>3
        <4>3. t = pending[i].batch
          BY <4>2, <1>1 DEF TargetInv
        <4>. QED
          BY <3>1, <4>1, <4>3, <2>1
      <3>. QED
        BY <3>1, <3>2, <3>3, <1>2
    <2>. QED
      BY <2>3, <2>4 DEF Batches
  <1>9. ASSUME NEW s \in c + k + 1 .. target.applied
        PROVE  \E p \in w.journal : p.sequence = s /\ p.part = 0
    <2>1. PICK p \in disk.journal : p.sequence = s /\ p.part = 0
      BY <1>1, <1>2 DEF StoreInv
    <2>2. s \in Nat /\ s > c + k
      BY <1>2
    <2>3. p \in w.journal
      BY <2>1, <2>2, <1>7
    <2>. QED
      BY <2>1, <2>3
  <1>10. ASSUME NEW p \in w.journal
         PROVE  /\ p.call.seq = IF p.part = 0 THEN p.sequence ELSE 0
                /\ p.part = 0 /\ p \in Replayed(w, target.applied) => p.call \in target.calls
    <2>1. p \in disk.journal /\ p.sequence \in Nat
      BY <1>1, <1>6 DEF Store, JournalPart
    <2>2. p \in Replayed(w, target.applied) => p \in Replayed(disk, target.applied)
      BY <2>1, <1>2, <1>4 DEF Replayed
    <2>. QED
      BY <2>1, <2>2, <1>1 DEF StoreInv
  <1>11. StoreInv(w)
    BY <1>2, <1>4, <1>5, <1>8, <1>9, <1>10 DEF StoreInv
  <1>12. ASSUME NEW i \in 1 .. Len(pending), Sequence(pending[i]) > LastCommitted(w)
         PROVE  /\ \E p \in w.journal : p.sequence = Sequence(pending[i]) /\ p.part = 0
                /\ \A p \in w.journal :
                    p.sequence = Sequence(pending[i]) /\ p.part = 0 => p.call = pending[i].batch
    <2>1. Sequence(pending[i]) > c + k /\ Sequence(pending[i]) > c /\ Sequence(pending[i]) \in Nat
      BY <1>12, <1>2, <1>3, <1>4
    <2>2. /\ \E p \in disk.journal : p.sequence = Sequence(pending[i]) /\ p.part = 0
          /\ \A p \in disk.journal :
                p.sequence = Sequence(pending[i]) /\ p.part = 0 => p.call = pending[i].batch
      BY <2>1, <1>3 DEF JournaledIn
    <2>. QED
      BY <2>1, <2>2, <1>6, <1>7
  <1>. QED
    BY <1>4, <1>11, <1>12 DEF JournaledIn

\* While the target is as it was, a store stays as recoverable as it was.
LEMMA SameTarget ==
    ASSUME target' = target, NEW d
    PROVE  StoreInv(d)' <=> StoreInv(d)
  BY DEF StoreInv, LastCommitted, Batches, Replayed

-----------------------------------------------------------------------------
(* Journal mode: the invariant is inductive *)

\* The batch that the target applies is the one after its newest.
LEMMA ApplyNext ==
    ASSUME JournalInv,
           NEW i \in 1 .. Len(pending),
           pending[i].batch \notin target.calls,
           \A j \in 1 .. i - 1 : pending[j].batch \in target.calls
    PROVE  Sequence(pending[i]) = target.applied + 1
  <1>. DEFINE c == LastCommitted(disk)
  <1>1. TypeOK /\ TargetInv /\ QueueInv /\ StoreInv(disk)
    BY DEF JournalInv, TypeOK
  <1>2. Len(pending) \in Nat /\ c \in Nat /\ target.applied \in Nat /\ c <= target.applied
    BY <1>1, LenProperties DEF TypeOK, Store, LastCommitted, StoreInv
  <1>3. \A j \in 1 .. Len(pending) :
            /\ Sequence(pending[j]) = c + j /\ pending[j].batch.seq = c + j
            /\ c + j <= target.applied => pending[j].batch \in target.calls
    BY <1>1 DEF QueueInv, Sequence
  <1>. HIDE DEF c
  <1>4. i \in Nat /\ target.applied < c + i
    <2>1. i \in Nat
      BY <1>2
    <2>2. ~ (c + i <= target.applied)
      BY <1>3
    <2>. QED
      BY <2>1, <2>2, <1>2
  <1>5. CASE i = 1
    BY <1>2, <1>3, <1>4, <1>5
  <1>6. CASE i # 1
    <2>1. i - 1 \in 1 .. Len(pending) /\ i - 1 \in 1 .. i - 1
      BY <1>2, <1>6
    <2>2. pending[i - 1].batch \in target.calls /\ pending[i - 1].batch.seq = c + (i - 1)
      BY <2>1, <1>3
    <2>3. c + (i - 1) <= target.applied
      BY <2>2, <1>1 DEF TargetInv
    <2>4. target.applied + 1 = c + i
      BY <2>3, <1>2, <1>4
    <2>. QED
      BY <2>4, <1>3
  <1>. QED
    BY <1>5, <1>6

\* One step keeps the invariant of journal mode when hosts open only with an
\* applied sequence.
LEMMA JournalStep ==
    ASSUME Modes = {TRUE}, JournalInv, [Next]_vars
    PROVE  JournalInv'
  <1>1. TypeOK /\ TargetInv /\ QueueInv /\ \A d \in survivors : StoreInv(d)
    BY DEF JournalInv
  <1>2. TypeOK'
    BY <1>1, TypeStep
  <1>3. /\ disk \in Store /\ disk \in survivors /\ survivors \subseteq Store
        /\ StoreInv(disk)
        /\ Len(pending) \in Nat
        /\ nextSequence \in Nat
        /\ LastCommitted(disk) \in Nat
        /\ disk.next = LastCommitted(disk) + 1
        /\ target.applied \in Nat
    BY <1>1, LenProperties DEF TypeOK, Store, LastCommitted
  <1>. DEFINE Stores == \A d \in survivors : StoreInv(d)
  <1>4. CASE ReturnBatch \/ ReturnBatchFails
    <2>. DEFINE call == NewCall(nextSequence)
                written == PutJournal(disk, nextSequence, 0, call)
                entry == [batch |-> call, beats |-> {}, joined |-> 0]
    <2>1. /\ health = "healthy" /\ journal
          /\ target' = target /\ journal' = journal
          /\ health' \in {"healthy", "poisoned", "sync_failed"}
          /\ nextSequence' = nextSequence + 1
      BY <1>1, <1>4 DEF ReturnBatch, ReturnBatchFails, Start, QueueInv
    <2>2. nextSequence = LastCommitted(disk) + 1 + Len(pending) /\ nextSequence > target.applied
      BY <2>1, <1>1, <1>3 DEF QueueInv
    <2>3. call \in Call /\ call.seq = nextSequence /\ entry \in PendingAck
      BY <1>1, <1>3, NewCallType DEF NewCall, PendingAck
    <2>. HIDE DEF call
    <2>a. StoreInv(written)
      BY <2>2, <2>3, <1>1, <1>3, PutJournalStore
    <2>b. written \in Store
      BY <2>3, <1>3, PutJournalType
    <2>c. LastCommitted(written) = LastCommitted(disk)
      BY <1>3, PutJournalFields DEF LastCommitted
    <2>4. StoreInv(written) /\ written \in Store /\ LastCommitted(written) = LastCommitted(disk)
      BY <2>a, <2>b, <2>c
    <2>5. \A i \in 1 .. Len(pending) : JournaledIn(pending[i], written)
      BY <2>2, <1>1, <1>3, PutJournalKeeps DEF QueueInv
    <2>6. \/ disk' = written /\ (survivors' = {written} \/ survivors' = survivors \cup {written})
          \/ disk' = disk /\ survivors' = survivors
      BY <1>4, <2>1 DEF ReturnBatch, ReturnBatchFails, call, storeVars
    <2>7. Stores'
      BY <2>1, <2>4, <2>6, <1>1, SameTarget
    <2>8. TargetInv'
      BY <2>1, <1>1 DEF TargetInv
    <2>9. LastCommitted(disk') = LastCommitted(disk) /\ disk'.next = disk.next
      BY <2>4, <2>6, <1>3, PutJournalFields
    <2>10. \A d \in survivors' : \A i \in 1 .. Len(pending) : JournaledIn(pending[i], d)
      BY <2>5, <2>6, <1>1 DEF QueueInv
    <2>11. CASE ReturnBatch
      <3>1. /\ pending' = Append(pending, entry)
            /\ health' = "healthy"
            /\ disk' = written /\ survivors' = {written}
        BY <2>1, <2>11 DEF ReturnBatch, call
      <3>2. /\ Len(pending') = Len(pending) + 1
            /\ \A i \in 1 .. Len(pending) : pending'[i] = pending[i]
            /\ pending'[Len(pending) + 1] = entry
        BY <3>1, <2>3, <1>1, AppendProperties DEF TypeOK
      <3>3. Sequence(entry) = nextSequence /\ entry.batch = call /\ entry.beats = {}
        BY <2>3 DEF Sequence
      <3>4. JournaledIn(entry, written)
        BY <2>3, <3>3, <1>3, PutJournalRecords
      <3>. HIDE DEF entry, written
      <3>5. ASSUME NEW i \in 1 .. Len(pending')
            PROVE  /\ Sequence(pending'[i]) = LastCommitted(disk') + i
                   /\ Sequence(pending'[i]) <= target'.applied => pending'[i].batch \in target'.calls
                   /\ Batches(pending'[i].beats) = {}
                   /\ \A d \in survivors' : JournaledIn(pending'[i], d)
        <4>1. CASE i \in 1 .. Len(pending)
          BY <4>1, <3>2, <2>1, <2>9, <2>10, <1>1, Zenon DEF QueueInv
        <4>2. CASE i = Len(pending) + 1
          <5>1. Batches({}) = {}
            BY DEF Batches
          <5>2. pending'[i] = entry /\ Sequence(entry) = LastCommitted(disk') + i
            BY <4>2, <3>2, <3>3, <2>2, <2>9, <1>3
          <5>3. ~ (Sequence(entry) <= target'.applied)
            BY <3>3, <2>1, <2>2, <1>3
          <5>. QED
            BY <5>1, <5>2, <5>3, <3>1, <3>3, <3>4
        <4>. QED
          BY <4>1, <4>2, <3>2, <1>3
      <3>6. target'.applied <= LastCommitted(disk') + Len(pending')
        <4>1. target.applied <= LastCommitted(disk) + Len(pending)
          BY <2>1, <1>1 DEF QueueInv
        <4>. QED
          BY <4>1, <3>2, <2>1, <2>9, <1>3
      <3>7. nextSequence' = disk'.next + Len(pending')
        <4>1. nextSequence = disk.next + Len(pending) /\ disk.next \in Nat
          BY <2>1, <1>1, <1>3 DEF QueueInv
        <4>2. nextSequence' = nextSequence + 1 /\ disk'.next = disk.next
          BY <2>1, <2>9
        <4>3. Len(pending) \in Nat /\ Len(pending') = Len(pending) + 1
          BY <3>2, <1>3
        <4>. QED
          BY <4>1, <4>2, <4>3
      <3>8. QueueInv'
        BY <3>1, <3>5, <3>6, <3>7, <2>1 DEF QueueInv, Batches
      <3>. QED
        BY <3>8, <2>7, <2>8, <1>2 DEF JournalInv
    <2>12. CASE ReturnBatchFails
      <3>1. pending' = pending /\ health' \in {"poisoned", "sync_failed"}
        BY <2>12 DEF ReturnBatchFails
      <3>2. QueueInv'
        BY <3>1, <2>1, <2>9, <2>10, <1>1, Zenon DEF QueueInv
      <3>. QED
        BY <3>2, <2>7, <2>8, <1>2 DEF JournalInv
    <2>. QED
      BY <1>4, <2>11, <2>12
  <1>5. CASE JoinHeartbeat
    <2>. DEFINE n == Len(pending)
                call == NewCall(0)
                newest == pending[n]
                written == PutJournal(disk, Sequence(newest), newest.joined + 1, call)
                joined == [batch  |-> newest.batch,
                           beats  |-> newest.beats \cup {call},
                           joined |-> newest.joined + 1]
    <2>1. /\ health = "healthy" /\ health' = health /\ journal
          /\ target' = target /\ journal' = journal
          /\ nextSequence' = nextSequence
          /\ disk' = written /\ survivors' = survivors \cup {written}
          /\ pending' = [pending EXCEPT ![n] = joined]
      BY <1>1, <1>5 DEF JoinHeartbeat, Start, QueueInv
    <2>2. n \in 1 .. n
      BY <1>1, <1>5, EmptySeq DEF JoinHeartbeat, TypeOK
    <2>3. call \in Call /\ call.seq = 0
      BY <1>1, NewCallType DEF NewCall
    <2>. HIDE DEF call
    <2>4. /\ newest.batch \in Call /\ newest.beats \subseteq Call
          /\ newest.joined + 1 \in Nat /\ newest.joined + 1 # 0
          /\ Sequence(newest) \in Nat
      BY <2>2, <1>1, EntryType
    <2>5. joined \in PendingAck /\ joined.batch = newest.batch
      BY <2>3, <2>4 DEF PendingAck
    <2>a. StoreInv(written)
      BY <2>3, <2>4, <1>1, <1>3, PutJournalStore
    <2>b. LastCommitted(written) = LastCommitted(disk) /\ written.next = disk.next
      BY <1>3, PutJournalFields DEF LastCommitted
    <2>c. \A i \in 1 .. n : JournaledIn(pending[i], written)
      BY <2>4, <1>1, <1>3, PutJournalKeeps DEF QueueInv
    <2>6. Stores'
      BY <2>1, <2>a, <1>1, SameTarget
    <2>7. TargetInv'
      BY <2>1, <1>1 DEF TargetInv
    <2>8. Batches(newest.beats) = {} => Batches(joined.beats) = {}
      BY <2>3 DEF Batches
    <2>. HIDE DEF joined, written
    <2>9. /\ Len(pending') = n
          /\ \A i \in 1 .. n : pending'[i] = IF i = n THEN joined ELSE pending[i]
      BY <2>1, <2>2, <2>5, <1>1, ExceptSeq DEF TypeOK
    <2>10. ASSUME NEW i \in 1 .. n
           PROVE  /\ Sequence(pending'[i]) = Sequence(pending[i])
                  /\ pending'[i].batch = pending[i].batch
                  /\ Batches(pending[i].beats) = {} => Batches(pending'[i].beats) = {}
                  /\ \A d : JournaledIn(pending[i], d) => JournaledIn(pending'[i], d)
      <3>1. pending'[i].batch = pending[i].batch
        BY <2>5, <2>9
      <3>2. Sequence(pending'[i]) = Sequence(pending[i])
        BY <3>1 DEF Sequence
      <3>3. Batches(pending[i].beats) = {} => Batches(pending'[i].beats) = {}
        BY <2>8, <2>9
      <3>. QED
        BY <3>1, <3>2, <3>3 DEF JournaledIn
    <2>11. \A d \in survivors' : \A i \in 1 .. n : JournaledIn(pending[i], d)
      BY <2>1, <2>c, <1>1 DEF QueueInv
    <2>12. /\ LastCommitted(disk') = LastCommitted(disk) /\ disk'.next = disk.next
           /\ pending' # <<>>
      BY <2>1, <2>2, <2>b, <2>9, <1>3, EmptySeq
    <2>13. ASSUME NEW i \in 1 .. n
           PROVE  /\ Sequence(pending'[i]) = LastCommitted(disk') + i
                  /\ Sequence(pending'[i]) <= target'.applied => pending'[i].batch \in target'.calls
                  /\ Batches(pending'[i].beats) = {}
                  /\ \A d \in survivors' : JournaledIn(pending'[i], d)
      BY <2>1, <2>10, <2>11, <2>12, <1>1, Zenon DEF QueueInv
    <2>14. QueueInv'
      BY <2>1, <2>9, <2>12, <2>13, <1>1, Zenon DEF QueueInv, Batches
    <2>. QED
      BY <2>6, <2>7, <2>14, <1>2 DEF JournalInv
  <1>6. CASE CommitHeartbeat
    <2>. DEFINE call == NewCall(0)
                written == [calls   |-> disk.calls \cup {call},
                            next    |-> nextSequence,
                            journal |-> disk.journal]
    <2>1. /\ health = "healthy" /\ health' = health /\ journal
          /\ target' = target /\ journal' = journal
          /\ nextSequence' = nextSequence
          /\ disk' = written /\ survivors' = survivors \cup {written}
          /\ pending = <<>> /\ pending' = pending
      BY <1>1, <1>6 DEF CommitHeartbeat, Start, QueueInv
    <2>2. Len(pending) = 0
      BY <2>1, EmptySeq
    <2>3. written.next = disk.next /\ written.journal = disk.journal
      BY <2>1, <2>2, <1>1, <1>3 DEF QueueInv
    <2>4. Batches(written.calls) = Batches(disk.calls)
      BY DEF Batches, NewCall
    <2>. HIDE DEF written
    <2>5. LastCommitted(written) = LastCommitted(disk)
      BY <2>3 DEF LastCommitted
    <2>6. StoreInv(written)
      BY <2>3, <2>4, <2>5, <1>3 DEF StoreInv, Replayed
    <2>7. Stores' /\ TargetInv'
      BY <2>1, <2>6, <1>1, SameTarget DEF TargetInv
    <2>8. Len(pending') = 0
      BY <2>1, <2>2
    <2>9. QueueInv'
      BY <2>1, <2>2, <2>3, <2>5, <2>8, <1>1 DEF QueueInv
    <2>. QED
      BY <2>7, <2>9, <1>2 DEF JournalInv
  <1>7. CASE HeartbeatFails \/ EnginePoison
    <2>1. /\ disk' = disk /\ survivors' = survivors /\ pending' = pending
          /\ target' = target /\ journal' = journal
          /\ health = "healthy" /\ health' = "poisoned"
      BY <1>7 DEF HeartbeatFails, EnginePoison, Start, storeVars, hostVars
    <2>2. Stores' /\ TargetInv' /\ QueueInv'
      BY <2>1, <1>1, SameTarget DEF TargetInv, QueueInv
    <2>. QED
      BY <2>2, <1>2 DEF JournalInv
  <1>8. CASE Apply
    <2>1. PICK i \in 1 .. Len(pending) :
            /\ pending[i].batch \notin target.calls
            /\ \A j \in 1 .. i - 1 : pending[j].batch \in target.calls
            /\ target' = [calls   |-> target.calls \cup {pending[i].batch},
                          applied |-> Sequence(pending[i])]
      BY <1>8, Zenon DEF Apply
    <2>2. /\ disk' = disk /\ survivors' = survivors /\ pending' = pending
          /\ journal' = journal /\ health' = health /\ nextSequence' = nextSequence
      BY <1>8 DEF Apply, storeVars, instanceVars
    <2>. DEFINE b == pending[i].batch
                c == LastCommitted(disk)
    <2>3. \A j \in 1 .. Len(pending) :
            /\ Sequence(pending[j]) = c + j /\ pending[j].batch.seq = c + j
            /\ c + j <= target.applied => pending[j].batch \in target.calls
            /\ \A d \in survivors : JournaledIn(pending[j], d)
      BY <1>1 DEF QueueInv, Sequence
    <2>4. c + i = target.applied + 1
      BY <2>1, <2>3, ApplyNext
    <2>5. /\ target'.applied = target.applied + 1
          /\ target'.calls = target.calls \cup {b}
          /\ b.seq = target.applied + 1
          /\ Sequence(pending[i]) = target.applied + 1
      BY <2>1, <2>3, <2>4, <1>3
    <2>6. \A t \in target.calls : t.seq \in Nat /\ 1 <= t.seq /\ t.seq <= target.applied
      BY <1>1 DEF TypeOK, Call, TargetInv
    <2>7. TargetInv'
      <3>1. \A t \in target'.calls : 1 <= t.seq /\ t.seq <= target'.applied
        <4>1. 1 <= b.seq /\ b.seq <= target'.applied
          BY <2>5, <1>3
        <4>2. \A t \in target.calls : 1 <= t.seq /\ t.seq <= target'.applied
          BY <2>5, <2>6, <1>3
        <4>. QED
          BY <4>1, <4>2, <2>5
      <3>2. ASSUME NEW s \in 1 .. target'.applied
            PROVE  \E t \in target'.calls : t.seq = s
        <4>1. s \in 1 .. target.applied \/ s = target.applied + 1
          BY <2>5, <1>3
        <4>2. CASE s \in 1 .. target.applied
          BY <4>2, <2>5, <1>1 DEF TargetInv
        <4>3. CASE s = target.applied + 1
          BY <4>3, <2>5
        <4>. QED
          BY <4>1, <4>2, <4>3
      <3>3. \A t, u \in target'.calls : t.seq = u.seq => t = u
        BY <2>5, <2>6, <1>1, <1>3 DEF TargetInv
      <3>. QED
        BY <3>1, <3>2, <3>3 DEF TargetInv
    <2>8. ASSUME NEW d \in survivors
          PROVE  StoreInv(d)'
      <3>1. StoreInv(d) /\ d \in Store /\ LastCommitted(d) \in Nat
        BY <1>1, <1>3 DEF Store, LastCommitted
      <3>2. LastCommitted(d) <= target.applied
        BY <3>1 DEF StoreInv
      <3>3. /\ \E p \in d.journal : p.sequence = target.applied + 1 /\ p.part = 0
            /\ \A p \in d.journal :
                    p.sequence = target.applied + 1 /\ p.part = 0 => p.call = b
        <4>1. JournaledIn(pending[i], d) /\ Sequence(pending[i]) > LastCommitted(d)
          BY <2>3, <2>5, <3>1, <3>2, <1>3
        <4>. QED
          BY <4>1, <2>5 DEF JournaledIn
      <3>4. Batches(d.calls) = {t \in target'.calls : t.seq <= LastCommitted(d)}
        <4>1. Batches(d.calls) = {t \in target.calls : t.seq <= LastCommitted(d)}
          BY <3>1 DEF StoreInv
        <4>. QED
          BY <4>1, <2>5, <3>1, <3>2, <1>3
      <3>5. ASSUME NEW s \in LastCommitted(d) + 1 .. target'.applied
            PROVE  \E p \in d.journal : p.sequence = s /\ p.part = 0
        <4>1. s \in LastCommitted(d) + 1 .. target.applied \/ s = target.applied + 1
          BY <2>5, <3>1, <1>3
        <4>. QED
          BY <4>1, <3>1, <3>3 DEF StoreInv
      <3>6. ASSUME NEW p \in d.journal
            PROVE  /\ p.call.seq = IF p.part = 0 THEN p.sequence ELSE 0
                   /\ p.part = 0 /\ p \in Replayed(d, target'.applied) => p.call \in target'.calls
        <4>1. p.sequence \in Nat
          BY <3>1 DEF Store, JournalPart
        <4>2. p \in Replayed(d, target'.applied) =>
                p \in Replayed(d, target.applied) \/ p.sequence = target.applied + 1
          BY <4>1, <2>5, <1>3, SMTT(30) DEF Replayed
        <4>. QED
          BY <4>2, <2>5, <3>1, <3>3 DEF StoreInv
      <3>. QED
        BY <2>5, <3>1, <3>2, <3>4, <3>5, <3>6, <1>3, SMTT(30)
           DEF StoreInv, LastCommitted, Batches, Replayed
    <2>9. Stores'
      BY <2>2, <2>8
    <2>10. QueueInv'
      <3>1. \A j \in 1 .. Len(pending) :
                c + j <= target'.applied => pending[j].batch \in target'.calls
        <4>1. ASSUME NEW j \in 1 .. Len(pending), c + j <= target'.applied
              PROVE  pending[j].batch \in target'.calls
          <5>1. j = i \/ c + j <= target.applied
            BY <4>1, <2>4, <2>5, <1>3
          <5>. QED
            BY <5>1, <2>3, <2>5
        <4>. QED
          BY <4>1
      <3>2. target'.applied <= c + Len(pending)
        BY <2>4, <2>5, <1>3
      <3>3. pending # <<>>
        BY <1>3, EmptySeq
      <3>. QED
        BY <2>2, <2>3, <3>1, <3>2, <3>3, <1>1, Zenon DEF QueueInv
    <2>. QED
      BY <2>7, <2>9, <2>10, <1>2 DEF JournalInv
  <1>9. ASSUME NEW n \in 1 .. Len(pending), NEW k \in 0 .. n, Ack(n, k) \/ AckSyncFails(n, k)
        PROVE  JournalInv'
    <2>1. journal
      <3>1. pending # <<>>
        BY <1>3, EmptySeq
      <3>. QED
        BY <3>1, <1>1 DEF QueueInv
    <2>2. /\ Ack(n, k)
          /\ \A i \in 1 .. n : pending[i].batch \in target.calls
          /\ disk' = Committed(k)
          /\ survivors' = survivors \cup {Committed(i) : i \in 1 .. k}
          /\ pending' = SubSeq(pending, k + 1, Len(pending))
          /\ health' = health /\ target' = target /\ journal' = journal
          /\ nextSequence' = nextSequence
          /\ health # "closed"
      BY <1>9, <2>1 DEF Ack, AckSyncFails, AckCommits
    <2>. DEFINE c == LastCommitted(disk)
    <2>3. ASSUME NEW i \in 1 .. k
          PROVE  /\ LastCommitted(Committed(i)) = c + i
                 /\ StoreInv(Committed(i))
                 /\ \A j \in 1 .. Len(pending) : JournaledIn(pending[j], Committed(i))
      <3>1. i \in 1 .. Len(pending) /\ \A j \in 1 .. i : pending[j].batch \in target.calls
        BY <2>2, <1>3
      <3>. QED
        BY <3>1, CommittedStore
    <2>4. LastCommitted(disk') = c + k
      <3>1. k = 0 => Committed(k) = disk
        BY <1>3, SMTT(30) DEF Committed, Store
      <3>. QED
        BY <3>1, <2>2, <2>3, <1>3
    <2>5. Stores'
      BY <2>2, <2>3, <1>1, SameTarget
    <2>6. TargetInv'
      BY <2>2, <1>1 DEF TargetInv
    <2>7. /\ Len(pending') = Len(pending) - k
          /\ \A i \in 1 .. Len(pending) - k : pending'[i] = pending[k + i]
      <3>1. k + 1 \in Int /\ Len(pending) \in Int
        BY <1>3
      <3>2. \A i \in k + 1 .. Len(pending) : pending[i] \in PendingAck
        BY <1>1, <1>3, EntryType
      <3>3. /\ Len(pending') = IF k + 1 <= Len(pending) THEN Len(pending) - (k + 1) + 1 ELSE 0
            /\ \A i \in 1 .. Len(pending) - (k + 1) + 1 : pending'[i] = pending[(k + 1) + i - 1]
        BY <3>1, <3>2, <2>2, SubSeqProperties
      <3>. QED
        BY <3>3, <1>3
    <2>8. ASSUME NEW i \in 1 .. Len(pending')
          PROVE  /\ Sequence(pending'[i]) = LastCommitted(disk') + i
                 /\ Sequence(pending'[i]) <= target'.applied => pending'[i].batch \in target'.calls
                 /\ Batches(pending'[i].beats) = {}
                 /\ \A d \in survivors' : JournaledIn(pending'[i], d)
      <3>1. k + i \in 1 .. Len(pending) /\ pending'[i] = pending[k + i]
        BY <2>7, <1>3
      <3>2. /\ Sequence(pending[k + i]) = c + (k + i)
            /\ Sequence(pending[k + i]) <= target.applied => pending[k + i].batch \in target.calls
            /\ Batches(pending[k + i].beats) = {}
            /\ \A d \in survivors : JournaledIn(pending[k + i], d)
        BY <3>1, <1>1, Zenon DEF QueueInv
      <3>3. c + (k + i) = LastCommitted(disk') + i
        BY <2>4, <2>7, <1>3
      <3>4. \A d \in survivors' : JournaledIn(pending[k + i], d)
        BY <3>1, <3>2, <2>2, <2>3
      <3>. QED
        BY <3>1, <3>2, <3>3, <3>4, <2>2
    <2>9. /\ target'.applied <= LastCommitted(disk') + Len(pending')
          /\ health = "healthy" => nextSequence' = disk'.next + Len(pending')
      <3>1. disk'.next = LastCommitted(disk') + 1
        BY <1>2 DEF TypeOK, Store, LastCommitted
      <3>2. /\ target.applied <= c + Len(pending)
            /\ health = "healthy" => nextSequence = disk.next + Len(pending)
        BY <2>2, <1>1 DEF QueueInv
      <3>. HIDE DEF c
      <3>3. c \in Nat /\ k \in Nat /\ Len(pending') = Len(pending) - k /\ disk.next = c + 1
        BY <2>7, <1>3 DEF c
      <3>4. target'.applied <= LastCommitted(disk') + Len(pending')
        BY <3>2, <3>3, <2>2, <2>4, <1>3
      <3>5. ASSUME health = "healthy"
            PROVE  nextSequence' = disk'.next + Len(pending')
        BY <3>1, <3>2, <3>3, <3>5, <2>2, <2>4, <1>3
      <3>. QED
        BY <3>4, <3>5
    <2>10. QueueInv'
      BY <2>1, <2>2, <2>8, <2>9, Zenon DEF QueueInv, Batches
    <2>. QED
      BY <2>5, <2>6, <2>10, <1>2 DEF JournalInv
  <1>10. CASE Crash \/ PowerLoss
    <2>1. survivors' \subseteq survivors
      BY <1>10 DEF Crash, PowerLoss, storeVars
    <2>2. pending' = <<>> /\ target' = target /\ health' = "closed"
      BY <1>10 DEF Crash, PowerLoss, Close, hostVars
    <2>3. Stores' /\ TargetInv'
      BY <2>1, <2>2, <1>1, SameTarget DEF TargetInv
    <2>4. Len(pending') = 0
      BY <2>2, EmptySeq
    <2>5. QueueInv'
      BY <2>2, <2>4 DEF QueueInv
    <2>. QED
      BY <2>3, <2>5, <1>2 DEF JournalInv
  <1>11. ASSUME NEW mode \in Modes, Open(mode) \/ OpenSyncFails(mode)
         PROVE  JournalInv'
    <2>. DEFINE r == Reconciled(disk, target.applied)
    <2>1. Recovered(mode, disk) = r
      BY DEF Recovered
    <2>2. StoreInv(r) /\ r.next = target.applied + 1
      BY <1>1, <1>3, RecoveryAgrees
    <2>. HIDE DEF r
    <2>3. /\ health = "closed" /\ target' = target /\ disk' = r
          /\ \A d \in survivors' : d \in survivors \/ d = r
      BY <1>1, <1>11, <2>1, Zenon DEF Open, OpenSyncFails, BackendOpened, hostVars, TypeOK
    <2>4. Stores' /\ TargetInv'
      BY <2>2, <2>3, <1>1, SameTarget DEF TargetInv
    <2>5. pending' = <<>>
      BY <1>1, <1>11, Zenon DEF Open, OpenSyncFails, QueueInv, instanceVars
    <2>6. Len(pending') = 0
      BY <2>5, EmptySeq
    <2>7. LastCommitted(r) = target.applied
      BY <2>2, <1>3 DEF LastCommitted
    <2>8. \/ health' = "healthy" /\ journal' /\ nextSequence' = r.next
          \/ health' = "closed"
      <3>1. CASE Open(mode)
        <4>1. health' = "healthy" /\ nextSequence' = r.next
          BY <3>1, <2>1 DEF Open
        <4>2. journal' = TRUE
          BY <3>1 DEF Open
        <4>. QED
          BY <4>1, <4>2
      <3>2. CASE OpenSyncFails(mode)
        BY <3>2 DEF OpenSyncFails, instanceVars
      <3>. QED
        BY <3>1, <3>2, <1>11, Zenon
    <2>a. target'.applied <= LastCommitted(disk') + Len(pending')
      BY <2>3, <2>6, <2>7, <1>3
    <2>b. health' = "healthy" => nextSequence' = disk'.next + Len(pending')
      BY <2>2, <2>3, <2>6, <2>8, <1>3
    <2>c. \A i \in 1 .. Len(pending') : FALSE
      BY <2>6
    <2>9. QueueInv'
      BY <2>5, <2>8, <2>a, <2>b, <2>c DEF QueueInv
    <2>. QED
      BY <2>4, <2>9, <1>2 DEF JournalInv
  <1>12. CASE UNCHANGED vars
    <2>1. /\ disk' = disk /\ survivors' = survivors /\ pending' = pending /\ target' = target
          /\ journal' = journal /\ health' = health /\ nextSequence' = nextSequence
      BY <1>12 DEF vars, storeVars, instanceVars, hostVars
    <2>2. Stores' /\ TargetInv' /\ QueueInv'
      BY <2>1, <1>1, SameTarget DEF TargetInv, QueueInv
    <2>. QED
      BY <2>2, <1>2 DEF JournalInv
  <1>. QED
    BY <1>4, <1>5, <1>6, <1>7, <1>8, <1>9, <1>10, <1>11, <1>12, Zenon DEF Next

-----------------------------------------------------------------------------
(* Journal mode: the theorems *)

\* The invariant of journal mode holds in every state, for every queue size,
\* number of calls and order of faults.
THEOREM JournalInvariant ==
    ASSUME Modes = {TRUE}
    PROVE  Spec => []JournalInv
  <1>1. Init => JournalInv
    <2>. SUFFICES ASSUME Init PROVE JournalInv
      OBVIOUS
    <2>1. TypeOK
      BY InitType
    <2>2. TargetInv
      BY DEF Init, TargetInv
    <2>3. StoreInv(EmptyStore)
      BY DEF Init, StoreInv, EmptyStore, LastCommitted, Batches, Replayed
    <2>4. Len(pending) = 0
      BY EmptySeq DEF Init
    <2>5. QueueInv
      BY <2>4 DEF Init, QueueInv
    <2>. QED
      BY <2>1, <2>2, <2>3, <2>5 DEF Init, JournalInv
  <1>2. JournalInv /\ [Next]_vars => JournalInv'
    BY JournalStep
  <1>. QED
    BY <1>1, <1>2, PTL DEF Spec

\* Whatever fails, and wherever the process or the machine stops, the open
\* with the applied sequence of the target is accepted, and it brings Settle
\* to exactly the batches that the target applied.
THEOREM JournalAgreement ==
    ASSUME Modes = {TRUE}
    PROVE  Spec => []JournalRecovery
  <1>1. JournalInv => JournalRecovery
    <2>. SUFFICES ASSUME JournalInv, NEW d \in survivors
                  PROVE  /\ Accepts(d, target.applied)
                         /\ Batches(Reconciled(d, target.applied).calls) = target.calls
      BY DEF JournalRecovery
    <2>1. TypeOK /\ TargetInv /\ StoreInv(d) /\ d \in Store
      BY DEF JournalInv, TypeOK
    <2>. QED
      BY <2>1, RecoveryAgrees
  <1>. QED
    BY <1>1, JournalInvariant, PTL

\* The target gets each sequence once and in order: no crash makes Settle
\* return a batch again that the target applied, or skip one.
THEOREM JournalExactlyOnce ==
    ASSUME Modes = {TRUE}
    PROVE  Spec => ExactlyOnce
  <1>1. JournalInv /\ [Next]_vars => [target' # target => target'.applied = target.applied + 1]_target
    <2>. SUFFICES ASSUME JournalInv, [Next]_vars, target' # target
                  PROVE  target'.applied = target.applied + 1
      OBVIOUS
    <2>1. Apply
      BY Zenon DEF Next, ReturnBatch, ReturnBatchFails, JoinHeartbeat, CommitHeartbeat, HeartbeatFails,
             Start, EnginePoison, Ack, AckSyncFails, AckCommits, Crash, PowerLoss, Close, Open,
             OpenSyncFails, hostVars, vars
    <2>2. PICK i \in 1 .. Len(pending) :
            /\ pending[i].batch \notin target.calls
            /\ \A j \in 1 .. i - 1 : pending[j].batch \in target.calls
            /\ target'.applied = Sequence(pending[i])
      BY <2>1 DEF Apply
    <2>. QED
      BY <2>2, ApplyNext
  <1>. QED
    BY <1>1, JournalInvariant, PTL DEF Spec, ExactlyOnce
=============================================================================
