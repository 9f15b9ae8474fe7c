--------------------------- MODULE AckQueueTarget ---------------------------
(***************************************************************************)
(* What the ack queue guarantees to the target database that the hosts    *)
(* write the batches to, for every queue size, every number of calls and   *)
(* every order of faults.                                                  *)
(***************************************************************************)
EXTENDS AckQueueModes

-----------------------------------------------------------------------------
(* The inductive invariant of the store and the target *)

\* The hosts all open alike, or the backend syncs what it finds at open.
OneModeOrSync == OpenSyncs \/ Modes # BOOLEAN

\* No store that a crash may leave has a journal, and hosts may open without.
Direct == FALSE \in Modes /\ \A d \in survivors : d.journal = {}

\* The journal of the store holds the batches of the target that the store
\* lacks, and the recovery is accepted.
Agrees(d, t) ==
    /\ Accepts(d, t.applied)
    /\ \A p \in Replayed(d, t.applied) : p.part = 0 => p.call \in t.calls

Journaled == \A d \in survivors : Agrees(d, target)

\* The target applied the first of the queue, and each store that a crash may
\* leave journals the queue.
TargetQueueInv ==
    /\ target.applied <= LastCommitted(disk) + Len(pending)
    /\ \A i \in 1 .. Len(pending) :
            /\ pending[i].batch \in target.calls <=> Sequence(pending[i]) <= target.applied
            /\ \A d \in survivors : JournaledIn(pending[i], d)

AgreementInv ==
    /\ SafetyInv
    /\ \A t \in target.calls : t.seq # 0 /\ t.id < issued
    /\ acked \subseteq target.calls
    /\ NeverAheadOfTarget
    /\ AckedSurvives
    /\ TRUE \notin Modes => Direct
    /\ health = "closed" => Direct \/ Journaled
    /\ health # "closed" /\ ~journal => Direct
    /\ health # "closed" /\ journal => TRUE \in Modes /\ Journaled /\ TargetQueueInv

-----------------------------------------------------------------------------
(* The target: what each write to the store keeps *)

\* A returned batch that the store lacks and the target applied is replayed.
Covered(x, d, t) == x \in d.calls \cup {p.call : p \in Replayed(d, t.applied)}

\* A journal write keeps the store in agreement with the target when the
\* target did not apply the batch, or when a heartbeat is written.
LEMMA PutJournalAgrees ==
    ASSUME NEW d \in Store, NEW t \in [calls : SUBSET Call, applied : Nat],
           NEW s \in Nat, NEW k \in Nat, NEW c \in Call,
           k # 0 \/ s > t.applied
    PROVE  LET w == PutJournal(d, s, k, c)
           IN  /\ Agrees(d, t) => Agrees(w, t)
               /\ \A x : /\ \A p \in d.journal : p.part = k => (p.sequence = s => p.call # x \/ k = 0)
                         /\ Covered(x, d, t)
                         => Covered(x, w, t)
  <1>. DEFINE w == PutJournal(d, s, k, c)
              new == [sequence |-> s, part |-> k, call |-> c]
  <1>1. /\ w.calls = d.calls /\ w.next = d.next
        /\ w.journal = {p \in d.journal : ~(p.sequence = s /\ p.part = k)} \cup {new}
    BY PutJournalFields
  <1>2. new.sequence = s /\ new.part = k /\ new.call = c
    OBVIOUS
  <1>3. LastCommitted(w) = LastCommitted(d) /\ t.applied \in Nat /\ LastCommitted(d) \in Nat
    BY <1>1 DEF LastCommitted, Store
  <1>4. \A p \in d.journal : p.sequence \in Nat /\ p.part \in Nat
    BY DEF Store, JournalPart
  <1>. HIDE DEF w, new
  <1>5. ASSUME Agrees(d, t) PROVE Agrees(w, t)
    <2>1. t.applied >= LastCommitted(w)
      BY <1>3, <1>5 DEF Agrees, Accepts
    <2>2. ASSUME NEW i \in LastCommitted(w) + 1 .. t.applied
          PROVE  \E p \in w.journal : p.sequence = i /\ p.part = 0
      <3>1. PICK p \in d.journal : p.sequence = i /\ p.part = 0
        BY <1>3, <1>5 DEF Agrees, Accepts
      <3>2. ~(p.sequence = s /\ p.part = k)
        BY <3>1, <1>3
      <3>. QED
        BY <3>1, <3>2, <1>1
    <2>3. ASSUME NEW p \in Replayed(w, t.applied), p.part = 0
          PROVE  p.call \in t.calls
      <3>1. p # new
        BY <2>3, <1>2, <1>3 DEF Replayed
      <3>2. p \in Replayed(d, t.applied)
        BY <3>1, <1>1, <1>3 DEF Replayed
      <3>. QED
        BY <2>3, <3>2, <1>5 DEF Agrees
    <2>. QED
      BY <2>1, <2>2, <2>3 DEF Agrees, Accepts
  <1>6. ASSUME NEW x, Covered(x, d, t),
               \A p \in d.journal : p.part = k => (p.sequence = s => p.call # x \/ k = 0)
        PROVE  Covered(x, w, t)
    <2>1. CASE x \in d.calls
      BY <2>1, <1>1 DEF Covered
    <2>2. CASE \E p \in Replayed(d, t.applied) : x = p.call
      <3>1. PICK p \in Replayed(d, t.applied) : x = p.call
        BY <2>2
      <3>2. p \in d.journal /\ p.sequence > LastCommitted(d) /\ p.sequence <= t.applied
        BY <3>1 DEF Replayed
      <3>3. ~(p.sequence = s /\ p.part = k)
        BY <3>1, <3>2, <1>3, <1>4, <1>6
      <3>4. p \in Replayed(w, t.applied)
        BY <3>2, <3>3, <1>1, <1>3 DEF Replayed
      <3>. QED
        BY <3>1, <3>4 DEF Covered
    <2>. QED
      BY <2>1, <2>2, <1>6 DEF Covered
  <1>. QED
    BY <1>5, <1>6 DEF w

\* An accepted recovery leaves the store at the target's newest batch.
LEMMA ReconciledAgrees ==
    ASSUME NEW d \in Store, NEW t \in [calls : SUBSET Call, applied : Nat],
           Accepts(d, t.applied)
    PROVE  LET r == Reconciled(d, t.applied)
           IN  /\ LastCommitted(r) = t.applied
               /\ Agrees(r, t)
               /\ \A x : Covered(x, d, t) => x \in r.calls
  <1>. DEFINE a == t.applied
              r == Reconciled(d, a)
              c == LastCommitted(d)
  <1>1. a \in Nat /\ c \in Nat /\ d.next = c + 1 /\ c <= a
    BY DEF LastCommitted, Store, Accepts
  <1>2. r.next = a + 1
    <2>1. CASE c = a
      <3>1. Replayed(d, a) = {}
        BY <2>1, <1>1 DEF Replayed, Store, JournalPart
      <3>. QED
        BY <2>1, <3>1, <1>1 DEF Reconciled
    <2>2. CASE c < a
      <3>1. PICK p \in d.journal : p.sequence = a /\ p.part = 0
        BY <2>2, <1>1 DEF Accepts
      <3>2. p \in Replayed(d, a)
        BY <2>2, <3>1, <1>1 DEF Replayed
      <3>. QED
        BY <3>2 DEF Reconciled
    <2>. QED
      BY <2>1, <2>2, <1>1
  <1>3. r.journal = {} /\ LastCommitted(r) = a
    BY <1>1, <1>2 DEF Reconciled, LastCommitted
  <1>4. Agrees(r, t)
    BY <1>1, <1>3 DEF Agrees, Accepts, Replayed
  <1>5. \A x : Covered(x, d, t) => x \in r.calls
    BY DEF Covered, Reconciled
  <1>. QED
    BY <1>3, <1>4, <1>5

\* The commits of entries that the target applied keep the store in agreement
\* with the target.
LEMMA CommittedAgrees ==
    ASSUME SafetyInv, TargetQueueInv, NEW k \in 1 .. Len(pending),
           \A i \in 1 .. k : pending[i].batch \in target.calls
    PROVE  /\ Agrees(disk, target) => Agrees(Committed(k), target)
           /\ \A i \in 1 .. Len(pending) : JournaledIn(pending[i], Committed(k))
           /\ \A x : Covered(x, disk, target) /\ x.seq # 0 => Covered(x, Committed(k), target)
  <1>. DEFINE w == Committed(k)
              c == LastCommitted(disk)
              a == target.applied
  <1>1. /\ w \in Store /\ LastCommitted(w) = c + k
        /\ \A x : x \in w.calls <=>
                    x \in disk.calls \/ \E i \in 1 .. k : x \in Calls(pending[i])
        /\ w.journal \subseteq disk.journal
    BY CommittedParts
  <1>2. /\ Len(pending) \in Nat /\ k \in Nat /\ c \in Nat /\ a \in Nat
        /\ disk \in Store /\ disk \in survivors
        /\ Snapshot(disk, disk, issued)
    BY LenProperties DEF SafetyInv, TypeOK, LastCommitted, Store
  <1>3. \A i \in 1 .. Len(pending) : Sequence(pending[i]) = c + i /\ JournaledIn(pending[i], disk)
    BY <1>2 DEF SafetyInv, Queued, TargetQueueInv
  <1>4. c + k <= a
    BY <1>2, <1>3 DEF TargetQueueInv
  <1>5. \A p \in disk.journal : p.sequence \in Nat /\ p.part \in Nat
    BY <1>2 DEF Store, JournalPart
  <1>6. \A p \in disk.journal : p.sequence > c + k => p \in w.journal
    BY <1>2, <1>3, <1>5 DEF Committed
  <1>. HIDE DEF w
  <1>7. ASSUME Agrees(disk, target) PROVE Agrees(w, target)
    <2>1. ASSUME NEW s \in LastCommitted(w) + 1 .. a
          PROVE  \E p \in w.journal : p.sequence = s /\ p.part = 0
      <3>1. s \in c + 1 .. a /\ s > c + k
        BY <1>1, <1>2
      <3>2. PICK p \in disk.journal : p.sequence = s /\ p.part = 0
        BY <3>1, <1>7 DEF Agrees, Accepts
      <3>. QED
        BY <3>1, <3>2, <1>6
    <2>2. \A p \in Replayed(w, a) : p \in Replayed(disk, a)
      BY <1>1, <1>2, <1>5 DEF Replayed
    <2>. QED
      BY <2>1, <2>2, <1>1, <1>2, <1>4, <1>7 DEF Agrees, Accepts
  <1>8. ASSUME NEW i \in 1 .. Len(pending) PROVE JournaledIn(pending[i], w)
    <2>. SUFFICES ASSUME Sequence(pending[i]) > LastCommitted(w)
                  PROVE  /\ \E p \in w.journal : p.sequence = Sequence(pending[i]) /\ p.part = 0
                         /\ \A p \in w.journal : p.sequence = Sequence(pending[i]) /\ p.part = 0
                                => p.call = pending[i].batch
      BY DEF JournaledIn
    <2>1. Sequence(pending[i]) > c /\ Sequence(pending[i]) > c + k
      BY <1>1, <1>2, <1>3
    <2>2. /\ \E p \in disk.journal : p.sequence = Sequence(pending[i]) /\ p.part = 0
          /\ \A p \in disk.journal : p.sequence = Sequence(pending[i]) /\ p.part = 0
                => p.call = pending[i].batch
      BY <2>1, <1>3 DEF JournaledIn
    <2>. QED
      BY <2>1, <2>2, <1>1, <1>6
  <1>9. ASSUME NEW x, Covered(x, disk, target), x.seq # 0
        PROVE  Covered(x, w, target)
    <2>1. CASE x \in disk.calls
      BY <2>1, <1>1 DEF Covered
    <2>2. CASE \E p \in Replayed(disk, a) : x = p.call
      <3>1. PICK p \in Replayed(disk, a) : x = p.call
        BY <2>2
      <3>2. /\ p \in disk.journal /\ p.sequence > c /\ p.sequence <= a
            /\ p.sequence \in Nat /\ p.part = 0
        BY <3>1, <1>2, <1>5, <1>9 DEF Replayed, Snapshot
      <3>3. CASE p.sequence > c + k
        <4>1. p \in Replayed(w, a)
          BY <3>2, <3>3, <1>1, <1>6 DEF Replayed
        <4>. QED
          BY <4>1, <3>1 DEF Covered
      <3>4. CASE p.sequence <= c + k
        <4>1. PICK i \in 1 .. k : p.sequence = c + i
          <5>1. p.sequence - c \in 1 .. k /\ p.sequence = c + (p.sequence - c)
            BY <3>2, <3>4, <1>2
          <5>. QED
            BY <5>1
        <4>2. i \in 1 .. Len(pending) /\ Sequence(pending[i]) = p.sequence
          BY <4>1, <1>2, <1>3
        <4>3. p.call = pending[i].batch
          BY <4>2, <3>2, <1>3 DEF JournaledIn
        <4>4. p.call \in w.calls
          BY <4>3, <1>1 DEF Calls
        <4>. QED
          BY <4>4, <3>1 DEF Covered
      <3>. QED
        BY <3>2, <3>3, <3>4, <1>2
    <2>. QED
      BY <2>1, <2>2, <1>9 DEF Covered
  <1>. QED
    BY <1>7, <1>8, <1>9 DEF w

-----------------------------------------------------------------------------
(* The target: the invariant is inductive *)

\* The facts about the target that a step keeps when the target does not move.
LEMMA TargetKept ==
    ASSUME AgreementInv, SafetyInv', target' = target, issued' >= issued,
           acked' \subseteq target.calls,
           \A d \in survivors' : /\ Batches(d.calls) \subseteq target.calls
                                 /\ \A x \in acked' : Covered(x, d, target)
    PROVE  /\ \A t \in target'.calls : t.seq # 0 /\ t.id < issued'
           /\ acked' \subseteq target'.calls
           /\ NeverAheadOfTarget'
           /\ AckedSurvives'
  <1>1. \A t \in target.calls : t.seq # 0 /\ t.id < issued /\ t.id \in Nat
    BY DEF AgreementInv, SafetyInv, TypeOK, Call
  <1>2. issued \in Nat /\ issued' \in Nat
    BY DEF AgreementInv, SafetyInv, TypeOK
  <1>3. \A t \in target.calls : t.seq # 0 /\ t.id < issued'
    BY <1>1, <1>2
  <1>4. NeverAheadOfTarget'
    BY DEF NeverAheadOfTarget, Batches
  <1>5. AckedSurvives'
    BY DEF AckedSurvives, Covered, Replayed, LastCommitted
  <1>. QED
    BY <1>3, <1>4, <1>5

\* The stores that a crash may leave agree with the target already.
LEMMA StoresCovered ==
    ASSUME AgreementInv
    PROVE  \A d \in survivors : /\ d \in Store
                                /\ Batches(d.calls) \subseteq target.calls
                                /\ \A x \in acked : Covered(x, d, target)
  BY DEF AgreementInv, NeverAheadOfTarget, AckedSurvives, Covered, SafetyInv, TypeOK

\* A journal write of a call agrees with the target.
LEMMA JournalWriteAgrees ==
    ASSUME AgreementInv, health = "healthy", journal,
           NEW s \in Nat, NEW k \in Nat, NEW c \in Call,
           k # 0 \/ s > target.applied
    PROVE  LET w == PutJournal(disk, s, k, c)
           IN  /\ Agrees(w, target)
               /\ Batches(w.calls) \subseteq target.calls
               /\ \A x \in acked : Covered(x, w, target)
  <1>. DEFINE w == PutJournal(disk, s, k, c)
  <1>1. /\ disk \in Store /\ disk \in survivors /\ target \in [calls : SUBSET Call, applied : Nat]
        /\ Snapshot(disk, disk, issued)
    BY DEF AgreementInv, SafetyInv, TypeOK
  <1>2. /\ Agrees(disk, target)
        /\ Batches(disk.calls) \subseteq target.calls
        /\ \A x \in acked : Covered(x, disk, target) /\ x.seq # 0
    BY <1>1, StoresCovered, Zenon DEF AgreementInv, Journaled
  <1>3. w.calls = disk.calls
    BY <1>1, PutJournalFields
  <1>4. /\ Agrees(disk, target) => Agrees(w, target)
        /\ \A x : /\ \A p \in disk.journal : p.part = k => (p.sequence = s => p.call # x \/ k = 0)
                  /\ Covered(x, disk, target)
                  => Covered(x, w, target)
    BY <1>1, PutJournalAgrees
  <1>. HIDE DEF w
  <1>5. ASSUME NEW x \in acked PROVE Covered(x, w, target)
    <2>1. \A p \in disk.journal : p.part = k => (p.sequence = s => p.call # x \/ k = 0)
      <3>1. \A p \in disk.journal : p.part # 0 => p.call.seq = 0
        BY <1>1 DEF Snapshot
      <3>. QED
        BY <3>1, <1>2
    <2>. QED
      BY <2>1, <1>2, <1>4
  <1>. QED
    BY <1>2, <1>3, <1>4, <1>5 DEF w

\* A returned batch, also one whose journal write fails.
LEMMA ReturnAgrees ==
    ASSUME AgreementInv, ReturnBatch \/ ReturnBatchFails
    PROVE  AgreementInv'
  <1>. DEFINE call == NewCall(nextSequence)
              w == PutJournal(disk, nextSequence, 0, call)
              e == [batch |-> call, beats |-> {}, joined |-> 0]
              l == Len(pending) + 1
  <1>1. SafetyInv /\ SafetyInv' /\ Start(call) /\ nextSequence \in Nat
    BY ReturnSafe, Zenon DEF AgreementInv, SafetyInv, TypeOK, ReturnBatch, ReturnBatchFails
  <1>2. /\ health = "healthy" /\ issued' = issued + 1 /\ call \in Call
        /\ call.id = issued /\ call.seq = nextSequence
        /\ journal' = journal /\ target' = target /\ acked' = acked
    BY <1>1, CallStarts
  <1>3. /\ Len(pending) \in Nat /\ disk \in Store /\ disk \in survivors /\ issued \in Nat
        /\ pending \in Seq(PendingAck) /\ LastCommitted(disk) \in Nat
        /\ target.applied \in Nat
        /\ nextSequence = LastCommitted(disk) + Len(pending) + 1
    <2>1. /\ Len(pending) \in Nat /\ disk \in Store /\ disk \in survivors /\ issued \in Nat
          /\ pending \in Seq(PendingAck) /\ target.applied \in Nat
          /\ nextSequence = disk.next + Len(pending)
      BY <1>1, <1>2, LenProperties DEF SafetyInv, TypeOK
    <2>. QED
      BY <2>1 DEF LastCommitted, Store
  <1>4. e \in PendingAck /\ e.batch = call /\ Sequence(e) = nextSequence
    BY <1>2 DEF PendingAck, Sequence
  <1>5. w \in Store /\ w.next = disk.next /\ LastCommitted(w) = LastCommitted(disk)
    <2>1. w \in Store
      BY <1>1, <1>2, <1>3, PutJournalType
    <2>2. w.next = disk.next
      BY <1>3, PutJournalFields
    <2>. QED
      BY <2>1, <2>2 DEF LastCommitted
  <1>6. JournaledIn(e, w)
    BY <1>3, <1>4, PutJournalRecords
  <1>. HIDE DEF call, e
  <1>7. CASE ~journal
    <2>1. disk' = disk /\ survivors' = survivors /\ health' = "healthy"
      BY <1>2, <1>7 DEF ReturnBatch, ReturnBatchFails, storeVars
    <2>2. /\ \A t \in target'.calls : t.seq # 0 /\ t.id < issued'
          /\ acked' \subseteq target'.calls /\ NeverAheadOfTarget' /\ AckedSurvives'
      <3>1. issued' >= issued /\ acked' \subseteq target.calls
        BY <1>2, <1>3 DEF AgreementInv
      <3>. QED
        BY <3>1, <2>1, <1>1, <1>2, StoresCovered, TargetKept
    <2>3. Direct /\ Direct'
      BY <2>1, <1>2, <1>7, Zenon DEF AgreementInv, Direct
    <2>. QED
      BY <2>1, <2>2, <2>3, <1>1, <1>2, <1>7, Zenon DEF AgreementInv
  <1>8. CASE journal
    <2>1. /\ TRUE \in Modes /\ Journaled
          /\ target.applied <= LastCommitted(disk) + Len(pending)
          /\ \A i \in 1 .. Len(pending) :
                /\ pending[i].batch \in target.calls <=> Sequence(pending[i]) <= target.applied
                /\ Sequence(pending[i]) = LastCommitted(disk) + i
                /\ \A d \in survivors : JournaledIn(pending[i], d)
      BY <1>1, <1>2, <1>8, Zenon DEF AgreementInv, TargetQueueInv, SafetyInv, Queued
    <2>2. nextSequence > target.applied /\ nextSequence # 0
      BY <2>1, <1>3
    <2>3. /\ Agrees(w, target) /\ Batches(w.calls) \subseteq target.calls
          /\ \A x \in acked : Covered(x, w, target)
      BY <2>2, <1>1, <1>2, <1>8, JournalWriteAgrees
    <2>4. \A i \in 1 .. Len(pending) : JournaledIn(pending[i], w)
      <3>. SUFFICES ASSUME NEW i \in 1 .. Len(pending) PROVE JournaledIn(pending[i], w)
        OBVIOUS
      <3>1. nextSequence # Sequence(pending[i]) /\ JournaledIn(pending[i], disk)
        BY <2>1, <1>3
      <3>. QED
        BY <3>1, <1>1, <1>3, PutJournalKeeps
    <2>. HIDE DEF w
    <2>5. \A d \in survivors' : d \in survivors \/ d = w
      BY <1>8 DEF ReturnBatch, ReturnBatchFails, storeVars, call, w
    <2>6. disk' \in {disk, w} /\ LastCommitted(disk') = LastCommitted(disk)
      BY <1>5, <1>8 DEF ReturnBatch, ReturnBatchFails, storeVars, call, w, LastCommitted
    <2>7. /\ \A t \in target'.calls : t.seq # 0 /\ t.id < issued'
          /\ acked' \subseteq target'.calls /\ NeverAheadOfTarget' /\ AckedSurvives'
      <3>1. issued' >= issued /\ acked' \subseteq target.calls
        BY <1>2, <1>3 DEF AgreementInv
      <3>. QED
        BY <3>1, <2>3, <2>5, <1>1, <1>2, StoresCovered, TargetKept, SMTT(30)
    <2>8. Journaled'
      BY <2>1, <2>3, <2>5, <1>2 DEF Journaled, Agrees, Accepts, Replayed, LastCommitted
    <2>9. CASE pending' = pending
      <3>1. TargetQueueInv'
        <4>1. target'.applied <= LastCommitted(disk') + Len(pending')
          BY <2>1, <2>6, <2>9, <1>2
        <4>2. ASSUME NEW i \in 1 .. Len(pending')
              PROVE  /\ pending'[i].batch \in target'.calls <=> Sequence(pending'[i]) <= target'.applied
                     /\ \A d \in survivors' : JournaledIn(pending'[i], d)
          BY <2>1, <2>4, <2>5, <2>9, <1>2
        <4>. QED
          BY <4>1, <4>2 DEF TargetQueueInv, LastCommitted, Sequence, JournaledIn
      <3>2. health' # "closed"
        BY <1>2 DEF ReturnBatch, ReturnBatchFails
      <3>. QED
        BY <3>1, <3>2, <2>1, <2>7, <2>8, <1>1, <1>2, <1>8, Zenon DEF AgreementInv
    <2>10. CASE ReturnBatch
      <3>1. /\ pending' = Append(pending, e) /\ survivors' = {w} /\ health' = "healthy"
        BY <2>10, <1>2, <1>8 DEF ReturnBatch, call, e, w
      <3>2. /\ Len(pending') = l /\ pending'[l] = e
            /\ \A i \in 1 .. Len(pending) : pending'[i] = pending[i]
        BY <3>1, <1>3, <1>4
      <3>3. call \notin target.calls
        BY <1>2, <1>3 DEF AgreementInv
      <3>4. ASSUME NEW i \in 1 .. Len(pending')
            PROVE  /\ pending'[i].batch \in target'.calls <=> Sequence(pending'[i]) <= target'.applied
                   /\ \A d \in survivors' : JournaledIn(pending'[i], d)
        <4>1. CASE i = l
          <5>1. pending'[i] = e
            BY <4>1, <3>2
          <5>2. ~(nextSequence <= target.applied)
            BY <2>2, <1>3
          <5>. QED
            BY <5>1, <5>2, <3>1, <3>3, <1>2, <1>4, <1>6 DEF w
        <4>2. CASE i # l
          <5>1. i \in 1 .. Len(pending)
            BY <4>2, <3>2, <1>3
          <5>. QED
            BY <5>1, <3>1, <3>2, <2>1, <2>4, <1>2
        <4>. QED
          BY <4>1, <4>2
      <3>5. target'.applied <= LastCommitted(disk') + Len(pending')
        BY <3>2, <2>1, <2>6, <1>2, <1>3
      <3>6. TargetQueueInv'
        BY <3>4, <3>5 DEF TargetQueueInv, LastCommitted, Sequence, JournaledIn
      <3>. QED
        BY <3>1, <3>6, <2>1, <2>7, <2>8, <1>1, <1>2, <1>8, Zenon DEF AgreementInv
    <2>. QED
      BY <2>9, <2>10 DEF ReturnBatchFails
  <1>. QED
    BY <1>7, <1>8, SMTT(30)

\* A heartbeat that joins the newest queued batch.
LEMMA JoinAgrees ==
    ASSUME AgreementInv, JoinHeartbeat
    PROVE  AgreementInv'
  <1>. DEFINE call == NewCall(0)
              n == Len(pending)
              k == pending[n].joined + 1
              s == Sequence(pending[n])
              w == PutJournal(disk, s, k, call)
  <1>1. SafetyInv /\ SafetyInv' /\ Start(call)
    BY JoinSafe DEF AgreementInv, JoinHeartbeat
  <1>2. /\ health = "healthy" /\ issued' = issued + 1 /\ call \in Call
        /\ journal' = journal /\ target' = target /\ acked' = acked
    BY <1>1, CallStarts
  <1>3. /\ n \in Nat /\ n # 0 /\ disk \in Store /\ disk \in survivors /\ issued \in Nat
        /\ pending \in Seq(PendingAck) /\ target.applied \in Nat
    BY <1>1, LenProperties, EmptySeq, SMTT(30) DEF SafetyInv, TypeOK, JoinHeartbeat
  <1>4. /\ pending[n].joined \in Nat /\ s \in Nat /\ k \in Nat /\ k # 0
    BY <1>1, <1>3, EntryType DEF SafetyInv
  <1>5. w \in Store
    BY <1>2, <1>3, <1>4, PutJournalType
  <1>6. w.next = disk.next /\ LastCommitted(w) = LastCommitted(disk)
    BY <1>3, PutJournalFields DEF LastCommitted
  <1>7. /\ Len(pending') = n
        /\ \A i \in 1 .. n : pending'[i].batch = pending[i].batch
    BY <1>3 DEF JoinHeartbeat, PendingAck
  <1>8. health' = "healthy" /\ issued' >= issued /\ acked' \subseteq target.calls
    BY <1>2, <1>3 DEF JoinHeartbeat, AgreementInv
  <1>9. CASE ~journal
    <2>1. survivors' = survivors
      BY <1>9 DEF JoinHeartbeat, storeVars
    <2>2. /\ \A t \in target'.calls : t.seq # 0 /\ t.id < issued'
          /\ acked' \subseteq target'.calls /\ NeverAheadOfTarget' /\ AckedSurvives'
      BY <2>1, <1>1, <1>2, <1>8, StoresCovered, TargetKept
    <2>3. Direct /\ Direct'
      BY <2>1, <1>2, <1>9, Zenon DEF AgreementInv, Direct
    <2>. QED
      BY <2>2, <2>3, <1>1, <1>2, <1>8, <1>9, Zenon DEF AgreementInv
  <1>10. CASE journal
    <2>1. /\ TRUE \in Modes /\ Journaled
          /\ target.applied <= LastCommitted(disk) + Len(pending)
          /\ \A i \in 1 .. Len(pending) :
                /\ pending[i].batch \in target.calls <=> Sequence(pending[i]) <= target.applied
                /\ \A d \in survivors : JournaledIn(pending[i], d)
      BY <1>2, <1>10, Zenon DEF AgreementInv, TargetQueueInv
    <2>2. survivors' = survivors \cup {w} /\ disk' = w
      BY <1>10 DEF JoinHeartbeat
    <2>3. /\ Agrees(w, target) /\ Batches(w.calls) \subseteq target.calls
          /\ \A x \in acked : Covered(x, w, target)
      <3>. HIDE DEF call, s, k
      <3>. QED
        BY <1>2, <1>4, <1>10, JournalWriteAgrees
    <2>4. \A i \in 1 .. n : JournaledIn(pending[i], w)
      <3>. HIDE DEF call, s, k
      <3>. QED
        BY <2>1, <1>3, <1>4, PutJournalKeeps, Zenon
    <2>. HIDE DEF w, call, s, k
    <2>5. /\ \A t \in target'.calls : t.seq # 0 /\ t.id < issued'
          /\ acked' \subseteq target'.calls /\ NeverAheadOfTarget' /\ AckedSurvives'
      BY <2>2, <2>3, <1>1, <1>2, <1>8, StoresCovered, TargetKept
    <2>6. Journaled'
      BY <2>1, <2>2, <2>3, <1>2 DEF Journaled, Agrees, Accepts, Replayed, LastCommitted
    <2>7. ASSUME NEW i \in 1 .. Len(pending')
          PROVE  /\ pending'[i].batch \in target'.calls <=> Sequence(pending'[i]) <= target'.applied
                 /\ \A d \in survivors' : JournaledIn(pending'[i], d)
      <3>1. /\ pending'[i].batch = pending[i].batch /\ Sequence(pending'[i]) = Sequence(pending[i])
            /\ i \in 1 .. n
        BY <1>7 DEF Sequence
      <3>2. \A d \in survivors' : JournaledIn(pending[i], d)
        BY <3>1, <2>1, <2>2, <2>4
      <3>. QED
        BY <3>1, <3>2, <2>1, <1>2 DEF JournaledIn
    <2>8. target'.applied <= LastCommitted(disk') + Len(pending')
      BY <2>1, <2>2, <1>2, <1>6, <1>7
    <2>9. TargetQueueInv'
      BY <2>7, <2>8 DEF TargetQueueInv, LastCommitted, Sequence, JournaledIn
    <2>. QED
      BY <2>1, <2>5, <2>6, <2>9, <1>1, <1>2, <1>8, <1>10, Zenon DEF AgreementInv
  <1>. QED
    BY <1>9, <1>10

\* A heartbeat with an empty queue commits at once, or fails.
LEMMA HeartbeatAgrees ==
    ASSUME AgreementInv, CommitHeartbeat \/ HeartbeatFails
    PROVE  AgreementInv'
  <1>. DEFINE call == NewCall(0)
  <1>1. SafetyInv /\ SafetyInv' /\ Start(call)
    BY HeartbeatSafe, Zenon DEF AgreementInv, CommitHeartbeat, HeartbeatFails
  <1>2. /\ health = "healthy" /\ issued' = issued + 1 /\ call \in Call /\ call.seq = 0
        /\ journal' = journal /\ target' = target /\ acked' = acked
    BY <1>1, CallStarts
  <1>3. /\ disk \in Store /\ disk \in survivors /\ issued \in Nat /\ pending' = pending
        /\ nextSequence = disk.next + Len(pending) /\ target.applied \in Nat
        /\ JournalOf(pending, disk)
    BY <1>1, <1>2 DEF SafetyInv, TypeOK, CommitHeartbeat, HeartbeatFails
  <1>4. issued' >= issued /\ acked' \subseteq target.calls /\ health' # "closed"
    BY <1>2, <1>3 DEF AgreementInv, CommitHeartbeat, HeartbeatFails
  <1>. HIDE DEF call
  <1>5. CASE HeartbeatFails
    <2>1. survivors' = survivors /\ disk' = disk
      BY <1>5 DEF HeartbeatFails, storeVars
    <2>2. /\ \A t \in target'.calls : t.seq # 0 /\ t.id < issued'
          /\ acked' \subseteq target'.calls /\ NeverAheadOfTarget' /\ AckedSurvives'
      BY <2>1, <1>1, <1>2, <1>4, StoresCovered, TargetKept
    <2>3. (Direct' <=> Direct) /\ (Journaled' <=> Journaled) /\ (TargetQueueInv' <=> TargetQueueInv)
      BY <2>1, <1>2, <1>3 DEF Direct, Journaled, Agrees, Accepts, Replayed, LastCommitted,
                               TargetQueueInv, Sequence, JournaledIn
    <2>. QED
      BY <2>2, <2>3, <1>1, <1>2, <1>4, Zenon DEF AgreementInv
  <1>6. CASE CommitHeartbeat
    <2>. DEFINE w == [calls   |-> disk.calls \cup {call},
                      next    |-> nextSequence,
                      journal |-> disk.journal]
    <2>1. survivors' = survivors \cup {w} /\ disk' = w /\ Len(pending) = 0
      BY <1>6 DEF CommitHeartbeat, call
    <2>2. disk.journal = {}
      BY <2>1, <1>3 DEF JournalOf
    <2>3. w.next = disk.next
      BY <2>1, <1>3 DEF Store
    <2>4. /\ w.journal = {} /\ w.calls = disk.calls \cup {call}
          /\ LastCommitted(w) = LastCommitted(disk)
      BY <2>2, <2>3 DEF LastCommitted
    <2>. HIDE DEF w
    <2>5. Batches(w.calls) \subseteq target.calls /\ \A x \in acked : Covered(x, w, target)
      <3>1. /\ Batches(disk.calls) \subseteq target.calls
            /\ \A x \in acked : Covered(x, disk, target)
        BY <1>3, StoresCovered
      <3>2. Replayed(disk, target.applied) = {}
        BY <2>2 DEF Replayed
      <3>. QED
        BY <3>1, <3>2, <2>4, <1>2 DEF Covered, Batches
    <2>6. /\ \A t \in target'.calls : t.seq # 0 /\ t.id < issued'
          /\ acked' \subseteq target'.calls /\ NeverAheadOfTarget' /\ AckedSurvives'
      BY <2>1, <2>5, <1>1, <1>2, <1>4, StoresCovered, TargetKept
    <2>7. Direct => Direct'
      BY <2>1, <2>4, Zenon DEF Direct
    <2>8. Journaled => Journaled'
      <3>1. Agrees(disk, target) => Agrees(w, target)
        BY <2>2, <2>4 DEF Agrees, Accepts, Replayed
      <3>. QED
        BY <3>1, <2>1, <1>2, <1>3 DEF Journaled, Agrees, Accepts, Replayed, LastCommitted
    <2>9. TargetQueueInv => TargetQueueInv'
      <3>1. Len(pending') = 0 /\ \A i \in 1 .. Len(pending') : FALSE
        BY <2>1, <1>3
      <3>2. TargetQueueInv => target.applied <= LastCommitted(disk') + Len(pending')
        BY <2>1, <2>4, <1>3 DEF TargetQueueInv
      <3>. QED
        BY <3>1, <3>2, <1>2 DEF TargetQueueInv, LastCommitted
    <2>. QED
      BY <2>6, <2>7, <2>8, <2>9, <1>1, <1>2, <1>4, Zenon DEF AgreementInv
  <1>. QED
    BY <1>5, <1>6

\* The target applies the oldest batch that it lacks.
LEMMA ApplyAgrees ==
    ASSUME AgreementInv, Apply
    PROVE  AgreementInv'
  <1>1. /\ disk' = disk /\ survivors' = survivors /\ pending' = pending
        /\ journal' = journal /\ issued' = issued /\ health' = health /\ acked' = acked
    BY DEF Apply, storeVars, instanceVars
  <1>2. SafetyInv /\ SafetyInv'
    BY SafetyStep DEF AgreementInv, Next
  <1>3. PICK i \in 1 .. Len(pending) :
            /\ pending[i].batch \notin target.calls
            /\ \A j \in 1 .. i - 1 : pending[j].batch \in target.calls
            /\ target' = [calls   |-> target.calls \cup {pending[i].batch},
                          applied |-> Sequence(pending[i])]
    BY Zenon DEF Apply
  <1>. DEFINE a == target.applied
              c == LastCommitted(disk)
  <1>4. /\ Len(pending) \in Nat /\ disk \in Store /\ disk \in survivors /\ survivors \subseteq Store
        /\ issued \in Nat /\ a \in Nat /\ c \in Nat
        /\ \A j \in 1 .. Len(pending) : Sequence(pending[j]) = c + j
    <2>1. Len(pending) \in Nat
      BY <1>2, LenProperties, Zenon DEF SafetyInv, TypeOK
    <2>2. \A j \in 1 .. Len(pending) : Sequence(pending[j]) = c + j
      BY <1>2, Zenon DEF SafetyInv, Queued
    <2>. QED
      BY <2>1, <2>2, <1>2, SafeFacts, Zenon
  <1>5. health # "closed"
    BY <1>2, <1>4, EmptySeq, SMTT(30) DEF SafetyInv
  <1>6. pending[i].batch \in mem /\ pending[i].batch.id < issued
    <2>1. pending[i].batch \in mem
      BY <1>2, Zenon DEF SafetyInv, Queued, Calls
    <2>. QED
      BY <2>1, <1>2, <1>5, Zenon DEF SafetyInv, Remembered
  <1>7. pending[i].batch.seq # 0
    BY <1>4, SMTT(30) DEF Sequence
  <1>8. target'.calls = target.calls \cup {pending[i].batch} /\ target'.applied = c + i
    BY <1>3, <1>4, SMTT(30)
  <1>9. \A t \in target'.calls : t.seq # 0 /\ t.id < issued'
    BY <1>1, <1>6, <1>7, <1>8 DEF AgreementInv
  <1>10. NeverAheadOfTarget' /\ acked' \subseteq target'.calls
    BY <1>1, <1>8 DEF AgreementInv, NeverAheadOfTarget, Batches
  <1>11. CASE ~journal
    <2>1. Direct
      BY <1>5, <1>11 DEF AgreementInv
    <2>2. Direct'
      BY <2>1, <1>1, Zenon DEF Direct
    <2>3. \A d \in survivors : Replayed(d, a) = {} /\ Replayed(d, target'.applied) = {}
      BY <2>1 DEF Direct, Replayed
    <2>4. AckedSurvives'
      BY <2>3, <1>1 DEF AgreementInv, AckedSurvives, Replayed, LastCommitted
    <2>. QED
      BY <2>2, <2>4, <1>1, <1>2, <1>5, <1>9, <1>10, <1>11, Zenon DEF AgreementInv
  <1>12. CASE journal
    <2>1. /\ TRUE \in Modes /\ Journaled
          /\ a <= c + Len(pending)
          /\ \A j \in 1 .. Len(pending) :
                /\ pending[j].batch \in target.calls <=> Sequence(pending[j]) <= a
                /\ \A d \in survivors : JournaledIn(pending[j], d)
      BY <1>5, <1>12, Zenon DEF AgreementInv, TargetQueueInv
    <2>2. a < c + i /\ c <= a
      <3>1. ~(c + i <= a)
        BY <2>1, <1>3, <1>4
      <3>. QED
        BY <3>1, <2>1, <1>4 DEF Journaled, Agrees, Accepts
    <2>3. ASSUME NEW d \in survivors
          PROVE  /\ Agrees(d, target')
                 /\ Replayed(d, a) \subseteq Replayed(d, target'.applied)
      <3>. DEFINE m == LastCommitted(d)
      <3>1. m \in Nat /\ m <= c /\ d \in Store /\ Agrees(d, target)
        <4>1. m \in Nat /\ m <= c /\ d \in Store
          BY <1>2, SurvivorSequence, Zenon
        <4>. QED
          BY <4>1, <2>1, Zenon DEF Journaled
      <3>2. \A p \in d.journal : p.sequence \in Nat
        BY <3>1 DEF Store, JournalPart
      <3>3. Replayed(d, a) \subseteq Replayed(d, target'.applied)
        BY <3>2, <2>2, <1>4, <1>8 DEF Replayed
      <3>4. ASSUME NEW s \in Nat, s > a, s <= c + i
            PROVE  \E j \in 1 .. i : /\ s = Sequence(pending[j])
                                     /\ pending[j].batch \in target'.calls
                                     /\ JournaledIn(pending[j], d)
        <4>1. s - c \in 1 .. i /\ s = c + (s - c)
          BY <3>4, <2>2, <1>4
        <4>2. PICK j \in 1 .. i : s = c + j
          BY <4>1
        <4>3. j \in 1 .. Len(pending) /\ (j = i \/ j \in 1 .. i - 1)
          BY <1>4
        <4>. QED
          BY <4>2, <4>3, <2>1, <1>3, <1>4, <1>8, Zenon
      <3>5. Accepts(d, target'.applied)
        <4>1. target'.applied >= m
          BY <3>1, <1>4, <1>8
        <4>2. ASSUME NEW s \in m + 1 .. target'.applied
              PROVE  \E p \in d.journal : p.sequence = s /\ p.part = 0
          <5>1. s \in Nat /\ s > m /\ s <= c + i
            BY <3>1, <1>4, <1>8
          <5>2. CASE s <= a
            <6>1. s \in m + 1 .. a
              BY <5>1, <5>2, <3>1, <1>4
            <6>. QED
              BY <6>1, <3>1 DEF Agrees, Accepts
          <5>3. CASE s > a
            <6>1. PICK j \in 1 .. i : s = Sequence(pending[j]) /\ JournaledIn(pending[j], d)
              BY <5>1, <5>3, <3>4
            <6>. QED
              BY <6>1, <5>1 DEF JournaledIn
          <5>. QED
            BY <5>1, <5>2, <5>3, <1>4
        <4>. QED
          BY <4>1, <4>2 DEF Accepts
      <3>6. ASSUME NEW p \in Replayed(d, target'.applied), p.part = 0
            PROVE  p.call \in target'.calls
        <4>1. p \in d.journal /\ p.sequence \in Nat /\ p.sequence > m /\ p.sequence <= c + i
          BY <3>2, <1>8 DEF Replayed
        <4>2. CASE p.sequence <= a
          <5>1. p \in Replayed(d, a)
            BY <4>1, <4>2 DEF Replayed
          <5>. QED
            BY <5>1, <3>1, <3>6, <1>8 DEF Agrees
        <4>3. CASE p.sequence > a
          <5>1. PICK j \in 1 .. i : /\ p.sequence = Sequence(pending[j])
                                    /\ pending[j].batch \in target'.calls
                                    /\ JournaledIn(pending[j], d)
            BY <4>1, <4>3, <3>4
          <5>2. p.call = pending[j].batch
            BY <5>1, <4>1, <3>6, SMTT(30) DEF JournaledIn
          <5>. QED
            BY <5>1, <5>2
        <4>. QED
          BY <4>1, <4>2, <4>3, <1>4
      <3>. QED
        BY <3>3, <3>5, <3>6, SMTT(30) DEF Agrees
    <2>4. Journaled'
      BY <2>3, <1>1 DEF Journaled, Agrees, Accepts, Replayed, LastCommitted
    <2>5. AckedSurvives'
      <3>1. \A d \in survivors : \A x \in acked :
                x \in d.calls \/ \E p \in Replayed(d, a) : x = p.call
        BY DEF AgreementInv, AckedSurvives
      <3>2. \A d \in survivors : \A x \in acked :
                x \in d.calls \/ \E p \in Replayed(d, target'.applied) : x = p.call
        BY <3>1, <2>3
      <3>. QED
        BY <3>2, <1>1 DEF AckedSurvives, Replayed, LastCommitted
    <2>6. ASSUME NEW j \in 1 .. Len(pending)
          PROVE  pending[j].batch \in target'.calls <=> Sequence(pending[j]) <= target'.applied
      <3>1. CASE j <= i
        <4>1. j = i \/ j \in 1 .. i - 1
          BY <3>1, <1>4, SMTT(30)
        <4>. QED
          BY <4>1, <3>1, <1>3, <1>4, <1>8, SMTT(30)
      <3>2. CASE j > i
        <4>1. ~(Sequence(pending[j]) <= target'.applied) /\ ~(Sequence(pending[j]) <= a)
          BY <3>2, <2>2, <1>4, <1>8, SMTT(30)
        <4>2. pending[j].batch # pending[i].batch
          <5>1. Sequence(pending[j]) # Sequence(pending[i])
            BY <3>2, <1>4, SMTT(30)
          <5>. QED
            BY <5>1 DEF Sequence
        <4>. QED
          BY <4>1, <4>2, <2>1, <1>8, SMTT(30)
      <3>. QED
        BY <3>1, <3>2, <1>4, SMTT(30)
    <2>7. TargetQueueInv'
      <3>1. target'.applied <= LastCommitted(disk') + Len(pending')
        BY <1>1, <1>4, <1>8
      <3>. QED
        BY <3>1, <2>1, <2>6, <1>1, SMTT(30) DEF TargetQueueInv, LastCommitted, Sequence, JournaledIn
    <2>. QED
      BY <2>1, <2>4, <2>5, <2>7, <1>1, <1>2, <1>5, <1>9, <1>10, <1>12, Zenon DEF AgreementInv
  <1>. QED
    BY <1>11, <1>12

\* An ack of batches that the target applied, also one that fails part way.
LEMMA AckAgrees ==
    ASSUME AgreementInv, NEW n \in 1 .. Len(pending), NEW k \in 0 .. n,
           Ack(n, k) \/ AckSyncFails(n, k)
    PROVE  AgreementInv'
  <1>. DEFINE c == LastCommitted(disk)
              a == target.applied
              batches == {pending[i].batch : i \in 1 .. n}
  <1>1. SafetyInv /\ SafetyInv'
    BY AckSafe DEF AgreementInv
  <1>2. /\ health \in {"healthy", "poisoned"} /\ health' # "closed"
        /\ disk' = Committed(k)
        /\ pending' = SubSeq(pending, k + 1, Len(pending))
        /\ journal' = journal /\ issued' = issued /\ target' = target
        /\ \A i \in 1 .. n : pending[i].batch \in target.calls
        /\ \A d \in survivors' : d \in survivors \/ \E i \in 1 .. k : d = Committed(i)
        /\ acked' = acked \/ (k = n /\ Ack(n, k) /\ acked' = acked \cup batches)
    BY DEF Ack, AckSyncFails, AckCommits
  <1>3. /\ Len(pending) \in Nat /\ pending \in Seq(PendingAck) /\ disk \in Store
        /\ disk \in survivors /\ survivors \subseteq Store /\ issued \in Nat
        /\ k \in Nat /\ n \in Nat /\ a \in Nat /\ c \in Nat
    <2>1. pending \in Seq(PendingAck) /\ Len(pending) \in Nat
      BY <1>1, LenProperties, Zenon DEF SafetyInv, TypeOK
    <2>2. k \in Nat /\ n \in Nat
      BY <2>1
    <2>. QED
      BY <2>1, <2>2, <1>1, SafeFacts, Zenon
  <1>4. \A i \in 1 .. Len(pending) : Sequence(pending[i]) = c + i
    BY <1>1, Zenon DEF SafetyInv, Queued
  <1>5. acked' \subseteq target.calls /\ issued' >= issued
    <2>1. acked \subseteq target.calls /\ batches \subseteq target.calls
      BY <1>2, Zenon DEF AgreementInv
    <2>2. issued' = issued /\ issued \in Nat
      BY <1>2, <1>3, Zenon
    <2>3. acked' \subseteq target.calls
      BY <2>1, <1>2, Zenon
    <2>. QED
      BY <2>2, <2>3
  <1>6. \A i \in 1 .. k : i \in 1 .. Len(pending) /\ \A j \in 1 .. i : pending[j].batch \in target.calls
    <2>1. ASSUME NEW i \in 1 .. k, NEW j \in 1 .. i
          PROVE  i \in 1 .. Len(pending) /\ i \in 1 .. i /\ j \in 1 .. n
      BY <1>3
    <2>. QED
      BY <2>1, <1>2, <1>3
  <1>7. ASSUME NEW i \in 1 .. k PROVE Batches(Committed(i).calls) \subseteq target.calls
    <2>. SUFFICES ASSUME NEW x \in Committed(i).calls, x.seq # 0 PROVE x \in target.calls
      BY DEF Batches
    <2>1. x \in disk.calls \/ \E j \in 1 .. i : x \in Calls(pending[j])
      BY <1>1, <1>6, CommittedParts
    <2>2. CASE x \in disk.calls
      BY <2>2, <1>3, StoresCovered DEF Batches
    <2>3. CASE \E j \in 1 .. i : x \in Calls(pending[j])
      <3>1. PICK j \in 1 .. i : x \in Calls(pending[j])
        BY <2>3
      <3>2. j \in 1 .. Len(pending)
        BY <1>6, <1>3, SMTT(30)
      <3>3. Batches(pending[j].beats) = {}
        BY <3>2, <1>1, Zenon DEF SafetyInv, Queued
      <3>4. x = pending[j].batch
        BY <3>1, <3>3 DEF Batches, Calls
      <3>. QED
        BY <3>4, <1>6
    <2>. QED
      BY <2>1, <2>2, <2>3
  <1>8. CASE ~journal
    <2>1. Direct
      BY <1>2, <1>8, Zenon DEF AgreementInv
    <2>2. ASSUME NEW i \in 1 .. k
          PROVE  /\ Committed(i).journal = {} /\ disk.calls \subseteq Committed(i).calls
                 /\ \A j \in 1 .. i : pending[j].batch \in Committed(i).calls
      <3>1. /\ Committed(i).journal \subseteq disk.journal
            /\ \A x : x \in Committed(i).calls <=>
                        x \in disk.calls \/ \E j \in 1 .. i : x \in Calls(pending[j])
        BY <1>1, <1>6, CommittedParts
      <3>. QED
        BY <3>1, <2>1, <1>3, Zenon DEF Direct, Calls
    <2>3. Direct'
      BY <2>1, <2>2, <1>2, Zenon DEF Direct
    <2>4. \A d \in survivors : Replayed(d, a) = {} /\ acked \subseteq d.calls
      <3>1. \A d \in survivors : Replayed(d, a) = {}
        BY <2>1 DEF Direct, Replayed
      <3>. QED
        BY <3>1, StoresCovered DEF Covered
    <2>5. ASSUME NEW d \in survivors'
          PROVE  /\ Batches(d.calls) \subseteq target.calls
                 /\ \A x \in acked' : Covered(x, d, target)
      <3>1. Batches(d.calls) \subseteq target.calls
        <4>1. d \in survivors \/ \E i \in 1 .. k : d = Committed(i)
          BY <1>2, Zenon
        <4>2. CASE d \in survivors
          BY <4>2, StoresCovered, Zenon
        <4>3. CASE \E i \in 1 .. k : d = Committed(i)
          BY <4>3, <1>7, Zenon
        <4>. QED
          BY <4>1, <4>2, <4>3, Zenon
      <3>2. acked \subseteq d.calls
        BY <2>2, <2>4, <1>2, <1>3
      <3>3. CASE acked' = acked
        BY <3>1, <3>2, <3>3 DEF Covered
      <3>4. CASE k = n /\ Ack(n, k) /\ acked' = acked \cup batches
        <4>1. d = Committed(n) /\ n \in 1 .. k
          BY <3>4, <1>3, <1>8 DEF Ack
        <4>2. batches \subseteq d.calls
          BY <4>1, <2>2
        <4>. QED
          BY <4>2, <3>1, <3>2, <3>4 DEF Covered
      <3>. QED
        BY <3>3, <3>4, <1>2, Zenon
    <2>6. /\ \A t \in target'.calls : t.seq # 0 /\ t.id < issued'
          /\ acked' \subseteq target'.calls /\ NeverAheadOfTarget' /\ AckedSurvives'
      BY <2>5, <1>1, <1>2, <1>5, TargetKept, Zenon
    <2>. QED
      BY <2>1, <2>3, <2>6, <1>1, <1>2, <1>8, Zenon DEF AgreementInv
  <1>9. CASE journal
    <2>1. /\ TRUE \in Modes /\ Journaled /\ TargetQueueInv
          /\ \A i \in 1 .. Len(pending) :
                /\ pending[i].batch \in target.calls <=> Sequence(pending[i]) <= a
                /\ \A d \in survivors : JournaledIn(pending[i], d)
      BY <1>2, <1>9, Zenon DEF AgreementInv, TargetQueueInv
    <2>2. ASSUME NEW d \in survivors, NEW x \in acked' PROVE Covered(x, d, target) /\ x.seq # 0
      <3>1. CASE x \in acked
        BY <3>1, StoresCovered, Zenon DEF AgreementInv
      <3>2. CASE x \in batches
        <4>1. PICK i \in 1 .. n : x = pending[i].batch
          BY <3>2
        <4>2. /\ i \in 1 .. Len(pending) /\ Sequence(pending[i]) <= a
              /\ Sequence(pending[i]) = c + i /\ x.seq = Sequence(pending[i])
          <5>1. i \in 1 .. Len(pending)
            BY <1>3
          <5>2. pending[i].batch \in target.calls
            BY <1>2, Zenon
          <5>3. Sequence(pending[i]) <= a /\ Sequence(pending[i]) = c + i
            BY <5>1, <5>2, <2>1, <1>4, Zenon
          <5>. QED
            BY <5>1, <5>3, <4>1, Zenon DEF Sequence
        <4>3. LastCommitted(d) <= c /\ LastCommitted(d) \in Nat
          BY <1>1, SurvivorSequence, Zenon
        <4>4. Sequence(pending[i]) > LastCommitted(d) /\ x.seq # 0
          BY <4>2, <4>3, <1>3
        <4>5. PICK p \in d.journal : p.sequence = Sequence(pending[i]) /\ p.part = 0
                                        /\ p.call = pending[i].batch
          BY <4>2, <4>4, <2>1 DEF JournaledIn
        <4>6. p \in Replayed(d, a)
          BY <4>2, <4>4, <4>5 DEF Replayed
        <4>. QED
          BY <4>1, <4>4, <4>5, <4>6 DEF Covered
      <3>. QED
        BY <3>1, <3>2, <1>2
    <2>3. ASSUME NEW i \in 1 .. k
          PROVE  /\ Agrees(Committed(i), target)
                 /\ \A j \in 1 .. Len(pending) : JournaledIn(pending[j], Committed(i))
                 /\ \A x \in acked' : Covered(x, Committed(i), target)
      <3>1. /\ Agrees(disk, target) => Agrees(Committed(i), target)
            /\ \A j \in 1 .. Len(pending) : JournaledIn(pending[j], Committed(i))
            /\ \A x : Covered(x, disk, target) /\ x.seq # 0 => Covered(x, Committed(i), target)
        BY <2>1, <1>1, <1>6, CommittedAgrees, SMTT(30)
      <3>. QED
        BY <3>1, <2>1, <2>2, <1>3 DEF Journaled
    <2>4. ASSUME NEW d \in survivors'
          PROVE  /\ Batches(d.calls) \subseteq target.calls
                 /\ \A x \in acked' : Covered(x, d, target)
                 /\ Agrees(d, target)
                 /\ \A j \in 1 .. Len(pending) : JournaledIn(pending[j], d)
      <3>1. CASE d \in survivors
        BY <3>1, <2>1, <2>2, StoresCovered, Zenon DEF Journaled
      <3>2. CASE \E i \in 1 .. k : d = Committed(i)
        BY <3>2, <2>3, <1>7, ZenonT(30)
      <3>. QED
        BY <3>1, <3>2, <1>2, SMTT(30)
    <2>5. /\ \A t \in target'.calls : t.seq # 0 /\ t.id < issued'
          /\ acked' \subseteq target'.calls /\ NeverAheadOfTarget' /\ AckedSurvives'
      BY <2>4, <1>1, <1>2, <1>5, TargetKept, ZenonT(30)
    <2>6. Journaled'
      BY <2>4, <1>2 DEF Journaled, Agrees, Accepts, Replayed, LastCommitted
    <2>7. LastCommitted(disk') = c + k
      <3>1. CASE k = 0
        BY <3>1, <1>2, <1>3, SMTT(30) DEF Committed, LastCommitted
      <3>2. CASE k # 0
        <4>1. k \in 1 .. Len(pending)
          BY <3>2, <1>3
        <4>. QED
          BY <4>1, <1>1, <1>2, CommittedParts
      <3>. QED
        BY <3>1, <3>2
    <2>8. /\ Len(pending') = Len(pending) - k
          /\ \A i \in 1 .. Len(pending') : pending'[i] = pending[i + k] /\ i + k \in 1 .. Len(pending)
      <3>1. /\ Len(pending') = Len(pending) - k
            /\ \A i \in 1 .. Len(pending') : pending'[i] = pending[k + 1 + i - 1]
        BY <1>2, <1>3, SubSeqProperties
      <3>2. ASSUME NEW i \in 1 .. Len(pending')
            PROVE  k + 1 + i - 1 = i + k /\ i + k \in 1 .. Len(pending)
        BY <3>1, <1>3
      <3>. QED
        BY <3>1, <3>2
    <2>9. TargetQueueInv'
      <3>1. target'.applied <= LastCommitted(disk') + Len(pending')
        <4>1. a <= c + Len(pending)
          BY <2>1, Zenon DEF TargetQueueInv
        <4>. QED
          BY <4>1, <2>7, <2>8, <1>2, <1>3
      <3>2. ASSUME NEW i \in 1 .. Len(pending')
            PROVE  /\ pending'[i].batch \in target'.calls <=> Sequence(pending'[i]) <= target'.applied
                   /\ \A d \in survivors' : JournaledIn(pending'[i], d)
        BY <2>1, <2>4, <2>8, <1>2, Zenon
      <3>. QED
        BY <3>1, <3>2 DEF TargetQueueInv, LastCommitted, Sequence, JournaledIn
    <2>. QED
      BY <2>1, <2>5, <2>6, <2>9, <1>1, <1>2, <1>9, Zenon DEF AgreementInv
  <1>. QED
    BY <1>8, <1>9

\* A crash or a power loss.
LEMMA CloseAgrees ==
    ASSUME AgreementInv, Crash \/ PowerLoss
    PROVE  AgreementInv'
  <1>1. SafetyInv /\ SafetyInv'
    BY CloseSafe DEF AgreementInv
  <1>2. /\ health' = "closed" /\ journal' = FALSE /\ target' = target /\ acked' = acked
        /\ issued' = issued /\ \A d \in survivors' : d \in survivors
    BY DEF Crash, PowerLoss, Close, storeVars, hostVars
  <1>3. issued' >= issued /\ acked' \subseteq target.calls
    <2>1. issued \in Nat /\ acked \subseteq target.calls
      BY <1>1, SafeFacts, Zenon DEF AgreementInv
    <2>. QED
      BY <2>1, <1>2
  <1>4. /\ \A t \in target'.calls : t.seq # 0 /\ t.id < issued'
        /\ acked' \subseteq target'.calls /\ NeverAheadOfTarget' /\ AckedSurvives'
    BY <1>1, <1>2, <1>3, StoresCovered, TargetKept, Zenon
  <1>5. (Direct => Direct') /\ (Journaled => Journaled')
    BY <1>2, Zenon DEF Direct, Journaled, Agrees, Accepts, Replayed, LastCommitted
  <1>6. Direct \/ Journaled
    BY ZenonT(30) DEF AgreementInv
  <1>. QED
    BY <1>1, <1>2, <1>4, <1>5, <1>6, Zenon DEF AgreementInv

\* An open, also one whose sync of the recovery fails.
LEMMA OpenAgrees ==
    ASSUME AgreementInv, OneModeOrSync, NEW mode \in Modes, Open(mode) \/ OpenSyncFails(mode)
    PROVE  AgreementInv'
  <1>. DEFINE r == Recovered(mode, disk)
              a == target.applied
  <1>1. SafetyInv /\ SafetyInv'
    BY OpenSafe DEF AgreementInv
  <1>2. /\ health = "closed" /\ Recovers(mode, disk) /\ disk' = r
        /\ target' = target /\ acked' = acked /\ issued' = issued
        /\ mode \in BOOLEAN
        /\ Direct \/ Journaled
    BY ModesAssumption DEF Open, OpenSyncFails, hostVars, instanceVars, AgreementInv
  <1>3. /\ disk \in Store /\ disk \in survivors /\ survivors \subseteq Store /\ issued \in Nat
        /\ target \in [calls : SUBSET Call, applied : Nat] /\ a \in Nat
        /\ Snapshot(disk, disk, issued)
    BY <1>1, SafeFacts, Zenon
  <1>4. r \in Store /\ r.journal = {}
    BY <1>1, <1>2, RecoveredSnapshot, Zenon
  <1>5. disk.journal = {} => r = disk
    BY <1>3, NothingToRecover, SMTT(30)
  <1>6. mode => r = Reconciled(disk, a) /\ Accepts(disk, a)
    BY <1>2 DEF Recovers, Recovered
  <1>7. ~mode => disk.journal = {}
    BY <1>2, SMTT(30) DEF Recovers
  <1>8. mode => LastCommitted(r) = a /\ Agrees(r, target)
    BY <1>3, <1>6, ReconciledAgrees, Zenon
  <1>9. Batches(r.calls) \subseteq target.calls /\ \A x \in acked : Covered(x, r, target)
    <2>1. CASE disk.journal = {}
      BY <2>1, <1>3, <1>5, StoresCovered, SMTT(30)
    <2>2. CASE disk.journal # {}
      <3>1. mode /\ Agrees(disk, target)
        BY <2>2, <1>2, <1>3, <1>7, Zenon DEF Direct, Journaled
      <3>2. \A x \in acked : x \in r.calls
        BY <3>1, <1>3, <1>6, ReconciledAgrees, StoresCovered, Zenon
      <3>3. ASSUME NEW x \in r.calls, x.seq # 0 PROVE x \in target.calls
        <4>1. CASE x \in disk.calls
          BY <4>1, <3>3, <1>3, StoresCovered DEF Batches
        <4>2. CASE \E p \in Replayed(disk, a) : x = p.call
          <5>1. PICK p \in Replayed(disk, a) : x = p.call
            BY <4>2
          <5>2. p \in disk.journal
            BY DEF Replayed
          <5>3. p.part = 0
            BY <5>1, <5>2, <3>3, <1>3 DEF Snapshot
          <5>. QED
            BY <5>1, <5>3, <3>1 DEF Agrees
        <4>3. r.calls = disk.calls \cup {p.call : p \in Replayed(disk, a)}
          <5>1. r = Reconciled(disk, a)
            BY <3>1, <1>6, Zenon
          <5>2. Reconciled(disk, a).calls = disk.calls \cup {p.call : p \in Replayed(disk, a)}
            BY DEF Reconciled
          <5>. HIDE DEF r
          <5>. QED
            BY <5>1, <5>2
        <4>. HIDE DEF r
        <4>. QED
          BY <4>1, <4>2, <4>3, <3>3
      <3>. QED
        BY <3>2, <3>3 DEF Batches, Covered
    <2>. QED
      BY <2>1, <2>2, SMTT(30)
  <1>. HIDE DEF r
  <1>10. \A d \in survivors' : d \in survivors \/ d = r
    BY <1>3, Zenon DEF Open, OpenSyncFails, BackendOpened, r
  <1>11. /\ \A t \in target'.calls : t.seq # 0 /\ t.id < issued'
         /\ acked' \subseteq target'.calls /\ NeverAheadOfTarget' /\ AckedSurvives'
    <2>1. issued' >= issued /\ acked' \subseteq target.calls
      BY <1>2, <1>3 DEF AgreementInv
    <2>. QED
      BY <2>1, <1>1, <1>2, <1>9, <1>10, StoresCovered, TargetKept, Zenon
  <1>12. ASSUME TRUE \notin Modes PROVE Direct'
    <2>1. Direct /\ mode = FALSE
      BY <1>2, <1>12, Zenon DEF AgreementInv
    <2>. QED
      BY <2>1, <1>4, <1>10, Zenon DEF Direct
  <1>13. CASE Open(mode)
    <2>1. /\ health' = "healthy" /\ journal' = mode /\ pending' = <<>> /\ Len(pending') = 0
          /\ survivors' = IF disk.journal = {} THEN BackendOpened ELSE {r}
      <3>1. /\ health' = "healthy" /\ journal' = mode /\ pending' = <<>>
            /\ survivors' = IF disk.journal = {} THEN BackendOpened ELSE {r}
        BY <1>13, Zenon DEF Open, r
      <3>2. Len(<<>>) = 0
        BY Zenon
      <3>. QED
        BY <3>1, <3>2, Zenon
    <2>2. CASE ~mode
      <3>1. FALSE \in Modes /\ mode = FALSE
        BY <2>2, <1>2, Zenon
      <3>2. \A d \in survivors' : d.journal = {}
        <4>1. CASE OpenSyncs
          BY <4>1, <2>1, <2>2, <1>7 DEF BackendOpened
        <4>2. CASE Modes # BOOLEAN
          <5>1. TRUE \notin Modes
            BY <4>2, <3>1, ModesAssumption, Zenon
          <5>. QED
            BY <5>1, <1>12 DEF Direct
        <4>. QED
          BY <4>1, <4>2 DEF OneModeOrSync
      <3>3. Direct'
        BY <3>1, <3>2, Zenon DEF Direct
      <3>. QED
        BY <3>1, <3>3, <2>1, <1>1, <1>11, Zenon DEF AgreementInv
    <2>3. CASE mode
      <3>1. mode = TRUE /\ TRUE \in Modes
        BY <2>3, <1>2, Zenon
      <3>2. Journaled'
        <4>1. \A d \in survivors' : Agrees(d, target)
          <5>1. CASE disk.journal # {}
            BY <5>1, <2>1, <2>3, <1>8
          <5>2. CASE disk.journal = {} /\ OpenSyncs
            BY <5>2, <2>1, <2>3, <1>5, <1>8 DEF BackendOpened
          <5>3. CASE Modes # BOOLEAN
            <6>1. FALSE \notin Modes
              BY <5>3, <3>1, ModesAssumption, Zenon
            <6>2. Journaled
              BY <6>1, <1>2, Zenon DEF Direct
            <6>. QED
              BY <6>2, <1>8, <1>10, <2>3 DEF Journaled
          <5>. QED
            BY <5>1, <5>2, <5>3 DEF OneModeOrSync
        <4>. QED
          BY <4>1, <1>2, Zenon DEF Journaled, Agrees, Accepts, Replayed, LastCommitted
      <3>3. TargetQueueInv'
        <4>1. target'.applied <= LastCommitted(disk') + Len(pending')
          <5>1. target'.applied = a /\ LastCommitted(disk') = a /\ Len(pending') = 0
            BY <2>1, <2>3, <1>2, <1>8, Zenon
          <5>. QED
            BY <5>1, <1>3
        <4>2. \A i \in 1 .. Len(pending') : FALSE
          BY <2>1
        <4>. QED
          BY <4>1, <4>2 DEF TargetQueueInv, LastCommitted
      <3>. QED
        BY <3>1, <3>2, <3>3, <2>1, <1>1, <1>11, Zenon DEF AgreementInv
    <2>. QED
      BY <2>2, <2>3
  <1>14. CASE OpenSyncFails(mode)
    <2>1. disk.journal # {} /\ health' = "closed"
      BY <1>2, <1>14, Zenon DEF OpenSyncFails, instanceVars
    <2>2. mode /\ TRUE \in Modes /\ Journaled
      BY <2>1, <1>2, <1>3, <1>7, Zenon DEF Direct
    <2>3. Journaled'
      <3>1. \A d \in survivors' : Agrees(d, target)
        BY <2>2, <1>8, <1>10 DEF Journaled
      <3>. QED
        BY <3>1, <1>2 DEF Journaled, Agrees, Accepts, Replayed, LastCommitted
    <2>. QED
      BY <2>1, <2>2, <2>3, <1>1, <1>11, Zenon DEF AgreementInv
  <1>. QED
    BY <1>13, <1>14

\* Every step keeps the invariant of the store and the target.
LEMMA AgreementStep == OneModeOrSync /\ AgreementInv /\ [Next]_vars => AgreementInv'
  <1>. SUFFICES ASSUME OneModeOrSync, AgreementInv, [Next]_vars PROVE AgreementInv'
    OBVIOUS
  <1>1. SafetyInv'
    BY SafetyStep DEF AgreementInv
  <1>2. CASE EnginePoison \/ UNCHANGED vars
    <2>1. /\ disk' = disk /\ survivors' = survivors /\ pending' = pending
          /\ journal' = journal /\ issued' = issued /\ target' = target /\ acked' = acked
          /\ health' # "closed" <=> health # "closed"
      BY <1>2 DEF EnginePoison, vars, storeVars, instanceVars, hostVars
    <2>2. issued' >= issued /\ acked' \subseteq target.calls
      BY <2>1 DEF AgreementInv, SafetyInv, TypeOK
    <2>3. /\ \A t \in target'.calls : t.seq # 0 /\ t.id < issued'
          /\ acked' \subseteq target'.calls /\ NeverAheadOfTarget' /\ AckedSurvives'
      BY <2>1, <2>2, <1>1, StoresCovered, TargetKept, SMTT(30)
    <2>4. (Direct' <=> Direct) /\ (Journaled' <=> Journaled) /\ (TargetQueueInv' <=> TargetQueueInv)
      BY <2>1 DEF Direct, Journaled, Agrees, Accepts, Replayed, LastCommitted,
                  TargetQueueInv, Sequence, JournaledIn
    <2>. QED
      BY <2>1, <2>3, <2>4, <1>1, Zenon DEF AgreementInv
  <1>. QED
    BY <1>2, ReturnAgrees, JoinAgrees, HeartbeatAgrees, ApplyAgrees, AckAgrees, CloseAgrees,
       OpenAgrees DEF Next

\* A new store satisfies the invariant.
LEMMA AgreementInit == Init => AgreementInv
  <1>. SUFFICES ASSUME Init PROVE AgreementInv
    OBVIOUS
  <1>1. /\ SafetyInv /\ health = "closed" /\ survivors = {EmptyStore} /\ acked = {}
        /\ target.calls = {} /\ target.applied = 0
    BY SafetyInit DEF Init
  <1>2. EmptyStore.calls = {} /\ EmptyStore.journal = {} /\ EmptyStore.next = 1
    BY DEF EmptyStore
  <1>3. NeverAheadOfTarget /\ AckedSurvives
    BY <1>1, <1>2 DEF NeverAheadOfTarget, AckedSurvives, Batches
  <1>4. Journaled
    BY <1>1, <1>2 DEF Journaled, Agrees, Accepts, Replayed, LastCommitted
  <1>5. TRUE \notin Modes => Direct
    <2>1. TRUE \notin Modes => FALSE \in Modes
      BY ModesAssumption, Zenon
    <2>. QED
      BY <2>1, <1>1, <1>2, Zenon DEF Direct
  <1>. QED
    BY <1>1, <1>3, <1>4, <1>5, Zenon DEF AgreementInv

\* In every reachable state the stores that a crash may leave, the queue and
\* the target agree.
THEOREM AgreementInvariant ==
    ASSUME OneModeOrSync
    PROVE  Spec => []AgreementInv
  <1>1. AgreementInv /\ [Next]_vars => AgreementInv'
    BY AgreementStep
  <1>. QED
    BY <1>1, AgreementInit, PTL DEF Spec

\* Whatever a crash leaves in the store, with a journal or without, the
\* target applied each batch in it.
THEOREM SettleBehindTarget ==
    ASSUME OneModeOrSync
    PROVE  Spec => []NeverAheadOfTarget
  <1>1. AgreementInv => NeverAheadOfTarget
    BY DEF AgreementInv
  <1>. QED
    BY <1>1, AgreementInvariant, PTL

\* A batch whose ack returned Ok outlives every crash and power loss, in the
\* store or in a journal part that the next open replays.
THEOREM AckIsDurable ==
    ASSUME OneModeOrSync
    PROVE  Spec => []AckedSurvives
  <1>1. AgreementInv => AckedSurvives
    BY DEF AgreementInv
  <1>. QED
    BY <1>1, AgreementInvariant, PTL

\* No crash, power loss or failed recovery leaves a store that refuses every
\* open that the hosts make.
THEOREM SomeOpenSucceeds ==
    ASSUME OneModeOrSync
    PROVE  Spec => []OpenNeverBlocked
  <1>1. AgreementInv => OpenNeverBlocked
    <2>. SUFFICES ASSUME AgreementInv, health = "closed"
                  PROVE  \E mode \in Modes : Recovers(mode, disk)
      BY SMTT(30) DEF OpenNeverBlocked
    <2>1. disk \in survivors
      BY DEF AgreementInv, SafetyInv, TypeOK
    <2>2. CASE Direct
      BY <2>1, <2>2, Zenon DEF Direct, Recovers
    <2>3. CASE ~Direct
      BY <2>1, <2>3, Zenon DEF AgreementInv, Journaled, Agrees, Recovers
    <2>. QED
      BY <2>2, <2>3
  <1>. QED
    BY <1>1, AgreementInvariant, PTL

=============================================================================
