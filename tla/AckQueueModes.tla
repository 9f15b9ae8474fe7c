--------------------------- MODULE AckQueueModes ----------------------------
(***************************************************************************)
(* What the ack queue guarantees however the hosts open the store, with a  *)
(* journal, without one, or in turn: for every queue size, every number of *)
(* calls and every order of faults.                                        *)
(***************************************************************************)
EXTENDS AckQueueProofs, WellFoundedInduction

-----------------------------------------------------------------------------
(* The inductive invariant of the store and the queue *)

\* The calls whose writes a queue entry commits.
Calls(entry) == {entry.batch} \cup entry.beats

Before(calls, c) == \A b \in calls : b.id < c.id

\* A store that a power loss may leave is an earlier state of the store, and
\* the calls that its journal would replay come after its own.
Snapshot(d, store, n) ==
    /\ d.next <= store.next
    /\ IsPrefixOf(d.calls, store.calls)
    /\ FormatCheck(d)
    /\ \A p \in d.journal :
            /\ p.call.id < n
            /\ p.call.seq = IF p.part = 0 THEN p.sequence ELSE 0
            /\ d.calls = {} => p.call.stamped
            /\ p.sequence > LastCommitted(d) => Before(d.calls, p.call)

\* The queue continues the store: consecutive sequences, and calls after those
\* of the store and of the entries before.
Queued(queue, store, marked, m) ==
    \A i \in 1 .. Len(queue) :
        /\ Sequence(queue[i]) = LastCommitted(store) + i
        /\ Batches(queue[i].beats) = {}
        /\ marked => queue[i].batch.stamped
        /\ Calls(queue[i]) \subseteq m
        /\ \A c \in Calls(queue[i]) :
                /\ Before(store.calls, c)
                /\ \A j \in 1 .. i - 1 : Before(Calls(queue[j]), c)

\* Memory holds the store and the queue, and after them the calls that failed.
Remembered(m, queue, store, whole, n) ==
    /\ store.calls \subseteq m
    /\ \A c \in m :
            /\ c.id < n
            /\ \/ c \in store.calls
               \/ \E i \in 1 .. Len(queue) : c \in Calls(queue[i])
               \/ /\ ~whole
                  /\ Before(store.calls, c)
                  /\ \A i \in 1 .. Len(queue) : Before(Calls(queue[i]), c)

\* The journal holds parts of the queue and nothing else.
JournalOf(queue, store) ==
    \A p \in store.journal :
        \E i \in 1 .. Len(queue) :
            /\ p.sequence = Sequence(queue[i])
            /\ p.part <= queue[i].joined
            /\ p.call \in Calls(queue[i])

SafetyInv ==
    /\ TypeOK
    /\ \A c \in disk.calls : c.id < issued
    /\ \A d \in survivors : Snapshot(d, disk, issued)
    /\ Queued(pending, disk, stamp, mem)
    /\ UnackedBatches <= MaxPending
    /\ health = "closed" => pending = <<>>
    /\ health # "closed" =>
            /\ Remembered(mem, pending, disk, health = "healthy", issued)
            /\ ~stamp => HasVersion(disk)
            /\ ~journal => disk.journal = {}
    /\ health \in {"healthy", "poisoned"} => JournalOf(pending, disk)
    /\ health = "healthy" => nextSequence = disk.next + Len(pending)

\* The types and the snapshots that the invariant gives.
LEMMA SafeFacts ==
    ASSUME SafetyInv
    PROVE  /\ disk \in Store /\ disk \in survivors /\ survivors \subseteq Store
           /\ issued \in Nat /\ issued <= issued
           /\ target \in [calls : SUBSET Call, applied : Nat] /\ target.applied \in Nat
           /\ LastCommitted(disk) \in Nat
           /\ Snapshot(disk, disk, issued)
           /\ \A d \in survivors : Snapshot(d, disk, issued)
           /\ \A b \in disk.calls : b.id < issued
  <1>1. TypeOK
    BY Zenon DEF SafetyInv
  <1>2. /\ disk \in Store /\ disk \in survivors /\ survivors \subseteq Store
        /\ issued \in Nat /\ target \in [calls : SUBSET Call, applied : Nat]
    BY <1>1 DEF TypeOK
  <1>3. issued <= issued /\ target.applied \in Nat /\ LastCommitted(disk) \in Nat
    BY <1>2 DEF Store, LastCommitted
  <1>4. /\ \A d \in survivors : Snapshot(d, disk, issued)
        /\ \A b \in disk.calls : b.id < issued
    BY Zenon DEF SafetyInv
  <1>. QED
    BY <1>2, <1>3, <1>4, Zenon

\* The last sequence of a store that a loss of power may leave.
LEMMA SurvivorSequence ==
    ASSUME SafetyInv, NEW d \in survivors
    PROVE  /\ d \in Store /\ LastCommitted(d) \in Nat
           /\ LastCommitted(d) <= LastCommitted(disk)
  <1>1. d \in Store /\ disk \in Store /\ Snapshot(d, disk, issued)
    BY SafeFacts, Zenon
  <1>2. d.next <= disk.next
    BY <1>1, Zenon DEF Snapshot
  <1>. QED
    BY <1>1, <1>2 DEF Store, LastCommitted

-----------------------------------------------------------------------------
(* The places of the queue *)

\* A non-empty set of naturals has a least element.
LEMMA LeastNat ==
    ASSUME NEW S \in SUBSET Nat, S # {}
    PROVE  \E n \in S : \A m \in S : n <= m
  <1>1. IsWellFoundedOn({ss \in Nat \X Nat : ss[1] < ss[2]}, Nat)
    BY NatLessThanWellFounded DEF OpToRel
  <1>2. PICK R : R = {ss \in Nat \X Nat : ss[1] < ss[2]}
    BY Zenon
  <1>3. PICK x \in S : \A y \in S : <<y, x>> \notin R
    BY <1>1, <1>2, WFMin, Zenon
  <1>4. \A y \in S : y < x => <<y, x>> \in R
    BY <1>2
  <1>5. \A y \in S : ~(y < x)
    BY <1>3, <1>4, Zenon
  <1>6. \A y \in S : x <= y
    BY <1>5
  <1>. QED
    BY <1>6

\* Induction over the naturals, for a property given as a set.
LEMMA NatSetInduction ==
    ASSUME NEW S, 0 \in S, \A n \in Nat : n \in S => n + 1 \in S
    PROVE  Nat \subseteq S
  <1>1. SUFFICES ASSUME Nat \ S # {} PROVE FALSE
    OBVIOUS
  <1>2. PICK n \in Nat \ S : \A m \in Nat \ S : n <= m
    BY <1>1, LeastNat, Zenon
  <1>3. n # 0 /\ n - 1 \in Nat /\ n - 1 \in S
    BY <1>2
  <1>. QED
    BY <1>2, <1>3

\* An entry counts the heartbeats behind it.
LEMMA JoinedType ==
    ASSUME NEW q \in Seq(PendingAck)
    PROVE  Len(q) \in Nat /\ \A i \in 1 .. Len(q) : q[i].joined \in Nat
  <1>1. Len(q) \in Nat /\ \A i \in 1 .. Len(q) : q[i] \in PendingAck
    BY LenProperties, ElementOfSeq
  <1>. QED
    BY <1>1, SMTT(30) DEF PendingAck

\* The sum of places is what its recursion says.
LEMMA PlacesLaw ==
    ASSUME NEW q \in Seq(PendingAck)
    PROVE  \E f : /\ f[0] = 0
                  /\ \A i \in 0 .. Len(q) : f[i] \in Nat
                  /\ \A i \in 1 .. Len(q) : f[i] = f[i - 1] + 1 + q[i].joined
                  /\ Places(q) = f[Len(q)]
  <1>. DEFINE Sum(f, n) ==
                f = [i \in 0 .. n |-> IF i = 0 THEN 0 ELSE f[i - 1] + 1 + q[i].joined]
              S == {n \in Nat : n <= Len(q) => \E f : Sum(f, n)}
  <1>1. Len(q) \in Nat /\ \A i \in 1 .. Len(q) : q[i].joined \in Nat
    BY JoinedType
  <1>2. 0 \in S
    <2>1. PICK f : f = [i \in 0 .. 0 |-> 0]
      BY Zenon
    <2>2. f = [i \in 0 .. 0 |-> IF i = 0 THEN 0 ELSE f[i - 1] + 1 + q[i].joined]
      BY <2>1
    <2>. QED
      BY <2>2
  <1>3. ASSUME NEW n \in Nat, n \in S
        PROVE  n + 1 \in S
    <2>. SUFFICES ASSUME n + 1 <= Len(q) PROVE \E f : Sum(f, n + 1)
      OBVIOUS
    <2>1. PICK f : Sum(f, n)
      BY <1>1, <1>3
    <2>2. PICK g : g = [i \in 0 .. n + 1 |-> IF i = n + 1 THEN f[n] + 1 + q[i].joined ELSE f[i]]
      BY Zenon
    <2>3. ASSUME NEW i \in 0 .. n + 1
          PROVE  g[i] = IF i = 0 THEN 0 ELSE g[i - 1] + 1 + q[i].joined
      BY <2>1, <2>2, SMTT(30)
    <2>4. Sum(g, n + 1)
      BY <2>2, <2>3
    <2>. QED
      BY <2>4
  <1>. HIDE DEF S
  <1>4. Len(q) \in S
    BY <1>1, <1>2, <1>3, NatSetInduction, Zenon
  <1>5. \E f : Sum(f, Len(q))
    BY <1>1, <1>4 DEF S
  <1>6. PICK f : Sum(f, Len(q)) /\ Places(q) = f[Len(q)]
    BY <1>5, Zenon DEF Places
  <1>7. f[0] = 0 /\ \A i \in 1 .. Len(q) : f[i] = f[i - 1] + 1 + q[i].joined
    BY <1>1, <1>6, SMTT(30)
  <1>8. \A i \in 0 .. Len(q) : f[i] \in Nat
    <2>. DEFINE T == {n \in Nat : n <= Len(q) => f[n] \in Nat}
    <2>1. 0 \in T
      BY <1>7
    <2>2. ASSUME NEW n \in Nat, n \in T PROVE n + 1 \in T
      <3>. SUFFICES ASSUME n + 1 <= Len(q) PROVE f[n + 1] \in Nat
        OBVIOUS
      <3>1. n + 1 \in 1 .. Len(q) /\ (n + 1) - 1 = n /\ f[n] \in Nat
        BY <2>2, <1>1
      <3>2. f[n + 1] = f[n] + 1 + q[n + 1].joined /\ q[n + 1].joined \in Nat
        BY <3>1, <1>1, <1>7
      <3>. QED
        BY <3>1, <3>2
    <2>. HIDE DEF T
    <2>3. Nat \subseteq T
      BY <2>1, <2>2, NatSetInduction
    <2>. QED
      BY <2>3, <1>1 DEF T
  <1>. QED
    BY <1>6, <1>7, <1>8, Zenon

\* The places of a queue behind its k oldest entries.
LEMMA PlacesBehind ==
    ASSUME NEW q \in Seq(PendingAck), NEW r \in Seq(PendingAck), NEW k \in Nat,
           Len(q) = Len(r) + k,
           \A i \in 1 .. Len(r) : r[i] = q[i + k]
    PROVE  Places(r) <= Places(q)
  <1>1. Len(q) \in Nat /\ Len(r) \in Nat /\ \A i \in 1 .. Len(q) : q[i].joined \in Nat
    BY JoinedType, Zenon
  <1>2. PICK f : /\ f[0] = 0
                 /\ \A i \in 0 .. Len(q) : f[i] \in Nat
                 /\ \A i \in 1 .. Len(q) : f[i] = f[i - 1] + 1 + q[i].joined
                 /\ Places(q) = f[Len(q)]
    BY PlacesLaw, Zenon
  <1>3. PICK g : /\ g[0] = 0
                 /\ \A i \in 0 .. Len(r) : g[i] \in Nat
                 /\ \A i \in 1 .. Len(r) : g[i] = g[i - 1] + 1 + r[i].joined
                 /\ Places(r) = g[Len(r)]
    BY PlacesLaw, Zenon
  <1>. DEFINE T == {n \in Nat : n <= Len(r) => g[n] + f[k] = f[n + k]}
  <1>4. 0 \in T
    BY <1>1, <1>2, <1>3
  <1>5. ASSUME NEW n \in Nat, n \in T
        PROVE  n + 1 \in T
    <2>. SUFFICES ASSUME n + 1 <= Len(r) PROVE g[n + 1] + f[k] = f[n + 1 + k]
      OBVIOUS
    <2>1. PICK m, j : m = n + 1 /\ j = n + 1 + k
      OBVIOUS
    <2>2. /\ m \in 1 .. Len(r) /\ m - 1 = n /\ n \in 0 .. Len(r)
          /\ j \in 1 .. Len(q) /\ j - 1 = n + k /\ n + k \in 0 .. Len(q)
          /\ j = m + k /\ k \in 0 .. Len(q)
      BY <2>1, <1>1
    <2>3. g[m] = g[n] + 1 + q[j].joined /\ g[n] \in Nat
      BY <2>2, <1>3, Zenon
    <2>4. f[j] = f[n + k] + 1 + q[j].joined /\ f[n + k] \in Nat
      BY <2>2, <1>2
    <2>5. f[k] \in Nat /\ g[n] + f[k] = f[n + k] /\ q[j].joined \in Nat
      BY <2>2, <1>1, <1>2, <1>5
    <2>a. PICK a, b, c, x : a = g[n] /\ b = f[n + k] /\ c = f[k] /\ x = q[j].joined
      OBVIOUS
    <2>b. a \in Nat /\ b \in Nat /\ c \in Nat /\ x \in Nat /\ a + c = b
      BY <2>a, <2>3, <2>4, <2>5, Zenon
    <2>c. (a + 1 + x) + c = b + 1 + x
      BY <2>b
    <2>d. g[m] = a + 1 + x /\ f[j] = b + 1 + x
      BY <2>3, <2>4, <2>a, Zenon
    <2>6. g[m] + f[k] = f[j]
      BY <2>a, <2>c, <2>d, Zenon
    <2>. QED
      BY <2>1, <2>6
  <1>. HIDE DEF T
  <1>6. Nat \subseteq T
    BY <1>4, <1>5, NatSetInduction, SMTT(30)
  <1>7. g[Len(r)] + f[k] = f[Len(q)]
    BY <1>1, <1>6 DEF T
  <1>8. f[k] \in Nat /\ g[Len(r)] \in Nat /\ f[Len(q)] \in Nat
    BY <1>1, <1>2, <1>3
  <1>. QED
    BY <1>2, <1>3, <1>7, <1>8

\* One more batch takes one more place, and so does one more heartbeat behind
\* the newest batch.
LEMMA PlacesOneMore ==
    ASSUME NEW q \in Seq(PendingAck), NEW r \in Seq(PendingAck), NEW n \in Nat,
           \A i \in 1 .. n : r[i] = q[i],
           \/ Len(q) = n /\ Len(r) = n + 1 /\ r[n + 1].joined = 0
           \/ Len(q) = n + 1 /\ Len(r) = n + 1 /\ r[n + 1].joined = q[n + 1].joined + 1
    PROVE  Places(r) = Places(q) + 1 /\ Places(q) \in Nat
  <1>1. \A i \in 1 .. Len(q) : q[i].joined \in Nat
    BY JoinedType, Zenon
  <1>2. PICK f : /\ f[0] = 0
                 /\ \A i \in 0 .. Len(q) : f[i] \in Nat
                 /\ \A i \in 1 .. Len(q) : f[i] = f[i - 1] + 1 + q[i].joined
                 /\ Places(q) = f[Len(q)]
    BY PlacesLaw, Zenon
  <1>3. PICK g : /\ g[0] = 0
                 /\ \A i \in 0 .. Len(r) : g[i] \in Nat
                 /\ \A i \in 1 .. Len(r) : g[i] = g[i - 1] + 1 + r[i].joined
                 /\ Places(r) = g[Len(r)]
    BY PlacesLaw, Zenon
  <1>. DEFINE T == {m \in Nat : m <= n => g[m] = f[m]}
  <1>4. 0 \in T
    BY <1>2, <1>3
  <1>5. ASSUME NEW m \in Nat, m \in T
        PROVE  m + 1 \in T
    <2>. SUFFICES ASSUME m + 1 <= n PROVE g[m + 1] = f[m + 1]
      OBVIOUS
    <2>1. m + 1 \in 1 .. Len(q) /\ m + 1 \in 1 .. Len(r) /\ (m + 1) - 1 = m
      OBVIOUS
    <2>2. g[m] = f[m] /\ r[m + 1] = q[m + 1]
      BY <1>5
    <2>. QED
      BY <2>1, <2>2, <1>2, <1>3, SMTT(30)
  <1>. HIDE DEF T
  <1>a. Nat \subseteq T
    BY <1>4, <1>5, NatSetInduction, SMTT(30)
  <1>6. g[n] = f[n]
    BY <1>a DEF T
  <1>7. (n + 1) - 1 = n /\ n + 1 \in 1 .. Len(r) /\ n \in 0 .. Len(q)
    OBVIOUS
  <1>8. g[n + 1] = f[n] + 1 + r[n + 1].joined /\ Places(r) = g[n + 1] /\ f[n] \in Nat
    BY <1>2, <1>3, <1>6, <1>7
  <1>9. CASE Len(q) = n
    BY <1>2, <1>8, <1>9
  <1>10. CASE Len(q) = n + 1
    <2>1. f[n + 1] = f[n] + 1 + q[n + 1].joined /\ Places(q) = f[n + 1] /\ q[n + 1].joined \in Nat
      BY <1>1, <1>2, <1>7, <1>10
    <2>. QED
      BY <2>1, <1>8, <1>10
  <1>. QED
    BY <1>9, <1>10
-----------------------------------------------------------------------------
(* Stores that extend one another *)

\* A prefix of a prefix is a prefix.
LEMMA PrefixTransitive ==
    ASSUME NEW a, NEW b, NEW c, IsPrefixOf(a, b), IsPrefixOf(b, c)
    PROVE  IsPrefixOf(a, c)
  BY DEF IsPrefixOf

\* The calls of a store are a prefix of what a commit of later calls leaves.
LEMMA LaterExtends ==
    ASSUME NEW a \in SUBSET Call, NEW b \in SUBSET Call,
           \A e \in b : e \in a \/ Before(a, e)
    PROVE  IsPrefixOf(a, a \cup b)
  <1>1. \A c \in Call : c.id \in Nat
    BY DEF Call
  <1>2. ASSUME NEW c \in a, NEW e \in a \cup b, e.id < c.id
        PROVE  e \in a
    <2>1. Before(a, e) => c.id < e.id
      BY DEF Before
    <2>2. c.id \in Nat /\ e.id \in Nat
      BY <1>1
    <2>. QED
      BY <1>2, <2>1, <2>2
  <1>. QED
    BY <1>2 DEF IsPrefixOf

\* What a power loss may leave of a store, it may leave of a later one.
LEMMA SnapshotOfLater ==
    ASSUME NEW d \in Store, NEW s \in Store, NEW t \in Store,
           NEW n \in Nat, NEW m \in Nat, n <= m,
           Snapshot(d, s, n), IsPrefixOf(s.calls, t.calls), s.next <= t.next
    PROVE  Snapshot(d, t, m)
  <1>1. d.next <= t.next
    <2>1. d.next \in Nat /\ s.next \in Nat /\ t.next \in Nat
      BY DEF Store
    <2>. QED
      BY <2>1 DEF Snapshot
  <1>2. IsPrefixOf(d.calls, t.calls)
    BY PrefixTransitive DEF Snapshot
  <1>3. \A p \in d.journal : p.call.id \in Nat
    BY DEF Store, JournalPart, Call
  <1>4. \A p \in d.journal : p.call.id < m
    BY <1>3 DEF Snapshot
  <1>. QED
    BY <1>1, <1>2, <1>4 DEF Snapshot

\* A journal write of a new call leaves an orderly store.
LEMMA PutJournalSnapshot ==
    ASSUME NEW d \in Store, NEW n \in Nat,
           Snapshot(d, d, n), \A b \in d.calls : b.id < n,
           NEW s \in Nat, NEW k \in Nat, NEW c \in Call,
           c.id = n, c.seq = IF k = 0 THEN s ELSE 0, d.calls = {} => c.stamped
    PROVE  LET w == PutJournal(d, s, k, c) IN Snapshot(w, w, n + 1)
  <1>. DEFINE w == PutJournal(d, s, k, c)
              new == [sequence |-> s, part |-> k, call |-> c]
  <1>1. /\ w.calls = d.calls
        /\ w.next = d.next
        /\ w.journal = {p \in d.journal : ~(p.sequence = s /\ p.part = k)} \cup {new}
    BY PutJournalFields
  <1>2. new.sequence = s /\ new.part = k /\ new.call = c
    OBVIOUS
  <1>. HIDE DEF w, new
  <1>3. LastCommitted(w) = LastCommitted(d) /\ (FormatCheck(w) <=> FormatCheck(d))
    BY <1>1 DEF LastCommitted, FormatCheck, HasVersion
  <1>4. ASSUME NEW p \in w.journal
        PROVE  /\ p.call.id < n + 1
               /\ p.call.seq = IF p.part = 0 THEN p.sequence ELSE 0
               /\ w.calls = {} => p.call.stamped
               /\ p.sequence > LastCommitted(w) => Before(w.calls, p.call)
    <2>1. CASE p = new
      BY <2>1, <1>1, <1>2 DEF Before
    <2>2. CASE p \in d.journal
      <3>1. p.call.id \in Nat
        BY <2>2 DEF Store, JournalPart, Call
      <3>2. p.call.id < n
        BY <2>2 DEF Snapshot
      <3>3. p.call.id < n + 1
        BY <3>1, <3>2
      <3>. QED
        BY <2>2, <3>3, <1>1, <1>3, Zenon DEF Snapshot
    <2>. QED
      BY <2>1, <2>2, <1>1
  <1>5. w.next <= w.next
    BY <1>1 DEF Store
  <1>6. IsPrefixOf(w.calls, w.calls)
    BY DEF IsPrefixOf
  <1>7. FormatCheck(w)
    BY <1>3 DEF Snapshot
  <1>8. Snapshot(w, w, n + 1)
    BY <1>4, <1>5, <1>6, <1>7 DEF Snapshot
  <1>. QED
    BY <1>8 DEF w

\* The recovery extends a store, and it leaves no journal.
LEMMA ReconciledSnapshot ==
    ASSUME NEW d \in Store, NEW n \in Nat, NEW a \in Nat,
           Snapshot(d, d, n), \A b \in d.calls : b.id < n
    PROVE  LET r == Reconciled(d, a)
           IN  /\ r \in Store
               /\ r.journal = {}
               /\ IsPrefixOf(d.calls, r.calls)
               /\ d.next <= r.next
               /\ Snapshot(r, r, n)
               /\ \A b \in r.calls : b.id < n
  <1>. DEFINE r == Reconciled(d, a)
              replayed == {p.call : p \in Replayed(d, a)}
  <1>1. /\ r.calls = d.calls \cup replayed
        /\ r.next = IF Replayed(d, a) = {} THEN d.next ELSE a + 1
        /\ r.journal = {}
    BY DEF Reconciled
  <1>2. d.next \in Nat \ {0} /\ LastCommitted(d) \in Nat /\ d.next = LastCommitted(d) + 1
    BY DEF Store, LastCommitted
  <1>3. \A p \in d.journal : p \in JournalPart /\ p.call \in Call /\ p.sequence \in Nat
    BY DEF Store, JournalPart
  <1>4. replayed \in SUBSET Call /\ d.calls \in SUBSET Call
    BY <1>3 DEF Replayed, Store
  <1>5. d.next <= r.next /\ r.next \in Nat \ {0}
    <2>1. CASE Replayed(d, a) = {}
      BY <2>1, <1>1, <1>2
    <2>2. CASE Replayed(d, a) # {}
      <3>1. PICK p \in d.journal : p.sequence > LastCommitted(d) /\ p.sequence <= a
        BY <2>2 DEF Replayed
      <3>2. p.sequence \in Nat
        BY <1>3
      <3>3. d.next <= a + 1
        BY <3>1, <3>2, <1>2
      <3>. QED
        BY <3>3, <2>2, <1>1
    <2>. QED
      BY <2>1, <2>2
  <1>6. r \in Store
    <2>1. r = [calls |-> r.calls, next |-> r.next, journal |-> r.journal]
      BY DEF Reconciled
    <2>. QED
      BY <2>1, <1>1, <1>4, <1>5 DEF Store
  <1>. HIDE DEF r
  <1>7. \A e \in replayed : Before(d.calls, e) /\ e.id < n
    BY DEF Replayed, Snapshot
  <1>8. IsPrefixOf(d.calls, r.calls)
    BY <1>1, <1>4, <1>7, LaterExtends, Zenon
  <1>9. FormatCheck(r)
    <2>1. CASE d.calls = {}
      <3>1. \A e \in replayed : e.stamped
        BY <2>1 DEF Replayed, Snapshot
      <3>. HIDE DEF replayed
      <3>. QED
        BY <2>1, <3>1, <1>1 DEF FormatCheck, HasVersion
    <2>2. CASE d.calls # {}
      <3>1. \E c \in d.calls : c.stamped
        BY <2>2 DEF Snapshot, FormatCheck, HasVersion
      <3>. QED
        BY <3>1, <1>1 DEF FormatCheck, HasVersion
    <2>. QED
      BY <2>1, <2>2
  <1>10. Snapshot(r, r, n)
    <2>1. IsPrefixOf(r.calls, r.calls)
      BY DEF IsPrefixOf
    <2>2. r.next <= r.next
      BY <1>5
    <2>. QED
      BY <2>1, <2>2, <1>1, <1>9 DEF Snapshot
  <1>11. \A b \in r.calls : b.id < n
    BY <1>1, <1>7
  <1>. QED
    BY <1>1, <1>5, <1>6, <1>8, <1>10, <1>11 DEF r

-----------------------------------------------------------------------------
(* Calls that enter the queue *)

\* A new call that becomes the newest entry of the queue, or joins it, keeps
\* the order of the queue.
LEMMA QueueGrows ==
    ASSUME NEW q, NEW r, NEW store \in Store, NEW marked, NEW m \in SUBSET Call,
           NEW n \in Nat, NEW c \in Call, NEW l \in Nat \ {0},
           Queued(q, store, marked, m),
           store.calls \subseteq m, \A b \in m : b.id < n, c.id = n,
           Len(r) = l, Len(q) = l \/ Len(q) = l - 1,
           \A i \in 1 .. l - 1 : r[i] = q[i],
           Calls(r[l]) = {c} \cup (IF Len(q) = l THEN Calls(q[l]) ELSE {}),
           Sequence(r[l]) = LastCommitted(store) + l,
           Batches(r[l].beats) = {},
           marked => r[l].batch.stamped
    PROVE  Queued(r, store, marked, m \cup {c})
  <1>1. \A i \in 1 .. Len(r) : i \in 1 .. l - 1 \/ i = l
    OBVIOUS
  <1>2. \A i \in 1 .. l - 1 : i \in 1 .. Len(q) /\ \A j \in 1 .. i - 1 : j \in 1 .. l - 1
    OBVIOUS
  <1>3. ASSUME NEW i \in 1 .. l - 1
        PROVE  /\ Sequence(r[i]) = LastCommitted(store) + i
               /\ Batches(r[i].beats) = {}
               /\ marked => r[i].batch.stamped
               /\ Calls(r[i]) \subseteq m
               /\ \A e \in Calls(r[i]) :
                    /\ Before(store.calls, e)
                    /\ \A j \in 1 .. i - 1 : Before(Calls(r[j]), e)
    <2>1. r[i] = q[i] /\ i \in 1 .. Len(q) /\ \A j \in 1 .. i - 1 : r[j] = q[j]
      BY <1>2, Zenon
    <2>. QED
      BY <2>1, Zenon DEF Queued
  <1>4. ASSUME NEW e \in Calls(r[l])
        PROVE  /\ e \in m \cup {c}
               /\ Before(store.calls, e)
               /\ \A j \in 1 .. l - 1 : Before(Calls(r[j]), e)
    <2>1. CASE e = c
      <3>1. \A b \in m : b.id < e.id
        BY <2>1
      <3>2. \A j \in 1 .. l - 1 : Calls(r[j]) \subseteq m
        BY <1>3, Zenon
      <3>. QED
        BY <2>1, <3>1, <3>2 DEF Before
    <2>2. CASE Len(q) = l /\ e \in Calls(q[l])
      <3>1. l \in 1 .. Len(q)
        BY <2>2
      <3>2. /\ e \in m
            /\ Before(store.calls, e)
            /\ \A j \in 1 .. l - 1 : Before(Calls(q[j]), e)
        BY <2>2, <3>1, Zenon DEF Queued
      <3>. QED
        BY <3>2, Zenon
    <2>. QED
      BY <2>1, <2>2
  <1>5. ASSUME NEW i \in 1 .. Len(r)
        PROVE  /\ Sequence(r[i]) = LastCommitted(store) + i
               /\ Batches(r[i].beats) = {}
               /\ marked => r[i].batch.stamped
               /\ Calls(r[i]) \subseteq m \cup {c}
               /\ \A e \in Calls(r[i]) :
                    /\ Before(store.calls, e)
                    /\ \A j \in 1 .. i - 1 : Before(Calls(r[j]), e)
    <2>1. CASE i \in 1 .. l - 1
      BY <2>1, <1>3, Zenon
    <2>2. CASE i = l
      BY <2>2, <1>4, Zenon
    <2>. QED
      BY <2>1, <2>2, <1>1
  <1>. QED
    BY <1>5, Zenon DEF Queued

\* The entries of a queue that grows keep their calls.
LEMMA CallsKept ==
    ASSUME NEW q, NEW r, NEW c, NEW l \in Nat \ {0},
           Len(r) = l, Len(q) = l \/ Len(q) = l - 1,
           \A i \in 1 .. l - 1 : r[i] = q[i],
           Calls(r[l]) = {c} \cup (IF Len(q) = l THEN Calls(q[l]) ELSE {})
    PROVE  /\ \A i \in 1 .. Len(q) : i \in 1 .. Len(r) /\ Calls(q[i]) \subseteq Calls(r[i])
           /\ l \in 1 .. Len(r) /\ c \in Calls(r[l])
  <1>1. ASSUME NEW i \in 1 .. Len(q)
        PROVE  i \in 1 .. Len(r) /\ Calls(q[i]) \subseteq Calls(r[i])
    <2>1. i \in 1 .. l - 1 \/ (i = l /\ Len(q) = l)
      OBVIOUS
    <2>2. CASE i \in 1 .. l - 1
      BY <2>2
    <2>3. CASE i = l /\ Len(q) = l
      BY <2>3
    <2>. QED
      BY <2>1, <2>2, <2>3
  <1>. QED
    BY <1>1

\* Memory with the new call is the store and the queue with the new call.
LEMMA MemoryGrows ==
    ASSUME NEW q, NEW r, NEW store, NEW m \in SUBSET Call, NEW n \in Nat, NEW c \in Call,
           Remembered(m, q, store, TRUE, n), c.id = n,
           \A i \in 1 .. Len(q) : i \in 1 .. Len(r) /\ Calls(q[i]) \subseteq Calls(r[i]),
           \E l \in 1 .. Len(r) : c \in Calls(r[l])
    PROVE  Remembered(m \cup {c}, r, store, TRUE, n + 1)
  <1>1. \A b \in m \cup {c} : b.id \in Nat
    BY DEF Call
  <1>2. \A b \in m \cup {c} : b.id < n + 1
    BY <1>1 DEF Remembered
  <1>3. \A b \in m : b \in store.calls \/ \E i \in 1 .. Len(q) : b \in Calls(q[i])
    BY DEF Remembered
  <1>4. \A b \in m \cup {c} : b \in store.calls \/ \E i \in 1 .. Len(r) : b \in Calls(r[i])
    BY <1>3, Zenon
  <1>. QED
    BY <1>2, <1>4 DEF Remembered

\* A call that failed is behind everything that memory held.
LEMMA FailedCallLast ==
    ASSUME NEW q, NEW store, NEW m \in SUBSET Call, NEW n \in Nat, NEW c \in Call,
           NEW marked, NEW whole,
           Remembered(m, q, store, whole, n), Queued(q, store, marked, m), c.id = n
    PROVE  /\ Remembered(m \cup {c}, q, store, FALSE, n + 1)
           /\ Queued(q, store, marked, m \cup {c})
  <1>1. \A b \in m \cup {c} : b.id \in Nat
    BY DEF Call
  <1>2. \A b \in m \cup {c} : b.id < n + 1
    BY <1>1 DEF Remembered
  <1>3. \A b \in m : b.id < c.id
    BY DEF Remembered
  <1>4. store.calls \subseteq m /\ \A i \in 1 .. Len(q) : Calls(q[i]) \subseteq m
    BY DEF Remembered, Queued
  <1>5. Before(store.calls, c) /\ \A i \in 1 .. Len(q) : Before(Calls(q[i]), c)
    BY <1>3, <1>4 DEF Before
  <1>6. ASSUME NEW b \in m
        PROVE  \/ b \in store.calls
               \/ \E i \in 1 .. Len(q) : b \in Calls(q[i])
               \/ /\ Before(store.calls, b)
                  /\ \A i \in 1 .. Len(q) : Before(Calls(q[i]), b)
    BY Zenon DEF Remembered
  <1>7. Remembered(m \cup {c}, q, store, FALSE, n + 1)
    BY <1>2, <1>4, <1>5, <1>6 DEF Remembered
  <1>8. Queued(q, store, marked, m \cup {c})
    BY Zenon DEF Queued
  <1>. QED
    BY <1>7, <1>8, Zenon

\* The journal of a queue that grows.
LEMMA JournalGrows ==
    ASSUME NEW q, NEW r, NEW d \in Store, JournalOf(q, d),
           \A i \in 1 .. Len(q) : q[i].joined \in Nat,
           \A i \in 1 .. Len(q) :
                /\ i \in 1 .. Len(r) /\ Calls(q[i]) \subseteq Calls(r[i])
                /\ Sequence(r[i]) = Sequence(q[i])
                /\ r[i].joined \in Nat /\ q[i].joined <= r[i].joined
    PROVE  /\ JournalOf(r, d)
           /\ \A s, k, c : (\E l \in 1 .. Len(r) : /\ s = Sequence(r[l])
                                                  /\ k <= r[l].joined
                                                  /\ c \in Calls(r[l]))
                    => JournalOf(r, PutJournal(d, s, k, c))
  <1>1. \A p \in d.journal : p.part \in Nat
    BY DEF Store, JournalPart
  <1>2. ASSUME NEW p \in d.journal
        PROVE  \E i \in 1 .. Len(r) : /\ p.sequence = Sequence(r[i])
                                      /\ p.part <= r[i].joined
                                      /\ p.call \in Calls(r[i])
    <2>1. PICK i \in 1 .. Len(q) : /\ p.sequence = Sequence(q[i])
                                   /\ p.part <= q[i].joined
                                   /\ p.call \in Calls(q[i])
      BY DEF JournalOf
    <2>2. p.part \in Nat /\ q[i].joined \in Nat /\ r[i].joined \in Nat /\ q[i].joined <= r[i].joined
      BY <1>1, Zenon
    <2>3. p.part <= r[i].joined
      BY <2>1, <2>2, SMTT(30)
    <2>. QED
      BY <2>1, <2>3, Zenon
  <1>3. ASSUME NEW s, NEW k, NEW c, NEW l \in 1 .. Len(r),
               s = Sequence(r[l]), k <= r[l].joined, c \in Calls(r[l])
        PROVE  JournalOf(r, PutJournal(d, s, k, c))
    <2>. DEFINE w == PutJournal(d, s, k, c)
                new == [sequence |-> s, part |-> k, call |-> c]
    <2>1. w.journal = {p \in d.journal : ~(p.sequence = s /\ p.part = k)} \cup {new}
      BY PutJournalFields
    <2>2. new.sequence = s /\ new.part = k /\ new.call = c
      OBVIOUS
    <2>. HIDE DEF w, new
    <2>3. \A p \in w.journal : p = new \/ p \in d.journal
      BY <2>1
    <2>4. JournalOf(r, w)
      BY <2>2, <2>3, <1>2, <1>3, Zenon DEF JournalOf
    <2>. QED
      BY <2>4, SMTT(30) DEF w
  <1>. QED
    BY <1>2, <1>3, Zenon DEF JournalOf

-----------------------------------------------------------------------------
(* Commits of the oldest entries *)

\* What a commit of the k oldest entries leaves in the store.
LEMMA CommittedParts ==
    ASSUME SafetyInv, NEW k \in 1 .. Len(pending)
    PROVE  /\ Committed(k) \in Store
           /\ LastCommitted(Committed(k)) = LastCommitted(disk) + k
           /\ Committed(k).next = disk.next + k
           /\ \A x : x \in Committed(k).calls <=>
                        x \in disk.calls \/ \E i \in 1 .. k : x \in Calls(pending[i])
           /\ Committed(k).journal \subseteq disk.journal
  <1>1. TypeOK /\ Len(pending) \in Nat /\ disk \in Store
    BY LenProperties DEF SafetyInv, TypeOK
  <1>2. Committed(k) \in Store
    BY <1>1, CommittedType
  <1>3. LastCommitted(disk) \in Nat /\ disk.next = LastCommitted(disk) + 1 /\ k # 0 /\ k \in Nat
    BY <1>1 DEF LastCommitted, Store
  <1>4. Sequence(pending[k]) = LastCommitted(disk) + k
    BY DEF SafetyInv, Queued
  <1>5. Committed(k).next = LastCommitted(disk) + k + 1
    BY <1>3, <1>4 DEF Committed
  <1>6. \A x : x \in Committed(k).calls <=>
                  x \in disk.calls \/ \E i \in 1 .. k : x \in Calls(pending[i])
    BY DEF Committed, Calls
  <1>7. Committed(k).journal \subseteq disk.journal
    BY DEF Committed
  <1>. QED
    BY <1>2, <1>3, <1>5, <1>6, <1>7, SMTT(30) DEF LastCommitted

\* The journal after the commit holds only parts of the entries behind it.
LEMMA CommittedJournal ==
    ASSUME SafetyInv, health \in {"healthy", "poisoned"}, NEW k \in 1 .. Len(pending),
           NEW p \in Committed(k).journal
    PROVE  \E i \in k + 1 .. Len(pending) :
                /\ p.sequence = Sequence(pending[i])
                /\ p.part <= pending[i].joined
                /\ p.call \in Calls(pending[i])
  <1>1. /\ p \in disk.journal
        /\ \A i \in 1 .. k : ~ /\ journal
                               /\ p.sequence = Sequence(pending[i])
                               /\ p.part <= pending[i].joined
    BY DEF Committed
  <1>2. journal
    BY <1>1 DEF SafetyInv
  <1>3. PICK i \in 1 .. Len(pending) :
                /\ p.sequence = Sequence(pending[i])
                /\ p.part <= pending[i].joined
                /\ p.call \in Calls(pending[i])
    BY <1>1 DEF SafetyInv, JournalOf
  <1>4. i \notin 1 .. k
    BY <1>1, <1>2, <1>3, Zenon
  <1>5. Len(pending) \in Nat
    BY LenProperties DEF SafetyInv, TypeOK
  <1>6. i \in k + 1 .. Len(pending)
    BY <1>4, <1>5
  <1>. QED
    BY <1>3, <1>6, Zenon

\* The commit extends the store, and every later commit extends it.
LEMMA CommittedSnapshot ==
    ASSUME SafetyInv, health \in {"healthy", "poisoned"}, NEW k \in 1 .. Len(pending)
    PROVE  /\ IsPrefixOf(disk.calls, Committed(k).calls)
           /\ \A j \in k .. Len(pending) : IsPrefixOf(Committed(k).calls, Committed(j).calls)
           /\ HasVersion(Committed(k))
           /\ \A b \in Committed(k).calls : b.id < issued
           /\ Snapshot(Committed(k), Committed(k), issued)
  <1>. DEFINE w == Committed(k)
  <1>1. /\ w \in Store /\ LastCommitted(w) = LastCommitted(disk) + k
        /\ \A x : x \in w.calls <=>
                    x \in disk.calls \/ \E i \in 1 .. k : x \in Calls(pending[i])
        /\ w.journal \subseteq disk.journal
    BY CommittedParts
  <1>2. /\ Len(pending) \in Nat /\ k \in Nat /\ LastCommitted(disk) \in Nat
        /\ disk \in Store /\ disk \in survivors /\ issued \in Nat /\ mem \in SUBSET Call
    BY LenProperties DEF SafetyInv, TypeOK, LastCommitted, Store
  <1>3. Queued(pending, disk, stamp, mem)
    BY DEF SafetyInv
  <1>4. Remembered(mem, pending, disk, health = "healthy", issued)
    BY DEF SafetyInv
  <1>5. disk.calls \subseteq mem /\ \A i \in 1 .. Len(pending) : Calls(pending[i]) \subseteq mem
    BY <1>3, <1>4 DEF Queued, Remembered
  <1>6. ASSUME NEW j \in 0 .. Len(pending), NEW i \in j + 1 .. Len(pending),
               NEW c \in Calls(pending[i])
        PROVE  Before(disk.calls \cup UNION {Calls(pending[h]) : h \in 1 .. j}, c)
    <2>1. i \in 1 .. Len(pending) /\ \A h \in 1 .. j : h \in 1 .. i - 1
      BY <1>2
    <2>2. Before(disk.calls, c) /\ \A h \in 1 .. i - 1 : Before(Calls(pending[h]), c)
      BY <2>1, <1>3, Zenon DEF Queued
    <2>. QED
      BY <2>1, <2>2 DEF Before
  <1>. HIDE DEF w
  <1>7. ASSUME NEW i \in k + 1 .. Len(pending), NEW c \in Calls(pending[i])
        PROVE  Before(w.calls, c)
    <2>1. w.calls = disk.calls \cup UNION {Calls(pending[h]) : h \in 1 .. k}
      BY <1>1
    <2>2. k \in 0 .. Len(pending)
      BY <1>2
    <2>. QED
      BY <2>1, <2>2, <1>6
  <1>8. IsPrefixOf(disk.calls, w.calls)
    <2>1. w.calls \in SUBSET Call /\ disk.calls \in SUBSET Call
      BY <1>1, <1>2 DEF Store
    <2>2. ASSUME NEW e \in w.calls PROVE e \in disk.calls \/ Before(disk.calls, e)
      <3>1. CASE e \notin disk.calls
        <4>1. PICK i \in 1 .. k : e \in Calls(pending[i])
          BY <3>1, <1>1
        <4>2. i \in 1 .. Len(pending)
          BY <1>2
        <4>. QED
          BY <4>1, <4>2, <1>3, Zenon DEF Queued
      <3>. QED
        BY <3>1
    <2>3. disk.calls \cup w.calls = w.calls
      BY <1>1
    <2>4. IsPrefixOf(disk.calls, disk.calls \cup w.calls)
      BY <2>1, <2>2, LaterExtends, Zenon
    <2>. QED
      BY <2>3, <2>4, Zenon
  <1>9. ASSUME NEW j \in k .. Len(pending)
        PROVE  IsPrefixOf(w.calls, Committed(j).calls)
    <2>. DEFINE v == Committed(j)
    <2>1. j \in 1 .. Len(pending) /\ j \in Nat /\ k <= j
      BY <1>2
    <2>2. /\ v \in Store
          /\ \A x : x \in v.calls <=>
                      x \in disk.calls \/ \E i \in 1 .. j : x \in Calls(pending[i])
      BY <2>1, CommittedParts
    <2>. HIDE DEF v
    <2>3. w.calls \in SUBSET Call /\ v.calls \in SUBSET Call
      BY <1>1, <2>2 DEF Store
    <2>4. ASSUME NEW e \in v.calls PROVE e \in w.calls \/ Before(w.calls, e)
      <3>1. CASE e \notin w.calls
        <4>1. PICK i \in 1 .. j : e \in Calls(pending[i])
          BY <3>1, <1>1, <2>2
        <4>2. i \notin 1 .. k
          BY <3>1, <4>1, <1>1
        <4>3. i \in k + 1 .. Len(pending)
          BY <4>2, <1>2, <2>1, SMTT(30)
        <4>. QED
          BY <4>1, <4>3, <1>7
      <3>. QED
        BY <3>1
    <2>5. \A x \in w.calls : x \in v.calls
      BY <1>1, <1>2, <2>1, <2>2, SMTT(30)
    <2>6. w.calls \cup v.calls = v.calls
      BY <2>5
    <2>7. IsPrefixOf(w.calls, w.calls \cup v.calls)
      BY <2>3, <2>4, LaterExtends, Zenon
    <2>. QED
      BY <2>6, <2>7, Zenon DEF v
  <1>10. HasVersion(w)
    <2>1. CASE stamp
      <3>1. 1 \in 1 .. k /\ 1 \in 1 .. Len(pending)
        BY <1>2
      <3>2. pending[1].batch.stamped /\ pending[1].batch \in Calls(pending[1])
        BY <2>1, <3>1, <1>3 DEF Queued, Calls
      <3>3. pending[1].batch \in w.calls
        BY <3>1, <3>2, <1>1
      <3>. QED
        BY <3>2, <3>3 DEF HasVersion
    <2>2. CASE ~stamp
      <3>1. HasVersion(disk)
        BY <2>2 DEF SafetyInv
      <3>. QED
        BY <3>1, <1>1 DEF HasVersion
    <2>. QED
      BY <2>1, <2>2
  <1>11. \A b \in w.calls : b \in mem
    <2>1. \A i \in 1 .. k : i \in 1 .. Len(pending)
      BY <1>2
    <2>. QED
      BY <2>1, <1>1, <1>5
  <1>12. \A b \in w.calls : b.id < issued
    BY <1>4, <1>11 DEF Remembered
  <1>13. ASSUME NEW p \in w.journal
         PROVE  /\ p.call.id < issued
                /\ p.call.seq = IF p.part = 0 THEN p.sequence ELSE 0
                /\ w.calls = {} => p.call.stamped
                /\ p.sequence > LastCommitted(w) => Before(w.calls, p.call)
    <2>1. p \in disk.journal /\ Snapshot(disk, disk, issued)
      BY <1>1, <1>2 DEF SafetyInv
    <2>2. PICK i \in k + 1 .. Len(pending) : p.call \in Calls(pending[i])
      BY CommittedJournal DEF w
    <2>3. Before(w.calls, p.call)
      BY <2>2, <1>7
    <2>4. w.calls # {}
      BY <1>10 DEF HasVersion
    <2>5. p.call.id < issued /\ p.call.seq = IF p.part = 0 THEN p.sequence ELSE 0
      BY <2>1, Zenon DEF Snapshot
    <2>. QED
      BY <2>3, <2>4, <2>5, SMTT(30)
  <1>14. Snapshot(w, w, issued)
    <2>1. IsPrefixOf(w.calls, w.calls) /\ FormatCheck(w)
      BY <1>10 DEF IsPrefixOf, FormatCheck
    <2>2. w.next <= w.next
      BY <1>1 DEF Store
    <2>. QED
      BY <2>1, <2>2, <1>13 DEF Snapshot
  <1>. QED
    BY <1>8, <1>9, <1>10, <1>12, <1>14, SMTT(30) DEF w

\* The queue behind the committed entries continues the new store.
LEMMA QueueBehind ==
    ASSUME SafetyInv, health \in {"healthy", "poisoned"}, NEW k \in 1 .. Len(pending)
    PROVE  LET q == SubSeq(pending, k + 1, Len(pending))
               w == Committed(k)
           IN  /\ Len(q) = Len(pending) - k
               /\ \A i \in 1 .. Len(q) : q[i] = pending[i + k]
               /\ Places(q) <= MaxPending
               /\ Queued(q, w, FALSE, mem)
               /\ Remembered(mem, q, w, health = "healthy", issued)
               /\ JournalOf(q, w)
  <1>. DEFINE q == SubSeq(pending, k + 1, Len(pending))
              w == Committed(k)
  <1>1. /\ w \in Store /\ LastCommitted(w) = LastCommitted(disk) + k
        /\ \A x : x \in w.calls <=>
                    x \in disk.calls \/ \E i \in 1 .. k : x \in Calls(pending[i])
        /\ w.journal \subseteq disk.journal
    BY CommittedParts
  <1>2. /\ Len(pending) \in Nat /\ k \in Nat /\ LastCommitted(disk) \in Nat
        /\ pending \in Seq(PendingAck)
    BY LenProperties DEF SafetyInv, TypeOK, LastCommitted, Store
  <1>a. \A i \in k + 1 .. Len(pending) : pending[i] \in PendingAck
    BY <1>2, EntryType DEF SafetyInv
  <1>b. q \in Seq(PendingAck) /\ Len(q) = Len(pending) - k
        /\ \A i \in 1 .. Len(q) : q[i] = pending[i + k]
    BY <1>2, <1>a, SubSeqProperties
  <1>3. Queued(pending, disk, stamp, mem)
    BY DEF SafetyInv
  <1>4. Remembered(mem, pending, disk, health = "healthy", issued)
    BY DEF SafetyInv
  <1>. HIDE DEF q, w
  <1>5. Places(q) <= MaxPending
    <2>1. Places(q) <= Places(pending)
      BY <1>2, <1>b, PlacesBehind, SMTT(30)
    <2>2. Places(pending) <= MaxPending
      BY DEF SafetyInv, UnackedBatches
    <2>3. Places(q) \in Nat /\ Places(pending) \in Nat
      BY <1>2, <1>b, PlacesLaw, JoinedType, SMTT(30)
    <2>. QED
      BY <2>1, <2>2, <2>3, MaxPendingAssumption
  <1>6. ASSUME NEW i \in 1 .. Len(q)
        PROVE  /\ i + k \in 1 .. Len(pending) /\ q[i] = pending[i + k]
               /\ \A j \in 1 .. i - 1 : j + k \in 1 .. (i + k) - 1 /\ q[j] = pending[j + k]
               /\ \A h \in 1 .. k : h \in 1 .. (i + k) - 1
    BY <1>2, <1>b
  <1>7. ASSUME NEW i \in 1 .. Len(q)
        PROVE  /\ Sequence(q[i]) = LastCommitted(w) + i
               /\ Batches(q[i].beats) = {}
               /\ Calls(q[i]) \subseteq mem
    <2>1. Sequence(q[i]) = LastCommitted(disk) + (i + k)
      BY <1>3, <1>6, Zenon DEF Queued
    <2>2. Sequence(q[i]) = LastCommitted(w) + i
      BY <2>1, <1>1, <1>2, <1>b
    <2>. QED
      BY <2>2, <1>3, <1>6, Zenon DEF Queued
  <1>8. ASSUME NEW i \in 1 .. Len(q), NEW c \in Calls(q[i])
        PROVE  Before(w.calls, c) /\ \A j \in 1 .. i - 1 : Before(Calls(q[j]), c)
    <2>1. /\ Before(disk.calls, c)
          /\ \A j \in 1 .. (i + k) - 1 : Before(Calls(pending[j]), c)
      BY <1>3, <1>6, Zenon DEF Queued
    <2>2. Before(w.calls, c)
      BY <2>1, <1>1, <1>6, Zenon DEF Before
    <2>3. \A j \in 1 .. i - 1 : Before(Calls(q[j]), c)
      BY <2>1, <1>6, Zenon
    <2>. QED
      BY <2>2, <2>3
  <1>9. Queued(q, w, FALSE, mem)
    BY <1>7, <1>8, SMTT(30) DEF Queued
  <1>10. \A i \in k + 1 .. Len(pending) : i - k \in 1 .. Len(q) /\ q[i - k] = pending[i]
    BY <1>2, <1>b
  <1>11. Remembered(mem, q, w, health = "healthy", issued)
    <2>1. w.calls \subseteq mem
      <3>1. \A i \in 1 .. k : i \in 1 .. Len(pending)
        BY <1>2
      <3>. QED
        BY <3>1, <1>1, <1>3, <1>4 DEF Queued, Remembered
    <2>2. ASSUME NEW c \in mem
          PROVE  \/ c \in w.calls
                 \/ \E i \in 1 .. Len(q) : c \in Calls(q[i])
                 \/ /\ ~(health = "healthy")
                    /\ Before(w.calls, c)
                    /\ \A i \in 1 .. Len(q) : Before(Calls(q[i]), c)
      <3>1. CASE c \in disk.calls
        BY <3>1, <1>1
      <3>2. CASE \E i \in 1 .. Len(pending) : c \in Calls(pending[i])
        <4>1. PICK i \in 1 .. Len(pending) : c \in Calls(pending[i])
          BY <3>2
        <4>2. i \in 1 .. k \/ i \in k + 1 .. Len(pending)
          BY <1>2
        <4>. QED
          BY <4>1, <4>2, <1>1, <1>10
      <3>3. CASE /\ ~(health = "healthy")
                 /\ Before(disk.calls, c)
                 /\ \A i \in 1 .. Len(pending) : Before(Calls(pending[i]), c)
        <4>1. \A i \in 1 .. k : i \in 1 .. Len(pending)
          BY <1>2
        <4>2. Before(w.calls, c)
          BY <3>3, <4>1, <1>1 DEF Before
        <4>3. \A i \in 1 .. Len(q) : Before(Calls(q[i]), c)
          BY <3>3, <1>6
        <4>. QED
          BY <3>3, <4>2, <4>3
      <3>. QED
        BY <3>1, <3>2, <3>3, <1>4, Zenon DEF Remembered
    <2>. QED
      BY <2>1, <2>2, <1>4 DEF Remembered
  <1>12. JournalOf(q, w)
    <2>. SUFFICES ASSUME NEW p \in w.journal
                  PROVE  \E i \in 1 .. Len(q) : /\ p.sequence = Sequence(q[i])
                                                /\ p.part <= q[i].joined
                                                /\ p.call \in Calls(q[i])
      BY DEF JournalOf
    <2>1. PICK i \in k + 1 .. Len(pending) : /\ p.sequence = Sequence(pending[i])
                                             /\ p.part <= pending[i].joined
                                             /\ p.call \in Calls(pending[i])
      BY CommittedJournal DEF w
    <2>. QED
      BY <2>1, <1>10
  <1>. QED
    BY <1>b, <1>5, <1>9, <1>11, <1>12, Zenon DEF q, w

-----------------------------------------------------------------------------
(* The store and the queue: the invariant is inductive *)

\* What every call does before it reaches the store.
LEMMA CallStarts ==
    ASSUME SafetyInv, NEW s \in Nat, Start(NewCall(s))
    PROVE  /\ health = "healthy" /\ issued' = issued + 1
           /\ NewCall(s) \in Call /\ NewCall(s).id = issued /\ NewCall(s).seq = s
           /\ NewCall(s).stamped = stamp
           /\ mem' = mem \cup {NewCall(s)}
           /\ disk.calls = {} => NewCall(s).stamped
           /\ \A b \in mem : b.id < issued
           /\ Places(pending) < MaxPending
           /\ journal' = journal /\ target' = target /\ acked' = acked
  <1>1. TypeOK /\ NewCall(s) \in Call
    BY NewCallType DEF SafetyInv
  <1>2. NewCall(s).id = issued /\ NewCall(s).seq = s /\ NewCall(s).stamped = stamp
    BY DEF NewCall
  <1>3. /\ health = "healthy" /\ issued' = issued + 1 /\ mem' = mem \cup {NewCall(s)}
        /\ Places(pending) < MaxPending
        /\ journal' = journal /\ target' = target /\ acked' = acked
    BY SMTT(30) DEF Start, GuardPendingRoom, UnackedBatches
  <1>4. \A b \in mem : b.id < issued
    BY <1>3 DEF SafetyInv, Remembered
  <1>5. disk.calls = {} => stamp
    <2>1. disk.calls = {} => ~HasVersion(disk)
      BY DEF HasVersion
    <2>2. ~stamp => HasVersion(disk)
      BY <1>3, SMTT(30) DEF SafetyInv
    <2>. QED
      BY <2>1, <2>2
  <1>. QED
    BY <1>1, <1>2, <1>3, <1>4, <1>5, SMTT(30)

\* A journal write of a new call: the store that it leaves, and the stores
\* that a power loss may leave after it.
LEMMA JournalWriteKeeps ==
    ASSUME SafetyInv, NEW s \in Nat, NEW k \in Nat, NEW c \in Call,
           c.id = issued, c.seq = IF k = 0 THEN s ELSE 0,
           disk.calls = {} => c.stamped
    PROVE  LET w == PutJournal(disk, s, k, c)
           IN  /\ w \in Store /\ w.calls = disk.calls /\ w.next = disk.next
               /\ LastCommitted(w) = LastCommitted(disk)
               /\ \A d \in survivors \cup {w} : Snapshot(d, w, issued + 1)
               /\ \A d \in survivors : Snapshot(d, disk, issued + 1)
               /\ \A b \in disk.calls : b.id < issued + 1
  <1>. DEFINE w == PutJournal(disk, s, k, c)
  <1>1. /\ disk \in Store /\ disk \in survivors /\ issued \in Nat /\ survivors \subseteq Store
        /\ \A b \in disk.calls : b.id < issued /\ b.id \in Nat
        /\ \A d \in survivors : Snapshot(d, disk, issued)
        /\ issued + 1 \in Nat /\ issued <= issued + 1
    BY DEF SafetyInv, TypeOK, Store, Call
  <1>2. w \in Store
    BY <1>1, PutJournalType
  <1>3. w.calls = disk.calls /\ w.next = disk.next
    BY <1>1, PutJournalFields
  <1>4. Snapshot(w, w, issued + 1)
    BY <1>1, PutJournalSnapshot
  <1>. HIDE DEF w
  <1>5. IsPrefixOf(disk.calls, disk.calls) /\ disk.next <= disk.next
    BY <1>1 DEF IsPrefixOf, Store
  <1>6. ASSUME NEW d \in survivors
        PROVE  Snapshot(d, w, issued + 1) /\ Snapshot(d, disk, issued + 1)
    BY <1>1, <1>2, <1>3, <1>5, SnapshotOfLater
  <1>. QED
    BY <1>1, <1>2, <1>3, <1>4, <1>6, SMTT(30) DEF LastCommitted, w

\* A returned batch, also one whose journal write fails.
LEMMA ReturnSafe ==
    ASSUME SafetyInv, ReturnBatch \/ ReturnBatchFails
    PROVE  SafetyInv'
  <1>. DEFINE call == NewCall(nextSequence)
              w == PutJournal(disk, nextSequence, 0, call)
              e == [batch |-> call, beats |-> {}, joined |-> 0]
              l == Len(pending) + 1
  <1>1. TypeOK /\ TypeOK' /\ nextSequence \in Nat /\ Start(call)
    BY TypeStep, ZenonT(30) DEF SafetyInv, Next, TypeOK, ReturnBatch, ReturnBatchFails
  <1>2. /\ health = "healthy" /\ issued' = issued + 1
        /\ call \in Call /\ call.id = issued /\ call.seq = nextSequence
        /\ call.stamped = stamp
        /\ mem' = mem \cup {call}
        /\ disk.calls = {} => call.stamped
        /\ \A b \in mem : b.id < issued
        /\ Places(pending) < MaxPending
        /\ journal' = journal
    BY <1>1, CallStarts, SMTT(30)
  <1>3. /\ w \in Store /\ w.calls = disk.calls /\ w.next = disk.next
        /\ LastCommitted(w) = LastCommitted(disk)
        /\ \A d \in survivors \cup {w} : Snapshot(d, w, issued + 1)
        /\ \A d \in survivors : Snapshot(d, disk, issued + 1)
        /\ \A b \in disk.calls : b.id < issued + 1
    <2>. HIDE DEF call
    <2>. QED
      BY <1>1, <1>2, JournalWriteKeeps
  <1>4. /\ Len(pending) \in Nat /\ l \in Nat \ {0} /\ disk \in Store /\ issued \in Nat
        /\ mem \in SUBSET Call /\ pending \in Seq(PendingAck)
        /\ LastCommitted(disk) \in Nat /\ disk.next = LastCommitted(disk) + 1
    BY <1>1, LenProperties, SMTT(30) DEF TypeOK, Store, LastCommitted
  <1>5. /\ Queued(pending, disk, stamp, mem)
        /\ Remembered(mem, pending, disk, TRUE, issued)
        /\ JournalOf(pending, disk)
        /\ nextSequence = disk.next + Len(pending)
        /\ ~stamp => HasVersion(disk)
        /\ ~journal => disk.journal = {}
        /\ Places(pending) <= MaxPending
    BY <1>2, Zenon DEF SafetyInv, UnackedBatches
  <1>6. e \in PendingAck /\ Calls(e) = {call} /\ Sequence(e) = nextSequence
        /\ Batches(e.beats) = {} /\ e.batch = call /\ e.joined = 0
    BY <1>2 DEF PendingAck, Calls, Sequence, Batches
  <1>. HIDE DEF call, e, w
  <1>7. stamp' = stamp /\ nextSequence' = nextSequence + 1
    BY DEF ReturnBatch, ReturnBatchFails
  <1>8. CASE ReturnBatch
    <2>1. /\ pending' = Append(pending, e) /\ health' = "healthy"
          /\ IF journal THEN disk' = w /\ survivors' = {w}
                        ELSE disk' = disk /\ survivors' = survivors
      BY <1>2, <1>8 DEF ReturnBatch, storeVars, call, e, w
    <2>2. /\ Len(pending') = l /\ pending'[l] = e
          /\ \A i \in 1 .. l - 1 : pending'[i] = pending[i]
          /\ Len(pending) = l - 1
      <3>1. pending \in Seq(PendingAck) /\ e \in PendingAck /\ l = Len(pending) + 1
        BY <1>4, <1>6, Zenon
      <3>2. /\ Len(Append(pending, e)) = l /\ Append(pending, e)[l] = e
            /\ \A i \in 1 .. l - 1 : Append(pending, e)[i] = pending[i]
            /\ Len(pending) = l - 1
        BY <3>1, AppendProperties
      <3>. QED
        BY <3>2, <2>1, Zenon
    <2>3. disk'.calls = disk.calls /\ disk'.next = disk.next /\ LastCommitted(disk') = LastCommitted(disk)
      BY <2>1, <1>3
    <2>4. Calls(pending'[l]) = {call} \cup (IF Len(pending) = l THEN Calls(pending[l]) ELSE {})
      <3>1. Len(pending) # l
        BY <1>4
      <3>2. Calls(pending'[l]) = {call}
        BY <2>2, <1>6, SMTT(30)
      <3>. QED
        BY <3>1, <3>2, Zenon
    <2>5. Queued(pending', disk, stamp, mem \cup {call})
      <3>1. Sequence(pending'[l]) = LastCommitted(disk) + l
        BY <2>2, <1>4, <1>5, <1>6, SMTT(30)
      <3>2. disk.calls \subseteq mem
        BY <1>5 DEF Remembered
      <3>3. Batches(pending'[l].beats) = {} /\ (stamp => pending'[l].batch.stamped)
        BY <2>2, <1>2, <1>6, SMTT(30)
      <3>. QED
        BY <2>2, <2>4, <3>1, <3>2, <3>3, <1>2, <1>4, <1>5, QueueGrows, ZenonT(30)
    <2>6. Queued(pending', disk', stamp', mem')
      BY <2>3, <2>5, <1>2, <1>7, Zenon DEF Queued
    <2>7. /\ \A i \in 1 .. Len(pending) :
                i \in 1 .. Len(pending') /\ Calls(pending[i]) \subseteq Calls(pending'[i])
          /\ l \in 1 .. Len(pending') /\ call \in Calls(pending'[l])
      BY <2>2, <2>4, <1>4, CallsKept, Zenon
    <2>8. Remembered(mem', pending', disk', TRUE, issued')
      <3>1. Remembered(mem \cup {call}, pending', disk, TRUE, issued + 1)
        BY <2>7, <1>2, <1>4, <1>5, MemoryGrows, Zenon
      <3>. QED
        BY <3>1, <2>3, <1>2, Zenon DEF Remembered
    <2>9. JournalOf(pending', disk')
      <3>1. \A i \in 1 .. Len(pending) : pending[i].joined \in Nat /\ pending'[i] = pending[i]
        BY <2>2, <1>4, JoinedType
      <3>2. \A i \in 1 .. Len(pending) :
                /\ i \in 1 .. Len(pending') /\ Calls(pending[i]) \subseteq Calls(pending'[i])
                /\ Sequence(pending'[i]) = Sequence(pending[i])
                /\ pending'[i].joined \in Nat /\ pending[i].joined <= pending'[i].joined
        BY <3>1, <2>7
      <3>3. \E h \in 1 .. Len(pending') : /\ nextSequence = Sequence(pending'[h])
                                          /\ 0 <= pending'[h].joined
                                          /\ call \in Calls(pending'[h])
        BY <2>2, <2>7, <1>6, SMTT(30)
      <3>4. JournalOf(pending', disk) /\ JournalOf(pending', w)
        BY <3>1, <3>2, <3>3, <1>4, <1>5, JournalGrows, Zenon DEF w
      <3>. QED
        BY <3>4, <2>1
    <2>10. Places(pending') <= MaxPending
      <3>1. pending' \in Seq(PendingAck) /\ pending'[l].joined = 0
        BY <1>1, <2>2, <1>6 DEF TypeOK
      <3>2. Places(pending') = Places(pending) + 1 /\ Places(pending) \in Nat
        <4>1. Len(pending) \in Nat /\ l = Len(pending) + 1
          BY <1>4
        <4>2. \A i \in 1 .. Len(pending) : pending'[i] = pending[i]
          BY <2>2, <4>1
        <4>3. Len(pending') = Len(pending) + 1 /\ pending'[Len(pending) + 1].joined = 0
          BY <2>2, <3>1
        <4>. HIDE DEF l
        <4>. QED
          BY <4>1, <4>2, <4>3, <3>1, <1>4, PlacesOneMore, Zenon
      <3>. QED
        BY <3>2, <1>2, MaxPendingAssumption
    <2>11. \A d \in survivors' : Snapshot(d, disk', issued')
      BY <2>1, <1>2, <1>3, SMTT(30)
    <2>12. \A b \in disk'.calls : b.id < issued'
      BY <2>3, <1>2, <1>3, SMTT(30)
    <2>13. nextSequence' = disk'.next + Len(pending')
      BY <2>2, <2>3, <1>4, <1>5, <1>7, SMTT(30)
    <2>14. (~stamp' => HasVersion(disk')) /\ (~journal' => disk'.journal = {})
      BY <2>1, <2>3, <1>2, <1>5, <1>7, SMTT(30) DEF HasVersion
    <2>. QED
      BY <2>1, <2>6, <2>8, <2>9, <2>10, <2>11, <2>12, <2>13, <2>14, <1>1, ZenonT(30)
      DEF SafetyInv, UnackedBatches
  <1>9. CASE ReturnBatchFails
    <2>1. /\ pending' = pending /\ journal
          /\ \/ health' = "poisoned" /\ disk' = disk /\ survivors' = survivors
             \/ health' = "sync_failed" /\ disk' = w /\ survivors' = survivors \cup {w}
      BY <1>9 DEF ReturnBatchFails, storeVars, call, w
    <2>2. disk'.calls = disk.calls /\ disk'.next = disk.next /\ LastCommitted(disk') = LastCommitted(disk)
      BY <2>1, <1>3, SMTT(30)
    <2>3. /\ Remembered(mem \cup {call}, pending, disk, FALSE, issued + 1)
          /\ Queued(pending, disk, stamp, mem \cup {call})
      BY <1>2, <1>4, <1>5, FailedCallLast, Zenon
    <2>4. Queued(pending', disk', stamp', mem')
      BY <2>1, <2>2, <2>3, <1>2, <1>7 DEF Queued
    <2>5. Remembered(mem', pending', disk', FALSE, issued')
      BY <2>1, <2>2, <2>3, <1>2 DEF Remembered
    <2>6. health' # "healthy" /\ health' # "closed"
      BY <2>1, SMTT(30)
    <2>7. \A d \in survivors' : Snapshot(d, disk', issued')
      BY <2>1, <1>2, <1>3, SMTT(30)
    <2>8. \A b \in disk'.calls : b.id < issued'
      BY <2>2, <1>2, <1>3
    <2>9. (~stamp' => HasVersion(disk')) /\ (~journal' => disk'.journal = {})
      BY <2>1, <2>2, <1>2, <1>5, <1>7, SMTT(30) DEF HasVersion
    <2>10. health' = "poisoned" => JournalOf(pending', disk')
      BY <2>1, <1>5
    <2>11. health' = "healthy" <=> FALSE
      BY <2>6
    <2>12. Remembered(mem', pending', disk', health' = "healthy", issued')
      BY <2>5, <2>6, SMTT(30) DEF Remembered
    <2>13. Places(pending') <= MaxPending
      BY <2>1, <1>5, SMTT(30)
    <2>. QED
      BY <2>1, <2>4, <2>6, <2>7, <2>8, <2>9, <2>10, <2>12, <2>13, <1>1, SMTT(30) DEF SafetyInv, UnackedBatches
  <1>. QED
    BY <1>8, <1>9, SMTT(30)

\* A heartbeat call that joins the newest batch.
LEMMA JoinSafe ==
    ASSUME SafetyInv, JoinHeartbeat
    PROVE  SafetyInv'
  <1>. DEFINE l == Len(pending)
              call == NewCall(0)
              newest == pending[l]
              w == PutJournal(disk, Sequence(newest), newest.joined + 1, call)
              joined == [batch  |-> newest.batch,
                         beats  |-> newest.beats \cup {call},
                         joined |-> newest.joined + 1]
  <1>1. TypeOK /\ TypeOK' /\ 0 \in Nat /\ Start(call)
    BY TypeStep DEF SafetyInv, Next, JoinHeartbeat
  <1>2. /\ health = "healthy" /\ issued' = issued + 1
        /\ call \in Call /\ call.id = issued /\ call.seq = 0
        /\ mem' = mem \cup {call}
        /\ disk.calls = {} => call.stamped
        /\ \A b \in mem : b.id < issued
        /\ Places(pending) < MaxPending
        /\ journal' = journal
    BY <1>1, CallStarts
  <1>3. /\ pending' = [pending EXCEPT ![l] = joined]
        /\ IF journal THEN disk' = w /\ survivors' = survivors \cup {w}
                      ELSE disk' = disk /\ survivors' = survivors
        /\ health' = health /\ stamp' = stamp /\ nextSequence' = nextSequence
        /\ pending # <<>>
    BY DEF JoinHeartbeat, storeVars
  <1>4. /\ pending \in Seq(PendingAck) /\ disk \in Store /\ issued \in Nat
        /\ mem \in SUBSET Call
        /\ LastCommitted(disk) \in Nat
    BY <1>1 DEF TypeOK, Store, LastCommitted
  <1>5. l \in Nat \ {0} /\ l \in 1 .. l /\ Len(pending) = l
    BY <1>3, <1>4, EmptySeq
  <1>6. /\ newest.batch \in Call /\ newest.beats \subseteq Call
        /\ newest.joined \in Nat /\ newest.joined + 1 \in Nat \ {0}
        /\ Sequence(newest) \in Nat
    BY <1>1, <1>5, EntryType, SMTT(30)
  <1>. HIDE DEF call
  <1>7. /\ w \in Store /\ w.calls = disk.calls /\ w.next = disk.next
        /\ LastCommitted(w) = LastCommitted(disk)
        /\ \A d \in survivors \cup {w} : Snapshot(d, w, issued + 1)
        /\ \A d \in survivors : Snapshot(d, disk, issued + 1)
        /\ \A b \in disk.calls : b.id < issued + 1
    BY <1>1, <1>2, <1>6, JournalWriteKeeps, Zenon
  <1>8. /\ Queued(pending, disk, stamp, mem)
        /\ Remembered(mem, pending, disk, TRUE, issued)
        /\ JournalOf(pending, disk)
        /\ nextSequence = disk.next + Len(pending)
        /\ ~stamp => HasVersion(disk)
        /\ ~journal => disk.journal = {}
    BY <1>2, Zenon DEF SafetyInv
  <1>9. /\ joined \in PendingAck /\ Calls(joined) = {call} \cup Calls(newest)
        /\ Sequence(joined) = Sequence(newest) /\ joined.batch = newest.batch
        /\ joined.joined = newest.joined + 1 /\ joined.beats = newest.beats \cup {call}
    BY <1>2, <1>6 DEF PendingAck, Calls, Sequence
  <1>. HIDE DEF joined, w
  <1>10. /\ Len(pending') = l /\ pending'[l] = joined
         /\ \A i \in 1 .. l - 1 : pending'[i] = pending[i]
         /\ pending' \in Seq(PendingAck)
    BY <1>1, <1>3, <1>4, <1>5, <1>9, ExceptSeq DEF TypeOK
  <1>11. disk'.calls = disk.calls /\ disk'.next = disk.next /\ LastCommitted(disk') = LastCommitted(disk)
    BY <1>3, <1>7
  <1>12. Calls(pending'[l]) = {call} \cup (IF Len(pending) = l THEN Calls(pending[l]) ELSE {})
    BY <1>5, <1>9, <1>10, Zenon
  <1>13. Queued(pending', disk, stamp, mem \cup {call})
    <2>1. /\ Sequence(newest) = LastCommitted(disk) + l
          /\ Batches(newest.beats) = {}
          /\ stamp => newest.batch.stamped
      BY <1>5, <1>8, Zenon DEF Queued
    <2>2. Batches(pending'[l].beats) = {}
      BY <2>1, <1>2, <1>9, <1>10, SMTT(30) DEF Batches
    <2>3. disk.calls \subseteq mem
      BY <1>8, Zenon DEF Remembered
    <2>4. /\ Sequence(pending'[l]) = LastCommitted(disk) + l
          /\ stamp => pending'[l].batch.stamped
      BY <2>1, <1>9, <1>10, SMTT(30)
    <2>. HIDE DEF l, newest
    <2>. QED
      BY <2>2, <2>3, <2>4, <1>2, <1>4, <1>5, <1>8, <1>10, <1>12, QueueGrows, ZenonT(30)
  <1>14. Queued(pending', disk', stamp', mem')
    BY <1>13, <1>2, <1>3, <1>11, SMTT(30) DEF Queued
  <1>15. /\ \A i \in 1 .. Len(pending) :
                i \in 1 .. Len(pending') /\ Calls(pending[i]) \subseteq Calls(pending'[i])
         /\ l \in 1 .. Len(pending') /\ call \in Calls(pending'[l])
    <2>. HIDE DEF l, newest
    <2>. QED
      BY <1>5, <1>10, <1>12, CallsKept, SMTT(30)
  <1>16. Remembered(mem', pending', disk', TRUE, issued')
    <2>1. Remembered(mem \cup {call}, pending', disk, TRUE, issued + 1)
      BY <1>2, <1>4, <1>8, <1>15, MemoryGrows, Zenon
    <2>. QED
      BY <2>1, <1>2, <1>11, SMTT(30) DEF Remembered
  <1>17. JournalOf(pending', disk')
    <2>1. \A i \in 1 .. Len(pending) : pending[i].joined \in Nat
      BY <1>4, JoinedType
    <2>2. ASSUME NEW i \in 1 .. Len(pending)
          PROVE  /\ i \in 1 .. Len(pending') /\ Calls(pending[i]) \subseteq Calls(pending'[i])
                 /\ Sequence(pending'[i]) = Sequence(pending[i])
                 /\ pending'[i].joined \in Nat /\ pending[i].joined <= pending'[i].joined
      <3>1. CASE i = l
        BY <3>1, <1>6, <1>9, <1>10, <1>15, SMTT(30)
      <3>2. CASE i # l
        <4>1. i \in 1 .. l - 1
          BY <3>2, <1>5, SMTT(30)
        <4>. QED
          BY <4>1, <2>1, <1>10, <1>15
      <3>. QED
        BY <3>1, <3>2
    <2>3. \E h \in 1 .. Len(pending') : /\ Sequence(newest) = Sequence(pending'[h])
                                        /\ newest.joined + 1 <= pending'[h].joined
                                        /\ call \in Calls(pending'[h])
      BY <1>6, <1>9, <1>10, <1>15, SMTT(30)
    <2>4. JournalOf(pending', disk) /\ JournalOf(pending', w)
      BY <2>1, <2>2, <2>3, <1>4, <1>8, JournalGrows, ZenonT(30) DEF w
    <2>. QED
      BY <2>4, <1>3
  <1>18. Places(pending') <= MaxPending
    <2>1. PICK n \in Nat : l = n + 1
      BY <1>5, SMTT(30)
    <2>2. \A i \in 1 .. n : pending'[i] = pending[i]
      BY <2>1, <1>10, SMTT(30)
    <2>3. Len(pending) = n + 1 /\ Len(pending') = n + 1
          /\ pending'[n + 1].joined = pending[n + 1].joined + 1
      BY <2>1, <1>9, <1>10, SMTT(30)
    <2>4. Places(pending') = Places(pending) + 1 /\ Places(pending) \in Nat
      <3>. HIDE DEF l
      <3>. QED
        BY <2>2, <2>3, <1>4, <1>10, PlacesOneMore, ZenonT(30)
    <2>. QED
      BY <2>4, <1>2, MaxPendingAssumption
  <1>19. \A d \in survivors' : Snapshot(d, disk', issued')
    BY <1>2, <1>3, <1>7
  <1>20. \A b \in disk'.calls : b.id < issued'
    BY <1>2, <1>7, <1>11
  <1>21. nextSequence' = disk'.next + Len(pending')
    BY <1>3, <1>8, <1>10, <1>11, Zenon
  <1>22. (~stamp' => HasVersion(disk')) /\ (~journal' => disk'.journal = {})
    BY <1>2, <1>3, <1>8, <1>11, SMTT(30) DEF HasVersion
  <1>23. health' = "healthy"
    BY <1>2, <1>3, SMTT(30)
  <1>. QED
    BY <1>1, <1>14, <1>16, <1>17, <1>18, <1>19, <1>20, <1>21, <1>22, <1>23, Zenon
    DEF SafetyInv, UnackedBatches

\* A heartbeat call with an empty queue, also one that fails.
LEMMA HeartbeatSafe ==
    ASSUME SafetyInv, CommitHeartbeat \/ HeartbeatFails
    PROVE  SafetyInv'
  <1>. DEFINE call == NewCall(0)
              w == [calls |-> disk.calls \cup {call}, next |-> nextSequence, journal |-> disk.journal]
  <1>1. TypeOK /\ TypeOK' /\ 0 \in Nat /\ Start(call)
    BY TypeStep, ZenonT(30) DEF SafetyInv, Next, CommitHeartbeat, HeartbeatFails
  <1>2. /\ health = "healthy" /\ issued' = issued + 1
        /\ call \in Call /\ call.id = issued /\ call.seq = 0 /\ call.stamped = stamp
        /\ mem' = mem \cup {call}
        /\ \A b \in mem : b.id < issued
        /\ journal' = journal
    BY <1>1, CallStarts
  <1>3. /\ disk \in Store /\ disk \in survivors /\ survivors \subseteq Store /\ issued \in Nat
        /\ mem \in SUBSET Call /\ issued + 1 \in Nat /\ issued <= issued + 1
        /\ LastCommitted(disk) \in Nat /\ disk.next \in Nat \ {0}
    BY <1>1, SMTT(30) DEF TypeOK, Store, LastCommitted
  <1>4. /\ Queued(pending, disk, stamp, mem)
        /\ Remembered(mem, pending, disk, TRUE, issued)
        /\ JournalOf(pending, disk)
        /\ nextSequence = disk.next + Len(pending)
        /\ ~stamp => HasVersion(disk)
        /\ ~journal => disk.journal = {}
        /\ \A d \in survivors : Snapshot(d, disk, issued)
        /\ \A b \in disk.calls : b.id < issued
        /\ Places(pending) <= MaxPending
    BY <1>2, ZenonT(30) DEF SafetyInv, UnackedBatches
  <1>5. \A b \in disk.calls : b.id \in Nat /\ b.id < issued + 1
    BY <1>3, <1>4 DEF Store, Call
  <1>. HIDE DEF call
  <1>6. CASE CommitHeartbeat
    <2>1. /\ pending = <<>> /\ pending' = <<>> /\ disk' = w /\ survivors' = survivors \cup {w}
          /\ stamp' = FALSE /\ nextSequence' = nextSequence /\ health' = "healthy"
      BY <1>2, <1>6, SMTT(30) DEF CommitHeartbeat, call
    <2>2. disk.journal = {} /\ Len(pending) = 0
      <3>1. Len(pending) = 0 /\ JournalOf(pending, disk)
        BY <2>1, <1>4
      <3>2. \A i \in 1 .. Len(pending) : FALSE
        BY <3>1
      <3>. QED
        BY <3>1, <3>2, Zenon DEF JournalOf
    <2>3. w.calls = disk.calls \cup {call} /\ w.next = disk.next /\ w.journal = {}
      BY <2>2, <1>3, <1>4
    <2>4. w \in Store
      BY <1>1, <2>1 DEF TypeOK
    <2>. HIDE DEF w
    <2>5. IsPrefixOf(disk.calls, w.calls)
      <3>1. {call} \in SUBSET Call /\ disk.calls \in SUBSET Call
        BY <1>2, <1>3, SMTT(30) DEF Store
      <3>2. \A e \in {call} : Before(disk.calls, e)
        BY <1>2, <1>4 DEF Before
      <3>. QED
        BY <2>3, <3>1, <3>2, LaterExtends, SMTT(30)
    <2>6. HasVersion(w)
      <3>1. CASE stamp
        BY <3>1, <2>3, <1>2, Zenon DEF HasVersion
      <3>2. CASE ~stamp
        BY <3>2, <2>3, <1>4 DEF HasVersion
      <3>. QED
        BY <3>1, <3>2
    <2>7. Snapshot(w, w, issued + 1)
      <3>1. IsPrefixOf(w.calls, w.calls) /\ w.next <= w.next /\ FormatCheck(w)
        BY <2>3, <2>6, <1>3, SMTT(30) DEF IsPrefixOf, FormatCheck
      <3>. QED
        BY <3>1, <2>3 DEF Snapshot
    <2>8. \A d \in survivors : Snapshot(d, w, issued + 1)
      <3>1. disk.next <= w.next
        BY <2>3, <1>3
      <3>. QED
        BY <3>1, <2>4, <2>5, <1>3, <1>4, SnapshotOfLater, SMTT(30)
    <2>9. \A d \in survivors' : Snapshot(d, disk', issued')
      BY <2>1, <2>7, <2>8, <1>2, SMTT(30)
    <2>10. \A b \in disk'.calls : b.id < issued'
      BY <2>1, <2>3, <1>2, <1>3, <1>5, SMTT(30)
    <2>11. Queued(pending', disk', stamp', mem')
      BY <2>1 DEF Queued
    <2>12. Remembered(mem', pending', disk', TRUE, issued')
      <3>1. \A b \in mem : b \in disk.calls
        BY <2>2, <1>4 DEF Remembered
      <3>2. \A b \in mem' : b \in disk'.calls
        BY <3>1, <2>1, <2>3, <1>2, SMTT(30)
      <3>3. disk'.calls \subseteq mem'
        BY <2>1, <2>3, <1>2, <1>4, SMTT(30) DEF Remembered
      <3>. QED
        BY <3>2, <3>3, <2>10, SMTT(30) DEF Remembered
    <2>13. JournalOf(pending', disk')
      BY <2>1, <2>3, SMTT(30) DEF JournalOf
    <2>14. Places(pending') <= MaxPending
      BY <2>1, <1>4, SMTT(30)
    <2>15. nextSequence' = disk'.next + Len(pending')
      BY <2>1, <2>3, <1>4
    <2>16. HasVersion(disk') /\ disk'.journal = {}
      BY <2>1, <2>3, <2>6, SMTT(30)
    <2>. QED
      BY <2>1, <2>9, <2>10, <2>11, <2>12, <2>13, <2>14, <2>15, <2>16, <1>1, Zenon DEF SafetyInv, UnackedBatches
  <1>7. CASE HeartbeatFails
    <2>1. /\ pending' = pending /\ disk' = disk /\ survivors' = survivors
          /\ stamp' = stamp /\ health' = "poisoned"
      BY <1>7, SMTT(30) DEF HeartbeatFails, storeVars
    <2>2. /\ Remembered(mem \cup {call}, pending, disk, FALSE, issued + 1)
          /\ Queued(pending, disk, stamp, mem \cup {call})
      BY <1>2, <1>3, <1>4, FailedCallLast, Zenon
    <2>3. Remembered(mem', pending', disk', FALSE, issued') /\ Queued(pending', disk', stamp', mem')
      BY <2>1, <2>2, <1>2, Zenon
    <2>4. Remembered(mem', pending', disk', health' = "healthy", issued')
      BY <2>1, <2>3 DEF Remembered
    <2>5. \A d \in survivors' : Snapshot(d, disk', issued')
      <3>1. IsPrefixOf(disk.calls, disk.calls) /\ disk.next <= disk.next
        BY <1>3, SMTT(30) DEF IsPrefixOf
      <3>2. \A d \in survivors : Snapshot(d, disk, issued + 1)
        BY <3>1, <1>3, <1>4, SnapshotOfLater, SMTT(30)
      <3>. QED
        BY <3>2, <2>1, <1>2
    <2>6. \A b \in disk'.calls : b.id < issued'
      BY <2>1, <1>2, <1>5
    <2>. QED
      BY <2>1, <2>3, <2>4, <2>5, <2>6, <1>1, <1>2, <1>4, Zenon DEF SafetyInv, UnackedBatches
  <1>. QED
    BY <1>6, <1>7

\* An ack, with any number of commits that succeed.
LEMMA AckSafe ==
    ASSUME SafetyInv, NEW n \in 1 .. Len(pending), NEW k \in 0 .. n,
           Ack(n, k) \/ AckSyncFails(n, k)
    PROVE  SafetyInv'
  <1>1. TypeOK /\ TypeOK'
    <2>1. Next
      BY DEF Next
    <2>. QED
      BY <2>1, TypeStep, Zenon DEF SafetyInv
  <1>2. /\ health \in {"healthy", "poisoned"}
        /\ disk' = Committed(k)
        /\ pending' = SubSeq(pending, k + 1, Len(pending))
        /\ stamp' = (stamp /\ k = 0)
        /\ mem' = mem /\ nextSequence' = nextSequence /\ journal' = journal /\ issued' = issued
        /\ health' = health \/ (health' = "sync_failed" /\ k > 0)
        /\ \A d \in survivors' : d \in survivors \/ \E i \in 1 .. k : d = Committed(i)
    BY DEF Ack, AckSyncFails, AckCommits
  <1>3. /\ Len(pending) \in Nat /\ pending \in Seq(PendingAck) /\ disk \in Store
        /\ survivors \subseteq Store /\ issued \in Nat /\ k \in Nat /\ issued <= issued
        /\ disk.next \in Nat
    BY <1>1, LenProperties, SMTT(30) DEF TypeOK, Store
  <1>4. CASE k = 0
    <2>1. Committed(k) = disk
      BY <1>3, <1>4 DEF Committed, Store
    <2>2. SubSeq(pending, k + 1, Len(pending)) = pending
      BY <1>3, <1>4, SubSeqFull, SMTT(30)
    <2>3. disk' = disk /\ pending' = pending /\ stamp' = stamp /\ health' = health
      BY <1>1, <1>2, <1>4, <2>1, <2>2, SMTT(30) DEF TypeOK
    <2>4. \A d \in survivors' : d \in survivors
      BY <1>2, <1>4, SMTT(30)
    <2>. QED
      BY <2>3, <2>4, <1>1, <1>2, SMTT(30) DEF SafetyInv, UnackedBatches
  <1>5. CASE k # 0
    <2>. DEFINE w == Committed(k)
    <2>1. k \in 1 .. Len(pending) /\ k \in k .. Len(pending)
      BY <1>3, <1>5
    <2>2. /\ w \in Store /\ w.next = disk.next + k /\ w.journal \subseteq disk.journal
      BY <2>1, CommittedParts, SMTT(30)
    <2>3. /\ HasVersion(w) /\ \A b \in w.calls : b.id < issued
          /\ IsPrefixOf(disk.calls, w.calls) /\ Snapshot(w, w, issued)
      BY <1>2, <2>1, CommittedSnapshot, SMTT(30)
    <2>4. ASSUME NEW d \in survivors PROVE Snapshot(d, w, issued)
      <3>1. disk.next <= w.next
        BY <2>2, <1>3, SMTT(30)
      <3>2. Snapshot(d, disk, issued)
        BY SMTT(30) DEF SafetyInv
      <3>. QED
        BY <3>1, <3>2, <2>2, <2>3, <1>3, SnapshotOfLater, SMTT(30)
    <2>5. ASSUME NEW i \in 1 .. k PROVE Snapshot(Committed(i), w, issued)
      <3>1. i \in 1 .. Len(pending) /\ k \in i .. Len(pending)
        BY <1>3, <2>1, SMTT(30)
      <3>2. Committed(i) \in Store /\ Committed(i).next = disk.next + i
        BY <3>1, CommittedParts, SMTT(30)
      <3>3. IsPrefixOf(Committed(i).calls, w.calls) /\ Snapshot(Committed(i), Committed(i), issued)
        BY <1>2, <3>1, CommittedSnapshot, SMTT(30)
      <3>4. Committed(i).next <= w.next
        BY <3>1, <3>2, <2>2, <1>3, SMTT(30)
      <3>. HIDE DEF w
      <3>. QED
        BY <3>2, <3>3, <3>4, <2>2, <1>3, SnapshotOfLater, SMTT(30)
    <2>6. \A d \in survivors' : Snapshot(d, disk', issued')
      BY <2>4, <2>5, <1>2, SMTT(30)
    <2>7. /\ Len(pending') = Len(pending) - k
          /\ Places(pending') <= MaxPending
          /\ Queued(pending', disk', FALSE, mem')
          /\ Remembered(mem', pending', disk', health = "healthy", issued')
          /\ JournalOf(pending', disk')
      BY <1>2, <2>1, QueueBehind, Zenon
    <2>8. Queued(pending', disk', stamp', mem')
      BY <2>7, <1>2, <1>5, Zenon
    <2>9. health' # "closed" => Remembered(mem', pending', disk', health' = "healthy", issued')
      <3>1. health' = health => Remembered(mem', pending', disk', health' = "healthy", issued')
        BY <2>7, SMTT(30)
      <3>2. health' = "sync_failed" => Remembered(mem', pending', disk', health' = "healthy", issued')
        <4>1. ASSUME health' = "sync_failed"
              PROVE  Remembered(mem', pending', disk', FALSE, issued')
          BY <2>7 DEF Remembered
        <4>. QED
          BY <4>1, SMTT(30) DEF Remembered
      <3>. QED
        BY <3>1, <3>2, <1>2
    <2>10. health' = "healthy" => nextSequence' = disk'.next + Len(pending')
      <3>. SUFFICES ASSUME health' = "healthy" PROVE nextSequence' = disk'.next + Len(pending')
        BY SMTT(30)
      <3>1. nextSequence = disk.next + Len(pending)
        BY <1>2, ZenonT(30) DEF SafetyInv
      <3>2. disk'.next = disk.next + k /\ Len(pending') = Len(pending) - k
        BY <1>2, <2>2, <2>7, ZenonT(30)
      <3>. QED
        BY <3>1, <3>2, <1>2, <1>3
    <2>11. ~journal' => disk'.journal = {}
      BY <1>2, <2>2, Zenon DEF SafetyInv
    <2>12. health' # "closed" /\ HasVersion(disk') /\ \A b \in disk'.calls : b.id < issued'
      BY <1>2, <2>3, SMTT(30)
    <2>. QED
      BY <2>6, <2>7, <2>8, <2>9, <2>10, <2>11, <2>12, <1>1, SMTT(30) DEF SafetyInv, UnackedBatches
  <1>. QED
    BY <1>4, <1>5, SMTT(30)

\* The empty queue takes no place.
LEMMA EmptyQueue ==
    ASSUME TypeOK
    PROVE  /\ Places(<<>>) <= MaxPending
           /\ \A store, marked, m : Queued(<<>>, store, marked, m)
  <1>1. Len(<<>>) = 0 /\ <<>> \in Seq(PendingAck)
    BY EmptySeq
  <1>2. Places(<<>>) = 0
    BY <1>1, PlacesLaw, Zenon
  <1>. QED
    BY <1>1, <1>2, MaxPendingAssumption DEF Queued

\* A crash or a power loss.
LEMMA CloseSafe ==
    ASSUME SafetyInv, Crash \/ PowerLoss
    PROVE  SafetyInv'
  <1>1. TypeOK /\ TypeOK'
    BY TypeStep DEF SafetyInv, Next
  <1>2. /\ mem' = {} /\ pending' = <<>> /\ health' = "closed" /\ issued' = issued
        /\ \/ disk' = disk /\ survivors' = survivors
           \/ \E d \in survivors : disk' = d /\ survivors' = {d}
    BY DEF Crash, PowerLoss, Close, storeVars, hostVars
  <1>3. \A d \in survivors' : Snapshot(d, disk', issued')
    <2>1. CASE disk' = disk /\ survivors' = survivors
      BY <2>1, <1>2 DEF SafetyInv
    <2>2. CASE \E d \in survivors : disk' = d /\ survivors' = {d}
      <3>1. PICK d \in survivors : disk' = d /\ survivors' = {d}
        BY <2>2, SMTT(30)
      <3>2. Snapshot(d, disk, issued) /\ d \in Store
        BY <1>1, Zenon DEF SafetyInv, TypeOK
      <3>3. IsPrefixOf(d.calls, d.calls) /\ d.next <= d.next
        BY <3>2, SMTT(30) DEF IsPrefixOf, Store
      <3>4. Snapshot(d, d, issued)
        BY <3>2, <3>3, Zenon DEF Snapshot
      <3>. QED
        BY <3>1, <3>4, <1>2
    <2>. QED
      BY <2>1, <2>2, <1>2, SMTT(30)
  <1>4. \A b \in disk'.calls : b.id < issued'
    <2>1. \A d \in survivors : d.calls \subseteq disk.calls
      BY SafeFacts, Zenon DEF Snapshot, IsPrefixOf
    <2>2. disk'.calls \subseteq disk.calls
      BY <2>1, <1>2
    <2>. QED
      BY <2>2, <1>2, SafeFacts, Zenon
  <1>5. Queued(pending', disk', stamp', mem') /\ Places(pending') <= MaxPending
    BY <1>1, <1>2, EmptyQueue, SMTT(30)
  <1>. QED
    BY <1>1, <1>2, <1>3, <1>4, <1>5 DEF SafetyInv, UnackedBatches

\* What an open recovers from the store.
LEMMA RecoveredSnapshot ==
    ASSUME SafetyInv, NEW mode \in BOOLEAN, Recovers(mode, disk)
    PROVE  LET r == Recovered(mode, disk)
           IN  /\ r \in Store
               /\ r.journal = {}
               /\ IsPrefixOf(disk.calls, r.calls)
               /\ disk.next <= r.next
               /\ Snapshot(r, r, issued)
               /\ \A b \in r.calls : b.id < issued
  <1>1. /\ disk \in Store /\ disk \in survivors /\ issued \in Nat /\ target.applied \in Nat
        /\ Snapshot(disk, disk, issued) /\ \A b \in disk.calls : b.id < issued
    BY SafeFacts, Zenon
  <1>2. CASE mode
    <2>1. Recovered(mode, disk) = Reconciled(disk, target.applied)
      BY <1>2 DEF Recovered
    <2>2. /\ Reconciled(disk, target.applied) \in Store
          /\ Reconciled(disk, target.applied).journal = {}
          /\ IsPrefixOf(disk.calls, Reconciled(disk, target.applied).calls)
          /\ disk.next <= Reconciled(disk, target.applied).next
          /\ Snapshot(Reconciled(disk, target.applied), Reconciled(disk, target.applied), issued)
          /\ \A b \in Reconciled(disk, target.applied).calls : b.id < issued
      BY <1>1, ReconciledSnapshot, Zenon
    <2>. QED
      BY <2>1, <2>2, Zenon
  <1>3. CASE ~mode
    <2>1. Recovered(mode, disk) = disk /\ disk.journal = {}
      BY <1>3 DEF Recovered, Recovers
    <2>2. IsPrefixOf(disk.calls, disk.calls) /\ disk.next <= disk.next
      BY <1>1 DEF IsPrefixOf, Store
    <2>. QED
      BY <2>1, <2>2, <1>1, Zenon
  <1>. QED
    BY <1>2, <1>3, Zenon

\* An open, also one whose sync fails.
LEMMA OpenSafe ==
    ASSUME SafetyInv, NEW mode \in Modes, Open(mode) \/ OpenSyncFails(mode)
    PROVE  SafetyInv'
  <1>. DEFINE r == Recovered(mode, disk)
  <1>1. TypeOK /\ TypeOK' /\ mode \in BOOLEAN
    <2>1. Next
      BY SMTT(30) DEF Next
    <2>. QED
      BY <2>1, TypeStep, ModesAssumption DEF SafetyInv
  <1>2. /\ health = "closed" /\ disk' = r /\ issued' = issued /\ Recovers(mode, disk)
    BY SMTT(30) DEF Open, OpenSyncFails, hostVars
  <1>3. /\ r \in Store /\ r.journal = {}
        /\ IsPrefixOf(disk.calls, r.calls) /\ disk.next <= r.next
        /\ Snapshot(r, r, issued) /\ \A b \in r.calls : b.id < issued
    BY <1>1, <1>2, RecoveredSnapshot, Zenon
  <1>4. /\ disk \in Store /\ disk \in survivors /\ survivors \subseteq Store
        /\ issued \in Nat /\ issued <= issued
        /\ \A d \in survivors : Snapshot(d, disk, issued)
    BY SafeFacts, Zenon
  <1>. HIDE DEF r
  <1>5. \A d \in survivors \cup {r} : Snapshot(d, r, issued)
    BY <1>3, <1>4, SnapshotOfLater, Zenon
  <1>6. survivors' \subseteq survivors \cup {r}
    BY <1>2, <1>4, Zenon DEF Open, OpenSyncFails, BackendOpened, r
  <1>7. \A d \in survivors' : Snapshot(d, disk', issued')
    BY <1>2, <1>5, <1>6, Zenon
  <1>8. \A b \in disk'.calls : b.id < issued'
    BY <1>2, <1>3, Zenon
  <1>9. Queued(<<>>, disk', stamp', mem') /\ Places(<<>>) <= MaxPending
    BY <1>1, EmptyQueue, SMTT(30)
  <1>10. CASE Open(mode)
    <2>1. /\ mem' = r.calls /\ nextSequence' = r.next /\ pending' = <<>>
          /\ stamp' = ~HasVersion(r) /\ health' = "healthy"
      BY <1>10, ZenonT(30) DEF Open, r
    <2>2. Remembered(mem', pending', disk', TRUE, issued')
      BY <2>1, <1>2, <1>3, Zenon DEF Remembered
    <2>3. JournalOf(pending', disk') /\ disk'.journal = {}
      BY <1>2, <1>3, Zenon DEF JournalOf
    <2>4. Len(pending') = 0 /\ r.next \in Nat
      BY <2>1, <1>3 DEF Store
    <2>5. nextSequence' = disk'.next + Len(pending')
      BY <2>1, <2>4, <1>2
    <2>6. ~stamp' => HasVersion(disk')
      BY <2>1, <1>2, ZenonT(30)
    <2>. QED
      BY <2>1, <2>2, <2>3, <2>5, <2>6, <1>1, <1>7, <1>8, <1>9, ZenonT(30) DEF SafetyInv, UnackedBatches
  <1>11. CASE OpenSyncFails(mode)
    <2>1. health' = "closed" /\ pending' = <<>>
      BY <1>2, <1>11, Zenon DEF OpenSyncFails, instanceVars, SafetyInv
    <2>. QED
      BY <2>1, <1>1, <1>7, <1>8, <1>9, Zenon DEF SafetyInv, UnackedBatches
  <1>. QED
    BY <1>10, <1>11, SMTT(30)

\* Every step keeps the invariant of the store and the queue.
LEMMA SafetyStep == SafetyInv /\ [Next]_vars => SafetyInv'
  <1>. SUFFICES ASSUME SafetyInv, [Next]_vars PROVE SafetyInv'
    BY SMTT(30)
  <1>1. TypeOK'
    BY TypeStep, SMTT(30) DEF SafetyInv
  <1>2. CASE EnginePoison
    <2>1. /\ health = "healthy" /\ health' = "poisoned"
          /\ disk' = disk /\ survivors' = survivors /\ mem' = mem /\ pending' = pending
          /\ stamp' = stamp /\ journal' = journal /\ issued' = issued
      BY <1>2, Zenon DEF EnginePoison, storeVars, hostVars
    <2>2. Remembered(mem', pending', disk', health' = "healthy", issued')
      <3>1. Remembered(mem, pending, disk, TRUE, issued)
        BY <2>1, Zenon DEF SafetyInv
      <3>2. Remembered(mem, pending, disk, FALSE, issued)
        BY <3>1 DEF Remembered
      <3>. QED
        BY <2>1, <3>2, ZenonT(30) DEF Remembered
    <2>. QED
      BY <2>1, <2>2, <1>1, Zenon DEF SafetyInv, UnackedBatches
  <1>3. CASE Apply
    <2>1. /\ disk' = disk /\ survivors' = survivors /\ mem' = mem /\ pending' = pending
          /\ stamp' = stamp /\ journal' = journal /\ issued' = issued /\ health' = health
          /\ nextSequence' = nextSequence
      BY <1>3, SMTT(30) DEF Apply, storeVars, instanceVars
    <2>. QED
      BY <2>1, <1>1, Zenon DEF SafetyInv, UnackedBatches
  <1>4. CASE UNCHANGED vars
    <2>1. /\ disk' = disk /\ survivors' = survivors /\ mem' = mem /\ pending' = pending
          /\ stamp' = stamp /\ journal' = journal /\ issued' = issued /\ health' = health
          /\ nextSequence' = nextSequence
      BY <1>4, SMTT(30) DEF vars, storeVars, instanceVars, hostVars
    <2>. QED
      BY <2>1, <1>1, Zenon DEF SafetyInv, UnackedBatches
  <1>. QED
    BY <1>2, <1>3, <1>4, ReturnSafe, JoinSafe, HeartbeatSafe, AckSafe, CloseSafe, OpenSafe, SMTT(30)
    DEF Next

\* A new store satisfies the invariant.
LEMMA SafetyInit == Init => SafetyInv
  <1>. SUFFICES ASSUME Init PROVE SafetyInv
    BY SMTT(30)
  <1>1. TypeOK /\ pending = <<>> /\ health = "closed" /\ disk = EmptyStore /\ survivors = {EmptyStore}
    BY InitType DEF Init
  <1>2. EmptyStore.calls = {} /\ EmptyStore.journal = {} /\ EmptyStore.next = 1
    BY SMTT(30) DEF EmptyStore
  <1>3. Snapshot(EmptyStore, EmptyStore, issued)
    BY <1>2 DEF Snapshot, IsPrefixOf, FormatCheck
  <1>4. Queued(pending, disk, stamp, mem) /\ Places(pending) <= MaxPending
    BY <1>1, EmptyQueue
  <1>. QED
    BY <1>1, <1>2, <1>3, <1>4 DEF SafetyInv, UnackedBatches

\* In every reachable state, however the hosts open, the stores that a crash
\* may leave, the queue and memory are in the order of the calls.
THEOREM SafetyInvariant == Spec => []SafetyInv
  BY SafetyInit, SafetyStep, PTL DEF Spec

\* Whatever a crash or a power loss leaves in the store is the effect of the
\* first calls, with the format version, also after a recovery of the journal.
THEOREM StoreHoldsFirstCalls == Spec => []CommittedPrefix
  <1>1. SafetyInv => CommittedPrefix
    <2>. SUFFICES ASSUME SafetyInv, NEW d \in survivors
                  PROVE  /\ IsPrefixOf(d.calls, IF health = "closed" THEN disk.calls ELSE mem)
                         /\ FormatCheck(d)
                         /\ FormatCheck(Reconciled(d, target.applied))
      BY SMTT(30) DEF CommittedPrefix
    <2>1. /\ disk \in Store /\ disk \in survivors /\ survivors \subseteq Store /\ issued \in Nat
          /\ target.applied \in Nat /\ mem \in SUBSET Call
          /\ Snapshot(d, disk, issued) /\ \A b \in disk.calls : b.id < issued
      BY SMTT(30) DEF SafetyInv, TypeOK
    <2>2. IsPrefixOf(d.calls, disk.calls) /\ FormatCheck(d) /\ d.calls \subseteq disk.calls
      BY <2>1 DEF Snapshot, IsPrefixOf
    <2>3. ASSUME health # "closed" PROVE IsPrefixOf(d.calls, mem)
      <3>1. Remembered(mem, pending, disk, health = "healthy", issued)
            /\ Queued(pending, disk, stamp, mem)
        BY <2>3 DEF SafetyInv
      <3>2. \A e \in mem : e \in disk.calls \/ Before(disk.calls, e)
        BY <3>1, Zenon DEF Remembered, Queued
      <3>3. IsPrefixOf(disk.calls, disk.calls \cup mem)
        BY <3>2, <2>1, LaterExtends, Zenon DEF Store
      <3>4. disk.calls \cup mem = mem
        BY <3>1 DEF Remembered
      <3>. QED
        BY <3>3, <3>4, <2>2, PrefixTransitive, SMTT(30)
    <2>4. FormatCheck(Reconciled(d, target.applied))
      <3>1. IsPrefixOf(d.calls, d.calls) /\ d.next <= d.next /\ d \in Store
        BY <2>1, SMTT(30) DEF IsPrefixOf, Store
      <3>2. Snapshot(d, d, issued) /\ \A b \in d.calls : b.id < issued
        BY <3>1, <2>1, <2>2, SMTT(30) DEF Snapshot
      <3>3. Snapshot(Reconciled(d, target.applied), Reconciled(d, target.applied), issued)
        BY <3>1, <3>2, <2>1, ReconciledSnapshot, SMTT(30)
      <3>. QED
        BY <3>3 DEF Snapshot
    <2>. QED
      BY <2>2, <2>3, <2>4
  <1>. QED
    BY <1>1, SafetyInvariant, PTL

\* While the instance takes work, memory is the store plus the queue, the
\* queue is within its bound and in sequence, and the journal holds its parts.
THEOREM QueueLeadsToMemory == Spec => []MemoryIsStorePlusQueue
  <1>1. SafetyInv => MemoryIsStorePlusQueue
    <2>. SUFFICES ASSUME SafetyInv PROVE MemoryIsStorePlusQueue
      BY SMTT(30)
    <2>1. \A i \in 1 .. Len(pending) : Sequence(pending[i]) = LastCommitted(disk) + i
      BY Zenon DEF SafetyInv, Queued
    <2>2. ASSUME health = "healthy"
          PROVE  /\ nextSequence = disk.next + Len(pending)
                 /\ mem = disk.calls \cup UNION {{pending[i].batch} \cup pending[i].beats :
                                                    i \in 1 .. Len(pending)}
                 /\ \A p \in disk.journal :
                        \E i \in 1 .. Len(pending) :
                            p.sequence = Sequence(pending[i]) /\ p.part <= pending[i].joined
      <3>1. /\ Remembered(mem, pending, disk, TRUE, issued)
            /\ Queued(pending, disk, stamp, mem) /\ JournalOf(pending, disk)
        BY <2>2, Zenon DEF SafetyInv
      <3>2. \A c : c \in mem <=> c \in disk.calls \/ \E i \in 1 .. Len(pending) : c \in Calls(pending[i])
        BY <3>1, Zenon DEF Remembered, Queued
      <3>3. mem = disk.calls \cup UNION {Calls(pending[i]) : i \in 1 .. Len(pending)}
        BY <3>2
      <3>4. mem = disk.calls \cup UNION {{pending[i].batch} \cup pending[i].beats :
                                            i \in 1 .. Len(pending)}
        BY <3>3 DEF Calls
      <3>. QED
        BY <3>1, <3>4, <2>2, ZenonT(30) DEF SafetyInv, JournalOf
    <2>. QED
      BY <2>1, <2>2, Zenon DEF SafetyInv, MemoryIsStorePlusQueue
  <1>. QED
    BY <1>1, SafetyInvariant, PTL

=============================================================================
