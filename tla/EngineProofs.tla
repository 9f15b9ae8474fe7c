---------------------------- MODULE EngineProofs ----------------------------
(***************************************************************************)
(* What the engine keeps for every chain, every order of forks, acks,      *)
(* crashes and attaches, and every configuration.                          *)
(***************************************************************************)
EXTENDS EngineCalls

-----------------------------------------------------------------------------
(* The inductive invariant *)

\* The store once all write sets that wait are committed.
Newest == Image(Len(pending))

\* Every store that a crash may leave is sound, each later one keeps what is final in
\* the one before, and the engine mirrors the newest.
EngineInv ==
    /\ eng \in EngineState /\ accepted \in SUBSET Row
    /\ attached \in BOOLEAN /\ poisoned \in BOOLEAN
    /\ pending \in Seq(Seq(Write))
    /\ \A i \in 0 .. Len(pending) : StoreOK(Image(i))
    /\ \A i \in 1 .. Len(pending) : Later(Image(i - 1), Image(i))
    /\ IF poisoned
       THEN eng = NewEngine
       ELSE accepted = Newest.accepted /\ Mirrors(eng, Newest) /\ Nodes(eng, accepted, MissingCallback)

-----------------------------------------------------------------------------
(* The write sets that wait *)

\* What is final stays final over any number of write sets.
LEMMA LaterTransitive ==
    ASSUME Assumptions, NEW a \in Store, NEW b \in Store, NEW c \in Store, Later(a, b), Later(b, c)
    PROVE  Later(a, c)
  <1>1. /\ FinalTop(a) \in Int /\ FinalTop(b) \in Int /\ FinalTop(c) \in Int
        /\ a.finality \in Int /\ b.finality \in Int /\ c.finality \in Int
        /\ a.accepted \in SUBSET Row /\ b.accepted \in SUBSET Row /\ c.accepted \in SUBSET Row
        /\ \A r \in Row : r.block \in Int
    BY StoreFields
  <1>2. /\ a.finality <= b.finality /\ b.finality <= c.finality
        /\ FinalTop(a) <= FinalTop(b) /\ FinalTop(b) <= FinalTop(c)
    BY SMTT(30) DEF Later
  <1>3. \A r \in Row : r.block <= FinalTop(a) => (r \in b.accepted <=> r \in a.accepted)
    BY DEF Later, Upto
  <1>4. \A r \in Row : r.block <= FinalTop(b) => (r \in c.accepted <=> r \in b.accepted)
    BY SMTT(30) DEF Later, Upto
  <1>5. \A r \in Row : r.block <= FinalTop(a) => (r \in c.accepted <=> r \in a.accepted)
    BY <1>1, <1>2, <1>3, <1>4, SMTT(30)
  <1>6. Upto(c.accepted, FinalTop(a)) = Upto(a.accepted, FinalTop(a))
    BY <1>1, <1>5, UptoSame, SMTT(30)
  <1>. QED
    BY <1>1, <1>2, <1>6 DEF Later

\* The newest store is not behind the committed one.
LEMMA NewestLater ==
    ASSUME Assumptions, EngineInv
    PROVE  FinalTop(disk) <= FinalTop(Newest)
  <1>. DEFINE L == Len(pending)
              S == {n \in Nat : n <= L => FinalTop(disk) <= FinalTop(Image(n))}
  <1>1. /\ L \in Nat /\ Image(0) = disk
        /\ \A i \in 0 .. L : Image(i) \in Store
        /\ \A i \in 1 .. L : FinalTop(Image(i - 1)) <= FinalTop(Image(i))
    BY ImageLaw, SMTT(30) DEF EngineInv, Image, StoreOK, Later
  <1>2. \A i \in 0 .. L : FinalTop(Image(i)) \in Int
    BY <1>1, StoreFields
  <1>. HIDE DEF L
  <1>3. 0 \in S
    BY <1>1, <1>2
  <1>4. ASSUME NEW n \in Nat, n \in S PROVE n + 1 \in S
    <2>. SUFFICES ASSUME n + 1 <= L PROVE FinalTop(disk) <= FinalTop(Image(n + 1))
      OBVIOUS
    <2>1. n \in 0 .. L /\ n + 1 \in 1 .. L /\ n + 1 \in 0 .. L /\ 0 \in 0 .. L /\ (n + 1) - 1 = n
      BY <1>1
    <2>2. FinalTop(disk) <= FinalTop(Image(n)) /\ FinalTop(Image(n)) <= FinalTop(Image(n + 1))
      BY <2>1, <1>1, <1>4, SMTT(30)
    <2>3. FinalTop(disk) \in Int /\ FinalTop(Image(n)) \in Int /\ FinalTop(Image(n + 1)) \in Int
      BY <2>1, <1>1, <1>2, SMTT(30)
    <2>. QED
      BY <2>2, <2>3
  <1>. HIDE DEF S
  <1>5. L \in S
    BY <1>1, <1>3, <1>4, NatSetInduction, SMTT(30)
  <1>. QED
    BY <1>1, <1>5, SMTT(30) DEF S, L, Newest

\* The invariant in terms of the engine and of the newest store.
LEMMA InvSound ==
    ASSUME Assumptions, EngineInv
    PROVE  /\ Len(pending) \in Nat /\ pending \in Seq(Seq(Write))
           /\ Image(0) = disk /\ StoreOK(disk) /\ disk \in Store
           /\ StoreOK(Newest) /\ Newest \in Store
           /\ ~poisoned => Sound(eng, Newest, MissingCallback) /\ accepted = Newest.accepted
  <1>1. Len(pending) \in Nat /\ pending \in Seq(Seq(Write))
    BY DEF EngineInv
  <1>2. Image(0) = disk
    BY <1>1, ImageLaw, SMTT(30) DEF Image
  <1>3. StoreOK(disk) /\ StoreOK(Newest)
    <2>1. 0 \in 0 .. Len(pending) /\ Len(pending) \in 0 .. Len(pending)
      BY <1>1, SMTT(30)
    <2>. QED
      BY <2>1, <1>2, SMTT(30) DEF EngineInv, Newest
  <1>. QED
    BY <1>1, <1>2, <1>3, Zenon DEF EngineInv, Sound, StoreOK

\* The stores that a crash may leave once the newest write set made `s`.
LEMMA DeliveredImages ==
    ASSUME Assumptions, EngineInv, NEW w \in Write, NEW s \in Store, s = Commit(Newest, w),
           Later(Newest, s), NEW returned \in BOOLEAN,
           IF returned
           THEN pending' = Append(pending, <<w>>) /\ UNCHANGED disk
           ELSE IF pending = <<>>
                THEN disk' = Commit(disk, w) /\ UNCHANGED pending
                ELSE /\ pending' = [pending EXCEPT ![Len(pending)] = Append(@, w)]
                     /\ UNCHANGED disk
    PROVE  /\ pending' \in Seq(Seq(Write))
           /\ Len(pending') <= Len(pending) + 1
           /\ \A i \in 0 .. Len(pending') - 1 : ImageOf(disk', pending', i) = Image(i)
           /\ ImageOf(disk', pending', Len(pending')) = s
           /\ Len(pending') > 0 => Later(Image(Len(pending') - 1), s)
           /\ disk' = disk \/ Later(disk, disk')
  <1>. DEFINE L == Len(pending)
  <1>1. L \in Nat /\ pending \in Seq(Seq(Write)) /\ Image(0) = disk /\ Newest \in Store
    BY InvSound, SMTT(30)
  <1>2. CASE returned
    <2>1. pending' = Append(pending, <<w>>) /\ disk' = disk
      BY <1>2, SMTT(30)
    <2>2. <<w>> \in Seq(Write) /\ \A d : CommitAll(d, <<w>>) = Commit(d, w)
      BY CommitAllOne, SMTT(30)
    <2>3. /\ pending' \in Seq(Seq(Write)) /\ Len(pending') = L + 1
          /\ \A i \in 1 .. L : pending'[i] = pending[i]
          /\ pending'[L + 1] = <<w>>
      BY <2>1, <2>2, <1>1, SMTT(30)
    <2>4. \A i \in 0 .. L : ImageOf(disk, pending', i) = ImageOf(disk, pending, i)
      <3>. DEFINE q == pending'
      <3>1. q \in Seq(Seq(Write)) /\ L <= Len(q) /\ L <= Len(pending) /\ \A i \in 1 .. L : pending[i] = q[i]
        BY <2>3, <1>1, SMTT(30)
      <3>. HIDE DEF q
      <3>2. \A i \in 0 .. L : ImageOf(disk, pending, i) = ImageOf(disk, q, i)
        BY <3>1, <1>1, ImageShared, SMTT(30)
      <3>. QED
        BY <3>2 DEF q
    <2>5. ImageOf(disk, pending', L + 1) = CommitAll(ImageOf(disk, pending', L), pending'[L + 1])
      <3>. DEFINE q == pending'
                  m == L + 1
      <3>1. q \in Seq(Seq(Write)) /\ m \in 1 .. Len(q) /\ m - 1 = L
        BY <2>3, <1>1, SMTT(30)
      <3>. HIDE DEF q, m, L
      <3>2. ImageOf(disk, q, m) = CommitAll(ImageOf(disk, q, m - 1), q[m])
        BY <3>1, ImageLaw, Zenon
      <3>. QED
        BY <3>1, <3>2, SMTT(30) DEF q, m
    <2>6. ImageOf(disk, pending', L + 1) = s
      <3>1. L \in 0 .. L
        BY <1>1
      <3>2. ImageOf(disk, pending', L) = Newest
        BY <3>1, <2>4 DEF Newest, Image
      <3>. QED
        BY <3>2, <2>2, <2>3, <2>5
    <2>7. (L + 1) - 1 = L /\ L + 1 <= L + 1
      BY <1>1, SMTT(30)
    <2>. QED
      BY <2>1, <2>3, <2>4, <2>6, <2>7, ZenonT(30) DEF Image, Newest
  <1>3. CASE ~returned /\ pending = <<>>
    <2>1. pending' = <<>> /\ disk' = Commit(disk, w) /\ Len(pending') = 0
      BY <1>3
    <2>2. Newest = disk
      BY <1>1, <1>3 DEF Newest
    <2>3. ImageOf(disk', pending', 0) = s /\ disk' = s
      <3>. DEFINE q == pending'
      <3>1. q \in Seq(Seq(Write)) /\ disk' = s
        BY <2>1, <2>2, <1>1, <1>3, SMTT(30)
      <3>. HIDE DEF q
      <3>2. ImageOf(s, q, 0) = s
        BY <3>1, ImageLaw, SMTT(30)
      <3>. QED
        BY <3>1, <3>2, SMTT(30) DEF q
    <2>. QED
      BY <2>1, <2>2, <2>3, <1>1, <1>3, SMTT(30)
  <1>4. CASE ~returned /\ pending # <<>>
    <2>1. pending' = [pending EXCEPT ![L] = Append(pending[L], w)] /\ disk' = disk
      BY <1>4
    <2>2. L >= 1 /\ L \in 1 .. L /\ L - 1 \in Nat /\ L \in 0 .. L /\ L - 1 \in 0 .. L
      BY <1>1, <1>4, SMTT(30)
    <2>3. pending[L] \in Seq(Write) /\ Append(pending[L], w) \in Seq(Write)
      BY <2>2, <1>1, SMTT(30)
    <2>4. /\ pending' \in Seq(Seq(Write)) /\ Len(pending') = L
          /\ \A i \in 1 .. L - 1 : pending'[i] = pending[i]
          /\ pending'[L] = Append(pending[L], w)
      BY <2>1, <2>2, <2>3, <1>1, SMTT(30)
    <2>5. \A i \in 0 .. L - 1 : ImageOf(disk, pending', i) = ImageOf(disk, pending, i)
      <3>. DEFINE q == pending'
                  m == L - 1
      <3>1. /\ q \in Seq(Seq(Write)) /\ m \in Nat /\ m <= Len(q) /\ m <= Len(pending)
            /\ \A i \in 1 .. m : pending[i] = q[i]
        BY <2>2, <2>4, <1>1, SMTT(30)
      <3>. HIDE DEF q, m
      <3>2. \A i \in 0 .. m : ImageOf(disk, pending, i) = ImageOf(disk, q, i)
        BY <3>1, <1>1, ImageShared, SMTT(30)
      <3>. QED
        BY <3>2, SMTT(30) DEF q, m
    <2>6. ImageOf(disk, pending', L) = CommitAll(ImageOf(disk, pending', L - 1), pending'[L])
      <3>. DEFINE q == pending'
      <3>1. q \in Seq(Seq(Write)) /\ L \in 1 .. Len(q)
        BY <2>2, <2>4, SMTT(30)
      <3>. HIDE DEF q, L
      <3>2. ImageOf(disk, q, L) = CommitAll(ImageOf(disk, q, L - 1), q[L])
        BY <3>1, ImageLaw, Zenon
      <3>. QED
        BY <3>2 DEF q
    <2>7. ImageOf(disk, pending, L) = CommitAll(ImageOf(disk, pending, L - 1), pending[L])
      <3>1. pending \in Seq(Seq(Write)) /\ L \in 1 .. Len(pending)
        BY <2>2, <1>1
      <3>. HIDE DEF L
      <3>. QED
        BY <3>1, ImageLaw, Zenon
    <2>8. \A d : CommitAll(d, Append(pending[L], w)) = Commit(CommitAll(d, pending[L]), w)
      BY <2>3, CommitAllAppend, SMTT(30)
    <2>9. ImageOf(disk, pending', L) = s
      <3>1. ImageOf(disk, pending', L - 1) = ImageOf(disk, pending, L - 1)
        BY <2>2, <2>5, SMTT(30)
      <3>. QED
        BY <2>4, <2>6, <2>7, <2>8, <3>1, SMTT(30) DEF Newest, Image
    <2>10. Later(Image(L - 1), s)
      <3>1. Later(Image(L - 1), Newest) /\ Image(L - 1) \in Store
        BY <2>2, Zenon DEF EngineInv, Newest, StoreOK
      <3>. QED
        BY <3>1, <1>1, LaterTransitive, SMTT(30)
    <2>11. L <= L + 1
      BY <1>1, SMTT(30)
    <2>. QED
      BY <2>1, <2>4, <2>5, <2>9, <2>10, <2>11, Zenon DEF Image
  <1>. QED
    BY <1>2, <1>3, <1>4, SMTT(30)

\* A delivered write set keeps the invariant.
LEMMA DeliverKeeps ==
    ASSUME Assumptions, EngineInv, ~poisoned, NEW w \in Write, NEW s, s = Commit(Newest, w),
           NEW g, Sound(g, s, MissingCallback), Later(Newest, s), NEW returned \in BOOLEAN,
           eng' = g, accepted' = s.accepted, UNCHANGED <<attached, poisoned>>,
           IF returned
           THEN pending' = Append(pending, <<w>>) /\ UNCHANGED disk
           ELSE IF pending = <<>>
                THEN disk' = Commit(disk, w) /\ UNCHANGED pending
                ELSE /\ pending' = [pending EXCEPT ![Len(pending)] = Append(@, w)]
                     /\ UNCHANGED disk
    PROVE  EngineInv' /\ (disk' = disk \/ Later(disk, disk'))
  <1>. DEFINE N == Len(pending')
  <1>1. s \in Store /\ StoreOK(s) /\ g \in EngineState
    BY Zenon DEF Sound, StoreOK
  <1>2. /\ pending' \in Seq(Seq(Write)) /\ N <= Len(pending) + 1
        /\ \A i \in 0 .. N - 1 : ImageOf(disk', pending', i) = Image(i)
        /\ ImageOf(disk', pending', N) = s
        /\ N > 0 => Later(Image(N - 1), s)
        /\ disk' = disk \/ Later(disk, disk')
    BY <1>1, DeliveredImages, SMTT(30)
  <1>3. N \in Nat /\ Len(pending) \in Nat
    BY <1>2, InvSound, SMTT(30)
  <1>. HIDE DEF N
  <1>4. \A i \in 0 .. N : StoreOK(ImageOf(disk', pending', i))
    <2>1. ASSUME NEW i \in 0 .. N PROVE StoreOK(ImageOf(disk', pending', i))
      <3>1. CASE i = N
        BY <3>1, <1>1, <1>2, SMTT(30)
      <3>2. CASE i # N
        <4>1. i \in 0 .. N - 1 /\ i \in 0 .. Len(pending)
          BY <3>2, <1>2, <1>3, SMTT(30)
        <4>. QED
          BY <4>1, <1>2, Zenon DEF EngineInv
      <3>. QED
        BY <3>1, <3>2, SMTT(30)
    <2>. QED
      BY <2>1, SMTT(30)
  <1>5. \A i \in 1 .. N : Later(ImageOf(disk', pending', i - 1), ImageOf(disk', pending', i))
    <2>1. ASSUME NEW i \in 1 .. N
          PROVE  Later(ImageOf(disk', pending', i - 1), ImageOf(disk', pending', i))
      <3>1. i - 1 \in 0 .. N - 1 /\ N > 0
        BY <1>3, SMTT(30)
      <3>2. ImageOf(disk', pending', i - 1) = Image(i - 1)
        BY <3>1, <1>2, SMTT(30)
      <3>3. CASE i = N
        BY <3>1, <3>2, <3>3, <1>2, SMTT(30)
      <3>4. CASE i # N
        <4>1. i \in 0 .. N - 1 /\ i \in 1 .. Len(pending)
          BY <3>4, <1>2, <1>3, SMTT(30)
        <4>. QED
          BY <3>2, <4>1, <1>2, Zenon DEF EngineInv
      <3>. QED
        BY <3>3, <3>4, SMTT(30)
    <2>. QED
      BY <2>1, SMTT(30)
  <1>6. Newest' = s
    BY <1>2, SMTT(30) DEF Newest, Image, N
  <1>7. /\ eng' \in EngineState /\ accepted' \in SUBSET Row
        /\ attached' \in BOOLEAN /\ poisoned' = FALSE
    BY <1>1 DEF Store, EngineInv
  <1>8. MissingCallback' = MissingCallback
    BY DEF MissingCallback
  <1>9. accepted' = Newest'.accepted /\ Mirrors(eng', Newest') /\ Nodes(eng', accepted', MissingCallback')
    BY <1>6, <1>8, SMTT(30) DEF Sound
  <1>10. EngineInv'
    BY <1>2, <1>4, <1>5, <1>7, <1>9, Zenon DEF EngineInv, Image, N
  <1>. QED
    BY <1>2, <1>10, SMTT(30)

-----------------------------------------------------------------------------
(* The calls *)

\* What an accepted ingest delivers.
LEMMA AcceptDelivers ==
    ASSUME NEW view, NEW supplied, NEW head, NEW blocks, NEW returned,
           Accept(view, supplied, head, blocks, returned)
    PROVE  LET forks == Forks(eng, view, supplied)
               p == RecoveryOf(eng, view, supplied)
               rows == Rows(view, blocks)
               n == KeptRows(eng, accepted, view, supplied) \cup rows
               q == Process(Recovered(eng, view, supplied), rows)
               f == Ingested(eng, view, supplied, head, rows)
               checkpoint == CheckpointDue(q, head) /\ f.durable < f.finalized
               done == IF checkpoint THEN WriteCheckpoint(f) ELSE f
           IN  /\ Deliver(done, [after |-> IF forks THEN p ELSE NoBlock, rows |-> rows,
                                 ckpt  |-> IF checkpoint THEN {f.final} ELSE {},
                                 purge |-> IF checkpoint THEN Purged(f) ELSE {}], n, returned)
               /\ UNCHANGED <<attached, poisoned>>
  <1>. DEFINE forks == Forks(eng, view, supplied)
              p == RecoveryOf(eng, view, supplied)
              rows == Rows(view, blocks)
              n == KeptRows(eng, accepted, view, supplied) \cup rows
              g == Recovered(eng, view, supplied)
              q == Process(g, rows)
              c == SetRollbackChain(q, view, supplied)
              f == Ingested(eng, view, supplied, head, rows)
              Rest(final, checkpoint, done) ==
                Deliver(done, [after |-> IF forks THEN p ELSE NoBlock, rows |-> rows,
                               ckpt  |-> IF checkpoint THEN {final.final} ELSE {},
                               purge |-> IF checkpoint THEN Purged(final) ELSE {}], n, returned)
  <1>1. /\ \E rolled \in {g} :
           \E processed \in {Process(rolled, rows)} :
           \E chained \in {SetRollbackChain(processed, view, supplied)} :
           \E final \in {AdvanceFinality(chained, head)} :
           \E checkpoint \in {CheckpointDue(processed, head) /\ final.durable < final.finalized} :
           \E done \in {IF checkpoint THEN WriteCheckpoint(final) ELSE final} :
                Rest(final, checkpoint, done)
        /\ UNCHANGED <<attached, poisoned>>
    BY Zenon DEF Accept, Recovered, KeptRows, RecoveryOf, Recovery
  <1>2. f = AdvanceFinality(c, head)
    BY DEF Ingested
  <1>. HIDE DEF Rest, f, g, rows
  <1>3. \E checkpoint \in {CheckpointDue(q, head) /\ f.durable < f.finalized} :
           \E done \in {IF checkpoint THEN WriteCheckpoint(f) ELSE f} : Rest(f, checkpoint, done)
    BY <1>1, <1>2, Zenon
  <1>. DEFINE due == CheckpointDue(q, head) /\ f.durable < f.finalized
  <1>4. Rest(f, due, IF due THEN WriteCheckpoint(f) ELSE f)
    BY <1>3, Zenon
  <1>. QED
    BY <1>1, <1>4, Zenon DEF Rest, f, g, rows

\* What a delivery changes.
LEMMA DeliverParts ==
    ASSUME NEW e, NEW ops, NEW rows, NEW returned, Deliver(e, ops, rows, returned)
    PROVE  LET w == WithMeta(ops, e, rows)
           IN  /\ eng' = [e EXCEPT !.changed = {}]
               /\ accepted' = rows
               /\ IF returned
                  THEN pending' = Append(pending, <<w>>) /\ UNCHANGED disk
                  ELSE IF pending = <<>>
                       THEN disk' = Commit(disk, w) /\ UNCHANGED pending
                       ELSE /\ pending' = [pending EXCEPT ![Len(pending)] = Append(@, w)]
                            /\ UNCHANGED disk
  BY Zenon DEF Deliver

\* An accepted ingest keeps the invariant.
LEMMA AcceptKeeps ==
    ASSUME Assumptions, EngineInv, ~poisoned,
           NEW view \in Views, NEW supplied \in SUBSET Block, ~ForkRefused(eng, view, supplied),
           NEW head \in supplied, eng.finalized <= head,
           NEW blocks \in SUBSET Block, \A b \in blocks : b > RecoveryOf(eng, view, supplied),
           HostAttaches => ~MissingCallback, CompleteChains => head .. MaxBlock \subseteq supplied,
           NEW returned \in BOOLEAN, Accept(view, supplied, head, blocks, returned)
    PROVE  EngineInv' /\ (disk' = disk \/ Later(disk, disk'))
  <1>. DEFINE forks == Forks(eng, view, supplied)
              p == RecoveryOf(eng, view, supplied)
              rows == Rows(view, blocks)
              n == KeptRows(eng, Newest.accepted, view, supplied) \cup rows
              q == Process(Recovered(eng, view, supplied), rows)
              f == Ingested(eng, view, supplied, head, rows)
              checkpoint == CheckpointDue(q, head) /\ f.durable < f.finalized
              done == IF checkpoint THEN WriteCheckpoint(f) ELSE f
              ops == [after |-> IF forks THEN p ELSE NoBlock, rows |-> rows,
                      ckpt  |-> IF checkpoint THEN {f.final} ELSE {},
                      purge |-> IF checkpoint THEN Purged(f) ELSE {}]
              w == WithMeta(ops, done, n)
              s == Commit(Newest, w)
              g == [done EXCEPT !.changed = {}]
  <1>1. Sound(eng, Newest, MissingCallback) /\ accepted = Newest.accepted
    BY InvSound
  <1>2. w \in Write /\ s.accepted = n /\ Later(Newest, s) /\ Sound(g, s, MissingCallback)
    BY <1>1, AcceptFacts, Zenon
  <1>3. Deliver(done, ops, n, returned) /\ attached' = attached /\ poisoned' = poisoned
    <2>. DEFINE m == KeptRows(eng, accepted, view, supplied) \cup rows
    <2>1. Deliver(done, ops, m, returned) /\ attached' = attached /\ poisoned' = poisoned
      BY AcceptDelivers, Zenon
    <2>2. m = n
      BY <1>1
    <2>. QED
      BY <2>1, <2>2, Zenon
  <1>. HIDE DEF done, ops, n
  <1>4. /\ eng' = g /\ accepted' = n
        /\ IF returned
           THEN pending' = Append(pending, <<w>>) /\ UNCHANGED disk
           ELSE IF pending = <<>>
                THEN disk' = Commit(disk, w) /\ UNCHANGED pending
                ELSE /\ pending' = [pending EXCEPT ![Len(pending)] = Append(@, w)]
                     /\ UNCHANGED disk
    BY <1>3, DeliverParts
  <1>5. s = Commit(Newest, w) /\ accepted' = s.accepted
    BY <1>2, <1>4
  <1>. HIDE DEF w, s, g
  <1>. QED
    BY <1>2, <1>3, <1>4, <1>5, DeliverKeeps, SMTT(30)

\* An ingest without a callback breaks no discipline only if the host need
\* not attach one first.
LEMMA DisciplinedIngest ==
    ASSUME Assumptions, NEW supplied, NEW head, HostDiscipline(supplied, head)
    PROVE  /\ HostAttaches => ~MissingCallback
           /\ CompleteChains => head .. MaxBlock \subseteq supplied
  BY SMTT(30) DEF HostDiscipline, HostAttaches, MissingCallback

\* A poisoned instance keeps its store and its queue.
LEMMA PoisonKeeps ==
    ASSUME Assumptions, EngineInv, Poison, UNCHANGED <<disk, pending>>, attached' \in BOOLEAN
    PROVE  EngineInv'
  <1>1. /\ poisoned' = TRUE /\ eng' = NewEngine /\ accepted' = {}
        /\ disk' = disk /\ pending' = pending
    BY SMTT(30) DEF Poison
  <1>2. eng' \in EngineState
    BY <1>1, EmptyFacts, Zenon
  <1>3. \A i : ImageOf(disk', pending', i) = ImageOf(disk, pending, i)
    BY <1>1, SMTT(30)
  <1>. QED
    BY <1>1, <1>2, <1>3, Zenon DEF EngineInv, Image

\* A step that leaves the store, the queue and the engine alone.
LEMMA SameKeeps ==
    ASSUME EngineInv, UNCHANGED vars
    PROVE  EngineInv'
  <1>1. /\ disk' = disk /\ pending' = pending /\ eng' = eng /\ accepted' = accepted
        /\ attached' = attached /\ poisoned' = poisoned
    BY DEF vars
  <1>2. MissingCallback' = MissingCallback /\ Newest' = Newest
    BY <1>1 DEF MissingCallback, Newest, Image
  <1>3. \A i : ImageOf(disk', pending', i) = ImageOf(disk, pending, i)
    BY <1>1
  <1>. QED
    BY <1>1, <1>2, <1>3, Zenon DEF EngineInv, Image

\* An ingest that fails before any rollback leaves the engine as it was.
LEMMA FailedIsUndone ==
    ASSUME Assumptions, EngineInv, ~poisoned, NEW view \in Views,
           NEW blocks \in SUBSET Block, blocks # {}, \A b \in blocks : b > eng.latest
    PROVE  Failed(eng, Rows(view, blocks), eng.latest) = eng
  <1>. DEFINE rows == Rows(view, blocks)
  <1>1. Sound(eng, Newest, MissingCallback) /\ StoreOK(disk) /\ disk \in Store
    BY InvSound, SMTT(30)
  <1>2. /\ eng \in EngineState /\ eng.durable <= eng.latest /\ Newest.latest = eng.latest
        /\ \A r \in Newest.accepted : r.block <= eng.latest /\ r.block \in Int /\ r.block >= 0
        /\ Newest \in Store
    BY <1>1, SoundFields, Zenon DEF Sound
  <1>3. rows \in SUBSET Row /\ rows # {} /\ \A r \in rows : r.block > eng.latest
    <2>1. view \in [Block -> Hash]
      BY DEF Assumptions, InputAssumption
    <2>2. ASSUME NEW r \in rows PROVE r \in Row /\ r.block > eng.latest
      <3>1. PICK b \in blocks : r = [block |-> b, tag |-> view[b]]
        BY DEF Rows
      <3>2. view[b] \in Hash
        BY <2>1
      <3>. QED
        BY <3>1, <3>2, SMTT(30) DEF Row
    <2>3. rows # {}
      BY Zenon DEF Rows
    <2>. HIDE DEF rows
    <2>. QED
      BY <2>2, <2>3
  <1>4. eng.final \cup eng.unfinal \subseteq Newest.accepted
    BY <1>1 DEF Sound, Nodes
  <1>5. \A r \in eng.final \cup eng.unfinal : r.block <= eng.latest
    BY <1>2, <1>4
  <1>6. ASSUME eng.latest = NoBlock PROVE disk.ckpt = eng.final
    <2>1. eng.final = {}
      BY <1>2, <1>4, <1>6, SMTT(30) DEF NoBlock
    <2>2. FinalTop(disk) <= FinalTop(Newest)
      BY NewestLater, SMTT(30)
    <2>3. /\ FinalTop(disk) = IF disk.finality <= disk.latest THEN disk.finality ELSE disk.latest
          /\ FinalTop(Newest) = IF Newest.finality <= Newest.latest
                                THEN Newest.finality ELSE Newest.latest
          /\ disk.finality \in Int /\ disk.latest \in Int /\ disk.durable \in Int
          /\ -1 <= disk.durable
          /\ Newest.finality \in Int /\ Newest.latest \in Int
      BY <1>1, <1>2, StoreFields, ZenonT(30)
    <2>4. disk.durable <= disk.finality /\ disk.durable <= disk.latest
      BY <1>1, Zenon DEF StoreOK
    <2>5. disk.durable = NoBlock
      BY <2>2, <2>3, <2>4, <1>2, <1>6, SMTT(30) DEF NoBlock
    <2>6. disk.ckpt = {}
      BY <2>5, <1>1, Zenon DEF StoreOK, Upto
    <2>. QED
      BY <2>1, <2>6, SMTT(30)
  <1>. HIDE DEF rows
  <1>7. Failed(eng, rows, eng.latest) = eng
    BY <1>2, <1>3, <1>5, <1>6, FailedFacts, SMTT(30)
  <1>. QED
    BY <1>7 DEF rows

\* Every ingest, accepted or refused, keeps the invariant.
LEMMA IngestKeeps ==
    ASSUME Assumptions, EngineInv, NEW view \in Views, NEW chain \in Chains, NEW head \in Block,
           Ingest(view, chain, head)
    PROVE  EngineInv' /\ (disk' = disk \/ Later(disk, disk'))
  <1>. DEFINE supplied == chain \cup {head}
  <1>1. supplied \in SUBSET Block /\ head \in supplied
    BY DEF Assumptions, InputAssumption
  <1>2. HostDiscipline(supplied, head) /\ Admitted(view, supplied, head)
    BY DEF Ingest
  <1>3. /\ ~poisoned /\ ~ForkRefused(eng, view, supplied) /\ eng.finalized <= head
    <2>1. eng.finalized \in Int /\ head \in Int
      BY EngineFields, Zenon DEF EngineInv
    <2>. QED
      BY <2>1, <1>2, SMTT(30) DEF Admitted, Ready
  <1>4. /\ HostAttaches => ~MissingCallback
        /\ CompleteChains => head .. MaxBlock \subseteq supplied
    BY <1>2, DisciplinedIngest
  <1>5. PICK blocks \in Loads :
            /\ NewBlocks(blocks, Recovery(view, supplied))
            /\ \/ \E returned \in BOOLEAN : Accept(view, supplied, head, blocks, returned)
               \/ Reject(view, supplied, blocks)
    BY Zenon DEF Ingest
  <1>6. blocks \in SUBSET Block
    BY DEF Assumptions, InputAssumption
  <1>7. Recovery(view, supplied) = RecoveryOf(eng, view, supplied)
    BY DEF Recovery, RecoveryOf
  <1>. HIDE DEF supplied
  <1>8. \A b \in blocks : b > RecoveryOf(eng, view, supplied)
    BY <1>5, <1>7, SMTT(30) DEF NewBlocks
  <1>9. CASE \E returned \in BOOLEAN : Accept(view, supplied, head, blocks, returned)
    <2>1. PICK returned \in BOOLEAN : Accept(view, supplied, head, blocks, returned)
      BY <1>9
    <2>. QED
      BY <2>1, <1>1, <1>3, <1>4, <1>6, <1>8, AcceptKeeps, SMTT(30)
  <1>10. CASE Reject(view, supplied, blocks)
    <2>1. blocks # {} /\ disk' = disk /\ pending' = pending /\ attached' = attached
      BY <1>10 DEF Reject
    <2>2. CASE Forks(eng, view, supplied)
      <3>1. Poison
        BY <2>2, <1>10, SMTT(30) DEF Reject
      <3>2. attached' \in BOOLEAN
        BY <2>1, Zenon DEF EngineInv
      <3>. QED
        BY <2>1, <3>1, <3>2, PoisonKeeps, SMTT(30)
    <2>3. CASE ~Forks(eng, view, supplied)
      <3>1. RecoveryOf(eng, view, supplied) = eng.latest
        BY <2>3, SMTT(30) DEF RecoveryOf
      <3>2. /\ eng' = Failed(eng, Rows(view, blocks), Recovery(view, supplied))
            /\ accepted' = accepted /\ poisoned' = poisoned
        BY <2>3, <1>10, SMTT(30) DEF Reject
      <3>3. Failed(eng, Rows(view, blocks), eng.latest) = eng
        BY <2>1, <3>1, <1>3, <1>6, <1>8, FailedIsUndone, SMTT(30)
      <3>4. UNCHANGED vars
        BY <2>1, <3>1, <3>2, <3>3, <1>7, SMTT(30) DEF vars
      <3>. QED
        BY <2>1, <3>4, SameKeeps, SMTT(30)
    <2>. QED
      BY <2>2, <2>3, SMTT(30)
  <1>. QED
    BY <1>5, <1>9, <1>10, SMTT(30)

\* handle_fork keeps the invariant.
LEMMA HandleForkKeeps ==
    ASSUME Assumptions, EngineInv, NEW view \in Views, NEW chain \in Chains,
           NEW returned \in BOOLEAN, HandleFork(view, chain, returned)
    PROVE  EngineInv' /\ (disk' = disk \/ Later(disk, disk'))
  <1>. DEFINE p == Max(Ancestors(eng, view, chain))
              n == Upto(Newest.accepted, p)
              c == SetRollbackChain(Rollback(eng, p), view, chain)
              ops == [after |-> p, rows |-> {}, ckpt |-> {}, purge |-> {}]
              w == WithMeta(ops, c, n)
              s == Commit(Newest, w)
              g == [c EXCEPT !.changed = {}]
  <1>1. ~poisoned /\ Ancestors(eng, view, chain) # {} /\ chain \in SUBSET Block
    BY DEF HandleFork, Ready, Assumptions, InputAssumption
  <1>2. Sound(eng, Newest, MissingCallback) /\ accepted = Newest.accepted
    BY <1>1, InvSound
  <1>3. w \in Write /\ s.accepted = n /\ Later(Newest, s) /\ Sound(g, s, MissingCallback)
    BY <1>1, <1>2, HandleForkFacts, Zenon
  <1>4. Deliver(c, ops, n, returned) /\ attached' = attached /\ poisoned' = poisoned
    <2>1. /\ Deliver(c, ops, Upto(accepted, p), returned)
          /\ attached' = attached /\ poisoned' = poisoned
      BY Zenon DEF HandleFork
    <2>. QED
      BY <2>1, <1>2, Zenon
  <1>. HIDE DEF c, ops, n
  <1>5. /\ eng' = g /\ accepted' = n
        /\ IF returned
           THEN pending' = Append(pending, <<w>>) /\ UNCHANGED disk
           ELSE IF pending = <<>>
                THEN disk' = Commit(disk, w) /\ UNCHANGED pending
                ELSE /\ pending' = [pending EXCEPT ![Len(pending)] = Append(@, w)]
                     /\ UNCHANGED disk
    BY <1>4, DeliverParts, SMTT(30)
  <1>6. s = Commit(Newest, w) /\ accepted' = s.accepted
    BY <1>3, <1>5, SMTT(30)
  <1>. HIDE DEF w, s, g
  <1>. QED
    BY <1>1, <1>3, <1>4, <1>5, <1>6, DeliverKeeps, SMTT(30)

\* An ack commits the oldest batch: every later store stays what it was.
LEMMA AckKeeps ==
    ASSUME Assumptions, EngineInv, Ack
    PROVE  EngineInv' /\ (disk' = disk \/ Later(disk, disk'))
  <1>. DEFINE L == Len(pending)
              q == pending'
              d == disk'
  <1>1. /\ pending # <<>> /\ d = CommitAll(disk, Head(pending)) /\ q = Tail(pending)
        /\ eng' = eng /\ accepted' = accepted /\ attached' = attached /\ poisoned' = poisoned
    BY DEF Ack
  <1>2. L \in Nat /\ pending \in Seq(Seq(Write)) /\ Image(0) = disk
    BY InvSound, SMTT(30)
  <1>3. /\ q \in Seq(Seq(Write)) /\ Len(q) = L - 1
        /\ \A i \in 0 .. L - 1 : ImageOf(d, q, i) = ImageOf(disk, pending, i + 1)
    BY <1>1, <1>2, ImageBehind, SMTT(30)
  <1>4. L >= 1 /\ L - 1 \in 0 .. L - 1 /\ (L - 1) + 1 = L /\ 0 \in 0 .. L - 1 /\ 1 \in 1 .. L /\ 0 + 1 = 1
    BY <1>1, <1>2, SMTT(30)
  <1>5. ImageOf(d, q, 0) = d
    <2>. HIDE DEF q, d
    <2>. QED
      BY <1>3, ImageLaw
  <1>6. Later(disk, d)
    <2>1. d = Image(1)
      BY <1>3, <1>4, <1>5, SMTT(30) DEF Image
    <2>2. Later(Image(1 - 1), Image(1))
      BY <1>4, SMTT(30) DEF EngineInv
    <2>. QED
      BY <2>1, <2>2, <1>2, SMTT(30)
  <1>7. ASSUME NEW i \in 0 .. Len(q) PROVE StoreOK(ImageOf(d, q, i))
    <2>1. i \in 0 .. L - 1 /\ i + 1 \in 0 .. L
      BY <1>2, <1>3, <1>4, SMTT(30)
    <2>. QED
      BY <2>1, <1>3, Zenon DEF EngineInv, Image
  <1>8. ASSUME NEW i \in 1 .. Len(q) PROVE Later(ImageOf(d, q, i - 1), ImageOf(d, q, i))
    <2>1. /\ i - 1 \in 0 .. L - 1 /\ i \in 0 .. L - 1 /\ i + 1 \in 1 .. L
          /\ (i - 1) + 1 = i /\ (i + 1) - 1 = i
      BY <1>2, <1>3, <1>4, SMTT(30)
    <2>2. ImageOf(d, q, i - 1) = Image(i) /\ ImageOf(d, q, i) = Image(i + 1)
      BY <2>1, <1>3, SMTT(30) DEF Image
    <2>3. Later(Image((i + 1) - 1), Image(i + 1))
      BY <2>1 DEF EngineInv
    <2>. QED
      BY <2>1, <2>2, <2>3, SMTT(30)
  <1>9. Newest' = Newest
    BY <1>3, <1>4 DEF Newest, Image
  <1>10. MissingCallback' = MissingCallback
    BY <1>1, SMTT(30) DEF MissingCallback
  <1>11. EngineInv'
    BY <1>1, <1>3, <1>7, <1>8, <1>9, <1>10, Zenon DEF EngineInv, Image
  <1>. QED
    BY <1>6, <1>11, SMTT(30)

\* An instance with an empty queue that is sound on top of the store.
LEMMA AloneKeeps ==
    ASSUME Assumptions, disk' \in Store, pending' = <<>>, ~poisoned', poisoned' \in BOOLEAN,
           attached' \in BOOLEAN, Sound(eng', disk', MissingCallback'), accepted' = disk'.accepted
    PROVE  EngineInv'
  <1>. DEFINE q == pending'
              d == disk'
  <1>1. q \in Seq(Seq(Write)) /\ Len(q) = 0
    OBVIOUS
  <1>2. ImageOf(d, q, 0) = d
    <2>. HIDE DEF q, d
    <2>. QED
      BY <1>1, ImageLaw, Zenon
  <1>3. Newest' = d
    BY <1>1, <1>2 DEF Newest, Image
  <1>4. eng' \in EngineState /\ accepted' \in SUBSET Row /\ StoreOK(d)
    BY DEF Sound, Store
  <1>5. \A i \in 0 .. Len(q) : StoreOK(ImageOf(d, q, i))
    BY <1>1, <1>2, <1>4
  <1>6. \A i \in 1 .. Len(q) : FALSE
    BY <1>1
  <1>7. accepted' = Newest'.accepted /\ Mirrors(eng', Newest') /\ Nodes(eng', accepted', MissingCallback')
    BY <1>3, SMTT(30) DEF Sound
  <1>. QED
    BY <1>1, <1>4, <1>5, <1>6, <1>7, Zenon DEF EngineInv, Image

\* Every step keeps the invariant, and what is final in the committed state.
LEMMA EngineStep ==
    ASSUME Assumptions, EngineInv, [Next]_vars
    PROVE  EngineInv' /\ (disk' = disk \/ Later(disk, disk'))
  <1>1. ASSUME NEW view \in Views, NEW chain \in Chains, NEW head \in Block, Ingest(view, chain, head)
        PROVE  EngineInv' /\ (disk' = disk \/ Later(disk, disk'))
    BY <1>1, IngestKeeps, SMTT(30)
  <1>2. ASSUME NEW view \in Views, NEW chain \in Chains, NEW returned \in BOOLEAN,
               HandleFork(view, chain, returned)
        PROVE  EngineInv' /\ (disk' = disk \/ Later(disk, disk'))
    BY <1>2, HandleForkKeeps, SMTT(30)
  <1>3. CASE Ack
    BY <1>3, AckKeeps, SMTT(30)
  <1>4. CASE Reopen
    <2>1. /\ eng' = Opened(disk) /\ pending' = <<>> /\ accepted' = disk.accepted
          /\ attached' = FALSE /\ poisoned' = FALSE /\ disk' = disk
      BY <1>4 DEF Reopen
    <2>2. StoreOK(disk) /\ disk \in Store
      BY InvSound
    <2>3. Sound(Opened(disk), disk, External)
      BY <2>2, OpenedFacts, SMTT(30)
    <2>4. MissingCallback' = External
      BY <2>1 DEF MissingCallback, Assumptions, ConfigAssumption
    <2>5. Sound(eng', disk', MissingCallback')
      BY <2>1, <2>3, <2>4, SMTT(30)
    <2>. QED
      BY <2>1, <2>2, <2>5, AloneKeeps, Zenon
  <1>5. CASE RegisterCallback
    <2>1. /\ External /\ ~attached /\ ~poisoned /\ pending = <<>> /\ attached' = TRUE
          /\ disk' = disk /\ pending' = pending
      BY <1>5 DEF RegisterCallback
    <2>2. CASE Poison
      BY <2>1, <2>2, PoisonKeeps, SMTT(30)
    <2>3. CASE eng' = ReplayChain(eng, disk) /\ UNCHANGED <<accepted, poisoned>>
      <3>1. Newest = disk
        <4>1. Len(pending) = 0
          BY <2>1
        <4>. QED
          BY <4>1, InvSound DEF Newest
      <3>2. Sound(eng, disk, TRUE) /\ accepted = disk.accepted /\ disk \in Store
        BY <2>1, <3>1, InvSound, Zenon DEF MissingCallback
      <3>3. Sound(ReplayChain(eng, disk), disk, FALSE)
        BY <3>2, ReplayFacts, Zenon
      <3>4. MissingCallback' = FALSE /\ poisoned' = FALSE /\ accepted' = accepted
        BY <2>1, <2>3 DEF MissingCallback, EngineInv
      <3>5. Sound(eng', disk', MissingCallback')
        BY <2>1, <2>3, <3>3, <3>4, ZenonT(30)
      <3>. QED
        BY <2>1, <3>2, <3>4, <3>5, AloneKeeps, Zenon
    <2>. QED
      BY <2>2, <2>3, <1>5, SMTT(30) DEF RegisterCallback
  <1>6. CASE UNCHANGED vars
    BY <1>6, SameKeeps DEF vars
  <1>. QED
    BY <1>1, <1>2, <1>3, <1>4, <1>5, <1>6, SMTT(30) DEF Next

\* A new database satisfies the invariant.
LEMMA EngineInit == ASSUME Assumptions, Init PROVE EngineInv
  <1>1. /\ disk = EmptyStore /\ pending = <<>> /\ eng = NewEngine /\ accepted = {}
        /\ attached = FALSE /\ poisoned = FALSE
    BY SMTT(30) DEF Init
  <1>2. StoreOK(EmptyStore)
    <2>1. \A b \in Block : EmptyStore.hashes[b] = NoHash
      BY EmptyFacts
    <2>2. \A v \in Views, b \in Block : v[b] # NoHash
      BY DEF Assumptions, InputAssumption, HashAssumption
    <2>3. OneView(EmptyStore.hashes, NoBlock)
      BY <2>1, <2>2 DEF OneView
    <2>4. Above({}, NoBlock) = {} /\ Upto({}, NoBlock) = {}
      BY SMTT(30) DEF Above, Upto
    <2>. QED
      BY <2>3, <2>4, EmptyFacts, SMTT(30) DEF StoreOK, NoBlock
  <1>3. Mirrors(NewEngine, EmptyStore)
    BY EmptyFacts, SMTT(30) DEF Mirrors
  <1>4. Nodes(NewEngine, {}, MissingCallback)
    BY EmptyFacts DEF Nodes, Upto
  <1>5. Image(0) = disk /\ Newest = disk /\ pending \in Seq(Seq(Write)) /\ Len(pending) = 0
    <2>1. pending \in Seq(Seq(Write)) /\ Len(pending) = 0
      BY <1>1
    <2>2. Image(0) = disk
      BY <2>1, ImageLaw, Zenon DEF Image
    <2>. QED
      BY <2>1, <2>2 DEF Newest
  <1>6. EmptyStore.accepted = {} /\ NewEngine \in EngineState
    BY EmptyFacts
  <1>7. /\ \A i \in 0 .. Len(pending) : StoreOK(Image(i))
        /\ \A i \in 1 .. Len(pending) : FALSE
    BY <1>1, <1>2, <1>5
  <1>. QED
    BY <1>1, <1>3, <1>4, <1>5, <1>6, <1>7, Zenon DEF EngineInv

-----------------------------------------------------------------------------
(* Theorems *)

\* Whatever the hosts call and wherever a crash falls, the engine runs on top
\* of the store that its acked and waiting write sets make, and `open` can
\* rebuild it from every store that a crash may leave.
THEOREM EngineInvariant == ASSUME Assumptions PROVE Spec => []EngineInv
  <1>1. Init => EngineInv
    BY EngineInit
  <1>2. EngineInv /\ [Next]_vars => EngineInv'
    BY EngineStep
  <1>. QED
    BY <1>1, <1>2, PTL DEF Spec

\* The variables keep their types.
THEOREM EngineTypes == ASSUME Assumptions PROVE Spec => []TypeOK
  <1>1. EngineInv => TypeOK
    BY InvSound, SMTT(30) DEF EngineInv, TypeOK
  <1>. QED
    BY <1>1, EngineInvariant, PTL

\* The durable block never passes finality or the data, in memory and in
\* every store that a crash may leave: write_checkpoint and process_batch_inner
\* keep the order through forks, deferrals and reopens.
LEMMA DurableBehind == ASSUME Assumptions PROVE Spec => []DurableNeverAhead
  <1>1. EngineInv => DurableNeverAhead
    <2>. SUFFICES ASSUME EngineInv PROVE DurableNeverAhead
      BY SMTT(30)
    <2>1. CASE poisoned
      <3>1. eng = NewEngine
        BY <2>1 DEF EngineInv
      <3>. QED
        BY <3>1, EmptyFacts, SMTT(30) DEF DurableNeverAhead, Images, EngineInv, StoreOK, NoBlock
    <2>2. CASE ~poisoned
      <3>1. eng.durable <= eng.finalized /\ eng.durable <= eng.latest
        BY <2>2, InvSound, SoundFields, Zenon
      <3>. QED
        BY <3>1, ZenonT(30) DEF DurableNeverAhead, Images, EngineInv, StoreOK
    <2>. QED
      BY <2>1, <2>2
  <1>. QED
    BY <1>1, EngineInvariant, PTL

\* While every callback is there, the reducers and views have folded exactly
\* the accepted rows, in order; a host with an external reducer attaches its
\* callback before it ingests.
LEMMA FoldedExactly == ASSUME Assumptions, HostAttaches PROVE Spec => []FoldIsAccepted
  <1>1. EngineInv => FoldIsAccepted
    BY ZenonT(30) DEF EngineInv, Nodes, FoldIsAccepted
  <1>. QED
    BY <1>1, EngineInvariant, PTL

\* What a rollback can undo are exactly the blocks above finality, also
\* between an open and the attach of an external reducer.
THEOREM TailIsUndoable == ASSUME Assumptions PROVE Spec => []UndoCoversTail
  <1>1. EngineInv => UndoCoversTail
    BY SMTT(30) DEF EngineInv, Nodes, UndoCoversTail
  <1>. QED
    BY <1>1, EngineInvariant, PTL

\* The derived state is the fold of exactly the accepted rows, parted at
\* finality: through process_batch, forks, deferrals, failed calls and the replay
\* of an external reducer.
THEOREM DerivedStateFolded == ASSUME Assumptions, HostAttaches PROVE Spec => []DerivedState
  BY FoldedExactly, TailIsUndoable, PTL DEF DerivedState

\* The checkpoint and the raw rows of every store that a crash may leave make
\* up the accepted rows: no purge, rollback or deferral loses or revives one.
THEOREM StoresRecoverable == ASSUME Assumptions, HostAttaches PROVE Spec => []Recoverable
  <1>1. EngineInv => Recoverable
    BY ZenonT(30) DEF EngineInv, StoreOK, Recoverable, Images
  <1>. QED
    BY <1>1, EngineInvariant, PTL

\* A reopen after the last ack is not to be seen: two engines that are sound
\* on top of one store hold the same watermarks, hashes and derived state.
LEMMA ReopenedIsSame == ASSUME Assumptions PROVE Spec => []ReopenShowsNothing
  <1>1. ASSUME EngineInv PROVE ReopenShowsNothing
    <2>. SUFFICES ASSUME ~poisoned, ~External
                  PROVE  LET now == Opened(Newest)
                         IN  /\ now.latest = eng.latest /\ now.durable = eng.durable
                             /\ now.finalized = eng.finalized
                             /\ now.final = eng.final /\ now.unfinal = eng.unfinal
                             /\ \A b \in Block : b >= eng.finalized => now.hashes[b] = eng.hashes[b]
      BY Zenon DEF ReopenShowsNothing, Newest
    <2>. DEFINE now == Opened(Newest)
                d == Newest
    <2>1. /\ Sound(eng, d, FALSE) /\ Sound(now, d, FALSE) /\ HostAttaches
      <3>1. MissingCallback = FALSE /\ External = FALSE /\ HostAttaches
        BY DEF MissingCallback, HostAttaches, Assumptions, ConfigAssumption
      <3>2. Sound(eng, d, MissingCallback) /\ StoreOK(d)
        BY <1>1, InvSound
      <3>3. Sound(now, d, External)
        BY <3>2, OpenedFacts, SMTT(30)
      <3>. QED
        BY <3>1, <3>2, <3>3, Zenon
    <2>. HIDE DEF now, d
    <2>2. ASSUME NEW e, Sound(e, d, FALSE)
          PROVE  /\ e.latest = d.latest /\ e.durable = d.durable
                 /\ e.finalized = IF d.finality = NoBlock THEN 0 ELSE d.finality
                 /\ e.final = Upto(d.accepted, e.finalized)
                 /\ e.unfinal = Above(d.accepted, e.finalized)
                 /\ \A b \in Block : b >= e.finalized => e.hashes[b] = d.hashes[b]
      <3>1. /\ e \in EngineState /\ Mirrors(e, d) /\ Nodes(e, d.accepted, FALSE)
            /\ e.finalized \in Int /\ 0 <= e.finalized /\ Block \subseteq Int
            /\ \A r \in d.accepted : r.block \in Int
        BY <2>2, EngineFields, SoundFields, Zenon DEF Sound
      <3>2. e.finalized = IF d.finality = NoBlock THEN 0 ELSE d.finality
        BY <3>1, SMTT(30) DEF Mirrors, NoBlock
      <3>3. NodesFinalBlock(e) = e.finalized
        BY <3>1, SMTT(30) DEF Nodes, NodesFinalBlock
      <3>4. /\ e.final \cup e.unfinal = d.accepted
            /\ \A r \in e.final : r.block <= e.finalized
            /\ \A r \in e.unfinal : r.block > e.finalized
        BY <2>1, <3>1, <3>3, SMTT(30) DEF Nodes
      <3>5. e.final = Upto(d.accepted, e.finalized) /\ e.unfinal = Above(d.accepted, e.finalized)
        BY <3>1, <3>4, SMTT(30) DEF Upto, Above
      <3>. QED
        BY <3>1, <3>2, <3>5, SMTT(30) DEF Mirrors
    <2>3. eng.finalized = now.finalized
      BY <2>1, <2>2, ZenonT(30)
    <2>. QED
      BY <2>1, <2>2, <2>3, ZenonT(30) DEF now
  <1>2. EngineInv => ReopenShowsNothing
    BY <1>1
  <1>. QED
    BY <1>2, EngineInvariant, PTL

\* The hash of the finalized block is there for the cursor, in memory and in
\* every store that a crash may leave: prune_block_hashes never takes it.
THEOREM CursorKnown == ASSUME Assumptions PROVE Spec => []FinalizedCursorKnown
  <1>1. ASSUME EngineInv, eng.hasFinalized PROVE eng.hashes[eng.finalized] # NoHash
    <2>1. ~poisoned
      BY <1>1, EmptyFacts, Zenon DEF EngineInv
    <2>2. Sound(eng, Newest, MissingCallback)
      BY <2>1, <1>1, InvSound, SMTT(30)
    <2>3. /\ Newest.finality = eng.finalized /\ eng.finalized \in Block /\ eng.finalized # NoBlock
          /\ ~(eng.finalized < eng.finalized)
      BY <2>2, <1>1, EngineFields, SMTT(30) DEF Sound, Mirrors, EngineState, NoBlock
    <2>. QED
      BY <2>2, <2>3, Zenon DEF Sound, StoreOK, Mirrors
  <1>2. EngineInv => FinalizedCursorKnown
    BY <1>1, Zenon DEF FinalizedCursorKnown, Images, EngineInv, StoreOK
  <1>. QED
    BY <1>2, EngineInvariant, PTL

\* A host cannot tell a reopened instance from the one before, and finds the
\* cursor to resume from after any crash.
THEOREM ReopenChangesNothing == ASSUME Assumptions PROVE Spec => []ReopenTransparent
  BY ReopenedIsSame, CursorKnown, PTL DEF ReopenTransparent

\* With deferral on, fewer final blocks than the interval wait for a
\* checkpoint, whatever mix of lagging and other calls the hosts make.
THEOREM DeferralIsBounded ==
    ASSUME Assumptions PROVE Spec => []DeferralBounded
  <1>1. ASSUME EngineInv, Interval > 1, ~poisoned, eng.latest # NoBlock
        PROVE  Min({eng.finalized, eng.latest}) - eng.durable < Interval
    <2>. DEFINE d == Newest
    <2>1. Sound(eng, d, MissingCallback)
      BY <1>1, InvSound, SMTT(30)
    <2>. HIDE DEF d
    <2>2. Interval \in Nat
      BY DEF Assumptions, ConfigAssumption
    <2>3. /\ eng.finalized \in Int /\ eng.latest \in Int /\ eng.durable \in Int
          /\ -1 <= eng.durable /\ -1 <= eng.latest
          /\ Min({eng.finalized, eng.latest})
                = IF eng.finalized <= eng.latest THEN eng.finalized ELSE eng.latest
      BY <2>1, EngineFields, PairBounds, ZenonT(30) DEF Sound
    <2>4. /\ d.latest = eng.latest /\ d.durable = eng.durable /\ d \in Store
          /\ eng.durable <= d.finality
          /\ FinalTop(d) - d.durable < Interval
      BY <2>1, <1>1, SoundFields, ZenonT(30) DEF Sound, StoreOK
    <2>5. FinalTop(d) = IF d.finality <= d.latest THEN d.finality ELSE d.latest
      BY <2>4, StoreFields, ZenonT(30)
    <2>6. /\ d.finality = IF eng.hasFinalized THEN eng.finalized ELSE -1
          /\ eng.hasFinalized \/ eng.finalized = 0
      BY <2>1, SMTT(30) DEF Sound, Mirrors, NoBlock
    <2>7. CASE eng.hasFinalized
      BY <2>2, <2>3, <2>4, <2>5, <2>6, <2>7, SMTT(30)
    <2>8. CASE ~eng.hasFinalized
      BY <1>1, <2>2, <2>3, <2>4, <2>6, <2>8, SMTT(30)
    <2>. QED
      BY <2>7, <2>8, SMTT(30)
  <1>2. EngineInv => DeferralBounded
    BY <1>1, SMTT(30) DEF DeferralBounded
  <1>. QED
    BY <1>2, EngineInvariant, PTL

\* The durable block stays behind finality and the data, and less than an
\* interval behind: write_checkpoint and the deferral of ingest_data.
THEOREM WatermarksOrdered == ASSUME Assumptions PROVE Spec => []WatermarkOrder
  BY DurableBehind, DeferralIsBounded, PTL DEF WatermarkOrder

\* A failed ingest that did not roll back leaves the engine as it was.
THEOREM UndoIsExact == ASSUME Assumptions PROVE Spec => []UndoRestores
  <1>1. ASSUME EngineInv, ~poisoned, NEW view \in Views, NEW blocks \in Loads \ {{}},
               NewBlocks(blocks, eng.latest)
        PROVE  Failed(eng, Rows(view, blocks), eng.latest) = eng
    <2>1. blocks \in SUBSET Block /\ blocks # {} /\ \A b \in blocks : b > eng.latest
      BY <1>1 DEF Assumptions, InputAssumption, NewBlocks
    <2>. QED
      BY <2>1, <1>1, FailedIsUndone, SMTT(30)
  <1>2. EngineInv => UndoRestores
    BY <1>1, SMTT(30) DEF UndoRestores
  <1>. QED
    BY <1>2, EngineInvariant, PTL

\* For a host that names each block above its finalized head, what is held
\* above finality is on the chain that the source showed last.
THEOREM TailIsCanonical == ASSUME Assumptions PROVE Spec => []HeldIsCanonical
  <1>1. ASSUME EngineInv, CompleteChains, ~poisoned, NEW r \in Above(accepted, eng.finalized)
        PROVE  eng.hashes[r.block] = r.tag
    <2>1. Sound(eng, Newest, MissingCallback) /\ accepted = Newest.accepted
      BY <1>1, InvSound, SMTT(30)
    <2>2. /\ r \in Newest.accepted /\ r.block > eng.finalized
          /\ r.block \in Block /\ r.block \in Int /\ eng.finalized \in Int
          /\ Newest.finality <= eng.finalized /\ Newest.finality \in Int
      BY <2>1, <1>1, SoundFields, EngineFields, StoreFields, ZenonT(30) DEF Above, Sound
    <2>3. r.block > Newest.finality /\ ~(r.block < eng.finalized)
      BY <2>2, SMTT(30)
    <2>. QED
      BY <2>1, <2>2, <2>3, <1>1, Zenon DEF Sound, StoreOK, Mirrors
  <1>2. EngineInv => HeldIsCanonical
    BY <1>1 DEF HeldIsCanonical
  <1>. QED
    BY <1>2, EngineInvariant, PTL

\* No step takes back a final row or the stored finality: not a fork, not an
\* ack of joined write sets, not a crash with the open after it.
THEOREM FinalRowsStay == ASSUME Assumptions PROVE Spec => FinalBlocksStay
  <1>1. ASSUME EngineInv, [Next]_vars PROVE [FinalBlocksKept]_disk
    <2>1. EngineInv' /\ (disk' = disk \/ Later(disk, disk'))
      BY <1>1, EngineStep, SMTT(30)
    <2>2. CASE Later(disk, disk')
      <3>1. disk \in Store /\ disk'.finality \in Int /\ disk.finality \in Int
        <4>1. disk \in Store /\ disk' \in Store
          <5>1. StoreOK(disk)
            BY <1>1, InvSound
          <5>2. StoreOK(disk')
            <6>. DEFINE q == pending'
                        d == disk'
            <6>1. q \in Seq(Seq(Write)) /\ StoreOK(ImageOf(d, q, 0))
              BY <2>1, SMTT(30) DEF EngineInv, Image
            <6>. HIDE DEF q, d
            <6>2. ImageOf(d, q, 0) = d
              BY <6>1, ImageLaw
            <6>. QED
              BY <6>1, <6>2, SMTT(30) DEF d
          <5>. QED
            BY <5>1, <5>2, Zenon DEF StoreOK
        <4>. QED
          BY <4>1, StoreFields, SMTT(30)
      <3>. QED
        BY <2>2, <3>1, SMTT(30) DEF Later, FinalBlocksKept, FinalTop
    <2>. QED
      BY <2>1, <2>2
  <1>2. EngineInv /\ [Next]_vars => [FinalBlocksKept]_disk
    BY <1>1
  <1>. QED
    BY <1>2, EngineInvariant, PTL DEF Spec, FinalBlocksStay

=============================================================================
