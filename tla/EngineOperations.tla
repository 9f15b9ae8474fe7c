------------------------- MODULE EngineOperations -------------------------
(***************************************************************************)
(* What the operations of the engine do to its state and to the store, for *)
(* every chain and every configuration: the lemmas of EngineProofs.        *)
(***************************************************************************)
EXTENDS Engine, TLAPS, WellFoundedInduction, SequenceTheorems

-----------------------------------------------------------------------------
(* The parts of the inductive invariant *)

\* The host attaches its callback before it ingests, or needs none.
HostAttaches == External => AttachFirst

\* The newest block whose rows are final.
FinalTop(d) == Min({d.finality, d.latest})

\* From one store to a later one the final rows stay.
Later(d, s) ==
    /\ d.finality <= s.finality
    /\ FinalTop(d) <= FinalTop(s)
    /\ Upto(s.accepted, FinalTop(d)) = Upto(d.accepted, FinalTop(d))

\* From block f on the known hashes are those of one chain.
OneView(h, f) ==
    \A v \in Views, b \in Block :
        b >= f /\ h[b] = v[b] => \A c \in Block : f <= c /\ c <= b => h[c] \in {NoHash, v[c]}

\* A store that a crash may leave: `open` can rebuild the engine from it.
StoreOK(d) ==
    /\ d \in Store
    /\ d.durable <= d.finality /\ d.durable <= d.latest
    /\ d.durable = NoBlock => d.accepted = {}
    /\ \A r \in d.accepted : r.block <= d.latest
    /\ d.ckpt \subseteq Upto(d.accepted, d.durable)
    /\ HostAttaches => d.ckpt = Upto(d.accepted, d.durable)
    /\ Above(d.rows, d.durable) = Above(d.accepted, d.durable)
    /\ d.finality # NoBlock => d.hashes[d.finality] # NoHash
    /\ Interval > 1 /\ d.latest # NoBlock => FinalTop(d) - d.durable < Interval
    /\ CompleteChains =>
            /\ OneView(d.hashes, d.finality)
            /\ \A r \in d.accepted : r.block > d.finality => d.hashes[r.block] = r.tag

\* The engine's own metadata is that of the newest store.
Mirrors(e, d) ==
    /\ e.latest = d.latest /\ e.durable = d.durable
    /\ d.finality = IF e.hasFinalized THEN e.finalized ELSE NoBlock
    /\ e.hasFinalized \/ e.finalized = 0
    /\ \A b \in Block : IF b \in e.changed THEN b < e.finalized ELSE e.hashes[b] = d.hashes[b]

\* The reducers and views hold the accepted rows, parted at the finality; with
\* no callback yet, those of the checkpoint.
Nodes(e, rows, missing) ==
    /\ \A r \in e.final : r.block <= NodesFinalBlock(e)
    /\ \A r \in e.unfinal : r.block > NodesFinalBlock(e)
    /\ e.nodesFinalAt # NoBlock =>
            External /\ e.nodesFinalAt = e.durable /\ e.durable < e.finalized
    /\ ~e.skewed
    /\ e.final \cup e.unfinal \subseteq rows
    /\ HostAttaches /\ ~missing => rows \subseteq e.final \cup e.unfinal
    /\ HostAttaches /\ missing =>
            /\ e.final = Upto(rows, e.durable) /\ e.unfinal = {}
            /\ \A r \in rows : r.block <= e.durable \/ r.block > NodesFinalBlock(e)

-----------------------------------------------------------------------------
(* Naturals and blocks *)

\* A non-empty set of naturals has a least element.
LEMMA LeastNat ==
    ASSUME NEW S \in SUBSET Nat, S # {}
    PROVE  \E n \in S : \A m \in S : n <= m
  <1>1. IsWellFoundedOn({ss \in Nat \X Nat : ss[1] < ss[2]}, Nat)
    BY NatLessThanWellFounded DEF OpToRel
  <1>2. PICK R : R = {ss \in Nat \X Nat : ss[1] < ss[2]}
    BY Zenon
  <1>3. PICK x \in S : \A y \in S : <<y, x>> \notin R
    BY <1>1, <1>2, WFMin, Zenon
  <1>4. \A y \in S : y < x => <<y, x>> \in R
    BY <1>2
  <1>5. \A y \in S : ~(y < x)
    BY <1>3, <1>4, Zenon
  <1>6. \A y \in S : x <= y
    BY <1>5
  <1>. QED
    BY <1>6

\* Induction over the naturals, for a property given as a set.
LEMMA NatSetInduction ==
    ASSUME NEW S, 0 \in S, \A n \in Nat : n \in S => n + 1 \in S
    PROVE  Nat \subseteq S
  <1>1. SUFFICES ASSUME Nat \ S # {} PROVE FALSE
    OBVIOUS
  <1>2. PICK n \in Nat \ S : \A m \in Nat \ S : n <= m
    BY <1>1, LeastNat, Zenon
  <1>3. n # 0 /\ n - 1 \in Nat /\ n - 1 \in S
    BY <1>2
  <1>. QED
    BY <1>2, <1>3

\* The least and the greatest of some blocks.
LEMMA BlockBounds ==
    ASSUME MaxBlock \in Nat, NEW S \in SUBSET Block, S # {}
    PROVE  /\ Min(S) \in S /\ \A b \in S : Min(S) <= b
           /\ Max(S) \in S /\ \A b \in S : Max(S) >= b
  <1>1. S \in SUBSET Nat /\ \A b \in S : b \in 0 .. MaxBlock
    BY DEF Block
  <1>2. \E x \in S : \A y \in S : x =< y
    BY <1>1, LeastNat
  <1>3. \E x \in S : \A y \in S : x >= y
    <2>. DEFINE T == {n \in Nat : \E b \in S : n = MaxBlock - b}
    <2>1. T \in SUBSET Nat
      OBVIOUS
    <2>2. T # {}
      <3>1. PICK b \in S : TRUE
        OBVIOUS
      <3>2. MaxBlock - b \in Nat
        BY <1>1
      <3>. QED
        BY <3>2
    <2>. HIDE DEF T
    <2>3. PICK n \in T : \A m \in T : n <= m
      BY <2>1, <2>2, LeastNat
    <2>4. PICK x \in S : n = MaxBlock - x
      BY DEF T
    <2>5. ASSUME NEW y \in S PROVE x >= y
      <3>1. MaxBlock - y \in T
        BY <1>1 DEF T
      <3>2. n <= MaxBlock - y
        BY <2>3, <3>1
      <3>. QED
        BY <3>2, <2>4, <1>1
    <2>. QED
      BY <2>5
  <1>. QED
    BY <1>2, <1>3 DEF Min, Max

\* The least and the greatest of two integers.
LEMMA PairBounds ==
    ASSUME NEW a \in Int, NEW b \in Int
    PROVE  /\ Min({a, b}) = IF a <= b THEN a ELSE b
           /\ Max({a, b}) = IF a <= b THEN b ELSE a
  <1>1. \E x \in {a, b} : \A y \in {a, b} : x =< y
    OBVIOUS
  <1>2. \E x \in {a, b} : \A y \in {a, b} : x >= y
    OBVIOUS
  <1>3. Min({a, b}) \in {a, b} /\ \A y \in {a, b} : Min({a, b}) =< y
    BY <1>1 DEF Min
  <1>4. Max({a, b}) \in {a, b} /\ \A y \in {a, b} : Max({a, b}) >= y
    BY <1>2 DEF Max
  <1>. QED
    BY <1>3, <1>4

-----------------------------------------------------------------------------
(* Commits of write sets and of batches *)

\* The commit of a batch is what its recursion says.
LEMMA CommitAllLaw ==
    ASSUME NEW d, NEW s \in Seq(Write)
    PROVE  \E f : /\ f[0] = d
                  /\ \A i \in 1 .. Len(s) : f[i] = Commit(f[i - 1], s[i])
                  /\ CommitAll(d, s) = f[Len(s)]
  <1>. DEFINE Runs(f, n) == f = [i \in 0 .. n |-> IF i = 0 THEN d ELSE Commit(f[i - 1], s[i])]
              S == {n \in Nat : \E f : Runs(f, n)}
  <1>1. Len(s) \in Nat
    BY LenProperties
  <1>2. 0 \in S
    <2>1. PICK f : f = [i \in 0 .. 0 |-> d]
      BY Zenon
    <2>2. f = [i \in 0 .. 0 |-> IF i = 0 THEN d ELSE Commit(f[i - 1], s[i])]
      BY <2>1
    <2>. QED
      BY <2>2
  <1>3. ASSUME NEW n \in Nat, n \in S
        PROVE  n + 1 \in S
    <2>1. PICK f : Runs(f, n)
      BY <1>3
    <2>2. PICK g : g = [i \in 0 .. n + 1 |-> IF i = n + 1 THEN Commit(f[n], s[i]) ELSE f[i]]
      BY Zenon
    <2>3. ASSUME NEW i \in 0 .. n + 1
          PROVE  g[i] = IF i = 0 THEN d ELSE Commit(g[i - 1], s[i])
      BY <2>1, <2>2
    <2>4. Runs(g, n + 1)
      BY <2>2, <2>3
    <2>. HIDE DEF Runs
    <2>. QED
      BY <2>4
  <1>. HIDE DEF S
  <1>4. Len(s) \in S
    BY <1>1, <1>2, <1>3, NatSetInduction
  <1>5. \E f : Runs(f, Len(s))
    BY <1>4 DEF S
  <1>6. PICK f : Runs(f, Len(s)) /\ CommitAll(d, s) = f[Len(s)]
    BY <1>5, Zenon DEF CommitAll
  <1>7. f[0] = d /\ \A i \in 1 .. Len(s) : f[i] = Commit(f[i - 1], s[i])
    BY <1>1, <1>6
  <1>. QED
    BY <1>6, <1>7, Zenon

\* A write set that joins a batch commits after the others of the batch.
LEMMA CommitAllAppend ==
    ASSUME NEW d, NEW s \in Seq(Write), NEW w \in Write
    PROVE  CommitAll(d, Append(s, w)) = Commit(CommitAll(d, s), w)
  <1>1. /\ Len(s) \in Nat /\ Append(s, w) \in Seq(Write) /\ Len(Append(s, w)) = Len(s) + 1
        /\ \A i \in 1 .. Len(s) : Append(s, w)[i] = s[i]
        /\ Append(s, w)[Len(s) + 1] = w
    BY LenProperties, AppendProperties
  <1>2. PICK f : /\ f[0] = d
                 /\ \A i \in 1 .. Len(s) : f[i] = Commit(f[i - 1], s[i])
                 /\ CommitAll(d, s) = f[Len(s)]
    BY CommitAllLaw, Zenon
  <1>3. PICK g : /\ g[0] = d
                 /\ \A i \in 1 .. Len(Append(s, w)) : g[i] = Commit(g[i - 1], Append(s, w)[i])
                 /\ CommitAll(d, Append(s, w)) = g[Len(Append(s, w))]
    BY <1>1, CommitAllLaw, Zenon
  <1>. DEFINE T == {n \in Nat : n <= Len(s) => g[n] = f[n]}
  <1>4. 0 \in T
    BY <1>2, <1>3
  <1>5. ASSUME NEW n \in Nat, n \in T PROVE n + 1 \in T
    <2>. SUFFICES ASSUME n + 1 <= Len(s) PROVE g[n + 1] = f[n + 1]
      OBVIOUS
    <2>1. n + 1 \in 1 .. Len(s) /\ n + 1 \in 1 .. Len(s) + 1 /\ (n + 1) - 1 = n /\ g[n] = f[n]
      BY <1>1, <1>5
    <2>. QED
      BY <2>1, <1>1, <1>2, <1>3
  <1>. HIDE DEF T
  <1>6. Len(s) \in T
    BY <1>1, <1>4, <1>5, NatSetInduction
  <1>7. g[Len(s)] = f[Len(s)]
    BY <1>1, <1>6 DEF T
  <1>8. Len(s) + 1 \in 1 .. Len(s) + 1 /\ (Len(s) + 1) - 1 = Len(s)
    BY <1>1
  <1>. QED
    BY <1>1, <1>2, <1>3, <1>7, <1>8

\* A batch of one write set.
LEMMA CommitAllOne ==
    ASSUME NEW d, NEW w \in Write
    PROVE  <<w>> \in Seq(Write) /\ CommitAll(d, <<w>>) = Commit(d, w)
  <1>1. <<w>> \in Seq(Write) /\ Len(<<w>>) = 1 /\ <<w>>[1] = w
    OBVIOUS
  <1>2. PICK f : /\ f[0] = d
                 /\ \A i \in 1 .. 1 : f[i] = Commit(f[i - 1], <<w>>[i])
                 /\ CommitAll(d, <<w>>) = f[1]
    BY <1>1, CommitAllLaw
  <1>3. f[1] = Commit(f[1 - 1], w)
    BY <1>1, <1>2
  <1>. QED
    BY <1>1, <1>2, <1>3

\* The stores that the acks of a queue lead to.
LEMMA ImageLaw ==
    ASSUME NEW d, NEW q \in Seq(Seq(Write))
    PROVE  /\ ImageOf(d, q, 0) = d
           /\ \A i \in 1 .. Len(q) : ImageOf(d, q, i) = CommitAll(ImageOf(d, q, i - 1), q[i])
  <1>. DEFINE Runs(f, n) == f = [i \in 0 .. n |-> IF i = 0 THEN d ELSE CommitAll(f[i - 1], q[i])]
              S == {n \in Nat : \E f : Runs(f, n)}
  <1>1. Len(q) \in Nat
    BY LenProperties
  <1>2. 0 \in S
    <2>1. PICK f : f = [i \in 0 .. 0 |-> d]
      BY Zenon
    <2>2. f = [i \in 0 .. 0 |-> IF i = 0 THEN d ELSE CommitAll(f[i - 1], q[i])]
      BY <2>1
    <2>. QED
      BY <2>2
  <1>3. ASSUME NEW n \in Nat, n \in S
        PROVE  n + 1 \in S
    <2>1. PICK f : Runs(f, n)
      BY <1>3
    <2>2. PICK g : g = [i \in 0 .. n + 1 |-> IF i = n + 1 THEN CommitAll(f[n], q[i]) ELSE f[i]]
      BY Zenon
    <2>3. ASSUME NEW i \in 0 .. n + 1
          PROVE  g[i] = IF i = 0 THEN d ELSE CommitAll(g[i - 1], q[i])
      BY <2>1, <2>2
    <2>4. Runs(g, n + 1)
      BY <2>2, <2>3
    <2>. HIDE DEF Runs
    <2>. QED
      BY <2>4
  <1>. HIDE DEF S
  <1>4. Len(q) \in S
    BY <1>1, <1>2, <1>3, NatSetInduction, SMTT(30)
  <1>5. \E f : Runs(f, Len(q))
    BY <1>4 DEF S
  <1>6. PICK f : Runs(f, Len(q)) /\ f = CHOOSE x : Runs(x, Len(q))
    BY <1>5, Zenon
  <1>7. \A i : ImageOf(d, q, i) = f[i]
    BY <1>6, Zenon DEF ImageOf
  <1>8. f[0] = d /\ \A i \in 1 .. Len(q) : f[i] = CommitAll(f[i - 1], q[i])
    <2>1. f = [i \in 0 .. Len(q) |-> IF i = 0 THEN d ELSE CommitAll(f[i - 1], q[i])]
      BY <1>6, SMTT(30)
    <2>. QED
      BY <1>1, <2>1
  <1>. QED
    BY <1>7, <1>8

\* Batches that a queue has in common with another one lead to the same stores.
LEMMA ImageShared ==
    ASSUME NEW d, NEW q \in Seq(Seq(Write)), NEW r \in Seq(Seq(Write)), NEW n \in Nat,
           n <= Len(q), n <= Len(r), \A i \in 1 .. n : q[i] = r[i]
    PROVE  \A i \in 0 .. n : ImageOf(d, q, i) = ImageOf(d, r, i)
  <1>1. Len(q) \in Nat /\ Len(r) \in Nat
    BY LenProperties
  <1>2. /\ ImageOf(d, q, 0) = d
        /\ \A i \in 1 .. Len(q) : ImageOf(d, q, i) = CommitAll(ImageOf(d, q, i - 1), q[i])
    BY ImageLaw, Zenon
  <1>3. /\ ImageOf(d, r, 0) = d
        /\ \A i \in 1 .. Len(r) : ImageOf(d, r, i) = CommitAll(ImageOf(d, r, i - 1), r[i])
    BY ImageLaw, Zenon
  <1>. DEFINE T == {i \in Nat : i <= n => ImageOf(d, q, i) = ImageOf(d, r, i)}
  <1>4. 0 \in T
    BY <1>2, <1>3
  <1>5. ASSUME NEW i \in Nat, i \in T PROVE i + 1 \in T
    <2>. SUFFICES ASSUME i + 1 <= n PROVE ImageOf(d, q, i + 1) = ImageOf(d, r, i + 1)
      OBVIOUS
    <2>1. /\ i + 1 \in 1 .. n /\ i + 1 \in 1 .. Len(q) /\ i + 1 \in 1 .. Len(r)
          /\ (i + 1) - 1 = i /\ ImageOf(d, q, i) = ImageOf(d, r, i)
      BY <1>1, <1>5
    <2>. QED
      BY <2>1, <1>2, <1>3
  <1>. HIDE DEF T
  <1>6. Nat \subseteq T
    BY <1>4, <1>5, NatSetInduction, Zenon
  <1>. QED
    BY <1>6 DEF T

\* The ack of the oldest batch leaves the stores behind it as they were.
LEMMA ImageBehind ==
    ASSUME NEW d, NEW q \in Seq(Seq(Write)), q # <<>>
    PROVE  /\ Tail(q) \in Seq(Seq(Write)) /\ Len(Tail(q)) = Len(q) - 1
           /\ \A i \in 0 .. Len(q) - 1 :
                ImageOf(CommitAll(d, Head(q)), Tail(q), i) = ImageOf(d, q, i + 1)
  <1>. DEFINE t == Tail(q)
              c == CommitAll(d, Head(q))
  <1>1. /\ Len(q) \in Nat /\ Len(q) >= 1 /\ t \in Seq(Seq(Write)) /\ Len(t) = Len(q) - 1
        /\ Head(q) = q[1]
        /\ \A i \in 1 .. Len(t) : t[i] = q[i + 1]
    BY LenProperties, EmptySeq, HeadTailProperties
  <1>2. /\ ImageOf(d, q, 0) = d
        /\ \A i \in 1 .. Len(q) : ImageOf(d, q, i) = CommitAll(ImageOf(d, q, i - 1), q[i])
    BY ImageLaw, Zenon
  <1>3. /\ ImageOf(c, t, 0) = c
        /\ \A i \in 1 .. Len(t) : ImageOf(c, t, i) = CommitAll(ImageOf(c, t, i - 1), t[i])
    BY <1>1, ImageLaw, Zenon
  <1>. DEFINE T == {i \in Nat : i <= Len(t) => ImageOf(c, t, i) = ImageOf(d, q, i + 1)}
  <1>4. 0 \in T
    <2>1. 1 \in 1 .. Len(q) /\ 1 - 1 = 0
      BY <1>1
    <2>2. ImageOf(d, q, 1) = c
      BY <2>1, <1>1, <1>2
    <2>. QED
      BY <2>2, <1>3
  <1>. HIDE DEF t, c
  <1>5. ASSUME NEW i \in Nat, i \in T PROVE i + 1 \in T
    <2>. SUFFICES ASSUME i + 1 <= Len(t) PROVE ImageOf(c, t, i + 1) = ImageOf(d, q, (i + 1) + 1)
      OBVIOUS
    <2>1. /\ i + 1 \in 1 .. Len(t) /\ (i + 1) + 1 \in 1 .. Len(q)
          /\ (i + 1) - 1 = i /\ ((i + 1) + 1) - 1 = i + 1
          /\ ImageOf(c, t, i) = ImageOf(d, q, i + 1)
      BY <1>1, <1>5
    <2>2. t[i + 1] = q[(i + 1) + 1]
      BY <2>1, <1>1
    <2>. QED
      BY <2>1, <2>2, <1>2, <1>3
  <1>. HIDE DEF T
  <1>6. Nat \subseteq T
    BY <1>4, <1>5, NatSetInduction, Zenon
  <1>7. \A i \in 0 .. Len(q) - 1 : ImageOf(c, t, i) = ImageOf(d, q, i + 1)
    BY <1>1, <1>6 DEF T
  <1>. QED
    BY <1>1, <1>7 DEF t, c

-----------------------------------------------------------------------------
(* What each operation does to the engine *)

\* The hashes that the engine did not change since the last write set are
\* those of the store.
Tracks(e, h) == \A b \in Block : b \notin e.changed => e.hashes[b] = h[b]

\* Two states of the engine that differ in the hashes only.
SameButHashes(e, g) ==
    /\ g.latest = e.latest /\ g.finalized = e.finalized /\ g.durable = e.durable
    /\ g.hasFinalized = e.hasFinalized /\ g.nodesFinalAt = e.nodesFinalAt /\ g.purged = e.purged
    /\ g.final = e.final /\ g.unfinal = e.unfinal /\ g.skewed = e.skewed

\* The fields of the engine and of the store.
LEMMA EngineFields ==
    ASSUME Assumptions, NEW e \in EngineState
    PROVE  /\ e.latest \in Int /\ e.finalized \in Int /\ e.durable \in Int /\ e.nodesFinalAt \in Int
           /\ -1 <= e.latest /\ e.latest <= MaxBlock /\ -1 <= e.durable /\ e.durable <= MaxBlock
           /\ 0 <= e.finalized /\ e.finalized <= MaxBlock
           /\ -1 <= e.nodesFinalAt /\ e.nodesFinalAt <= MaxBlock
           /\ e.final \in SUBSET Row /\ e.unfinal \in SUBSET Row
           /\ \A b \in Block : e.hashes[b] \in OptHash
           /\ \A r \in e.final \cup e.unfinal : r.block \in Block
           /\ OrZero(e.latest) \in Block
           /\ Block \subseteq Int /\ MaxBlock \in Nat
  <1>1. MaxBlock \in Nat
    BY DEF Assumptions, MaxBlockAssumption
  <1>. QED
    BY <1>1 DEF EngineState, OptBlock, Block, NoBlock, Row, OrZero

\* A rollback drops the rows and the hashes above the block p, and no others.
LEMMA RollbackFacts ==
    ASSUME Assumptions, NEW e \in EngineState, NEW p \in Block, p <= OrZero(e.latest)
    PROVE  LET g == Rollback(e, p)
           IN  /\ g \in EngineState
               /\ g.latest = p /\ g.unfinal = Upto(e.unfinal, p)
               /\ g.finalized = e.finalized /\ g.durable = e.durable
               /\ g.hasFinalized = e.hasFinalized /\ g.nodesFinalAt = e.nodesFinalAt
               /\ g.purged = e.purged /\ g.final = e.final /\ g.skewed = e.skewed
               /\ \A b \in Block : g.hashes[b] = IF b > p THEN NoHash ELSE e.hashes[b]
               /\ \A h : Tracks(e, h) => Tracks(g, h)
  <1>. DEFINE gone == {b \in Block : b > p /\ e.hashes[b] # NoHash}
              cut == [b \in Block |-> IF b > p THEN NoHash ELSE e.hashes[b]]
              g == [e EXCEPT !.unfinal = Upto(e.unfinal, p), !.latest = p,
                             !.hashes = cut, !.changed = e.changed \cup gone]
  <1>1. ~(p > OrZero(e.latest))
    BY EngineFields
  <1>2. Rollback(e, p) = g
    BY <1>1 DEF Rollback
  <1>3. cut \in [Block -> OptHash] /\ gone \subseteq Block /\ Upto(e.unfinal, p) \subseteq e.unfinal
    BY DEF EngineState, OptHash, Upto
  <1>4. \A b \in Block : cut[b] = IF b > p THEN NoHash ELSE e.hashes[b]
    OBVIOUS
  <1>5. /\ g.latest = p /\ g.unfinal = Upto(e.unfinal, p) /\ g.hashes = cut
        /\ g.changed = e.changed \cup gone
        /\ g.finalized = e.finalized /\ g.durable = e.durable
        /\ g.hasFinalized = e.hasFinalized /\ g.nodesFinalAt = e.nodesFinalAt
        /\ g.purged = e.purged /\ g.final = e.final /\ g.skewed = e.skewed
    BY SMTT(30) DEF EngineState
  <1>. HIDE DEF cut
  <1>6. g \in EngineState
    BY <1>3, Zenon DEF EngineState, OptBlock
  <1>. HIDE DEF g
  <1>7. ASSUME NEW h, Tracks(e, h) PROVE Tracks(g, h)
    BY <1>4, <1>5, <1>7 DEF Tracks
  <1>. QED
    BY <1>2, <1>4, <1>5, <1>6, <1>7

\* The hashes of a call replace those of the same blocks, and no others.
LEMMA ChainFacts ==
    ASSUME Assumptions, NEW e \in EngineState, NEW view \in Views, NEW supplied \in SUBSET Block
    PROVE  LET g == SetRollbackChain(e, view, supplied)
           IN  /\ g \in EngineState /\ SameButHashes(e, g)
               /\ \A b \in Block : g.hashes[b] = IF b \in supplied THEN view[b] ELSE e.hashes[b]
               /\ \A h : Tracks(e, h) => Tracks(g, h)
  <1>. DEFINE new == {b \in supplied : e.hashes[b] # view[b]}
              set == [b \in Block |-> IF b \in supplied THEN view[b] ELSE e.hashes[b]]
              g == [e EXCEPT !.changed = e.changed \cup new, !.hashes = set]
  <1>1. view \in [Block -> Hash]
    BY DEF Assumptions, InputAssumption
  <1>2. SetRollbackChain(e, view, supplied) = g
    BY DEF SetRollbackChain
  <1>3. set \in [Block -> OptHash] /\ new \subseteq Block
    BY <1>1 DEF EngineState, OptHash
  <1>4. \A b \in Block : set[b] = IF b \in supplied THEN view[b] ELSE e.hashes[b]
    OBVIOUS
  <1>5. /\ SameButHashes(e, g) /\ g.hashes = set /\ g.changed = e.changed \cup new
    BY SMTT(30) DEF EngineState, SameButHashes
  <1>. HIDE DEF set
  <1>6. g \in EngineState
    BY <1>3, Zenon DEF EngineState
  <1>. HIDE DEF g
  <1>7. ASSUME NEW h, Tracks(e, h) PROVE Tracks(g, h)
    BY <1>4, <1>5, <1>7 DEF Tracks
  <1>. QED
    BY <1>2, <1>4, <1>5, <1>6, <1>7

\* The pruning of hashes leaves those from the finalized block on.
LEMMA PruneFacts ==
    ASSUME Assumptions, NEW e \in EngineState
    PROVE  LET g == PruneBlockHashes(e)
           IN  /\ g \in EngineState /\ SameButHashes(e, g)
               /\ \A b \in Block : b >= e.finalized => g.hashes[b] = e.hashes[b]
               /\ \A b \in g.changed : b \in e.changed \/ b < e.finalized
               /\ \A h : Tracks(e, h) => Tracks(g, h)
  <1>. DEFINE gone == {b \in Block : /\ b < e.finalized /\ e.hashes[b] # NoHash
                                     /\ b \notin {e.durable, e.latest}}
              cut == [b \in Block |-> IF b \in gone THEN NoHash ELSE e.hashes[b]]
              g == [e EXCEPT !.hashes = cut, !.changed = e.changed \cup gone]
  <1>1. \A b \in gone : ~(b >= e.finalized) /\ b < e.finalized
    BY EngineFields
  <1>2. PruneBlockHashes(e) = g
    BY DEF PruneBlockHashes
  <1>3. cut \in [Block -> OptHash] /\ gone \subseteq Block
    BY DEF EngineState, OptHash
  <1>4. \A b \in Block : cut[b] = IF b \in gone THEN NoHash ELSE e.hashes[b]
    OBVIOUS
  <1>5. SameButHashes(e, g) /\ g.hashes = cut /\ g.changed = e.changed \cup gone
    BY DEF EngineState, SameButHashes
  <1>. HIDE DEF cut, gone
  <1>6. g \in EngineState
    BY <1>3, Zenon DEF EngineState
  <1>. HIDE DEF g
  <1>7. ASSUME NEW h, Tracks(e, h) PROVE Tracks(g, h)
    BY <1>4, <1>5, <1>7 DEF Tracks
  <1>. QED
    BY <1>1, <1>2, <1>4, <1>5, <1>6, <1>7

\* A fold of rows above every row that was folded before.
LEMMA FoldFacts ==
    ASSUME Assumptions, NEW e \in EngineState, NEW rows \in SUBSET Row,
           \A r \in rows, q \in e.final \cup e.unfinal : q.block < r.block
    PROVE  LET g == Fold(e, rows)
           IN  /\ g \in EngineState
               /\ g = [e EXCEPT !.unfinal = e.unfinal \cup rows]
               /\ g.unfinal = e.unfinal \cup rows
               /\ g.latest = e.latest /\ g.durable = e.durable /\ g.finalized = e.finalized
               /\ g.hasFinalized = e.hasFinalized /\ g.nodesFinalAt = e.nodesFinalAt
               /\ g.purged = e.purged /\ g.final = e.final /\ g.skewed = e.skewed
               /\ g.hashes = e.hashes /\ g.changed = e.changed
  <1>1. ASSUME NEW r \in rows, NEW q \in e.final \cup e.unfinal
        PROVE  ~(q.block >= r.block)
    <2>1. q.block \in Int /\ r.block \in Int
      BY EngineFields DEF Row
    <2>. QED
      BY <2>1
  <1>2. e.skewed \in BOOLEAN
    BY DEF EngineState
  <1>3. (e.skewed \/ \E r \in rows, q \in e.final \cup e.unfinal : q.block >= r.block) = e.skewed
    BY <1>1, <1>2
  <1>4. Fold(e, rows) = [e EXCEPT !.skewed = e.skewed, !.unfinal = e.unfinal \cup rows]
    BY <1>3, Zenon DEF Fold
  <1>5. [e EXCEPT !.skewed = e.skewed, !.unfinal = e.unfinal \cup rows]
            = [e EXCEPT !.unfinal = e.unfinal \cup rows]
    BY Zenon DEF EngineState
  <1>6. [e EXCEPT !.unfinal = e.unfinal \cup rows] \in EngineState
    BY DEF EngineState
  <1>. QED
    BY <1>4, <1>5, <1>6 DEF EngineState

\* The blocks of a call above everything that the engine holds.
LEMMA ProcessFacts ==
    ASSUME Assumptions, NEW e \in EngineState, NEW rows \in SUBSET Row,
           \A r \in rows : r.block > e.latest,
           \A q \in e.final \cup e.unfinal : q.block <= e.latest,
           e.durable <= e.latest
    PROVE  LET g == Process(e, rows)
           IN  /\ g \in EngineState
               /\ g.unfinal = e.unfinal \cup rows
               /\ e.latest <= g.latest /\ \A r \in rows : r.block <= g.latest
               /\ rows = {} => g = e
               /\ rows # {} => g.latest # NoBlock /\ \E r \in rows : r.block = g.latest
               /\ g.durable = e.durable /\ g.finalized = e.finalized
               /\ g.hasFinalized = e.hasFinalized /\ g.nodesFinalAt = e.nodesFinalAt
               /\ g.purged = e.purged /\ g.final = e.final /\ g.skewed = e.skewed
               /\ g.hashes = e.hashes /\ g.changed = e.changed
  <1>. DEFINE blocks == {r.block : r \in rows}
              top == Max({e.latest, Max(blocks)})
              folded == Fold(e, rows)
              g == [folded EXCEPT !.latest = top, !.durable = e.durable]
  <1>1. /\ e.latest \in Int /\ e.durable \in Int /\ MaxBlock \in Nat /\ Block \subseteq Int
        /\ \A r \in rows : r.block \in Block
    BY EngineFields DEF Row
  <1>2. CASE rows = {}
    <2>1. Process(e, rows) = e
      BY <1>2 DEF Process
    <2>. QED
      BY <2>1, <1>1, <1>2
  <1>3. CASE rows # {}
    <2>1. blocks \in SUBSET Block /\ blocks # {}
      BY <1>1, <1>3
    <2>2. /\ Min(blocks) \in blocks
          /\ Max(blocks) \in blocks /\ \A b \in blocks : Max(blocks) >= b
      BY <2>1, <1>1, BlockBounds, Zenon
    <2>3. PICK m \in rows : m.block = Max(blocks)
      BY <2>2
    <2>4. m.block \in Int /\ m.block > e.latest /\ \A r \in rows : r.block <= m.block
      BY <2>2, <2>3, <1>1, Zenon
    <2>5. top = m.block
      <3>1. top = IF e.latest <= m.block THEN m.block ELSE e.latest
        BY <2>3, <2>4, <1>1, PairBounds, Zenon
      <3>. HIDE DEF top
      <3>. QED
        BY <3>1, <2>4, <1>1
    <2>6. ~(e.durable >= Min(blocks))
      <3>1. PICK r \in rows : r.block = Min(blocks)
        BY <2>2, Zenon
      <3>2. r.block > e.latest /\ r.block \in Int
        BY <1>1, Zenon
      <3>. QED
        BY <3>1, <3>2, <1>1
    <2>7. \A r \in rows, q \in e.final \cup e.unfinal : q.block < r.block
      <3>. SUFFICES ASSUME NEW r \in rows, NEW q \in e.final \cup e.unfinal PROVE q.block < r.block
        OBVIOUS
      <3>1. q.block \in Int /\ r.block \in Int /\ q.block <= e.latest /\ r.block > e.latest
        BY <1>1, EngineFields, Zenon
      <3>. QED
        BY <3>1, <1>1
    <2>8. /\ folded \in EngineState
          /\ folded.unfinal = e.unfinal \cup rows
          /\ folded.latest = e.latest /\ folded.durable = e.durable /\ folded.finalized = e.finalized
          /\ folded.hasFinalized = e.hasFinalized /\ folded.nodesFinalAt = e.nodesFinalAt
          /\ folded.purged = e.purged /\ folded.final = e.final /\ folded.skewed = e.skewed
          /\ folded.hashes = e.hashes /\ folded.changed = e.changed
      BY <2>7, FoldFacts
    <2>9. Process(e, rows) = g
      BY <2>6, <2>8, <1>3 DEF Process
    <2>10. top \in Block
      BY <2>5, <1>1
    <2>11. top >= 0
      BY <2>10, <1>1 DEF Block
    <2>. HIDE DEF folded, top
    <2>12. g \in EngineState
      BY <2>8, <2>10, Zenon DEF EngineState, OptBlock
    <2>13. /\ g.unfinal = e.unfinal \cup rows /\ g.latest = m.block
           /\ g.durable = e.durable /\ g.finalized = e.finalized
           /\ g.hasFinalized = e.hasFinalized /\ g.nodesFinalAt = e.nodesFinalAt
           /\ g.purged = e.purged /\ g.final = e.final /\ g.skewed = e.skewed
           /\ g.hashes = e.hashes /\ g.changed = e.changed
      BY <2>5, <2>8 DEF EngineState
    <2>14. g.latest # NoBlock
      BY <2>5, <2>11, <2>13 DEF NoBlock
    <2>. HIDE DEF g
    <2>. QED
      BY <2>4, <2>9, <2>12, <2>13, <2>14, <1>1, <1>3
  <1>. QED
    BY <1>2, <1>3

\* Finality moves to block b: the rows up to it become final.
LEMMA AdvanceFacts ==
    ASSUME Assumptions, NEW e \in EngineState, NEW b \in Block,
           e.finalized <= b, e.durable <= e.finalized,
           e.nodesFinalAt # NoBlock => e.durable < e.finalized,
           \A r \in e.final : r.block <= b,
           e.durable >= b => \A r \in e.unfinal : r.block > b
    PROVE  LET g == AdvanceFinality(e, b)
           IN  /\ g \in EngineState
               /\ g.latest = e.latest /\ g.durable = e.durable
               /\ g.purged = e.purged /\ g.skewed = e.skewed
               /\ g.finalized = b /\ g.hasFinalized /\ g.nodesFinalAt = NoBlock
               /\ g.final \cup g.unfinal = e.final \cup e.unfinal
               /\ \A r \in g.final : r.block <= b
               /\ \A r \in g.unfinal : r.block > b
               /\ \A c \in Block : c >= b => g.hashes[c] = e.hashes[c]
               /\ \A c \in g.changed : c \in e.changed \/ c < b
               /\ \A h : Tracks(e, h) => Tracks(g, h)
  <1>1. /\ e.durable \in Int /\ e.finalized \in Int /\ b \in Int
        /\ \A r \in e.unfinal : r.block \in Int
        /\ e.final \in SUBSET Row /\ e.unfinal \in SUBSET Row
    BY EngineFields DEF Row
  <1>2. CASE e.hasFinalized /\ b = e.finalized /\ e.durable >= b
    <2>1. AdvanceFinality(e, b) = e
      BY <1>2 DEF AdvanceFinality
    <2>2. e.nodesFinalAt = NoBlock
      BY <1>1, <1>2
    <2>. QED
      BY <2>1, <2>2, <1>2
  <1>3. CASE ~(e.hasFinalized /\ b = e.finalized /\ e.durable >= b)
    <2>. DEFINE m == [e EXCEPT !.final = e.final \cup Upto(e.unfinal, b),
                               !.unfinal = Above(e.unfinal, b),
                               !.nodesFinalAt = NoBlock, !.finalized = b, !.hasFinalized = TRUE]
                g == PruneBlockHashes(m)
    <2>1. AdvanceFinality(e, b) = g
      <3>1. FinalizeNodes(e, b) = [e EXCEPT !.final = e.final \cup Upto(e.unfinal, b),
                                            !.unfinal = Above(e.unfinal, b)]
        BY DEF FinalizeNodes, EngineState
      <3>2. [FinalizeNodes(e, b) EXCEPT !.nodesFinalAt = NoBlock,
                                        !.finalized = b, !.hasFinalized = TRUE] = m
        BY <3>1
      <3>. QED
        BY <3>2, <1>3 DEF AdvanceFinality
    <2>2. /\ m.latest = e.latest /\ m.durable = e.durable /\ m.purged = e.purged
          /\ m.skewed = e.skewed /\ m.finalized = b /\ m.hasFinalized /\ m.nodesFinalAt = NoBlock
          /\ m.final = e.final \cup Upto(e.unfinal, b) /\ m.unfinal = Above(e.unfinal, b)
          /\ m.hashes = e.hashes /\ m.changed = e.changed
      BY DEF EngineState
    <2>3. m \in EngineState
      <3>1. Upto(e.unfinal, b) \subseteq e.unfinal /\ Above(e.unfinal, b) \subseteq e.unfinal
        BY DEF Upto, Above
      <3>. QED
        BY <3>1, Zenon DEF EngineState, OptBlock
    <2>. HIDE DEF m
    <2>4. /\ g \in EngineState /\ SameButHashes(m, g)
          /\ \A c \in Block : c >= m.finalized => g.hashes[c] = m.hashes[c]
          /\ \A c \in g.changed : c \in m.changed \/ c < m.finalized
          /\ \A h : Tracks(m, h) => Tracks(g, h)
      BY <2>3, PruneFacts
    <2>5. \A h : Tracks(e, h) => Tracks(m, h)
      BY <2>2 DEF Tracks
    <2>. HIDE DEF g
    <2>6. /\ g.latest = e.latest /\ g.durable = e.durable
          /\ g.purged = e.purged /\ g.skewed = e.skewed
          /\ g.finalized = b /\ g.hasFinalized /\ g.nodesFinalAt = NoBlock
          /\ g.final = e.final \cup Upto(e.unfinal, b) /\ g.unfinal = Above(e.unfinal, b)
      BY <2>2, <2>4 DEF SameButHashes
    <2>7. /\ g.final \cup g.unfinal = e.final \cup e.unfinal
          /\ \A r \in g.final : r.block <= b
          /\ \A r \in g.unfinal : r.block > b
      <3>1. \A r \in e.unfinal : r.block <= b \/ r.block > b
        BY <1>1
      <3>. QED
        BY <3>1, <2>6 DEF Upto, Above
    <2>. QED
      BY <2>1, <2>2, <2>4, <2>5, <2>6, <2>7
  <1>. QED
    BY <1>2, <1>3

\* Two engine states that differ in the durable block, the purge and the hashes.
SameNodes(e, g) ==
    /\ g.latest = e.latest /\ g.finalized = e.finalized
    /\ g.hasFinalized = e.hasFinalized /\ g.nodesFinalAt = e.nodesFinalAt
    /\ g.final = e.final /\ g.unfinal = e.unfinal /\ g.skewed = e.skewed

\* A checkpoint moves the durable block, never above finality or the data, and
\* purges raw rows at or below it.
LEMMA CheckpointFacts ==
    ASSUME Assumptions, NEW e \in EngineState
    PROVE  LET g == WriteCheckpoint(e)
           IN  /\ g \in EngineState /\ SameNodes(e, g)
               /\ e.latest = NoBlock => g.durable = e.durable
               /\ e.latest # NoBlock =>
                    g.durable = IF e.finalized <= e.latest THEN e.finalized ELSE e.latest
               /\ Purged(e) \in SUBSET Block /\ \A b \in Purged(e) : b <= g.durable
               /\ \A b \in Block : b >= e.finalized => g.hashes[b] = e.hashes[b]
               /\ \A b \in g.changed : b \in e.changed \/ b < e.finalized
               /\ \A h : Tracks(e, h) => Tracks(g, h)
  <1>. DEFINE k == DurableAfter(e)
              u == IF Purged(e) = {} THEN e.purged ELSE Max(Purged(e))
              m == [e EXCEPT !.durable = k, !.purged = u]
              g == PruneBlockHashes(m)
  <1>1. /\ e.latest \in OptBlock /\ e.finalized \in Block /\ e.durable \in OptBlock
        /\ e.purged \in OptBlock /\ MaxBlock \in Nat /\ e.latest \in Int /\ e.finalized \in Int
    BY EngineFields DEF EngineState
  <1>2. /\ e.latest = NoBlock => k = e.durable
        /\ e.latest # NoBlock => k = IF e.finalized <= e.latest THEN e.finalized ELSE e.latest
    BY <1>1, PairBounds DEF DurableAfter
  <1>3. k \in OptBlock
    BY <1>1, <1>2 DEF OptBlock
  <1>4. Purged(e) \in SUBSET Block /\ \A b \in Purged(e) : b <= k
    <2>. HIDE DEF k
    <2>. DEFINE x == [e EXCEPT !.durable = k]
                through == k - Retention
    <2>1. x.durable = k /\ x.purged = e.purged
      BY DEF EngineState
    <2>2. Purged(e) = PurgeRange(x)
      BY DEF Purged, k
    <2>3. PurgeRange(x) = {} \/ (PurgeRange(x) = e.purged + 1 .. through)
      <3>. HIDE DEF x
      <3>. QED
        BY <2>1 DEF PurgeRange
    <2>4. Retention \in Nat /\ k \in Int /\ e.purged \in Int /\ e.purged >= -1 /\ k <= MaxBlock
      BY <1>1, <1>3 DEF Assumptions, ConfigAssumption, OptBlock, Block, NoBlock
    <2>5. \A b \in e.purged + 1 .. through : b \in 0 .. MaxBlock /\ b <= k
      BY <2>4, <1>1
    <2>. QED
      BY <2>2, <2>3, <2>5, Zenon DEF Block
  <1>5. u \in OptBlock
    BY <1>1, <1>4, BlockBounds DEF OptBlock
  <1>6. WriteCheckpoint(e) = g
    BY DEF WriteCheckpoint
  <1>. HIDE DEF k, u
  <1>7. m \in EngineState
    BY <1>3, <1>5, Zenon DEF EngineState
  <1>8. /\ SameNodes(e, m) /\ m.durable = k /\ m.hashes = e.hashes /\ m.changed = e.changed
    BY DEF EngineState, SameNodes
  <1>. HIDE DEF m
  <1>9. /\ g \in EngineState /\ SameButHashes(m, g)
        /\ \A c \in Block : c >= m.finalized => g.hashes[c] = m.hashes[c]
        /\ \A c \in g.changed : c \in m.changed \/ c < m.finalized
        /\ \A h : Tracks(m, h) => Tracks(g, h)
    BY <1>7, PruneFacts
  <1>10. \A h : Tracks(e, h) => Tracks(m, h)
    BY <1>8 DEF Tracks
  <1>. HIDE DEF g
  <1>11. SameNodes(e, g) /\ g.durable = k
    BY <1>8, <1>9 DEF SameNodes, SameButHashes
  <1>. QED
    BY <1>2, <1>4, <1>6, <1>8, <1>9, <1>10, <1>11 DEF SameNodes

-----------------------------------------------------------------------------
(* What a write set does to the store *)

\* The fields of the store.
LEMMA StoreFields ==
    ASSUME Assumptions, NEW d \in Store
    PROVE  /\ d.latest \in Int /\ d.durable \in Int /\ d.finality \in Int
           /\ -1 <= d.latest /\ -1 <= d.durable /\ -1 <= d.finality
           /\ d.latest \in OptBlock /\ d.durable \in OptBlock /\ d.finality \in OptBlock
           /\ d.rows \in SUBSET Row /\ d.ckpt \in SUBSET Row /\ d.accepted \in SUBSET Row
           /\ \A b \in Block : d.hashes[b] \in OptHash
           /\ \A r \in Row : r.block \in Block /\ r.block \in Int /\ r.block >= 0
           /\ FinalTop(d) = IF d.finality <= d.latest THEN d.finality ELSE d.latest
  <1>1. MaxBlock \in Nat
    BY DEF Assumptions, MaxBlockAssumption
  <1>2. /\ d.latest \in Int /\ d.durable \in Int /\ d.finality \in Int
        /\ -1 <= d.latest /\ -1 <= d.durable /\ -1 <= d.finality
    BY <1>1 DEF Store, OptBlock, Block, NoBlock
  <1>3. FinalTop(d) = IF d.finality <= d.latest THEN d.finality ELSE d.latest
    BY <1>2, PairBounds DEF FinalTop
  <1>. QED
    BY <1>1, <1>2, <1>3 DEF Store, Row, Block

\* What the commit of a write set leaves of the store `d`.
AfterCommit(d, s, e, n, after, rows, ckpt, purge) ==
    /\ s \in Store
    /\ s.accepted = n
    /\ s.latest = IF e.latest = NoBlock THEN d.latest ELSE e.latest
    /\ s.durable = IF e.durable = NoBlock THEN d.durable ELSE e.durable
    /\ s.finality = IF e.hasFinalized THEN e.finalized ELSE d.finality
    /\ s.ckpt = IF ckpt = {} THEN d.ckpt ELSE UNION ckpt
    /\ \A r : r \in s.rows <=>
            /\ \/ r \in rows
               \/ /\ r \in d.rows
                  /\ after = NoBlock \/ r.block <= after
                  /\ \A q \in rows : q.block # r.block
            /\ r.block \notin purge
    /\ Tracks(e, d.hashes) => \A b \in Block : s.hashes[b] = e.hashes[b]

\* A write set with the metadata of the engine gives the store the engine's
\* watermarks and hashes.
LEMMA CommitFacts ==
    ASSUME Assumptions, NEW d \in Store, NEW e \in EngineState, NEW n \in SUBSET Row,
           NEW after \in OptBlock, NEW rows \in SUBSET Row, NEW ckpt \in SUBSET SUBSET Row,
           NEW purge \in SUBSET Block
    PROVE  LET w == WithMeta([after |-> after, rows |-> rows, ckpt |-> ckpt, purge |-> purge], e, n)
           IN  w \in Write /\ AfterCommit(d, Commit(d, w), e, n, after, rows, ckpt, purge)
  <1>. DEFINE ops == [after |-> after, rows |-> rows, ckpt |-> ckpt, purge |-> purge]
              w == WithMeta(ops, e, n)
              s == Commit(d, w)
              fin == IF e.hasFinalized THEN e.finalized ELSE NoBlock
              h == [b \in e.changed |-> e.hashes[b]]
              hs == [b \in Block |-> IF b \in e.changed THEN e.hashes[b] ELSE d.hashes[b]]
              kept == {r \in d.rows : /\ after = NoBlock \/ r.block <= after
                                      /\ \A q \in rows : q.block # r.block}
              left == {r \in kept \cup rows : r.block \notin purge}
              ck == IF ckpt = {} THEN d.ckpt ELSE UNION ckpt
  <1>1. w = [after |-> after, rows |-> rows, ckpt |-> ckpt, purge |-> purge,
             latest |-> e.latest, durable |-> e.durable, finality |-> fin,
             hashes |-> h, accepted |-> n]
    BY DEF WithMeta
  <1>2. /\ e.latest \in OptBlock /\ e.durable \in OptBlock /\ fin \in OptBlock
        /\ e.changed \in SUBSET Block /\ \A b \in Block : e.hashes[b] \in OptHash
        /\ NoBlock \notin Block
    <2>1. NoBlock \notin Block
      BY DEF NoBlock, Block, Assumptions, MaxBlockAssumption
    <2>. QED
      BY <2>1 DEF EngineState, OptBlock
  <1>3. h \in UNION {[S -> OptHash] : S \in SUBSET Block}
    <2>1. h \in [e.changed -> OptHash]
      BY <1>2
    <2>. HIDE DEF h
    <2>. QED
      BY <2>1, <1>2
  <1>4. w \in Write
    <2>. HIDE DEF h, fin, w
    <2>. QED
      BY <1>1, <1>2, <1>3 DEF Write
  <1>5. DOMAIN h = e.changed /\ \A b \in e.changed : h[b] = e.hashes[b]
    OBVIOUS
  <1>6. [b \in Block |-> IF b \in DOMAIN w.hashes THEN w.hashes[b] ELSE d.hashes[b]] = hs
    <2>1. w.hashes = h
      BY <1>1
    <2>. HIDE DEF w, h
    <2>. QED
      BY <2>1, <1>5
  <1>7. s = [rows     |-> left,
             ckpt     |-> ck,
             latest   |-> Written(e.latest, d.latest),
             durable  |-> Written(e.durable, d.durable),
             finality |-> Written(fin, d.finality),
             hashes   |-> hs,
             accepted |-> n]
    <2>1. /\ w.after = after /\ w.rows = rows /\ w.ckpt = ckpt /\ w.purge = purge
          /\ w.latest = e.latest /\ w.durable = e.durable /\ w.finality = fin /\ w.accepted = n
      BY <1>1
    <2>. HIDE DEF w, hs, fin
    <2>. QED
      BY <2>1, <1>6, Zenon DEF Commit
  <1>8. Written(fin, d.finality) = IF e.hasFinalized THEN e.finalized ELSE d.finality
    BY <1>2 DEF Written, EngineState
  <1>9. hs \in [Block -> OptHash] /\ left \in SUBSET Row /\ ck \in SUBSET Row
    BY <1>2 DEF Store
  <1>10. \A r : r \in left <=>
                    /\ \/ r \in rows
                       \/ /\ r \in d.rows
                          /\ after = NoBlock \/ r.block <= after
                          /\ \A q \in rows : q.block # r.block
                    /\ r.block \notin purge
    OBVIOUS
  <1>11. Tracks(e, d.hashes) => \A b \in Block : hs[b] = e.hashes[b]
    BY DEF Tracks
  <1>. HIDE DEF s, hs, left, ck, fin, w
  <1>12. s \in Store
    BY <1>2, <1>7, <1>9, SMTT(30) DEF Store, Written
  <1>13. /\ s.rows = left /\ s.ckpt = ck /\ s.hashes = hs /\ s.accepted = n
         /\ s.latest = Written(e.latest, d.latest) /\ s.durable = Written(e.durable, d.durable)
         /\ s.finality = Written(fin, d.finality)
    BY <1>7
  <1>14. w \in Write /\ AfterCommit(d, s, e, n, after, rows, ckpt, purge)
    <2>1. AfterCommit(d, s, e, n, after, rows, ckpt, purge)
      BY <1>8, <1>10, <1>11, <1>12, <1>13, SMTT(30) DEF Written, ck, AfterCommit
    <2>. QED
      BY <2>1, <1>4, SMTT(30)
  <1>. QED
    BY <1>14 DEF s, w

-----------------------------------------------------------------------------
(* Forks *)

\* Where a call resumes: the fork point at or above finality, or the latest block.
RecoveryOf(e, view, supplied) ==
    IF Forks(e, view, supplied) THEN ForkPoint(e, view, supplied) ELSE e.latest

\* A fork that is not refused resumes at or above finality and below the latest
\* block, and the supplied hashes agree with the known ones up to there.
LEMMA ForkFacts ==
    ASSUME Assumptions, NEW e \in EngineState, NEW view \in Views, NEW supplied \in SUBSET Block,
           ~ForkRefused(e, view, supplied)
    PROVE  LET p == RecoveryOf(e, view, supplied)
           IN  /\ Forks(e, view, supplied) => p \in Block /\ e.finalized <= p /\ p < e.latest
               /\ ~Forks(e, view, supplied) => p = e.latest
               /\ \A b \in supplied : 0 < b /\ b <= p => e.hashes[b] \in {NoHash, view[b]}
  <1>. DEFINE cs == Conflicts(e, view, supplied)
              first == Min(cs)
              below == Ancestors(e, view, {b \in supplied : b < first})
              fp == ForkPoint(e, view, supplied)
              p == RecoveryOf(e, view, supplied)
  <1>1. /\ e.latest \in Int /\ e.finalized \in Int /\ Block \subseteq Int /\ MaxBlock \in Nat
        /\ 0 <= e.finalized /\ 0 \in Block
    BY EngineFields DEF Block
  <1>2. cs \in SUBSET Block /\ \A b \in cs : b \in supplied /\ b <= e.latest
    BY DEF Conflicts
  <1>3. below \in SUBSET Block /\ \A b \in below : b < first /\ b >= e.finalized
    BY DEF Ancestors
  <1>4. fp = IF below = {} THEN 0 ELSE Max(below)
    BY DEF ForkPoint
  <1>a. /\ Forks(e, view, supplied) <=> cs # {} /\ fp < e.latest
        /\ ~(cs # {} /\ fp < e.finalized)
        /\ p = IF Forks(e, view, supplied) THEN fp ELSE e.latest
    BY DEF Forks, ForkRefused, RecoveryOf
  <1>b. \A b \in supplied : b <= e.latest /\ e.hashes[b] \notin {NoHash, view[b]} => b \in cs
    BY DEF Conflicts
  <1>. HIDE DEF cs, below, p
  <1>5. cs # {} => first \in cs /\ \A b \in cs : first <= b
    BY <1>1, <1>2, BlockBounds
  <1>6. below # {} => Max(below) \in below
    BY <1>1, <1>3, BlockBounds
  <1>. HIDE DEF first, fp
  <1>7. fp \in Block
    BY <1>1, <1>3, <1>4, <1>6
  <1>8. ASSUME Forks(e, view, supplied) PROVE fp \in Block /\ e.finalized <= fp /\ fp < e.latest
    <2>1. fp \in Int
      BY <1>1, <1>7
    <2>. QED
      BY <2>1, <1>1, <1>7, <1>8, <1>a
  <1>9. ASSUME NEW b \in supplied, 0 < b, b <= p, e.hashes[b] \notin {NoHash, view[b]}
        PROVE  FALSE
    <2>1. p <= e.latest /\ p \in Int
      <3>1. fp \in Int
        BY <1>1, <1>7
      <3>. QED
        BY <3>1, <1>1, <1>8, <1>a
    <2>2. b \in cs /\ b \in Int
      <3>1. b \in Int /\ b <= e.latest
        BY <2>1, <1>1, <1>9
      <3>. QED
        BY <3>1, <1>9, <1>b
    <2>3. cs # {} /\ first \in Int /\ first <= b
      BY <2>2, <1>1, <1>2, <1>5, Zenon
    <2>4. fp < b
      <3>1. CASE below = {}
        BY <3>1, <1>4, <1>9
      <3>2. CASE below # {}
        <4>1. fp \in below
          BY <3>2, <1>4, <1>6
        <4>2. fp < first /\ fp \in Int
          BY <4>1, <1>1, <1>3
        <4>. QED
          BY <4>2, <2>2, <2>3
      <3>. QED
        BY <3>1, <3>2
    <2>5. Forks(e, view, supplied)
      <3>1. fp < e.latest
        BY <2>1, <2>2, <2>4, <1>1, <1>7, <1>9
      <3>. QED
        BY <3>1, <2>3, <1>a
    <2>6. p = fp
      BY <2>5, <1>a
    <2>. QED
      BY <2>2, <2>4, <2>6, <1>1, <1>7, <1>9
  <1>. QED
    BY <1>8, <1>9, <1>a DEF p

-----------------------------------------------------------------------------
(* An accepted ingest *)

\* The engine `e` runs on top of the store `d`.
Sound(e, d, missing) ==
    e \in EngineState /\ StoreOK(d) /\ Mirrors(e, d) /\ Nodes(e, d.accepted, missing)

\* The order of the watermarks of an engine and of its store.
LEMMA SoundFields ==
    ASSUME Assumptions, NEW e, NEW d, NEW missing, Sound(e, d, missing)
    PROVE  /\ d \in Store /\ d.latest = e.latest /\ d.durable = e.durable
           /\ d.finality <= e.finalized /\ e.durable <= d.finality /\ e.durable <= e.latest
           /\ e.durable <= e.finalized
           /\ NodesFinalBlock(e) \in Int /\ NodesFinalBlock(e) <= e.finalized
           /\ e.durable <= NodesFinalBlock(e)
           /\ FinalTop(d) \in Int /\ FinalTop(d) <= d.finality /\ FinalTop(d) <= e.latest
           /\ Tracks(e, d.hashes)
           /\ \A r \in d.accepted : r.block <= e.latest /\ r \in Row /\ r.block \in Int /\ r.block >= 0
  <1>1. e \in EngineState /\ d \in Store
    BY DEF Sound, StoreOK
  <1>2. d.latest = e.latest /\ d.durable = e.durable /\ d.durable <= d.finality /\ d.durable <= d.latest
    BY DEF Sound, StoreOK, Mirrors
  <1>3. /\ d.finality = IF e.hasFinalized THEN e.finalized ELSE NoBlock
        /\ 0 <= e.finalized /\ e.finalized \in Int /\ d.finality \in Int /\ e.durable \in Int
        /\ e.latest \in Int /\ e.nodesFinalAt \in Int
    BY <1>1, EngineFields, StoreFields DEF Sound, Mirrors
  <1>4. d.finality <= e.finalized
    BY <1>3 DEF NoBlock
  <1>5. e.nodesFinalAt # NoBlock => e.nodesFinalAt = e.durable /\ e.durable < e.finalized
    BY DEF Sound, Nodes
  <1>6. e.durable <= e.finalized
    BY <1>2, <1>3, <1>4
  <1>7. /\ NodesFinalBlock(e) \in Int /\ NodesFinalBlock(e) <= e.finalized
        /\ e.durable <= NodesFinalBlock(e)
    BY <1>3, <1>5, <1>6 DEF NodesFinalBlock
  <1>8. FinalTop(d) \in Int /\ FinalTop(d) <= d.finality /\ FinalTop(d) <= e.latest
    BY <1>1, <1>2, <1>3, StoreFields
  <1>9. Tracks(e, d.hashes)
    BY SMTT(30) DEF Sound, Mirrors, Tracks
  <1>10. \A r \in d.accepted : r.block <= e.latest /\ r \in Row /\ r.block \in Int /\ r.block >= 0
    BY <1>1, <1>2, StoreFields, SMTT(30) DEF Sound, StoreOK
  <1>. QED
    BY <1>1, <1>2, <1>3, <1>4, <1>6, <1>7, <1>8, <1>9, <1>10, SMTT(30)

\* The engine after the rollback that a fork calls for, and the rows it keeps.
Recovered(e, view, supplied) ==
    IF Forks(e, view, supplied) THEN Rollback(e, RecoveryOf(e, view, supplied)) ELSE e

KeptRows(e, rows, view, supplied) ==
    IF Forks(e, view, supplied) THEN Upto(rows, RecoveryOf(e, view, supplied)) ELSE rows

\* A fork rolls back what is above the fork point and nothing that is final.
LEMMA RecoveredFacts ==
    ASSUME Assumptions, NEW e, NEW d, NEW missing, Sound(e, d, missing),
           NEW view \in Views, NEW supplied \in SUBSET Block, ~ForkRefused(e, view, supplied)
    PROVE  LET p == RecoveryOf(e, view, supplied)
               g == Recovered(e, view, supplied)
               k == KeptRows(e, d.accepted, view, supplied)
           IN  /\ g \in EngineState /\ g.latest = p /\ p \in Int /\ p <= e.latest
               /\ g.finalized = e.finalized /\ g.durable = e.durable
               /\ g.hasFinalized = e.hasFinalized /\ g.nodesFinalAt = e.nodesFinalAt
               /\ ~g.skewed /\ g.final = e.final
               /\ \A r : r \in k <=> r \in d.accepted /\ r.block <= p
               /\ FinalTop(d) <= p /\ e.durable <= p
               /\ g.final \cup g.unfinal \subseteq k
               /\ HostAttaches /\ ~missing => k \subseteq g.final \cup g.unfinal
               /\ \A r \in g.unfinal : r.block > NodesFinalBlock(e)
               /\ \A b \in Block : b <= p => g.hashes[b] = e.hashes[b]
               /\ Tracks(g, d.hashes)
  <1>. DEFINE p == RecoveryOf(e, view, supplied)
              g == Recovered(e, view, supplied)
              k == KeptRows(e, d.accepted, view, supplied)
  <1>1. e \in EngineState /\ e.latest \in Int /\ e.finalized \in Int /\ e.durable \in Int
    BY EngineFields, ZenonT(30) DEF Sound
  <1>2. /\ ~e.skewed /\ e.final \cup e.unfinal \subseteq d.accepted
        /\ HostAttaches /\ ~missing => d.accepted \subseteq e.final \cup e.unfinal
        /\ \A r \in e.unfinal : r.block > NodesFinalBlock(e)
        /\ \A r \in e.final : r.block <= NodesFinalBlock(e)
    BY Zenon DEF Sound, Nodes
  <1>3. /\ d.finality <= e.finalized /\ d.finality \in Int
        /\ e.durable <= e.finalized /\ e.durable <= e.latest
        /\ NodesFinalBlock(e) \in Int /\ NodesFinalBlock(e) <= e.finalized
        /\ FinalTop(d) \in Int /\ FinalTop(d) <= d.finality /\ FinalTop(d) <= e.latest
        /\ Tracks(e, d.hashes)
        /\ \A r \in d.accepted : r.block <= e.latest /\ r.block \in Int
    BY SoundFields, StoreFields, SMTT(30)
  <1>4. CASE ~Forks(e, view, supplied)
    <2>1. p = e.latest /\ g = e /\ k = d.accepted
      BY <1>4, SMTT(30) DEF RecoveryOf, Recovered, KeptRows
    <2>. HIDE DEF p, g, k
    <2>. QED
      BY <2>1, <1>1, <1>2, <1>3 DEF p, g, k
  <1>5. CASE Forks(e, view, supplied)
    <2>1. p \in Block /\ p \in Int /\ e.finalized <= p /\ p < e.latest
      BY <1>1, <1>5, ForkFacts, EngineFields, Zenon
    <2>2. p <= OrZero(e.latest)
      BY <2>1, <1>1 DEF OrZero, NoBlock
    <2>3. g = Rollback(e, p) /\ k = Upto(d.accepted, p)
      BY <1>5, SMTT(30) DEF Recovered, KeptRows
    <2>. HIDE DEF p
    <2>4. /\ g \in EngineState
          /\ g.latest = p /\ g.unfinal = Upto(e.unfinal, p)
          /\ g.finalized = e.finalized /\ g.durable = e.durable
          /\ g.hasFinalized = e.hasFinalized /\ g.nodesFinalAt = e.nodesFinalAt
          /\ g.final = e.final /\ g.skewed = e.skewed
          /\ \A b \in Block : g.hashes[b] = IF b > p THEN NoHash ELSE e.hashes[b]
          /\ Tracks(g, d.hashes)
      BY <1>1, <1>3, <2>1, <2>2, <2>3, RollbackFacts
    <2>. HIDE DEF g, k
    <2>5. \A r : r \in k <=> r \in d.accepted /\ r.block <= p
      BY <2>3 DEF Upto
    <2>6. \A r : r \in g.unfinal <=> r \in e.unfinal /\ r.block <= p
      BY <2>4 DEF Upto
    <2>7. \A r \in e.final : r.block <= p /\ r \in d.accepted
      BY <1>1, <1>2, <1>3, <2>1, SMTT(30)
    <2>8. g.final \cup g.unfinal \subseteq k
      BY <2>4, <2>5, <2>6, <2>7, <1>2, SMTT(30)
    <2>9. HostAttaches /\ ~missing => k \subseteq g.final \cup g.unfinal
      BY <2>4, <2>5, <2>6, <1>2, SMTT(30)
    <2>10. FinalTop(d) <= p /\ e.durable <= p
      BY <2>1, <1>1, <1>3, SMTT(30)
    <2>11. \A b \in Block : b <= p => g.hashes[b] = e.hashes[b]
      BY <2>1, <2>4, <1>1, EngineFields, SMTT(30)
    <2>12. ~g.skewed /\ \A r \in g.unfinal : r.block > NodesFinalBlock(e)
      BY <2>4, <2>6, <1>2, Zenon
    <2>13. p <= e.latest
      BY <2>1, <1>1, SMTT(30)
    <2>. QED
      BY <2>1, <2>4, <2>5, <2>8, <2>9, <2>10, <2>11, <2>12, <2>13, ZenonT(30) DEF p, g, k
  <1>. QED
    BY <1>4, <1>5, ZenonT(30)

\* With the host attached the kept rows are those of the nodes.
LEMMA RecoveredAttached ==
    ASSUME Assumptions, NEW e, NEW d, NEW missing, Sound(e, d, missing),
           NEW view \in Views, NEW supplied \in SUBSET Block, ~ForkRefused(e, view, supplied),
           NEW g, NEW k, g = Recovered(e, view, supplied),
           k = KeptRows(e, d.accepted, view, supplied),
           HostAttaches, ~missing
    PROVE  k \subseteq g.final \cup g.unfinal
  <1>1. d.accepted \subseteq e.final \cup e.unfinal /\ e \in EngineState
    BY Zenon DEF Sound, Nodes
  <1>2. CASE ~Forks(e, view, supplied)
    <2>1. g = e /\ k = d.accepted
      BY <1>2, Zenon DEF Recovered, KeptRows
    <2>. QED
      BY <2>1, <1>1, Zenon
  <1>3. CASE Forks(e, view, supplied)
    <2>. DEFINE p == RecoveryOf(e, view, supplied)
    <2>. HIDE DEF p
    <2>1. p \in Block /\ p < e.latest /\ p \in Int /\ e.latest \in Int
      BY <1>1, <1>3, ForkFacts, EngineFields, Zenon DEF p
    <2>2. p <= OrZero(e.latest)
      BY <2>1 DEF OrZero, NoBlock
    <2>3. g = Rollback(e, p) /\ k = Upto(d.accepted, p)
      BY <1>3, Zenon DEF Recovered, KeptRows, p
    <2>4. g.final = e.final /\ g.unfinal = Upto(e.unfinal, p)
      BY <2>1, <2>2, <2>3, <1>1, RollbackFacts, SMTT(30)
    <2>5. \A r : r \in k => r \in d.accepted /\ r.block <= p
      BY <2>3 DEF Upto
    <2>6. \A r \in e.unfinal : r.block <= p => r \in g.unfinal
      BY <2>4 DEF Upto
    <2>. QED
      BY <2>4, <2>5, <2>6, <1>1, Zenon
  <1>. QED
    BY <1>2, <1>3, Zenon

\* The engine after the rows, the chain and the finalized head of a call.
Ingested(e, view, supplied, head, rows) ==
    AdvanceFinality(SetRollbackChain(Process(Recovered(e, view, supplied), rows), view, supplied),
                    head)

\* The rows of a call join the kept ones above the point where it resumes, and
\* the rows up to the new head become final.
LEMMA IngestedFacts ==
    ASSUME Assumptions, NEW e, NEW d, NEW missing, Sound(e, d, missing),
           NEW view \in Views, NEW supplied \in SUBSET Block, ~ForkRefused(e, view, supplied),
           NEW head \in supplied, e.finalized <= head,
           NEW blocks \in SUBSET Block, \A b \in blocks : b > RecoveryOf(e, view, supplied)
    PROVE  LET p == RecoveryOf(e, view, supplied)
               rows == Rows(view, blocks)
               q == Process(Recovered(e, view, supplied), rows)
               f == Ingested(e, view, supplied, head, rows)
               n == KeptRows(e, d.accepted, view, supplied) \cup rows
           IN  /\ q \in EngineState /\ f \in EngineState
               /\ q.latest = f.latest /\ q.durable = e.durable /\ f.durable = e.durable
               /\ p <= f.latest
               /\ f.finalized = head /\ f.hasFinalized /\ f.nodesFinalAt = NoBlock /\ ~f.skewed
               /\ rows \in SUBSET Row /\ n \in SUBSET Row /\ \A r \in n : r.block <= f.latest
               /\ f.final \cup f.unfinal \subseteq n
               /\ HostAttaches /\ ~missing => n \subseteq f.final \cup f.unfinal
               /\ \A r \in f.final : r.block <= head
               /\ \A r \in f.unfinal : r.block > head
               /\ \A b \in supplied : b >= head => f.hashes[b] = view[b]
               /\ Tracks(f, d.hashes)
               /\ \A r \in rows : r.block > p /\ r.tag = view[r.block]
  <1>. DEFINE p == RecoveryOf(e, view, supplied)
              rows == Rows(view, blocks)
              k == KeptRows(e, d.accepted, view, supplied)
              g == Recovered(e, view, supplied)
              q == Process(g, rows)
              c == SetRollbackChain(q, view, supplied)
              f == Ingested(e, view, supplied, head, rows)
              n == k \cup rows
  <1>. HIDE DEF p, rows, k, g, q, c, f, n
  <1>1. /\ view \in [Block -> Hash] /\ e \in EngineState /\ head \in Block
        /\ Block \subseteq Int /\ e.finalized \in Int /\ e.durable \in Int
    BY EngineFields, ZenonT(30) DEF Assumptions, InputAssumption, Sound
  <1>2. rows \in SUBSET Row /\ \A r \in rows : r.block > p /\ r.tag = view[r.block]
    <2>1. ASSUME NEW r \in rows PROVE r \in Row /\ r.block > p /\ r.tag = view[r.block]
      <3>1. PICK b \in blocks : r = [block |-> b, tag |-> view[b]]
        BY DEF Rows, rows
      <3>2. view[b] \in Hash
        BY <1>1, SMTT(30)
      <3>. QED
        BY <3>1, <3>2, SMTT(30) DEF Row, p
    <2>. QED
      BY <2>1, Zenon
  <1>3. /\ g \in EngineState /\ g.latest = p /\ p \in Int
        /\ g.finalized = e.finalized /\ g.durable = e.durable
        /\ g.nodesFinalAt = e.nodesFinalAt
        /\ ~g.skewed /\ g.final = e.final
        /\ \A r : r \in k <=> r \in d.accepted /\ r.block <= p
        /\ e.durable <= p
        /\ g.final \cup g.unfinal \subseteq k
        /\ HostAttaches /\ ~missing => k \subseteq g.final \cup g.unfinal
        /\ \A r \in g.unfinal : r.block > NodesFinalBlock(e)
        /\ Tracks(g, d.hashes)
    <2>1. /\ p = RecoveryOf(e, view, supplied) /\ g = Recovered(e, view, supplied)
          /\ k = KeptRows(e, d.accepted, view, supplied)
      BY DEF p, g, k
    <2>2. /\ g \in EngineState /\ g.latest = p /\ p \in Int
          /\ g.finalized = e.finalized /\ g.durable = e.durable
          /\ g.nodesFinalAt = e.nodesFinalAt
          /\ ~g.skewed /\ g.final = e.final
      BY <2>1, RecoveredFacts, ZenonT(30)
    <2>3. \A r : r \in k <=> r \in d.accepted /\ r.block <= p
      BY <2>1, RecoveredFacts, ZenonT(30)
    <2>4. e.durable <= p /\ g.final \cup g.unfinal \subseteq k
      BY <2>1, RecoveredFacts, ZenonT(30)
    <2>5. HostAttaches /\ ~missing => k \subseteq g.final \cup g.unfinal
      <3>. SUFFICES ASSUME HostAttaches, ~missing PROVE k \subseteq g.final \cup g.unfinal
        OBVIOUS
      <3>. QED
        BY <2>1, RecoveredAttached, SMTT(30)
    <2>6. /\ \A r \in g.unfinal : r.block > NodesFinalBlock(e)
          /\ Tracks(g, d.hashes)
      BY <2>1, RecoveredFacts, ZenonT(30)
    <2>. QED
      BY <2>2, <2>3, <2>4, <2>5, <2>6, Zenon
  <1>4. /\ q \in EngineState
        /\ q.unfinal = g.unfinal \cup rows
        /\ p <= q.latest /\ \A r \in rows : r.block <= q.latest
        /\ q.durable = e.durable /\ q.finalized = e.finalized
        /\ q.nodesFinalAt = e.nodesFinalAt
        /\ ~q.skewed /\ q.final = e.final
        /\ q.hashes = g.hashes /\ q.changed = g.changed
    <2>1. \A r \in rows : r.block > g.latest
      BY <1>2, <1>3, Zenon
    <2>2. \A r \in g.final \cup g.unfinal : r.block <= g.latest
      BY <1>3, Zenon
    <2>3. g.durable <= g.latest
      BY <1>3, Zenon
    <2>4. g \in EngineState /\ rows \in SUBSET Row
      BY <1>2, <1>3, Zenon
    <2>5. /\ q \in EngineState
          /\ q.unfinal = g.unfinal \cup rows
          /\ g.latest <= q.latest /\ \A r \in rows : r.block <= q.latest
          /\ q.durable = g.durable /\ q.finalized = g.finalized
          /\ q.nodesFinalAt = g.nodesFinalAt
          /\ q.skewed = g.skewed /\ q.final = g.final
          /\ q.hashes = g.hashes /\ q.changed = g.changed
      BY <2>1, <2>2, <2>3, <2>4, ProcessFacts, Zenon DEF q
    <2>. QED
      BY <2>5, <1>3, Zenon
  <1>5. Tracks(q, d.hashes)
    BY <1>3, <1>4, Zenon DEF Tracks
  <1>6. /\ c \in EngineState /\ SameButHashes(q, c)
        /\ \A b \in Block : c.hashes[b] = IF b \in supplied THEN view[b] ELSE q.hashes[b]
        /\ Tracks(c, d.hashes)
    BY <1>4, <1>5, ChainFacts, SMTT(30) DEF c
  <1>7. /\ c.latest = q.latest /\ c.finalized = e.finalized /\ c.durable = e.durable
        /\ c.nodesFinalAt = e.nodesFinalAt /\ c.final = e.final /\ c.unfinal = g.unfinal \cup rows
        /\ ~c.skewed
    BY <1>4, <1>6, Zenon DEF SameButHashes
  <1>8. /\ e.durable <= e.finalized
        /\ NodesFinalBlock(e) \in Int /\ NodesFinalBlock(e) <= e.finalized
        /\ \A r \in d.accepted : r \in Row /\ r.block \in Int
    BY SoundFields, SMTT(30)
  <1>9. /\ e.nodesFinalAt # NoBlock => e.durable < e.finalized
        /\ \A r \in e.final : r.block <= NodesFinalBlock(e)
    BY SMTT(30) DEF Sound, Nodes
  <1>10. \A r \in e.final : r.block \in Int
    BY <1>3, <1>8, SMTT(30)
  <1>11. \A r \in c.final : r.block <= head
    BY <1>1, <1>7, <1>8, <1>9, <1>10, SMTT(30)
  <1>12. ASSUME c.durable >= head, NEW r \in c.unfinal PROVE r.block > head
    <2>1. e.durable >= head /\ head \in Int
      BY <1>1, <1>7, <1>12, SMTT(30)
    <2>2. e.finalized = head /\ e.nodesFinalAt = NoBlock
      BY <2>1, <1>1, <1>8, <1>9, SMTT(30)
    <2>3. NodesFinalBlock(e) = head
      BY <2>2, SMTT(30) DEF NodesFinalBlock
    <2>4. CASE r \in g.unfinal
      BY <2>3, <2>4, <1>3, SMTT(30)
    <2>5. CASE r \in rows
      <3>1. r.block \in Int /\ r.block > p
        BY <2>5, <1>1, <1>2, Zenon DEF Row
      <3>. QED
        BY <3>1, <2>1, <1>1, <1>3, SMTT(30)
    <2>. QED
      BY <2>4, <2>5, <1>7, <1>12, SMTT(30)
  <1>13. /\ f \in EngineState
         /\ f.latest = c.latest /\ f.durable = c.durable /\ f.skewed = c.skewed
         /\ f.finalized = head /\ f.hasFinalized /\ f.nodesFinalAt = NoBlock
         /\ f.final \cup f.unfinal = c.final \cup c.unfinal
         /\ \A r \in f.final : r.block <= head
         /\ \A r \in f.unfinal : r.block > head
         /\ \A b \in Block : b >= head => f.hashes[b] = c.hashes[b]
         /\ Tracks(f, d.hashes)
    <2>1. f = AdvanceFinality(c, head)
      BY SMTT(30) DEF Ingested, f, c, q, g
    <2>2. c.finalized <= head /\ c.durable <= c.finalized
          /\ (c.nodesFinalAt # NoBlock => c.durable < c.finalized)
      BY <1>7, <1>8, <1>9, SMTT(30)
    <2>3. LET y == AdvanceFinality(c, head)
          IN  /\ y \in EngineState
              /\ y.latest = c.latest /\ y.durable = c.durable
              /\ y.purged = c.purged /\ y.skewed = c.skewed
              /\ y.finalized = head /\ y.hasFinalized /\ y.nodesFinalAt = NoBlock
              /\ y.final \cup y.unfinal = c.final \cup c.unfinal
              /\ \A r \in y.final : r.block <= head
              /\ \A r \in y.unfinal : r.block > head
              /\ \A b \in Block : b >= head => y.hashes[b] = c.hashes[b]
              /\ \A b \in y.changed : b \in c.changed \/ b < head
              /\ \A h : Tracks(c, h) => Tracks(y, h)
      BY <2>2, <1>1, <1>6, <1>11, <1>12, AdvanceFacts, ZenonT(30)
    <2>. QED
      BY <2>1, <2>3, <1>6, Zenon
  <1>14. n \in SUBSET Row
    BY <1>2, <1>3, <1>8, ZenonT(30) DEF n
  <1>15. \A r \in n : r.block <= f.latest
    <2>1. f.latest = q.latest /\ f.latest \in Int
      BY <1>7, <1>13, EngineFields, SMTT(30)
    <2>2. \A r \in k : r.block \in Int /\ r.block <= p
      BY <1>3, <1>8, SMTT(30)
    <2>. QED
      BY <2>1, <2>2, <1>3, <1>4, SMTT(30) DEF n
  <1>16. f.final \cup f.unfinal = g.final \cup g.unfinal \cup rows
    BY <1>3, <1>7, <1>13, SMTT(30)
  <1>17. \A b \in supplied : b >= head => f.hashes[b] = view[b]
    BY <1>6, <1>13, SMTT(30)
  <1>18. /\ f.final \cup f.unfinal \subseteq n
         /\ HostAttaches /\ ~missing => n \subseteq f.final \cup f.unfinal
    BY <1>3, <1>16, SMTT(30) DEF n
  <1>19. /\ q.latest = f.latest /\ q.durable = e.durable /\ f.durable = e.durable
         /\ p <= f.latest /\ ~f.skewed
    BY <1>4, <1>7, <1>13, Zenon
  <1>. QED
    BY <1>2, <1>4, <1>13, <1>14, <1>15, <1>17, <1>18, <1>19, Zenon DEF p, q, f, k, rows, g, n

-----------------------------------------------------------------------------
(* Open, and the replay of an external reducer *)

\* The engine and the store of a new database.
LEMMA EmptyFacts ==
    ASSUME Assumptions
    PROVE  /\ NewEngine \in EngineState /\ NewEngine.nodesFinalAt = NoBlock
           /\ NewEngine.latest = NoBlock /\ NewEngine.durable = NoBlock
           /\ NewEngine.finalized = 0 /\ ~NewEngine.hasFinalized
           /\ NewEngine.final = {} /\ NewEngine.unfinal = {} /\ ~NewEngine.skewed
           /\ NewEngine.changed = {} /\ NewEngine.hashes = [b \in Block |-> NoHash]
           /\ EmptyStore \in Store
           /\ EmptyStore.latest = NoBlock /\ EmptyStore.durable = NoBlock
           /\ EmptyStore.finality = NoBlock /\ EmptyStore.accepted = {}
           /\ EmptyStore.rows = {} /\ EmptyStore.ckpt = {}
           /\ EmptyStore.hashes = [b \in Block |-> NoHash]
  <1>. DEFINE h == [b \in Block |-> NoHash]
  <1>1. h \in [Block -> OptHash] /\ 0 \in Block /\ NoBlock \in OptBlock
    BY SMTT(30) DEF Assumptions, MaxBlockAssumption, Block, OptBlock, OptHash
  <1>. HIDE DEF h
  <1>2. NewEngine = [latest |-> NoBlock, finalized |-> 0, durable |-> NoBlock, hasFinalized |-> FALSE,
                     nodesFinalAt |-> NoBlock, purged |-> NoBlock, hashes |-> h,
                     changed |-> {}, final |-> {}, unfinal |-> {}, skewed |-> FALSE]
    BY SMTT(30) DEF NewEngine, h
  <1>3. EmptyStore = [rows |-> {}, ckpt |-> {}, latest |-> NoBlock, durable |-> NoBlock,
                      finality |-> NoBlock, hashes |-> h, accepted |-> {}]
    BY ZenonT(30) DEF EmptyStore, h
  <1>4. NewEngine \in EngineState /\ EmptyStore \in Store
    BY <1>1, <1>2, <1>3, Zenon DEF EngineState, Store
  <1>. QED
    BY <1>2, <1>3, <1>4, SMTT(30) DEF h

\* Whatever store a crash leaves, the engine that `open` builds from it is
\* sound on top of it.
LEMMA OpenedFacts ==
    ASSUME Assumptions, NEW d, StoreOK(d)
    PROVE  Sound(Opened(d), d, External)
  <1>. DEFINE restored == [NewEngine EXCEPT !.latest = d.latest, !.durable = d.durable,
                                            !.finalized = OrZero(d.durable),
                                            !.hasFinalized = d.durable # NoBlock,
                                            !.hashes = d.hashes, !.final = d.ckpt]
              tail == {r \in d.rows : r.block >= ReplayFrom(d) /\ r.block <= OrZero(d.latest)}
              replayed == IF External THEN restored ELSE Fold(restored, tail)
              g == Opened(d)
  <1>1. /\ d \in Store /\ d.latest \in Int /\ d.durable \in Int /\ d.finality \in Int
        /\ -1 <= d.latest /\ -1 <= d.durable /\ -1 <= d.finality
        /\ d.durable <= d.finality /\ d.durable <= d.latest
        /\ d.ckpt \in SUBSET Row /\ d.accepted \in SUBSET Row /\ d.rows \in SUBSET Row
        /\ \A r \in Row : r.block \in Int /\ r.block >= 0
        /\ \A r \in d.accepted : r.block <= d.latest
        /\ External \in BOOLEAN
    BY StoreFields, Zenon DEF StoreOK, Assumptions, ConfigAssumption
  <1>2. OrZero(d.durable) \in Block
    BY <1>1, SMTT(30) DEF OrZero, Store, OptBlock, Block, Assumptions, MaxBlockAssumption
  <1>3. /\ restored \in EngineState
        /\ restored.latest = d.latest /\ restored.durable = d.durable
        /\ restored.finalized = OrZero(d.durable)
        /\ restored.hasFinalized = (d.durable # NoBlock)
        /\ restored.nodesFinalAt = NoBlock /\ restored.hashes = d.hashes
        /\ restored.changed = {} /\ restored.final = d.ckpt /\ restored.unfinal = {}
        /\ ~restored.skewed
    <2>. DEFINE known == d.durable # NoBlock
                zero == OrZero(d.durable)
                x == [NewEngine EXCEPT !.latest = d.latest, !.durable = d.durable,
                                       !.finalized = zero, !.hasFinalized = known,
                                       !.hashes = d.hashes, !.final = d.ckpt]
    <2>1. /\ NewEngine \in EngineState /\ NewEngine.nodesFinalAt = NoBlock
          /\ NewEngine.changed = {} /\ NewEngine.unfinal = {} /\ ~NewEngine.skewed
      BY EmptyFacts
    <2>2. /\ known \in BOOLEAN /\ zero \in Block /\ d.latest \in OptBlock /\ d.durable \in OptBlock
          /\ d.hashes \in [Block -> OptHash] /\ d.ckpt \in SUBSET Row
      BY <1>1, <1>2 DEF Store
    <2>. HIDE DEF known, zero
    <2>3. x \in EngineState
      BY <2>1, <2>2, ZenonT(30) DEF EngineState
    <2>4. /\ x.latest = d.latest /\ x.durable = d.durable /\ x.finalized = zero
          /\ x.hasFinalized = known /\ x.nodesFinalAt = NoBlock /\ x.hashes = d.hashes
          /\ x.changed = {} /\ x.final = d.ckpt /\ x.unfinal = {} /\ ~x.skewed
      BY <2>1, <2>2 DEF EngineState
    <2>5. x = restored
      BY Zenon DEF known, zero
    <2>. HIDE DEF x, restored
    <2>. QED
      BY <2>3, <2>4, <2>5, SMTT(30) DEF known, zero
  <1>. HIDE DEF restored
  <1>5. \A r : r \in tail <=> r \in d.accepted /\ r.block > d.durable
    <2>1. \A r \in Row : r.block > d.durable => (r \in d.rows <=> r \in d.accepted)
      BY DEF StoreOK, Above
    <2>2. \A r \in d.accepted : r.block <= OrZero(d.latest)
      BY <1>1, SMTT(30) DEF OrZero, NoBlock
    <2>3. \A r \in Row : r.block >= ReplayFrom(d) <=> r.block > d.durable
      BY <1>1, SMTT(30) DEF ReplayFrom
    <2>. QED
      BY <2>1, <2>2, <2>3, <1>1, SMTT(30)
  <1>. HIDE DEF tail
  <1>6. /\ \A r \in d.ckpt : r \in d.accepted /\ r.block <= d.durable
        /\ HostAttaches => \A r \in d.accepted : r.block <= d.durable => r \in d.ckpt
    BY SMTT(30) DEF StoreOK, Upto
  <1>7. /\ replayed \in EngineState
        /\ replayed.latest = d.latest /\ replayed.durable = d.durable
        /\ replayed.finalized = OrZero(d.durable) /\ replayed.hasFinalized = (d.durable # NoBlock)
        /\ replayed.nodesFinalAt = NoBlock /\ replayed.hashes = d.hashes
        /\ replayed.changed = {} /\ replayed.final = d.ckpt /\ ~replayed.skewed
        /\ replayed.unfinal = IF External THEN {} ELSE tail
    <2>1. CASE External
      BY <2>1, <1>3, ZenonT(30)
    <2>2. CASE ~External
      <3>1. tail \in SUBSET Row /\ \A r \in tail, q \in restored.final \cup restored.unfinal : q.block < r.block
        BY <1>1, <1>3, <1>5, <1>6, SMTT(30)
      <3>2. replayed = Fold(restored, tail)
        BY <2>2
      <3>. HIDE DEF replayed
      <3>3. LET y == Fold(restored, tail)
            IN  /\ y \in EngineState
                /\ y.unfinal = restored.unfinal \cup tail
                /\ y.latest = restored.latest /\ y.durable = restored.durable
                /\ y.finalized = restored.finalized
                /\ y.hasFinalized = restored.hasFinalized /\ y.nodesFinalAt = restored.nodesFinalAt
                /\ y.final = restored.final /\ y.skewed = restored.skewed
                /\ y.hashes = restored.hashes /\ y.changed = restored.changed
        BY <3>1, <1>3, FoldFacts, ZenonT(30)
      <3>. QED
        BY <2>2, <3>2, <3>3, <1>3, Zenon
    <2>. QED
      BY <2>1, <2>2, <1>1, ZenonT(30)
  <1>8. g = IF d.finality = NoBlock THEN replayed ELSE RestoreFinality(replayed, d.finality)
    BY DEF Opened, replayed, tail, restored
  <1>. HIDE DEF replayed, g
  <1>9. CASE d.finality = NoBlock
    <2>1. d.durable = -1 /\ d.finality = NoBlock /\ g = replayed
      BY <1>1, <1>8, <1>9, SMTT(30) DEF NoBlock
    <2>2. d.accepted = {}
      BY <2>1, SMTT(30) DEF StoreOK, NoBlock
    <2>3. g.final = {} /\ g.unfinal = {}
      BY <2>1, <2>2, <1>5, <1>6, <1>7, SMTT(30)
    <2>4. Mirrors(g, d)
      BY <2>1, <1>7, <1>9, Zenon DEF Mirrors, OrZero, NoBlock
    <2>5. Nodes(g, d.accepted, External)
      BY <2>1, <2>2, <2>3, <1>7, Zenon DEF Nodes, Upto
    <2>. QED
      BY <2>1, <2>4, <2>5, <1>7, Zenon DEF Sound, g
  <1>10. CASE d.finality # NoBlock
    <2>. DEFINE b == d.finality
                skipped == /\ d.durable # NoBlock /\ d.latest # NoBlock
                           /\ d.durable < Min({d.latest, b})
    <2>1. b \in Block /\ b >= 0 /\ g = RestoreFinality(replayed, b)
      BY <1>1, <1>8, <1>10, SMTT(30) DEF Store, OptBlock, NoBlock
    <2>2. Tracks(replayed, d.hashes)
      BY <1>7, SMTT(30) DEF Tracks
    <2>3. Min({d.latest, b}) = IF d.latest <= b THEN d.latest ELSE b
      BY <1>1, PairBounds, SMTT(30)
    <2>4. CASE skipped /\ External
      <3>. DEFINE m == [replayed EXCEPT !.nodesFinalAt = d.durable, !.finalized = b]
      <3>1. g = PruneBlockHashes(m)
        BY <2>1, <2>4, <1>7 DEF RestoreFinality
      <3>2. /\ m \in EngineState
            /\ m.latest = d.latest /\ m.durable = d.durable /\ m.finalized = b /\ m.hasFinalized
            /\ m.nodesFinalAt = d.durable /\ m.hashes = d.hashes /\ m.changed = {}
            /\ m.final = d.ckpt /\ m.unfinal = {} /\ ~m.skewed
        <4>1. d.durable \in OptBlock
          BY <1>1 DEF Store
        <4>2. m \in EngineState
          BY <4>1, <2>1, <1>7, ZenonT(30) DEF EngineState
        <4>. QED
          BY <4>2, <2>4, <1>7, SMTT(30) DEF EngineState
      <3>. HIDE DEF m
      <3>3. Tracks(m, d.hashes)
        BY <3>2 DEF Tracks
      <3>4. /\ g \in EngineState /\ SameButHashes(m, g)
            /\ \A i \in g.changed : i \in m.changed \/ i < m.finalized
            /\ Tracks(g, d.hashes)
        BY <3>1, <3>2, <3>3, PruneFacts, SMTT(30)
      <3>5. /\ g.latest = d.latest /\ g.durable = d.durable /\ g.finalized = b /\ g.hasFinalized
            /\ g.nodesFinalAt = d.durable /\ g.final = d.ckpt /\ g.unfinal = {} /\ ~g.skewed
        BY <3>2, <3>4, SMTT(30) DEF SameButHashes
      <3>6. Mirrors(g, d)
        BY <3>2, <3>4, <3>5, SMTT(30) DEF Mirrors, Tracks
      <3>7. NodesFinalBlock(g) = d.durable /\ d.durable < b
        BY <2>3, <2>4, <3>5, <1>1, SMTT(30) DEF NodesFinalBlock
      <3>8. \A r \in d.accepted : r.block <= d.durable \/ r.block > d.durable
        BY <1>1, SMTT(30)
      <3>9. HostAttaches => g.final = Upto(d.accepted, d.durable)
        BY <3>5, SMTT(30) DEF StoreOK
      <3>10. Nodes(g, d.accepted, External)
        BY <2>4, <3>5, <3>7, <3>8, <3>9, <1>6, SMTT(30) DEF Nodes
      <3>. QED
        BY <3>4, <3>6, <3>10, SMTT(30) DEF Sound, g
    <2>5. CASE ~(skipped /\ External)
      <3>1. g = AdvanceFinality(replayed, b)
        BY <2>1, <2>5, <1>7, SMTT(30) DEF RestoreFinality
      <3>2. /\ replayed.finalized <= b /\ replayed.durable <= replayed.finalized
            /\ replayed.nodesFinalAt # NoBlock => replayed.durable < replayed.finalized
            /\ \A r \in replayed.final : r.block <= b
            /\ replayed.durable >= b => \A r \in replayed.unfinal : r.block > b
        BY <2>1, <1>1, <1>5, <1>6, <1>7, SMTT(30) DEF OrZero, NoBlock
      <3>3. LET y == AdvanceFinality(replayed, b)
            IN  /\ y \in EngineState
                /\ y.latest = replayed.latest /\ y.durable = replayed.durable
                /\ y.purged = replayed.purged /\ y.skewed = replayed.skewed
                /\ y.finalized = b /\ y.hasFinalized /\ y.nodesFinalAt = NoBlock
                /\ y.final \cup y.unfinal = replayed.final \cup replayed.unfinal
                /\ \A r \in y.final : r.block <= b
                /\ \A r \in y.unfinal : r.block > b
                /\ \A c \in Block : c >= b => y.hashes[c] = replayed.hashes[c]
                /\ \A c \in y.changed : c \in replayed.changed \/ c < b
                /\ \A h : Tracks(replayed, h) => Tracks(y, h)
        BY <2>1, <3>2, <1>7, AdvanceFacts, ZenonT(30)
      <3>4. /\ g \in EngineState
            /\ g.latest = d.latest /\ g.durable = d.durable /\ ~g.skewed
            /\ g.finalized = b /\ g.hasFinalized /\ g.nodesFinalAt = NoBlock
            /\ g.final \cup g.unfinal = d.ckpt \cup replayed.unfinal
            /\ \A r \in g.final : r.block <= b
            /\ \A r \in g.unfinal : r.block > b
            /\ \A c \in g.changed : c < b
            /\ Tracks(g, d.hashes)
        BY <3>1, <3>3, <2>2, <1>7, ZenonT(30)
      <3>5. Mirrors(g, d)
        BY <3>4, <1>10, Zenon DEF Mirrors, Tracks
      <3>6. NodesFinalBlock(g) = b
        BY <3>4, SMTT(30) DEF NodesFinalBlock
      <3>7. g.final \cup g.unfinal \subseteq d.accepted
        BY <3>4, <1>5, <1>6, <1>7, SMTT(30)
      <3>8. HostAttaches /\ ~External => d.accepted \subseteq g.final \cup g.unfinal
        BY <3>4, <1>1, <1>5, <1>6, <1>7, SMTT(30)
      <3>9. ASSUME External PROVE g.unfinal = {} /\ g.final = d.ckpt
        <4>1. g.final \cup g.unfinal = d.ckpt
          BY <3>4, <3>9, <1>7, ZenonT(30)
        <4>2. \A r \in d.ckpt : r.block <= b
          BY <1>1, <1>6, SMTT(30)
        <4>3. g.unfinal = {}
          BY <4>1, <4>2, <3>4, <1>1, SMTT(30)
        <4>. QED
          BY <4>1, <4>3
      <3>10. ASSUME External, NEW r \in d.accepted PROVE r.block <= d.durable \/ r.block > b
        <4>1. d.durable # NoBlock
          BY <3>10, SMTT(30) DEF StoreOK
        <4>2. d.latest # NoBlock
          BY <3>10, <1>1, SMTT(30) DEF NoBlock
        <4>3. d.durable >= Min({d.latest, b})
          BY <4>1, <4>2, <3>10, <2>3, <2>5, <1>1, SMTT(30)
        <4>4. r.block <= d.latest /\ r.block \in Int
          BY <1>1, SMTT(30)
        <4>. QED
          BY <4>3, <4>4, <2>3, <1>1, SMTT(30)
      <3>11. HostAttaches /\ External => g.final = Upto(d.accepted, d.durable)
        BY <3>9, SMTT(30) DEF StoreOK
      <3>12. Nodes(g, d.accepted, External)
        BY <3>4, <3>6, <3>7, <3>8, <3>9, <3>10, <3>11, Zenon DEF Nodes
      <3>. QED
        BY <3>4, <3>5, <3>12, Zenon DEF Sound, g
    <2>. QED
      BY <2>4, <2>5, SMTT(30)
  <1>. QED
    BY <1>9, <1>10, SMTT(30) DEF g

\* The replay at the attach of the callback folds each stored row above the
\* final state once.
LEMMA ReplayFacts ==
    ASSUME Assumptions, NEW e, NEW d, Sound(e, d, TRUE)
    PROVE  Sound(ReplayChain(e, d), d, FALSE)
  <1>. DEFINE nf == NodesFinalBlock(e)
              tail == {r \in d.rows : r.block > nf /\ r.block <= OrZero(e.latest)}
              g == ReplayChain(e, d)
  <1>1. /\ e \in EngineState /\ d \in Store /\ StoreOK(d) /\ Mirrors(e, d) /\ Nodes(e, d.accepted, TRUE)
        /\ e.latest \in Int /\ e.durable \in Int /\ -1 <= e.latest
        /\ e.final \in SUBSET Row /\ e.unfinal \in SUBSET Row
        /\ \A r \in Row : r.block \in Int /\ r.block >= 0
    BY EngineFields, StoreFields, ZenonT(30) DEF Sound, StoreOK
  <1>2. /\ d.durable = e.durable /\ nf \in Int /\ e.durable <= nf
        /\ d.rows \in SUBSET Row
        /\ \A r \in d.accepted : r.block <= e.latest /\ r \in Row
    BY <1>1, SoundFields, StoreFields, ZenonT(30)
  <1>3. \A r : r \in tail <=> r \in d.accepted /\ r.block > nf
    <2>1. \A r \in Row : r.block > nf => (r \in d.rows <=> r \in d.accepted)
      BY <1>1, <1>2, SMTT(30) DEF StoreOK, Above
    <2>2. \A r \in d.accepted : r.block <= OrZero(e.latest)
      BY <1>1, <1>2, SMTT(30) DEF OrZero, NoBlock
    <2>. QED
      BY <2>1, <2>2, <1>1, <1>2, ZenonT(30)
  <1>4. /\ \A r \in e.final : r.block <= nf
        /\ \A r \in e.unfinal : r.block > nf
        /\ e.final \cup e.unfinal \subseteq d.accepted
        /\ HostAttaches => \A r \in d.accepted : r.block <= e.durable => r \in e.final
        /\ HostAttaches => \A r \in d.accepted : r.block <= e.durable \/ r.block > nf
    BY <1>1, ZenonT(30) DEF Nodes, Upto
  <1>. HIDE DEF tail, nf
  <1>5. CASE OrZero(e.latest) <= nf
    <2>1. g = e
      BY <1>5, SMTT(30) DEF ReplayChain, nf
    <2>2. \A r \in d.accepted : ~(r.block > nf)
      BY <1>1, <1>2, <1>5, SMTT(30) DEF OrZero, NoBlock
    <2>3. HostAttaches => d.accepted \subseteq e.final \cup e.unfinal
      BY <2>2, <1>4, SMTT(30)
    <2>4. Nodes(e, d.accepted, FALSE)
      BY <2>3, <1>1, ZenonT(30) DEF Nodes
    <2>. QED
      BY <2>1, <2>4, <1>1, Zenon DEF Sound
  <1>6. CASE ~(OrZero(e.latest) <= nf)
    <2>. DEFINE c == [e EXCEPT !.unfinal = Upto(e.unfinal, nf)]
    <2>1. g = Fold(c, tail)
      BY <1>1, <1>6, SMTT(30) DEF ReplayChain, nf, tail, EngineState
    <2>2. Upto(e.unfinal, nf) = {}
      BY <1>1, <1>2, <1>4, SMTT(30) DEF Upto
    <2>3. /\ c \in EngineState /\ c.unfinal = {}
          /\ c.latest = e.latest /\ c.durable = e.durable /\ c.finalized = e.finalized
          /\ c.hasFinalized = e.hasFinalized /\ c.nodesFinalAt = e.nodesFinalAt
          /\ c.final = e.final /\ c.skewed = e.skewed
          /\ c.hashes = e.hashes /\ c.changed = e.changed
      BY <2>2, <1>1, SMTT(30) DEF EngineState
    <2>. HIDE DEF c
    <2>4. tail \in SUBSET Row /\ \A r \in tail, q \in c.final \cup c.unfinal : q.block < r.block
      BY <2>3, <1>1, <1>2, <1>3, <1>4, SMTT(30)
    <2>5. LET y == Fold(c, tail)
          IN  /\ y \in EngineState
              /\ y.unfinal = c.unfinal \cup tail
              /\ y.latest = c.latest /\ y.durable = c.durable
              /\ y.finalized = c.finalized
              /\ y.hasFinalized = c.hasFinalized /\ y.nodesFinalAt = c.nodesFinalAt
              /\ y.final = c.final /\ y.skewed = c.skewed
              /\ y.hashes = c.hashes /\ y.changed = c.changed
      BY <2>3, <2>4, FoldFacts, ZenonT(30)
    <2>6. /\ g \in EngineState /\ g.unfinal = tail
          /\ g.latest = e.latest /\ g.durable = e.durable /\ g.finalized = e.finalized
          /\ g.hasFinalized = e.hasFinalized /\ g.nodesFinalAt = e.nodesFinalAt
          /\ g.final = e.final /\ g.skewed = e.skewed
          /\ g.hashes = e.hashes /\ g.changed = e.changed
      BY <2>1, <2>3, <2>5, Zenon
    <2>. HIDE DEF g
    <2>7. Mirrors(g, d)
      BY <2>6, <1>1, ZenonT(30) DEF Mirrors
    <2>8. NodesFinalBlock(g) = nf
      BY <2>6, SMTT(30) DEF NodesFinalBlock, nf
    <2>9. Nodes(g, d.accepted, FALSE)
      BY <2>6, <2>8, <1>1, <1>3, <1>4, ZenonT(30) DEF Nodes
    <2>. QED
      BY <2>6, <2>7, <2>9, <1>1, Zenon DEF Sound, g
  <1>. QED
    BY <1>5, <1>6, Zenon

-----------------------------------------------------------------------------
(* The undo of a failed ingest *)

\* Two engines with the same fields are the same.
LEMMA EngineEqual ==
    ASSUME NEW e \in EngineState, NEW g \in EngineState,
           SameButHashes(e, g), g.hashes = e.hashes, g.changed = e.changed
    PROVE  g = e
  BY SMTT(30) DEF EngineState, SameButHashes

\* undo_ingest takes back all that a failed ingest had folded, also the block
\* that it had folded in part, and moves the latest block back.
LEMMA FailedFacts ==
    ASSUME Assumptions, NEW e \in EngineState, NEW rows \in SUBSET Row, rows # {},
           \A r \in rows : r.block > e.latest,
           \A q \in e.final \cup e.unfinal : q.block <= e.latest,
           e.durable <= e.latest,
           e.latest = NoBlock => disk.ckpt = e.final
    PROVE  Failed(e, rows, e.latest) = e
  <1>. DEFINE blocks == {r.block : r \in rows}
              last == Max(blocks)
              low == Upto(rows, last - 1)
              high == Above(rows, last - 1)
              p == Process(e, low)
              f == Fold(p, high)
              g == UndoIngest(f, e.latest)
  <1>1. /\ MaxBlock \in Nat /\ Block \subseteq Int /\ e.latest \in Int /\ -1 <= e.latest
        /\ \A r \in Row : r.block \in Block /\ r.block \in Int /\ r.block >= 0
        /\ e.final \in SUBSET Row /\ e.unfinal \in SUBSET Row
    BY EngineFields, SMTT(30) DEF Row, Block
  <1>2. last \in Int
    <2>1. blocks \in SUBSET Block /\ blocks # {}
      BY <1>1
    <2>. HIDE DEF blocks
    <2>. QED
      BY <2>1, <1>1, BlockBounds, Zenon
  <1>3. Failed(e, rows, e.latest) = g
    BY Zenon DEF Failed
  <1>. HIDE DEF last
  <1>4. /\ low \in SUBSET Row /\ high \in SUBSET Row
        /\ \A r : r \in low <=> r \in rows /\ r.block <= last - 1
        /\ \A r : r \in high <=> r \in rows /\ r.block > last - 1
    BY SMTT(30) DEF Upto, Above
  <1>. HIDE DEF low, high
  <1>5. /\ p \in EngineState
        /\ p.unfinal = e.unfinal \cup low
        /\ e.latest <= p.latest /\ p.latest \in Int
        /\ p.durable = e.durable /\ p.finalized = e.finalized
        /\ p.hasFinalized = e.hasFinalized /\ p.nodesFinalAt = e.nodesFinalAt
        /\ p.purged = e.purged /\ p.final = e.final /\ p.skewed = e.skewed
        /\ p.hashes = e.hashes /\ p.changed = e.changed
    <2>1. \A r \in low : r.block > e.latest
      BY <1>4, SMTT(30)
    <2>2. LET y == Process(e, low)
          IN  /\ y \in EngineState
              /\ y.unfinal = e.unfinal \cup low
              /\ e.latest <= y.latest
              /\ y.durable = e.durable /\ y.finalized = e.finalized
              /\ y.hasFinalized = e.hasFinalized /\ y.nodesFinalAt = e.nodesFinalAt
              /\ y.purged = e.purged /\ y.final = e.final /\ y.skewed = e.skewed
              /\ y.hashes = e.hashes /\ y.changed = e.changed
      BY <2>1, <1>4, ProcessFacts, ZenonT(30)
    <2>. QED
      BY <2>2, EngineFields, Zenon
  <1>. HIDE DEF p
  <1>6. \A r \in high, q \in p.final \cup p.unfinal : q.block < r.block
    <2>1. ASSUME NEW r \in high, NEW q \in e.final \cup e.unfinal PROVE q.block < r.block
      BY <1>1, <1>4, SMTT(30)
    <2>2. ASSUME NEW r \in high, NEW q \in low PROVE q.block < r.block
      BY <1>1, <1>2, <1>4, SMTT(30)
    <2>. QED
      BY <2>1, <2>2, <1>5, SMTT(30)
  <1>7. /\ f \in EngineState
        /\ f.unfinal = e.unfinal \cup low \cup high
        /\ f.latest = p.latest
        /\ f.durable = e.durable /\ f.finalized = e.finalized
        /\ f.hasFinalized = e.hasFinalized /\ f.nodesFinalAt = e.nodesFinalAt
        /\ f.purged = e.purged /\ f.final = e.final /\ f.skewed = e.skewed
        /\ f.hashes = e.hashes /\ f.changed = e.changed
    <2>1. LET y == Fold(p, high)
          IN  /\ y \in EngineState
              /\ y.unfinal = p.unfinal \cup high
              /\ y.latest = p.latest /\ y.durable = p.durable /\ y.finalized = p.finalized
              /\ y.hasFinalized = p.hasFinalized /\ y.nodesFinalAt = p.nodesFinalAt
              /\ y.purged = p.purged /\ y.final = p.final /\ y.skewed = p.skewed
              /\ y.hashes = p.hashes /\ y.changed = p.changed
      BY <1>4, <1>5, <1>6, FoldFacts, SMTT(30)
    <2>. QED
      BY <2>1, <1>5, Zenon
  <1>. HIDE DEF f
  <1>8. CASE e.latest = NoBlock
    <2>1. g = [f EXCEPT !.final = disk.ckpt, !.unfinal = {}, !.latest = NoBlock]
      BY <1>8, SMTT(30) DEF UndoIngest
    <2>2. e.unfinal = {} /\ disk.ckpt = e.final
      BY <1>1, <1>8 DEF NoBlock
    <2>3. g = [f EXCEPT !.final = e.final, !.unfinal = e.unfinal, !.latest = e.latest]
      BY <2>1, <2>2, <1>8, SMTT(30)
    <2>4. e.latest \in OptBlock
      BY DEF EngineState
    <2>. HIDE DEF g
    <2>5. /\ g \in EngineState /\ SameButHashes(e, g) /\ g.hashes = e.hashes /\ g.changed = e.changed
      BY <2>3, <2>4, <1>1, <1>7, ZenonT(30) DEF EngineState, SameButHashes
    <2>. QED
      BY <2>5, <1>3, EngineEqual, Zenon
  <1>9. CASE e.latest # NoBlock
    <2>1. ~(e.latest > OrZero(f.latest))
      BY <1>1, <1>5, <1>7, <1>9, SMTT(30) DEF OrZero, NoBlock
    <2>2. g = [f EXCEPT !.unfinal = Upto(f.unfinal, e.latest), !.latest = e.latest]
      BY <2>1, <1>9, <1>7, SMTT(30) DEF UndoIngest, EngineState
    <2>3. Upto(f.unfinal, e.latest) = e.unfinal
      <3>1. \A r \in e.unfinal : r.block <= e.latest
        BY SMTT(30)
      <3>2. \A r \in low \cup high : ~(r.block <= e.latest)
        BY <1>1, <1>4
      <3>. QED
        BY <3>1, <3>2, <1>7, SMTT(30) DEF Upto
    <2>4. e.latest \in OptBlock
      BY DEF EngineState
    <2>5. /\ g \in EngineState /\ SameButHashes(e, g) /\ g.hashes = e.hashes /\ g.changed = e.changed
      BY <2>2, <2>3, <2>4, <1>1, <1>7, ZenonT(30) DEF EngineState, SameButHashes
    <2>. HIDE DEF g
    <2>. QED
      BY <2>5, <1>3, EngineEqual
  <1>. QED
    BY <1>8, <1>9, ZenonT(30)
=============================================================================
