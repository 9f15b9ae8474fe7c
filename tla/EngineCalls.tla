---------------------------- MODULE EngineCalls ----------------------------
(***************************************************************************)
(* What an accepted call and a fork do to the engine and to the store, for *)
(* every chain and every configuration: the two lemmas of EngineProofs on  *)
(* the handlers that write.                                                *)
(***************************************************************************)
EXTENDS EngineOperations


\* Two stores with the same rows up to block x.
LEMMA UptoSame ==
    ASSUME NEW a \in SUBSET Row, NEW b \in SUBSET Row, NEW x,
           \A r \in Row : r.block <= x => (r \in a <=> r \in b)
    PROVE  Upto(a, x) = Upto(b, x)
  BY SMTT(30) DEF Upto

\* A call that the engine accepts leaves it sound on top of the store that
\* its write set makes: the checkpoint, the raw rows, the purge, the metadata
\* and the hashes fit together again, and nothing final is lost.
LEMMA AcceptFacts ==
    ASSUME Assumptions, NEW e, NEW d, NEW missing, Sound(e, d, missing),
           NEW view \in Views, NEW supplied \in SUBSET Block, ~ForkRefused(e, view, supplied),
           NEW head \in supplied, e.finalized <= head,
           NEW blocks \in SUBSET Block, \A b \in blocks : b > RecoveryOf(e, view, supplied),
           HostAttaches => ~missing, CompleteChains => head .. MaxBlock \subseteq supplied
    PROVE  LET forks == Forks(e, view, supplied)
               p == RecoveryOf(e, view, supplied)
               rows == Rows(view, blocks)
               n == KeptRows(e, d.accepted, view, supplied) \cup rows
               q == Process(Recovered(e, view, supplied), rows)
               f == Ingested(e, view, supplied, head, rows)
               checkpoint == CheckpointDue(q, head) /\ f.durable < f.finalized
               done == IF checkpoint THEN WriteCheckpoint(f) ELSE f
               w == WithMeta([after |-> IF forks THEN p ELSE NoBlock, rows |-> rows,
                              ckpt  |-> IF checkpoint THEN {f.final} ELSE {},
                              purge |-> IF checkpoint THEN Purged(f) ELSE {}], done, n)
               s == Commit(d, w)
           IN  /\ w \in Write /\ s.accepted = n /\ Later(d, s)
               /\ Sound([done EXCEPT !.changed = {}], s, missing)
  <1>. DEFINE forks == Forks(e, view, supplied)
              p == RecoveryOf(e, view, supplied)
              rows == Rows(view, blocks)
              k == KeptRows(e, d.accepted, view, supplied)
              n == k \cup rows
              q == Process(Recovered(e, view, supplied), rows)
              f == Ingested(e, view, supplied, head, rows)
              checkpoint == CheckpointDue(q, head) /\ f.durable < f.finalized
              done == IF checkpoint THEN WriteCheckpoint(f) ELSE f
              after == IF forks THEN p ELSE NoBlock
              ckpt == IF checkpoint THEN {f.final} ELSE {}
              purge == IF checkpoint THEN Purged(f) ELSE {}
              w == WithMeta([after |-> after, rows |-> rows, ckpt |-> ckpt, purge |-> purge], done, n)
              s == Commit(d, w)
              g == [done EXCEPT !.changed = {}]
  <1>. HIDE DEF forks, p, rows, k, n, q, f, checkpoint, done, after, ckpt, purge, w, s, g
  <1>1. /\ head \in Block /\ head \in Int /\ Block \subseteq Int /\ MaxBlock \in Nat
        /\ view \in [Block -> Hash] /\ NoHash \notin Hash /\ Interval \in Nat
        /\ \A v \in Views, b \in Block : view[b] = v[b] => \A c \in 0 .. b : view[c] = v[c]
        /\ \A r \in Row : r.block \in Block /\ r.block \in Int /\ r.block >= 0 /\ r.tag \in Hash
    <2>1. MaxBlock \in Nat /\ Interval \in Nat /\ NoHash \notin Hash
      BY DEF Assumptions, MaxBlockAssumption, HashAssumption, ConfigAssumption
    <2>2. /\ view \in [Block -> Hash]
          /\ \A v \in Views, b \in Block : view[b] = v[b] => \A c \in 0 .. b : view[c] = v[c]
      BY DEF Assumptions, InputAssumption
    <2>. QED
      BY <2>1, <2>2 DEF Block, Row
  <1>2. /\ e \in EngineState /\ d \in Store /\ StoreOK(d) /\ Mirrors(e, d) /\ Nodes(e, d.accepted, missing)
        /\ e.finalized \in Int /\ e.latest \in Int /\ e.durable \in Int /\ -1 <= e.durable
        /\ -1 <= e.latest
    BY EngineFields, ZenonT(30) DEF Sound, StoreOK
  <1>3. /\ d.latest = e.latest /\ d.durable = e.durable
        /\ d.finality <= e.finalized /\ d.finality \in Int
        /\ e.durable <= e.finalized /\ e.durable <= e.latest
        /\ FinalTop(d) \in Int /\ FinalTop(d) <= d.finality
        /\ \A r \in d.accepted : r \in Row
    BY <1>2, SoundFields, StoreFields, ZenonT(30)
  <1>4. /\ p \in Int /\ p <= e.latest
        /\ \A r : r \in k <=> r \in d.accepted /\ r.block <= p
        /\ FinalTop(d) <= p /\ e.durable <= p
    BY RecoveredFacts, ZenonT(30) DEF p, k
  <1>5. /\ forks => p \in Block
        /\ ~forks => p = e.latest
        /\ \A b \in supplied : 0 < b /\ b <= p => e.hashes[b] \in {NoHash, view[b]}
    BY <1>2, ForkFacts, ZenonT(30) DEF p, forks
  <1>6. /\ q \in EngineState /\ f \in EngineState
        /\ q.latest = f.latest /\ q.durable = e.durable /\ f.durable = e.durable
        /\ p <= f.latest
        /\ f.finalized = head /\ f.hasFinalized /\ f.nodesFinalAt = NoBlock /\ ~f.skewed
        /\ rows \in SUBSET Row /\ n \in SUBSET Row /\ \A r \in n : r.block <= f.latest
        /\ f.final \cup f.unfinal \subseteq n
        /\ HostAttaches /\ ~missing => n \subseteq f.final \cup f.unfinal
        /\ \A r \in f.final : r.block <= head
        /\ \A r \in f.unfinal : r.block > head
        /\ \A b \in supplied : b >= head => f.hashes[b] = view[b]
        /\ Tracks(f, d.hashes)
        /\ \A r \in rows : r.block > p /\ r.tag = view[r.block]
    BY IngestedFacts, SMTT(30) DEF p, rows, k, n, q, f
  <1>7. ASSUME ~forks PROVE \A r : r \in d.accepted => r \in k
    BY <1>7, Zenon DEF KeptRows, k, forks
  <1>8. /\ f.latest \in Int /\ -1 <= f.latest
    BY <1>6, EngineFields, ZenonT(30)
  <1>9. \A r \in Row : r.block <= p => (r \in n <=> r \in d.accepted)
    BY <1>1, <1>3, <1>4, <1>6, SMTT(30) DEF n
  <1>10. /\ done \in EngineState /\ SameNodes(f, done) /\ Tracks(done, d.hashes)
         /\ \A b \in supplied : b >= head => done.hashes[b] = view[b]
         /\ checkpoint /\ f.latest # NoBlock =>
                done.durable = IF head <= f.latest THEN head ELSE f.latest
         /\ ~(checkpoint /\ f.latest # NoBlock) => done.durable = e.durable
         /\ checkpoint => Purged(f) \in SUBSET Block /\ \A b \in Purged(f) : b <= done.durable
    <2>1. CASE checkpoint
      <3>1. done = WriteCheckpoint(f)
        BY <2>1, SMTT(30) DEF done
      <3>2. LET y == WriteCheckpoint(f)
            IN  /\ y \in EngineState /\ SameNodes(f, y)
                /\ f.latest = NoBlock => y.durable = f.durable
                /\ f.latest # NoBlock =>
                    y.durable = IF f.finalized <= f.latest THEN f.finalized ELSE f.latest
                /\ Purged(f) \in SUBSET Block /\ \A b \in Purged(f) : b <= y.durable
                /\ \A b \in Block : b >= f.finalized => y.hashes[b] = f.hashes[b]
                /\ \A b \in y.changed : b \in f.changed \/ b < f.finalized
                /\ \A h : Tracks(f, h) => Tracks(y, h)
        BY <1>6, CheckpointFacts, ZenonT(30)
      <3>. QED
        BY <2>1, <3>1, <3>2, <1>6, Zenon
    <2>2. CASE ~checkpoint
      <3>1. done = f
        BY <2>2, SMTT(30) DEF done
      <3>. QED
        BY <2>2, <3>1, <1>6, SMTT(30) DEF SameNodes
    <2>. QED
      BY <2>1, <2>2, Zenon
  <1>11. /\ done.latest = f.latest /\ done.finalized = head /\ done.hasFinalized
         /\ done.nodesFinalAt = NoBlock /\ done.final = f.final /\ done.unfinal = f.unfinal
         /\ ~done.skewed
    BY <1>6, <1>10, ZenonT(30) DEF SameNodes
  <1>12. /\ done.durable \in Int /\ e.durable <= done.durable
         /\ done.durable <= head /\ done.durable <= f.latest
    <2>1. e.durable <= head /\ e.durable <= f.latest
      BY <1>1, <1>2, <1>3, <1>4, <1>6, <1>8, SMTT(30)
    <2>. QED
      BY <2>1, <1>1, <1>2, <1>8, <1>10, SMTT(30)
  <1>13. /\ after \in OptBlock /\ ckpt \in SUBSET SUBSET Row /\ purge \in SUBSET Block
         /\ \A b \in purge : b <= done.durable
    <2>1. f.final \in SUBSET Row
      BY <1>6, EngineFields, ZenonT(30)
    <2>. QED
      BY <2>1, <1>5, <1>10, ZenonT(30) DEF OptBlock, after, ckpt, purge
  <1>14. /\ w \in Write /\ s \in Store /\ s.accepted = n
         /\ s.latest = IF done.latest = NoBlock THEN d.latest ELSE done.latest
         /\ s.durable = IF done.durable = NoBlock THEN d.durable ELSE done.durable
         /\ s.finality = IF done.hasFinalized THEN done.finalized ELSE d.finality
         /\ s.ckpt = IF ckpt = {} THEN d.ckpt ELSE UNION ckpt
         /\ \A r : r \in s.rows <=>
                    /\ \/ r \in rows
                       \/ /\ r \in d.rows
                          /\ after = NoBlock \/ r.block <= after
                          /\ \A y \in rows : y.block # r.block
                    /\ r.block \notin purge
         /\ Tracks(done, d.hashes) => \A b \in Block : s.hashes[b] = done.hashes[b]
    <2>1. n \in SUBSET Row
      BY <1>6, SMTT(30) DEF n
    <2>2. d \in Store /\ done \in EngineState /\ rows \in SUBSET Row
      BY <1>2, <1>6, <1>10, Zenon
    <2>3. after \in OptBlock /\ ckpt \in SUBSET SUBSET Row /\ purge \in SUBSET Block
      BY <1>13, SMTT(30)
    <2>4. w \in Write /\ AfterCommit(d, s, done, n, after, rows, ckpt, purge)
      BY <2>1, <2>2, <2>3, CommitFacts, SMTT(30) DEF w, s
    <2>. QED
      BY <2>4, Zenon DEF AfterCommit
  <1>15. s.latest = f.latest /\ s.durable = done.durable /\ s.finality = head
    <2>1. f.latest = NoBlock => d.latest = NoBlock
      <3>1. p = NoBlock => ~forks
        BY <1>1, <1>5 DEF Block, NoBlock
      <3>. QED
        BY <3>1, <1>2, <1>3, <1>4, <1>5, <1>6, <1>8, SMTT(30) DEF NoBlock
    <2>2. done.durable = NoBlock => d.durable = NoBlock
      BY <1>2, <1>3, <1>12, SMTT(30) DEF NoBlock
    <2>. QED
      BY <2>1, <2>2, <1>11, <1>14, ZenonT(30)
  <1>16. FinalTop(s) = IF head <= f.latest THEN head ELSE f.latest
    BY <1>14, <1>15, StoreFields, Zenon
  <1>17. s.durable = NoBlock => n = {}
    <2>. SUFFICES ASSUME s.durable = NoBlock PROVE n = {}
      OBVIOUS
    <2>1. done.durable = -1 /\ e.durable = -1
      BY <1>2, <1>12, <1>15, SMTT(30) DEF NoBlock
    <2>2. CheckpointDue(q, head)
      BY <2>1, <1>6, SMTT(30) DEF CheckpointDue, NoBlock
    <2>3. checkpoint
      BY <2>1, <2>2, <1>1, <1>6, SMTT(30) DEF Block, checkpoint
    <2>4. f.latest = -1
      <3>1. head >= 0
        BY <1>1 DEF Block
      <3>. QED
        BY <3>1, <2>1, <2>3, <1>1, <1>8, <1>10, SMTT(30) DEF NoBlock
    <2>5. \A r \in n : r.block <= -1
      BY <2>4, <1>6, SMTT(30) DEF n
    <2>6. n \in SUBSET Row
      BY <1>6, SMTT(30) DEF n
    <2>. QED
      BY <2>5, <2>6, <1>1
  <1>18. s.ckpt \subseteq Upto(n, s.durable) /\ (HostAttaches => s.ckpt = Upto(n, s.durable))
    <2>1. CASE checkpoint
      <3>1. s.ckpt = f.final
        <4>1. ckpt = {f.final}
          BY <2>1 DEF ckpt
        <4>. QED
          BY <4>1, <1>14, Zenon
      <3>2. ASSUME NEW r \in f.final PROVE r \in n /\ r.block <= s.durable
        <4>1. r \in n /\ r \in Row /\ r.block <= f.latest /\ r.block <= head
          BY <1>6, SMTT(30) DEF n
        <4>2. r.block \in Int /\ r.block >= 0
          BY <4>1, <1>1, SMTT(30)
        <4>3. f.latest # NoBlock
          BY <4>1, <4>2, <1>8, SMTT(30) DEF NoBlock
        <4>. QED
          BY <4>1, <4>2, <4>3, <2>1, <1>10, <1>15, Zenon
      <3>3. ASSUME HostAttaches, NEW r \in n, r.block <= s.durable PROVE r \in f.final
        <4>1. r \in f.final \cup f.unfinal /\ r \in Row
          BY <3>3, <1>6, SMTT(30) DEF n
        <4>2. r.block <= head /\ r.block \in Int
          BY <3>3, <4>1, <1>1, <1>12, <1>15, SMTT(30)
        <4>3. r \notin f.unfinal
          BY <4>2, <1>1, <1>6, SMTT(30)
        <4>. QED
          BY <4>1, <4>3, SMTT(30)
      <3>. QED
        BY <3>1, <3>2, <3>3, SMTT(30) DEF Upto
    <2>2. CASE ~checkpoint
      <3>1. s.ckpt = d.ckpt
        <4>1. ckpt = {}
          BY <2>2, SMTT(30) DEF ckpt
        <4>. QED
          BY <4>1, <1>14, Zenon
      <3>2. s.durable = d.durable
        BY <2>2, <1>3, <1>10, <1>15, ZenonT(30)
      <3>3. \A r \in Row : r.block <= d.durable => (r \in n <=> r \in d.accepted)
        BY <1>1, <1>2, <1>3, <1>4, <1>9, SMTT(30)
      <3>4. Upto(n, d.durable) = Upto(d.accepted, d.durable)
        <4>1. n \in SUBSET Row /\ d.accepted \in SUBSET Row
          BY <1>3, <1>6, SMTT(30) DEF n
        <4>. QED
          BY <3>3, <4>1, UptoSame, Zenon
      <3>. QED
        BY <3>1, <3>2, <3>4, <1>2, Zenon DEF StoreOK
    <2>. QED
      BY <2>1, <2>2, SMTT(30)
  <1>19. Above(s.rows, s.durable) = Above(n, s.durable)
    <2>1. ASSUME NEW r \in Row, r.block > s.durable PROVE r \in s.rows <=> r \in n
      <3>1. r.block \in Int /\ r.block \notin purge /\ r.block > d.durable
        BY <2>1, <1>1, <1>2, <1>3, <1>12, <1>13, <1>15, SMTT(30)
      <3>2. r \in d.rows <=> r \in d.accepted
        BY <3>1, <1>2, Zenon DEF StoreOK, Above
      <3>3. r \in s.rows <=>
              \/ r \in rows
              \/ /\ r \in d.accepted
                 /\ after = NoBlock \/ r.block <= after
                 /\ \A y \in rows : y.block # r.block
        BY <3>1, <3>2, <1>14, SMTT(30)
      <3>4. (r \in d.accepted /\ (after = NoBlock \/ r.block <= after)) <=> r \in k
        <4>1. CASE forks
          <5>1. after = p /\ after # NoBlock
            BY <4>1, <1>1, <1>5, SMTT(30) DEF after, Block, NoBlock
          <5>. QED
            BY <5>1, <1>4, SMTT(30)
        <4>2. CASE ~forks
          <5>1. after = NoBlock
            BY <4>2, SMTT(30) DEF after
          <5>. QED
            BY <4>2, <5>1, <1>4, <1>7, SMTT(30)
        <4>. QED
          BY <4>1, <4>2, SMTT(30)
      <3>5. r \in k => \A y \in rows : y.block # r.block
        BY <3>1, <1>1, <1>4, <1>6, SMTT(30)
      <3>. QED
        BY <3>3, <3>4, <3>5, SMTT(30) DEF n
    <2>2. s.rows \in SUBSET Row /\ n \in SUBSET Row
      BY <1>6, <1>14, Zenon DEF Store, n
    <2>. QED
      BY <2>1, <2>2, SMTT(30) DEF Above
  <1>20. s.hashes[head] # NoHash /\ \A b \in Block : s.hashes[b] = done.hashes[b]
    <2>1. \A b \in Block : s.hashes[b] = done.hashes[b]
      BY <1>10, <1>14, Zenon
    <2>2. s.hashes[head] = view[head]
      BY <2>1, <1>1, <1>10, SMTT(30)
    <2>. QED
      BY <2>1, <2>2, <1>1, SMTT(30)
  <1>21. ASSUME Interval > 1, s.latest # NoBlock PROVE FinalTop(s) - s.durable < Interval
    <2>1. f.latest # NoBlock
      BY <1>15, <1>21, ZenonT(30)
    <2>2. CASE checkpoint
      BY <2>1, <2>2, <1>1, <1>8, <1>10, <1>15, <1>16, <1>21, SMTT(30)
    <2>3. CASE ~CheckpointDue(q, head)
      <3>1. OrZero(q.latest) = f.latest
        BY <2>1, <1>6, SMTT(30) DEF OrZero
      <3>2. Min({head, f.latest}) - e.durable < Interval
        BY <2>3, <3>1, <1>6, Zenon DEF CheckpointDue
      <3>3. Min({head, f.latest}) = FinalTop(s)
        BY <1>1, <1>8, <1>16, PairBounds, SMTT(30)
      <3>4. s.durable = e.durable
        BY <2>3, <1>10, <1>15, ZenonT(30) DEF checkpoint
      <3>. QED
        BY <3>2, <3>3, <3>4
    <2>4. CASE ~(f.durable < f.finalized)
      <3>1. s.durable = e.durable
        BY <2>4, <1>10, <1>15, ZenonT(30) DEF checkpoint
      <3>. QED
        BY <2>4, <3>1, <1>1, <1>2, <1>6, <1>8, <1>16, <1>21, SMTT(30)
    <2>. QED
      BY <2>2, <2>3, <2>4 DEF checkpoint
  <1>22. ASSUME CompleteChains
         PROVE  /\ OneView(s.hashes, s.finality)
                /\ \A r \in n : r.block > s.finality => s.hashes[r.block] = r.tag
    <2>1. \A b \in Block : b >= head => s.hashes[b] = view[b]
      BY <1>1, <1>10, <1>20, <1>22, SMTT(30) DEF Block
    <2>2. OneView(s.hashes, head)
      <3>1. ASSUME NEW v \in Views, NEW b \in Block, b >= head, s.hashes[b] = v[b],
                   NEW c \in Block, head <= c, c <= b
            PROVE  s.hashes[c] = v[c]
        BY <3>1, <2>1, <1>1, SMTT(30) DEF Block
      <3>. QED
        BY <3>1, Zenon DEF OneView
    <2>3. ASSUME NEW r \in n, r.block > head PROVE s.hashes[r.block] = r.tag
      <3>1. r \in Row /\ r.block \in Block /\ r.block \in Int /\ r.tag \in Hash /\ head >= 0
        BY <1>1, <1>6, SMTT(30) DEF n, Block
      <3>2. s.hashes[r.block] = view[r.block]
        BY <2>1, <2>3, <3>1, <1>1
      <3>3. CASE r \in rows
        BY <3>2, <3>3, <1>6, SMTT(30)
      <3>4. CASE r \in k
        <4>1. r \in d.accepted /\ r.block <= p /\ r.block > d.finality /\ r.block > e.finalized
          BY <2>3, <3>1, <3>4, <1>1, <1>2, <1>3, <1>4, SMTT(30)
        <4>2. d.hashes[r.block] = r.tag
          BY <4>1, <1>2, <1>22, ZenonT(30) DEF StoreOK
        <4>3. e.hashes[r.block] = d.hashes[r.block]
          BY <4>1, <3>1, <1>2, SMTT(30) DEF Mirrors
        <4>4. r.block \in supplied
          BY <2>3, <3>1, <1>1, <1>22, SMTT(30) DEF Block
        <4>5. e.hashes[r.block] \in {NoHash, view[r.block]}
          BY <2>3, <3>1, <4>1, <4>4, <1>1, <1>5, SMTT(30)
        <4>. QED
          BY <3>1, <3>2, <4>2, <4>3, <4>5, <1>1, SMTT(30)
      <3>. QED
        BY <3>3, <3>4, SMTT(30) DEF n
    <2>. QED
      BY <2>2, <2>3, <1>15, ZenonT(30)
  <1>23. StoreOK(s)
    <2>1. s.durable <= s.finality /\ s.durable <= s.latest
      BY <1>12, <1>15, SMTT(30)
    <2>2. \A r \in n : r.block <= s.latest
      BY <1>6, <1>15, Zenon DEF n
    <2>. QED
      BY <2>1, <2>2, <1>14, <1>15, <1>17, <1>18, <1>19, <1>20, <1>21, <1>22, Zenon DEF StoreOK
  <1>24. /\ g \in EngineState /\ g.changed = {} /\ g.hashes = done.hashes /\ g.durable = done.durable
         /\ g.latest = f.latest /\ g.finalized = head /\ g.hasFinalized
         /\ g.nodesFinalAt = NoBlock /\ g.final = f.final /\ g.unfinal = f.unfinal
         /\ ~g.skewed
    <2>1. g \in EngineState
      BY <1>10, SMTT(30) DEF EngineState, g
    <2>. QED
      BY <2>1, <1>10, <1>11, SMTT(30) DEF EngineState, g
  <1>25. Mirrors(g, s)
    BY <1>15, <1>20, <1>24, SMTT(30) DEF Mirrors
  <1>26. Nodes(g, n, missing)
    <2>1. NodesFinalBlock(g) = head
      BY <1>24, SMTT(30) DEF NodesFinalBlock
    <2>. QED
      BY <2>1, <1>6, <1>24, ZenonT(30) DEF Nodes, n
  <1>27. Later(d, s)
    <2>1. d.finality <= s.finality
      BY <1>1, <1>2, <1>3, <1>15, SMTT(30)
    <2>2. FinalTop(d) <= FinalTop(s)
      BY <1>1, <1>2, <1>3, <1>4, <1>6, <1>8, <1>16, SMTT(30)
    <2>3. \A r \in Row : r.block <= FinalTop(d) => (r \in n <=> r \in d.accepted)
      BY <1>1, <1>3, <1>4, <1>9, SMTT(30)
    <2>4. n \in SUBSET Row /\ d.accepted \in SUBSET Row
      BY <1>3, <1>6 DEF n
    <2>5. Upto(n, FinalTop(d)) = Upto(d.accepted, FinalTop(d))
      BY <2>3, <2>4, UptoSame, ZenonT(30)
    <2>. QED
      BY <2>1, <2>2, <2>5, <1>14, ZenonT(30) DEF Later
  <1>28. w \in Write /\ s.accepted = n /\ Later(d, s) /\ Sound(g, s, missing)
    BY <1>14, <1>23, <1>24, <1>25, <1>26, <1>27, Zenon DEF Sound
  <1>. QED
    BY <1>28, ZenonT(30) DEF s, w, g, n, k, rows, q, f, checkpoint, done, after, ckpt, purge, p, forks

-----------------------------------------------------------------------------
(* A fork that the host resolves *)

\* handle_fork leaves the engine sound: it rolls back to a block at or above
\* finality that both sides know.
LEMMA HandleForkFacts ==
    ASSUME Assumptions, NEW e, NEW d, NEW missing, Sound(e, d, missing),
           NEW view \in Views, NEW chain \in SUBSET Block, Ancestors(e, view, chain) # {}
    PROVE  LET p == Max(Ancestors(e, view, chain))
               n == Upto(d.accepted, p)
               c == SetRollbackChain(Rollback(e, p), view, chain)
               w == WithMeta([after |-> p, rows |-> {}, ckpt |-> {}, purge |-> {}], c, n)
               s == Commit(d, w)
           IN  /\ w \in Write /\ s.accepted = n /\ Later(d, s)
               /\ Sound([c EXCEPT !.changed = {}], s, missing)
  <1>. DEFINE p == Max(Ancestors(e, view, chain))
              n == Upto(d.accepted, p)
              x == Rollback(e, p)
              c == SetRollbackChain(x, view, chain)
              w == WithMeta([after |-> p, rows |-> {}, ckpt |-> {}, purge |-> {}], c, n)
              s == Commit(d, w)
              g == [c EXCEPT !.changed = {}]
  <1>. HIDE DEF p, n, x, c, w, s, g
  <1>1. /\ Block \subseteq Int /\ MaxBlock \in Nat
        /\ view \in [Block -> Hash] /\ NoHash \notin Hash /\ Interval \in Nat
        /\ \A v \in Views : v \in [Block -> Hash]
        /\ \A v \in Views, b \in Block : view[b] = v[b] => \A i \in 0 .. b : view[i] = v[i]
        /\ \A r \in Row : r.block \in Block /\ r.block \in Int /\ r.block >= 0 /\ r.tag \in Hash
    <2>1. MaxBlock \in Nat /\ Interval \in Nat /\ NoHash \notin Hash
      BY DEF Assumptions, MaxBlockAssumption, HashAssumption, ConfigAssumption
    <2>2. /\ view \in [Block -> Hash] /\ \A v \in Views : v \in [Block -> Hash]
          /\ \A v \in Views, b \in Block : view[b] = v[b] => \A i \in 0 .. b : view[i] = v[i]
      BY SMTT(30) DEF Assumptions, InputAssumption
    <2>. QED
      BY <2>1, <2>2 DEF Block, Row
  <1>2. /\ e \in EngineState /\ d \in Store /\ StoreOK(d) /\ Mirrors(e, d) /\ Nodes(e, d.accepted, missing)
        /\ e.finalized \in Int /\ e.latest \in Int /\ e.durable \in Int /\ -1 <= e.durable
        /\ -1 <= e.latest /\ 0 <= e.finalized /\ e.finalized \in Block
    BY EngineFields, ZenonT(30) DEF Sound, StoreOK, EngineState
  <1>3. /\ d.latest = e.latest /\ d.durable = e.durable /\ e.durable <= d.finality
        /\ d.finality <= e.finalized /\ d.finality \in Int
        /\ e.durable <= e.finalized /\ e.durable <= e.latest
        /\ FinalTop(d) \in Int /\ FinalTop(d) <= d.finality
        /\ FinalTop(d) = IF d.finality <= d.latest THEN d.finality ELSE d.latest
        /\ NodesFinalBlock(e) \in Int /\ NodesFinalBlock(e) <= e.finalized
        /\ Tracks(e, d.hashes)
        /\ \A r \in d.accepted : r \in Row /\ r.block <= e.latest
    BY <1>2, SoundFields, StoreFields, ZenonT(30)
  <1>4. /\ p \in Block /\ p \in Int /\ p \in chain /\ e.finalized <= p /\ p <= OrZero(e.latest)
        /\ e.hashes[p] = view[p]
    <2>1. Ancestors(e, view, chain) \in SUBSET Block
      BY DEF Ancestors
    <2>2. p \in Ancestors(e, view, chain)
      BY <2>1, <1>1, BlockBounds, SMTT(30) DEF p
    <2>. QED
      BY <2>1, <2>2, <1>1, SMTT(30) DEF Ancestors
  <1>5. /\ x \in EngineState
        /\ x.latest = p /\ x.unfinal = Upto(e.unfinal, p)
        /\ x.finalized = e.finalized /\ x.durable = e.durable
        /\ x.hasFinalized = e.hasFinalized /\ x.nodesFinalAt = e.nodesFinalAt
        /\ x.final = e.final /\ x.skewed = e.skewed
        /\ \A b \in Block : x.hashes[b] = IF b > p THEN NoHash ELSE e.hashes[b]
        /\ Tracks(x, d.hashes)
    <2>1. /\ e \in EngineState /\ p \in Block /\ p <= OrZero(e.latest)
          /\ Tracks(e, d.hashes) /\ x = Rollback(e, p)
      BY <1>2, <1>3, <1>4, Zenon DEF x
    <2>. QED
      BY <2>1, RollbackFacts, SMTT(30)
  <1>6. /\ c \in EngineState /\ SameButHashes(x, c)
        /\ \A b \in Block : c.hashes[b] = IF b \in chain THEN view[b] ELSE x.hashes[b]
        /\ Tracks(c, d.hashes)
    BY <1>5, ChainFacts, SMTT(30) DEF c
  <1>7. /\ c.latest = p /\ c.finalized = e.finalized /\ c.durable = e.durable
        /\ c.hasFinalized = e.hasFinalized /\ c.nodesFinalAt = e.nodesFinalAt
        /\ c.final = e.final /\ c.unfinal = Upto(e.unfinal, p) /\ c.skewed = e.skewed
    BY <1>5, <1>6, Zenon DEF SameButHashes
  <1>8. n \in SUBSET Row /\ \A r : r \in n <=> r \in d.accepted /\ r.block <= p
    BY <1>3, SMTT(30) DEF Upto, n
  <1>9. w \in Write /\ AfterCommit(d, s, c, n, p, {}, {}, {})
    <2>1. p \in OptBlock /\ {} \in SUBSET Row /\ {} \in SUBSET SUBSET Row /\ {} \in SUBSET Block
      BY <1>4, Zenon DEF OptBlock
    <2>. QED
      BY <2>1, <1>2, <1>6, <1>8, CommitFacts, ZenonT(30) DEF w, s
  <1>10. p # NoBlock /\ p >= 0
    BY <1>4, <1>1, SMTT(30) DEF Block, NoBlock
  <1>11. /\ s \in Store /\ s.accepted = n /\ s.latest = p
         /\ s.durable = d.durable /\ s.finality = d.finality /\ s.ckpt = d.ckpt
         /\ \A b \in Block : s.hashes[b] = c.hashes[b]
         /\ \A r : r \in s.rows <=> r \in d.rows /\ r.block <= p
    <2>1. d.finality = IF e.hasFinalized THEN e.finalized ELSE NoBlock
      BY <1>2, SMTT(30) DEF Mirrors
    <2>. QED
      BY <2>1, <1>3, <1>6, <1>7, <1>9, <1>10, ZenonT(30) DEF AfterCommit
  <1>12. d.finality <= p /\ d.durable <= p /\ FinalTop(d) <= p
    BY <1>2, <1>3, <1>4, SMTT(30)
  <1>13. \A y \in Int : y <= p => Upto(n, y) = Upto(d.accepted, y)
    <2>1. ASSUME NEW y \in Int, y <= p PROVE Upto(n, y) = Upto(d.accepted, y)
      <3>1. \A r \in Row : r.block <= y => (r \in n <=> r \in d.accepted)
        BY <2>1, <1>1, <1>4, <1>8, SMTT(30)
      <3>. QED
        BY <3>1, <1>3, <1>8, UptoSame, SMTT(30)
    <2>. QED
      BY <2>1, SMTT(30)
  <1>14. \A b \in Block : b >= d.finality => e.hashes[b] = d.hashes[b]
    <2>1. ASSUME NEW b \in Block, b >= d.finality PROVE b \notin e.changed
      <3>1. b \in Int /\ b >= 0
        BY <1>1, SMTT(30) DEF Block
      <3>2. ~(b < e.finalized)
        BY <2>1, <3>1, <1>2, SMTT(30) DEF Mirrors
      <3>. QED
        BY <3>2, <1>2, SMTT(30) DEF Mirrors
    <2>. QED
      BY <2>1, <1>2, SMTT(30) DEF Mirrors
  <1>15. \A b \in Block : s.hashes[b] = IF b \in chain THEN view[b] ELSE IF b > p THEN NoHash ELSE e.hashes[b]
    BY <1>5, <1>6, <1>11, ZenonT(30)
  <1>16. Above(s.rows, s.durable) = Above(n, s.durable)
    <2>1. \A r \in Row : r.block > d.durable => (r \in d.rows <=> r \in d.accepted)
      BY <1>2, ZenonT(30) DEF StoreOK, Above
    <2>2. s.rows \in SUBSET Row
      BY <1>11, ZenonT(30) DEF Store
    <2>. QED
      BY <2>1, <2>2, <1>8, <1>11, SMTT(30) DEF Above
  <1>17. s.finality # NoBlock => s.hashes[s.finality] # NoHash
    <2>. SUFFICES ASSUME s.finality # NoBlock PROVE s.hashes[s.finality] # NoHash
      OBVIOUS
    <2>1. s.finality = e.finalized /\ d.finality = e.finalized
      BY <1>2, <1>11, ZenonT(30) DEF Mirrors
    <2>2. d.hashes[e.finalized] # NoHash
      BY <2>1, <1>2, <1>11, ZenonT(30) DEF StoreOK
    <2>3. e.hashes[e.finalized] = d.hashes[e.finalized]
      BY <2>1, <1>2, <1>14, SMTT(30)
    <2>4. view[e.finalized] # NoHash
      BY <1>1, <1>2
    <2>. QED
      BY <2>1, <2>2, <2>3, <2>4, <1>2, <1>4, <1>15, SMTT(30)
  <1>18. FinalTop(s) = d.finality
    BY <1>11, <1>12, StoreFields, Zenon
  <1>19. ASSUME Interval > 1 PROVE FinalTop(s) - s.durable < Interval
    <2>1. CASE d.latest = NoBlock
      <3>1. e.latest = NoBlock /\ p = 0 /\ e.durable = -1
        BY <2>1, <1>2, <1>3, <1>4, <1>10, SMTT(30) DEF OrZero, NoBlock
      <3>. QED
        BY <3>1, <1>1, <1>3, <1>11, <1>12, <1>18, <1>19, SMTT(30)
    <2>2. CASE d.latest # NoBlock
      <3>1. p <= d.latest
        BY <2>2, <1>3, <1>4, SMTT(30) DEF OrZero
      <3>2. FinalTop(d) = d.finality
        BY <3>1, <1>2, <1>3, <1>4, <1>12, SMTT(30)
      <3>. QED
        BY <2>2, <3>2, <1>2, <1>11, <1>18, <1>19, ZenonT(30) DEF StoreOK
    <2>. QED
      BY <2>1, <2>2, SMTT(30)
  <1>20. ASSUME CompleteChains
         PROVE  /\ OneView(s.hashes, s.finality)
                /\ \A r \in n : r.block > s.finality => s.hashes[r.block] = r.tag
    <2>1. OneView(d.hashes, d.finality) /\ d.hashes[p] = view[p]
      BY <1>2, <1>4, <1>12, <1>14, <1>20, ZenonT(30) DEF StoreOK
    <2>2. \A b \in Block : d.finality <= b /\ b <= p => d.hashes[b] \in {NoHash, view[b]}
      <3>1. p >= d.finality
        BY <1>3, <1>4, <1>12
      <3>. QED
        BY <3>1, <2>1, <1>4, Zenon DEF OneView
    <2>3. \A b \in Block : d.finality <= b => s.hashes[b] \in {NoHash, view[b]}
      BY <2>2, <1>1, <1>3, <1>4, <1>14, <1>15, SMTT(30)
    <2>4. ASSUME NEW v \in Views, NEW b \in Block, b >= d.finality, s.hashes[b] = v[b],
                 NEW i \in Block, d.finality <= i, i <= b
          PROVE  s.hashes[i] \in {NoHash, v[i]}
      <3>1. v[b] \in Hash
        BY <1>1, SMTT(30)
      <3>2. view[b] = v[b]
        BY <3>1, <2>3, <2>4, <1>1, SMTT(30)
      <3>3. i \in 0 .. b
        BY <2>4, <1>1, SMTT(30) DEF Block
      <3>4. view[i] = v[i]
        BY <3>2, <3>3, <1>1, SMTT(30)
      <3>. QED
        BY <3>4, <2>3, <2>4, ZenonT(30)
    <2>5. ASSUME NEW r \in n, r.block > d.finality PROVE s.hashes[r.block] = r.tag
      <3>1. r \in d.accepted /\ r.block <= p /\ r.block \in Block /\ r.block \in Int /\ r.tag \in Hash
        BY <1>1, <1>8, SMTT(30)
      <3>2. d.hashes[r.block] = r.tag
        BY <2>5, <3>1, <1>2, <1>20, Zenon DEF StoreOK
      <3>3. e.hashes[r.block] = r.tag /\ view[r.block] = r.tag
        BY <2>2, <2>5, <3>1, <3>2, <1>1, <1>3, <1>14, SMTT(30)
      <3>. QED
        BY <3>1, <3>3, <1>4, <1>15, SMTT(30)
    <2>. QED
      BY <2>4, <2>5, <1>11, ZenonT(30) DEF OneView
  <1>21. StoreOK(s)
    <2>1. s.durable <= s.finality /\ s.durable <= s.latest
      BY <1>3, <1>11, <1>12, ZenonT(30)
    <2>2. s.durable = NoBlock => n = {}
      BY <1>2, <1>8, <1>11, ZenonT(30) DEF StoreOK
    <2>3. Upto(n, s.durable) = Upto(d.accepted, d.durable)
      BY <1>2, <1>3, <1>11, <1>12, <1>13, Zenon
    <2>4. /\ s.ckpt \subseteq Upto(n, s.durable)
          /\ HostAttaches => s.ckpt = Upto(n, s.durable)
      BY <2>3, <1>2, <1>11, Zenon DEF StoreOK
    <2>5. \A r \in n : r.block <= s.latest
      BY <1>8, <1>11, Zenon
    <2>. QED
      BY <2>1, <2>2, <2>4, <2>5, <1>11, <1>16, <1>17, <1>19, <1>20, Zenon DEF StoreOK
  <1>22. /\ g \in EngineState /\ g.changed = {} /\ g.hashes = c.hashes
         /\ g.latest = p /\ g.finalized = e.finalized /\ g.durable = e.durable
         /\ g.hasFinalized = e.hasFinalized /\ g.nodesFinalAt = e.nodesFinalAt
         /\ g.final = e.final /\ g.unfinal = Upto(e.unfinal, p) /\ g.skewed = e.skewed
    <2>1. g \in EngineState
      BY <1>6, SMTT(30) DEF EngineState, g
    <2>. QED
      BY <2>1, <1>6, <1>7, SMTT(30) DEF EngineState, g
  <1>23. Mirrors(g, s)
    <2>1. d.finality = (IF e.hasFinalized THEN e.finalized ELSE NoBlock) /\ (e.hasFinalized \/ e.finalized = 0)
      BY <1>2, ZenonT(30) DEF Mirrors
    <2>. QED
      BY <2>1, <1>3, <1>11, <1>22, Zenon DEF Mirrors
  <1>24. Nodes(g, n, missing)
    <2>1. NodesFinalBlock(g) = NodesFinalBlock(e)
      BY <1>22, Zenon DEF NodesFinalBlock
    <2>2. \A r : r \in g.unfinal <=> r \in e.unfinal /\ r.block <= p
      BY <1>22, SMTT(30) DEF Upto
    <2>3. /\ \A r \in e.final : r.block <= NodesFinalBlock(e)
          /\ e.final \cup e.unfinal \subseteq d.accepted
      BY <1>2, ZenonT(30) DEF Nodes
    <2>4. \A r \in e.final : r.block <= p
      <3>1. /\ NodesFinalBlock(e) \in Int /\ NodesFinalBlock(e) <= e.finalized
            /\ e.finalized \in Int /\ e.finalized <= p /\ p \in Int
        BY <1>2, <1>3, <1>4, Zenon
      <3>2. \A r \in e.final : r.block \in Int
        BY <2>3, <1>1, <1>3 DEF Row
      <3>. QED
        BY <3>1, <3>2, <2>3
    <2>5. /\ g.final \cup g.unfinal \subseteq n
          /\ HostAttaches /\ ~missing => n \subseteq g.final \cup g.unfinal
      BY <2>2, <2>3, <2>4, <1>2, <1>8, <1>22, Zenon DEF Nodes
    <2>6. Upto(n, e.durable) = Upto(d.accepted, e.durable)
      BY <1>2, <1>3, <1>12, <1>13, ZenonT(30)
    <2>7. HostAttaches /\ missing =>
            /\ g.final = Upto(n, g.durable) /\ g.unfinal = {}
            /\ \A r \in n : r.block <= g.durable \/ r.block > NodesFinalBlock(g)
      BY <2>1, <2>2, <2>6, <1>2, <1>8, <1>22, Zenon DEF Nodes
    <2>8. /\ \A r \in g.final : r.block <= NodesFinalBlock(g)
          /\ \A r \in g.unfinal : r.block > NodesFinalBlock(g)
          /\ g.nodesFinalAt # NoBlock =>
                External /\ g.nodesFinalAt = g.durable /\ g.durable < g.finalized
          /\ ~g.skewed
      BY <2>1, <2>2, <1>2, <1>22, ZenonT(30) DEF Nodes
    <2>. QED
      BY <2>5, <2>7, <2>8, ZenonT(30) DEF Nodes
  <1>25. Later(d, s)
    <2>1. Upto(n, FinalTop(d)) = Upto(d.accepted, FinalTop(d))
      BY <1>3, <1>12, <1>13, Zenon
    <2>. QED
      BY <2>1, <1>3, <1>11, <1>18, SMTT(30) DEF Later
  <1>26. w \in Write /\ s.accepted = n /\ Later(d, s) /\ Sound(g, s, missing)
    BY <1>9, <1>11, <1>21, <1>22, <1>23, <1>24, <1>25, Zenon DEF Sound
  <1>. QED
    BY <1>26 DEF s, w, g, n, c, x, p
=============================================================================
