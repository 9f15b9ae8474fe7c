------------------------------ MODULE KeyStore ------------------------------
(***************************************************************************)
(* The storage contract on two backends: the maps of the memory backend    *)
(* (storage/memory.rs) and the byte keys of the RocksDB backend            *)
(* (storage/rocks.rs).  Every write goes to both; the properties compare   *)
(* what they read.  A key is a sequence of bytes 0 .. Base - 1, compared   *)
(* bytewise, and a number has Width bytes, the highest first.  Column      *)
(* families share no key, so a behaviour works on one `family`.            *)
(*                                                                         *)
(* Of RocksDB the model has a sorted map: ranges in key order with an      *)
(* exclusive upper bound, and write batches applied in order.              *)
(***************************************************************************)
EXTENDS TargetRows

CONSTANTS KeyBase, Width,
          Names,      \* of tables, reducers, views and metadata: no byte 0
          GroupKeys,  \* any bytes, shorter than Base
          KeyNumbers,    \* block numbers, sequences and parts, the highest one included
          MapKeys,    \* keys of MAP entries, any bytes
          JournalName,
          MaxKeys     \* keys stored at a time

VARIABLES family,
          memory,     \* the map of the family, by the parts of its keys
          rocks       \* the column family, by byte keys

keyVars == <<family, memory, rocks>>

MaxNumber == KeyBase ^ Width - 1

ASSUME BytesAssumption ==
    /\ KeyBase > 2 /\ Width > 0
    /\ \A n \in Names \cup {JournalName} : n # <<>> /\ \A i \in DOMAIN n : n[i] \in 1 .. KeyBase - 2
    /\ \A g \in GroupKeys : Len(g) < KeyBase
    /\ KeyNumbers \subseteq 0 .. MaxNumber

-----------------------------------------------------------------------------
(* Keys *)

BE(n) == [i \in 1 .. Width |-> (n \div (KeyBase ^ (Width - i))) % KeyBase]

FromBE(bytes) == FoldLeft(LAMBDA acc, byte : acc * KeyBase + byte, 0, bytes)

\* The length of a group key in one byte.
LenByte(g) == <<Len(g) % KeyBase>>

NamePrefix(n) == n \o <<0>>

RawKey(t, b) == NamePrefix(t) \o BE(b)

SnapPrefix(r, g) == NamePrefix(r) \o LenByte(g) \o g

SnapKey(r, g, b) == SnapPrefix(r, g) \o BE(b)

\* fin_key and kv_key.
GroupStateKey(n, g) == NamePrefix(n) \o g

\* Leaves out the length.
FaultyMapGroupPrefix(r, g) == NamePrefix(r) \o g

MapGroupPrefix(r, g) == NamePrefix(r) \o LenByte(g) \o g

MapEntryKey(r, g, i, k) == MapGroupPrefix(r, g) \o <<i>> \o k

JournalPrefix == NamePrefix(JournalName)

JournalKey(s, p) == JournalPrefix \o BE(s) \o BE(p)

\* The byte key of the parts k.
EncodeKey(k) ==
    IF family = "raw" THEN RawKey(k[1], k[2])
    ELSE IF family = "snap" THEN SnapKey(k[1], k[2], k[3])
    ELSE IF family = "state" THEN GroupStateKey(k[1], k[2])
    ELSE IF family = "map" THEN MapEntryKey(k[1], k[2], k[3], k[4])
    ELSE IF family = "hash" THEN BE(k[1])
    ELSE IF Len(k) = 2 THEN JournalKey(k[1], k[2]) ELSE k[1]

\* Bytewise order.
Less(a, b) ==
    \/ IsStrictPrefix(a, b)
    \/ \E i \in DOMAIN a \cap DOMAIN b : a[i] < b[i] /\ SubSeq(a, 1, i - 1) = SubSeq(b, 1, i - 1)

\* upper_bound: the last byte that is not the highest one, plus 1.
UpperBound(prefix) ==
    LET i == Max({j \in DOMAIN prefix : prefix[j] < KeyBase - 1})
    IN  [SubSeq(prefix, 1, i) EXCEPT ![i] = @ + 1]

\* The keys of d from start up to the exclusive bound, in order.
Scan(d, start, bound) ==
    SetToSortSeq({k \in DOMAIN d : ~ Less(k, start) /\ Less(k, bound)}, Less)

ScanPrefix(d, prefix) == Scan(d, prefix, UpperBound(prefix))

Suffix(k, prefix) == SubSeq(k, Len(prefix) + 1, Len(k))

\* A read that fails on a key that is too short.
Corrupt == -1

\* The number after a prefix.
NumberAfter(k, prefix) ==
    IF Len(k) < Len(prefix) + Width THEN Corrupt
    ELSE FromBE(SubSeq(k, Len(prefix) + 1, Len(prefix) + Width))

-----------------------------------------------------------------------------
(* Reads, each on the maps and on the byte keys *)

MemoryGet(k) == IF k \in DOMAIN memory THEN {memory[k]} ELSE {}

RocksGet(k) == IF EncodeKey(k) \in DOMAIN rocks THEN {rocks[EncodeKey(k)]} ELSE {}

InOrder(S, N(_)) == SetToSortSeq(S, LAMBDA x, y : N(x) < N(y))

FirstOf(s, n) == SubSeq(s, 1, Min({n, Len(s)}))

\* get_raw_rows_limited.
MemoryRows(t, from, to, max) ==
    LET keys == FirstOf(InOrder({k \in DOMAIN memory : k[1] = t /\ k[2] \in from .. to},
                                LAMBDA k : k[2]), max)
    IN  [i \in DOMAIN keys |-> <<keys[i][2], memory[keys[i]]>>]

\* The exclusive end of a range of blocks that ends at b.
EndKey(t, b) == IF b < MaxNumber THEN RawKey(t, b + 1) ELSE UpperBound(NamePrefix(t))

RocksRows(t, from, to, max) ==
    LET keys == FirstOf(Scan(rocks, RawKey(t, from), EndKey(t, to)), max)
    IN  [i \in DOMAIN keys |-> <<NumberAfter(keys[i], NamePrefix(t)), rocks[keys[i]]>>]

\* The rows that take_raw_rows_after removes and returns.
MemoryTaken(t, b) ==
    LET keys == InOrder({k \in DOMAIN memory : k[1] = t /\ k[2] > b}, LAMBDA k : k[2])
    IN  [i \in DOMAIN keys |-> <<keys[i][2], memory[keys[i]]>>]

RocksTaken(t, b) ==
    LET keys == IF b = MaxNumber THEN <<>>
                ELSE Scan(rocks, RawKey(t, b + 1), UpperBound(NamePrefix(t)))
    IN  [i \in DOMAIN keys |-> <<NumberAfter(keys[i], NamePrefix(t)), rocks[keys[i]]>>]

\* get_reducer_state_at_or_before.
MemoryStateBefore(r, g, b) ==
    LET found == {k \in DOMAIN memory : k[1] = r /\ k[2] = g /\ k[3] <= b}
        last  == CHOOSE k \in found : \A j \in found : j[3] <= k[3]
    IN  IF found = {} THEN <<>> ELSE <<last[3], memory[last]>>

RocksStateBefore(r, g, b) ==
    LET prefix == SnapPrefix(r, g)
        found  == SelectSeq(ScanPrefix(rocks, prefix), LAMBDA k : ~ Less(SnapKey(r, g, b), k))
    IN  IF found = <<>> THEN <<>> ELSE <<NumberAfter(Last(found), prefix), rocks[Last(found)]>>

\* list_reducer_group_keys, of the snapshots.
MemorySnapGroups(r) == {k[2] : k \in {j \in DOMAIN memory : j[1] = r}}

RocksSnapGroups(r) ==
    LET rests == {Suffix(k, NamePrefix(r)) : k \in ToSet(ScanPrefix(rocks, NamePrefix(r)))}
    IN  {SubSeq(rest, 2, 1 + rest[1]) :
            rest \in {s \in rests : Len(s) >= 1 + Width /\ Len(s) >= 1 + s[1] + Width}}

\* list_mv_group_keys.
MemoryGroups(n) == SetToSortSeq({k[2] : k \in {j \in DOMAIN memory : j[1] = n}}, Less)

RocksGroups(n) ==
    LET keys == ScanPrefix(rocks, NamePrefix(n))
    IN  [i \in DOMAIN keys |-> Suffix(keys[i], NamePrefix(n))]

\* has_mv_state and has_reducer_finalized.
MemoryHas(n) == \E k \in DOMAIN memory : k[1] = n

RocksHas(n) == ScanPrefix(rocks, NamePrefix(n)) # <<>>

\* get_reducer_map_entries.
MemoryEntries(r, g) ==
    LET keys == SetToSortSeq({k \in DOMAIN memory : k[1] = r /\ k[2] = g},
                             LAMBDA x, y : x[3] < y[3] \/ (x[3] = y[3] /\ Less(x[4], y[4])))
    IN  [i \in DOMAIN keys |-> <<keys[i][3], keys[i][4], memory[keys[i]]>>]

RocksEntries(r, g) ==
    LET prefix == MapGroupPrefix(r, g)
        keys   == ScanPrefix(rocks, prefix)
    IN  [i \in DOMAIN keys |->
            IF keys[i] = prefix THEN <<Corrupt>>
            ELSE <<Head(Suffix(keys[i], prefix)), Tail(Suffix(keys[i], prefix)), rocks[keys[i]]>>]

MemoryJournal ==
    LET keys == SetToSortSeq({k \in DOMAIN memory : Len(k) = 2}, Less)
    IN  [i \in DOMAIN keys |-> <<keys[i][1], keys[i][2], memory[keys[i]]>>]

RocksJournal ==
    LET keys == ScanPrefix(rocks, JournalPrefix)
    IN  [i \in DOMAIN keys |->
            <<NumberAfter(keys[i], JournalPrefix), NumberAfter(keys[i], JournalPrefix \o BE(0)),
              rocks[keys[i]]>>]

MemoryHashes ==
    LET keys == InOrder(DOMAIN memory, LAMBDA k : k[1])
    IN  [i \in DOMAIN keys |-> <<keys[i][1], memory[keys[i]]>>]

RocksHashes ==
    LET keys == SetToSortSeq(DOMAIN rocks, Less)
    IN  [i \in DOMAIN keys |-> <<FromBE(keys[i]), rocks[keys[i]]>>]

-----------------------------------------------------------------------------
(* Writes *)

\* The parts of every key of a family.
Parts(f) ==
    IF f = "raw" THEN Names \X KeyNumbers
    ELSE IF f = "snap" THEN Names \X GroupKeys \X KeyNumbers
    ELSE IF f = "state" THEN Names \X GroupKeys
    ELSE IF f = "map" THEN Names \X GroupKeys \X {0, KeyBase - 1} \X MapKeys
    ELSE IF f = "hash" THEN {<<n>> : n \in KeyNumbers}
    ELSE {<<n>> : n \in Names} \cup (KeyNumbers \X KeyNumbers)

PutOp(k) == [kind |-> "put", key |-> k]

DeleteOp(k) == [kind |-> "delete", key |-> k]

DeleteRangeOp(t, from, to) == [kind |-> "range", table |-> t, from |-> from, to |-> to]

DeleteAfterOp(t, b) == [kind |-> "after", table |-> t, block |-> b]

\* The operations of a write batch.  A snapshot has none, a raw row is deleted by range.
KeyOperations(f) ==
    (IF f = "snap" THEN {} ELSE {PutOp(k) : k \in Parts(f)})
    \cup (IF f \in {"raw", "snap"} THEN {} ELSE {DeleteOp(k) : k \in Parts(f)})
    \cup (IF f # "raw" THEN {}
          ELSE {DeleteRangeOp(t, from, to) : t \in Names, from \in KeyNumbers, to \in KeyNumbers}
               \cup {DeleteAfterOp(t, b) : t \in Names, b \in KeyNumbers})

\* The keys that a delete removes.  An inverted range removes none.
MemoryDeleted(m, op) ==
    IF op.kind = "delete" THEN {op.key}
    ELSE {k \in DOMAIN m : /\ k[1] = op.table
                           /\ IF op.kind = "after" THEN k[2] > op.block ELSE k[2] \in op.from .. op.to}

\* Each write stores the parts of its key, so that a read shows whose value it is.
MemoryApply(m, op) ==
    IF op.kind = "put" THEN Over(m, op.key :> op.key) ELSE Without(m, MemoryDeleted(m, op))

RocksDeleted(d, op) ==
    IF op.kind = "delete" THEN {EncodeKey(op.key)}
    ELSE IF op.kind = "after"
         THEN IF op.block = MaxNumber THEN {}
              ELSE ToSet(Scan(d, RawKey(op.table, op.block + 1), UpperBound(NamePrefix(op.table))))
         ELSE IF op.from > op.to THEN {}
              ELSE ToSet(Scan(d, RawKey(op.table, op.from), EndKey(op.table, op.to)))

RocksApply(d, op) ==
    IF op.kind = "put" THEN Over(d, EncodeKey(op.key) :> op.key) ELSE Without(d, RocksDeleted(d, op))

KeyInit ==
    /\ family \in {"raw", "snap", "state", "map", "hash", "meta"}
    /\ memory = Empty /\ rocks = Empty

\* commit, and the calls that write one key.
Commit(ops) ==
    \E m \in {FoldLeft(MemoryApply, memory, ops)} :
        /\ Cardinality(DOMAIN m) <= MaxKeys
        /\ memory' = m
        /\ rocks' = FoldLeft(RocksApply, rocks, ops)
        /\ UNCHANGED family

\* take_raw_rows_after, and delete_raw_rows_after, which returns nothing.
TakeRowsAfter(t, b) ==
    /\ family = "raw"
    /\ memory' = Without(memory, {<<t, row[1]>> : row \in ToSet(MemoryTaken(t, b))})
    /\ rocks' = Without(rocks, {RawKey(t, row[1]) : row \in ToSet(RocksTaken(t, b))})
    /\ UNCHANGED family

\* put_reducer_state.
PutSnapshot(k) ==
    /\ family = "snap"
    /\ Cardinality(DOMAIN memory \cup {k}) <= MaxKeys
    /\ memory' = Over(memory, k :> k)
    /\ rocks' = Over(rocks, EncodeKey(k) :> k)
    /\ UNCHANGED family

MemoryStatesAfter(r, g, b) == {k \in DOMAIN memory : k[1] = r /\ k[2] = g /\ k[3] > b}

RocksStatesAfter(r, g, b) ==
    IF b = MaxNumber THEN {}
    ELSE ToSet(Scan(rocks, SnapKey(r, g, b + 1), UpperBound(SnapPrefix(r, g))))

\* delete_reducer_states_after.
DeleteStatesAfter(r, g, b) ==
    /\ family = "snap"
    /\ memory' = Without(memory, MemoryStatesAfter(r, g, b))
    /\ rocks' = Without(rocks, RocksStatesAfter(r, g, b))
    /\ UNCHANGED family

MemoryStatesUpTo(r, g, b) == {k \in DOMAIN memory : k[1] = r /\ k[2] = g /\ k[3] <= b}

RocksStatesUpTo(r, g, b) ==
    ToSet(Scan(rocks, SnapKey(r, g, 0),
               IF b < MaxNumber THEN SnapKey(r, g, b + 1) ELSE UpperBound(SnapPrefix(r, g))))

\* delete_reducer_states_up_to.
DeleteStatesUpTo(r, g, b) ==
    /\ family = "snap"
    /\ memory' = Without(memory, MemoryStatesUpTo(r, g, b))
    /\ rocks' = Without(rocks, RocksStatesUpTo(r, g, b))
    /\ UNCHANGED family

\* Batches of two operations only of raw rows: the operations of the other
\* families write one key each.
KeyNext ==
    \/ \E op \in KeyOperations(family) : Commit(<<op>>)
    \/ \E op1 \in KeyOperations(family), op2 \in KeyOperations(family) :
        family = "raw" /\ Commit(<<op1, op2>>)
    \/ \E t \in Names, b \in KeyNumbers : TakeRowsAfter(t, b)
    \/ \E k \in Parts(family) : PutSnapshot(k)
    \/ \E r \in Names, g \in GroupKeys, b \in KeyNumbers :
        DeleteStatesAfter(r, g, b) \/ DeleteStatesUpTo(r, g, b)

KeySpec == KeyInit /\ [][KeyNext]_keyVars

-----------------------------------------------------------------------------

\* Both backends give the same raw rows of each table in each range, in block
\* order, also when only the first n are asked for, after any batches: a table
\* whose name begins with another's, and the highest block, do not mix in.
RawRowsAgree ==
    family = "raw" =>
        \A t \in Names, from \in KeyNumbers :
            /\ MemoryTaken(t, from) = RocksTaken(t, from)
            /\ \A to \in KeyNumbers, n \in 1 .. 2 :
                from <= to => MemoryRows(t, from, to, n) = RocksRows(t, from, to, n)

\* Both backends find the same newest snapshot of a group at or before each
\* block, and the same groups, although one group key may begin another.
SnapshotsAgree ==
    family = "snap" =>
        /\ \A k \in Parts(family) : MemoryGet(k) = RocksGet(k)
        /\ \A r \in Names :
            /\ MemorySnapGroups(r) = RocksSnapGroups(r)
            /\ \A g \in GroupKeys, b \in KeyNumbers :
                MemoryStateBefore(r, g, b) = RocksStateBefore(r, g, b)

\* Both backends have the same groups of each reducer and view, and the same
\* MAP entries of each group, in the same order.
GroupStatesAgree ==
    \A n \in Names :
        /\ family = "state" =>
            /\ MemoryGroups(n) = RocksGroups(n)
            /\ MemoryHas(n) = RocksHas(n)
            /\ \A g \in GroupKeys : MemoryGet(<<n, g>>) = RocksGet(<<n, g>>)
        /\ family = "map" => \A g \in GroupKeys : MemoryEntries(n, g) = RocksEntries(n, g)

\* Both backends give the journal in the order of sequence and part, apart
\* from the metadata of the same column family, and the hashes in block order.
JournalAndHashesAgree ==
    /\ family = "meta" =>
        /\ MemoryJournal = RocksJournal
        /\ \A n \in Names : MemoryGet(<<n>>) = RocksGet(<<n>>)
    /\ family = "hash" => MemoryHashes = RocksHashes
=============================================================================
