---------------------------- MODULE JournalCodec ----------------------------
(***************************************************************************)
(* The format of a journal entry (storage/journal.rs): the operations of a  *)
(* write set one after the other, each a tag and its fields. An open that    *)
(* recovers the journal decodes the entries and commits them.                *)
(*                                                                          *)
(* An operation is its kind and the list of its fields; a number is a list  *)
(* of one.                                                                   *)
(***************************************************************************)
EXTENDS ByteFormat

CONSTANTS IndexBytes,     \* of a MAP field index in memory (2)
          Texts, Blobs, Numbers, Indices,   \* the fields that operations have
          MaxOps

VARIABLES ops,      \* the operations of the write set
          entry,    \* its journal entry in storage
          intact

entryVars == <<ops, entry, intact>>

OpTag == [PutRawRows |-> 0, SetReducerFinalized |-> 1, PutMvState |-> 2, PutMeta |-> 3,
        DeleteMvState |-> 4, DeleteRawRowsAfter |-> 5, PutBlockHash |-> 6, DeleteBlockHash |-> 7,
        PutJournal |-> 8, DeleteJournal |-> 9, DeleteRawRows |-> 10,
        PutReducerMapEntry |-> 11, DeleteReducerMapEntry |-> 12]

\* The fields that `encode` writes, in their order.
Encoded ==
    [PutRawRows            |-> <<"text", "number", "bytes">>,
     SetReducerFinalized   |-> <<"text", "bytes", "bytes">>,
     PutReducerMapEntry    |-> <<"text", "bytes", "index", "text", "bytes">>,
     DeleteReducerMapEntry |-> <<"text", "bytes", "index", "text">>,
     PutMvState            |-> <<"text", "bytes", "bytes">>,
     PutMeta               |-> <<"text", "bytes">>,
     DeleteMvState         |-> <<"text", "bytes">>,
     DeleteRawRowsAfter    |-> <<"text", "number">>,
     DeleteRawRows         |-> <<"text", "number", "number">>,
     PutBlockHash          |-> <<"number", "text">>,
     DeleteBlockHash       |-> <<"number">>,
     PutJournal            |-> <<"number", "number", "bytes">>,
     DeleteJournal         |-> <<"number", "number">>]

\* The fields that `decode` reads after each tag.
FaultyDecoded ==
    [Encoded EXCEPT !.DeleteReducerMapEntry = <<"text", "bytes", "text", "index">>]
Decoded ==
    [PutRawRows            |-> <<"text", "number", "bytes">>,
     SetReducerFinalized   |-> <<"text", "bytes", "bytes">>,
     PutReducerMapEntry    |-> <<"text", "bytes", "index", "text", "bytes">>,
     DeleteReducerMapEntry |-> <<"text", "bytes", "index", "text">>,
     PutMvState            |-> <<"text", "bytes", "bytes">>,
     PutMeta               |-> <<"text", "bytes">>,
     DeleteMvState         |-> <<"text", "bytes">>,
     DeleteRawRowsAfter    |-> <<"text", "number">>,
     DeleteRawRows         |-> <<"text", "number", "number">>,
     PutBlockHash          |-> <<"number", "text">>,
     DeleteBlockHash       |-> <<"number">>,
     PutJournal            |-> <<"number", "number", "bytes">>,
     DeleteJournal         |-> <<"number", "number">>]

-----------------------------------------------------------------------------
PutBytes(bytes) == LE(Len(bytes), WordBytes) \o bytes

EncodeField(shape, field) ==
    IF shape \in {"text", "bytes"} THEN PutBytes(field) ELSE LE(field[1], WordBytes)

EncodeOp(op) ==
    <<OpTag[op.kind]>> \o
    FlattenSeq([i \in DOMAIN op.fields |-> EncodeField(Encoded[op.kind][i], op.fields[i])])

Encode(batch) == FlattenSeq([i \in DOMAIN batch |-> EncodeOp(batch[i])])

-----------------------------------------------------------------------------
\* `Reader`: take, u64, u16, bytes, string.
Take(bytes, pos, n) == ReadBytes(bytes, pos, n)

ReadNumber(bytes, pos) ==
    Then(Take(bytes, pos, WordBytes), LAMBDA r : Ok(<<FromLE(r.value)>>, r.pos))

DecodeField(shape, bytes, pos) ==
    Then(ReadNumber(bytes, pos), LAMBDA n :
        CASE shape = "number" -> n
          [] shape = "index"  -> IF n.value[1] < Base^IndexBytes THEN n ELSE Err
          [] shape = "bytes"  -> Take(bytes, n.pos, n.value[1])
          [] shape = "text"   -> Then(Take(bytes, n.pos, n.value[1]), LAMBDA r :
                                     IF IsText(r.value) THEN r ELSE Err))

DecodeFields(shapes, bytes, pos) ==
    LET Read[i \in 0..Len(shapes)] ==
            IF i = 0 THEN Ok(<<>>, pos)
            ELSE Then(Read[i - 1], LAMBDA list :
                     Then(DecodeField(shapes[i], bytes, list.pos), LAMBDA f :
                         Ok(Append(list.value, f.value), f.pos)))
    IN  Read[Len(shapes)]

DecodeOp(bytes, pos) ==
    Then(Take(bytes, pos, 1), LAMBDA tag :
        LET kinds == {k \in DOMAIN OpTag : <<OpTag[k]>> = tag.value}
        IN  IF kinds = {} THEN Err
            ELSE LET k == CHOOSE k \in kinds : TRUE
                 IN  Then(DecodeFields(Decoded[k], bytes, tag.pos), LAMBDA r :
                         Ok([kind |-> k, fields |-> r.value], r.pos)))

\* Operations until the data ends: an entry has no count of them.
Decode(bytes) ==
    LET Read[n \in 0..Len(bytes)] ==
            IF n = 0 THEN Ok(<<>>, 0)
            ELSE Then(Read[n - 1], LAMBDA batch :
                     IF batch.pos >= Len(bytes) THEN batch
                     ELSE Then(DecodeOp(bytes, batch.pos), LAMBDA op :
                              Ok(Append(batch.value, op.value), op.pos)))
    IN  Read[Len(bytes)]

-----------------------------------------------------------------------------
Domain(shape) ==
    CASE shape = "text"   -> Texts
      [] shape = "bytes"  -> Blobs
      [] shape = "number" -> {<<n>> : n \in Numbers}
      [] shape = "index"  -> {<<n>> : n \in Indices}

\* Every operation with such fields.
Operations ==
    UNION {{[kind |-> k, fields |-> f] :
              f \in {g \in [1..Len(Encoded[k]) -> Texts \union Blobs \union {<<n>> : n \in Numbers \union Indices}] :
                       \A i \in DOMAIN g : g[i] \in Domain(Encoded[k][i])}} : k \in DOMAIN OpTag}

EntryInit == ops = <<>> /\ entry = <<>> /\ intact = TRUE

\* A call adds an operation to its write set, which is journaled.
Journal(op) ==
    /\ intact /\ Len(ops) < MaxOps
    /\ ops' = Append(ops, op) /\ entry' = Encode(ops') /\ UNCHANGED intact

\* Storage gives back less, or more, than was written.
DamageEntry ==
    /\ intact /\ intact' = FALSE /\ UNCHANGED ops
    /\ \/ \E n \in 0..(Len(entry) - 1) : entry' = SubSeq(entry, 1, n)
       \/ \E byte \in {0, 7, 13} : entry' = Append(entry, byte)

\* The ack deletes the entry.
Forget == (~intact \/ ops # <<>>) /\ ops' = <<>> /\ entry' = <<>> /\ intact' = TRUE

EntryNext == (\E op \in Operations : Journal(op)) \/ DamageEntry \/ Forget

EntrySpec == EntryInit /\ [][EntryNext]_entryVars

-----------------------------------------------------------------------------
\* A recovery commits the operations of the call, each with its own kind and
\* fields in their places, in their order.
RecoversTheCall == intact => Decode(entry).ok /\ Decode(entry).value = ops

\* An entry that lost its end in the middle of an operation, or has bytes after
\* its last one, is refused. Only a cut between two operations is not seen: the
\* operations before it are the call's.
EntryDamageIsSeen ==
    ~intact /\ Decode(entry).ok =>
        /\ IsStrictPrefix(Decode(entry).value, ops)
        /\ entry = Encode(Decode(entry).value)

=============================================================================
