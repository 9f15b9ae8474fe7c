--------------------------- MODULE BatchCrossing ---------------------------
(***************************************************************************)
(* A change batch on its way to JavaScript (encode_batch in js_codec/mod.rs, *)
(* readBatch in codec.ts): the schema of a record is sent only when it is    *)
(* another one than that of the record before it in its table.               *)
(*                                                                          *)
(* A head or the previous values of a record are a list of at most one.      *)
(***************************************************************************)
EXTENDS SlotCodec

CONSTANTS Heads, Names, Records, PerfTrees, MaxTables, MaxRecords

VARIABLES
    batch,          \* as far as it is encoded: [sequence, finalized, latest, tables, perf]
    left,           \* what is left: [tables, records (of the last table), perf]
    enc             \* the Encoder

batchVars == <<batch, left, enc>>

-----------------------------------------------------------------------------
(* Encoding *)

HeadItems(head) ==
    IF head = <<>> THEN <<Item("int", 0)>>
    ELSE <<Item("int", 1), Item("number", head[1].number), Item("string", head[1].hash)>>

Operation == [insert |-> 0, update |-> 1, delete |-> 2]

SchemaItems(s) ==
    Items("int", <<Len(s.keys), Len(s.columns)>>) \o <<Item("string", s.table)>> \o
    Items("string", s.keys \o s.columns)

FaultyNewSchema(records, i) == i = 1 \/ Len(records[i].schema.columns) # Len(records[i - 1].schema.columns)
NewSchema(records, i) == i = 1 \/ records[i].schema # records[i - 1].schema

RecordItems(records, i) ==
    LET r == records[i]
    IN  <<Item("int", Operation[r.operation] + 4 * Len(r.prev) + (IF NewSchema(records, i) THEN 8 ELSE 0))>> \o
        (IF NewSchema(records, i) THEN SchemaItems(r.schema) ELSE <<>>) \o
        Items("value", r.key \o r.values \o FlattenSeq(r.prev))

Kind == [pipeline |-> 0, raw_table |-> 1, reducer |-> 2, mv |-> 3, parallel |-> 4]

RECURSIVE PerfItems(_)
PerfItems(node) ==
    <<Item("int", Kind[node.kind]), Item("int", Len(node.children)),
      Item("string", node.name), Item("number", node.duration)>> \o
    FlattenSeq([i \in DOMAIN node.children |-> PerfItems(node.children[i])])

-----------------------------------------------------------------------------
(* Reading. A position counts the slots and the ints read, and has the layout
   of the records. *)

NoLayout == [table |-> <<>>, keys |-> <<>>, columns |-> <<>>]

Skip(pos, slots, ints) == [pos EXCEPT !.slot = @ + slots, !.at = @ + ints]

ReadHead(in, pos) ==
    IF IntAt(in, pos.at) = 0 THEN Ok(<<>>, Skip(pos, 0, 1))
    ELSE Ok(<<[number |-> NumberAt(in, pos.slot), hash |-> StringOf(in, pos.slot + 1)]>>, Skip(pos, 2, 1))

StringsAt(in, slot, n) == [i \in 1..n |-> StringOf(in, slot + i - 1)]

ValuesAt(in, slot, n) == [i \in 1..n |-> ValueAt(in, slot + i - 1)]

\* Bits of the flags.
HasPrev(flags) == (flags \div 4) % 2 = 1
HasSchema(flags) == flags \div 8 = 1

ReadLayout(in, pos) ==
    LET keys == IntAt(in, pos.at)
        columns == IntAt(in, pos.at + 1)
    IN  [Skip(pos, 1 + keys + columns, 2) EXCEPT !.layout =
            [table |-> StringOf(in, pos.slot), keys |-> StringsAt(in, pos.slot + 1, keys),
             columns |-> StringsAt(in, pos.slot + 1 + keys, columns)]]

\* A record is read by the layout before it when it brings none.
ReadRecord(in, pos) ==
    LET flags == IntAt(in, pos.at)
        l == IF HasSchema(flags) THEN ReadLayout(in, Skip(pos, 0, 1)) ELSE Skip(pos, 0, 1)
        k == Len(l.layout.keys)
        c == Len(l.layout.columns)
    IN  Ok([schema |-> l.layout,
            operation |-> CHOOSE op \in DOMAIN Operation : Operation[op] = flags % 4,
            key |-> ValuesAt(in, l.slot, k), values |-> ValuesAt(in, l.slot + k, c),
            prev |-> IF HasPrev(flags) THEN <<ValuesAt(in, l.slot + k + c, c)>> ELSE <<>>],
           Skip(l, k + c + (IF HasPrev(flags) THEN c ELSE 0), 0))

ReadTable(in, pos) ==
    LET start == [Skip(pos, 1, 1) EXCEPT !.layout = NoLayout]
        records == ReadMany(IntAt(in, pos.at), start, LAMBDA p : ReadRecord(in, p))
    IN  Ok([name |-> StringOf(in, pos.slot), records |-> records.value], records.pos)

RECURSIVE ReadPerfNodes(_, _, _)
ReadPerfNodes(in, pos, count) ==
    IF count = 0 THEN Ok(<<>>, pos)
    ELSE LET children == ReadPerfNodes(in, Skip(pos, 2, 2), IntAt(in, pos.at + 1))
             others == ReadPerfNodes(in, children.pos, count - 1)
         IN  Ok(<<[kind |-> CHOOSE k \in DOMAIN Kind : Kind[k] = IntAt(in, pos.at),
                   name |-> StringOf(in, pos.slot), duration |-> NumberAt(in, pos.slot + 1),
                   children |-> children.value]>> \o others.value, others.pos)

ReadBatch(in) ==
    LET finalized == ReadHead(in, [slot |-> 1, at |-> 0, layout |-> NoLayout])
        latest == ReadHead(in, finalized.pos)
        tables == ReadMany(IntAt(in, latest.pos.at), Skip(latest.pos, 0, 1), LAMBDA p : ReadTable(in, p))
        perf == ReadPerfNodes(in, Skip(tables.pos, 0, 1), IntAt(in, tables.pos.at))
    IN  [sequence |-> NumberAt(in, 0)[1], finalized |-> finalized.value, latest |-> latest.value,
         tables |-> tables.value, perf |-> perf.value]

-----------------------------------------------------------------------------
(* encode_batch: a step for the start and for each round of its loops *)

BeginBatch(sequence, finalized, latest, count) ==
    LET items == <<Item("number", <<sequence>>)>> \o HeadItems(finalized) \o HeadItems(latest) \o <<Item("int", count)>>
    IN  [batch |-> [sequence |-> sequence, finalized |-> finalized, latest |-> latest, tables |-> <<>>, perf |-> <<>>],
         left |-> [tables |-> count, records |-> 0, perf |-> TRUE],
         enc |-> PutAll(NewEncoder(FALSE), items)]

BatchInit ==
    \E f, l \in Heads, count \in 1..MaxTables :
        \E start \in {BeginBatch(1, f, l, count)} :
            batch = start.batch /\ left = start.left /\ enc = start.enc

EncodeTable(name, count) ==
    /\ left.tables > 0 /\ left.records = 0
    /\ \A i \in DOMAIN batch.tables : batch.tables[i].name # name
    /\ batch' = [batch EXCEPT !.tables = Append(@, [name |-> name, records |-> <<>>])]
    /\ left' = [left EXCEPT !.tables = @ - 1, !.records = count]
    /\ enc' = PutAll(enc, <<Item("string", name), Item("int", count)>>)

EncodeRecord(r) ==
    /\ left.records > 0
    /\ \E records \in {Append(Last(batch.tables).records, r)} :
        /\ batch' = [batch EXCEPT !.tables[Len(batch.tables)].records = records]
        /\ enc' = PutAll(enc, RecordItems(records, Len(records)))
    /\ left' = [left EXCEPT !.records = @ - 1]

EncodePerf(nodes) ==
    /\ left = [tables |-> 0, records |-> 0, perf |-> TRUE]
    /\ batch' = [batch EXCEPT !.perf = nodes]
    /\ left' = [left EXCEPT !.perf = FALSE]
    /\ enc' = PutAll(enc, <<Item("int", Len(nodes))>> \o FlattenSeq([i \in DOMAIN nodes |-> PerfItems(nodes[i])]))

\* The next batch, on a new encoder.
NextBatch(f, l, count) ==
    /\ ~left.perf
    /\ \E start \in {BeginBatch(2, f, l, count)} :
        batch' = start.batch /\ left' = start.left /\ enc' = start.enc

BatchNext ==
    \/ \E name \in Names, count \in 0..MaxRecords : EncodeTable(name, count)
    \/ \E r \in Records : EncodeRecord(r)
    \/ \E nodes \in PerfTrees : EncodePerf(nodes)
    \/ \E f, l \in Heads, count \in 1..MaxTables : NextBatch(f, l, count)

BatchSpec == BatchInit /\ [][BatchNext]_batchVars

-----------------------------------------------------------------------------
\* What JavaScript is to see.
SeenValue(v) ==
    CASE v.type = "Null"    -> JsNull
      [] v.type = "Boolean" -> Js("boolean", v.data)
      [] v.type = "String"  -> Js("string", Units(v.data))
      [] v.type \in {"UInt64", "Int64", "DateTime", "Float64"} ->
            Js(IF v.type = "Float64" \/ IsSafe(v.data) THEN "number" ELSE "bigint", v.data)
      [] v.type = "Uint256" -> Js("string", HexPrefix \o Hex(v.data))
      [] v.type = "Base58"  -> Js("string", Hex(v.data))
      [] v.type = "Bytes"   -> Js("bytes", v.data)
      [] v.type = "JSON"    -> Js("object", v.data)

EachSeen(values) == [i \in DOMAIN values |-> SeenValue(values[i])]

EachUnits(names) == [i \in DOMAIN names |-> Units(names[i])]

SeenRecord(r) ==
    [schema |-> [table |-> Units(r.schema.table), keys |-> EachUnits(r.schema.keys),
                 columns |-> EachUnits(r.schema.columns)],
     operation |-> r.operation, key |-> EachSeen(r.key), values |-> EachSeen(r.values),
     prev |-> [i \in DOMAIN r.prev |-> EachSeen(r.prev[i])]]

SeenHead(head) == [i \in DOMAIN head |-> [number |-> head[i].number, hash |-> Units(head[i].hash)]]

RECURSIVE SeenPerf(_)
SeenPerf(node) ==
    [kind |-> node.kind, name |-> Units(node.name), duration |-> node.duration,
     children |-> [i \in DOMAIN node.children |-> SeenPerf(node.children[i])]]

\* The target gets the batch that the engine made: every record in its table and
\* its place, with its key, its values and its previous values under the names of
\* its own schema, the heads and the perf tree.
BatchArrives ==
    ~left.perf => \A in \in {ReadInput(enc)} :
        ReadBatch(in) =
            [sequence |-> batch.sequence, finalized |-> SeenHead(batch.finalized), latest |-> SeenHead(batch.latest),
             tables |-> [i \in DOMAIN batch.tables |->
                 [name |-> Units(batch.tables[i].name),
                  records |-> [r \in DOMAIN batch.tables[i].records |-> SeenRecord(batch.tables[i].records[r])]]],
             perf |-> [i \in DOMAIN batch.perf |-> SeenPerf(batch.perf[i])]]

=============================================================================
