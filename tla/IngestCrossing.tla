--------------------------- MODULE IngestCrossing ---------------------------
(***************************************************************************)
(* The rows of an ingest on their way from JavaScript to the engine          *)
(* (TableWriter in codec.ts, decode_ingest in js_codec/mod.rs): no names but *)
(* those of the tables are sent, a row is its block number and a value for   *)
(* each column of its table. The writer is kept from call to call.           *)
(*                                                                          *)
(* A JavaScript row is a list of fields [key, value].                        *)
(***************************************************************************)
EXTENDS SlotCodec

CONSTANTS
    Tables,         \* the tables of the schema: a list of [name, columns]
    Inputs,         \* what the host may pass: lists of [name, rows]
    MaxIngests

VARIABLES data, writer, at, stage, received, ingests

ingestVars == <<data, writer, at, stage, received, ingests>>

\* A row that is not an object.
NoRow == <<Js("null", <<>>)>>

BlockNumber == <<0, 0>>     \* "block_number"

-----------------------------------------------------------------------------
(* TableWriter *)

Known(name) == \E t \in DOMAIN Tables : Tables[t].name = name

ColumnsOf(name) == Tables[CHOOSE t \in DOMAIN Tables : Tables[t].name = name].columns

\* A table that the schema lacks is left out; with rows, it throws.
Refused(d) == \E i \in DOMAIN d : ~Known(d[i].name) /\ d[i].rows # <<>>

KnownTables(d) == SelectSeq(d, LAMBDA t : Known(t.name))

Header(w, tables) ==
    LET counts == [i \in DOMAIN tables |->
                      <<Len(tables[i].name), Len(tables[i].rows), Len(ColumnsOf(tables[i].name)) + 1>>]
        names == FlattenSeq([i \in DOMAIN tables |-> tables[i].name])
    IN  [WriteInts(Reset(w, 2), <<Len(tables)>> \o FlattenSeq(counts)) EXCEPT !.strings = names]

\* The rows to write, each with its table.
RowsOf(tables) ==
    FlattenSeq([i \in DOMAIN tables |->
        [r \in DOMAIN tables[i].rows |-> [table |-> tables[i].name, row |-> tables[i].rows[r]]]])

HasField(row, key) == \E i \in DOMAIN row : row[i].key = key

FieldOf(row, key) ==
    IF HasField(row, key) THEN row[CHOOSE i \in DOMAIN row : row[i].key = key].value ELSE Undefined

FaultyRowValues(row, columns) ==
    LET present == SelectSeq(<<BlockNumber>> \o columns, LAMBDA c : HasField(row, c))
    IN  [i \in DOMAIN present |-> FieldOf(row, present[i])]
RowValues(row, columns) ==
    LET names == <<BlockNumber>> \o columns IN [i \in DOMAIN names |-> FieldOf(row, names[i])]

-----------------------------------------------------------------------------
(* decode_ingest *)

DecodeRow(in, width, pos) ==
    Then(DecodeValue(in, pos, TRUE), LAMBDA b :
        IF b.value.type # "UInt64" THEN Err
        ELSE Then(ReadMany(width, b.pos, LAMBDA p : DecodeValue(in, p, TRUE)), LAMBDA values :
                 Ok([block |-> b.value.data, values |-> values.value], values.pos)))

\* The rows of each block, in order.
ByBlock(rows) ==
    [b \in {rows[i].block : i \in DOMAIN rows} |->
        LET mine == SelectSeq(rows, LAMBDA r : r.block = b)
        IN  [i \in DOMAIN mine |-> mine[i].values]]

\* The rows of a table, after those of the tables before it.
DecodeTable(in, done, name, counts, pos) ==
    IF ~Known(name) THEN (IF counts.rows = 0 THEN Ok(done, pos) ELSE Err)
    ELSE IF counts.width # Len(ColumnsOf(name)) + 1 THEN Err
    ELSE Then(ReadMany(counts.rows, pos, LAMBDA p : DecodeRow(in, counts.width - 1, p)), LAMBDA rows :
             Ok(Append(done, [name |-> name, blocks |-> ByBlock(rows.value)]), rows.pos))

DecodeCounts(in, pos) ==
    Then(DecodeInt(in, pos), LAMBDA name :
    Then(DecodeInt(in, name.pos), LAMBDA rows :
    Then(DecodeInt(in, rows.pos), LAMBDA width :
        Ok([name |-> name.value, rows |-> rows.value, width |-> width.value], width.pos))))

DecodeNames(in, counts, pos) ==
    LET Read[i \in 0..Len(counts)] ==
            IF i = 0 THEN Ok(<<>>, pos)
            ELSE Then(Read[i - 1], LAMBDA done :
                     Then(DecodeString(in, done.pos, counts[i].name), LAMBDA name :
                         Ok(Append(done.value, name.value), name.pos)))
    IN  Read[Len(counts)]

DecodeTables(in, counts, names) ==
    LET Read[i \in 0..Len(counts)] ==
            IF i = 0 THEN Ok(<<>>, names.pos)
            ELSE Then(Read[i - 1], LAMBDA done :
                     DecodeTable(in, done.value, names.value[i], counts[i], done.pos))
    IN  Read[Len(counts)]

DecodeIngest(in) ==
    Then(DecodeInt(in, Start), LAMBDA n :
    Then(ReadMany(n.value, n.pos, LAMBDA p : DecodeCounts(in, p)), LAMBDA counts :
    Then(DecodeNames(in, counts.value, counts.pos), LAMBDA names :
        Finish(in, DecodeTables(in, counts.value, names)))))

\* `decode_rows`: the ints start with their count and the slot count.
DecodeRows(w) ==
    LET arrays == ArraysRead([w EXCEPT !.ints[1] = w.intCount, !.ints[2] = w.slots])
    IN  DecodeIngest([arrays EXCEPT !.ints = SubSeq(@, 3, Len(@))])

-----------------------------------------------------------------------------
IngestInit ==
    /\ data = <<>> /\ writer = NewWriter /\ at = 0 /\ stage = "idle"
    /\ received = Err /\ ingests = 0

\* `encode` starts over with the writer of the last call.
StartIngest(d) ==
    /\ stage \in {"idle", "done"} /\ ingests < MaxIngests
    /\ data' = d /\ at' = 0 /\ ingests' = ingests + 1
    /\ writer' = IF Refused(d) THEN Reset(writer, 2) ELSE Header(writer, KnownTables(d))
    /\ stage' = IF Refused(d) THEN "done" ELSE "rows"
    /\ received' = Err

\* The next row; one that is not an object throws.
WriteRow ==
    LET rows == RowsOf(KnownTables(data))
        next == rows[at + 1]
    IN  /\ stage = "rows" /\ at < Len(rows)
        /\ at' = at + 1
        /\ writer' = IF next.row = NoRow THEN writer
                     ELSE WriteAll(writer, RowValues(next.row, ColumnsOf(next.table)))
        /\ stage' = IF next.row = NoRow THEN "done" ELSE "rows"
        /\ UNCHANGED <<data, received, ingests>>

\* The engine reads the writer.
Send ==
    /\ stage = "rows" /\ at = Len(RowsOf(KnownTables(data)))
    /\ received' = DecodeRows(writer)
    /\ stage' = "done"
    /\ UNCHANGED <<data, writer, at, ingests>>

\* The host opens anew.
OpenAnew ==
    /\ stage = "done"
    /\ data' = <<>> /\ writer' = NewWriter /\ at' = 0 /\ stage' = "idle"
    /\ received' = Err /\ ingests' = 0

IngestNext == (\E d \in Inputs : StartIngest(d)) \/ WriteRow \/ Send \/ OpenAnew

IngestSpec == IngestInit /\ [][IngestNext]_ingestVars

-----------------------------------------------------------------------------
\* The value that the engine reads from a JavaScript value. No conversion to the type
\* of the column follows it today (GAP-1).
Read(v) ==
    CASE v.typeof \in {"null", "undefined"} -> Null
      [] v.typeof = "boolean" -> Value("Boolean", v.data)
      [] v.typeof = "string"  -> Value("String", FromUnits(v.data))
      [] v.typeof = "bytes"   -> Value("Bytes", v.data)
      [] v.typeof = "object"  -> Value("String", v.data)
      [] v.typeof = "number" /\ ~IsSafe(v.data) -> Value("Float64", v.data)
      [] OTHER -> BigInt(v.data[1])

Accepted(row) == row # NoRow /\ Read(FieldOf(row, BlockNumber)).type = "UInt64"

\* The rows of the input in a table and a block, as values of its columns.
RowsExpected(t, b) ==
    LET mine == SelectSeq(t.rows, LAMBDA r : FieldOf(r, BlockNumber).data = b)
    IN  [i \in DOMAIN mine |->
            [c \in DOMAIN ColumnsOf(t.name) |-> Read(FieldOf(mine[i], ColumnsOf(t.name)[c]))]]

\* The engine gets the rows of the call by table and block, in their order, each
\* value in the place of its column, and a field that the row lacks is Null;
\* or, for a row without a whole block number or a table that the schema
\* lacks, nothing. A call that failed midway leaves nothing for the next.
RowsLand ==
    stage = "done" =>
        LET good == ~Refused(data)
                    /\ \A i \in DOMAIN data : \A r \in DOMAIN data[i].rows : Accepted(data[i].rows[r])
            tables == KnownTables(data)
        IN  /\ received.ok = good
            /\ good => received.value = [i \in DOMAIN tables |->
                   [name |-> tables[i].name,
                    blocks |-> [b \in {FieldOf(tables[i].rows[r], BlockNumber).data : r \in DOMAIN tables[i].rows} |->
                                    RowsExpected(tables[i], b)]]]

=============================================================================
