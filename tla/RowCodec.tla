------------------------------ MODULE RowCodec ------------------------------
(***************************************************************************)
(* The format of stored values (storage/mod.rs): reducer and view state and *)
(* group keys as lists of values, the entries of MAP fields as one value,   *)
(* raw rows as a table. What is read from damaged data is an error, or what *)
(* was written. The group keys of a reducer (engine/reducer.rs) are not     *)
(* read back: they name the group.                                          *)
(*                                                                          *)
(* A value is its type and data: one number, the bytes of a payload, or the *)
(* name of a JSON document. `stored` is what storage holds of `written`.    *)
(***************************************************************************)
EXTENDS ByteFormat

CONSTANTS WideBytes,      \* of a 256-bit number (32)
          CountBytes,     \* of a length or a count (4)
          ColumnBytes,    \* of a column count (2)
          JsonText,       \* the text of each JSON document
          Values,         \* the values that are written
          RowValues,      \* those of rows
          Columns,        \* the columns of the table, in order
          MaxValues,
          MaxRows

ASSUME JsonTextAssumption ==
    \A d, e \in DOMAIN JsonText : IsText(JsonText[d]) /\ (JsonText[d] = JsonText[e] => d = e)

VARIABLES kind,      \* what is stored: "values", "entry" or "rows"
          written,
          stored,
          whole      \* stored is not damaged

valueVars == <<kind, written, stored, whole>>

ValueTag == [Null |-> 0, UInt64 |-> 1, Int64 |-> 2, Float64 |-> 3, String |-> 4, DateTime |-> 5,
        Boolean |-> 6, Bytes |-> 7, Uint256 |-> 8, Base58 |-> 9, JSON |-> 10]

\* How the data of each type is laid out after its tag.
Shape == [Null |-> "none", Boolean |-> "flag", Uint256 |-> "wide",
          UInt64 |-> "word", Int64 |-> "word", Float64 |-> "word", DateTime |-> "word",
          String |-> "sized", Bytes |-> "sized", Base58 |-> "sized", JSON |-> "sized"]

Value(type, data) == [type |-> type, data |-> data]

Null == Value("Null", <<>>)

-----------------------------------------------------------------------------
(* Writing *)

Sized(bytes) == LE(Len(bytes), CountBytes) \o bytes

EncodeValue(v) ==
    <<ValueTag[v.type]>> \o
    CASE Shape[v.type] = "none"  -> <<>>
      [] Shape[v.type] = "flag"  -> v.data
      [] Shape[v.type] = "wide"  -> v.data
      [] Shape[v.type] = "word"  -> LE(v.data[1], WordBytes)
      [] Shape[v.type] = "sized" -> Sized(IF v.type = "JSON" THEN JsonText[v.data[1]] ELSE v.data)

EncodeAll(values) == FlattenSeq([i \in DOMAIN values |-> EncodeValue(values[i])])

EncodeValues(values) == LE(Len(values), CountBytes) \o EncodeAll(values)

IsString(values) == Len(values) = 1 /\ values[1].type = "String"

\* The key of a reducer group, from the group-by values of a row: none has no
\* bytes, and a single String its own.
ReducerKey(values) ==
    CASE values = <<>>    -> <<>>
      [] IsString(values) -> values[1].data
      [] OTHER            -> EncodeValues(values)

RowsHeader(rows, columns) == LE(rows, CountBytes) \o LE(columns, ColumnBytes)

RowInOrder(map) ==
    EncodeAll([i \in DOMAIN Columns |-> IF Columns[i] \in DOMAIN map THEN map[Columns[i]] ELSE Null])

EncodeRowsFromMaps(maps) ==
    RowsHeader(Len(maps), Len(Columns)) \o FlattenSeq([i \in DOMAIN maps |-> RowInOrder(maps[i])])

\* A Row has a value for each column of its registry.
Row(map) == [i \in DOMAIN Columns |-> IF Columns[i] \in DOMAIN map THEN map[Columns[i]] ELSE Null]

RowsOf(maps) == [i \in DOMAIN maps |-> Row(maps[i])]

EncodeRows(rows) ==
    IF rows = <<>> THEN RowsHeader(0, 0)
    ELSE RowsHeader(Len(rows), Len(rows[1])) \o FlattenSeq([i \in DOMAIN rows |-> EncodeAll(rows[i])])

-----------------------------------------------------------------------------
(* Reading *)

WordValue(type, bytes) ==
    IF type \in {"Int64", "DateTime"} THEN Signed(FromLE(bytes), WordBytes) ELSE FromLE(bytes)

SizedValue(type, read) ==
    CASE type = "String" -> IF IsText(read.value) THEN Ok(Value(type, read.value), read.pos) ELSE Err
      [] type = "JSON"   -> LET docs == {d \in DOMAIN JsonText : JsonText[d] = read.value}
                            IN  IF docs = {} THEN Err
                                ELSE Ok(Value(type, <<CHOOSE d \in docs : TRUE>>), read.pos)
      [] OTHER           -> Ok(Value(type, read.value), read.pos)

DecodeData(type, bytes, pos) ==
    CASE Shape[type] = "none"  -> Ok(Value(type, <<>>), pos)
      [] Shape[type] = "flag"  -> Then(ReadBytes(bytes, pos, 1), LAMBDA r :
                                      Ok(Value(type, <<IF r.value[1] # 0 THEN 1 ELSE 0>>), r.pos))
      [] Shape[type] = "wide"  -> Then(ReadBytes(bytes, pos, WideBytes), LAMBDA r :
                                      Ok(Value(type, r.value), r.pos))
      [] Shape[type] = "word"  -> Then(ReadBytes(bytes, pos, WordBytes), LAMBDA r :
                                      Ok(Value(type, <<WordValue(type, r.value)>>), r.pos))
      [] Shape[type] = "sized" -> Then(ReadBytes(bytes, pos, CountBytes), LAMBDA size :
                                      Then(ReadBytes(bytes, size.pos, FromLE(size.value)), LAMBDA r :
                                          SizedValue(type, r)))

DecodeValue(bytes, pos) ==
    Then(ReadBytes(bytes, pos, 1), LAMBDA tag :
        LET types == {t \in DOMAIN ValueTag : ValueTag[t] = tag.value[1]}
        IN  IF types = {} THEN Err
            ELSE DecodeData(CHOOSE t \in types : TRUE, bytes, tag.pos))

\* The end of `decode_value_bytes` and `decode_values`.
FaultyAtEnd(bytes, read) == read
AtEnd(bytes, read) == Then(read, LAMBDA r : IF r.pos = Len(bytes) THEN r ELSE Err)

DecodeEntry(bytes) == AtEnd(bytes, DecodeValue(bytes, 0))

DecodeValues(bytes) ==
    AtEnd(bytes, Then(ReadBytes(bytes, 0, CountBytes), LAMBDA n :
                     ReadMany(FromLE(n.value), n.pos, LAMBDA pos : DecodeValue(bytes, pos))))

\* No rows end before the column count, and bytes after the rows are not looked at.
DecodeRows(bytes) ==
    Then(ReadBytes(bytes, 0, CountBytes), LAMBDA n :
        IF FromLE(n.value) = 0 THEN Ok(<<>>, n.pos)
        ELSE Then(ReadBytes(bytes, n.pos, ColumnBytes), LAMBDA c :
                 IF FromLE(c.value) # Len(Columns) THEN Err
                 ELSE ReadMany(FromLE(n.value), c.pos, LAMBDA row :
                          ReadMany(Len(Columns), row, LAMBDA pos : DecodeValue(bytes, pos)))))

-----------------------------------------------------------------------------
EmptyOf(k) == IF k = "values" THEN EncodeValues(<<>>) ELSE EncodeRowsFromMaps(<<>>)

ValueInit == kind \in {"values", "rows"} /\ written = <<>> /\ stored = EmptyOf(kind) /\ whole = TRUE

Store(new, bytes) == written' = new /\ stored' = bytes /\ UNCHANGED whole

\* A state or a group key with one more value.
WriteValue(v) ==
    /\ whole /\ kind = "values" /\ Len(written) < MaxValues
    /\ Store(Append(written, v), EncodeValues(Append(written, v))) /\ UNCHANGED kind

\* An entry of a MAP field.
WriteEntry(v) ==
    /\ whole /\ written = <<>> /\ kind = "values"
    /\ kind' = "entry" /\ Store(<<v>>, EncodeValue(v))

\* A block with one more row, from the maps that the host gave.
WriteRow(map) ==
    /\ whole /\ kind = "rows" /\ Len(written) < MaxRows
    /\ Store(Append(written, map), EncodeRowsFromMaps(Append(written, map))) /\ UNCHANGED kind

\* Storage gives back less, or more, than was written.
DamageValue ==
    /\ whole /\ whole' = FALSE /\ UNCHANGED <<kind, written>>
    /\ \/ \E n \in 0..(Len(stored) - 1) : stored' = SubSeq(stored, 1, n)
       \/ \E byte \in {0, 1, Base - 1} : stored' = Append(stored, byte)

\* A later commit writes the key anew.
Overwrite ==
    /\ ~whole \/ written # <<>>
    /\ kind' \in {"values", "rows"} /\ written' = <<>> /\ stored' = EmptyOf(kind') /\ whole' = TRUE

\* Every map of a row: each column has a value or is left out.
Maps == UNION {[cs -> RowValues] : cs \in SUBSET {Columns[i] : i \in DOMAIN Columns}}

ValueNext ==
    \/ \E v \in Values : WriteValue(v) \/ WriteEntry(v)
    \/ \E map \in Maps : WriteRow(map)
    \/ DamageValue
    \/ Overwrite

ValueSpec == ValueInit /\ [][ValueNext]_valueVars

-----------------------------------------------------------------------------
Gives(read, value) == read.ok /\ read.value = value

\* What is stored reads back as it was written: a list of values, an entry, the
\* rows of a block (a column that a row lacks is Null). Rows that come from maps
\* and rows that were read and are written again read back alike.
ReadsBack ==
    whole => CASE kind = "values" -> Gives(DecodeValues(stored), written)
               [] kind = "entry"  -> Gives(DecodeEntry(stored), written[1])
               [] kind = "rows"   -> /\ Gives(DecodeRows(stored), RowsOf(written))
                                     /\ Gives(DecodeRows(EncodeRows(RowsOf(written))), RowsOf(written))

\* Data that lost its end, or has bytes after it, is refused: a state, a group
\* key or an entry is never taken for another one. Rows with bytes after them
\* are the rows that were written.
DamageIsSeen ==
    ~whole => CASE kind = "values" -> ~DecodeValues(stored).ok
                [] kind = "entry"  -> ~DecodeEntry(stored).ok
                [] kind = "rows"   -> DecodeRows(stored).ok => Gives(DecodeRows(stored), RowsOf(written))

\* The bytes of a String are the encoding of another value that its column holds,
\* which is no String: GAP-30 names Null.
Spells(string, values) == IsString(string) /\ ~IsString(values) /\ string[1].data = EncodeValues(values)

\* Two group keys of a reducer have the same bytes only if they have the same values,
\* or if one is a single String that spells the encoding of the other. In that case,
\* and in no other, the code folds two groups of DEF-25 into one (GAP-30).
GroupKeysApart ==
    kind = "values" /\ whole =>
        \A key \in [DOMAIN written -> RowValues] :
            ReducerKey(key) = ReducerKey(written) =>
                key = written \/ Spells(key, written) \/ Spells(written, key)

=============================================================================
