----------------------------- MODULE SlotCodec -----------------------------
(***************************************************************************)
(* The layout in which values cross between the engine and JavaScript       *)
(* (js_codec/mod.rs and codec.ts): a slot of a tag and a number for each    *)
(* value, ints for counts and ids, and one joined string.                   *)
(*                                                                          *)
(* An engine string is a list of characters, a JavaScript string a list of  *)
(* UTF-16 units: the character Astral takes two. A value of the engine is   *)
(* its type and data, a JavaScript value its `typeof` and data.             *)
(***************************************************************************)
EXTENDS Reader, Integers, Sequences, SequencesExt

CONSTANTS MaxSafeInteger,
          Word            \* 2^64: the numbers of a word of a BigInt

Ascii == 0..7
Astral == 9             \* 8 is past ASCII too, and takes one unit
High == 91
Low == 92
Replacement == 8        \* what a lone surrogate reads as

Value(type, data) == [type |-> type, data |-> data]

Null == Value("Null", <<>>)

Js(type, data) == [typeof |-> type, data |-> data]

JsNull == Js("null", <<>>)

Undefined == Js("undefined", <<>>)

\* A number is its integer part, followed by 5 when it has a half.
IsSafe(number) == Len(number) = 1 /\ -MaxSafeInteger <= number[1] /\ number[1] <= MaxSafeInteger

-----------------------------------------------------------------------------
(* Strings *)

Units(s) == FlattenSeq([i \in DOMAIN s |-> IF s[i] = Astral THEN <<High, Low>> ELSE <<s[i]>>])

\* `from_utf16_lossy`
FromUnits(units) ==
    LET Pair(i) == i < Len(units) /\ units[i] = High /\ units[i + 1] = Low
        At(i) == CASE Pair(i)                          -> <<Astral>>
                   [] i > 1 /\ units[i] = Low /\ Pair(i - 1) -> <<>>
                   [] units[i] \in {High, Low}         -> <<Replacement>>
                   [] OTHER                            -> <<units[i]>>
    IN  FlattenSeq([i \in DOMAIN units |-> At(i)])

\* Bytes as text: two digits for each.
Hex(bytes) == FlattenSeq([i \in DOMAIN bytes |-> <<0, bytes[i]>>])

HexPrefix == <<0, 7>>

-----------------------------------------------------------------------------
(* Engine to JavaScript: Encoder *)

NewEncoder(bytesAsHex) ==
    [slots |-> <<>>, ints |-> <<>>, units |-> <<>>, ends |-> <<>>,
     ids |-> <<>>, others |-> <<>>, bytesAsHex |-> bytesAsHex]

FaultyPushString(enc, s) ==
    [enc EXCEPT !.units = @ \o Units(s), !.ends = Append(@, Len(enc.units) + Len(s))]
PushString(enc, s) ==
    [enc EXCEPT !.units = @ \o Units(s), !.ends = Append(@, Len(enc.units) + Len(Units(s)))]

LastId(enc) == Len(enc.ends) - 1

\* Each distinct string is sent once. The ids are of this list of strings.
Interned(enc, s) == \E i \in DOMAIN enc.ids : enc.ids[i].text = s

StringId(enc, s) == enc.ids[CHOOSE i \in DOMAIN enc.ids : enc.ids[i].text = s].id

Intern(enc, s) ==
    IF Interned(enc, s) THEN enc
    ELSE [PushString(enc, s) EXCEPT !.ids = Append(@, [text |-> s, id |-> Len(enc.ends)])]

PutInt(enc, n) == [enc EXCEPT !.ints = Append(@, n)]

PutSlot(enc, tag, num) == [enc EXCEPT !.slots = Append(@, [tag |-> tag, num |-> num])]

PutNumber(enc, n) == PutSlot(enc, "NUMBER", n)

PutString(enc, s) ==
    LET e == Intern(enc, s) IN PutSlot(e, "STRING", <<StringId(e, s)>>)

PutText(enc, s) ==
    LET e == PushString(enc, s) IN PutSlot(e, "STRING", <<LastId(e)>>)

PutOther(enc, v) ==
    [PutSlot(enc, "OTHER", <<Len(enc.others)>>) EXCEPT !.others = Append(@, v)]

PutValue(enc, v) ==
    CASE v.type = "Null"    -> PutSlot(enc, "NULL", <<0>>)
      [] v.type = "Boolean" -> PutSlot(enc, IF v.data = <<1>> THEN "TRUE" ELSE "FALSE", <<0>>)
      [] v.type = "Float64" -> PutNumber(enc, v.data)
      [] v.type \in {"UInt64", "Int64", "DateTime"} /\ IsSafe(v.data) -> PutNumber(enc, v.data)
      [] v.type = "String"  -> PutString(enc, v.data)
      [] v.type = "Uint256" -> PutText(enc, HexPrefix \o Hex(v.data))
      [] v.type = "Base58"  -> PutText(enc, Hex(v.data))
      [] v.type = "Bytes" /\ enc.bytesAsHex -> PutText(enc, Hex(v.data))
      [] OTHER              -> PutOther(enc, v)

\* A list of things to put: ints, numbers, strings, names (a string id as an
\* int) and columns (as a name, of a string of its own), values.
Item(put, of) == [put |-> put, of |-> of]

PutItem(enc, item) ==
    CASE item.put = "int"    -> PutInt(enc, item.of)
      [] item.put = "number" -> PutNumber(enc, item.of)
      [] item.put = "string" -> PutString(enc, item.of)
      [] item.put = "value"  -> PutValue(enc, item.of)
      [] item.put = "name"   -> LET e == Intern(enc, item.of) IN PutInt(e, StringId(e, item.of))
      [] item.put = "column" -> LET e == PushString(enc, item.of) IN PutInt(e, LastId(e))

Items(put, list) == [i \in DOMAIN list |-> Item(put, list[i])]

PutAll(enc, items) == FoldLeft(PutItem, enc, items)

\* Lists one after the other, each put before the next one is.
PutLists(enc, lists) ==
    FoldLeft(LAMBDA acc, items : CHOOSE e \in {PutAll(a, items) : a \in {acc}} : TRUE, enc, lists)

-----------------------------------------------------------------------------
(* ... as codec.ts reads it *)

\* `value_to_js`: the host values of OTHER slots.
HostValue(v) ==
    CASE v.type \in {"UInt64", "Int64", "DateTime"} -> Js("bigint", v.data)
      [] v.type = "Bytes"                           -> Js("bytes", v.data)
      [] v.type = "JSON"                            -> Js("object", v.data)

ReadInput(enc) ==
    [slots |-> enc.slots, ints |-> enc.ints,
     strings |-> [i \in DOMAIN enc.ends |->
                    SubSeq(enc.units, (IF i = 1 THEN 0 ELSE enc.ends[i - 1]) + 1, enc.ends[i])],
     others |-> [i \in DOMAIN enc.others |-> HostValue(enc.others[i])]]

\* Indices in JavaScript start at 0.
IntAt(input, i) == input.ints[i + 1]

StringOf(input, i) == input.strings[input.slots[i + 1].num[1] + 1]

NumberAt(input, i) == input.slots[i + 1].num

ValueAt(input, i) ==
    LET slot == input.slots[i + 1]
    IN  CASE slot.tag = "NUMBER" -> Js("number", slot.num)
          [] slot.tag = "STRING" -> Js("string", StringOf(input, i))
          [] slot.tag = "TRUE"   -> Js("boolean", <<1>>)
          [] slot.tag = "FALSE"  -> Js("boolean", <<0>>)
          [] slot.tag = "OTHER"  -> input.others[slot.num[1] + 1]
          [] slot.tag = "NULL"   -> JsNull

\* A field of a row: Null is as a field that the row lacks.
FieldAt(input, i) == IF ValueAt(input, i) = JsNull THEN Undefined ELSE ValueAt(input, i)

-----------------------------------------------------------------------------
(* JavaScript to engine: Writer *)

\* The arrays are kept from call to call; the counts say how much is in use.
NewWriter == [ints |-> <<>>, intCount |-> 0, tags |-> <<>>, nums |-> <<>>, slots |-> 0,
              strings |-> <<>>, others |-> <<>>]

SetAt(array, i, x) == IF i <= Len(array) THEN [array EXCEPT ![i] = x] ELSE Append(array, x)

WriteInt(w, n) == [w EXCEPT !.ints = SetAt(@, w.intCount + 1, n), !.intCount = @ + 1]

WriteInts(w, list) == FoldLeft(WriteInt, w, list)

\* Start over, with ints for a header: what they held is still there.
Reset(w, header) ==
    [WriteInts([w EXCEPT !.intCount = 0], [i \in 1..header |-> IF i <= Len(w.ints) THEN w.ints[i] ELSE 0])
        EXCEPT !.slots = 0, !.strings = <<>>, !.others = <<>>]

\* Only a number, a string and a host value set the number of their slot.
WriteTag(w, tag) ==
    [w EXCEPT !.tags = SetAt(@, w.slots + 1, tag),
              !.nums = IF Len(@) > w.slots THEN @ ELSE Append(@, <<0>>), !.slots = @ + 1]

WriteSlot(w, tag, num) == LET next == WriteTag(w, tag) IN [next EXCEPT !.nums[next.slots] = num]

Write(w, v) ==
    CASE v.typeof = "number"  -> WriteSlot(w, "NUMBER", v.data)
      [] v.typeof = "string"  -> [WriteSlot(w, "STRING", <<Len(v.data)>>) EXCEPT !.strings = @ \o v.data]
      [] v.typeof = "boolean" -> WriteTag(w, IF v.data = <<1>> THEN "TRUE" ELSE "FALSE")
      [] v.typeof \in {"null", "undefined"} -> WriteTag(w, "NULL")
      [] OTHER -> [WriteSlot(w, "OTHER", <<Len(w.others)>>) EXCEPT !.others = Append(@, v)]

WriteAll(w, list) == FoldLeft(Write, w, list)

\* `Arrays::read`: the part in use, which the first two ints tell.
ArraysRead(w) ==
    [ints |-> SubSeq(w.ints, 1, w.ints[1]), strings |-> w.strings, others |-> w.others,
     slots |-> [i \in 1..w.ints[2] |-> [tag |-> w.tags[i], num |-> w.nums[i]]]]

-----------------------------------------------------------------------------
(* ... as Decoder reads it. A position counts the ints, slots and units read. *)

Start == [int |-> 0, slot |-> 0, unit |-> 0]

DecodeInt(in, pos) ==
    IF pos.int >= Len(in.ints) THEN Err
    ELSE Ok(in.ints[pos.int + 1], [pos EXCEPT !.int = @ + 1])

\* All ASCII is read as bytes, which are its units.
DecodeString(in, pos, units) ==
    IF pos.unit + units > Len(in.strings) THEN Err
    ELSE LET piece == SubSeq(in.strings, pos.unit + 1, pos.unit + units)
             ascii == \A i \in DOMAIN in.strings : in.strings[i] \in Ascii
         IN  Ok(IF ascii THEN piece ELSE FromUnits(piece), [pos EXCEPT !.unit = @ + units])

DecodeNumber(number, integers) ==
    CASE integers /\ IsSafe(number) /\ number[1] >= 0 -> Value("UInt64", number)
      [] integers /\ IsSafe(number) /\ number[1] < 0  -> Value("Int64", number)
      [] OTHER                                        -> Value("Float64", number)

\* `bigint_to_value`: what fits no type is its decimal text, here the number.
BigInt(n) ==
    CASE 0 <= n /\ n < Word             -> Value("UInt64", <<n>>)
      [] -(Word \div 2) <= n /\ n < 0   -> Value("Int64", <<n>>)
      [] Word <= n /\ n < Word^4         -> Value("Uint256", [i \in 1..4 |-> (n \div Word^(4 - i)) % Word])
      [] OTHER                          -> Value("String", <<n>>)

\* `other_value`. On ingest an object is its JSON text, here with its data,
\* and bytes are bytes.
OtherValue(v, ingest) ==
    CASE v.typeof = "bigint" -> BigInt(v.data[1])
      [] v.typeof = "bytes" /\ ingest  -> Value("Bytes", v.data)
      [] v.typeof = "object" /\ ingest -> Value("String", v.data)
      [] OTHER -> Value("JSON", v.data)

\* `integers` and `ingest` go together: an ingest has both.
DecodeValue(in, pos, ingest) ==
    IF pos.slot >= Len(in.slots) THEN Err
    ELSE LET slot == in.slots[pos.slot + 1]
             next == [pos EXCEPT !.slot = @ + 1]
         IN  CASE slot.tag = "NULL"   -> Ok(Null, next)
               [] slot.tag = "TRUE"   -> Ok(Value("Boolean", <<1>>), next)
               [] slot.tag = "FALSE"  -> Ok(Value("Boolean", <<0>>), next)
               [] slot.tag = "NUMBER" -> Ok(DecodeNumber(slot.num, ingest), next)
               [] slot.tag = "STRING" -> Then(DecodeString(in, next, slot.num[1]), LAMBDA s :
                                             Ok(Value("String", s.value), s.pos))
               [] slot.tag = "OTHER"  -> Ok(OtherValue(in.others[slot.num[1] + 1], ingest), next)

\* Err unless everything was read.
Finish(in, read) ==
    Then(read, LAMBDA r :
        IF r.pos = [int |-> Len(in.ints), slot |-> Len(in.slots), unit |-> Len(in.strings)] THEN r ELSE Err)

\* The names joined in a string, by their lengths.
SplitNames(joined, lengths) ==
    LET in == [ints |-> lengths, slots |-> <<>>, strings |-> joined]
    IN  Finish(in, ReadMany(Len(lengths), Start, LAMBDA pos :
                       Then(DecodeInt(in, pos), LAMBDA n : DecodeString(in, n.pos, n.value))))

=============================================================================
