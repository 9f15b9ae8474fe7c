----------------------------- MODULE GroupCall -----------------------------
(***************************************************************************)
(* The call of a reducer's JavaScript callback for a block (call_js_batch   *)
(* in external.rs, encode_groups and decode_group_results in                *)
(* js_codec/mod.rs, nativeBatchCallback in reducer-callback.ts): all groups *)
(* go over in one buffer, the callback runs on each row, and the states and *)
(* emits come back in one set of arrays. The writer and the layout live as  *)
(* long as the callback.                                                    *)
(*                                                                          *)
(* `did` is history: what the reducer body did in each group of the block.  *)
(***************************************************************************)
EXTENDS SlotCodec

CONSTANTS Fields,       \* the state fields of the reducer, in order
          MapFields,
          RowBlocks,    \* [rows, order, groups]: rows have a registry of names and values
          Updates,      \* the states that the body passes to `update`
          EmitLists,    \* the emits of one row, each a list of [key, value]
          MaxBlocks

VARIABLES block,     \* the block in the engine
          phase,     \* "idle", in the "rows" of a group, or "done"
          input,     \* what the callback got
          layout,    \* the ReducerLayout of the last call
          out,       \* the GroupWriter
          group, row, slot,
          result,
          did,
          blocks

callVars == <<block, phase, input, layout, out, group, row, slot, result, did, blocks>>

-----------------------------------------------------------------------------
(* Engine to callback *)

Has(names, name) == \E i \in DOMAIN names : names[i] = name

RowNames(b) ==
    IF \A i \in DOMAIN b.rows : b.rows[i].names = b.rows[1].names THEN b.rows[1].names
    ELSE FoldLeft(LAMBDA union, r : union \o SelectSeq(r.names, LAMBDA n : ~Has(union, n)), <<>>, b.rows)

ValueOf(r, name) ==
    IF Has(r.names, name) THEN r.values[CHOOSE i \in DOMAIN r.names : r.names[i] = name] ELSE Null

RowsIn(b, g) == b.groups[g].to - b.groups[g].from + 1

EncodeGroups(b) ==
    LET names == RowNames(b)
    IN  PutLists(NewEncoder(TRUE),
            <<Items("int", <<Len(b.groups), Len(Fields), Len(names), Len(MapFields)>>),
              Items("name", Fields \o MapFields), Items("column", names),
              [g \in DOMAIN b.groups |-> Item("int", RowsIn(b, g))]>> \o
            [g \in DOMAIN b.groups |-> Items("value", b.groups[g].state)] \o
            [i \in DOMAIN b.order |->
                Items("value", [n \in DOMAIN names |-> ValueOf(b.rows[b.order[i]], names[n])])])

-----------------------------------------------------------------------------
(* The callback *)

NamesAt(in, at, count) == [i \in 1..count |-> in.strings[IntAt(in, at + i - 1) + 1]]

LayoutOf(in) ==
    [state   |-> NamesAt(in, 4, IntAt(in, 1)),
     maps    |-> NamesAt(in, 4 + IntAt(in, 1), IntAt(in, 3)),
     columns |-> NamesAt(in, 4 + IntAt(in, 1) + IntAt(in, 3), IntAt(in, 2))]

Matches(known, in) == known = LayoutOf(in)

SizesAt(in) == 4 + IntAt(in, 1) + IntAt(in, 2) + IntAt(in, 3)

NewGroupWriter ==
    [w |-> NewWriter, columns |-> <<>>, ctx |-> <<>>, row |-> 0,
     changed |-> FALSE, next |-> <<>>, groupAt |-> 0, emitCount |-> 0]

BeginCall(o) == [o EXCEPT !.w = Reset(@, 3), !.columns = <<>>]

\* The context of group g, from its slots, and the ints to fill in later.
FaultyBeginGroup(o, in, g) ==
    [o EXCEPT !.ctx = [i \in 1..IntAt(in, 1) |-> ValueAt(in, g * IntAt(in, 1) + i - 1)],
              !.groupAt = o.w.intCount, !.w = WriteInts(@, <<0, 0>>), !.emitCount = 0]
BeginGroup(o, in, g) ==
    [o EXCEPT !.ctx = [i \in 1..IntAt(in, 1) |-> ValueAt(in, g * IntAt(in, 1) + i - 1)],
              !.groupAt = o.w.intCount, !.w = WriteInts(@, <<0, 0>>), !.emitCount = 0,
              !.changed = FALSE, !.next = <<>>]

Update(o, next) == [o EXCEPT !.changed = TRUE, !.next = next, !.ctx = next]

ColumnId(columns, key) == (CHOOSE i \in DOMAIN columns : columns[i] = key) - 1

Emit(o, emit) ==
    LET keys == [i \in DOMAIN emit |-> emit[i].key]
        columns == o.columns \o SelectSeq(keys, LAMBDA k : ~Has(o.columns, k))
        w == WriteInts(o.w, <<o.row, Len(emit)>> \o [i \in DOMAIN emit |-> ColumnId(columns, keys[i])])
    IN  [o EXCEPT !.columns = columns, !.emitCount = @ + 1,
                  !.w = WriteAll(w, [i \in DOMAIN emit |-> emit[i].value])]

EmitAll(o, emits) == FoldLeft(Emit, o, emits)

EndGroup(o) ==
    LET w == [o.w EXCEPT !.ints[o.groupAt + 1] = IF o.changed THEN 1 ELSE 0,
                         !.ints[o.groupAt + 2] = o.emitCount]
    IN  [o EXCEPT !.w = IF o.changed THEN WriteAll(w, o.next) ELSE w]

FinishCall(o) ==
    LET w == WriteInts(o.w, [i \in DOMAIN o.columns |-> Len(o.columns[i])])
    IN  [o EXCEPT !.w = [w EXCEPT !.ints[1] = w.intCount, !.ints[2] = w.slots, !.ints[3] = Len(o.columns)]]

-----------------------------------------------------------------------------
(* Callback to engine *)

DecodeEmit(in, columns, b, g, pos) ==
    Then(DecodeInt(in, pos), LAMBDA r :
        IF r.value >= RowsIn(b, g) THEN Err
        ELSE Then(DecodeInt(in, r.pos), LAMBDA n :
                 Then(ReadMany(n.value, n.pos, LAMBDA at :
                          Then(DecodeInt(in, at), LAMBDA c :
                              IF c.value >= Len(columns) THEN Err
                              ELSE Then(DecodeValue(in, c.pos, FALSE), LAMBDA v :
                                       Ok([column |-> columns[c.value + 1], value |-> v.value], v.pos)))),
                      LAMBDA fields :
                          Ok([source |-> b.order[b.groups[g].from + r.value], fields |-> fields.value],
                             fields.pos))))

DecodeGroup(in, columns, b, g, pos) ==
    Then(DecodeInt(in, pos), LAMBDA changed :
        Then(DecodeInt(in, changed.pos), LAMBDA n :
            Then(ReadMany(n.value, n.pos, LAMBDA at : DecodeEmit(in, columns, b, g, at)), LAMBDA emits :
                IF changed.value = 0
                THEN Ok([state |-> b.groups[g].state, emits |-> emits.value], emits.pos)
                ELSE Then(ReadMany(Len(Fields), emits.pos, LAMBDA at : DecodeValue(in, at, FALSE)),
                          LAMBDA state : Ok([state |-> state.value, emits |-> emits.value], state.pos)))))

DecodeGroups(in, columns, b) ==
    LET Read[g \in 0..Len(b.groups)] ==
            IF g = 0 THEN Ok(<<>>, Start)
            ELSE Then(Read[g - 1], LAMBDA done :
                     Then(DecodeGroup(in, columns, b, g, done.pos), LAMBDA x :
                         Ok(Append(done.value, x.value), x.pos)))
    IN  Finish(in, Read[Len(b.groups)])

\* The column lengths are the last ints, the header the first three.
DecodeResults(o, b) ==
    LET arrays == ArraysRead(o.w)
        columnsAt == Len(arrays.ints) - arrays.ints[3]
    IN  Then(SplitNames(FlattenSeq(o.columns), SubSeq(arrays.ints, columnsAt + 1, Len(arrays.ints))),
             LAMBDA columns :
                 DecodeGroups([arrays EXCEPT !.ints = SubSeq(@, 4, columnsAt)], columns.value, b))

-----------------------------------------------------------------------------
NoBlock == [rows |-> <<>>, order |-> <<>>, groups |-> <<>>]

CallInit ==
    /\ block = NoBlock /\ phase = "idle" /\ input = <<>> /\ layout = <<>>
    /\ out = NewGroupWriter /\ group = 0 /\ row = 0 /\ slot = 0
    /\ result = Err /\ did = <<>> /\ blocks = 0

\* The engine calls the callback: it reads the layout and starts the first group.
Call(b) ==
    /\ phase # "rows" /\ blocks < MaxBlocks
    /\ \E in \in {ReadInput(EncodeGroups(b))} :
        /\ input' = in
        /\ layout' = IF layout # <<>> /\ Matches(layout, in) THEN layout ELSE LayoutOf(in)
        /\ out' = BeginGroup(BeginCall(out), in, 0)
        /\ slot' = IntAt(in, 0) * IntAt(in, 1)
    /\ block' = b /\ phase' = "rows" /\ group' = 0 /\ row' = 0 /\ blocks' = blocks + 1
    /\ did' = [g \in DOMAIN b.groups |-> [next |-> <<>>, emits |-> <<>>]]
    /\ UNCHANGED result

LastRow == row + 1 = IntAt(input, SizesAt(input) + group)

LastGroup == group + 1 = IntAt(input, 0)

\* `reduce` runs on a row; after the last one of a group the next group starts,
\* after the last group the engine reads the results.
Reduce(next, emits) ==
    LET o == EmitAll(IF next = <<>> THEN [out EXCEPT !.row = row] ELSE Update([out EXCEPT !.row = row], next), emits)
    IN  /\ phase = "rows"
        /\ slot' = slot + IntAt(input, 2)
        /\ out' = IF ~LastRow THEN o
                  ELSE IF ~LastGroup THEN BeginGroup(EndGroup(o), input, group + 1)
                  ELSE FinishCall(EndGroup(o))
        /\ row' = IF LastRow THEN 0 ELSE row + 1
        /\ group' = IF LastRow /\ ~LastGroup THEN group + 1 ELSE group
        /\ phase' = IF LastRow /\ LastGroup THEN "done" ELSE "rows"
        /\ result' = IF LastRow /\ LastGroup THEN DecodeResults(out', block) ELSE result
        /\ did' = [did EXCEPT ![group + 1].next = IF next = <<>> THEN @ ELSE next,
                              ![group + 1].emits = @ \o [i \in DOMAIN emits |->
                                    [row |-> row, fields |-> emits[i]]]]
        /\ UNCHANGED <<block, input, layout, blocks>>

\* The body throws: the block fails, and the writer is left as it is.
BodyThrows ==
    /\ phase = "rows" /\ phase' = "idle" /\ block' = NoBlock /\ input' = <<>>
    /\ UNCHANGED <<layout, out, group, row, slot, result, did, blocks>>

\* A body that kept `update` or `emit` calls it between two calls.
Stray(next, emits) ==
    /\ phase = "done" /\ blocks < MaxBlocks
    /\ out' = EmitAll(IF next = <<>> THEN out ELSE Update(out, next), emits)
    /\ phase' = "idle" /\ block' = NoBlock /\ input' = <<>>
    /\ UNCHANGED <<layout, group, row, slot, result, did, blocks>>

\* The host attaches the callback anew, with its own writer and layout.
Attach ==
    /\ phase # "rows" /\ blocks > 0
    /\ block' = NoBlock /\ phase' = "idle" /\ input' = <<>> /\ layout' = <<>>
    /\ out' = NewGroupWriter /\ group' = 0 /\ row' = 0 /\ slot' = 0
    /\ result' = Err /\ did' = <<>> /\ blocks' = 0

CallNext ==
    \/ \E b \in RowBlocks : Call(b)
    \/ \E next \in Updates \union {<<>>}, emits \in EmitLists : Reduce(next, emits)
    \/ BodyThrows
    \/ \E next \in Updates, emits \in EmitLists : Stray(next, emits)
    \/ Attach

CallSpec == CallInit /\ [][CallNext]_callVars

-----------------------------------------------------------------------------
\* What JavaScript is to see of a value.
AsJs(v) ==
    CASE v.type = "Null"    -> JsNull
      [] v.type = "Boolean" -> Js("boolean", v.data)
      [] v.type = "String"  -> Js("string", Units(v.data))
      [] v.type \in {"UInt64", "Int64", "DateTime", "Float64"} ->
            Js(IF v.type = "Float64" \/ IsSafe(v.data) THEN "number" ELSE "bigint", v.data)
      [] v.type = "Uint256" -> Js("string", HexPrefix \o Hex(v.data))
      [] v.type \in {"Bytes", "Base58"} -> Js("string", Hex(v.data))
      [] v.type = "JSON"    -> Js("object", v.data)

\* The value that the engine reads from a JavaScript value (IB-43). No conversion to
\* the type of a field follows it today (GAP-1).
FromJs(v) ==
    CASE v.typeof = "number"  -> Value("Float64", v.data)
      [] v.typeof = "string"  -> Value("String", FromUnits(v.data))
      [] v.typeof = "boolean" -> Value("Boolean", v.data)
      [] v.typeof \in {"null", "undefined"} -> Null
      [] v.typeof = "bigint"  -> BigInt(v.data[1])
      [] OTHER                -> Value("JSON", v.data)

CurrentRow == block.rows[block.order[block.groups[group + 1].from + row]]

\* The body runs on the rows of the block, each with its own values under their
\* names, whatever columns the other rows and the last block had; a column
\* of other rows is undefined.
RowIsSeen ==
    phase = "rows" =>
        /\ \A i \in DOMAIN CurrentRow.names : Has(layout.columns, Units(CurrentRow.names[i]))
        /\ \A i \in DOMAIN layout.columns :
            LET value == ValueOf(CurrentRow, FromUnits(layout.columns[i]))
            IN  FieldAt(input, slot + i - 1) = IF value = Null THEN Undefined ELSE AsJs(value)

\* The context of a group holds the state of that group, or what the body last
\* made of it, under the names of the state fields.
StateIsSeen ==
    phase = "rows" =>
        /\ layout.state = [i \in DOMAIN Fields |-> Units(Fields[i])]
        /\ \A i \in DOMAIN Fields :
            out.ctx[i] = IF did[group + 1].next # <<>> THEN did[group + 1].next[i]
                         ELSE AsJs(block.groups[group + 1].state[i])

\* The engine reads back exactly what the body did in this block: each group's
\* last update, and each emit with its fields and the row that made it. A group
\* without an update keeps its state. What a failed call or a stray emit left
\* in the writer is not part of it.
ResultsLand ==
    phase = "done" =>
        /\ result.ok
        /\ \A g \in DOMAIN block.groups :
            /\ result.value[g].state =
                   IF did[g].next = <<>> THEN block.groups[g].state
                   ELSE [i \in DOMAIN Fields |-> FromJs(did[g].next[i])]
            /\ result.value[g].emits =
                   [e \in DOMAIN did[g].emits |->
                       [source |-> block.order[block.groups[g].from + did[g].emits[e].row],
                        fields |-> [f \in DOMAIN did[g].emits[e].fields |->
                            [column |-> FromUnits(did[g].emits[e].fields[f].key),
                             value  |-> FromJs(did[g].emits[e].fields[f].value)]]]]

=============================================================================
