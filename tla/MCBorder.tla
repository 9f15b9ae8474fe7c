------------------------------ MODULE MCBorder ------------------------------
(***************************************************************************)
(* The border between the engine and JavaScript, its parts side by side:   *)
(* the call of a reducer callback, a change batch, the rows of an ingest,  *)
(* and the callbacks and handles of three instances. A behaviour drives    *)
(* one of the four; the others stay as they started.                       *)
(***************************************************************************)
EXTENDS GroupCall, BatchCrossing, IngestCrossing, HostCallback

CONSTANTS ia, ib, ic
VARIABLE part

X == <<1>>
Y == <<9, 1>>
Z == <<8>>

Num(n) == Value("UInt64", <<n>>)
Str(s) == Value("String", s)

-----------------------------------------------------------------------------
(* GroupCall: blocks of two groups, with three rows of one registry, with   *)
(* rows of two, and one row of as many columns with other names.            *)

StateFields == <<X, Z>>
MapNames == <<Y>>

Row(names, values) == [names |-> names, values |-> values]
Group(state, from, to) == [state |-> state, from |-> from, to |-> to]

S1 == <<Num(1), Str(Y)>>
S2 == <<Value("Bytes", <<3>>), Null>>

OneRegistry ==
    [rows |-> <<Row(<<X, Y>>, <<Num(2), Str(Y)>>), Row(<<X, Y>>, <<Num(20), Null>>),
                Row(<<X, Y>>, <<Value("Boolean", <<1>>), Value("JSON", <<5>>)>>)>>,
     order |-> <<1, 3, 2>>, groups |-> <<Group(S1, 1, 2), Group(S2, 3, 3)>>]

TwoRegistries ==
    [rows |-> <<Row(<<Z>>, <<Num(4)>>), Row(<<Y, Z>>, <<Value("Uint256", <<6>>), Num(5)>>)>>,
     order |-> <<1, 2>>, groups |-> <<Group(S2, 1, 1), Group(S1, 2, 2)>>]

OtherNames ==
    [rows |-> <<Row(<<Y, Z>>, <<Value("Int64", <<-20>>), Value("Base58", <<2, 1>>)>>)>>,
     order |-> <<1>>, groups |-> <<Group(S1, 1, 1)>>]

AllBlocks == {OneRegistry, TwoRegistries, OtherNames}

AllUpdates == {<<Js("bigint", <<20>>), Js("string", <<91, 92, 1>>)>>, <<Js("boolean", <<0>>), Undefined>>}

Field(key, value) == [key |-> key, value |-> value]

E1 == <<Field(Units(Y), Js("string", <<1, 1>>)), Field(Units(X), Js("bigint", <<40>>))>>
E2 == <<Field(Units(X), Js("boolean", <<1>>))>>

AllEmits == {<<>>, <<E2, E1>>}

-----------------------------------------------------------------------------
(* BatchCrossing: two tables, records of three schemas. Texts come up as    *)
(* names and as values, so that they share places in the string table.      *)

AllHeads == {<<>>, <<[number |-> <<3>>, hash |-> Y]>>}

TableNames == {X, Y}

Wide == [table |-> Y, keys |-> <<X>>, columns |-> <<X, Y>>]
Narrow == [table |-> Y, keys |-> <<Y>>, columns |-> <<>>]
Swapped == [table |-> Y, keys |-> <<X>>, columns |-> <<Y, X>>]

AllRecords ==
    {[schema |-> Wide, operation |-> "update", key |-> <<Str(Y)>>,
      values |-> <<Num(20), Value("Base58", <<1>>)>>, prev |-> <<<<Null, Str(X)>>>>],
     [schema |-> Swapped, operation |-> "insert", key |-> <<Str(X)>>,
      values |-> <<Value("Bytes", <<2>>), Value("Int64", <<-3>>)>>, prev |-> <<>>],
     [schema |-> Narrow, operation |-> "delete", key |-> <<Value("Boolean", <<1>>)>>,
      values |-> <<>>, prev |-> <<<<>>>>]}

Leaf(kind, name) == [kind |-> kind, name |-> name, duration |-> <<0, 5>>, children |-> <<>>]

AllPerf == {<<Leaf("pipeline", X)>>,
            <<[Leaf("parallel", Y) EXCEPT !.children = <<Leaf("mv", X), Leaf("reducer", Y)>>], Leaf("raw_table", X)>>}

-----------------------------------------------------------------------------
(* IngestCrossing: two tables and a name that the schema lacks; rows with   *)
(* and without their fields, with whole, negative, broken, large and no     *)
(* block numbers.                                                           *)

Wave == <<91, 92>>

BothTables == <<[name |-> X, columns |-> <<X, Wave>>], [name |-> <<2, 8>>, columns |-> <<Wave>>]>>

JsNum(n) == Js("number", n)

\* Fields in an order of their own, one more than the table has.
Full(n) == <<Field(Wave, Js("string", <<91, 92, 91>>)), Field(BlockNumber, n),
             Field(<<5>>, JsNum(<<3>>)), Field(X, JsNum(<<-2>>))>>
Other(n) == <<Field(BlockNumber, n), Field(Wave, Js("bytes", <<6>>)), Field(X, Js("bigint", <<-20>>))>>
Short(n) == <<Field(BlockNumber, n), Field(Wave, Js("string", <<92, 1>>))>>

Table(i, rows) == [name |-> BothTables[i].name, rows |-> rows]
Unknown(rows) == [name |-> <<3>>, rows |-> rows]

RowLists ==
    {<<Full(JsNum(<<1>>)), Short(JsNum(<<2>>)), Other(Js("bigint", <<1>>))>>,
     <<Short(JsNum(<<1>>)), NoRow>>, <<Other(JsNum(<<2>>)), Short(JsNum(<<2>>))>>, <<>>,
     <<Full(JsNum(<<1>>)), Full(Undefined)>>}

Bad == {JsNum(<<-1>>), JsNum(<<1, 5>>), JsNum(<<20>>), Js("string", <<1>>), Js("boolean", <<1>>)}

AllInputs ==
    {<<Table(1, r1), Table(2, r2)>> : r1, r2 \in RowLists} \union
    {<<Unknown(<<>>), Table(1, r)>> : r \in RowLists} \union
    {<<Table(2, <<Full(JsNum(<<1>>))>>), Unknown(<<Full(JsNum(<<1>>))>>)>>} \union
    {<<Table(1, <<Short(JsNum(<<1>>)), Full(n)>>)>> : n \in Bad}

-----------------------------------------------------------------------------
(* HostCallback: two instances with their reducers in the schema, and one    *)
(* without.                                                                 *)

All == {ia, ib, ic}
OwnNames == [i \in All |-> i]
Declared == {ia, ib}
TwoKeys == {1, 2}
BlocksOfTwo == {<<1, 2>>, <<2>>}

-----------------------------------------------------------------------------
Init ==
    /\ part \in {"call", "batch", "ingest", "host"}
    /\ CallInit /\ BatchInit /\ IngestInit /\ HostInit
    /\ part # "batch" => batch.finalized = <<>> /\ batch.latest = <<>> /\ left.tables = 1

Next ==
    \/ part = "call" /\ CallNext /\ UNCHANGED <<part, batchVars, ingestVars, hostVars>>
    \/ part = "batch" /\ BatchNext /\ UNCHANGED <<part, callVars, ingestVars, hostVars>>
    \/ part = "ingest" /\ IngestNext /\ UNCHANGED <<part, callVars, batchVars, hostVars>>
    \/ part = "host" /\ HostNext /\ UNCHANGED <<part, callVars, batchVars, ingestVars>>

Spec == Init /\ [][Next]_<<part, callVars, batchVars, ingestVars, hostVars>>

-----------------------------------------------------------------------------
\* The body of a reducer sees each row of its block with the row's own values, and
\* the state of the row's group, whatever the other rows, groups and blocks had.
BodySees == RowIsSeen /\ StateIsSeen

\* Both ways across the border nothing is lost or moved: the target gets the batch
\* that the engine made, and the engine gets the rows that the host ingested.
CrossingsArrive == BatchArrives /\ RowsLand
=============================================================================
