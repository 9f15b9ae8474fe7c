--------------------------- MODULE MCFormatStamp ---------------------------
(***************************************************************************)
(* A table, a reducer and a view, each with a definition that reads alike    *)
(* and one that does not; a table that becomes virtual and a reducer that    *)
(* becomes external; stores of this, of an earlier and of a later version.   *)
(***************************************************************************)
EXTENDS FormatStamp

Field(name, type) == [name |-> name, type |-> type]

Table(columns, virtual) ==
    [space |-> "table", name |-> "t", columns |-> columns, virtual |-> virtual]

T  == Table(<<Field("a", "UInt64"), Field("b", "String")>>, FALSE)
TVirtual == Table(<<Field("a", "UInt64"), Field("b", "String")>>, TRUE)
TSwapped == Table(<<Field("b", "String"), Field("a", "UInt64")>>, FALSE)

Reducer(type, runtime, body) ==
    [space |-> "reducer", name |-> "r", source |-> "t", group_by |-> <<"b">>,
     state |-> <<Field("n", type)>>, runtime |-> runtime, body |-> body]

R == Reducer("UInt64", "lua", "one")
RBody == Reducer("UInt64", "lua", "two")
RExternal == Reducer("UInt64", "external", "two")
RMap == Reducer("Map(String, UInt64)", "lua", "one")

View(seconds, alias) ==
    [space |-> "mv", name |-> "r", source |-> "t", sliding_window |-> <<>>, group_by |-> <<alias>>,
     select |-> <<[expr |-> [kind |-> "window", column |-> "a", seconds |-> seconds], alias |-> alias],
                  [expr |-> [kind |-> "agg", func |-> "count", column |-> "none"], alias |-> "n"],
                  [expr |-> [kind |-> "column", column |-> "count()"], alias |-> "m"]>>]

V == View(60, "w")
VAlias == View(60, "start")
VLonger == View(300, "w")

AllSchemas == {{TSwapped}, {TVirtual, RExternal}, {T, RBody}, {RMap, T}, {T, VAlias}, {T, VLonger}}

AddedReducers == {R}

New == [version |-> NoVersion, layouts |-> <<>>, data |-> {}, next |-> 0, journal |-> <<>>]

\* With the GROUP BY list in the layout of the view.
WithGroupBy ==
    [New EXCEPT !.version = FORMAT_VERSION, !.next = 1,
                !.data = [by : {T, V}, version : {FORMAT_VERSION}],
                !.layouts = (Key(T) :> [text |-> Text(T), by |-> T]) @@
                            (Key(V) :> [text |-> ("group_by" :> V.group_by) @@ Text(V), by |-> V])]

BeforeVersions == [New EXCEPT !.next = 1, !.data = [by : {T}, version : {0}]]

Newer == [New EXCEPT !.next = 1, !.version = 2, !.data = [by : {T}, version : {2}],
                     !.layouts = Key(T) :> [text |-> Text(T), by |-> T]]

AllStores == {New, WithGroupBy, BeforeVersions, Newer}

=============================================================================
