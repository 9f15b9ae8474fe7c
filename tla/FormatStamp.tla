---------------------------- MODULE FormatStamp ----------------------------
(***************************************************************************)
(* The format version and the layouts of stored data (storage/format.rs):    *)
(* what an open checks, and the stamp that write sets carry until one        *)
(* commits. Schemas change between opens; the journal may hold the first     *)
(* layouts.                                                                  *)
(*                                                                          *)
(* The text of a layout is the record that is serialized. A stored layout    *)
(* and stored data are kept with the definition that wrote them.             *)
(***************************************************************************)
EXTENDS Integers, Sequences, SequencesExt, FiniteSets, TLC

CONSTANTS Schemas,      \* the schemas that hosts open with: sets of definitions
          Added,        \* the reducers that hosts register
          Stores,       \* the stores before the first open
          MaxCalls,
          MaxPending

FORMAT_VERSION == 1

NoVersion == -1

VARIABLES store,      \* [version, layouts, data, next, journal]
          open,       \* an instance is open
          schema,     \* its definitions
          stamp,      \* [version, layouts] that storage lacks
          journaling,
          pending,    \* the write sets that wait for their acks
          calls

stampVars == <<store, open, schema, stamp, journaling, pending, calls>>

-----------------------------------------------------------------------------
(* Layouts *)

Key(def) == <<def.space, def.name>>

TypedNames(fields) == [i \in DOMAIN fields |-> [name |-> fields[i].name, type |-> fields[i].type]]

SelectLayout(expr) ==
    CASE expr.kind = "column" -> [kind |-> "column", column |-> expr.column]
      [] expr.kind = "agg"    -> [kind |-> "agg", func |-> expr.func, column |-> expr.column]
      [] expr.kind = "window" -> [kind |-> "window", column |-> expr.column, seconds |-> expr.seconds]

TableLayout(def) == [columns |-> TypedNames(def.columns)]

ReducerLayout(def) ==
    [source |-> def.source, group_by |-> def.group_by, state |-> TypedNames(def.state)]

MvLayout(def) ==
    [source |-> def.source,
     select |-> [i \in DOMAIN def.select |-> SelectLayout(def.select[i].expr)],
     sliding_window |-> def.sliding_window]

Text(def) ==
    CASE def.space = "table"   -> TableLayout(def)
      [] def.space = "reducer" -> ReducerLayout(def)
      [] def.space = "mv"      -> MvLayout(def)

\* A view layout of an earlier version is this one with a `group_by` field.
FaultyIsStoredWithGroupBy(def, text) == FALSE
IsStoredWithGroupBy(def, text) ==
    /\ def.space = "mv" /\ "group_by" \in DOMAIN text
    /\ [f \in DOMAIN text \ {"group_by"} |-> text[f]] = Text(def)

Matches(d, def) ==
    Key(def) \in DOMAIN d.layouts =>
        LET text == d.layouts[Key(def)].text IN text = Text(def) \/ IsStoredWithGroupBy(def, text)

\* The layouts of these definitions that storage lacks.
Lacking(d, defs) ==
    LET new == {def \in defs : Key(def) \notin DOMAIN d.layouts}
    IN  [k \in {Key(def) : def \in new} |->
            LET def == CHOOSE x \in new : Key(x) = k IN [text |-> Text(def), by |-> def]]

HasData(d) == d.next > 0

\* Data that no version describes is of a Settle version before format versions.
VersionMatches(d) ==
    IF d.version = NoVersion THEN ~HasData(d) ELSE d.version = FORMAT_VERSION

Check(d, defs) == VersionMatches(d) /\ \A def \in defs : Matches(d, def)

StampFor(d, defs) ==
    [version |-> IF d.version = NoVersion THEN FORMAT_VERSION ELSE NoVersion,
     layouts |-> Lacking(d, defs)]

NoStamp == [version |-> NoVersion, layouts |-> <<>>]

-----------------------------------------------------------------------------
(* Write sets and the store *)

\* The store after a write set: its stamp, its data and the next sequence.
Committed(d, w) ==
    [d EXCEPT !.version = IF w.stamp.version = NoVersion THEN @ ELSE w.stamp.version,
              !.layouts = w.stamp.layouts @@ @,
              !.data = @ \union w.data,
              !.next = w.sequence + 1]

CommittedAll(d, writes) == FoldLeft(Committed, d, writes)

LastCommitted(d) == IF d.next = 0 THEN 0 ELSE d.next - 1

\* `recover_journal`, for a target that applied the batches up to `applied`.
Recovered(d, applied) ==
    [CommittedAll(d, SelectSeq(d.journal, LAMBDA w : w.sequence > LastCommitted(d) /\ w.sequence <= applied))
       EXCEPT !.journal = <<>>]

Recovers(d, journal, applied) ==
    IF ~journal THEN d.journal = <<>> /\ applied = 0
    ELSE /\ applied >= LastCommitted(d)
         /\ \A s \in LastCommitted(d) + 1..applied : \E i \in DOMAIN d.journal : d.journal[i].sequence = s

-----------------------------------------------------------------------------
(* Calls *)

StampInit ==
    /\ store \in Stores
    /\ open = FALSE /\ schema = {} /\ stamp = NoStamp /\ journaling = FALSE
    /\ pending = <<>> /\ calls = 0

\* The first check is before the recovery of the journal and the second sees what
\* it held. An open that the second one refuses has committed the journal.
FaultyOpen(defs, journal, applied) ==
    /\ ~open
    /\ IF Check(store, defs) /\ Recovers(store, journal, applied)
       THEN /\ store' = Recovered(store, applied)
            /\ open' = TRUE /\ schema' = defs /\ stamp' = StampFor(store', defs) /\ journaling' = journal
       ELSE UNCHANGED <<store, open, schema, stamp, journaling>>
    /\ UNCHANGED <<pending, calls>>
Open(defs, journal, applied) ==
    /\ ~open
    /\ IF Check(store, defs) /\ Recovers(store, journal, applied)
       THEN /\ store' = Recovered(store, applied)
            /\ IF Check(store', defs)
               THEN /\ open' = TRUE /\ schema' = defs
                    /\ stamp' = StampFor(store', defs) /\ journaling' = journal
               ELSE UNCHANGED <<open, schema, stamp, journaling>>
       ELSE UNCHANGED <<store, open, schema, stamp, journaling>>
    /\ UNCHANGED <<pending, calls>>

NextSequence == (IF pending = <<>> THEN LastCommitted(store) ELSE Last(pending).sequence) + 1

Writes(defs, sequence) ==
    [sequence |-> sequence, stamp |-> stamp, joined |-> 0,
     data |-> [by : defs, version : {FORMAT_VERSION}]]

\* `unacked_batches`: the places in use.
Places == FoldLeft(LAMBDA n, w : n + 1 + w.joined, 0, pending)

\* A call that returns a batch waits for its ack, and in the journal.
ReturnBatch(defs) ==
    LET w == Writes(defs, NextSequence)
    IN  /\ open /\ calls < MaxCalls /\ Places < MaxPending
        /\ pending' = Append(pending, w)
        /\ store' = IF journaling THEN [store EXCEPT !.journal = Append(@, w)] ELSE store
        /\ calls' = calls + 1
        /\ UNCHANGED <<open, schema, stamp, journaling>>

\* A call without a batch commits, and the stamp is stored.
CommitCall(defs) ==
    /\ open /\ calls < MaxCalls /\ pending = <<>>
    /\ store' = Committed(store, Writes(defs, LastCommitted(store)))
    /\ stamp' = NoStamp
    /\ calls' = calls + 1
    /\ UNCHANGED <<open, schema, journaling, pending>>

\* Behind unacked batches it joins the newest one.
JoinCall(defs) ==
    /\ open /\ calls < MaxCalls /\ pending # <<>> /\ Places < MaxPending
    /\ LET w == Writes(defs, Last(pending).sequence)
       IN  /\ pending' = [pending EXCEPT ![Len(pending)].data = @ \union w.data,
                                   ![Len(pending)].joined = @ + 1]
           /\ store' = IF journaling THEN [store EXCEPT !.journal = Append(@, w)] ELSE store
    /\ calls' = calls + 1
    /\ UNCHANGED <<open, schema, stamp, journaling>>

\* The oldest batch commits with its ack, which deletes its journal entries.
Ack ==
    /\ open /\ pending # <<>>
    /\ store' = [Committed(store, Head(pending))
                   EXCEPT !.journal = SelectSeq(@, LAMBDA w : w.sequence # Head(pending).sequence)]
    /\ pending' = Tail(pending)
    /\ stamp' = NoStamp
    /\ UNCHANGED <<open, schema, journaling, calls>>

\* A reducer after the open: not one that exists, and with nothing unacked.
RegisterReducer(def) ==
    /\ open /\ pending = <<>>
    /\ \A other \in schema : Key(other) # Key(def)
    /\ Matches(store, def)
    /\ schema' = schema \union {def}
    /\ stamp' = [stamp EXCEPT !.layouts = Lacking(store, {def}) @@ @]
    /\ UNCHANGED <<store, open, journaling, pending, calls>>

\* The host drops the instance, or its process stops.
Close ==
    /\ open
    /\ open' = FALSE /\ schema' = {} /\ stamp' = NoStamp /\ journaling' = FALSE /\ pending' = <<>>
    /\ UNCHANGED <<store, calls>>

StampNext ==
    \/ \E defs \in Schemas, journal \in BOOLEAN, applied \in 0..MaxCalls : Open(defs, journal, applied)
    \/ \E defs \in SUBSET schema : ReturnBatch(defs) \/ CommitCall(defs) \/ JoinCall(defs)
    \/ Ack
    \/ \E def \in Added : RegisterReducer(def)
    \/ Close

StampSpec == StampInit /\ [][StampNext]_stampVars

-----------------------------------------------------------------------------
\* The fields of two lists agree at each position.
SameFields(a, b) ==
    /\ Len(a) = Len(b)
    /\ \A i \in DOMAIN a : a[i].name = b[i].name /\ a[i].type = b[i].type

\* Data that one definition wrote means the same when the other one reads it.
ReadsAlike(writer, reader) ==
    CASE reader.space = "table"   -> SameFields(writer.columns, reader.columns)
      [] reader.space = "reducer" -> /\ writer.source = reader.source
                                     /\ writer.group_by = reader.group_by
                                     /\ SameFields(writer.state, reader.state)
      [] reader.space = "mv"      -> /\ writer.source = reader.source
                                     /\ writer.sliding_window = reader.sliding_window
                                     /\ Len(writer.select) = Len(reader.select)
                                     /\ \A i \in DOMAIN reader.select :
                                            writer.select[i].expr = reader.select[i].expr

\* An open instance, whatever the journal held when it opened and whatever is
\* acked, never meets data of its objects that another layout or another format
\* version wrote (INV-45).
LayoutSafety ==
    open => \A i \in 0..Len(pending) :
        \A d \in CommittedAll(store, SubSeq(pending, 1, i)).data : \A def \in schema :
            Key(d.by) = Key(def) => ReadsAlike(d.by, def) /\ d.version = FORMAT_VERSION

\* A store that a current version wrote holds a format version exactly when it
\* holds data, and the layout of every object that it holds data of: also
\* after each ack, and after a recovery of the journal.
StampedWithData ==
    store.version = FORMAT_VERSION \/ store.next = 0 =>
        \A d \in {store} \union {Recovered(store, n) : n \in 0..MaxCalls}
                   \union {CommittedAll(store, SubSeq(pending, 1, i)) : i \in 0..Len(pending)} :
            /\ HasData(d) <=> d.version # NoVersion
            /\ \A x \in d.data : Key(x.by) \in DOMAIN d.layouts

\* CN-32 means to refuse a change of the virtual flag or of the runtime kind, and the
\* layout check does not see it (GAP-42).
SameKind(writer, reader) ==
    CASE reader.space = "table"   -> writer.virtual = reader.virtual
      [] reader.space = "reducer" -> writer.runtime = reader.runtime
      [] reader.space = "mv"      -> TRUE

\* A schema may change bodies, defaults and output names, and add objects (CN-32): it
\* opens every store whose layouts it reads alike, those of earlier versions
\* included. Of a change of the virtual flag or of the runtime kind it says nothing.
AllowedChangesOpen ==
    VersionMatches(store) =>
        \A defs \in Schemas :
            (\A def \in defs : Key(def) \in DOMAIN store.layouts =>
                 LET by == store.layouts[Key(def)].by IN ReadsAlike(by, def) /\ SameKind(by, def)) =>
                Check(store, defs)

=============================================================================
