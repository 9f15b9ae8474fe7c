------------------------------ MODULE MapField ------------------------------
(***************************************************************************)
(* The MAP fields of one group of a reducer (reducer_runtime/map.rs): the  *)
(* entries, a journal of the changes of unfinal blocks, and the keys that  *)
(* a final block changed since the last checkpoint.  An entry key stands   *)
(* for a pair of a MAP field and a key of it.  The inline forms of the     *)
(* journal and of the key set hold the same elements as the others.        *)
(***************************************************************************)
EXTENDS TargetRows

\* StateMaps::new, with the entries of the store (insert_stored).
NewMaps(entries) == [entries |-> entries, undo |-> <<>>, unsaved |-> {}]

\* The element of a set of one.
The(S) == CHOOSE x \in S : TRUE

\* FoldLeft, with the value of each step known before the next one: TLC would
\* otherwise nest the steps of all rows and blocks.
FoldSteps(step(_, _), base, seq) ==
    FoldLeft(LAMBDA acc, x : The({step(a, x) : a \in {acc}}), base, seq)

\* The value of an entry: a set of at most one.
Entry(entries, e) == {entries[x] : x \in DOMAIN entries \cap {e}}

WithEntry(entries, e, value) ==
    IF value = {} THEN Without(entries, {e}) ELSE Over(entries, e :> The(value))

Log(m, b, e) == Append(m.undo, [block |-> b, entry |-> e, old |-> Entry(m.entries, e)])

\* set to a value, a set of one, in block b; set to Null and remove, with {},
\* change nothing if the entry is absent.
SetEntry(m, b, e, value) ==
    IF value = {} /\ Entry(m.entries, e) = {} THEN m
    ELSE [m EXCEPT !.entries = WithEntry(@, e, value), !.undo = Log(m, b, e)]

\* rollback: the newest change first.
RollbackMaps(m, p) ==
    LET undone == SelectSeq(m.undo, LAMBDA c : c.block > p)
    IN  [m EXCEPT !.entries = FoldLeft(LAMBDA es, c : WithEntry(es, c.entry, c.old), @, Reverse(undone)),
                  !.undo = SelectSeq(@, LAMBDA c : c.block <= p)]

\* finalize.
FinalizeMaps(m, b) ==
    [m EXCEPT !.undo = SelectSeq(@, LAMBDA c : c.block > b),
              !.unsaved = @ \cup {m.undo[i].entry : i \in {j \in DOMAIN m.undo : m.undo[j].block <= b}}]

\* The present value, also when an unfinal block changed it.
FaultyAsOf(m, b, e) == Entry(m.entries, e)

\* The value of an entry as of block b: what the first change after b
\* replaced (replaced_after), else the present value.
AsOf(m, b, e) ==
    LET after == {i \in DOMAIN m.undo : m.undo[i].block > b /\ m.undo[i].entry = e}
    IN  IF after = {} THEN Entry(m.entries, e) ELSE m.undo[Min(after)].old

\* write_checkpoint: the value, or a delete, of each unsaved entry.
SavedEntries(m, b) == [e \in m.unsaved |-> AsOf(m, b, e)]
=============================================================================
