---------------------------- MODULE EmitColumns ----------------------------
(***************************************************************************)
(* The columns of a reducer's output (Emits in reducer_runtime/mod.rs and  *)
(* emit_growth in engine/reducer.rs).  The names that emits use become     *)
(* columns in the order of first use, up to a limit; a rollback takes back *)
(* the columns of the blocks it undoes.                                    *)
(*                                                                         *)
(* A node downstream keeps the position of its own column for as long as   *)
(* rows come with the same registry (Arc::ptr_eq).  A registry that it     *)
(* holds is not changed in place (Arc::make_mut copies it), so `shared`    *)
(* tells whether the node holds the present registry.                      *)
(***************************************************************************)
EXTENDS TargetRows

CONSTANTS Names,      \* emit column names
          GroupBy,    \* the GROUP BY columns, a sequence: the first columns
          DownKey,    \* the column that the downstream node reads
          MaxColumns, \* MAX_EMIT_COLUMNS
          MaxBlock

LimitAssumption == MaxColumns >= Len(GroupBy)

VARIABLES names,      \* the names in the registry
          growth,     \* emit_growth: the width before each block that added columns
          shared,     \* the downstream node holds this registry
          position,   \* its position of DownKey: a set of at most one
          chain,      \* the names that each block's emits use, in order
          latest, final,
          base        \* the block of the last load: blocks up to it are not replayed

vars == <<names, growth, shared, position, chain, latest, final, base>>

Registry == [names |-> names, growth |-> growth, shared |-> shared, position |-> position]

SetRegistry(r) ==
    names' = r.names /\ growth' = r.growth /\ shared' = r.shared /\ position' = r.position

NewRegistry == [names |-> GroupBy, growth |-> Empty, shared |-> FALSE, position |-> {}]

PositionOf(ns) == {i \in DOMAIN ns : ns[i] = DownKey}

\* Arc::make_mut and the change.
WithNames(r, ns) == [r EXCEPT !.names = ns, !.shared = @ /\ ns = r.names]

\* Emits::column for each name: known, added, or past the limit.
Use(ns, used) ==
    FoldLeft(LAMBDA acc, n : IF n \in ToSet(acc.names) THEN acc
                             ELSE IF Len(acc.names) < MaxColumns
                             THEN [acc EXCEPT !.names = Append(@, n)]
                             ELSE [acc EXCEPT !.overflow = TRUE],
             [names |-> ns, overflow |-> FALSE], used)

\* truncate_columns.
Truncated(r, width) ==
    IF Len(r.names) > width THEN WithNames(r, SubSeq(r.names, 1, width)) ELSE r

\* process_block with emits that use the names `used`, and the downstream node
\* on its output: resolve_source points at the registry of the rows.
Processed(r, b, used) ==
    LET after == Use(r.names, used)
        grown == WithNames(r, after.names)
        kept  == IF Len(after.names) > Len(r.names) /\ b \notin DOMAIN r.growth
                 THEN Over(r.growth, b :> Len(r.names)) ELSE r.growth
    IN  IF after.overflow THEN [ok |-> FALSE, registry |-> Truncated(grown, Len(r.names))]
        ELSE [ok |-> TRUE,
              registry |-> [grown EXCEPT !.growth = kept, !.shared = TRUE,
                                !.position = IF grown.shared THEN @ ELSE PositionOf(grown.names)]]

\* Leaves the columns.
FaultyRolledBack(r, p) == [r EXCEPT !.growth = UpTo(@, p)]

\* rollback: the width before the first undone block that added columns.
RolledBack(r, p) ==
    LET undone == {b \in DOMAIN r.growth : b > p}
    IN  [(IF undone = {} THEN r ELSE Truncated(r, r.growth[Min(undone)]))
            EXCEPT !.growth = UpTo(@, p)]

\* reload: back to the GROUP BY columns.
Reloaded(r) == [Truncated(r, Len(GroupBy)) EXCEPT !.growth = Empty]

Init ==
    /\ names = NewRegistry.names /\ growth = NewRegistry.growth
    /\ shared = NewRegistry.shared /\ position = NewRegistry.position
    /\ chain = Empty /\ latest = 0 /\ final = 0 /\ base = 0

\* A call of one block, or of two.
Ingest(b, c, used, more) ==
    /\ latest < b /\ b < c
    /\ \E first \in {Processed(Registry, b, used)} :
       \E second \in {IF first.ok /\ more # <<>> THEN Processed(first.registry, c, more) ELSE first} :
         IF second.ok
         THEN /\ SetRegistry(second.registry)
              /\ chain' = Over(Over(chain, b :> used), IF more = <<>> THEN Empty ELSE c :> more)
              /\ latest' = IF more = <<>> THEN b ELSE c
         ELSE \* undo_ingest
              /\ SetRegistry(IF latest = 0 THEN Reloaded(second.registry)
                             ELSE RolledBack(second.registry, latest))
              /\ UNCHANGED <<chain, latest>>
    /\ UNCHANGED <<final, base>>

HandleFork(p) ==
    /\ p \in final .. latest - 1
    /\ SetRegistry(RolledBack(Registry, p))
    /\ chain' = UpTo(chain, p) /\ latest' = p
    /\ UNCHANGED <<final, base>>

\* Finality leaves the columns and emit_growth alone.
AdvanceFinality(f) ==
    /\ f \in final + 1 .. latest
    /\ final' = f
    /\ UNCHANGED <<names, growth, shared, position, chain, latest, base>>

\* The process stops and opens: the blocks above the durable block d again.
Reopen(d) ==
    /\ d \in base .. final
    /\ SetRegistry(FoldLeft(LAMBDA r, b : Processed(r, b, chain[b]).registry, NewRegistry,
                            SetToSortSeq({b \in DOMAIN chain : b > d}, <)))
    /\ base' = d
    /\ UNCHANGED <<chain, latest, final>>

Uses == {<<n>> : n \in Names} \cup {<<m, n>> : m \in Names, n \in Names}

Next ==
    \/ \E b \in 1 .. MaxBlock, c \in 2 .. MaxBlock + 1, used \in Uses, more \in Uses \cup {<<>>} :
        /\ (more = <<>>) <=> (c = MaxBlock + 1)
        /\ Ingest(b, c, used, more)
    \/ \E p \in 0 .. MaxBlock : HandleFork(p) \/ AdvanceFinality(p) \/ Reopen(p)

Spec == Init /\ [][Next]_vars

-----------------------------------------------------------------------------

\* All names that the blocks of c use, in order.
NamesOf(c) ==
    LET order == SetToSortSeq(DOMAIN c, <) IN FlattenSeq([i \in DOMAIN order |-> c[order[i]]])

\* INV-8: the columns are those that the accepted blocks since the load use,
\* in the order of first use: no undone and no failed block left one, so none of
\* them takes room below the limit.
ColumnsOfAcceptedBlocks ==
    LET fresh == Use(GroupBy, NamesOf(Without(chain, 1 .. base)))
    IN  ~ fresh.overflow /\ names = fresh.names

\* The position that a downstream node kept is that of its column in the
\* registry it kept it for, whatever columns came and went in between.
KeptPositionIsRight == shared => position = PositionOf(names)
=============================================================================
