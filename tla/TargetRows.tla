----------------------------- MODULE TargetRows -----------------------------
(***************************************************************************)
(* Maps, and the rows of one output table in the target.  A record has     *)
(* `old` and `new`, sets of at most one row: an Insert has no old row, a   *)
(* Delete no new one.                                                      *)
(***************************************************************************)
EXTENDS Integers, SequencesExt, FiniteSetsExt, TLC

Empty == [x \in {} |-> {}]

\* f with the entries of g, which win.
Over(f, g) == g @@ f

Without(f, S) == Restrict(f, DOMAIN f \ S)

UpTo(f, b) == Restrict(f, {x \in DOMAIN f : x <= b})

\* The rows in the target after the records of one emit.
Apply(rows, records) ==
    Over(Without(rows, {r.key : r \in records}),
         [k \in {r.key : r \in {q \in records : q.new # {}}} |->
            UNION (CHOOSE r \in records : r.key = k).new])

\* The records that do not meet the row they name.
Unsound(rows, records) ==
    {r \in records : r.old # {rows[k] : k \in DOMAIN rows \cap {r.key}}}
=============================================================================
