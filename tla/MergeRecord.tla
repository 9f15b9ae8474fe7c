---------------------------- MODULE MergeRecord ----------------------------
(***************************************************************************)
(* A change record of one row, and the merge of two (change.rs).  A row of *)
(* the target is {} (absent) or {values}; `values` and `prev` of a record  *)
(* are such sets too.  The Delete of a raw row has its values and no prev. *)
(* A cancelled record has neither.                                         *)
(***************************************************************************)

Record(op, k, values, prev) == [op |-> op, key |-> k, values |-> values, prev |-> prev]

\* The record r takes its row from `before` to `after`, and its old row, where
\* it has one, is the one before.
Fits(r, before, after) ==
    \/ r.op = "Insert" /\ before = {} /\ after # {} /\ r.values = after /\ r.prev = {}
    \/ r.op = "Update" /\ before # {} /\ after # {} /\ r.values = after /\ r.prev \in {{}, before}
    \/ r.op = "Delete" /\ before # {} /\ after = {} /\ r.values # {} /\ r.prev \in {{}, before}

Cancelled(r) == [r EXCEPT !.op = "Delete", !.prev = {}, !.values = {}]

\* A Delete after an Update leaves the Update.
FaultyMergeInPlace(old, new) ==
    IF old.op = "Insert" /\ new.op = "Delete" THEN Cancelled(old)
    ELSE IF old.op \in {"Insert", "Update"} THEN [old EXCEPT !.values = new.values]
    ELSE IF new.op = "Insert" THEN [old EXCEPT !.op = "Update", !.values = new.values]
    ELSE new

\* merge_in_place; an Insert and a Delete cancel out.
MergeInPlace(old, new) ==
    IF old.op = "Insert" /\ new.op = "Update" THEN [old EXCEPT !.values = new.values]
    ELSE IF old.op = "Insert" /\ new.op = "Delete" THEN Cancelled(old)
    ELSE IF old.op = "Update" /\ new.op = "Update" THEN [old EXCEPT !.values = new.values]
    ELSE IF old.op = "Update" /\ new.op = "Delete" THEN [old EXCEPT !.op = "Delete", !.values = new.values]
    ELSE IF old.op = "Delete" /\ new.op = "Insert" THEN [old EXCEPT !.op = "Update", !.values = new.values]
    ELSE new

IsCancelled(r) == r.op = "Delete" /\ r.prev = {} /\ r.values = {}
=============================================================================
