----------------------------- MODULE NetRecord -----------------------------
(***************************************************************************)
(* What the change buffer promises for one row: between two batches it has *)
(* at most one record of the row, the net change since the last batch.     *)
(***************************************************************************)
EXTENDS MergeRecord

CONSTANTS Key, Values

VARIABLES base,     \* the row as of the last batch
          present,  \* the row now
          net       \* at most one record

vars == <<base, present, net>>

Row == {{}} \cup {{v} : v \in Values}

Records == [op : {"Insert", "Update", "Delete"}, key : {Key}, values : Row, prev : Row]

Init == base = {} /\ present = {} /\ net = {}

\* The record of the row after record r.
Merged(r) == IF net = {} THEN {r} ELSE {x \in {MergeInPlace(q, r) : q \in net} : ~ IsCancelled(x)}

Push(r) ==
    /\ present' \in Row
    /\ Fits(r, present, present')
    /\ net' = Merged(r)
    /\ UNCHANGED base

\* The batch has the record, if there is one.
Flush ==
    /\ base' = present /\ net' = {}
    /\ UNCHANGED present

\* The process stops: the records since the last batch are gone.
Reopen ==
    /\ present' = base /\ net' = {}
    /\ UNCHANGED base

Next == Flush \/ Reopen \/ \E r \in Records : Push(r)

Spec == Init /\ [][Next]_vars

\* The merged record takes the row of the last batch to the present one; with
\* no record they are the same.
NetIsChange ==
    /\ base \in Row /\ present \in Row /\ net \in SUBSET Records
    /\ net = {} => present = base
    /\ \A r \in net : net = {r} /\ Fits(r, base, present)
=============================================================================
