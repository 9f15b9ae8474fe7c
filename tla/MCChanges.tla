----------------------------- MODULE MCChanges ------------------------------
(***************************************************************************)
(* The change buffer and a raw table side by side: a behaviour drives one  *)
(* of the two.  Blocks of one row and of two, with other values, and every *)
(* key in one bucket.                                                      *)
(***************************************************************************)
EXTENDS ChangeBuffer, RawTable

VARIABLE part

Forms == {<<1>>, <<2, 1>>}

OneBucket(k) == 1

Init == part \in {"buffer", "table"} /\ BufferInit /\ RawInit

Next ==
    \/ part = "buffer" /\ BufferNext /\ UNCHANGED <<part, rawVars>>
    \/ part = "table" /\ RawNext /\ UNCHANGED <<part, bufferVars>>

Spec == Init /\ [][Next]_<<part, bufferVars, rawVars>>

-----------------------------------------------------------------------------
\* Whatever records wait, the batch of a flush takes the target from the rows of the
\* last batch to the present ones, with one record for each row that changed, which
\* fits the row as it is.
BatchIsNet == BatchIsNetChange /\ BatchFitsTarget

\* The host has exactly the rows of the accepted blocks after every sequence of
\* ingests, forks, acks and opens, each record fitted its rows, and the tail
\* above finality is stored, now and after any number of acks.
HostHasChain == TargetIsChain /\ RecordsFit /\ TailIsStored
=============================================================================
