------------------------------- MODULE Reader -------------------------------
(***************************************************************************)
(* Reads that may fail, one after the other. A position is whatever the     *)
(* reader of a format keeps.                                                *)
(***************************************************************************)
LOCAL INSTANCE Naturals
LOCAL INSTANCE Sequences

\* What a read gives: a value and the position after it, or an error.
Err == [ok |-> FALSE]

Ok(value, pos) == [ok |-> TRUE, value |-> value, pos |-> pos]

\* The `?` operator: go on with what was read.
Then(read, Next(_)) == IF read.ok THEN Next(read) ELSE Err

\* n items from pos on, one after the other.
ReadMany(n, pos, Item(_)) ==
    LET Read[i \in 0..n] ==
            IF i = 0 THEN Ok(<<>>, pos)
            ELSE Then(Read[i - 1], LAMBDA list :
                     Then(Item(list.pos), LAMBDA x : Ok(Append(list.value, x.value), x.pos)))
    IN  Read[n]

=============================================================================
