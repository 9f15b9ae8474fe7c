---------------------------- MODULE MCAggregates ----------------------------
(***************************************************************************)
(* Aggregates side by side: the block enum that they keep their values in, *)
(* the aggregates of a signed saturating number under finality and forks,  *)
(* and those of a view with a sliding window.  A behaviour drives one of   *)
(* them.                                                                   *)
(***************************************************************************)
EXTENDS Blocks, Integers

CONSTANT Null

VARIABLES part,
          aggs, expired, rows, final \* of Aggregates

aggregateVars == <<aggs, expired, rows, final>>

\* Values that pass the limit of the sum one way and come back.
Lists == {<<Null>>, <<2>>, <<3, -4>>}

Positive == {<<Null>>, <<2>>, <<1, 3>>}

Unfinal == INSTANCE Aggregates WITH
    MinBlocks <- 2, Mode <- "Int", Limit <- 3, Inputs <- Lists, Block <- 1 .. 4,
    MaxCalls <- 4, Sliding <- FALSE
Windowed == INSTANCE Aggregates WITH
    MinBlocks <- 2, Mode <- "BigInt", Limit <- 3, Inputs <- Positive, Block <- 1 .. 4,
    MaxCalls <- 4, Sliding <- TRUE

AllInit ==
    /\ part \in {"enum", "tail", "sliding"}
    /\ Init
    /\ Unfinal!Init

AllNext ==
    \/ part = "enum" /\ Next /\ UNCHANGED <<part, aggregateVars>>
    \/ part = "tail" /\ Unfinal!Next /\ UNCHANGED <<part, blocks, result>>
    \/ part = "sliding" /\ Windowed!Next /\ UNCHANGED <<part, blocks, result>>

AllSpec == AllInit /\ [][AllNext]_<<part, blocks, result, aggregateVars>>

-----------------------------------------------------------------------------
\* Every aggregate has the value that its definition gives for the rows that are
\* in the window, and has data exactly when one of them reached it (a view emits an
\* insert or a delete by this alone), after every insert, removal, expiry, finality and
\* reload.  The running fold that a value is read from equals a fold from
\* nothing, in the right order for sums that saturate.
MatchesRows ==
    /\ part = "tail" => Unfinal!MatchesRows /\ Unfinal!DataIffRows /\ Unfinal!RunningIsFresh
    /\ part = "sliding" => Windowed!MatchesRows /\ Windowed!DataIffRows /\ Windowed!RunningIsFresh
=============================================================================
