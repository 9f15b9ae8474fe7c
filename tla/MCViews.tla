------------------------------ MODULE MCViews -------------------------------
(***************************************************************************)
(* Views side by side: one with deferred checkpoints, one with two places  *)
(* in the ack queue, and one with a sliding window.  A behaviour drives    *)
(* one of them, on the variables that they share.                          *)
(***************************************************************************)
EXTENDS Integers

CONSTANTS Null, NoTime

VARIABLES part,
          view, chain, latest, final, image, unsound, disk, queue,
          checkpoint, committed, durable   \* not of the sliding window

vars == <<part, view, chain, latest, final, image, unsound, disk, queue, checkpoint, committed, durable>>

Row(k, t) == [key |-> k, tag |-> t]

\* A row of one of two groups.
Single == {{Row("a", 1)}, {Row("b", 1)}}

\* With two tags, that tell the rows of two forks apart.
Plain == {{Row("a", 1)}, {Row("a", 2)}, {Row("b", 1)}}

\* Rows of which one has no number.
Nulls == {{Row("a", 1)}, {Row("a", Null)}, {Row("b", 1)}}

TimedRow(k, t, ts) == [key |-> k, tag |-> t, ts |-> ts]

\* Times that grow, fall behind the window, meet its edge, or are missing;
\* a row that feeds nothing.
Timed == {{TimedRow("a", 1, 1)}, {TimedRow("b", 1, 4), TimedRow("a", Null, 0)},
          {TimedRow("a", 2, NoTime)}, {TimedRow("a", 1, 2)}}

Deferred == INSTANCE View WITH Inputs <- Single, Counts <- FALSE, Cap <- 1,
                               MaxBlock <- 3, Interval <- 2, MaxPending <- 1
Queued == INSTANCE View WITH Inputs <- Plain, Counts <- FALSE, Cap <- 1,
                             MaxBlock <- 2, Interval <- 1, MaxPending <- 2
Sliding == INSTANCE Window WITH Inputs <- Timed, Width <- 2, LateFailures <- FALSE,
                                MaxBlock <- 3, MaxPending <- 1

\* A view without a count and a row without a number; as Sliding, with calls that fail
\* after the window moved.
Nulled == INSTANCE View WITH Inputs <- Nulls, Counts <- FALSE, Cap <- 1,
                             MaxBlock <- 3, Interval <- 1, MaxPending <- 1
Failing == INSTANCE Window WITH Inputs <- Timed, Width <- 2, LateFailures <- TRUE,
                                MaxBlock <- 3, MaxPending <- 1

noDeferral == <<checkpoint, committed, durable>>

NoDeferral == checkpoint = 0 /\ committed = 0 /\ durable = 0

Init ==
    \/ part = "deferred" /\ Deferred!Init
    \/ part = "queued" /\ Queued!Init
    \/ part = "sliding" /\ Sliding!Init /\ NoDeferral

Next ==
    \/ part = "deferred" /\ Deferred!Next /\ UNCHANGED part
    \/ part = "queued" /\ Queued!Next /\ UNCHANGED part
    \/ part = "sliding" /\ Sliding!Next /\ UNCHANGED <<part, noDeferral>>

Spec == Init /\ [][Next]_vars

NullSpec == part = "nulls" /\ Nulled!Init /\ [][Nulled!Next /\ UNCHANGED part]_vars

FailingSpec ==
    /\ part = "failing" /\ Failing!Init /\ NoDeferral
    /\ [][Failing!Next /\ UNCHANGED <<part, noDeferral>>]_vars

-----------------------------------------------------------------------------
\* After each call the target has exactly the rows that a recomputation over the
\* accepted blocks gives, of a sliding window over those in the window; although
\* the view sees only the groups that the call touched, keeps few of them in
\* memory, and takes blocks out of the window and back.
TargetIsRecomputed ==
    /\ part = "deferred" => Deferred!TargetIsRecomputed
    /\ part = "queued" => Queued!TargetIsRecomputed
    /\ part = "sliding" => Sliding!WindowIsRecomputed

\* What a record says of a row is true when the target applies it: an Insert
\* meets no row, an Update or a Delete the row that it names as the previous
\* one, also for groups that left memory and for rows that a fork brings.
RecordsSound == unsound = {}

\* What left memory or the window is found again.  A group that is not in memory
\* is in the store in its present final state, whatever waits in the queue; one in
\* memory has the data of its blocks, split at the finalized block.  The stash
\* of a sliding window has exactly the expired blocks that a fork can bring back:
\* those that expired in a block which is not final.
GroupsFound ==
    /\ part = "deferred" => Deferred!GroupsFound
    /\ part = "queued" => Queued!GroupsFound
    /\ part = "sliding" => Sliding!StashIsWhatForksNeed

\* Every store that a crash may meet has, in each group, the data up to its own
\* durable block (of a sliding window, the window at its finalized block): what
\* the replay of the raw rows above it continues.
StoredAsOfDurable ==
    /\ part = "deferred" => Deferred!StoredAsOfDurable
    /\ part = "queued" => Queued!StoredAsOfDurable
    /\ part = "sliding" => Sliding!StoredWindow
=============================================================================
