------------------------------ MODULE MCEngine ------------------------------
(***************************************************************************)
(* The engine with the constants of the configuration, and beside it a     *)
(* second one under other settings: deferred checkpoints with a host that  *)
(* names few blocks, two places in the ack queue, a source with three      *)
(* chains and no deferral, and an external reducer.  A behaviour drives    *)
(* one of the two, and keeps its setting.                                  *)
(***************************************************************************)
EXTENDS Engine

VARIABLES setting, disk2, pending2, eng2, accepted2, attached2, poisoned2

vars2 == <<disk2, pending2, eng2, accepted2, attached2, poisoned2>>

\* The main chain up to block n, and the fork off it at block k.
MainChain(n) == [b \in 0 .. n |-> "a"]
ForkAt(k, n) == [b \in 0 .. n |-> IF b < k THEN "a" ELSE IF k = 1 THEN "b" ELSE "c"]

\* Two chains that part after block 1; three with forks at block 1 and block 2.
LateFork(n) == {MainChain(n), ForkAt(2, n)}
TwoForks(n) == {MainChain(n), ForkAt(1, n), ForkAt(2, n)}

\* Runs of consecutive blocks, and none.
Intervals(n) == {lo .. hi : lo, hi \in 0 .. n}

\* Runs that end at the newest block, and none.
Tips(n) == {lo .. n : lo \in 0 .. n + 1}

\* Those that tell the forks of LateFork apart: none, from the block below the
\* fork, and from its first block.
Around(n) == {{}, 1 .. n, 2 .. n}

\* At most one block.
Singles(n) == {S \in SUBSET (0 .. n) : Cardinality(S) <= 1}

\* The inputs of the configurations.
ForkedViews == TwoForks(MaxBlock)
LateForkViews == LateFork(MaxBlock)
TipChains == Tips(MaxBlock)
AllLoads == Intervals(MaxBlock)

Deferred == INSTANCE Engine WITH
    MaxBlock <- 3, Views <- LateFork(3), Chains <- Around(3), Loads <- Intervals(3),
    Interval <- 2, DeferAllowed <- TRUE, Retention <- 0, MaxPending <- 1,
    External <- FALSE, AttachFirst <- FALSE, CompleteChains <- FALSE,
    disk <- disk2, pending <- pending2, eng <- eng2,
    accepted <- accepted2, attached <- attached2, poisoned <- poisoned2

Queued == INSTANCE Engine WITH
    MaxBlock <- 2, Views <- LateFork(2), Chains <- Tips(2), Loads <- Singles(2),
    Interval <- 2, DeferAllowed <- TRUE, Retention <- 1, MaxPending <- 2,
    External <- FALSE, AttachFirst <- FALSE, CompleteChains <- FALSE,
    disk <- disk2, pending <- pending2, eng <- eng2,
    accepted <- accepted2, attached <- attached2, poisoned <- poisoned2

Forked == INSTANCE Engine WITH
    MaxBlock <- 3, Views <- TwoForks(3), Chains <- Tips(3), Loads <- Intervals(3),
    Interval <- 1, DeferAllowed <- TRUE, Retention <- 0, MaxPending <- 1,
    External <- FALSE, AttachFirst <- FALSE, CompleteChains <- TRUE,
    disk <- disk2, pending <- pending2, eng <- eng2,
    accepted <- accepted2, attached <- attached2, poisoned <- poisoned2

Hosted == INSTANCE Engine WITH
    MaxBlock <- 2, Views <- LateFork(2), Chains <- Tips(2), Loads <- Intervals(2),
    Interval <- 2, DeferAllowed <- TRUE, Retention <- 0, MaxPending <- 1,
    External <- TRUE, AttachFirst <- TRUE, CompleteChains <- FALSE,
    disk <- disk2, pending <- pending2, eng <- eng2,
    accepted <- accepted2, attached <- attached2, poisoned <- poisoned2

ASSUME Assumptions
ASSUME Deferred!Assumptions /\ Queued!Assumptions /\ Forked!Assumptions /\ Hosted!Assumptions

SuiteInit ==
    /\ Init
    /\ \/ setting \in {"main", "deferred"} /\ Deferred!Init
       \/ setting = "queued" /\ Queued!Init
       \/ setting = "forked" /\ Forked!Init
       \/ setting = "hosted" /\ Hosted!Init

SuiteNext ==
    /\ \/ setting = "main" /\ Next /\ UNCHANGED vars2
       \/ /\ \/ setting = "deferred" /\ Deferred!Next
             \/ setting = "queued" /\ Queued!Next
             \/ setting = "forked" /\ Forked!Next
             \/ setting = "hosted" /\ Hosted!Next
          /\ UNCHANGED vars
    /\ UNCHANGED setting

SuiteSpec == SuiteInit /\ [][SuiteNext]_<<setting, vars, vars2>>

-----------------------------------------------------------------------------
\* Under the other settings too the durable block keeps its place, the derived state is
\* the fold of the accepted rows, every store that a crash leaves can be replayed, and a
\* reopen and a failed call leave no trace.
SettingsHold ==
    /\ setting = "deferred" =>
           /\ Deferred!WatermarkOrder /\ Deferred!DerivedState /\ Deferred!Recoverable
           /\ Deferred!ReopenTransparent /\ Deferred!UndoRestores
    /\ setting = "queued" =>
           /\ Queued!WatermarkOrder /\ Queued!DerivedState /\ Queued!Recoverable
           /\ Queued!ReopenTransparent
    /\ setting = "forked" =>
           /\ Forked!WatermarkOrder /\ Forked!DerivedState /\ Forked!Recoverable
           /\ Forked!ReopenTransparent /\ Forked!HeldIsCanonical
    /\ setting = "hosted" =>
           /\ Hosted!WatermarkOrder /\ Hosted!DerivedState /\ Hosted!Recoverable
           /\ Hosted!UndoRestores

\* Without deferral the stored hash of a final block is never replaced by another one,
\* so a conflict at or below finality never gets through (above block 0); and under
\* every setting final rows stay in the store.
FinalHashStays ==
    [][/\ setting = "deferred" => Deferred!FinalBlocksKept
       /\ setting = "queued" => Queued!FinalBlocksKept
       /\ setting = "forked" => Forked!FinalBlocksKept /\ Forked!FinalHashKept
       /\ setting = "hosted" => Hosted!FinalBlocksKept]_disk2
=============================================================================
