---------------------------- MODULE HostCallback ----------------------------
(***************************************************************************)
(* External reducers from the host's side (napi.rs, external.rs and          *)
(* state-map.ts): the callbacks of each instance, the context that a call    *)
(* installs for its thread, and the handles by which a reducer body reaches  *)
(* the MAP fields of its group. All of it is shared by the instances of a    *)
(* thread: EXTERNAL_CTX, HOST_MAPS and the epoch.                            *)
(*                                                                          *)
(* Each instance has one external reducer, with MAP fields if the schema      *)
(* declares it. What a group has in them is the set of the groups whose       *)
(* handles wrote it. A body may keep every handle it gets. A call has the     *)
(* rows of at most one block, and no fork; no checkpoint is deferred, and the  *)
(* store does not fail. `covered` and `used` are history.                     *)
(***************************************************************************)
EXTENDS Integers, Sequences, SequencesExt, FiniteSets

CONSTANTS
    Instances,
    ReducerId,      \* the name of the reducer of each instance
    InSchema,       \* the instances whose schema declares the reducer
    Keys,           \* the groups
    GroupLists,     \* the groups of a block, in order
    MaxPending,     \* max_pending_batches
    MaxCalls

\* A block that runs has rows of a group.
ASSUME GroupListsAssumption == GroupLists \subseteq Seq(Keys) \ {<<>>}

ASSUME MaxPendingAssumption == MaxPending \in Nat \ {0}

VARIABLES
    instance,       \* [reducer, callback, covered, poisoned, unacked, maps] of each instance
    ctx,            \* EXTERNAL_CTX: the instance whose callbacks it has, if any
    host,           \* HOST_MAPS: the maps of each group of the block, if any
    stack,          \* the callbacks that run, the innermost last
    epoch,
    handles,        \* [home, index, epoch]
    used,           \* the last use of a handle: its home, the group reached, the group that ran
    calls

hostVars == <<instance, ctx, host, stack, epoch, handles, used, calls>>

Home(i, key) == <<i, key>>

\* A reducer of `register_reducer` has no MAP fields.
HasMaps(i) == i \in InSchema

\* The maps of a group: not here while they are in HOST_MAPS. Their journal
\* takes the block of the last call back to `before`.
Maps(home, by) == [of |-> home, here |-> TRUE, by |-> by, before |-> by]

Begun(maps) == [maps EXCEPT !.before = maps.by]

Gone(maps) == [maps EXCEPT !.here = FALSE]

-----------------------------------------------------------------------------
(* The callback of a block *)

Top == Last(stack)

Running == Home(Top.instance, Top.keys[Top.group])

Handle(frame, group) ==
    [home |-> Home(frame.instance, frame.keys[group]), index |-> group, epoch |-> epoch']

\* The rows of a group start: its handles work from here on.
StartGroup(frame, group) ==
    /\ epoch' = epoch + 1
    /\ handles' = IF HasMaps(frame.instance) THEN handles \union {Handle(frame, group)} ELSE handles

\* The maps of group k leave for the callback of a block.
Lent(i, keys, k) == HasMaps(i) /\ \E g \in DOMAIN keys : keys[g] = k

\* The block begins in the journals of its groups, and `with_host_maps` brings
\* their maps to HOST_MAPS. What was there comes back after the call.
Enter(inst, i, code, keys, call, installed) ==
    LET frame == [instance |-> i, code |-> code, keys |-> keys, group |-> 1, call |-> call,
                  installed |-> installed, outer |-> host]
    IN  /\ host' = IF HasMaps(i) THEN <<[g \in DOMAIN keys |-> Begun(inst[i].maps[keys[g]])]>> ELSE host
        /\ instance' = [inst EXCEPT ![i].maps = [k \in Keys |-> IF Lent(i, keys, k) THEN Gone(@[k]) ELSE @[k]]]
        /\ stack' = Append(stack, frame)
        /\ StartGroup(frame, 1)

FaultyReturned(frame) ==
    [k \in Keys |->
        IF HasMaps(frame.instance) /\ \E g \in 1..frame.group : frame.keys[g] = k
        THEN host[1][CHOOSE g \in DOMAIN frame.keys : frame.keys[g] = k]
        ELSE instance[frame.instance].maps[k]]
\* ... and the maps go from HOST_MAPS back into their groups, also after a throw.
Returned(frame) ==
    [k \in Keys |->
        IF Lent(frame.instance, frame.keys, k)
        THEN host[1][CHOOSE g \in DOMAIN frame.keys : frame.keys[g] = k]
        ELSE instance[frame.instance].maps[k]]

\* `undo_ingest`: the journals take the block of a failed ingest back.
Undone(frame, maps) ==
    [k \in Keys |-> IF Lent(frame.instance, frame.keys, k) THEN [maps[k] EXCEPT !.by = maps[k].before] ELSE maps[k]]

\* The end of the callback and of the call that ran it: the guard clears the
\* context that the call installed.
Leave(inst) ==
    /\ instance' = inst
    /\ host' = Top.outer
    /\ ctx' = IF Top.installed THEN <<>> ELSE ctx
    /\ stack' = Front(stack)

-----------------------------------------------------------------------------
(* Calls *)

\* A body may call into an instance that does not run it.
MayCall(i) == calls < MaxCalls /\ \A f \in DOMAIN stack : stack[f].instance # i

\* EXTERNAL_CTX is borrowed while a callback runs.
Borrowed == stack # <<>>

\* `callback_installed`: the context on this thread has a callback of that name.
CallbackInstalled(c, i) ==
    c # <<>> /\ instance[c[1]].callback /\ ReducerId[c[1]] = ReducerId[i]

\* A panic poisons its instance, and goes no further; so does a failed replay.
Poisoned(inst, i) == [inst EXCEPT ![i].poisoned = TRUE]

NothingRuns == UNCHANGED <<ctx, host, stack, epoch, handles>>

\* A call that runs no callback.
Ends(inst) == instance' = inst /\ NothingRuns

New(i) == [reducer |-> i \in InSchema, callback |-> FALSE, covered |-> FALSE, poisoned |-> FALSE,
           unacked |-> 0, maps |-> [k \in Keys |-> Maps(Home(i, k), {})]]

HostInit ==
    /\ instance = [i \in Instances |-> New(i)]
    /\ ctx = <<>> /\ host = <<>> /\ stack = <<>> /\ epoch = 0 /\ handles = {} /\ used = <<>> /\ calls = 0

\* The places in use in the ack queue after a call that took effect. One without
\* a batch takes a place only behind an unacked batch.
Queued(n) == IF n = 0 THEN {0, 1} ELSE {n + 1}

\* An ingest with the rows of a block, or with none that reach the reducer. The
\* context is installed only when the instance has callbacks.
Ingest(i, keys) ==
    LET c == IF instance[i].callback THEN <<i>> ELSE ctx
    IN  /\ MayCall(i) /\ calls' = calls + 1 /\ UNCHANGED used
        /\ IF instance[i].callback /\ Borrowed THEN Ends(Poisoned(instance, i))
           ELSE IF instance[i].poisoned \/ instance[i].unacked >= MaxPending THEN Ends(instance)
           ELSE IF keys = <<>> \/ ~instance[i].reducer
                THEN \E n \in Queued(instance[i].unacked) : Ends([instance EXCEPT ![i].unacked = n])
           ELSE IF CallbackInstalled(c, i)
                THEN ctx' = c /\ Enter(instance, i, c[1], keys, "ingest", instance[i].callback)
           ELSE Ends(instance)

FaultyDetached(inst, i) == inst
\* A registration that fails takes the callback that it brought with it.
Detached(inst, i) == [inst EXCEPT ![i].callback = FALSE]

\* `register_reducer` of a reducer that the instance lacks, or
\* `register_reducer_callback` of one that it has. Both refuse a poisoned
\* instance and one with an unacked batch; then the replay runs the callback on
\* the block that is not final, if any.
Register(i, blocks) ==
    LET inst == [instance EXCEPT ![i].callback = TRUE]
        added == [instance EXCEPT ![i].callback = TRUE, ![i].reducer = TRUE]
    IN  /\ MayCall(i) /\ calls' = calls + 1 /\ UNCHANGED used
        /\ IF instance[i].callback THEN Ends(instance)
           ELSE IF Borrowed THEN Ends(Poisoned(inst, i))
           ELSE IF instance[i].poisoned \/ instance[i].unacked > 0 THEN Ends(Detached(inst, i))
           ELSE IF blocks = <<>> THEN Ends([added EXCEPT ![i].covered = TRUE])
           ELSE ctx' = <<i>> /\ Enter(added, i, i, blocks[1], "register", TRUE)

\* The host acks some of the batches, also on a poisoned instance.
Ack(i) ==
    /\ \A f \in DOMAIN stack : stack[f].instance # i
    /\ \E n \in 0..instance[i].unacked - 1 : Ends([instance EXCEPT ![i].unacked = n])
    /\ UNCHANGED <<used, calls>>

\* The rows of the next group.
NextGroup ==
    /\ stack # <<>> /\ Top.group < Len(Top.keys)
    /\ stack' = [stack EXCEPT ![Len(stack)].group = @ + 1]
    /\ StartGroup(Top, Top.group + 1)
    /\ UNCHANGED <<instance, ctx, host, used, calls>>

IngestReturns ==
    /\ stack # <<>> /\ Top.call = "ingest" /\ Top.group = Len(Top.keys)
    /\ \E n \in Queued(instance[Top.instance].unacked) :
        Leave([instance EXCEPT ![Top.instance].maps = Returned(Top), ![Top.instance].unacked = n])
    /\ UNCHANGED <<epoch, handles, used, calls>>

ReplayReturns ==
    /\ stack # <<>> /\ Top.call = "register" /\ Top.group = Len(Top.keys)
    /\ Leave([instance EXCEPT ![Top.instance].maps = Returned(Top), ![Top.instance].covered = TRUE])
    /\ UNCHANGED <<epoch, handles, used, calls>>

\* The body throws in an ingest: the engine undoes the call.
IngestThrows ==
    /\ stack # <<>> /\ Top.call = "ingest"
    /\ Leave([instance EXCEPT ![Top.instance].maps = Undone(Top, Returned(Top))])
    /\ UNCHANGED <<epoch, handles, used, calls>>

\* The body throws in a replay: nothing is undone, and the reducer stays.
ReplayThrows ==
    /\ stack # <<>> /\ Top.call = "register"
    /\ Leave(Detached(Poisoned([instance EXCEPT ![Top.instance].maps = Returned(Top)], Top.instance), Top.instance))
    /\ UNCHANGED <<epoch, handles, used, calls>>

\* The check of StateMapHandle, then those of `with_host_map`.
Usable(h) == h.epoch = epoch /\ host # <<>> /\ h.index <= Len(host[1])

\* The body, or any code of the host, writes through a handle: the group at
\* its index gets it.
WriteHandle(h) ==
    /\ Usable(h)
    /\ host' = [host EXCEPT ![1][h.index].by = @ \union {h.home}]
    /\ used' = <<[home |-> h.home, at |-> host[1][h.index].of, ran |-> Running]>>
    /\ UNCHANGED <<instance, ctx, stack, epoch, handles, calls>>

\* The host drops an instance and opens it again: the unacked batches are lost,
\* and a group has what the last checkpoint wrote of it, if anything.
Reopen(i) ==
    /\ \A f \in DOMAIN stack : stack[f].instance # i
    /\ \E saved \in SUBSET Keys :
        instance' = [instance EXCEPT ![i] = [New(i) EXCEPT !.maps =
            [k \in Keys |-> Maps(Home(i, k), IF k \in saved THEN instance[i].maps[k].by ELSE {})]]]
    /\ UNCHANGED <<ctx, host, stack, epoch, handles, used, calls>>

\* The thread ends, with all that it shared.
NewThread ==
    /\ stack = <<>> /\ calls = MaxCalls
    /\ instance' = [i \in Instances |-> New(i)]
    /\ ctx' = <<>> /\ host' = <<>> /\ stack' = <<>> /\ epoch' = 0 /\ handles' = {} /\ used' = <<>> /\ calls' = 0

HostNext ==
    \/ \E i \in Instances :
        \/ \E keys \in {<<>>} \union GroupLists : Ingest(i, keys)
        \/ \E blocks \in {<<>>} \union {<<keys>> : keys \in GroupLists} : Register(i, blocks)
        \/ Ack(i)
        \/ Reopen(i)
    \/ NextGroup \/ IngestReturns \/ ReplayReturns \/ IngestThrows \/ ReplayThrows
    \/ \E h \in handles : WriteHandle(h)
    \/ NewThread

HostSpec == HostInit /\ [][HostNext]_hostVars

-----------------------------------------------------------------------------
\* A handle reaches the maps of the group that it was made for, and only while
\* the rows of that group run: no other group's at its index in this block,
\* in a later one or in the block of another reducer.
OwnGroup ==
    used # <<>> => used[1].at = used[1].home /\ used[1].ran = used[1].home

\* After a callback that returned or threw, in an ingest or in a replay, each
\* group has its own maps, written by itself alone, and nothing of the callback
\* is left on the thread.
MapsReturn ==
    stack = <<>> =>
        /\ host = <<>> /\ ctx = <<>>
        /\ \A i \in Instances, k \in Keys :
            LET maps == instance[i].maps[k]
            IN  maps.here /\ maps.of = Home(i, k) /\ maps.by \subseteq {Home(i, k)}

\* In an instance that may ingest, a callback is attached only once the blocks
\* that are not final went through it. A registration that is refused with a
\* batch unacked leaves no callback, so the next one, after the ack, runs the
\* replay; a replay that fails leaves the instance poisoned.
AttachedCovers ==
    \A i \in Instances :
        instance[i].callback /\ ~instance[i].poisoned /\ (\A f \in DOMAIN stack : stack[f].instance # i)
            => instance[i].covered

\* Rows run only through the code of their own instance, also when the ingest
\* comes from the callback of another one (whose reducer has another name), and the
\* context that it installed is on the thread.
OwnCode == \A f \in DOMAIN stack : stack[f].code = stack[f].instance

\* A Map handle reaches the maps of its own group while the group's rows run, and
\* after a callback that returned or threw each group has its maps back.
MapsStayApart == OwnGroup /\ MapsReturn

\* The rows of an instance run through its own code only, and a callback that is
\* attached has seen every block that is not final.
AttachedCodeRuns == OwnCode /\ AttachedCovers

=============================================================================
