------------------------- MODULE HostCallbackProofs -------------------------
(***************************************************************************)
(* What the callbacks and the Map handles of a thread keep apart, for any  *)
(* number of instances, groups, calls and kept handles.                    *)
(***************************************************************************)
EXTENDS HostCallback, SequenceTheorems, TLAPS

-----------------------------------------------------------------------------
(* The inductive invariants *)

\* No two instances of the thread have a reducer of the same name.
DistinctNames == \A i, j \in Instances : ReducerId[i] = ReducerId[j] => i = j

Map ==
    [of : Instances \X Keys, here : BOOLEAN, by : SUBSET (Instances \X Keys),
     before : SUBSET (Instances \X Keys)]

InstanceState ==
    [reducer : BOOLEAN, callback : BOOLEAN, covered : BOOLEAN, poisoned : BOOLEAN, unacked : Nat,
     maps : [Keys -> Map]]

HostMaps == {s \in Seq(Seq(Map)) : Len(s) <= 1}

Frame ==
    [instance : Instances, code : Instances, keys : Seq(Keys) \ {<<>>}, group : Nat \ {0},
     call : {"ingest", "register"}, installed : BOOLEAN, outer : HostMaps]

HandleState == [home : Instances \X Keys, index : Nat \ {0}, epoch : Nat]

\* HOST_MAPS while the callback at place f of the stack runs.
HostOf(f) == IF f = Len(stack) THEN host ELSE stack[f + 1].outer

Fits(maps, keys) == Len(maps) = 1 /\ DOMAIN maps[1] = DOMAIN keys

HostTypeOK ==
    /\ instance \in [Instances -> InstanceState]
    /\ ctx \in {<<>>} \cup {<<i>> : i \in Instances}
    /\ host \in HostMaps
    /\ stack \in Seq(Frame)
    /\ \A f \in DOMAIN stack : stack[f].group \in DOMAIN stack[f].keys
    /\ \A f \in DOMAIN stack : HasMaps(stack[f].instance) => Fits(HostOf(f), stack[f].keys)
    /\ epoch \in Nat
    /\ handles \in SUBSET HandleState

\* A callback of an ingest was covered before the ingest.
CoverInv ==
    /\ HostTypeOK
    /\ AttachedCovers
    /\ \A f \in DOMAIN stack :
        LET i == stack[f].instance
        IN  stack[f].call = "ingest" /\ instance[i].callback /\ ~instance[i].poisoned
                => instance[i].covered

\* The maps of group k, with its own writes only.
OwnMaps(m, i, k) ==
    /\ m.here /\ m.of = Home(i, k)
    /\ m.by \subseteq {Home(i, k)} /\ m.before \subseteq {Home(i, k)}

\* What holds while the callback `f` runs: it is alone, its context is
\* installed, its groups have their maps in HOST_MAPS, and only the handle of
\* the group that runs has the present epoch.
InFrame(f) ==
    /\ ctx = <<f.instance>> /\ f.installed /\ f.code = f.instance /\ f.outer = <<>>
    /\ HasMaps(f.instance) =>
        /\ DOMAIN host[1] = DOMAIN f.keys
        /\ \A g \in DOMAIN f.keys : OwnMaps(host[1][g], f.instance, f.keys[g])
    /\ ~HasMaps(f.instance) => host = <<>>
    /\ \A i \in Instances, k \in Keys :
        OwnMaps(instance[i].maps[k], i, k) \/ (i = f.instance /\ Lent(i, f.keys, k))
    /\ \A h \in handles :
        h.epoch = epoch => h.index = f.group /\ h.home = Home(f.instance, f.keys[f.group])

\* Nothing of a callback is left.
Idle ==
    /\ host = <<>> /\ ctx = <<>>
    /\ \A i \in Instances, k \in Keys : OwnMaps(instance[i].maps[k], i, k)

HostInv ==
    /\ HostTypeOK
    /\ \A h \in handles : h.epoch <= epoch
    /\ Len(stack) <= 1
    /\ IF stack = <<>> THEN Idle ELSE InFrame(stack[1])
    /\ OwnGroup

-----------------------------------------------------------------------------
(* Types *)

\* The innermost callback, and the stack without it.
LEMMA StackFacts ==
    ASSUME HostTypeOK, stack # <<>>
    PROVE  /\ Len(stack) \in Nat \ {0} /\ Len(stack) \in DOMAIN stack
           /\ Top = stack[Len(stack)] /\ Top \in Frame /\ Top.group \in DOMAIN Top.keys
           /\ Front(stack) \in Seq(Frame) /\ Len(Front(stack)) = Len(stack) - 1
           /\ \A f \in 1 .. Len(stack) - 1 : Front(stack)[f] = stack[f]
           /\ Len(stack) = 1 => Front(stack) = <<>>
           /\ HasMaps(Top.instance) => Fits(host, Top.keys)
  <1>1. stack \in Seq(Frame) /\ Len(stack) \in Nat /\ Len(stack) # 0
    BY EmptySeq, LenProperties DEF HostTypeOK
  <1>2. Len(stack) \in DOMAIN stack /\ stack[Len(stack)] \in Frame
    BY <1>1, ElementOfSeq
  <1>3. Front(stack) = SubSeq(stack, 1, Len(stack) - 1)
    BY DEF Front
  <1>4. /\ Front(stack) \in Seq(Frame) /\ Len(Front(stack)) = Len(stack) - 1
        /\ \A f \in 1 .. Len(stack) - 1 : Front(stack)[f] = stack[f]
    <2>. DEFINE n == Len(stack) - 1
    <2>1. n \in Int /\ n >= 0 /\ \A f \in 1 .. n : stack[f] \in Frame
      BY <1>1, ElementOfSeq
    <2>2. /\ SubSeq(stack, 1, n) \in Seq(Frame)
          /\ Len(SubSeq(stack, 1, n)) = IF 1 <= n THEN n - 1 + 1 ELSE 0
          /\ \A f \in 1 .. n - 1 + 1 : SubSeq(stack, 1, n)[f] = stack[1 + f - 1]
      BY <2>1, SubSeqProperties
    <2>. HIDE DEF n
    <2>3. Len(SubSeq(stack, 1, n)) = n
      BY <2>1, <2>2
    <2>4. \A f \in 1 .. n : SubSeq(stack, 1, n)[f] = stack[f]
      BY <2>1, <2>2
    <2>. QED
      BY <1>3, <2>2, <2>3, <2>4 DEF n
  <1>5. Len(stack) = 1 => Front(stack) = <<>>
    BY <1>4, EmptySeq
  <1>. QED
    BY <1>1, <1>2, <1>4, <1>5 DEF Top, Last, HostTypeOK, HostOf

\* The frames of the stack.
LEMMA FrameTypes ==
    ASSUME HostTypeOK
    PROVE  /\ Len(stack) \in Nat /\ DOMAIN stack = 1 .. Len(stack)
           /\ \A f \in DOMAIN stack : stack[f] \in Frame /\ stack[f].instance \in Instances
  <1>1. stack \in Seq(Frame) /\ Len(stack) \in Nat /\ DOMAIN stack = 1 .. Len(stack)
    BY LenProperties DEF HostTypeOK
  <1>2. \A f \in DOMAIN stack : stack[f] \in Frame
    BY <1>1, ElementOfSeq
  <1>3. \A x \in Frame : x.instance \in Instances
    BY DEF Frame
  <1>. QED
    BY <1>1, <1>2, <1>3

\* A group list.
LEMMA ListFacts ==
    ASSUME NEW keys \in GroupLists
    PROVE  /\ keys \in Seq(Keys) \ {<<>>} /\ Len(keys) \in Nat \ {0} /\ 1 \in DOMAIN keys
           /\ \A g \in DOMAIN keys : keys[g] \in Keys
  <1>1. keys \in Seq(Keys) /\ keys # <<>>
    BY GroupListsAssumption
  <1>2. Len(keys) \in Nat /\ Len(keys) # 0
    BY <1>1, EmptySeq, LenProperties
  <1>. QED
    BY <1>1, <1>2, ElementOfSeq

\* The frame of a callback that starts.
NewFrame(i, code, keys, call, installed) ==
    [instance |-> i, code |-> code, keys |-> keys, group |-> 1, call |-> call,
     installed |-> installed, outer |-> host]

\* What a callback that starts changes.
Entered(inst, i, code, keys, call, installed) ==
    /\ Len(stack') = Len(stack) + 1
    /\ \A f \in DOMAIN stack : f \in DOMAIN stack' /\ stack'[f] = stack[f]
    /\ stack'[Len(stack')] = NewFrame(i, code, keys, call, installed)
    /\ HasMaps(i) => Len(host') = 1 /\ host'[1] = [g \in DOMAIN keys |-> Begun(inst[i].maps[keys[g]])]
    /\ ~HasMaps(i) => host' = host
    /\ \A j \in Instances \ {i} : instance'[j] = inst[j]
    /\ instance'[i] = [inst[i] EXCEPT !.maps = [k \in Keys |-> IF Lent(i, keys, k) THEN Gone(@[k]) ELSE @[k]]]
    /\ epoch' = epoch + 1
    /\ handles' \subseteq handles \cup {[home |-> Home(i, keys[1]), index |-> 1, epoch |-> epoch + 1]}

\* A callback starts on a frame with the maps of its groups in HOST_MAPS.
LEMMA EnterTypes ==
    ASSUME HostTypeOK, NEW inst \in [Instances -> InstanceState], NEW i \in Instances,
           NEW code \in Instances, NEW keys \in GroupLists, NEW call \in {"ingest", "register"},
           NEW installed \in BOOLEAN, Enter(inst, i, code, keys, call, installed),
           ctx' \in {<<>>} \cup {<<j>> : j \in Instances}
    PROVE  HostTypeOK' /\ Entered(inst, i, code, keys, call, installed)
  <1>. DEFINE frame == NewFrame(i, code, keys, call, installed)
              m == [g \in DOMAIN keys |-> Begun(inst[i].maps[keys[g]])]
              gone == [k \in Keys |-> IF Lent(i, keys, k) THEN Gone(inst[i].maps[k]) ELSE inst[i].maps[k]]
              h == [home |-> Home(i, keys[1]), index |-> 1, epoch |-> epoch + 1]
  <1>1. /\ keys \in Seq(Keys) \ {<<>>} /\ Len(keys) \in Nat \ {0} /\ 1 \in DOMAIN keys
        /\ \A g \in DOMAIN keys : keys[g] \in Keys
    BY ListFacts
  <1>2. inst[i] \in InstanceState /\ inst[i].maps \in [Keys -> Map]
    BY DEF InstanceState
  <1>a. \A x \in Map : Begun(x) \in Map /\ Gone(x) \in Map
    BY DEF Begun, Gone, Map
  <1>3. m \in Seq(Map) /\ DOMAIN m = DOMAIN keys
    <2>1. DOMAIN keys = 1 .. Len(keys)
      BY <1>1, LenProperties
    <2>2. \A g \in DOMAIN keys : Begun(inst[i].maps[keys[g]]) \in Map
      BY <1>1, <1>2, <1>a
    <2>. QED
      BY <1>1, <2>1, <2>2, IsASeq
  <1>4. frame \in Frame
    BY <1>1, <1>2 DEF NewFrame, Frame, HostTypeOK
  <1>5. gone \in [Keys -> Map]
    BY <1>2, <1>a
  <1>6. /\ host' = (IF HasMaps(i) THEN <<m>> ELSE host) /\ stack' = Append(stack, frame)
        /\ instance' = [inst EXCEPT ![i].maps = gone]
        /\ epoch' = epoch + 1 /\ handles' \subseteq handles \cup {h}
    <2>1. frame.instance = i /\ frame.keys = keys
      BY DEF NewFrame
    <2>2. host' = (IF HasMaps(i) THEN <<m>> ELSE host) /\ stack' = Append(stack, frame) /\ StartGroup(frame, 1)
      BY DEF Enter, NewFrame
    <2>3. instance' = [inst EXCEPT ![i].maps = gone]
      BY DEF Enter
    <2>. HIDE DEF frame
    <2>. QED
      BY <2>1, <2>2, <2>3 DEF StartGroup, Handle
  <1>7. /\ stack' \in Seq(Frame) /\ Len(stack') = Len(stack) + 1 /\ Len(stack) \in Nat
        /\ \A f \in DOMAIN stack : f \in DOMAIN stack' /\ stack'[f] = stack[f]
        /\ stack'[Len(stack')] = frame /\ DOMAIN stack' = 1 .. Len(stack) + 1
        /\ DOMAIN stack = 1 .. Len(stack)
    <2>. HIDE DEF frame
    <2>1. stack \in Seq(Frame)
      BY DEF HostTypeOK
    <2>. QED
      BY <2>1, <1>4, <1>6, AppendProperties, LenProperties
  <1>8. instance' \in [Instances -> InstanceState]
    <2>. HIDE DEF gone
    <2>. QED
      BY <1>5, <1>6, Zenon DEF InstanceState
  <1>9. host' \in HostMaps /\ (HasMaps(i) => Len(host') = 1 /\ host'[1] = m) /\ (~HasMaps(i) => host' = host)
    <2>. HIDE DEF m
    <2>. QED
      BY <1>3, <1>6 DEF HostMaps, HostTypeOK
  <1>10. h \in HandleState /\ epoch' \in Nat
    BY <1>1, <1>6 DEF HandleState, HostTypeOK, Home
  <1>11. handles' \in SUBSET HandleState
    BY <1>6, <1>10 DEF HostTypeOK
  <1>12. frame.group = 1 /\ frame.keys = keys /\ frame.outer = host /\ frame.instance = i
    BY DEF NewFrame
  <1>13. ASSUME NEW f \in DOMAIN stack'
         PROVE  /\ stack'[f].group \in DOMAIN stack'[f].keys
                /\ HasMaps(stack'[f].instance) => Fits(HostOf(f)', stack'[f].keys)
    <2>. HIDE DEF frame, m
    <2>1. CASE f = Len(stack')
      BY <2>1, <1>1, <1>3, <1>7, <1>9, <1>12 DEF HostOf, Fits
    <2>2. CASE f # Len(stack')
      <3>1. f \in DOMAIN stack /\ f <= Len(stack) /\ stack'[f] = stack[f] /\ f \in Nat
        BY <2>2, <1>7
      <3>2. HostOf(f)' = HostOf(f)
        BY <2>2, <3>1, <1>7, <1>12 DEF HostOf
      <3>. QED
        BY <3>1, <3>2 DEF HostTypeOK
    <2>. QED
      BY <2>1, <2>2
  <1>14. HostTypeOK'
    BY <1>7, <1>8, <1>9, <1>10, <1>11, <1>13 DEF HostTypeOK, HasMaps
  <1>15. /\ \A j \in Instances \ {i} : instance'[j] = inst[j]
         /\ instance'[i] = [inst[i] EXCEPT !.maps = gone]
    <2>. HIDE DEF gone
    <2>. QED
      BY <1>6
  <1>. QED
    BY <1>6, <1>7, <1>9, <1>14, <1>15 DEF Entered

\* What the end of a callback changes.
LEMMA LeaveTypes ==
    ASSUME HostTypeOK, stack # <<>>, NEW inst \in [Instances -> InstanceState], Leave(inst),
           UNCHANGED <<epoch, handles>>
    PROVE  /\ HostTypeOK'
           /\ Len(stack') = Len(stack) - 1
           /\ Len(stack) = 1 => stack' = <<>>
           /\ \A f \in DOMAIN stack' : f \in DOMAIN stack /\ stack'[f] = stack[f]
           /\ \A f \in DOMAIN stack : f = Len(stack) \/ f \in DOMAIN stack'
  <1>1. /\ Len(stack) \in Nat \ {0} /\ DOMAIN stack = 1 .. Len(stack)
        /\ Top = stack[Len(stack)] /\ Top \in Frame
    BY StackFacts, LenProperties DEF HostTypeOK
  <1>2. /\ stack' \in Seq(Frame) /\ Len(stack') = Len(stack) - 1
        /\ \A f \in 1 .. Len(stack) - 1 : stack'[f] = stack[f]
        /\ Len(stack) = 1 => stack' = <<>>
    BY StackFacts DEF Leave
  <1>3. DOMAIN stack' = 1 .. Len(stack) - 1
    BY <1>2, LenProperties
  <1>4. host' = Top.outer /\ host' \in HostMaps
    BY <1>1 DEF Leave, Frame
  <1>5. ctx' \in {<<>>} \cup {<<j>> : j \in Instances}
    BY DEF Leave, HostTypeOK
  <1>6. ASSUME NEW f \in DOMAIN stack'
        PROVE  /\ stack'[f].group \in DOMAIN stack'[f].keys
               /\ HasMaps(stack'[f].instance) => Fits(HostOf(f)', stack'[f].keys)
    <2>1. f \in DOMAIN stack /\ stack'[f] = stack[f] /\ f # Len(stack)
      BY <1>1, <1>2, <1>3
    <2>2. HostOf(f)' = HostOf(f)
      BY <1>1, <1>2, <1>3, <1>4, <2>1 DEF HostOf
    <2>. QED
      BY <2>1, <2>2 DEF HostTypeOK
  <1>7. instance' \in [Instances -> InstanceState]
    BY DEF Leave
  <1>8. HostTypeOK'
    BY <1>2, <1>4, <1>5, <1>6, <1>7 DEF HostTypeOK, HasMaps
  <1>. QED
    BY <1>1, <1>2, <1>3, <1>8

\* The maps of a block go back into the instance of its callback.
LEMMA ReturnedType ==
    ASSUME HostTypeOK, stack # <<>>
    PROVE  /\ Returned(Top) \in [Keys -> Map]
           /\ \A k \in Keys :
                \/ ~Lent(Top.instance, Top.keys, k) /\ Returned(Top)[k] = instance[Top.instance].maps[k]
                \/ HasMaps(Top.instance) /\ \E g \in DOMAIN Top.keys : Top.keys[g] = k /\ Returned(Top)[k] = host[1][g]
  <1>1. Top \in Frame /\ (HasMaps(Top.instance) => Fits(host, Top.keys))
    BY StackFacts
  <1>2. HasMaps(Top.instance) => \A g \in DOMAIN Top.keys : host[1][g] \in Map
    <2>. SUFFICES ASSUME HasMaps(Top.instance) PROVE \A g \in DOMAIN Top.keys : host[1][g] \in Map
      OBVIOUS
    <2>1. host \in Seq(Seq(Map)) /\ Len(host) = 1 /\ 1 \in 1 .. Len(host)
      BY <1>1 DEF HostTypeOK, HostMaps, Fits
    <2>2. host[1] \in Seq(Map)
      BY <2>1, ElementOfSeq
    <2>. QED
      BY <2>2, <1>1, ElementOfSeq, LenProperties DEF Fits
  <1>3. instance[Top.instance].maps \in [Keys -> Map]
    BY <1>1 DEF HostTypeOK, InstanceState, Frame
  <1>4. ASSUME NEW k \in Keys
        PROVE  /\ Returned(Top)[k] \in Map
               /\ \/ ~Lent(Top.instance, Top.keys, k) /\ Returned(Top)[k] = instance[Top.instance].maps[k]
                  \/ HasMaps(Top.instance) /\ \E g \in DOMAIN Top.keys : Top.keys[g] = k /\ Returned(Top)[k] = host[1][g]
    <2>1. CASE Lent(Top.instance, Top.keys, k)
      <3>. DEFINE g == CHOOSE g \in DOMAIN Top.keys : Top.keys[g] = k
      <3>1. g \in DOMAIN Top.keys /\ Top.keys[g] = k /\ HasMaps(Top.instance)
        BY <2>1 DEF Lent
      <3>2. Returned(Top)[k] = host[1][g]
        BY <2>1 DEF Returned
      <3>. QED
        BY <3>1, <3>2, <1>2, Zenon
    <2>2. CASE ~Lent(Top.instance, Top.keys, k)
      BY <2>2, <1>3 DEF Returned
    <2>. QED
      BY <2>1, <2>2
  <1>5. Returned(Top) = [k \in Keys |-> Returned(Top)[k]]
    BY DEF Returned
  <1>. QED
    BY <1>4, <1>5

\* The journals of the groups of a block take their maps back.
LEMMA UndoneType ==
    ASSUME HostTypeOK, stack # <<>>
    PROVE  LET u == Undone(Top, Returned(Top))
           IN  /\ u \in [Keys -> Map]
               /\ \A k \in Keys :
                    \/ u[k] = Returned(Top)[k]
                    \/ u[k] = [Returned(Top)[k] EXCEPT !.by = Returned(Top)[k].before]
  <1>. DEFINE m == Returned(Top)
              u == Undone(Top, m)
  <1>1. m \in [Keys -> Map]
    BY ReturnedType
  <1>. HIDE DEF m
  <1>2. u = [k \in Keys |-> IF Lent(Top.instance, Top.keys, k) THEN [m[k] EXCEPT !.by = m[k].before] ELSE m[k]]
    BY DEF Undone
  <1>3. \A x \in Map : [x EXCEPT !.by = x.before] \in Map
    BY DEF Map
  <1>4. \A k \in Keys : u[k] \in Map /\ (u[k] = m[k] \/ u[k] = [m[k] EXCEPT !.by = m[k].before])
    BY <1>1, <1>2, <1>3
  <1>5. u \in [Keys -> Map]
    BY <1>2, <1>4
  <1>. HIDE DEF u
  <1>. QED
    BY <1>4, <1>5 DEF m, u

\* The instances at the end of a callback: the maps of its instance are back. A
\* registration leaves the callback only if the replay went through.
Ended(inst) ==
    LET x == instance[Top.instance]
        y == inst[Top.instance]
    IN  /\ inst \in [Instances -> InstanceState]
        /\ \A j \in Instances \ {Top.instance} : inst[j] = instance[j]
        /\ y.maps = Returned(Top) \/ y.maps = Undone(Top, Returned(Top))
        /\ y.callback => x.callback
        /\ x.poisoned => y.poisoned
        /\ x.covered => y.covered
        /\ Top.call # "ingest" /\ y.callback => y.covered

\* The four ends of a callback.
LEMMA EndOfCallback ==
    ASSUME HostTypeOK, IngestReturns \/ ReplayReturns \/ IngestThrows \/ ReplayThrows
    PROVE  stack # <<>> /\ UNCHANGED <<epoch, handles, used>> /\ \E inst : Ended(inst) /\ Leave(inst)
  <1>. DEFINE t == Top.instance
              x == instance[t]
              m == Returned(Top)
              u == Undone(Top, m)
  <1>1. stack # <<>> /\ UNCHANGED <<epoch, handles, used>>
    BY DEF IngestReturns, ReplayReturns, IngestThrows, ReplayThrows
  <1>2. Top \in Frame /\ t \in Instances
    BY <1>1, StackFacts DEF Frame
  <1>3. m \in [Keys -> Map] /\ u \in [Keys -> Map]
    BY <1>1, ReturnedType, UndoneType
  <1>4. instance \in [Instances -> InstanceState] /\ x \in InstanceState
    BY <1>2 DEF HostTypeOK
  <1>5. ASSUME NEW y \in InstanceState, y.maps = m \/ y.maps = u, y.callback => x.callback,
               x.poisoned => y.poisoned, x.covered => y.covered,
               Top.call # "ingest" /\ y.callback => y.covered
        PROVE  Ended([instance EXCEPT ![t] = y])
    <2>1. /\ [instance EXCEPT ![t] = y] \in [Instances -> InstanceState]
          /\ [instance EXCEPT ![t] = y][t] = y
          /\ \A j \in Instances \ {t} : [instance EXCEPT ![t] = y][j] = instance[j]
      BY <1>2, <1>4
    <2>. HIDE DEF m, u
    <2>. QED
      BY <1>5, <2>1, Zenon DEF Ended, m, u
  <1>. HIDE DEF m, u
  <1>6. ASSUME IngestReturns PROVE \E inst : Ended(inst) /\ Leave(inst)
    <2>1. PICK n \in Queued(x.unacked) : Leave([instance EXCEPT ![t].maps = m, ![t].unacked = n])
      BY <1>6 DEF IngestReturns, m
    <2>2. n \in Nat
      <3>1. x.unacked \in Nat
        BY <1>4 DEF InstanceState
      <3>. QED
        BY <2>1, <3>1 DEF Queued
    <2>. DEFINE y == [x EXCEPT !.maps = m, !.unacked = n]
    <2>3. [instance EXCEPT ![t].maps = m, ![t].unacked = n] = [instance EXCEPT ![t] = y]
      BY <1>2, <1>4, Zenon
    <2>4. /\ y \in InstanceState /\ y.maps = m /\ y.callback = x.callback
          /\ y.poisoned = x.poisoned /\ y.covered = x.covered
      BY <1>3, <1>4, <2>2, Zenon DEF InstanceState
    <2>5. Top.call = "ingest"
      BY <1>6 DEF IngestReturns
    <2>. HIDE DEF y
    <2>6. Ended([instance EXCEPT ![t] = y])
      BY <1>5, <2>4, <2>5
    <2>. QED
      BY <2>1, <2>3, <2>6, Zenon
  <1>7. ASSUME ReplayReturns PROVE \E inst : Ended(inst) /\ Leave(inst)
    <2>. DEFINE y == [x EXCEPT !.maps = m, !.covered = TRUE]
    <2>1. Leave([instance EXCEPT ![t].maps = m, ![t].covered = TRUE])
      BY <1>7 DEF ReplayReturns, m
    <2>3. [instance EXCEPT ![t].maps = m, ![t].covered = TRUE] = [instance EXCEPT ![t] = y]
      BY <1>2, <1>4, Zenon
    <2>4. /\ y \in InstanceState /\ y.maps = m /\ y.callback = x.callback
          /\ y.poisoned = x.poisoned /\ y.covered
      BY <1>3, <1>4, Zenon DEF InstanceState
    <2>. HIDE DEF y
    <2>6. Ended([instance EXCEPT ![t] = y])
      BY <1>5, <2>4
    <2>. QED
      BY <2>1, <2>3, <2>6, Zenon
  <1>8. ASSUME IngestThrows PROVE \E inst : Ended(inst) /\ Leave(inst)
    <2>. DEFINE y == [x EXCEPT !.maps = u]
    <2>1. Leave([instance EXCEPT ![t].maps = u])
      BY <1>8 DEF IngestThrows, m, u
    <2>3. [instance EXCEPT ![t].maps = u] = [instance EXCEPT ![t] = y]
      BY <1>2, <1>4, Zenon
    <2>4. /\ y \in InstanceState /\ y.maps = u /\ y.callback = x.callback
          /\ y.poisoned = x.poisoned /\ y.covered = x.covered
      BY <1>3, <1>4, Zenon DEF InstanceState
    <2>5. Top.call = "ingest"
      BY <1>8 DEF IngestThrows
    <2>. HIDE DEF y
    <2>6. Ended([instance EXCEPT ![t] = y])
      BY <1>5, <2>4, <2>5
    <2>. QED
      BY <2>1, <2>3, <2>6, Zenon
  <1>9. ASSUME ReplayThrows PROVE \E inst : Ended(inst) /\ Leave(inst)
    <2>. DEFINE y == [x EXCEPT !.maps = m, !.poisoned = TRUE, !.callback = FALSE]
    <2>1. Leave(Detached(Poisoned([instance EXCEPT ![t].maps = m], t), t))
      BY <1>9 DEF ReplayThrows, m
    <2>3. Detached(Poisoned([instance EXCEPT ![t].maps = m], t), t) = [instance EXCEPT ![t] = y]
      BY <1>2, <1>4, Zenon DEF Detached, Poisoned, InstanceState
    <2>4. y \in InstanceState /\ y.maps = m /\ ~y.callback /\ y.poisoned /\ y.covered = x.covered
      BY <1>3, <1>4, Zenon DEF InstanceState
    <2>. HIDE DEF y
    <2>6. Ended([instance EXCEPT ![t] = y])
      BY <1>5, <2>4
    <2>. QED
      BY <2>1, <2>3, <2>6, Zenon
  <1>. QED
    BY <1>1, <1>6, <1>7, <1>8, <1>9, Zenon

\* The handles of a group whose rows start.
LEMMA NextGroupTypes ==
    ASSUME HostTypeOK, NextGroup
    PROVE  /\ HostTypeOK'
           /\ Len(stack') = Len(stack) /\ DOMAIN stack' = DOMAIN stack /\ Top \in Frame
           /\ \A f \in DOMAIN stack : stack'[f].instance = stack[f].instance /\ stack'[f].call = stack[f].call
           /\ stack' = [stack EXCEPT ![Len(stack)] = [Top EXCEPT !.group = Top.group + 1]]
           /\ epoch' = epoch + 1
           /\ handles' \subseteq handles \cup {[home |-> Home(Top.instance, Top.keys[Top.group + 1]),
                                                index |-> Top.group + 1, epoch |-> epoch + 1]}
           /\ Top.group + 1 \in DOMAIN Top.keys
  <1>. DEFINE n == Len(stack)
              frame == [Top EXCEPT !.group = Top.group + 1]
              h == [home |-> Home(Top.instance, Top.keys[Top.group + 1]),
                    index |-> Top.group + 1, epoch |-> epoch + 1]
  <1>1. /\ stack # <<>> /\ Top.group < Len(Top.keys)
        /\ stack' = [stack EXCEPT ![n].group = @ + 1]
        /\ StartGroup(Top, Top.group + 1) /\ UNCHANGED <<instance, ctx, host>>
    BY DEF NextGroup
  <1>2. /\ n \in Nat \ {0} /\ n \in DOMAIN stack /\ DOMAIN stack = 1 .. n /\ Top = stack[n] /\ Top \in Frame
        /\ Top.group \in DOMAIN Top.keys /\ stack \in Seq(Frame)
    BY <1>1, StackFacts, LenProperties DEF HostTypeOK
  <1>3. /\ Top.keys \in Seq(Keys) /\ Top.group \in Nat \ {0} /\ Top.instance \in Instances
        /\ Top.group + 1 \in DOMAIN Top.keys
    BY <1>1, <1>2, LenProperties DEF Frame
  <1>4. Top.keys[Top.group + 1] \in Keys
    BY <1>3, ElementOfSeq, LenProperties
  <1>5. frame \in Frame /\ frame.keys = Top.keys /\ frame.outer = Top.outer
        /\ frame.instance = Top.instance /\ frame.call = Top.call /\ frame.group = Top.group + 1
    <2>. DEFINE g == Top.group + 1
    <2>1. g \in Nat \ {0} /\ Top \in Frame
      BY <1>2, <1>3
    <2>. HIDE DEF g
    <2>2. frame = [Top EXCEPT !.group = g]
      BY DEF g
    <2>. HIDE DEF frame
    <2>. QED
      BY <2>1, <2>2 DEF Frame, g
  <1>6. stack' = [stack EXCEPT ![n] = frame]
    BY <1>1, <1>2
  <1>. HIDE DEF frame
  <1>7. stack' \in Seq(Frame) /\ Len(stack') = n /\ DOMAIN stack' = DOMAIN stack
    BY <1>2, <1>5, <1>6, ExceptSeq
  <1>8. epoch' = epoch + 1 /\ handles' \subseteq handles \cup {h}
    BY <1>1 DEF StartGroup, Handle
  <1>9. h \in HandleState /\ epoch' \in Nat
    BY <1>3, <1>4, <1>8 DEF HandleState, HostTypeOK, Home
  <1>10. handles' \in SUBSET HandleState
    BY <1>8, <1>9 DEF HostTypeOK
  <1>11. \A f \in DOMAIN stack :
            /\ stack'[f].instance = stack[f].instance /\ stack'[f].call = stack[f].call
            /\ stack'[f].keys = stack[f].keys /\ stack'[f].outer = stack[f].outer
            /\ f # n => stack'[f] = stack[f]
            /\ f = n => stack'[f] = frame
    BY <1>2, <1>5, <1>6
  <1>12. ASSUME NEW f \in DOMAIN stack'
         PROVE  /\ stack'[f].group \in DOMAIN stack'[f].keys
                /\ HasMaps(stack'[f].instance) => Fits(HostOf(f)', stack'[f].keys)
    <2>1. f \in DOMAIN stack /\ (f # n => f + 1 \in DOMAIN stack)
      BY <1>2, <1>7
    <2>2. HostOf(f)' = HostOf(f)
      BY <2>1, <1>1, <1>7, <1>11 DEF HostOf
    <2>3. stack'[f].group \in DOMAIN stack'[f].keys
      BY <2>1, <1>3, <1>5, <1>11 DEF HostTypeOK
    <2>. QED
      BY <2>1, <2>2, <2>3, <1>11 DEF HostTypeOK
  <1>13. HostTypeOK'
    BY <1>1, <1>7, <1>9, <1>10, <1>12 DEF HostTypeOK, HasMaps
  <1>. QED
    BY <1>2, <1>3, <1>6, <1>7, <1>8, <1>11, <1>13 DEF frame

\* A use of a handle.
LEMMA WriteTypes ==
    ASSUME HostTypeOK, NEW h \in handles, WriteHandle(h)
    PROVE  /\ HostTypeOK' /\ UNCHANGED <<instance, ctx, stack, epoch, handles>>
           /\ Len(host') = 1 /\ DOMAIN host'[1] = DOMAIN host[1] /\ h.index \in DOMAIN host[1]
           /\ \A g \in DOMAIN host[1] : g # h.index => host'[1][g] = host[1][g]
           /\ host'[1][h.index].here = host[1][h.index].here
           /\ host'[1][h.index].of = host[1][h.index].of
           /\ host'[1][h.index].before = host[1][h.index].before
           /\ host'[1][h.index].by = host[1][h.index].by \cup {h.home}
  <1>. DEFINE n == h.index
              m == host[1]
              new == [m[n] EXCEPT !.by = m[n].by \cup {h.home}]
  <1>1. /\ host # <<>> /\ n <= Len(host[1])
        /\ host' = [host EXCEPT ![1][n].by = @ \cup {h.home}]
        /\ UNCHANGED <<instance, ctx, stack, epoch, handles>>
    BY DEF WriteHandle, Usable
  <1>2. h \in HandleState /\ n \in Nat \ {0} /\ h.home \in Instances \X Keys
    BY DEF HostTypeOK, HandleState
  <1>3. host \in Seq(Seq(Map)) /\ Len(host) = 1 /\ 1 \in DOMAIN host
    <2>1. host \in Seq(Seq(Map)) /\ Len(host) <= 1 /\ Len(host) # 0
      BY <1>1, EmptySeq DEF HostTypeOK, HostMaps
    <2>2. Len(host) \in Nat /\ DOMAIN host = 1 .. Len(host)
      BY <2>1, LenProperties
    <2>3. Len(host) = 1
      BY <2>1, <2>2
    <2>. QED
      BY <2>1, <2>2, <2>3
  <1>4. m \in Seq(Map) /\ n \in DOMAIN m /\ m[n] \in Map
    <2>1. m \in Seq(Map)
      BY <1>3, ElementOfSeq
    <2>. QED
      BY <2>1, <1>1, <1>2, ElementOfSeq, LenProperties
  <1>5. new \in Map /\ new.here = m[n].here /\ new.of = m[n].of /\ new.before = m[n].before
        /\ new.by = m[n].by \cup {h.home}
    BY <1>2, <1>4 DEF Map
  <1>6. host' = [host EXCEPT ![1] = [m EXCEPT ![n] = new]]
    BY <1>1, <1>3, <1>4
  <1>. HIDE DEF new
  <1>7. /\ [m EXCEPT ![n] = new] \in Seq(Map) /\ DOMAIN [m EXCEPT ![n] = new] = DOMAIN m
    BY <1>4, <1>5, ExceptSeq
  <1>8. host' \in Seq(Seq(Map)) /\ Len(host') = 1 /\ host'[1] = [m EXCEPT ![n] = new]
    <2>. DEFINE e == [m EXCEPT ![n] = new]
    <2>1. e \in Seq(Map) /\ 1 \in 1 .. Len(host)
      BY <1>3, <1>7
    <2>. HIDE DEF e
    <2>2. /\ [host EXCEPT ![1] = e] \in Seq(Seq(Map)) /\ Len([host EXCEPT ![1] = e]) = Len(host)
          /\ \A j \in 1 .. Len(host) : [host EXCEPT ![1] = e][j] = IF j = 1 THEN e ELSE host[j]
      BY <2>1, <1>3, ExceptSeq
    <2>3. host' = [host EXCEPT ![1] = e]
      BY <1>6 DEF e
    <2>4. host' \in Seq(Seq(Map)) /\ Len(host') = 1 /\ host'[1] = e
      BY <1>3, <2>1, <2>2, <2>3
    <2>. QED
      BY <2>4 DEF e
  <1>9. \A f \in DOMAIN stack : HasMaps(stack[f].instance) => Fits(HostOf(f)', stack[f].keys)
    <2>1. ASSUME NEW f \in DOMAIN stack, HasMaps(stack[f].instance) PROVE Fits(HostOf(f)', stack[f].keys)
      <3>1. Fits(HostOf(f), stack[f].keys)
        BY <2>1 DEF HostTypeOK
      <3>. QED
        BY <3>1, <1>1, <1>7, <1>8 DEF Fits, HostOf
    <2>. QED
      BY <2>1
  <1>10. HostTypeOK'
    BY <1>1, <1>8, <1>9 DEF HostTypeOK, HostMaps, HasMaps
  <1>. QED
    BY <1>1, <1>4, <1>5, <1>7, <1>8, <1>10

\* A call that runs no callback.
LEMMA EndsTypes ==
    ASSUME HostTypeOK, NEW inst \in [Instances -> InstanceState], Ends(inst)
    PROVE  HostTypeOK' /\ instance' = inst /\ UNCHANGED <<ctx, host, stack, epoch, handles>>
  <1>1. instance' = inst /\ UNCHANGED <<ctx, host, stack, epoch, handles>>
    BY DEF Ends, NothingRuns
  <1>2. \A f \in DOMAIN stack : HostOf(f)' = HostOf(f)
    BY <1>1 DEF HostOf
  <1>. QED
    BY <1>1, <1>2 DEF HostTypeOK, HasMaps

\* The instances with another state of instance i, which keeps its maps.
Becomes(inst, i, y) ==
    /\ inst \in [Instances -> InstanceState] /\ inst[i] = y /\ y \in InstanceState
    /\ \A j \in Instances \ {i} : inst[j] = instance[j]
    /\ y.maps = instance[i].maps

\* The states that a call gives its instance, short of a callback: poisoned, with
\* another length of the queue, refused, and attached.
LEMMA InstanceTypes ==
    ASSUME HostTypeOK, NEW i \in Instances
    PROVE  LET x == instance[i]
               b == [instance EXCEPT ![i].callback = TRUE]
               r == [instance EXCEPT ![i].callback = TRUE, ![i].reducer = TRUE]
           IN  /\ \E y : Becomes(Poisoned(instance, i), i, y) /\ y.poisoned
               /\ \A n \in Nat : \E y : /\ Becomes([instance EXCEPT ![i].unacked = n], i, y)
                                      /\ y.callback = x.callback /\ y.poisoned = x.poisoned /\ y.covered = x.covered
               /\ \E y : Becomes(Poisoned(b, i), i, y) /\ y.poisoned
               /\ \E y : Becomes(Detached(b, i), i, y) /\ ~y.callback
               /\ \E y : Becomes(r, i, y) /\ y.callback /\ y.poisoned = x.poisoned
               /\ \E y : Becomes([r EXCEPT ![i].covered = TRUE], i, y) /\ y.covered
  <1>. DEFINE x == instance[i]
              p == [x EXCEPT !.poisoned = TRUE]
              w(n) == [x EXCEPT !.unacked = n]
              q == [x EXCEPT !.poisoned = TRUE, !.callback = TRUE]
              d == [x EXCEPT !.callback = FALSE]
              r == [x EXCEPT !.callback = TRUE, !.reducer = TRUE]
              c == [x EXCEPT !.callback = TRUE, !.reducer = TRUE, !.covered = TRUE]
  <1>1. instance \in [Instances -> InstanceState] /\ x \in InstanceState
    BY DEF HostTypeOK
  <1>2. Poisoned(instance, i) = [instance EXCEPT ![i] = p]
    BY <1>1 DEF Poisoned
  <1>3. Poisoned([instance EXCEPT ![i].callback = TRUE], i) = [instance EXCEPT ![i] = q]
    BY <1>1, Zenon DEF Poisoned, InstanceState
  <1>4. Detached([instance EXCEPT ![i].callback = TRUE], i) = [instance EXCEPT ![i] = d]
    BY <1>1, Zenon DEF Detached, InstanceState
  <1>5. [instance EXCEPT ![i].callback = TRUE, ![i].reducer = TRUE] = [instance EXCEPT ![i] = r]
    BY <1>1, Zenon DEF InstanceState
  <1>6. [[instance EXCEPT ![i].callback = TRUE, ![i].reducer = TRUE] EXCEPT ![i].covered = TRUE]
            = [instance EXCEPT ![i] = c]
    BY <1>1, Zenon DEF InstanceState
  <1>7. \A y \in InstanceState : y.maps = x.maps => Becomes([instance EXCEPT ![i] = y], i, y)
    BY <1>1 DEF Becomes
  <1>8. /\ p \in InstanceState /\ p.maps = x.maps /\ p.poisoned
        /\ q \in InstanceState /\ q.maps = x.maps /\ q.poisoned
        /\ d \in InstanceState /\ d.maps = x.maps /\ ~d.callback
        /\ r \in InstanceState /\ r.maps = x.maps /\ r.callback /\ r.poisoned = x.poisoned
        /\ c \in InstanceState /\ c.maps = x.maps /\ c.covered
    BY <1>1, Zenon DEF InstanceState
  <1>9. ASSUME NEW n \in Nat
        PROVE  /\ w(n) \in InstanceState /\ w(n).maps = x.maps /\ w(n).callback = x.callback
               /\ w(n).poisoned = x.poisoned /\ w(n).covered = x.covered
               /\ [instance EXCEPT ![i].unacked = n] = [instance EXCEPT ![i] = w(n)]
    BY <1>1, Zenon DEF InstanceState
  <1>. HIDE DEF p, q, d, r, c, w
  <1>10. /\ Becomes(Poisoned(instance, i), i, p)
         /\ Becomes(Poisoned([instance EXCEPT ![i].callback = TRUE], i), i, q)
         /\ Becomes(Detached([instance EXCEPT ![i].callback = TRUE], i), i, d)
         /\ Becomes([instance EXCEPT ![i].callback = TRUE, ![i].reducer = TRUE], i, r)
         /\ Becomes([[instance EXCEPT ![i].callback = TRUE, ![i].reducer = TRUE] EXCEPT ![i].covered = TRUE], i, c)
    BY <1>2, <1>3, <1>4, <1>5, <1>6, <1>7, <1>8, Zenon
  <1>11. \A n \in Nat : Becomes([instance EXCEPT ![i].unacked = n], i, w(n))
    BY <1>7, <1>9, Zenon
  <1>. HIDE DEF x
  <1>12. r.poisoned = instance[i].poisoned
    BY <1>8 DEF x
  <1>13. \A n \in Nat : /\ w(n).callback = instance[i].callback /\ w(n).poisoned = instance[i].poisoned
                        /\ w(n).covered = instance[i].covered
    BY <1>9, Zenon DEF x
  <1>. QED
    BY <1>8, <1>10, <1>11, <1>12, <1>13, Zenon DEF x

\* An instance that is opened again has no callback, and of its maps what was
\* stored.
LEMMA ReopenTypes ==
    ASSUME HostTypeOK, NEW i \in Instances, Reopen(i)
    PROVE  \E inst \in [Instances -> InstanceState] :
              /\ Ends(inst) /\ used' = used
              /\ \A j \in Instances \ {i} : inst[j] = instance[j]
              /\ ~inst[i].callback
              /\ \A k \in Keys : OwnMaps(instance[i].maps[k], i, k) => OwnMaps(inst[i].maps[k], i, k)
  <1>1. PICK saved \in SUBSET Keys :
            instance' = [instance EXCEPT ![i] = [New(i) EXCEPT !.maps =
                [k \in Keys |-> Maps(Home(i, k), IF k \in saved THEN instance[i].maps[k].by ELSE {})]]]
    BY DEF Reopen
  <1>. DEFINE by(k) == IF k \in saved THEN instance[i].maps[k].by ELSE {}
              m == [k \in Keys |-> Maps(Home(i, k), by(k))]
              y == [New(i) EXCEPT !.maps = m]
              inst == [instance EXCEPT ![i] = y]
  <1>2. instance \in [Instances -> InstanceState] /\ instance[i].maps \in [Keys -> Map]
    BY DEF HostTypeOK, InstanceState
  <1>3. \A k \in Keys : by(k) \in SUBSET (Instances \X Keys) /\ Home(i, k) \in Instances \X Keys
    BY <1>2 DEF Map, Home
  <1>4. ASSUME NEW k \in Keys
        PROVE  /\ m[k] \in Map
               /\ OwnMaps(instance[i].maps[k], i, k) => OwnMaps(m[k], i, k)
    <2>1. by(k) = instance[i].maps[k].by \/ by(k) = {}
      OBVIOUS
    <2>2. m[k] = Maps(Home(i, k), by(k))
      OBVIOUS
    <2>. HIDE DEF by, m
    <2>3. m[k] \in Map
      BY <1>3, <2>2 DEF Maps, Map
    <2>4. m[k].here /\ m[k].of = Home(i, k) /\ m[k].by = by(k) /\ m[k].before = by(k)
      BY <2>2 DEF Maps
    <2>. QED
      BY <2>1, <2>3, <2>4 DEF OwnMaps
  <1>5. m \in [Keys -> Map]
    BY <1>4
  <1>. HIDE DEF m
  <1>6. y \in InstanceState /\ ~y.callback /\ y.maps = m
    <2>1. (i \in InSchema) \in BOOLEAN /\ 0 \in Nat
      OBVIOUS
    <2>. QED
      BY <1>5, <2>1, Zenon DEF New, InstanceState
  <1>7. instance' = inst
    BY <1>1 DEF m
  <1>. HIDE DEF y
  <1>8. inst \in [Instances -> InstanceState] /\ inst[i] = y /\ \A j \in Instances \ {i} : inst[j] = instance[j]
    BY <1>2, <1>6
  <1>. HIDE DEF inst
  <1>9. Ends(inst) /\ used' = used
    BY <1>7 DEF Reopen, Ends, NothingRuns
  <1>10. \A k \in Keys : OwnMaps(instance[i].maps[k], i, k) => OwnMaps(inst[i].maps[k], i, k)
    BY <1>4, <1>6, <1>8
  <1>. QED
    BY <1>6, <1>8, <1>9, <1>10

\* The cases of an ingest.
LEMMA IngestCases ==
    ASSUME HostTypeOK, NEW i \in Instances, NEW keys \in {<<>>} \cup GroupLists, Ingest(i, keys)
    PROVE  /\ MayCall(i) /\ used' = used
           /\ \/ Ends(Poisoned(instance, i))
              \/ Ends(instance)
              \/ \E n \in Nat : Ends([instance EXCEPT ![i].unacked = n])
              \/ \E c \in {<<j>> : j \in Instances} :
                    /\ keys \in GroupLists
                    /\ c = IF instance[i].callback THEN <<i>> ELSE ctx
                    /\ CallbackInstalled(c, i)
                    /\ instance[i].callback => ~Borrowed
                    /\ ctx' = c /\ Enter(instance, i, c[1], keys, "ingest", instance[i].callback)
  <1>. DEFINE c == IF instance[i].callback THEN <<i>> ELSE ctx
  <1>1. c # <<>> => c \in {<<j>> : j \in Instances}
    BY DEF HostTypeOK
  <1>2. CallbackInstalled(c, i) => c # <<>>
    BY DEF CallbackInstalled
  <1>3. instance[i].unacked \in Nat
    BY DEF HostTypeOK, InstanceState
  <1>4. \A n \in Queued(instance[i].unacked) : n \in Nat
    BY <1>3 DEF Queued
  <1>5. keys # <<>> => keys \in GroupLists
    OBVIOUS
  <1>. QED
    BY <1>1, <1>2, <1>4, <1>5, Zenon DEF Ingest

\* The cases of a registration.
LEMMA RegisterCases ==
    ASSUME HostTypeOK, NEW i \in Instances, Register(i, <<>>) \/ \E keys \in GroupLists : Register(i, <<keys>>)
    PROVE  LET b == [instance EXCEPT ![i].callback = TRUE]
               r == [instance EXCEPT ![i].callback = TRUE, ![i].reducer = TRUE]
           IN  /\ MayCall(i) /\ used' = used
               /\ \/ Ends(instance)
                  \/ Ends(Poisoned(b, i))
                  \/ Ends(Detached(b, i))
                  \/ Ends([r EXCEPT ![i].covered = TRUE])
                  \/ /\ ~Borrowed /\ ctx' = <<i>>
                     /\ \E keys \in GroupLists : Enter(r, i, i, keys, "register", TRUE)
  <1>1. CASE Register(i, <<>>)
    BY <1>1, Zenon DEF Register
  <1>2. ASSUME NEW keys \in GroupLists, Register(i, <<keys>>)
        PROVE  LET b == [instance EXCEPT ![i].callback = TRUE]
                   r == [instance EXCEPT ![i].callback = TRUE, ![i].reducer = TRUE]
               IN  /\ MayCall(i) /\ used' = used
                   /\ \/ Ends(instance)
                      \/ Ends(Poisoned(b, i))
                      \/ Ends(Detached(b, i))
                      \/ /\ ~Borrowed /\ ctx' = <<i>>
                         /\ Enter(r, i, i, keys, "register", TRUE)
    <2>1. <<keys>> # <<>> /\ <<keys>>[1] = keys
      OBVIOUS
    <2>. QED
      BY <1>2, <2>1, Zenon DEF Register
  <1>. QED
    BY <1>1, <1>2, Zenon

\* An ack takes places of the queue only.
LEMMA AckCases ==
    ASSUME HostTypeOK, NEW i \in Instances, Ack(i)
    PROVE  /\ used' = used /\ \A f \in DOMAIN stack : stack[f].instance # i
           /\ \E n \in Nat : Ends([instance EXCEPT ![i].unacked = n])
  <1>1. instance[i].unacked \in Nat
    BY DEF HostTypeOK, InstanceState
  <1>2. \A n \in 0 .. instance[i].unacked - 1 : n \in Nat
    BY <1>1
  <1>. QED
    BY <1>2, Zenon DEF Ack

\* A new thread.
LEMMA NewTypes ==
    /\ HostInit => HostTypeOK /\ CoverInv /\ Idle
    /\ NewThread => HostTypeOK' /\ CoverInv' /\ Idle'
  <1>1. \A i \in Instances : /\ New(i) \in InstanceState /\ ~New(i).callback
                             /\ \A k \in Keys : OwnMaps(New(i).maps[k], i, k)
    <2>1. \A i : (i \in InSchema) \in BOOLEAN
      OBVIOUS
    <2>2. ASSUME NEW i \in Instances, NEW k \in Keys
          PROVE  Maps(Home(i, k), {}) \in Map /\ OwnMaps(Maps(Home(i, k), {}), i, k)
      <3>1. Home(i, k) \in Instances \X Keys
        BY DEF Home
      <3>. QED
        BY <3>1 DEF Maps, Map, OwnMaps
    <2>3. \A i \in Instances : [k \in Keys |-> Maps(Home(i, k), {})] \in [Keys -> Map]
      BY <2>2
    <2>4. 0 \in Nat
      OBVIOUS
    <2>. QED
      BY <2>1, <2>2, <2>3, <2>4, Zenon DEF New, InstanceState
  <1>2. <<>> \in Seq(Frame) /\ <<>> \in HostMaps /\ Len(<<>>) = 0 /\ DOMAIN <<>> = {}
    BY EmptySeq DEF HostMaps
  <1>3. /\ HostInit => HostTypeOK
        /\ NewThread => HostTypeOK'
    <2>1. [i \in Instances |-> New(i)] \in [Instances -> InstanceState]
      BY <1>1
    <2>2. ASSUME HostInit PROVE HostTypeOK
      <3>1. /\ instance \in [Instances -> InstanceState] /\ stack = <<>>
            /\ ctx = <<>> /\ host = <<>> /\ epoch = 0 /\ handles = {}
        BY <2>1, <2>2 DEF HostInit
      <3>. QED
        BY <3>1, <1>2 DEF HostTypeOK
    <2>3. ASSUME NewThread PROVE HostTypeOK'
      <3>1. /\ instance' \in [Instances -> InstanceState] /\ stack' = <<>>
            /\ ctx' = <<>> /\ host' = <<>> /\ epoch' = 0 /\ handles' = {}
        BY <2>1, <2>3 DEF NewThread
      <3>. QED
        BY <3>1, <1>2 DEF HostTypeOK
    <2>. QED
      BY <2>2, <2>3
  <1>4. /\ HostInit => CoverInv
        /\ NewThread => CoverInv'
    <2>1. HostInit => CoverInv
      BY <1>1, <1>2, <1>3 DEF HostInit, CoverInv, AttachedCovers
    <2>2. NewThread => CoverInv'
      BY <1>1, <1>2, <1>3 DEF NewThread, CoverInv, AttachedCovers
    <2>. QED
      BY <2>1, <2>2, Zenon
  <1>5. /\ HostInit => Idle
        /\ NewThread => Idle'
    BY <1>1 DEF HostInit, NewThread, Idle
  <1>. QED
    BY <1>3, <1>4, <1>5

-----------------------------------------------------------------------------
(* An attached callback has seen the blocks that are not final *)

\* What a step needs to keep CoverInv: an instance that the step leaves attached
\* is covered, or on the stack with a frame that the invariant allows.
LEMMA CoverFromFrames ==
    ASSUME HostTypeOK',
           \A j \in Instances : instance'[j].callback /\ ~instance'[j].poisoned =>
                instance'[j].covered \/ \E f \in DOMAIN stack' : stack'[f].instance = j,
           \A f \in DOMAIN stack' :
                LET j == stack'[f].instance
                IN  stack'[f].call = "ingest" /\ instance'[j].callback /\ ~instance'[j].poisoned
                        => instance'[j].covered
    PROVE  CoverInv'
  BY DEF CoverInv, AttachedCovers

\* A step that changes instance i alone, which no frame has, and no frame.
LEMMA CoverAlone ==
    ASSUME CoverInv, HostTypeOK', NEW i \in Instances, UNCHANGED stack,
           \A f \in DOMAIN stack : stack[f].instance # i,
           \A j \in Instances \ {i} : instance'[j] = instance[j],
           \/ instance'[i].poisoned \/ instance'[i].covered \/ ~instance'[i].callback
           \/ /\ instance'[i].callback = instance[i].callback /\ instance'[i].poisoned = instance[i].poisoned
              /\ instance'[i].covered = instance[i].covered
    PROVE  CoverInv'
  <1>1. \A f \in DOMAIN stack : stack[f].instance \in Instances \ {i}
    BY FrameTypes, Zenon DEF CoverInv
  <1>. QED
    BY <1>1, Zenon DEF CoverInv, AttachedCovers

\* A callback that starts keeps CoverInv.
LEMMA CoverEnter ==
    ASSUME CoverInv, NEW inst \in [Instances -> InstanceState], NEW i \in Instances,
           NEW code \in Instances, NEW keys \in GroupLists, NEW call \in {"ingest", "register"},
           NEW installed \in BOOLEAN, Enter(inst, i, code, keys, call, installed),
           ctx' \in {<<>>} \cup {<<j>> : j \in Instances}, MayCall(i),
           \A j \in Instances \ {i} : inst[j] = instance[j],
           call = "ingest" => inst = instance
    PROVE  CoverInv'
  <1>. HostTypeOK
    BY DEF CoverInv
  <1>0. HostTypeOK' /\ Entered(inst, i, code, keys, call, installed)
    BY EnterTypes
  <1>1. /\ HostTypeOK'
        /\ Len(stack') = Len(stack) + 1
        /\ \A f \in DOMAIN stack : f \in DOMAIN stack' /\ stack'[f] = stack[f]
        /\ stack'[Len(stack')] = NewFrame(i, code, keys, call, installed)
        /\ \A j \in Instances \ {i} : instance'[j] = inst[j]
        /\ instance'[i] = [inst[i] EXCEPT !.maps = [k \in Keys |-> IF Lent(i, keys, k) THEN Gone(@[k]) ELSE @[k]]]
    BY <1>0 DEF Entered
  <1>2. stack'[Len(stack')].instance = i /\ stack'[Len(stack')].call = call
    BY <1>1 DEF NewFrame
  <1>3. /\ Len(stack) \in Nat /\ DOMAIN stack = 1 .. Len(stack)
        /\ DOMAIN stack' = 1 .. Len(stack) + 1 /\ Len(stack') \in DOMAIN stack'
    BY <1>1, LenProperties DEF CoverInv, HostTypeOK
  <1>4. \A f \in DOMAIN stack : stack[f].instance \in Instances \ {i}
    BY FrameTypes DEF MayCall
  <1>5. /\ instance'[i].callback = inst[i].callback /\ instance'[i].poisoned = inst[i].poisoned
        /\ instance'[i].covered = inst[i].covered
    BY <1>1 DEF InstanceState
  <1>6. ASSUME NEW j \in Instances, instance'[j].callback, ~instance'[j].poisoned
        PROVE  instance'[j].covered \/ \E f \in DOMAIN stack' : stack'[f].instance = j
    <2>1. CASE j = i
      BY <2>1, <1>2, <1>3
    <2>2. CASE j # i
      <3>1. instance'[j] = instance[j]
        BY <2>2, <1>1
      <3>. QED
        BY <1>6, <3>1, <1>1 DEF CoverInv, AttachedCovers
    <2>. QED
      BY <2>1, <2>2
  <1>7. ASSUME NEW f \in DOMAIN stack', stack'[f].call = "ingest",
               instance'[stack'[f].instance].callback, ~instance'[stack'[f].instance].poisoned
        PROVE  instance'[stack'[f].instance].covered
    <2>1. CASE f = Len(stack')
      <3>1. inst = instance /\ stack'[f].instance = i
        BY <2>1, <1>2, <1>7
      <3>2. instance[i].callback /\ ~instance[i].poisoned
        BY <3>1, <1>5, <1>7
      <3>3. instance[i].covered
        BY <3>2, <1>4 DEF CoverInv, AttachedCovers
      <3>. QED
        BY <3>1, <3>3, <1>5
    <2>2. CASE f # Len(stack')
      <3>1. f \in DOMAIN stack /\ stack'[f] = stack[f]
        BY <2>2, <1>1, <1>3
      <3>2. instance'[stack[f].instance] = instance[stack[f].instance]
        BY <3>1, <1>1, <1>4
      <3>. QED
        BY <1>7, <3>1, <3>2 DEF CoverInv
    <2>. QED
      BY <2>1, <2>2
  <1>. QED
    BY <1>1, <1>6, <1>7, CoverFromFrames

\* The end of a callback keeps CoverInv: the instance of the innermost frame is
\* covered by a replay, or its callback is gone, or it was covered before.
LEMMA CoverLeave ==
    ASSUME CoverInv, stack # <<>>, UNCHANGED <<epoch, handles>>, NEW inst, Ended(inst), Leave(inst)
    PROVE  CoverInv'
  <1>. HostTypeOK
    BY DEF CoverInv
  <1>. DEFINE t == Top.instance
              x == instance[t]
  <1>1. Top = stack[Len(stack)] /\ Len(stack) \in DOMAIN stack /\ Top \in Frame /\ t \in Instances
    BY StackFacts DEF Frame
  <1>2. /\ HostTypeOK'
        /\ \A f \in DOMAIN stack' : f \in DOMAIN stack /\ stack'[f] = stack[f]
        /\ \A f \in DOMAIN stack : f = Len(stack) \/ f \in DOMAIN stack'
    <2>1. inst \in [Instances -> InstanceState]
      BY DEF Ended
    <2>. QED
      BY <2>1, LeaveTypes
  <1>3. \A j \in Instances \ {t} : instance'[j] = instance[j]
    BY Zenon DEF Leave, Ended
  <1>4. /\ instance'[t].callback => x.callback
        /\ x.poisoned => instance'[t].poisoned
        /\ x.covered => instance'[t].covered
        /\ Top.call # "ingest" /\ instance'[t].callback => instance'[t].covered
    BY Zenon DEF Leave, Ended
  <1>5. instance'[t].callback /\ ~instance'[t].poisoned => instance'[t].covered
    <2>1. Top.call = "ingest" /\ x.callback /\ ~x.poisoned => x.covered
      BY <1>1 DEF CoverInv
    <2>. QED
      BY <1>4, <2>1
  <1>6. \A f \in DOMAIN stack' : stack'[f].instance \in Instances
    BY <1>2, FrameTypes
  <1>7. ASSUME NEW j \in Instances, instance'[j].callback, ~instance'[j].poisoned
        PROVE  instance'[j].covered \/ \E f \in DOMAIN stack' : stack'[f].instance = j
    <2>1. CASE j = t
      BY <2>1, <1>5, <1>7
    <2>2. CASE j # t
      BY <2>2, <1>1, <1>2, <1>3, <1>7 DEF CoverInv, AttachedCovers
    <2>. QED
      BY <2>1, <2>2
  <1>8. ASSUME NEW f \in DOMAIN stack', stack'[f].call = "ingest",
               instance'[stack'[f].instance].callback, ~instance'[stack'[f].instance].poisoned
        PROVE  instance'[stack'[f].instance].covered
    <2>1. CASE stack'[f].instance = t
      BY <2>1, <1>5, <1>8
    <2>2. CASE stack'[f].instance # t
      BY <2>2, <1>2, <1>3, <1>6, <1>8 DEF CoverInv
    <2>. QED
      BY <2>1, <2>2
  <1>. QED
    BY <1>2, <1>7, <1>8, CoverFromFrames

\* Every step keeps CoverInv.
LEMMA CoverStep == CoverInv /\ [HostNext]_hostVars => CoverInv'
  <1>. SUFFICES ASSUME CoverInv, [HostNext]_hostVars PROVE CoverInv'
    OBVIOUS
  <1>. HostTypeOK
    BY DEF CoverInv
  <1>0. instance \in [Instances -> InstanceState]
    BY DEF HostTypeOK
  <1>a. ASSUME NEW i \in Instances, NEW q, NEW y, Becomes(q, i, y), Ends(q),
               \A f \in DOMAIN stack : stack[f].instance # i,
               \/ y.poisoned \/ y.covered \/ ~y.callback
               \/ /\ y.callback = instance[i].callback /\ y.poisoned = instance[i].poisoned
                  /\ y.covered = instance[i].covered
        PROVE  CoverInv'
    <2>1. HostTypeOK' /\ instance' = q /\ UNCHANGED stack
      BY <1>a, EndsTypes DEF Becomes
    <2>2. instance'[i] = y /\ \A j \in Instances \ {i} : instance'[j] = instance[j]
      BY <1>a, <2>1 DEF Becomes
    <2>. QED
      BY <1>a, <2>1, <2>2, CoverAlone, Zenon
  <1>b. ASSUME Ends(instance) PROVE CoverInv'
    <2>1. HostTypeOK' /\ instance' = instance /\ UNCHANGED stack
      BY <1>b, <1>0, EndsTypes
    <2>. QED
      BY <2>1 DEF CoverInv, AttachedCovers
  <1>c. ASSUME NEW i \in Instances, NEW n \in Nat, Ends([instance EXCEPT ![i].unacked = n]),
               \A f \in DOMAIN stack : stack[f].instance # i
        PROVE  CoverInv'
    <2>1. PICK y : /\ Becomes([instance EXCEPT ![i].unacked = n], i, y)
                   /\ y.callback = instance[i].callback /\ y.poisoned = instance[i].poisoned
                   /\ y.covered = instance[i].covered
      BY InstanceTypes, Zenon
    <2>. QED
      BY <1>a, <1>c, <2>1, Zenon
  <1>1. ASSUME NEW i \in Instances, NEW keys \in {<<>>} \cup GroupLists, Ingest(i, keys) PROVE CoverInv'
    <2>1. MayCall(i) /\ \A f \in DOMAIN stack : stack[f].instance # i
      BY <1>1, IngestCases DEF MayCall
    <2>2. CASE Ends(Poisoned(instance, i))
      <3>1. PICK y : Becomes(Poisoned(instance, i), i, y) /\ y.poisoned
        BY InstanceTypes, Zenon
      <3>. QED
        BY <1>a, <2>1, <2>2, <3>1, Zenon
    <2>3. ASSUME NEW c \in {<<j>> : j \in Instances}, keys \in GroupLists, ctx' = c,
                 Enter(instance, i, c[1], keys, "ingest", instance[i].callback)
          PROVE  CoverInv'
      <3>1. c[1] \in Instances /\ instance[i].callback \in BOOLEAN
        BY <1>0 DEF InstanceState
      <3>. QED
        BY <2>1, <2>3, <3>1, <1>0, CoverEnter
    <2>4. ASSUME NEW n \in Nat, Ends([instance EXCEPT ![i].unacked = n]) PROVE CoverInv'
      BY <1>c, <2>1, <2>4
    <2>. QED
      BY <1>1, <1>b, <2>2, <2>3, <2>4, IngestCases, Zenon
  <1>2. ASSUME NEW i \in Instances, Register(i, <<>>) \/ \E keys \in GroupLists : Register(i, <<keys>>)
        PROVE  CoverInv'
    <2>. DEFINE b == [instance EXCEPT ![i].callback = TRUE]
                r == [instance EXCEPT ![i].callback = TRUE, ![i].reducer = TRUE]
                p == Poisoned(b, i)
                d == Detached(b, i)
                c == [r EXCEPT ![i].covered = TRUE]
    <2>1. MayCall(i) /\ \A f \in DOMAIN stack : stack[f].instance # i
      BY <1>2, RegisterCases, Zenon DEF MayCall
    <2>2. /\ \E y : Becomes(p, i, y) /\ y.poisoned
          /\ \E y : Becomes(d, i, y) /\ ~y.callback
          /\ \E y : Becomes(r, i, y)
          /\ \E y : Becomes(c, i, y) /\ y.covered
      BY InstanceTypes, Zenon
    <2>3. \/ Ends(instance) \/ Ends(p) \/ Ends(d) \/ Ends(c)
          \/ ctx' = <<i>> /\ \E keys \in GroupLists : Enter(r, i, i, keys, "register", TRUE)
      BY <1>2, RegisterCases, Zenon
    <2>. HIDE DEF b, r, p, d, c
    <2>4. ASSUME NEW keys \in GroupLists, ctx' = <<i>>, Enter(r, i, i, keys, "register", TRUE)
          PROVE  CoverInv'
      BY <2>1, <2>2, <2>4, CoverEnter, Zenon DEF Becomes
    <2>5. ASSUME Ends(p) \/ Ends(d) \/ Ends(c) PROVE CoverInv'
      BY <1>a, <2>1, <2>2, <2>5, Zenon
    <2>. QED
      BY <1>b, <2>3, <2>4, <2>5, Zenon
  <1>3. ASSUME NEW i \in Instances, Reopen(i) PROVE CoverInv'
    <2>1. PICK inst \in [Instances -> InstanceState] :
            Ends(inst) /\ (\A j \in Instances \ {i} : inst[j] = instance[j]) /\ ~inst[i].callback
      BY <1>3, ReopenTypes, Zenon
    <2>2. \A f \in DOMAIN stack : stack[f].instance # i
      BY <1>3 DEF Reopen
    <2>3. HostTypeOK' /\ instance' = inst /\ UNCHANGED stack
      BY <2>1, EndsTypes
    <2>. QED
      BY <2>1, <2>2, <2>3, CoverAlone
  <1>4. CASE NextGroup
    <2>1. UNCHANGED instance
      BY <1>4 DEF NextGroup
    <2>2. /\ HostTypeOK' /\ DOMAIN stack' = DOMAIN stack
          /\ \A f \in DOMAIN stack : stack'[f].instance = stack[f].instance /\ stack'[f].call = stack[f].call
      BY <1>4, NextGroupTypes
    <2>. QED
      BY <2>1, <2>2 DEF CoverInv, AttachedCovers
  <1>5. CASE IngestReturns \/ ReplayReturns \/ IngestThrows \/ ReplayThrows
    BY <1>5, EndOfCallback, CoverLeave, Zenon
  <1>6. ASSUME NEW i \in Instances, Ack(i) PROVE CoverInv'
    BY <1>6, <1>c, AckCases, Zenon
  <1>7. ASSUME NEW h \in handles, WriteHandle(h) PROVE CoverInv'
    <2>1. HostTypeOK' /\ UNCHANGED <<instance, stack>>
      BY <1>7, WriteTypes
    <2>. QED
      BY <2>1 DEF CoverInv, AttachedCovers
  <1>8. CASE NewThread
    BY <1>8, NewTypes DEF NewThread
  <1>9. CASE UNCHANGED hostVars
    <2>1. UNCHANGED <<instance, ctx, host, stack, epoch, handles>>
      BY <1>9 DEF hostVars
    <2>2. Ends(instance)
      BY <2>1 DEF Ends, NothingRuns
    <2>3. HostTypeOK'
      BY <2>2, <1>0, EndsTypes, Zenon
    <2>. QED
      BY <2>1, <2>3 DEF CoverInv, AttachedCovers
  <1>10. ASSUME HostNext PROVE CoverInv'
    <2>1. ASSUME NEW i \in Instances,
                 NEW blocks \in {<<>>} \cup {<<keys>> : keys \in GroupLists}, Register(i, blocks)
          PROVE  CoverInv'
      BY <1>2, <2>1
    <2>. QED
      BY <1>1, <1>3, <1>4, <1>5, <1>6, <1>7, <1>8, <1>10, <2>1 DEF HostNext
  <1>. QED
    BY <1>9, <1>10

\* The types and CoverInv hold in every state, whatever names the reducers have.
THEOREM CoverInvariant == HostSpec => []CoverInv
  <1>1. HostInit => CoverInv
    BY NewTypes
  <1>. QED
    BY <1>1, CoverStep, PTL DEF HostSpec

\* In an instance that may ingest, a callback is attached only once the blocks that
\* are not final went through it: a registration that is refused with a batch
\* unacked takes its callback with it (register_reducer_callback in napi.rs), and
\* one whose replay fails leaves the instance poisoned (Db::replay_reducer_chain).
THEOREM AttachedIsCovered == HostSpec => []AttachedCovers
  <1>1. CoverInv => AttachedCovers
    BY DEF CoverInv
  <1>. QED
    BY <1>1, CoverInvariant, PTL

-----------------------------------------------------------------------------
(* Handles and maps *)

\* A callback that starts, when no other one runs.
LEMMA HostEnter ==
    ASSUME HostInv, stack = <<>>, NEW inst \in [Instances -> InstanceState], NEW i \in Instances,
           NEW keys \in GroupLists, NEW call \in {"ingest", "register"},
           Enter(inst, i, i, keys, call, TRUE), ctx' = <<i>>, used' = used,
           \A j \in Instances : inst[j].maps = instance[j].maps
    PROVE  HostInv'
  <1>. DEFINE f == NewFrame(i, i, keys, call, TRUE)
  <1>1. HostTypeOK /\ Idle /\ OwnGroup /\ Len(stack) = 0 /\ epoch \in Nat
    BY EmptySeq DEF HostInv, HostTypeOK
  <1>2. HostTypeOK' /\ Entered(inst, i, i, keys, call, TRUE)
    BY <1>1, EnterTypes, Zenon
  <1>3. /\ HasMaps(i) => host'[1] = [g \in DOMAIN keys |-> Begun(inst[i].maps[keys[g]])]
        /\ ~HasMaps(i) => host' = <<>>
        /\ \A j \in Instances \ {i} : instance'[j] = inst[j]
        /\ instance'[i] = [inst[i] EXCEPT !.maps = [k \in Keys |-> IF Lent(i, keys, k) THEN Gone(@[k]) ELSE @[k]]]
        /\ epoch' = epoch + 1
        /\ handles' \subseteq handles \cup {[home |-> Home(i, keys[1]), index |-> 1, epoch |-> epoch + 1]}
    BY <1>1, <1>2 DEF Entered, Idle
  <1>4. Len(stack') = 1 /\ stack' # <<>> /\ stack'[1] = f
    <2>1. Len(stack') = Len(stack) + 1 /\ stack'[Len(stack')] = f
      BY <1>2 DEF Entered
    <2>. HIDE DEF f
    <2>2. Len(stack') = 1
      BY <1>1, <2>1
    <2>3. stack' # <<>>
      BY <2>2, EmptySeq
    <2>4. stack'[1] = f
      BY <2>1, <2>2
    <2>. QED
      BY <2>2, <2>3, <2>4
  <1>5. /\ f.instance = i /\ f.installed /\ f.code = i /\ f.outer = <<>> /\ f.keys = keys
        /\ f.group = 1
    BY <1>1 DEF NewFrame, Idle
  <1>. HIDE DEF f
  <1>6. \A j \in Instances, k \in Keys : OwnMaps(inst[j].maps[k], j, k)
    BY <1>1 DEF Idle
  <1>7. \A g \in DOMAIN keys : keys[g] \in Keys
    BY ListFacts
  <1>8. HasMaps(i) => DOMAIN host'[1] = DOMAIN keys /\ \A g \in DOMAIN keys : OwnMaps(host'[1][g], i, keys[g])
    <2>. SUFFICES ASSUME HasMaps(i), NEW g \in DOMAIN keys
                  PROVE  OwnMaps(host'[1][g], i, keys[g])
      BY <1>3
    <2>. DEFINE m == inst[i].maps[keys[g]]
    <2>1. host'[1][g] = Begun(m)
      BY <1>3
    <2>2. OwnMaps(m, i, keys[g]) /\ m \in Map
      BY <1>6, <1>7 DEF InstanceState
    <2>. HIDE DEF m
    <2>3. Begun(m).here = m.here /\ Begun(m).of = m.of /\ Begun(m).by = m.by /\ Begun(m).before = m.by
      BY <2>2 DEF Begun, Map
    <2>. QED
      BY <2>1, <2>2, <2>3 DEF OwnMaps
  <1>9. \A j \in Instances, k \in Keys :
            OwnMaps(instance'[j].maps[k], j, k) \/ (j = i /\ Lent(i, keys, k))
    <2>1. \A j \in Instances \ {i}, k \in Keys : OwnMaps(instance'[j].maps[k], j, k)
      BY <1>3, <1>6
    <2>2. \A k \in Keys : ~Lent(i, keys, k) => instance'[i].maps[k] = inst[i].maps[k]
      BY <1>3 DEF InstanceState
    <2>. QED
      BY <1>6, <2>1, <2>2
  <1>10. \A h \in handles : h.epoch \in Nat /\ h.epoch <= epoch
    BY <1>1 DEF HostInv, HostTypeOK, HandleState
  <1>11. /\ \A h \in handles' : h.epoch <= epoch'
         /\ \A h \in handles' : h.epoch = epoch' => h.index = 1 /\ h.home = Home(i, keys[1])
    BY <1>1, <1>3, <1>10
  <1>12. InFrame(stack[1])'
    <2>. DEFINE e == stack'[1]
    <2>1. /\ e.instance = i /\ e.installed /\ e.code = i /\ e.outer = <<>> /\ e.keys = keys
          /\ e.group = 1
      BY <1>4, <1>5
    <2>2. /\ HasMaps(i)' = HasMaps(i)
          /\ \A k \in Keys : Lent(i, keys, k)' = Lent(i, keys, k)
      BY DEF HasMaps, Lent
    <2>. HIDE DEF e
    <2>. QED
      BY <1>3, <1>8, <1>9, <1>11, <2>1, <2>2 DEF InFrame, e, HasMaps, Lent
  <1>13. OwnGroup'
    BY <1>1 DEF OwnGroup
  <1>. QED
    BY <1>2, <1>4, <1>11, <1>12, <1>13 DEF HostInv

\* A call that runs no callback leaves the maps, or brings back what a group wrote.
LEMMA HostEnds ==
    ASSUME HostInv, NEW inst \in [Instances -> InstanceState], Ends(inst), used' = used,
           \A j \in Instances, k \in Keys :
                OwnMaps(instance[j].maps[k], j, k) => OwnMaps(inst[j].maps[k], j, k)
    PROVE  HostInv'
  <1>1. HostTypeOK' /\ instance' = inst /\ UNCHANGED <<ctx, host, stack, epoch, handles>>
    BY EndsTypes DEF HostInv
  <1>2. stack = <<>> /\ Idle => Idle'
    BY <1>1, Zenon DEF Idle
  <1>3. InFrame(stack[1]) => InFrame(stack[1])'
    <2>. DEFINE f == stack[1]
    <2>. SUFFICES ASSUME InFrame(f) PROVE InFrame(f)'
      OBVIOUS
    <2>1. \A i \in Instances, k \in Keys :
            OwnMaps(instance'[i].maps[k], i, k) \/ (i = f.instance /\ Lent(i, f.keys, k))
      BY <1>1 DEF InFrame
    <2>2. f' = f
      BY <1>1
    <2>. QED
      BY <1>1, <2>1, <2>2, Zenon DEF InFrame, HasMaps, Lent
  <1>4. OwnGroup'
    BY DEF HostInv, OwnGroup
  <1>. QED
    BY <1>1, <1>2, <1>3, <1>4, Zenon DEF HostInv

\* The end of the callback gives each group its maps back.
LEMMA HostLeave ==
    ASSUME HostInv, stack # <<>>, UNCHANGED <<epoch, handles, used>>, NEW inst, Ended(inst), Leave(inst)
    PROVE  HostInv'
  <1>. HostTypeOK
    BY DEF HostInv
  <1>. DEFINE t == Top.instance
              m == Returned(Top)
              u == Undone(Top, m)
  <1>1. Len(stack) = 1 /\ Top = stack[1] /\ Top \in Frame /\ t \in Instances
    BY StackFacts DEF HostInv, Frame
  <1>2. InFrame(Top)
    BY <1>1 DEF HostInv
  <1>3. HostTypeOK' /\ stack' = <<>>
    <2>1. inst \in [Instances -> InstanceState]
      BY DEF Ended
    <2>. QED
      BY <1>1, <2>1, LeaveTypes
  <1>4. host' = <<>> /\ ctx' = <<>>
    BY <1>2 DEF Leave, InFrame
  <1>5. /\ \A j \in Instances \ {t} : instance'[j] = instance[j]
        /\ instance'[t].maps = m \/ instance'[t].maps = u
    BY Zenon DEF Leave, Ended
  <1>6. \A k \in Keys : m[k] \in Map /\ OwnMaps(m[k], t, k)
    <2>1. ASSUME NEW k \in Keys PROVE m[k] \in Map /\ OwnMaps(m[k], t, k)
      <3>1. m \in [Keys -> Map]
        BY ReturnedType
      <3>2. \/ ~Lent(t, Top.keys, k) /\ m[k] = instance[t].maps[k]
            \/ HasMaps(t) /\ \E g \in DOMAIN Top.keys : Top.keys[g] = k /\ m[k] = host[1][g]
        BY ReturnedType
      <3>. HIDE DEF m
      <3>. QED
        BY <3>1, <3>2, <1>1, <1>2 DEF InFrame
    <2>. QED
      BY <2>1
  <1>7. \A k \in Keys : OwnMaps(u[k], t, k)
    <2>1. \A k \in Keys : u[k] = m[k] \/ u[k] = [m[k] EXCEPT !.by = m[k].before]
      BY UndoneType
    <2>. HIDE DEF m, u
    <2>2. ASSUME NEW x \in Map, NEW k \in Keys, OwnMaps(x, t, k)
          PROVE  OwnMaps([x EXCEPT !.by = x.before], t, k)
      <3>. DEFINE y == [x EXCEPT !.by = x.before]
      <3>1. y.here = x.here /\ y.of = x.of /\ y.by = x.before /\ y.before = x.before
        BY DEF Map
      <3>. HIDE DEF y
      <3>2. OwnMaps(y, t, k)
        BY <2>2, <3>1 DEF OwnMaps
      <3>. QED
        BY <3>2 DEF y
    <2>3. ASSUME NEW k \in Keys PROVE OwnMaps(u[k], t, k)
      BY <1>6, <2>1, <2>2, Zenon
    <2>. QED
      BY <2>3
  <1>. HIDE DEF m, u
  <1>8. \A k \in Keys : OwnMaps(instance'[t].maps[k], t, k)
    BY <1>5, <1>6, <1>7
  <1>9. Idle'
    BY <1>2, <1>4, <1>5, <1>8 DEF Idle, InFrame
  <1>10. Len(stack') <= 1
    BY <1>3, EmptySeq
  <1>. QED
    BY <1>3, <1>9, <1>10 DEF HostInv, OwnGroup

\* The next group has a handle of its own, the only one of its epoch.
LEMMA HostNextGroup ==
    ASSUME HostInv, NextGroup
    PROVE  HostInv'
  <1>. HostTypeOK
    BY DEF HostInv
  <1>. DEFINE f == Top
              n == Top.group + 1
              e == stack'[1]
  <1>1. stack # <<>> /\ UNCHANGED <<instance, ctx, host, used>>
    BY DEF NextGroup
  <1>2. Len(stack) = 1 /\ f = stack[1] /\ f \in Frame /\ InFrame(f)
    BY <1>1, StackFacts DEF HostInv
  <1>3. /\ HostTypeOK' /\ Len(stack') = 1
        /\ stack' = [stack EXCEPT ![1] = [f EXCEPT !.group = n]]
        /\ epoch' = epoch + 1
        /\ handles' \subseteq handles \cup {[home |-> Home(f.instance, f.keys[n]), index |-> n, epoch |-> epoch + 1]}
    BY <1>2, NextGroupTypes
  <1>4. 1 \in DOMAIN stack /\ stack' # <<>>
    BY <1>2, <1>3, EmptySeq, FrameTypes
  <1>5. /\ e.instance = f.instance /\ e.installed = f.installed /\ e.code = f.code
        /\ e.outer = f.outer /\ e.keys = f.keys /\ e.group = n
    <2>1. e = [f EXCEPT !.group = n]
      BY <1>3, <1>4
    <2>. HIDE DEF f, n, e
    <2>. QED
      BY <1>2, <2>1 DEF Frame
  <1>6. \A h \in handles : h.epoch \in Nat /\ h.epoch <= epoch
    BY DEF HostInv, HostTypeOK, HandleState
  <1>7. epoch \in Nat
    BY DEF HostTypeOK
  <1>. HIDE DEF f, n, e
  <1>8. /\ \A h \in handles' : h.epoch <= epoch'
        /\ \A h \in handles' : h.epoch = epoch' => h.index = n /\ h.home = Home(f.instance, f.keys[n])
    BY <1>3, <1>6, <1>7
  <1>9. InFrame(stack[1])'
    BY <1>1, <1>2, <1>5, <1>8 DEF InFrame, e, HasMaps, Lent
  <1>10. OwnGroup'
    BY <1>1 DEF HostInv, OwnGroup
  <1>. QED
    BY <1>3, <1>4, <1>8, <1>9, <1>10 DEF HostInv

\* A handle that works is that of the group whose rows run.
LEMMA HostWrite ==
    ASSUME HostInv, NEW h \in handles, WriteHandle(h)
    PROVE  HostInv'
  <1>. HostTypeOK
    BY DEF HostInv
  <1>. DEFINE f == Top
              n == h.index
  <1>1. h.epoch = epoch /\ host # <<>>
    BY DEF WriteHandle, Usable
  <1>2. stack # <<>>
    BY <1>1 DEF HostInv, Idle
  <1>3. Len(stack) = 1 /\ f = stack[1] /\ InFrame(f)
    BY <1>2, StackFacts DEF HostInv
  <1>4. n = f.group /\ h.home = Home(f.instance, f.keys[f.group])
    BY <1>1, <1>3 DEF InFrame
  <1>a. /\ HasMaps(f.instance) /\ DOMAIN host[1] = DOMAIN f.keys
        /\ \A g \in DOMAIN f.keys : OwnMaps(host[1][g], f.instance, f.keys[g])
    BY <1>1, <1>3 DEF InFrame
  <1>5. OwnGroup'
    <2>1. used' = <<[home |-> h.home, at |-> host[1][n].of,
                     ran |-> Home(f.instance, f.keys[f.group])]>>
      BY DEF WriteHandle, Running
    <2>2. n \in DOMAIN f.keys
      BY <1>a, WriteTypes
    <2>3. host[1][n].of = Home(f.instance, f.keys[n])
      BY <1>a, <2>2 DEF OwnMaps
    <2>. HIDE DEF f, n
    <2>. QED
      BY <1>4, <2>1, <2>3 DEF OwnGroup
  <1>6. /\ HostTypeOK' /\ UNCHANGED <<instance, ctx, stack, epoch, handles>>
        /\ Len(host') = 1 /\ DOMAIN host'[1] = DOMAIN host[1] /\ n \in DOMAIN host[1]
        /\ \A g \in DOMAIN host[1] : g # n => host'[1][g] = host[1][g]
        /\ host'[1][n].here = host[1][n].here /\ host'[1][n].of = host[1][n].of
        /\ host'[1][n].before = host[1][n].before
        /\ host'[1][n].by = host[1][n].by \cup {h.home}
    BY WriteTypes
  <1>. HIDE DEF f, n
  <1>7. \A g \in DOMAIN f.keys : OwnMaps(host'[1][g], f.instance, f.keys[g])
    BY <1>4, <1>6, <1>a DEF OwnMaps
  <1>8. stack'[1] = f
    BY <1>3, <1>6
  <1>9. InFrame(stack[1])'
    <2>1. /\ ctx = <<f.instance>> /\ f.installed /\ f.code = f.instance /\ f.outer = <<>>
          /\ \A i \in Instances, k \in Keys :
                OwnMaps(instance[i].maps[k], i, k) \/ (i = f.instance /\ Lent(i, f.keys, k))
          /\ \A e \in handles :
                e.epoch = epoch => e.index = f.group /\ e.home = Home(f.instance, f.keys[f.group])
      BY <1>3 DEF InFrame
    <2>2. DOMAIN host'[1] = DOMAIN f.keys
      BY <1>6, <1>a
    <2>. QED
      BY <1>6, <1>7, <1>8, <1>a, <2>1, <2>2 DEF InFrame, HasMaps, Lent
  <1>. QED
    BY <1>2, <1>5, <1>6, <1>9 DEF HostInv

\* Every step keeps HostInv, when no two instances have a reducer of one name.
LEMMA HostStep == DistinctNames /\ HostInv /\ [HostNext]_hostVars => HostInv'
  <1>. SUFFICES ASSUME DistinctNames, HostInv, [HostNext]_hostVars PROVE HostInv'
    OBVIOUS
  <1>. HostTypeOK
    BY DEF HostInv
  <1>0. instance \in [Instances -> InstanceState]
    BY DEF HostTypeOK
  <1>a. ASSUME NEW i \in Instances, NEW q, \E y : Becomes(q, i, y), Ends(q), used' = used PROVE HostInv'
    <2>1. q \in [Instances -> InstanceState] /\ \A j \in Instances : q[j].maps = instance[j].maps
      BY <1>a DEF Becomes
    <2>. QED
      BY <1>a, <2>1, HostEnds
  <1>b. ASSUME Ends(instance), used' = used PROVE HostInv'
    BY <1>0, <1>b, HostEnds
  <1>c. ASSUME NEW i \in Instances, NEW n \in Nat, Ends([instance EXCEPT ![i].unacked = n]), used' = used
        PROVE  HostInv'
    <2>1. \E y : Becomes([instance EXCEPT ![i].unacked = n], i, y)
      BY InstanceTypes, Zenon
    <2>. QED
      BY <1>a, <1>c, <2>1, Zenon
  <1>1. ASSUME NEW i \in Instances, NEW keys \in {<<>>} \cup GroupLists, Ingest(i, keys) PROVE HostInv'
    <2>1. used' = used
      BY <1>1, IngestCases
    <2>2. CASE Ends(Poisoned(instance, i))
      <3>1. \E y : Becomes(Poisoned(instance, i), i, y)
        BY InstanceTypes, Zenon
      <3>. QED
        BY <1>a, <2>1, <2>2, <3>1, Zenon
    <2>3. ASSUME NEW n \in Nat, Ends([instance EXCEPT ![i].unacked = n]) PROVE HostInv'
      BY <1>c, <2>1, <2>3
    <2>4. ASSUME NEW c \in {<<j>> : j \in Instances}, keys \in GroupLists,
                 c = IF instance[i].callback THEN <<i>> ELSE ctx,
                 CallbackInstalled(c, i), instance[i].callback => ~Borrowed, ctx' = c,
                 Enter(instance, i, c[1], keys, "ingest", instance[i].callback)
          PROVE  HostInv'
      <3>1. c[1] \in Instances /\ instance[c[1]].callback /\ ReducerId[c[1]] = ReducerId[i]
        BY <2>4 DEF CallbackInstalled
      <3>2. c[1] = i
        BY <3>1 DEF DistinctNames
      <3>3. instance[i].callback = TRUE /\ c = <<i>> /\ stack = <<>>
        BY <2>4, <3>1, <3>2, <1>0 DEF Borrowed, InstanceState
      <3>4. Enter(instance, i, i, keys, "ingest", TRUE) /\ ctx' = <<i>>
        BY <2>4, <3>2, <3>3, Zenon
      <3>. QED
        BY <2>1, <2>4, <3>3, <3>4, <1>0, HostEnter, Zenon
    <2>. QED
      BY <1>1, <1>b, <2>1, <2>2, <2>3, <2>4, IngestCases, Zenon
  <1>2. ASSUME NEW i \in Instances, Register(i, <<>>) \/ \E keys \in GroupLists : Register(i, <<keys>>)
        PROVE  HostInv'
    <2>. DEFINE b == [instance EXCEPT ![i].callback = TRUE]
                r == [instance EXCEPT ![i].callback = TRUE, ![i].reducer = TRUE]
                p == Poisoned(b, i)
                d == Detached(b, i)
                c == [r EXCEPT ![i].covered = TRUE]
    <2>1. used' = used
      BY <1>2, RegisterCases, Zenon
    <2>2. /\ \E y : Becomes(p, i, y)
          /\ \E y : Becomes(d, i, y)
          /\ \E y : Becomes(c, i, y)
          /\ \E y : Becomes(r, i, y)
      BY InstanceTypes, Zenon
    <2>3. \/ Ends(instance) \/ Ends(p) \/ Ends(d) \/ Ends(c)
          \/ /\ ~Borrowed /\ ctx' = <<i>>
             /\ \E keys \in GroupLists : Enter(r, i, i, keys, "register", TRUE)
      BY <1>2, RegisterCases, Zenon
    <2>. HIDE DEF b, r, p, d, c
    <2>4. ASSUME NEW keys \in GroupLists, ~Borrowed, ctx' = <<i>>, Enter(r, i, i, keys, "register", TRUE)
          PROVE  HostInv'
      <3>1. r \in [Instances -> InstanceState] /\ \A j \in Instances : r[j].maps = instance[j].maps
        BY <2>2 DEF Becomes
      <3>2. stack = <<>>
        BY <2>4 DEF Borrowed
      <3>. QED
        BY <2>1, <2>4, <3>1, <3>2, HostEnter, Zenon
    <2>. QED
      BY <1>a, <1>b, <2>1, <2>2, <2>3, <2>4, Zenon
  <1>3. ASSUME NEW i \in Instances, Reopen(i) PROVE HostInv'
    <2>1. PICK inst \in [Instances -> InstanceState] :
            /\ Ends(inst) /\ used' = used
            /\ \A j \in Instances \ {i} : inst[j] = instance[j]
            /\ \A k \in Keys : OwnMaps(instance[i].maps[k], i, k) => OwnMaps(inst[i].maps[k], i, k)
      BY <1>3, ReopenTypes, Zenon
    <2>2. \A j \in Instances, k \in Keys :
            OwnMaps(instance[j].maps[k], j, k) => OwnMaps(inst[j].maps[k], j, k)
      BY <2>1
    <2>. QED
      BY <2>1, <2>2, HostEnds
  <1>4. CASE NextGroup
    BY <1>4, HostNextGroup
  <1>5. CASE IngestReturns \/ ReplayReturns \/ IngestThrows \/ ReplayThrows
    BY <1>5, EndOfCallback, HostLeave, Zenon
  <1>6. ASSUME NEW i \in Instances, Ack(i) PROVE HostInv'
    BY <1>6, <1>c, AckCases, Zenon
  <1>7. ASSUME NEW h \in handles, WriteHandle(h) PROVE HostInv'
    BY <1>7, HostWrite, Zenon
  <1>8. CASE NewThread
    <2>1. stack' = <<>> /\ used' = <<>> /\ handles' = {}
      BY <1>8 DEF NewThread
    <2>2. Len(stack') = 0
      BY <2>1, EmptySeq
    <2>. QED
      BY <1>8, <2>1, <2>2, NewTypes DEF HostInv, OwnGroup
  <1>9. CASE UNCHANGED hostVars
    <2>1. Ends(instance) /\ used' = used
      BY <1>9, Zenon DEF hostVars, Ends, NothingRuns
    <2>. QED
      BY <2>1, <1>0, HostEnds
  <1>10. ASSUME HostNext PROVE HostInv'
    <2>1. ASSUME NEW i \in Instances,
                 NEW blocks \in {<<>>} \cup {<<keys>> : keys \in GroupLists}, Register(i, blocks)
          PROVE  HostInv'
      BY <1>2, <2>1
    <2>. QED
      BY <1>1, <1>3, <1>4, <1>5, <1>6, <1>7, <1>8, <1>10, <2>1 DEF HostNext
  <1>. QED
    BY <1>9, <1>10

\* HostInv holds in every state: one callback runs at a time, and only the handle
\* of its present group has the present epoch.
THEOREM HostInvariant == ASSUME DistinctNames PROVE HostSpec => []HostInv
  <1>1. HostInit => HostInv
    <2>1. HostInit => stack = <<>> /\ used = <<>> /\ handles = {} /\ Len(<<>>) = 0
      BY DEF HostInit
    <2>. QED
      BY <2>1, NewTypes DEF HostInv, OwnGroup
  <1>2. HostInv /\ [HostNext]_hostVars => HostInv'
    BY HostStep
  <1>. QED
    BY <1>1, <1>2, PTL DEF HostSpec

\* A Map handle (StateMapHandle, with_host_map) reaches the maps of its own group
\* while the group's rows run, however long a body keeps it, and after a callback
\* that returned or threw each group has its maps back (with_host_maps).
THEOREM HandlesStayApart == ASSUME DistinctNames PROVE HostSpec => []MapsStayApart
  <1>1. HostInv => MapsStayApart
    <2>1. ASSUME HostInv, stack = <<>> PROVE Idle
      BY <2>1 DEF HostInv
    <2>. QED
      BY <2>1 DEF HostInv, MapsStayApart, MapsReturn, Idle, OwnMaps
  <1>. QED
    BY <1>1, HostInvariant, PTL

\* The rows of an instance run through its own code only (EXTERNAL_CTX holds the
\* callbacks of the instance that ingests), and a callback that is attached has
\* seen every block that is not final.
THEOREM OwnCodeRuns == ASSUME DistinctNames PROVE HostSpec => []AttachedCodeRuns
  <1>1. HostInv => OwnCode
    <2>. SUFFICES ASSUME HostInv, NEW f \in DOMAIN stack PROVE stack[f].code = stack[f].instance
      BY DEF OwnCode
    <2>1. f = 1 /\ stack # <<>>
      <3>1. Len(stack) \in Nat /\ DOMAIN stack = 1 .. Len(stack) /\ Len(stack) <= 1
        BY FrameTypes DEF HostInv
      <3>2. f = 1 /\ Len(stack) = 1
        BY <3>1
      <3>. QED
        BY <3>2, EmptySeq
    <2>. QED
      BY <2>1 DEF HostInv, InFrame
  <1>2. HostInv /\ CoverInv => AttachedCodeRuns
    BY <1>1 DEF AttachedCodeRuns, CoverInv
  <1>. QED
    BY <1>2, HostInvariant, CoverInvariant, PTL

=============================================================================
