------------------------------- MODULE Blocks -------------------------------
(***************************************************************************)
(* engine/blocks.rs: a value for each of some blocks.  One block stays     *)
(* inline, a second one brings a map, and a map that empties goes.         *)
(***************************************************************************)
EXTENDS Naturals, FiniteSets

CONSTANTS MaxBlock, \* u64::MAX, where block + 1 has no value
          Value

ASSUME MaxBlockAssumption == MaxBlock \in Nat

VARIABLES blocks, \* the enum
          result  \* the entries that the last operation handed back

vars == <<blocks, result>>

Block == 0 .. MaxBlock

Keep(m, S) == [x \in DOMAIN m \cap S |-> m[x]]

Put(m, b, v) == [x \in DOMAIN m \cup {b} |-> IF x = b THEN v ELSE m[x]]

Least(S) == {x \in S : \A y \in S : x <= y}

Greatest(S) == {x \in S : \A y \in S : y <= x}

NoEntries == [x \in {} |-> x]

Single(b, v) == [x \in {b} |-> v]

Empty == [kind |-> "Empty"]

One(b, v) == [kind |-> "One", block |-> b, value |-> v]

Many(m) == [kind |-> "Many", map |-> m]

\* Blocks::iter, the entries in block order: the map that the enum stands for.
Iter(r) ==
    IF r.kind = "Empty" THEN NoEntries
    ELSE IF r.kind = "One" THEN Single(r.block, r.value)
    ELSE r.map

\* A map that lost its last entry goes.
DropEmptyMap(r) ==
    IF r.kind = "Many" /\ DOMAIN r.map = {} THEN Empty ELSE r

\* From<BTreeMap>: also the form in which serde gives a stored one back.
FromMap(m) ==
    IF DOMAIN m = {} THEN Empty
    ELSE IF \E b \in DOMAIN m : DOMAIN m = {b}
         THEN LET b == CHOOSE b \in DOMAIN m : TRUE IN One(b, m[b])
         ELSE Many(m)

\* Turn One into Many with a second block.
Spill(r, b, v) == Many(Put(Iter(r), b, v))

Init == blocks = Empty /\ result = NoEntries

Is(kind) == blocks.kind = kind

\* Without the check of the addition, the highest block asks for the range
\* from 0.
FaultyRange(from) == {x \in DOMAIN blocks.map : x >= from % (MaxBlock + 1)}

\* The blocks of the map from `from` up; none for the number after the
\* highest one.
Range(from) == {x \in DOMAIN blocks.map : from <= MaxBlock /\ x >= from}

Get(b) ==
    /\ \/ Is("Empty") /\ result' = NoEntries
       \/ Is("One") /\ blocks.block = b /\ result' = Iter(blocks)
       \/ Is("One") /\ blocks.block # b /\ result' = NoEntries
       \/ Is("Many") /\ result' = Keep(blocks.map, {b})
    /\ UNCHANGED blocks

LastBlock ==
    /\ result' = Keep(Iter(blocks), Greatest(DOMAIN Iter(blocks)))
    /\ UNCHANGED blocks

FirstAbove(b) ==
    /\ \/ Is("Many") /\ result' = Keep(blocks.map, Least(Range(b + 1)))
       \/ ~ Is("Many") /\ result' = Keep(Iter(blocks), {x \in DOMAIN Iter(blocks) : x > b})
    /\ UNCHANGED blocks

Insert(b, v) ==
    /\ \/ Is("Many") /\ blocks' = Many(Put(blocks.map, b, v))
       \/ Is("One") /\ blocks.block = b /\ blocks' = One(b, v)
       \/ Is("Empty") /\ blocks' = One(b, v)
       \/ Is("One") /\ blocks.block # b /\ blocks' = Spill(blocks, b, v)
    /\ result' = NoEntries

OrInsert(b, v) ==
    /\ \/ Is("Many") /\ b \in DOMAIN blocks.map /\ blocks' = blocks
       \/ Is("Many") /\ b \notin DOMAIN blocks.map /\ blocks' = Many(Put(blocks.map, b, v))
       \/ Is("One") /\ blocks.block # b /\ blocks' = Spill(blocks, b, v)
       \/ Is("One") /\ blocks.block = b /\ blocks' = blocks
       \/ Is("Empty") /\ blocks' = One(b, v)
    /\ result' = Keep(Iter(blocks'), {b})

Remove(b) ==
    \/ (Is("Empty") \/ (Is("One") /\ blocks.block # b)) /\ result' = NoEntries /\ blocks' = blocks
    \/ Is("One") /\ blocks.block = b /\ result' = Iter(blocks) /\ blocks' = Empty
    \/ /\ Is("Many")
       /\ result' = Keep(blocks.map, {b})
       /\ blocks' = DropEmptyMap(Many(Keep(blocks.map, DOMAIN blocks.map \ {b})))

RemoveAbove(b) ==
    \/ (Is("Empty") \/ (Is("One") /\ blocks.block <= b)) /\ result' = NoEntries /\ blocks' = blocks
    \/ Is("One") /\ blocks.block > b /\ result' = Iter(blocks) /\ blocks' = Empty
    \/ /\ Is("Many")
       /\ result' = Keep(blocks.map, Least(Range(b + 1)))
       /\ blocks' = DropEmptyMap(Many(Keep(blocks.map, DOMAIN blocks.map \ Range(b + 1))))

DrainUpTo(b) ==
    \/ (Is("Empty") \/ (Is("One") /\ blocks.block > b)) /\ result' = NoEntries /\ blocks' = blocks
    \/ Is("One") /\ blocks.block <= b /\ result' = Iter(blocks) /\ blocks' = Empty
    \/ /\ Is("Many")
       /\ result' = Keep(blocks.map, {x \in DOMAIN blocks.map : x <= b})
       /\ blocks' = DropEmptyMap(Many(Keep(blocks.map, {x \in DOMAIN blocks.map : x > b})))

\* A stored aggregate is read back.
Restore ==
    /\ blocks' = FromMap(Iter(blocks))
    /\ UNCHANGED result

Next ==
    \/ LastBlock
    \/ Restore
    \/ \E b \in Block :
        \/ Get(b) \/ FirstAbove(b) \/ Remove(b) \/ RemoveAbove(b) \/ DrainUpTo(b)
        \/ \E v \in Value : Insert(b, v) \/ OrInsert(b, v)

Spec == Init /\ [][Next]_vars

-----------------------------------------------------------------------------
Maps == UNION {[S -> Value] : S \in SUBSET Block}

\* blocks.rs promises that "a map that empties goes": a group without unfinal
\* blocks is Empty, so that an idle group allocates nothing.
WellFormed ==
    /\ \/ blocks = Empty
       \/ \E b \in Block, v \in Value : blocks = One(b, v)
       \/ \E m \in Maps : blocks = Many(m) /\ DOMAIN m # {}
    /\ result \in Maps

\* The enum behaves as a map from blocks to values for each operation, at the
\* highest block number too, and a stored one reads back as the same map.
Abstract == INSTANCE BlockMap WITH values <- Iter(blocks)

IsBlockMap == Abstract!Spec
=============================================================================
