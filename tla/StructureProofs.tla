---------------------------- MODULE StructureProofs --------------------------
(***************************************************************************)
(* Theorems on two data structures, for every size of them: the enum of    *)
(* engine/blocks.rs implements the map of BlockMap, for every highest      *)
(* block number and every set of values, and the merge of the change       *)
(* records of a row (change.rs) gives their net change.                    *)
(***************************************************************************)
EXTENDS Blocks, TLAPS

\* Entries that are kept, and entries with one more, are entries.
LEMMA KeepMaps ==
    ASSUME NEW m \in Maps, NEW S
    PROVE  Keep(m, S) \in Maps
  <1>1. PICK T \in SUBSET Block : m \in [T -> Value]
    BY DEF Maps
  <1>2. T \cap S \in SUBSET Block /\ Keep(m, S) \in [T \cap S -> Value]
    BY <1>1 DEF Keep
  <1>. QED
    BY <1>2 DEF Maps

\* An insert into a map of blocks gives a nonempty map of blocks.
LEMMA PutMaps ==
    ASSUME NEW m \in Maps, NEW b \in Block, NEW v \in Value
    PROVE  Put(m, b, v) \in Maps /\ DOMAIN Put(m, b, v) # {}
  <1>1. PICK T \in SUBSET Block : m \in [T -> Value]
    BY DEF Maps
  <1>2. T \cup {b} \in SUBSET Block /\ Put(m, b, v) \in [T \cup {b} -> Value]
    BY <1>1 DEF Put
  <1>3. b \in DOMAIN Put(m, b, v)
    BY DEF Put
  <1>. QED
    BY <1>2, <1>3 DEF Maps

\* A map with one entry is a map of blocks.
LEMMA OneMaps ==
    ASSUME NEW b \in Block, NEW v \in Value
    PROVE  Single(b, v) \in Maps /\ DOMAIN Single(b, v) = {b}
  <1>1. {b} \in SUBSET Block /\ Single(b, v) \in [{b} -> Value]
    BY DEF Single
  <1>. QED
    BY <1>1 DEF Maps

\* The empty map is a map of blocks, and what is left of a map when nothing is kept.
LEMMA EmptyMaps ==
    /\ NoEntries \in Maps /\ DOMAIN NoEntries = {}
    /\ \A m, S : DOMAIN m \cap S = {} => Keep(m, S) = NoEntries
  <1>1. NoEntries \in [{} -> Value] /\ {} \in SUBSET Block
    BY DEF NoEntries
  <1>. QED
    BY <1>1 DEF Maps, NoEntries, Keep

\* What the three forms of the enum stand for.
LEMMA IterForms ==
    /\ Iter(Empty) = NoEntries
    /\ \A b, v : Iter(One(b, v)) = Single(b, v)
    /\ \A m : Iter(Many(m)) = m
  BY DEF Iter, Empty, One, Many

\* A map that empties goes, and stands for the same entries.
LEMMA DropEmpty ==
    ASSUME NEW m \in Maps
    PROVE  /\ Iter(DropEmptyMap(Many(m))) = m
           /\ DropEmptyMap(Many(m)) = Empty \/ (DropEmptyMap(Many(m)) = Many(m) /\ DOMAIN m # {})
  <1>1. CASE DOMAIN m = {}
    <2>1. m = NoEntries
      BY <1>1 DEF Maps, NoEntries
    <2>2. DropEmptyMap(Many(m)) = Empty
      BY <1>1 DEF DropEmptyMap, Many
    <2>. QED
      BY <2>1, <2>2, IterForms
  <1>2. CASE DOMAIN m # {}
    <2>1. DropEmptyMap(Many(m)) = Many(m)
      BY <1>2 DEF DropEmptyMap, Many
    <2>. QED
      BY <2>1, <1>2, IterForms
  <1>. QED
    BY <1>1, <1>2

\* Entries of which all are kept, and of which all are replaced.
LEMMA KeepAll ==
    ASSUME NEW m \in Maps, NEW S, DOMAIN m \subseteq S
    PROVE  Keep(m, S) = m
  <1>1. PICK T \in SUBSET Block : m \in [T -> Value]
    BY DEF Maps
  <1>2. DOMAIN m \cap S = T /\ DOMAIN m = T
    BY <1>1
  <1>. QED
    BY <1>1, <1>2 DEF Keep

\* An insert over the only block of a map leaves one entry.
LEMMA PutOne ==
    ASSUME NEW m, NEW b, NEW v, DOMAIN m \subseteq {b}
    PROVE  Put(m, b, v) = Single(b, v)
  <1>1. DOMAIN m \cup {b} = {b}
    OBVIOUS
  <1>. QED
    BY <1>1 DEF Put, Single

\* The least of one block.
LEMMA LeastOne ==
    ASSUME NEW b \in Nat
    PROVE  Least({b}) = {b} /\ Greatest({b}) = {b} /\ Least({}) = {} /\ Greatest({}) = {}
  BY DEF Least, Greatest

\* The three forms that the enum has, and the entries of each.
LEMMA Forms ==
    ASSUME WellFormed
    PROVE  /\ Iter(blocks) \in Maps
           /\ \/ blocks = Empty /\ blocks.kind = "Empty" /\ Iter(blocks) = NoEntries
              \/ \E b \in Block, v \in Value :
                    /\ blocks = One(b, v) /\ blocks.kind = "One"
                    /\ blocks.block = b /\ blocks.value = v
                    /\ Iter(blocks) = Single(b, v)
              \/ \E m \in Maps :
                    /\ blocks = Many(m) /\ blocks.kind = "Many" /\ blocks.map = m
                    /\ Iter(blocks) = m /\ DOMAIN m # {}
  <1>1. CASE blocks = Empty
    BY <1>1, IterForms, EmptyMaps DEF Empty
  <1>2. CASE \E b \in Block, v \in Value : blocks = One(b, v)
    <2>1. PICK b \in Block, v \in Value : blocks = One(b, v)
      BY <1>2
    <2>2. blocks.kind = "One" /\ blocks.block = b /\ blocks.value = v
      BY <2>1 DEF One
    <2>3. Iter(blocks) = Single(b, v)
      BY <2>1, IterForms
    <2>4. Iter(blocks) \in Maps
      BY <2>3, OneMaps, Zenon
    <2>. QED
      BY <2>1, <2>2, <2>3, <2>4
  <1>3. CASE \E m \in Maps : blocks = Many(m) /\ DOMAIN m # {}
    <2>1. PICK m \in Maps : blocks = Many(m) /\ DOMAIN m # {}
      BY <1>3
    <2>2. blocks.kind = "Many" /\ blocks.map = m
      BY <2>1 DEF Many
    <2>. QED
      BY <2>1, <2>2, IterForms
  <1>. QED
    BY <1>1, <1>2, <1>3 DEF WellFormed

\* The same, by form.
LEMMA FormEmpty ==
    ASSUME WellFormed, Is("Empty")
    PROVE  blocks = Empty /\ Iter(blocks) = NoEntries /\ DOMAIN Iter(blocks) = {}
                          /\ ~ Is("One") /\ ~ Is("Many")
  BY Forms, EmptyMaps DEF Is

\* What WellFormed says of the form One.
LEMMA FormOne ==
    ASSUME WellFormed, Is("One")
    PROVE  /\ blocks.block \in Block /\ blocks.value \in Value
           /\ Iter(blocks) = Single(blocks.block, blocks.value)
           /\ DOMAIN Iter(blocks) = {blocks.block}
           /\ ~ Is("Empty") /\ ~ Is("Many")
  BY Forms, OneMaps, Zenon DEF Is

\* What WellFormed says of the form Many.
LEMMA FormMany ==
    ASSUME WellFormed, Is("Many")
    PROVE  /\ blocks.map \in Maps /\ Iter(blocks) = blocks.map /\ DOMAIN blocks.map # {}
           /\ ~ Is("Empty") /\ ~ Is("One")
  BY Forms DEF Is

-----------------------------------------------------------------------------
(* Each operation of the enum is the operation of the map *)

\* Both modules use the same operators on maps.
LEMMA SameOperators ==
    /\ \A m, S : Abstract!Keep(m, S) = Keep(m, S)
    /\ \A m, b, v : Abstract!Put(m, b, v) = Put(m, b, v)
    /\ \A S : Abstract!Lowest(S) = Least(S) /\ Abstract!Highest(S) = Greatest(S)
    /\ \A m, b : Abstract!Above(m, b) = {x \in DOMAIN m : x > b}
    /\ Abstract!Block = Block
  BY DEF Keep, Put, Least, Greatest, Block, Abstract!Keep, Abstract!Put, Abstract!Lowest,
         Abstract!Highest, Abstract!Above, Abstract!Block

\* The range of the map from block + 1 is the range above block: also at the
\* highest block, which has nothing above it.
LEMMA RangeIsAbove ==
    ASSUME WellFormed, Is("Many"), NEW b \in Block
    PROVE  /\ Range(b + 1) = {x \in DOMAIN Iter(blocks) : x > b}
           /\ DOMAIN Iter(blocks) \ {x \in DOMAIN Iter(blocks) : x > b}
                = {x \in DOMAIN Iter(blocks) : x <= b}
  <1>1. blocks.map = Iter(blocks) /\ Iter(blocks) \in Maps
    BY Forms DEF Is
  <1>2. DOMAIN Iter(blocks) \subseteq Block
    BY <1>1 DEF Maps
  <1>. QED
    BY <1>1, <1>2, MaxBlockAssumption DEF Range, Block

\* Reads.
LEMMA GetStep ==
    ASSUME WellFormed, NEW b \in Block, Get(b)
    PROVE  Abstract!Get(b) /\ WellFormed'
  <1>1. blocks' = blocks /\ result' = Keep(Iter(blocks), {b})
    <2>1. CASE Is("Empty")
      BY <2>1, FormEmpty, EmptyMaps DEF Get, Is
    <2>2. CASE Is("One")
      <3>1. blocks' = blocks /\ result' = IF blocks.block = b THEN Iter(blocks) ELSE NoEntries
        BY <2>2, FormOne DEF Get
      <3>2. Keep(Iter(blocks), {b}) = IF blocks.block = b THEN Iter(blocks) ELSE NoEntries
        BY <2>2, FormOne, Forms, KeepAll, EmptyMaps
      <3>. QED
        BY <3>1, <3>2
    <2>3. CASE Is("Many")
      BY <2>3, Forms DEF Get, Is
    <2>. QED
      BY <2>1, <2>2, <2>3 DEF Get, Is
  <1>2. WellFormed'
    BY <1>1, Forms, KeepMaps DEF WellFormed
  <1>. QED
    BY <1>1, <1>2, SameOperators DEF Abstract!Get, Abstract!Reads

\* last_block of the enum is the one of the map.
LEMMA LastBlockStep ==
    ASSUME WellFormed, LastBlock
    PROVE  Abstract!LastBlock /\ WellFormed'
  <1>1. WellFormed'
    BY Forms, KeepMaps DEF WellFormed, LastBlock
  <1>. QED
    BY <1>1, SameOperators DEF LastBlock, Abstract!LastBlock, Abstract!Reads

\* first_above of the enum is the one of the map.
LEMMA FirstAboveStep ==
    ASSUME WellFormed, NEW b \in Block, FirstAbove(b)
    PROVE  Abstract!FirstAbove(b) /\ WellFormed'
  <1>. DEFINE above == {x \in DOMAIN Iter(blocks) : x > b}
  <1>1. blocks' = blocks /\ result' = Keep(Iter(blocks), Least(above))
    <2>1. CASE Is("Many")
      <3>1. blocks.map = Iter(blocks)
        BY <2>1, Forms DEF Is
      <3>. QED
        BY <2>1, <3>1, RangeIsAbove DEF FirstAbove
    <2>2. CASE ~ Is("Many")
      <3>1. Least(above) = above
        <4>1. CASE Is("Empty")
          BY <4>1, Forms, EmptyMaps DEF Is, Least
        <4>2. CASE Is("One")
          <5>1. PICK c \in Block : DOMAIN Iter(blocks) = {c}
            BY <4>2, FormOne
          <5>. QED
            BY <5>1, MaxBlockAssumption DEF Least, Block
        <4>. QED
          BY <4>1, <4>2, <2>2, Forms DEF Is
      <3>. QED
        BY <2>2, <3>1 DEF FirstAbove
    <2>. QED
      BY <2>1, <2>2
  <1>2. WellFormed'
    BY <1>1, Forms, KeepMaps DEF WellFormed
  <1>. QED
    BY <1>1, <1>2, SameOperators DEF Abstract!FirstAbove, Abstract!Reads
\* Writes.  `Writes` is what each of them comes down to: the new form stands
\* for the new map.
LEMMA NewForm ==
    /\ \A b \in Block, v \in Value, r \in Maps :
         blocks' = One(b, v) /\ result' = r => Iter(blocks') = Single(b, v) /\ WellFormed'
    /\ \A m \in Maps, r \in Maps :
         blocks' = Many(m) /\ DOMAIN m # {} /\ result' = r => Iter(blocks') = m /\ WellFormed'
    /\ \A m \in Maps, r \in Maps :
         blocks' = DropEmptyMap(Many(m)) /\ result' = r => Iter(blocks') = m /\ WellFormed'
    /\ \A r \in Maps :
         blocks' = Empty /\ result' = r => Iter(blocks') = NoEntries /\ WellFormed'
    /\ \A r \in Maps :
         WellFormed /\ blocks' = blocks /\ result' = r => Iter(blocks') = Iter(blocks) /\ WellFormed'
  <1>1. \A m \in Maps, r \in Maps :
          blocks' = DropEmptyMap(Many(m)) /\ result' = r => Iter(blocks') = m /\ WellFormed'
    BY DropEmpty DEF WellFormed
  <1>2. \A m \in Maps, r \in Maps :
          blocks' = Many(m) /\ DOMAIN m # {} /\ result' = r => Iter(blocks') = m /\ WellFormed'
    BY IterForms DEF WellFormed
  <1>3. \A b \in Block, v \in Value, r \in Maps :
          blocks' = One(b, v) /\ result' = r => Iter(blocks') = Single(b, v) /\ WellFormed'
    BY IterForms DEF WellFormed
  <1>4. \A r \in Maps :
          blocks' = Empty /\ result' = r => Iter(blocks') = NoEntries /\ WellFormed'
    BY IterForms DEF WellFormed
  <1>5. \A r \in Maps :
          WellFormed /\ blocks' = blocks /\ result' = r => Iter(blocks') = Iter(blocks) /\ WellFormed'
    BY DEF WellFormed
  <1>. QED
    BY <1>1, <1>2, <1>3, <1>4, <1>5

\* insert of the enum is the one of the map.
LEMMA InsertStep ==
    ASSUME WellFormed, NEW b \in Block, NEW v \in Value, Insert(b, v)
    PROVE  Abstract!Insert(b, v) /\ WellFormed'
  <1>. DEFINE new == Put(Iter(blocks), b, v)
  <1>1. new \in Maps /\ DOMAIN new # {} /\ NoEntries \in Maps /\ result' = NoEntries
    BY Forms, PutMaps, EmptyMaps DEF Insert
  <1>2. Keep(Iter(blocks), {}) = NoEntries
    BY EmptyMaps
  <1>3. Iter(blocks') = new /\ WellFormed'
    <2>1. CASE Is("Empty")
      <3>1. blocks' = One(b, v) /\ DOMAIN Iter(blocks) \subseteq {b}
        BY <2>1, FormEmpty DEF Insert
      <3>2. new = Single(b, v)
        BY <3>1, PutOne
      <3>. QED
        BY <3>1, <3>2, <1>1, NewForm
    <2>2. CASE Is("One") /\ blocks.block = b
      <3>1. new = Single(b, v)
        BY <2>2, FormOne, PutOne
      <3>2. blocks' = One(b, v)
        BY <2>2, FormOne DEF Insert
      <3>. QED
        BY <3>1, <3>2, <1>1, NewForm
    <2>3. CASE Is("Many") \/ (Is("One") /\ blocks.block # b)
      <3>1. blocks' = Many(new)
        BY <2>3, FormOne, FormMany DEF Insert, Spill
      <3>. QED
        BY <3>1, <1>1, NewForm
    <2>. QED
      BY <2>1, <2>2, <2>3, Forms DEF Is
  <1>. QED
    BY <1>1, <1>2, <1>3, SameOperators DEF Abstract!Insert

\* or_insert of the enum is the one of the map.
LEMMA OrInsertStep ==
    ASSUME WellFormed, NEW b \in Block, NEW v \in Value, OrInsert(b, v)
    PROVE  Abstract!OrInsert(b, v) /\ WellFormed'
  <1>. DEFINE new == Put(Iter(blocks), b, v)
  <1>1. new \in Maps /\ DOMAIN new # {} /\ Iter(blocks) \in Maps
    BY Forms, PutMaps
  <1>2. result' = Keep(Iter(blocks'), {b})
    BY DEF OrInsert
  <1>3. Iter(blocks') = (IF b \in DOMAIN Iter(blocks) THEN Iter(blocks) ELSE new) /\ WellFormed'
    <2>1. CASE Is("Empty")
      <3>1. blocks' = One(b, v) /\ DOMAIN Iter(blocks) = {}
        BY <2>1, FormEmpty DEF OrInsert
      <3>2. new = Single(b, v) /\ Iter(blocks') = new
        BY <3>1, IterForms, PutOne
      <3>3. result' \in Maps
        BY <3>2, <1>1, <1>2, KeepMaps
      <3>. QED
        BY <3>1, <3>2, <3>3, NewForm
    <2>2. CASE b \in DOMAIN Iter(blocks)
      <3>1. blocks' = blocks
        BY <2>2, Forms, FormEmpty, FormOne, FormMany DEF OrInsert
      <3>2. result' \in Maps
        BY <3>1, <1>1, <1>2, KeepMaps
      <3>. QED
        BY <2>2, <3>1, <3>2, NewForm
    <2>3. CASE ~ Is("Empty") /\ b \notin DOMAIN Iter(blocks)
      <3>1. blocks' = Many(new)
        BY <2>3, FormEmpty, FormOne, FormMany DEF OrInsert, Spill
      <3>2. result' \in Maps
        BY <3>1, <1>1, <1>2, KeepMaps, IterForms
      <3>. QED
        BY <2>3, <3>1, <3>2, <1>1, NewForm
    <2>. QED
      BY <2>1, <2>2, <2>3
  <1>. QED
    BY <1>2, <1>3, SameOperators DEF Abstract!OrInsert
\* remove of the enum is the one of the map.
LEMMA RemoveStep ==
    ASSUME WellFormed, NEW b \in Block, Remove(b)
    PROVE  Abstract!Remove(b) /\ WellFormed'
  <1>. DEFINE out == Keep(Iter(blocks), {b})
              new == Keep(Iter(blocks), DOMAIN Iter(blocks) \ {b})
  <1>1. out \in Maps /\ new \in Maps
    BY Forms, KeepMaps
  <1>2. result' = out /\ Iter(blocks') = new /\ WellFormed'
    <2>1. CASE Is("Many")
      <3>1. result' = out /\ blocks' = DropEmptyMap(Many(new))
        BY <2>1, FormMany DEF Remove
      <3>. QED
        BY <3>1, <1>1, NewForm
    <2>2. CASE Is("One") /\ blocks.block = b
      <3>1. result' = Iter(blocks) /\ blocks' = Empty
        BY <2>2, FormOne DEF Remove
      <3>2. out = Iter(blocks) /\ new = NoEntries
        BY <2>2, FormOne, KeepAll, Forms, EmptyMaps
      <3>. QED
        BY <3>1, <3>2, <1>1, NewForm
    <2>3. CASE Is("Empty") \/ (Is("One") /\ blocks.block # b)
      <3>1. result' = NoEntries /\ blocks' = blocks
        BY <2>3, FormOne, FormEmpty DEF Remove
      <3>2. b \notin DOMAIN Iter(blocks)
        BY <2>3, FormOne, FormEmpty
      <3>3. out = NoEntries
        BY <3>2, EmptyMaps
      <3>4. new = Iter(blocks)
        BY <2>3, FormOne, FormEmpty, KeepAll, Forms
      <3>. QED
        BY <3>1, <3>3, <3>4, <1>1, NewForm
    <2>. QED
      BY <2>1, <2>2, <2>3, Forms DEF Is
  <1>. QED
    BY <1>2, SameOperators DEF Abstract!Remove

\* remove_above of the enum is the one of the map.
LEMMA RemoveAboveStep ==
    ASSUME WellFormed, NEW b \in Block, RemoveAbove(b)
    PROVE  Abstract!RemoveAbove(b) /\ WellFormed'
  <1>. DEFINE above == {x \in DOMAIN Iter(blocks) : x > b}
              out == Keep(Iter(blocks), Least(above))
              new == Keep(Iter(blocks), DOMAIN Iter(blocks) \ above)
  <1>1. out \in Maps /\ new \in Maps
    BY Forms, KeepMaps
  <1>2. result' = out /\ Iter(blocks') = new /\ WellFormed'
    <2>1. CASE Is("Many")
      <3>1. result' = out /\ blocks' = DropEmptyMap(Many(new))
        BY <2>1, FormMany, RangeIsAbove DEF RemoveAbove
      <3>. QED
        BY <3>1, <1>1, NewForm
    <2>2. CASE Is("One") /\ blocks.block > b
      <3>1. result' = Iter(blocks) /\ blocks' = Empty
        BY <2>2, FormOne, MaxBlockAssumption DEF RemoveAbove, Block
      <3>2. above = {blocks.block}
        BY <2>2, FormOne
      <3>3. Least(above) = {blocks.block}
        <4>1. blocks.block \in Nat
          BY <2>2, FormOne, MaxBlockAssumption DEF Block
        <4>. QED
          BY <3>2, <4>1, LeastOne, Zenon
      <3>4. out = Iter(blocks) /\ new = NoEntries
        BY <2>2, <3>2, <3>3, FormOne, KeepAll, Forms, EmptyMaps
      <3>. QED
        BY <3>1, <3>4, <1>1, NewForm
    <2>3. CASE Is("Empty") \/ (Is("One") /\ ~ blocks.block > b)
      <3>1. result' = NoEntries /\ blocks' = blocks
        BY <2>3, FormOne, FormEmpty, MaxBlockAssumption DEF RemoveAbove, Block
      <3>2. above = {}
        BY <2>3, FormOne, FormEmpty
      <3>3. out = NoEntries
        BY <3>2, EmptyMaps DEF Least
      <3>4. new = Iter(blocks)
        BY <2>3, <3>2, FormOne, FormEmpty, KeepAll, Forms
      <3>. QED
        BY <3>1, <3>3, <3>4, <1>1, NewForm
    <2>. QED
      BY <2>1, <2>2, <2>3, Forms DEF Is
  <1>. QED
    BY <1>2, SameOperators, Zenon DEF Abstract!RemoveAbove

\* drain_up_to of the enum is the one of the map.
LEMMA DrainUpToStep ==
    ASSUME WellFormed, NEW b \in Block, DrainUpTo(b)
    PROVE  Abstract!DrainUpTo(b) /\ WellFormed'
  <1>. DEFINE above == {x \in DOMAIN Iter(blocks) : x > b}
              out == Keep(Iter(blocks), DOMAIN Iter(blocks) \ above)
              new == Keep(Iter(blocks), above)
  <1>1. out \in Maps /\ new \in Maps
    BY Forms, KeepMaps
  <1>2. result' = out /\ Iter(blocks') = new /\ WellFormed'
    <2>1. CASE Is("Many")
      <3>1. result' = out /\ blocks' = DropEmptyMap(Many(new))
        BY <2>1, FormMany, RangeIsAbove, Zenon DEF DrainUpTo
      <3>. QED
        BY <3>1, <1>1, NewForm
    <2>2. CASE Is("One") /\ ~ blocks.block > b
      <3>1. result' = Iter(blocks) /\ blocks' = Empty
        BY <2>2, FormOne, MaxBlockAssumption DEF DrainUpTo, Block
      <3>2. above = {}
        BY <2>2, FormOne
      <3>3. out = Iter(blocks) /\ new = NoEntries
        BY <2>2, <3>2, FormOne, KeepAll, Forms, EmptyMaps
      <3>. QED
        BY <3>1, <3>3, <1>1, NewForm
    <2>3. CASE Is("Empty") \/ (Is("One") /\ blocks.block > b)
      <3>1. result' = NoEntries /\ blocks' = blocks
        BY <2>3, FormOne, FormEmpty, MaxBlockAssumption DEF DrainUpTo, Block
      <3>2. DOMAIN Iter(blocks) \ above = {} /\ above = DOMAIN Iter(blocks)
        BY <2>3, FormOne, FormEmpty, Zenon
      <3>3. out = NoEntries
        BY <3>2, EmptyMaps
      <3>4. new = Iter(blocks)
        BY <2>3, <3>2, FormOne, FormEmpty, KeepAll, Forms
      <3>. QED
        BY <3>1, <3>3, <3>4, <1>1, NewForm
    <2>. QED
      BY <2>1, <2>2, <2>3, Forms DEF Is
  <1>. QED
    BY <1>2, SameOperators DEF Abstract!DrainUpTo

\* A stored container reads back as the same map: a stutter of the map.
LEMMA RestoreStep ==
    ASSUME WellFormed, Restore
    PROVE  UNCHANGED <<Iter(blocks), result>> /\ WellFormed'
  <1>. DEFINE m == Iter(blocks)
  <1>1. m \in Maps /\ result \in Maps /\ result' = result /\ blocks' = FromMap(m)
    BY Forms DEF Restore, WellFormed
  <1>2. CASE DOMAIN m = {}
    <2>1. blocks' = Empty
      BY <1>1, <1>2 DEF FromMap
    <2>2. m = NoEntries
      BY <1>1, <1>2 DEF Maps, NoEntries
    <2>. QED
      BY <1>1, <2>1, <2>2, NewForm
  <1>3. CASE \E b \in DOMAIN m : DOMAIN m = {b}
    <2>1. PICK b \in DOMAIN m : DOMAIN m = {b}
      BY <1>3
    <2>2. b \in Block /\ m[b] \in Value /\ m = Single(b, m[b])
      BY <1>1, <2>1 DEF Maps, Single
    <2>3. blocks' = One(b, m[b])
      BY <1>1, <2>1 DEF FromMap
    <2>. QED
      BY <1>1, <2>2, <2>3, NewForm
  <1>4. CASE DOMAIN m # {} /\ ~ \E b \in DOMAIN m : DOMAIN m = {b}
    <2>1. blocks' = Many(m)
      BY <1>1, <1>4 DEF FromMap
    <2>. QED
      BY <1>1, <1>4, <2>1, NewForm
  <1>. QED
    BY <1>2, <1>3, <1>4, Zenon

-----------------------------------------------------------------------------
\* Every step of the enum is a step of the map or leaves it as it is.
LEMMA NextStep ==
    ASSUME WellFormed, [Next]_vars
    PROVE  [Abstract!Next]_<<Iter(blocks), result>> /\ WellFormed'
  <1>1. CASE LastBlock
    BY <1>1, LastBlockStep DEF Abstract!Next
  <1>2. CASE Restore
    BY <1>2, RestoreStep
  <1>3. ASSUME NEW b \in Block,
               Get(b) \/ FirstAbove(b) \/ Remove(b) \/ RemoveAbove(b) \/ DrainUpTo(b)
        PROVE  Abstract!Next /\ WellFormed'
    BY <1>3, GetStep, FirstAboveStep, RemoveStep, RemoveAboveStep, DrainUpToStep, SameOperators
       DEF Abstract!Next
  <1>4. ASSUME NEW b \in Block, NEW v \in Value, Insert(b, v) \/ OrInsert(b, v)
        PROVE  Abstract!Next /\ WellFormed'
    BY <1>4, InsertStep, OrInsertStep, SameOperators DEF Abstract!Next
  <1>5. CASE UNCHANGED vars
    BY <1>5 DEF vars, WellFormed
  <1>. QED
    BY <1>1, <1>2, <1>3, <1>4, <1>5 DEF Next

\* The empty enum is the empty map.
LEMMA InitStep ==
    ASSUME Init
    PROVE  Abstract!Init /\ WellFormed
  <1>1. Abstract!Init
    BY IterForms DEF Init, Abstract!Init, Abstract!Keep, NoEntries
  <1>. QED
    BY <1>1, EmptyMaps DEF Init, WellFormed

\* The enum is always one of its three forms, and never an empty map.
THEOREM AlwaysWellFormed == Spec => []WellFormed
  <1>. QED
    BY InitStep, NextStep, PTL DEF Spec

\* The enum implements the map from blocks to values.
THEOREM BlocksImplementMap == Spec => IsBlockMap
  <1>1. Init => Abstract!Init
    BY InitStep
  <1>2. WellFormed /\ [Next]_vars => [Abstract!Next]_<<Iter(blocks), result>>
    BY NextStep
  <1>. QED
    BY <1>1, <1>2, AlwaysWellFormed, PTL DEF Spec, IsBlockMap, Abstract!Spec
-----------------------------------------------------------------------------
(* The merge of change records (change.rs), for one row *)

CONSTANTS Key, Values

VARIABLES base, present, net

Net == INSTANCE NetRecord

\* Two records that follow each other merge into one for both: merge_in_place
\* takes the row from before the first to after the second, and it cancels exactly the
\* Insert and Delete of a row that was absent.
THEOREM MergeComposes ==
    ASSUME NEW a \in Net!Records, NEW b \in Net!Records, NEW s \in Net!Row, NEW t \in Net!Row, NEW u \in Net!Row,
           Net!Fits(a, s, t), Net!Fits(b, t, u)
    PROVE  /\ Net!MergeInPlace(a, b) \in Net!Records
           /\ IF s = {} /\ u = {} THEN Net!IsCancelled(Net!MergeInPlace(a, b))
              ELSE ~ Net!IsCancelled(Net!MergeInPlace(a, b)) /\ Net!Fits(Net!MergeInPlace(a, b), s, u)
<1>1. {} \in Net!Row
    BY DEF Net!Row
<1>2. CASE a.op = "Insert"
    BY <1>1, <1>2, Zenon DEF Net!Fits, Net!MergeInPlace, Net!IsCancelled, Net!Cancelled, Net!Records
<1>3. CASE a.op = "Update"
    BY <1>1, <1>3, Zenon DEF Net!Fits, Net!MergeInPlace, Net!IsCancelled, Net!Cancelled, Net!Records
<1>4. CASE a.op = "Delete"
    BY <1>1, <1>4, Zenon DEF Net!Fits, Net!MergeInPlace, Net!IsCancelled, Net!Cancelled, Net!Records
<1>5. QED
    BY <1>2, <1>3, <1>4 DEF Net!Fits

\* However many records of a row a call pushes, the buffer's record of it is
\* the net change since the last batch, and there is none exactly when
\* nothing changed in between or the records cancelled out.
THEOREM BufferHoldsNetChange == Net!Spec => []Net!NetIsChange
<1>1. Net!Init => Net!NetIsChange
    BY DEF Net!Init, Net!NetIsChange, Net!Row
<1>2. Net!NetIsChange /\ [Net!Next]_Net!vars => Net!NetIsChange'
    <2> SUFFICES ASSUME Net!NetIsChange, [Net!Next]_Net!vars
                 PROVE  Net!NetIsChange'
        OBVIOUS
    <2>1. CASE Net!Flush
        BY <2>1 DEF Net!Flush, Net!NetIsChange
    <2>2. CASE Net!Reopen
        BY <2>2 DEF Net!Reopen, Net!NetIsChange
    <2>3. ASSUME NEW r \in Net!Records, Net!Push(r)
          PROVE  Net!NetIsChange'
        <3>1. CASE net = {}
            BY <2>3, <3>1 DEF Net!Push, Net!Merged, Net!NetIsChange
        <3>2. CASE net # {}
            <4>1. PICK q \in Net!Records : net = {q} /\ Net!Fits(q, base, present)
                BY <3>2 DEF Net!NetIsChange
            <4> DEFINE m == Net!MergeInPlace(q, r)
            <4>2. /\ m \in Net!Records
                  /\ IF base = {} /\ present' = {} THEN Net!IsCancelled(m)
                     ELSE ~ Net!IsCancelled(m) /\ Net!Fits(m, base, present')
                BY <4>1, <2>3, MergeComposes DEF Net!Push, Net!NetIsChange
            <4>3. net' = {x \in {m} : ~ Net!IsCancelled(x)}
                BY <4>1, <2>3 DEF Net!Push, Net!Merged
            <4> HIDE DEF m
            <4>4. QED
                BY <4>2, <4>3, <2>3 DEF Net!Push, Net!NetIsChange
        <3>3. QED
            BY <3>1, <3>2
    <2>4. CASE UNCHANGED Net!vars
        BY <2>4 DEF Net!vars, Net!NetIsChange
    <2>5. QED
        BY <2>1, <2>2, <2>3, <2>4 DEF Net!Next
<1>3. QED
    BY <1>1, <1>2, PTL DEF Net!Spec
=============================================================================
