------------------------------ MODULE BlockMap ------------------------------
(***************************************************************************)
(* What the container of per-block data promises to the aggregates and the *)
(* reducer groups: a map from blocks to values.  `result` holds the        *)
(* entries that the last operation handed back, in block order.            *)
(***************************************************************************)
EXTENDS Naturals

CONSTANTS MaxBlock, \* u64::MAX
          Value

VARIABLES values, \* the map, a function on the blocks that have a value
          result

Block == 0 .. MaxBlock

Keep(m, S) == [x \in DOMAIN m \cap S |-> m[x]]

Put(m, b, v) == [x \in DOMAIN m \cup {b} |-> IF x = b THEN v ELSE m[x]]

Above(m, b) == {x \in DOMAIN m : x > b}

Lowest(S) == {x \in S : \A y \in S : x <= y}

Highest(S) == {x \in S : \A y \in S : y <= x}

Init == values = Keep([x \in {} |-> x], {}) /\ result = values

Reads(S) == result' = Keep(values, S) /\ values' = values

Get(b) == Reads({b})

LastBlock == Reads(Highest(DOMAIN values))

FirstAbove(b) == Reads(Lowest(Above(values, b)))

Insert(b, v) ==
    /\ values' = Put(values, b, v)
    /\ result' = Keep(values, {})

OrInsert(b, v) ==
    /\ values' = IF b \in DOMAIN values THEN values ELSE Put(values, b, v)
    /\ result' = Keep(values', {b})

Remove(b) ==
    /\ result' = Keep(values, {b})
    /\ values' = Keep(values, DOMAIN values \ {b})

RemoveAbove(b) ==
    /\ result' = Keep(values, Lowest(Above(values, b)))
    /\ values' = Keep(values, DOMAIN values \ Above(values, b))

DrainUpTo(b) ==
    /\ result' = Keep(values, DOMAIN values \ Above(values, b))
    /\ values' = Keep(values, Above(values, b))

Next ==
    \/ LastBlock
    \/ \E b \in Block :
        \/ Get(b) \/ FirstAbove(b) \/ Remove(b) \/ RemoveAbove(b) \/ DrainUpTo(b)
        \/ \E v \in Value : Insert(b, v) \/ OrInsert(b, v)

Spec == Init /\ [][Next]_<<values, result>>
=============================================================================
