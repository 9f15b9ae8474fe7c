SPECIFICATION AllSpec
CONSTANTS
  MaxBlock = 3
  Value = {v1, v2}
  Null = Null
INVARIANTS MatchesRows
PROPERTIES IsBlockMap
