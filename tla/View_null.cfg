SPECIFICATION NullSpec
CONSTANTS
  Null = Null
  NoTime = NoTime
INVARIANTS RecordsSound
