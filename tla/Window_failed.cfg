SPECIFICATION FailingSpec
CONSTANTS
  Null = Null
  NoTime = NoTime
INVARIANTS RecordsSound
