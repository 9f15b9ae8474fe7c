SPECIFICATION Spec
CONSTANTS
  Null = Null
  NoTime = NoTime
INVARIANTS TargetIsRecomputed RecordsSound GroupsFound StoredAsOfDurable
