SPECIFICATION Spec
CONSTANTS
  Hash <- OneBucket
  RawKeys = {"r1", "r2"}
  ViewKeys = {"v1"}
  Values = {1, 2}
  MaxRecords = 5
  MaxSequence = 1
  Inputs <- Forms
  MaxBlock = 3
  MaxPending = 2
INVARIANTS BatchIsNet HostHasChain
PROPERTY ImplementsNetRecord
