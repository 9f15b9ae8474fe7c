SPECIFICATION Spec
CONSTANTS
  MaxSafeInteger = 15
  Word = 32
  Fields <- StateFields
  MapFields <- MapNames
  RowBlocks <- AllBlocks
  Updates <- AllUpdates
  EmitLists <- AllEmits
  MaxBlocks = 2
  Heads <- AllHeads
  Names <- TableNames
  Records <- AllRecords
  PerfTrees <- AllPerf
  MaxTables = 2
  MaxRecords = 2
  Tables <- BothTables
  Inputs <- AllInputs
  MaxIngests = 3
  ia = ia
  ib = ib
  ic = ic
  Instances <- All
  ReducerId <- OwnNames
  InSchema <- Declared
  Keys <- TwoKeys
  GroupLists <- BlocksOfTwo
  MaxPending = 2
  MaxCalls = 3
INVARIANTS BodySees ResultsLand CrossingsArrive MapsStayApart AttachedCodeRuns
