SPECIFICATION Spec
CONSTANTS
  KeyBase = 4
  Width = 2
  Names <- SomeNames
  GroupKeys <- SomeGroupKeys
  KeyNumbers <- SomeKeyNumbers
  MapKeys <- SomeMapKeys
  JournalName <- JournalAt
  MaxKeys = 3
  Base = 16
  WordBytes = 2
  WideBytes = 3
  CountBytes = 2
  ColumnBytes = 1
  JsonText <- Documents
  Values <- SomeValues
  RowValues <- KeyValues
  Columns <- TwoColumns
  MaxValues = 2
  MaxRows = 2
  IndexBytes = 1
  Texts <- SomeTexts
  Blobs <- SomeBlobs
  Numbers <- SomeNumbers
  Indices <- SomeIndices
  MaxOps = 2
  Schemas <- AllSchemas
  Added <- AddedReducers
  Stores <- AllStores
  MaxCalls = 3
  MaxPending = 2
INVARIANTS BackendsAgree FormatsReadBack DamageRefused LayoutsGuardData AllowedChangesOpen
