SPECIFICATION SuiteSpec
CONSTANTS
  MaxBlock = 3
  Hash = {"a", "b", "c"}
  Views <- ForkedViews
  Chains <- TipChains
  Loads <- AllLoads
  Interval = 2
  DeferAllowed = TRUE
  Retention = 0
  MaxPending = 1
  External = FALSE
  AttachFirst = FALSE
  CompleteChains = TRUE
INVARIANTS
  WatermarkOrder DerivedState Recoverable ReopenTransparent UndoRestores HeldIsCanonical SettingsHold
PROPERTIES FinalBlocksStay FinalHashStays
