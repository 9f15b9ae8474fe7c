SPECIFICATION SuiteSpec
CONSTANTS
  MaxBlock = 2
  Hash = {"a", "b", "c"}
  Views <- LateForkViews
  Chains <- TipChains
  Loads <- AllLoads
  Interval = 2
  DeferAllowed = TRUE
  Retention = 0
  MaxPending = 1
  External = TRUE
  AttachFirst = FALSE
  CompleteChains = FALSE
INVARIANTS DerivedState
