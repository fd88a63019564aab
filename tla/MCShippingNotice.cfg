SPECIFICATION FairSpec
CONSTANTS
  p1 = p1
  p2 = p2
  p3 = p3
  nil = nil
  ProductIds <- ThreeProducts
  Known <- TwoKnown
  NoData <- nil
  BatchSizes <- SomeBatchSizes
  SendNotWhitelistedAlert = TRUE
  MaxItems = 5
INVARIANTS TypeOK UnknownNeverPasses NoFalseAlarm EveryProductAsked
  UncheckedWithoutBatches
PROPERTIES Returns ComesNearerToItsEnd ImplementsCheck
CHECK_DEADLOCK FALSE
