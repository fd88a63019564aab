SPECIFICATION Spec
CONSTANTS
  p1 = p1
  p2 = p2
  p3 = p3
  nil = nil
  ProductIds <- ThreeProducts
  Known <- TwoKnown
  NoData <- nil
  BatchSizes = {3}
  SendNotWhitelistedAlert = TRUE
  MaxItems = 5
INVARIANT EveryNoticeChecked
CHECK_DEADLOCK FALSE
