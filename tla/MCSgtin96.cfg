SPECIFICATION Spec
CONSTANTS
  Tags <- TestTags
  MaxErrors = 1
INVARIANTS
  AgreesWithTests
  RoundTrip
  GtinIsValid
  RefusesExactly
PROPERTIES
  BitErrorsTell
\* The instance stops at MaxErrors.
CHECK_DEADLOCK FALSE
