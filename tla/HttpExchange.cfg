\* Two addresses, contents below, at and beyond the limit.
SPECIFICATION Spec
CONSTANTS
  Timeout = 2
  Addresses = 2
  Writes = 2
  Pieces = 2
  Limit = 2
  Sizes <- MCSizes
INVARIANT FramedBodyWhole
INVARIANT SuccessInTime
INVARIANT ReadingBounded
CHECK_DEADLOCK FALSE
