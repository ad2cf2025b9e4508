\* A card whose photo cannot be decoded.
CONSTANTS
  Servers <- OneServer
  Faults <- NoPhoto
  MaxTaps = 2
  MaxEvents = 0
SPECIFICATION Spec
INVARIANTS PhotoOrError
CHECK_DEADLOCK FALSE  \* the user may do nothing any more
