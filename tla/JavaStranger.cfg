\* Another service listens at the configured address.
CONSTANTS
  RETRY_TIME = 3
  MaxReads = 1
  Worlds <- OnlyStranger
SPECIFICATION Spec
INVARIANTS StrangerRefused
