\* A search for a board after one was given by Android.
CONSTANTS
  Types <- OtgTypes
  Named <- Either
  Faults <- Nothing
  MaxCalls = 3
  MaxPlugs = 0
SPECIFICATION Spec
INVARIANTS CheckGivesBack
CHECK_DEADLOCK FALSE  \* the bounds end every behaviour
