\* Every kind of device, configured in any order; the board is plugged in
\* and out, or silent.
CONSTANTS
  Types <- AllTypes
  Named <- Either
  Faults <- Failing
  MaxCalls = 4
  MaxPlugs = 2
SPECIFICATION Spec
INVARIANTS TypeOK GivenBack OwnGlobals OwnSpeed ProductFound
CHECK_DEADLOCK FALSE  \* the bounds end every behaviour
