\* Every combination of what a phone and a card may do, and the code's retries.
CONSTANTS
  Worlds <- AllWorlds
  RETRY_TIME = 3
  MaxCalls = 2
SPECIFICATION FairSpec
INVARIANTS TypeOK NoCallWhilePending NearlyWhole
PROPERTIES CallReturns ImplementsFileRead
CHECK_DEADLOCK FALSE  \* MaxCalls ends every behaviour
