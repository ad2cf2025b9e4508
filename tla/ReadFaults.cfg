\* In every world: nothing, one kind of thing, everything goes wrong.
\* Two calls, so that one starts from what another left behind.
CONSTANTS
  MaxReads = 2
  Worlds <- AllWorlds
SPECIFICATION FairSpec
INVARIANTS TypeOK GivenBack ResultContract OneSession InStep
PROPERTIES ReadReturns ReadService
