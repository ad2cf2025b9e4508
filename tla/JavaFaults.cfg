\* In every world: nothing, one kind of thing, everything goes wrong.
\* Two reads, so that a read starts from what a failed or a successful one
\* left behind.
CONSTANTS
  RETRY_TIME = 3
  MaxReads = 2
  Worlds <- AllWorlds
SPECIFICATION FairSpec
INVARIANTS TypeOK SocketsBalanced JniContract OneSession InStep CodeNamesCause
PROPERTIES ReadReturns ReadService
