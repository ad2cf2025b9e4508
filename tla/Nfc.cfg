\* A board on a serial port or at an OTG cable, late, silent or in pieces, and a
\* card that fails in every way.
CONSTANTS
  Ports <- BothPorts
  FileLens <- Lens
  CardFaults <- AllFaults
  MaxSessions <- Sessions
  MaxRequests <- Requested
  MaxUnread = 3
SPECIFICATION FairSpec
INVARIANTS TypeOK AnswerOwn InsideBuffer
PROPERTIES RequestEnds ImplementsFileRead
CHECK_DEADLOCK FALSE  \* the bounds end every behaviour
