\* Three taps while reads run, the screen turns, settings change and the
\* process is killed.
CONSTANTS
  Servers <- FourServers
  Faults <- Everything
  MaxTaps = 3
  MaxEvents = 2
SPECIFICATION FairSpec
INVARIANTS TypeOK LatestShown LatestServer EndsOnlyFor
PROPERTIES ReadingEnds
CHECK_DEADLOCK FALSE  \* the user may do nothing any more
