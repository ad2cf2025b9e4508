\* A card that refuses to select a file.
CONSTANTS
  RETRY_TIME = 1
  MaxReads = 1
  Worlds <- OnlyCard
SPECIFICATION Spec
INVARIANTS FilesAsNamed
