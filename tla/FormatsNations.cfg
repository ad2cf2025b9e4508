SPECIFICATION Spec
CONSTANTS
  Serials <- MCSerials
  MaxSets = 3
  Cards <- MCCards
  Beyonds <- MCBeyonds
  CardKeys <- MCCardKeys
  Blocks <- MCBlocks
  Commands <- MCCommands
  Answers <- MCAnswers
  WrongBytes <- MCWrongBytes
  Parts <- MCParts
  Speeds <- MCSpeeds
  Boards <- MCBoards
INVARIANT
  NationNamed
CHECK_DEADLOCK FALSE
