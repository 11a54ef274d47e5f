SPECIFICATION PolicySpec
CONSTANTS
  Texts <- AllTexts
  SimpleCommands <- AllCommands
  MaxSteps = 2
INVARIANTS DecidedByParts
PROPERTIES DenyIsSticky
CHECK_DEADLOCK FALSE
