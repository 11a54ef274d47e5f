SPECIFICATION FairSpec
CONSTANTS
  look = look
  change = change
  risky = risky
  NoCommand = NoCommand
  Commands <- Three
  Risk <- RiskOf
  MaxMessages = 5
INVARIANTS GrantedByUser
PROPERTIES DenialStopsEdits ImplementsRunner StoppedTurnReturns
CHECK_DEADLOCK FALSE
