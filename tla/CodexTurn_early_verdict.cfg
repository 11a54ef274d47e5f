SPECIFICATION FairSpec
CONSTANTS
  look = look
  change = change
  risky = risky
  NoCommand = NoCommand
  Commands <- Three
  Risk <- RiskOf
  MaxMessages = 2
PROPERTIES VerdictEndsTurn
CHECK_DEADLOCK FALSE
