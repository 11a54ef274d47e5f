SPECIFICATION FairSpec
CONSTANTS
  Me = me
  other = other
  Turns <- MeAndOther
  Ids = {a}
  MaxEvents = 4
INVARIANTS ReplyIsSaid CompletedAsStreamed StreamIsEnded LoneTurnCleansUp
PROPERTIES ImplementsRunner StoppedTurnReturns
CHECK_DEADLOCK FALSE
