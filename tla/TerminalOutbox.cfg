CONSTANTS
  e1 = e1
  e2 = e2
  e3 = e3
  Events = {e1, e2, e3}
  LongEvents = {e3}
  TerminalAttempts = 2
  MaxFaults = 3
  MaxTorn = 1
SPECIFICATION FairSpec
INVARIANTS DuplicatesAccounted
PROPERTIES DeliverySpec QueuedIsDelivered
CHECK_DEADLOCK FALSE
