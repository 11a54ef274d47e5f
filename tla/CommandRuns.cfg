CONSTANTS
  c1 = c1
  c2 = c2
  t1 = t1
  s1 = s1
  safe = safe
  risky = risky
  Calls = {c1, c2}
  Tasks = {t1}
  Sessions = {s1}
  Commands = {safe, risky}
  TaskOf <- MCTaskOf
  SessionOf <- MCSessionOf
  CommandOf <- MCCommandOf
  ModeOf <- MCModeOf
  AutoApproved = {safe}
  Deadlined = {c1}
  MaxBackground = 1
  NoCall = NoCall
SPECIFICATION FairSpec
INVARIANTS LiveCommandIsReachable OneFinishPerCommand RiskyRunsAreAnswered
PROPERTIES EveryCallReturns StopIsEffective
CHECK_DEADLOCK FALSE
