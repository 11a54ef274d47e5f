CONSTANTS
  t1 = t1
  t2 = t2
  s1 = s1
  Tasks = {t1, t2}
  Sessions = {s1}
  SessionOf <- MCSessionOf
  CodexTasks = {t1}
  TrackedTasks = {t1}
  MaxConcurrentTurns = 2
  MaxRare = 1
SPECIFICATION FairSpec
INVARIANTS DoneOwesNothing StopProcessedFirst OneVerdict
PROPERTIES ChangeSetBeforeVerdict EveryDispatchReturns EveryTurnIsOver
CHECK_DEADLOCK FALSE
