CONSTANTS
  t1 = t1
  t2 = t2
  Tasks = {t1, t2}
  MaxCrashes = 1
SPECIFICATION RecoveryFairSpec
PROPERTIES FirstTrySparesLiveTasks StaleTasksAreRecovered
CHECK_DEADLOCK FALSE
