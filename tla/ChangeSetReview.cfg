SPECIFICATION FairSpec
CONSTANTS
  MaxTurns = 2
  MaxCrashes = 1
  Decisions = {"keep", "rollback", "selective", "other"}
CHECK_DEADLOCK FALSE
INVARIANTS
  RunningSnapshotWhole
  RestoreFromWholeSnapshot
  SnapshotNotLeaked
PROPERTIES
  SlotSpec
  SnapshotsReclaimed
