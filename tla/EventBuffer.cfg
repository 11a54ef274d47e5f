CONSTANTS
  MaxChunks = 3
  MaxItems = 2
  FullAt = 2
SPECIFICATION FairSpec
INVARIANTS NothingStranded ChunksAccountedFor CompletedIsFlushed
CHECK_DEADLOCK FALSE
