SPECIFICATION Spec
CONSTANTS
  ContextLines = 0
  Gitignore = Gitignore
  Dir = Dir
  Absent = Absent
  Binary = Binary
  text = text
  d = d
  x = x
  secret = secret
  a = a
  b = b
  Order <- InOrder
  Above <- DirsOf
  Versions <- MCVersions
  Repos <- MCRepos
  Staged <- OneStaged
  MaxTouched = 2
INVARIANTS RollbackRestores UntouchedIsKept DiscardAllIsRollback DiffIsExact
CHECK_DEADLOCK FALSE
