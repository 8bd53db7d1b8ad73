CONSTANTS
  Files = {f1, f2}
  FIRST_POINTER = 1
  POINTER_PER_BLOCK = 2
  BLOCK_NUM = 18
  MaxBlocks = 8
  MaxReleases = 1
SPECIFICATION Spec
INVARIANTS GetFindsWritten 
PROPERTY ReleaseGivesBack
CHECK_DEADLOCK FALSE
