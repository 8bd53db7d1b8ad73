CONSTANTS
  Names = {n1, n2}
  INODE_NUM = 2
  BLOCK_NUM = 12
  DENTRY_NUM_PER_BLOCK = 6
  MAX_DIRECT_NUM = 3
  BLOCK_SIZE = 2
  MAX_FILE_DESCRIPTOR_NUM = 2
  Tasks = {t1}
  Workloads <- Files
  Makes <- Here
  Removes <- Here
  Visits <- Up
  Sources = {}
  Lengths = {1, 2}
  Documented = TRUE
  MaxFnum = 1
  MaxReused = 2
  MaxData = 3
  MaxLosses = 1
SPECIFICATION Spec
SYMMETRY NameSymmetry
INVARIANTS LiveIsMarked ReadsWhatWasWritten
CHECK_DEADLOCK FALSE
