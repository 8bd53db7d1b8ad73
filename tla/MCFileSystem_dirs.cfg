CONSTANTS
  Names = {n1, n2}
  INODE_NUM = 4
  BLOCK_NUM = 9
  DENTRY_NUM_PER_BLOCK = 6
  MAX_DIRECT_NUM = 2
  BLOCK_SIZE = 1
  MAX_FILE_DESCRIPTOR_NUM = 1
  Tasks = {}
  Workloads <- Directories
  Makes <- Here
  Removes <- Here
  Visits <- Up
  Sources <- Here
  Lengths = {1}
  Documented = TRUE
  MaxFnum = 3
  MaxReused = 3
  MaxData = 0
  MaxLosses = 2
SPECIFICATION Spec
SYMMETRY NameSymmetry
INVARIANTS LiveIsMarked BlocksAccounted EntriesAreFound BuffersAreCurrent LinksAreCounted LsFollowsLink
PROPERTY OnlyItsEntry
