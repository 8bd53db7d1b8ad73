CONSTANTS
  NUM_MAX_TASK = 3
  INITIAL_PRIORITY = 4
  MinPriority = 1
  MaxTime = 0
  MaxPid = 3
  SleepTimes = {0}
  LOCK_MAX_NUM = 2
  MaxSem = 0
  MaxGoal = 1
  Mutex = {m1}
  LockTable = {m1}
  Semaphore = {}
  Condition = {}
  Barrier = {}
  ready_queue = ready_queue
  sleeping_queue = sleeping_queue
  recv_block_queue = recv_block_queue
  NULL = NULL
  KillAnywhere = FALSE
  Calls = {"spawn", "exit", "acquire", "release"}
SPECIFICATION Spec
INVARIANT MutualExclusion
CHECK_DEADLOCK FALSE
