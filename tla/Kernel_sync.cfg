CONSTANTS
  NUM_MAX_TASK = 3
  INITIAL_PRIORITY = 3
  MinPriority = 1
  MaxTime = 0
  MaxPid = 3
  SleepTimes = {0}
  LOCK_MAX_NUM = 2
  MaxSem = 1
  MaxGoal = 3
  Mutex = {m1}
  LockTable = {m1}
  Semaphore = {s1}
  Condition = {c1}
  Barrier = {b1}
  ready_queue = ready_queue
  sleeping_queue = sleeping_queue
  recv_block_queue = recv_block_queue
  NULL = NULL
  KillAnywhere = FALSE
  Calls = {"spawn", "mutex_init", "acquire", "release", "cond_wait", "signal", "broadcast", "sem_init", "up", "down", "barrier_init", "barrier_wait"}
SPECIFICATION Spec
INVARIANTS MutualExclusion NoWaiterOnToken
PROPERTY BarrierOpensForAll
CHECK_DEADLOCK FALSE
