CONSTANTS
  NUM_MAX_TASK = 3
  INITIAL_PRIORITY = 2
  MinPriority = 1
  MaxTime = 1
  MaxPid = 4
  SleepTimes = {0}
  LOCK_MAX_NUM = 1
  MaxSem = 0
  MaxGoal = 1
  Mutex = {m1}
  LockTable = {m1}
  Semaphore = {}
  Condition = {}
  Barrier = {}
  ready_queue = ready_queue
  sleeping_queue = sleeping_queue
  recv_block_queue = recv_block_queue
  NULL = NULL
  KillAnywhere = FALSE
  Calls = {"sleep", "spawn", "exit", "waitpid", "kill", "wait_recv", "acquire", "release"}
SPECIFICATION Spec
INVARIANTS Placed NoWaiterOnDead NoWaiterOnFreeMutex
PROPERTIES DeadStaysDead WaitpidUntilGone
CHECK_DEADLOCK FALSE
