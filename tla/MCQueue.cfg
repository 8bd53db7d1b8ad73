CONSTANTS
  NUM_MAX_TASK = 4
  Item = {0, 1, 2, 3}
  Queues = {m1, ready_queue}
  Mutex = {m1}
  ready_queue = ready_queue
  sleeping_queue = sleeping_queue
  recv_block_queue = recv_block_queue
  NULL = NULL
  Priority = {1, 2, 3}
SPECIFICATION MCSpec
PROPERTY ImplementsLists
