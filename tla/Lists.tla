------------------------------- MODULE Lists -------------------------------
(***************************************************************************)
(* What the kernel takes the lists of kernel/sched/queue.c for: sequences  *)
(* of slots, one for each queue.  The operations are the ones modules      *)
(* Sched and Sync use in the handlers, so that an implementation of this   *)
(* specification justifies them.  The handlers also set the status of a    *)
(* task; here only the queues count.                                       *)
(***************************************************************************)
EXTENDS Integers, Sequences

CONSTANTS
  NUM_MAX_TASK,
  Client,  \* the queues the operations are called on
  Mutex,   \* the ones of them that do_unblock_all is called on
  ready_queue, sleeping_queue, recv_block_queue, NULL, Priority

VARIABLES queue, priority, call

K == INSTANCE Sync
  WITH Semaphore <- {}, Condition <- {}, Barrier <- {}, INITIAL_PRIORITY <- 0,
       MinPriority <- 0, MaxTime <- 0, LOCK_MAX_NUM <- 1, MaxSem <- 0,
       MaxGoal <- 1, current_running <- 0,
       status <- [p \in 0 .. NUM_MAX_TASK - 1 |-> "READY"],
       sleeping_deadline <- [p \in 0 .. NUM_MAX_TASK - 1 |-> 0], timer <- 0,
       machine <- "up", lock_status <- [l \in Mutex |-> "LOCKED"],
       lock <- [p \in 0 .. NUM_MAX_TASK - 1 |-> [i \in {0} |-> NULL]],
       sem_value <- <<>>, max_num <- <<>>, not_arrive_num <- <<>>,
       resume <- [p \in 0 .. NUM_MAX_TASK - 1 |-> NULL],
       holds <- [p \in 0 .. NUM_MAX_TASK - 1 |-> {}]

Init ==
  /\ queue = [q \in K!Queue |-> <<>>]
  /\ priority \in [K!Slot -> Priority]
  /\ call = "init"

Free(p) == \A q \in Client : p \notin K!Range(queue[q])

Call(name, k) == call' = name /\ queue' = k.queue /\ UNCHANGED priority

Next ==
  \E q \in Client :
    \/ \E p \in K!Slot :
         /\ Free(p)
         /\ \/ Call("push", K!queue_push(K!Now, q, p))
            \/ Call("enqueue",
                    [K!Now EXCEPT !.queue = [queue EXCEPT ![q] = <<p>> \o @]])
    \/ \E i \in DOMAIN queue[q] : Call("remove", K!queue_remove(K!Now, q, i))
    \/ queue[q] # <<>> /\ Call("dequeue", K!queue_remove(K!Now, q, 1))
    \/ q # ready_queue /\ Call("clear", K!clear_waiting_queue(K!Now, q))
    \/ /\ q # ready_queue
       /\ \/ queue[q] = <<>> /\ Call("unblock_one", K!Now)
          \/ \E i \in DOMAIN queue[q] :
               /\ K!FirstPeak(queue[q], i)
               /\ Call("unblock_one", K!MakeReady(K!Now, q, i))
    \/ /\ q \in Mutex
       /\ \E s \in K!WakeOrders(K!Now, <<q>>) :
            Call("unblock_all", K!WakeWaiters(K!Now, <<q>>, s))

Spec == Init /\ [][Next]_<<queue, priority, call>>

=============================================================================
