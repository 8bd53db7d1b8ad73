------------------------------- MODULE Sched -------------------------------
(***************************************************************************)
(* The task table, the queues and the scheduler of the kernel              *)
(* (kernel/sched/sched.c, kernel/sched/queue.c, kernel/sched/time.c).      *)
(*                                                                         *)
(* The machine has one CPU.  Every exception is entered with interrupts    *)
(* closed (entry.S, exception_handler_entry) and they stay closed until    *)
(* the return to user code, so a handler runs without interference up to   *)
(* the point where it calls do_scheduler.  A handler is therefore one      *)
(* action, and the part of it that runs after do_scheduler has come back   *)
(* is another one (module Sync, variable resume).                          *)
(*                                                                         *)
(* A queue_t is a list threaded through the prev and next fields of the    *)
(* pcbs.  Here it is the sequence of the slots it holds.  Module Queue     *)
(* shows that queue.c implements these sequences as long as a pcb is in    *)
(* at most one list, and invariant Placed of module Kernel that it is.     *)
(***************************************************************************)
EXTENDS Integers, Sequences, FiniteSets, Functions

CONSTANTS
  NUM_MAX_TASK,      \* the number of slots of pcb[]
  INITIAL_PRIORITY,  \* the priority of a new task
  Mutex, Semaphore, Condition, Barrier,  \* the synchronisation objects; each
                                         \* has one queue and names it here
  ready_queue, sleeping_queue, recv_block_queue,  \* the kernel's own queues
  NULL,              \* the null pointer
  MinPriority,       \* bound: no task is switched out below this priority
  MaxTime            \* bound: the clock stops here

Slot == 0 .. NUM_MAX_TASK - 1

\* The queues in which a BLOCKED task can be; a slot names the waiting_queue
\* of its pcb, where do_waitpid puts the tasks that wait for it.
WaitQueue ==
  Mutex \cup Semaphore \cup Condition \cup Barrier \cup Slot
    \cup {recv_block_queue}

Queue == WaitQueue \cup {ready_queue, sleeping_queue}

ASSUME NumAssumption ==
  /\ NUM_MAX_TASK \in Nat \ {0, 1}
  /\ INITIAL_PRIORITY \in Int
  /\ MinPriority \in Int
  /\ MaxTime \in Nat

\* The objects are different objects, and none of them is a null pointer.
ASSUME ObjectAssumption ==
  /\ ready_queue # sleeping_queue
  /\ ready_queue \notin WaitQueue
  /\ sleeping_queue \notin WaitQueue
  /\ recv_block_queue \notin Mutex \cup Semaphore \cup Condition \cup Barrier
                                \cup Slot
  /\ Mutex \cap (Semaphore \cup Condition \cup Barrier \cup Slot) = {}
  /\ Semaphore \cap (Condition \cup Barrier \cup Slot) = {}
  /\ Condition \cap (Barrier \cup Slot) = {}
  /\ Barrier \cap Slot = {}
  /\ NULL \notin Mutex

VARIABLES
  current_running,    \* the slot of the task that has the CPU
  status,             \* pcb[i].status
  priority,           \* pcb[i].priority
  sleeping_deadline,  \* pcb[i].sleeping_deadline
  queue,              \* the contents of every queue_t
  timer,              \* get_timer()
  machine             \* up, or stopped inside scheduler() for ever

schedVars == <<current_running, status, priority, sleeping_deadline, queue,
               timer, machine>>

Status == {"BLOCKED", "RUNNING", "READY", "EXITED", "CREATED", "SLEEPING"}

-----------------------------------------------------------------------------
(***************************************************************************)
(* A handler changes the status fields and the queues step by step and     *)
(* then returns or calls do_scheduler.  Its intermediate states are        *)
(* records k of the two; Now is the one it starts from.                    *)
(***************************************************************************)
Now == [status |-> status, queue |-> queue]

queue_init(k, q) ==
  [k EXCEPT !.queue = [r \in Queue |-> IF r = q THEN <<>> ELSE k.queue[r]]]

queue_push(k, q, p) ==
  [k EXCEPT !.queue = [r \in Queue |-> IF r = q THEN Append(k.queue[q], p)
                                       ELSE k.queue[r]]]

\* The sequence s without its element at position i.
RemoveAt(s, i) == [j \in 1 .. Len(s) - 1 |-> IF j < i THEN s[j] ELSE s[j + 1]]

\* The item at position i leaves queue q.
queue_remove(k, q, i) ==
  [k EXCEPT !.queue = [r \in Queue |-> IF r = q THEN RemoveAt(k.queue[q], i)
                                       ELSE k.queue[r]]]

SetStatus(k, p, st) ==
  [k EXCEPT !.status = [x \in Slot |-> IF x = p THEN st ELSE k.status[x]]]

\* The task at position i of queue q is made ready.
MakeReady(k, q, i) ==
  LET p == k.queue[q][i]
  IN  queue_push(SetStatus(queue_remove(k, q, i), p, "READY"), ready_queue, p)

\* Mutant: only the task at the head is made ready.
clear_waiting_queue_head(k, q) ==
  IF k.queue[q] = <<>> THEN k ELSE MakeReady(k, q, 1)

\* Every task of queue q is made ready, in the order of the queue.
clear_waiting_queue(k, q) ==
  [status |-> [p \in Slot |-> IF p \in Range(k.queue[q])
                              THEN "READY" ELSE k.status[p]],
   queue  |-> [r \in Queue |-> CASE r = q -> <<>>
                                 [] r = ready_queue -> k.queue[r] \o k.queue[q]
                                 [] OTHER -> k.queue[r]]]

\* The current task gives up the CPU and waits in queue q.
Block(k, q) ==
  queue_push(SetStatus(k, current_running, "BLOCKED"), q, current_running)

\* Where the loop over a queue that scheduler and do_unblock_one share stops:
\* at the first task whose successor does not have a higher priority.
FirstPeak(s, i) ==
  /\ \A j \in 1 .. i - 1 : priority[s[j]] < priority[s[j + 1]]
  /\ i < Len(s) => priority[s[i]] >= priority[s[i + 1]]

\* do_unblock_all empties a queue by repeating do_unblock_one.  The task at
\* position i of s leaves before the one at position j if it is in front of
\* it and some task up to j has a priority that is not higher, or if it is
\* behind it and all the tasks from j on to i have higher priorities.
LeavesBefore(s, i, j) ==
  \/ i < j /\ \E m \in i + 1 .. j : priority[s[m]] <= priority[s[i]]
  \/ j < i /\ \A m \in j + 1 .. i : priority[s[m]] > priority[s[j]]

-----------------------------------------------------------------------------
\* The handler returns to the task that called it.
Return(k) ==
  /\ status' = k.status
  /\ queue' = k.queue
  /\ UNCHANGED <<current_running, priority, machine>>

\* The second half of scheduler(): choose a ready task and switch to it.  With
\* no ready task, scheduler() waits for a sleeper in a loop in which the
\* clock cannot advance (interrupts are closed), or, with no sleeper either,
\* leaves the loop and removes the null pointer from the queue.
SwitchTask(k) ==
  \/ \E i \in DOMAIN k.queue[ready_queue] :
       LET next == k.queue[ready_queue][i]
       IN  /\ FirstPeak(k.queue[ready_queue], i)
           /\ priority[current_running] > MinPriority
           /\ priority' = [priority EXCEPT ![current_running] = @ - 1]
           /\ current_running' = next
           /\ status' = SetStatus(k, next, "RUNNING").status
           /\ queue' = queue_remove(k, ready_queue, i).queue
           /\ UNCHANGED machine
  \/ /\ k.queue[ready_queue] = <<>>
     /\ machine' = IF k.queue[sleeping_queue] = <<>> THEN "crashed" ELSE "hung"
     /\ status' = k.status
     /\ queue' = k.queue
     /\ UNCHANGED <<current_running, priority>>

\* The sleeper at position i may wake up: its deadline has passed.
Due(k, i) == sleeping_deadline'[k.queue[sleeping_queue][i]] < timer'

\* scheduler(): the task goes back to the ready queue if it is still running,
\* check_sleeping wakes the first sleeper that is due, and only that one, and
\* the CPU goes to a ready task.  The clock and the deadlines are the ones the
\* handler leaves.
scheduler(k) ==
  LET k1 == IF k.status[current_running] = "RUNNING"
            THEN queue_push(SetStatus(k, current_running, "READY"),
                            ready_queue, current_running)
            ELSE k
      sleepers == DOMAIN k1.queue[sleeping_queue]
  IN  \/ /\ \A i \in sleepers : ~Due(k1, i)
         /\ SwitchTask(k1)
      \/ \E i \in sleepers :
           /\ Due(k1, i)
           /\ \A j \in 1 .. i - 1 : ~Due(k1, j)
           /\ SwitchTask(MakeReady(k1, sleeping_queue, i))

=============================================================================
