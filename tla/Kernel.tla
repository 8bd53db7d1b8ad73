------------------------------- MODULE Kernel -------------------------------
(***************************************************************************)
(* The kernel: the system calls on tasks of kernel/sched/sched.c, the      *)
(* timer interrupt of arch/mips/kernel/entry.S and, from module Sync, the  *)
(* synchronisation primitives.  The programs are arbitrary: the current    *)
(* task may make any call of Calls with any argument.                      *)
(***************************************************************************)
EXTENDS Sync

CONSTANTS
  Calls,         \* the system calls the programs make
  KillAnywhere,  \* whether programs also kill tasks that are blocked on
                 \* something else than a mutex of the table Lock[]
  LockTable,     \* the mutexes of the table Lock[] (init_pcb)
  MaxPid,        \* bound: the last pid that is given out
  SleepTimes     \* the arguments of sys_sleep

ASSUME KernelAssumption ==
  /\ KillAnywhere \in BOOLEAN
  /\ LockTable \subseteq Mutex
  /\ MaxPid \in Nat
  /\ SleepTimes \subseteq Nat

VARIABLES
  pid,  \* pcb[i].pid
  PID   \* the last pid given out

vars == <<schedVars, syncVars, pid, PID>>

\* The state in which the shell, in slot 1, gets the CPU for the first time:
\* init_pcb has run and the first call of do_scheduler by _start.
Init ==
  /\ current_running = 1
  /\ status = [p \in Slot |-> IF p = 1 THEN "RUNNING" ELSE "EXITED"]
  /\ priority = [p \in Slot |-> IF p = 1 THEN INITIAL_PRIORITY ELSE 0]
  /\ sleeping_deadline = [p \in Slot |-> 0]
  /\ queue = [q \in Queue |-> <<>>]
  /\ timer = 0
  /\ machine = "up"
  /\ lock_status = [l \in Mutex |-> "UNLOCKED"]
  /\ lock = [p \in Slot |-> NoLocks]
  /\ sem_value = [x \in Semaphore |-> 0]
  /\ max_num = [b \in Barrier |-> 0]
  /\ not_arrive_num = [b \in Barrier |-> 0]
  /\ resume = [p \in Slot |-> NULL]
  /\ holds = [p \in Slot |-> {}]
  /\ pid = [p \in Slot |-> IF p = 1 THEN 1 ELSE 0]
  /\ PID = 1

-----------------------------------------------------------------------------
\* irq_timer: the clock advances, check_recv_block_queue wakes a task that
\* waits for packets if the network card has delivered them, and the task is
\* preempted.  An exception without a handler (handle_others) also just gives
\* up the CPU: the case in which get_timer() stays the same.
TimerInterrupt ==
  /\ InUser
  /\ timer' \in {timer, timer + 1}
  /\ timer' <= MaxTime
  /\ UNCHANGED <<sleeping_deadline, syncVars, pid, PID>>
  /\ \/ scheduler(Now)
     \/ \E i \in DOMAIN queue[recv_block_queue] :
          /\ FirstPeak(queue[recv_block_queue], i)
          /\ scheduler(MakeReady(Now, recv_block_queue, i))

\* The last descriptor still belongs to the network card: the task blocks.
do_wait_recv_package ==
  /\ InUser
  /\ UNCHANGED <<sleeping_deadline, timer, syncVars, pid, PID>>
  /\ scheduler(Block(Now, recv_block_queue))

do_sleep(t) ==
  /\ InUser
  /\ sleeping_deadline' =
       [sleeping_deadline EXCEPT ![current_running] = timer + t]
  /\ UNCHANGED <<timer, syncVars, pid, PID>>
  /\ scheduler(queue_push(SetStatus(Now, current_running, "SLEEPING"),
                          sleeping_queue, current_running))

\* The slot that do_spawn finds, if there is one.
FreeSlot ==
  {p \in Slot : /\ status[p] = "EXITED"
                /\ \A i \in 0 .. p - 1 : status[i] # "EXITED"}

NewPid == PID + 1

\* The pid is used up even when there is no free slot.
do_spawn ==
  /\ InUser
  /\ PID < MaxPid
  /\ PID' = PID + 1
  /\ \/ /\ FreeSlot = {}
        /\ UNCHANGED <<schedVars, syncVars, pid>>
     \/ \E p \in FreeSlot :
          /\ pid' = [pid EXCEPT ![p] = NewPid]
          /\ LET k == SetStatus(queue_init(Now, p), p, "CREATED")
                 k1 == queue_push(k, ready_queue, p)
             IN  status' = k1.status /\ queue' = k1.queue
          /\ priority' = [priority EXCEPT ![p] = INITIAL_PRIORITY]
          /\ sleeping_deadline' = [sleeping_deadline EXCEPT ![p] = 0]
          /\ lock' = [lock EXCEPT ![p] = NoLocks]
          /\ resume' = [resume EXCEPT ![p] = NULL]
          /\ UNCHANGED <<current_running, timer, machine, lock_status,
                         sem_value, max_num, not_arrive_num, holds>>

\* Mutant: it is always the caller's waiting_queue that is cleared.
LetGoOfCaller(k, p, s) ==
  clear_waiting_queue(WakeWaiters(k, lock[p], s), current_running)

\* The end of task p: the mutexes of its lock[] are released, with the waiters
\* woken in the order s, and the tasks that wait for p are made ready.
LetGo(k, p, s) == clear_waiting_queue(WakeWaiters(k, lock[p], s), p)

do_exit ==
  /\ InUser
  /\ lock_status' = Unlock(lock[current_running])
  /\ lock' = ForgetLocks(Now, lock[current_running])
  /\ holds' = [holds EXCEPT ![current_running] = {}]
  /\ UNCHANGED <<sleeping_deadline, timer, sem_value, max_num, not_arrive_num,
                 resume, pid, PID>>
  /\ \E s \in WakeOrders(Now, lock[current_running]) :
       scheduler(SetStatus(LetGo(Now, current_running, s),
                           current_running, "EXITED"))

\* The slot that the search for pid n finds.
IsSlotOf(n, p) == pid[p] = n /\ \A i \in 0 .. p - 1 : pid[i] # n

\* Mutant: the status of the task is not looked at.
do_waitpid_blindly(n) ==
  /\ InUser
  /\ \E p \in Slot :
       /\ IsSlotOf(n, p)
       /\ UNCHANGED <<sleeping_deadline, timer, syncVars, pid, PID>>
       /\ scheduler(Block(Now, p))

do_waitpid(n) ==
  /\ InUser
  /\ \E p \in Slot :
       /\ IsSlotOf(n, p)
       /\ status[p] # "EXITED"
       /\ UNCHANGED <<sleeping_deadline, timer, syncVars, pid, PID>>
       /\ scheduler(Block(Now, p))

\* Mutant: a task that has never run is not looked for.
KillQueuesNotCreated(p) ==
  CASE status[p] = "READY" -> {ready_queue}
    [] status[p] = "SLEEPING" -> {sleeping_queue}
    [] status[p] = "BLOCKED" -> LockTable
    [] OTHER -> {}

\* Mutant: a sleeper is not taken out of its queue.
KillQueuesNotSleeping(p) ==
  CASE status[p] \in {"READY", "CREATED"} -> {ready_queue}
    [] status[p] = "BLOCKED" -> LockTable
    [] OTHER -> {}

\* The queues do_kill looks for its victim in.
KillQueues(p) ==
  CASE status[p] \in {"READY", "CREATED"} -> {ready_queue}
    [] status[p] = "SLEEPING" -> {sleeping_queue}
    [] status[p] = "BLOCKED" -> LockTable
    [] OTHER -> {}

Without(s, p) ==
  IF p \in Range(s) THEN RemoveAt(s, CHOOSE i \in DOMAIN s : s[i] = p) ELSE s

TakeOut(k, p, Q) ==
  [k EXCEPT !.queue = [q \in Queue |-> IF q \in Q THEN Without(k.queue[q], p)
                                       ELSE k.queue[q]]]

do_kill(n) ==
  /\ InUser
  /\ \E p \in Slot :
       /\ IsSlotOf(n, p)
       /\ status[p] # "EXITED"
       /\ ~KillAnywhere /\ status[p] = "BLOCKED" =>
            \E l \in LockTable : p \in Range(queue[l])
       /\ LET k == SetStatus(TakeOut(Now, p, KillQueues(p)), p, "EXITED")
          IN  /\ lock_status' = Unlock(lock[p])
              /\ lock' = ForgetLocks(k, lock[p])
              /\ holds' = [holds EXCEPT ![p] = {}]
              /\ UNCHANGED <<sleeping_deadline, timer, sem_value, max_num,
                             not_arrive_num, resume, pid, PID>>
              /\ \E s \in WakeOrders(k, lock[p]) :
                   IF p = current_running THEN scheduler(LetGo(k, p, s))
                   ELSE Return(LetGo(k, p, s))

-----------------------------------------------------------------------------
TaskCall ==
  \/ "wait_recv" \in Calls /\ do_wait_recv_package
  \/ "sleep" \in Calls /\ \E t \in SleepTimes : do_sleep(t)
  \/ "spawn" \in Calls /\ do_spawn
  \/ "exit" \in Calls /\ do_exit
  \/ "waitpid" \in Calls /\ \E n \in 1 .. PID : do_waitpid(n)
  \/ "kill" \in Calls /\ \E n \in 1 .. PID : do_kill(n)

MutexCall ==
  \E l \in Mutex :
    \/ "mutex_init" \in Calls /\ do_mutex_lock_init(l)
    \/ "acquire" \in Calls /\ do_mutex_lock_acquire(l)
    \/ "release" \in Calls /\ do_mutex_lock_release(l)

SemaphoreCall ==
  \E x \in Semaphore :
    \/ "sem_init" \in Calls /\ \E val \in 0 .. MaxSem : do_semaphore_init(x, val)
    \/ "up" \in Calls /\ do_semaphore_up(x)
    \/ "down" \in Calls /\ do_semaphore_down(x)

ConditionCall ==
  \E c \in Condition :
    \/ "cond_wait" \in Calls /\ \E l \in Mutex : do_condition_wait(l, c)
    \/ "signal" \in Calls /\ do_condition_signal(c)
    \/ "broadcast" \in Calls /\ do_condition_broadcast(c)

BarrierCall ==
  \E b \in Barrier :
    \/ "barrier_init" \in Calls
         /\ \E goal \in 1 .. MaxGoal : do_barrier_init(b, goal)
    \/ "barrier_wait" \in Calls /\ do_barrier_wait(b)

SyncCall ==
  /\ MutexCall \/ SemaphoreCall \/ ConditionCall \/ BarrierCall \/ ResumeAcquire
  /\ UNCHANGED <<pid, PID>>

Next == TimerInterrupt \/ TaskCall \/ SyncCall

Spec == Init /\ [][Next]_vars

-----------------------------------------------------------------------------
(***************************************************************************)
(* Properties                                                              *)
(***************************************************************************)
InQueue(p, q) == p \in Range(queue[q])

\* Every field of every pcb, queue and object has a value of its type.
TypeOK ==
  /\ current_running \in Slot
  /\ status \in [Slot -> Status]
  /\ priority \in [Slot -> Int]
  /\ sleeping_deadline \in [Slot -> Nat]
  /\ queue \in [Queue -> Seq(Slot)]
  /\ timer \in Nat
  /\ machine \in {"up", "hung", "crashed"}
  /\ lock_status \in [Mutex -> {"LOCKED", "UNLOCKED"}]
  /\ lock \in [Slot -> [LockIndex -> Mutex \cup {NULL}]]
  /\ sem_value \in [Semaphore -> Nat]
  /\ max_num \in [Barrier -> Nat]
  /\ not_arrive_num \in [Barrier -> Int]
  /\ resume \in [Slot -> Mutex \cup {NULL}]
  /\ holds \in [Slot -> SUBSET Mutex]
  /\ pid \in [Slot -> Nat]
  /\ PID \in Nat

\* A pcb is linked into one list at most, and only once.  The prev and next
\* fields of a pcb are shared by all the lists of the kernel, so this is what
\* every queue_push and queue_remove of sched.c and kernel/locking relies on.
OneList ==
  /\ \A q \in Queue : IsInjective(queue[q])
  /\ \A q, r \in Queue : q # r => Range(queue[q]) \cap Range(queue[r]) = {}

\* No task is lost and none is in two states: the list a pcb is in is the one
\* its status says, a running task and an exited one are in none, and the
\* running task is current_running.
Placed ==
  /\ OneList
  /\ \A p \in Slot :
       /\ InQueue(p, ready_queue) <=> status[p] \in {"READY", "CREATED"}
       /\ InQueue(p, sleeping_queue) <=> status[p] = "SLEEPING"
       /\ (\E q \in WaitQueue : InQueue(p, q)) <=> status[p] = "BLOCKED"
       /\ status[p] = "RUNNING" <=> machine = "up" /\ p = current_running

\* No task waits for a mutex that is free: do_mutex_lock_release empties the
\* queue, and nobody enters it before the mutex is taken again.
NoWaiterOnFreeMutex ==
  \A l \in Mutex : queue[l] # <<>> => lock_status[l] = "LOCKED"

\* No task waits for a semaphore that has a token: do_semaphore_up hands the
\* token over to a waiter instead of counting it.
NoWaiterOnToken ==
  \A x \in Semaphore : queue[x] # <<>> => sem_value[x] = 0

\* Nobody waits for a task that is gone: do_exit and do_kill wake the tasks of
\* the waiting_queue, and do_waitpid does not block on a task that has exited.
NoWaiterOnDead == \A p \in Slot : status[p] = "EXITED" => queue[p] = <<>>

\* At most one program at a time is between mutex_lock_acquire and
\* mutex_lock_release of a mutex.
MutualExclusion ==
  \A p, q \in Slot : p # q => holds[p] \cap holds[q] = {}

\* A mutex that is locked belongs to some task that lives: do_exit and do_kill
\* release what a task holds.
NoOrphanedMutex ==
  \A l \in Mutex : lock_status[l] = "LOCKED" =>
    \E p \in Slot : status[p] # "EXITED" /\ l \in holds[p]

\* A task that has exited or was killed never comes back: its slot changes
\* only when do_spawn puts a new task, with a new pid, into it.
DeadStaysDead ==
  [][\A p \in Slot : status[p] = "EXITED" /\ status'[p] # "EXITED" =>
       status'[p] = "CREATED" /\ pid'[p] > PID]_vars

\* A task leaves do_waitpid only when the task it waits for is gone, and then
\* it is made ready, or when it is killed itself.
WaitpidUntilGone ==
  [][\A p, t \in Slot : InQueue(p, t) /\ p \notin Range(queue'[t]) =>
       status'[p] = "EXITED" \/ status'[t] = "EXITED"]_vars

\* A task leaves a barrier only together with all the others: the queue grows
\* or is emptied as a whole by the last arrival.
BarrierOpensForAll ==
  [][\A b \in Barrier : queue'[b] # queue[b] =>
       \/ queue'[b] = <<>> /\ not_arrive_num[b] = 1
       \/ queue'[b] = Append(queue[b], current_running)]_vars

\* The machine does not stop while a task sleeps: the loop of scheduler() that
\* waits for a sleeper comes to an end.
SleepersWakeUp ==
  machine # "up" => \A p \in Slot : status[p] # "SLEEPING"

\* scheduler() gives the CPU to a ready task of the highest priority.
HighestPriorityRuns ==
  [][current_running' # current_running =>
       \A p \in Slot : status'[p] = "READY" =>
          priority[p] <= priority[current_running']]_vars

=============================================================================
