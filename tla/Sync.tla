-------------------------------- MODULE Sync --------------------------------
(***************************************************************************)
(* The synchronisation primitives of kernel/locking: mutexes, semaphores,  *)
(* condition variables and barriers, as the system calls that the current  *)
(* task makes.  A task that was switched out inside do_mutex_lock_acquire  *)
(* has work left in the kernel: resume is the mutex it still has to get.   *)
(*                                                                         *)
(* holds is the view of the programs: the mutexes between whose            *)
(* mutex_lock_acquire and mutex_lock_release a task is.  Programs use the  *)
(* mutexes in pairs and initialise an object only while nobody uses it.    *)
(***************************************************************************)
EXTENDS Sched

CONSTANTS
  LOCK_MAX_NUM,  \* the length of pcb[i].lock[]
  MaxSem,        \* bound: the largest value of a semaphore
  MaxGoal        \* bound: the largest number of tasks a barrier waits for

ASSUME SyncAssumption ==
  /\ LOCK_MAX_NUM \in Nat \ {0}
  /\ MaxSem \in Nat
  /\ MaxGoal \in Nat \ {0}

VARIABLES
  lock_status,     \* mutex_lock_t.status
  lock,            \* pcb[i].lock[], the mutexes the kernel believes i has
  sem_value,       \* semaphore_t.sem_value
  max_num,         \* barrier_t.max_num
  not_arrive_num,  \* barrier_t.not_arrive_num
  resume,          \* the mutex a task has to get before it returns from the
                   \* kernel, or NULL
  holds            \* the mutexes the program of a task holds

syncVars == <<lock_status, lock, sem_value, max_num, not_arrive_num, resume,
              holds>>

LockIndex == 0 .. LOCK_MAX_NUM - 1

NoLocks == [i \in LockIndex |-> NULL]

\* The current task runs user code: it can make a system call, and the timer
\* can interrupt it.
InUser == machine = "up" /\ resume[current_running] = NULL

Idle(q) == queue[q] = <<>>

-----------------------------------------------------------------------------
(***************************************************************************)
(* do_mutex_lock_release for the entries of an array of mutexes, one after *)
(* the other: do_exit and do_kill pass a whole lock[], the system call an  *)
(* array of one.                                                           *)
(***************************************************************************)
Locked(arr) == {l \in Mutex : /\ lock_status[l] = "LOCKED"
                              /\ \E i \in DOMAIN arr : arr[i] = l}

\* The first entry of l in the array is in front of every entry of m.
ReleasedBefore(arr, l, m) ==
  \E i \in DOMAIN arr : /\ arr[i] = l
                        /\ \A j \in DOMAIN arr : j <= i => arr[j] # m

Woken(k, arr) == UNION {Range(k.queue[l]) : l \in Locked(arr)}

\* The sequences of the elements of a set of slots, each of them once.
Orders(S) ==
  UNION {Bijection(1 .. n, S) :
           n \in {n \in 0 .. NUM_MAX_TASK : n = Cardinality(S)}}

\* The order in which do_unblock_all puts the waiters into the ready queue.
WakeOrders(k, arr) ==
  {s \in Orders(Woken(k, arr)) :
     \A a, b \in DOMAIN s : a < b =>
       \E l, m \in Locked(arr) :
         \E i \in DOMAIN k.queue[l], j \in DOMAIN k.queue[m] :
           /\ s[a] = k.queue[l][i]
           /\ s[b] = k.queue[m][j]
           /\ \/ l = m /\ LeavesBefore(k.queue[l], i, j)
              \/ l # m /\ ReleasedBefore(arr, l, m)}

\* Mutant: do_unblock_one in the place of do_unblock_all.
WakeOneWaiter(k, arr, s) ==
  [status |-> [p \in Slot |-> IF s # <<>> /\ p = s[1]
                              THEN "READY" ELSE k.status[p]],
   queue  |-> [q \in Queue |->
                 CASE s = <<>> -> k.queue[q]
                   [] s # <<>> /\ q = ready_queue -> Append(k.queue[q], s[1])
                   [] OTHER -> SelectSeq(k.queue[q], LAMBDA p : p # s[1])]]

WakeWaiters(k, arr, s) ==
  [status |-> [p \in Slot |-> IF p \in Range(s) THEN "READY" ELSE k.status[p]],
   queue  |-> [q \in Queue |-> CASE q \in Locked(arr) -> <<>>
                                 [] q = ready_queue -> k.queue[q] \o s
                                 [] OTHER -> k.queue[q]]]

\* The loop at lock.c:54-66 walks over the waiters, not over the task that
\* releases: a waiter whose lock[0] is another mutex loses its other entries,
\* and the releasing task keeps its entry.
ForgetLocks(k, arr) ==
  [p \in Slot |->
     IF \E l \in Locked(arr) : p \in Range(k.queue[l]) /\ lock[p][0] # l
     THEN [i \in LockIndex |-> IF i = 0 THEN lock[p][0] ELSE NULL]
     ELSE lock[p]]

Unlock(arr) == [l \in Mutex |-> IF l \in Locked(arr)
                                THEN "UNLOCKED" ELSE lock_status[l]]

-----------------------------------------------------------------------------
do_mutex_lock_init(l) ==
  /\ InUser
  /\ Idle(l)
  /\ \A p \in Slot : l \notin holds[p] /\ resume[p] # l
  /\ lock_status' = [lock_status EXCEPT ![l] = "UNLOCKED"]
  /\ UNCHANGED <<schedVars, lock, sem_value, max_num, not_arrive_num, resume,
                 holds>>

\* The current task's entry for l: the first free one of lock[], if any.
RecordLock(l) ==
  \/ \E i \in LockIndex :
       /\ lock[current_running][i] = NULL
       /\ \A j \in 0 .. i - 1 : lock[current_running][j] # NULL
       /\ lock' = [lock EXCEPT ![current_running][i] = l]
  \/ /\ \A i \in LockIndex : lock[current_running][i] # NULL
     /\ UNCHANGED lock

\* do_mutex_lock_acquire from the test of its loop on: the task blocks, to come
\* back to the test, or gets the mutex and returns.
AcquireLoop(l) ==
  \/ /\ lock_status[l] = "LOCKED"
     /\ resume' = [resume EXCEPT ![current_running] = l]
     /\ UNCHANGED <<sleeping_deadline, timer, lock_status, lock, holds>>
     /\ scheduler(Block(Now, l))
  \/ /\ lock_status[l] = "UNLOCKED"
     /\ lock_status' = [lock_status EXCEPT ![l] = "LOCKED"]
     /\ RecordLock(l)
     /\ holds' = [holds EXCEPT ![current_running] = @ \cup {l}]
     /\ resume' = [resume EXCEPT ![current_running] = NULL]
     /\ UNCHANGED schedVars

do_mutex_lock_acquire(l) ==
  /\ InUser
  /\ l \notin holds[current_running]
  /\ AcquireLoop(l)
  /\ UNCHANGED <<sem_value, max_num, not_arrive_num>>

\* Mutant: "if" in the place of "while"; the task that was woken takes the
\* mutex without looking at it again.
ResumeTakes ==
  /\ machine = "up"
  /\ resume[current_running] # NULL
  /\ lock_status' = [lock_status EXCEPT ![resume[current_running]] = "LOCKED"]
  /\ RecordLock(resume[current_running])
  /\ holds' = [holds EXCEPT ![current_running] =
                  @ \cup {resume[current_running]}]
  /\ resume' = [resume EXCEPT ![current_running] = NULL]
  /\ UNCHANGED <<schedVars, sem_value, max_num, not_arrive_num>>

\* The current task was blocked inside do_mutex_lock_acquire and is back.
ResumeAcquire ==
  /\ machine = "up"
  /\ resume[current_running] # NULL
  /\ AcquireLoop(resume[current_running])
  /\ UNCHANGED <<sem_value, max_num, not_arrive_num>>

do_mutex_lock_release(l) ==
  /\ InUser
  /\ l \in holds[current_running]
  /\ \E s \in WakeOrders(Now, <<l>>) : Return(WakeWaiters(Now, <<l>>, s))
  /\ lock_status' = Unlock(<<l>>)
  /\ lock' = ForgetLocks(Now, <<l>>)
  /\ holds' = [holds EXCEPT ![current_running] = @ \ {l}]
  /\ UNCHANGED <<sleeping_deadline, timer, sem_value, max_num, not_arrive_num,
                 resume>>

-----------------------------------------------------------------------------
do_semaphore_init(x, val) ==
  /\ InUser
  /\ Idle(x)
  /\ sem_value' = [sem_value EXCEPT ![x] = val]
  /\ UNCHANGED <<schedVars, lock_status, lock, max_num, not_arrive_num, resume,
                 holds>>

\* Mutant: the token is counted although a waiter gets it.
do_semaphore_up_twice(x) ==
  /\ InUser
  /\ sem_value[x] < MaxSem
  /\ sem_value' = [sem_value EXCEPT ![x] = @ + 1]
  /\ Return(IF Idle(x) THEN Now ELSE MakeReady(Now, x, 1))
  /\ UNCHANGED <<sleeping_deadline, timer, lock_status, lock, max_num,
                 not_arrive_num, resume, holds>>

do_semaphore_up(x) ==
  /\ InUser
  /\ \/ /\ ~Idle(x)
        /\ Return(MakeReady(Now, x, 1))
        /\ UNCHANGED sem_value
     \/ /\ Idle(x)
        /\ sem_value[x] < MaxSem
        /\ sem_value' = [sem_value EXCEPT ![x] = @ + 1]
        /\ Return(Now)
  /\ UNCHANGED <<sleeping_deadline, timer, lock_status, lock, max_num,
                 not_arrive_num, resume, holds>>

do_semaphore_down(x) ==
  /\ InUser
  /\ UNCHANGED <<sleeping_deadline, timer, lock_status, lock, max_num,
                 not_arrive_num, resume, holds>>
  /\ \/ /\ sem_value[x] = 0
        /\ scheduler(Block(Now, x))
        /\ UNCHANGED sem_value
     \/ /\ sem_value[x] # 0
        /\ sem_value' = [sem_value EXCEPT ![x] = @ - 1]
        /\ Return(Now)

-----------------------------------------------------------------------------
\* The task enters the queue of the condition, lets go of the mutex and gives
\* up the CPU; do_mutex_lock_acquire is what it has left to do.
do_condition_wait(l, c) ==
  /\ InUser
  /\ l \in holds[current_running]
  /\ lock_status' = Unlock(<<l>>)
  /\ lock' = ForgetLocks(Block(Now, c), <<l>>)
  /\ holds' = [holds EXCEPT ![current_running] = @ \ {l}]
  /\ resume' = [resume EXCEPT ![current_running] = l]
  /\ UNCHANGED <<sleeping_deadline, timer, sem_value, max_num, not_arrive_num>>
  /\ \E s \in WakeOrders(Block(Now, c), <<l>>) :
       scheduler(WakeWaiters(Block(Now, c), <<l>>, s))

\* With no task in the queue there is nothing to do.
do_condition_signal(c) ==
  /\ InUser
  /\ ~Idle(c)
  /\ Return(MakeReady(Now, c, 1))
  /\ UNCHANGED <<sleeping_deadline, timer, syncVars>>

do_condition_broadcast(c) ==
  /\ InUser
  /\ Return(clear_waiting_queue(Now, c))
  /\ UNCHANGED <<sleeping_deadline, timer, syncVars>>

-----------------------------------------------------------------------------
do_barrier_init(b, goal) ==
  /\ InUser
  /\ Idle(b)
  /\ max_num' = [max_num EXCEPT ![b] = goal]
  /\ not_arrive_num' = [not_arrive_num EXCEPT ![b] = goal]
  /\ UNCHANGED <<schedVars, lock_status, lock, sem_value, resume, holds>>

\* Programs wait at a barrier only after they have initialised it.
do_barrier_wait(b) ==
  /\ InUser
  /\ max_num[b] > 0
  /\ UNCHANGED <<sleeping_deadline, timer, lock_status, lock, sem_value,
                 max_num, resume, holds>>
  /\ \/ /\ not_arrive_num[b] = 1
        /\ not_arrive_num' = [not_arrive_num EXCEPT ![b] = max_num[b]]
        /\ Return(clear_waiting_queue(Now, b))
     \/ /\ not_arrive_num[b] # 1
        /\ not_arrive_num' = [not_arrive_num EXCEPT ![b] = @ - 1]
        /\ scheduler(Block(Now, b))

=============================================================================
