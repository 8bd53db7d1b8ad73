---------------------------- MODULE PlacedProofs ----------------------------
(***************************************************************************)
(* Every task is in exactly the list that its status names (invariant      *)
(* Placed), for programs that kill blocked tasks only while they wait for  *)
(* a mutex of the table Lock[]; and what follows for the end of a task.    *)
(***************************************************************************)
EXTENDS KernelProofs

\* Placed in the terms of the lemmas on handlers.
LEMMA PlacedIsResting == TypeOK => (Placed <=> Resting)
<1> SUFFICES ASSUME TypeOK PROVE Placed <=> Resting
  OBVIOUS
<1> DEFINE X == IF machine = "up" THEN {current_running} ELSE {}
<1>1. /\ Now \in HandlerState /\ Now.status = status /\ Now.queue = queue
      /\ current_running \in Slot /\ \A p \in Slot : status[p] \in Status
      /\ \A q \in Queue : queue[q] \in Seq(Slot)
  BY Zenon, TypeParts, NowType DEF TypeOK, Now
<1>2. \A p, q : In(Now, p, q) <=> InQueue(p, q)
  BY <1>1 DEF In, InQueue
<1>3. \A q \in Queue : q \in {ready_queue, sleeping_queue} \cup WaitQueue
  BY DEF Queue
<1>4. /\ ready_queue # sleeping_queue /\ ready_queue \notin WaitQueue
      /\ sleeping_queue \notin WaitQueue /\ WaitQueue \subseteq Queue
      /\ ready_queue \in Queue /\ sleeping_queue \in Queue
  BY QueueNames, ObjectAssumption
<1>5. ASSUME Placed PROVE Resting
  <2>1. machine = "up" => status[current_running] = "RUNNING"
    BY <1>1, <1>5 DEF Placed
  <2>2. \A p \in Slot, q \in Queue : InQueue(p, q) => Fits(status[p], q)
    BY <1>3, <1>5 DEF Placed, Fits
  <2>3. \A p \in Slot, q, r \in Queue : InQueue(p, q) /\ InQueue(p, r) => q = r
    BY <1>5 DEF Placed, OneList, InQueue
  <2>4. \A p \in Slot : status[p] = "RUNNING" <=> p \in X
    BY <1>5 DEF Placed
  <2>5. \A p \in Slot, q \in Queue : InQueue(p, q) => p \notin X
    BY <2>2, <2>4, FitsOnce
  <2>6. \A p \in Slot \ X : status[p] # "EXITED" =>
                              \E q \in Queue : InQueue(p, q)
    <3> SUFFICES ASSUME NEW p \in Slot \ X, status[p] # "EXITED"
                 PROVE  \E q \in Queue : InQueue(p, q)
      OBVIOUS
    <3>1. status[p] \in {"BLOCKED", "READY", "CREATED", "SLEEPING"}
      BY <1>1, <2>4 DEF Status
    <3> QED BY <1>4, <1>5, <3>1 DEF Placed
  <2> HIDE DEF X
  <2>7. Sound(Now, X)
    BY Zenon, <1>1, <1>2, <1>5, <2>2, <2>3, <2>4, <2>5, <2>6
    DEF Sound, Placed, OneList
  <2> QED BY <1>1, <2>1, <2>7 DEF Resting, X
<1>6. ASSUME Resting PROVE Placed
  <2>1. Sound(Now, X) /\ (machine = "up" => status[current_running] = "RUNNING")
    BY <1>6 DEF Resting
  <2>2. \A p \in Slot : status[p] = "RUNNING" <=> p \in X
    BY Zenon, <1>1, <2>1 DEF Sound
  <2>3. /\ \A q \in Queue : IsInjective(queue[q])
        /\ \A p \in Slot, q, r \in Queue :
             InQueue(p, q) /\ InQueue(p, r) => q = r
        /\ \A p \in Slot, q \in Queue : InQueue(p, q) => Fits(status[p], q)
        /\ \A p \in Slot \ X : status[p] # "EXITED" =>
                                 \E q \in Queue : InQueue(p, q)
    BY Zenon, <1>1, <1>2, <2>1 DEF Sound
  <2>4. OneList
    <3>1. \A q \in Queue : Range(queue[q]) \subseteq Slot
      BY <1>1 DEF Range
    <3> QED BY Zenon, <2>3, <3>1 DEF OneList, InQueue
  <2>5. ASSUME NEW p \in Slot
        PROVE  /\ InQueue(p, ready_queue) <=> status[p] \in {"READY", "CREATED"}
               /\ InQueue(p, sleeping_queue) <=> status[p] = "SLEEPING"
               /\ (\E q \in WaitQueue : InQueue(p, q)) <=> status[p] = "BLOCKED"
    <3>1. status[p] \in {"BLOCKED", "READY", "CREATED", "SLEEPING"} =>
            \E q \in Queue : InQueue(p, q) /\ Fits(status[p], q)
      BY <2>2, <2>3
    <3>2. /\ InQueue(p, ready_queue) => status[p] \in {"READY", "CREATED"}
          /\ InQueue(p, sleeping_queue) => status[p] = "SLEEPING"
          /\ \A q \in WaitQueue : InQueue(p, q) => status[p] = "BLOCKED"
      BY <1>4, <2>3 DEF Fits
    <3> QED BY <1>4, <3>1, <3>2 DEF Fits
  <2> QED BY <2>2, <2>4, <2>5 DEF Placed
<1> QED BY <1>5, <1>6

\* do_mutex_lock_release keeps the lists sound.
LEMMA WakeWaitersSound ==
  ASSUME NEW k, NEW X, Sound(k, X), NEW arr, NEW s \in WakeOrders(k, arr)
  PROVE  /\ Sound(WakeWaiters(k, arr, s), X)
         /\ \A x \in X \cap Slot : WakeWaiters(k, arr, s).status[x] = k.status[x]
<1> DEFINE W == Locked(arr)
<1>1. k \in HandlerState
  BY Zenon DEF Sound
<1>2. s \in Seq(Slot) /\ IsInjective(s) /\ Range(s) = Woken(k, arr)
  BY <1>1, WakeOrderFacts
<1>3. W \subseteq WaitQueue
  BY Zenon, QueueNames DEF Locked
<1>4. \A p \in Slot : p \in Range(s) <=> \E q \in W : In(k, p, q)
  BY <1>2 DEF Woken, In
<1>5. WakeWaiters(k, arr, s) = Wake(k, W, s)
  BY DEF WakeWaiters, Wake
<1> HIDE DEF W
<1> QED BY <1>2, <1>3, <1>4, <1>5, WakeSound

\* The current task enters a wait queue.
LEMMA BlockSound ==
  ASSUME NEW k, Sound(k, {current_running}), current_running \in Slot,
         NEW q \in WaitQueue
  PROVE  Sound(Block(k, q), {})
<1> DEFINE X == {current_running}
<1>1. "BLOCKED" \in Status /\ Fits("BLOCKED", q) /\ q \in Queue
  BY QueueNames DEF Status, Fits
<1>2. X \ {current_running} = {} /\ current_running \in X /\ Sound(k, X)
  OBVIOUS
<1> HIDE DEF X
<1>3. Sound(queue_push(SetStatus(k, current_running, "BLOCKED"), q,
                       current_running), X \ {current_running})
  BY <1>1, <1>2, PushSound
<1> QED BY <1>2, <1>3 DEF Block

\* do_kill takes its victim out of the one list it is in.
LEMMA TakeOutSound ==
  ASSUME NEW k, NEW X, Sound(k, X), NEW p \in Slot, NEW Q,
         NEW q \in Queue, q \in Q, In(k, p, q)
  PROVE  /\ Sound(TakeOut(k, p, Q), X \cup {p})
         /\ TakeOut(k, p, Q).status = k.status
<1> DEFINE i == CHOOSE j \in DOMAIN k.queue[q] : k.queue[q][j] = p
<1>1. i \in DOMAIN k.queue[q] /\ k.queue[q][i] = p
  BY DEF In, Range
<1>2. k \in HandlerState /\ k = [status |-> k.status, queue |-> k.queue]
  BY Zenon DEF Sound, HandlerState
<1>3. \A r \in Queue : r # q => p \notin Range(k.queue[r])
  BY DEF Sound, In
<1>4. Without(k.queue[q], p) = RemoveAt(k.queue[q], i)
  BY DEF Without, In
<1> HIDE DEF i
<1>5. TakeOut(k, p, Q).queue = queue_remove(k, q, i).queue
  <2>1. \A r \in Queue : (IF r \in Q THEN Without(k.queue[r], p) ELSE k.queue[r])
                       = (IF r = q THEN RemoveAt(k.queue[q], i) ELSE k.queue[r])
    <3> TAKE r \in Queue
    <3>1. CASE r = q
      BY <1>4, <3>1
    <3>2. CASE r # q
      BY <1>3, <3>2 DEF Without
    <3> QED BY <3>1, <3>2
  <2>2. /\ TakeOut(k, p, Q).queue =
             [r \in Queue |-> IF r \in Q THEN Without(k.queue[r], p)
                              ELSE k.queue[r]]
        /\ queue_remove(k, q, i).queue =
             [r \in Queue |-> IF r = q THEN RemoveAt(k.queue[q], i)
                              ELSE k.queue[r]]
    BY <1>2 DEF TakeOut, queue_remove
  <2> QED BY Zenon, <2>1, <2>2
<1>6. /\ TakeOut(k, p, Q) = [status |-> k.status, queue |-> TakeOut(k, p, Q).queue]
      /\ queue_remove(k, q, i) =
           [status |-> k.status, queue |-> queue_remove(k, q, i).queue]
  BY <1>2 DEF TakeOut, queue_remove
<1>7. TakeOut(k, p, Q) = queue_remove(k, q, i)
  BY <1>5, <1>6
<1>8. Sound(queue_remove(k, q, i), X \cup {p})
  BY Zenon, <1>1, RemoveSound
<1>9. queue_remove(k, q, i).status = k.status
  BY <1>6
<1> QED BY <1>7, <1>8, <1>9

\* do_kill of a task other than the caller, up to the release of its locks.
LEMMA KillOtherSound ==
  ASSUME SwitchTypes, Sound(Now, {current_running}), NEW p \in Slot,
         p # current_running, status[p] # "EXITED", ~KillAnywhere,
         ~KillAnywhere /\ status[p] = "BLOCKED" =>
           \E l \in LockTable : p \in Range(queue[l])
  PROVE  LET k == SetStatus(TakeOut(Now, p, KillQueues(p)), p, "EXITED")
         IN  /\ Sound(k, {current_running})
             /\ k.status[current_running] = status[current_running]
<1> DEFINE X == {current_running}
           k0 == TakeOut(Now, p, KillQueues(p))
           k1 == SetStatus(k0, p, "EXITED")
<1>1. Now.status = status /\ Now.queue = queue
  BY DEF Now
<1>2. /\ status[p] \in {"BLOCKED", "READY", "CREATED", "SLEEPING"}
      /\ \E q \in Queue : In(Now, p, q) /\ Fits(status[p], q)
  BY Zenon, <1>1 DEF Sound, SwitchTypes, Status
<1>3. PICK q \in Queue : q \in KillQueues(p) /\ In(Now, p, q)
  <2>1. CASE status[p] = "BLOCKED"
    <3>1. PICK l \in LockTable : p \in Range(queue[l])
      BY <2>1
    <3>2. l \in Queue
      BY KernelAssumption, QueueNames
    <3> QED BY <1>1, <2>1, <3>1, <3>2 DEF In, KillQueues
  <2>2. CASE status[p] \in {"READY", "CREATED"}
    BY <1>2, <2>2, FitsOnce DEF KillQueues
  <2>3. CASE status[p] = "SLEEPING"
    BY <1>2, <2>3, FitsOnce DEF KillQueues
  <2> QED BY <1>2, <2>1, <2>2, <2>3
<1> HIDE DEF X
<1>4. Sound(k0, X \cup {p}) /\ k0.status = Now.status
  BY Zenon, <1>3, TakeOutSound DEF X
<1> HIDE DEF k0
<1>5. Sound(k1, (X \cup {p}) \ {p})
  BY <1>4, ExitSound
<1>6. (X \cup {p}) \ {p} = X
  BY Zenon DEF X
<1>7. k1.status[current_running] = k0.status[current_running]
  <2>1. k0 \in HandlerState /\ "EXITED" \in Status /\ current_running \in Slot
    BY Zenon, <1>4 DEF Sound, Status, SwitchTypes
  <2>2. StatusSet(k0, k1, p, "EXITED")
    BY Zenon, <2>1, StatusIsSet
  <2> HIDE DEF k1
  <2> QED BY Zenon, <2>1, <2>2 DEF StatusSet
<1> QED BY Zenon, <1>1, <1>4, <1>5, <1>6, <1>7 DEF k0, X

\* The end of task p keeps the lists sound.
LEMMA LetGoSound ==
  ASSUME NEW k, NEW X, Sound(k, X), NEW p \in Slot,
         NEW s \in WakeOrders(k, lock[p])
  PROVE  /\ Sound(LetGo(k, p, s), X)
         /\ \A x \in X \cap Slot : LetGo(k, p, s).status[x] = k.status[x]
<1> DEFINE k1 == WakeWaiters(k, lock[p], s)
<1>1. /\ Sound(k1, X)
      /\ \A x \in X \cap Slot : k1.status[x] = k.status[x]
  BY WakeWaitersSound
<1> HIDE DEF k1
<1>2. /\ Sound(clear_waiting_queue(k1, p), X)
      /\ \A x \in X \cap Slot :
           clear_waiting_queue(k1, p).status[x] = k1.status[x]
  BY Zenon, <1>1, ClearSound, QueueNames
<1>3. LetGo(k, p, s) = clear_waiting_queue(k1, p)
  BY DEF LetGo, k1
<1> QED BY Zenon, <1>1, <1>2, <1>3

\* do_spawn puts the new task into the ready queue.  Its slot was in no list,
\* and its waiting_queue was empty, so that queue_init loses no task.
LEMMA SpawnResting ==
  ASSUME SwitchTypes, Resting, machine = "up", NoWaiterOnDead,
         NEW p \in FreeSlot,
         status' = queue_push(SetStatus(queue_init(Now, p), p, "CREATED"),
                              ready_queue, p).status,
         queue' = queue_push(SetStatus(queue_init(Now, p), p, "CREATED"),
                             ready_queue, p).queue,
         current_running' = current_running, machine' = machine
  PROVE  Resting'
<1> DEFINE X == {current_running}
           k0 == queue_init(Now, p)
           k1 == SetStatus(k0, p, "CREATED")
           k2 == queue_push(k1, ready_queue, p)
<1>1. /\ Now \in HandlerState /\ Now.status = status /\ Now.queue = queue
      /\ current_running \in Slot /\ status[current_running] = "RUNNING"
      /\ Sound(Now, X)
  BY NowType DEF Resting, Now
<1>2. p \in Slot /\ status[p] = "EXITED" /\ queue[p] = <<>> /\ p \in Queue
  BY Zenon, QueueNames DEF FreeSlot, NoWaiterOnDead
<1>3. k0 = Now
  <2>1. [r \in Queue |-> IF r = p THEN <<>> ELSE Now.queue[r]] = Now.queue
    BY Zenon, <1>1, <1>2 DEF HandlerState
  <2> QED BY <1>1, <2>1 DEF queue_init, HandlerState
<1> HIDE DEF X
<1>4. Sound(Now, X \cup {p}) /\ p # current_running
  <2>1. p # current_running
    BY Zenon, <1>1, <1>2
  <2>2. \A q \in Queue : ~In(Now, p, q)
    BY Zenon, <1>1, <1>2, FitsOnce DEF Sound
  <2> QED BY Zenon, <1>1, <2>1, <2>2 DEF Sound
<1>5. Sound(k2, (X \cup {p}) \ {p})
  <2>1. "CREATED" \in Status /\ Fits("CREATED", ready_queue)
    BY DEF Status, Fits
  <2> QED BY Zenon, <1>2, <1>3, <1>4, <2>1, PushSound, QueueNames
<1>6. (X \cup {p}) \ {p} = X
  BY <1>4 DEF X
<1>7. k2.status[current_running] = "RUNNING" /\ k2 \in HandlerState
  <2>1. "CREATED" \in Status
    BY DEF Status
  <2>2. /\ k1 \in HandlerState
        /\ \A x \in Slot : x # p => k1.status[x] = Now.status[x]
    BY <1>1, <1>2, <1>3, <2>1, SetStatusFacts
  <2> HIDE DEF k1
  <2>3. k2.status = k1.status /\ k2 \in HandlerState
    BY Zenon, <1>2, <2>2, PushFacts, QueueNames
  <2> QED BY Zenon, <1>1, <1>4, <2>2, <2>3
<1>8. status' = k2.status /\ queue' = k2.queue
  OBVIOUS
<1> HIDE DEF k2
<1>9. Now' = k2
  BY Zenon, <1>7, <1>8 DEF Now, HandlerState
<1>10. Sound(Now', {current_running'})
  BY <1>5, <1>6, <1>9 DEF X
<1> QED BY Zenon, <1>1, <1>7, <1>8, <1>10 DEF Resting

\* The system calls on tasks and the timer interrupt.
LEMMA RestingTaskCall ==
  ASSUME SwitchTypes, OtherTypes, Resting, NoWaiterOnDead, ~KillAnywhere,
         TaskCall \/ TimerInterrupt
  PROVE  Resting'
<1> DEFINE X == {current_running}
<1>0. machine = "up"
  BY Zenon DEF TaskCall, TimerInterrupt, InUser, do_wait_recv_package, do_sleep,
         do_spawn, do_exit, do_waitpid, do_kill
<1>00. /\ Sound(Now, X) /\ current_running \in Slot
       /\ status[current_running] = "RUNNING" /\ Now.status = status
       /\ current_running \in X /\ X \subseteq {current_running}
       /\ X \ {current_running} = {} /\ {} \subseteq {current_running}
       /\ current_running \notin {}
  BY <1>0 DEF Resting, Now
<1> HIDE DEF X
<1>1. CASE TimerInterrupt
  <2>1. CASE scheduler(Now)
    BY Zenon, <1>0, <1>00, <2>1, SchedulerResting
  <2>2. ASSUME NEW i \in DOMAIN queue[recv_block_queue],
               scheduler(MakeReady(Now, recv_block_queue, i))
        PROVE  Resting'
    <3>1. i \in DOMAIN Now.queue[recv_block_queue] /\ recv_block_queue \in Queue
      BY QueueNames DEF Now
    <3> DEFINE k == MakeReady(Now, recv_block_queue, i)
    <3>2. Sound(k, X) /\ \A x \in X \cap Slot : k.status[x] = Now.status[x]
      BY <1>00, <3>1, MakeReadySound
    <3>3. scheduler(k)
      BY <2>2
    <3> HIDE DEF k
    <3> QED BY Zenon, <1>0, <1>00, <3>2, <3>3, SchedulerResting
  <2> QED BY <1>1, <2>1, <2>2 DEF TimerInterrupt
<1>2. ASSUME NEW q \in WaitQueue, scheduler(Block(Now, q)) PROVE Resting'
  <2>1. Sound(Block(Now, q), {})
    BY <1>00, BlockSound DEF X
  <2> QED BY <1>0, <1>00, <1>2, <2>1, SchedulerResting
<1>3. CASE do_wait_recv_package
  BY <1>2, <1>3, QueueNames DEF do_wait_recv_package
<1>4. ASSUME NEW t \in SleepTimes, do_sleep(t) PROVE Resting'
  <2> DEFINE k == queue_push(SetStatus(Now, current_running, "SLEEPING"),
                             sleeping_queue, current_running)
  <2>1. "SLEEPING" \in Status /\ Fits("SLEEPING", sleeping_queue)
    BY DEF Status, Fits
  <2>2. Sound(k, X \ {current_running})
    BY Zenon, <1>00, <2>1, PushSound, QueueNames
  <2>3. scheduler(k)
    BY <1>4 DEF do_sleep
  <2> HIDE DEF k
  <2> QED BY <1>0, <1>00, <2>2, <2>3, SchedulerResting
<1>5. CASE do_spawn
  <2>1. CASE UNCHANGED <<schedVars, syncVars, pid>>
    BY <2>1 DEF schedVars, Resting, Now
  <2>2. CASE ~UNCHANGED <<schedVars, syncVars, pid>>
    BY Zenon, <1>0, <1>5, <2>2, SpawnResting DEF do_spawn
  <2> QED BY <2>1, <2>2
<1>6. CASE do_exit
  <2>1. PICK s \in WakeOrders(Now, lock[current_running]) :
          scheduler(SetStatus(LetGo(Now, current_running, s),
                              current_running, "EXITED"))
    BY <1>6 DEF do_exit
  <2>2. Sound(LetGo(Now, current_running, s), X)
    BY Zenon, <1>00, LetGoSound
  <2>3. Sound(SetStatus(LetGo(Now, current_running, s), current_running,
                        "EXITED"), X \ {current_running})
    BY Zenon, <1>00, <2>2, ExitSound
  <2> QED BY Zenon, <1>0, <1>00, <2>1, <2>3, SchedulerResting
<1>7. ASSUME NEW n \in 1 .. PID, do_waitpid(n) PROVE Resting'
  <2>1. PICK p \in Slot : scheduler(Block(Now, p))
    BY <1>7 DEF do_waitpid
  <2> QED BY <1>2, <2>1, QueueNames
<1>8. ASSUME NEW n \in 1 .. PID, do_kill(n) PROVE Resting'
  <2> DEFINE K(p) == SetStatus(TakeOut(Now, p, KillQueues(p)), p, "EXITED")
  <2>1. PICK p \in Slot :
          /\ status[p] # "EXITED"
          /\ ~KillAnywhere /\ status[p] = "BLOCKED" =>
               \E l \in LockTable : p \in Range(queue[l])
          /\ \E s \in WakeOrders(K(p), lock[p]) :
               IF p = current_running THEN scheduler(LetGo(K(p), p, s))
               ELSE Return(LetGo(K(p), p, s))
    BY Zenon, <1>8 DEF do_kill
  <2>2. CASE p = current_running
    <3>1. TakeOut(Now, p, KillQueues(p)) = Now
      <4>1. KillQueues(p) = {}
        BY Zenon, <1>00, <2>2 DEF KillQueues
      <4>2. Now \in HandlerState
        BY Zenon, <1>00 DEF Sound
      <4>3. [q \in Queue |-> IF q \in KillQueues(p) THEN Without(Now.queue[q], p)
                             ELSE Now.queue[q]] = Now.queue
        BY <4>1, <4>2 DEF HandlerState
      <4> QED BY <4>2, <4>3 DEF TakeOut, HandlerState
    <3>2. Sound(K(p), X \ {p})
      BY Zenon, <1>00, <2>2, <3>1, ExitSound
    <3> HIDE DEF K
    <3>3. PICK s \in WakeOrders(K(p), lock[p]) : scheduler(LetGo(K(p), p, s))
      BY Zenon, <2>1, <2>2
    <3>4. Sound(LetGo(K(p), p, s), X \ {p})
      BY Zenon, <3>2, LetGoSound
    <3> QED BY Zenon, <1>0, <1>00, <2>2, <3>3, <3>4, SchedulerResting
  <2>3. CASE p # current_running
    <3>1. Sound(K(p), X) /\ K(p).status[current_running] = "RUNNING"
      BY Zenon, <1>00, <2>1, <2>3, KillOtherSound DEF X
    <3> HIDE DEF K
    <3>2. PICK s \in WakeOrders(K(p), lock[p]) : Return(LetGo(K(p), p, s))
      BY Zenon, <2>1, <2>3
    <3>3. /\ Sound(LetGo(K(p), p, s), X)
          /\ \A x \in X \cap Slot : LetGo(K(p), p, s).status[x] = K(p).status[x]
      BY Zenon, <3>1, LetGoSound
    <3>4. /\ Sound(LetGo(K(p), p, s), {current_running})
          /\ LetGo(K(p), p, s).status[current_running] = "RUNNING"
      BY Zenon, <1>00, <3>1, <3>3 DEF X
    <3> QED BY Zenon, <1>0, <1>00, <3>2, <3>4, ReturnResting
  <2> QED BY Zenon, <2>2, <2>3
<1> QED BY Zenon, <1>1, <1>3, <1>4, <1>5, <1>6, <1>7, <1>8 DEF TaskCall

\* The system calls on synchronisation objects.
LEMMA RestingSyncCall ==
  ASSUME SwitchTypes, OtherTypes, Resting, SyncCall
  PROVE  Resting'
<1> DEFINE X == {current_running}
<1>0. CASE UNCHANGED schedVars
  BY Zenon, <1>0 DEF schedVars, Resting, Now
<1>1. machine = "up"
  BY Zenon DEF SyncCall, MutexCall, SemaphoreCall, ConditionCall, BarrierCall, InUser,
         ResumeAcquire, do_mutex_lock_init, do_mutex_lock_acquire,
         do_mutex_lock_release, do_semaphore_init, do_semaphore_up,
         do_semaphore_down, do_condition_wait, do_condition_signal,
         do_condition_broadcast, do_barrier_init, do_barrier_wait
<1>2. /\ Sound(Now, X) /\ current_running \in Slot
      /\ status[current_running] = "RUNNING"
      /\ Now.status = status /\ Now.queue = queue
      /\ current_running \in X \cap Slot /\ X = {current_running}
  BY Zenon, <1>1 DEF Resting, Now
<1> HIDE DEF X
<1>3. ASSUME NEW q \in WaitQueue, scheduler(Block(Now, q)) PROVE Resting'
  <2>1. Sound(Block(Now, q), {})
    BY <1>2, BlockSound
  <2>2. {} \subseteq {current_running} /\ current_running \notin {}
    BY Zenon
  <2> QED BY <1>1, <1>2, <1>3, <2>1, <2>2, SchedulerResting
<1>4. ASSUME NEW k, Return(k), Sound(k, X),
             \A x \in X \cap Slot : k.status[x] = Now.status[x]
      PROVE  Resting'
  <2>1. Sound(k, {current_running}) /\ k.status[current_running] = "RUNNING"
    BY Zenon, <1>2, <1>4
  <2> QED BY Zenon, <1>1, <1>2, <1>4, <2>1, ReturnResting
<1>5. ASSUME NEW q \in WaitQueue, ~Idle(q), Return(MakeReady(Now, q, 1))
      PROVE  Resting'
  <2>1. q \in Queue /\ Now \in HandlerState
    BY Zenon, <1>2, QueueNames DEF Sound
  <2>2. Now.queue[q] \in Seq(Slot) /\ Now.queue[q] # <<>>
    BY Zenon, <1>2, <1>5, <2>1 DEF HandlerState, Idle
  <2>3. 1 \in DOMAIN Now.queue[q]
    BY <2>2
  <2>4. /\ Sound(MakeReady(Now, q, 1), X)
        /\ \A x \in X \cap Slot : MakeReady(Now, q, 1).status[x] = Now.status[x]
    BY <1>2, <2>1, <2>3, MakeReadySound
  <2> QED BY Zenon, <1>4, <1>5, <2>4
<1>6. ASSUME NEW q \in WaitQueue, Return(clear_waiting_queue(Now, q))
      PROVE  Resting'
  <2>1. /\ Sound(clear_waiting_queue(Now, q), X)
        /\ \A x \in X \cap Slot :
             clear_waiting_queue(Now, q).status[x] = Now.status[x]
    BY Zenon, <1>2, ClearSound
  <2> QED BY Zenon, <1>4, <1>6, <2>1
<1>7. ASSUME NEW l \in Mutex, AcquireLoop(l) PROVE Resting'
  <2>1. l \in WaitQueue
    BY DEF WaitQueue
  <2> QED BY Zenon, <1>0, <1>3, <1>7, <2>1 DEF AcquireLoop
<1>8. CASE MutexCall
  <2>1. ASSUME NEW l \in Mutex, do_mutex_lock_init(l) PROVE Resting'
    BY <1>0, <2>1 DEF do_mutex_lock_init
  <2>2. ASSUME NEW l \in Mutex, do_mutex_lock_acquire(l) PROVE Resting'
    BY Zenon, <1>7, <2>2 DEF do_mutex_lock_acquire
  <2>3. ASSUME NEW l \in Mutex, do_mutex_lock_release(l) PROVE Resting'
    <3>1. PICK s \in WakeOrders(Now, <<l>>) : Return(WakeWaiters(Now, <<l>>, s))
      BY Zenon, <2>3 DEF do_mutex_lock_release
    <3>2. /\ Sound(WakeWaiters(Now, <<l>>, s), X)
          /\ \A x \in X \cap Slot :
               WakeWaiters(Now, <<l>>, s).status[x] = Now.status[x]
      BY <1>2, WakeWaitersSound
    <3> QED BY Zenon, <1>4, <3>1, <3>2
  <2> QED BY Zenon, <1>8, <2>1, <2>2, <2>3 DEF MutexCall
<1>9. CASE ResumeAcquire
  <2>1. resume[current_running] \in Mutex
    BY Zenon, <1>2, <1>9 DEF ResumeAcquire, OtherTypes
  <2> QED BY Zenon, <1>7, <1>9, <2>1 DEF ResumeAcquire
<1>10. CASE SemaphoreCall
  <2>1. PICK x \in Semaphore :
          \/ \E val \in 0 .. MaxSem : do_semaphore_init(x, val)
          \/ do_semaphore_up(x)
          \/ do_semaphore_down(x)
    BY <1>10 DEF SemaphoreCall
  <2>2. x \in WaitQueue
    BY DEF WaitQueue
  <2>3. ASSUME Return(Now) PROVE Resting'
    BY Zenon, <1>2, <1>4, <2>3
  <2>4. CASE \E val \in 0 .. MaxSem : do_semaphore_init(x, val)
    BY <1>0, <2>4 DEF do_semaphore_init
  <2>5. CASE do_semaphore_up(x)
    BY Zenon, <1>5, <2>2, <2>3, <2>5 DEF do_semaphore_up
  <2>6. CASE do_semaphore_down(x)
    BY <1>3, <2>2, <2>3, <2>6 DEF do_semaphore_down
  <2> QED BY <2>1, <2>4, <2>5, <2>6
<1>11. CASE ConditionCall
  <2>1. PICK c \in Condition :
          \/ \E l \in Mutex : do_condition_wait(l, c)
          \/ do_condition_signal(c)
          \/ do_condition_broadcast(c)
    BY <1>11 DEF ConditionCall
  <2>2. c \in WaitQueue
    BY Zenon DEF WaitQueue
  <2>3. ASSUME NEW l \in Mutex, do_condition_wait(l, c) PROVE Resting'
    <3> DEFINE k == Block(Now, c)
    <3>1. PICK s \in WakeOrders(k, <<l>>) : scheduler(WakeWaiters(k, <<l>>, s))
      BY Zenon, <2>3 DEF do_condition_wait
    <3>2. Sound(k, {})
      BY Zenon, <1>2, <2>2, BlockSound
    <3> HIDE DEF k
    <3>3. Sound(WakeWaiters(k, <<l>>, s), {})
      BY <3>1, <3>2, WakeWaitersSound
    <3>4. {} \subseteq {current_running} /\ current_running \notin {}
      OBVIOUS
    <3> QED BY <1>1, <1>2, <3>1, <3>3, <3>4, SchedulerResting
  <2>4. CASE do_condition_signal(c)
    BY <1>5, <2>2, <2>4 DEF do_condition_signal
  <2>5. CASE do_condition_broadcast(c)
    BY <1>6, <2>2, <2>5 DEF do_condition_broadcast
  <2> QED BY <2>1, <2>3, <2>4, <2>5
<1>12. CASE BarrierCall
  <2>1. PICK b \in Barrier :
          \/ \E goal \in 1 .. MaxGoal : do_barrier_init(b, goal)
          \/ do_barrier_wait(b)
    BY <1>12 DEF BarrierCall
  <2>2. b \in WaitQueue
    BY DEF WaitQueue
  <2>3. CASE \E goal \in 1 .. MaxGoal : do_barrier_init(b, goal)
    BY Zenon, <1>0, <2>3 DEF do_barrier_init
  <2>4. CASE do_barrier_wait(b)
    BY <1>3, <1>6, <2>2, <2>4 DEF do_barrier_wait
  <2> QED BY <2>1, <2>3, <2>4
<1> QED BY <1>8, <1>9, <1>10, <1>11, <1>12 DEF SyncCall

LEMMA RestingStep ==
  ASSUME TypeOK, NoWaiterOnDead, Resting, ~KillAnywhere, [Next]_vars
  PROVE  Resting'
<1>1. SwitchTypes /\ OtherTypes
  BY TypeParts
<1>2. CASE UNCHANGED vars
  BY <1>2 DEF vars, schedVars, Resting, Now
<1> QED BY <1>1, <1>2, RestingTaskCall, RestingSyncCall DEF Next

\* As long as programs kill blocked tasks only when these wait for a mutex of
\* the table Lock[], every pcb is in exactly the list its status says: no task
\* is lost, and none is in two lists, which is what queue.c relies on.
THEOREM EveryTaskPlaced == ASSUME ~KillAnywhere PROVE Spec => []Placed
<1>1. Init => Resting
  <2> SUFFICES ASSUME Init PROVE Resting
    OBVIOUS
  <2>1. TypeOK
    BY Zenon, InitTypes
  <2>2. Placed
    <3>1. /\ ready_queue \in Queue /\ sleeping_queue \in Queue
          /\ WaitQueue \subseteq Queue
      BY QueueNames
    <3>2. /\ \A q \in Queue : queue[q] = <<>>
          /\ machine = "up" /\ current_running = 1
          /\ \A p \in Slot : status[p] = IF p = 1 THEN "RUNNING" ELSE "EXITED"
      BY DEF Init
    <3>3. IsInjective(<<>>) /\ Range(<<>>) = {}
      BY DEF IsInjective, Range
    <3>4. \A q \in Queue : IsInjective(queue[q]) /\ Range(queue[q]) = {}
      BY <3>2, <3>3
    <3>5. OneList
      BY <3>4 DEF OneList
    <3>6. \A p \in Slot, q \in Queue : ~InQueue(p, q)
      BY <3>4 DEF InQueue
    <3> QED BY <3>1, <3>2, <3>5, <3>6 DEF Placed
  <2> QED BY <2>1, <2>2, PlacedIsResting
<1>2. TypeOK /\ NoWaiterOnDead /\ Resting /\ [Next]_vars => Resting'
  BY RestingStep
<1>3. TypeOK /\ Resting => Placed
  BY PlacedIsResting
<1> QED BY <1>1, <1>2, <1>3, TypeCorrect, NobodyWaitsForDead, PTL DEF Spec

-----------------------------------------------------------------------------
(***************************************************************************)
(* The end of a task is final, and do_waitpid waits for it                 *)
(***************************************************************************)

\* No handler step brings an EXITED task back.
SameDead(k, h) ==
  \A x \in Slot : k.status[x] = "EXITED" => h.status[x] = "EXITED"

\* The tasks of a list are alive.
LEMMA ListedIsAlive ==
  ASSUME NEW k, NEW X, Sound(k, X), NEW x \in Slot, NEW q \in Queue, In(k, x, q)
  PROVE  k.status[x] # "EXITED"
  BY Zenon, FitsOnce DEF Sound

\* Waking one task.
LEMMA MakeReadyDead ==
  ASSUME NEW k, NEW X, Sound(k, X), NEW q \in Queue, NEW i \in DOMAIN k.queue[q]
  PROVE  SameDead(k, MakeReady(k, q, i))
<1> DEFINE p  == k.queue[q][i]
           k1 == queue_remove(k, q, i)
           k2 == SetStatus(k1, p, "READY")
           k3 == queue_push(k2, ready_queue, p)
<1>1. k \in HandlerState /\ "READY" \in Status /\ ready_queue \in Queue
  BY Zenon, QueueNames DEF Sound, Status
<1>2. p \in Slot /\ k.status[p] # "EXITED"
  <2>1. p \in Slot /\ Fits(k.status[p], q)
    BY Zenon, RemoveSound
  <2> QED BY Zenon, <2>1, FitsOnce
<1>3. k1 \in HandlerState /\ k1.status = k.status
  BY <1>1, RemoveFacts
<1> HIDE DEF p, k1
<1>4. k2 \in HandlerState /\ \A x \in Slot : x # p => k2.status[x] = k1.status[x]
  BY Zenon, <1>1, <1>2, <1>3, SetStatusFacts
<1> HIDE DEF k2
<1>5. k3.status = k2.status
  BY Zenon, <1>1, <1>2, <1>4, PushFacts
<1>6. k3 = MakeReady(k, q, i)
  BY DEF k1, k2, p, MakeReady
<1> HIDE DEF k3
<1>7. SameDead(k, k3)
  BY <1>2, <1>3, <1>4, <1>5 DEF SameDead
<1> QED BY <1>6, <1>7

\* do_mutex_lock_release.
LEMMA WakeDead ==
  ASSUME NEW k, NEW X, Sound(k, X), NEW arr, NEW s \in WakeOrders(k, arr)
  PROVE  SameDead(k, WakeWaiters(k, arr, s))
<1> DEFINE k1 == WakeWaiters(k, arr, s)
<1>1. Range(s) = Woken(k, arr)
  <2>1. k \in HandlerState
    BY Zenon DEF Sound
  <2> QED BY Zenon, <2>1, WakeOrderFacts
<1>2. \A x \in Slot : k1.status[x] = IF x \in Range(s) THEN "READY"
                                     ELSE k.status[x]
  BY DEF WakeWaiters
<1>3. ASSUME NEW x \in Slot, x \in Range(s) PROVE k.status[x] # "EXITED"
  <2>1. PICK l \in Locked(arr) : x \in Range(k.queue[l])
    BY <1>1, <1>3 DEF Woken
  <2>2. l \in Queue /\ In(k, x, l)
    BY <2>1, QueueNames DEF Locked, In
  <2> QED BY Zenon, <2>2, ListedIsAlive
<1> HIDE DEF k1
<1>4. SameDead(k, k1)
  BY <1>2, <1>3 DEF SameDead
<1> QED BY <1>4 DEF k1

\* clear_waiting_queue.
LEMMA ClearDead ==
  ASSUME NEW k, NEW X, Sound(k, X), NEW q \in WaitQueue
  PROVE  SameDead(k, clear_waiting_queue(k, q))
<1> DEFINE k1 == clear_waiting_queue(k, q)
<1>1. \A x \in Slot : k1.status[x] = IF x \in Range(k.queue[q]) THEN "READY"
                                     ELSE k.status[x]
  BY DEF clear_waiting_queue
<1>2. ASSUME NEW x \in Slot, x \in Range(k.queue[q])
      PROVE  k.status[x] # "EXITED"
  <2>1. q \in Queue /\ In(k, x, q)
    BY <1>2, QueueNames DEF In
  <2> QED BY Zenon, <2>1, ListedIsAlive
<1> HIDE DEF k1
<1>3. SameDead(k, k1)
  BY Zenon, <1>1, <1>2 DEF SameDead
<1> QED BY <1>3 DEF k1

\* The end of task p.
LEMMA LetGoDead ==
  ASSUME NEW k, NEW X, Sound(k, X), NEW p \in Slot,
         NEW s \in WakeOrders(k, lock[p])
  PROVE  SameDead(k, LetGo(k, p, s))
<1> DEFINE k1 == WakeWaiters(k, lock[p], s)
<1>1. Sound(k1, X) /\ SameDead(k, k1) /\ p \in WaitQueue
  BY Zenon, WakeWaitersSound, WakeDead, QueueNames
<1> HIDE DEF k1
<1>2. SameDead(k1, clear_waiting_queue(k1, p))
  BY Zenon, <1>1, ClearDead
<1>3. clear_waiting_queue(k1, p) = LetGo(k, p, s)
  BY DEF LetGo, k1
<1> QED BY Zenon, <1>1, <1>2, <1>3 DEF SameDead

\* scheduler() as a whole.
LEMMA SchedulerDead ==
  ASSUME NEW k, NEW X, Sound(k, X), X \subseteq {current_running},
         current_running \in Slot, scheduler(k)
  PROVE  \A x \in Slot : k.status[x] = "EXITED" => status'[x] = "EXITED"
<1> DEFINE cur == current_running
           k1 == IF k.status[cur] = "RUNNING"
                 THEN queue_push(SetStatus(k, cur, "READY"), ready_queue, cur)
                 ELSE k
<1>1. (Sound(k1, X \ {cur}) /\ SameDead(k, k1)) \/ k1 = k
  <2>1. CASE k.status[cur] = "RUNNING"
    <3>1. cur \in X /\ k \in HandlerState
      BY Zenon, <2>1 DEF Sound
    <3>2. /\ "READY" \in Status /\ Fits("READY", ready_queue)
          /\ ready_queue \in Queue
      BY QueueNames DEF Status, Fits
    <3> DEFINE h0 == SetStatus(k, cur, "READY")
               h1 == queue_push(h0, ready_queue, cur)
    <3>3. Sound(h1, X \ {cur})
      BY Zenon, <3>1, <3>2, PushSound
    <3>4. /\ h0 \in HandlerState
          /\ \A x \in Slot : x # cur => h0.status[x] = k.status[x]
      <4>1. StatusSet(k, h0, cur, "READY")
        BY Zenon, <3>1, <3>2, StatusIsSet
      <4> HIDE DEF h0
      <4> QED BY Zenon, <4>1 DEF StatusSet
    <3> HIDE DEF h0
    <3>5. h1.status = h0.status
      BY <3>2, <3>4, PushFacts
    <3>6. k1 = h1
      BY <2>1 DEF h0
    <3> HIDE DEF h1, k1
    <3>7. SameDead(k, h1)
      BY <2>1, <3>4, <3>5 DEF SameDead
    <3> QED BY <3>3, <3>6, <3>7
  <2>2. CASE k.status[cur] # "RUNNING"
    BY Zenon, <2>2
  <2> QED BY Zenon, <2>1, <2>2
<1>2. \/ SwitchTask(k1)
      \/ \E i \in DOMAIN k1.queue[sleeping_queue] :
           SwitchTask(MakeReady(k1, sleeping_queue, i))
  BY Zenon DEF scheduler
<1> HIDE DEF k1
<1>3. PICK Y : Sound(k1, Y) /\ SameDead(k, k1)
  BY <1>1 DEF SameDead
<1>4. ASSUME NEW h, Sound(h, Y), SwitchTask(h)
      PROVE  \A x \in Slot : h.status[x] = "EXITED" => status'[x] = "EXITED"
  <2>1. CASE status' = h.status
    BY Zenon, <2>1
  <2>2. ASSUME NEW i \in DOMAIN h.queue[ready_queue],
               status' = SetStatus(h, h.queue[ready_queue][i], "RUNNING").status
        PROVE  \A x \in Slot : h.status[x] = "EXITED" => status'[x] = "EXITED"
    <3> DEFINE p == h.queue[ready_queue][i]
    <3>1. p \in Slot /\ Fits(h.status[p], ready_queue)
      BY Zenon, <1>4, QueueNames, RemoveSound
    <3>2. h.status[p] # "EXITED"
      BY Zenon, <3>1, QueueNames, FitsOnce
    <3>3. h \in HandlerState /\ "RUNNING" \in Status
      BY Zenon, <1>4 DEF Sound, Status
    <3>4. status' = SetStatus(h, p, "RUNNING").status
      BY <2>2
    <3> HIDE DEF p
    <3>5. \A x \in Slot : x # p => status'[x] = h.status[x]
      <4>1. StatusSet(h, SetStatus(h, p, "RUNNING"), p, "RUNNING")
        BY Zenon, <3>1, <3>3, StatusIsSet
      <4> QED BY Zenon, <3>4, <4>1 DEF StatusSet
    <3> QED BY <3>2, <3>5
  <2> QED BY Zenon, <1>4, <2>1, <2>2 DEF SwitchTask
<1>5. CASE SwitchTask(k1)
  BY Zenon, <1>3, <1>4, <1>5 DEF SameDead
<1>6. ASSUME NEW i \in DOMAIN k1.queue[sleeping_queue],
             SwitchTask(MakeReady(k1, sleeping_queue, i))
      PROVE  \A x \in Slot : k.status[x] = "EXITED" => status'[x] = "EXITED"
  <2>1. /\ Sound(MakeReady(k1, sleeping_queue, i), Y)
        /\ SameDead(k1, MakeReady(k1, sleeping_queue, i))
    BY Zenon, <1>3, QueueNames, MakeReadySound, MakeReadyDead
  <2> QED BY <1>3, <1>4, <1>6, <2>1 DEF SameDead
<1> QED BY <1>2, <1>5, <1>6

\* What a step may do to the end of tasks: an EXITED task stays EXITED until
\* do_spawn reuses its slot, and a waiting_queue loses tasks only when its
\* owner is EXITED.
LifeStep ==
  /\ \A x \in Slot : status[x] = "EXITED" =>
       \/ status'[x] = "EXITED"
       \/ status'[x] = "CREATED" /\ pid'[x] > PID
  /\ \A t \in Slot : \/ Range(queue[t]) \subseteq Range(queue'[t])
                      \/ status'[t] = "EXITED"

\* The end of a handler, in the terms of the state it has reached.
LEMMA LifeEnd ==
  ASSUME SwitchTypes, NEW k, NEW X, Sound(k, X), X \subseteq {current_running},
         scheduler(k) \/ Return(k)
  PROVE  /\ \A x \in Slot : k.status[x] = "EXITED" => status'[x] = "EXITED"
         /\ \A q \in WaitQueue : queue'[q] = k.queue[q]
<1>1. current_running \in Slot /\ k \in HandlerState
  BY Zenon DEF SwitchTypes, Sound
<1>2. \A q \in WaitQueue : queue'[q] = k.queue[q]
  BY Zenon, <1>1, EndKeeps
<1>3. CASE scheduler(k)
  BY Zenon, <1>1, <1>2, <1>3, SchedulerDead
<1>4. CASE Return(k)
  BY <1>2, <1>4 DEF Return
<1> QED BY Zenon, <1>3, <1>4

\* A handler that only wakes tasks, or blocks its caller.
LEMMA LifePlain ==
  ASSUME SwitchTypes, NEW k, NEW X, Sound(k, X), X \subseteq {current_running},
         scheduler(k) \/ Return(k), SameDead(Now, k),
         \A t \in Slot : Range(queue[t]) \subseteq Range(k.queue[t])
  PROVE  LifeStep
<1>1. /\ \A x \in Slot : k.status[x] = "EXITED" => status'[x] = "EXITED"
      /\ \A q \in WaitQueue : queue'[q] = k.queue[q]
  BY Zenon, LifeEnd
<1>2. Slot \subseteq WaitQueue /\ Now.status = status
  BY Zenon, QueueNames DEF Now
<1> QED BY Zenon, <1>1, <1>2 DEF SameDead, LifeStep

\* A handler that ends task p.
LEMMA LifeLetGo ==
  ASSUME SwitchTypes, NEW k, NEW X, Sound(k, X), X \subseteq {current_running},
         NEW p \in Slot, SameDead(Now, k), k.status[p] = "EXITED",
         \A t \in Slot : t # p => k.queue[t] = queue[t],
         scheduler(k) \/ Return(k)
  PROVE  LifeStep
<1>1. /\ \A x \in Slot : k.status[x] = "EXITED" => status'[x] = "EXITED"
      /\ \A q \in WaitQueue : queue'[q] = k.queue[q]
  BY Zenon, LifeEnd
<1>2. Slot \subseteq WaitQueue /\ Now.status = status
  BY Zenon, QueueNames DEF Now
<1>3. \A t \in Slot : t # p => Range(queue[t]) \subseteq Range(queue'[t])
  BY Zenon, <1>1, <1>2
<1> QED BY <1>1, <1>2, <1>3 DEF SameDead, LifeStep

\* The current task blocks.
LEMMA LifeBlock ==
  ASSUME SwitchTypes, Sound(Now, {current_running}),
         status[current_running] = "RUNNING", NEW q \in WaitQueue,
         scheduler(Block(Now, q))
  PROVE  LifeStep
<1> DEFINE k == Block(Now, q)
<1>1. /\ current_running \in Slot /\ Now \in HandlerState /\ q \in Queue
      /\ Now.status = status
      /\ \A r \in WaitQueue : k.queue[r] =
           IF r = q THEN Append(queue[q], current_running) ELSE queue[r]
      /\ Slot \subseteq WaitQueue /\ WaitQueue \subseteq Queue
  <2>1. Touched(k, q, Append(queue[q], current_running))
    BY Zenon, BlockStep
  <2> HIDE DEF k
  <2> QED BY Zenon, <2>1, NowFacts, QueueNames DEF Touched
<1>2. Sound(k, {})
  BY Zenon, <1>1, BlockSound
<1>3. \A x \in Slot : k.status[x] = IF x = current_running THEN "BLOCKED"
                                    ELSE Now.status[x]
  BY Zenon, <1>1, BlockKeeps
<1>4. scheduler(k)
  OBVIOUS
<1> HIDE DEF k
<1>5. SameDead(Now, k)
  BY Zenon, <1>1, <1>3 DEF SameDead
<1>6. \A t \in Slot : Range(queue[t]) \subseteq Range(k.queue[t])
  <2> TAKE t \in Slot
  <2>1. queue[t] \in Seq(Slot)
    BY Zenon, <1>1 DEF SwitchTypes
  <2>2. Range(Append(queue[t], current_running)) =
          Range(queue[t]) \cup {current_running}
    BY <1>1, <2>1, AppendElement
  <2> QED BY Zenon, <1>1, <2>2
<1>7. {} \subseteq {current_running}
  OBVIOUS
<1> QED BY Zenon, <1>2, <1>4, <1>5, <1>6, <1>7, LifePlain

\* The system calls on tasks and the timer interrupt.
LEMMA LifeTaskCall ==
  ASSUME SwitchTypes, OtherTypes, Resting, NoWaiterOnDead, ~KillAnywhere,
         TaskCall \/ TimerInterrupt
  PROVE  LifeStep
<1> DEFINE X == {current_running}
<1>0. machine = "up"
  BY Zenon DEF TaskCall, TimerInterrupt, InUser, do_wait_recv_package, do_sleep,
         do_spawn, do_exit, do_waitpid, do_kill
<1>00. /\ Sound(Now, X) /\ current_running \in Slot /\ Now \in HandlerState
       /\ status[current_running] = "RUNNING"
       /\ Now.status = status /\ Now.queue = queue
       /\ current_running \in X /\ X \subseteq {current_running}
       /\ X \ {current_running} = {} /\ {} \subseteq {current_running}
       /\ SameDead(Now, Now)
  BY Zenon, <1>0 DEF Resting, Now, Sound, SameDead
<1>000. /\ recv_block_queue \in WaitQueue /\ recv_block_queue \in Queue
        /\ Slot \subseteq WaitQueue /\ WaitQueue \subseteq Queue
        /\ recv_block_queue \notin Slot /\ sleeping_queue \notin Slot
        /\ ready_queue \notin Slot
        /\ ready_queue \in Queue /\ sleeping_queue \in Queue
        /\ "SLEEPING" \in Status /\ "EXITED" \in Status /\ "CREATED" \in Status
  BY QueueNames, ObjectAssumption DEF Status
<1> HIDE DEF X
<1>1. CASE TimerInterrupt
  <2>1. CASE scheduler(Now)
    BY Zenon, <1>00, <2>1, LifePlain
  <2>2. ASSUME NEW i \in DOMAIN queue[recv_block_queue],
               scheduler(MakeReady(Now, recv_block_queue, i))
        PROVE  LifeStep
    <3> DEFINE k == MakeReady(Now, recv_block_queue, i)
    <3>1. i \in DOMAIN Now.queue[recv_block_queue]
      BY <1>00
    <3>2. Sound(k, X) /\ SameDead(Now, k)
      BY Zenon, <1>00, <1>000, <3>1, MakeReadySound, MakeReadyDead
    <3>3. \A t \in Slot : k.queue[t] = queue[t]
      <4>1. \A r \in WaitQueue : r # recv_block_queue => k.queue[r] = queue[r]
        BY Zenon, <1>000, <2>2, ReadyStep DEF Touched
      <4> HIDE DEF k
      <4> QED BY Zenon, <1>000, <4>1
    <3>4. scheduler(k)
      BY <2>2
    <3> HIDE DEF k
    <3>5. \A t \in Slot : Range(queue[t]) \subseteq Range(k.queue[t])
      BY <3>3
    <3> QED BY Zenon, <1>00, <3>2, <3>4, <3>5, LifePlain
  <2> QED BY <1>1, <2>1, <2>2 DEF TimerInterrupt
<1>2. ASSUME NEW q \in WaitQueue, scheduler(Block(Now, q)) PROVE LifeStep
  BY Zenon, <1>00, <1>2, LifeBlock DEF X
<1>3. CASE do_wait_recv_package
  BY <1>000, <1>2, <1>3 DEF do_wait_recv_package
<1>4. ASSUME NEW t \in SleepTimes, do_sleep(t) PROVE LifeStep
  <2> DEFINE k1 == SetStatus(Now, current_running, "SLEEPING")
             k == queue_push(k1, sleeping_queue, current_running)
  <2>1. Fits("SLEEPING", sleeping_queue)
    BY DEF Fits
  <2>2. Sound(k, {})
    <3>1. Sound(k, X \ {current_running})
      BY Zenon, <1>00, <1>000, <2>1, PushSound
    <3> QED BY Zenon, <1>00, <3>1
  <2>3. /\ k1 \in HandlerState /\ k1.queue = Now.queue
        /\ \A x \in Slot : x # current_running => k1.status[x] = Now.status[x]
    <3>1. /\ Now \in HandlerState /\ current_running \in Slot
          /\ "SLEEPING" \in Status
      BY <1>00, <1>000
    <3>2. StatusSet(Now, k1, current_running, "SLEEPING")
      BY Zenon, <3>1, StatusIsSet
    <3> HIDE DEF k1
    <3> QED BY Zenon, <3>2 DEF StatusSet
  <2> HIDE DEF k1
  <2>4. /\ k.status = k1.status
        /\ \A r \in Queue : r # sleeping_queue => k.queue[r] = k1.queue[r]
    <3>1. k.status = k1.status
      BY Zenon, <1>00, <1>000, <2>3, PushFacts
    <3>2. \A r \in Queue : r # sleeping_queue => k.queue[r] = k1.queue[r]
      BY Zenon, <1>00, <1>000, <2>3, PushFacts
    <3> QED BY Zenon, <3>1, <3>2
  <2>5. scheduler(k)
    BY <1>4 DEF do_sleep, k1
  <2> HIDE DEF k
  <2>6. SameDead(Now, k)
    BY <1>00, <2>3, <2>4 DEF SameDead
  <2>7. \A x \in Slot : k.queue[x] = queue[x]
    BY Zenon, <1>00, <1>000, <2>3, <2>4
  <2>8. \A x \in Slot : Range(queue[x]) \subseteq Range(k.queue[x])
    BY <2>7
  <2> QED BY Zenon, <1>00, <2>2, <2>5, <2>6, <2>8, LifePlain
<1>5. CASE do_spawn
  <2>1. CASE UNCHANGED <<schedVars, syncVars, pid>>
    BY <2>1 DEF schedVars, LifeStep
  <2>2. ASSUME NEW p \in FreeSlot, pid' = [pid EXCEPT ![p] = NewPid],
               status' = queue_push(SetStatus(queue_init(Now, p), p, "CREATED"),
                                    ready_queue, p).status,
               queue' = queue_push(SetStatus(queue_init(Now, p), p, "CREATED"),
                                   ready_queue, p).queue
        PROVE  LifeStep
    <3> DEFINE k0 == queue_init(Now, p)
               k1 == SetStatus(k0, p, "CREATED")
               k2 == queue_push(k1, ready_queue, p)
    <3>1. p \in Slot /\ p \in Queue /\ queue[p] = <<>>
      BY <1>000 DEF FreeSlot, NoWaiterOnDead
    <3>2. k0 = Now
      <4>1. [r \in Queue |-> IF r = p THEN <<>> ELSE Now.queue[r]] = Now.queue
        BY <1>00, <3>1 DEF HandlerState
      <4> QED BY <1>00, <4>1 DEF queue_init, HandlerState
    <3> HIDE DEF k0
    <3>3. /\ k1 \in HandlerState /\ k1.queue = Now.queue
          /\ \A x \in Slot : x # p => k1.status[x] = Now.status[x]
          /\ k1.status[p] = "CREATED"
      <4>1. Now \in HandlerState /\ p \in Slot /\ "CREATED" \in Status
        BY <1>00, <1>000, <3>1
      <4> DEFINE h == SetStatus(Now, p, "CREATED")
      <4>2. /\ h \in HandlerState /\ h.queue = Now.queue
            /\ \A x \in Slot : x # p => h.status[x] = Now.status[x]
            /\ h.status[p] = "CREATED"
        <5>1. StatusSet(Now, h, p, "CREATED")
          BY Zenon, <4>1, StatusIsSet
        <5> HIDE DEF h
        <5> QED BY Zenon, <5>1 DEF StatusSet
      <4>3. k1 = h
        BY <3>2
      <4> HIDE DEF h, k1
      <4> QED BY ONLY <4>2, <4>3
    <3> HIDE DEF k1
    <3>4. /\ k2.status = k1.status
          /\ \A r \in Queue : r # ready_queue => k2.queue[r] = k1.queue[r]
      BY Zenon, <1>000, <3>1, <3>3, PushFacts
    <3>5. status' = k2.status /\ queue' = k2.queue
      BY <2>2 DEF k0, k1
    <3> HIDE DEF k2
    <3>6. pid'[p] > PID
      <4>1. pid \in [Slot -> Nat] /\ PID \in Nat
        BY Zenon DEF OtherTypes
      <4>2. pid' = [pid EXCEPT ![p] = NewPid]
        BY Zenon, <2>2
      <4>3. pid'[p] = NewPid
        BY Zenon, <3>1, <4>1, <4>2
      <4> QED BY <4>1, <4>3 DEF NewPid
    <3>7. \A x \in Slot : queue'[x] = queue[x]
      BY Zenon, <1>00, <1>000, <3>3, <3>4, <3>5
    <3>8. \A x \in Slot : x # p => status'[x] = status[x]
      BY Zenon, <1>00, <3>3, <3>4, <3>5
    <3>9. status'[p] = "CREATED"
      BY Zenon, <3>3, <3>4, <3>5
    <3> QED BY <3>6, <3>7, <3>8, <3>9 DEF LifeStep
  <2> QED BY Zenon, <1>5, <2>1, <2>2 DEF do_spawn
<1>6. CASE do_exit
  <2>1. PICK s \in WakeOrders(Now, lock[current_running]) :
          scheduler(SetStatus(LetGo(Now, current_running, s),
                              current_running, "EXITED"))
    BY <1>6 DEF do_exit
  <2> DEFINE k1 == LetGo(Now, current_running, s)
             k2 == SetStatus(k1, current_running, "EXITED")
  <2>2. Sound(k1, X) /\ SameDead(Now, k1)
    BY Zenon, <1>00, LetGoSound, LetGoDead
  <2>3. \A t \in Slot : t # current_running => k1.queue[t] = Now.queue[t]
    <3>1. s \in Seq(Slot)
      BY Zenon, <1>00, WakeOrderFacts
    <3> QED BY <1>00, <3>1, LetGoKeeps
  <2>4. scheduler(k2)
    BY <2>1
  <2> HIDE DEF k1
  <2>5. Sound(k2, {})
    <3>1. Sound(k2, X \ {current_running})
      BY Zenon, <1>00, <2>2, ExitSound
    <3> QED BY Zenon, <1>00, <3>1
  <2>6. /\ k2.queue = k1.queue /\ k2.status[current_running] = "EXITED"
        /\ \A x \in Slot : x # current_running => k2.status[x] = k1.status[x]
    <3>1. k1 \in HandlerState /\ current_running \in Slot /\ "EXITED" \in Status
      BY Zenon, <1>00, <1>000, <2>2 DEF Sound
    <3>2. StatusSet(k1, k2, current_running, "EXITED")
      BY Zenon, <3>1, StatusIsSet
    <3> HIDE DEF k2
    <3> QED BY Zenon, <3>2 DEF StatusSet
  <2> HIDE DEF k2
  <2>7. SameDead(Now, k2)
    BY <2>2, <2>6 DEF SameDead
  <2>8. \A t \in Slot : t # current_running => k2.queue[t] = queue[t]
    BY Zenon, <1>00, <2>3, <2>6
  <2> QED BY Zenon, <1>00, <2>4, <2>5, <2>6, <2>7, <2>8, LifeLetGo
<1>7. ASSUME NEW n \in 1 .. PID, do_waitpid(n) PROVE LifeStep
  <2>1. PICK p \in Slot : scheduler(Block(Now, p))
    BY <1>7 DEF do_waitpid
  <2> QED BY Zenon, <1>000, <1>2, <2>1
<1>8. ASSUME NEW n \in 1 .. PID, do_kill(n) PROVE LifeStep
  <2> DEFINE K(p) == SetStatus(TakeOut(Now, p, KillQueues(p)), p, "EXITED")
  <2>1. PICK p \in Slot :
          /\ status[p] # "EXITED"
          /\ ~KillAnywhere /\ status[p] = "BLOCKED" =>
               \E l \in LockTable : p \in Range(queue[l])
          /\ \E s \in WakeOrders(K(p), lock[p]) :
               IF p = current_running THEN scheduler(LetGo(K(p), p, s))
               ELSE Return(LetGo(K(p), p, s))
    BY Zenon, <1>8 DEF do_kill
  <2> DEFINE k0 == TakeOut(Now, p, KillQueues(p))
             k1 == SetStatus(k0, p, "EXITED")
  <2>2. /\ k0 \in HandlerState /\ k0.status = Now.status
        /\ \A t \in Slot : k0.queue[t] = queue[t]
    <3>1. KillQueues(p) \cap Slot = {}
      BY <1>000, ObjectAssumption, KernelAssumption DEF KillQueues
    <3>2. k0 \in HandlerState
      BY Zenon, <1>00, TakeOutTypes
    <3>3. \A t \in Slot : t \in Queue /\ t \notin KillQueues(p)
      BY <1>000, <3>1
    <3> QED BY Zenon, <1>00, <3>2, <3>3 DEF TakeOut, HandlerState
  <2>3. Sound(k1, X \ {p})
    <3>1. CASE p = current_running
      <4>1. k0 = Now
        <5>1. KillQueues(p) = {}
          BY <1>00, <3>1 DEF KillQueues
        <5>2. [q \in Queue |-> IF q \in KillQueues(p)
                               THEN Without(Now.queue[q], p)
                               ELSE Now.queue[q]] = Now.queue
          BY <1>00, <5>1 DEF HandlerState
        <5> QED BY <1>00, <5>2 DEF TakeOut, HandlerState
      <4> HIDE DEF k0
      <4> QED BY Zenon, <1>00, <3>1, <4>1, ExitSound
    <3>2. CASE p # current_running
      <4>1. Sound(k1, {current_running})
        BY Zenon, <1>00, <2>1, <3>2, KillOtherSound DEF X
      <4>2. X \ {p} = {current_running}
        BY <3>2 DEF X
      <4> HIDE DEF k1
      <4> QED BY Zenon, <4>1, <4>2
    <3> QED BY <3>1, <3>2
  <2> HIDE DEF k0
  <2>4. /\ k1.queue = k0.queue /\ k1.status[p] = "EXITED"
        /\ \A x \in Slot : x # p => k1.status[x] = k0.status[x]
    <3>1. k0 \in HandlerState /\ "EXITED" \in Status
      BY <1>000, <2>2
    <3>2. StatusSet(k0, k1, p, "EXITED")
      BY Zenon, <3>1, StatusIsSet
    <3> HIDE DEF k1
    <3> QED BY Zenon, <3>2 DEF StatusSet
  <2>5. PICK s \in WakeOrders(k1, lock[p]) :
          scheduler(LetGo(k1, p, s)) \/ Return(LetGo(k1, p, s))
    BY Zenon, <2>1 DEF k0
  <2> HIDE DEF k1
  <2> DEFINE k2 == LetGo(k1, p, s)
  <2>6. /\ Sound(k2, X \ {p}) /\ SameDead(k1, k2)
        /\ X \ {p} \subseteq {current_running}
    <3>1. Sound(k2, X \ {p}) /\ SameDead(k1, k2)
      BY Zenon, <2>3, LetGoSound, LetGoDead
    <3> QED BY Zenon, <1>00, <3>1
  <2>7. \A t \in Slot : t # p => k2.queue[t] = k1.queue[t]
    <3>1. k1 \in HandlerState
      BY Zenon, <2>3 DEF Sound
    <3>2. s \in Seq(Slot)
      BY Zenon, <3>1, WakeOrderFacts
    <3> QED BY <3>1, <3>2, LetGoKeeps
  <2>8. scheduler(k2) \/ Return(k2)
    BY <2>5
  <2> HIDE DEF k2
  <2>9. SameDead(Now, k2) /\ k2.status[p] = "EXITED"
    BY Zenon, <2>2, <2>4, <2>6 DEF SameDead
  <2>10. \A t \in Slot : t # p => k2.queue[t] = queue[t]
    BY Zenon, <2>2, <2>4, <2>7
  <2> QED BY Zenon, <2>6, <2>8, <2>9, <2>10, LifeLetGo
<1> QED BY Zenon, <1>1, <1>3, <1>4, <1>5, <1>6, <1>7, <1>8 DEF TaskCall

\* The synchronisation primitives never touch a waiting_queue.
LEMMA LifeSyncCall ==
  ASSUME SwitchTypes, OtherTypes, Resting, SyncCall
  PROVE  LifeStep
<1> DEFINE X == {current_running}
           SameQueues == \A t \in Slot : queue'[t] = queue[t]
           StayDead == \A x \in Slot : status[x] = "EXITED" => status'[x] = "EXITED"
<1>0. machine = "up"
  BY Zenon DEF SyncCall, MutexCall, SemaphoreCall, ConditionCall, BarrierCall,
         InUser, ResumeAcquire, do_mutex_lock_init, do_mutex_lock_acquire,
         do_mutex_lock_release, do_semaphore_init, do_semaphore_up,
         do_semaphore_down, do_condition_wait, do_condition_signal,
         do_condition_broadcast, do_barrier_init, do_barrier_wait
<1>1. /\ Sound(Now, X) /\ current_running \in Slot /\ Now \in HandlerState
      /\ status[current_running] = "RUNNING"
      /\ Now.status = status /\ Now.queue = queue
      /\ X \subseteq {current_running} /\ {} \subseteq {current_running}
      /\ SameDead(Now, Now)
  BY Zenon, <1>0 DEF Resting, Now, Sound, SameDead
<1>2. \A t \in Slot : t \in WaitQueue
        /\ t \notin Mutex \cup Semaphore \cup Condition \cup Barrier
  BY QueueNames, ObjectAssumption
<1> HIDE DEF X
<1>3. SameQueues
  <2>1. CASE MutexCall \/ ResumeAcquire
    BY <1>2, <2>1, MutexQueues
  <2>2. CASE SemaphoreCall
    BY <1>2, <2>2, SemaphoreQueues
  <2>3. CASE ConditionCall
    BY <1>2, <2>3, ConditionQueues
  <2>4. CASE BarrierCall
    BY <1>2, <2>4, BarrierQueues
  <2> QED BY <2>1, <2>2, <2>3, <2>4 DEF SyncCall
<1>4. ASSUME NEW k, NEW Y, Sound(k, Y), Y \subseteq {current_running},
             scheduler(k) \/ Return(k), SameDead(Now, k)
      PROVE  StayDead
  <2>1. \A x \in Slot : k.status[x] = "EXITED" => status'[x] = "EXITED"
    BY Zenon, <1>4, LifeEnd
  <2> QED BY Zenon, <1>1, <1>4, <2>1 DEF SameDead
<1>5. ASSUME NEW q \in WaitQueue, scheduler(Block(Now, q)) PROVE StayDead
  <2>1. /\ Sound(Block(Now, q), {}) /\ q \in Queue
        /\ \A x \in Slot : Block(Now, q).status[x] =
             IF x = current_running THEN "BLOCKED" ELSE Now.status[x]
    <3>1. q \in Queue
      BY QueueNames
    <3> QED BY Zenon, <1>1, <3>1, BlockSound, BlockKeeps DEF X
  <2>2. SameDead(Now, Block(Now, q))
    BY <1>1, <2>1 DEF SameDead
  <2> DEFINE h == Block(Now, q)
  <2>3. Sound(h, {}) /\ SameDead(Now, h) /\ scheduler(h)
    BY Zenon, <1>5, <2>1, <2>2
  <2> HIDE DEF h
  <2> QED BY Zenon, <1>1, <1>4, <2>3
<1>6. ASSUME NEW q \in WaitQueue, ~Idle(q), Return(MakeReady(Now, q, 1))
      PROVE  StayDead
  <2>1. q \in Queue /\ 1 \in DOMAIN Now.queue[q]
    BY Zenon, <1>1, <1>6, QueueNames, NowFacts, FirstWaiter
  <2>2. Sound(MakeReady(Now, q, 1), X) /\ SameDead(Now, MakeReady(Now, q, 1))
    BY Zenon, <1>1, <2>1, MakeReadySound, MakeReadyDead
  <2> QED BY Zenon, <1>1, <1>4, <1>6, <2>2
<1>7. ASSUME NEW q \in WaitQueue, Return(clear_waiting_queue(Now, q))
      PROVE  StayDead
  <2>1. /\ Sound(clear_waiting_queue(Now, q), X)
        /\ SameDead(Now, clear_waiting_queue(Now, q))
    BY Zenon, <1>1, ClearSound, ClearDead
  <2> QED BY Zenon, <1>1, <1>4, <1>7, <2>1
<1>8. ASSUME NEW k, NEW Y, Sound(k, Y), Y \subseteq {current_running},
             SameDead(Now, k), NEW arr, NEW s \in WakeOrders(k, arr),
             scheduler(WakeWaiters(k, arr, s)) \/ Return(WakeWaiters(k, arr, s))
      PROVE  StayDead
  <2> DEFINE h == WakeWaiters(k, arr, s)
  <2>1. Sound(h, Y) /\ SameDead(k, h)
    BY Zenon, <1>8, WakeWaitersSound, WakeDead
  <2>2. scheduler(h) \/ Return(h)
    BY <1>8
  <2> HIDE DEF h
  <2>3. SameDead(Now, h)
    BY Zenon, <1>8, <2>1 DEF SameDead
  <2> QED BY Zenon, <1>4, <1>8, <2>1, <2>2, <2>3
<1>9. StayDead
  <2>1. ASSUME UNCHANGED schedVars PROVE StayDead
    BY <2>1 DEF schedVars
  <2>2. ASSUME NEW l \in Mutex, AcquireLoop(l) PROVE StayDead
    <3>1. l \in WaitQueue
      BY QueueNames
    <3> QED BY Zenon, <1>5, <2>1, <2>2, <3>1 DEF AcquireLoop
  <2>3. CASE ResumeAcquire
    <3>1. resume[current_running] \in Mutex
      BY Zenon, <1>1, <2>3 DEF ResumeAcquire, OtherTypes
    <3> QED BY <2>2, <2>3, <3>1 DEF ResumeAcquire
  <2>4. CASE MutexCall
    <3>1. ASSUME NEW l \in Mutex, do_mutex_lock_release(l) PROVE StayDead
      <4>1. PICK s \in WakeOrders(Now, <<l>>) :
              Return(WakeWaiters(Now, <<l>>, s))
        BY <3>1 DEF do_mutex_lock_release
      <4> QED BY Zenon, <1>1, <1>8, <4>1
    <3> QED BY Zenon, <2>1, <2>2, <2>4, <3>1
        DEF MutexCall, do_mutex_lock_init, do_mutex_lock_acquire
  <2>5. CASE SemaphoreCall
    <3>1. PICK x \in Semaphore :
            \/ \E val \in 0 .. MaxSem : do_semaphore_init(x, val)
            \/ do_semaphore_up(x)
            \/ do_semaphore_down(x)
      BY <2>5 DEF SemaphoreCall
    <3>2. x \in WaitQueue
      BY QueueNames
    <3>3. ASSUME Return(Now) PROVE StayDead
      BY Zenon, <1>1, <1>4, <3>3
    <3> QED BY Zenon, <1>5, <1>6, <2>1, <3>1, <3>2, <3>3
        DEF do_semaphore_init, do_semaphore_up, do_semaphore_down
  <2>6. CASE ConditionCall
    <3>1. PICK c \in Condition : \/ \E l \in Mutex : do_condition_wait(l, c)
                                 \/ do_condition_signal(c)
                                 \/ do_condition_broadcast(c)
      BY <2>6 DEF ConditionCall
    <3>2. c \in WaitQueue
      BY QueueNames
    <3>3. ASSUME NEW l \in Mutex, do_condition_wait(l, c) PROVE StayDead
      <4>1. PICK s \in WakeOrders(Block(Now, c), <<l>>) :
              scheduler(WakeWaiters(Block(Now, c), <<l>>, s))
        BY <3>3 DEF do_condition_wait
      <4>2. /\ Sound(Block(Now, c), {}) /\ c \in Queue
            /\ \A x \in Slot : Block(Now, c).status[x] =
                 IF x = current_running THEN "BLOCKED" ELSE Now.status[x]
        <5>1. c \in Queue
          BY <3>2, QueueNames
        <5> QED BY Zenon, <1>1, <3>2, <5>1, BlockSound, BlockKeeps DEF X
      <4> DEFINE h == WakeWaiters(Block(Now, c), <<l>>, s)
      <4>3. Sound(h, {}) /\ SameDead(Block(Now, c), h) /\ scheduler(h)
        BY Zenon, <4>1, <4>2, WakeWaitersSound, WakeDead
      <4> HIDE DEF h
      <4>4. SameDead(Now, h)
        BY Zenon, <1>1, <4>2, <4>3 DEF SameDead
      <4> QED BY Zenon, <1>1, <1>4, <4>3, <4>4
    <3> QED BY Zenon, <1>6, <1>7, <3>1, <3>2, <3>3
        DEF do_condition_signal, do_condition_broadcast
  <2>7. CASE BarrierCall
    <3>1. \A b \in Barrier : b \in WaitQueue
      BY QueueNames
    <3> QED BY Zenon, <1>5, <1>7, <2>1, <2>7, <3>1
        DEF BarrierCall, do_barrier_init, do_barrier_wait
  <2> QED BY <2>3, <2>4, <2>5, <2>6, <2>7 DEF SyncCall
<1> QED BY <1>3, <1>9 DEF LifeStep

\* What every step may do to the end of tasks.
LEMMA LifeSteps ==
  ASSUME TypeOK, Placed, NoWaiterOnDead, ~KillAnywhere, Next
  PROVE  LifeStep
<1>1. SwitchTypes /\ OtherTypes /\ Resting
  BY Zenon, TypeParts, PlacedIsResting
<1> QED BY Zenon, <1>1, LifeTaskCall, LifeSyncCall DEF Next

\* Under the same assumption on kills, the end of a task is final: nothing but
\* do_spawn writes the status of an EXITED pcb, and it gives the new task a
\* pid that was never used before.
THEOREM EndIsFinal == ASSUME ~KillAnywhere PROVE Spec => DeadStaysDead
<1>1. TypeOK /\ Placed /\ NoWaiterOnDead /\ [Next]_vars =>
        [\A p \in Slot : status[p] = "EXITED" /\ status'[p] # "EXITED" =>
           status'[p] = "CREATED" /\ pid'[p] > PID]_vars
  BY Zenon, LifeSteps DEF LifeStep
<1> QED BY <1>1, TypeCorrect, EveryTaskPlaced, NobodyWaitsForDead, PTL
    DEF Spec, DeadStaysDead

\* Under the same assumption on kills, a task that waits in do_waitpid goes on
\* waiting until the task it waits for has exited or was killed, whatever the
\* other tasks do, unless it is killed itself.
THEOREM WaitsToTheEnd == ASSUME ~KillAnywhere PROVE Spec => WaitpidUntilGone
<1>1. TypeOK /\ Placed /\ NoWaiterOnDead /\ [Next]_vars =>
        [\A p, t \in Slot : InQueue(p, t) /\ p \notin Range(queue'[t]) =>
           status'[p] = "EXITED" \/ status'[t] = "EXITED"]_vars
  BY LifeSteps DEF LifeStep, InQueue
<1> QED BY <1>1, TypeCorrect, EveryTaskPlaced, NobodyWaitsForDead, PTL
    DEF Spec, WaitpidUntilGone

=============================================================================
