---------------------------- MODULE KernelProofs ----------------------------
(***************************************************************************)
(* Proofs about the kernel, for any number of tasks and objects and        *)
(* without the bounds of the model-checked instances.                      *)
(*                                                                         *)
(* They go from the data to the system: what the operations of queue.c do  *)
(* to the sequences, what the steps of a handler do to a state, what       *)
(* do_unblock_one, do_unblock_all and scheduler() do, and then, handler by *)
(* handler, what holds of every reachable state.                           *)
(***************************************************************************)
EXTENDS Kernel, TLAPS

(***************************************************************************)
(* Sequences without repetitions: what pushing, removing and appending do  *)
(* to the set of elements.                                                 *)
(***************************************************************************)

\* queue_push adds one item, and a list stays free of repetitions when the item
\* was not in it.
LEMMA AppendElement ==
  ASSUME NEW S, NEW s \in Seq(S), NEW e \in S
  PROVE  /\ Append(s, e) \in Seq(S)
         /\ Range(Append(s, e)) = Range(s) \cup {e}
         /\ IsInjective(s) /\ e \notin Range(s) => IsInjective(Append(s, e))
<1> DEFINE u == Append(s, e)
<1>1. /\ u \in Seq(S) /\ Len(u) = Len(s) + 1 /\ Len(s) \in Nat
      /\ \A i \in 1 .. Len(s) : u[i] = s[i]
      /\ u[Len(s) + 1] = e
  OBVIOUS
<1> HIDE DEF u
<1>2. DOMAIN s = 1 .. Len(s) /\ DOMAIN u = 1 .. Len(s) + 1
  BY <1>1
<1>3. \A i \in DOMAIN u : (i \in DOMAIN s /\ u[i] = s[i]) \/ i = Len(s) + 1
  BY <1>1, <1>2
<1>4. Range(u) = Range(s) \cup {e}
  <2>1. ASSUME NEW x \in Range(u) PROVE x \in Range(s) \cup {e}
    BY <1>1, <1>3 DEF Range
  <2>2. ASSUME NEW x \in Range(s) \cup {e} PROVE x \in Range(u)
    <3>1. CASE x = e
      BY <3>1, <1>1, <1>2 DEF Range
    <3>2. CASE x \in Range(s)
      BY <3>2, <1>1, <1>2 DEF Range
    <3> QED BY <3>1, <3>2, <2>2
  <2> QED BY <2>1, <2>2
<1>5. ASSUME IsInjective(s), e \notin Range(s) PROVE IsInjective(u)
  <2> SUFFICES ASSUME NEW i \in DOMAIN u, NEW j \in DOMAIN u, u[i] = u[j]
               PROVE  i = j
    BY DEF IsInjective
  <2> QED BY <1>1, <1>3, <1>5 DEF IsInjective, Range
<1> QED BY <1>1, <1>4, <1>5 DEF u

\* clear_waiting_queue and do_unblock_all put one list behind another.
LEMMA ConcatElements ==
  ASSUME NEW S, NEW s \in Seq(S), NEW t \in Seq(S)
  PROVE  /\ s \o t \in Seq(S)
         /\ Range(s \o t) = Range(s) \cup Range(t)
         /\ IsInjective(s) /\ IsInjective(t) /\ Range(s) \cap Range(t) = {}
              => IsInjective(s \o t)
<1> DEFINE u == s \o t
<1>1. /\ u \in Seq(S)
      /\ Len(u) = Len(s) + Len(t)
      /\ \A i \in 1 .. Len(s) : u[i] = s[i]
      /\ \A i \in 1 .. Len(t) : u[Len(s) + i] = t[i]
  OBVIOUS
<1> HIDE DEF u
<1>2. \A i \in 1 .. Len(u) :
        \/ i \in 1 .. Len(s) /\ u[i] = s[i]
        \/ \E m \in 1 .. Len(t) : i = Len(s) + m /\ u[i] = t[m]
  <2> TAKE i \in 1 .. Len(u)
  <2>1. i \in 1 .. Len(s) \/ i - Len(s) \in 1 .. Len(t)
    BY <1>1
  <2>2. CASE i - Len(s) \in 1 .. Len(t)
    <3>1. i = Len(s) + (i - Len(s))
      OBVIOUS
    <3> QED BY Zenon, <2>2, <3>1, <1>1
  <2> QED BY <2>1, <2>2, <1>1
<1>3. /\ DOMAIN s = 1 .. Len(s) /\ DOMAIN t = 1 .. Len(t)
      /\ DOMAIN u = 1 .. Len(u) /\ Len(s) \in Nat /\ Len(t) \in Nat
  BY <1>1
<1>4. Range(u) = Range(s) \cup Range(t)
  <2>1. ASSUME NEW e \in Range(s) PROVE e \in Range(u)
    BY <1>1, <1>3 DEF Range
  <2>2. ASSUME NEW e \in Range(t) PROVE e \in Range(u)
    <3>1. PICK i \in 1 .. Len(t) : e = t[i]
      BY <1>3 DEF Range
    <3>2. Len(s) + i \in 1 .. Len(u) /\ u[Len(s) + i] = e
      BY <3>1, <1>1, <1>3
    <3> QED BY <3>2, <1>3 DEF Range
  <2>3. ASSUME NEW e \in Range(u) PROVE e \in Range(s) \cup Range(t)
    BY Zenon, <1>2, <1>3 DEF Range
  <2> QED BY <2>1, <2>2, <2>3
<1>5. ASSUME IsInjective(s), IsInjective(t), Range(s) \cap Range(t) = {}
      PROVE  IsInjective(u)
  <2> SUFFICES ASSUME NEW i \in 1 .. Len(u), NEW j \in 1 .. Len(u), u[i] = u[j]
               PROVE  i = j
    BY <1>3 DEF IsInjective
  <2>1. CASE i \in 1 .. Len(s) /\ j \in 1 .. Len(s)
    BY Zenon, <2>1, <1>1, <1>3, <1>5 DEF IsInjective
  <2>2. ASSUME NEW m \in 1 .. Len(t), i = Len(s) + m, u[i] = t[m],
               NEW n \in 1 .. Len(t), j = Len(s) + n, u[j] = t[n]
        PROVE  i = j
    BY Zenon, <2>2, <1>3, <1>5 DEF IsInjective
  <2>3. ASSUME NEW m \in 1 .. Len(s), NEW n \in 1 .. Len(t)
        PROVE  s[m] # t[n]
    BY Zenon, <1>3, <1>5 DEF Range
  <2> QED BY Zenon, <1>2, <2>1, <2>2, <2>3
<1> QED BY <1>1, <1>4, <1>5 DEF u

\* queue_remove takes one item out of a list without repetitions.
LEMMA RemoveElement ==
  ASSUME NEW S, NEW s \in Seq(S), NEW i \in 1 .. Len(s)
  PROVE  /\ RemoveAt(s, i) \in Seq(S)
         /\ Len(RemoveAt(s, i)) = Len(s) - 1
         /\ IsInjective(s) => /\ IsInjective(RemoveAt(s, i))
                              /\ Range(RemoveAt(s, i)) = Range(s) \ {s[i]}
<1> DEFINE u == RemoveAt(s, i)
<1>1. i \in 1 .. Len(s) /\ DOMAIN s = 1 .. Len(s) /\ Len(s) \in Nat
  OBVIOUS
<1>2. /\ u \in Seq(S)
      /\ Len(u) = Len(s) - 1
      /\ \A j \in 1 .. Len(u) : u[j] = IF j < i THEN s[j] ELSE s[j + 1]
  BY <1>1 DEF RemoveAt
<1> HIDE DEF u
<1>3. ASSUME IsInjective(s) PROVE IsInjective(u)
  <2> SUFFICES ASSUME NEW j \in 1 .. Len(u), NEW m \in 1 .. Len(u), u[j] = u[m]
               PROVE  j = m
    <3>1. DOMAIN u = 1 .. Len(u)
      BY <1>2
    <3> QED BY <3>1 DEF IsInjective
  <2> DEFINE at(n) == IF n < i THEN n ELSE n + 1
  <2>1. at(j) \in DOMAIN s /\ at(m) \in DOMAIN s /\ s[at(j)] = s[at(m)]
    <3>1. ASSUME NEW n \in 1 .. Len(u)
          PROVE  at(n) \in 1 .. Len(s) /\ s[at(n)] = u[n]
      <4>1. CASE n < i
        <5>1. at(n) = n /\ n \in 1 .. Len(s)
          BY <4>1, <1>1, <1>2
        <5>2. u[n] = s[n]
          BY <4>1, <1>2
        <5> QED BY <5>1, <5>2
      <4>2. CASE ~(n < i)
        <5>1. n \in Nat /\ n <= Len(u) /\ at(n) = n + 1
          BY <4>2, <1>2
        <5>2. n + 1 \in 1 .. Len(s)
          BY <5>1, <1>1, <1>2
        <5>3. u[n] = s[n + 1]
          BY <4>2, <1>2
        <5> QED BY <5>1, <5>2, <5>3
      <4> QED BY <4>1, <4>2
    <3>2. DOMAIN s = 1 .. Len(s)
      BY <1>1
    <3> QED BY <3>1, <3>2
  <2>2. at(j) = at(m)
    BY <2>1, <1>3 DEF IsInjective
  <2> QED BY <2>2, <1>1, <1>2
<1>4. ASSUME IsInjective(s) PROVE Range(u) = Range(s) \ {s[i]}
  <2>1. ASSUME NEW e \in Range(u) PROVE e \in Range(s) /\ e # s[i]
    <3>1. DOMAIN s = 1 .. Len(s) /\ DOMAIN u = 1 .. Len(u)
      BY <1>1, <1>2
    <3>2. PICK j \in 1 .. Len(u) : e = u[j]
      BY <3>1 DEF Range
    <3>3. PICK m \in 1 .. Len(s) : e = s[m] /\ m # i
      <4>1. CASE j < i
        BY <4>1, <3>2, <1>1, <1>2
      <4>2. CASE ~(j < i)
        <5>1. j + 1 \in 1 .. Len(s) /\ j + 1 # i /\ e = s[j + 1]
          BY <4>2, <3>2, <1>1, <1>2
        <5> QED BY <5>1
      <4> QED BY <4>1, <4>2
    <3>4. e \in Range(s)
      BY <3>1, <3>3 DEF Range
    <3>5. e # s[i]
      BY <3>1, <3>3, <1>4 DEF IsInjective
    <3> QED BY <3>4, <3>5
  <2>2. ASSUME NEW e \in Range(s), e # s[i] PROVE e \in Range(u)
    <3>1. PICK j \in 1 .. Len(s) : e = s[j]
      BY <1>1 DEF Range
    <3>2. CASE j < i
      BY <3>1, <3>2, <1>1, <1>2 DEF Range
    <3>3. CASE j > i
      <4>1. j - 1 \in 1 .. Len(u) /\ ~(j - 1 < i) /\ (j - 1) + 1 = j
        BY <3>3, <1>1, <1>2
      <4>2. u[j - 1] = e
        BY <4>1, <3>1, <1>2
      <4> QED BY <4>1, <4>2, <1>2 DEF Range
    <3> QED BY <3>1, <3>2, <3>3, <2>2, <1>1
  <2> QED BY <2>1, <2>2
<1> QED BY <1>2, <1>3, <1>4 DEF u

-----------------------------------------------------------------------------
(***************************************************************************)
(* The states that handlers pass through.                                  *)
(***************************************************************************)
HandlerState == [status : [Slot -> Status], queue : [Queue -> Seq(Slot)]]

In(k, p, q) == p \in Range(k.queue[q])

\* The status that the tasks of a list have.
Fits(st, q) == \/ q = ready_queue /\ st \in {"READY", "CREATED"}
               \/ q = sleeping_queue /\ st = "SLEEPING"
               \/ q \in WaitQueue /\ st = "BLOCKED"

\* The lists of k have no repetitions, no pcb is in two of them, and the tasks
\* are where their status says, but for the tasks of X, which are in no list
\* and whose status is about to be written.
Sound(k, X) ==
  /\ k \in HandlerState
  /\ \A q \in Queue : IsInjective(k.queue[q])
  /\ \A p \in Slot, q, r \in Queue : In(k, p, q) /\ In(k, p, r) => q = r
  /\ \A p \in Slot, q \in Queue :
       In(k, p, q) => p \notin X /\ Fits(k.status[p], q)
  /\ \A p \in Slot \ X :
       /\ k.status[p] # "RUNNING"
       /\ k.status[p] # "EXITED" => \E q \in Queue : In(k, p, q)

\* The kernel's own queues and the wait queues are queues.
LEMMA QueueNames ==
  /\ ready_queue \in Queue /\ sleeping_queue \in Queue
  /\ recv_block_queue \in WaitQueue
  /\ WaitQueue \subseteq Queue /\ Slot \subseteq WaitQueue
  /\ Mutex \subseteq WaitQueue /\ Semaphore \subseteq WaitQueue
  /\ Condition \subseteq WaitQueue /\ Barrier \subseteq WaitQueue
  BY DEF Queue, WaitQueue

\* The status of a task names at most one kind of list.
LEMMA FitsOnce ==
  ASSUME NEW q \in Queue, NEW st, Fits(st, q)
  PROVE  /\ st \in {"READY", "CREATED"} => q = ready_queue
         /\ st = "SLEEPING" => q = sleeping_queue
         /\ st = "BLOCKED" => q \in WaitQueue
         /\ st \notin {"RUNNING", "EXITED"}
  BY DEF Fits

\* queue_push changes one queue, by one item.
LEMMA PushFacts ==
  ASSUME NEW k \in HandlerState, NEW q \in Queue, NEW p \in Slot
  PROVE  /\ queue_push(k, q, p) \in HandlerState
         /\ queue_push(k, q, p).status = k.status
         /\ \A r \in Queue : r # q => queue_push(k, q, p).queue[r] = k.queue[r]
         /\ queue_push(k, q, p).queue[q] = Append(k.queue[q], p)
  BY Zenon, AppendElement DEF queue_push, HandlerState

\* queue_remove changes one queue, by one item.
LEMMA RemoveFacts ==
  ASSUME NEW k \in HandlerState, NEW q \in Queue, NEW i \in DOMAIN k.queue[q]
  PROVE  /\ queue_remove(k, q, i) \in HandlerState
         /\ queue_remove(k, q, i).status = k.status
         /\ \A r \in Queue :
              r # q => queue_remove(k, q, i).queue[r] = k.queue[r]
         /\ queue_remove(k, q, i).queue[q] = RemoveAt(k.queue[q], i)
<1>1. k.queue[q] \in Seq(Slot)
  BY DEF HandlerState
<1>2. i \in 1 .. Len(k.queue[q])
  BY <1>1
<1>3. RemoveAt(k.queue[q], i) \in Seq(Slot)
  BY <1>1, <1>2, RemoveElement
<1> QED BY Zenon, <1>3 DEF queue_remove, HandlerState

\* Writing a status field touches no queue.
LEMMA SetStatusFacts ==
  ASSUME NEW k \in HandlerState, NEW p \in Slot, NEW st \in Status
  PROVE  /\ SetStatus(k, p, st) \in HandlerState
         /\ SetStatus(k, p, st).queue = k.queue
         /\ \A x \in Slot : x # p => SetStatus(k, p, st).status[x] = k.status[x]
         /\ SetStatus(k, p, st).status[p] = st
  BY DEF SetStatus, HandlerState

\* h is k with the status of p set.
StatusSet(k, h, p, st) ==
  /\ h \in HandlerState /\ h.queue = k.queue /\ h.status[p] = st
  /\ \A x \in Slot : x # p => h.status[x] = k.status[x]

LEMMA StatusIsSet ==
  ASSUME NEW k \in HandlerState, NEW p \in Slot, NEW st \in Status
  PROVE  StatusSet(k, SetStatus(k, p, st), p, st)
BY DEF StatusSet, SetStatus, HandlerState

\* The functions that the handlers of sched.c are built from return handler
\* states.
LEMMA HandlerTypes ==
  ASSUME NEW k \in HandlerState, current_running \in Slot
  PROVE  /\ \A q \in Queue : \A i \in DOMAIN k.queue[q] :
              MakeReady(k, q, i) \in HandlerState
         /\ \A q \in Queue : clear_waiting_queue(k, q) \in HandlerState
         /\ \A q \in Queue : Block(k, q) \in HandlerState
         /\ \A q \in Queue : queue_init(k, q) \in HandlerState
<1>1. ASSUME NEW q \in Queue, NEW i \in DOMAIN k.queue[q]
      PROVE  MakeReady(k, q, i) \in HandlerState
  <2> DEFINE p == k.queue[q][i]
             k1 == queue_remove(k, q, i)
             k2 == SetStatus(k1, p, "READY")
  <2>1. p \in Slot
    <3>1. k.queue[q] \in Seq(Slot)
      BY DEF HandlerState
    <3> QED BY <3>1
  <2>2. k1 \in HandlerState
    BY RemoveFacts
  <2>3. k2 \in HandlerState
    <3>1. "READY" \in Status
      BY DEF Status
    <3> QED BY <3>1, <2>1, <2>2, SetStatusFacts
  <2>4. queue_push(k2, ready_queue, p) \in HandlerState
    BY Zenon, <2>1, <2>3, PushFacts, QueueNames
  <2> QED BY <2>4 DEF MakeReady
<1>2. ASSUME NEW q \in Queue PROVE clear_waiting_queue(k, q) \in HandlerState
  <2>1. \A r \in Queue : k.queue[r] \o k.queue[q] \in Seq(Slot)
    BY ConcatElements DEF HandlerState
  <2>2. "READY" \in Status
    BY DEF Status
  <2> QED BY <2>1, <2>2 DEF clear_waiting_queue, HandlerState
<1>3. ASSUME NEW q \in Queue PROVE Block(k, q) \in HandlerState
  <2>1. "BLOCKED" \in Status
    BY DEF Status
  <2>2. SetStatus(k, current_running, "BLOCKED") \in HandlerState
    BY <2>1, SetStatusFacts
  <2> QED BY <2>2, PushFacts DEF Block
<1>4. ASSUME NEW q \in Queue PROVE queue_init(k, q) \in HandlerState
  <2>1. <<>> \in Seq(Slot)
    OBVIOUS
  <2> QED BY Zenon, <2>1 DEF queue_init, HandlerState
<1> QED BY <1>1, <1>2, <1>3, <1>4

-----------------------------------------------------------------------------
\* A task in hand is put into the list that its new status names.
LEMMA PushSound ==
  ASSUME NEW k, NEW X, Sound(k, X), NEW p \in X, p \in Slot,
         NEW q \in Queue, NEW st \in Status, Fits(st, q)
  PROVE  Sound(queue_push(SetStatus(k, p, st), q, p), X \ {p})
<1> DEFINE k1 == SetStatus(k, p, st)
           k2 == queue_push(k1, q, p)
<1>1. k \in HandlerState
  BY DEF Sound
<1>2. /\ k1 \in HandlerState /\ k1.queue = k.queue /\ k1.status[p] = st
      /\ \A x \in Slot : x # p => k1.status[x] = k.status[x]
  BY <1>1, SetStatusFacts
<1> HIDE DEF k1
<1>3. /\ k2 \in HandlerState /\ k2.status = k1.status
      /\ \A r \in Queue : r # q => k2.queue[r] = k.queue[r]
      /\ k2.queue[q] = Append(k.queue[q], p)
  <2>1. /\ k2 \in HandlerState /\ k2.status = k1.status
        /\ \A r \in Queue : r # q => k2.queue[r] = k1.queue[r]
        /\ k2.queue[q] = Append(k1.queue[q], p)
    BY Zenon, <1>2, PushFacts
  <2> QED BY <2>1, <1>2
<1> HIDE DEF k2
<1>4. k.queue[q] \in Seq(Slot) /\ p \notin Range(k.queue[q])
  BY <1>1 DEF Sound, In, HandlerState
<1>5. /\ IsInjective(k2.queue[q])
      /\ Range(k2.queue[q]) = Range(k.queue[q]) \cup {p}
  BY <1>3, <1>4, AppendElement DEF Sound
<1>6. \A x \in Slot, r \in Queue :
        In(k2, x, r) <=> In(k, x, r) \/ (x = p /\ r = q)
  BY Zenon, <1>3, <1>5 DEF In
<1>7. \A r \in Queue : IsInjective(k2.queue[r])
  BY Zenon, <1>3, <1>5 DEF Sound
<1>8. \A r \in Queue : ~In(k, p, r)
  BY DEF Sound
<1>9. \A x \in Slot, r, t \in Queue : In(k2, x, r) /\ In(k2, x, t) => r = t
  BY <1>6, <1>8 DEF Sound
<1>10. \A x \in Slot, r \in Queue :
         In(k2, x, r) => x \notin X \ {p} /\ Fits(k2.status[x], r)
  BY <1>2, <1>3, <1>6, <1>8 DEF Sound
<1>11. \A x \in Slot \ (X \ {p}) :
         /\ k2.status[x] # "RUNNING"
         /\ k2.status[x] # "EXITED" => \E r \in Queue : In(k2, x, r)
  <2> TAKE x \in Slot \ (X \ {p})
  <2>1. CASE x = p
    BY <2>1, <1>2, <1>3, <1>6, FitsOnce
  <2>2. CASE x # p
    BY <2>2, <1>2, <1>3, <1>6 DEF Sound
  <2> QED BY <2>1, <2>2
<1>12. Sound(k2, X \ {p})
  BY <1>3, <1>7, <1>9, <1>10, <1>11 DEF Sound
<1> QED BY <1>12 DEF k1, k2

\* A task taken out of a list is in hand.
LEMMA RemoveSound ==
  ASSUME NEW k, NEW X, Sound(k, X), NEW q \in Queue, NEW i \in DOMAIN k.queue[q]
  PROVE  /\ k.queue[q][i] \in Slot
         /\ k.queue[q][i] \notin X
         /\ Fits(k.status[k.queue[q][i]], q)
         /\ Sound(queue_remove(k, q, i), X \cup {k.queue[q][i]})
<1> DEFINE k1 == queue_remove(k, q, i)
           p  == k.queue[q][i]
<1>1. k \in HandlerState /\ k.queue[q] \in Seq(Slot) /\ IsInjective(k.queue[q])
  BY DEF Sound, HandlerState
<1>2. i \in 1 .. Len(k.queue[q])
  BY <1>1
<1>3. p \in Slot /\ In(k, p, q)
  BY <1>1, <1>2 DEF In, Range
<1>4. /\ k1 \in HandlerState /\ k1.status = k.status
      /\ \A r \in Queue : r # q => k1.queue[r] = k.queue[r]
      /\ k1.queue[q] = RemoveAt(k.queue[q], i)
  BY <1>1, RemoveFacts
<1>5. /\ IsInjective(k1.queue[q])
      /\ Range(k1.queue[q]) = Range(k.queue[q]) \ {p}
  BY <1>1, <1>2, <1>4, RemoveElement
<1> HIDE DEF k1, p
<1>6. \A x \in Slot, r \in Queue : In(k1, x, r) <=> In(k, x, r) /\ x # p
  BY <1>3, <1>4, <1>5 DEF In, Sound
<1>7. \A r \in Queue : IsInjective(k1.queue[r])
  BY <1>4, <1>5 DEF Sound
<1>8. Sound(k1, X \cup {p})
  BY <1>4, <1>6, <1>7 DEF Sound
<1>9. p \notin X /\ Fits(k.status[p], q)
  BY <1>3 DEF Sound
<1> QED BY <1>3, <1>8, <1>9 DEF k1, p

\* A task in hand becomes EXITED: do_exit and do_kill.
LEMMA ExitSound ==
  ASSUME NEW k, NEW X, Sound(k, X), NEW p \in X, p \in Slot
  PROVE  Sound(SetStatus(k, p, "EXITED"), X \ {p})
<1> DEFINE k1 == SetStatus(k, p, "EXITED")
<1>1. /\ k1 \in HandlerState /\ k1.queue = k.queue /\ k1.status[p] = "EXITED"
      /\ \A x \in Slot : x # p => k1.status[x] = k.status[x]
  BY SetStatusFacts DEF Sound, Status
<1> HIDE DEF k1
<1>2. \A x \in Slot, r \in Queue : In(k1, x, r) <=> In(k, x, r)
  BY <1>1 DEF In
<1>3. Sound(k1, X \ {p})
  BY <1>1, <1>2 DEF Sound
<1> QED BY <1>3 DEF k1

\* MakeReady keeps the lists and the tasks in hand as they are.
LEMMA MakeReadySound ==
  ASSUME NEW k, NEW X, Sound(k, X), NEW q \in Queue, NEW i \in DOMAIN k.queue[q]
  PROVE  /\ Sound(MakeReady(k, q, i), X)
         /\ \A x \in X \cap Slot : MakeReady(k, q, i).status[x] = k.status[x]
<1> DEFINE p  == k.queue[q][i]
           k1 == queue_remove(k, q, i)
           k2 == SetStatus(k1, p, "READY")
           k3 == queue_push(k2, ready_queue, p)
<1>1. /\ p \in Slot /\ p \notin X /\ Sound(k1, X \cup {p})
      /\ k \in HandlerState
  <2>1. k \in HandlerState
    BY DEF Sound
  <2> QED BY <2>1, RemoveSound
<1>2. k1 \in HandlerState /\ k1.status = k.status
  BY <1>1, RemoveFacts
<1> HIDE DEF p, k1
<1>3. Sound(k3, (X \cup {p}) \ {p})
  BY <1>1, PushSound, QueueNames DEF Status, Fits
<1>4. k2 \in HandlerState /\ \A x \in Slot : x # p => k2.status[x] = k1.status[x]
  <2>1. "READY" \in Status
    BY DEF Status
  <2> QED BY <2>1, <1>1, <1>2, SetStatusFacts
<1> HIDE DEF k2
<1>5. k3.status = k2.status
  BY <1>1, <1>4, PushFacts, QueueNames
<1> HIDE DEF k3
<1>6. (X \cup {p}) \ {p} = X
  BY <1>1
<1>7. Sound(k3, X) /\ \A x \in X \cap Slot : k3.status[x] = k.status[x]
  BY Zenon, <1>1, <1>2, <1>3, <1>4, <1>5, <1>6
<1>8. k3 = MakeReady(k, q, i)
  BY DEF k1, k2, k3, p, MakeReady
<1> QED BY <1>7, <1>8

\* What clear_waiting_queue and do_unblock_all have in common: the queues of W
\* are emptied and their tasks s appended to the ready queue.
Wake(k, W, s) ==
  [status |-> [p \in Slot |-> IF p \in Range(s) THEN "READY" ELSE k.status[p]],
   queue  |-> [r \in Queue |-> CASE r \in W -> <<>>
                                 [] r = ready_queue -> k.queue[r] \o s
                                 [] OTHER -> k.queue[r]]]

LEMMA WakeSound ==
  ASSUME NEW k, NEW X, Sound(k, X), NEW W, W \subseteq WaitQueue,
         NEW s \in Seq(Slot), IsInjective(s),
         \A p \in Slot : p \in Range(s) <=> \E q \in W : In(k, p, q)
  PROVE  /\ Sound(Wake(k, W, s), X)
         /\ \A x \in X \cap Slot : Wake(k, W, s).status[x] = k.status[x]
<1> DEFINE k1 == Wake(k, W, s)
<1>1. k \in HandlerState
  BY DEF Sound
<1>2. ready_queue \in Queue /\ ready_queue \notin W /\ W \subseteq Queue
  BY QueueNames, ObjectAssumption
<1>3. k.queue[ready_queue] \in Seq(Slot) /\ k.queue[ready_queue] \o s \in Seq(Slot)
  BY <1>1, <1>2, ConcatElements DEF HandlerState
<1>4. <<>> \in Seq(Slot)
  OBVIOUS
<1>5. /\ \A r \in W : k1.queue[r] = <<>>
      /\ k1.queue[ready_queue] = k.queue[ready_queue] \o s
      /\ \A r \in Queue \ (W \cup {ready_queue}) : k1.queue[r] = k.queue[r]
      /\ \A x \in Slot : k1.status[x] = IF x \in Range(s) THEN "READY"
                                        ELSE k.status[x]
  BY <1>2 DEF Wake
<1>6. k1 \in HandlerState
  <2>1. \A r \in Queue : k1.queue[r] \in Seq(Slot)
    BY Zenon, <1>1, <1>2, <1>3, <1>4, <1>5 DEF HandlerState
  <2>2. \A x \in Slot : k1.status[x] \in Status
    BY <1>1, <1>5 DEF HandlerState, Status
  <2>3. /\ k1 = [status |-> k1.status, queue |-> k1.queue]
        /\ k1.status = [x \in Slot |-> k1.status[x]]
        /\ k1.queue = [r \in Queue |-> k1.queue[r]]
    BY DEF Wake
  <2> HIDE DEF k1
  <2> QED BY <2>1, <2>2, <2>3 DEF HandlerState
<1> HIDE DEF k1
<1>7. Range(k.queue[ready_queue]) \cap Range(s) = {}
  <2>1. \A p \in Slot : ~(In(k, p, ready_queue) /\ \E q \in W : In(k, p, q))
    BY <1>2 DEF Sound
  <2>2. Range(s) \subseteq Slot
    BY DEF Range
  <2> QED BY <2>1, <2>2 DEF In
<1>8. /\ Range(k1.queue[ready_queue]) = Range(k.queue[ready_queue]) \cup Range(s)
      /\ IsInjective(k1.queue[ready_queue])
  BY <1>2, <1>3, <1>5, <1>7, ConcatElements DEF Sound
<1>9. Range(<<>>) = {} /\ IsInjective(<<>>)
  BY DEF Range, IsInjective
<1>10. \A x \in Slot, r \in Queue :
         In(k1, x, r) <=> IF x \in Range(s) THEN r = ready_queue
                          ELSE In(k, x, r)
  <2> TAKE x \in Slot, r \in Queue
  <2>1. CASE r \in W
    BY <2>1, <1>2, <1>5, <1>9 DEF In
  <2>2. CASE r = ready_queue
    BY <2>2, <1>8 DEF In
  <2>3. CASE r \in Queue \ (W \cup {ready_queue})
    <3>1. x \in Range(s) => ~In(k, x, r)
      BY <2>3, <1>2 DEF Sound
    <3> QED BY <2>3, <3>1, <1>5 DEF In
  <2> QED BY <2>1, <2>2, <2>3
<1>11. \A r \in Queue : IsInjective(k1.queue[r])
  BY Zenon, <1>5, <1>8, <1>9 DEF Sound
<1>12. \A x \in X \cap Slot : x \notin Range(s)
  BY <1>2 DEF Sound
<1>13. \A x \in Slot, r, t \in Queue : In(k1, x, r) /\ In(k1, x, t) => r = t
  BY Zenon, <1>10 DEF Sound
<1>14. \A x \in Slot, r \in Queue :
         In(k1, x, r) => x \notin X /\ Fits(k1.status[x], r)
  BY <1>5, <1>10, <1>12 DEF Sound, Fits
<1>15. \A x \in Slot \ X :
         /\ k1.status[x] # "RUNNING"
         /\ k1.status[x] # "EXITED" => \E r \in Queue : In(k1, x, r)
  <2> TAKE x \in Slot \ X
  <2>1. CASE x \in Range(s)
    BY <2>1, <1>2, <1>5, <1>10
  <2>2. CASE x \notin Range(s)
    BY Zenon, <2>2, <1>5, <1>10 DEF Sound
  <2> QED BY <2>1, <2>2
<1>16. Sound(k1, X)
  BY <1>6, <1>11, <1>13, <1>14, <1>15 DEF Sound
<1> QED BY <1>5, <1>12, <1>16 DEF k1

\* clear_waiting_queue keeps the lists sound.
LEMMA ClearSound ==
  ASSUME NEW k, NEW X, Sound(k, X), NEW q \in WaitQueue
  PROVE  /\ Sound(clear_waiting_queue(k, q), X)
         /\ \A x \in X \cap Slot :
              clear_waiting_queue(k, q).status[x] = k.status[x]
<1> DEFINE s == k.queue[q]
           W == {q}
<1>1. s \in Seq(Slot) /\ IsInjective(s)
  BY QueueNames DEF Sound, HandlerState
<1>2. \A p \in Slot : p \in Range(s) <=> \E r \in W : In(k, p, r)
  BY DEF In
<1>3. clear_waiting_queue(k, q) = Wake(k, W, s)
  BY DEF clear_waiting_queue, Wake
<1>4. W \subseteq WaitQueue
  OBVIOUS
<1> HIDE DEF s, W
<1>5. /\ Sound(Wake(k, W, s), X)
      /\ \A x \in X \cap Slot : Wake(k, W, s).status[x] = k.status[x]
  BY <1>1, <1>2, <1>4, WakeSound
<1> QED BY <1>3, <1>5

-----------------------------------------------------------------------------
(***************************************************************************)
(* The ends of a handler.                                                  *)
(***************************************************************************)

\* Between two handlers only the current task, if the machine is up, is in no
\* list, and it is RUNNING.
Resting ==
  /\ Sound(Now, IF machine = "up" THEN {current_running} ELSE {})
  /\ machine = "up" => current_running \in Slot
                       /\ status[current_running] = "RUNNING"

\* A handler that returns to its caller.
LEMMA ReturnResting ==
  ASSUME NEW k, Sound(k, {current_running}), current_running \in Slot,
         k.status[current_running] = "RUNNING", machine = "up", Return(k)
  PROVE  Resting'
<1>1. k = [status |-> k.status, queue |-> k.queue]
  BY DEF Sound, HandlerState
<1>2. Now' = k
  BY <1>1 DEF Return, Now
<1>3. machine' = "up" /\ current_running' = current_running
  BY DEF Return
<1>4. status'[current_running] = "RUNNING"
  BY DEF Return
<1>5. Sound(Now', {current_running'})
  BY Zenon, <1>2, <1>3
<1> QED BY <1>3, <1>4, <1>5 DEF Resting

\* scheduler() from the choice of the next task on.
LEMMA SwitchResting ==
  ASSUME NEW k, Sound(k, {}), machine = "up", SwitchTask(k)
  PROVE  Resting'
<1>1. k \in HandlerState /\ k = [status |-> k.status, queue |-> k.queue]
  BY DEF Sound, HandlerState
<1>2. ASSUME NEW i \in DOMAIN k.queue[ready_queue],
             machine' = machine,
             current_running' = k.queue[ready_queue][i],
             status' = SetStatus(k, k.queue[ready_queue][i], "RUNNING").status,
             queue' = queue_remove(k, ready_queue, i).queue
      PROVE  Resting'
  <2> DEFINE p  == k.queue[ready_queue][i]
             k1 == queue_remove(k, ready_queue, i)
             k2 == SetStatus(k1, p, "RUNNING")
  <2>1. p \in Slot /\ Sound(k1, {p})
    <3>1. p \in Slot /\ Sound(k1, {} \cup {p})
      BY Zenon, QueueNames, RemoveSound
    <3> QED BY Zenon, <3>1
  <2>2. /\ k1 \in HandlerState /\ k1.status = k.status
        /\ \A x \in Slot, r \in Queue : In(k1, x, r) => x # p
    <3>1. k1 \in HandlerState /\ k1.status = k.status
      BY <1>1, QueueNames, RemoveFacts
    <3> QED BY <2>1, <3>1 DEF Sound
  <2>3. SetStatus(k, p, "RUNNING").status = SetStatus(k1, p, "RUNNING").status
    BY <1>1, <2>2 DEF SetStatus, HandlerState
  <2>4. /\ k2 \in HandlerState /\ k2.queue = k1.queue
        /\ \A x \in Slot : x # p => k2.status[x] = k1.status[x]
        /\ k2.status[p] = "RUNNING"
    <3>1. "RUNNING" \in Status
      BY DEF Status
    <3>2. k1 \in HandlerState /\ p \in Slot
      BY Zenon, <2>1, <2>2
    <3> HIDE DEF p, k1
    <3> QED BY ONLY <3>1, <3>2, SetStatusFacts
  <2>5. status' = k2.status /\ queue' = k2.queue /\ current_running' = p
    BY Zenon, <1>2, <2>3, <2>4
  <2> HIDE DEF p, k1, k2
  <2>6. \A x \in Slot, r \in Queue : In(k2, x, r) <=> In(k1, x, r)
    BY Zenon, <2>4 DEF In
  <2>7. Sound(k2, {p})
    BY <2>1, <2>4, <2>6 DEF Sound
  <2>8. Now' = k2
    BY <2>4, <2>5 DEF Now, HandlerState
  <2>9. machine' = "up"
    BY <1>2
  <2> QED BY <2>1, <2>4, <2>5, <2>7, <2>8, <2>9 DEF Resting
<1>3. ASSUME machine' \in {"hung", "crashed"},
             status' = k.status, queue' = k.queue
      PROVE  Resting'
  <2>1. Now' = k
    BY <1>1, <1>3 DEF Now
  <2> QED BY <2>1, <1>3 DEF Resting
<1> QED BY <1>2, <1>3 DEF SwitchTask

\* scheduler() as a whole, called with the current task either RUNNING or
\* already in the place that its new status names.
LEMMA SchedulerResting ==
  ASSUME NEW k, NEW X, Sound(k, X), X \subseteq {current_running},
         current_running \in Slot,
         current_running \in X => k.status[current_running] = "RUNNING",
         machine = "up", scheduler(k)
  PROVE  Resting'
<1> DEFINE cur == current_running
           k1 == IF k.status[cur] = "RUNNING"
                 THEN queue_push(SetStatus(k, cur, "READY"), ready_queue, cur)
                 ELSE k
<1>1. Sound(k1, {})
  <2>1. CASE k.status[cur] = "RUNNING"
    <3>1. cur \in X /\ X \ {cur} = {}
      BY <2>1 DEF Sound
    <3>2. "READY" \in Status /\ Fits("READY", ready_queue)
      BY DEF Status, Fits
    <3>3. Sound(queue_push(SetStatus(k, cur, "READY"), ready_queue, cur),
                X \ {cur})
      BY <3>1, <3>2, QueueNames, PushSound
    <3> QED BY <2>1, <3>1, <3>3
  <2>2. CASE k.status[cur] # "RUNNING"
    BY Zenon, <2>2
  <2> QED BY <2>1, <2>2
<1>2. \/ SwitchTask(k1)
      \/ \E i \in DOMAIN k1.queue[sleeping_queue] :
           SwitchTask(MakeReady(k1, sleeping_queue, i))
  BY Zenon DEF scheduler
<1> HIDE DEF k1
<1>3. ASSUME NEW i \in DOMAIN k1.queue[sleeping_queue],
             SwitchTask(MakeReady(k1, sleeping_queue, i))
      PROVE  Resting'
  <2>1. Sound(MakeReady(k1, sleeping_queue, i), {})
    BY <1>1, QueueNames, MakeReadySound
  <2> QED BY <1>3, <2>1, SwitchResting
<1> QED BY <1>1, <1>2, <1>3, SwitchResting

-----------------------------------------------------------------------------
(***************************************************************************)
(* What the steps of a handler do to the wait queues and to EXITED tasks.  *)
(***************************************************************************)

\* MakeReady takes from one wait queue, makes nobody EXITED, and makes the task
\* READY.
LEMMA MakeReadyKeeps ==
  ASSUME NEW k \in HandlerState, NEW q \in Queue, NEW i \in DOMAIN k.queue[q]
  PROVE  /\ \A r \in WaitQueue \ {q} : MakeReady(k, q, i).queue[r] = k.queue[r]
         /\ q \in WaitQueue => MakeReady(k, q, i).queue[q] = RemoveAt(k.queue[q], i)
         /\ \A x \in Slot : MakeReady(k, q, i).status[x] \in {"READY", k.status[x]}
<1> DEFINE p  == k.queue[q][i]
           k1 == queue_remove(k, q, i)
           k2 == SetStatus(k1, p, "READY")
           k3 == queue_push(k2, ready_queue, p)
<1>1. p \in Slot
  <2>1. k.queue[q] \in Seq(Slot)
    BY DEF HandlerState
  <2> QED BY <2>1
<1>2. /\ k1 \in HandlerState /\ k1.status = k.status
      /\ \A r \in Queue : r # q => k1.queue[r] = k.queue[r]
      /\ k1.queue[q] = RemoveAt(k.queue[q], i)
  BY RemoveFacts
<1> HIDE DEF k1, p
<1>3. /\ k2 \in HandlerState /\ k2.queue = k1.queue
      /\ \A x \in Slot : x # p => k2.status[x] = k1.status[x]
      /\ k2.status[p] = "READY"
  <2>1. "READY" \in Status
    BY DEF Status
  <2> QED BY <2>1, <1>1, <1>2, SetStatusFacts
<1> HIDE DEF k2
<1>4. /\ k3.status = k2.status
      /\ \A r \in Queue : r # ready_queue => k3.queue[r] = k2.queue[r]
  BY Zenon, <1>1, <1>3, PushFacts, QueueNames
<1> HIDE DEF k3
<1>5. WaitQueue \subseteq Queue /\ ready_queue \notin WaitQueue
  BY QueueNames, ObjectAssumption
<1>6. k3 = MakeReady(k, q, i)
  BY DEF k1, k2, k3, p, MakeReady
<1>7. /\ \A r \in WaitQueue \ {q} : k3.queue[r] = k.queue[r]
      /\ q \in WaitQueue => k3.queue[q] = RemoveAt(k.queue[q], i)
  BY <1>2, <1>3, <1>4, <1>5
<1>8. \A x \in Slot : k3.status[x] \in {"READY", k.status[x]}
  BY <1>2, <1>3, <1>4
<1> QED BY <1>6, <1>7, <1>8

\* Block puts the current task into one queue and makes it BLOCKED.
LEMMA BlockKeeps ==
  ASSUME NEW k \in HandlerState, NEW q \in Queue, current_running \in Slot
  PROVE  /\ \A r \in Queue \ {q} : Block(k, q).queue[r] = k.queue[r]
         /\ Block(k, q).queue[q] = Append(k.queue[q], current_running)
         /\ \A x \in Slot : Block(k, q).status[x] =
                              IF x = current_running THEN "BLOCKED"
                              ELSE k.status[x]
<1> DEFINE k1 == SetStatus(k, current_running, "BLOCKED")
<1>1. /\ k1 \in HandlerState /\ k1.queue = k.queue
      /\ \A x \in Slot : x # current_running => k1.status[x] = k.status[x]
      /\ k1.status[current_running] = "BLOCKED"
  <2>1. "BLOCKED" \in Status
    BY DEF Status
  <2> QED BY <2>1, SetStatusFacts
<1> HIDE DEF k1
<1> DEFINE k2 == queue_push(k1, q, current_running)
<1>2. /\ k2.status = k1.status
      /\ \A r \in Queue : r # q => k2.queue[r] = k1.queue[r]
      /\ k2.queue[q] = Append(k1.queue[q], current_running)
  BY Zenon, <1>1, PushFacts
<1> HIDE DEF k2
<1>3. k2 = Block(k, q)
  BY DEF k1, k2, Block
<1> QED BY <1>1, <1>2, <1>3

\* scheduler() moves tasks only between the ready queue, the sleeping queue and
\* the CPU, and makes nobody EXITED.
LEMMA SchedulerKeeps ==
  ASSUME NEW k \in HandlerState, current_running \in Slot, scheduler(k)
  PROVE  /\ \A q \in WaitQueue : queue'[q] = k.queue[q]
         /\ \A x \in Slot : status'[x] \in {"READY", "RUNNING", k.status[x]}
<1>0. /\ WaitQueue \subseteq Queue /\ ready_queue \notin WaitQueue
      /\ sleeping_queue \notin WaitQueue
  BY QueueNames, ObjectAssumption
<1>1. ASSUME NEW h \in HandlerState, SwitchTask(h)
      PROVE  /\ \A q \in WaitQueue : queue'[q] = h.queue[q]
             /\ \A x \in Slot : status'[x] \in {"RUNNING", h.status[x]}
  <2>1. ASSUME NEW i \in DOMAIN h.queue[ready_queue],
               status' = SetStatus(h, h.queue[ready_queue][i], "RUNNING").status,
               queue' = queue_remove(h, ready_queue, i).queue
        PROVE  /\ \A q \in WaitQueue : queue'[q] = h.queue[q]
               /\ \A x \in Slot : status'[x] \in {"RUNNING", h.status[x]}
    <3>1. h.queue[ready_queue][i] \in Slot
      <4>1. h.queue[ready_queue] \in Seq(Slot)
        BY QueueNames DEF HandlerState
      <4> QED BY <4>1
    <3>2. \A q \in Queue : q # ready_queue => queue'[q] = h.queue[q]
      BY <2>1, QueueNames, RemoveFacts
    <3>3. "RUNNING" \in Status
      BY Zenon DEF Status
    <3>4. \A x \in Slot : status'[x] \in {"RUNNING", h.status[x]}
      <4> DEFINE p == h.queue[ready_queue][i]
                 m == SetStatus(h, p, "RUNNING")
      <4>1. StatusSet(h, m, p, "RUNNING")
        BY Zenon, <3>1, <3>3, StatusIsSet
      <4>2. status' = m.status
        BY Zenon, <2>1
      <4> HIDE DEF m, p
      <4> QED BY <4>1, <4>2 DEF StatusSet
    <3> QED BY <1>0, <3>2, <3>4
  <2>2. CASE status' = h.status /\ queue' = h.queue
    BY Zenon, <2>2
  <2> QED BY <1>1, <2>1, <2>2 DEF SwitchTask
<1> DEFINE k1 == IF k.status[current_running] = "RUNNING"
                 THEN queue_push(SetStatus(k, current_running, "READY"),
                                 ready_queue, current_running)
                 ELSE k
<1>2. /\ k1 \in HandlerState
      /\ \A q \in WaitQueue : k1.queue[q] = k.queue[q]
      /\ \A x \in Slot : k1.status[x] \in {"READY", k.status[x]}
  <2> DEFINE k2 == SetStatus(k, current_running, "READY")
             k3 == queue_push(k2, ready_queue, current_running)
  <2>1. /\ k2 \in HandlerState /\ k2.queue = k.queue
        /\ \A x \in Slot : x # current_running => k2.status[x] = k.status[x]
        /\ k2.status[current_running] = "READY"
    <3>1. "READY" \in Status
      BY DEF Status
    <3> QED BY <3>1, SetStatusFacts
  <2> HIDE DEF k2
  <2>2. /\ k3 \in HandlerState /\ k3.status = k2.status
        /\ \A r \in Queue : r # ready_queue => k3.queue[r] = k2.queue[r]
    BY Zenon, <2>1, PushFacts, QueueNames
  <2> HIDE DEF k3
  <2>3. k1 = IF k.status[current_running] = "RUNNING" THEN k3 ELSE k
    BY DEF k2, k3
  <2> QED BY <1>0, <2>1, <2>2, <2>3
<1>3. \/ SwitchTask(k1)
      \/ \E i \in DOMAIN k1.queue[sleeping_queue] :
           SwitchTask(MakeReady(k1, sleeping_queue, i))
  BY Zenon DEF scheduler
<1> HIDE DEF k1
<1>4. CASE SwitchTask(k1)
  BY <1>1, <1>2, <1>4
<1>5. ASSUME NEW i \in DOMAIN k1.queue[sleeping_queue],
             MakeReady(k1, sleeping_queue, i) \in HandlerState,
             SwitchTask(MakeReady(k1, sleeping_queue, i))
      PROVE  /\ \A q \in WaitQueue : queue'[q] = k.queue[q]
             /\ \A x \in Slot : status'[x] \in {"READY", "RUNNING", k.status[x]}
  <2> DEFINE k4 == MakeReady(k1, sleeping_queue, i)
  <2>1. /\ \A r \in WaitQueue \ {sleeping_queue} : k4.queue[r] = k1.queue[r]
        /\ \A x \in Slot : k4.status[x] \in {"READY", k1.status[x]}
    BY Zenon, <1>2, QueueNames, MakeReadyKeeps
  <2>2. /\ \A q \in WaitQueue : queue'[q] = k4.queue[q]
        /\ \A x \in Slot : status'[x] \in {"RUNNING", k4.status[x]}
    BY <1>1, <1>5
  <2> HIDE DEF k4
  <2> QED BY Zenon, <1>0, <1>2, <2>1, <2>2
<1> QED BY Zenon, <1>2, <1>3, <1>4, <1>5, QueueNames, HandlerTypes

\* clear_waiting_queue empties one wait queue and makes nobody EXITED.
LEMMA ClearKeeps ==
  ASSUME NEW k \in HandlerState, NEW q \in WaitQueue
  PROVE  /\ \A r \in WaitQueue :
              clear_waiting_queue(k, q).queue[r] =
                IF r = q THEN <<>> ELSE k.queue[r]
         /\ \A x \in Slot :
              clear_waiting_queue(k, q).status[x] \in {"READY", k.status[x]}
<1>1. WaitQueue \subseteq Queue /\ ready_queue \notin WaitQueue
  BY QueueNames, ObjectAssumption
<1> QED BY Zenon, <1>1 DEF clear_waiting_queue

(***************************************************************************)
(* Types                                                                   *)
(***************************************************************************)

\* The waiters that do_mutex_lock_release wakes, in any of the orders that the
\* priorities allow.
LEMMA WakeOrderFacts ==
  ASSUME NEW k \in HandlerState, NEW arr, NEW s \in WakeOrders(k, arr)
  PROVE  s \in Seq(Slot) /\ IsInjective(s) /\ Range(s) = Woken(k, arr)
<1> DEFINE W == Woken(k, arr)
<1>1. W \subseteq Slot
  <2>1. \A l \in Locked(arr) : k.queue[l] \in Seq(Slot)
    BY QueueNames DEF Locked, HandlerState
  <2>2. \A l \in Locked(arr) : Range(k.queue[l]) \subseteq Slot
    BY <2>1 DEF Range
  <2> QED BY <2>2 DEF Woken
<1>2. PICK n \in 0 .. NUM_MAX_TASK : s \in Bijection(1 .. n, W)
  BY DEF WakeOrders, Orders
<1> HIDE DEF W
<1>3. n \in Nat
  BY <1>2, NumAssumption
<1>4. /\ s \in [1 .. n -> W] /\ IsInjective(s)
      /\ \A w \in W : \E i \in 1 .. n : s[i] = w
  BY <1>2 DEF Bijection, Injection, Surjection
<1>5. s \in Seq(Slot) /\ DOMAIN s = 1 .. n
  BY <1>1, <1>3, <1>4
<1>6. Range(s) = W
  BY <1>4, <1>5 DEF Range
<1> QED BY <1>4, <1>5, <1>6 DEF W

\* do_mutex_lock_release leaves a handler state.
LEMMA WakeTypes ==
  ASSUME NEW k \in HandlerState, NEW arr, NEW s \in Seq(Slot)
  PROVE  WakeWaiters(k, arr, s) \in HandlerState
<1>1. \A q \in Queue : k.queue[q] \o s \in Seq(Slot)
  BY ConcatElements DEF HandlerState
<1>2. "READY" \in Status /\ <<>> \in Seq(Slot)
  BY DEF Status
<1> QED BY <1>1, <1>2 DEF WakeWaiters, HandlerState

\* Taking a task out of some of the queues leaves a handler state.
LEMMA TakeOutTypes ==
  ASSUME NEW k \in HandlerState, NEW p \in Slot, NEW Q
  PROVE  TakeOut(k, p, Q) \in HandlerState
<1>1. ASSUME NEW q \in Queue PROVE Without(k.queue[q], p) \in Seq(Slot)
  <2> DEFINE s == k.queue[q]
             i == CHOOSE i \in DOMAIN s : s[i] = p
  <2>1. s \in Seq(Slot)
    BY DEF HandlerState
  <2>2. CASE p \in Range(s)
    <3>1. i \in DOMAIN s
      BY <2>2 DEF Range
    <3>2. i \in 1 .. Len(s)
      BY <2>1, <3>1
    <3> HIDE DEF i, s
    <3>3. RemoveAt(s, i) \in Seq(Slot)
      BY <2>1, <3>2, RemoveElement
    <3> QED BY <2>2, <3>3 DEF Without, i, s
  <2>3. CASE p \notin Range(s)
    BY <2>1, <2>3 DEF Without
  <2> QED BY <2>2, <2>3
<1> QED BY Zenon, <1>1 DEF TakeOut, HandlerState

\* The variables of the scheduler that a handler's end assigns.
SwitchTypes ==
  /\ current_running \in Slot
  /\ status \in [Slot -> Status]
  /\ priority \in [Slot -> Int]
  /\ queue \in [Queue -> Seq(Slot)]
  /\ machine \in {"up", "hung", "crashed"}

\* A handler that returns leaves values of the right types.
LEMMA ReturnTypes ==
  ASSUME SwitchTypes, NEW k \in HandlerState, Return(k)
  PROVE  SwitchTypes'
  BY DEF SwitchTypes, Return, HandlerState

\* scheduler() leaves values of the right types.
LEMMA SchedulerTypes ==
  ASSUME SwitchTypes, NEW k \in HandlerState, scheduler(k)
  PROVE  SwitchTypes'
<1>1. ASSUME NEW h \in HandlerState, SwitchTask(h) PROVE SwitchTypes'
  <2>1. ASSUME NEW i \in DOMAIN h.queue[ready_queue],
               machine' = machine,
               priority' = [priority EXCEPT ![current_running] = @ - 1],
               current_running' = h.queue[ready_queue][i],
               status' = SetStatus(h, h.queue[ready_queue][i], "RUNNING").status,
               queue' = queue_remove(h, ready_queue, i).queue
        PROVE  SwitchTypes'
    <3>1. h.queue[ready_queue][i] \in Slot
      <4>1. h.queue[ready_queue] \in Seq(Slot)
        BY QueueNames DEF HandlerState
      <4> QED BY <4>1
    <3>2. "RUNNING" \in Status
      BY Zenon DEF Status
    <3>3. SetStatus(h, h.queue[ready_queue][i], "RUNNING") \in HandlerState
      BY <3>1, <3>2, SetStatusFacts
    <3>4. queue_remove(h, ready_queue, i) \in HandlerState
      BY QueueNames, RemoveFacts
    <3>5. status' \in [Slot -> Status] /\ queue' \in [Queue -> Seq(Slot)]
      BY <2>1, <3>3, <3>4 DEF HandlerState
    <3> QED BY <2>1, <3>1, <3>5 DEF SwitchTypes
  <2>2. ASSUME machine' \in {"hung", "crashed"}, status' = h.status,
               queue' = h.queue, priority' = priority,
               current_running' = current_running
        PROVE  SwitchTypes'
    BY <2>2 DEF SwitchTypes, HandlerState
  <2> QED BY Zenon, <1>1, <2>1, <2>2 DEF SwitchTask
<1> DEFINE k1 == IF k.status[current_running] = "RUNNING"
                 THEN queue_push(SetStatus(k, current_running, "READY"),
                                 ready_queue, current_running)
                 ELSE k
<1>2. k1 \in HandlerState
  <2>1. "READY" \in Status /\ current_running \in Slot
    BY DEF Status, SwitchTypes
  <2>2. SetStatus(k, current_running, "READY") \in HandlerState
    BY Zenon, <2>1, SetStatusFacts
  <2> QED BY <2>1, <2>2, PushFacts, QueueNames
<1>3. \/ SwitchTask(k1)
      \/ \E i \in DOMAIN k1.queue[sleeping_queue] :
           SwitchTask(MakeReady(k1, sleeping_queue, i))
  BY Zenon DEF scheduler
<1> HIDE DEF k1
<1>4. current_running \in Slot
  BY DEF SwitchTypes
<1> QED BY Zenon, <1>1, <1>2, <1>3, <1>4, HandlerTypes, QueueNames

\* The variables that the end of a handler leaves alone.
OtherTypes ==
  /\ sleeping_deadline \in [Slot -> Nat]
  /\ timer \in Nat
  /\ lock_status \in [Mutex -> {"LOCKED", "UNLOCKED"}]
  /\ lock \in [Slot -> [LockIndex -> Mutex \cup {NULL}]]
  /\ sem_value \in [Semaphore -> Nat]
  /\ max_num \in [Barrier -> Nat]
  /\ not_arrive_num \in [Barrier -> Int]
  /\ resume \in [Slot -> Mutex \cup {NULL}]
  /\ holds \in [Slot -> SUBSET Mutex]
  /\ pid \in [Slot -> Nat]
  /\ PID \in Nat

\* The two halves of the type invariant, before and after a step.
LEMMA TypeParts ==
  /\ TypeOK <=> SwitchTypes /\ OtherTypes
  /\ TypeOK' <=> SwitchTypes' /\ OtherTypes'
  BY Zenon DEF TypeOK, SwitchTypes, OtherTypes

\* A handler starts from a handler state.
LEMMA NowType == SwitchTypes => Now \in HandlerState
  BY Zenon DEF SwitchTypes, Now, HandlerState

\* The initial state has the right types.
LEMMA InitTypes == Init => TypeOK
<1> SUFFICES ASSUME Init PROVE TypeOK
  OBVIOUS
<1>1. 1 \in Slot /\ "RUNNING" \in Status /\ "EXITED" \in Status
  BY NumAssumption DEF Slot, Status
<1>2. \A q \in Queue : <<>> \in Seq(Slot)
  OBVIOUS
<1> QED BY <1>1, <1>2, NumAssumption DEF Init, TypeOK, NoLocks

\* The arrays and the mutexes that do_mutex_lock_release writes.
LEMMA UnlockTypes ==
  ASSUME OtherTypes, NEW arr, NEW k
  PROVE  /\ Unlock(arr) \in [Mutex -> {"LOCKED", "UNLOCKED"}]
         /\ ForgetLocks(k, arr) \in [Slot -> [LockIndex -> Mutex \cup {NULL}]]
<1>1. 0 \in LockIndex
  BY SyncAssumption DEF LockIndex
<1> QED BY <1>1 DEF Unlock, ForgetLocks, OtherTypes

\* The timer interrupt keeps the types.
LEMMA TimerTypes == TypeOK /\ TimerInterrupt => TypeOK'
<1> SUFFICES ASSUME SwitchTypes, OtherTypes, TimerInterrupt
             PROVE  SwitchTypes' /\ OtherTypes'
  BY TypeParts
<1>1. OtherTypes'
  BY DEF OtherTypes, TimerInterrupt, syncVars
<1>2. current_running \in Slot /\ Now \in HandlerState
  BY NowType DEF SwitchTypes
<1>3. SwitchTypes'
  <2>1. CASE scheduler(Now)
    BY <2>1, <1>2, SchedulerTypes
  <2>2. ASSUME NEW i \in DOMAIN queue[recv_block_queue],
               scheduler(MakeReady(Now, recv_block_queue, i))
        PROVE  SwitchTypes'
    <3>1. i \in DOMAIN Now.queue[recv_block_queue]
      BY DEF Now
    <3>2. MakeReady(Now, recv_block_queue, i) \in HandlerState
      BY Zenon, <1>2, <3>1, HandlerTypes, QueueNames
    <3> QED BY <2>2, <3>2, SchedulerTypes
  <2> QED BY <2>1, <2>2 DEF TimerInterrupt
<1> QED BY <1>1, <1>3

\* A system call on tasks keeps the types.
LEMMA TaskCallTypes == TypeOK /\ TaskCall => TypeOK'
<1> SUFFICES ASSUME SwitchTypes, OtherTypes, TaskCall
             PROVE  SwitchTypes' /\ OtherTypes'
  BY TypeParts
<1>0. /\ current_running \in Slot /\ Now \in HandlerState
      /\ "SLEEPING" \in Status /\ "EXITED" \in Status /\ "CREATED" \in Status
  BY NowType DEF SwitchTypes, Status
<1>1. CASE do_wait_recv_package
  <2>1. OtherTypes'
    BY <1>1 DEF OtherTypes, do_wait_recv_package, syncVars
  <2>2. Block(Now, recv_block_queue) \in HandlerState
    BY <1>0, HandlerTypes, QueueNames
  <2> QED BY <2>1, <2>2, <1>1, SchedulerTypes DEF do_wait_recv_package
<1>2. ASSUME NEW t \in SleepTimes, do_sleep(t) PROVE SwitchTypes' /\ OtherTypes'
  <2>1. OtherTypes'
    BY <1>2, <1>0, KernelAssumption DEF OtherTypes, do_sleep, syncVars
  <2>2. SetStatus(Now, current_running, "SLEEPING") \in HandlerState
    BY <1>0, SetStatusFacts
  <2>3. queue_push(SetStatus(Now, current_running, "SLEEPING"),
                   sleeping_queue, current_running) \in HandlerState
    BY Zenon, <2>2, <1>0, PushFacts, QueueNames
  <2> QED BY <2>1, <2>3, <1>2, SchedulerTypes DEF do_sleep
<1>3. CASE do_spawn
  <2>1. CASE UNCHANGED <<schedVars, syncVars, pid>>
    <3>1. PID' = PID + 1
      BY <1>3 DEF do_spawn
    <3>2. SwitchTypes'
      BY <2>1 DEF schedVars, SwitchTypes
    <3>3. OtherTypes'
      BY <2>1, <3>1 DEF schedVars, syncVars, OtherTypes
    <3> QED BY <3>2, <3>3
  <2>2. ASSUME NEW p \in FreeSlot,
               pid' = [pid EXCEPT ![p] = NewPid],
               status' = queue_push(SetStatus(queue_init(Now, p), p, "CREATED"),
                                    ready_queue, p).status,
               queue' = queue_push(SetStatus(queue_init(Now, p), p, "CREATED"),
                                    ready_queue, p).queue,
               priority' = [priority EXCEPT ![p] = INITIAL_PRIORITY],
               sleeping_deadline' = [sleeping_deadline EXCEPT ![p] = 0],
               lock' = [lock EXCEPT ![p] = NoLocks],
               resume' = [resume EXCEPT ![p] = NULL],
               UNCHANGED <<current_running, timer, machine, lock_status,
                           sem_value, max_num, not_arrive_num, holds>>
        PROVE  SwitchTypes' /\ OtherTypes'
    <3>1. p \in Slot /\ p \in Queue
      BY QueueNames DEF FreeSlot
    <3>2. queue_init(Now, p) \in HandlerState
      BY <1>0, <3>1, HandlerTypes
    <3>3. SetStatus(queue_init(Now, p), p, "CREATED") \in HandlerState
      BY Zenon, <1>0, <3>1, <3>2, SetStatusFacts
    <3>4. queue_push(SetStatus(queue_init(Now, p), p, "CREATED"),
                     ready_queue, p) \in HandlerState
      BY <3>1, <3>3, PushFacts, QueueNames
    <3>5. status' \in [Slot -> Status] /\ queue' \in [Queue -> Seq(Slot)]
      BY Zenon, <2>2, <3>4 DEF HandlerState
    <3>6. SwitchTypes'
      BY Zenon, <2>2, <3>1, <3>5, NumAssumption DEF SwitchTypes
    <3>7. NoLocks \in [LockIndex -> Mutex \cup {NULL}] /\ PID' \in Nat
      BY <1>3 DEF NoLocks, do_spawn, OtherTypes
    <3>8. OtherTypes'
      BY <2>2, <3>1, <3>7 DEF OtherTypes, NewPid
    <3> QED BY <3>6, <3>8
  <2> QED BY <1>3, <2>1, <2>2 DEF do_spawn
<1>4. CASE do_exit
  <2>1. OtherTypes'
    <3>1. holds' \in [Slot -> SUBSET Mutex]
      BY <1>4, <1>0 DEF do_exit, OtherTypes
    <3> QED BY <3>1, <1>4, UnlockTypes DEF OtherTypes, do_exit
  <2>2. PICK s \in WakeOrders(Now, lock[current_running]) :
          scheduler(SetStatus(LetGo(Now, current_running, s),
                              current_running, "EXITED"))
    BY Zenon, <1>4 DEF do_exit
  <2>3. LetGo(Now, current_running, s) \in HandlerState
    BY Zenon, <1>0, WakeOrderFacts, WakeTypes, HandlerTypes, QueueNames DEF LetGo
  <2>4. SetStatus(LetGo(Now, current_running, s), current_running, "EXITED")
          \in HandlerState
    BY <1>0, <2>3, SetStatusFacts
  <2> QED BY Zenon, <2>1, <2>2, <2>4, SchedulerTypes
<1>5. ASSUME NEW n \in 1 .. PID, do_waitpid(n) PROVE SwitchTypes' /\ OtherTypes'
  <2>1. PICK p \in Slot : /\ UNCHANGED <<sleeping_deadline, timer, syncVars, pid, PID>>
                          /\ scheduler(Block(Now, p))
    BY Zenon, <1>5 DEF do_waitpid
  <2>2. OtherTypes'
    BY <2>1 DEF OtherTypes, syncVars
  <2>3. Block(Now, p) \in HandlerState
    BY <1>0, HandlerTypes, QueueNames
  <2> QED BY <2>1, <2>2, <2>3, SchedulerTypes
<1>6. ASSUME NEW n \in 1 .. PID, do_kill(n) PROVE SwitchTypes' /\ OtherTypes'
  <2> DEFINE K(p) == SetStatus(TakeOut(Now, p, KillQueues(p)), p, "EXITED")
  <2>1. PICK p \in Slot :
          /\ lock_status' = Unlock(lock[p])
          /\ lock' = ForgetLocks(K(p), lock[p])
          /\ holds' = [holds EXCEPT ![p] = {}]
          /\ UNCHANGED <<sleeping_deadline, timer, sem_value, max_num,
                         not_arrive_num, resume, pid, PID>>
          /\ \E s \in WakeOrders(K(p), lock[p]) :
               IF p = current_running THEN scheduler(LetGo(K(p), p, s))
               ELSE Return(LetGo(K(p), p, s))
    BY Zenon, <1>6 DEF do_kill
  <2>2. OtherTypes'
    <3>1. holds' \in [Slot -> SUBSET Mutex]
      BY Zenon, <2>1 DEF OtherTypes
    <3> HIDE DEF K
    <3> QED BY Zenon, <2>1, <3>1, UnlockTypes DEF OtherTypes
  <2>3. K(p) \in HandlerState
    BY <1>0, TakeOutTypes, SetStatusFacts
  <2> HIDE DEF K
  <2>4. PICK s \in WakeOrders(K(p), lock[p]) :
          IF p = current_running THEN scheduler(LetGo(K(p), p, s))
          ELSE Return(LetGo(K(p), p, s))
    BY Zenon, <2>1
  <2>5. LetGo(K(p), p, s) \in HandlerState
    BY Zenon, <1>0, <2>3, WakeOrderFacts, WakeTypes, HandlerTypes, QueueNames DEF LetGo
  <2> QED BY <2>2, <2>4, <2>5, SchedulerTypes, ReturnTypes
<1> QED BY <1>1, <1>2, <1>3, <1>4, <1>5, <1>6 DEF TaskCall

\* do_mutex_lock_acquire, from its loop on, keeps the types.
LEMMA AcquireTypes ==
  ASSUME SwitchTypes, OtherTypes, NEW l \in Mutex, AcquireLoop(l),
         UNCHANGED <<sem_value, max_num, not_arrive_num, pid, PID>>
  PROVE  SwitchTypes' /\ OtherTypes'
<1>0. current_running \in Slot /\ Now \in HandlerState
  BY NowType DEF SwitchTypes
<1>1. CASE /\ resume' = [resume EXCEPT ![current_running] = l]
           /\ UNCHANGED <<sleeping_deadline, timer, lock_status, lock, holds>>
           /\ scheduler(Block(Now, l))
  <2>1. OtherTypes'
    BY <1>0, <1>1 DEF OtherTypes
  <2>2. Block(Now, l) \in HandlerState
    BY <1>0, HandlerTypes, QueueNames
  <2> QED BY Zenon, <1>1, <2>1, <2>2, SchedulerTypes
<1>2. CASE /\ lock_status' = [lock_status EXCEPT ![l] = "LOCKED"]
           /\ RecordLock(l)
           /\ holds' = [holds EXCEPT ![current_running] = @ \cup {l}]
           /\ resume' = [resume EXCEPT ![current_running] = NULL]
           /\ UNCHANGED schedVars
  <2>1. SwitchTypes' /\ sleeping_deadline' = sleeping_deadline /\ timer' = timer
    BY <1>2 DEF SwitchTypes, schedVars
  <2>2. lock' \in [Slot -> [LockIndex -> Mutex \cup {NULL}]]
    <3>1. ASSUME NEW i \in LockIndex,
                 lock' = [lock EXCEPT ![current_running][i] = l]
          PROVE  lock' \in [Slot -> [LockIndex -> Mutex \cup {NULL}]]
      BY Zenon, <3>1 DEF OtherTypes
    <3>2. CASE lock' = lock
      BY <3>2 DEF OtherTypes
    <3> QED BY <1>2, <3>1, <3>2 DEF RecordLock
  <2>3. holds' \in [Slot -> SUBSET Mutex]
    BY Zenon, <1>0, <1>2 DEF OtherTypes
  <2>4. OtherTypes'
    BY <1>0, <1>2, <2>1, <2>2, <2>3 DEF OtherTypes
  <2> QED BY <2>1, <2>4
<1> QED BY <1>1, <1>2 DEF AcquireLoop

\* A system call on a mutex, or the rest of one, keeps the types.
LEMMA MutexTypes ==
  ASSUME SwitchTypes, OtherTypes, MutexCall \/ ResumeAcquire,
         UNCHANGED <<pid, PID>>
  PROVE  SwitchTypes' /\ OtherTypes'
<1>0. current_running \in Slot /\ Now \in HandlerState
  BY NowType DEF SwitchTypes
<1>1. CASE ResumeAcquire
  <2>1. resume[current_running] \in Mutex
    BY Zenon, <1>0, <1>1 DEF ResumeAcquire, OtherTypes
  <2> QED BY <1>1, <2>1, AcquireTypes DEF ResumeAcquire
<1>2. ASSUME NEW l \in Mutex, do_mutex_lock_init(l)
      PROVE  SwitchTypes' /\ OtherTypes'
  BY Zenon, <1>2 DEF do_mutex_lock_init, SwitchTypes, OtherTypes, schedVars
<1>3. ASSUME NEW l \in Mutex, do_mutex_lock_acquire(l)
      PROVE  SwitchTypes' /\ OtherTypes'
  BY <1>3, AcquireTypes DEF do_mutex_lock_acquire
<1>4. ASSUME NEW l \in Mutex, do_mutex_lock_release(l)
      PROVE  SwitchTypes' /\ OtherTypes'
  <2>1. holds' \in [Slot -> SUBSET Mutex]
    BY Zenon, <1>0, <1>4 DEF do_mutex_lock_release, OtherTypes
  <2>2. OtherTypes'
    BY <1>4, <2>1, UnlockTypes DEF do_mutex_lock_release, OtherTypes
  <2>3. PICK s \in WakeOrders(Now, <<l>>) : Return(WakeWaiters(Now, <<l>>, s))
    BY <1>4 DEF do_mutex_lock_release
  <2>4. WakeWaiters(Now, <<l>>, s) \in HandlerState
    BY <1>0, WakeOrderFacts, WakeTypes
  <2> QED BY <2>2, <2>3, <2>4, ReturnTypes
<1> QED BY <1>1, <1>2, <1>3, <1>4 DEF MutexCall

\* A system call on a semaphore keeps the types.
LEMMA SemaphoreTypes ==
  ASSUME SwitchTypes, OtherTypes, SemaphoreCall, UNCHANGED <<pid, PID>>
  PROVE  SwitchTypes' /\ OtherTypes'
<1>0. current_running \in Slot /\ Now \in HandlerState
  BY NowType DEF SwitchTypes
<1>1. ASSUME NEW x \in Semaphore, NEW val \in 0 .. MaxSem,
             do_semaphore_init(x, val)
      PROVE  SwitchTypes' /\ OtherTypes'
  BY <1>1, SyncAssumption
  DEF do_semaphore_init, SwitchTypes, OtherTypes, schedVars
<1>2. ASSUME NEW x \in Semaphore, do_semaphore_up(x)
      PROVE  SwitchTypes' /\ OtherTypes'
  <2>1. OtherTypes'
    BY <1>2 DEF do_semaphore_up, OtherTypes
  <2>2. CASE ~Idle(x) /\ Return(MakeReady(Now, x, 1))
    <3>1. Now.queue[x] \in Seq(Slot) /\ Now.queue[x] # <<>>
      BY Zenon, <1>0, <2>2, QueueNames DEF Idle, Now, HandlerState
    <3>2. 1 \in DOMAIN Now.queue[x]
      BY <3>1
    <3>3. MakeReady(Now, x, 1) \in HandlerState
      BY Zenon, <1>0, <3>2, HandlerTypes, QueueNames
    <3> QED BY Zenon, <2>1, <2>2, <3>3, ReturnTypes
  <2> QED BY Zenon, <1>0, <1>2, <2>1, <2>2, ReturnTypes DEF do_semaphore_up
<1>3. ASSUME NEW x \in Semaphore, do_semaphore_down(x)
      PROVE  SwitchTypes' /\ OtherTypes'
  <2>1. OtherTypes'
    <3>1. CASE sem_value' = sem_value
      BY <1>3, <3>1 DEF do_semaphore_down, OtherTypes
    <3>2. CASE /\ sem_value[x] # 0
               /\ sem_value' = [sem_value EXCEPT ![x] = @ - 1]
      <4>1. sem_value[x] \in Nat
        BY DEF OtherTypes
      <4>2. sem_value[x] - 1 \in Nat
        BY <3>2, <4>1
      <4>3. sem_value' \in [Semaphore -> Nat]
        BY <3>2, <4>2 DEF OtherTypes
      <4> QED BY <1>3, <4>3 DEF do_semaphore_down, OtherTypes
    <3> QED BY Zenon, <1>3, <3>1, <3>2 DEF do_semaphore_down
  <2>2. Block(Now, x) \in HandlerState
    BY <1>0, HandlerTypes, QueueNames
  <2>3. SwitchTypes'
    BY <1>0, <1>3, <2>2, SchedulerTypes, ReturnTypes DEF do_semaphore_down
  <2> QED BY <2>1, <2>3
<1> QED BY <1>1, <1>2, <1>3 DEF SemaphoreCall

\* A system call on a condition variable keeps the types.
LEMMA ConditionTypes ==
  ASSUME SwitchTypes, OtherTypes, ConditionCall, UNCHANGED <<pid, PID>>
  PROVE  SwitchTypes' /\ OtherTypes'
<1>0. current_running \in Slot /\ Now \in HandlerState
  BY NowType DEF SwitchTypes
<1>1. ASSUME NEW c \in Condition, NEW l \in Mutex, do_condition_wait(l, c)
      PROVE  SwitchTypes' /\ OtherTypes'
  <2>1. /\ holds' \in [Slot -> SUBSET Mutex]
        /\ resume' \in [Slot -> Mutex \cup {NULL}]
    BY Zenon, <1>0, <1>1 DEF do_condition_wait, OtherTypes
  <2>2. OtherTypes'
    BY <1>1, <2>1, UnlockTypes DEF do_condition_wait, OtherTypes
  <2>3. PICK s \in WakeOrders(Block(Now, c), <<l>>) :
          scheduler(WakeWaiters(Block(Now, c), <<l>>, s))
    BY <1>1 DEF do_condition_wait
  <2>5. Block(Now, c) \in HandlerState
    BY <1>0, HandlerTypes, QueueNames
  <2>4. s \in Seq(Slot)
    BY <2>5, WakeOrderFacts
  <2>6. WakeWaiters(Block(Now, c), <<l>>, s) \in HandlerState
    BY <2>4, <2>5, WakeTypes
  <2> QED BY Zenon, <2>2, <2>3, <2>6, SchedulerTypes
<1>2. ASSUME NEW c \in Condition, do_condition_signal(c)
      PROVE  SwitchTypes' /\ OtherTypes'
  <2>1. OtherTypes'
    BY Zenon, <1>2 DEF do_condition_signal, OtherTypes, syncVars
  <2>2. Now.queue[c] \in Seq(Slot) /\ Now.queue[c] # <<>>
    BY Zenon, <1>0, <1>2, QueueNames DEF do_condition_signal, Idle, Now, HandlerState
  <2>3. 1 \in DOMAIN Now.queue[c]
    BY <2>2
  <2>4. MakeReady(Now, c, 1) \in HandlerState
    BY Zenon, <1>0, <2>3, HandlerTypes, QueueNames
  <2> QED BY <1>2, <2>1, <2>4, ReturnTypes DEF do_condition_signal
<1>3. ASSUME NEW c \in Condition, do_condition_broadcast(c)
      PROVE  SwitchTypes' /\ OtherTypes'
  <2>1. OtherTypes'
    BY <1>3 DEF do_condition_broadcast, OtherTypes, syncVars
  <2>2. clear_waiting_queue(Now, c) \in HandlerState
    BY <1>0, HandlerTypes, QueueNames
  <2> QED BY Zenon, <1>3, <2>1, <2>2, ReturnTypes DEF do_condition_broadcast
<1> QED BY <1>1, <1>2, <1>3 DEF ConditionCall

\* A system call on a barrier keeps the types.
LEMMA BarrierTypes ==
  ASSUME SwitchTypes, OtherTypes, BarrierCall, UNCHANGED <<pid, PID>>
  PROVE  SwitchTypes' /\ OtherTypes'
<1>0. current_running \in Slot /\ Now \in HandlerState
  BY NowType DEF SwitchTypes
<1>1. ASSUME NEW b \in Barrier, NEW goal \in 1 .. MaxGoal,
             do_barrier_init(b, goal)
      PROVE  SwitchTypes' /\ OtherTypes'
  <2>1. SwitchTypes'
    BY <1>1 DEF do_barrier_init, SwitchTypes, schedVars
  <2>2. goal \in Nat
    BY SyncAssumption
  <2>3. OtherTypes'
    BY <1>1, <2>2 DEF do_barrier_init, OtherTypes, schedVars
  <2> QED BY Zenon, <2>1, <2>3
<1>2. ASSUME NEW b \in Barrier, do_barrier_wait(b)
      PROVE  SwitchTypes' /\ OtherTypes'
  <2>1. OtherTypes'
    BY <1>2 DEF do_barrier_wait, OtherTypes
  <2>2. /\ Block(Now, b) \in HandlerState
        /\ clear_waiting_queue(Now, b) \in HandlerState
    BY Zenon, <1>0, HandlerTypes, QueueNames
  <2>3. SwitchTypes'
    BY <1>2, <2>2, SchedulerTypes, ReturnTypes DEF do_barrier_wait
  <2> QED BY <2>1, <2>3
<1> QED BY <1>1, <1>2 DEF BarrierCall

\* Every variable of the kernel always has a value of its type.
THEOREM TypeCorrect == Spec => []TypeOK
<1>1. TypeOK /\ [Next]_vars => TypeOK'
  <2> SUFFICES ASSUME TypeOK, [Next]_vars PROVE TypeOK'
    OBVIOUS
  <2>1. CASE SyncCall
    <3>1. SwitchTypes' /\ OtherTypes'
      BY Zenon, <2>1, TypeParts, MutexTypes, SemaphoreTypes, ConditionTypes,
         BarrierTypes DEF SyncCall
    <3> QED BY <3>1, TypeParts
  <2>2. CASE UNCHANGED vars
    BY <2>2 DEF vars, schedVars, syncVars, TypeOK
  <2> QED BY <2>1, <2>2, TimerTypes, TaskCallTypes DEF Next
<1> QED BY <1>1, InitTypes, PTL DEF Spec

-----------------------------------------------------------------------------
(***************************************************************************)
(* Nobody waits for a task that is gone                                    *)
(***************************************************************************)

\* h is k with the queues in S emptied and their tasks made ready.
WokeUp(k, h, S) ==
  /\ \A r \in WaitQueue : h.queue[r] = IF r \in S THEN <<>> ELSE k.queue[r]
  /\ \A x \in Slot : h.status[x] \in {"READY", k.status[x]}

\* do_mutex_lock_release empties queues of mutexes and makes nobody EXITED.
LEMMA WakeKeeps ==
  ASSUME NEW k \in HandlerState, NEW arr, NEW s
  PROVE  WokeUp(k, WakeWaiters(k, arr, s), Locked(arr))
<1>1. WaitQueue \subseteq Queue /\ ready_queue \notin WaitQueue
  BY Zenon, QueueNames, ObjectAssumption
<1> QED BY <1>1 DEF WakeWaiters, WokeUp

\* The end of task p empties its waiting_queue and touches no other one.
LEMMA LetGoKeeps ==
  ASSUME NEW k \in HandlerState, NEW p \in Slot, NEW s \in Seq(Slot)
  PROVE  /\ LetGo(k, p, s) \in HandlerState
         /\ \A t \in Slot : LetGo(k, p, s).queue[t] =
                              IF t = p THEN <<>> ELSE k.queue[t]
         /\ \A x \in Slot : LetGo(k, p, s).status[x] \in {"READY", k.status[x]}
<1> DEFINE k1 == WakeWaiters(k, lock[p], s)
           k2 == clear_waiting_queue(k1, p)
<1>1. Slot \subseteq WaitQueue /\ Slot \cap Locked(lock[p]) = {}
  BY Zenon, QueueNames, ObjectAssumption DEF Locked
<1>2. /\ k1 \in HandlerState
      /\ \A t \in Slot : k1.queue[t] = k.queue[t]
      /\ \A x \in Slot : k1.status[x] \in {"READY", k.status[x]}
  <2>1. k1 \in HandlerState
    BY WakeTypes
  <2>2. \A t \in Slot : t \in WaitQueue /\ t \notin Locked(lock[p])
    BY Zenon, <1>1
  <2>3. WokeUp(k, k1, Locked(lock[p]))
    BY Zenon, WakeKeeps
  <2> HIDE DEF k1
  <2> QED BY Zenon, <2>1, <2>2, <2>3 DEF WokeUp
<1> HIDE DEF k1
<1>3. k2 \in HandlerState
  <2>1. \A r \in Queue : k1.queue[r] \o k1.queue[p] \in Seq(Slot)
    BY <1>1, <1>2, ConcatElements, QueueNames DEF HandlerState
  <2>2. "READY" \in Status
    BY Zenon DEF Status
  <2> QED BY <1>2, <2>1, <2>2 DEF clear_waiting_queue, HandlerState
<1>4. /\ \A t \in Slot : k2.queue[t] = IF t = p THEN <<>> ELSE k1.queue[t]
      /\ \A x \in Slot : k2.status[x] \in {"READY", k1.status[x]}
  <2>1. k1 \in HandlerState /\ p \in WaitQueue
    BY <1>1, <1>2
  <2>2. \A t \in Slot : t \in WaitQueue
    BY Zenon, <1>1
  <2>3. \A t \in Slot : k2.queue[t] = IF t = p THEN <<>> ELSE k1.queue[t]
    BY <2>1, <2>2, ClearKeeps
  <2>4. \A x \in Slot : k2.status[x] \in {"READY", k1.status[x]}
    BY <2>1, ClearKeeps
  <2> QED BY Zenon, <2>3, <2>4
<1> HIDE DEF k2
<1>5. k2 = LetGo(k, p, s)
  BY DEF LetGo, k1, k2
<1> QED BY Zenon, <1>2, <1>3, <1>4, <1>5

Deserted(k) == \A t \in Slot : k.status[t] = "EXITED" => k.queue[t] = <<>>

\* Handlers end without making a waiter of a dead task.
LEMMA DesertedEnd ==
  ASSUME SwitchTypes, NEW k \in HandlerState, Deserted(k),
         scheduler(k) \/ Return(k)
  PROVE  NoWaiterOnDead'
<1>1. CASE scheduler(k)
  <2>1. /\ \A q \in WaitQueue : queue'[q] = k.queue[q]
        /\ \A x \in Slot : status'[x] \in {"READY", "RUNNING", k.status[x]}
    BY <1>1, SchedulerKeeps DEF SwitchTypes
  <2> QED BY Zenon, <2>1, QueueNames DEF Deserted, NoWaiterOnDead
<1>2. CASE Return(k)
  BY Zenon, <1>2 DEF Return, Deserted, NoWaiterOnDead
<1> QED BY <1>1, <1>2

\* Waking one task, and blocking on anything but a dead task.
LEMMA DesertedSteps ==
  ASSUME NEW k \in HandlerState, Deserted(k), current_running \in Slot
  PROVE  /\ \A q \in WaitQueue : \A i \in DOMAIN k.queue[q] :
              Deserted(MakeReady(k, q, i))
         /\ \A q \in WaitQueue :
              (q \in Slot => k.status[q] # "EXITED") => Deserted(Block(k, q))
         /\ \A q \in WaitQueue : Deserted(clear_waiting_queue(k, q))
         /\ \A arr, s : Deserted(WakeWaiters(k, arr, s))
<1>0. WaitQueue \subseteq Queue /\ Slot \subseteq WaitQueue
  BY Zenon, QueueNames
<1>1. ASSUME NEW q \in WaitQueue, NEW i \in DOMAIN k.queue[q]
      PROVE  Deserted(MakeReady(k, q, i))
  <2>1. /\ \A r \in WaitQueue \ {q} : MakeReady(k, q, i).queue[r] = k.queue[r]
        /\ \A x \in Slot : MakeReady(k, q, i).status[x] \in {"READY", k.status[x]}
    BY Zenon, <1>0, MakeReadyKeeps
  <2>2. k.queue[q] # <<>>
    <3>1. DOMAIN <<>> = {}
      OBVIOUS
    <3> QED BY <3>1
  <2> QED BY Zenon, <1>0, <2>1, <2>2 DEF Deserted
<1>2. ASSUME NEW q \in WaitQueue, q \in Slot => k.status[q] # "EXITED"
      PROVE  Deserted(Block(k, q))
  <2> DEFINE kb == Block(k, q)
  <2>1. /\ \A r \in Queue \ {q} : kb.queue[r] = k.queue[r]
        /\ \A x \in Slot : kb.status[x] = IF x = current_running THEN "BLOCKED"
                                          ELSE k.status[x]
    BY <1>0, BlockKeeps
  <2> HIDE DEF kb
  <2>2. ASSUME NEW t \in Slot, kb.status[t] = "EXITED" PROVE kb.queue[t] = <<>>
    <3>1. k.status[t] = "EXITED" /\ t # q
      BY <1>2, <2>1, <2>2
    <3>2. kb.queue[t] = k.queue[t]
      BY Zenon, <1>0, <2>1, <3>1
    <3> QED BY Zenon, <3>1, <3>2 DEF Deserted
  <2>3. Deserted(kb)
    BY <2>2 DEF Deserted
  <2> QED BY Zenon, <2>3 DEF kb
<1>3. ASSUME NEW q \in WaitQueue PROVE Deserted(clear_waiting_queue(k, q))
  <2> DEFINE kc == clear_waiting_queue(k, q)
  <2>1. /\ \A r \in WaitQueue : kc.queue[r] = IF r = q THEN <<>> ELSE k.queue[r]
        /\ \A x \in Slot : kc.status[x] \in {"READY", k.status[x]}
    BY ClearKeeps
  <2> HIDE DEF kc
  <2>2. ASSUME NEW t \in Slot, kc.status[t] = "EXITED" PROVE kc.queue[t] = <<>>
    <3>1. k.status[t] = "EXITED" /\ t \in WaitQueue
      BY <1>0, <2>1, <2>2
    <3> QED BY <2>1, <3>1 DEF Deserted
  <2>3. Deserted(kc)
    BY Zenon, <2>2 DEF Deserted
  <2> QED BY Zenon, <2>3 DEF kc
<1>4. ASSUME NEW arr, NEW s PROVE Deserted(WakeWaiters(k, arr, s))
  <2> DEFINE kd == WakeWaiters(k, arr, s)
  <2>1. WokeUp(k, kd, Locked(arr))
    BY Zenon, WakeKeeps
  <2> HIDE DEF kd
  <2>2. Deserted(kd)
    BY <1>0, <2>1 DEF Deserted, WokeUp
  <2> QED BY Zenon, <2>2 DEF kd
<1> QED BY <1>1, <1>2, <1>3, <1>4

\* The system calls on tasks and the timer interrupt.
LEMMA DesertedTaskCall ==
  ASSUME SwitchTypes, OtherTypes, NoWaiterOnDead, TaskCall \/ TimerInterrupt
  PROVE  NoWaiterOnDead'
<1>0. /\ current_running \in Slot /\ Now \in HandlerState
      /\ "SLEEPING" \in Status /\ "EXITED" \in Status /\ "CREATED" \in Status
  BY Zenon, NowType DEF SwitchTypes, Status
<1>00. Deserted(Now) /\ recv_block_queue \in WaitQueue
       /\ recv_block_queue \notin Slot /\ Slot \subseteq WaitQueue
       /\ WaitQueue \subseteq Queue /\ sleeping_queue \notin Slot
       /\ ready_queue \notin Slot
  BY Zenon, ObjectAssumption, QueueNames DEF Deserted, NoWaiterOnDead, Now
<1>1. CASE TimerInterrupt
  <2>1. CASE scheduler(Now)
    BY <2>1, <1>0, <1>00, DesertedEnd
  <2>2. ASSUME NEW i \in DOMAIN queue[recv_block_queue],
               scheduler(MakeReady(Now, recv_block_queue, i))
        PROVE  NoWaiterOnDead'
    <3>1. i \in DOMAIN Now.queue[recv_block_queue]
      BY Zenon DEF Now
    <3>2. /\ MakeReady(Now, recv_block_queue, i) \in HandlerState
          /\ Deserted(MakeReady(Now, recv_block_queue, i))
      <4>1. recv_block_queue \in Queue
        BY Zenon, <1>00
      <4>2. MakeReady(Now, recv_block_queue, i) \in HandlerState
        BY <1>0, <3>1, <4>1, HandlerTypes
      <4> QED BY Zenon, <1>0, <1>00, <3>1, <4>2, DesertedSteps
    <3> QED BY <2>2, <3>2, DesertedEnd
  <2> QED BY <1>1, <2>1, <2>2 DEF TimerInterrupt
<1>2. CASE do_wait_recv_package
  <2>1. /\ Block(Now, recv_block_queue) \in HandlerState
        /\ Deserted(Block(Now, recv_block_queue))
    BY Zenon, <1>0, <1>00, HandlerTypes, DesertedSteps
  <2> QED BY Zenon, <1>2, <2>1, DesertedEnd DEF do_wait_recv_package
<1>3. ASSUME NEW t \in SleepTimes, do_sleep(t) PROVE NoWaiterOnDead'
  <2> DEFINE k1 == SetStatus(Now, current_running, "SLEEPING")
             k2 == queue_push(k1, sleeping_queue, current_running)
  <2>1. /\ k1 \in HandlerState /\ k1.queue = Now.queue
        /\ \A x \in Slot : x # current_running => k1.status[x] = Now.status[x]
        /\ k1.status[current_running] = "SLEEPING"
    BY <1>0, SetStatusFacts
  <2> HIDE DEF k1
  <2>2. /\ k2 \in HandlerState /\ k2.status = k1.status
        /\ \A r \in Queue : r # sleeping_queue => k2.queue[r] = k1.queue[r]
    BY Zenon, <1>0, <2>1, PushFacts, QueueNames
  <2> HIDE DEF k2
  <2>3. Deserted(k2)
    BY Zenon, <1>00, <2>1, <2>2 DEF Deserted
  <2>4. scheduler(k2)
    BY Zenon, <1>3 DEF do_sleep, k1, k2
  <2> QED BY Zenon, <2>2, <2>3, <2>4, DesertedEnd
<1>4. CASE do_spawn
  <2>1. CASE UNCHANGED <<schedVars, syncVars, pid>>
    BY <2>1 DEF schedVars, NoWaiterOnDead
  <2>2. ASSUME NEW p \in FreeSlot,
               status' = queue_push(SetStatus(queue_init(Now, p), p, "CREATED"),
                                    ready_queue, p).status,
               queue' = queue_push(SetStatus(queue_init(Now, p), p, "CREATED"),
                                    ready_queue, p).queue
        PROVE  NoWaiterOnDead'
    <3> DEFINE k0 == queue_init(Now, p)
               k1 == SetStatus(k0, p, "CREATED")
               k2 == queue_push(k1, ready_queue, p)
    <3>1. p \in Slot /\ p \in Queue
      BY QueueNames DEF FreeSlot
    <3>2. /\ k0 \in HandlerState /\ k0.status = Now.status
          /\ \A r \in Queue : k0.queue[r] = IF r = p THEN <<>> ELSE Now.queue[r]
      <4>1. k0 \in HandlerState
        BY Zenon, <1>0, <3>1, HandlerTypes
      <4> QED BY Zenon, <1>0, <4>1 DEF queue_init, HandlerState
    <3> HIDE DEF k0
    <3>3. /\ k1 \in HandlerState /\ k1.queue = k0.queue
          /\ \A x \in Slot : x # p => k1.status[x] = k0.status[x]
          /\ k1.status[p] = "CREATED"
      <4>1. k0 \in HandlerState /\ p \in Slot /\ "CREATED" \in Status
        BY Zenon, <1>0, <3>1, <3>2
      <4> QED BY <4>1, SetStatusFacts
    <3> HIDE DEF k1
    <3>4. /\ k2.status = k1.status
          /\ \A r \in Queue : r # ready_queue => k2.queue[r] = k1.queue[r]
      BY Zenon, <3>1, <3>3, PushFacts, QueueNames
    <3>5. status' = k2.status /\ queue' = k2.queue
      BY <2>2 DEF k0, k1, k2
    <3> HIDE DEF k2
    <3>6. Deserted(k2)
      BY <1>00, <3>1, <3>2, <3>3, <3>4 DEF Deserted
    <3> QED BY <3>5, <3>6 DEF Deserted, NoWaiterOnDead
  <2> QED BY Zenon, <1>4, <2>1, <2>2 DEF do_spawn
<1>5. CASE do_exit
  <2>1. PICK s \in WakeOrders(Now, lock[current_running]) :
          scheduler(SetStatus(LetGo(Now, current_running, s),
                              current_running, "EXITED"))
    BY <1>5 DEF do_exit
  <2> DEFINE k1 == LetGo(Now, current_running, s)
             k2 == SetStatus(k1, current_running, "EXITED")
  <2>2. s \in Seq(Slot)
    BY Zenon, <1>0, WakeOrderFacts
  <2>3. /\ k1 \in HandlerState
        /\ \A t \in Slot : k1.queue[t] = IF t = current_running THEN <<>>
                                         ELSE Now.queue[t]
        /\ \A x \in Slot : k1.status[x] \in {"READY", Now.status[x]}
    BY Zenon, <1>0, <2>2, LetGoKeeps
  <2> HIDE DEF k1
  <2>4. /\ k2 \in HandlerState /\ k2.queue = k1.queue
        /\ \A x \in Slot : x # current_running => k2.status[x] = k1.status[x]
    <3>1. k1 \in HandlerState /\ current_running \in Slot /\ "EXITED" \in Status
      BY <1>0, <2>3
    <3>2. StatusSet(k1, k2, current_running, "EXITED")
      BY Zenon, <3>1, StatusIsSet
    <3> HIDE DEF k2
    <3> QED BY Zenon, <3>2 DEF StatusSet
  <2>5. scheduler(k2)
    BY <2>1 DEF k1
  <2> HIDE DEF k2
  <2>6. Deserted(k2)
    <3>1. ASSUME NEW t \in Slot, k2.status[t] = "EXITED"
          PROVE  k2.queue[t] = <<>>
      <4>1. k2.queue[t] = IF t = current_running THEN <<>> ELSE Now.queue[t]
        BY Zenon, <2>3, <2>4
      <4>2. t # current_running => Now.status[t] = "EXITED"
        BY Zenon, <2>3, <2>4, <3>1
      <4>3. t # current_running => Now.queue[t] = <<>>
        BY <1>0, <1>00, <4>2 DEF Deserted
      <4> QED BY Zenon, <4>1, <4>3
    <3> QED BY <3>1 DEF Deserted
  <2> QED BY Zenon, <2>4, <2>5, <2>6, DesertedEnd
<1>6. ASSUME NEW n \in 1 .. PID, do_waitpid(n) PROVE NoWaiterOnDead'
  <2>1. PICK p \in Slot : status[p] # "EXITED" /\ scheduler(Block(Now, p))
    BY <1>6 DEF do_waitpid
  <2>2. Now.status[p] # "EXITED"
    BY <2>1 DEF Now
  <2>3. Block(Now, p) \in HandlerState /\ Deserted(Block(Now, p))
    BY Zenon, <1>0, <1>00, <2>2, HandlerTypes, DesertedSteps
  <2> QED BY <2>1, <2>3, DesertedEnd
<1>7. ASSUME NEW n \in 1 .. PID, do_kill(n) PROVE NoWaiterOnDead'
  <2> DEFINE K(p) == SetStatus(TakeOut(Now, p, KillQueues(p)), p, "EXITED")
  <2>1. PICK p \in Slot :
          \E s \in WakeOrders(K(p), lock[p]) :
            IF p = current_running THEN scheduler(LetGo(K(p), p, s))
            ELSE Return(LetGo(K(p), p, s))
    BY Zenon, <1>7 DEF do_kill
  <2>2. KillQueues(p) \cap Slot = {}
    BY <1>00, ObjectAssumption, KernelAssumption DEF KillQueues
  <2> DEFINE k0 == TakeOut(Now, p, KillQueues(p))
  <2>3. /\ k0 \in HandlerState /\ k0.status = Now.status
        /\ \A t \in Slot : k0.queue[t] = Now.queue[t]
    <3>1. k0 \in HandlerState
      BY <1>0, TakeOutTypes
    <3>2. \A t \in Slot : t \in Queue /\ t \notin KillQueues(p)
      BY <1>00, <2>2
    <3> QED BY Zenon, <1>0, <3>1, <3>2 DEF TakeOut, HandlerState
  <2> HIDE DEF k0
  <2>4. /\ K(p) \in HandlerState /\ K(p).queue = k0.queue
        /\ \A x \in Slot : x # p => K(p).status[x] = k0.status[x]
    <3>1. K(p) = SetStatus(k0, p, "EXITED")
      BY DEF k0
    <3> HIDE DEF K
    <3>2. k0 \in HandlerState /\ "EXITED" \in Status
      BY Zenon, <1>0, <2>3
    <3> DEFINE kx == SetStatus(k0, p, "EXITED")
    <3>3. /\ kx \in HandlerState /\ kx.queue = k0.queue
          /\ \A x \in Slot : x # p => kx.status[x] = k0.status[x]
      BY ONLY <3>2, SetStatusFacts, p \in Slot
    <3>4. K(p) = kx
      BY <3>1
    <3> HIDE DEF kx
    <3> QED BY ONLY <3>3, <3>4
  <2> HIDE DEF K
  <2>5. PICK s \in WakeOrders(K(p), lock[p]) :
          IF p = current_running THEN scheduler(LetGo(K(p), p, s))
          ELSE Return(LetGo(K(p), p, s))
    BY Zenon, <2>1
  <2>6. s \in Seq(Slot)
    BY Zenon, <2>4, WakeOrderFacts
  <2>7. /\ LetGo(K(p), p, s) \in HandlerState
        /\ \A t \in Slot : LetGo(K(p), p, s).queue[t] =
                             IF t = p THEN <<>> ELSE K(p).queue[t]
        /\ \A x \in Slot : LetGo(K(p), p, s).status[x]
                             \in {"READY", K(p).status[x]}
    BY Zenon, <2>4, <2>6, LetGoKeeps
  <2>8. Deserted(LetGo(K(p), p, s))
    <3> DEFINE kl == LetGo(K(p), p, s)
    <3>1. /\ \A t \in Slot : kl.queue[t] = IF t = p THEN <<>> ELSE K(p).queue[t]
          /\ \A x \in Slot : kl.status[x] \in {"READY", K(p).status[x]}
      BY Zenon, <2>7
    <3> HIDE DEF kl
    <3>2. ASSUME NEW t \in Slot, kl.status[t] = "EXITED"
          PROVE  kl.queue[t] = <<>>
      <4>1. kl.queue[t] = IF t = p THEN <<>> ELSE Now.queue[t]
        BY Zenon, <2>3, <2>4, <3>1
      <4>2. t # p => Now.status[t] = "EXITED"
        BY Zenon, <2>3, <2>4, <3>1, <3>2
      <4>3. t # p => Now.queue[t] = <<>>
        BY Zenon, <1>0, <1>00, <4>2 DEF Deserted
      <4> QED BY Zenon, <4>1, <4>3
    <3>3. Deserted(kl)
      BY <3>2 DEF Deserted
    <3> QED BY Zenon, <3>3 DEF kl
  <2> QED BY Zenon, <2>5, <2>7, <2>8, DesertedEnd
<1> QED BY <1>1, <1>2, <1>3, <1>4, <1>5, <1>6, <1>7 DEF TaskCall

\* The synchronisation primitives never touch a waiting_queue.
LEMMA DesertedSyncCall ==
  ASSUME SwitchTypes, OtherTypes, NoWaiterOnDead, SyncCall
  PROVE  NoWaiterOnDead'
<1>0. /\ current_running \in Slot /\ Now \in HandlerState /\ Deserted(Now)
  BY NowType DEF SwitchTypes, Deserted, NoWaiterOnDead, Now
<1>00. /\ WaitQueue \subseteq Queue
       /\ \A q \in Mutex \cup Semaphore \cup Condition \cup Barrier :
            q \in WaitQueue /\ q \notin Slot
  BY Zenon, ObjectAssumption, QueueNames
<1>1. ASSUME NEW q \in Mutex \cup Semaphore \cup Condition \cup Barrier
      PROVE  /\ Block(Now, q) \in HandlerState /\ Deserted(Block(Now, q))
             /\ clear_waiting_queue(Now, q) \in HandlerState
             /\ Deserted(clear_waiting_queue(Now, q))
  <2>1. q \in Queue /\ q \in WaitQueue /\ q \notin Slot
    BY Zenon, <1>00
  <2> QED BY Zenon, <1>0, <2>1, HandlerTypes, DesertedSteps
<1>2. ASSUME NEW q \in Semaphore \cup Condition, ~Idle(q)
      PROVE  /\ MakeReady(Now, q, 1) \in HandlerState
             /\ Deserted(MakeReady(Now, q, 1))
  <2>1. q \in Queue /\ q \in WaitQueue
    BY Zenon, <1>00
  <2>2. Now.queue[q] \in Seq(Slot) /\ Now.queue[q] # <<>>
    BY Zenon, <1>0, <1>2, <2>1 DEF Idle, Now, HandlerState
  <2>3. 1 \in DOMAIN Now.queue[q]
    BY <2>2
  <2>4. MakeReady(Now, q, 1) \in HandlerState
    BY Zenon, <1>0, <2>1, <2>3, HandlerTypes
  <2> QED BY Zenon, <1>0, <2>1, <2>3, <2>4, DesertedSteps
<1>3. ASSUME NEW k \in HandlerState, Deserted(k), NEW l \in Mutex,
             NEW s \in WakeOrders(Now, <<l>>)
      PROVE  /\ WakeWaiters(k, <<l>>, s) \in HandlerState
             /\ Deserted(WakeWaiters(k, <<l>>, s))
  <2>1. s \in Seq(Slot)
    BY Zenon, <1>0, WakeOrderFacts
  <2> QED BY Zenon, <1>0, <1>3, <2>1, WakeTypes, DesertedSteps
<1>4. CASE UNCHANGED schedVars
  BY Zenon, <1>4 DEF schedVars, NoWaiterOnDead
<1>5. ASSUME NEW l \in Mutex, AcquireLoop(l) PROVE NoWaiterOnDead'
  BY Zenon, <1>1, <1>4, <1>5, DesertedEnd DEF AcquireLoop
<1>6. CASE ResumeAcquire
  <2>1. resume[current_running] \in Mutex
    BY Zenon, <1>0, <1>6 DEF ResumeAcquire, OtherTypes
  <2> QED BY Zenon, <1>5, <1>6, <2>1 DEF ResumeAcquire
<1>7. CASE MutexCall
  <2>1. ASSUME NEW l \in Mutex, do_mutex_lock_release(l) PROVE NoWaiterOnDead'
    <3>1. PICK s \in WakeOrders(Now, <<l>>) : Return(WakeWaiters(Now, <<l>>, s))
      BY Zenon, <2>1 DEF do_mutex_lock_release
    <3> QED BY Zenon, <1>0, <1>3, <3>1, DesertedEnd
  <2> QED BY Zenon, <1>4, <1>5, <1>7, <2>1
      DEF MutexCall, do_mutex_lock_init, do_mutex_lock_acquire
<1>8. CASE SemaphoreCall
  <2>1. ASSUME NEW x \in Semaphore, do_semaphore_up(x) PROVE NoWaiterOnDead'
    BY Zenon, <1>0, <1>2, <2>1, DesertedEnd DEF do_semaphore_up
  <2>2. ASSUME NEW x \in Semaphore, do_semaphore_down(x) PROVE NoWaiterOnDead'
    BY Zenon, <1>0, <1>1, <2>2, DesertedEnd DEF do_semaphore_down
  <2> QED BY Zenon, <1>4, <1>8, <2>1, <2>2 DEF SemaphoreCall, do_semaphore_init
<1>9. CASE ConditionCall
  <2>1. ASSUME NEW c \in Condition, NEW l \in Mutex, do_condition_wait(l, c)
        PROVE  NoWaiterOnDead'
    <3>1. PICK s \in WakeOrders(Block(Now, c), <<l>>) :
            scheduler(WakeWaiters(Block(Now, c), <<l>>, s))
      BY Zenon, <2>1 DEF do_condition_wait
    <3> DEFINE k == Block(Now, c)
               k1 == WakeWaiters(k, <<l>>, s)
    <3>2. k \in HandlerState /\ Deserted(k)
      BY Zenon, <1>1
    <3>3. scheduler(k1) /\ s \in WakeOrders(k, <<l>>)
      BY Zenon, <3>1
    <3> HIDE DEF k
    <3>4. k1 \in HandlerState
      BY Zenon, <3>2, <3>3, WakeOrderFacts, WakeTypes
    <3>5. Deserted(k1)
      BY Zenon, <1>0, <3>2, DesertedSteps
    <3> HIDE DEF k1
    <3> QED BY Zenon, <3>3, <3>4, <3>5, DesertedEnd
  <2>2. ASSUME NEW c \in Condition, do_condition_signal(c) PROVE NoWaiterOnDead'
    BY Zenon, <1>2, <2>2, DesertedEnd DEF do_condition_signal
  <2>3. ASSUME NEW c \in Condition, do_condition_broadcast(c)
        PROVE  NoWaiterOnDead'
    BY Zenon, <1>1, <2>3, DesertedEnd DEF do_condition_broadcast
  <2> QED BY Zenon, <1>9, <2>1, <2>2, <2>3 DEF ConditionCall
<1>10. CASE BarrierCall
  <2>1. ASSUME NEW b \in Barrier, do_barrier_wait(b) PROVE NoWaiterOnDead'
    BY <1>1, <2>1, DesertedEnd DEF do_barrier_wait
  <2> QED BY Zenon, <1>4, <1>10, <2>1 DEF BarrierCall, do_barrier_init
<1> QED BY Zenon, <1>6, <1>7, <1>8, <1>9, <1>10 DEF SyncCall

\* The inductive step of the next theorem.
LEMMA DesertedStep ==
  TypeOK /\ NoWaiterOnDead /\ [Next]_vars => NoWaiterOnDead'
<1> SUFFICES ASSUME TypeOK, NoWaiterOnDead, [Next]_vars PROVE NoWaiterOnDead'
  BY Zenon
<1>1. CASE UNCHANGED vars
  BY <1>1 DEF vars, schedVars, NoWaiterOnDead
<1> QED BY <1>1, TypeParts, DesertedTaskCall, DesertedSyncCall DEF Next

\* In every program, whatever it kills, no task waits in do_waitpid for a task
\* that has exited: the waiting_queue of an EXITED pcb is empty.
THEOREM NobodyWaitsForDead == Spec => []NoWaiterOnDead
<1>1. Init => NoWaiterOnDead
  BY QueueNames DEF Init, NoWaiterOnDead
<1> QED BY <1>1, TypeCorrect, DesertedStep, PTL DEF Spec

(***************************************************************************)
(* What the synchronisation primitives promise: mutual exclusion, no       *)
(* waiter on a free mutex or on a semaphore that has a token, and barriers *)
(* that let everybody go at once.  Every proof rests on which queues an    *)
(* action touches; the scheduler only ever touches the ready queue and the *)
(* sleeping queue (lemma SchedulerKeeps).                                  *)
(***************************************************************************)

\* The end of a handler leaves the wait queues as the handler made them.
LEMMA EndKeeps ==
  ASSUME SwitchTypes, NEW k \in HandlerState, scheduler(k) \/ Return(k)
  PROVE  \A q \in WaitQueue : queue'[q] = k.queue[q]
<1>1. CASE scheduler(k)
  BY Zenon, <1>1, SchedulerKeeps DEF SwitchTypes
<1>2. CASE Return(k)
  BY <1>2 DEF Return
<1> QED BY <1>1, <1>2

\* The kinds of wait queues are apart.
LEMMA KindsApart ==
  /\ \A l \in Mutex : l \notin Semaphore \cup Condition \cup Barrier \cup Slot
  /\ \A x \in Semaphore : x \notin Mutex \cup Condition \cup Barrier \cup Slot
  /\ \A c \in Condition : c \notin Mutex \cup Semaphore \cup Barrier \cup Slot
  /\ \A b \in Barrier : b \notin Mutex \cup Semaphore \cup Condition \cup Slot
  /\ \A q \in Mutex \cup Semaphore \cup Condition \cup Barrier :
       q # recv_block_queue
  BY ObjectAssumption

\* What blocking the current task on q, waking a waiter of q and waking all of
\* them leave in the queues that a blocked task can be in: k is a handler state
\* in which only q, of these queues, is other than in memory.
Touched(k, q, w) ==
  /\ k \in HandlerState /\ k.queue[q] = w
  /\ \A r \in WaitQueue : r # q => k.queue[r] = queue[r]

LEMMA NowFacts ==
  ASSUME SwitchTypes
  PROVE  /\ current_running \in Slot /\ Now \in HandlerState
         /\ Now.queue = queue /\ Now.status = status
BY NowType DEF SwitchTypes, Now

LEMMA BlockStep ==
  ASSUME SwitchTypes, NEW q \in WaitQueue
  PROVE  Touched(Block(Now, q), q, Append(queue[q], current_running))
<1> DEFINE k == Block(Now, q)
<1>1. WaitQueue \subseteq Queue /\ q \in Queue
  BY QueueNames
<1>2. k \in HandlerState
  BY Zenon, <1>1, NowFacts, HandlerTypes
<1>3. /\ \A r \in Queue \ {q} : k.queue[r] = Now.queue[r]
      /\ k.queue[q] = Append(Now.queue[q], current_running)
  BY Zenon, <1>1, NowFacts, BlockKeeps
<1> HIDE DEF k
<1>4. Touched(k, q, Append(queue[q], current_running))
  BY Zenon, <1>1, <1>2, <1>3, NowFacts DEF Touched
<1> QED BY Zenon, <1>4 DEF k

LEMMA ClearStep ==
  ASSUME SwitchTypes, NEW q \in WaitQueue
  PROVE  Touched(clear_waiting_queue(Now, q), q, <<>>)
<1> DEFINE k == clear_waiting_queue(Now, q)
<1>1. Now \in HandlerState /\ q \in Queue
  BY Zenon, QueueNames, NowFacts
<1>2. k \in HandlerState
  BY Zenon, <1>1, NowFacts, HandlerTypes
<1>3. \A r \in WaitQueue : k.queue[r] = IF r = q THEN <<>> ELSE Now.queue[r]
  BY ONLY <1>1, q \in WaitQueue, ClearKeeps
<1> HIDE DEF k
<1>4. Touched(k, q, <<>>)
  BY Zenon, <1>2, <1>3, NowFacts DEF Touched
<1> QED BY Zenon, <1>4 DEF k

LEMMA ReadyStep ==
  ASSUME SwitchTypes, NEW q \in WaitQueue, NEW i \in DOMAIN queue[q]
  PROVE  Touched(MakeReady(Now, q, i), q, RemoveAt(queue[q], i))
<1> DEFINE k == MakeReady(Now, q, i)
<1>1. i \in DOMAIN Now.queue[q] /\ q \in Queue
  BY Zenon, QueueNames, NowFacts
<1>2. k \in HandlerState
  BY Zenon, <1>1, NowFacts, HandlerTypes
<1>3. /\ \A r \in WaitQueue \ {q} : k.queue[r] = Now.queue[r]
      /\ k.queue[q] = RemoveAt(Now.queue[q], i)
  BY Zenon, <1>1, NowFacts, MakeReadyKeeps
<1> HIDE DEF k
<1>4. Touched(k, q, RemoveAt(queue[q], i))
  BY Zenon, <1>2, <1>3, NowFacts DEF Touched
<1> QED BY Zenon, <1>4 DEF k

LEMMA FirstWaiter ==
  ASSUME SwitchTypes, NEW q \in WaitQueue, ~Idle(q)
  PROVE  1 \in DOMAIN queue[q]
<1>1. queue[q] \in Seq(Slot)
  BY QueueNames DEF SwitchTypes
<1> QED BY <1>1 DEF Idle

-----------------------------------------------------------------------------
(***************************************************************************)
(* The queues an action touches                                            *)
(***************************************************************************)

\* The queues and the fields of the objects that only the calls on semaphores,
\* conditions and barriers may change.
SameObjects ==
  /\ \A q \in Semaphore \cup Condition \cup Barrier : queue'[q] = queue[q]
  /\ UNCHANGED <<sem_value, max_num, not_arrive_num>>

\* A mutex whose queue is not empty had waiters before, and is as locked as it
\* was.
WaitersStay ==
  \A l \in Mutex :
    queue'[l] # <<>> => queue[l] # <<>> /\ lock_status'[l] = lock_status[l]

\* The end of task p empties the queues of the mutexes it releases.
LEMMA LetGoQueues ==
  ASSUME NEW k \in HandlerState, NEW p \in Slot, NEW s \in Seq(Slot),
         NEW r \in Mutex \cup Semaphore \cup Condition \cup Barrier
  PROVE  LetGo(k, p, s).queue[r] =
           IF r \in Locked(lock[p]) THEN <<>> ELSE k.queue[r]
<1> DEFINE k1 == WakeWaiters(k, lock[p], s)
           k2 == clear_waiting_queue(k1, p)
<1>1. r \in WaitQueue /\ r # p /\ p \in WaitQueue /\ r \in Queue
      /\ r # ready_queue
  BY QueueNames, KindsApart, ObjectAssumption
<1>2. k1 \in HandlerState
  BY Zenon, WakeTypes
<1>3. k1.queue[r] = IF r \in Locked(lock[p]) THEN <<>> ELSE k.queue[r]
  BY <1>1 DEF WakeWaiters
<1> HIDE DEF k1
<1>4. k2.queue[r] = IF r = p THEN <<>> ELSE k1.queue[r]
  BY Zenon, <1>1 DEF clear_waiting_queue
<1>5. k2 = LetGo(k, p, s)
  BY DEF LetGo, k1
<1> HIDE DEF k2
<1> QED BY Zenon, <1>1, <1>3, <1>4, <1>5

\* The system calls on tasks and the timer interrupt.  do_exit and do_kill
\* release mutexes, and do_kill takes its victim out of the queues of mutexes.
LEMMA TaskCallQueues ==
  ASSUME SwitchTypes, OtherTypes, TaskCall \/ TimerInterrupt
  PROVE  SameObjects /\ WaitersStay
<1> DEFINE O == Mutex \cup Semaphore \cup Condition \cup Barrier
<1>0. /\ current_running \in Slot /\ Now \in HandlerState
      /\ Now.queue = queue
      /\ "SLEEPING" \in Status /\ "EXITED" \in Status /\ "CREATED" \in Status
  BY NowType DEF SwitchTypes, Status, Now
<1>00. /\ recv_block_queue \in WaitQueue /\ recv_block_queue \notin O
       /\ Slot \subseteq WaitQueue /\ Slot \cap O = {} /\ O \subseteq WaitQueue
       /\ WaitQueue \subseteq Queue
       /\ ready_queue \notin O /\ sleeping_queue \notin O
       /\ ready_queue \in Queue /\ sleeping_queue \in Queue
  BY KindsApart, QueueNames, ObjectAssumption
<1>000. Mutex \subseteq O /\ Semaphore \cup Condition \cup Barrier \subseteq O
  BY Zenon
<1> HIDE DEF O
<1>1. ASSUME \A q \in O : queue'[q] = queue[q], UNCHANGED syncVars
      PROVE  SameObjects /\ WaitersStay
  BY <1>000, <1>1 DEF SameObjects, WaitersStay, syncVars
<1>2. ASSUME NEW k \in HandlerState, scheduler(k) \/ Return(k),
             \A q \in O : k.queue[q] = queue[q]
      PROVE  \A q \in O : queue'[q] = queue[q]
  BY Zenon, <1>00, <1>2, EndKeeps
<1>3. CASE TimerInterrupt
  <2>1. CASE scheduler(Now)
    <3>1. \A q \in O : queue'[q] = queue[q]
      BY Zenon, <1>0, <1>2, <2>1
    <3> QED BY Zenon, <1>1, <1>3, <3>1 DEF TimerInterrupt
  <2>2. ASSUME NEW i \in DOMAIN queue[recv_block_queue],
               scheduler(MakeReady(Now, recv_block_queue, i))
        PROVE  \A q \in O : queue'[q] = queue[q]
    <3> DEFINE k == MakeReady(Now, recv_block_queue, i)
    <3>1. k \in HandlerState
      BY Zenon, <1>00, ReadyStep DEF Touched
    <3>2. \A r \in WaitQueue : r # recv_block_queue => k.queue[r] = queue[r]
      BY Zenon, <1>00, ReadyStep DEF Touched
    <3> HIDE DEF k
    <3>3. \A q \in O : k.queue[q] = queue[q]
      BY Zenon, <1>00, <3>2
    <3> QED BY Zenon, <1>2, <2>2, <3>1, <3>3 DEF k
  <2> QED BY Zenon, <1>1, <1>3, <2>1, <2>2 DEF TimerInterrupt
<1>4. ASSUME NEW q \in WaitQueue, q \notin O, scheduler(Block(Now, q))
      PROVE  \A r \in O : queue'[r] = queue[r]
  <2> DEFINE k == Block(Now, q)
  <2>1. k \in HandlerState
    BY Zenon, BlockStep DEF Touched
  <2>2. \A r \in WaitQueue : r # q => k.queue[r] = queue[r]
    BY Zenon, BlockStep DEF Touched
  <2> HIDE DEF k
  <2>3. \A r \in O : k.queue[r] = queue[r]
    BY Zenon, <1>00, <1>4, <2>2
  <2> QED BY Zenon, <1>2, <1>4, <2>1, <2>3 DEF k
<1>5. CASE do_wait_recv_package
  BY Zenon, <1>00, <1>1, <1>4, <1>5 DEF do_wait_recv_package
<1>6. ASSUME NEW t \in SleepTimes, do_sleep(t) PROVE SameObjects /\ WaitersStay
  <2> DEFINE k1 == SetStatus(Now, current_running, "SLEEPING")
             k2 == queue_push(k1, sleeping_queue, current_running)
  <2>1. k1 \in HandlerState /\ k1.queue = Now.queue
    <3>1. k1 \in HandlerState
      BY Zenon, <1>0, SetStatusFacts
    <3>2. k1.queue = Now.queue
      BY DEF SetStatus, Now
    <3> QED BY <3>1, <3>2
  <2> HIDE DEF k1
  <2>2. /\ k2 \in HandlerState
        /\ \A r \in Queue : r # sleeping_queue => k2.queue[r] = k1.queue[r]
    BY Zenon, <1>0, <1>00, <2>1, PushFacts
  <2> HIDE DEF k2
  <2>3. \A q \in O : k2.queue[q] = queue[q]
    BY Zenon, <1>0, <1>00, <2>1, <2>2
  <2>4. scheduler(k2)
    BY <1>6 DEF do_sleep, k1, k2
  <2>5. \A q \in O : queue'[q] = queue[q]
    BY Zenon, <1>2, <2>2, <2>3, <2>4
  <2> QED BY Zenon, <1>1, <1>6, <2>5 DEF do_sleep
<1>7. CASE do_spawn
  <2>1. CASE UNCHANGED <<schedVars, syncVars, pid>>
    BY <1>1, <2>1 DEF schedVars
  <2>2. ASSUME NEW p \in FreeSlot,
               queue' = queue_push(SetStatus(queue_init(Now, p), p, "CREATED"),
                                   ready_queue, p).queue
        PROVE  \A q \in O : queue'[q] = queue[q]
    <3> DEFINE k0 == queue_init(Now, p)
               k1 == SetStatus(k0, p, "CREATED")
               k2 == queue_push(k1, ready_queue, p)
    <3>1. p \in Slot /\ p \in Queue /\ p \notin O
      BY <1>00 DEF FreeSlot
    <3>2. /\ k0 \in HandlerState
          /\ \A r \in Queue : r # p => k0.queue[r] = Now.queue[r]
      <4>1. k0 \in HandlerState
        BY Zenon, <1>0, <3>1, HandlerTypes
      <4> QED BY Zenon, <1>0, <4>1 DEF queue_init, HandlerState
    <3> HIDE DEF k0
    <3>3. k1 \in HandlerState /\ k1.queue = k0.queue
      BY Zenon, <1>0, <3>1, <3>2 DEF SetStatus, HandlerState
    <3> HIDE DEF k1
    <3>4. \A r \in Queue : r # ready_queue => k2.queue[r] = k1.queue[r]
      BY Zenon, <1>00, <3>1, <3>3, PushFacts
    <3>5. queue' = k2.queue
      BY <2>2 DEF k0, k1
    <3> HIDE DEF k2
    <3> QED BY Zenon, <1>0, <1>00, <3>1, <3>2, <3>3, <3>4, <3>5
  <2>3. ASSUME NEW p \in FreeSlot,
               queue' = queue_push(SetStatus(queue_init(Now, p), p, "CREATED"),
                                   ready_queue, p).queue,
               UNCHANGED <<lock_status, sem_value, max_num, not_arrive_num>>
        PROVE  SameObjects /\ WaitersStay
    BY Zenon, <1>000, <2>2, <2>3 DEF SameObjects, WaitersStay
  <2> QED BY <1>7, <2>1, <2>3 DEF do_spawn
<1>8. ASSUME NEW p \in Slot, NEW k \in HandlerState, NEW s \in Seq(Slot),
             \A q \in Semaphore \cup Condition \cup Barrier :
               k.queue[q] = queue[q],
             \A l \in Mutex : k.queue[l] # <<>> => queue[l] # <<>>,
             \A q \in O : queue'[q] = LetGo(k, p, s).queue[q],
             lock_status' = Unlock(lock[p]),
             UNCHANGED <<sem_value, max_num, not_arrive_num>>
      PROVE  SameObjects /\ WaitersStay
  <2>1. \A q \in O : queue'[q] = IF q \in Locked(lock[p]) THEN <<>>
                                  ELSE k.queue[q]
    BY Zenon, <1>8, LetGoQueues DEF O
  <2>2. \A q \in Semaphore \cup Condition \cup Barrier : q \notin Locked(lock[p])
    BY Zenon, KindsApart DEF Locked
  <2>3. SameObjects
    BY Zenon, <1>000, <1>8, <2>1, <2>2 DEF SameObjects
  <2>4. \A l \in Mutex : l \notin Locked(lock[p]) =>
                            lock_status'[l] = lock_status[l]
    BY Zenon, <1>8 DEF Unlock
  <2>5. WaitersStay
    BY Zenon, <1>000, <1>8, <2>1, <2>4 DEF WaitersStay
  <2> QED BY <2>3, <2>5
<1>9. CASE do_exit
  <2>1. PICK s \in WakeOrders(Now, lock[current_running]) :
          scheduler(SetStatus(LetGo(Now, current_running, s),
                              current_running, "EXITED"))
    BY <1>9 DEF do_exit
  <2> DEFINE k1 == LetGo(Now, current_running, s)
             k2 == SetStatus(k1, current_running, "EXITED")
  <2>2. s \in Seq(Slot)
    BY Zenon, <1>0, WakeOrderFacts
  <2>3. k1 \in HandlerState
    BY Zenon, <1>0, <2>2, LetGoKeeps
  <2> HIDE DEF k1
  <2>4. k2 \in HandlerState /\ k2.queue = k1.queue
    BY Zenon, <1>0, <2>3 DEF SetStatus, HandlerState
  <2>5. scheduler(k2)
    BY <2>1 DEF k1
  <2> HIDE DEF k2
  <2>6. \A q \in O : queue'[q] = k1.queue[q]
    BY Zenon, <1>00, <2>4, <2>5, EndKeeps
  <2>7. /\ lock_status' = Unlock(lock[current_running])
        /\ UNCHANGED <<sem_value, max_num, not_arrive_num>>
    BY <1>9 DEF do_exit
  <2> QED BY Zenon, <1>0, <1>8, <2>2, <2>6, <2>7 DEF k1
<1>10. ASSUME NEW n \in 1 .. PID, do_waitpid(n)
       PROVE  SameObjects /\ WaitersStay
  <2>1. PICK p \in Slot : scheduler(Block(Now, p)) /\ UNCHANGED syncVars
    BY <1>10 DEF do_waitpid
  <2>2. p \in WaitQueue /\ p \notin O
    BY Zenon, <1>00
  <2> QED BY Zenon, <1>1, <1>4, <2>1, <2>2
<1>11. ASSUME NEW n \in 1 .. PID, do_kill(n) PROVE SameObjects /\ WaitersStay
  <2> DEFINE K(p) == SetStatus(TakeOut(Now, p, KillQueues(p)), p, "EXITED")
  <2>1. PICK p \in Slot :
          /\ lock_status' = Unlock(lock[p])
          /\ UNCHANGED <<sem_value, max_num, not_arrive_num>>
          /\ \E s \in WakeOrders(K(p), lock[p]) :
               IF p = current_running THEN scheduler(LetGo(K(p), p, s))
               ELSE Return(LetGo(K(p), p, s))
    BY Zenon, <1>11 DEF do_kill
  <2> DEFINE k0 == TakeOut(Now, p, KillQueues(p))
             k1 == SetStatus(k0, p, "EXITED")
  <2>2. /\ k0 \in HandlerState
        /\ \A q \in O : k0.queue[q] = IF q \in KillQueues(p)
                                       THEN Without(queue[q], p) ELSE queue[q]
    <3>1. k0 \in HandlerState
      BY Zenon, <1>0, TakeOutTypes
    <3>2. \A q \in Queue : k0.queue[q] = IF q \in KillQueues(p)
                                         THEN Without(Now.queue[q], p)
                                         ELSE Now.queue[q]
      BY Zenon, <1>0, <3>1 DEF TakeOut, HandlerState
    <3> HIDE DEF k0
    <3> QED BY Zenon, <1>0, <1>00, <3>1, <3>2
  <2> HIDE DEF k0
  <2>3. k1 \in HandlerState /\ k1.queue = k0.queue
    BY Zenon, <1>0, <2>2 DEF SetStatus, HandlerState
  <2>4. \A q \in Semaphore \cup Condition \cup Barrier : q \notin KillQueues(p)
    BY <1>00, <1>000, KindsApart, KernelAssumption DEF KillQueues
  <2>5. \A q \in Semaphore \cup Condition \cup Barrier : k1.queue[q] = queue[q]
    BY Zenon, <1>000, <2>2, <2>3, <2>4
  <2>6. \A l \in Mutex : k1.queue[l] # <<>> => queue[l] # <<>>
    <3>1. Without(<<>>, p) = <<>>
      BY DEF Without, Range
    <3> QED BY <1>000, <2>2, <2>3, <3>1
  <2>7. PICK s \in WakeOrders(k1, lock[p]) :
          scheduler(LetGo(k1, p, s)) \/ Return(LetGo(k1, p, s))
    BY <2>1 DEF k0
  <2> HIDE DEF k1
  <2>8. s \in Seq(Slot)
    BY Zenon, <2>3, WakeOrderFacts
  <2>9. LetGo(k1, p, s) \in HandlerState
    BY Zenon, <2>3, <2>8, LetGoKeeps
  <2>10. \A q \in O : queue'[q] = LetGo(k1, p, s).queue[q]
    BY Zenon, <1>00, <2>7, <2>9, EndKeeps
  <2> QED BY Zenon, <1>8, <2>1, <2>3, <2>5, <2>6, <2>8, <2>10
<1> QED BY Zenon, <1>3, <1>5, <1>6, <1>7, <1>9, <1>10, <1>11 DEF TaskCall

\* do_mutex_lock_release as a whole: the queue of the mutex is emptied if it
\* was locked, and no other one is touched.
LEMMA ReleaseQueues ==
  ASSUME SwitchTypes, NEW k \in HandlerState, NEW l \in Mutex,
         NEW s \in WakeOrders(k, <<l>>),
         scheduler(WakeWaiters(k, <<l>>, s)) \/ Return(WakeWaiters(k, <<l>>, s))
  PROVE  \A r \in WaitQueue :
           queue'[r] = IF r \in Locked(<<l>>) THEN <<>> ELSE k.queue[r]
<1> DEFINE k1 == WakeWaiters(k, <<l>>, s)
<1>1. s \in Seq(Slot)
  BY Zenon, WakeOrderFacts
<1>2. k1 \in HandlerState
  BY Zenon, <1>1, WakeTypes
<1>3. \A r \in WaitQueue :
        k1.queue[r] = IF r \in Locked(<<l>>) THEN <<>> ELSE k.queue[r]
  <2>1. \A r \in WaitQueue : r \in Queue /\ r # ready_queue
    BY QueueNames, ObjectAssumption
  <2> QED BY <2>1 DEF WakeWaiters
<1>4. scheduler(k1) \/ Return(k1)
  OBVIOUS
<1> HIDE DEF k1
<1>5. \A r \in WaitQueue : queue'[r] = k1.queue[r]
  BY Zenon, <1>2, <1>4, EndKeeps
<1> QED BY <1>3, <1>5

\* The mutexes that the release of one mutex unlocks.
LEMMA LockedOne == ASSUME NEW l PROVE Locked(<<l>>) \subseteq {l}
  BY DEF Locked

\* The calls on mutexes touch no queue but those of mutexes.
LEMMA MutexQueues ==
  ASSUME SwitchTypes, OtherTypes, MutexCall \/ ResumeAcquire
  PROVE  /\ \A q \in WaitQueue \ Mutex : queue'[q] = queue[q]
         /\ UNCHANGED <<sem_value, max_num, not_arrive_num>>
<1>0. current_running \in Slot /\ Now \in HandlerState /\ Now.queue = queue
  BY NowType DEF SwitchTypes, Now
<1>1. ASSUME UNCHANGED schedVars
      PROVE  \A q \in WaitQueue \ Mutex : queue'[q] = queue[q]
  BY Zenon, <1>1 DEF schedVars
<1>2. ASSUME NEW l \in Mutex, AcquireLoop(l)
      PROVE  \A q \in WaitQueue \ Mutex : queue'[q] = queue[q]
  <2>1. CASE scheduler(Block(Now, l))
    <3> DEFINE k == Block(Now, l)
    <3>0. l \in WaitQueue
      BY QueueNames
    <3>1. k \in HandlerState
      BY Zenon, <3>0, BlockStep DEF Touched
    <3>2. \A r \in WaitQueue : r # l => k.queue[r] = queue[r]
      BY Zenon, <3>0, BlockStep DEF Touched
    <3>3. scheduler(k)
      BY <2>1
    <3> HIDE DEF k
    <3>4. \A r \in WaitQueue : queue'[r] = k.queue[r]
      BY Zenon, <3>1, <3>3, EndKeeps
    <3> QED BY Zenon, <3>2, <3>4
  <2> QED BY Zenon, <1>1, <1>2, <2>1 DEF AcquireLoop
<1>3. CASE ResumeAcquire
  <2>1. resume[current_running] \in Mutex
    BY Zenon, <1>0, <1>3 DEF ResumeAcquire, OtherTypes
  <2> QED BY Zenon, <1>2, <1>3, <2>1 DEF ResumeAcquire
<1>4. ASSUME NEW l \in Mutex, do_mutex_lock_init(l)
      PROVE  /\ \A q \in WaitQueue \ Mutex : queue'[q] = queue[q]
             /\ UNCHANGED <<sem_value, max_num, not_arrive_num>>
  BY Zenon, <1>4 DEF do_mutex_lock_init, schedVars
<1>5. ASSUME NEW l \in Mutex, do_mutex_lock_acquire(l)
      PROVE  /\ \A q \in WaitQueue \ Mutex : queue'[q] = queue[q]
             /\ UNCHANGED <<sem_value, max_num, not_arrive_num>>
  BY Zenon, <1>2, <1>5 DEF do_mutex_lock_acquire
<1>6. ASSUME NEW l \in Mutex, do_mutex_lock_release(l)
      PROVE  /\ \A q \in WaitQueue \ Mutex : queue'[q] = queue[q]
             /\ UNCHANGED <<sem_value, max_num, not_arrive_num>>
  <2>1. PICK s \in WakeOrders(Now, <<l>>) : Return(WakeWaiters(Now, <<l>>, s))
    BY <1>6 DEF do_mutex_lock_release
  <2>2. \A r \in WaitQueue :
          queue'[r] = IF r \in Locked(<<l>>) THEN <<>> ELSE queue[r]
    BY Zenon, <1>0, <2>1, ReleaseQueues
  <2>3. \A r \in WaitQueue \ Mutex : r \notin Locked(<<l>>)
    BY DEF Locked
  <2> QED BY Zenon, <1>6, <2>2, <2>3 DEF do_mutex_lock_release
<1> QED BY Zenon, <1>3, <1>4, <1>5, <1>6 DEF MutexCall

\* The calls on semaphores touch no queue but those of semaphores.
LEMMA SemaphoreQueues ==
  ASSUME SwitchTypes, SemaphoreCall
  PROVE  /\ \A q \in WaitQueue \ Semaphore : queue'[q] = queue[q]
         /\ UNCHANGED <<lock_status, max_num, not_arrive_num>>
<1>0. PICK x \in Semaphore :
        \/ \E val \in 0 .. MaxSem : do_semaphore_init(x, val)
        \/ do_semaphore_up(x)
        \/ do_semaphore_down(x)
  BY Zenon DEF SemaphoreCall
<1>1. x \in WaitQueue /\ Now \in HandlerState /\ Now.queue = queue
  BY Zenon, QueueNames, NowFacts
<1>2. ASSUME NEW k \in HandlerState, scheduler(k) \/ Return(k),
             \A r \in WaitQueue : r # x => k.queue[r] = queue[r]
      PROVE  \A q \in WaitQueue \ Semaphore : queue'[q] = queue[q]
  <2>1. \A r \in WaitQueue : queue'[r] = k.queue[r]
    BY Zenon, <1>2, EndKeeps
  <2> QED BY Zenon, <1>2, <2>1
<1>3. ASSUME ~Idle(x), Return(MakeReady(Now, x, 1))
      PROVE  \A q \in WaitQueue \ Semaphore : queue'[q] = queue[q]
  <2> DEFINE k == MakeReady(Now, x, 1)
  <2>1. 1 \in DOMAIN queue[x]
    BY Zenon, <1>1, <1>3, FirstWaiter
  <2>2. k \in HandlerState
    BY Zenon, <1>1, <2>1, ReadyStep DEF Touched
  <2>3. \A r \in WaitQueue : r # x => k.queue[r] = queue[r]
    BY Zenon, <1>1, <2>1, ReadyStep DEF Touched
  <2>4. Return(k)
    BY <1>3
  <2> HIDE DEF k
  <2> QED BY Zenon, <1>2, <2>2, <2>3, <2>4
<1>4. ASSUME scheduler(Block(Now, x))
      PROVE  \A q \in WaitQueue \ Semaphore : queue'[q] = queue[q]
  <2> DEFINE k == Block(Now, x)
  <2>1. k \in HandlerState
    BY Zenon, <1>1, BlockStep DEF Touched
  <2>2. \A r \in WaitQueue : r # x => k.queue[r] = queue[r]
    BY Zenon, <1>1, BlockStep DEF Touched
  <2>3. scheduler(k)
    BY <1>4
  <2> HIDE DEF k
  <2> QED BY Zenon, <1>2, <2>1, <2>2, <2>3
<1>5. ASSUME Return(Now)
      PROVE  \A q \in WaitQueue \ Semaphore : queue'[q] = queue[q]
  BY Zenon, <1>1, <1>2, <1>5
<1>6. CASE \E val \in 0 .. MaxSem : do_semaphore_init(x, val)
  BY <1>6 DEF do_semaphore_init, schedVars
<1>7. CASE do_semaphore_up(x)
  BY Zenon, <1>3, <1>5, <1>7 DEF do_semaphore_up
<1>8. CASE do_semaphore_down(x)
  BY Zenon, <1>4, <1>5, <1>8 DEF do_semaphore_down
<1> QED BY Zenon, <1>0, <1>6, <1>7, <1>8

\* The calls on condition variables touch no queue but those of conditions and,
\* when do_condition_wait releases the mutex, that of the mutex.
LEMMA ConditionQueues ==
  ASSUME SwitchTypes, ConditionCall
  PROVE  /\ \A q \in WaitQueue \ (Condition \cup Mutex) : queue'[q] = queue[q]
         /\ WaitersStay
         /\ UNCHANGED <<sem_value, max_num, not_arrive_num>>
<1> DEFINE Goal == /\ \A q \in WaitQueue \ (Condition \cup Mutex) :
                        queue'[q] = queue[q]
                   /\ WaitersStay
<1>0. PICK c \in Condition : \/ \E l \in Mutex : do_condition_wait(l, c)
                             \/ do_condition_signal(c)
                             \/ do_condition_broadcast(c)
  BY Zenon DEF ConditionCall
<1>1. /\ c \in WaitQueue /\ Now \in HandlerState /\ Now.queue = queue
      /\ Mutex \subseteq WaitQueue /\ c \notin Mutex
  BY Zenon, QueueNames, NowFacts, KindsApart
<1>2. ASSUME NEW k \in HandlerState, Return(k), UNCHANGED lock_status,
             \A r \in WaitQueue : r # c => k.queue[r] = queue[r]
      PROVE  Goal
  <2>1. \A r \in WaitQueue : queue'[r] = k.queue[r]
    BY Zenon, <1>2, EndKeeps
  <2> QED BY <1>1, <1>2, <2>1 DEF WaitersStay
<1>3. ASSUME NEW l \in Mutex, do_condition_wait(l, c) PROVE Goal
  <2> DEFINE k == Block(Now, c)
  <2>1. PICK s \in WakeOrders(k, <<l>>) : scheduler(WakeWaiters(k, <<l>>, s))
    BY <1>3 DEF do_condition_wait
  <2>2. k \in HandlerState
    BY Zenon, <1>1, BlockStep DEF Touched
  <2>3. \A r \in WaitQueue : r # c => k.queue[r] = queue[r]
    BY Zenon, <1>1, BlockStep DEF Touched
  <2> HIDE DEF k
  <2>4. \A r \in WaitQueue :
          queue'[r] = IF r \in Locked(<<l>>) THEN <<>> ELSE k.queue[r]
    BY Zenon, <2>1, <2>2, ReleaseQueues
  <2>5. /\ Locked(<<l>>) \subseteq Mutex
        /\ \A m \in Mutex : m \notin Locked(<<l>>) =>
                              lock_status'[m] = lock_status[m]
    BY Zenon, <1>3 DEF do_condition_wait, Unlock, Locked
  <2> QED BY Zenon, <1>1, <2>3, <2>4, <2>5 DEF WaitersStay
<1>4. CASE do_condition_signal(c)
  <2> DEFINE k == MakeReady(Now, c, 1)
  <2>1. 1 \in DOMAIN queue[c]
    BY Zenon, <1>1, <1>4, FirstWaiter DEF do_condition_signal
  <2>2. k \in HandlerState
    BY Zenon, <1>1, <2>1, ReadyStep DEF Touched
  <2>3. \A r \in WaitQueue : r # c => k.queue[r] = queue[r]
    BY Zenon, <1>1, <2>1, ReadyStep DEF Touched
  <2>4. Return(k)
    BY Zenon, <1>4 DEF do_condition_signal
  <2> HIDE DEF k
  <2>5. Goal
    BY Zenon, <1>2, <1>4, <2>2, <2>3, <2>4 DEF do_condition_signal, syncVars
  <2> QED BY Zenon, <1>4, <2>5 DEF do_condition_signal, syncVars
<1>5. CASE do_condition_broadcast(c)
  <2> DEFINE k == clear_waiting_queue(Now, c)
  <2>1. k \in HandlerState
    BY Zenon, <1>1, ClearStep DEF Touched
  <2>2. \A r \in WaitQueue : r # c => k.queue[r] = queue[r]
    BY Zenon, <1>1, ClearStep DEF Touched
  <2>3. Return(k)
    BY <1>5 DEF do_condition_broadcast
  <2> HIDE DEF k
  <2>4. Goal
    BY Zenon, <1>2, <1>5, <2>1, <2>2, <2>3 DEF do_condition_broadcast, syncVars
  <2> QED BY Zenon, <1>5, <2>4 DEF do_condition_broadcast, syncVars
<1>6. ASSUME NEW l \in Mutex, do_condition_wait(l, c)
      PROVE  UNCHANGED <<sem_value, max_num, not_arrive_num>>
  BY Zenon, <1>6 DEF do_condition_wait
<1> QED BY Zenon, <1>0, <1>3, <1>4, <1>5, <1>6

\* What a barrier may do to its queue.
BarrierStep(b) ==
  queue'[b] # queue[b] =>
    \/ queue'[b] = <<>> /\ not_arrive_num[b] = 1
    \/ queue'[b] = Append(queue[b], current_running)

\* The calls on barriers touch no queue but that of the barrier.
LEMMA BarrierQueues ==
  ASSUME SwitchTypes, BarrierCall
  PROVE  /\ \A q \in WaitQueue \ Barrier : queue'[q] = queue[q]
         /\ \A b \in Barrier : BarrierStep(b)
         /\ UNCHANGED <<lock_status, sem_value>>
<1>0. PICK b \in Barrier : \/ \E goal \in 1 .. MaxGoal : do_barrier_init(b, goal)
                           \/ do_barrier_wait(b)
  BY DEF BarrierCall
<1>1. b \in WaitQueue /\ Barrier \subseteq WaitQueue
  BY Zenon, QueueNames
<1>2. CASE \E goal \in 1 .. MaxGoal : do_barrier_init(b, goal)
  BY Zenon, <1>2 DEF do_barrier_init, schedVars, BarrierStep
<1>3. CASE do_barrier_wait(b)
  <2>1. CASE not_arrive_num[b] = 1 /\ Return(clear_waiting_queue(Now, b))
    <3> DEFINE k == clear_waiting_queue(Now, b)
    <3>0. Touched(k, b, <<>>)
      BY Zenon, <1>1, ClearStep
    <3>3. Return(k)
      BY <2>1
    <3> HIDE DEF k
    <3>1. k \in HandlerState
      BY Zenon, <3>0 DEF Touched
    <3>2. \A r \in WaitQueue : k.queue[r] = IF r = b THEN <<>> ELSE queue[r]
      BY Zenon, <3>0 DEF Touched
    <3>4. \A r \in WaitQueue : queue'[r] = k.queue[r]
      BY Zenon, <3>1, <3>3, EndKeeps
    <3>5. \A d \in Barrier : BarrierStep(d)
      BY Zenon, <1>1, <2>1, <3>2, <3>4 DEF BarrierStep
    <3> QED BY Zenon, <1>3, <3>2, <3>4, <3>5 DEF do_barrier_wait
  <2>2. CASE scheduler(Block(Now, b))
    <3> DEFINE k == Block(Now, b)
    <3>0. Touched(k, b, Append(queue[b], current_running))
      BY Zenon, <1>1, BlockStep
    <3>3. scheduler(k)
      BY <2>2
    <3> HIDE DEF k
    <3>1. k \in HandlerState
      BY Zenon, <3>0 DEF Touched
    <3>2. \A r \in WaitQueue :
            k.queue[r] = IF r = b THEN Append(queue[b], current_running)
                         ELSE queue[r]
      BY Zenon, <3>0 DEF Touched
    <3>4. \A r \in WaitQueue : queue'[r] = k.queue[r]
      BY Zenon, <3>1, <3>3, EndKeeps
    <3>5. \A d \in Barrier : BarrierStep(d)
      BY Zenon, <1>1, <3>2, <3>4 DEF BarrierStep
    <3> QED BY Zenon, <1>3, <3>2, <3>4, <3>5 DEF do_barrier_wait
  <2> QED BY Zenon, <1>3, <2>1, <2>2 DEF do_barrier_wait
<1> QED BY Zenon, <1>0, <1>2, <1>3

-----------------------------------------------------------------------------
(***************************************************************************)
(* Semaphores                                                              *)
(***************************************************************************)

\* The calls on semaphores: a waiter enters the queue only when there is no
\* token, and a token is counted only when nobody waits.
LEMMA TokenCall ==
  ASSUME SwitchTypes, OtherTypes, NoWaiterOnToken, SemaphoreCall
  PROVE  NoWaiterOnToken'
<1>0. PICK x \in Semaphore :
        \/ \E val \in 0 .. MaxSem : do_semaphore_init(x, val)
        \/ do_semaphore_up(x)
        \/ do_semaphore_down(x)
  BY Zenon DEF SemaphoreCall
<1>1. /\ x \in WaitQueue /\ Now \in HandlerState /\ Now.queue = queue
      /\ Semaphore \subseteq WaitQueue
  BY Zenon, QueueNames, NowFacts
<1>2. ASSUME NEW k \in HandlerState, scheduler(k) \/ Return(k),
             \A r \in WaitQueue : r # x => k.queue[r] = queue[r],
             sem_value[x] = 0 \/ k.queue[x] = <<>>, UNCHANGED sem_value
      PROVE  NoWaiterOnToken'
  <2>1. \A r \in WaitQueue : queue'[r] = k.queue[r]
    BY Zenon, <1>2, EndKeeps
  <2> QED BY Zenon, <1>1, <1>2, <2>1 DEF NoWaiterOnToken
<1>3. CASE \E val \in 0 .. MaxSem : do_semaphore_init(x, val)
  <2>1. /\ queue' = queue /\ queue[x] = <<>>
        /\ \A y \in Semaphore : y # x => sem_value'[y] = sem_value[y]
    BY Zenon, <1>3 DEF do_semaphore_init, schedVars, Idle, OtherTypes
  <2> QED BY Zenon, <2>1 DEF NoWaiterOnToken
<1>4. CASE do_semaphore_up(x)
  <2>1. CASE ~Idle(x) /\ Return(MakeReady(Now, x, 1)) /\ UNCHANGED sem_value
    <3> DEFINE k == MakeReady(Now, x, 1)
    <3>1. 1 \in DOMAIN queue[x]
      BY Zenon, <1>1, <2>1, FirstWaiter
    <3>2. k \in HandlerState
      BY Zenon, <1>1, <3>1, ReadyStep DEF Touched
    <3>3. \A r \in WaitQueue : r # x => k.queue[r] = queue[r]
      BY Zenon, <1>1, <3>1, ReadyStep DEF Touched
    <3>4. Return(k) /\ UNCHANGED sem_value
      BY <2>1
    <3>5. sem_value[x] = 0
      BY Zenon, <2>1 DEF Idle, NoWaiterOnToken
    <3> HIDE DEF k
    <3> QED BY Zenon, <1>2, <3>2, <3>3, <3>4, <3>5
  <2>2. CASE /\ Idle(x) /\ Return(Now)
             /\ sem_value' = [sem_value EXCEPT ![x] = @ + 1]
    <3>1. /\ queue' = queue /\ queue[x] = <<>>
          /\ \A y \in Semaphore : y # x => sem_value'[y] = sem_value[y]
      BY <1>1, <2>2 DEF Return, Idle, OtherTypes
    <3> QED BY Zenon, <3>1 DEF NoWaiterOnToken
  <2> QED BY <1>4, <2>1, <2>2 DEF do_semaphore_up
<1>5. CASE do_semaphore_down(x)
  <2>1. CASE /\ sem_value[x] = 0 /\ scheduler(Block(Now, x))
             /\ UNCHANGED sem_value
    <3> DEFINE k == Block(Now, x)
    <3>1. k \in HandlerState
      BY Zenon, <1>1, BlockStep DEF Touched
    <3>2. \A r \in WaitQueue : r # x => k.queue[r] = queue[r]
      BY Zenon, <1>1, BlockStep DEF Touched
    <3>3. scheduler(k) /\ sem_value[x] = 0 /\ UNCHANGED sem_value
      BY Zenon, <2>1
    <3> HIDE DEF k
    <3> QED BY Zenon, <1>2, <3>1, <3>2, <3>3
  <2>2. CASE /\ sem_value[x] # 0 /\ Return(Now)
             /\ sem_value' = [sem_value EXCEPT ![x] = @ - 1]
    <3>1. /\ queue' = queue /\ queue[x] = <<>>
          /\ \A y \in Semaphore : y # x => sem_value'[y] = sem_value[y]
      BY Zenon, <1>1, <2>2 DEF Return, NoWaiterOnToken, OtherTypes
    <3> QED BY Zenon, <3>1 DEF NoWaiterOnToken
  <2> QED BY <1>5, <2>1, <2>2 DEF do_semaphore_down
<1> QED BY <1>0, <1>3, <1>4, <1>5

\* No task ever waits for a semaphore that has a token: do_semaphore_up gives
\* the token to a waiter, whatever the other calls do meanwhile.
THEOREM TokensAreTaken == Spec => []NoWaiterOnToken
<1>1. Init => NoWaiterOnToken
  BY QueueNames DEF Init, NoWaiterOnToken
<1>2. TypeOK /\ NoWaiterOnToken /\ [Next]_vars => NoWaiterOnToken'
  <2> SUFFICES ASSUME TypeOK, NoWaiterOnToken, [Next]_vars
               PROVE  NoWaiterOnToken'
    OBVIOUS
  <2>1. SwitchTypes /\ OtherTypes
    BY TypeParts
  <2>2. \A x \in Semaphore : x \in WaitQueue
                               /\ x \notin Mutex \cup Condition \cup Barrier
    BY Zenon, QueueNames, KindsApart
  <2>3. CASE UNCHANGED vars
    BY Zenon, <2>3 DEF vars, schedVars, syncVars, NoWaiterOnToken
  <2>4. CASE TaskCall \/ TimerInterrupt
    BY Zenon, <2>1, <2>4, TaskCallQueues DEF SameObjects, NoWaiterOnToken
  <2>5. CASE MutexCall \/ ResumeAcquire
    BY Zenon, <2>1, <2>2, <2>5, MutexQueues DEF NoWaiterOnToken
  <2>6. CASE ConditionCall
    BY Zenon, <2>1, <2>2, <2>6, ConditionQueues DEF NoWaiterOnToken
  <2>7. CASE BarrierCall
    BY Zenon, <2>1, <2>2, <2>7, BarrierQueues DEF NoWaiterOnToken
  <2>8. CASE SemaphoreCall
    BY <2>1, <2>8, TokenCall
  <2> QED BY Zenon, <2>3, <2>4, <2>5, <2>6, <2>7, <2>8 DEF Next, SyncCall
<1> QED BY <1>1, <1>2, TypeCorrect, PTL DEF Spec

-----------------------------------------------------------------------------
(***************************************************************************)
(* Barriers                                                                *)
(***************************************************************************)

\* The tasks at a barrier leave it together, when the last one arrives: no
\* other call, not even do_kill, takes one of them out of the queue.
THEOREM BarrierOpensTogether == Spec => BarrierOpensForAll
<1>1. TypeOK /\ [Next]_vars =>
        [\A b \in Barrier : queue'[b] # queue[b] =>
           \/ queue'[b] = <<>> /\ not_arrive_num[b] = 1
           \/ queue'[b] = Append(queue[b], current_running)]_vars
  <2> SUFFICES ASSUME TypeOK, Next PROVE \A b \in Barrier : BarrierStep(b)
    BY Zenon DEF BarrierStep
  <2>1. SwitchTypes /\ OtherTypes
    BY TypeParts
  <2>2. \A b \in Barrier : b \in WaitQueue
                             /\ b \notin Mutex \cup Condition \cup Semaphore
    BY QueueNames, KindsApart
  <2>3. CASE TaskCall \/ TimerInterrupt
    BY Zenon, <2>1, <2>3, TaskCallQueues DEF SameObjects, BarrierStep
  <2>4. CASE MutexCall \/ ResumeAcquire
    BY Zenon, <2>1, <2>2, <2>4, MutexQueues DEF BarrierStep
  <2>5. CASE ConditionCall
    BY Zenon, <2>1, <2>2, <2>5, ConditionQueues DEF BarrierStep
  <2>6. CASE SemaphoreCall
    BY Zenon, <2>1, <2>2, <2>6, SemaphoreQueues DEF BarrierStep
  <2>7. CASE BarrierCall
    BY Zenon, <2>1, <2>7, BarrierQueues
  <2> QED BY Zenon, <2>3, <2>4, <2>5, <2>6, <2>7 DEF Next, SyncCall
<1> QED BY <1>1, TypeCorrect, PTL DEF Spec, BarrierOpensForAll

-----------------------------------------------------------------------------
(***************************************************************************)
(* Mutexes                                                                 *)
(***************************************************************************)

\* The calls on mutexes: a waiter enters the queue only while the mutex is
\* locked, and a mutex is unlocked only when its queue is emptied.
LEMMA FreeMutexCall ==
  ASSUME SwitchTypes, OtherTypes, NoWaiterOnFreeMutex,
         MutexCall \/ ResumeAcquire
  PROVE  NoWaiterOnFreeMutex'
<1>0. /\ current_running \in Slot /\ Now \in HandlerState /\ Now.queue = queue
      /\ Mutex \subseteq WaitQueue
  BY Zenon, NowType, QueueNames DEF SwitchTypes, Now
<1>1. ASSUME NEW l \in Mutex, AcquireLoop(l) PROVE NoWaiterOnFreeMutex'
  <2>1. CASE /\ lock_status[l] = "LOCKED" /\ UNCHANGED lock_status
             /\ scheduler(Block(Now, l))
    <3> DEFINE k == Block(Now, l)
    <3>0. l \in WaitQueue
      BY <1>0
    <3>1. k \in HandlerState
      BY Zenon, <3>0, BlockStep DEF Touched
    <3>2. \A r \in WaitQueue : r # l => k.queue[r] = queue[r]
      BY Zenon, <3>0, BlockStep DEF Touched
    <3>3. scheduler(k)
      BY <2>1
    <3> HIDE DEF k
    <3>4. \A r \in WaitQueue : queue'[r] = k.queue[r]
      BY Zenon, <3>1, <3>3, EndKeeps
    <3> QED BY Zenon, <1>0, <2>1, <3>2, <3>4 DEF NoWaiterOnFreeMutex
  <2>2. CASE /\ lock_status' = [lock_status EXCEPT ![l] = "LOCKED"]
             /\ UNCHANGED schedVars
    <3>1. /\ queue' = queue /\ lock_status'[l] = "LOCKED"
          /\ \A m \in Mutex : m # l => lock_status'[m] = lock_status[m]
      BY <2>2 DEF schedVars, OtherTypes
    <3> QED BY <3>1 DEF NoWaiterOnFreeMutex
  <2> QED BY Zenon, <1>1, <2>1, <2>2 DEF AcquireLoop
<1>2. CASE ResumeAcquire
  <2>1. resume[current_running] \in Mutex
    BY <1>0, <1>2 DEF ResumeAcquire, OtherTypes
  <2> QED BY Zenon, <1>1, <1>2, <2>1 DEF ResumeAcquire
<1>3. ASSUME NEW l \in Mutex, do_mutex_lock_init(l) PROVE NoWaiterOnFreeMutex'
  <2>1. /\ queue' = queue /\ queue[l] = <<>>
        /\ \A m \in Mutex : m # l => lock_status'[m] = lock_status[m]
    BY Zenon, <1>3 DEF do_mutex_lock_init, schedVars, Idle, OtherTypes
  <2> QED BY Zenon, <2>1 DEF NoWaiterOnFreeMutex
<1>4. ASSUME NEW l \in Mutex, do_mutex_lock_release(l)
      PROVE  NoWaiterOnFreeMutex'
  <2>1. PICK s \in WakeOrders(Now, <<l>>) : Return(WakeWaiters(Now, <<l>>, s))
    BY <1>4 DEF do_mutex_lock_release
  <2>2. \A r \in WaitQueue :
          queue'[r] = IF r \in Locked(<<l>>) THEN <<>> ELSE queue[r]
    BY Zenon, <1>0, <2>1, ReleaseQueues
  <2>3. \A m \in Mutex : m \notin Locked(<<l>>) =>
                            lock_status'[m] = lock_status[m]
    BY Zenon, <1>4 DEF do_mutex_lock_release, Unlock
  <2> QED BY Zenon, <1>0, <2>2, <2>3 DEF NoWaiterOnFreeMutex
<1> QED BY Zenon, <1>1, <1>2, <1>3, <1>4 DEF MutexCall, do_mutex_lock_acquire

\* No task ever waits for a mutex that is free, even when tasks that hold
\* mutexes or wait for them exit or are killed: every release, by the owner or
\* by do_exit and do_kill, wakes all the waiters.
THEOREM WaitersHaveReason == Spec => []NoWaiterOnFreeMutex
<1>1. Init => NoWaiterOnFreeMutex
  BY QueueNames DEF Init, NoWaiterOnFreeMutex
<1>2. TypeOK /\ NoWaiterOnFreeMutex /\ [Next]_vars => NoWaiterOnFreeMutex'
  <2> SUFFICES ASSUME TypeOK, NoWaiterOnFreeMutex, [Next]_vars
               PROVE  NoWaiterOnFreeMutex'
    OBVIOUS
  <2>1. SwitchTypes /\ OtherTypes
    BY TypeParts
  <2>2. \A l \in Mutex : l \in WaitQueue /\ l \notin Semaphore \cup Barrier
    BY Zenon, QueueNames, KindsApart
  <2>3. CASE UNCHANGED vars
    BY <2>3 DEF vars, schedVars, syncVars, NoWaiterOnFreeMutex
  <2>4. ASSUME WaitersStay PROVE NoWaiterOnFreeMutex'
    BY <2>4 DEF WaitersStay, NoWaiterOnFreeMutex
  <2>5. CASE TaskCall \/ TimerInterrupt
    BY <2>1, <2>4, <2>5, TaskCallQueues
  <2>6. CASE MutexCall \/ ResumeAcquire
    BY <2>1, <2>6, FreeMutexCall
  <2>7. CASE ConditionCall
    BY Zenon, <2>1, <2>4, <2>7, ConditionQueues
  <2>8. CASE SemaphoreCall
    BY Zenon, <2>1, <2>2, <2>8, SemaphoreQueues DEF NoWaiterOnFreeMutex
  <2>9. CASE BarrierCall
    BY Zenon, <2>1, <2>2, <2>9, BarrierQueues DEF NoWaiterOnFreeMutex
  <2> QED BY <2>3, <2>5, <2>6, <2>7, <2>8, <2>9 DEF Next, SyncCall
<1> QED BY <1>1, <1>2, TypeCorrect, PTL DEF Spec

\* The inductive invariant of mutual exclusion: what a program holds is locked.
HeldIsLocked ==
  /\ MutualExclusion
  /\ \A p \in Slot : \A l \in holds[p] : lock_status[l] = "LOCKED"

\* Taking a free mutex.
LEMMA HeldAcquire ==
  ASSUME TypeOK, HeldIsLocked, NEW l \in Mutex, AcquireLoop(l)
  PROVE  HeldIsLocked'
<1>0. current_running \in Slot /\ holds \in [Slot -> SUBSET Mutex]
      /\ lock_status \in [Mutex -> {"LOCKED", "UNLOCKED"}]
  BY DEF TypeOK
<1>1. CASE UNCHANGED <<lock_status, holds>>
  BY <1>1 DEF HeldIsLocked, MutualExclusion
<1>2. CASE /\ lock_status[l] = "UNLOCKED"
           /\ lock_status' = [lock_status EXCEPT ![l] = "LOCKED"]
           /\ holds' = [holds EXCEPT ![current_running] = @ \cup {l}]
  <2>1. /\ \A p \in Slot : l \notin holds[p]
        /\ \A p \in Slot : holds'[p] = IF p = current_running
                                        THEN holds[p] \cup {l} ELSE holds[p]
        /\ \A m \in Mutex : lock_status'[m] = IF m = l THEN "LOCKED"
                                               ELSE lock_status[m]
    BY Zenon, <1>0, <1>2 DEF HeldIsLocked
  <2>2. MutualExclusion'
    <3> SUFFICES ASSUME NEW p \in Slot, NEW q \in Slot, p # q
                 PROVE  holds'[p] \cap holds'[q] = {}
      BY Zenon DEF MutualExclusion
    <3>1. /\ holds[p] \cap holds[q] = {} /\ l \notin holds[p] /\ l \notin holds[q]
          /\ holds'[p] \subseteq holds[p] \cup {l}
          /\ holds'[q] \subseteq holds[q] \cup {l}
          /\ holds'[p] = holds[p] \/ holds'[q] = holds[q]
      BY Zenon, <2>1 DEF HeldIsLocked, MutualExclusion
    <3> QED BY Zenon, <3>1
  <2>3. \A p \in Slot : \A m \in holds'[p] : lock_status'[m] = "LOCKED"
    BY Zenon, <1>0, <2>1 DEF HeldIsLocked
  <2> QED BY <2>2, <2>3 DEF HeldIsLocked
<1> QED BY Zenon, <1>1, <1>2 DEF AcquireLoop

\* Giving up a mutex that one holds.
LEMMA HeldRelease ==
  ASSUME TypeOK, HeldIsLocked, NEW l \in Mutex, l \in holds[current_running],
         lock_status' = Unlock(<<l>>),
         holds' = [holds EXCEPT ![current_running] = @ \ {l}]
  PROVE  HeldIsLocked'
<1>0. current_running \in Slot /\ holds \in [Slot -> SUBSET Mutex]
  BY DEF TypeOK
<1>1. \A p \in Slot : holds'[p] = IF p = current_running
                                  THEN holds[p] \ {l} ELSE holds[p]
  BY Zenon, <1>0
<1>2. \A m \in Mutex : m # l => lock_status'[m] = lock_status[m]
  BY Zenon, LockedOne DEF Unlock
<1>3. \A p \in Slot : l \notin holds'[p]
  BY <1>0, <1>1 DEF HeldIsLocked, MutualExclusion
<1>4. MutualExclusion'
  <2>1. \A p \in Slot : holds'[p] \subseteq holds[p]
    BY <1>1
  <2> QED BY Zenon, <2>1 DEF HeldIsLocked, MutualExclusion
<1>5. \A p \in Slot : \A m \in holds'[p] : lock_status'[m] = "LOCKED"
  BY <1>0, <1>1, <1>2, <1>3 DEF HeldIsLocked
<1> QED BY <1>4, <1>5 DEF HeldIsLocked

\* Programs that neither exit nor kill: at most one of them at a time is
\* between mutex_lock_acquire and mutex_lock_release of a mutex, although a
\* task that was woken may find the mutex taken again and block once more.
\* (do_exit and do_kill break this: run exit_unlocks.)
THEOREM MutexExcludes ==
  ASSUME Calls \cap {"exit", "kill"} = {} PROVE Spec => []MutualExclusion
<1>1. Init => HeldIsLocked
  BY DEF Init, HeldIsLocked, MutualExclusion
<1>2. TypeOK /\ HeldIsLocked /\ [Next]_vars => HeldIsLocked'
  <2> SUFFICES ASSUME TypeOK, HeldIsLocked, [Next]_vars
               PROVE  HeldIsLocked'
    OBVIOUS
  <2>1. CASE UNCHANGED <<lock_status, holds>>
    BY Zenon, <2>1 DEF HeldIsLocked, MutualExclusion
  <2>2. CASE TaskCall \/ TimerInterrupt
    <3>1. "exit" \notin Calls /\ "kill" \notin Calls
      OBVIOUS
    <3> QED BY Zenon, <2>1, <2>2, <3>1 DEF TaskCall, TimerInterrupt, syncVars,
              do_wait_recv_package, do_sleep, do_spawn, do_waitpid
  <2>3. CASE ResumeAcquire
    <3>1. resume[current_running] \in Mutex
      BY <2>3 DEF ResumeAcquire, TypeOK
    <3> QED BY Zenon, <2>3, <3>1, HeldAcquire DEF ResumeAcquire
  <2>4. CASE MutexCall
    <3>1. ASSUME NEW l \in Mutex, do_mutex_lock_init(l) PROVE HeldIsLocked'
      <4>1. /\ holds' = holds /\ \A p \in Slot : l \notin holds[p]
            /\ \A m \in Mutex : m # l => lock_status'[m] = lock_status[m]
        BY Zenon, <3>1 DEF do_mutex_lock_init, TypeOK
      <4>2. \A p \in Slot : holds[p] \subseteq Mutex
        BY Zenon DEF TypeOK
      <4> QED BY Zenon, <4>1, <4>2 DEF HeldIsLocked, MutualExclusion
    <3>2. ASSUME NEW l \in Mutex, do_mutex_lock_acquire(l) PROVE HeldIsLocked'
      BY <3>2, HeldAcquire DEF do_mutex_lock_acquire
    <3>3. ASSUME NEW l \in Mutex, do_mutex_lock_release(l) PROVE HeldIsLocked'
      BY Zenon, <3>3, HeldRelease DEF do_mutex_lock_release
    <3> QED BY Zenon, <2>4, <3>1, <3>2, <3>3 DEF MutexCall
  <2>5. CASE ConditionCall
    <3>1. ASSUME NEW l \in Mutex, NEW c \in Condition, do_condition_wait(l, c)
          PROVE  HeldIsLocked'
      BY Zenon, <3>1, HeldRelease DEF do_condition_wait
    <3> QED BY <2>1, <2>5, <3>1
        DEF ConditionCall, do_condition_signal, do_condition_broadcast, syncVars
  <2>6. CASE SemaphoreCall \/ BarrierCall
    BY Zenon, <2>1, <2>6 DEF SemaphoreCall, BarrierCall, do_semaphore_init,
       do_semaphore_up, do_semaphore_down, do_barrier_init, do_barrier_wait
  <2>7. CASE UNCHANGED vars
    BY <2>1, <2>7 DEF vars, syncVars
  <2> QED BY <2>2, <2>3, <2>4, <2>5, <2>6, <2>7 DEF Next, SyncCall
<1>3. HeldIsLocked => MutualExclusion
  BY DEF HeldIsLocked
<1> QED BY <1>1, <1>2, <1>3, TypeCorrect, PTL DEF Spec

=============================================================================
