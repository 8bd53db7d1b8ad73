------------------------------ MODULE Rotation ------------------------------
(***************************************************************************)
(* Whether the CPU comes round to every task.  The scheduler, check_       *)
(* sleeping, do_sleep, do_block and do_unblock_one of module Sched again,  *)
(* reduced to what decides who runs, and in one respect in more detail:    *)
(* a priority is a signed integer of fixed width that priority-- may carry *)
(* from its lowest to its highest value.                                   *)
(***************************************************************************)
EXTENDS Integers, Sequences, SequencesExt

CONSTANTS
  Tasks,
  Lowest, Highest,  \* the range of priority_t
  INITIAL_PRIORITY,
  MaxSleep          \* bound: the longest sleep, in units of get_timer

VARIABLES
  current_running,
  ready_queue, sleeping_queue,
  waiting,  \* the queue of a semaphore or of a condition
  priority,
  left      \* per task: its sleeping_deadline minus get_timer()

vars == <<current_running, ready_queue, sleeping_queue, waiting, priority, left>>

Init ==
  \E s \in SetToSeqs(Tasks) :
    /\ current_running = Head(s)
    /\ ready_queue = Tail(s)
    /\ sleeping_queue = <<>> /\ waiting = <<>>
    /\ priority = [p \in Tasks |-> INITIAL_PRIORITY]
    /\ left = [p \in Tasks |-> 0]

\* Bug: the loop does not compare priorities and runs to the tail.
AtTail(s, i) == i = Len(s)

\* The task at position i is the first one of the queue whose successor does
\* not have a higher priority.
FirstPeak(s, i) ==
  /\ \A j \in 1 .. i - 1 : priority[s[j]] < priority[s[j + 1]]
  /\ i < Len(s) => priority[s[i]] >= priority[s[i + 1]]

\* priority-- as the machine does it.
Decremented(x) == IF x = Lowest THEN Highest ELSE x - 1

\* The sleeper that check_sleeping wakes: the first one past its deadline.
FirstDue(s, t) == {i \in DOMAIN s : /\ t[s[i]] < 0
                                    /\ \A j \in 1 .. i - 1 : t[s[j]] >= 0}

\* Bug: a sleeper that is due leaves its queue and is not pushed to the other.
WokenIsLost(ready, sleeping, t) ==
  LET due == FirstDue(sleeping, t)
  IN  \E i \in DOMAIN ready :
        /\ FirstPeak(ready, i)
        /\ current_running' = ready[i]
        /\ ready_queue' = RemoveAt(ready, i)
        /\ sleeping_queue' = IF due = {} THEN sleeping
                             ELSE RemoveAt(sleeping, CHOOSE j \in due : TRUE)
        /\ priority' = [priority EXCEPT ![current_running] = Decremented(@)]
        /\ left' = t

\* scheduler(), when the queues are these ones and the sleepers' times t.  With
\* no task to switch to the machine stops, which is the subject of Kernel.
scheduler(ready, sleeping, t) ==
  LET due == FirstDue(sleeping, t)
      ready2 == ready \o [k \in 1 .. (IF due = {} THEN 0 ELSE 1) |->
                            sleeping[CHOOSE i \in due : TRUE]]
  IN  \E i \in DOMAIN ready2 :
        /\ FirstPeak(ready2, i)
        /\ current_running' = ready2[i]
        /\ ready_queue' = RemoveAt(ready2, i)
        /\ sleeping_queue' = IF due = {} THEN sleeping
                             ELSE RemoveAt(sleeping, CHOOSE j \in due : TRUE)
        /\ priority' = [priority EXCEPT ![current_running] = Decremented(@)]
        /\ left' = t

\* The clock interrupt: get_timer() advances in some of them.
Tick(unit) ==
  LET t == [p \in Tasks |-> IF p \in ToSet(sleeping_queue) /\ left[p] >= 0
                            THEN left[p] - unit ELSE left[p]]
  IN  /\ scheduler(Append(ready_queue, current_running), sleeping_queue, t)
      /\ UNCHANGED waiting

do_sleep(n) ==
  /\ scheduler(ready_queue, Append(sleeping_queue, current_running),
               [left EXCEPT ![current_running] = n])
  /\ UNCHANGED waiting

do_block ==
  /\ scheduler(ready_queue, sleeping_queue, left)
  /\ waiting' = Append(waiting, current_running)

do_unblock_one ==
  \E i \in DOMAIN waiting :
    /\ FirstPeak(waiting, i)
    /\ ready_queue' = Append(ready_queue, waiting[i])
    /\ waiting' = RemoveAt(waiting, i)
    /\ UNCHANGED <<current_running, sleeping_queue, priority, left>>

Next ==
  \/ \E unit \in {0, 1} : Tick(unit)
  \/ \E n \in 0 .. MaxSleep : do_sleep(n)
  \/ do_block
  \/ do_unblock_one

\* The clock interrupts, and its count advances, whatever the programs do.
Spec == Init /\ [][Next]_vars /\ WF_vars(Tick(1))

-----------------------------------------------------------------------------
\* In the corner of the range the next two properties fail: a task that is ready
\* with the lowest priority of the type may be passed by tasks that are carried
\* to the highest one just when they would fall below it.
Above(p) == priority[p] > Lowest

\* A ready task gets the CPU, although scheduler() prefers higher priorities and
\* although priorities wrap around to the highest one.
ReadyRuns ==
  \A p \in Tasks : p \in ToSet(ready_queue) /\ Above(p) ~> current_running = p

\* A sleeper gets the CPU again, although each call of scheduler() wakes only
\* one of the sleepers that are due.
SleeperRuns ==
  \A p \in Tasks : p \in ToSet(sleeping_queue) /\ Above(p) ~> current_running = p

=============================================================================
