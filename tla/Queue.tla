------------------------------- MODULE Queue -------------------------------
(***************************************************************************)
(* The lists of kernel/sched/queue.c as they are in memory: a queue_t has  *)
(* a head and a tail, and the list is threaded through the prev and next   *)
(* fields of the pcbs, which all the lists share.  The callers keep the    *)
(* rule that module Kernel proves of them (Placed): a pcb that is pushed   *)
(* is in no list, and one that is removed is in the list it is removed     *)
(* from.  Module Lists is what the rest of the kernel takes these lists    *)
(* for: sequences.                                                         *)
(***************************************************************************)
EXTENDS Integers, Sequences, FiniteSets

CONSTANTS
  Item,         \* the pcbs
  Queues,        \* the queues
  ready_queue,  \* the one that woken tasks are pushed to
  NULL,         \* the null pointer
  Priority      \* the values of pcb_t.priority

ASSUME QueueAssumption ==
  /\ IsFiniteSet(Item)
  /\ NULL \notin Item
  /\ ready_queue \in Queues
  /\ Priority \subseteq Int

VARIABLES
  head, tail,  \* of every queue_t
  prev, next,  \* of every pcb
  priority,    \* of every pcb
  call         \* the operation that was carried out last

vars == <<head, tail, prev, next, priority, call>>

\* The memory, as the operations see it.
Memory == [head |-> head, tail |-> tail, prev |-> prev, next |-> next]

Init ==
  /\ head = [q \in Queues |-> NULL]
  /\ tail = [q \in Queues |-> NULL]
  /\ prev = [p \in Item |-> NULL]
  /\ next = [p \in Item |-> NULL]
  /\ priority \in [Item -> Priority]
  /\ call = "init"

-----------------------------------------------------------------------------
queue_is_empty(m, q) == m.head[q] = NULL

queue_push(m, q, p) ==
  IF queue_is_empty(m, q)
  THEN [m EXCEPT !.head[q] = p, !.tail[q] = p,
                 !.next[p] = NULL, !.prev[p] = NULL]
  ELSE [m EXCEPT !.next = [m.next EXCEPT ![m.tail[q]] = p, ![p] = NULL],
                 !.prev[p] = m.tail[q],
                 !.tail[q] = p]

\* The head leaves the queue; queue_dequeue returns it.
queue_dequeue(m, q) ==
  LET temp == m.head[q]
      after == m.next[temp]
  IN  IF after = NULL
      THEN [m EXCEPT !.head[q] = NULL, !.tail[q] = NULL,
                     !.prev[temp] = NULL, !.next[temp] = NULL]
      ELSE [m EXCEPT !.head[q] = after,
                     !.prev = [m.prev EXCEPT ![after] = NULL, ![temp] = NULL],
                     !.next[temp] = NULL]

queue_remove(m, q, p) ==
  LET m1 == CASE p = m.head[q] /\ p = m.tail[q] ->
                   [m EXCEPT !.head[q] = NULL, !.tail[q] = NULL]
              [] p = m.head[q] /\ p # m.tail[q] ->
                   [m EXCEPT !.head[q] = m.next[p],
                             !.prev[m.next[p]] = NULL]
              [] p # m.head[q] /\ p = m.tail[q] ->
                   [m EXCEPT !.tail[q] = m.prev[p],
                             !.next[m.prev[p]] = NULL]
              [] OTHER ->
                   [m EXCEPT !.next[m.prev[p]] = m.next[p],
                             !.prev[m.next[p]] = m.prev[p]]
  IN  [m1 EXCEPT !.prev[p] = NULL, !.next[p] = NULL]

enqueue(m, q, p) ==
  IF queue_is_empty(m, q)
  THEN [m EXCEPT !.head[q] = p, !.tail[q] = p,
                 !.next[p] = NULL, !.prev[p] = NULL]
  ELSE [m EXCEPT !.prev = [m.prev EXCEPT ![m.head[q]] = p, ![p] = NULL],
                 !.next[p] = m.head[q],
                 !.head[q] = p]

\* The items that the pointers lead to from p on, at most one for each pcb.
Chain(m, p) ==
  LET from[n \in 0 .. Cardinality(Item)] ==
        [x \in Item \cup {NULL} |->
           IF n = 0 \/ x = NULL THEN <<>>
           ELSE <<x>> \o from[n - 1][m.next[x]]]
  IN  from[Cardinality(Item)][p]

check_in_queue(m, q, p) ==
  LET s == Chain(m, m.head[q])
  IN  \E i \in DOMAIN s : s[i] = p

\* A loop that runs its body on queue q until the queue is empty; a body takes
\* one item out.
UntilEmpty(m, q, Body(_)) ==
  LET after[n \in 0 .. Cardinality(Item)] ==
        IF n = 0 THEN m
        ELSE IF queue_is_empty(after[n - 1], q) THEN after[n - 1]
        ELSE Body(after[n - 1])
  IN  after[Cardinality(Item)]

clear_waiting_queue(m, q) ==
  UntilEmpty(m, q, LAMBDA x : queue_push(queue_dequeue(x, q), ready_queue,
                                         x.head[q]))

\* Mutant: the head is taken whatever its priority.
PickHead(m, q) == m.head[q]

\* Where the loop of scheduler() and do_unblock_one over the priorities stops.
Pick(m, q) ==
  LET s == Chain(m, m.head[q])
      Stop(i) == \/ s[i] = m.tail[q]
                 \/ priority[s[i]] >= priority[m.next[s[i]]]
  IN  s[CHOOSE i \in DOMAIN s : Stop(i) /\ \A j \in 1 .. i - 1 : ~Stop(j)]

do_unblock_one(m, q) ==
  IF queue_is_empty(m, q) THEN m
  ELSE queue_push(queue_remove(m, q, Pick(m, q)), ready_queue, Pick(m, q))

do_unblock_all(m, q) == UntilEmpty(m, q, LAMBDA x : do_unblock_one(x, q))

-----------------------------------------------------------------------------
Call(name, m) ==
  /\ call' = name
  /\ head' = m.head
  /\ tail' = m.tail
  /\ prev' = m.prev
  /\ next' = m.next
  /\ UNCHANGED priority

Free(p) == \A q \in Queues : ~check_in_queue(Memory, q, p)

Next ==
  \E q \in Queues :
    \/ \E p \in Item :
         \/ Free(p) /\ Call("push", queue_push(Memory, q, p))
         \/ Free(p) /\ Call("enqueue", enqueue(Memory, q, p))
         \/ /\ check_in_queue(Memory, q, p)
            /\ Call("remove", queue_remove(Memory, q, p))
    \/ ~queue_is_empty(Memory, q) /\ Call("dequeue", queue_dequeue(Memory, q))
    \/ q # ready_queue /\ Call("clear", clear_waiting_queue(Memory, q))
    \/ q # ready_queue /\ Call("unblock_one", do_unblock_one(Memory, q))
    \/ q # ready_queue /\ Call("unblock_all", do_unblock_all(Memory, q))

Spec == Init /\ [][Next]_vars

-----------------------------------------------------------------------------
=============================================================================
