------------------------------ MODULE Mailbox -------------------------------
(***************************************************************************)
(* A mailbox of libs/mailbox.c that has been opened: mbox_send and         *)
(* mbox_recv of several tasks.  They are library code of the programs: a   *)
(* task may be preempted between any two of the statements.  The system    *)
(* calls on the semaphores and the mutex are the ones of module Sync.      *)
(***************************************************************************)
EXTENDS Integers, Sequences, FiniteSets

CONSTANTS
  Tasks,
  Messages,
  MAX_MBOX_LENGTH,  \* 32
  MaxCalls          \* bound: calls that a task makes

ASSUME MailboxAssumption ==
  /\ IsFiniteSet(Tasks)
  /\ Messages # {}
  /\ MAX_MBOX_LENGTH \in Nat \ {0}
  /\ MaxCalls \in Nat

N == MAX_MBOX_LENGTH

VARIABLES
  ptr, msg,  \* of the mailbox
  lock,      \* the status of its mutex
  value,     \* the values of its semaphores send and recv
  waiting,   \* their queues
  pc,        \* per task: the statement it is at
  op,        \* per task: which of mbox_send and mbox_recv it is in
  buf,       \* per task: *msg
  calls      \* per task: calls made

vars == <<ptr, msg, lock, value, waiting, pc, op, buf, calls>>

\* As mbox_open leaves the mailbox.  What the messages' memory holds is arbitrary
\* (the same everywhere: it is written before it is read).
Init ==
  /\ ptr = 0
  /\ msg \in [0..N-1 -> Messages] /\ buf \in [Tasks -> Messages]
  /\ \A i \in 0..N-1, p \in Tasks : msg[i] = buf[p]
  /\ lock = "UNLOCKED"
  /\ value = [send |-> N, recv |-> 0]
  /\ waiting = [send |-> <<>>, recv |-> <<>>]
  /\ pc = [p \in Tasks |-> "out"]
  /\ op = [p \in Tasks |-> "send"]
  /\ calls = [p \in Tasks |-> 0]

-----------------------------------------------------------------------------
\* A program calls mbox_send or mbox_recv.
Call(p, o, m) ==
  /\ pc[p] = "out" /\ calls[p] < MaxCalls
  /\ calls' = [calls EXCEPT ![p] = @ + 1]
  /\ pc' = [pc EXCEPT ![p] = "down"]
  /\ op' = [op EXCEPT ![p] = o]
  /\ buf' = IF o = "send" THEN [buf EXCEPT ![p] = m] ELSE buf
  /\ UNCHANGED <<ptr, msg, lock, value, waiting>>

\* semaphore_down of the call's own semaphore.
Down(p) ==
  /\ pc[p] = "down"
  /\ \/ /\ value[op[p]] = 0
        /\ waiting' = [waiting EXCEPT ![op[p]] = Append(@, p)]
        /\ pc' = [pc EXCEPT ![p] = "waiting"]
        /\ UNCHANGED value
     \/ /\ value[op[p]] # 0
        /\ value' = [value EXCEPT ![op[p]] = @ - 1]
        /\ pc' = [pc EXCEPT ![p] = "acquire"]
        /\ UNCHANGED waiting
  /\ UNCHANGED <<ptr, msg, lock, op, buf, calls>>

\* mutex_lock_acquire: a task that is woken tests the status again.
Acquire(p) ==
  /\ pc[p] = "acquire"
  /\ \/ /\ lock = "LOCKED"
        /\ pc' = [pc EXCEPT ![p] = "blocked"]
        /\ UNCHANGED lock
     \/ /\ lock = "UNLOCKED"
        /\ lock' = "LOCKED"
              /\ pc' = [pc EXCEPT ![p] = "first"]
  /\ UNCHANGED <<ptr, msg, value, waiting, op, buf, calls>>

\* Bug: the message goes to the position before ptr is advanced.
FirstCopies(p) ==
  /\ IF op[p] = "send" THEN msg' = [msg EXCEPT ![ptr] = buf[p]] /\ UNCHANGED buf
     ELSE buf' = [buf EXCEPT ![p] = msg[ptr]] /\ UNCHANGED msg
  /\ UNCHANGED ptr

\* The first statement inside the mutex.
First(p) ==
  \/ /\ op[p] = "send"
     /\ ptr' = (ptr + 1) % N
     /\ UNCHANGED <<msg, buf>>
  \/ /\ op[p] = "recv"
     /\ buf' = [buf EXCEPT ![p] = msg[ptr]]
     /\ UNCHANGED <<ptr, msg>>

\* Bug: a receiver leaves ptr where it is.
SecondForgets(p) ==
  /\ msg' = IF op[p] = "send" THEN [msg EXCEPT ![ptr] = buf[p]] ELSE msg
  /\ UNCHANGED <<ptr, buf>>

\* The second one.
Second(p) ==
  \/ /\ op[p] = "send"
     /\ msg' = [msg EXCEPT ![ptr] = buf[p]]
     /\ UNCHANGED <<ptr, buf>>
  \/ /\ op[p] = "recv"
     /\ ptr' = (ptr + N - 1) % N
     /\ UNCHANGED <<msg, buf>>

Inside(p) ==
  /\ \/ pc[p] = "first" /\ First(p) /\ pc' = [pc EXCEPT ![p] = "second"]
     \/ pc[p] = "second" /\ Second(p) /\ pc' = [pc EXCEPT ![p] = "release"]
  /\ UNCHANGED <<lock, value, waiting, op, calls>>

\* The status is reset and all waiters of the mutex are woken.
Unblocked == [q \in Tasks |-> IF pc[q] = "blocked" THEN "acquire" ELSE pc[q]]

\* Bug: the waiters are not woken.
ReleaseQuietly(p) ==
  /\ pc[p] = "release"
  /\ lock' = "UNLOCKED"
  /\ pc' = [pc EXCEPT ![p] = "up"]
  /\ UNCHANGED <<ptr, msg, value, waiting, op, buf, calls>>

\* mutex_lock_release.
Release(p) ==
  /\ pc[p] = "release"
  /\ lock' = "UNLOCKED"
  /\ pc' = [Unblocked EXCEPT ![p] = "up"]
  /\ UNCHANGED <<ptr, msg, value, waiting, op, buf, calls>>

Other(o) == IF o = "send" THEN "recv" ELSE "send"

\* Bug: mbox_recv gives its token back to its own semaphore.
UpOwn(p) ==
  /\ pc[p] = "up"
  /\ value' = [value EXCEPT ![op[p]] = @ + 1]
  /\ pc' = [pc EXCEPT ![p] = "out"]
  /\ UNCHANGED <<ptr, msg, lock, waiting, op, buf, calls>>

\* semaphore_up of the other semaphore: to its first waiter, if it has one.
Up(p) ==
  LET o == Other(op[p])
  IN  /\ pc[p] = "up"
      /\ \/ /\ waiting[o] = <<>>
            /\ value' = [value EXCEPT ![o] = @ + 1]
            /\ pc' = [pc EXCEPT ![p] = "out"]
            /\ UNCHANGED waiting
         \/ /\ waiting[o] # <<>>
            /\ waiting' = [waiting EXCEPT ![o] = Tail(@)]
            /\ pc' = [pc EXCEPT ![p] = "out", ![Head(waiting[o])] = "acquire"]
            /\ UNCHANGED value
      /\ UNCHANGED <<ptr, msg, lock, op, buf, calls>>

Step(p) == Down(p) \/ Acquire(p) \/ Inside(p) \/ Release(p) \/ Up(p)

Next == \E p \in Tasks :
  \/ \E o \in {"send", "recv"}, m \in Messages : Call(p, o, m)
  \/ Step(p)

Spec == Init /\ [][Next]_vars

\* The scheduler comes back to every ready task (module Rotation).
FairSpec == Spec /\ \A p \in Tasks : WF_vars(Step(p))

-----------------------------------------------------------------------------
At(s) == {p \in Tasks : pc[p] \in s}

\* The tasks that have a token of a semaphore: they have come through their
\* semaphore_down and not yet done their semaphore_up.
Holders == At({"acquire", "blocked", "first", "second", "release", "up"})

\* The tasks whose message or place in the mailbox the value of recv does not
\* count: senders that have stored and not announced a message, and receivers
\* that may take one but have not read it.
Counted == {p \in Tasks :
  \/ op[p] = "send" /\ pc[p] \in {"release", "up"}
  \/ op[p] = "recv" /\ pc[p] \in {"acquire", "blocked", "first"}}

\* The number of messages in the mailbox.
Stored == value["recv"] + Cardinality(Counted)

TypeOK ==
  /\ ptr \in 0..N-1
  /\ msg \in [0..N-1 -> Messages]
  /\ lock \in {"LOCKED", "UNLOCKED"}
  /\ value \in [{"send", "recv"} -> Nat]
  /\ waiting \in [{"send", "recv"} -> Seq(Tasks)]
  /\ pc \in [Tasks -> {"out", "down", "waiting", "acquire", "blocked", "first",
                       "second", "release", "up"}]
  /\ op \in [Tasks -> {"send", "recv"}]
  /\ buf \in [Tasks -> Messages]
  /\ calls \in [Tasks -> 0..MaxCalls]

\* At most one task is between the two statements that change ptr and msg, and
\* the mutex is locked exactly while one is inside.
Exclusive ==
  /\ \A p, q \in At({"first", "second", "release"}) : p = q
  /\ lock = "LOCKED" <=> At({"first", "second", "release"}) # {}

\* Every place of the mailbox is accounted for: it is a token of send or recv,
\* or belongs to a task in the middle of a call.  None is lost or made up.
TokenAccount ==
  value["send"] + value["recv"] + Cardinality(Holders) = N

\* ptr, which only the mutex protects, says the same as the semaphores: it is
\* the number of messages, with one more while a task is between its two
\* statements.
PtrCounts == ptr = (Stored + Cardinality(At({"second"}))) % N

\* When no call is under way, a task waits to receive only if the mailbox is
\* empty, and to send only if it is full.
NoMessageStuck ==
  Holders = {} =>
    /\ waiting["recv"] # <<>> => ptr = 0
    /\ waiting["send"] # <<>> => ptr = 0

-----------------------------------------------------------------------------
\* The mailbox implements a bounded stack: a send takes effect when the message
\* is copied, a receive when it is read.
stackOf == [k \in 1..Stored |-> msg[k % N]]

phaseOf == [p \in Tasks |->
  IF pc[p] = "out" THEN "out"
  ELSE IF pc[p] \in {"release", "up"} \/ (pc[p] = "second" /\ op[p] = "recv") THEN "done"
  ELSE "todo"]

Stack == INSTANCE MailboxStack WITH stack <- stackOf, phase <- phaseOf

\* mbox_send and mbox_recv of any number of tasks act as pushes and pops of one
\* stack of at most MAX_MBOX_LENGTH messages, each at one moment in its call.
ImplementsStack == Stack!Spec

\* The same, and no call waits for ever that could take effect.
ImplementsFairStack == Stack!FairSpec

=============================================================================
