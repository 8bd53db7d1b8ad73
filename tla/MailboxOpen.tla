---------------------------- MODULE MailboxOpen -----------------------------
(***************************************************************************)
(* The table of mailboxes: mbox_init, mbox_open and mbox_close of several  *)
(* tasks.  Nothing protects the table: a task may be preempted between any *)
(* two accesses to it, and count++ and count-- are a load and a store.     *)
(***************************************************************************)
EXTENDS Integers, FiniteSets

CONSTANTS
  Tasks,
  Names,
  MAX_NUM_BOX,
  Alone,   \* whether the programs open and close one after the other
  MaxOpens \* bound: how often a task opens a mailbox

Boxes == 0..MAX_NUM_BOX-1

VARIABLES
  name, count,  \* of each mailbox
  ready,        \* whether ptr and the semaphores are those of a new mailbox
  pc, i, want,  \* per task: where it is, the index, the argument or "none"
  loaded,       \* per task: the count that it has read
  opens         \* per task: calls of mbox_open

vars == <<name, count, ready, pc, i, want, loaded, opens>>

\* mbox_init.
Init ==
  /\ name = [b \in Boxes |-> "none"]
  /\ count = [b \in Boxes |-> 0]
  /\ ready = [b \in Boxes |-> FALSE]
  /\ pc = [p \in Tasks |-> "out"]
  /\ i = [p \in Tasks |-> 0]
  /\ want = [p \in Tasks |-> "none"]
  /\ loaded = [p \in Tasks |-> 0]
  /\ opens = [p \in Tasks |-> 0]

Goto(p, where, at) ==
  /\ pc' = [pc EXCEPT ![p] = where]
  /\ i' = [i EXCEPT ![p] = at]

MayBegin(p) == Alone => \A q \in Tasks : pc[q] \in {"out", "open", "lost"}

Open(p, n) ==
  /\ pc[p] = "out" /\ MayBegin(p) /\ opens[p] < MaxOpens
  /\ opens' = [opens EXCEPT ![p] = @ + 1]
  /\ want' = [want EXCEPT ![p] = n]
  /\ Goto(p, "find", 0)
  /\ UNCHANGED <<name, count, ready, loaded>>

\* The first loop.
Find(p) ==
  /\ pc[p] = "find"
  /\ IF i[p] = MAX_NUM_BOX THEN Goto(p, "take", 0)
     ELSE IF name[i[p]] = want[p] /\ count[i[p]] > 0 THEN Goto(p, "join", i[p])
     ELSE Goto(p, "find", i[p] + 1)
  /\ UNCHANGED <<name, count, ready, want, loaded, opens>>

\* The second loop; when all are taken the function ends without a value.
Take(p) ==
  /\ pc[p] = "take"
  /\ IF i[p] = MAX_NUM_BOX THEN Goto(p, "lost", 0)
     ELSE IF count[i[p]] = 0 THEN Goto(p, "name", i[p])
     ELSE Goto(p, "take", i[p] + 1)
  /\ UNCHANGED <<name, count, ready, want, loaded, opens>>

SetName(p) ==
  /\ pc[p] = "name"
  /\ name' = [name EXCEPT ![i[p]] = want[p]]
  /\ ready' = [ready EXCEPT ![i[p]] = FALSE]
  /\ Goto(p, "new", i[p])
  /\ UNCHANGED <<count, want, loaded, opens>>

\* count++ and count--.
Load(p) ==
  /\ pc[p] \in {"join", "new", "close"}
  /\ loaded' = [loaded EXCEPT ![p] = count[i[p]]]
  /\ Goto(p, CASE pc[p] = "join" -> "joining" [] pc[p] = "new" -> "newing"
               [] OTHER -> "closing", i[p])
  /\ UNCHANGED <<name, count, ready, want, opens>>

\* The locals of a call are given up when it returns.
AfterStore(p) ==
  /\ IF pc[p] = "closing" THEN Goto(p, "out", 0)
     ELSE Goto(p, IF pc[p] = "joining" THEN "open" ELSE "reset", i[p])
  /\ want' = IF pc[p] = "closing" THEN [want EXCEPT ![p] = "none"] ELSE want
  /\ loaded' = [loaded EXCEPT ![p] = 0]

\* Bug: opening a mailbox that exists does not count.
StoreNewOnly(p) ==
  /\ pc[p] \in {"joining", "newing", "closing"}
  /\ count' = [count EXCEPT ![i[p]] = CASE pc[p] = "closing" -> loaded[p] - 1
                 [] pc[p] = "joining" -> loaded[p] [] OTHER -> loaded[p] + 1]
  /\ AfterStore(p)
  /\ UNCHANGED <<name, ready, opens>>

Store(p) ==
  /\ pc[p] \in {"joining", "newing", "closing"}
  /\ count' = [count EXCEPT ![i[p]] = IF pc[p] = "closing" THEN loaded[p] - 1
                                      ELSE loaded[p] + 1]
  /\ AfterStore(p)
  /\ UNCHANGED <<name, ready, opens>>

\* ptr and the two semaphores.
Reset(p) ==
  /\ pc[p] = "reset"
  /\ ready' = [ready EXCEPT ![i[p]] = TRUE]
  /\ Goto(p, "open", i[p])
  /\ UNCHANGED <<name, count, want, loaded, opens>>

Close(p) ==
  /\ pc[p] = "open" /\ MayBegin(p)
  /\ Goto(p, "close", i[p])
  /\ UNCHANGED <<name, count, ready, want, loaded, opens>>

Next == \E p \in Tasks :
  \/ \E n \in Names : Open(p, n)
  \/ Find(p) \/ Take(p) \/ SetName(p) \/ Load(p) \/ Store(p) \/ Reset(p)
  \/ Close(p)

Spec == Init /\ [][Next]_vars

-----------------------------------------------------------------------------
OpenOf(b) == {p \in Tasks : pc[p] \in {"open", "close", "closing"} /\ i[p] = b}

\* Two programs that have opened mailboxes share one exactly if they gave the
\* same name: that is how mbox_send of one reaches mbox_recv of the other.
OpenersMeet ==
  \A p, q \in Tasks :
    pc[p] = "open" /\ pc[q] = "open" => (i[p] = i[q] <=> want[p] = want[q])

\* Between calls, a mailbox's count is the number of programs that have it open:
\* it is given away again exactly when the last of them has closed it.
CountIsOpeners ==
  (\A p \in Tasks : pc[p] \in {"out", "open", "lost"}) =>
    \A b \in Boxes : count[b] = Cardinality(OpenOf(b))

\* mbox_open returns a mailbox whose semaphores have been set up, and they are
\* not set up again while it is in use.
UsableWhileOpen ==
  \A p \in Tasks : pc[p] = "open" => ready[i[p]]

=============================================================================
