---------------------------- MODULE MailboxStack ----------------------------
(***************************************************************************)
(* What a mailbox promises: a bounded stack of messages.  A call takes     *)
(* effect at one moment between its beginning and its return; it waits     *)
(* while there is no room, or no message.                                  *)
(***************************************************************************)
EXTENDS Integers, Sequences

CONSTANTS Tasks, Messages, MAX_MBOX_LENGTH

VARIABLES
  stack,  \* the messages in the mailbox, the last one sent at the end
  phase,  \* per task: outside of calls, before or after its call's effect
  op,     \* per task: send or recv
  buf     \* per task: the message to send, or the one received

vars == <<stack, phase, op, buf>>

Init ==
  /\ stack = <<>>
  /\ phase = [p \in Tasks |-> "out"]
  /\ op = [p \in Tasks |-> "send"]
  /\ buf \in [Tasks -> Messages]

Call(p, o, m) ==
  /\ phase[p] = "out"
  /\ phase' = [phase EXCEPT ![p] = "todo"]
  /\ op' = [op EXCEPT ![p] = o]
  /\ buf' = IF o = "send" THEN [buf EXCEPT ![p] = m] ELSE buf
  /\ UNCHANGED stack

Push(p) ==
  /\ phase[p] = "todo" /\ op[p] = "send"
  /\ Len(stack) < MAX_MBOX_LENGTH
  /\ stack' = Append(stack, buf[p])
  /\ phase' = [phase EXCEPT ![p] = "done"]
  /\ UNCHANGED <<op, buf>>

Pop(p) ==
  /\ phase[p] = "todo" /\ op[p] = "recv"
  /\ stack # <<>>
  /\ stack' = SubSeq(stack, 1, Len(stack) - 1)
  /\ buf' = [buf EXCEPT ![p] = stack[Len(stack)]]
  /\ phase' = [phase EXCEPT ![p] = "done"]
  /\ UNCHANGED op

Return(p) ==
  /\ phase[p] = "done"
  /\ phase' = [phase EXCEPT ![p] = "out"]
  /\ UNCHANGED <<stack, op, buf>>

Next == \E p \in Tasks :
  \/ \E o \in {"send", "recv"}, m \in Messages : Call(p, o, m)
  \/ Push(p) \/ Pop(p) \/ Return(p)

Spec == Init /\ [][Next]_vars

\* A call that can take effect does, and one that has returns.
FairSpec == Spec /\ \A p \in Tasks : WF_vars(Push(p) \/ Pop(p) \/ Return(p))
=============================================================================
