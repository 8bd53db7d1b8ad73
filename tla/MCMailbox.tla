----------------------------- MODULE MCMailbox ------------------------------
(***************************************************************************)
(* The two sides of libs/mailbox.c: one mailbox that is in use (module     *)
(* Mailbox, with the constants of the configuration) and the table of      *)
(* mailboxes (module MailboxOpen, programs that open and close one after   *)
(* the other).  They have no variable in common, so each is checked while  *)
(* the other does nothing.                                                 *)
(***************************************************************************)
EXTENDS Mailbox

CONSTANTS
  Names,        \* of mailboxes
  MAX_NUM_BOX,  \* 32
  MaxOpens      \* bound: how often a task opens a mailbox

ASSUME TableAssumption == MAX_NUM_BOX \in Nat

VARIABLES
  part,  \* which of the two takes steps
  name, count, ready, at, index, want, loaded, opens  \* of the table

tableVars == <<name, count, ready, at, index, want, loaded, opens>>
mcVars == <<vars, part, tableVars>>

Table == INSTANCE MailboxOpen WITH
  Alone <- TRUE, pc <- at, i <- index

\* In the table's part the mailbox has one of its initial states only.
MCInit ==
  /\ part \in {"mailbox", "table"}
  /\ Init /\ Table!Init
  /\ part = "table" => \A p \in Tasks : buf[p] = CHOOSE m \in Messages : TRUE

MCNext ==
  \/ part = "mailbox" /\ Next /\ UNCHANGED <<part, tableVars>>
  \/ part = "table" /\ Table!Next /\ UNCHANGED <<part, vars>>

\* As FairSpec.
MCSpec == MCInit /\ [][MCNext]_mcVars /\ \A p \in Tasks : WF_vars(part = "mailbox" /\ Step(p))

-----------------------------------------------------------------------------
\* The table serves programs by name: two that have opened mailboxes share one
\* exactly if they gave the same name to mbox_open; it has been set up, and is
\* not set up again while a program has it open; and between calls its count is
\* the number of these programs, so that it is given away again exactly when the
\* last of them has called mbox_close.
OpenersMeet == Table!OpenersMeet /\ Table!UsableWhileOpen /\ Table!CountIsOpeners
=============================================================================
