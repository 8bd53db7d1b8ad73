-------------------------------- MODULE Mac --------------------------------
(***************************************************************************)
(* The network driver of drivers/mac.c with the processes that use it (the *)
(* commands "initmac", "send" and "recv" of the shell, test_regs3.c) and   *)
(* the network card.                                                       *)
(*                                                                         *)
(* A ring of PNUM descriptors lies between the driver and the card on each *)
(* side.  The OWN bit of a descriptor says who may use it: the driver sets *)
(* it, the card clears it when the frame has been received or sent.  A     *)
(* system call runs with the interrupts closed, so nothing of the kernel   *)
(* interleaves with it; the card does, at every step.                      *)
(*                                                                         *)
(* The contents of frames and the registers that are only printed are left *)
(* out.  The card is not part of the repository: it is modelled from what  *)
(* the driver and its comments expect of it.                               *)
(***************************************************************************)
EXTENDS Naturals, FiniteSets

CONSTANTS
    Receivers,      \* processes that run phy_regs_task2 ("recv")
    Senders,        \* processes that run phy_regs_task1 ("send")
    PNUM,           \* descriptors of a ring (64 in mac.h)
    IM,             \* interrupt mask bits set in CP0_STATUS_INIT ({7})
    MaxRounds       \* bound: how often the commands are given

ASSUME MacAssumption ==
    /\ PNUM \in Nat \ {0, 1}
    /\ IM \subseteq 0 .. 7
    /\ MaxRounds \in Nat
    /\ Receivers \cap Senders = {}

VARIABLES
    own,        \* OWN bit (bit 31 of des0) of each receive descriptor
    linked,     \* des1 .. des3 of the receive ring have been written
    cur,        \* the card's current receive descriptor
    rxon,       \* receiving is enabled and started
    stalled,    \* the card stopped at a descriptor that is not its own
    irq,        \* the card requests an interrupt (DmaStatus)
    int1,       \* bit 3 of INT1_EN
    txown,      \* OWN bit of each send descriptor
    txcur,      \* the card's current send descriptor
    txon,       \* sending is enabled and polled for
    waiting,    \* the processes in recv_block_queue
    pc,         \* where each process is
    l,          \* the loop variable of the system call in progress
    filled,     \* frames stored since do_net_recv began
    sent,       \* frames sent since do_net_send began
    rounds      \* commands given so far

rxvars == <<own, linked, cur, rxon, stalled>>
txvars == <<txown, txcur, txon, sent>>
intvars == <<irq, int1>>
vars == <<rxvars, txvars, intvars, waiting, pc, l, filled, rounds>>

Desc == 0 .. PNUM - 1
last == PNUM - 1
Procs == Receivers \cup Senders

Fresh == [i \in Desc |-> FALSE]

\* Bits 24 and 25 of des1 and the addresses in des3: the card goes on to the
\* next descriptor, and from the last one to the first.
des3(i) == IF i = last THEN 0 ELSE i + 1

\* Bit 31 of des1 is 0 only in the last receive descriptor: the completion of
\* the others requests no interrupt.
RequestsInterrupt(i) == i = last

\* The steps of a system call after its first one: the interrupts are closed.
KernelSteps == {"own", "poll", "block", "txown", "txpoll", "txspin"}
InKernel(p) == pc[p] \in KernelSteps
KernelFree == \A p \in Procs : ~InKernel(p)

\* do_init_mac resets the card, disables its interrupts and zeroes the tables.
Init ==
    /\ own = Fresh /\ linked = FALSE /\ cur = 0 /\ rxon = FALSE /\ stalled = TRUE
    /\ irq = FALSE /\ int1 = FALSE
    /\ txown = Fresh /\ txcur = 0 /\ txon = FALSE
    /\ waiting = {} /\ pc = [p \in Procs |-> "idle"] /\ l = 0
    /\ filled = 0 /\ sent = 0 /\ rounds = 0

Goto(p, step) == pc' = [pc EXCEPT ![p] = step]

-----------------------------------------------------------------------------
(* The receiving process                                                   *)

\* The card is idle between two commands when "initmac" is given again.
InitMac ==
    /\ \A p \in Procs : pc[p] = "idle"
    /\ rounds < MaxRounds
    /\ rounds' = rounds + 1
    /\ own' = Fresh /\ linked' = FALSE /\ cur' = 0 /\ rxon' = FALSE /\ stalled' = TRUE
    /\ irq' = FALSE
    /\ txown' = Fresh /\ txcur' = 0 /\ txon' = FALSE
    /\ UNCHANGED <<int1, waiting, pc, l, filled, sent>>

\* phy_regs_task2 up to its system call: do_recv_desc_init writes every
\* descriptor with OWN = 0, clear_interrupt acknowledges the card's requests,
\* queue_init empties recv_block_queue.
do_recv_desc_init(p) ==
    /\ KernelFree
    /\ pc[p] = "idle"
    /\ rounds < MaxRounds
    /\ rounds' = rounds + 1
    /\ own' = Fresh
    /\ linked' = TRUE
    /\ Goto(p, "init")
    /\ UNCHANGED <<cur, rxon, stalled, intvars, txvars, waiting, l, filled>>

PrepareRecv(p) ==
    /\ KernelFree
    /\ pc[p] = "init"
    /\ irq' = FALSE
    /\ waiting' = {}
    /\ Goto(p, "ready")
    /\ UNCHANGED <<rxvars, int1, txvars, l, filled, rounds>>

\* do_net_recv: the address of the ring goes to the card, receiving is started.
do_net_recv(p) ==
    /\ KernelFree
    /\ pc[p] = "ready"
    /\ cur' = 0
    /\ rxon' = TRUE
    /\ l' = 0
    /\ filled' = 0
    /\ Goto(p, "own")
    /\ UNCHANGED <<own, linked, stalled, intvars, txvars, waiting, rounds>>

\* do_net_recv, first loop: one OWN bit after the other.
RecvOwn(p) ==
    /\ pc[p] = "own"
    /\ own' = [own EXCEPT ![l] = TRUE]
    /\ IF l = last THEN l' = 0 /\ Goto(p, "poll")
                   ELSE l' = l + 1 /\ UNCHANGED pc
    /\ UNCHANGED <<linked, cur, rxon, stalled, intvars, txvars, waiting, filled, rounds>>

\* Bug: the poll demands are not made.
NoPollDemand(p) ==
    /\ pc[p] = "poll"
    /\ Goto(p, "test")
    /\ UNCHANGED <<rxvars, intvars, txvars, waiting, l, filled, rounds>>

\* do_net_recv, second loop: the poll demands.
RecvPoll(p) ==
    /\ pc[p] = "poll"
    /\ stalled' = FALSE
    /\ Goto(p, "test")
    /\ UNCHANGED <<own, linked, cur, rxon, intvars, txvars, waiting, l, filled, rounds>>

\* phy_regs_task2 waits only if the last descriptor is still the card's.
TestLast(p) ==
    /\ KernelFree
    /\ pc[p] = "test"
    /\ Goto(p, IF own[last] THEN "wait" ELSE "done")
    /\ UNCHANGED <<rxvars, intvars, txvars, waiting, l, filled, rounds>>

\* do_wait_recv_package enables the interrupt and tests the descriptor again.
do_wait_recv_package(p) ==
    /\ KernelFree
    /\ pc[p] = "wait"
    /\ int1' = TRUE
    /\ Goto(p, IF own[last] THEN "block" ELSE "done")
    /\ UNCHANGED <<rxvars, irq, txvars, waiting, l, filled, rounds>>

\* do_block(&recv_block_queue)
Block(p) ==
    /\ pc[p] = "block"
    /\ waiting' = waiting \cup {p}
    /\ Goto(p, "blocked")
    /\ UNCHANGED <<rxvars, intvars, txvars, l, filled, rounds>>

\* "64 packages received, now exit."  check_recv has no effect.
ExitRecv(p) ==
    /\ KernelFree
    /\ pc[p] = "done"
    /\ Goto(p, "idle")
    /\ UNCHANGED <<rxvars, intvars, txvars, waiting, l, filled, rounds>>

-----------------------------------------------------------------------------
(* The kernel's handlers                                                   *)

\* do_unblock_one: of two waiters the one chosen depends on priorities.
do_unblock_one ==
    \/ /\ waiting = {}
       /\ UNCHANGED <<waiting, pc>>
    \/ \E p \in waiting :
         /\ waiting' = waiting \ {p}
         /\ Goto(p, "done")

\* Bug: the loop stops one descriptor too soon.
StopsSooner == \A i \in 0 .. PNUM - 3 : ~own[i]

\* The loop of check_recv_block_queue, which stops before the last descriptor.
AllReceived == \A i \in 0 .. PNUM - 2 : ~own[i]

\* Every timer interrupt calls check_recv_block_queue.
Tick ==
    /\ KernelFree
    /\ waiting # {}
    /\ AllReceived
    /\ do_unblock_one
    /\ UNCHANGED <<rxvars, intvars, txvars, l, filled, rounds>>

\* Bug: the request is not acknowledged.
Unacknowledged ==
    /\ KernelFree
    /\ irq /\ int1
    /\ 3 \in IM
    /\ do_unblock_one
    /\ UNCHANGED <<rxvars, irq, int1, txvars, l, filled, rounds>>

\* handle_int, check_irq_mac and irq_mac.  The interrupt is taken, and served by
\* check_irq_mac, only with bit 3 of the mask in the status register set.
irq_mac ==
    /\ KernelFree
    /\ irq /\ int1
    /\ 3 \in IM
    /\ irq' = FALSE
    /\ do_unblock_one
    /\ UNCHANGED <<rxvars, int1, txvars, l, filled, rounds>>

-----------------------------------------------------------------------------
(* The sending process                                                     *)

\* phy_regs_task1 up to its system calls.
do_send_desc_init(p) ==
    /\ KernelFree
    /\ pc[p] = "idle"
    /\ rounds < MaxRounds
    /\ rounds' = rounds + 1
    /\ txown' = Fresh
    /\ irq' = FALSE
    /\ Goto(p, "txready")
    /\ UNCHANGED <<rxvars, int1, txcur, txon, sent, waiting, l, filled>>

\* do_net_send: the address of the ring; receiving is enabled in the MAC too,
\* but its DMA side is not started.
do_net_send(p) ==
    /\ KernelFree
    /\ pc[p] = "txready"
    /\ txcur' = 0
    /\ l' = 0
    /\ sent' = 0
    /\ Goto(p, "txown")
    /\ UNCHANGED <<rxvars, intvars, txown, txon, waiting, filled, rounds>>

\* do_net_send, first loop.
SendOwn(p) ==
    /\ pc[p] = "txown"
    /\ txown' = [txown EXCEPT ![l] = TRUE]
    /\ IF l = last THEN l' = 0 /\ Goto(p, "txpoll")
                   ELSE l' = l + 1 /\ UNCHANGED pc
    /\ UNCHANGED <<rxvars, intvars, txcur, txon, sent, waiting, filled, rounds>>

\* do_net_send, second loop: a poll demand, then
SendPoll(p) ==
    /\ pc[p] = "txpoll"
    /\ txon' = TRUE
    /\ Goto(p, "txspin")
    /\ UNCHANGED <<rxvars, intvars, txown, txcur, sent, waiting, l, filled, rounds>>

\* a busy wait until the card has cleared the bit of this descriptor.
SendSpin(p) ==
    /\ pc[p] = "txspin"
    /\ ~txown[l]
    /\ IF l = last THEN l' = 0 /\ Goto(p, "sent")
                   ELSE l' = l + 1 /\ Goto(p, "txpoll")
    /\ UNCHANGED <<rxvars, intvars, txvars, waiting, filled, rounds>>

\* phy_regs_task1 sends four times, then exits.
SendAgain(p) ==
    /\ KernelFree
    /\ pc[p] = "sent"
    /\ \/ Goto(p, "idle") /\ UNCHANGED rounds
       \/ rounds < MaxRounds /\ rounds' = rounds + 1 /\ Goto(p, "txready")
    /\ UNCHANGED <<rxvars, intvars, txvars, waiting, l, filled>>

-----------------------------------------------------------------------------
(* The card                                                                *)

\* A frame arrives, and the current descriptor is the card's: it is stored.  A
\* card that stopped may or may not look at the descriptor again by itself.
Store ==
    /\ rxon /\ linked
    /\ own[cur]
    /\ own' = [own EXCEPT ![cur] = FALSE]
    /\ cur' = des3(cur)
    /\ stalled' = FALSE
    /\ irq' = (irq \/ RequestsInterrupt(cur))
    /\ filled' = filled + 1
    /\ UNCHANGED <<linked, rxon, int1, txvars, waiting, pc, l, rounds>>

\* A frame arrives and there is no room for it.
Drop ==
    /\ rxon
    /\ ~own[cur]
    /\ ~stalled
    /\ stalled' = TRUE
    /\ UNCHANGED <<own, linked, cur, rxon, intvars, txvars, waiting, pc, l, filled, rounds>>

\* The card sends the current descriptor's frame.
Transmit ==
    /\ txon
    /\ txown[txcur]
    /\ txown' = [txown EXCEPT ![txcur] = FALSE]
    /\ txcur' = des3(txcur)
    /\ sent' = sent + 1
    /\ UNCHANGED <<rxvars, intvars, txon, waiting, pc, l, filled, rounds>>

-----------------------------------------------------------------------------
RecvStep(p) ==
    \/ PrepareRecv(p) \/ do_net_recv(p) \/ RecvOwn(p) \/ RecvPoll(p)
    \/ TestLast(p) \/ do_wait_recv_package(p) \/ Block(p) \/ ExitRecv(p)

SendStep(p) ==
    do_net_send(p) \/ SendOwn(p) \/ SendPoll(p) \/ SendSpin(p) \/ SendAgain(p)

Next ==
    \/ InitMac
    \/ \E p \in Receivers : do_recv_desc_init(p) \/ RecvStep(p)
    \/ \E p \in Senders : do_send_desc_init(p) \/ SendStep(p)
    \/ Tick \/ irq_mac
    \/ Store \/ Drop \/ Transmit

Spec == Init /\ [][Next]_vars

\* The timer runs for ever, a ready process is run in the end, the card sends
\* what it was told to send, frames keep arriving, and a card that has not
\* stopped stores them.  Nothing is assumed of commands, or of a card that
\* stopped.  do_unblock_one is fair to no particular waiter.
FairSpec ==
    /\ Spec
    /\ \A p \in Receivers : WF_vars(RecvStep(p))
    /\ \A p \in Senders : WF_vars(SendStep(p))
    /\ WF_vars(Tick)
    /\ WF_vars(irq_mac)
    /\ WF_vars(~stalled /\ Store)
    /\ WF_vars(Transmit)

-----------------------------------------------------------------------------
Steps == KernelSteps \cup
    {"idle", "init", "ready", "test", "wait", "blocked", "done", "txready", "sent"}

(* Every variable has its type: the loop variables and the card's          *)
(* positions stay in the tables.                                           *)
TypeOK ==
    /\ own \in [Desc -> BOOLEAN] /\ txown \in [Desc -> BOOLEAN]
    /\ cur \in Desc /\ txcur \in Desc /\ l \in Desc
    /\ linked \in BOOLEAN /\ rxon \in BOOLEAN /\ stalled \in BOOLEAN
    /\ irq \in BOOLEAN /\ int1 \in BOOLEAN /\ txon \in BOOLEAN
    /\ waiting \subseteq Receivers
    /\ pc \in [Procs -> Steps]
    /\ filled \in 0 .. PNUM /\ sent \in 0 .. PNUM
    /\ rounds \in 0 .. MaxRounds

(* From the poll demands of do_net_recv on, the frames lie in the ring in  *)
(* the order they came, from its first descriptor, and no frame is stored  *)
(* over another one.                                                       *)
InOrder ==
    \A p \in Receivers :
        pc[p] \in {"poll", "test", "wait", "block", "blocked", "done"} =>
            /\ \A i \in Desc : own[i] <=> i >= filled
            /\ cur = IF filled = PNUM THEN 0 ELSE filled

(* The receiver goes on only when every descriptor but the last one has    *)
(* been received, whichever of its tests, the timer and the interrupt let  *)
(* it go on.                                                               *)
AllButLast ==
    \A p \in Receivers : pc[p] = "done" => filled >= PNUM - 1

(* "64 packages received, now exit." (test_regs3.c) is printed when that   *)
(* many have been received.                                                *)
HasAll ==
    \A p \in Receivers : pc[p] = "done" => filled = PNUM

(* When do_net_send returns, each of its frames has been sent, once: the   *)
(* card runs ahead of the loop, but not past the ring.                     *)
SentAll ==
    \A p \in Senders :
        /\ pc[p] = "sent" => sent = PNUM
        /\ pc[p] \in {"txpoll", "txspin"} => sent >= l

(* do_net_recv ... do_wait_recv_package: a receiver that has begun         *)
(* returns, whether the last frame comes before it tests, between its test *)
(* and do_block, or after.                                                 *)
ReceiverReturns ==
    \A p \in Receivers : (pc[p] # "idle") ~> (pc[p] = "idle")

(* do_net_send's busy waits, with the interrupts closed, end.              *)
SenderReturns ==
    \A p \in Senders : (pc[p] = "txown") ~> (pc[p] = "sent")
=============================================================================
