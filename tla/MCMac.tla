------------------------------- MODULE MCMac --------------------------------
(***************************************************************************)
(* Module Mac with the interrupt of the card let through by the status     *)
(* register, as the configuration says, and with CP0_STATUS_INIT as it is  *)
(* in sched.h, where only the timer's is.                                  *)
(***************************************************************************)
EXTENDS Mac

VARIABLE masked  \* the status register is that of sched.h

mcVars == <<vars, masked>>

MCInit == Init /\ masked \in BOOLEAN

\* As Next; irq_mac is not reached when the interrupt is masked.
MCNext ==
    /\ UNCHANGED masked
    /\ \/ InitMac
       \/ \E p \in Receivers : do_recv_desc_init(p) \/ RecvStep(p)
       \/ \E p \in Senders : do_send_desc_init(p) \/ SendStep(p)
       \/ Tick \/ (~masked /\ irq_mac)
       \/ Store \/ Drop \/ Transmit

\* As FairSpec.
MCSpec ==
    /\ MCInit /\ [][MCNext]_mcVars
    /\ \A p \in Receivers : WF_vars(RecvStep(p))
    /\ \A p \in Senders : WF_vars(SendStep(p))
    /\ WF_vars(Tick)
    /\ WF_vars(~masked /\ irq_mac)
    /\ WF_vars(~stalled /\ Store)
    /\ WF_vars(Transmit)

-----------------------------------------------------------------------------
(* A request of the card that a receiver has enabled is acknowledged by    *)
(* irq_mac, whatever the other processes do, if the status register lets   *)
(* it through.                                                             *)
RequestServed == (~masked /\ irq /\ int1) ~> ~irq

(* do_net_recv with do_wait_recv_package, and do_net_send, return: the     *)
(* receiver whether the last frame comes before it tests, between its test *)
(* and do_block, or after, and with the timer and the handler competing to *)
(* wake it; the sender although it waits with the interrupts closed.       *)
CallsReturn == ReceiverReturns /\ SenderReturns
=============================================================================
