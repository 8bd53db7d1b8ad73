------------------------------ MODULE MacProofs ------------------------------
(***************************************************************************)
(* Proofs about the network driver for rings of every length (64 in the    *)
(* code, 4 in the runs), one receiver, one sender and every interrupt      *)
(* mask: frames are stored in order, the receiver goes on only with all    *)
(* frames but perhaps the last, do_net_send sends every frame once.        *)
(*                                                                         *)
(* The strengthening says what each OWN bit is at each step of the two     *)
(* system calls: the card is between 'filled' and the loop variable, resp. *)
(* between 'sent' and the loop variable.                                   *)
(***************************************************************************)
EXTENDS Mac, TLAPS

\* The receive ring and the card's place in it, by the step of receiver r.
Armed == {"poll", "test", "wait", "block", "blocked", "done"}

RingFull ==
    /\ \A i \in Desc : own[i] <=> i >= filled
    /\ cur = IF filled = PNUM THEN 0 ELSE filled

RecvInv(r) ==
    /\ pc[r] = "own" =>
        /\ filled <= l
        /\ cur = filled
        /\ \A i \in Desc : own[i] <=> (filled <= i /\ i < l)
    /\ pc[r] \in Armed => RingFull
    /\ pc[r] = "idle" => RingFull \/ own = Fresh
    /\ pc[r] \in {"init", "ready"} => own = Fresh
    /\ pc[r] = "ready" => ~irq
    /\ pc[r] \in {"own"} \cup (Armed \ {"done"}) => (irq => filled = PNUM)
    /\ pc[r] = "done" => filled >= PNUM - 1
    /\ r \in waiting => pc[r] = "blocked"

\* The send ring, by the step of sender s.
SendInv(s) ==
    /\ pc[s] = "txown" =>
        /\ sent <= l
        /\ txcur = sent
        /\ \A i \in Desc : txown[i] <=> (sent <= i /\ i < l)
    /\ pc[s] \in {"txpoll", "txspin"} =>
        /\ sent >= l
        /\ \A i \in Desc : txown[i] <=> i >= sent
        /\ txcur = IF sent = PNUM THEN 0 ELSE sent
    /\ pc[s] \in {"idle", "txready", "sent"} => txown = Fresh
    /\ pc[s] = "sent" => sent = PNUM

\* TypeOK in three parts.
RxType ==
    /\ own \in [Desc -> BOOLEAN] /\ cur \in Desc /\ filled \in 0 .. PNUM
    /\ linked \in BOOLEAN /\ rxon \in BOOLEAN /\ stalled \in BOOLEAN
    /\ irq \in BOOLEAN /\ int1 \in BOOLEAN
TxType ==
    /\ txown \in [Desc -> BOOLEAN] /\ txcur \in Desc /\ sent \in 0 .. PNUM
    /\ txon \in BOOLEAN
CtlType ==
    /\ l \in Desc /\ rounds \in 0 .. MaxRounds
    /\ waiting \subseteq Receivers /\ pc \in [Procs -> Steps]

RSteps == {"own", "poll", "block", "idle", "init", "ready", "test", "wait", "blocked", "done"}
SSteps == {"txown", "txpoll", "txspin", "idle", "txready", "sent"}

IInv(r, s) ==
    /\ RxType /\ TxType /\ CtlType
    /\ pc[r] \in RSteps
    /\ pc[s] \in SSteps
    /\ ~(InKernel(r) /\ InKernel(s))
    /\ RecvInv(r)
    /\ SendInv(s)

\* The situation of every step: one receiver r, one sender s.
Setting(r, s) ==
    /\ Receivers = {r} /\ Senders = {s} /\ r # s /\ Procs = {r, s}
    /\ PNUM \in Nat /\ PNUM >= 2 /\ MaxRounds \in Nat
    /\ last \in Desc /\ 0 \in Desc /\ last = PNUM - 1
    /\ Desc = 0 .. PNUM - 1
    /\ Fresh \in [Desc -> BOOLEAN] /\ \A i \in Desc : Fresh[i] = FALSE

LEMMA SettingHolds ==
    ASSUME NEW r, NEW s, Receivers = {r}, Senders = {s}
    PROVE  Setting(r, s)
<1>1. r # s /\ Procs = {r, s}
  BY Zenon, MacAssumption DEF Procs
<1>2. PNUM \in Nat /\ PNUM >= 2 /\ MaxRounds \in Nat
  BY MacAssumption
<1>3. Fresh \in [Desc -> BOOLEAN] /\ \A i \in Desc : Fresh[i] = FALSE
  BY DEF Fresh
<1> QED
  BY <1>1, <1>2, <1>3 DEF Setting, Desc, last

LEMMA InitIInv ==
    ASSUME NEW r, NEW s, Setting(r, s), Init
    PROVE  IInv(r, s)
<1>1. pc = [p \in Procs |-> "idle"] /\ pc[r] = "idle" /\ pc[s] = "idle"
  BY DEF Init, Setting
<1>2. RxType /\ TxType
  <2>1. own \in [Desc -> BOOLEAN] /\ txown \in [Desc -> BOOLEAN]
    BY DEF Init, Setting
  <2>2. cur \in Desc /\ filled \in 0 .. PNUM /\ txcur \in Desc /\ sent \in 0 .. PNUM
    BY DEF Init, Setting
  <2>3. /\ linked \in BOOLEAN /\ rxon \in BOOLEAN /\ stalled \in BOOLEAN
        /\ irq \in BOOLEAN /\ int1 \in BOOLEAN /\ txon \in BOOLEAN
    BY Zenon DEF Init
  <2> QED
    BY <2>1, <2>2, <2>3 DEF RxType, TxType
<1>5. CtlType
  BY DEF Init, CtlType, Setting, Steps
<1>3. RecvInv(r)
  BY <1>1 DEF Init, RecvInv, Armed
<1>4. SendInv(s)
  BY <1>1 DEF Init, SendInv
<1> QED
  BY <1>1, <1>2, <1>3, <1>4, <1>5 DEF IInv, RSteps, SSteps, InKernel, KernelSteps

\* What a step of receiver r leaves of the sender's side.
LEMMA SenderUntouched ==
    ASSUME NEW r, NEW s, IInv(r, s), UNCHANGED txvars, pc'[s] = pc[s],
           l' = l \/ ~InKernel(s)
    PROVE  SendInv(s)'
BY DEF IInv, SendInv, txvars, InKernel, KernelSteps

\* What a step of sender s leaves of the receiver's side.
LEMMA ReceiverUntouched ==
    ASSUME NEW r, NEW s, IInv(r, s), UNCHANGED <<own, cur, filled, waiting>>, pc'[r] = pc[r],
           irq' => irq, l' = l \/ ~InKernel(r)
    PROVE  RecvInv(r)'
BY DEF IInv, RecvInv, RingFull, InKernel, KernelSteps

\* do_recv_desc_init and the steps of do_net_recv and do_wait_recv_package.
LEMMA RecvStepIInv ==
    ASSUME NEW r, NEW s, Setting(r, s), IInv(r, s),
           do_recv_desc_init(r) \/ RecvStep(r)
    PROVE  IInv(r, s)'
<1>0. /\ RxType /\ TxType /\ CtlType
      /\ pc[r] \in RSteps /\ pc[s] \in SSteps /\ ~(InKernel(r) /\ InKernel(s))
      /\ RecvInv(r) /\ SendInv(s)
      /\ pc \in [Procs -> Steps] /\ r \in Procs /\ s \in Procs
      /\ (KernelFree => ~InKernel(s) /\ ~InKernel(r))
  BY DEF IInv, CtlType, Setting, KernelFree
<1>1. CASE do_recv_desc_init(r)
  <2>1. /\ pc' \in [Procs -> Steps] /\ pc'[r] = "init" /\ pc'[s] = pc[s]
    BY <1>0, <1>1 DEF do_recv_desc_init, Goto, Steps, KernelSteps, Setting
  <2>2. RxType'
    BY <1>0, <1>1 DEF do_recv_desc_init, RxType, CtlType, Setting, rxvars, intvars
  <2>3. TxType' /\ CtlType'
    BY <1>0, <1>1, <2>1 DEF do_recv_desc_init, TxType, CtlType, Setting, txvars
  <2>4. SendInv(s)'
    BY <1>0, <1>1, <2>1, SenderUntouched DEF do_recv_desc_init, InKernel, KernelSteps
  <2>5. RecvInv(r)'
    BY <1>0, <1>1, <2>1 DEF do_recv_desc_init, RecvInv, RingFull, Armed, RxType, CtlType, Setting, rxvars, intvars
  <2> QED
    BY <1>0, <1>1, <2>1, <2>2, <2>3, <2>4, <2>5 DEF do_recv_desc_init, IInv, RSteps, SSteps, InKernel, KernelSteps
<1>2. CASE PrepareRecv(r)
  <2>1. /\ pc' \in [Procs -> Steps] /\ pc'[r] = "ready" /\ pc'[s] = pc[s]
    BY <1>0, <1>2 DEF PrepareRecv, Goto, Steps, KernelSteps, Setting
  <2>2. RxType'
    BY Zenon, <1>0, <1>2 DEF PrepareRecv, RxType, CtlType, Setting, rxvars, intvars
  <2>3. TxType' /\ CtlType'
    BY <1>0, <1>2, <2>1 DEF PrepareRecv, TxType, CtlType, Setting, txvars
  <2>4. SendInv(s)'
    BY <1>0, <1>2, <2>1, SenderUntouched DEF PrepareRecv, InKernel, KernelSteps
  <2>5. RecvInv(r)'
    BY <1>0, <1>2, <2>1 DEF PrepareRecv, RecvInv, RingFull, Armed, RxType, CtlType, Setting, rxvars, intvars
  <2> QED
    BY <1>0, <1>2, <2>1, <2>2, <2>3, <2>4, <2>5 DEF PrepareRecv, IInv, RSteps, SSteps, InKernel, KernelSteps
<1>3. CASE do_net_recv(r)
  <2>1. /\ pc' \in [Procs -> Steps] /\ pc'[r] = "own" /\ pc'[s] = pc[s]
    BY <1>0, <1>3 DEF do_net_recv, Goto, Steps, KernelSteps, Setting
  <2>2. RxType'
    BY <1>0, <1>3 DEF do_net_recv, RxType, CtlType, Setting, rxvars, intvars
  <2>3. TxType' /\ CtlType'
    BY <1>0, <1>3, <2>1 DEF do_net_recv, TxType, CtlType, Setting, txvars
  <2>4. SendInv(s)'
    BY <1>0, <1>3, <2>1, SenderUntouched DEF do_net_recv, InKernel, KernelSteps
  <2>5. RecvInv(r)'
    BY <1>0, <1>3, <2>1 DEF do_net_recv, RecvInv, RingFull, Armed, RxType, CtlType, Setting, rxvars, intvars
  <2> QED
    BY <1>0, <1>3, <2>1, <2>2, <2>3, <2>4, <2>5 DEF do_net_recv, IInv, RSteps, SSteps, InKernel, KernelSteps
<1>4. CASE RecvOwn(r)
  <2>1. /\ pc' \in [Procs -> Steps] /\ pc'[s] = pc[s]
        /\ pc'[r] = IF l = last THEN "poll" ELSE "own"
    BY <1>0, <1>4 DEF RecvOwn, Goto, Steps, KernelSteps, Setting
  <2>2. RxType'
    BY <1>0, <1>4 DEF RecvOwn, RxType, CtlType, Setting, rxvars, intvars
  <2>3. TxType' /\ CtlType'
    BY <1>0, <1>4, <2>1 DEF RecvOwn, TxType, CtlType, Setting, txvars
  <2>4. SendInv(s)'
    BY <1>0, <1>4, <2>1, SenderUntouched DEF RecvOwn, InKernel, KernelSteps
  <2>5. RecvInv(r)'
    BY <1>0, <1>4, <2>1 DEF RecvOwn, RecvInv, RingFull, Armed, RxType, CtlType, Setting, rxvars, intvars
  <2> QED
    BY <1>0, <1>4, <2>1, <2>2, <2>3, <2>4, <2>5 DEF RecvOwn, IInv, RSteps, SSteps, InKernel, KernelSteps
<1>5. CASE RecvPoll(r)
  <2>1. /\ pc' \in [Procs -> Steps] /\ pc'[r] = "test" /\ pc'[s] = pc[s]
    BY <1>0, <1>5 DEF RecvPoll, Goto, Steps, KernelSteps, Setting
  <2>2. RxType'
    BY Zenon, <1>0, <1>5 DEF RecvPoll, RxType, CtlType, Setting, rxvars, intvars
  <2>3. TxType' /\ CtlType'
    BY <1>0, <1>5, <2>1 DEF RecvPoll, TxType, CtlType, Setting, txvars
  <2>4. SendInv(s)'
    BY <1>0, <1>5, <2>1, SenderUntouched DEF RecvPoll, InKernel, KernelSteps
  <2>5. RecvInv(r)'
    BY <1>0, <1>5, <2>1 DEF RecvPoll, RecvInv, RingFull, Armed, RxType, CtlType, Setting, rxvars, intvars
  <2> QED
    BY <1>0, <1>5, <2>1, <2>2, <2>3, <2>4, <2>5 DEF RecvPoll, IInv, RSteps, SSteps, InKernel, KernelSteps
<1>6. CASE TestLast(r)
  <2>1. /\ pc' \in [Procs -> Steps] /\ pc'[s] = pc[s]
        /\ pc'[r] = IF own[last] THEN "wait" ELSE "done"
    BY <1>0, <1>6 DEF TestLast, Goto, Steps, KernelSteps, Setting
  <2>2. RxType'
    BY <1>0, <1>6 DEF TestLast, RxType, CtlType, Setting, rxvars, intvars
  <2>3. TxType' /\ CtlType'
    BY <1>0, <1>6, <2>1 DEF TestLast, TxType, CtlType, Setting, txvars
  <2>4. SendInv(s)'
    BY <1>0, <1>6, <2>1, SenderUntouched DEF TestLast, InKernel, KernelSteps
  <2>5. RecvInv(r)'
    BY <1>0, <1>6, <2>1 DEF TestLast, RecvInv, RingFull, Armed, RxType, CtlType, Setting, rxvars, intvars
  <2> QED
    BY <1>0, <1>6, <2>1, <2>2, <2>3, <2>4, <2>5 DEF TestLast, IInv, RSteps, SSteps, InKernel, KernelSteps
<1>7. CASE do_wait_recv_package(r)
  <2>1. /\ pc' \in [Procs -> Steps] /\ pc'[s] = pc[s]
        /\ pc'[r] = IF own[last] THEN "block" ELSE "done"
    BY <1>0, <1>7 DEF do_wait_recv_package, Goto, Steps, KernelSteps, Setting
  <2>2. RxType'
    BY <1>0, <1>7 DEF do_wait_recv_package, RxType, CtlType, Setting, rxvars, intvars
  <2>3. TxType' /\ CtlType'
    BY <1>0, <1>7, <2>1 DEF do_wait_recv_package, TxType, CtlType, Setting, txvars
  <2>4. SendInv(s)'
    BY <1>0, <1>7, <2>1, SenderUntouched DEF do_wait_recv_package, InKernel, KernelSteps
  <2>5. RecvInv(r)'
    BY <1>0, <1>7, <2>1 DEF do_wait_recv_package, RecvInv, RingFull, Armed, RxType, CtlType, Setting, rxvars, intvars
  <2> QED
    BY <1>0, <1>7, <2>1, <2>2, <2>3, <2>4, <2>5 DEF do_wait_recv_package, IInv, RSteps, SSteps, InKernel, KernelSteps
<1>8. CASE Block(r)
  <2>1. /\ pc' \in [Procs -> Steps] /\ pc'[r] = "blocked" /\ pc'[s] = pc[s]
    BY <1>0, <1>8 DEF Block, Goto, Steps, KernelSteps, Setting
  <2>2. RxType'
    BY <1>0, <1>8 DEF Block, RxType, CtlType, Setting, rxvars, intvars
  <2>3. TxType' /\ CtlType'
    BY <1>0, <1>8, <2>1 DEF Block, TxType, CtlType, Setting, txvars
  <2>4. SendInv(s)'
    BY <1>0, <1>8, <2>1, SenderUntouched DEF Block, InKernel, KernelSteps
  <2>5. RecvInv(r)'
    BY <1>0, <1>8, <2>1 DEF Block, RecvInv, RingFull, Armed, RxType, CtlType, Setting, rxvars, intvars
  <2> QED
    BY <1>0, <1>8, <2>1, <2>2, <2>3, <2>4, <2>5 DEF Block, IInv, RSteps, SSteps, InKernel, KernelSteps
<1>9. CASE ExitRecv(r)
  <2>1. /\ pc' \in [Procs -> Steps] /\ pc'[r] = "idle" /\ pc'[s] = pc[s]
    BY <1>0, <1>9 DEF ExitRecv, Goto, Steps, KernelSteps, Setting
  <2>2. RxType'
    BY <1>0, <1>9 DEF ExitRecv, RxType, CtlType, Setting, rxvars, intvars
  <2>3. TxType' /\ CtlType'
    BY <1>0, <1>9, <2>1 DEF ExitRecv, TxType, CtlType, Setting, txvars
  <2>4. SendInv(s)'
    BY <1>0, <1>9, <2>1, SenderUntouched DEF ExitRecv, InKernel, KernelSteps
  <2>5. RecvInv(r)'
    BY <1>0, <1>9, <2>1 DEF ExitRecv, RecvInv, RingFull, Armed, RxType, CtlType, Setting, rxvars, intvars
  <2> QED
    BY <1>0, <1>9, <2>1, <2>2, <2>3, <2>4, <2>5 DEF ExitRecv, IInv, RSteps, SSteps, InKernel, KernelSteps
<1> QED
  BY <1>1, <1>2, <1>3, <1>4, <1>5, <1>6, <1>7, <1>8, <1>9 DEF RecvStep

\* do_send_desc_init and the steps of do_net_send.
LEMMA SendStepIInv ==
    ASSUME NEW r, NEW s, Setting(r, s), IInv(r, s),
           do_send_desc_init(s) \/ SendStep(s)
    PROVE  IInv(r, s)'
<1>0. /\ RxType /\ TxType /\ CtlType
      /\ pc[r] \in RSteps /\ pc[s] \in SSteps /\ ~(InKernel(r) /\ InKernel(s))
      /\ RecvInv(r) /\ SendInv(s)
      /\ pc \in [Procs -> Steps] /\ r \in Procs /\ s \in Procs
      /\ (KernelFree => ~InKernel(s) /\ ~InKernel(r))
  BY DEF IInv, CtlType, Setting, KernelFree
<1>1. CASE do_send_desc_init(s)
  <2>1. /\ pc' \in [Procs -> Steps] /\ pc'[r] = pc[r]
        /\ pc'[s] = "txready"
    BY <1>0, <1>1 DEF do_send_desc_init, Goto, Steps, KernelSteps, Setting
  <2>2. RxType'
    BY Zenon, <1>0, <1>1 DEF do_send_desc_init, RxType, rxvars, intvars
  <2>3. TxType' /\ CtlType'
    BY <1>0, <1>1, <2>1 DEF do_send_desc_init, TxType, CtlType, Setting, txvars
  <2>4. RecvInv(r)'
    BY <1>0, <1>1, <2>1, ReceiverUntouched DEF do_send_desc_init, InKernel, KernelSteps, rxvars, intvars
  <2>5. SendInv(s)'
    BY <1>0, <1>1, <2>1 DEF do_send_desc_init, SendInv, TxType, CtlType, Setting, txvars
  <2> QED
    BY <1>0, <1>1, <2>1, <2>2, <2>3, <2>4, <2>5 DEF do_send_desc_init, IInv, RSteps, SSteps, InKernel, KernelSteps
<1>2. CASE do_net_send(s)
  <2>1. /\ pc' \in [Procs -> Steps] /\ pc'[r] = pc[r]
        /\ pc'[s] = "txown"
    BY <1>0, <1>2 DEF do_net_send, Goto, Steps, KernelSteps, Setting
  <2>2. RxType'
    BY <1>0, <1>2 DEF do_net_send, RxType, rxvars, intvars
  <2>3. TxType' /\ CtlType'
    BY <1>0, <1>2, <2>1 DEF do_net_send, TxType, CtlType, Setting, txvars
  <2>4. RecvInv(r)'
    BY <1>0, <1>2, <2>1, ReceiverUntouched DEF do_net_send, InKernel, KernelSteps, rxvars, intvars
  <2>5. SendInv(s)'
    BY <1>0, <1>2, <2>1 DEF do_net_send, SendInv, TxType, CtlType, Setting, txvars
  <2> QED
    BY <1>0, <1>2, <2>1, <2>2, <2>3, <2>4, <2>5 DEF do_net_send, IInv, RSteps, SSteps, InKernel, KernelSteps
<1>3. CASE SendOwn(s)
  <2>1. /\ pc' \in [Procs -> Steps] /\ pc'[r] = pc[r]
        /\ pc'[s] = IF l = last THEN "txpoll" ELSE "txown"
    BY <1>0, <1>3 DEF SendOwn, Goto, Steps, KernelSteps, Setting
  <2>2. RxType'
    BY <1>0, <1>3 DEF SendOwn, RxType, rxvars, intvars
  <2>3. TxType' /\ CtlType'
    BY <1>0, <1>3, <2>1 DEF SendOwn, TxType, CtlType, Setting, txvars
  <2>4. RecvInv(r)'
    BY <1>0, <1>3, <2>1, ReceiverUntouched DEF SendOwn, InKernel, KernelSteps, rxvars, intvars
  <2>5. SendInv(s)'
    BY <1>0, <1>3, <2>1 DEF SendOwn, SendInv, TxType, CtlType, Setting, txvars
  <2> QED
    BY <1>0, <1>3, <2>1, <2>2, <2>3, <2>4, <2>5 DEF SendOwn, IInv, RSteps, SSteps, InKernel, KernelSteps
<1>4. CASE SendPoll(s)
  <2>1. /\ pc' \in [Procs -> Steps] /\ pc'[r] = pc[r]
        /\ pc'[s] = "txspin"
    BY <1>0, <1>4 DEF SendPoll, Goto, Steps, KernelSteps, Setting
  <2>2. RxType'
    BY <1>0, <1>4 DEF SendPoll, RxType, rxvars, intvars
  <2>3. TxType' /\ CtlType'
    BY <1>0, <1>4, <2>1 DEF SendPoll, TxType, CtlType, Setting, txvars
  <2>4. RecvInv(r)'
    BY <1>0, <1>4, <2>1, ReceiverUntouched DEF SendPoll, InKernel, KernelSteps, rxvars, intvars
  <2>5. SendInv(s)'
    BY <1>0, <1>4, <2>1 DEF SendPoll, SendInv, TxType, CtlType, Setting, txvars
  <2> QED
    BY <1>0, <1>4, <2>1, <2>2, <2>3, <2>4, <2>5 DEF SendPoll, IInv, RSteps, SSteps, InKernel, KernelSteps
<1>5. CASE SendSpin(s)
  <2>1. /\ pc' \in [Procs -> Steps] /\ pc'[r] = pc[r]
        /\ pc'[s] = IF l = last THEN "sent" ELSE "txpoll"
    BY <1>0, <1>5 DEF SendSpin, Goto, Steps, KernelSteps, Setting
  <2>2. RxType'
    BY <1>0, <1>5 DEF SendSpin, RxType, rxvars, intvars
  <2>3. TxType' /\ CtlType'
    BY <1>0, <1>5, <2>1 DEF SendSpin, TxType, CtlType, Setting, txvars
  <2>4. RecvInv(r)'
    BY <1>0, <1>5, <2>1, ReceiverUntouched DEF SendSpin, InKernel, KernelSteps, rxvars, intvars
  <2>5. SendInv(s)'
    BY <1>0, <1>5, <2>1 DEF SendSpin, SendInv, TxType, CtlType, Setting, txvars
  <2> QED
    BY <1>0, <1>5, <2>1, <2>2, <2>3, <2>4, <2>5 DEF SendSpin, IInv, RSteps, SSteps, InKernel, KernelSteps
<1>6. CASE SendAgain(s)
  <2>1. /\ pc' \in [Procs -> Steps] /\ pc'[r] = pc[r]
        /\ pc'[s] \in {"idle", "txready"}
    BY <1>0, <1>6 DEF SendAgain, Goto, Steps, KernelSteps, Setting
  <2>2. RxType'
    BY <1>0, <1>6 DEF SendAgain, RxType, rxvars, intvars
  <2>3. TxType' /\ CtlType'
    BY <1>0, <1>6, <2>1 DEF SendAgain, TxType, CtlType, Setting, txvars
  <2>4. RecvInv(r)'
    BY <1>0, <1>6, <2>1, ReceiverUntouched DEF SendAgain, InKernel, KernelSteps, rxvars, intvars
  <2>5. SendInv(s)'
    BY <1>0, <1>6, <2>1 DEF SendAgain, SendInv, TxType, CtlType, Setting, txvars
  <2> QED
    BY <1>0, <1>6, <2>1, <2>2, <2>3, <2>4, <2>5 DEF SendAgain, IInv, RSteps, SSteps, InKernel, KernelSteps
<1> QED
  BY <1>1, <1>2, <1>3, <1>4, <1>5, <1>6 DEF SendStep

\* The timer's and the card's interrupt.
LEMMA HandlerIInv ==
    ASSUME NEW r, NEW s, Setting(r, s), IInv(r, s), Tick \/ irq_mac
    PROVE  IInv(r, s)'
<1>0. /\ RxType /\ TxType /\ CtlType
      /\ pc[r] \in RSteps /\ pc[s] \in SSteps /\ ~(InKernel(r) /\ InKernel(s))
      /\ RecvInv(r) /\ SendInv(s)
      /\ pc \in [Procs -> Steps] /\ r \in Procs /\ s \in Procs
      /\ (KernelFree => ~InKernel(s) /\ ~InKernel(r))
  BY DEF IInv, CtlType, Setting, KernelFree
<1>1. UNCHANGED <<own, linked, cur, rxon, stalled, int1, txvars, l, filled, rounds>>
      /\ (irq' => irq) /\ irq' \in BOOLEAN
  <2>1. CASE Tick
    BY <1>0, <2>1 DEF Tick, rxvars, intvars, RxType
  <2>2. CASE irq_mac
    <3>1. UNCHANGED <<own, linked, cur, rxon, stalled, int1, txvars, l, filled, rounds>>
      BY <2>2 DEF irq_mac, rxvars
    <3>2. irq' = FALSE
      BY <2>2, Zenon DEF irq_mac
    <3> QED
      BY <3>1, <3>2, Zenon
  <2> QED
    BY <2>1, <2>2
<1>2. (waiting' = waiting /\ pc' = pc) \/ (waiting' = {} /\ pc[r] = "blocked" /\ Goto(r, "done"))
  <2>1. \A p \in waiting : p = r
    BY <1>0 DEF CtlType, Setting
  <2> QED
    BY <1>0, <2>1 DEF Tick, irq_mac, do_unblock_one, RecvInv, CtlType, Setting
<1>3. RxType' /\ TxType'
  BY <1>0, <1>1 DEF RxType, TxType, rxvars, txvars
<1>4. CASE waiting' = waiting /\ pc' = pc
  <2>1. RecvInv(r)' /\ SendInv(s)'
    BY <1>0, <1>1, <1>4, ReceiverUntouched, SenderUntouched DEF rxvars
  <2> QED
    BY <1>0, <1>1, <1>3, <1>4, <2>1 DEF IInv, CtlType, InKernel
<1>5. CASE waiting' = {} /\ pc[r] = "blocked" /\ Goto(r, "done")
  <2>1. /\ pc' \in [Procs -> Steps] /\ pc'[s] = pc[s]
        /\ pc'[r] = "done"
    BY <1>0, <1>5 DEF Goto, Steps, KernelSteps, Setting
  <2>2. filled >= PNUM - 1 /\ RingFull
    <3>1. RingFull /\ (irq => filled = PNUM)
      BY <1>0, <1>5 DEF RecvInv, Armed
    <3>2. CASE irq_mac
      BY <1>0, <3>1, <3>2 DEF irq_mac, Setting
    <3>3. CASE Tick
      <4>1. ~own[PNUM - 2] /\ PNUM - 2 \in Desc
        BY <3>3 DEF Tick, AllReceived, Setting
      <4> QED
        BY <1>0, <3>1, <4>1 DEF RingFull, RxType, Setting
    <3> QED
      BY <3>1, <3>2, <3>3
  <2>3. CtlType' /\ SendInv(s)'
    BY <1>0, <1>1, <1>5, <2>1, SenderUntouched DEF CtlType
  <2>4. RecvInv(r)'
    BY <1>1, <1>5, <2>1, <2>2 DEF RecvInv, RingFull, Armed, rxvars
  <2> QED
    BY <1>0, <1>3, <2>1, <2>3, <2>4 DEF IInv, RSteps, InKernel, KernelSteps
<1> QED
  BY <1>2, <1>4, <1>5

\* The card stores or drops a frame, or sends one.
LEMMA CardIInv ==
    ASSUME NEW r, NEW s, Setting(r, s), IInv(r, s), Store \/ Drop \/ Transmit
    PROVE  IInv(r, s)'
<1>0. /\ RxType /\ TxType /\ CtlType
      /\ pc[r] \in RSteps /\ pc[s] \in SSteps /\ ~(InKernel(r) /\ InKernel(s))
      /\ RecvInv(r) /\ SendInv(s)
      /\ pc \in [Procs -> Steps] /\ r \in Procs /\ s \in Procs
      /\ (KernelFree => ~InKernel(s) /\ ~InKernel(r))
  BY DEF IInv, CtlType, Setting, KernelFree
<1>1. UNCHANGED <<waiting, pc, l, rounds>>
  BY DEF Store, Drop, Transmit
<1>2. CtlType' /\ pc'[r] \in RSteps /\ pc'[s] \in SSteps /\ ~(InKernel(r) /\ InKernel(s))'
  BY <1>0, <1>1 DEF CtlType, InKernel
<1>3. CASE Store
  <2>1. UNCHANGED txvars /\ TxType' /\ SendInv(s)'
    BY <1>0, <1>1, <1>3, SenderUntouched DEF Store, TxType, txvars
  <2>2. own[cur] /\ filled < PNUM /\ cur = filled
    <3>1. own[cur] /\ cur \in Desc /\ own # Fresh
      BY <1>0, <1>3 DEF Store, RxType, Setting
    <3>2. CASE pc[r] = "own"
      BY <1>0, <3>1, <3>2 DEF RecvInv, RxType, CtlType, Setting
    <3>3. CASE pc[r] # "own"
      <4>1. RingFull
        BY <1>0, <3>1, <3>3 DEF RecvInv, Armed, RSteps
      <4> QED
        BY <1>0, <3>1, <4>1 DEF RingFull, RxType, Setting
    <3> QED
      BY <3>2, <3>3
  <2>3. /\ own' = [own EXCEPT ![cur] = FALSE]
        /\ filled' = filled + 1
        /\ cur' = IF filled' = PNUM THEN 0 ELSE filled'
        /\ irq' = (irq \/ cur = last)
    BY <1>0, <1>3, <2>2 DEF Store, des3, RequestsInterrupt, Setting, RxType
  <2>4. RxType'
    <3>1. own' \in [Desc -> BOOLEAN] /\ cur' \in Desc /\ filled' \in 0 .. PNUM
      BY <1>0, <2>2, <2>3 DEF RxType, Setting
    <3>2. linked' \in BOOLEAN /\ rxon' \in BOOLEAN /\ stalled' \in BOOLEAN /\ int1' \in BOOLEAN
      BY <1>0, <1>3, Zenon DEF Store, RxType
    <3>3. irq' \in BOOLEAN
      BY <2>3, Zenon
    <3> QED
      BY <3>1, <3>2, <3>3 DEF RxType
  <2>5. \A i \in Desc : own'[i] <=> (own[i] /\ i # cur)
    BY <1>0, <2>3 DEF RxType
  <2>6. RecvInv(r)'
    <3>1. RingFull => RingFull'
      BY <1>0, <2>2, <2>3, <2>5 DEF RingFull, RxType, Setting
    <3>2. own # Fresh
      BY <1>0, <2>2 DEF RxType, Setting
    <3>3. CASE pc[r] = "own"
      <4>1. filled <= l /\ \A i \in Desc : own[i] <=> (filled <= i /\ i < l)
        BY <1>0, <3>3 DEF RecvInv
      <4>2. filled < l /\ l <= PNUM - 1
        BY <1>0, <2>2, <4>1 DEF RxType, CtlType, Setting
      <4>3. filled' <= l /\ filled' # PNUM /\ cur' = filled'
        BY <1>0, <2>3, <4>2 DEF RxType, CtlType, Setting
      <4>4. \A i \in Desc : own'[i] <=> (filled' <= i /\ i < l)
        BY <1>0, <2>2, <2>3, <2>5, <4>1 DEF RxType, CtlType, Setting
      <4>5. ~irq' \/ filled' = PNUM
        <5>1. ~irq
          BY <1>0, <2>2, <3>3 DEF RecvInv, RxType, Setting
        <5>2. cur # last
          BY <1>0, <2>2, <4>2 DEF RxType, CtlType, Setting
        <5> QED
          BY <2>3, <5>1, <5>2, Zenon
      <4> QED
        BY <1>0, <1>1, <3>3, <4>3, <4>4, <4>5 DEF RecvInv, Armed
    <3>4. CASE pc[r] # "own"
      <4>1. RingFull /\ RingFull' /\ pc[r] \in Armed \cup {"idle"}
        BY <1>0, <3>1, <3>2, <3>4 DEF RecvInv, Armed, RSteps
      <4>2. irq' => irq \/ filled' = PNUM
        BY <1>0, <2>2, <2>3 DEF RxType, Setting
      <4>3. pc[r] \in Armed \ {"done"} => (irq' => filled' = PNUM)
        BY <1>0, <2>2, <4>2 DEF RecvInv, RxType, Setting
      <4>4. pc[r] = "done" => filled' >= PNUM - 1
        BY <1>0, <2>3 DEF RecvInv, RxType, Setting
      <4> QED
        BY <1>0, <1>1, <3>4, <4>1, <4>3, <4>4 DEF RecvInv, Armed
    <3> QED
      BY <3>3, <3>4
  <2> QED
    BY <1>2, <2>1, <2>4, <2>6 DEF IInv
<1>4. CASE Drop
  <2>1. UNCHANGED <<own, cur, filled, irq, txvars>> /\ RxType' /\ TxType'
    BY <1>0, <1>4 DEF Drop, RxType, TxType, intvars, txvars
  <2>2. RecvInv(r)' /\ SendInv(s)'
    BY <1>0, <1>1, <2>1, ReceiverUntouched, SenderUntouched
  <2> QED
    BY <1>2, <2>1, <2>2 DEF IInv
<1>5. CASE Transmit
  <2>1. UNCHANGED <<rxvars, intvars, filled>> /\ RxType' /\ RecvInv(r)'
    BY <1>0, <1>1, <1>5, ReceiverUntouched DEF Transmit, RxType, rxvars, intvars
  <2>2. txown[txcur] /\ sent < PNUM /\ txcur = sent
    BY <1>0, <1>5 DEF Transmit, SendInv, SSteps, TxType, CtlType, Setting
  <2>3. /\ txown' = [txown EXCEPT ![txcur] = FALSE]
        /\ sent' = sent + 1
        /\ txcur' = IF sent' = PNUM THEN 0 ELSE sent'
        /\ txon' = txon
    BY <1>0, <1>5, <2>2 DEF Transmit, des3, Setting, TxType
  <2>4. TxType'
    BY <1>0, <2>2, <2>3 DEF TxType, Setting
  <2>5. \A i \in Desc : txown'[i] <=> (txown[i] /\ i # txcur)
    BY <1>0, <2>3 DEF TxType
  <2>6. SendInv(s)'
    <3>1. txown # Fresh
      BY <1>0, <2>2 DEF TxType, Setting
    <3>2. CASE pc[s] = "txown"
      <4>1. sent < l /\ l < PNUM /\ \A i \in Desc : txown[i] <=> (sent <= i /\ i < l)
        BY <1>0, <2>2, <3>2 DEF SendInv, TxType, CtlType, Setting
      <4>2. sent' <= l /\ txcur' = sent'
        BY <1>0, <2>3, <4>1 DEF TxType, CtlType, Setting
      <4>3. \A i \in Desc : txown'[i] <=> (sent' <= i /\ i < l)
        BY <1>0, <2>2, <2>3, <2>5, <4>1 DEF TxType, CtlType, Setting
      <4> QED
        BY <1>1, <3>2, <4>2, <4>3 DEF SendInv
    <3>3. CASE pc[s] \in {"txpoll", "txspin"}
      <4>1. sent >= l /\ \A i \in Desc : txown[i] <=> i >= sent
        BY <1>0, <3>3 DEF SendInv
      <4>2. sent' >= l /\ \A i \in Desc : txown'[i] <=> i >= sent'
        BY <1>0, <2>2, <2>3, <2>5, <4>1 DEF TxType, CtlType, Setting
      <4> QED
        BY <1>1, <2>3, <3>3, <4>2 DEF SendInv
    <3> QED
      BY <1>0, <3>1, <3>2, <3>3 DEF SendInv, SSteps
  <2> QED
    BY Zenon, <1>2, <2>1, <2>4, <2>6 DEF IInv
<1> QED
  BY <1>3, <1>4, <1>5

\* "initmac" is given between two commands.
LEMMA InitMacIInv ==
    ASSUME NEW r, NEW s, Setting(r, s), IInv(r, s), InitMac
    PROVE  IInv(r, s)'
<1>1. pc[r] = "idle" /\ pc[s] = "idle" /\ pc' = pc /\ own' = Fresh /\ txown' = Fresh
      /\ waiting' = waiting /\ l' = l
  BY DEF InitMac, Setting
<1>2. r \notin waiting
  BY <1>1 DEF IInv, RecvInv
<1>3. RxType' /\ TxType'
  <2>1. own' \in [Desc -> BOOLEAN] /\ txown' \in [Desc -> BOOLEAN]
    BY <1>1 DEF Setting
  <2>2. cur' \in Desc /\ filled' \in 0 .. PNUM /\ txcur' \in Desc /\ sent' \in 0 .. PNUM
    BY DEF InitMac, Setting, IInv, RxType, TxType
  <2>3. /\ linked' \in BOOLEAN /\ rxon' \in BOOLEAN /\ stalled' \in BOOLEAN
        /\ irq' \in BOOLEAN /\ txon' \in BOOLEAN
    BY Zenon DEF InitMac
  <2>4. int1' \in BOOLEAN
    BY DEF InitMac, IInv, RxType
  <2> QED
    BY <2>1, <2>2, <2>3, <2>4 DEF RxType, TxType
<1>4. CtlType'
  BY DEF InitMac, IInv, CtlType, Setting
<1>5. RecvInv(r)' /\ SendInv(s)'
  BY <1>1, <1>2 DEF RecvInv, SendInv, Armed
<1> QED
  BY <1>1, <1>3, <1>4, <1>5 DEF IInv, RSteps, SSteps, InKernel, KernelSteps

LEMMA NextIInv ==
    ASSUME NEW r, NEW s, Setting(r, s), IInv(r, s), [Next]_vars
    PROVE  IInv(r, s)'
<1>1. CASE UNCHANGED vars
  <2>1. UNCHANGED <<own, linked, cur, rxon, stalled, irq, int1, txown, txcur, txon, sent,
                    waiting, pc, l, filled, rounds>>
    BY <1>1 DEF vars, rxvars, txvars, intvars
  <2>2. RecvInv(r)' /\ SendInv(s)'
    BY <2>1, ReceiverUntouched, SenderUntouched DEF txvars
  <2> QED
    BY <2>1, <2>2 DEF IInv, RxType, TxType, CtlType, InKernel
<1>2. CASE Next
  <2>1. (\E p \in Receivers : do_recv_desc_init(p) \/ RecvStep(p)) =>
            do_recv_desc_init(r) \/ RecvStep(r)
    BY DEF Setting
  <2>2. (\E p \in Senders : do_send_desc_init(p) \/ SendStep(p)) =>
            do_send_desc_init(s) \/ SendStep(s)
    BY DEF Setting
  <2> QED
    BY <1>2, <2>1, <2>2, RecvStepIInv, SendStepIInv, HandlerIInv, CardIInv, InitMacIInv DEF Next
<1> QED
  BY <1>1, <1>2

LEMMA IInvImplies ==
    ASSUME NEW r, NEW s, Setting(r, s), IInv(r, s)
    PROVE  TypeOK /\ InOrder /\ AllButLast /\ SentAll
<1>1. TypeOK
  BY DEF IInv, RxType, TxType, CtlType, TypeOK
<1>2. InOrder /\ AllButLast
  BY DEF IInv, RecvInv, RingFull, Armed, InOrder, AllButLast, Setting
<1>3. SentAll
  BY DEF IInv, SendInv, SentAll, Setting
<1> QED
  BY <1>1, <1>2, <1>3

(* For rings of every length, every interrupt mask and any number of       *)
(* commands, with one receiver and one sender: the OWN bits of do_net_recv *)
(* hand the ring over in order, check_recv_block_queue, irq_mac and the    *)
(* two tests of phy_regs_task2 let the receiver go on only with all frames *)
(* but perhaps the last one, and do_net_send returns when each of its      *)
(* frames has been sent, although the card works on the ring at every      *)
(* step.                                                                   *)
THEOREM RingsCorrect ==
    ASSUME NEW r, NEW s, Receivers = {r}, Senders = {s}
    PROVE  Spec => [](TypeOK /\ InOrder /\ AllButLast /\ SentAll)
<1>1. Setting(r, s)
  BY SettingHolds
<1>2. Init => IInv(r, s)
  BY <1>1, InitIInv
<1>3. IInv(r, s) /\ [Next]_vars => IInv(r, s)'
  BY <1>1, NextIInv
<1>4. IInv(r, s) => TypeOK /\ InOrder /\ AllButLast /\ SentAll
  BY <1>1, IInvImplies
<1> QED
  BY <1>2, <1>3, <1>4, PTL DEF Spec

=============================================================================
