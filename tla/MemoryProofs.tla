---------------------------- MODULE MemoryProofs ----------------------------
(***************************************************************************)
(* Proofs about the page frames of memory.c for every number of frames,    *)
(* pages, processes, TLB entries and units of the swap area: the count of  *)
(* free frames, on which the handler of TLB exceptions decides, is exact,  *)
(* through evictions as well; and if the pages fit into the frames, no two *)
(* pages share one, whichever exceptions come in which order.  The clock   *)
(* never evicts a frame of the page table, and with one process the TLB    *)
(* agrees with the page table and has no page twice.                       *)
(*                                                                         *)
(* For the frames the strengthening is what page_alloc relies on without   *)
(* saying so: they are taken in order, so that the free ones are the last  *)
(* free_page_frame_num, and page_alloc_ptr is at the first of them.        *)
(***************************************************************************)
EXTENDS Memory, Sequences, TLAPS

FP == FRAME_PAGES
PT == PAGE_TABLE_PAGES
F == free_page_frame_num

Entries == [frame : Int, VPN : Int, pid : Int, avail : BOOLEAN, pinned : BOOLEAN,
            R : BOOLEAN]

BaseInv ==
  /\ page_map \in [Frames \cup Swap -> Entries]
  /\ page_table \in [VPNs -> Int]
  /\ access \in [Pids -> VPNs \cup {NoVPN2}]
  /\ current_running \in Pids

\* The frames are taken in order.
FrameInv ==
  /\ F \in 0..FP - PT
  /\ page_alloc_ptr = IF F = 0 THEN 0 ELSE FP - F
  /\ \A i \in Frames : page_map[i].frame = i /\ (page_map[i].avail <=> i >= FP - F)

IInv == BaseInv /\ FrameInv

\* The pages that have a frame.
Used == {v \in VPNs : page_table[v] # NoFrame}

PagesInv ==
  /\ Cardinality(Used) = FP - PT - F
  /\ \A v \in Used : page_table[v] \in PT..FP - F - 1
  /\ \A v, w \in Used : page_table[v] = page_table[w] => v = w

LEMMA Sizes ==
  /\ FP \in Nat /\ FP > 0 /\ PT \in 0..FP
  /\ VM_PAGES \in Nat /\ SD_SWAP_UNIT_NUM \in Nat
  /\ Pids \subseteq Int
  /\ Frames = 0..FP - 1 /\ VPNs = 0..VM_PAGES - 1
  /\ VPNs \subseteq Int /\ Frames \subseteq Int
  /\ Frames \cap Swap = {}
  /\ NoVPN2 \notin VPNs /\ NoFrame \notin Frames
BY MemoryAssumption DEF FP, PT, Frames, VPNs, Swap, NoVPN2, NoFrame

LEMMA FreeSet ==
  ASSUME FrameInv
  PROVE  FreeFrames = IF F = 0 THEN {} ELSE (FP - F)..FP - 1
BY Sizes DEF FrameInv, FreeFrames, FP

LEMMA FirstFree ==
  ASSUME FrameInv, F # 0
  PROVE  FreeFrames # {} /\ Min(FreeFrames) = FP - F /\ FP - F \in Frames
<1>1. FreeFrames = (FP - F)..FP - 1 /\ F \in Nat /\ F <= FP /\ FP \in Nat
  BY FreeSet, Sizes DEF FrameInv
<1>2. FP - F \in FreeFrames /\ \A y \in FreeFrames : FP - F <= y
  BY <1>1
<1>3. \A x \in FreeFrames : (\A y \in FreeFrames : x <= y) => x = FP - F
  BY <1>1, <1>2
<1>4. Min(FreeFrames) = CHOOSE x \in FreeFrames : \A y \in FreeFrames : x <= y
  BY DEF Min
<1>5. Min(FreeFrames) \in FreeFrames /\ \A y \in FreeFrames : Min(FreeFrames) <= y
  BY <1>2, <1>4
<1> QED
  BY <1>1, <1>2, <1>3, <1>5, Sizes

LEMMA InitIInv ==
  ASSUME Init
  PROVE  IInv
<1>1. FrameInv
  <2>1. F = FP - PT /\ page_alloc_ptr = PT % FP
    BY Zenon DEF Init, F, FP, PT
  <2>2. PT % FP = IF PT = FP THEN 0 ELSE PT
    <3>1. CASE PT = FP
      BY <3>1, Sizes
    <3>2. CASE PT < FP
      BY <3>2, Sizes
    <3> QED
      BY <3>1, <3>2, Sizes
  <2>3. \A i \in Frames : page_map[i] = FrameAfterInit(i)
    BY DEF Init
  <2>4. \A i \in Frames : page_map[i].frame = i /\ (page_map[i].avail <=> i >= PT)
    <3> SUFFICES ASSUME NEW i \in Frames
                 PROVE  page_map[i].frame = i /\ (page_map[i].avail <=> i >= PT)
      OBVIOUS
    <3>0. i \in Int /\ PAGE_TABLE_PAGES \in Int
      BY Sizes DEF PT
    <3>1. page_map[i] = FrameAfterInit(i)
      BY <2>3
    <3>2. CASE i < PAGE_TABLE_PAGES
      BY <3>0, <3>1, <3>2 DEF FrameAfterInit, PT
    <3>3. CASE ~(i < PAGE_TABLE_PAGES)
      BY <3>0, <3>1, <3>3 DEF FrameAfterInit, PT
    <3> QED
      BY <3>2, <3>3
  <2>5. FP - F = PT
    BY <2>1, Sizes
  <2> QED
    BY <2>1, <2>2, <2>4, <2>5, Sizes DEF FrameInv
<1>2. BaseInv
  <2>1. \A i \in Frames \cup Swap : FrameAfterInit(i) \in Entries
    BY Sizes DEF FrameAfterInit, Entries, PageZero
  <2>2. page_map \in [Frames \cup Swap -> Entries]
    BY <2>1 DEF Init
  <2> QED
    BY <2>2 DEF Init, BaseInv, NoFrame
<1> QED
  BY <1>1, <1>2 DEF IInv

\* page_alloc with a free frame.
LEMMA TakeStep ==
  ASSUME IInv, F # 0, NEW i, page_alloc(i), VPN \in VPNs
  PROVE  /\ i = FP - F /\ i \in Frames
         /\ F' = F - 1 /\ F \in Nat
         /\ page_map' \in [Frames \cup Swap -> Entries]
         /\ FrameInv'
         /\ page_map'[i].frame = i
<1>1. i = FP - F /\ i \in Frames /\ TakeFrame(i) /\ F \in Nat /\ F > 0 /\ F <= FP - PT
  BY FirstFree DEF IInv, FrameInv, page_alloc
<1>2. F' = F - 1
  BY <1>1 DEF TakeFrame, F
<1>3. /\ page_map' = [page_map EXCEPT ![i] =
                    [@ EXCEPT !.VPN = VPN, !.pid = pid, !.avail = FALSE,
                              !.pinned = FALSE, !.R = TRUE]]
      /\ page_map \in [Frames \cup Swap -> Entries]
      /\ pid \in Int /\ VPN \in Int
  BY <1>1, Sizes DEF TakeFrame, IInv, BaseInv, pid
<1>4. page_map' \in [Frames \cup Swap -> Entries]
  BY Zenon, <1>3 DEF Entries
<1>5. /\ \A j \in Frames \ {i} : page_map'[j] = page_map[j]
      /\ page_map'[i].frame = page_map[i].frame /\ page_map'[i].avail = FALSE
  BY <1>1, <1>3 DEF Entries
<1>6. \A j \in Frames : page_map'[j].frame = j /\ (page_map'[j].avail <=> j >= FP - F')
  BY <1>1, <1>2, <1>5, Sizes DEF IInv, FrameInv
<1>7. page_alloc_ptr' = IF F' = 0 THEN 0 ELSE FP - F'
  <2>1. page_alloc_ptr = FP - F /\ page_alloc_ptr' = (page_alloc_ptr + 1) % FP
    BY <1>1 DEF IInv, FrameInv, TakeFrame, FP
  <2>2. CASE F = 1
    BY <1>2, <2>1, <2>2, Sizes
  <2>3. CASE F # 1
    BY <1>1, <1>2, <2>1, <2>3, Sizes
  <2> QED
    BY <2>2, <2>3
<1>8. FrameInv'
  BY <1>1, <1>2, <1>6, <1>7, Sizes DEF FrameInv, FP, PT
<1> QED
  BY <1>1, <1>2, <1>4, <1>6, <1>8

\* page_alloc that evicts.
LEMMA EvictStep ==
  ASSUME IInv, F = 0, NEW i, page_alloc(i), VPN \in VPNs
  PROVE  page_map' \in [Frames \cup Swap -> Entries] /\ FrameInv' /\ i \in Frames \cup Swap
<1>1. FreeFrames = {} /\ DOMAIN page_map = Frames \cup Swap
  BY FreeSet DEF IInv, BaseInv
<1>2. PICK victim \in Frames, u \in Swap : Evict(victim, u)
  BY <1>1 DEF page_alloc
<1>3. page_map' = [j \in Frames \cup Swap |->
       IF j = u THEN [frame |-> victim, VPN |-> VPN, pid |-> pid, avail |-> FALSE,
                      pinned |-> FALSE, R |-> TRUE]
       ELSE IF j \in Frames /\ Passed(j, victim) THEN [page_map[j] EXCEPT !.R = FALSE]
       ELSE page_map[j]]
  BY <1>2 DEF Evict
<1>4. pid \in Int /\ VPN \in Int /\ victim \in Int /\ u \notin Frames
  BY Sizes DEF IInv, BaseInv, pid
<1>5. \A j \in Frames \cup Swap : page_map[j] \in Entries
  BY DEF IInv, BaseInv
<1>6. page_map' \in [Frames \cup Swap -> Entries]
  BY Zenon, <1>3, <1>4, <1>5 DEF Entries
<1>7. \A j \in Frames : /\ page_map'[j].frame = page_map[j].frame
                        /\ page_map'[j].avail = page_map[j].avail
  BY Zenon, <1>3, <1>4, <1>5 DEF Entries
<1>8. F' = F /\ page_alloc_ptr' = page_alloc_ptr
  BY <1>2 DEF Evict, F
<1>9. FrameInv'
  BY <1>7, <1>8 DEF IInv, FrameInv, FP, PT
<1> QED
  BY <1>1, <1>6, <1>9 DEF page_alloc

\* A handler's step: nothing happens to the frames, or page_alloc gives frame i to
\* the page of the access.
Allocates ==
  \E i \in DOMAIN page_map :
    /\ page_table[VPN] = NoFrame
    /\ page_alloc(i)
    /\ page_table' = [page_table EXCEPT ![VPN] = page_map'[i].frame]

LEMMA StepCases ==
  ASSUME [Next]_vars, BaseInv
  PROVE  /\ access' \in [Pids -> VPNs \cup {NoVPN2}] /\ current_running' \in Pids
         /\ \/ UNCHANGED <<allocVars, page_table>>
            \/ Allocates /\ VPN \in VPNs
<1>1. CASE UNCHANGED vars
  BY <1>1 DEF vars, BaseInv
<1>2. CASE \E v \in VPNs : Touch(v)
  BY Zenon, <1>2 DEF Touch, BaseInv
<1>3. CASE \E p \in Pids : Switch(p)
  BY <1>3 DEF Switch, BaseInv
<1>4. CASE Access
  <2>1. VPN \in VPNs
    BY <1>4 DEF Access, BaseInv, VPN, pid
  <2>2. CASE handle_tlb_exception_helper
    <3>1. CASE HandleRefill
      BY <2>1, <3>1 DEF HandleRefill, Allocates, Done, BaseInv
    <3>2. CASE HandleInvalid
      BY Zenon, <2>1, <3>2 DEF HandleInvalid, Allocates, Done, BaseInv
    <3> QED
      BY <2>2, <3>1, <3>2 DEF handle_tlb_exception_helper
  <2>3. CASE ~handle_tlb_exception_helper
    BY <1>4, <2>3 DEF Access, BaseInv, pid
  <2> QED
    BY <2>2, <2>3
<1> QED
  BY <1>1, <1>2, <1>3, <1>4 DEF Next

LEMMA NextIInv ==
  ASSUME IInv, [Next]_vars
  PROVE  IInv'
<1>0. BaseInv
  BY DEF IInv
<1>1. access' \in [Pids -> VPNs \cup {NoVPN2}] /\ current_running' \in Pids
  BY <1>0, StepCases
<1>2. CASE UNCHANGED <<allocVars, page_table>>
  BY <1>0, <1>1, <1>2 DEF IInv, BaseInv, FrameInv, allocVars, F, FP, PT
<1>3. CASE Allocates /\ VPN \in VPNs
  <2>1. PICK i \in DOMAIN page_map :
          page_alloc(i) /\ page_table' = [page_table EXCEPT ![VPN] = page_map'[i].frame]
    BY Zenon, <1>3 DEF Allocates
  <2>2. page_map' \in [Frames \cup Swap -> Entries] /\ FrameInv' /\ i \in Frames \cup Swap
    BY <1>0, <1>3, <2>1, TakeStep, EvictStep DEF BaseInv
  <2>3. page_map'[i].frame \in Int
    BY <2>2 DEF Entries
  <2>4. page_table' \in [VPNs -> Int]
    BY Zenon, <1>0, <2>1, <2>3 DEF BaseInv
  <2> QED
    BY <1>1, <2>2, <2>4 DEF IInv, BaseInv
<1> QED
  BY <1>0, <1>2, <1>3, StepCases

-----------------------------------------------------------------------------
(***************************************************************************)
(* The facts on finite sets that the proofs need, stated of the            *)
(* definitions of module FiniteSets written out.  The library's theorems   *)
(* on them would be in the way of every step of a proof, so that they are  *)
(* brought in only at the end of this module, where FiniteFacts is shown   *)
(* to hold.                                                                *)
(***************************************************************************)
IsFin(S) == \E l \in Seq(S) : \A x \in S : \E n \in 1..Len(l) : l[n] = x

SizeOf(S) ==
  LET CS[T \in SUBSET S] == IF T = {} THEN 0 ELSE 1 + CS[T \ {CHOOSE x : x \in T}]
  IN  CS[S]

FiniteFacts ==
  /\ \A S : IsFin(S) => SizeOf(S) \in Nat
  /\ IsFin({}) /\ \A S : IsFin(S) => (SizeOf(S) = 0 <=> S = {})
  /\ \A S, x : IsFin(S) =>
       /\ IsFin(S \cup {x})
       /\ SizeOf(S \cup {x}) = IF x \in S THEN SizeOf(S) ELSE SizeOf(S) + 1
  /\ \A S : IsFin(S) => \A T \in SUBSET S :
       IsFin(T) /\ SizeOf(T) <= SizeOf(S) /\ (SizeOf(S) = SizeOf(T) => S = T)
  /\ \A a, b \in Int : IsFin(a..b) /\ SizeOf(a..b) = IF a > b THEN 0 ELSE b - a + 1

LEMMA FinIs == \A S : IsFiniteSet(S) <=> IsFin(S)
BY Zenon DEF IsFiniteSet, IsFin

LEMMA SizeIs == \A S : Cardinality(S) = SizeOf(S)
BY Zenon DEF Cardinality, SizeOf

\* Sizes are numbers.
LEMMA SizeIsNat ==
  ASSUME FiniteFacts, NEW S, IsFiniteSet(S)
  PROVE  Cardinality(S) \in Nat
BY Zenon, FinIs, SizeIs DEF FiniteFacts

\* The empty set is the one with no element.
LEMMA SizeOfEmpty ==
  ASSUME FiniteFacts
  PROVE  /\ IsFiniteSet({}) /\ Cardinality({}) = 0
         /\ \A S : IsFiniteSet(S) => (Cardinality(S) = 0 <=> S = {})
BY Zenon, FinIs, SizeIs DEF FiniteFacts

\* One more element.
LEMMA SizePlusOne ==
  ASSUME FiniteFacts, NEW S, NEW x, IsFiniteSet(S)
  PROVE  /\ IsFiniteSet(S \cup {x})
         /\ Cardinality(S \cup {x}) = IF x \in S THEN Cardinality(S) ELSE Cardinality(S) + 1
BY Zenon, FinIs, SizeIs DEF FiniteFacts

\* A part is finite, and smaller unless it is the whole.
LEMMA SizeOfPart ==
  ASSUME FiniteFacts, NEW S, IsFiniteSet(S), NEW T \in SUBSET S
  PROVE  /\ IsFiniteSet(T) /\ Cardinality(T) <= Cardinality(S)
         /\ Cardinality(S) = Cardinality(T) => S = T
BY Zenon, FinIs, SizeIs DEF FiniteFacts

\* Intervals.
LEMMA SizeOfInterval ==
  ASSUME FiniteFacts, NEW a \in Int, NEW b \in Int
  PROVE  IsFiniteSet(a..b) /\ Cardinality(a..b) = IF a > b THEN 0 ELSE b - a + 1
BY Zenon, FinIs, SizeIs DEF FiniteFacts

LEMMA FreeIsCounted ==
  ASSUME FiniteFacts, IInv
  PROVE  FreeCount
<1>1. FreeFrames = IF F = 0 THEN {} ELSE (FP - F)..FP - 1
  BY FreeSet DEF IInv
<1>2. F \in Nat /\ F <= FP /\ FP \in Nat
  BY Sizes DEF IInv, FrameInv
<1>3. CASE F = 0
  BY <1>1, <1>3, SizeOfEmpty DEF FreeCount, F
<1>4. CASE F # 0
  <2>1. Cardinality((FP - F)..FP - 1) = F
    BY <1>2, <1>4, SizeOfInterval
  <2> QED
    BY <1>1, <1>4, <2>1 DEF FreeCount, F
<1> QED
  BY <1>3, <1>4

-----------------------------------------------------------------------------
(* If the pages fit into the frames                                        *)

LEMMA UsedFinite ==
  ASSUME FiniteFacts
  PROVE  /\ IsFiniteSet(Used) /\ Cardinality(Used) \in Nat
         /\ Used # VPNs => Cardinality(Used) < VM_PAGES
<1>1. IsFiniteSet(VPNs) /\ Cardinality(VPNs) = VM_PAGES
  BY Sizes, SizeOfInterval
<1>2. Used \in SUBSET VPNs
  BY DEF Used
<1>3. IsFiniteSet(Used) /\ Cardinality(Used) <= VM_PAGES
      /\ (Cardinality(VPNs) = Cardinality(Used) => VPNs = Used)
  BY <1>1, <1>2, SizeOfPart
<1>4. Cardinality(Used) \in Nat
  BY <1>3, SizeIsNat
<1> QED
  BY <1>1, <1>3, <1>4, Sizes

LEMMA InitPages ==
  ASSUME FiniteFacts, Init
  PROVE  PagesInv
<1>1. Used = {}
  BY DEF Init, Used
<1>2. F = FP - PT
  BY Zenon DEF Init, F, FP, PT
<1> QED
  BY <1>1, <1>2, SizeOfEmpty, Sizes DEF PagesInv

LEMMA NextPages ==
  ASSUME FiniteFacts, VM_PAGES <= FP - PT, IInv, PagesInv, [Next]_vars
  PROVE  PagesInv'
<1>0. BaseInv /\ FrameInv /\ F \in 0..FP - PT
  BY DEF IInv, FrameInv
<1>1. CASE UNCHANGED <<allocVars, page_table>>
  BY <1>1 DEF PagesInv, Used, allocVars, F, FP, PT
<1>2. CASE Allocates /\ VPN \in VPNs
  <2>1. PICK i \in DOMAIN page_map :
          page_alloc(i) /\ page_table' = [page_table EXCEPT ![VPN] = page_map'[i].frame]
    BY Zenon, <1>2 DEF Allocates
  <2>2. VPN \notin Used
    BY <1>2 DEF Allocates, Used
  <2>3. F # 0
    <3>1. Cardinality(Used) < VM_PAGES
      BY <1>2, <2>2, UsedFinite
    <3> QED
      BY <1>0, <3>1, UsedFinite, Sizes DEF PagesInv
  <2>4. i = FP - F /\ i \in Frames /\ F' = F - 1 /\ F \in Nat /\ page_map'[i].frame = i
    BY <1>2, <2>1, <2>3, TakeStep
  <2>5. /\ page_table'[VPN] = FP - F
        /\ \A v \in VPNs \ {VPN} : page_table'[v] = page_table[v]
    BY <1>0, <1>2, <2>1, <2>4 DEF BaseInv
  <2>6. Used' = Used \cup {VPN}
    <3>1. FP - F # NoFrame
      BY <2>4, Sizes
    <3> QED
      BY <1>2, <2>5, <3>1 DEF Used, VPNs
  <2>7. Cardinality(Used') = Cardinality(Used) + 1
    BY Zenon, <2>2, <2>6, UsedFinite, SizePlusOne
  <2>8. Cardinality(Used') = FP - PT - F'
    BY <1>0, <2>4, <2>7, UsedFinite, Sizes DEF PagesInv
  <2>9. FP - F \in PT..FP - F' - 1
    BY <1>0, <2>4, Sizes
  <2>10. \A v \in Used : page_table'[v] = page_table[v] /\ page_table[v] \in PT..FP - F - 1
    BY <2>2, <2>5 DEF PagesInv, Used
  <2>11. \A v \in Used : page_table'[v] \in PT..FP - F' - 1 /\ page_table'[v] # FP - F
    BY <1>0, <2>4, <2>10, Sizes
  <2>12. \A v \in Used' : page_table'[v] \in PT..FP - F' - 1
    BY <2>5, <2>6, <2>9, <2>11
  <2>13. \A v, w \in Used' : page_table'[v] = page_table'[w] => v = w
    BY <2>5, <2>6, <2>10, <2>11 DEF PagesInv
  <2> QED
    BY <2>8, <2>12, <2>13 DEF PagesInv, FP, PT
<1> QED
  BY <1>0, <1>1, <1>2, StepCases

-----------------------------------------------------------------------------
(* The clock                                                               *)

LEMMA InitKept ==
  ASSUME Init
  PROVE  PageTableKept
<1> SUFFICES ASSUME NEW u \in Swap, ~page_map[u].avail PROVE FALSE
  BY DEF PageTableKept
<1>1. page_map[u] = FrameAfterInit(u)
  BY DEF Init
<1>2. u \in Int /\ PAGE_TABLE_PAGES \in Int /\ ~(u < PAGE_TABLE_PAGES)
  BY MemoryAssumption DEF Swap
<1>3. FrameAfterInit(u).avail = TRUE
  BY <1>2 DEF FrameAfterInit
<1> QED
  BY <1>1, <1>3

LEMMA NextKept ==
  ASSUME IInv, PageTableKept, [Next]_vars
  PROVE  PageTableKept'
<1>0. BaseInv /\ \A j \in Frames \cup Swap : page_map[j] \in Entries
  BY DEF IInv, BaseInv
<1>1. CASE UNCHANGED <<allocVars, page_table>>
  BY <1>1 DEF PageTableKept, allocVars
<1>2. CASE Allocates /\ VPN \in VPNs
  <2>1. PICK i \in DOMAIN page_map : page_alloc(i)
    BY Zenon, <1>2 DEF Allocates
  <2>2. CASE i \in FreeFrames /\ TakeFrame(i)
    <3>1. page_map' = [page_map EXCEPT ![i] =
                         [@ EXCEPT !.VPN = VPN, !.pid = pid, !.avail = FALSE,
                                   !.pinned = FALSE, !.R = TRUE]]
      BY <2>2 DEF TakeFrame
    <3>2. i \in Frames /\ i \notin Swap
      <4>1. page_alloc_ptr \in Nat
        BY Sizes DEF IInv, FrameInv
      <4> QED
        BY <2>2, <4>1, Sizes DEF FreeFrames, FP
    <3>3. /\ \A j \in Swap : page_map'[j] = page_map[j]
          /\ \A j \in Frames : page_map'[j].pinned => page_map[j].pinned
      BY <1>0, <3>1, <3>2 DEF BaseInv, Entries
    <3> QED
      BY <3>3 DEF PageTableKept
  <2>3. CASE \E victim \in Frames, u \in Swap : Evict(victim, u)
    <3>1. PICK victim \in Frames, u \in Swap : Evict(victim, u)
      BY <2>3
    <3>2. page_map' = [j \in Frames \cup Swap |->
       IF j = u THEN [frame |-> victim, VPN |-> VPN, pid |-> pid, avail |-> FALSE,
                      pinned |-> FALSE, R |-> TRUE]
       ELSE IF j \in Frames /\ Passed(j, victim) THEN [page_map[j] EXCEPT !.R = FALSE]
       ELSE page_map[j]]
      BY <3>1 DEF Evict
    <3>3. u \notin Frames /\ ~page_map[victim].pinned
      BY <3>1, Sizes DEF Evict, IsVictim, Unpinned, Unreferenced
    <3>4. /\ page_map'[u].frame = victim
          /\ \A j \in Swap \ {u} : page_map'[j] = page_map[j]
          /\ \A j \in Frames : page_map'[j].pinned = page_map[j].pinned
      <4>1. page_map'[u].frame = victim
        BY Zenon, <3>2
      <4>2. \A j \in Swap \ {u} : page_map'[j] = page_map[j]
        BY Zenon, <3>2, Sizes
      <4>3. \A j \in Frames : page_map'[j].pinned = page_map[j].pinned
        BY Zenon, <1>0, <3>2, <3>3 DEF Entries
      <4> QED
        BY <4>1, <4>2, <4>3
    <3> QED
      BY <3>3, <3>4 DEF PageTableKept
  <2> QED
    <3>1. FreeFrames # {} /\ i = Min(FreeFrames) => i \in FreeFrames
      BY FirstFree, FreeSet, Sizes DEF IInv, FrameInv
    <3> QED
      BY Zenon, <2>1, <2>2, <2>3, <3>1 DEF page_alloc
<1> QED
  BY <1>0, <1>1, <1>2, StepCases

(* For every size of the memory, when the frames have run out as well: the *)
(* entry of a unit of the swap area that is in use names a frame, and the  *)
(* clock has not taken it from the page table, whose frames are pinned.    *)
THEOREM ClockSparesPageTable == Spec => []PageTableKept
<1>1. Init => IInv /\ PageTableKept
  BY InitIInv, InitKept
<1>2. IInv /\ PageTableKept /\ [Next]_vars => IInv' /\ PageTableKept'
  BY NextIInv, NextKept
<1> QED
  BY <1>1, <1>2, PTL DEF Spec

-----------------------------------------------------------------------------
(* The TLB of one process                                                  *)

\* An entry that has been written is of the process, tlb_table knows it, one of
\* its halves is valid, and the halves that are valid say what tlb_table and the
\* page table say.  (What tlb_table has for the other half is left over from an
\* earlier use of the entry.)
EntryInv(i) ==
  \/ tlb[i].VPN2 = NoVPN2 /\ tlb_table[i].VPN2 = NoVPN2
  \/ /\ tlb[i].VPN2 # NoVPN2 /\ tlb_table[i].VPN2 = tlb[i].VPN2
     /\ tlb[i].asid = pid /\ tlb_table[i].pid = pid
     /\ \E h \in 1..2 : tlb[i].lo[h] # NoFrame
     /\ \A h \in 1..2 : tlb[i].lo[h] # NoFrame =>
          /\ tlb_table[i].PFN[h] = tlb[i].lo[h]
          /\ \A v \in VPNs : v \div 2 = tlb[i].VPN2 /\ HalfOf(v) = h
               => page_table[v] = tlb[i].lo[h]

TlbTypes ==
  /\ tlb \in [TlbIndex -> [VPN2 : Int, asid : Int, lo : [1..2 -> Int]]]
  /\ tlb_table \in [TlbIndex -> [VPN2 : Int, PFN : [1..2 -> Int], pid : Int]]
  /\ tlb_entry_index_ptr \in TlbIndex

\* No entry of page_map stands for the empty PTE.
NamesFrames == \A k \in Frames \cup Swap : page_map[k].frame # NoFrame

TlbInv ==
  /\ asid = pid /\ TlbTypes /\ NamesFrames
  /\ \A i \in TlbIndex : EntryInv(i)
  /\ \A i, j \in TlbIndex :
       tlb[i].VPN2 = tlb[j].VPN2 /\ tlb[i].VPN2 # NoVPN2 => i = j

LEMMA Halves ==
  /\ \A v \in VPNs : v \div 2 \in Int /\ v \div 2 # NoVPN2 /\ HalfOf(v) \in 1..2
  /\ \A v, w \in VPNs : v \div 2 = w \div 2 /\ HalfOf(v) = HalfOf(w) => v = w
  /\ 0 \in TlbIndex /\ TLB_ENTRIES_NUM \in Nat /\ TLB_ENTRIES_NUM > 0
BY MemoryAssumption DEF VPNs, NoVPN2, HalfOf, TlbIndex

LEMMA InitTlb ==
  ASSUME NEW p, Pids = {p}, Init
  PROVE  TlbInv
<1>1. p \in Int /\ pid = p
  BY Sizes DEF Init, pid
<1>2. asid = pid
  <2>1. Max({p}) = CHOOSE x \in {p} : \A y \in {p} : x >= y
    BY Zenon DEF Max
  <2>2. p >= p
    BY <1>1
  <2>3. Max({p}) = p
    BY <2>1, <2>2
  <2> QED
    BY <1>1, <2>3 DEF Init
<1>3. TlbTypes
  BY Halves DEF Init, fill_tlb, TlbTypes, NoVPN2, NoFrame, PageZero
<1>4. NamesFrames
  <2>1. \A i \in Frames \cup Swap : page_map[i] = FrameAfterInit(i)
    BY DEF Init
  <2>2. \A i \in Frames : i # NoFrame
    BY Sizes
  <2>3. \A i \in Frames \cup Swap : i < PT => i \in Frames
    BY Sizes, MemoryAssumption DEF Swap, FP, PT
  <2>4. ASSUME NEW i \in Frames \cup Swap PROVE page_map[i].frame # NoFrame
    <3>0. i \in Int /\ PAGE_TABLE_PAGES \in Int
      BY Sizes, MemoryAssumption DEF PT, Swap
    <3>00. page_map[i] = FrameAfterInit(i)
      BY Zenon, <2>1
    <3>1. CASE i < PAGE_TABLE_PAGES
      <4>1. page_map[i].frame = i
        BY <3>0, <3>00, <3>1 DEF FrameAfterInit
      <4> QED
        BY <2>2, <2>3, <3>1, <4>1 DEF PT
    <3>2. CASE ~(i < PAGE_TABLE_PAGES)
      <4>1. PICK f : f = IF i \in Frames THEN i ELSE PageZero
        BY Zenon
      <4>2. f # NoFrame
        BY <2>2, <4>1 DEF PageZero, NoFrame
      <4>3. page_map[i] = [frame |-> f, VPN |-> 0, pid |-> 0, avail |-> TRUE,
                           pinned |-> FALSE, R |-> FALSE]
        BY Zenon, <3>00, <3>2, <4>1 DEF FrameAfterInit
      <4> QED
        BY <4>2, <4>3
    <3> QED
      BY <3>1, <3>2
  <2> QED
    BY <2>4 DEF NamesFrames
<1>5. \A i \in TlbIndex : tlb[i].VPN2 = NoVPN2 /\ tlb_table[i].VPN2 = NoVPN2
  BY DEF Init, fill_tlb
<1> QED
  BY <1>2, <1>3, <1>4, <1>5 DEF TlbInv, EntryInv

\* page_alloc keeps the frames of page_map's entries, or gives the entry of a
\* unit of the swap area the frame of the victim.
LEMMA AllocNames ==
  ASSUME IInv, NamesFrames, [Next]_vars
  PROVE  NamesFrames'
<1>0. BaseInv
  BY DEF IInv
<1>1. CASE UNCHANGED <<allocVars, page_table>>
  BY <1>1 DEF NamesFrames, allocVars
<1>2. CASE Allocates /\ VPN \in VPNs
  <2>1. PICK i \in DOMAIN page_map : page_alloc(i)
    BY Zenon, <1>2 DEF Allocates
  <2>2. \A j \in Frames \cup Swap : page_map[j] \in Entries /\ page_map[j].frame # NoFrame
    BY <1>0 DEF BaseInv, NamesFrames
  <2>3. CASE TakeFrame(i)
    <3>1. page_map' = [page_map EXCEPT ![i] =
                         [@ EXCEPT !.VPN = VPN, !.pid = pid, !.avail = FALSE,
                                   !.pinned = FALSE, !.R = TRUE]]
      BY <2>3 DEF TakeFrame
    <3>2. \A j \in Frames \cup Swap : page_map'[j].frame = page_map[j].frame
      BY Zenon, <1>0, <2>2, <3>1 DEF BaseInv, Entries
    <3> QED
      BY <2>2, <3>2 DEF NamesFrames
  <2>4. CASE \E victim \in Frames, u \in Swap : Evict(victim, u)
    <3>1. PICK victim \in Frames, u \in Swap : Evict(victim, u)
      BY <2>4
    <3>2. page_map' = [j \in Frames \cup Swap |->
       IF j = u THEN [frame |-> victim, VPN |-> VPN, pid |-> pid, avail |-> FALSE,
                      pinned |-> FALSE, R |-> TRUE]
       ELSE IF j \in Frames /\ Passed(j, victim) THEN [page_map[j] EXCEPT !.R = FALSE]
       ELSE page_map[j]]
      BY <3>1 DEF Evict
    <3>3. \A j \in Frames \cup Swap :
            page_map'[j].frame = victim \/ page_map'[j].frame = page_map[j].frame
      BY Zenon, <2>2, <3>2 DEF Entries
    <3>4. victim # NoFrame
      BY Sizes
    <3> QED
      BY <2>2, <3>3, <3>4 DEF NamesFrames
  <2> QED
    BY Zenon, <2>1, <2>3, <2>4 DEF page_alloc
<1> QED
  BY <1>0, <1>1, <1>2, StepCases

\* An entry is written for the page of the access, which is in no other entry.
LEMMA WriteKeeps ==
  ASSUME TlbInv, IInv, VPN \in VPNs, UNCHANGED <<current_running, access>>,
         NEW i \in TlbIndex, NEW lo \in [1..2 -> Int], WriteTlb(i, lo),
         lo[Half] # NoFrame, page_table'[VPN] = lo[Half],
         \A v \in VPNs \ {VPN} : page_table'[v] = page_table[v],
         \A h \in 1..2 : h # Half /\ lo[h] # NoFrame =>
           /\ tlb_table[i].PFN[h] = lo[h]
           /\ \A v \in VPNs : v \div 2 = VPN2 /\ HalfOf(v) = h => page_table[v] = lo[h],
         \A j \in TlbIndex \ {i} : tlb[j].VPN2 # VPN2,
         NamesFrames', tlb_entry_index_ptr' \in TlbIndex
  PROVE  TlbInv'
<1>1. /\ VPN2 \in Int /\ VPN2 # NoVPN2 /\ Half \in 1..2 /\ pid \in Int
      /\ VPN \div 2 = VPN2 /\ HalfOf(VPN) = Half
  BY Halves, Sizes DEF VPN2, Half, IInv, BaseInv, pid
<1>2. pid' = pid /\ asid' = pid
  BY DEF WriteTlb, pid
<1>3. /\ tlb' = [tlb EXCEPT ![i] = [VPN2 |-> VPN2, asid |-> pid, lo |-> lo]]
      /\ tlb_table' = [tlb_table EXCEPT ![i] =
           [VPN2 |-> VPN2, pid |-> pid, PFN |-> [@.PFN EXCEPT ![Half] = lo[Half]]]]
  BY DEF WriteTlb
<1>4. TlbTypes'
  <2>1. tlb' \in [TlbIndex -> [VPN2 : Int, asid : Int, lo : [1..2 -> Int]]]
    BY <1>1, <1>3 DEF TlbInv, TlbTypes
  <2>2. [tlb_table[i].PFN EXCEPT ![Half] = lo[Half]] \in [1..2 -> Int]
    BY <1>1 DEF TlbInv, TlbTypes
  <2>3. tlb_table' \in [TlbIndex -> [VPN2 : Int, PFN : [1..2 -> Int], pid : Int]]
    BY <1>1, <1>3, <2>2 DEF TlbInv, TlbTypes
  <2> QED
    BY <2>1, <2>3 DEF TlbTypes
<1>5. /\ tlb'[i].VPN2 = VPN2 /\ tlb'[i].asid = pid /\ tlb'[i].lo = lo
      /\ \A j \in TlbIndex \ {i} : tlb'[j] = tlb[j]
  BY <1>3 DEF TlbInv, TlbTypes
<1>6. /\ tlb_table'[i].VPN2 = VPN2 /\ tlb_table'[i].pid = pid
      /\ \A h \in 1..2 : tlb_table'[i].PFN[h] = IF h = Half THEN lo[h]
                                                ELSE tlb_table[i].PFN[h]
      /\ \A j \in TlbIndex \ {i} : tlb_table'[j] = tlb_table[j]
  BY <1>1, <1>3 DEF TlbInv, TlbTypes
<1>7. EntryInv(i)'
  <2>1. \A h \in 1..2 : lo[h] # NoFrame =>
          /\ tlb_table'[i].PFN[h] = lo[h]
          /\ \A v \in VPNs : v \div 2 = VPN2 /\ HalfOf(v) = h => page_table'[v] = lo[h]
    <3> SUFFICES ASSUME NEW h \in 1..2, lo[h] # NoFrame
                 PROVE  /\ tlb_table'[i].PFN[h] = lo[h]
                        /\ \A v \in VPNs : v \div 2 = VPN2 /\ HalfOf(v) = h
                             => page_table'[v] = lo[h]
      BY Zenon
    <3>1. CASE h = Half
      BY <1>1, <1>6, <3>1, Halves
    <3>2. CASE h # Half
      <4>1. \A v \in VPNs : HalfOf(v) = h => v # VPN
        BY Zenon, <1>1, <3>2
      <4> QED
        BY Zenon, <1>6, <3>2, <4>1
    <3> QED
      BY <3>1, <3>2
  <2> QED
    BY <1>1, <1>2, <1>5, <1>6, <2>1 DEF EntryInv
<1>8. ASSUME NEW j \in TlbIndex \ {i} PROVE EntryInv(j)'
  <2>1. tlb'[j] = tlb[j] /\ tlb_table'[j] = tlb_table[j] /\ tlb[j].VPN2 # VPN2
    BY <1>5, <1>6
  <2>2. \A v \in VPNs : v \div 2 = tlb[j].VPN2 => page_table'[v] = page_table[v]
    BY Zenon, <1>1, <2>1
  <2>3. EntryInv(j)
    BY DEF TlbInv
  <2> QED
    BY <1>2, <2>1, <2>2, <2>3 DEF EntryInv
<1>9. \A j \in TlbIndex : EntryInv(j)'
  BY Zenon, <1>7, <1>8
<1>10. \A j, k \in TlbIndex :
         tlb'[j].VPN2 = tlb'[k].VPN2 /\ tlb'[j].VPN2 # NoVPN2 => j = k
  BY <1>5 DEF TlbInv
<1> QED
  BY Zenon, <1>2, <1>4, <1>9, <1>10 DEF TlbInv

\* Exceptions of one process.  A refill exception takes the next entry; the page
\* is in none.
LEMMA RefillTlb ==
  ASSUME TlbInv, IInv, VPN \in VPNs, UNCHANGED <<current_running, access>>,
         NEW f \in Int, f # NoFrame, Refill(f), NamesFrames',
         page_table'[VPN] = f,
         \A v \in VPNs \ {VPN} : page_table'[v] = page_table[v],
         Matches(VPN) = {}
  PROVE  TlbInv'
<1>1. VPN2 # NoVPN2 /\ Half \in 1..2 /\ VPN \div 2 = VPN2
  BY Halves DEF VPN2, Half
<1>2. PICK i \in TlbIndex : i = (tlb_entry_index_ptr + 1) % TLB_ENTRIES_NUM
  <2>1. tlb_entry_index_ptr + 1 \in Int
    BY Halves DEF TlbInv, TlbTypes, TlbIndex
  <2>2. \A a \in Int : a % TLB_ENTRIES_NUM \in 0..TLB_ENTRIES_NUM-1
    BY Halves
  <2> QED
    BY Zenon, <2>1, <2>2 DEF TlbIndex
<1>3. PICK lo : lo = OneHalf(f)
  OBVIOUS
<1>4. lo \in [1..2 -> Int] /\ \A h \in 1..2 : lo[h] = IF h = Half THEN f ELSE NoFrame
  BY <1>1, <1>3 DEF OneHalf, NoFrame
<1>5. tlb_entry_index_ptr' \in TlbIndex /\ WriteTlb(i, lo)
  BY Zenon, <1>2, <1>3 DEF Refill
<1>6. \A j \in TlbIndex : tlb[j].VPN2 # VPN2
  BY <1>1 DEF Matches, TlbInv, EntryInv
<1>7. lo[Half] = f /\ \A h \in 1..2 : h # Half => lo[h] = NoFrame
  BY <1>1, <1>4
<1> QED
  BY Zenon, <1>4, <1>5, <1>6, <1>7, WriteKeeps

\* An invalid exception completes the entry of the page's neighbour.
LEMMA InvalidTlb ==
  ASSUME TlbInv, IInv, VPN \in VPNs, UNCHANGED <<current_running, access>>,
         NEW f \in Int, f # NoFrame, NamesFrames', UNCHANGED tlb_entry_index_ptr,
         NEW m \in Matches(VPN), tlb[m].lo[Half] = NoFrame,
         WriteTlb(get_tlb_invalid_index,
                  [tlb_table[get_tlb_invalid_index].PFN EXCEPT ![Half] = f]),
         page_table'[VPN] = f,
         \A v \in VPNs \ {VPN} : page_table'[v] = page_table[v]
  PROVE  TlbInv'
<1>1. VPN2 # NoVPN2 /\ Half \in 1..2 /\ VPN \div 2 = VPN2
  BY Halves DEF VPN2, Half
<1>2. m \in TlbIndex /\ tlb[m].VPN2 = VPN2
  BY <1>1 DEF Matches
<1>3. /\ tlb_table[m].VPN2 = VPN2 /\ tlb_table[m].pid = pid
      /\ \A h \in 1..2 : h # Half =>
           /\ tlb[m].lo[h] # NoFrame /\ tlb_table[m].PFN[h] = tlb[m].lo[h]
           /\ \A v \in VPNs : v \div 2 = VPN2 /\ HalfOf(v) = h
                => page_table[v] = tlb[m].lo[h]
  BY <1>1, <1>2 DEF TlbInv, EntryInv
<1>4. \A j \in TlbIndex \ {m} : tlb[j].VPN2 # VPN2 /\ tlb_table[j].VPN2 # VPN2
  BY <1>1, <1>2 DEF TlbInv, EntryInv
<1>5. get_tlb_invalid_index = m
  <2>1. {i \in TlbIndex : tlb_table[i].VPN2 = VPN2 /\ tlb_table[i].pid = pid} = {m}
    BY Zenon, <1>2, <1>3, <1>4
  <2>2. m >= m /\ m <= m
    BY <1>2 DEF TlbIndex
  <2>3. Min({m}) = m
    BY Zenon, <2>2 DEF Min
  <2> QED
    BY Zenon, <2>1, <2>3 DEF get_tlb_invalid_index
<1>6. PICK lo : lo = [tlb_table[m].PFN EXCEPT ![Half] = f]
  BY Zenon
<1>7. /\ lo \in [1..2 -> Int] /\ lo[Half] = f
      /\ \A h \in 1..2 : h # Half => lo[h] = tlb_table[m].PFN[h]
  BY <1>1, <1>2, <1>6 DEF TlbInv, TlbTypes
<1>8. WriteTlb(m, lo) /\ tlb_entry_index_ptr' \in TlbIndex
  BY Zenon, <1>5, <1>6 DEF TlbInv, TlbTypes
<1>9. \A h \in 1..2 : h # Half /\ lo[h] # NoFrame =>
        /\ tlb_table[m].PFN[h] = lo[h]
        /\ \A v \in VPNs : v \div 2 = VPN2 /\ HalfOf(v) = h => page_table[v] = lo[h]
  BY Zenon, <1>3, <1>7
<1>10. \A j \in TlbIndex \ {m} : tlb[j].VPN2 # VPN2
  BY Zenon, <1>4
<1> QED
  BY Zenon, <1>2, <1>7, <1>8, <1>9, <1>10, WriteKeeps

LEMMA NextTlb ==
  ASSUME NEW p, Pids = {p}, IInv, TlbInv, [Next]_vars
  PROVE  TlbInv'
<1>0. BaseInv /\ IInv' /\ NamesFrames' /\ pid' = pid /\ pid = p
  <2>1. BaseInv /\ IInv'
    BY NextIInv DEF IInv
  <2>2. NamesFrames'
    BY AllocNames DEF TlbInv
  <2> QED
    BY <2>1, <2>2 DEF IInv, BaseInv, pid
<1>1. CASE UNCHANGED <<tlbVars, page_table>>
  <2>1. \A i \in TlbIndex : EntryInv(i)'
    BY <1>0, <1>1 DEF TlbInv, EntryInv, tlbVars
  <2> QED
    BY <1>0, <1>1, <2>1 DEF TlbInv, TlbTypes, tlbVars
<1>2. CASE Access /\ handle_tlb_exception_helper
  <2>1. VPN \in VPNs /\ page_table \in [VPNs -> Int]
    BY <1>0, <1>2 DEF Access, BaseInv, VPN, pid
  <2>2. ASSUME NEW i \in DOMAIN page_map,
               page_table' = [page_table EXCEPT ![VPN] = page_map'[i].frame]
        PROVE  /\ page_map'[i].frame \in Int /\ page_map'[i].frame # NoFrame
               /\ page_table'[VPN] = page_map'[i].frame
               /\ \A v \in VPNs \ {VPN} : page_table'[v] = page_table[v]
    <3>1. i \in Frames \cup Swap
      BY <1>0 DEF BaseInv
    <3>2. page_map'[i].frame \in Int /\ page_map'[i].frame # NoFrame
      BY <1>0, <3>1 DEF IInv, BaseInv, Entries, NamesFrames
    <3> QED
      BY <2>1, <2>2, <3>2
  <2>3. CASE Matches(VPN) = {} /\ HandleRefill
    <3>1. UNCHANGED <<current_running, access>>
      BY Zenon, <2>3 DEF HandleRefill, Done
    <3>2. CASE /\ page_table[VPN] # NoFrame /\ Refill(page_table[VPN])
               /\ UNCHANGED <<allocVars, page_table>>
      <4>1. PICK f \in Int : f = page_table[VPN]
        BY <2>1
      <4>2. f # NoFrame /\ Refill(f) /\ page_table' = page_table /\ page_table'[VPN] = f
        BY Zenon, <3>2, <4>1
      <4>3. \A v \in VPNs \ {VPN} : page_table'[v] = page_table[v]
        BY Zenon, <4>2
      <4> QED
        BY Zenon, <1>0, <2>1, <2>3, <3>1, <4>1, <4>2, <4>3, RefillTlb
    <3>3. CASE \E i \in DOMAIN page_map :
                 /\ page_table' = [page_table EXCEPT ![VPN] = page_map'[i].frame]
                 /\ Refill(page_map'[i].frame)
      <4>1. PICK i \in DOMAIN page_map :
                 /\ page_table' = [page_table EXCEPT ![VPN] = page_map'[i].frame]
                 /\ Refill(page_map'[i].frame)
        BY Zenon, <3>3
      <4>2. PICK f : f = page_map'[i].frame
        OBVIOUS
      <4>3. /\ f \in Int /\ f # NoFrame /\ page_table'[VPN] = f /\ Refill(f)
            /\ \A v \in VPNs \ {VPN} : page_table'[v] = page_table[v]
        BY Zenon, <2>2, <4>1, <4>2
      <4> QED
        BY Zenon, <1>0, <2>1, <2>3, <3>1, <4>3, RefillTlb
    <3>4. \/ UNCHANGED <<tlbVars, page_table>>
          \/ /\ page_table[VPN] # NoFrame /\ Refill(page_table[VPN])
             /\ UNCHANGED <<allocVars, page_table>>
          \/ \E i \in DOMAIN page_map :
                 /\ page_table' = [page_table EXCEPT ![VPN] = page_map'[i].frame]
                 /\ Refill(page_map'[i].frame)
      BY <2>3 DEF HandleRefill
    <3> QED
      BY <1>1, <3>2, <3>3, <3>4
  <2>4. CASE (\E i \in Matches(VPN) : tlb[i].lo[Half] = NoFrame) /\ HandleInvalid
    <3>1. UNCHANGED <<current_running, access>>
      BY Zenon, <2>4 DEF HandleInvalid, Done
    <3>2. PICK m \in Matches(VPN) : tlb[m].lo[Half] = NoFrame
      BY <2>4
    <3>3. \/ UNCHANGED <<tlbVars, page_table>>
          \/ /\ \E k \in DOMAIN page_map :
                  /\ page_table' = [page_table EXCEPT ![VPN] = page_map'[k].frame]
                  /\ WriteTlb(get_tlb_invalid_index,
                       [tlb_table[get_tlb_invalid_index].PFN
                          EXCEPT ![Half] = page_map'[k].frame])
             /\ UNCHANGED tlb_entry_index_ptr
      BY Zenon, <2>4 DEF HandleInvalid
    <3>4. ASSUME NEW k \in DOMAIN page_map,
                 page_table' = [page_table EXCEPT ![VPN] = page_map'[k].frame],
                 WriteTlb(get_tlb_invalid_index,
                       [tlb_table[get_tlb_invalid_index].PFN
                          EXCEPT ![Half] = page_map'[k].frame]),
                 UNCHANGED tlb_entry_index_ptr
          PROVE  TlbInv'
      <4>1. PICK f : f = page_map'[k].frame
        OBVIOUS
      <4>2. /\ f \in Int /\ f # NoFrame /\ page_table'[VPN] = f
            /\ \A v \in VPNs \ {VPN} : page_table'[v] = page_table[v]
        BY Zenon, <2>2, <3>4, <4>1
      <4>3. WriteTlb(get_tlb_invalid_index,
                     [tlb_table[get_tlb_invalid_index].PFN EXCEPT ![Half] = f])
        BY Zenon, <3>4, <4>1
      <4> QED
        BY Zenon, <1>0, <2>1, <3>1, <3>2, <3>4, <4>2, <4>3, InvalidTlb
    <3> QED
      BY Zenon, <1>1, <3>3, <3>4
  <2> QED
    BY Zenon, <1>2, <2>3, <2>4 DEF handle_tlb_exception_helper
<1>3. CASE Access /\ ~handle_tlb_exception_helper
  BY <1>1, <1>3 DEF Access
<1>4. CASE (\E v \in VPNs : Touch(v)) \/ (\E q \in Pids : Switch(q)) \/ UNCHANGED vars
  BY <1>1, <1>4 DEF Touch, Switch, vars
<1> QED
  BY Zenon, <1>2, <1>3, <1>4 DEF Next

(* For every size of the memory, of the swap area and of the TLB, when one *)
(* process runs: no page has two entries in the TLB, and what the TLB says *)
(* of a page is what page_table says, through refills that reuse an entry, *)
(* invalid exceptions that complete one from the kernel's copy tlb_table,  *)
(* and evictions.                                                          *)
THEOREM TlbCoherent ==
  ASSUME NEW p, Pids = {p}
  PROVE  Spec => [](TlbAgrees /\ TlbUnique)
<1>1. TlbInv => TlbAgrees /\ TlbUnique
  <2> SUFFICES ASSUME TlbInv PROVE TlbAgrees /\ TlbUnique
    OBVIOUS
  <2>1. TlbAgrees
    BY Halves DEF TlbInv, EntryInv, TlbAgrees
  <2>2. TlbUnique
    BY Zenon DEF TlbInv, TlbUnique
  <2> QED
    BY <2>1, <2>2
<1>2. Init => IInv /\ TlbInv
  BY Zenon, InitIInv, InitTlb
<1>3. IInv /\ TlbInv /\ [Next]_vars => IInv' /\ TlbInv'
  BY Zenon, NextIInv, NextTlb
<1> QED
  BY <1>1, <1>2, <1>3, PTL DEF Spec

-----------------------------------------------------------------------------
(* The library, and the theorems                                           *)
LOCAL INSTANCE FiniteSetTheorems

LEMMA FiniteFactsHold == FiniteFacts
<1>1. \A S : IsFiniteSet(S) <=> IsFin(S)
  BY Zenon DEF IsFiniteSet, IsFin
<1>2. \A S : Cardinality(S) = SizeOf(S)
  BY Zenon DEF Cardinality, SizeOf
<1>3. \A S : IsFin(S) => SizeOf(S) \in Nat
  BY Zenon, <1>1, <1>2, FS_CardinalityType
<1>4. IsFin({}) /\ \A S : IsFin(S) => (SizeOf(S) = 0 <=> S = {})
  BY Zenon, <1>1, <1>2, FS_EmptySet
<1>5. \A S, x : IsFin(S) =>
        /\ IsFin(S \cup {x})
        /\ SizeOf(S \cup {x}) = IF x \in S THEN SizeOf(S) ELSE SizeOf(S) + 1
  BY Zenon, <1>1, <1>2, FS_AddElement
<1>6. \A S : IsFin(S) => \A T \in SUBSET S :
        IsFin(T) /\ SizeOf(T) <= SizeOf(S) /\ (SizeOf(S) = SizeOf(T) => S = T)
  BY Zenon, <1>1, <1>2, FS_Subset
<1>7. \A a, b \in Int : IsFin(a..b) /\ SizeOf(a..b) = IF a > b THEN 0 ELSE b - a + 1
  BY Zenon, <1>1, <1>2, FS_Interval
<1> QED
  BY Zenon, <1>3, <1>4, <1>5, <1>6, <1>7 DEF FiniteFacts

(* For every size of the memory: free_page_frame_num, on which the handler *)
(* of TLB exceptions decides whether it calls page_alloc, is the number of *)
(* frames that page_alloc's loop can still find, before and after frames   *)
(* run out and pages are evicted.                                          *)
THEOREM FreeCountExact == Spec => []FreeCount
<1>1. IInv => FreeCount
  BY FiniteFactsHold, FreeIsCounted
<1>2. Init => IInv
  BY InitIInv
<1>3. IInv /\ [Next]_vars => IInv'
  BY NextIInv
<1> QED
  BY <1>1, <1>2, <1>3, PTL DEF Spec

(* For every size of the memory and any number of processes, if the pages  *)
(* fit into the frames: no two pages share a frame and none is in a frame  *)
(* of the page table, whichever of the refill and invalid exceptions       *)
(* allocates them, although processes share page_table.                    *)
THEOREM FramesExclusive ==
  ASSUME VM_PAGES <= FRAME_PAGES - PAGE_TABLE_PAGES
  PROVE  Spec => []FrameOnce
<1>1. IInv /\ PagesInv => FrameOnce
  <2> SUFFICES ASSUME IInv, PagesInv PROVE FrameOnce
    OBVIOUS
  <2>1. \A v \in VPNs : page_table[v] \in Frames => v \in Used
    BY Sizes DEF Used
  <2>2. \A v \in Used : page_table[v] >= PT
    BY Sizes DEF PagesInv, IInv, FrameInv
  <2> QED
    BY <2>1, <2>2 DEF PagesInv, FrameOnce, Used, PT
<1>2. Init => IInv /\ PagesInv
  BY FiniteFactsHold, InitIInv, InitPages
<1>3. IInv /\ PagesInv /\ [Next]_vars => IInv' /\ PagesInv'
  BY FiniteFactsHold, NextIInv, NextPages DEF FP, PT
<1> QED
  BY <1>1, <1>2, <1>3, PTL DEF Spec

=============================================================================
