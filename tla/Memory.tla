------------------------------- MODULE Memory -------------------------------
(***************************************************************************)
(* The virtual memory of kernel/mm/memory.c: page frames, the page table,  *)
(* the TLB with the kernel's copy of it, and the handler of TLB            *)
(* exceptions.  The configuration is that of part 4 of the repository, in  *)
(* which main.c calls init_memory and programs run in mapped addresses.    *)
(*                                                                         *)
(* An address is its virtual page number; page VPN has the half VPN % 2 of *)
(* the TLB entry for VPN2 = VPN \div 2.  A page frame is its index.        *)
(***************************************************************************)
EXTENDS Integers, FiniteSets, FiniteSetsExt

CONSTANTS
  Pids,              \* of the processes
  VM_PAGES,          \* the pages that they use
  FRAME_PAGES, PAGE_TABLE_PAGES, SD_SWAP_UNIT_NUM, TLB_ENTRIES_NUM

ASSUME MemoryAssumption ==
  /\ Pids \subseteq Nat \ {0}
  /\ VM_PAGES \in Nat /\ SD_SWAP_UNIT_NUM \in Nat
  /\ TLB_ENTRIES_NUM \in Nat \ {0}
  /\ FRAME_PAGES \in Nat \ {0} /\ PAGE_TABLE_PAGES \in 0..FRAME_PAGES

VPNs == 0..VM_PAGES-1
Frames == 0..FRAME_PAGES-1
Swap == FRAME_PAGES..FRAME_PAGES+SD_SWAP_UNIT_NUM-1
TlbIndex == 0..TLB_ENTRIES_NUM-1
NoFrame == -1   \* an empty PTE, an invalid half of a TLB entry
PageZero == -2  \* the physical page 0: the paddr of a unit of the swap area
NoVPN2 == -1    \* 0xffff7, in no process's memory

VARIABLES
  page_map, free_page_frame_num, page_alloc_ptr, clock_ptr, swap_page_alloc_ptr,
  page_table,
  tlb, asid,      \* the TLB and the ASID field of EntryHi
  tlb_table, tlb_entry_index_ptr,
  current_running,
  access,         \* per process: the page of the access it is at, or none
  outcome         \* of the last access: a hit, or what the handler did

allocVars == <<page_map, free_page_frame_num, page_alloc_ptr, clock_ptr,
               swap_page_alloc_ptr>>
tlbVars == <<tlb, asid, tlb_table, tlb_entry_index_ptr>>
vars == <<allocVars, page_table, tlbVars, current_running, access, outcome>>

-----------------------------------------------------------------------------
\* The frames that set_up_page_table takes, the other ones, and the swap area.
FrameAfterInit(i) ==
  IF i < PAGE_TABLE_PAGES
  THEN [frame |-> i, VPN |-> 0, pid |-> 0, avail |-> FALSE, pinned |-> TRUE, R |-> TRUE]
  ELSE [frame |-> IF i \in Frames THEN i ELSE PageZero, VPN |-> 0, pid |-> 0,
        avail |-> TRUE, pinned |-> FALSE, R |-> FALSE]

\* Every entry is invalid.
fill_tlb ==
  /\ tlb = [i \in TlbIndex |->
              [VPN2 |-> NoVPN2, asid |-> 0, lo |-> <<NoFrame, NoFrame>>]]
  /\ tlb_table = [i \in TlbIndex |->
                    [VPN2 |-> NoVPN2, PFN |-> <<PageZero, PageZero>>, pid |-> 0]]

\* After init_memory, and do_spawn of the processes, the last of which has left
\* its pid in EntryHi.
Init ==
  /\ page_map = [i \in Frames \cup Swap |-> FrameAfterInit(i)]
  /\ free_page_frame_num = FRAME_PAGES - PAGE_TABLE_PAGES
  /\ page_alloc_ptr = PAGE_TABLE_PAGES % FRAME_PAGES
  /\ clock_ptr = 0 /\ swap_page_alloc_ptr = 0
  /\ page_table = [v \in VPNs |-> NoFrame]
  /\ fill_tlb
  /\ tlb_entry_index_ptr = 0
  /\ asid = Max(Pids)
  /\ current_running \in Pids
  /\ access = [p \in Pids |-> NoVPN2]
  /\ outcome = "none"

pid == current_running
VPN == access[pid]
VPN2 == VPN \div 2
HalfOf(v) == (v % 2) + 1
Half == HalfOf(VPN)

-----------------------------------------------------------------------------
\* The entries that the hardware finds for a page.  With several the outcome is
\* undefined: any of them.
Matches(v) == {i \in TlbIndex : tlb[i].VPN2 = v \div 2 /\ tlb[i].asid = asid}

\* Bug: odd and even are exchanged.
OtherHalf(f) == [<<NoFrame, NoFrame>> EXCEPT ![3 - Half] = f]

\* The entry for the current process, with what the handler leaves out invalid.
OneHalf(f) == [<<NoFrame, NoFrame>> EXCEPT ![Half] = f]

\* Bug: the search goes one too far back.
FromBefore == {i \in page_alloc_ptr-1..FRAME_PAGES-1 : i >= 0}

FreeFrames == {i \in page_alloc_ptr..FRAME_PAGES-1 : page_map[i].avail}

\* Bug: a frame is not marked as taken.
KeepsAvail(i) ==
  /\ page_map' = [page_map EXCEPT ![i] =
                    [@ EXCEPT !.VPN = VPN, !.pid = pid, !.pinned = FALSE,
                              !.R = TRUE]]
  /\ free_page_frame_num' =
       IF free_page_frame_num > 0 THEN free_page_frame_num - 1 ELSE 0
  /\ page_alloc_ptr' = (page_alloc_ptr + 1) % FRAME_PAGES
  /\ UNCHANGED <<clock_ptr, swap_page_alloc_ptr>>

\* Frame i becomes the page of the current access.
TakeFrame(i) ==
  /\ page_map' = [page_map EXCEPT ![i] =
                    [@ EXCEPT !.VPN = VPN, !.pid = pid, !.avail = FALSE,
                              !.pinned = FALSE, !.R = TRUE]]
  /\ free_page_frame_num' =
       IF free_page_frame_num > 0 THEN free_page_frame_num - 1 ELSE 0
  /\ page_alloc_ptr' = (page_alloc_ptr + 1) % FRAME_PAGES
  /\ UNCHANGED <<clock_ptr, swap_page_alloc_ptr>>

\* The distance of frame i from the hand of the clock.
Ahead(i) == (i - clock_ptr + FRAME_PAGES) % FRAME_PAGES

\* Where the hand stops: at the next frame that is neither pinned nor
\* referenced, or, when there is none in a whole round, which clears every R,
\* at the next one that is not pinned.
Unpinned == {i \in Frames : ~page_map[i].pinned}
Unreferenced == {i \in Unpinned : ~page_map[i].R}
IsVictim(i) ==
  LET candidates == IF Unreferenced # {} THEN Unreferenced ELSE Unpinned
  IN  i \in candidates /\ \A j \in candidates : Ahead(i) <= Ahead(j)
Passed(j, i) == Unreferenced = {} \/ Ahead(j) < Ahead(i)

\* The unit of the swap area: the next free one from the pointer on.
AheadSwap(u) == (u - FRAME_PAGES - swap_page_alloc_ptr + SD_SWAP_UNIT_NUM)
                  % SD_SWAP_UNIT_NUM
get_swap_free_index(u) ==
  /\ u \in Swap /\ page_map[u].avail
  /\ \A w \in Swap : page_map[w].avail => AheadSwap(u) <= AheadSwap(w)

\* The hand passes, and the entry of the swap unit is given the victim's frame.
\* Neither the PTE nor the TLB entry of the page that was there is touched.
Evict(i, u) ==
  /\ IsVictim(i) /\ get_swap_free_index(u)
  /\ page_map' = [j \in Frames \cup Swap |->
       IF j = u THEN [frame |-> i, VPN |-> VPN, pid |-> pid, avail |-> FALSE,
                      pinned |-> FALSE, R |-> TRUE]
       ELSE IF j \in Frames /\ Passed(j, i) THEN [page_map[j] EXCEPT !.R = FALSE]
       ELSE page_map[j]]
  /\ clock_ptr' = i
  /\ swap_page_alloc_ptr' = u - FRAME_PAGES
  /\ UNCHANGED <<free_page_frame_num, page_alloc_ptr>>

\* page_alloc, which returns i.  After an eviction it has no return statement,
\* and what the caller gets is what was on the stack: any index.
page_alloc(i) ==
  \/ FreeFrames # {} /\ i = Min(FreeFrames) /\ TakeFrame(i)
  \/ /\ FreeFrames = {}
     /\ i \in DOMAIN page_map
     /\ \E victim \in Frames, u \in Swap : Evict(victim, u)

\* The two loops of page_alloc that end only if there is something to find.
PageAllocEnds ==
  FreeFrames # {} \/ (Unpinned # {} /\ \E u \in Swap : page_map[u].avail)

-----------------------------------------------------------------------------
\* tlbwi of the entry at i, and the kernel's copy of it.
WriteTlb(i, lo) ==
  /\ tlb' = [tlb EXCEPT ![i] = [VPN2 |-> VPN2, asid |-> pid, lo |-> lo]]
  /\ asid' = pid
  /\ tlb_table' = [tlb_table EXCEPT ![i] =
       [VPN2 |-> VPN2, pid |-> pid, PFN |-> [@.PFN EXCEPT ![Half] = lo[Half]]]]

\* Bug: the entry that was there is not flushed and its other half stays.
RefillUnflushed(f) ==
  LET i == (tlb_entry_index_ptr + 1) % TLB_ENTRIES_NUM
  IN  /\ tlb_entry_index_ptr' = i
      /\ WriteTlb(i, [tlb[i].lo EXCEPT ![Half] = f])

\* The next entry gets the page, and nothing for the other half.
Refill(f) ==
  LET i == (tlb_entry_index_ptr + 1) % TLB_ENTRIES_NUM
  IN  /\ tlb_entry_index_ptr' = i
      /\ WriteTlb(i, OneHalf(f))

check_tlb_wrong_access ==
  \E i \in TlbIndex : tlb_table[i].VPN2 = VPN2 /\ tlb_table[i].pid # pid

\* No entry of the process: the function ends without a value, which is 0.
get_tlb_invalid_index ==
  LET found == {i \in TlbIndex : tlb_table[i].VPN2 = VPN2 /\ tlb_table[i].pid = pid}
  IN  IF found = {} THEN 0 ELSE Min(found)

Done(what) ==
  /\ outcome' = what
  /\ UNCHANGED <<current_running, access>>

\* The refill exception: no entry matches.
HandleRefill ==
  \/ /\ check_tlb_wrong_access
     /\ UNCHANGED <<allocVars, page_table, tlbVars>>
     /\ Done("refused")
  \/ /\ ~check_tlb_wrong_access /\ page_table[VPN] # NoFrame
     /\ Refill(page_table[VPN])
     /\ UNCHANGED <<allocVars, page_table>>
     /\ Done("filled")
  \/ /\ ~check_tlb_wrong_access /\ page_table[VPN] = NoFrame
     /\ free_page_frame_num # 0
     /\ \E i \in DOMAIN page_map :
          /\ page_alloc(i)
          /\ page_table' = [page_table EXCEPT ![VPN] = page_map'[i].frame]
          /\ Refill(page_map'[i].frame)
     /\ Done("filled")
  \/ /\ ~check_tlb_wrong_access /\ page_table[VPN] = NoFrame
     /\ free_page_frame_num = 0
     /\ UNCHANGED <<allocVars, page_table, tlbVars>>
     /\ Done("ignored")

\* The invalid exception: the matching entry has nothing for this half.
HandleInvalid ==
  LET i == get_tlb_invalid_index
  IN  \/ /\ page_table[VPN] = NoFrame /\ PageAllocEnds
         /\ \E k \in DOMAIN page_map :
              /\ page_alloc(k)
              /\ page_table' = [page_table EXCEPT ![VPN] = page_map'[k].frame]
              /\ WriteTlb(i, [tlb_table[i].PFN EXCEPT ![Half] = page_map'[k].frame])
         /\ UNCHANGED tlb_entry_index_ptr
         /\ Done("filled")
      \/ /\ page_table[VPN] = NoFrame /\ ~PageAllocEnds
         /\ UNCHANGED <<allocVars, page_table, tlbVars>>
         /\ Done("hung")
      \/ /\ page_table[VPN] # NoFrame
         /\ UNCHANGED <<allocVars, page_table, tlbVars>>
         /\ Done("ignored")

handle_tlb_exception_helper ==
  \/ Matches(VPN) = {} /\ HandleRefill
  \/ (\E i \in Matches(VPN) : tlb[i].lo[Half] = NoFrame) /\ HandleInvalid

-----------------------------------------------------------------------------
\* The current process comes to an access.
Touch(v) ==
  /\ outcome # "hung" /\ VPN = NoVPN2
  /\ access' = [access EXCEPT ![pid] = v]
  /\ UNCHANGED <<allocVars, page_table, tlbVars, current_running, outcome>>

\* The access is made: the TLB has the page, or the exception is handled and the
\* access will be made again.
Access ==
  /\ outcome # "hung" /\ VPN # NoVPN2
  /\ \/ /\ \E i \in Matches(VPN) : tlb[i].lo[Half] # NoFrame
        /\ access' = [access EXCEPT ![pid] = NoVPN2]
        /\ outcome' = "hit"
        /\ UNCHANGED <<allocVars, page_table, tlbVars, current_running>>
     \/ handle_tlb_exception_helper

\* The scheduler switches: EntryHi is not part of a context.
Switch(p) ==
  /\ outcome # "hung" /\ p # pid
  /\ current_running' = p
  /\ UNCHANGED <<allocVars, page_table, tlbVars, access, outcome>>

Next ==
  \/ \E v \in VPNs : Touch(v)
  \/ Access
  \/ \E p \in Pids : Switch(p)

Spec == Init /\ [][Next]_vars

\* An instruction whose exception has been handled is executed again.
FairSpec == Spec /\ WF_vars(Access)

-----------------------------------------------------------------------------
FrameOrNone == Frames \cup {NoFrame, PageZero}
TypeOK ==
  /\ page_map \in [Frames \cup Swap ->
       [frame : FrameOrNone, VPN : VPNs, pid : Pids \cup {0},
        avail : BOOLEAN, pinned : BOOLEAN, R : BOOLEAN]]
  /\ free_page_frame_num \in 0..FRAME_PAGES
  /\ page_alloc_ptr \in Frames /\ clock_ptr \in Frames
  /\ page_table \in [VPNs -> FrameOrNone]
  /\ tlb_entry_index_ptr \in TlbIndex
  /\ access \in [Pids -> VPNs \cup {NoVPN2}]

\* A page that the TLB translates is translated as in the page table: what is
\* cached is never stale and a flushed entry leaves nothing behind.
TlbAgrees ==
  \A i \in TlbIndex : tlb[i].VPN2 # NoVPN2 =>
    \A v \in VPNs :
      v \div 2 = tlb[i].VPN2 /\ tlb[i].lo[HalfOf(v)] # NoFrame
        => tlb[i].lo[HalfOf(v)] = page_table[v]

\* No page has two entries in the TLB: the hardware may do anything then.
TlbUnique ==
  \A i, j \in TlbIndex :
    tlb[i].VPN2 = tlb[j].VPN2 /\ tlb[i].VPN2 # NoVPN2
      /\ tlb[i].asid = tlb[j].asid => i = j

\* Two pages never share a frame, and no page is in a frame of the page table.
FrameOnce ==
  /\ \A v, w \in VPNs :
       page_table[v] = page_table[w] /\ page_table[v] # NoFrame => v = w
  /\ \A v \in VPNs : page_table[v] \in Frames => page_table[v] >= PAGE_TABLE_PAGES

\* free_page_frame_num, on which the handler decides, is the number of frames
\* that page_alloc can still find.
FreeCount == free_page_frame_num = Cardinality(FreeFrames)

\* The clock takes no frame of the page table for a page, and an entry of the
\* swap area in use names the frame whose page it stands for.
PageTableKept ==
  \A u \in Swap : ~page_map[u].avail =>
    page_map[u].frame \in Frames /\ ~page_map[page_map[u].frame].pinned

\* What a process reaches without an exception is in a frame of its own.
Isolated ==
  \A v \in VPNs : \A i \in Matches(v) :
    tlb[i].lo[HalfOf(v)] \in Frames => page_map[tlb[i].lo[HalfOf(v)]].pid = pid

\* Every access is made in the end.
AccessSucceeds == \A p \in Pids : access[p] # NoVPN2 ~> access[p] = NoVPN2
=============================================================================
