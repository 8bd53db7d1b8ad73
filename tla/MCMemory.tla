------------------------------ MODULE MCMemory ------------------------------
(***************************************************************************)
(* Four machines for module Memory: two processes that share the memory,   *)
(* with the constants of the configuration, and one process               *)
(*   - whose pages fit in the frames but not in the TLB ("small_tlb"),     *)
(*   - whose pages fit in both ("fits"),                                   *)
(*   - and one whose pages do not fit in the frames ("full"), so that      *)
(*     page_alloc has to replace pages.                                    *)
(***************************************************************************)
EXTENDS Memory

VARIABLE machine  \* which of them runs

Machine ==
  [small_tlb |-> [pages |-> 5, frames |-> 6, swap |-> 1, tlb |-> 2],
   fits      |-> [pages |-> 5, frames |-> 7, swap |-> 1, tlb |-> 3],
   full      |-> [pages |-> 6, frames |-> 4, swap |-> 2, tlb |-> 3]]
One == DOMAIN Machine

M(m) == INSTANCE Memory WITH
  Pids <- {1}, PAGE_TABLE_PAGES <- 1,
  VM_PAGES <- Machine[m].pages, FRAME_PAGES <- Machine[m].frames,
  SD_SWAP_UNIT_NUM <- Machine[m].swap, TLB_ENTRIES_NUM <- Machine[m].tlb

MCInit ==
  \/ machine = "shared" /\ Init
  \/ \E m \in One : machine = m /\ M(m)!Init

MCNext ==
  \/ machine = "shared" /\ Next /\ UNCHANGED machine
  \/ \E m \in One : machine = m /\ M(m)!Next /\ UNCHANGED machine

mcVars == <<vars, machine>>

\* As FairSpec, for the machine whose properties need it.
MCSpec ==
  /\ MCInit /\ [][MCNext]_mcVars
  /\ WF_mcVars(machine = "fits" /\ M("fits")!Access /\ UNCHANGED machine)

-----------------------------------------------------------------------------
\* With one process, what the TLB translates is what the page table says, and no
\* page has two entries: tlb_table, the kernel's copy, and the TLB do not drift
\* apart when entries are reused, and when page_alloc has to replace pages.
TlbIsCurrent ==
  \A m \in One : machine = m => M(m)!TlbAgrees /\ M(m)!TlbUnique

\* As long as the pages fit in the frames, no two of them share a frame and none
\* lies in a frame of the page table, with one process and with two.  When they
\* do not fit, the clock still passes over the frames of the page table.
PagesApart ==
  /\ machine = "shared" => FrameOnce
  /\ \A m \in {"small_tlb", "fits"} : machine = m => M(m)!FrameOnce
  /\ machine = "full" => M("full")!PageTableKept

\* free_page_frame_num, on which the handler decides, is the number of frames
\* that page_alloc can still find, on a machine that has run out of them too.
FreeFramesCounted ==
  /\ machine = "shared" => FreeCount
  /\ \A m \in One : machine = m => M(m)!FreeCount

\* On a machine that has room for the pages and their TLB entries every access
\* is made in the end: the handler of a refill and then that of an invalid
\* exception leave a TLB in which the repeated access succeeds.
AccessesEnd ==
  (machine = "fits" /\ access[1] # NoVPN2) ~> access[1] = NoVPN2
=============================================================================
