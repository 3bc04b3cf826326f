------------------------------- MODULE Paging ------------------------------
(***************************************************************************)
(* The page table and the frames behind it: mm64.c (PTEs, mapping),        *)
(* mm-memphy.c (free frame lists of RAM and swap) and the page fault of    *)
(* libmem.c (pg_getpage, find_victim_page).  What the frames contain is in *)
(* Contents, the tables behind the entries in PageTable.                   *)
(*                                                                         *)
(* A page table entry keeps its two flags and the number in its low 26     *)
(* bits, of which two overlapping fields are read: the frame number, and   *)
(* the swap offset above 5 bits of swap type.  The five-level table that   *)
(* holds the entries is a function from page numbers; an entry whose       *)
(* tables do not exist reads as 0, the initial entry.                      *)
(***************************************************************************)
EXTENDS Integers, Sequences, SequencesExt

CONSTANTS
  NumRam, NumSwp,  (* frames of the RAM and of the active swap device      *)
  MaxPage,         (* bound: pages beyond this one are not used            *)
  Ratio,           (* PAGING64_PAGESZ / PAGING_PAGESZ, 16 in the code      *)
  FpnRange,        (* 2^13: the values of the frame number field           *)
  SwpShift,        (* 2^5: the weight of the swap offset field             *)
  Pattern          (* 0xdeadbeef in the 26 bits of number fields           *)

(* MEMPHY_format leaves fp_next of a device's only frame uninitialized; a   *)
(* frame number beyond the field of an entry would be cut off.             *)
ASSUME PagingAssumption ==
  /\ NumRam \in Nat /\ NumRam > 1 /\ NumRam <= FpnRange
  /\ NumSwp \in Nat /\ NumSwp > 1
  /\ MaxPage \in Nat
  /\ Ratio \in Nat \ {0} /\ FpnRange \in Nat \ {0} /\ SwpShift \in Nat \ {0}
  /\ Pattern \in Nat /\ Pattern % SwpShift # 0

Pages == 0..MaxPage

VARIABLES
  pte,         (* the entry of each page                                   *)
  fifo_pgn,    (* newest page first; the last one is the next victim       *)
  mram_free, mswp_free,    (* free_fp_list of the two devices              *)
  wild,        (* storage has been accessed outside its bounds: undefined  *)
  strayed      (* history: the number in an entry marked swapped has been  *)
               (* used as a frame number, or a word of the stack as krnl   *)

pagingVars == << pte, fifo_pgn, mram_free, mswp_free, wild, strayed >>

PTE == [present : BOOLEAN, swapped : BOOLEAN, num : Nat]

PAGING_FPN(e) == e.num % FpnRange

PAGING_SWP(e) == e.num \div SwpShift

PagingTypeOK ==
  /\ pte \in [Pages -> PTE]
  /\ fifo_pgn \in Seq(Pages)
  /\ mram_free \in Seq(0..(NumRam - 1))
  /\ mswp_free \in Seq(0..(NumSwp - 1))
  /\ wild \in BOOLEAN
  /\ strayed \in BOOLEAN

(* Mutant of PagingInit: the frames are numbered from 1.                   *)
PagingInitFromOne ==
  /\ pte = [p \in Pages |-> [present |-> FALSE, swapped |-> FALSE, num |-> 0]]
  /\ fifo_pgn = << >>
  /\ mram_free = [n \in 1..NumRam |-> n]
  /\ mswp_free = [n \in 1..NumSwp |-> n]
  /\ wild = FALSE
  /\ strayed = FALSE

(* init_mm and, for both devices, MEMPHY_format.                           *)
PagingInit ==
  /\ pte = [p \in Pages |-> [present |-> FALSE, swapped |-> FALSE, num |-> 0]]
  /\ fifo_pgn = << >>
  /\ mram_free = [n \in 1..NumRam |-> n - 1]
  /\ mswp_free = [n \in 1..NumSwp |-> n - 1]
  /\ wild = FALSE
  /\ strayed = FALSE

-----------------------------------------------------------------------------
(* Entries                                                                 *)

FpnEntry(e, fpn) ==
  [present |-> TRUE, swapped |-> FALSE,
   num |-> e.num - PAGING_FPN(e) + (fpn % FpnRange)]

(* pte_set_swap with swap type 0.                                          *)
SwapEntry(swpoff) ==
  [present |-> TRUE, swapped |-> TRUE, num |-> swpoff * SwpShift]

(* The pattern of vmap_pgd_memset: bits 31 and 30 of 0xdeadbeef are set.    *)
PatternEntry == [present |-> TRUE, swapped |-> TRUE, num |-> Pattern]

(* The walk down the five levels for a page number.                        *)
pte_get_entry(p) == pte[p]

(* MEMPHY_read and MEMPHY_write do not look at maxsz: whether the frame    *)
(* number read from an entry is one of the RAM's.                          *)
InRam(fpn) == fpn < NumRam

-----------------------------------------------------------------------------
(* vm_map_ram                                                              *)

(* The pages vmap_page_range gives to n frames from the start page on: it  *)
(* counts in pages of PAGING64_PAGESZ, the rest of libmem.c in pages of    *)
(* PAGING_PAGESZ.                                                          *)
MappedPage(start, n) == (start \div Ratio) + n - 1

(* Mutant of FramesLeft: the last frame taken stays in the list.           *)
FramesLeftOneMore(n) == SubSeq(mram_free, n, Len(mram_free))

(* alloc_pages_range has taken n frames from the front of the list.        *)
FramesLeft(n) == SubSeq(mram_free, n + 1, Len(mram_free))

(* ... and vmap_page_range enters them in the page table and the FIFO.     *)
MapFrames(start, n) ==
  /\ pte' = [p \in Pages |->
               IF \E m \in 1..n : p = MappedPage(start, m)
               THEN FpnEntry(pte[p], mram_free[p - (start \div Ratio) + 1])
               ELSE pte[p]]
  /\ fifo_pgn' = Reverse([m \in 1..n |-> MappedPage(start, m)]) \o fifo_pgn
  /\ mram_free' = FramesLeft(n)

(* Mutant of ReturnFrames: the frames obtained so far are not returned.    *)
LoseFrames ==
  /\ mram_free' = << >>
  /\ UNCHANGED << pte, fifo_pgn >>

(* alloc_pages_range runs out of frames and puts back those it has taken,  *)
(* the first one first.                                                    *)
ReturnFrames ==
  /\ mram_free' = Reverse(mram_free)
  /\ UNCHANGED << pte, fifo_pgn >>

vm_map_ram(start, n) ==
  /\ MappedPage(start, n) <= MaxPage
  /\ IF n <= Len(mram_free) THEN MapFrames(start, n) ELSE ReturnFrames
  /\ UNCHANGED << mswp_free, wild, strayed >>

(* The system call SYSMEM_MAP_OP on n pages: what they were mapped to is    *)
(* forgotten, the FIFO is not told.                                        *)
vmap_pgd_memset(start, n) ==
  /\ MappedPage(start, n) <= MaxPage
  /\ pte' = [p \in Pages |-> IF \E m \in 1..n : p = MappedPage(start, m)
                            THEN PatternEntry ELSE pte[p]]
  /\ UNCHANGED << fifo_pgn, mram_free, mswp_free, wild, strayed >>

-----------------------------------------------------------------------------
(* pg_getpage for page p and the access to storage that follows it.        *)

(* PAGING_PAGE_PRESENT: the entries pg_getpage takes for pages in RAM.      *)
Hit(p) == pte_get_entry(p).present

PageHit(p) ==
  /\ Hit(p)
  /\ wild' = ~InRam(PAGING_FPN(pte_get_entry(p)))
  /\ strayed' = (strayed \/ pte_get_entry(p).swapped)
  /\ UNCHANGED << pte, fifo_pgn, mram_free, mswp_free >>

(* What find_victim_page and the swap device would give.                   *)
Victim == Last(fifo_pgn)

VictimFpn == PAGING_FPN(pte_get_entry(Victim))

CanEvict == fifo_pgn # << >> /\ mswp_free # << >>

(* No victim, or one but no swap frame to write it to: the access fails,   *)
(* and the victim has left the list all the same.                          *)
FaultFails(p) ==
  /\ ~Hit(p)
  /\ ~CanEvict
  /\ fifo_pgn' = IF fifo_pgn = << >> THEN fifo_pgn ELSE Front(fifo_pgn)
  /\ UNCHANGED << pte, mram_free, mswp_free, wild, strayed >>

(* Mutant of FifoAfter: the page brought in is not enlisted.               *)
FifoUnlisted(p) == Front(fifo_pgn)

(* find_victim_page has taken the last page off, p is enlisted in front.   *)
FifoAfter(p) == << p >> \o Front(fifo_pgn)

(* Mutant of SlotsAfter: the swap frame taken stays in the list.           *)
SlotsKept(p) == mswp_free

(* One swap frame is taken for the victim; were p in the swap device, the  *)
(* frame it was read back from would be returned.                          *)
SlotsAfter(p) ==
  IF pte_get_entry(p).swapped
  THEN << PAGING_SWP(pte_get_entry(p)) >> \o Tail(mswp_free)
  ELSE Tail(mswp_free)

(* The oldest page goes to the swap device and gives its frame to p.       *)
Fault(p) ==
  /\ ~Hit(p)
  /\ CanEvict
  /\ wild' = ~InRam(VictimFpn)
  /\ strayed' = (strayed \/ pte_get_entry(Victim).swapped)
  /\ pte' = [pte EXCEPT ![Victim] = SwapEntry(Head(mswp_free)),
                        ![p] = FpnEntry(@, VictimFpn)]
  /\ fifo_pgn' = FifoAfter(p)
  /\ mswp_free' = SlotsAfter(p)
  /\ UNCHANGED mram_free

pg_getpage(p) == PageHit(p) \/ FaultFails(p) \/ Fault(p)

-----------------------------------------------------------------------------
(* Properties                                                              *)

(* The pages whose bytes are in the swap device (of type 0).               *)
InSwap == {p \in Pages : pte[p].swapped /\ pte[p].num % SwpShift = 0}

Resident == {p \in Pages : pte[p].present /\ ~pte[p].swapped}

(* No two pages in RAM share a frame, none of their frames is in the free  *)
(* list or twice in it, and no access leaves the RAM, over any sequence of *)
(* allocations, failed ones included, page faults and evictions.  Only the *)
(* use of a swap offset or of MAP's pattern as a frame number can end it.  *)
FramesExclusive ==
  ~strayed =>
    /\ \A p, q \in Resident : p # q => PAGING_FPN(pte[p]) # PAGING_FPN(pte[q])
    /\ \A p \in Resident : PAGING_FPN(pte[p]) \notin ToSet(mram_free)
    /\ IsInjective(mram_free)
    /\ ~wild

(* Two swapped pages never share a swap frame, and none they use is free,  *)
(* however often pages are evicted, mapped over and evicted again.         *)
SwapSlotsExclusive ==
  /\ \A p, q \in InSwap : p # q => PAGING_SWP(pte[p]) # PAGING_SWP(pte[q])
  /\ \A p \in InSwap : PAGING_SWP(pte[p]) \notin ToSet(mswp_free)

(* As long as the swap device has room, every page in RAM can be found by  *)
(* find_victim_page.                                                       *)
ResidentEvictable == mswp_free # << >> => Resident \subseteq ToSet(fifo_pgn)
=============================================================================
