------------------------------ MODULE Contents -----------------------------
(***************************************************************************)
(* VMem with what its storage holds: __swap_cp_page, MEMPHY_read and       *)
(* MEMPHY_write, and the system calls that reach the devices directly.     *)
(*                                                                         *)
(* Bytes at the same offset of different pages are kept apart by the page  *)
(* number alone, so one byte of each page stands for all.  A frame or swap *)
(* slot holds a page p when its byte is the one last written to p.         *)
(***************************************************************************)
EXTENDS VMem

VARIABLES
  in_ram, in_swp,  (* the page each frame of the two devices holds         *)
  written          (* history: the pages written since they were last      *)
                   (* mapped and not overwritten by a system call          *)

contentVars == << in_ram, in_swp, written >>

NoPage == -1

ContentsTypeOK ==
  /\ TypeOK
  /\ in_ram \in [0..(NumRam - 1) -> Pages \cup {NoPage}]
  /\ in_swp \in [0..(NumSwp - 1) -> Pages \cup {NoPage}]
  /\ written \subseteq Pages

(* init_memphy                                                             *)
ContentsInit ==
  /\ Init
  /\ in_ram = [f \in 0..(NumRam - 1) |-> NoPage]
  /\ in_swp = [s \in 0..(NumSwp - 1) |-> NoPage]
  /\ written = {}

-----------------------------------------------------------------------------
(* The instructions                                                        *)

(* A page that is mapped anew gets a frame with other bytes, or none.       *)
Remapped ==
  /\ written' = {p \in written : pte'[p] = pte[p]}
  /\ UNCHANGED << in_ram, in_swp >>

FrameHolds(f) == IF InRam(f) THEN in_ram[f] ELSE NoPage

(* Mutant of SwapOut: another frame than the victim's is copied.           *)
SwapOutNext ==
  in_swp' = [in_swp EXCEPT ![Head(mswp_free)] = FrameHolds(VictimFpn + 1)]

(* pg_getpage copies the frame of the victim to the swap device.  The bytes *)
(* stay in the frame, and the page brought in begins with them.            *)
SwapOut == in_swp' = [in_swp EXCEPT ![Head(mswp_free)] = FrameHolds(VictimFpn)]

Fetched(p) == IF ~Hit(p) /\ CanEvict THEN SwapOut ELSE in_swp' = in_swp

(* MEMPHY_write to the frame of page p.  What was written to p before is   *)
(* no longer its content, wherever it is.                                  *)
Stored(p) ==
  LET f == PAGING_FPN(pte'[p])
  IN  /\ in_ram' = [g \in DOMAIN in_ram |->
                      IF g = f THEN p ELSE IF in_ram[g] = p THEN NoPage ELSE in_ram[g]]
      /\ written' = written \cup {p}

ReadPage(p) == Fetched(p) /\ UNCHANGED << in_ram, written >>

WritePage(p) ==
  /\ Fetched(p)
  /\ IF pte'[p].present THEN Stored(p) ELSE UNCHANGED << in_ram, written >>

-----------------------------------------------------------------------------
(* System calls on the devices                                             *)

(* SYSMEM_SWP_OP: frame f is copied to swap frame s; no entry is changed.  *)
mm_swap_page(f, s) ==
  IF CallerLayoutAgrees
  THEN /\ in_swp' = [in_swp EXCEPT ![s] = in_ram[f]]
       /\ written' = {p \in written : ~(p \in InSwap /\ PAGING_SWP(pte[p]) = s)}
       /\ UNCHANGED << vars, in_ram >>
  ELSE StrayCaller /\ UNCHANGED contentVars

(* SYSMEM_IO_WRITE to a byte of frame f.  SYSMEM_IO_READ changes nothing.  *)
io_write(f) ==
  /\ in_ram' = [in_ram EXCEPT ![f] = NoPage]
  /\ written' = {p \in written : ~(p \in Resident /\ PAGING_FPN(pte[p]) = f)}
  /\ UNCHANGED << vars, in_swp >>

-----------------------------------------------------------------------------
ContentsCall ==
  /\ ~wild
  /\ \/ \E r \in RgIds, size \in Sizes : Alloc(r, size) /\ Remapped
     \/ \E size \in Sizes : Grow(size) /\ Remapped
     \/ \E start \in MapStarts, n \in MapSizes : Map(start, n) /\ Remapped
     \/ \E r \in RgIds : Dealloc(r) /\ Remapped
     \/ \E r \in RgIds, offset \in Offsets :
          \/ Read(r, offset) /\ ReadPage(PageOf(ReadAddr(r, offset)))
          \/ Write(r, offset) /\ WritePage(PageOf(WriteAddr(r, offset)))
     \/ \E f \in RawFrames, s \in RawFrames : mm_swap_page(f, s)
     \/ \E f \in RawFrames : io_write(f)

ContentsUndefined == Undefined /\ UNCHANGED contentVars

ContentsNext == ContentsCall \/ ContentsUndefined

ContentsSpec == ContentsInit /\ [][ContentsNext]_<< vars, contentVars >>

-----------------------------------------------------------------------------
(* Properties                                                              *)

(* What a program has written to a page is in the frame or the swap slot   *)
(* its entry names, over any sequence of accesses, evictions, allocations  *)
(* and frees, and a READ of it does not fail (__read would not tell).      *)
ContentsKept ==
  ~strayed =>
    \A p \in written : \/ p \in Resident /\ in_ram[PAGING_FPN(pte[p])] = p
                       \/ p \in InSwap /\ in_swp[PAGING_SWP(pte[p])] = p

(* "Page fault: swap in" (TongHop/kienthuc.md:502), "Get the page to       *)
(* MEMRAM, swap from MEMSWAP if needed" (libmem.c:333): a page taken for   *)
(* present can be read in the RAM.                                         *)
ReadFindsData == \A p \in written : Hit(p) => FrameHolds(PAGING_FPN(pte[p])) = p
=============================================================================
