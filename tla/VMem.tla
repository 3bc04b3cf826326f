-------------------------------- MODULE VMem -------------------------------
(***************************************************************************)
(* The memory system as programs see it: ALLOC, FREE, READ and WRITE       *)
(* (libmem.c, under mmvm_lock) and the system call that grows the area.    *)
(* Regions keeps the addresses, Paging the pages; this module joins them   *)
(* the way __alloc, inc_vma_limit, __read and __write do.                  *)
(***************************************************************************)
EXTENDS Regions, Paging

CONSTANTS
  Offsets,    (* the offsets READ and WRITE instructions use               *)
  MapStarts,  (* the pages they pass to SYSMEM_MAP_OP ...                  *)
  MapSizes,   (* ... and the numbers of pages                              *)
  RawFrames   (* the frames they name in SYSMEM_SWP_OP and SYSMEM_IO_*     *)

(* A frame beyond the devices makes the behaviour undefined at once.       *)
ASSUME VMemAssumption ==
  /\ Offsets \subseteq Nat /\ MapStarts \subseteq Nat /\ MapSizes \subseteq Nat
  /\ RawFrames \subseteq 0..(NumRam - 1) /\ RawFrames \subseteq 0..(NumSwp - 1)

vars == << regionVars, pagingVars >>

Init == RegionsInit /\ PagingInit

TypeOK == RegionsTypeOK /\ PagingTypeOK

(* PAGING_PGN                                                              *)
PageOf(addr) == addr \div PAGESZ

(* inc_vma_limit maps the pages it adds from the old end of the area.  Its *)
(* caller goes on whether or not there were frames for them.               *)
MapGrowth(size) == vm_map_ram(vm_end \div PAGESZ, PagesOf(size))

Alloc(r, size) ==
  \/ AllocFromFreeList(r, size) /\ UNCHANGED pagingVars
  \/ AllocAtBreak(r, size) /\ MapGrowth(size)

(* A system call that hands caller_stack to mm-vm.c or mm64.c makes them   *)
(* follow what lies behind it on the stack in place of krnl.               *)
StrayCaller ==
  /\ ~CallerLayoutAgrees
  /\ wild' = TRUE
  /\ strayed' = TRUE
  /\ UNCHANGED << regionVars, pte, fifo_pgn, mram_free, mswp_free >>

Grow(size) ==
  IF CallerLayoutAgrees THEN GrowBySyscall(size) /\ MapGrowth(size) ELSE StrayCaller

(* Neither the start nor the number of pages is compared with the area.    *)
Map(start, n) ==
  IF CallerLayoutAgrees THEN vmap_pgd_memset(start, n) /\ UNCHANGED regionVars
                        ELSE StrayCaller

Dealloc(r) == Free(r) /\ UNCHANGED pagingVars

(* __write addresses from the start of the symbol's region, __read from    *)
(* the start of the area.  Neither looks at the end of the region.         *)
WriteAddr(r, offset) == symrgtbl[r].rg_start + offset

ReadAddr(r, offset) == offset

Access(addr) ==
  /\ PageOf(addr) <= MaxPage
  /\ pg_getpage(PageOf(addr))
  /\ UNCHANGED regionVars

Read(r, offset) == Access(ReadAddr(r, offset))

Write(r, offset) == Access(WriteAddr(r, offset))

(* After an access outside the storage nothing is claimed.                 *)
Undefined == wild /\ UNCHANGED vars

Call ==
  /\ ~wild
  /\ \/ \E r \in RgIds, size \in Sizes : Alloc(r, size)
     \/ \E size \in Sizes : Grow(size)
     \/ \E start \in MapStarts, n \in MapSizes : Map(start, n)
     \/ \E r \in RgIds : Dealloc(r)
     \/ \E r \in RgIds, offset \in Offsets : Read(r, offset) \/ Write(r, offset)
     \/ StrayCaller

Next == Call \/ Undefined

Spec == Init /\ [][Next]_vars

-----------------------------------------------------------------------------
(* Properties                                                              *)

Growth == (vm_end' - vm_end) \div PAGESZ

(* A step takes from the free frames of the RAM those of the pages it adds *)
(* to the area, or, when there are not enough, none.                       *)
AllOrNothing ==
  [][\/ ToSet(mram_free') = ToSet(mram_free) /\ Len(mram_free') = Len(mram_free)
     \/ /\ Len(mram_free') = Len(mram_free) - Growth
        /\ ToSet(mram_free') \subseteq ToSet(mram_free)]_vars

(* "Rollback on failure" (mm-vm.c:178): an area that could not be given    *)
(* frames does not grow.                                                   *)
GrowthIsBacked ==
  [][Growth > 0 => Len(mram_free') = Len(mram_free) - Growth]_vars

(* "The obtained vm area now will be alloc real ram region" (mm-vm.c:175): *)
(* as long as no allocation lacked frames, the pages of a region are       *)
(* mapped.                                                                 *)
RegionsMapped ==
  [][\A r \in RgIds :
       /\ symrgtbl'[r] # symrgtbl[r] /\ Length(symrgtbl'[r]) > 0
       /\ Growth > 0 /\ Len(mram_free') < Len(mram_free)
       => \A a \in symrgtbl'[r].rg_start..(symrgtbl'[r].rg_end - 1) :
            pte'[PageOf(a)].present]_vars

(* "Create caller struct with krnl reference" (sys_mem.c:31): the routines *)
(* sys_memmap calls find the kernel in it.  Only a READ or a WRITE, with   *)
(* the number of an entry, can leave the storage.                          *)
CallerHasKernel ==
  [][wild' # wild =>
       \E r \in RgIds, offset \in Offsets : Read(r, offset) \/ Write(r, offset)]_vars

(* A READ finds what a WRITE with the same symbol and offset has stored    *)
(* ("Source address = [source] + [offset]", libmem.c:369).                 *)
ReadFollowsWrite ==
  \A r \in RgIds, offset \in Offsets :
    symrgtbl[r] # NullRegion => ReadAddr(r, offset) = WriteAddr(r, offset)
=============================================================================
