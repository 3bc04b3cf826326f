------------------------------ MODULE Regions ------------------------------
(***************************************************************************)
(* The virtual address space of libmem.c and mm-vm.c: one area (vma 0)     *)
(* that grows at its break, the symbol table of allocated regions and the  *)
(* first-fit list of free ones.  There is one of these for the whole       *)
(* simulation (krnl->mm), shared by all processes.                         *)
(*                                                                         *)
(* Each action is one call of __alloc, __free or inc_vma_limit, the first  *)
(* two under mmvm_lock.  The frames behind the addresses are in Paging.    *)
(***************************************************************************)
EXTENDS Integers, Sequences, FiniteSets

CONSTANTS
  RgIds,     (* the indices of symrgtbl that programs use                  *)
  Sizes,     (* the sizes they ask for                                     *)
  PAGESZ,    (* PAGING_PAGESZ                                              *)
  MaxBrk,    (* bound: the break is not pushed beyond this address         *)
  SysAddrSize    (* sizeof(addr_t) in sys_mem.c, which includes os-mm.h     *)
                 (* before os-cfg.h defines MM64: 4 with the Makefile, 8   *)
                 (* when MM64 is defined for every file                    *)

ASSUME RegionsAssumption ==
  /\ Sizes \subseteq Nat
  /\ PAGESZ \in Nat \ {0}
  /\ MaxBrk \in Nat
  /\ SysAddrSize \in {4, 8}

INT_MAX == 2147483647

(* get_free_vmrg_area takes a size and __alloc keeps the old break in an   *)
(* int: within these bounds the conversions lose nothing.                  *)
ASSUME IntAssumption ==
  MaxBrk <= INT_MAX /\ \A size \in Sizes : size <= INT_MAX

VARIABLES
  symrgtbl,        (* the region of each symbol, NullRegion when it has none *)
  vm_freerg_list,
  sbrk,
  vm_end,
  leaked           (* history: bytes that no list or symbol refers to      *)

regionVars == << symrgtbl, vm_freerg_list, sbrk, vm_end, leaked >>

Region == [rg_start : Nat, rg_end : Nat]

Rg(from, to) == [rg_start |-> from, rg_end |-> to]

NullRegion == Rg(0, 0)

Length(rg) == rg.rg_end - rg.rg_start

RegionsTypeOK ==
  /\ symrgtbl \in [RgIds -> Region]
  /\ vm_freerg_list \in Seq(Region)
  /\ sbrk \in Nat
  /\ vm_end \in Nat
  /\ leaked \in Nat

(* init_mm: the free list begins with an empty region.                     *)
RegionsInit ==
  /\ symrgtbl = [r \in RgIds |-> NullRegion]
  /\ vm_freerg_list = << NullRegion >>
  /\ sbrk = 0
  /\ vm_end = 0
  /\ leaked = 0

-----------------------------------------------------------------------------
(* get_free_vmrg_area                                                      *)

Fits(k, size) ==
  vm_freerg_list[k].rg_start + size <= vm_freerg_list[k].rg_end

(* The first region of the list with room for size bytes.                  *)
FirstFit(k, size) ==
  /\ k \in DOMAIN vm_freerg_list
  /\ Fits(k, size)
  /\ \A j \in 1..(k - 1) : ~Fits(j, size)

NoFit(size) == \A k \in DOMAIN vm_freerg_list : ~Fits(k, size)

(* Mutant of Carved: what is left begins one byte too early.               *)
CarvedShort(k, size) ==
  [vm_freerg_list EXCEPT ![k].rg_start = IF size = 0 THEN @ ELSE @ + size - 1]

(* Mutant of Carved: a region used up is dropped with its successor.       *)
CarvedTwice(k, size) ==
  LET list == vm_freerg_list
  IN  IF list[k].rg_start + size < list[k].rg_end
      THEN [list EXCEPT ![k].rg_start = @ + size]
      ELSE IF k + 1 < Len(list)
      THEN [j \in 1..(Len(list) - 2) |-> IF j < k THEN list[j] ELSE list[j + 2]]
      ELSE [list EXCEPT ![k].rg_start = list[k].rg_end]

(* The free list after size bytes are taken from the front of its k-th     *)
(* region.  A region used up gives its node to its successor; the last one *)
(* stays, empty.                                                           *)
Carved(k, size) ==
  LET list == vm_freerg_list
  IN  IF list[k].rg_start + size < list[k].rg_end
      THEN [list EXCEPT ![k].rg_start = @ + size]
      ELSE IF k < Len(list)
      THEN [j \in 1..(Len(list) - 1) |-> IF j < k THEN list[j] ELSE list[j + 1]]
      ELSE [list EXCEPT ![k].rg_start = list[k].rg_end]

-----------------------------------------------------------------------------
(* Mutant of PagesOf: rounded down.                                        *)
PagesBelow(size) == size \div PAGESZ

(* PAGING_PAGE_ALIGNSZ / PAGING_PAGESZ: the pages a size takes up.         *)
PagesOf(size) == (size + PAGESZ - 1) \div PAGESZ

(* inc_vma_limit on vma 0: an empty increment is refused by                *)
(* validate_overlap_vm_area.  The break moves by the size asked for, the   *)
(* end of the area by whole pages.                                         *)
inc_vma_limit(size) ==
  /\ sbrk + size <= MaxBrk
  /\ sbrk' = sbrk + size
  /\ vm_end' = vm_end + PagesOf(size) * PAGESZ

(* __alloc: the region the symbol had before is forgotten, not freed.      *)
AllocFromFreeList(r, size) ==
  \E k \in DOMAIN vm_freerg_list :
    /\ FirstFit(k, size)
    /\ LET from == vm_freerg_list[k].rg_start
       IN  symrgtbl' = [symrgtbl EXCEPT ![r] = Rg(from, from + size)]
    /\ vm_freerg_list' = Carved(k, size)
    /\ leaked' = leaked + Length(symrgtbl[r])
    /\ UNCHANGED << sbrk, vm_end >>

AllocAtBreak(r, size) ==
  /\ NoFit(size)
  /\ inc_vma_limit(size)
  /\ symrgtbl' = [symrgtbl EXCEPT ![r] = Rg(sbrk, sbrk + size)]
  /\ leaked' = leaked + Length(symrgtbl[r])
  /\ UNCHANGED vm_freerg_list

(* __free: an empty region is refused by enlist_vm_freerg_list.            *)
Free(r) ==
  /\ symrgtbl[r] # NullRegion
  /\ vm_freerg_list' =
       IF Length(symrgtbl[r]) > 0 THEN << symrgtbl[r] >> \o vm_freerg_list
                                  ELSE vm_freerg_list
  /\ symrgtbl' = [symrgtbl EXCEPT ![r] = NullRegion]
  /\ UNCHANGED << sbrk, vm_end, leaked >>

(* Where struct pcb_t keeps krnl, behind ten registers of type addr_t.     *)
krnl_offset(addr_size) == 128 + 10 * addr_size

(* sys_mem.c stores the krnl of its caller_stack where mm-vm.c and mm64.c, *)
(* whose addr_t has 8 bytes, look for it.                                  *)
CallerLayoutAgrees == krnl_offset(SysAddrSize) = krnl_offset(8)

(* sys_memmap, SYSMEM_INC_OP: the area grows and nobody gets the bytes.    *)
GrowBySyscall(size) ==
  /\ CallerLayoutAgrees
  /\ size > 0
  /\ inc_vma_limit(size)
  /\ leaked' = leaked + size
  /\ UNCHANGED << symrgtbl, vm_freerg_list >>

RegionsNext ==
  \/ \E r \in RgIds, size \in Sizes : AllocFromFreeList(r, size) \/ AllocAtBreak(r, size)
  \/ \E r \in RgIds : Free(r)
  \/ \E size \in Sizes : GrowBySyscall(size)

RegionsSpec == RegionsInit /\ [][RegionsNext]_regionVars

-----------------------------------------------------------------------------
(* Properties                                                              *)

Disjoint(a, b) ==
  \/ Length(a) <= 0 \/ Length(b) <= 0
  \/ a.rg_end <= b.rg_start \/ b.rg_end <= a.rg_start

(* No byte is in two regions, allocated or free, and none of them reaches  *)
(* beyond the break or the area, over any sequence of first-fit            *)
(* allocations, frees and increments.                                      *)
RegionsDisjoint ==
  /\ \A r, q \in RgIds : r # q => Disjoint(symrgtbl[r], symrgtbl[q])
  /\ \A r \in RgIds, k \in DOMAIN vm_freerg_list :
       Disjoint(symrgtbl[r], vm_freerg_list[k])
  /\ \A k, l \in DOMAIN vm_freerg_list :
       k # l => Disjoint(vm_freerg_list[k], vm_freerg_list[l])

RegionsInArea ==
  /\ \A r \in RgIds : symrgtbl[r].rg_end <= sbrk
  /\ \A k \in DOMAIN vm_freerg_list : vm_freerg_list[k].rg_end <= sbrk
  /\ sbrk <= vm_end

Bytes(rg) == rg.rg_start..(rg.rg_end - 1)

(* The bytes below the break that neither a symbol nor the free list has.  *)
Unclaimed ==
  {b \in 0..(sbrk - 1) :
     /\ \A r \in RgIds : b \notin Bytes(symrgtbl[r])
     /\ \A k \in DOMAIN vm_freerg_list : b \notin Bytes(vm_freerg_list[k])}

(* Every byte below the break is accounted for: in the region of a symbol, *)
(* in the free list, or given up (a symbol allocated twice, a system call  *)
(* that only moves the break).  First fit loses and invents none.          *)
BytesConserved == leaked = Cardinality(Unclaimed)

=============================================================================
