----------------------------- MODULE KernelMem -----------------------------
(***************************************************************************)
(* The memory calls of several CPUs in one slot, at the grain of single    *)
(* accesses to shared memory (the Makefile compiles without optimisation). *)
(* ALLOC, FREE, READ and WRITE hold mmvm_lock; the system calls that grow  *)
(* the area (SYSMEM_INC_OP) or write the page table (SYSMEM_MAP_OP) do     *)
(* not, and neither do the routines all of them share: inc_vma_limit,      *)
(* alloc_pages_range, vmap_page_range, the walk of the page table and the  *)
(* list of pages.                                                          *)
(*                                                                         *)
(* symrgtbl, vm_freerg_list and the swap device are touched under the lock *)
(* only: what ALLOC and FREE do to the regions is one step (Regions), and  *)
(* so is taking a swap frame.  The bytes of the pages are in Contents.     *)
(***************************************************************************)
EXTENDS Regions, PageTable, SequencesExt

CONSTANTS
  CPUs, NoCPU,
  MaxSlots,   (* bound: slots; a CPU executes one instruction in each      *)
  NumRam, NumSwp, MaxPage, Ratio, FpnRange, SwpShift, Pattern,  (* Paging *)
  Offsets, MapStarts, MapSizes, RawFrames                       (* VMem   *)

ASSUME KernelMemAssumption ==
  /\ NoCPU \notin CPUs
  /\ NumRam \in Nat /\ NumRam > 1 /\ NumSwp \in Nat /\ NumSwp > 1
  /\ NumRam <= FpnRange /\ FpnRange \in Nat /\ SwpShift \in Nat /\ Pattern \in Nat
  /\ Levels > 1 /\ MaxPage + 1 = Fanout * Span[Levels]
  /\ MapStarts \subseteq Nat /\ MapSizes \subseteq Nat \ {0}
  /\ Offsets \subseteq Nat /\ Ratio \in Nat \ {0} /\ MaxSlots \in Nat \ {0}

(* A CPU grows the area once in a slot: the break stays below MaxBrk, and  *)
(* so in an int (IntAssumption).                                           *)
ASSUME GrowthAssumption ==
  /\ IsFiniteSet(CPUs)
  /\ \A size \in Sizes : size * MaxSlots * Cardinality(CPUs) <= MaxBrk

VARIABLES
  mmvm_lock,     (* the CPU that holds it, or NoCPU                        *)
  pc, loc,       (* where each CPU is in its call, and its local variables *)
  slot,
  free_fp_list, fp_next,  (* the RAM's free list: first node, successors   *)
  allocated,     (* the nodes of that list that have not been freed        *)
  fifo_pgn, pgn_nodes,    (* first node of the page list, or 0; its nodes  *)
  mswp_free,
  wild,          (* a freed node has been followed, or storage accessed    *)
                 (* outside its bounds: undefined                          *)
  entered,       (* history: the frames entered in the page table          *)
  raced,         (* history: a system call's growth overlapped another     *)
  shared,        (* history: a MAP overlapped another walk, or a system    *)
                 (* call's growth a READ or WRITE                          *)
  strayed,       (* history: the number in an entry that names no frame    *)
                 (* (Resides) has been used as a frame number              *)
  committed      (* history: the memory after the last call that ended     *)

devVars == << free_fp_list, fp_next, allocated, mswp_free >>
ramVars == << free_fp_list, fp_next, allocated >>
fifoVars == << fifo_pgn, pgn_nodes >>
limitVars == << sbrk, vm_end >>
regVars == << symrgtbl, vm_freerg_list, leaked >>
historyVars == << entered, raced, shared, strayed, committed >>
kvars == << regionVars, tables, mmvm_lock, pc, loc, slot, devVars, fifoVars,
            wild, historyVars >>

Frames == 0..(NumRam - 1)

NoFrame == -1

NoPage == -1

(* The i-th node of the free list, NoFrame after the last one.             *)
FreeNode[i \in 1..NumRam] ==
  IF i = 1 THEN free_fp_list
  ELSE IF FreeNode[i - 1] = NoFrame THEN NoFrame ELSE fp_next[FreeNode[i - 1]]

(* The frames in the free list, the first one first.                       *)
FreeFrames ==
  LET nodes == FreeNode
  IN  SubSeq(nodes, 1, Cardinality({i \in 1..NumRam : nodes[i] # NoFrame}))

(* The nodes of the page list from node n on, the newest first.            *)
ChainFrom(n) ==
  LET chain[m \in 0..Len(pgn_nodes)] ==
        IF m = 0 THEN << >> ELSE << m >> \o chain[pgn_nodes[m].pg_next]
  IN  chain[n]

FifoPages ==
  LET chain == ChainFrom(fifo_pgn)
  IN  [i \in DOMAIN chain |-> pgn_nodes[chain[i]].pgn]

Snapshot ==
  [symrgtbl |-> symrgtbl, vm_freerg_list |-> vm_freerg_list, sbrk |-> sbrk,
   vm_end |-> vm_end, leaked |-> leaked, fifo_pgn |-> FifoPages,
   pte |-> [p \in 0..MaxPage |-> pte_walk(p)], mram_free |-> FreeFrames,
   mswp_free |-> mswp_free, strayed |-> strayed]

(* The memory in which calls are atomic.                                   *)
Mem == INSTANCE VMem WITH
  symrgtbl <- committed.symrgtbl, vm_freerg_list <- committed.vm_freerg_list,
  sbrk <- committed.sbrk, vm_end <- committed.vm_end, leaked <- committed.leaked,
  pte <- committed.pte, fifo_pgn <- committed.fifo_pgn,
  mram_free <- committed.mram_free, mswp_free <- committed.mswp_free,
  wild <- FALSE, strayed <- committed.strayed

(* A call: who asks for what, then the locals of the routines it is in.    *)
NoCall == [op |-> "none", r |-> 0, size |-> 0, n |-> 0, brk |-> 0, page |-> 0,
           tmp |-> 0, list |-> 0, frames |-> << >>, k |-> 1,
           level |-> Levels, table |-> 1,
           want |-> 0, fpn |-> NoFrame, swp |-> NoFrame]

KernelMemInit ==
  /\ RegionsInit
  /\ PageTableInit
  /\ mmvm_lock = NoCPU
  /\ pc = [t \in CPUs |-> "idle"]
  /\ loc = [t \in CPUs |-> NoCall]
  /\ slot = 1
  /\ free_fp_list = 0
  /\ fp_next = [f \in Frames |-> IF f = NumRam - 1 THEN NoFrame ELSE f + 1]
  /\ allocated = Frames
  /\ mswp_free = [n \in 1..NumSwp |-> n - 1]
  /\ fifo_pgn = 0
  /\ pgn_nodes = << >>
  /\ wild = FALSE
  /\ entered = {}
  /\ raced = FALSE
  /\ shared = FALSE
  /\ strayed = FALSE
  /\ committed = Snapshot

-----------------------------------------------------------------------------
(* Calls                                                                   *)

Goto(t, label) == pc' = [pc EXCEPT ![t] = label]

Set(t, locals) == loc' = [loc EXCEPT ![t] = locals]

(* A CPU inside the routines that are not all under one lock.              *)
Inside(t) == pc[t] \notin {"idle", "lock", "arrived"}

OverlapsOp(t, ops) == \E u \in CPUs \ {t} : Inside(u) /\ loc[u].op \in ops

NoteOverlap(t, op) ==
  /\ raced' = \/ raced
              \/ op = "inc" /\ OverlapsOp(t, {"alloc", "inc"})
              \/ op = "alloc" /\ OverlapsOp(t, {"inc"})
  /\ shared' = \/ shared
               \/ OverlapsOp(t, {"map"})
               \/ op = "map" /\ OverlapsOp(t, {"alloc", "inc", "access"})
               \/ op = "inc" /\ OverlapsOp(t, {"access"})
               \/ op = "access" /\ OverlapsOp(t, {"inc"})

(* The regions alone have changed: FREE, or ALLOC from the free list.      *)
CommitRegions ==
  committed' = IF raced \/ shared THEN committed
               ELSE [committed EXCEPT !.symrgtbl = symrgtbl', !.leaked = leaked',
                                      !.vm_freerg_list = vm_freerg_list']

Commit == committed' = IF raced \/ shared THEN committed ELSE Snapshot'

(* CALC, or a CPU without a process.                                       *)
Skip(t) ==
  /\ pc[t] = "idle"
  /\ Goto(t, "arrived")
  /\ UNCHANGED << regionVars, tables, mmvm_lock, loc, slot, devVars, fifoVars,
                  wild, historyVars >>

(* liballoc, libfree, libread and libwrite wait for mmvm_lock.             *)
Request(t, op, r, size) ==
  /\ pc[t] = "idle"
  /\ Goto(t, "lock")
  /\ Set(t, [NoCall EXCEPT !.op = op, !.r = r, !.size = size])
  /\ UNCHANGED << regionVars, tables, mmvm_lock, slot, devVars, fifoVars, wild,
                  historyVars >>

(* The calls that need neither the break nor the page table are over as    *)
(* soon as they have the lock.                                             *)
Underlock(t) ==
  /\ pc[t] = "lock"
  /\ mmvm_lock = NoCPU
  /\ LET r == loc[t].r
     IN  \/ loc[t].op = "alloc" /\ AllocFromFreeList(r, loc[t].size)
         \/ loc[t].op = "free" /\ Free(r)
         \/ /\ loc[t].op = "free"
            /\ symrgtbl[r] = NullRegion
            /\ UNCHANGED regionVars
  /\ Goto(t, "arrived")
  /\ Set(t, NoCall)
  /\ CommitRegions
  /\ UNCHANGED << tables, mmvm_lock, slot, devVars, fifoVars, wild, entered,
                  raced, shared, strayed >>

(* Mutant of Acquire: mmvm_lock is not taken.                              *)
AcquireNothing(t) == mmvm_lock = NoCPU /\ UNCHANGED mmvm_lock

Acquire(t) == mmvm_lock = NoCPU /\ mmvm_lock' = t

(* No free region fits: __alloc reads the break and calls inc_vma_limit.   *)
BeginAlloc(t) ==
  /\ pc[t] = "lock"
  /\ loc[t].op = "alloc"
  /\ NoFit(loc[t].size)
  /\ Acquire(t)
  /\ Set(t, [loc[t] EXCEPT !.brk = sbrk, !.n = PagesOf(loc[t].size)])
  /\ NoteOverlap(t, "alloc")
  /\ Goto(t, "end")
  /\ UNCHANGED << regionVars, tables, slot, devVars, fifoVars, wild, entered,
                  strayed, committed >>

(* __read and __write compute the address under the lock, from the area    *)
(* (READ does not look at its symbol) or from the region; the size of the  *)
(* call is the offset.  From here on both do the same.                     *)
BeginAccess(t) ==
  /\ pc[t] = "lock"
  /\ loc[t].op \in {"read", "write"}
  /\ LET from == IF loc[t].op = "read" THEN 0 ELSE symrgtbl[loc[t].r].rg_start
         page == Mem!PageOf(from + loc[t].size)
     IN  /\ page <= MaxPage
         /\ Set(t, [NoCall EXCEPT !.op = "access", !.want = page, !.page = page])
  /\ Acquire(t)
  /\ NoteOverlap(t, "access")
  /\ Goto(t, "find page")
  /\ UNCHANGED << regionVars, tables, slot, devVars, fifoVars, wild, entered,
                  strayed, committed >>

(* SYSMEM_INC_OP or SYSMEM_MAP_OP where sys_mem.c has another struct pcb_t *)
(* than inc_vma_limit and vmap_pgd_memset.                                 *)
StrayCaller(t) ==
  /\ pc[t] = "idle"
  /\ wild' = TRUE
  /\ UNCHANGED << regionVars, tables, mmvm_lock, pc, loc, slot, devVars, fifoVars,
                  historyVars >>

BeginInc(t, size) ==
  /\ pc[t] = "idle"
  /\ size > 0
  /\ Set(t, [NoCall EXCEPT !.op = "inc", !.size = size, !.n = PagesOf(size)])
  /\ NoteOverlap(t, "inc")
  /\ Goto(t, "end")
  /\ UNCHANGED << regionVars, tables, mmvm_lock, slot, devVars, fifoVars, wild,
                  entered, strayed, committed >>

BeginMap(t, start, n) ==
  /\ pc[t] = "idle"
  /\ Set(t, [NoCall EXCEPT !.op = "map", !.n = n, !.page = start \div Ratio])
  /\ NoteOverlap(t, "map")
  /\ Goto(t, "test")
  /\ UNCHANGED << regionVars, tables, mmvm_lock, slot, devVars, fifoVars, wild,
                  entered, strayed, committed >>

-----------------------------------------------------------------------------
(* inc_vma_limit: old_end = vm_end; vm_end += inc_amt; sbrk += inc_sz.     *)

At(t, label) == ~wild /\ pc[t] = label

Limits(t) ==
  /\ \/ /\ At(t, "end") /\ Goto(t, "load end")
        /\ Set(t, [loc[t] EXCEPT !.page = (vm_end \div PAGESZ) \div Ratio])
        /\ UNCHANGED limitVars
     \/ /\ At(t, "load end") /\ Goto(t, "store end")
        /\ Set(t, [loc[t] EXCEPT !.tmp = vm_end])
        /\ UNCHANGED limitVars
     \/ /\ At(t, "store end") /\ Goto(t, "load brk")
        /\ vm_end' = loc[t].tmp + loc[t].n * PAGESZ
        /\ UNCHANGED << loc, sbrk >>
     \/ /\ At(t, "load brk") /\ Goto(t, "store brk")
        /\ Set(t, [loc[t] EXCEPT !.tmp = sbrk])
        /\ UNCHANGED limitVars
     \/ /\ At(t, "store brk") /\ Goto(t, "get")
        /\ sbrk' = loc[t].tmp + loc[t].size
        /\ UNCHANGED << loc, vm_end >>
  /\ UNCHANGED << regVars, tables, mmvm_lock, slot, devVars, fifoVars, wild,
                  historyVars >>

-----------------------------------------------------------------------------
(* alloc_pages_range, with MEMPHY_get_freefp and MEMPHY_put_freefp         *)

(* Mutant of AfterRunOut: the frames had so far are not put back.           *)
AfterRunOutKeep(t) == "finish"

AfterRunOut(t) == IF loc[t].frames # << >> THEN "put" ELSE "finish"

GetFrame(t) ==
  /\ At(t, "get")
  /\ Set(t, [loc[t] EXCEPT !.tmp = free_fp_list])
  /\ Goto(t, IF free_fp_list # NoFrame THEN "pop" ELSE AfterRunOut(t))
  /\ UNCHANGED << regionVars, tables, mmvm_lock, slot, devVars, fifoVars, wild,
                  historyVars >>

(* Mutant of NodeAfter: the nodes are taken to lie in the order of frames.  *)
NodeAfterInOrder(f) == f + 1

NodeAfter(f) == fp_next[f]

(* The node seen by GetFrame is read, taken off the list and freed.        *)
PopFrame(t) ==
  /\ At(t, "pop")
  /\ LET f == loc[t].tmp
     IN  IF f \notin allocated
         THEN wild' = TRUE /\ UNCHANGED << pc, loc, ramVars >>
         ELSE /\ free_fp_list' = NodeAfter(f)
              /\ allocated' = allocated \ {f}
              /\ Set(t, [loc[t] EXCEPT !.frames = Append(@, f)])
              /\ Goto(t, IF Len(loc[t].frames) + 1 < loc[t].n THEN "get" ELSE "test")
              /\ UNCHANGED << fp_next, wild >>
  /\ UNCHANGED << regionVars, tables, mmvm_lock, slot, mswp_free, fifoVars, historyVars >>

(* MEMPHY_put_freefp reads the first node before it becomes the second.    *)
PutRead(t) ==
  /\ At(t, "put")
  /\ Set(t, [loc[t] EXCEPT !.tmp = free_fp_list])
  /\ Goto(t, "push")
  /\ UNCHANGED << regionVars, tables, mmvm_lock, slot, devVars, fifoVars, wild,
                  historyVars >>

PutFrame(t) ==
  /\ At(t, "push")
  /\ LET f == Head(loc[t].frames)
         rest == Tail(loc[t].frames)
     IN  /\ fp_next' = [fp_next EXCEPT ![f] = loc[t].tmp]
         /\ allocated' = allocated \cup {f}
         /\ free_fp_list' = f
         /\ Set(t, [loc[t] EXCEPT !.frames = rest])
         /\ Goto(t, IF rest = << >> THEN "finish" ELSE "put")
  /\ UNCHANGED << regionVars, tables, mmvm_lock, slot, mswp_free, fifoVars, wild,
                  historyVars >>

-----------------------------------------------------------------------------
(* pte_set_fpn and vmap_pgd_memset for the k-th page of the call           *)

Page(t) == loc[t].page + loc[t].k - 1

Index(t) == get_pd(Page(t), loc[t].level)

Link(t) == tables[loc[t].table][Index(t)]

TestLink(t) ==
  /\ At(t, "test")
  /\ Goto(t, IF Link(t) = 0 THEN "link" ELSE "descend")
  /\ UNCHANGED << regionVars, tables, mmvm_lock, loc, slot, devVars, fifoVars,
                  wild, historyVars >>

LinkTable(t) ==
  /\ At(t, "link")
  /\ LinkNew(loc[t].table, Index(t), loc[t].level)
  /\ Goto(t, "descend")
  /\ UNCHANGED << regionVars, mmvm_lock, loc, slot, devVars, fifoVars, wild,
                  historyVars >>

(* The link is read again.                                                 *)
Descend(t) ==
  /\ At(t, "descend")
  /\ Set(t, [loc[t] EXCEPT !.table = Link(t), !.level = @ - 1])
  /\ Goto(t, IF loc[t].level = 2 THEN "leaf" ELSE "test")
  /\ UNCHANGED << regionVars, tables, mmvm_lock, slot, devVars, fifoVars, wild,
                  historyVars >>

(* The locals of a walk for page p that begins at pgd.                     *)
StartWalk(t, p) ==
  [loc[t] EXCEPT !.page = p, !.k = 1, !.level = Levels, !.table = 1]

(* On to the next page of the call.                                        *)
NextPage(t) ==
  IF loc[t].k < loc[t].n
  THEN /\ Set(t, [loc[t] EXCEPT !.k = @ + 1, !.level = Levels, !.table = 1])
       /\ Goto(t, "test")
  ELSE Goto(t, "finish") /\ UNCHANGED loc

MapPattern(t) ==
  /\ loc[t].op = "map"
  /\ SetEntry(loc[t].table, Index(t), Mem!PatternEntry)
  /\ NextPage(t)
  /\ UNCHANGED entered

MapFrame(t) ==
  /\ loc[t].op \in {"alloc", "inc"}
  /\ SetEntry(loc[t].table, Index(t), Mem!FpnEntry(Link(t), loc[t].frames[1]))
  /\ entered' = entered \cup {loc[t].frames[1]}
  /\ Set(t, [loc[t] EXCEPT !.frames = Tail(@)])
  /\ Goto(t, "read fifo")

(* Mutant of SwapVictim: the victim's entry keeps its frame.               *)
SwapVictimKept(t) ==
  /\ loc[t].swp # NoFrame
  /\ Set(t, [StartWalk(t, loc[t].want) EXCEPT !.swp = NoFrame])
  /\ Goto(t, "test")
  /\ UNCHANGED << tables, entered >>

(* A page fault: pte_set_swap for the victim, then pte_set_fpn.            *)
SwapVictim(t) ==
  /\ loc[t].swp # NoFrame
  /\ SetEntry(loc[t].table, Index(t), Mem!SwapEntry(loc[t].swp))
  /\ Set(t, [StartWalk(t, loc[t].want) EXCEPT !.swp = NoFrame])
  /\ Goto(t, "test")
  /\ UNCHANGED entered

EnterPage(t) ==
  /\ loc[t].op = "access" /\ loc[t].swp = NoFrame
  /\ SetEntry(loc[t].table, Index(t), Mem!FpnEntry(Link(t), loc[t].fpn))
  /\ Goto(t, "read fifo")
  /\ UNCHANGED << loc, entered >>

SetLeaf(t) ==
  /\ At(t, "leaf")
  /\ MapPattern(t) \/ MapFrame(t) \/ SwapVictim(t) \/ EnterPage(t)
  /\ UNCHANGED << regionVars, mmvm_lock, slot, devVars, fifoVars, wild, raced,
                  shared, strayed, committed >>

(* enlist_pgn_node, for a page mapped by growth or brought in by a fault.  *)
ReadFifo(t) ==
  /\ At(t, "read fifo")
  /\ Set(t, [loc[t] EXCEPT !.list = fifo_pgn])
  /\ Goto(t, "enlist")
  /\ UNCHANGED << regionVars, tables, mmvm_lock, slot, devVars, fifoVars, wild,
                  historyVars >>

Enlist(t) ==
  /\ At(t, "enlist")
  /\ pgn_nodes' = Append(pgn_nodes, [pgn |-> Page(t), pg_next |-> loc[t].list])
  /\ fifo_pgn' = Len(pgn_nodes) + 1
  /\ IF loc[t].op = "access"
     THEN Set(t, StartWalk(t, loc[t].want)) /\ Goto(t, "find frame")
     ELSE NextPage(t)
  /\ UNCHANGED << regionVars, tables, mmvm_lock, slot, devVars, wild, historyVars >>

-----------------------------------------------------------------------------
(* pg_getpage: three walks that only read, for the page, for its victim    *)
(* and for the page's frame.  Every entry that is set is present, so a     *)
(* page that is not is not in swap either (libmem.c:268).                  *)

(* An entry whose number is that of a frame of the RAM.                    *)
Resides(entry) == entry.present /\ ~entry.swapped

(* PAGING_FPN of an entry, whatever it says, names the frame to access.    *)
AsFrame(entry) ==
  /\ wild' = ~Mem!InRam(Mem!PAGING_FPN(entry))
  /\ strayed' = (strayed \/ ~Resides(entry))

Found(t, entry) ==
  \/ /\ pc[t] = "find page"
     /\ Set(t, StartWalk(t, loc[t].want))
     /\ Goto(t, IF entry.present THEN "find frame" ELSE "victim")
     /\ UNCHANGED << mswp_free, wild, strayed >>
  \/ /\ pc[t] = "find victim"
     /\ IF mswp_free = << >>
        THEN Goto(t, "finish") /\ UNCHANGED << loc, mswp_free, wild, strayed >>
        ELSE /\ mswp_free' = Tail(mswp_free)
             /\ AsFrame(entry)
             /\ Set(t, [StartWalk(t, Page(t)) EXCEPT !.swp = Head(mswp_free),
                         !.fpn = Mem!PAGING_FPN(entry)])
             /\ Goto(t, "test")
  \/ /\ pc[t] = "find frame"
     /\ AsFrame(entry)
     /\ Goto(t, "finish")
     /\ UNCHANGED << loc, mswp_free >>

(* pte_get_entry, one level at a time.                                     *)
Find(t) ==
  /\ ~wild /\ pc[t] \in {"find page", "find victim", "find frame"}
  /\ IF loc[t].level = 1 THEN Found(t, Link(t))
     ELSE IF Link(t) = 0 THEN Found(t, ZeroEntry)
     ELSE /\ Set(t, [loc[t] EXCEPT !.table = Link(t), !.level = @ - 1])
          /\ UNCHANGED << pc, mswp_free, wild, strayed >>
  /\ UNCHANGED << regionVars, tables, mmvm_lock, slot, ramVars, fifoVars,
                  entered, raced, shared, committed >>

(* find_victim_page                                                        *)
ReadVictim(t) ==
  /\ At(t, "victim")
  /\ Set(t, [loc[t] EXCEPT !.list = fifo_pgn])
  /\ Goto(t, IF fifo_pgn = 0 THEN "finish" ELSE "unlink")
  /\ UNCHANGED << regionVars, tables, mmvm_lock, slot, devVars, fifoVars, wild,
                  historyVars >>

(* Others only push in front of the node read, so the way from it to the   *)
(* last one is a single step.                                              *)
Unlink(t) ==
  /\ At(t, "unlink")
  /\ LET chain == ChainFrom(loc[t].list)
         last == Last(chain)
         victim == pgn_nodes[last].pgn
     IN  IF \E i \in DOMAIN chain : pgn_nodes[chain[i]].pgn = NoPage
         THEN wild' = TRUE /\ UNCHANGED << pc, loc, fifoVars >>
         ELSE /\ fifo_pgn' = IF Len(chain) = 1 THEN 0 ELSE fifo_pgn
              /\ pgn_nodes' = [m \in DOMAIN pgn_nodes |->
                   IF m = last THEN [pgn_nodes[m] EXCEPT !.pgn = NoPage]
                   ELSE IF m \in ToSet(Front(chain)) /\ pgn_nodes[m].pg_next = last
                   THEN [pgn_nodes[m] EXCEPT !.pg_next = 0]
                   ELSE pgn_nodes[m]]
              /\ Set(t, StartWalk(t, victim))
              /\ Goto(t, "find victim")
              /\ UNCHANGED wild
  /\ UNCHANGED << regionVars, tables, mmvm_lock, slot, devVars, historyVars >>

-----------------------------------------------------------------------------
(* Mutant of Release: the lock is kept when no frame could be had.         *)
ReleaseIfMapped(t) ==
  mmvm_lock' = IF mmvm_lock = t /\ loc[t].level = 1 THEN NoCPU ELSE mmvm_lock

Release(t) == mmvm_lock' = IF mmvm_lock = t THEN NoCPU ELSE mmvm_lock

(* ALLOC enters its region whatever inc_vma_limit returned; INC gives the  *)
(* bytes to nobody; READ and WRITE ignore a page that could not be had.    *)
Finish(t) ==
  /\ At(t, "finish")
  /\ LET r == loc[t].r
         size == loc[t].size
     IN  IF loc[t].op = "alloc"
         THEN /\ symrgtbl' = [symrgtbl EXCEPT ![r] = Rg(loc[t].brk, loc[t].brk + size)]
              /\ leaked' = leaked + Length(symrgtbl[r])
         ELSE /\ leaked' = leaked + (IF loc[t].op = "inc" THEN size ELSE 0)
              /\ UNCHANGED symrgtbl
  /\ Release(t)
  /\ Goto(t, "arrived")
  /\ Set(t, NoCall)
  /\ UNCHANGED << vm_freerg_list, limitVars, tables, slot, devVars, fifoVars, wild,
                  entered, raced, shared, strayed >>
  /\ Commit

AllArrived == \A t \in CPUs : pc[t] = "arrived"

(* Every CPU is in next_slot: the timer lets the next slot begin.          *)
NextSlot ==
  /\ ~wild
  /\ AllArrived
  /\ slot < MaxSlots
  /\ slot' = slot + 1
  /\ pc' = [t \in CPUs |-> "idle"]
  /\ UNCHANGED << regionVars, tables, mmvm_lock, loc, devVars, fifoVars, wild,
                  historyVars >>

Ended ==
  /\ wild \/ (slot = MaxSlots /\ AllArrived)
  /\ UNCHANGED kvars

Begin(t) ==
  /\ ~wild
  /\ \/ Skip(t)
     \/ \E r \in RgIds, size \in Sizes : Request(t, "alloc", r, size)
     \/ \E r \in RgIds : Request(t, "free", r, 0)
     \/ \E offset \in Offsets :
          \/ Request(t, "read", 0, offset)
          \/ \E r \in RgIds : Request(t, "write", r, offset)
     \/ Underlock(t)
     \/ BeginAlloc(t)
     \/ BeginAccess(t)
     \/ IF CallerLayoutAgrees
        THEN \/ \E size \in Sizes : BeginInc(t, size)
             \/ \E start \in MapStarts, n \in MapSizes : BeginMap(t, start, n)
        ELSE StrayCaller(t)

CPUStep(t) ==
  \/ Begin(t)
  \/ Limits(t)
  \/ GetFrame(t) \/ PopFrame(t) \/ PutRead(t) \/ PutFrame(t)
  \/ TestLink(t) \/ LinkTable(t) \/ Descend(t) \/ SetLeaf(t)
  \/ ReadFifo(t) \/ Enlist(t)
  \/ Find(t) \/ ReadVictim(t) \/ Unlink(t)
  \/ Finish(t)

Step == (\E t \in CPUs : CPUStep(t)) \/ NextSlot

KernelMemNext == Step \/ Ended

(* The host runs some thread as long as one can run.                       *)
KernelMemSpec == KernelMemInit /\ [][KernelMemNext]_kvars /\ WF_kvars(Step)

-----------------------------------------------------------------------------
(* Properties                                                              *)

Labels == {"idle", "lock", "arrived", "end", "load end", "store end",
           "load brk", "store brk", "get", "pop", "put", "push", "test", "link",
           "descend", "leaf", "read fifo", "enlist", "find page", "victim",
           "unlink", "find victim", "find frame", "finish"}

KernelMemTypeOK ==
  /\ RegionsTypeOK
  /\ mmvm_lock \in CPUs \cup {NoCPU}
  /\ pc \in [CPUs -> Labels]
  /\ \A t \in CPUs : /\ loc[t].op \in {"none", "alloc", "free", "inc", "map",
                                        "read", "write", "access"}
                     /\ loc[t].frames \in Seq(Frames)
                     /\ loc[t].level \in 1..Levels
                     /\ loc[t].table \in DOMAIN tables
  /\ slot \in 1..MaxSlots
  /\ free_fp_list \in Frames \cup {NoFrame}
  /\ fp_next \in [Frames -> Frames \cup {NoFrame}]
  /\ allocated \subseteq Frames
  /\ mswp_free \in Seq(0..(NumSwp - 1))
  /\ pgn_nodes \in Seq([pgn : Nat \cup {NoPage}, pg_next : 0..Len(pgn_nodes)])
  /\ fifo_pgn \in 0..Len(pgn_nodes)
  /\ << wild, raced, shared, strayed >> \in BOOLEAN \X BOOLEAN \X BOOLEAN \X BOOLEAN
  /\ entered \subseteq Frames

(* As long as no system call has overlapped another call, the calls have   *)
(* the effect of the atomic ones of VMem: failed allocations, lazily       *)
(* allocated tables and the walks of a page fault included.  (This is      *)
(* Mem!Spec: committed gives all the variables of Mem their values.)       *)
AtomicUntilOverlap ==
  Mem!Init /\ [][committed' # committed => Mem!Next]_committed

(* The frames a call has taken and not entered in the page table yet.      *)
Held(t) == ToSet(loc[t].frames)

(* Until a growing system call overlaps another growth, every frame of the *)
(* RAM is in the free list, in the hands of one CPU, or was entered in the *)
(* page table once and is never again in one of the other two (the page    *)
(* may have lost it since, to a MAP or another growth); the list follows   *)
(* no freed node.                                                          *)
FramesAccounted ==
  ~raced =>
    /\ LET list == FreeFrames IN IsInjective(list) /\ ToSet(list) = allocated
    /\ allocated \cup entered \cup UNION {Held(t) : t \in CPUs} = Frames
    /\ allocated \cap entered = {}
    /\ \A t \in CPUs : /\ IsInjective(loc[t].frames)
                       /\ Held(t) \cap (allocated \cup entered) = {}
                       /\ \A u \in CPUs \ {t} : Held(t) \cap Held(u) = {}

(* ... and the page table leads to frames of the third kind only: with     *)
(* FramesAccounted, no page in the RAM has a frame that is free or in the  *)
(* hands of a CPU.  READ, WRITE and MAP may run at any time; it ends when  *)
(* the number of an entry that names no frame is used as one.              *)
FramesConserved ==
  /\ FramesAccounted
  /\ ~strayed =>
       \A p \in 0..MaxPage :
         LET entry == pte_walk(p)
         IN  Resides(entry) => Mem!PAGING_FPN(entry) \in entered

(* No two pages in the RAM have the same frame, even after growths have    *)
(* overlapped or tables were lost to the race of two walks (LinkTable): a  *)
(* frame passes from the victim of a fault to the page wanted, whatever    *)
(* INC and MAP do to their entries between the walks.                      *)
FramesApart ==
  ~strayed =>
    LET inRam == {entry \in {<< p, pte_walk(p) >> : p \in 0..MaxPage} : Resides(entry[2])}
        used == {Mem!PAGING_FPN(entry[2]) : entry \in inRam}
    IN  Cardinality(used) = Cardinality(inRam)

(* ... and the regions handed out are disjoint: one CPU may FREE and ALLOC *)
(* from the free list while another grows the area.                        *)
RegionsKept == ~raced => RegionsDisjoint /\ RegionsInArea

(* Every call returns and every slot ends, those waiting for the lock      *)
(* included, unless the behaviour has become undefined.                    *)
EverySlotEnds == <>(wild \/ (AllArrived /\ slot = MaxSlots))
=============================================================================
