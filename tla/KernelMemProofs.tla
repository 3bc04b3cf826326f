-------------------------- MODULE KernelMemProofs --------------------------
(***************************************************************************)
(* Proof, for any number of CPUs, symbols, pages and frames, that the      *)
(* regions survive the memory calls of several CPUs at the grain of single *)
(* accesses, for as long as no growing system call has overlapped another  *)
(* growth.                                                                 *)
(*                                                                         *)
(* The argument: mmvm_lock keeps ALLOC, FREE, READ and WRITE apart, so     *)
(* with the overlaps of SYSMEM_INC_OP excluded at most one CPU is between  *)
(* inc_vma_limit and the end of its call.  What that CPU has read of       *)
(* vm_end and sbrk is still true when it writes them, and if it allocates, *)
(* no region comes to lie in [brk, brk + size) before it enters its own.   *)
(***************************************************************************)
EXTENDS KernelMem, RegionsProofs

Fields == {"op", "r", "size", "n", "brk", "page", "tmp", "list", "frames", "k",
           "level", "table", "want", "fpn", "swp"}

(* Before the break has been written by inc_vma_limit.                     *)
Early == {"end", "load end", "store end", "load brk", "store brk"}

Growing(t) == Inside(t) /\ loc[t].op \in {"alloc", "inc"}

Locking(t) == Inside(t) /\ loc[t].op \in {"alloc", "access"}

CallOK(t) ==
  /\ DOMAIN loc[t] = Fields
  /\ pc[t] \notin {"idle", "arrived"} =>
       /\ loc[t].op \in {"alloc", "free"} => loc[t].r \in RgIds
       /\ loc[t].op \in {"alloc", "inc"} => loc[t].size \in Nat
  /\ pc[t] \in Early => Growing(t) /\ loc[t].n = PagesOf(loc[t].size)

(* No region has its end beyond address a.                                 *)
Below(a) ==
  /\ \A r \in RgIds : symrgtbl[r].rg_end <= a
  /\ \A k \in DOMAIN vm_freerg_list : vm_freerg_list[k].rg_end <= a

(* How far the growth by t has come, and that its gap is still empty.      *)
GrowthOK(t) ==
  /\ pc[t] = "store end" => loc[t].tmp = vm_end
  /\ pc[t] \in {"load brk", "store brk"} => sbrk + loc[t].size <= vm_end
  /\ pc[t] = "store brk" => loc[t].tmp = sbrk
  /\ loc[t].op = "alloc" =>
       /\ loc[t].brk \in Nat
       /\ Below(loc[t].brk)
       /\ sbrk = IF pc[t] \in Early THEN loc[t].brk ELSE loc[t].brk + loc[t].size

CallsOK ==
  /\ DOMAIN pc = CPUs /\ DOMAIN loc = CPUs
  /\ \A t \in CPUs : CallOK(t)

LockOK == \A t \in CPUs : Locking(t) => mmvm_lock = t

GrowersOK ==
  /\ \A t, u \in CPUs : Growing(t) /\ Growing(u) => t = u
  /\ \A t \in CPUs : Growing(t) => GrowthOK(t)

KInv == CallsOK /\ LockOK /\ (~raced => RInv /\ GrowersOK)

-----------------------------------------------------------------------------
(* What most steps do: change locals that the regions do not depend on.    *)

SameCall(t, call) ==
  /\ DOMAIN call = Fields
  /\ call.op = loc[t].op /\ call.r = loc[t].r /\ call.size = loc[t].size
  /\ call.n = loc[t].n /\ call.brk = loc[t].brk

(* No CPU but t does anything.                                             *)
OthersStay(t) ==
  /\ DOMAIN pc' = CPUs /\ DOMAIN loc' = CPUs
  /\ \A u \in CPUs \ {t} : pc'[u] = pc[u] /\ loc'[u] = loc[u]

Away == {"idle", "lock", "arrived"}

Aside(t) ==
  /\ UNCHANGED << regionVars, mmvm_lock, raced >>
  /\ OthersStay(t)
  /\ Inside(t) /\ pc[t] \notin Early
  /\ pc'[t] \notin Away \cup Early
  /\ SameCall(t, loc'[t])

LEMMA Moved ==
  ASSUME CallsOK, NEW t \in CPUs, NEW label, NEW call,
         pc' = [pc EXCEPT ![t] = label], loc' = [loc EXCEPT ![t] = call]
  PROVE  OthersStay(t) /\ pc'[t] = label /\ loc'[t] = call
  BY DEF CallsOK, OthersStay

LEMMA MovedOnly ==
  ASSUME CallsOK, NEW t \in CPUs, NEW label,
         pc' = [pc EXCEPT ![t] = label], loc' = loc
  PROVE  OthersStay(t) /\ pc'[t] = label /\ loc'[t] = loc[t]
  BY DEF CallsOK, OthersStay

LEMMA SetOnly ==
  ASSUME CallsOK, NEW t \in CPUs, NEW call,
         pc' = pc, loc' = [loc EXCEPT ![t] = call]
  PROVE  OthersStay(t) /\ pc'[t] = pc[t] /\ loc'[t] = call
  BY DEF CallsOK, OthersStay

LEMMA StaysPut ==
  ASSUME CallsOK, NEW t \in CPUs, pc' = pc, loc' = loc
  PROVE  OthersStay(t) /\ pc'[t] = pc[t] /\ loc'[t] = loc[t]
  BY DEF CallsOK, OthersStay

LEMMA RegionsUnchanged ==
  ASSUME RInv, UNCHANGED regionVars
  PROVE  RInv'
  BY StepInvariant

LEMMA AsideInvariant ==
  ASSUME KInv, NEW t \in CPUs, Aside(t)
  PROVE  KInv'
<1>1. /\ UNCHANGED << regionVars, mmvm_lock, raced >>
      /\ symrgtbl' = symrgtbl /\ vm_freerg_list' = vm_freerg_list
      /\ sbrk' = sbrk /\ vm_end' = vm_end
  BY DEF Aside, regionVars
<1>2. \A u \in CPUs : /\ Growing(u)' <=> Growing(u)
                      /\ Locking(u)' <=> Locking(u)
                      /\ Inside(u)' <=> Inside(u)
  BY DEF Aside, OthersStay, SameCall, Growing, Locking, Inside, Away
<1>3. CallsOK'
  <2>1. \A u \in CPUs \ {t} : CallOK(u)'
    BY <1>2 DEF Aside, OthersStay, KInv, CallsOK, CallOK
  <2>2. CallOK(t)'
    <3>1. CallOK(t)
      BY DEF KInv, CallsOK
    <3> QED
      BY <3>1 DEF Aside, SameCall, CallOK, Away, Inside, Early
  <2> QED
    BY <2>1, <2>2 DEF Aside, OthersStay, CallsOK
<1>4. LockOK'
  BY <1>1, <1>2 DEF KInv, LockOK
<1>5. ~raced' => RInv'
  BY <1>1, RegionsUnchanged DEF KInv
<1>6. ~raced' => GrowersOK'
  <2> SUFFICES ASSUME ~raced PROVE GrowersOK'
    BY <1>1
  <2>1. GrowersOK
    BY DEF KInv
  <2>2. ASSUME NEW u \in CPUs, Growing(u) PROVE GrowthOK(u)'
    <3>1. GrowthOK(u)
      BY <2>1, <2>2 DEF GrowersOK
    <3>2. CASE u # t
      BY <1>1, <3>1, <3>2 DEF Aside, OthersStay, GrowthOK, Below
    <3>3. CASE u = t
      BY <1>1, <3>1, <3>3 DEF Aside, SameCall, GrowthOK, Below, Early, Away
    <3> QED
      BY <3>2, <3>3
  <2> QED
    BY <1>2, <2>1, <2>2 DEF GrowersOK
<1> QED
  BY <1>3, <1>4, <1>5, <1>6 DEF KInv

(* The locals of a walk are those of the same call.                        *)
LEMMA WalkSameCall ==
  ASSUME NEW t \in CPUs, DOMAIN loc[t] = Fields, NEW p
  PROVE  SameCall(t, StartWalk(t, p))
  BY DEF SameCall, StartWalk, Fields

LEMMA NextPageSameCall ==
  ASSUME CallsOK, NEW t \in CPUs, NextPage(t)
  PROVE  OthersStay(t) /\ pc'[t] \in {"test", "finish"} /\ SameCall(t, loc'[t])
<1>1. DOMAIN loc[t] = Fields
  BY DEF CallsOK, CallOK
<1>2. CASE loc[t].k < loc[t].n
  <2>1. PICK call : call = [loc[t] EXCEPT !.k = @ + 1, !.level = Levels, !.table = 1]
    OBVIOUS
  <2>2. SameCall(t, call)
    BY <1>1, <2>1 DEF SameCall, Fields
  <2> QED
    BY <1>2, <2>1, <2>2, Moved DEF NextPage, Goto, Set
<1>3. CASE ~(loc[t].k < loc[t].n)
  <2>1. SameCall(t, loc[t])
    BY <1>1 DEF SameCall
  <2> QED
    BY <1>3, <2>1, MovedOnly DEF NextPage, Goto
<1> QED
  BY <1>2, <1>3

(* The frames and the free list.                                           *)
LEMMA FrameStepAside ==
  ASSUME CallsOK, NEW t \in CPUs,
         GetFrame(t) \/ PopFrame(t) \/ PutRead(t) \/ PutFrame(t)
  PROVE  Aside(t)
<1>1. DOMAIN loc[t] = Fields /\ SameCall(t, loc[t])
  BY DEF CallsOK, CallOK, SameCall
<1>2. CASE GetFrame(t)
  <2>1. PICK call : call = [loc[t] EXCEPT !.tmp = free_fp_list]
    OBVIOUS
  <2>2. SameCall(t, call)
    BY <1>1, <2>1 DEF SameCall, Fields
  <2>3. OthersStay(t) /\ loc'[t] = call /\ pc'[t] \in {"pop", "put", "finish"}
    BY <1>2, <2>1, Moved DEF GetFrame, Goto, Set, AfterRunOut
  <2> QED
    BY <1>2, <2>2, <2>3 DEF GetFrame, At, Aside, Inside, Early, Away, historyVars
<1>3. CASE PopFrame(t)
  <2>1. /\ UNCHANGED << regionVars, mmvm_lock, raced >>
        /\ pc[t] = "pop"
    BY <1>3 DEF PopFrame, At, historyVars
  <2>2. CASE loc[t].tmp \notin allocated
    BY <1>1, <1>3, <2>1, <2>2, StaysPut DEF PopFrame, Aside, Inside, Early, Away
  <2>3. CASE loc[t].tmp \in allocated
    <3>1. PICK call : call = [loc[t] EXCEPT !.frames = Append(@, loc[t].tmp)]
      OBVIOUS
    <3>2. SameCall(t, call)
      BY <1>1, <3>1 DEF SameCall, Fields
    <3>3. OthersStay(t) /\ loc'[t] = call /\ pc'[t] \in {"get", "test"}
      BY <1>3, <2>3, <3>1, Moved DEF PopFrame, Goto, Set
    <3> QED
      BY <2>1, <3>2, <3>3 DEF Aside, Inside, Early, Away
  <2> QED
    BY <2>2, <2>3
<1>4. CASE PutRead(t)
  <2>1. PICK call : call = [loc[t] EXCEPT !.tmp = free_fp_list]
    OBVIOUS
  <2>2. SameCall(t, call)
    BY <1>1, <2>1 DEF SameCall, Fields
  <2>3. OthersStay(t) /\ loc'[t] = call /\ pc'[t] = "push"
    BY <1>4, <2>1, Moved DEF PutRead, Goto, Set
  <2> QED
    BY <1>4, <2>2, <2>3 DEF PutRead, At, Aside, Inside, Early, Away, historyVars
<1>5. CASE PutFrame(t)
  <2>1. PICK call : call = [loc[t] EXCEPT !.frames = Tail(loc[t].frames)]
    OBVIOUS
  <2>2. SameCall(t, call)
    BY <1>1, <2>1 DEF SameCall, Fields
  <2>3. OthersStay(t) /\ loc'[t] = call /\ pc'[t] \in {"put", "finish"}
    BY <1>5, <2>1, Moved DEF PutFrame, Goto, Set
  <2> QED
    BY <1>5, <2>2, <2>3 DEF PutFrame, At, Aside, Inside, Early, Away, historyVars
<1> QED
  BY <1>2, <1>3, <1>4, <1>5

(* The walk that makes tables, and the entry at its end.                   *)
LEMMA WalkStepAside ==
  ASSUME CallsOK, NEW t \in CPUs, TestLink(t) \/ LinkTable(t) \/ Descend(t)
  PROVE  Aside(t)
<1>1. DOMAIN loc[t] = Fields /\ SameCall(t, loc[t])
  BY DEF CallsOK, CallOK, SameCall
<1>2. CASE TestLink(t)
  <2>1. OthersStay(t) /\ loc'[t] = loc[t] /\ pc'[t] \in {"link", "descend"}
    BY <1>2, MovedOnly DEF TestLink, Goto
  <2> QED
    BY <1>1, <1>2, <2>1 DEF TestLink, At, Aside, Inside, Early, Away, historyVars
<1>3. CASE LinkTable(t)
  <2>1. OthersStay(t) /\ loc'[t] = loc[t] /\ pc'[t] = "descend"
    BY <1>3, MovedOnly DEF LinkTable, Goto
  <2> QED
    BY <1>1, <1>3, <2>1 DEF LinkTable, At, Aside, Inside, Early, Away, historyVars
<1>4. CASE Descend(t)
  <2>1. PICK call : call = [loc[t] EXCEPT !.table = Link(t), !.level = @ - 1]
    OBVIOUS
  <2>2. SameCall(t, call)
    BY <1>1, <2>1 DEF SameCall, Fields
  <2>3. loc' = [loc EXCEPT ![t] = call]
    BY <1>4, <2>1 DEF Descend, Set
  <2>4. PICK label \in {"leaf", "test"} : pc' = [pc EXCEPT ![t] = label]
    BY <1>4 DEF Descend, Goto
  <2>5. OthersStay(t) /\ loc'[t] = call /\ pc'[t] \in {"leaf", "test"}
    BY <2>3, <2>4, Moved
  <2> QED
    BY <1>4, <2>2, <2>5 DEF Descend, At, Aside, Inside, Early, Away, historyVars
<1> QED
  BY <1>2, <1>3, <1>4

LEMMA SetLeafAside ==
  ASSUME CallsOK, NEW t \in CPUs, SetLeaf(t)
  PROVE  Aside(t)
<1>1. DOMAIN loc[t] = Fields /\ SameCall(t, loc[t])
  BY DEF CallsOK, CallOK, SameCall
<1>2. UNCHANGED << regionVars, mmvm_lock, raced >> /\ pc[t] = "leaf"
  BY DEF SetLeaf, At
<1>3. SUFFICES OthersStay(t) /\ SameCall(t, loc'[t])
               /\ pc'[t] \in {"test", "finish", "read fifo"}
  BY <1>2 DEF Aside, Inside, Early, Away
<1>4. CASE MapPattern(t)
  BY <1>4, NextPageSameCall DEF MapPattern
<1>5. CASE MapFrame(t)
  <2>1. PICK call : call = [loc[t] EXCEPT !.frames = Tail(@)]
    OBVIOUS
  <2>2. SameCall(t, call)
    BY <1>1, <2>1 DEF SameCall, Fields
  <2> QED
    BY <1>5, <2>1, <2>2, Moved DEF MapFrame, Goto, Set
<1>6. CASE SwapVictim(t)
  <2>1. PICK call : call = [StartWalk(t, loc[t].want) EXCEPT !.swp = NoFrame]
    OBVIOUS
  <2>2. SameCall(t, call)
    BY <1>1, <2>1 DEF SameCall, StartWalk, Fields
  <2> QED
    BY <1>6, <2>1, <2>2, Moved DEF SwapVictim, Goto, Set
<1>7. CASE EnterPage(t)
  BY <1>1, <1>7, MovedOnly DEF EnterPage, Goto
<1> QED
  BY <1>4, <1>5, <1>6, <1>7 DEF SetLeaf

(* The list of pages.                                                      *)
LEMMA FifoStepAside ==
  ASSUME CallsOK, NEW t \in CPUs,
         ReadFifo(t) \/ Enlist(t) \/ ReadVictim(t) \/ Unlink(t)
  PROVE  Aside(t)
<1>1. DOMAIN loc[t] = Fields /\ SameCall(t, loc[t])
  BY DEF CallsOK, CallOK, SameCall
<1>2. PICK listed : listed = [loc[t] EXCEPT !.list = fifo_pgn]
  OBVIOUS
<1>3. SameCall(t, listed)
  BY <1>1, <1>2 DEF SameCall, Fields
<1>4. CASE ReadFifo(t)
  <2>1. OthersStay(t) /\ loc'[t] = listed /\ pc'[t] = "enlist"
    BY <1>2, <1>4, Moved DEF ReadFifo, Goto, Set
  <2> QED
    BY <1>3, <1>4, <2>1 DEF ReadFifo, At, Aside, Inside, Early, Away, historyVars
<1>5. CASE ReadVictim(t)
  <2>1. OthersStay(t) /\ loc'[t] = listed /\ pc'[t] \in {"finish", "unlink"}
    BY <1>2, <1>5, Moved DEF ReadVictim, Goto, Set
  <2> QED
    BY <1>3, <1>5, <2>1 DEF ReadVictim, At, Aside, Inside, Early, Away, historyVars
<1>6. CASE Enlist(t)
  <2>1. UNCHANGED << regionVars, mmvm_lock, raced >> /\ pc[t] = "enlist"
    BY <1>6 DEF Enlist, At, historyVars
  <2>2. OthersStay(t) /\ SameCall(t, loc'[t])
        /\ pc'[t] \in {"find frame", "test", "finish"}
    <3>1. CASE loc[t].op = "access"
      <4>1. PICK call : call = StartWalk(t, loc[t].want)
        OBVIOUS
      <4>2. SameCall(t, call)
        BY <1>1, <4>1, WalkSameCall
      <4> QED
        BY <1>6, <3>1, <4>1, <4>2, Moved DEF Enlist, Goto, Set
    <3>2. CASE loc[t].op # "access"
      BY <1>6, <3>2, NextPageSameCall DEF Enlist
    <3> QED
      BY <3>1, <3>2
  <2> QED
    BY <2>1, <2>2 DEF Aside, Inside, Early, Away
<1>7. CASE Unlink(t)
  <2>1. UNCHANGED << regionVars, mmvm_lock, raced >> /\ pc[t] = "unlink"
    BY <1>7 DEF Unlink, At, historyVars
  <2>2. \/ pc' = pc /\ loc' = loc
        \/ \E p : Set(t, StartWalk(t, p)) /\ Goto(t, "find victim")
    BY <1>7 DEF Unlink
  <2>3. CASE pc' = pc /\ loc' = loc
    BY <1>1, <2>1, <2>3, StaysPut DEF Aside, Inside, Early, Away
  <2>4. CASE \E p : Set(t, StartWalk(t, p)) /\ Goto(t, "find victim")
    <3>1. PICK p : Set(t, StartWalk(t, p)) /\ Goto(t, "find victim")
      BY <2>4
    <3>2. PICK call : call = StartWalk(t, p)
      OBVIOUS
    <3>3. SameCall(t, call)
      BY <1>1, <3>2, WalkSameCall
    <3>4. OthersStay(t) /\ loc'[t] = call /\ pc'[t] = "find victim"
      BY <3>1, <3>2, Moved DEF Goto, Set
    <3> QED
      BY <2>1, <3>3, <3>4 DEF Aside, Inside, Early, Away
  <2> QED
    BY <2>2, <2>3, <2>4
<1> QED
  BY <1>4, <1>5, <1>6, <1>7

(* The walks of pg_getpage that only read.                                 *)
LEMMA FoundSameCall ==
  ASSUME CallsOK, NEW t \in CPUs, NEW entry, Found(t, entry)
  PROVE  OthersStay(t) /\ SameCall(t, loc'[t])
         /\ pc'[t] \in {"find frame", "victim", "test", "finish"}
<1>1. DOMAIN loc[t] = Fields /\ SameCall(t, loc[t])
  BY DEF CallsOK, CallOK, SameCall
<1>2. CASE pc[t] = "find page"
  <2>1. PICK call : call = StartWalk(t, loc[t].want)
    OBVIOUS
  <2>2. SameCall(t, call)
    BY <1>1, <2>1, WalkSameCall
  <2>3. PICK label \in {"find frame", "victim"} : pc' = [pc EXCEPT ![t] = label]
    BY <1>2 DEF Found, Goto
  <2>4. loc' = [loc EXCEPT ![t] = call]
    BY <1>2, <2>1 DEF Found, Set
  <2> QED
    BY <2>2, <2>3, <2>4, Moved
<1>3. CASE pc[t] = "find victim"
  <2>1. CASE mswp_free = << >>
    BY <1>1, <1>3, <2>1, MovedOnly DEF Found, Goto
  <2>2. CASE mswp_free # << >>
    <3>1. PICK call : call = [StartWalk(t, Page(t)) EXCEPT !.swp = Head(mswp_free),
                         !.fpn = Mem!PAGING_FPN(entry)]
      OBVIOUS
    <3>2. SameCall(t, call)
      BY <1>1, <3>1 DEF SameCall, StartWalk, Fields
    <3> QED
      BY <1>3, <2>2, <3>1, <3>2, Moved DEF Found, Goto, Set
  <2> QED
    BY <2>1, <2>2
<1>4. CASE pc[t] = "find frame"
  <2>1. pc' = [pc EXCEPT ![t] = "finish"] /\ loc' = loc
    BY <1>4 DEF Found, Goto
  <2> QED
    BY <1>1, <2>1, MovedOnly
<1> QED
  BY <1>2, <1>3, <1>4 DEF Found

LEMMA FindAside ==
  ASSUME CallsOK, NEW t \in CPUs, Find(t)
  PROVE  Aside(t)
<1>1. DOMAIN loc[t] = Fields /\ SameCall(t, loc[t])
  BY DEF CallsOK, CallOK, SameCall
<1>2. /\ UNCHANGED << regionVars, mmvm_lock, raced >>
      /\ pc[t] \in {"find page", "find victim", "find frame"}
  BY DEF Find, historyVars
<1>3. SUFFICES OthersStay(t) /\ SameCall(t, loc'[t])
               /\ pc'[t] \in {"find page", "find frame", "find victim", "victim",
                              "test", "finish"}
  BY <1>2 DEF Aside, Inside, Early, Away
<1>4. CASE Found(t, Link(t)) \/ Found(t, ZeroEntry)
  BY <1>4, FoundSameCall
<1>5. CASE /\ Set(t, [loc[t] EXCEPT !.table = Link(t), !.level = @ - 1])
           /\ UNCHANGED << pc, mswp_free, wild, strayed >>
  <2>1. PICK call : call = [loc[t] EXCEPT !.table = Link(t), !.level = @ - 1]
    OBVIOUS
  <2>2. SameCall(t, call)
    BY <1>1, <2>1 DEF SameCall, Fields
  <2> QED
    BY <1>2, <1>5, <2>1, <2>2, SetOnly DEF Set
<1> QED
  BY <1>4, <1>5 DEF Find

-----------------------------------------------------------------------------
(* Steps that begin or end a call                                          *)

LockStep(t) ==
  /\ mmvm_lock' = mmvm_lock \/ mmvm_lock \in {NoCPU, t}
  /\ Locking(t)' => mmvm_lock' = t

(* The lock passes from nobody or from t, to t or to nobody.               *)
LEMMA LockStepOK ==
  ASSUME LockOK, NEW t \in CPUs, OthersStay(t), LockStep(t)
  PROVE  LockOK'
<1> SUFFICES ASSUME NEW u \in CPUs, Locking(u)' PROVE mmvm_lock' = u
  BY DEF LockOK
<1>1. CASE u = t
  BY <1>1 DEF LockStep
<1>2. CASE u # t
  <2>1. Locking(u)
    BY <1>2 DEF OthersStay, Locking, Inside
  <2> QED
    BY <1>2, <2>1, KernelMemAssumption DEF LockOK, LockStep
<1> QED
  BY <1>1, <1>2

(* A CPU that does not grow the area after its step leaves the growth of   *)
(* another alone, if it touches the regions only when it may hold the lock.*)
LEMMA NoGrowthInvariant ==
  ASSUME KInv, NEW t \in CPUs, OthersStay(t), LockStep(t), CallOK(t)', ~Growing(t)',
         raced => raced', ~raced => RInv', UNCHANGED << sbrk, vm_end >>,
         UNCHANGED << symrgtbl, vm_freerg_list >> \/ mmvm_lock \in {NoCPU, t}
  PROVE  KInv'
<1>1. CallsOK'
  BY DEF KInv, CallsOK, OthersStay, CallOK, Growing, Inside
<1>2. LockOK'
  BY LockStepOK DEF KInv
<1>3. ASSUME ~raced PROVE GrowersOK'
  <2>1. GrowersOK /\ LockOK
    BY <1>3 DEF KInv
  <2>2. \A u \in CPUs : Growing(u)' => u # t /\ Growing(u)
    BY DEF OthersStay, Growing, Inside
  <2>3. ASSUME NEW u \in CPUs, Growing(u)' PROVE GrowthOK(u)'
    <3>1. u # t /\ Growing(u) /\ GrowthOK(u) /\ pc'[u] = pc[u] /\ loc'[u] = loc[u]
      BY <2>1, <2>2, <2>3 DEF GrowersOK, OthersStay
    <3>2. CASE loc[u].op = "alloc"
      <4>1. mmvm_lock = u
        BY <2>1, <3>1, <3>2 DEF LockOK, Locking, Growing
      <4>2. UNCHANGED << symrgtbl, vm_freerg_list >>
        BY <3>1, <4>1, KernelMemAssumption
      <4> QED
        BY <3>1, <4>2 DEF GrowthOK, Below
    <3>3. CASE loc[u].op # "alloc"
      BY <3>1, <3>3 DEF GrowthOK
    <3> QED
      BY <3>2, <3>3
  <2> QED
    BY <2>1, <2>2, <2>3 DEF GrowersOK
<1> QED
  BY <1>1, <1>2, <1>3 DEF KInv

LEMMA NewCall ==
  ASSUME NEW op, NEW r, NEW size
  PROVE  /\ DOMAIN NoCall = Fields /\ NoCall.op = "none"
         /\ LET call == [NoCall EXCEPT !.op = op, !.r = r, !.size = size]
            IN  DOMAIN call = Fields /\ call.op = op /\ call.r = r /\ call.size = size
  BY DEF NoCall, Fields

(* Waiting for the lock, and everything that is over at once.              *)
LEMMA SkipInvariant ==
  ASSUME KInv, NEW t \in CPUs, Skip(t)
  PROVE  KInv'
<1>1. CallsOK
  BY DEF KInv
<1>2. /\ OthersStay(t) /\ pc'[t] = "arrived" /\ loc'[t] = loc[t]
      /\ UNCHANGED << regionVars, mmvm_lock, raced >>
  BY <1>1, MovedOnly DEF Skip, Goto, historyVars
<1>3. CallOK(t)' /\ ~Growing(t)' /\ LockStep(t)
  BY <1>1, <1>2 DEF CallsOK, CallOK, Growing, Locking, Inside, LockStep, Early
<1>4. ~raced => RInv'
  BY <1>2, RegionsUnchanged DEF KInv
<1> QED
  BY <1>2, <1>3, <1>4, NoGrowthInvariant DEF regionVars

LEMMA RequestInvariant ==
  ASSUME KInv, NEW t \in CPUs, NEW op, NEW r, NEW size, Request(t, op, r, size),
         op \in {"alloc", "free"} => r \in RgIds, op = "alloc" => size \in Nat,
         op # "inc"
  PROVE  KInv'
<1>1. CallsOK
  BY DEF KInv
<1>2. PICK call : call = [NoCall EXCEPT !.op = op, !.r = r, !.size = size]
  OBVIOUS
<1>3. DOMAIN call = Fields /\ call.op = op /\ call.r = r /\ call.size = size
  BY <1>2, NewCall
<1>4. /\ OthersStay(t) /\ pc'[t] = "lock" /\ loc'[t] = call
      /\ UNCHANGED << regionVars, mmvm_lock, raced >>
  BY <1>1, <1>2, Moved DEF Request, Goto, Set, historyVars
<1>5. CallOK(t)' /\ ~Growing(t)' /\ LockStep(t)
  BY <1>3, <1>4 DEF CallOK, Growing, Locking, Inside, LockStep, Early
<1>6. ~raced => RInv'
  BY <1>4, RegionsUnchanged DEF KInv
<1> QED
  BY <1>4, <1>5, <1>6, NoGrowthInvariant DEF regionVars

LEMMA UnderlockInvariant ==
  ASSUME KInv, NEW t \in CPUs, Underlock(t)
  PROVE  KInv'
<1>1. CallsOK /\ pc[t] = "lock" /\ mmvm_lock = NoCPU /\ mmvm_lock' = mmvm_lock
      /\ raced' = raced
  BY DEF KInv, Underlock
<1>2. OthersStay(t) /\ pc'[t] = "arrived" /\ loc'[t] = NoCall
  BY <1>1, Moved DEF Underlock, Goto, Set
<1>3. CallOK(t)' /\ ~Growing(t)' /\ LockStep(t)
  BY <1>1, <1>2, NewCall DEF CallOK, Growing, Locking, Inside, LockStep, Early
<1>4. PICK r : r = loc[t].r
  OBVIOUS
<1>5. PICK size : size = loc[t].size
  OBVIOUS
<1>6. /\ loc[t].op \in {"alloc", "free"} => r \in RgIds
      /\ loc[t].op = "alloc" => size \in Nat
  BY <1>1, <1>4, <1>5 DEF CallsOK, CallOK
<1>7. \/ r \in RgIds /\ size \in Nat /\ AllocFromFreeList(r, size)
      \/ r \in RgIds /\ Free(r)
      \/ UNCHANGED regionVars
  BY <1>4, <1>5, <1>6 DEF Underlock
<1>8. UNCHANGED << sbrk, vm_end >>
  BY <1>7 DEF AllocFromFreeList, Free, regionVars
<1>9. ~raced => RInv'
  BY <1>7, RegionsUnchanged, AllocFromFreeListInvariant, FreeInvariant DEF KInv
<1> QED
  BY <1>1, <1>2, <1>3, <1>8, <1>9, NoGrowthInvariant

LEMMA BeginAccessInvariant ==
  ASSUME KInv, NEW t \in CPUs, BeginAccess(t)
  PROVE  KInv'
<1>1. CallsOK /\ mmvm_lock = NoCPU /\ mmvm_lock' = t /\ UNCHANGED regionVars
  BY DEF KInv, BeginAccess, Acquire
<1>2. raced => raced'
  BY DEF BeginAccess, NoteOverlap
<1>3. PICK page : Set(t, [NoCall EXCEPT !.op = "access", !.want = page, !.page = page])
  BY DEF BeginAccess
<1>4. PICK call : call = [NoCall EXCEPT !.op = "access", !.want = page, !.page = page]
  OBVIOUS
<1>5. DOMAIN call = Fields /\ call.op = "access"
  BY <1>4 DEF NoCall, Fields
<1>6. OthersStay(t) /\ pc'[t] = "find page" /\ loc'[t] = call
  <2>1. pc' = [pc EXCEPT ![t] = "find page"]
    BY DEF BeginAccess, Goto
  <2>2. loc' = [loc EXCEPT ![t] = call]
    BY <1>3, <1>4 DEF Set
  <2> QED
    BY <1>1, <2>1, <2>2, Moved
<1>7. CallOK(t)' /\ ~Growing(t)' /\ LockStep(t)
  BY <1>1, <1>5, <1>6 DEF CallOK, Growing, Locking, Inside, LockStep, Early
<1>8. ~raced => RInv'
  BY <1>1, RegionsUnchanged DEF KInv
<1> QED
  BY <1>1, <1>2, <1>6, <1>7, <1>8, NoGrowthInvariant DEF regionVars

LEMMA BeginMapInvariant ==
  ASSUME KInv, NEW t \in CPUs, NEW start, NEW n, BeginMap(t, start, n)
  PROVE  KInv'
<1>1. CallsOK /\ mmvm_lock' = mmvm_lock /\ UNCHANGED regionVars
  BY DEF KInv, BeginMap
<1>2. raced => raced'
  BY DEF BeginMap, NoteOverlap
<1>3. PICK call : call = [NoCall EXCEPT !.op = "map", !.n = n, !.page = start \div Ratio]
  OBVIOUS
<1>4. DOMAIN call = Fields /\ call.op = "map"
  BY <1>3 DEF NoCall, Fields
<1>5. OthersStay(t) /\ pc'[t] = "test" /\ loc'[t] = call
  BY <1>1, <1>3, Moved DEF BeginMap, Goto, Set
<1>6. CallOK(t)' /\ ~Growing(t)' /\ LockStep(t)
  BY <1>1, <1>4, <1>5 DEF CallOK, Growing, Locking, Inside, LockStep, Early
<1>7. ~raced => RInv'
  BY <1>1, RegionsUnchanged DEF KInv
<1> QED
  BY <1>1, <1>2, <1>5, <1>6, <1>7, NoGrowthInvariant DEF regionVars

-----------------------------------------------------------------------------
(* Growth                                                                  *)

(* A growth that raced does not record begins alone, at the break.         *)
LEMMA GrowthBegins ==
  ASSUME KInv, NEW t \in CPUs, NEW op \in {"alloc", "inc"}, OthersStay(t),
         pc'[t] = "end", loc'[t].op = op, UNCHANGED regionVars, LockStep(t),
         CallOK(t)', NoteOverlap(t, op),
         op = "alloc" => mmvm_lock = NoCPU /\ loc'[t].brk = sbrk
  PROVE  KInv'
<1>1. CallsOK'
  BY DEF KInv, CallsOK, OthersStay, CallOK, Growing, Inside
<1>2. LockOK'
  BY LockStepOK DEF KInv
<1>3. raced => raced'
  BY DEF NoteOverlap
<1>4. ~raced' => RInv'
  BY <1>3, RegionsUnchanged DEF KInv
<1>5. ASSUME ~raced' PROVE GrowersOK'
  <2>1. RInv /\ LockOK
    BY <1>3, <1>5 DEF KInv
  <2>2. \A u \in CPUs \ {t} : ~Growing(u)
    <3> SUFFICES ASSUME NEW u \in CPUs \ {t}, Growing(u) PROVE FALSE
      OBVIOUS
    <3>1. op = "inc" => ~(Inside(u) /\ loc[u].op \in {"alloc", "inc"})
      BY <1>5 DEF NoteOverlap, OverlapsOp
    <3>2. op = "alloc" => ~(Inside(u) /\ loc[u].op = "inc")
      BY <1>5 DEF NoteOverlap, OverlapsOp
    <3>3. op = "alloc" => ~Locking(u)
      BY <2>1, KernelMemAssumption DEF LockOK
    <3> QED
      BY <3>1, <3>2, <3>3 DEF Growing, Locking
  <2>3. \A u \in CPUs \ {t} : ~Growing(u)'
    BY <2>2 DEF OthersStay, Growing, Inside
  <2>4. GrowthOK(t)'
    <3>1. Below(sbrk) /\ sbrk \in Nat
      BY <2>1 DEF RInv, RegionsInArea, RegionsTypeOK, Below
    <3>2. UNCHANGED << symrgtbl, vm_freerg_list, sbrk >>
      BY DEF regionVars
    <3> QED
      BY <3>1, <3>2 DEF GrowthOK, Below, Early
  <2> QED
    BY <2>3, <2>4 DEF GrowersOK
<1> QED
  BY <1>1, <1>2, <1>4, <1>5 DEF KInv

LEMMA BeginAllocInvariant ==
  ASSUME KInv, NEW t \in CPUs, BeginAlloc(t)
  PROVE  KInv'
<1>1. /\ CallsOK /\ CallOK(t) /\ pc[t] = "lock" /\ loc[t].op = "alloc"
      /\ mmvm_lock = NoCPU /\ mmvm_lock' = t /\ UNCHANGED regionVars
      /\ NoteOverlap(t, "alloc")
  BY DEF KInv, CallsOK, BeginAlloc, Acquire
<1>2. PICK call : call = [loc[t] EXCEPT !.brk = sbrk, !.n = PagesOf(loc[t].size)]
  OBVIOUS
<1>3. /\ DOMAIN call = Fields /\ call.op = "alloc" /\ call.r = loc[t].r
      /\ call.size = loc[t].size /\ call.brk = sbrk /\ call.n = PagesOf(call.size)
  BY <1>1, <1>2 DEF CallOK, Fields
<1>4. OthersStay(t) /\ pc'[t] = "end" /\ loc'[t] = call
  <2>1. pc' = [pc EXCEPT ![t] = "end"] /\ loc' = [loc EXCEPT ![t] = call]
    BY <1>2 DEF BeginAlloc, Goto, Set
  <2> QED
    BY <1>1, <2>1, Moved
<1>5. CallOK(t)' /\ LockStep(t)
  BY <1>1, <1>3, <1>4 DEF CallOK, Growing, Locking, Inside, LockStep, Early
<1> QED
  BY <1>1, <1>3, <1>4, <1>5, GrowthBegins

LEMMA BeginIncInvariant ==
  ASSUME KInv, NEW t \in CPUs, NEW size \in Nat, BeginInc(t, size)
  PROVE  KInv'
<1>1. /\ CallsOK /\ mmvm_lock' = mmvm_lock /\ UNCHANGED regionVars
      /\ NoteOverlap(t, "inc")
  BY DEF KInv, BeginInc
<1>2. PICK call : call = [NoCall EXCEPT !.op = "inc", !.size = size, !.n = PagesOf(size)]
  OBVIOUS
<1>3. /\ DOMAIN call = Fields /\ call.op = "inc" /\ call.size = size
      /\ call.n = PagesOf(size)
  BY <1>2 DEF NoCall, Fields
<1>4. OthersStay(t) /\ pc'[t] = "end" /\ loc'[t] = call
  <2>1. pc' = [pc EXCEPT ![t] = "end"] /\ loc' = [loc EXCEPT ![t] = call]
    BY <1>2 DEF BeginInc, Goto, Set
  <2> QED
    BY <1>1, <2>1, Moved
<1>5. CallOK(t)' /\ LockStep(t)
  BY <1>1, <1>3, <1>4 DEF CallOK, Growing, Locking, Inside, LockStep, Early
<1> QED
  BY <1>1, <1>3, <1>4, <1>5, GrowthBegins

(* The regions stay as they are while the area grows around them.          *)
LEMMA LimitsKeepRegions ==
  ASSUME RInv, UNCHANGED regVars, sbrk' \in Nat, vm_end' \in Nat,
         sbrk <= sbrk', sbrk' <= vm_end'
  PROVE  RInv'
<1>1. UNCHANGED << symrgtbl, vm_freerg_list, leaked >>
  BY DEF regVars
<1>2. RegionsTypeOK /\ RegionsInArea
  BY DEF RInv
<1>3. RegionsTypeOK'
  BY <1>1, <1>2 DEF RegionsTypeOK
<1>4. RegionsOrdered' /\ RegionsDisjoint'
  BY <1>1 DEF RInv, RegionsOrdered, RegionsDisjoint
<1>5. RegionsInArea'
  <2>1. /\ \A r \in RgIds : symrgtbl[r] \in Region
        /\ \A k \in DOMAIN vm_freerg_list : vm_freerg_list[k] \in Region
        /\ sbrk \in Nat
    BY <1>2 DEF RegionsTypeOK
  <2> QED
    BY <1>1, <1>2, <2>1 DEF RegionsInArea, Region
<1> QED
  BY <1>3, <1>4, <1>5 DEF RInv

LEMMA LimitsInvariant ==
  ASSUME KInv, NEW t \in CPUs, Limits(t)
  PROVE  KInv'
<1>1. CallsOK /\ CallOK(t) /\ LockOK
  BY DEF KInv, CallsOK
<1>2. UNCHANGED << regVars, mmvm_lock, raced >>
  BY DEF Limits, historyVars
<1>3. PICK paged : paged = [loc[t] EXCEPT !.page = (vm_end \div PAGESZ) \div Ratio]
  OBVIOUS
<1>4. PICK ended : ended = [loc[t] EXCEPT !.tmp = vm_end]
  OBVIOUS
<1>5. PICK broken : broken = [loc[t] EXCEPT !.tmp = sbrk]
  OBVIOUS
<1>6. SameCall(t, paged) /\ SameCall(t, loc[t])
  BY <1>1, <1>3 DEF CallOK, SameCall, Fields
<1>7. SameCall(t, ended) /\ ended.tmp = vm_end
  BY <1>1, <1>4 DEF CallOK, SameCall, Fields
<1>8. SameCall(t, broken) /\ broken.tmp = sbrk
  BY <1>1, <1>5 DEF CallOK, SameCall, Fields
<1> DEFINE ToLoadEnd == pc[t] = "end" /\ pc'[t] = "load end" /\ loc'[t] = paged
                        /\ UNCHANGED limitVars
           ToStoreEnd == pc[t] = "load end" /\ pc'[t] = "store end" /\ loc'[t] = ended
                         /\ UNCHANGED limitVars
           ToLoadBrk == pc[t] = "store end" /\ pc'[t] = "load brk" /\ loc'[t] = loc[t]
                        /\ vm_end' = loc[t].tmp + loc[t].n * PAGESZ /\ sbrk' = sbrk
           ToStoreBrk == pc[t] = "load brk" /\ pc'[t] = "store brk" /\ loc'[t] = broken
                         /\ UNCHANGED limitVars
           ToGet == pc[t] = "store brk" /\ pc'[t] = "get" /\ loc'[t] = loc[t]
                    /\ sbrk' = loc[t].tmp + loc[t].size /\ vm_end' = vm_end
<1>9. OthersStay(t) /\ (ToLoadEnd \/ ToStoreEnd \/ ToLoadBrk \/ ToStoreBrk \/ ToGet)
  <2>1. CASE At(t, "end") /\ Goto(t, "load end") /\ UNCHANGED limitVars
             /\ Set(t, [loc[t] EXCEPT !.page = (vm_end \div PAGESZ) \div Ratio])
    BY <1>1, <1>3, <2>1, Moved DEF At, Goto, Set
  <2>2. CASE At(t, "load end") /\ Goto(t, "store end") /\ UNCHANGED limitVars
             /\ Set(t, [loc[t] EXCEPT !.tmp = vm_end])
    BY <1>1, <1>4, <2>2, Moved DEF At, Goto, Set
  <2>3. CASE At(t, "store end") /\ Goto(t, "load brk")
             /\ vm_end' = loc[t].tmp + loc[t].n * PAGESZ /\ UNCHANGED << loc, sbrk >>
    BY <1>1, <2>3, MovedOnly DEF At, Goto
  <2>4. CASE At(t, "load brk") /\ Goto(t, "store brk") /\ UNCHANGED limitVars
             /\ Set(t, [loc[t] EXCEPT !.tmp = sbrk])
    BY <1>1, <1>5, <2>4, Moved DEF At, Goto, Set
  <2>5. CASE At(t, "store brk") /\ Goto(t, "get")
             /\ sbrk' = loc[t].tmp + loc[t].size /\ UNCHANGED << loc, vm_end >>
    BY <1>1, <2>5, MovedOnly DEF At, Goto
  <2> QED
    BY <2>1, <2>2, <2>3, <2>4, <2>5 DEF Limits
<1>10. /\ SameCall(t, loc'[t]) /\ pc[t] \in Early /\ pc'[t] \in Early \cup {"get"}
       /\ Growing(t) /\ Inside(t)' /\ Growing(t)'
       /\ Locking(t)' <=> Locking(t)
  BY <1>1, <1>6, <1>7, <1>8, <1>9 DEF CallOK, SameCall, Early, Growing, Locking, Inside
<1>11. CallsOK'
  <2>1. CallOK(t)'
    BY <1>1, <1>10 DEF CallOK, SameCall, Early, Growing
  <2> QED
    BY <1>1, <1>9, <2>1 DEF CallsOK, OthersStay, CallOK, Growing, Inside
<1>12. LockOK'
  <2>1. LockStep(t)
    BY <1>1, <1>2, <1>10 DEF LockStep, LockOK
  <2> QED
    BY <1>1, <1>9, <2>1, LockStepOK
<1>13. ASSUME ~raced PROVE RInv' /\ GrowersOK'
  <2>1. RInv /\ GrowersOK /\ GrowthOK(t)
    BY <1>10, <1>13 DEF KInv, GrowersOK
  <2>2. \A u \in CPUs : Growing(u)' => u = t
    BY <1>9, <1>10, <2>1 DEF GrowersOK, OthersStay, Growing, Inside
  <2>3. PICK size \in Nat : size = loc[t].size
    BY <1>1, <1>10 DEF CallOK, Growing, Inside
  <2>4. sbrk \in Nat /\ vm_end \in Nat /\ sbrk <= vm_end
    BY <2>1 DEF RInv, RegionsTypeOK, RegionsInArea
  <2>5. PagesOf(size) * PAGESZ >= size /\ PagesOf(size) * PAGESZ \in Nat
    BY PagesCover, RegionsAssumption
  <2>6. UNCHANGED << symrgtbl, vm_freerg_list >>
    BY <1>2 DEF regVars
  <2>7. CASE ToLoadEnd \/ ToStoreEnd \/ ToStoreBrk
    <3>1. sbrk' = sbrk /\ vm_end' = vm_end
      BY <2>7 DEF limitVars
    <3>2. RInv'
      BY <1>2, <2>1, <2>4, <3>1, LimitsKeepRegions
    <3>3. GrowthOK(t)'
      BY <1>6, <1>7, <1>8, <2>1, <2>6, <2>7, <3>1 DEF GrowthOK, Below, SameCall, Early
    <3> QED
      BY <2>2, <3>2, <3>3 DEF GrowersOK
  <2>8. CASE ToLoadBrk
    <3>1. vm_end' = vm_end + PagesOf(size) * PAGESZ /\ sbrk' = sbrk
      BY <1>1, <2>1, <2>3, <2>8 DEF GrowthOK, CallOK, Early
    <3>2. vm_end' \in Nat /\ sbrk + size <= vm_end' /\ sbrk <= vm_end'
      BY <2>4, <2>5, <3>1
    <3>3. RInv'
      BY <1>2, <2>1, <2>4, <3>1, <3>2, LimitsKeepRegions
    <3>4. GrowthOK(t)'
      BY <2>1, <2>3, <2>6, <2>8, <3>1, <3>2 DEF GrowthOK, Below, Early
    <3> QED
      BY <2>2, <3>3, <3>4 DEF GrowersOK
  <2>9. CASE ToGet
    <3>1. sbrk' = sbrk + size /\ vm_end' = vm_end /\ sbrk + size <= vm_end
      BY <2>1, <2>3, <2>9 DEF GrowthOK
    <3>2. RInv'
      BY <1>2, <2>1, <2>3, <2>4, <3>1, LimitsKeepRegions
    <3>3. GrowthOK(t)'
      BY <2>1, <2>3, <2>6, <2>9, <3>1 DEF GrowthOK, Below, Early
    <3> QED
      BY <2>2, <3>2, <3>3 DEF GrowersOK
  <2> QED
    BY <1>9, <2>7, <2>8, <2>9
<1> QED
  BY <1>2, <1>11, <1>12, <1>13 DEF KInv

(* ALLOC enters the gap it made, which no region has come to lie in.       *)
LEMMA EnterRegion ==
  ASSUME RInv, NEW r \in RgIds, NEW brk \in Nat, NEW size \in Nat,
         Below(brk), sbrk = brk + size,
         symrgtbl' = [symrgtbl EXCEPT ![r] = Rg(brk, brk + size)],
         leaked' = leaked + Length(symrgtbl[r]),
         UNCHANGED << vm_freerg_list, sbrk, vm_end >>
  PROVE  RInv'
<1>1. /\ symrgtbl \in [RgIds -> Region] /\ vm_freerg_list \in Seq(Region)
      /\ sbrk \in Nat /\ vm_end \in Nat /\ leaked \in Nat
      /\ \A x \in RgIds : symrgtbl[x] \in Region /\ Ordered(symrgtbl[x])
      /\ \A k \in DOMAIN vm_freerg_list : Ordered(vm_freerg_list[k])
  BY DEF RInv, RegionsTypeOK, RegionsOrdered
<1>2. PICK rg : rg = Rg(brk, brk + size)
  OBVIOUS
<1>3. rg \in Region /\ Ordered(rg) /\ rg.rg_start = brk /\ rg.rg_end = sbrk
  BY <1>2 DEF Rg, Region, Ordered
<1>4. symrgtbl' \in [RgIds -> Region]
      /\ \A x \in RgIds : symrgtbl'[x] = IF x = r THEN rg ELSE symrgtbl[x]
  BY <1>1, <1>2, <1>3
<1>5. RegionsTypeOK'
  <2>1. leaked' \in Nat
    BY <1>1 DEF Region, Ordered, Length
  <2> QED
    BY <1>1, <1>4, <2>1 DEF RegionsTypeOK
<1>6. RegionsOrdered'
  BY <1>1, <1>3, <1>4 DEF RegionsOrdered
<1>7. RegionsDisjoint'
  <2>1. \A x \in RgIds : Disjoint(symrgtbl[x], rg) /\ Disjoint(rg, symrgtbl[x])
    BY <1>3 DEF Below, Disjoint
  <2>2. \A k \in DOMAIN vm_freerg_list : Disjoint(rg, vm_freerg_list[k])
    BY <1>3 DEF Below, Disjoint
  <2> QED
    BY <1>4, <2>1, <2>2 DEF RInv, RegionsDisjoint
<1>8. RegionsInArea'
  BY <1>1, <1>3, <1>4 DEF RInv, RegionsInArea
<1> QED
  BY <1>5, <1>6, <1>7, <1>8 DEF RInv

LEMMA FinishInvariant ==
  ASSUME KInv, NEW t \in CPUs, Finish(t)
  PROVE  KInv'
<1>1. /\ CallsOK /\ CallOK(t) /\ LockOK /\ pc[t] = "finish"
      /\ UNCHANGED << vm_freerg_list, sbrk, vm_end >> /\ raced' = raced
  BY DEF KInv, CallsOK, Finish, At, limitVars
<1>2. OthersStay(t) /\ pc'[t] = "arrived" /\ loc'[t] = NoCall
  <2>1. pc' = [pc EXCEPT ![t] = "arrived"] /\ loc' = [loc EXCEPT ![t] = NoCall]
    BY DEF Finish, Goto, Set
  <2> QED
    BY <1>1, <2>1, Moved
<1>3. CallOK(t)' /\ ~Growing(t)' /\ ~Locking(t)'
  BY <1>2, NewCall DEF CallOK, Growing, Locking, Inside, Early
<1>4. LockStep(t)
  BY <1>3 DEF Finish, Release, LockStep
<1>5. CASE loc[t].op = "alloc"
  <2>1. Growing(t) /\ Locking(t) /\ mmvm_lock = t /\ pc[t] \notin Early
    BY <1>1, <1>5 DEF Growing, Locking, Inside, Early, LockOK
  <2>2. PICK r \in RgIds : r = loc[t].r
    BY <1>1, <1>5 DEF CallOK
  <2>3. PICK size \in Nat : size = loc[t].size
    BY <1>1, <1>5 DEF CallOK
  <2>4. PICK brk : brk = loc[t].brk
    OBVIOUS
  <2>5. /\ symrgtbl' = [symrgtbl EXCEPT ![r] = Rg(brk, brk + size)]
        /\ leaked' = leaked + Length(symrgtbl[r])
    BY <1>5, <2>2, <2>3, <2>4 DEF Finish
  <2>6. ASSUME ~raced PROVE RInv'
    <3>1. RInv /\ GrowthOK(t)
      BY <2>1, <2>6 DEF KInv, GrowersOK
    <3>2. brk \in Nat /\ Below(brk) /\ sbrk = brk + size
      BY <1>5, <2>1, <2>3, <2>4, <3>1 DEF GrowthOK
    <3> QED
      BY <1>1, <2>5, <3>1, <3>2, EnterRegion
  <2> QED
    BY <1>1, <1>2, <1>3, <1>4, <2>1, <2>6, NoGrowthInvariant
<1>6. CASE loc[t].op # "alloc"
  <2>1. symrgtbl' = symrgtbl
        /\ leaked' = leaked + (IF loc[t].op = "inc" THEN loc[t].size ELSE 0)
    BY <1>6 DEF Finish
  <2>2. ASSUME ~raced PROVE RInv'
    <3>1. RInv
      BY <2>2 DEF KInv
    <3>2. RegionsTypeOK'
      BY <1>1, <2>1, <3>1 DEF RInv, RegionsTypeOK, CallOK
    <3> QED
      BY <1>1, <2>1, <3>1, <3>2 DEF RInv, RegionsOrdered, RegionsDisjoint, RegionsInArea
  <2> QED
    BY <1>1, <1>2, <1>3, <1>4, <2>1, <2>2, NoGrowthInvariant
<1> QED
  BY <1>5, <1>6

LEMMA NextSlotInvariant ==
  ASSUME KInv, NextSlot
  PROVE  KInv'
<1>1. /\ pc' = [t \in CPUs |-> "idle"] /\ loc' = loc
      /\ UNCHANGED << regionVars, mmvm_lock, raced >>
  BY DEF NextSlot, historyVars
<1>2. \A t \in CPUs : ~Growing(t)' /\ ~Locking(t)'
  BY <1>1 DEF Growing, Locking, Inside
<1>3. CallsOK'
  BY <1>1 DEF KInv, CallsOK, CallOK, Early
<1> QED
  BY <1>1, <1>2, <1>3, RegionsUnchanged DEF KInv, LockOK, GrowersOK

LEMMA KInvInit == KernelMemInit => KInv
<1> SUFFICES ASSUME KernelMemInit PROVE KInv
  OBVIOUS
<1>1. /\ RegionsInit /\ pc = [t \in CPUs |-> "idle"]
      /\ loc = [t \in CPUs |-> NoCall]
  BY DEF KernelMemInit
<1>2. RInv
  BY <1>1, InitInvariant
<1>3. \A t \in CPUs : ~Growing(t) /\ ~Locking(t)
  BY <1>1 DEF Growing, Locking, Inside
<1>4. CallsOK
  BY <1>1, NewCall DEF CallsOK, CallOK, Early
<1> QED
  BY <1>2, <1>3, <1>4 DEF KInv, LockOK, GrowersOK

LEMMA KInvUnchanged ==
  ASSUME KInv, UNCHANGED << pc, loc, mmvm_lock, raced, regionVars >>
  PROVE  KInv'
<1>1. UNCHANGED << symrgtbl, vm_freerg_list, sbrk, vm_end >>
  BY DEF regionVars
<1> QED
  BY <1>1, RegionsUnchanged
  DEF KInv, CallsOK, CallOK, LockOK, GrowersOK, GrowthOK, Growing, Locking, Inside, Below

LEMMA BeginInvariant ==
  ASSUME KInv, NEW t \in CPUs, Begin(t)
  PROVE  KInv'
<1>1. \A size \in Sizes : size \in Nat
  BY RegionsAssumption
<1>2. CASE Skip(t)
  BY <1>2, SkipInvariant
<1>3. CASE \E r \in RgIds, size \in Sizes : Request(t, "alloc", r, size)
  BY <1>1, <1>3, RequestInvariant
<1>4. CASE \E r \in RgIds : Request(t, "free", r, 0)
  BY <1>4, RequestInvariant
<1>5. CASE \E offset \in Offsets :
             \/ Request(t, "read", 0, offset)
             \/ \E r \in RgIds : Request(t, "write", r, offset)
  BY <1>5, RequestInvariant
<1>6. CASE Underlock(t)
  BY <1>6, UnderlockInvariant
<1>7. CASE BeginAlloc(t)
  BY <1>7, BeginAllocInvariant
<1>8. CASE BeginAccess(t)
  BY <1>8, BeginAccessInvariant
<1>9. CASE \E size \in Sizes : BeginInc(t, size)
  BY <1>1, <1>9, BeginIncInvariant
<1>10. CASE \E start \in MapStarts, n \in MapSizes : BeginMap(t, start, n)
  BY <1>10, BeginMapInvariant
<1>11. CASE StrayCaller(t)
  <2>1. UNCHANGED << pc, loc, mmvm_lock, raced, regionVars >>
    BY <1>11 DEF StrayCaller, historyVars
  <2> QED
    BY <2>1, KInvUnchanged
<1> QED
  BY <1>2, <1>3, <1>4, <1>5, <1>6, <1>7, <1>8, <1>9, <1>10, <1>11 DEF Begin

(* No access to the shared memory, by any CPU, disturbs the invariant.     *)
LEMMA KInvStep == KInv /\ [KernelMemNext]_kvars => KInv'
<1> SUFFICES ASSUME KInv, [KernelMemNext]_kvars PROVE KInv'
  OBVIOUS
<1>1. ASSUME NEW t \in CPUs, CPUStep(t) PROVE KInv'
  <2>1. CallsOK
    BY DEF KInv
  <2>2. CASE Begin(t)
    BY <2>2, BeginInvariant
  <2>3. CASE Limits(t)
    BY <2>3, LimitsInvariant
  <2>4. CASE GetFrame(t) \/ PopFrame(t) \/ PutRead(t) \/ PutFrame(t)
    BY <2>1, <2>4, FrameStepAside, AsideInvariant
  <2>5. CASE TestLink(t) \/ LinkTable(t) \/ Descend(t)
    BY <2>1, <2>5, WalkStepAside, AsideInvariant
  <2>6. CASE SetLeaf(t)
    BY <2>1, <2>6, SetLeafAside, AsideInvariant
  <2>7. CASE ReadFifo(t) \/ Enlist(t) \/ ReadVictim(t) \/ Unlink(t)
    BY <2>1, <2>7, FifoStepAside, AsideInvariant
  <2>8. CASE Find(t)
    BY <2>1, <2>8, FindAside, AsideInvariant
  <2>9. CASE Finish(t)
    BY <2>9, FinishInvariant
  <2> QED
    BY <1>1, <2>2, <2>3, <2>4, <2>5, <2>6, <2>7, <2>8, <2>9 DEF CPUStep
<1>2. CASE NextSlot
  BY <1>2, NextSlotInvariant
<1>3. CASE UNCHANGED kvars
  <2>1. UNCHANGED << pc, loc, mmvm_lock, raced, regionVars >>
    BY <1>3 DEF kvars, historyVars
  <2> QED
    BY <2>1, KInvUnchanged
<1> QED
  BY <1>1, <1>2, <1>3 DEF KernelMemNext, Step, Ended

-----------------------------------------------------------------------------
(* The strengthened invariant of the memory calls of several CPUs.         *)
THEOREM KernelMemInvariant == KernelMemSpec => []KInv
BY KInvInit, KInvStep, PTL DEF KernelMemSpec

(* Until a growing system call overlaps another growth, no byte is in two  *)
(* regions and none beyond the break, though FREE and ALLOC from the free  *)
(* list run while a system call is inside inc_vma_limit, which writes      *)
(* vm_end and sbrk without mmvm_lock.                                      *)
THEOREM RegionsKeptCorrect == KernelMemSpec => []RegionsKept
<1>1. KInv => RegionsKept
  BY DEF KInv, RInv, RegionsKept
<1> QED
  BY <1>1, KernelMemInvariant, PTL
=============================================================================
