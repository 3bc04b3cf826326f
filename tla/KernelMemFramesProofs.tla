----------------------- MODULE KernelMemFramesProofs -----------------------
(***************************************************************************)
(* Proof, for any number of CPUs and frames, that until a growing system   *)
(* call overlaps another growth every frame of the RAM is in the free list *)
(* of mm-memphy.c, in the hands of one CPU, or was entered in the page     *)
(* table once, and in one of the three only, whatever READ, WRITE, FREE    *)
(* and MAP do on the other CPUs meanwhile.  Which frames the page table    *)
(* leads to is in KernelMemTypeProofs.                                     *)
(*                                                                         *)
(* The argument has two parts.  Of one CPU alone (ShapeOK, which holds     *)
(* even when growths overlap): it has frames in hand only while it grows   *)
(* the area, and as many as there are pages left to map.  Of the list      *)
(* (ListOK, HandsOK): it is a chain of distinct nodes, exactly the         *)
(* allocated ones, and what the only CPU that grows the area has read of   *)
(* its head is still the head when that CPU pops or pushes.                *)
(***************************************************************************)
EXTENDS KernelMemProofs, FiniteSetTheorems, WellFoundedInduction

(* Where a call that grows the area can be.                                *)
Frameless == Early \cup {"finish"}

Taking == {"get", "pop"}

Giving == {"put", "push"}

Walking == {"test", "link", "descend", "leaf"}

Entering == {"read fifo", "enlist"}

Grows(label, call) == label \notin Away /\ call.op \in {"alloc", "inc"}

(* The pages the call has still to map, the k-th included.  A call for no  *)
(* page maps one all the same.                                             *)
Due(call) == IF call.k < call.n THEN call.n - call.k + 1 ELSE 1

ShapeOK(label, call) ==
  /\ call.frames \in Seq(Frames)
  /\ label = "lock" => call.k = 1 /\ call.swp = NoFrame
  /\ ~Grows(label, call) =>
       call.frames = << >> /\ label \notin Early \cup Taking \cup Giving
  /\ Grows(label, call) =>
       /\ call.n \in Nat /\ call.k \in Nat \ {0} /\ call.swp = NoFrame
       /\ label \in Frameless \cup Taking \cup Giving \cup Walking \cup Entering
       /\ label \in Frameless => call.frames = << >>
       /\ label \in Early \cup Taking => call.k = 1
       /\ label \in Taking => Len(call.frames) = 0 \/ Len(call.frames) < call.n
       /\ label \in Giving => call.frames # << >>
       /\ label \in Walking => Len(call.frames) = Due(call)
       /\ label \in Entering => Len(call.frames) + 1 = Due(call)

(* What a CPU has read of the list is a node or the end.                   *)
RamTyped ==
  /\ free_fp_list \in Frames \cup {NoFrame}
  /\ fp_next \in [Frames -> Frames \cup {NoFrame}]
  /\ allocated \subseteq Frames
  /\ \A t \in CPUs : pc[t] \in {"pop", "push"} => loc[t].tmp \in Frames \cup {NoFrame}

(* s is the free list: its nodes in order.                                 *)
FreeList(s) ==
  /\ s \in Seq(Frames)
  /\ \A a, b \in DOMAIN s : s[a] = s[b] => a = b
  /\ allocated = {s[a] : a \in DOMAIN s}
  /\ free_fp_list = IF s = << >> THEN NoFrame ELSE s[1]
  /\ \A a \in DOMAIN s : fp_next[s[a]] = IF a < Len(s) THEN s[a + 1] ELSE NoFrame

ListOK == \E s : FreeList(s)

HandsOK ==
  \A t \in CPUs :
    /\ pc[t] = "pop" => loc[t].tmp = free_fp_list /\ loc[t].tmp # NoFrame
    /\ pc[t] = "push" => loc[t].tmp = free_fp_list

(* Every frame is somewhere, and in one place only.                        *)
Placed ==
  /\ allocated \cup entered \cup UNION {Held(t) : t \in CPUs} = Frames
  /\ allocated \cap entered = {}
  /\ \A t \in CPUs : /\ IsInjective(loc[t].frames)
                     /\ Held(t) \cap (allocated \cup entered) = {}
                     /\ \A u \in CPUs \ {t} : Held(t) \cap Held(u) = {}

ShapesOK == \A t \in CPUs : ShapeOK(pc[t], loc[t])

Places == ListOK /\ HandsOK /\ Placed

FInv == KInv /\ ShapesOK /\ RamTyped /\ (~raced => Places)

-----------------------------------------------------------------------------
(* What most steps do: no frame moves.                                     *)

Quiet ==
  /\ UNCHANGED << free_fp_list, fp_next, allocated, entered >>
  /\ raced => raced'
  /\ \A u \in CPUs :
       /\ loc'[u].frames = loc[u].frames
       /\ pc'[u] \in {"pop", "push"} => pc'[u] = pc[u] /\ loc'[u].tmp = loc[u].tmp

LEMMA QuietKeeps ==
  ASSUME RamTyped, ~raced => Places, Quiet
  PROVE  RamTyped' /\ (~raced' => Places')
<1>1. RamTyped'
  BY DEF RamTyped, Quiet
<1>2. ASSUME ~raced' PROVE Places'
  <2>1. Places
    BY <1>2 DEF Quiet
  <2>2. ListOK'
    BY <2>1 DEF Quiet, Places, ListOK, FreeList
  <2>3. HandsOK'
    BY <2>1 DEF Quiet, Places, HandsOK
  <2>4. \A u \in CPUs : Held(u)' = Held(u)
    BY DEF Quiet, Held
  <2>5. Placed'
    <3>1. UNCHANGED << allocated, entered >>
          /\ \A u \in CPUs : loc'[u].frames = loc[u].frames
      BY DEF Quiet
    <3> QED
      BY <2>1, <2>4, <3>1 DEF Places, Placed
  <2> QED
    BY <2>2, <2>3, <2>5 DEF Places
<1> QED
  BY <1>1, <1>2

LEMMA NoFrames == << >> \in Seq(Frames) /\ Len(<< >>) = 0
OBVIOUS

(* A step of t that moves no frame, from a place of its call to another.   *)
QuietStep(t) ==
  /\ OthersStay(t)
  /\ UNCHANGED << free_fp_list, fp_next, allocated, entered >>
  /\ raced => raced'
  /\ loc'[t].frames = loc[t].frames
  /\ pc'[t] \notin {"pop", "push"}
  /\ ShapeOK(pc'[t], loc'[t])

LEMMA QuietStepIs ==
  ASSUME ShapesOK, NEW t \in CPUs, QuietStep(t)
  PROVE  Quiet /\ ShapesOK'
BY DEF QuietStep, OthersStay, Quiet, ShapesOK

(* The locals that the frames do not depend on.                            *)
SameShape(call, old) ==
  /\ call.op = old.op /\ call.n = old.n /\ call.k = old.k
  /\ call.swp = old.swp /\ call.frames = old.frames

LEMMA ShapeMoves ==
  ASSUME NEW label, NEW call, NEW from, NEW old,
         ShapeOK(from, old), SameShape(call, old),
         from \notin Away, label \notin Away,
         ~Grows(from, old) => label \notin Early \cup Taking \cup Giving,
         Grows(from, old) =>
           \/ label \in Early /\ from \in Early
           \/ label = "get" /\ from \in Early
           \/ label \in Walking /\ from \in Walking
           \/ label \in Entering /\ from \in Entering
  PROVE  ShapeOK(label, call)
<1>1. Grows(label, call) <=> Grows(from, old)
  BY DEF Grows, SameShape
<1>2. CASE ~Grows(from, old)
  BY <1>1, <1>2 DEF ShapeOK, SameShape, Away
<1>3. CASE Grows(from, old)
  <2>1. Due(call) = Due(old)
    BY DEF Due, SameShape
  <2>2. CASE label \in Early /\ from \in Early
    BY <1>1, <1>3, <2>1, <2>2
    DEF ShapeOK, SameShape, Frameless, Early, Taking, Giving, Walking, Entering, Away
  <2>3. CASE label = "get" /\ from \in Early
    BY <1>1, <1>3, <2>1, <2>3, NoFrames
    DEF ShapeOK, SameShape, Frameless, Early, Taking, Giving, Walking, Entering, Away
  <2>4. CASE label \in Walking /\ from \in Walking
    BY <1>1, <1>3, <2>1, <2>4
    DEF ShapeOK, SameShape, Frameless, Early, Taking, Giving, Walking, Entering, Away
  <2>5. CASE label \in Entering /\ from \in Entering
    BY <1>1, <1>3, <2>1, <2>5
    DEF ShapeOK, SameShape, Frameless, Early, Taking, Giving, Walking, Entering, Away
  <2> QED
    BY <1>3, <2>2, <2>3, <2>4, <2>5
<1> QED
  BY <1>2, <1>3

(* A call that does not grow the area has no frame, wherever it goes.      *)
LEMMA ShapeStill ==
  ASSUME NEW label, NEW call, NEW from, NEW old,
         ShapeOK(from, old), ~Grows(from, old), ~Grows(label, call),
         call.frames = old.frames, label # "lock",
         label \notin Early \cup Taking \cup Giving
  PROVE  ShapeOK(label, call)
BY DEF ShapeOK

-----------------------------------------------------------------------------
(* Steps that begin or end a call                                          *)

LEMMA NewShape ==
  ASSUME NEW op, NEW r, NEW size
  PROVE  /\ NoCall.frames = << >> /\ NoCall.op = "none"
         /\ LET call == [NoCall EXCEPT !.op = op, !.r = r, !.size = size]
            IN  call.frames = << >> /\ call.k = 1 /\ call.swp = NoFrame
BY DEF NoCall

LEMMA ShapeBegins ==
  ASSUME NEW call, call.op \in {"alloc", "inc"}, call.frames = << >>, call.k = 1,
         call.swp = NoFrame, call.n \in Nat
  PROVE  ShapeOK("end", call)
<1>1. Grows("end", call) /\ call.frames \in Seq(Frames)
  BY NoFrames DEF Grows, Away
<1>2. /\ "end" \in Frameless /\ "end" # "lock" /\ "end" \in Early
      /\ "end" \notin Taking \cup Giving \cup Walking \cup Entering
  BY DEF Frameless, Early, Taking, Giving, Walking, Entering
<1>3. call.k \in Nat \ {0}
  OBVIOUS
<1> QED
  BY <1>1, <1>2, <1>3 DEF ShapeOK

LEMMA SkipQuiet ==
  ASSUME CallsOK, ShapesOK, NEW t \in CPUs, Skip(t)
  PROVE  QuietStep(t)
<1>1. OthersStay(t) /\ pc'[t] = "arrived" /\ loc'[t] = loc[t] /\ pc[t] = "idle"
  BY MovedOnly DEF Skip, Goto
<1>2. ShapeOK(pc'[t], loc'[t])
  BY <1>1, ShapeStill DEF ShapesOK, Grows, Away, Early, Taking, Giving
<1> QED
  BY <1>1, <1>2 DEF Skip, QuietStep, devVars, historyVars

LEMMA RequestQuiet ==
  ASSUME CallsOK, ShapesOK, NEW t \in CPUs, NEW op, NEW r, NEW size,
         Request(t, op, r, size)
  PROVE  QuietStep(t)
<1>1. PICK call : call = [NoCall EXCEPT !.op = op, !.r = r, !.size = size]
  OBVIOUS
<1>2. call.frames = << >> /\ call.k = 1 /\ call.swp = NoFrame
  BY <1>1, NewShape
<1>3. OthersStay(t) /\ pc'[t] = "lock" /\ loc'[t] = call /\ pc[t] = "idle"
  BY <1>1, Moved DEF Request, Goto, Set
<1>4. loc[t].frames = << >>
  BY <1>3 DEF ShapesOK, ShapeOK, Grows, Away
<1>5. ShapeOK(pc'[t], loc'[t])
  BY <1>2, <1>3, NoFrames DEF ShapeOK, Grows, Away, Early, Taking, Giving
<1> QED
  BY <1>2, <1>3, <1>4, <1>5 DEF Request, QuietStep, devVars, historyVars

LEMMA UnderlockQuiet ==
  ASSUME CallsOK, ShapesOK, NEW t \in CPUs, Underlock(t)
  PROVE  QuietStep(t)
<1>1. OthersStay(t) /\ pc'[t] = "arrived" /\ loc'[t] = NoCall /\ pc[t] = "lock"
  BY Moved DEF Underlock, Goto, Set
<1>2. loc[t].frames = << >>
  BY <1>1 DEF ShapesOK, ShapeOK, Grows, Away
<1>3. ShapeOK(pc'[t], loc'[t])
  BY <1>1, NewShape, NoFrames DEF ShapeOK, Grows, Away, Early, Taking, Giving
<1> QED
  BY <1>1, <1>2, <1>3, NewShape DEF Underlock, QuietStep, devVars

LEMMA BeginAccessQuiet ==
  ASSUME CallsOK, ShapesOK, NEW t \in CPUs, BeginAccess(t)
  PROVE  QuietStep(t)
<1>1. PICK page : Set(t, [NoCall EXCEPT !.op = "access", !.want = page, !.page = page])
  BY DEF BeginAccess
<1>2. PICK call : call = [NoCall EXCEPT !.op = "access", !.want = page, !.page = page]
  OBVIOUS
<1>3. pc[t] = "lock" /\ loc[t].frames = << >>
  BY DEF BeginAccess, ShapesOK, ShapeOK, Grows, Away
<1>4. call.op = "access" /\ call.frames = << >>
  BY <1>2 DEF NoCall
<1>5. OthersStay(t) /\ pc'[t] = "find page" /\ loc'[t] = call
  <2>1. pc' = [pc EXCEPT ![t] = "find page"] /\ loc' = [loc EXCEPT ![t] = call]
    BY <1>1, <1>2 DEF BeginAccess, Goto, Set
  <2> QED
    BY <2>1, Moved
<1>6. ShapeOK(pc'[t], loc'[t])
  BY <1>4, <1>5, NoFrames DEF ShapeOK, Grows, Early, Taking, Giving
<1> QED
  BY <1>3, <1>4, <1>5, <1>6 DEF BeginAccess, NoteOverlap, QuietStep, devVars

LEMMA BeginMapQuiet ==
  ASSUME CallsOK, ShapesOK, NEW t \in CPUs, NEW start, NEW n, BeginMap(t, start, n)
  PROVE  QuietStep(t)
<1>1. PICK call : call = [NoCall EXCEPT !.op = "map", !.n = n, !.page = start \div Ratio]
  OBVIOUS
<1>2. call.op = "map" /\ call.frames = << >>
  BY <1>1 DEF NoCall
<1>3. OthersStay(t) /\ pc'[t] = "test" /\ loc'[t] = call /\ pc[t] = "idle"
  BY <1>1, Moved DEF BeginMap, Goto, Set
<1>4. loc[t].frames = << >>
  BY <1>3 DEF ShapesOK, ShapeOK, Grows, Away
<1>5. ShapeOK(pc'[t], loc'[t])
  BY <1>2, <1>3, NoFrames DEF ShapeOK, Grows, Early, Taking, Giving
<1> QED
  BY <1>2, <1>3, <1>4, <1>5 DEF BeginMap, NoteOverlap, QuietStep, devVars

LEMMA BeginAllocQuiet ==
  ASSUME CallsOK, ShapesOK, NEW t \in CPUs, BeginAlloc(t)
  PROVE  QuietStep(t)
<1>1. DOMAIN loc[t] = Fields /\ pc[t] = "lock" /\ loc[t].op = "alloc"
      /\ loc[t].size \in Nat
  BY DEF CallsOK, CallOK, BeginAlloc
<1>2. PICK call : call = [loc[t] EXCEPT !.brk = sbrk, !.n = PagesOf(loc[t].size)]
  OBVIOUS
<1>3. call.op = "alloc" /\ call.frames = loc[t].frames /\ call.k = loc[t].k
      /\ call.swp = loc[t].swp /\ call.n \in Nat
  BY <1>1, <1>2, PagesCover DEF Fields
<1>4. OthersStay(t) /\ pc'[t] = "end" /\ loc'[t] = call
  <2>1. pc' = [pc EXCEPT ![t] = "end"] /\ loc' = [loc EXCEPT ![t] = call]
    BY <1>2 DEF BeginAlloc, Goto, Set
  <2> QED
    BY <2>1, Moved
<1>5. loc[t].frames = << >> /\ loc[t].k = 1 /\ loc[t].swp = NoFrame
  BY <1>1 DEF ShapesOK, ShapeOK, Grows, Away
<1>6. ShapeOK(pc'[t], loc'[t])
  BY <1>3, <1>4, <1>5, ShapeBegins
<1> QED
  BY <1>3, <1>4, <1>6 DEF BeginAlloc, NoteOverlap, QuietStep, devVars

LEMMA BeginIncQuiet ==
  ASSUME CallsOK, ShapesOK, NEW t \in CPUs, NEW size \in Nat, BeginInc(t, size)
  PROVE  QuietStep(t)
<1>1. PICK call : call = [NoCall EXCEPT !.op = "inc", !.size = size, !.n = PagesOf(size)]
  OBVIOUS
<1>2. call.op = "inc" /\ call.frames = << >> /\ call.k = 1 /\ call.swp = NoFrame
      /\ call.n \in Nat
  BY <1>1, PagesCover DEF NoCall
<1>3. OthersStay(t) /\ pc'[t] = "end" /\ loc'[t] = call /\ pc[t] = "idle"
  <2>1. pc' = [pc EXCEPT ![t] = "end"] /\ loc' = [loc EXCEPT ![t] = call]
        /\ pc[t] = "idle"
    BY <1>1 DEF BeginInc, Goto, Set
  <2> QED
    BY <2>1, Moved
<1>4. loc[t].frames = << >>
  BY <1>3 DEF ShapesOK, ShapeOK, Grows, Away
<1>5. ShapeOK(pc'[t], loc'[t])
  BY <1>2, <1>3, ShapeBegins
<1> QED
  BY <1>2, <1>3, <1>4, <1>5 DEF BeginInc, NoteOverlap, QuietStep, devVars

LEMMA FinishQuiet ==
  ASSUME CallsOK, ShapesOK, NEW t \in CPUs, Finish(t)
  PROVE  QuietStep(t)
<1>1. OthersStay(t) /\ pc'[t] = "arrived" /\ loc'[t] = NoCall /\ pc[t] = "finish"
  <2>1. pc' = [pc EXCEPT ![t] = "arrived"] /\ loc' = [loc EXCEPT ![t] = NoCall]
        /\ pc[t] = "finish"
    BY DEF Finish, At, Goto, Set
  <2> QED
    BY <2>1, Moved
<1>2. loc[t].frames = << >>
  BY <1>1 DEF ShapesOK, ShapeOK, Frameless
<1>3. ShapeOK(pc'[t], loc'[t])
  BY <1>1, NewShape, NoFrames DEF ShapeOK, Grows, Away, Early, Taking, Giving
<1> QED
  BY <1>1, <1>2, <1>3, NewShape DEF Finish, QuietStep, devVars

-----------------------------------------------------------------------------
(* Steps between places where no frame moves                               *)

LEMMA LimitsQuiet ==
  ASSUME CallsOK, ShapesOK, NEW t \in CPUs, Limits(t)
  PROVE  QuietStep(t)
<1>1. CallOK(t) /\ DOMAIN loc[t] = Fields
  BY DEF CallsOK, CallOK
<1>2. PICK paged : paged = [loc[t] EXCEPT !.page = (vm_end \div PAGESZ) \div Ratio]
  OBVIOUS
<1>3. PICK ended : ended = [loc[t] EXCEPT !.tmp = vm_end]
  OBVIOUS
<1>4. PICK broken : broken = [loc[t] EXCEPT !.tmp = sbrk]
  OBVIOUS
<1>5. SameShape(paged, loc[t]) /\ SameShape(ended, loc[t])
  BY <1>1, <1>2, <1>3 DEF SameShape, Fields
<1>6. SameShape(broken, loc[t]) /\ SameShape(loc[t], loc[t])
  BY <1>1, <1>4 DEF SameShape, Fields
<1>7. /\ OthersStay(t) /\ pc[t] \in Early /\ pc'[t] \in Early \cup {"get"}
      /\ SameShape(loc'[t], loc[t])
  <2>1. CASE At(t, "end") /\ Goto(t, "load end")
             /\ Set(t, [loc[t] EXCEPT !.page = (vm_end \div PAGESZ) \div Ratio])
    BY <1>2, <1>5, <2>1, Moved DEF At, Goto, Set, Early
  <2>2. CASE At(t, "load end") /\ Goto(t, "store end")
             /\ Set(t, [loc[t] EXCEPT !.tmp = vm_end])
    BY <1>3, <1>5, <2>2, Moved DEF At, Goto, Set, Early
  <2>3. CASE At(t, "store end") /\ Goto(t, "load brk") /\ UNCHANGED loc
    BY <1>6, <2>3, MovedOnly DEF At, Goto, Early
  <2>4. CASE At(t, "load brk") /\ Goto(t, "store brk")
             /\ Set(t, [loc[t] EXCEPT !.tmp = sbrk])
    BY <1>4, <1>6, <2>4, Moved DEF At, Goto, Set, Early
  <2>5. CASE At(t, "store brk") /\ Goto(t, "get") /\ UNCHANGED loc
    BY <1>6, <2>5, MovedOnly DEF At, Goto, Early
  <2> QED
    BY <2>1, <2>2, <2>3, <2>4, <2>5 DEF Limits
<1>8. Grows(pc[t], loc[t])
  BY <1>1, <1>7 DEF CallOK, Growing, Grows, Early, Away
<1>9. ShapeOK(pc'[t], loc'[t])
  <2>1. ShapeOK(pc[t], loc[t]) /\ pc[t] \notin Away /\ pc'[t] \notin Away
    BY <1>7 DEF ShapesOK, Early, Away
  <2> QED
    BY <1>7, <1>8, <2>1, ShapeMoves
<1>10. loc'[t].frames = loc[t].frames /\ pc'[t] \notin {"pop", "push"}
  BY <1>7 DEF SameShape, Early
<1> QED
  BY <1>7, <1>9, <1>10 DEF Limits, QuietStep, devVars, historyVars

LEMMA WalkQuiet ==
  ASSUME CallsOK, ShapesOK, NEW t \in CPUs, TestLink(t) \/ LinkTable(t) \/ Descend(t)
  PROVE  QuietStep(t)
<1>1. DOMAIN loc[t] = Fields
  BY DEF CallsOK, CallOK
<1>2. /\ OthersStay(t) /\ pc[t] \in Walking /\ pc'[t] \in Walking
      /\ SameShape(loc'[t], loc[t])
  <2>1. SameShape(loc[t], loc[t])
    BY DEF SameShape
  <2>2. CASE TestLink(t)
    BY <2>1, <2>2, MovedOnly DEF TestLink, At, Goto, Walking
  <2>3. CASE LinkTable(t)
    BY <2>1, <2>3, MovedOnly DEF LinkTable, At, Goto, Walking
  <2>4. CASE Descend(t)
    <3>1. PICK call : call = [loc[t] EXCEPT !.table = Link(t), !.level = @ - 1]
      OBVIOUS
    <3>2. SameShape(call, loc[t])
      BY <1>1, <3>1 DEF SameShape, Fields
    <3>3. PICK label \in {"leaf", "test"} : pc' = [pc EXCEPT ![t] = label]
      BY <2>4 DEF Descend, Goto
    <3>4. loc' = [loc EXCEPT ![t] = call] /\ pc[t] = "descend"
      BY <2>4, <3>1 DEF Descend, Set, At
    <3> QED
      BY <3>2, <3>3, <3>4, Moved DEF Walking
  <2> QED
    BY <2>2, <2>3, <2>4
<1>3. UNCHANGED << free_fp_list, fp_next, allocated, entered, raced >>
  BY DEF TestLink, LinkTable, Descend, devVars, historyVars
<1>4. ShapeOK(pc'[t], loc'[t])
  <2>1. ShapeOK(pc[t], loc[t]) /\ pc[t] \notin Away /\ pc'[t] \notin Away
        /\ pc'[t] \notin Early \cup Taking \cup Giving
    BY <1>2 DEF ShapesOK, Walking, Away, Early, Taking, Giving
  <2> QED
    BY <1>2, <2>1, ShapeMoves
<1>5. loc'[t].frames = loc[t].frames /\ pc'[t] \notin {"pop", "push"}
  BY <1>2 DEF SameShape, Walking
<1> QED
  BY <1>2, <1>3, <1>4, <1>5 DEF QuietStep

LEMMA ReadFifoQuiet ==
  ASSUME CallsOK, ShapesOK, NEW t \in CPUs, ReadFifo(t)
  PROVE  QuietStep(t)
<1>1. DOMAIN loc[t] = Fields
  BY DEF CallsOK, CallOK
<1>2. PICK call : call = [loc[t] EXCEPT !.list = fifo_pgn]
  OBVIOUS
<1>3. SameShape(call, loc[t])
  BY <1>1, <1>2 DEF SameShape, Fields
<1>4. OthersStay(t) /\ loc'[t] = call /\ pc[t] = "read fifo" /\ pc'[t] = "enlist"
  BY <1>2, Moved DEF ReadFifo, At, Goto, Set
<1>5. ShapeOK(pc'[t], loc'[t])
  <2>1. ShapeOK(pc[t], loc[t])
    BY DEF ShapesOK
  <2>2. pc[t] \in Entering /\ pc'[t] \in Entering /\ pc[t] \notin Away
        /\ pc'[t] \notin Away /\ pc'[t] \notin Early \cup Taking \cup Giving
    BY <1>4 DEF Entering, Away, Early, Taking, Giving
  <2> QED
    BY <1>3, <1>4, <2>1, <2>2, ShapeMoves
<1> QED
  BY <1>3, <1>4, <1>5 DEF ReadFifo, QuietStep, SameShape, devVars, historyVars

(* On to the next page of a call that has as many frames as pages left.    *)
LEMMA NextPageShape ==
  ASSUME CallsOK, NEW t \in CPUs, NextPage(t), pc[t] \notin Away,
         ShapeOK(pc[t], loc[t]), Grows(pc[t], loc[t]) => pc[t] \in Entering
  PROVE  /\ OthersStay(t) /\ loc'[t].frames = loc[t].frames
         /\ pc'[t] \in {"test", "finish"} /\ ShapeOK(pc'[t], loc'[t])
<1>1. DOMAIN loc[t] = Fields
  BY DEF CallsOK, CallOK
<1>2. CASE loc[t].k < loc[t].n
  <2>1. PICK call : call = [loc[t] EXCEPT !.k = @ + 1, !.level = Levels, !.table = 1]
    OBVIOUS
  <2>2. /\ call.op = loc[t].op /\ call.n = loc[t].n /\ call.k = loc[t].k + 1
        /\ call.swp = loc[t].swp /\ call.frames = loc[t].frames
    BY <1>1, <2>1 DEF Fields
  <2>3. OthersStay(t) /\ loc'[t] = call /\ pc'[t] = "test"
    BY <1>2, <2>1, Moved DEF NextPage, Goto, Set
  <2>4. ShapeOK("test", call)
    <3>1. "test" \notin Away \cup Frameless \cup Early \cup Taking \cup Giving \cup Entering
          /\ "test" \in Walking /\ "test" # "lock"
      BY DEF Away, Frameless, Early, Taking, Giving, Entering, Walking
    <3>2. CASE ~Grows(pc[t], loc[t])
      BY <2>2, <3>1, <3>2 DEF ShapeOK, Grows
    <3>3. CASE Grows(pc[t], loc[t])
      <4>1. /\ loc[t].n \in Nat /\ loc[t].k \in Nat \ {0} /\ loc[t].swp = NoFrame
            /\ Len(loc[t].frames) + 1 = Due(loc[t]) /\ loc[t].frames \in Seq(Frames)
        BY <3>3 DEF ShapeOK
      <4>2. Len(call.frames) = Due(call) /\ call.k \in Nat \ {0}
        <5>1. PICK n, k, len : n = loc[t].n /\ k = loc[t].k /\ len = Len(loc[t].frames)
          OBVIOUS
        <5>2. n \in Nat /\ k \in Nat \ {0} /\ len \in Nat /\ k < n
          BY <1>2, <4>1, <5>1
        <5>3. len + 1 = n - k + 1
          BY <1>2, <4>1, <5>1 DEF Due
        <5>4. len = IF k + 1 < n THEN n - (k + 1) + 1 ELSE 1
          BY <5>2, <5>3
        <5>5. Due(call) = IF k + 1 < n THEN n - (k + 1) + 1 ELSE 1
          BY <2>2, <5>1 DEF Due
        <5> QED
          BY <2>2, <5>1, <5>2, <5>4, <5>5
      <4>3. /\ call.n \in Nat /\ call.swp = NoFrame /\ call.frames \in Seq(Frames)
            /\ Grows("test", call)
        BY <2>2, <3>1, <3>3, <4>1 DEF Grows
      <4> QED
        BY <3>1, <4>2, <4>3 DEF ShapeOK
    <3> QED
      BY <3>2, <3>3
  <2> QED
    BY <2>2, <2>3, <2>4
<1>3. CASE ~(loc[t].k < loc[t].n)
  <2>1. OthersStay(t) /\ loc'[t] = loc[t] /\ pc'[t] = "finish"
    BY <1>3, MovedOnly DEF NextPage, Goto
  <2>2. ShapeOK("finish", loc[t])
    <3>1. "finish" \notin Away \cup Early \cup Taking \cup Giving \cup Entering \cup Walking
          /\ "finish" \in Frameless /\ "finish" # "lock"
      BY DEF Away, Frameless, Early, Taking, Giving, Entering, Walking
    <3>2. CASE ~Grows(pc[t], loc[t])
      BY <3>1, <3>2 DEF ShapeOK, Grows
    <3>3. CASE Grows(pc[t], loc[t])
      <4>1. /\ loc[t].n \in Nat /\ loc[t].k \in Nat \ {0} /\ loc[t].swp = NoFrame
            /\ Len(loc[t].frames) + 1 = Due(loc[t]) /\ loc[t].frames \in Seq(Frames)
        BY <3>3 DEF ShapeOK
      <4>2. loc[t].frames = << >>
        BY <1>3, <4>1 DEF Due
      <4> QED
        BY <3>1, <4>1, <4>2 DEF ShapeOK
    <3> QED
      BY <3>2, <3>3
  <2> QED
    BY <2>1, <2>2
<1> QED
  BY <1>2, <1>3

LEMMA EnlistQuiet ==
  ASSUME CallsOK, ShapesOK, NEW t \in CPUs, Enlist(t)
  PROVE  QuietStep(t)
<1>1. DOMAIN loc[t] = Fields /\ pc[t] = "enlist" /\ ShapeOK(pc[t], loc[t])
  BY DEF CallsOK, CallOK, ShapesOK, Enlist, At
<1>2. UNCHANGED << free_fp_list, fp_next, allocated, entered, raced >>
  BY DEF Enlist, devVars, historyVars
<1>3. CASE loc[t].op = "access"
  <2>1. PICK call : call = StartWalk(t, loc[t].want)
    OBVIOUS
  <2>2. call.op = loc[t].op /\ call.frames = loc[t].frames
    BY <1>1, <2>1 DEF StartWalk, Fields
  <2>3. OthersStay(t) /\ loc'[t] = call /\ pc'[t] = "find frame"
    BY <1>3, <2>1, Moved DEF Enlist, Goto, Set
  <2>4. ShapeOK("find frame", call)
    <3>1. "find frame" # "lock" /\ "find frame" \notin Early \cup Taking \cup Giving
      BY DEF Early, Taking, Giving
    <3>2. ~Grows("find frame", call) /\ ~Grows(pc[t], loc[t])
      BY <1>3, <2>2 DEF Grows
    <3> QED
      BY <1>1, <2>2, <3>1, <3>2, ShapeStill
  <2> QED
    BY <1>2, <2>2, <2>3, <2>4 DEF QuietStep
<1>4. CASE loc[t].op # "access"
  <2>1. NextPage(t)
    BY <1>4 DEF Enlist
  <2>2. pc[t] \notin Away /\ pc[t] \in Entering
    BY <1>1 DEF Away, Entering
  <2> QED
    BY <1>1, <1>2, <2>1, <2>2, NextPageShape DEF QuietStep
<1> QED
  BY <1>3, <1>4

(* The reading walks of a page fault: the call does not grow the area.     *)
Reading == {"find page", "victim", "unlink", "find victim", "find frame"}

LEMMA ReadingQuiet ==
  ASSUME ShapesOK, NEW t \in CPUs, pc[t] \in Reading, OthersStay(t),
         loc'[t].op = loc[t].op, loc'[t].frames = loc[t].frames,
         pc'[t] \in Reading \cup {"test", "finish"}, raced => raced',
         UNCHANGED << free_fp_list, fp_next, allocated, entered >>
  PROVE  QuietStep(t)
<1>1. ShapeOK(pc[t], loc[t])
  BY DEF ShapesOK
<1>2. ~Grows(pc[t], loc[t])
  BY <1>1 DEF ShapeOK, Frameless, Early, Taking, Giving, Walking, Entering, Reading
<1>3. pc[t] \notin Away /\ pc'[t] \notin Away \cup Early \cup Taking \cup Giving
      /\ pc'[t] # "lock"
  BY DEF Reading, Away, Early, Taking, Giving
<1>4. ~Grows(pc'[t], loc'[t])
  BY <1>2, <1>3 DEF Grows
<1>5. ShapeOK(pc'[t], loc'[t])
  BY <1>1, <1>2, <1>3, <1>4, ShapeStill
<1> QED
  BY <1>3, <1>5 DEF QuietStep, Taking, Giving

LEMMA FindQuiet ==
  ASSUME CallsOK, ShapesOK, NEW t \in CPUs, Find(t)
  PROVE  QuietStep(t)
<1>1. DOMAIN loc[t] = Fields /\ pc[t] \in {"find page", "find victim", "find frame"}
  BY DEF CallsOK, CallOK, Find
<1>2. UNCHANGED << free_fp_list, fp_next, allocated, entered, raced >>
  BY DEF Find, ramVars, historyVars
<1>3. SUFFICES /\ OthersStay(t) /\ loc'[t].op = loc[t].op
               /\ loc'[t].frames = loc[t].frames
               /\ pc'[t] \in Reading \cup {"test", "finish"}
  BY <1>1, <1>2, ReadingQuiet DEF Reading
<1>4. ASSUME NEW entry, Found(t, entry) PROVE OthersStay(t)
        /\ loc'[t].op = loc[t].op /\ loc'[t].frames = loc[t].frames
        /\ pc'[t] \in Reading \cup {"test", "finish"}
  <2>1. CASE pc[t] = "find page"
    <3>1. PICK call : call = StartWalk(t, loc[t].want)
      OBVIOUS
    <3>2. call.op = loc[t].op /\ call.frames = loc[t].frames
      BY <1>1, <3>1 DEF StartWalk, Fields
    <3>3. PICK label \in {"find frame", "victim"} : pc' = [pc EXCEPT ![t] = label]
      BY <1>4, <2>1 DEF Found, Goto
    <3>4. loc' = [loc EXCEPT ![t] = call]
      BY <1>4, <2>1, <3>1 DEF Found, Set
    <3> QED
      BY <3>2, <3>3, <3>4, Moved DEF Reading
  <2>2. CASE pc[t] = "find victim"
    <3>1. CASE mswp_free = << >>
      BY <1>4, <2>2, <3>1, MovedOnly DEF Found, Goto
    <3>2. CASE mswp_free # << >>
      <4>1. PICK call : call = [StartWalk(t, Page(t)) EXCEPT !.swp = Head(mswp_free),
                           !.fpn = Mem!PAGING_FPN(entry)]
        OBVIOUS
      <4>2. call.op = loc[t].op /\ call.frames = loc[t].frames
        BY <1>1, <4>1 DEF StartWalk, Fields
      <4>3. pc' = [pc EXCEPT ![t] = "test"] /\ loc' = [loc EXCEPT ![t] = call]
        BY <1>4, <2>2, <3>2, <4>1 DEF Found, Goto, Set
      <4> QED
        BY <4>2, <4>3, Moved
    <3> QED
      BY <3>1, <3>2
  <2>3. CASE pc[t] = "find frame"
    <3>1. pc' = [pc EXCEPT ![t] = "finish"] /\ loc' = loc
      BY <1>4, <2>3 DEF Found, Goto
    <3> QED
      BY <3>1, MovedOnly
  <2> QED
    BY <1>4, <2>1, <2>2, <2>3 DEF Found
<1>5. CASE Found(t, Link(t)) \/ Found(t, ZeroEntry)
  BY <1>4, <1>5
<1>6. CASE /\ Set(t, [loc[t] EXCEPT !.table = Link(t), !.level = @ - 1])
           /\ UNCHANGED << pc, mswp_free, wild, strayed >>
  <2>1. PICK call : call = [loc[t] EXCEPT !.table = Link(t), !.level = @ - 1]
    OBVIOUS
  <2>2. call.op = loc[t].op /\ call.frames = loc[t].frames
    BY <1>1, <2>1 DEF Fields
  <2> QED
    BY <1>1, <1>6, <2>1, <2>2, SetOnly DEF Set, Reading
<1> QED
  BY <1>5, <1>6 DEF Find

LEMMA VictimQuiet ==
  ASSUME CallsOK, ShapesOK, NEW t \in CPUs, ReadVictim(t) \/ Unlink(t)
  PROVE  QuietStep(t)
<1>1. DOMAIN loc[t] = Fields
  BY DEF CallsOK, CallOK
<1>2. UNCHANGED << free_fp_list, fp_next, allocated, entered, raced >>
  BY DEF ReadVictim, Unlink, devVars, historyVars
<1>3. pc[t] \in {"victim", "unlink"}
  BY DEF ReadVictim, Unlink, At
<1>4. SUFFICES /\ OthersStay(t) /\ loc'[t].op = loc[t].op
               /\ loc'[t].frames = loc[t].frames
               /\ pc'[t] \in Reading \cup {"test", "finish"}
  BY <1>2, <1>3, ReadingQuiet DEF Reading
<1>5. CASE ReadVictim(t)
  <2>1. PICK call : call = [loc[t] EXCEPT !.list = fifo_pgn]
    OBVIOUS
  <2>2. call.op = loc[t].op /\ call.frames = loc[t].frames
    BY <1>1, <2>1 DEF Fields
  <2>3. OthersStay(t) /\ loc'[t] = call /\ pc'[t] \in {"finish", "unlink"}
    BY <1>5, <2>1, Moved DEF ReadVictim, Goto, Set
  <2> QED
    BY <2>2, <2>3 DEF Reading
<1>6. CASE Unlink(t)
  <2>1. \/ pc' = pc /\ loc' = loc
        \/ \E p : Set(t, StartWalk(t, p)) /\ Goto(t, "find victim")
    BY <1>6 DEF Unlink
  <2>2. CASE pc' = pc /\ loc' = loc
    BY <1>3, <2>2, StaysPut DEF Reading
  <2>3. CASE \E p : Set(t, StartWalk(t, p)) /\ Goto(t, "find victim")
    <3>1. PICK p : Set(t, StartWalk(t, p)) /\ Goto(t, "find victim")
      BY <2>3
    <3>2. PICK call : call = StartWalk(t, p)
      OBVIOUS
    <3>3. call.op = loc[t].op /\ call.frames = loc[t].frames
      BY <1>1, <3>2 DEF StartWalk, Fields
    <3>4. OthersStay(t) /\ loc'[t] = call /\ pc'[t] = "find victim"
      BY <3>1, <3>2, Moved DEF Goto, Set
    <3> QED
      BY <3>3, <3>4 DEF Reading
  <2> QED
    BY <2>1, <2>2, <2>3
<1> QED
  BY <1>5, <1>6

(* The entry at the end of a walk, unless it is the one of a new page.     *)
LEMMA SetLeafQuiet ==
  ASSUME CallsOK, ShapesOK, NEW t \in CPUs, SetLeaf(t), ~MapFrame(t)
  PROVE  QuietStep(t)
<1>1. DOMAIN loc[t] = Fields /\ ShapeOK(pc[t], loc[t]) /\ pc[t] = "leaf"
  BY DEF CallsOK, CallOK, ShapesOK, SetLeaf, At
<1>2. UNCHANGED << free_fp_list, fp_next, allocated, entered, raced >>
  BY DEF SetLeaf, MapPattern, SwapVictim, EnterPage, devVars
<1>3. "leaf" \notin Away \cup Frameless \cup Early \cup Taking \cup Giving \cup Entering
  BY DEF Away, Frameless, Early, Taking, Giving, Entering
<1>4. CASE MapPattern(t)
  <2>1. ~Grows(pc[t], loc[t]) /\ NextPage(t)
    BY <1>4 DEF MapPattern, Grows
  <2> QED
    BY <1>1, <1>2, <1>3, <2>1, NextPageShape DEF QuietStep
<1>5. CASE SwapVictim(t)
  <2>1. ~Grows(pc[t], loc[t])
    BY <1>1, <1>5 DEF SwapVictim, ShapeOK
  <2>2. PICK call : call = [StartWalk(t, loc[t].want) EXCEPT !.swp = NoFrame]
    OBVIOUS
  <2>3. call.op = loc[t].op /\ call.frames = loc[t].frames
    BY <1>1, <2>2 DEF StartWalk, Fields
  <2>4. OthersStay(t) /\ loc'[t] = call /\ pc'[t] = "test"
    BY <1>5, <2>2, Moved DEF SwapVictim, Goto, Set
  <2>5. "test" # "lock" /\ "test" \notin Early \cup Taking \cup Giving
    BY DEF Early, Taking, Giving
  <2>6. ~Grows("test", call)
    BY <1>1, <1>3, <2>1, <2>3 DEF Grows
  <2> QED
    BY <1>1, <1>2, <2>1, <2>3, <2>4, <2>5, <2>6, ShapeStill DEF QuietStep
<1>6. CASE EnterPage(t)
  <2>1. OthersStay(t) /\ loc'[t] = loc[t] /\ pc'[t] = "read fifo"
        /\ loc[t].op = "access"
    BY <1>6, MovedOnly DEF EnterPage, Goto
  <2>2. "read fifo" # "lock" /\ "read fifo" \notin Early \cup Taking \cup Giving
    BY DEF Early, Taking, Giving
  <2>3. ~Grows("read fifo", loc[t]) /\ ~Grows(pc[t], loc[t])
    BY <2>1 DEF Grows
  <2> QED
    BY <1>1, <1>2, <2>1, <2>2, <2>3, ShapeStill DEF QuietStep
<1> QED
  BY <1>4, <1>5, <1>6 DEF SetLeaf

-----------------------------------------------------------------------------
(* Sequences of frames                                                     *)

LEMMA AppendIs ==
  ASSUME NEW s \in Seq(Frames), NEW f \in Frames
  PROVE  /\ Append(s, f) \in Seq(Frames) /\ Len(Append(s, f)) = Len(s) + 1
         /\ Append(s, f) # << >>
         /\ \A a \in 1..Len(s) : Append(s, f)[a] = s[a]
         /\ Append(s, f)[Len(s) + 1] = f
OBVIOUS

LEMMA TailIs ==
  ASSUME NEW s \in Seq(Frames), s # << >>
  PROVE  /\ s[1] \in Frames /\ Head(s) = s[1] /\ Len(s) \in Nat \ {0}
         /\ Tail(s) \in Seq(Frames) /\ Len(Tail(s)) = Len(s) - 1
         /\ \A a \in 1..(Len(s) - 1) : Tail(s)[a] = s[a + 1]
OBVIOUS

LEMMA PushIs ==
  ASSUME NEW s \in Seq(Frames), NEW f \in Frames
  PROVE  /\ (<< f >> \o s) \in Seq(Frames) /\ Len(<< f >> \o s) = Len(s) + 1
         /\ (<< f >> \o s)[1] = f /\ (<< f >> \o s) # << >>
         /\ \A a \in 1..Len(s) : (<< f >> \o s)[a + 1] = s[a]
<1>1. << f >> \in Seq(Frames) /\ Len(<< f >>) = 1 /\ << f >>[1] = f
  OBVIOUS
<1> QED
  BY <1>1

(* The frames of a list without its first one.                             *)
LEMMA TailHeld ==
  ASSUME NEW s \in Seq(Frames), s # << >>, IsInjective(s)
  PROVE  IsInjective(Tail(s)) /\ ToSet(Tail(s)) = ToSet(s) \ {s[1]} /\ s[1] \in ToSet(s)
<1>1. PICK r : r = Tail(s)
  OBVIOUS
<1>2. /\ Len(s) \in Nat \ {0} /\ DOMAIN s = 1..Len(s) /\ DOMAIN r = 1..(Len(s) - 1)
      /\ \A a \in 1..(Len(s) - 1) : r[a] = s[a + 1]
  BY <1>1, TailIs
<1>3. \A a, b \in DOMAIN s : s[a] = s[b] => a = b
  BY DEF IsInjective
<1>4. IsInjective(r)
  BY <1>2, <1>3 DEF IsInjective
<1>5. ASSUME NEW f \in ToSet(r) PROVE f \in ToSet(s) \ {s[1]}
  <2>1. PICK a \in 1..(Len(s) - 1) : f = s[a + 1]
    BY <1>2, <1>5 DEF ToSet
  <2>2. a + 1 \in DOMAIN s /\ 1 \in DOMAIN s /\ a + 1 # 1
    BY <1>2
  <2> QED
    BY <1>3, <2>1, <2>2 DEF ToSet
<1>6. ASSUME NEW f \in ToSet(s) \ {s[1]} PROVE f \in ToSet(r)
  <2>1. PICK a \in 1..Len(s) : f = s[a]
    BY <1>2 DEF ToSet
  <2>2. a - 1 \in 1..(Len(s) - 1) /\ (a - 1) + 1 = a
    BY <1>2, <1>6, <2>1
  <2>3. r[a - 1] = f /\ a - 1 \in DOMAIN r
    BY <1>2, <2>1, <2>2
  <2> QED
    BY <2>3 DEF ToSet
<1>7. s[1] \in ToSet(s)
  BY <1>2 DEF ToSet
<1> QED
  BY <1>1, <1>4, <1>5, <1>6, <1>7

(* The frames of a list with one more at the end.                          *)
LEMMA AppendHeld ==
  ASSUME NEW s \in Seq(Frames), NEW f \in Frames, IsInjective(s), f \notin ToSet(s)
  PROVE  IsInjective(Append(s, f)) /\ ToSet(Append(s, f)) = ToSet(s) \cup {f}
<1>1. PICK r : r = Append(s, f)
  OBVIOUS
<1>2. /\ Len(s) \in Nat /\ DOMAIN s = 1..Len(s) /\ DOMAIN r = 1..(Len(s) + 1)
      /\ (\A a \in 1..Len(s) : r[a] = s[a]) /\ r[Len(s) + 1] = f
  BY <1>1, AppendIs
<1>3. \A a, b \in DOMAIN s : s[a] = s[b] => a = b
  BY DEF IsInjective
<1>4. \A a \in 1..Len(s) : s[a] # f
  BY <1>2 DEF ToSet
<1>5. IsInjective(r)
  BY <1>2, <1>3, <1>4 DEF IsInjective
<1>6. \A x \in ToSet(r) : x \in ToSet(s) \cup {f}
  BY <1>2 DEF ToSet
<1>7. \A x \in ToSet(s) : x \in ToSet(r)
  BY <1>2 DEF ToSet
<1>8. f \in ToSet(r)
  BY <1>2 DEF ToSet
<1> QED
  BY <1>1, <1>5, <1>6, <1>7, <1>8

-----------------------------------------------------------------------------
(* The free list                                                           *)

LEMMA FirstFree ==
  ASSUME RamTyped, NEW s, FreeList(s), free_fp_list # NoFrame
  PROVE  s \in Seq(Frames) /\ s # << >> /\ s[1] = free_fp_list
         /\ free_fp_list \in allocated
<1>1. s \in Seq(Frames) /\ s # << >> /\ s[1] = free_fp_list
  BY DEF FreeList
<1>2. 1 \in DOMAIN s
  BY <1>1, TailIs
<1> QED
  BY <1>1, <1>2 DEF FreeList

(* The first node is taken off the list.                                   *)
LEMMA ListPops ==
  ASSUME NEW s, FreeList(s), s # << >>, free_fp_list' = fp_next[free_fp_list],
         allocated' = allocated \ {free_fp_list}, fp_next' = fp_next
  PROVE  ListOK'
<1>1. PICK r : r = Tail(s)
  OBVIOUS
<1>2. /\ s \in Seq(Frames) /\ free_fp_list = s[1]
      /\ \A a, b \in DOMAIN s : s[a] = s[b] => a = b
      /\ \A a \in DOMAIN s : fp_next[s[a]] = IF a < Len(s) THEN s[a + 1] ELSE NoFrame
  BY DEF FreeList
<1>3. /\ Len(s) \in Nat \ {0} /\ DOMAIN s = 1..Len(s) /\ DOMAIN r = 1..(Len(s) - 1)
      /\ r \in Seq(Frames) /\ Len(r) = Len(s) - 1
      /\ \A a \in 1..(Len(s) - 1) : r[a] = s[a + 1]
  BY <1>1, <1>2, TailIs
<1>4. \A a, b \in DOMAIN r : r[a] = r[b] => a = b
  BY <1>2, <1>3
<1>5. allocated' = {r[a] : a \in DOMAIN r}
  <2>1. IsInjective(s)
    BY <1>2 DEF IsInjective
  <2>2. ToSet(r) = ToSet(s) \ {s[1]}
    BY <1>1, <1>2, <2>1, TailHeld
  <2>3. ToSet(s) = allocated
    BY DEF FreeList, ToSet
  <2> QED
    BY <1>2, <2>2, <2>3 DEF ToSet
<1>6. free_fp_list' = IF r = << >> THEN NoFrame ELSE r[1]
  <2>1. free_fp_list' = IF 1 < Len(s) THEN s[2] ELSE NoFrame
    BY <1>2, <1>3
  <2>2. CASE 1 < Len(s)
    <3>1. Len(r) # 0 /\ r[1] = s[2]
      BY <1>3, <2>2
    <3>2. r # << >>
      BY <3>1
    <3> QED
      BY <2>1, <2>2, <3>1, <3>2
  <2>3. CASE ~(1 < Len(s))
    <3>1. Len(r) = 0
      BY <1>3, <2>3
    <3>2. r = << >>
      BY <1>3, <3>1
    <3> QED
      BY <2>1, <2>3, <3>2
  <2> QED
    BY <2>2, <2>3
<1>7. \A a \in DOMAIN r : fp_next'[r[a]] = IF a < Len(r) THEN r[a + 1] ELSE NoFrame
  <2> SUFFICES ASSUME NEW a \in 1..(Len(s) - 1)
               PROVE  fp_next[s[a + 1]] = IF a < Len(s) - 1 THEN r[a + 1] ELSE NoFrame
    BY <1>3
  <2>1. a + 1 \in DOMAIN s
    BY <1>3
  <2>2. fp_next[s[a + 1]] = IF a + 1 < Len(s) THEN s[a + 1 + 1] ELSE NoFrame
    BY <1>2, <2>1
  <2>3. a < Len(s) - 1 => r[a + 1] = s[a + 1 + 1]
    BY <1>3
  <2>4. a \in Nat /\ (a < Len(s) - 1 <=> a + 1 < Len(s))
    BY <1>3
  <2> QED
    BY <2>2, <2>3, <2>4
<1>8. FreeList(r)'
  BY <1>3, <1>4, <1>5, <1>6, <1>7 DEF FreeList
<1> QED
  BY <1>8 DEF ListOK

(* A node that is not in the list becomes its first.                       *)
LEMMA ListPushes ==
  ASSUME RamTyped, NEW s, FreeList(s), NEW f \in Frames \ allocated,
         free_fp_list' = f, allocated' = allocated \cup {f},
         fp_next' = [fp_next EXCEPT ![f] = free_fp_list]
  PROVE  ListOK'
<1>1. PICK r : r = << f >> \o s
  OBVIOUS
<1>2. /\ s \in Seq(Frames) /\ allocated = {s[a] : a \in DOMAIN s}
      /\ \A a, b \in DOMAIN s : s[a] = s[b] => a = b
      /\ \A a \in DOMAIN s : fp_next[s[a]] = IF a < Len(s) THEN s[a + 1] ELSE NoFrame
  BY DEF FreeList
<1>3. /\ Len(s) \in Nat /\ DOMAIN s = 1..Len(s) /\ DOMAIN r = 1..(Len(s) + 1)
      /\ r \in Seq(Frames) /\ Len(r) = Len(s) + 1 /\ r[1] = f /\ r # << >>
      /\ \A a \in 1..Len(s) : r[a + 1] = s[a]
  BY <1>1, <1>2, PushIs
<1>4. \A a \in 1..Len(s) : s[a] # f /\ s[a] \in Frames
  BY <1>2, <1>3
<1>5. \A a \in 2..(Len(s) + 1) : a - 1 \in 1..Len(s) /\ r[a] = s[a - 1]
  <2> SUFFICES ASSUME NEW a \in 2..(Len(s) + 1)
               PROVE  a - 1 \in 1..Len(s) /\ r[a] = s[a - 1]
    OBVIOUS
  <2>1. a - 1 \in 1..Len(s) /\ (a - 1) + 1 = a
    BY <1>3
  <2>2. r[(a - 1) + 1] = s[a - 1]
    BY <1>3, <2>1
  <2> QED
    BY <2>1, <2>2
<1>6. ASSUME NEW a \in DOMAIN r, NEW b \in DOMAIN r, r[a] = r[b] PROVE a = b
  <2>1. a \in 1..(Len(s) + 1) /\ b \in 1..(Len(s) + 1)
    BY <1>3
  <2>2. CASE a = 1 \/ b = 1
    BY <1>3, <1>4, <1>5, <1>6, <2>1, <2>2
  <2>3. CASE a # 1 /\ b # 1
    <3>1. a \in 2..(Len(s) + 1) /\ b \in 2..(Len(s) + 1)
      BY <1>3, <2>1, <2>3
    <3>2. s[a - 1] = s[b - 1] /\ a - 1 \in DOMAIN s /\ b - 1 \in DOMAIN s
      BY <1>3, <1>5, <1>6, <3>1
    <3>3. a - 1 = b - 1
      BY <1>2, <3>2
    <3> QED
      BY <3>1, <3>3
  <2> QED
    BY <2>2, <2>3
<1>7. allocated' = {r[a] : a \in DOMAIN r}
  <2>1. ASSUME NEW x \in allocated \cup {f} PROVE \E a \in DOMAIN r : x = r[a]
    <3>1. CASE x = f
      BY <1>3, <3>1
    <3>2. CASE x \in allocated
      <4>1. PICK a \in 1..Len(s) : x = s[a]
        BY <1>2, <1>3, <3>2
      <4>2. a + 1 \in DOMAIN r /\ r[a + 1] = x
        BY <1>3, <4>1
      <4> QED
        BY <4>2
    <3> QED
      BY <2>1, <3>1, <3>2
  <2>2. ASSUME NEW a \in DOMAIN r PROVE r[a] \in allocated \cup {f}
    <3>1. CASE a = 1
      BY <1>3, <3>1
    <3>2. CASE a # 1
      <4>1. a \in 2..(Len(s) + 1)
        BY <1>3, <3>2
      <4> QED
        BY <1>2, <1>3, <1>5, <4>1
    <3> QED
      BY <3>1, <3>2
  <2> QED
    BY <2>1, <2>2
<1>8. free_fp_list' = IF r = << >> THEN NoFrame ELSE r[1]
  BY <1>3
<1>9. ASSUME NEW a \in DOMAIN r
      PROVE  fp_next'[r[a]] = IF a < Len(r) THEN r[a + 1] ELSE NoFrame
  <2>1. \A x \in Frames : fp_next'[x] = IF x = f THEN free_fp_list ELSE fp_next[x]
    BY DEF RamTyped
  <2>2. CASE a = 1
    <3>1. fp_next'[r[a]] = IF s = << >> THEN NoFrame ELSE s[1]
      BY <1>3, <2>1, <2>2 DEF FreeList
    <3>2. CASE s = << >>
      <4>1. Len(s) = 0
        BY <3>2
      <4> QED
        BY <1>3, <2>2, <3>1, <3>2, <4>1
    <3>3. CASE s # << >>
      <4>1. Len(s) \in Nat \ {0}
        BY <1>2, <3>3, TailIs
      <4>2. r[1 + 1] = s[1] /\ 1 < Len(r)
        BY <1>3, <4>1
      <4> QED
        BY <2>2, <3>1, <3>3, <4>2
    <3> QED
      BY <3>2, <3>3
  <2>3. CASE a # 1
    <3>1. a \in 2..(Len(s) + 1)
      BY <1>3, <2>3
    <3>2. a - 1 \in 1..Len(s) /\ r[a] = s[a - 1]
      BY <1>5, <3>1
    <3>3. fp_next'[r[a]] = IF a - 1 < Len(s) THEN s[a - 1 + 1] ELSE NoFrame
      BY <1>2, <1>3, <1>4, <2>1, <3>2
    <3>4. a - 1 + 1 = a /\ (a - 1 < Len(s) <=> a < Len(r))
      BY <1>3, <3>1
    <3>5. a < Len(r) => r[a + 1] = s[a]
      BY <1>3, <3>1
    <3> QED
      BY <3>3, <3>4, <3>5
  <2> QED
    BY <2>2, <2>3
<1>10. FreeList(r)'
  BY <1>3, <1>6, <1>7, <1>8, <1>9 DEF FreeList
<1> QED
  BY <1>10 DEF ListOK

-----------------------------------------------------------------------------
(* Steps that read the list or move a frame                                *)

(* Before growths overlap, a CPU that grows the area is the only one that  *)
(* has frames or has read the list.                                        *)
LEMMA Alone ==
  ASSUME KInv, ShapesOK, ~raced, NEW t \in CPUs, Grows(pc[t], loc[t]),
         NEW u \in CPUs \ {t}
  PROVE  loc[u].frames = << >> /\ pc[u] \notin {"pop", "push"}
<1>1. Growing(t) /\ ~Growing(u)
  BY DEF KInv, GrowersOK, Growing, Inside, Grows, Away
<1>2. ~Grows(pc[u], loc[u])
  BY <1>1 DEF Growing, Inside, Grows, Away
<1> QED
  BY <1>2 DEF ShapesOK, ShapeOK, Taking, Giving

(* ... so that a step of its own keeps every frame in one place if the     *)
(* frames come and go between its hands, the list and the page table.      *)
LEMMA FramesMove ==
  ASSUME KInv, ShapesOK, ~raced, NEW t \in CPUs, Grows(pc[t], loc[t]), OthersStay(t),
         allocated' \cup entered' \cup ToSet(loc'[t].frames) = Frames,
         allocated' \cap entered' = {}, IsInjective(loc'[t].frames),
         ToSet(loc'[t].frames) \cap (allocated' \cup entered') = {}
  PROVE  Placed'
<1>1. \A u \in CPUs \ {t} : Held(u)' = {} /\ IsInjective(loc'[u].frames)
  <2> SUFFICES ASSUME NEW u \in CPUs \ {t}
               PROVE  Held(u)' = {} /\ IsInjective(loc'[u].frames)
    OBVIOUS
  <2>1. loc'[u].frames = << >>
    BY Alone DEF OthersStay
  <2> QED
    BY <2>1 DEF Held, ToSet, IsInjective
<1>2. Held(t)' = ToSet(loc'[t].frames)
  BY DEF Held
<1>3. UNION {Held(u)' : u \in CPUs} = Held(t)'
  BY <1>1
<1>4. Placed' <=>
        /\ allocated' \cup entered' \cup UNION {Held(u)' : u \in CPUs} = Frames
        /\ allocated' \cap entered' = {}
        /\ \A u \in CPUs : /\ IsInjective(loc'[u].frames)
                           /\ Held(u)' \cap (allocated' \cup entered') = {}
                           /\ \A v \in CPUs \ {u} : Held(u)' \cap Held(v)' = {}
  BY DEF Placed
<1> QED
  BY <1>1, <1>2, <1>3, <1>4

LEMMA PlacedMine ==
  ASSUME KInv, ShapesOK, ~raced, Placed, NEW t \in CPUs, Grows(pc[t], loc[t])
  PROVE  /\ allocated \cup entered \cup ToSet(loc[t].frames) = Frames
         /\ allocated \cap entered = {} /\ IsInjective(loc[t].frames)
         /\ ToSet(loc[t].frames) \cap (allocated \cup entered) = {}
<1>1. \A u \in CPUs \ {t} : Held(u) = {}
  BY Alone DEF Held, ToSet
<1>2. UNION {Held(u) : u \in CPUs} = Held(t) /\ Held(t) = ToSet(loc[t].frames)
  BY <1>1 DEF Held
<1> QED
  BY <1>2 DEF Placed

(* GetFrame and PutRead: the head of the list is read.                     *)
LEMMA HeadRead ==
  ASSUME KInv, ShapesOK, RamTyped, ~raced => Places, NEW t \in CPUs,
         Grows(pc[t], loc[t]), OthersStay(t),
         loc'[t].frames = loc[t].frames, loc'[t].tmp = free_fp_list,
         pc'[t] = "pop" => free_fp_list # NoFrame, raced' = raced,
         UNCHANGED << free_fp_list, fp_next, allocated, entered >>
  PROVE  RamTyped' /\ (~raced' => Places')
<1>1. RamTyped'
  BY DEF RamTyped, OthersStay
<1>2. ASSUME ~raced PROVE Places'
  <2>1. Places
    BY <1>2
  <2>2. ListOK'
    BY <2>1 DEF Places, ListOK, FreeList
  <2>3. HandsOK'
    BY <2>1 DEF Places, HandsOK, OthersStay
  <2>4. Placed'
    BY <1>2, <2>1, PlacedMine, FramesMove DEF Places
  <2> QED
    BY <2>2, <2>3, <2>4 DEF Places
<1> QED
  BY <1>1, <1>2

LEMMA GetFrameKeeps ==
  ASSUME KInv, ShapesOK, RamTyped, ~raced => Places, NEW t \in CPUs, GetFrame(t)
  PROVE  ShapesOK' /\ RamTyped' /\ (~raced' => Places')
<1>1. CallsOK /\ DOMAIN loc[t] = Fields /\ pc[t] = "get" /\ ShapeOK(pc[t], loc[t])
      /\ UNCHANGED << free_fp_list, fp_next, allocated, entered, raced >>
  BY DEF KInv, CallsOK, CallOK, ShapesOK, GetFrame, At, devVars, historyVars
<1>2. PICK call : call = [loc[t] EXCEPT !.tmp = free_fp_list]
  OBVIOUS
<1>3. SameShape(call, loc[t]) /\ call.tmp = free_fp_list
  BY <1>1, <1>2 DEF SameShape, Fields
<1>4. PICK label : /\ label = IF free_fp_list # NoFrame THEN "pop" ELSE AfterRunOut(t)
                   /\ pc' = [pc EXCEPT ![t] = label]
  BY DEF GetFrame, Goto
<1>5. OthersStay(t) /\ loc'[t] = call /\ pc'[t] = label
  BY <1>1, <1>2, <1>4, Moved DEF GetFrame, Set
<1>6. Grows(pc[t], loc[t])
  BY <1>1 DEF ShapeOK, Taking
<1>7. ShapeOK(label, call)
  <2>1. /\ call.n \in Nat /\ call.k \in Nat \ {0} /\ call.swp = NoFrame /\ call.k = 1
        /\ Len(call.frames) = 0 \/ Len(call.frames) < call.n
        /\ call.frames \in Seq(Frames)
    BY <1>1, <1>3, <1>6 DEF ShapeOK, SameShape, Taking
  <2>2. CASE label = "pop"
    <3>1. /\ Grows(label, call) /\ label \in Taking
          /\ label \notin Frameless \cup Giving \cup Walking \cup Entering /\ label # "lock"
      BY <1>3, <1>6, <2>2
      DEF Grows, SameShape, Away, Frameless, Early, Taking, Giving, Walking, Entering
    <3> QED
      BY <2>1, <3>1 DEF ShapeOK
  <2>3. CASE label = "put" /\ call.frames # << >>
    <3>1. /\ Grows(label, call) /\ label \in Giving /\ label # "lock"
          /\ label \notin Frameless \cup Early \cup Taking \cup Walking \cup Entering
      BY <1>3, <1>6, <2>3
      DEF Grows, SameShape, Away, Frameless, Early, Taking, Giving, Walking, Entering
    <3> QED
      BY <2>1, <2>3, <3>1 DEF ShapeOK
  <2>4. CASE label = "finish" /\ call.frames = << >>
    <3>1. /\ Grows(label, call) /\ label \in Frameless /\ label # "lock"
          /\ label \notin Early \cup Taking \cup Giving \cup Walking \cup Entering
      BY <1>3, <1>6, <2>4
      DEF Grows, SameShape, Away, Frameless, Early, Taking, Giving, Walking, Entering
    <3> QED
      BY <2>1, <2>4, <3>1 DEF ShapeOK
  <2> QED
    BY <1>3, <1>4, <2>2, <2>3, <2>4 DEF AfterRunOut, SameShape
<1>8. ShapesOK'
  BY <1>5, <1>7 DEF ShapesOK, OthersStay
<1>9. pc'[t] = "pop" => free_fp_list # NoFrame
  BY <1>4, <1>5 DEF AfterRunOut
<1>10. loc'[t].frames = loc[t].frames /\ loc'[t].tmp = free_fp_list
  BY <1>3, <1>5 DEF SameShape
<1> QED
  BY <1>1, <1>5, <1>6, <1>8, <1>9, <1>10, HeadRead

LEMMA PutReadKeeps ==
  ASSUME KInv, ShapesOK, RamTyped, ~raced => Places, NEW t \in CPUs, PutRead(t)
  PROVE  ShapesOK' /\ RamTyped' /\ (~raced' => Places')
<1>1. CallsOK /\ DOMAIN loc[t] = Fields /\ pc[t] = "put" /\ ShapeOK(pc[t], loc[t])
      /\ UNCHANGED << free_fp_list, fp_next, allocated, entered, raced >>
  BY DEF KInv, CallsOK, CallOK, ShapesOK, PutRead, At, devVars, historyVars
<1>2. PICK call : call = [loc[t] EXCEPT !.tmp = free_fp_list]
  OBVIOUS
<1>3. SameShape(call, loc[t]) /\ call.tmp = free_fp_list
  BY <1>1, <1>2 DEF SameShape, Fields
<1>4. OthersStay(t) /\ loc'[t] = call /\ pc'[t] = "push"
  BY <1>1, <1>2, Moved DEF PutRead, Goto, Set
<1>5. Grows(pc[t], loc[t])
  BY <1>1 DEF ShapeOK, Giving
<1>6. ShapeOK("push", call)
  <2>1. /\ call.n \in Nat /\ call.k \in Nat \ {0} /\ call.swp = NoFrame
        /\ call.frames # << >> /\ call.frames \in Seq(Frames)
    BY <1>1, <1>3, <1>5 DEF ShapeOK, SameShape, Giving
  <2>2. /\ Grows("push", call) /\ "push" \in Giving /\ "push" # "lock"
        /\ "push" \notin Frameless \cup Early \cup Taking \cup Walking \cup Entering
    BY <1>3, <1>5
    DEF Grows, SameShape, Away, Frameless, Early, Taking, Giving, Walking, Entering
  <2> QED
    BY <2>1, <2>2 DEF ShapeOK
<1>7. ShapesOK'
  BY <1>4, <1>6 DEF ShapesOK, OthersStay
<1>8. loc'[t].frames = loc[t].frames /\ loc'[t].tmp = free_fp_list /\ pc'[t] # "pop"
  BY <1>3, <1>4 DEF SameShape
<1> QED
  BY <1>1, <1>4, <1>5, <1>7, <1>8, HeadRead

(* A CPU that did not read the list, and is not about to, goes on; the     *)
(* others have nothing read that a change of the list could make stale.    *)
LEMMA NothingStale ==
  ASSUME KInv, ShapesOK, ~raced, NEW t \in CPUs, Grows(pc[t], loc[t]), OthersStay(t),
         pc'[t] \notin {"pop", "push"}
  PROVE  HandsOK'
<1> SUFFICES ASSUME NEW u \in CPUs PROVE pc'[u] \notin {"pop", "push"}
  BY DEF HandsOK
<1> QED
  BY Alone DEF OthersStay

LEMMA PopFrameKeeps ==
  ASSUME KInv, ShapesOK, RamTyped, ~raced => Places, NEW t \in CPUs, PopFrame(t)
  PROVE  ShapesOK' /\ RamTyped' /\ (~raced' => Places')
<1>1. CallsOK /\ DOMAIN loc[t] = Fields /\ pc[t] = "pop" /\ ShapeOK(pc[t], loc[t])
      /\ UNCHANGED << entered, raced >>
  BY DEF KInv, CallsOK, CallOK, ShapesOK, PopFrame, At, historyVars
<1>2. PICK f : f = loc[t].tmp
  OBVIOUS
<1>3. CASE f \notin allocated
  <2>1. UNCHANGED << pc, loc, free_fp_list, fp_next, allocated >>
    BY <1>2, <1>3 DEF PopFrame, ramVars
  <2>2. Quiet /\ ShapesOK'
    BY <1>1, <2>1 DEF Quiet, ShapesOK
  <2> QED
    BY <2>2, QuietKeeps
<1>4. CASE f \in allocated
  <2>1. f \in Frames
    BY <1>4 DEF RamTyped
  <2>2. PICK call : call = [loc[t] EXCEPT !.frames = Append(@, f)]
    OBVIOUS
  <2>3. /\ call.op = loc[t].op /\ call.n = loc[t].n /\ call.k = loc[t].k
        /\ call.swp = loc[t].swp /\ call.frames = Append(loc[t].frames, f)
    BY <1>1, <2>2 DEF Fields
  <2>4. PICK label : /\ label = IF Len(loc[t].frames) + 1 < loc[t].n THEN "get" ELSE "test"
                     /\ pc' = [pc EXCEPT ![t] = label]
    BY <1>2, <1>4 DEF PopFrame, Goto
  <2>5. /\ loc' = [loc EXCEPT ![t] = call] /\ free_fp_list' = fp_next[f]
        /\ allocated' = allocated \ {f} /\ fp_next' = fp_next
    BY <1>2, <1>4, <2>2 DEF PopFrame, Set, NodeAfter
  <2>6. OthersStay(t) /\ loc'[t] = call /\ pc'[t] = label /\ label \in {"get", "test"}
    BY <1>1, <2>4, <2>5, Moved
  <2>7. Grows(pc[t], loc[t])
    BY <1>1 DEF ShapeOK, Taking
  <2>8. /\ loc[t].n \in Nat /\ loc[t].k = 1 /\ loc[t].swp = NoFrame
        /\ Len(loc[t].frames) = 0 \/ Len(loc[t].frames) < loc[t].n
        /\ loc[t].frames \in Seq(Frames)
    BY <1>1, <2>7 DEF ShapeOK, Taking
  <2>9. /\ call.frames \in Seq(Frames) /\ Len(call.frames) = Len(loc[t].frames) + 1
        /\ Len(loc[t].frames) \in Nat
    BY <2>1, <2>3, <2>8, AppendIs
  <2>10. ShapeOK(label, call)
    <3>1. /\ call.n \in Nat /\ call.k \in Nat \ {0} /\ call.swp = NoFrame /\ call.k = 1
      BY <2>3, <2>8
    <3>2. CASE label = "get"
      <4>1. /\ Grows(label, call) /\ label \in Taking /\ label # "lock"
            /\ label \notin Frameless \cup Giving \cup Walking \cup Entering
        BY <2>3, <2>7, <3>2
        DEF Grows, Away, Frameless, Early, Taking, Giving, Walking, Entering
      <4>2. Len(call.frames) < call.n
        BY <2>3, <2>4, <2>9, <3>2
      <4> QED
        BY <2>9, <3>1, <4>1, <4>2 DEF ShapeOK
    <3>3. CASE label = "test"
      <4>1. /\ Grows(label, call) /\ label \in Walking /\ label # "lock"
            /\ label \notin Frameless \cup Early \cup Taking \cup Giving \cup Entering
        BY <2>3, <2>7, <3>3
        DEF Grows, Away, Frameless, Early, Taking, Giving, Walking, Entering
      <4>2. Len(call.frames) = Due(call)
        <5>1. PICK n, len : n = loc[t].n /\ len = Len(loc[t].frames)
          OBVIOUS
        <5>2. n \in Nat /\ len \in Nat /\ ~(len + 1 < n) /\ (len = 0 \/ len < n)
          BY <2>4, <2>8, <2>9, <3>3, <5>1
        <5>3. len + 1 = IF 1 < n THEN n - 1 + 1 ELSE 1
          BY <5>2
        <5>4. Due(call) = IF 1 < n THEN n - 1 + 1 ELSE 1
          BY <2>3, <2>8, <5>1 DEF Due
        <5> QED
          BY <2>9, <5>1, <5>3, <5>4
      <4> QED
        BY <2>9, <3>1, <4>1, <4>2 DEF ShapeOK
    <3> QED
      BY <2>6, <3>2, <3>3
  <2>11. ShapesOK'
    BY <2>6, <2>10 DEF ShapesOK, OthersStay
  <2>12. RamTyped'
    BY <2>1, <2>5, <2>6 DEF RamTyped, OthersStay
  <2>13. ASSUME ~raced PROVE Places'
    <3>1. ListOK /\ HandsOK /\ Placed
      BY <2>13 DEF Places
    <3>2. f = free_fp_list /\ f # NoFrame
      BY <1>1, <1>2, <3>1 DEF HandsOK
    <3>3. PICK s : FreeList(s)
      BY <3>1 DEF ListOK
    <3>4. s # << >>
      BY <3>2, <3>3, FirstFree
    <3>5. ListOK'
      BY <2>5, <3>2, <3>3, <3>4, ListPops
    <3>6. HandsOK'
      BY <2>6, <2>7, <2>13, NothingStale
    <3>7. /\ allocated \cup entered \cup ToSet(loc[t].frames) = Frames
          /\ allocated \cap entered = {} /\ IsInjective(loc[t].frames)
          /\ ToSet(loc[t].frames) \cap (allocated \cup entered) = {}
      BY <2>7, <2>13, <3>1, PlacedMine
    <3>8. /\ IsInjective(loc'[t].frames)
          /\ ToSet(loc'[t].frames) = ToSet(loc[t].frames) \cup {f}
      BY <1>4, <2>1, <2>3, <2>6, <2>8, <3>7, AppendHeld
    <3>9. /\ allocated' \cup entered' \cup ToSet(loc'[t].frames) = Frames
          /\ allocated' \cap entered' = {}
          /\ ToSet(loc'[t].frames) \cap (allocated' \cup entered') = {}
      BY <1>1, <1>4, <2>5, <3>7, <3>8
    <3>10. Placed'
      BY <2>6, <2>7, <2>13, <3>8, <3>9, FramesMove
    <3> QED
      BY <3>5, <3>6, <3>10 DEF Places
  <2> QED
    BY <1>1, <2>11, <2>12, <2>13
<1> QED
  BY <1>3, <1>4

LEMMA PutFrameKeeps ==
  ASSUME KInv, ShapesOK, RamTyped, ~raced => Places, NEW t \in CPUs, PutFrame(t)
  PROVE  ShapesOK' /\ RamTyped' /\ (~raced' => Places')
<1>1. CallsOK /\ DOMAIN loc[t] = Fields /\ pc[t] = "push" /\ ShapeOK(pc[t], loc[t])
      /\ UNCHANGED << entered, raced >>
  BY DEF KInv, CallsOK, CallOK, ShapesOK, PutFrame, At, historyVars
<1>2. Grows(pc[t], loc[t])
  BY <1>1 DEF ShapeOK, Giving
<1>3. /\ loc[t].n \in Nat /\ loc[t].k \in Nat \ {0} /\ loc[t].swp = NoFrame
      /\ loc[t].frames # << >> /\ loc[t].frames \in Seq(Frames)
  BY <1>1, <1>2 DEF ShapeOK, Giving
<1>4. PICK f \in Frames : f = Head(loc[t].frames) /\ f = loc[t].frames[1]
  BY <1>3, TailIs
<1>5. PICK rest \in Seq(Frames) : rest = Tail(loc[t].frames)
  BY <1>3, TailIs
<1>6. PICK call : call = [loc[t] EXCEPT !.frames = rest]
  OBVIOUS
<1>7. /\ call.op = loc[t].op /\ call.n = loc[t].n /\ call.k = loc[t].k
      /\ call.swp = loc[t].swp /\ call.frames = rest
  BY <1>1, <1>6 DEF Fields
<1>8. PICK label : /\ label = IF rest = << >> THEN "finish" ELSE "put"
                   /\ pc' = [pc EXCEPT ![t] = label]
  BY <1>5 DEF PutFrame, Goto
<1>9. /\ loc' = [loc EXCEPT ![t] = call] /\ free_fp_list' = f
      /\ allocated' = allocated \cup {f} /\ fp_next' = [fp_next EXCEPT ![f] = loc[t].tmp]
  BY <1>4, <1>5, <1>6 DEF PutFrame, Set
<1>10. OthersStay(t) /\ loc'[t] = call /\ pc'[t] = label /\ label \in {"finish", "put"}
  BY <1>1, <1>8, <1>9, Moved
<1>11. ShapeOK(label, call)
  <2>1. /\ call.n \in Nat /\ call.k \in Nat \ {0} /\ call.swp = NoFrame
        /\ call.frames \in Seq(Frames)
    BY <1>3, <1>7
  <2>2. CASE label = "put"
    <3>1. /\ Grows(label, call) /\ label \in Giving /\ label # "lock"
          /\ label \notin Frameless \cup Early \cup Taking \cup Walking \cup Entering
      BY <1>2, <1>7, <2>2
      DEF Grows, Away, Frameless, Early, Taking, Giving, Walking, Entering
    <3>2. call.frames # << >>
      BY <1>7, <1>8, <2>2
    <3> QED
      BY <2>1, <3>1, <3>2 DEF ShapeOK
  <2>3. CASE label = "finish"
    <3>1. /\ Grows(label, call) /\ label \in Frameless /\ label # "lock"
          /\ label \notin Early \cup Taking \cup Giving \cup Walking \cup Entering
      BY <1>2, <1>7, <2>3
      DEF Grows, Away, Frameless, Early, Taking, Giving, Walking, Entering
    <3>2. call.frames = << >>
      BY <1>7, <1>8, <2>3
    <3> QED
      BY <2>1, <3>1, <3>2 DEF ShapeOK
  <2> QED
    BY <1>10, <2>2, <2>3
<1>12. ShapesOK'
  BY <1>10, <1>11 DEF ShapesOK, OthersStay
<1>13. loc[t].tmp \in Frames \cup {NoFrame}
  BY <1>1 DEF RamTyped
<1>14. RamTyped'
  <2>1. fp_next' \in [Frames -> Frames \cup {NoFrame}]
    BY <1>9, <1>13 DEF RamTyped
  <2>2. free_fp_list' \in Frames \cup {NoFrame} /\ allocated' \subseteq Frames
    BY <1>9 DEF RamTyped
  <2>3. \A u \in CPUs : pc'[u] \in {"pop", "push"} => loc'[u].tmp \in Frames \cup {NoFrame}
    BY <1>10 DEF RamTyped, OthersStay
  <2> QED
    BY <2>1, <2>2, <2>3 DEF RamTyped
<1>15. ASSUME ~raced PROVE Places'
  <2>1. ListOK /\ HandsOK /\ Placed
    BY <1>15 DEF Places
  <2>2. loc[t].tmp = free_fp_list
    BY <1>1, <2>1 DEF HandsOK
  <2>3. /\ allocated \cup entered \cup ToSet(loc[t].frames) = Frames
        /\ allocated \cap entered = {} /\ IsInjective(loc[t].frames)
        /\ ToSet(loc[t].frames) \cap (allocated \cup entered) = {}
    BY <1>2, <1>15, <2>1, PlacedMine
  <2>4. /\ IsInjective(loc'[t].frames) /\ f \in ToSet(loc[t].frames)
        /\ ToSet(loc'[t].frames) = ToSet(loc[t].frames) \ {f}
    BY <1>3, <1>4, <1>5, <1>7, <1>10, <2>3, TailHeld
  <2>5. f \notin allocated \cup entered
    BY <2>3, <2>4
  <2>6. PICK s : FreeList(s)
    BY <2>1 DEF ListOK
  <2>7. ListOK'
    BY <1>9, <2>2, <2>5, <2>6, ListPushes
  <2>8. HandsOK'
    BY <1>2, <1>10, <1>15, NothingStale
  <2>9. /\ allocated' \cup entered' \cup ToSet(loc'[t].frames) = Frames
        /\ allocated' \cap entered' = {}
        /\ ToSet(loc'[t].frames) \cap (allocated' \cup entered') = {}
    BY <1>1, <1>9, <2>3, <2>4, <2>5
  <2>10. Placed'
    BY <1>2, <1>10, <1>15, <2>4, <2>9, FramesMove
  <2> QED
    BY <2>7, <2>8, <2>10 DEF Places
<1> QED
  BY <1>1, <1>12, <1>14, <1>15

LEMMA MapFrameKeeps ==
  ASSUME KInv, ShapesOK, RamTyped, ~raced => Places, NEW t \in CPUs, SetLeaf(t), MapFrame(t)
  PROVE  ShapesOK' /\ RamTyped' /\ (~raced' => Places')
<1>1. CallsOK /\ DOMAIN loc[t] = Fields /\ pc[t] = "leaf" /\ ShapeOK(pc[t], loc[t])
      /\ UNCHANGED << free_fp_list, fp_next, allocated, raced >>
  BY DEF KInv, CallsOK, CallOK, ShapesOK, SetLeaf, At, devVars
<1>2. Grows(pc[t], loc[t])
  BY <1>1 DEF MapFrame, Grows, Away
<1>3. /\ loc[t].n \in Nat /\ loc[t].k \in Nat \ {0} /\ loc[t].swp = NoFrame
      /\ Len(loc[t].frames) = Due(loc[t]) /\ loc[t].frames \in Seq(Frames)
  BY <1>1, <1>2 DEF ShapeOK, Walking
<1>4. loc[t].frames # << >>
  <2>1. Due(loc[t]) # 0
    <3>1. PICK n, k : n = loc[t].n /\ k = loc[t].k
      OBVIOUS
    <3>2. n \in Nat /\ k \in Nat /\ (k < n => n - k + 1 # 0)
      BY <1>3, <3>1
    <3> QED
      BY <3>1, <3>2 DEF Due
  <2> QED
    BY <1>3, <2>1
<1>5. PICK f \in Frames : f = loc[t].frames[1]
  BY <1>3, <1>4, TailIs
<1>6. PICK rest \in Seq(Frames) : rest = Tail(loc[t].frames)
  BY <1>3, <1>4, TailIs
<1>7. PICK call : call = [loc[t] EXCEPT !.frames = Tail(@)]
  OBVIOUS
<1>8. /\ call.op = loc[t].op /\ call.n = loc[t].n /\ call.k = loc[t].k
      /\ call.swp = loc[t].swp /\ call.frames = rest
  BY <1>1, <1>6, <1>7 DEF Fields
<1>9. OthersStay(t) /\ loc'[t] = call /\ pc'[t] = "read fifo"
  <2>1. pc' = [pc EXCEPT ![t] = "read fifo"] /\ loc' = [loc EXCEPT ![t] = call]
    BY <1>7 DEF MapFrame, Goto, Set
  <2> QED
    BY <1>1, <2>1, Moved
<1>10. entered' = entered \cup {f}
  BY <1>5 DEF MapFrame
<1>11. ShapesOK'
  <2>1. /\ Grows("read fifo", call) /\ "read fifo" \in Entering /\ "read fifo" # "lock"
        /\ "read fifo" \notin Frameless \cup Early \cup Taking \cup Giving \cup Walking
    BY <1>2, <1>8 DEF Grows, Away, Frameless, Early, Taking, Giving, Walking, Entering
  <2>2. Len(call.frames) + 1 = Due(call)
    <3>1. Due(call) = Due(loc[t])
      BY <1>8 DEF Due
    <3>2. Len(rest) = Len(loc[t].frames) - 1 /\ Len(loc[t].frames) \in Nat \ {0}
      BY <1>3, <1>4, <1>6, TailIs
    <3> QED
      BY <1>3, <1>8, <3>1, <3>2
  <2>3. ShapeOK("read fifo", call)
    BY <1>3, <1>8, <2>1, <2>2 DEF ShapeOK
  <2> QED
    BY <1>9, <2>3 DEF ShapesOK, OthersStay
<1>12. RamTyped'
  BY <1>1, <1>9 DEF RamTyped, OthersStay
<1>13. ASSUME ~raced PROVE Places'
  <2>1. ListOK /\ HandsOK /\ Placed
    BY <1>13 DEF Places
  <2>2. ListOK'
    BY <1>1, <2>1 DEF ListOK, FreeList
  <2>3. HandsOK'
    BY <1>2, <1>9, <1>13, NothingStale
  <2>4. /\ allocated \cup entered \cup ToSet(loc[t].frames) = Frames
        /\ allocated \cap entered = {} /\ IsInjective(loc[t].frames)
        /\ ToSet(loc[t].frames) \cap (allocated \cup entered) = {}
    BY <1>2, <1>13, <2>1, PlacedMine
  <2>5. /\ IsInjective(loc'[t].frames) /\ f \in ToSet(loc[t].frames)
        /\ ToSet(loc'[t].frames) = ToSet(loc[t].frames) \ {f}
    BY <1>3, <1>4, <1>5, <1>6, <1>8, <1>9, <2>4, TailHeld
  <2>6. /\ allocated' \cup entered' \cup ToSet(loc'[t].frames) = Frames
        /\ allocated' \cap entered' = {}
        /\ ToSet(loc'[t].frames) \cap (allocated' \cup entered') = {}
    BY <1>1, <1>10, <2>4, <2>5
  <2>7. Placed'
    BY <1>2, <1>9, <1>13, <2>5, <2>6, FramesMove
  <2> QED
    BY <2>2, <2>3, <2>7 DEF Places
<1> QED
  BY <1>1, <1>11, <1>12, <1>13

-----------------------------------------------------------------------------
(* What FreeFrames returns                                                 *)

LEMMA LeastElement ==
  ASSUME NEW S \in SUBSET Nat, S # {}
  PROVE  \E x \in S : \A y \in S : x <= y
<1> DEFINE R == {ss \in Nat \X Nat : ss[1] < ss[2]}
<1>1. IsWellFoundedOn(R, Nat)
  BY NatLessThanWellFounded, Zenon DEF OpToRel
<1> HIDE DEF R
<1>2. PICK x \in S : \A y \in S : ~(<< y, x >> \in R)
  BY <1>1, WFMin
<1>3. \A y \in S : x <= y
  <2> SUFFICES ASSUME NEW y \in S, y < x PROVE FALSE
    BY Z3
  <2>1. << y, x >> \in Nat \X Nat /\ << y, x >>[1] < << y, x >>[2]
    OBVIOUS
  <2>2. << y, x >> \in R
    BY <2>1, Zenon DEF R
  <2> QED
    BY <1>2, <2>2
<1> QED
  BY <1>3

LEMMA ListLength ==
  ASSUME NEW s, FreeList(s)
  PROVE  Len(s) \in Nat /\ Len(s) <= NumRam /\ Cardinality(1..Len(s)) = Len(s)
<1>1. /\ s \in Seq(Frames) /\ Len(s) \in Nat /\ DOMAIN s = 1..Len(s)
      /\ \A a, b \in DOMAIN s : s[a] = s[b] => a = b
  BY DEF FreeList
<1>2. IsFiniteSet(Frames) /\ Cardinality(Frames) = NumRam
  <2>1. NumRam \in Nat /\ NumRam > 1
    BY KernelMemAssumption
  <2>2. 0 \in Int /\ NumRam - 1 \in Int
    BY <2>1
  <2>3. /\ IsFiniteSet(0..(NumRam - 1))
        /\ Cardinality(0..(NumRam - 1)) = IF 0 > NumRam - 1 THEN 0 ELSE NumRam - 1 - 0 + 1
    BY <2>2, FS_Interval
  <2> QED
    BY <2>1, <2>3 DEF Frames
<1>3. s \in Injection(1..Len(s), Frames)
  <2>1. s \in [1..Len(s) -> Frames]
    BY <1>1
  <2> QED
    BY <1>1, <2>1 DEF Injection, IsInjective
<1>4. Cardinality(1..Len(s)) <= Cardinality(Frames)
  BY <1>2, <1>3, FS_Injection
<1>5. Cardinality(1..Len(s)) = Len(s)
  <2>1. 1 \in Int /\ Len(s) \in Int
    BY <1>1
  <2>2. Cardinality(1..Len(s)) = IF 1 > Len(s) THEN 0 ELSE Len(s) - 1 + 1
    BY <2>1, FS_Interval
  <2> QED
    BY <1>1, <2>2
<1> QED
  BY <1>1, <1>2, <1>4, <1>5

(* Following the list from its first node meets its nodes in order, then   *)
(* nothing.                                                                *)
LEMMA FreeNodeIs ==
  ASSUME NEW s, FreeList(s)
  PROVE  FreeNode = [i \in 1..NumRam |-> IF i <= Len(s) THEN s[i] ELSE NoFrame]
<1> DEFINE G == [i \in 1..NumRam |-> IF i <= Len(s) THEN s[i] ELSE NoFrame]
           Follows(g) == g = [i \in 1..NumRam |->
                                IF i = 1 THEN free_fp_list
                                ELSE IF g[i - 1] = NoFrame THEN NoFrame
                                ELSE fp_next[g[i - 1]]]
<1>1. /\ s \in Seq(Frames) /\ Len(s) \in Nat /\ DOMAIN s = 1..Len(s)
      /\ Len(s) <= NumRam /\ NumRam \in Nat
      /\ \A a \in DOMAIN s : s[a] # NoFrame
      /\ \A a \in DOMAIN s : fp_next[s[a]] = IF a < Len(s) THEN s[a + 1] ELSE NoFrame
      /\ free_fp_list = IF s = << >> THEN NoFrame ELSE s[1]
  BY ListLength, KernelMemAssumption DEF FreeList, Frames, NoFrame
<1>2. free_fp_list = IF 1 <= Len(s) THEN s[1] ELSE NoFrame
  BY <1>1
<1>3. ASSUME NEW i \in 1..NumRam
      PROVE  G[i] = IF i = 1 THEN free_fp_list
                    ELSE IF G[i - 1] = NoFrame THEN NoFrame ELSE fp_next[G[i - 1]]
  <2>1. CASE i = 1
    BY <1>2, <2>1
  <2>2. CASE i # 1
    <3>1. i - 1 \in 1..NumRam /\ (i - 1) + 1 = i
      BY <1>1, <2>2
    <3>2. G[i - 1] = IF i - 1 <= Len(s) THEN s[i - 1] ELSE NoFrame
      BY <3>1
    <3>3. CASE i - 1 <= Len(s)
      <4>1. i - 1 \in DOMAIN s
        BY <1>1, <3>1, <3>3
      <4>2. G[i - 1] # NoFrame
            /\ fp_next[G[i - 1]] = IF i - 1 < Len(s) THEN s[i] ELSE NoFrame
        BY <1>1, <3>1, <3>2, <3>3, <4>1
      <4> QED
        BY <1>1, <2>2, <3>1, <4>2
    <3>4. CASE ~(i - 1 <= Len(s))
      BY <1>1, <2>2, <3>1, <3>2, <3>4
    <3> QED
      BY <3>3, <3>4
  <2> QED
    BY <2>1, <2>2
<1>4. Follows(G)
  BY <1>3
<1> HIDE DEF Follows
<1>5. Follows(FreeNode)
  <2>1. FreeNode = CHOOSE g : Follows(g)
    BY Zenon DEF FreeNode, Follows
  <2> QED
    BY <1>4, <2>1, Zenon
<1>6. /\ DOMAIN FreeNode = 1..NumRam
      /\ \A i \in 1..NumRam : FreeNode[i] = IF i = 1 THEN free_fp_list
                               ELSE IF FreeNode[i - 1] = NoFrame THEN NoFrame
                               ELSE fp_next[FreeNode[i - 1]]
      /\ FreeNode = [i \in 1..NumRam |-> FreeNode[i]]
  BY <1>5 DEF Follows
<1> DEFINE Wrong == {i \in 1..NumRam : FreeNode[i] # G[i]}
<1>7. Wrong = {}
  <2> SUFFICES ASSUME Wrong # {} PROVE FALSE
    OBVIOUS
  <2>1. Wrong \in SUBSET Nat
    BY <1>1
  <2>2. PICK m \in Wrong : \A y \in Wrong : m <= y
    BY <2>1, LeastElement
  <2>3. m \in 1..NumRam /\ FreeNode[m] # G[m]
    BY <2>2
  <2>4. m # 1
    BY <1>3, <1>6, <2>3
  <2>5. m - 1 \in 1..NumRam /\ ~(m <= m - 1)
    BY <1>1, <2>3, <2>4
  <2>6. FreeNode[m - 1] = G[m - 1]
    BY <2>2, <2>5
  <2> HIDE DEF G, Wrong
  <2> QED
    BY <1>3, <1>6, <2>3, <2>4, <2>6
<1> QED
  BY <1>6, <1>7

LEMMA FreeFramesIs ==
  ASSUME NEW s, FreeList(s)
  PROVE  FreeFrames = s
<1> DEFINE G == [i \in 1..NumRam |-> IF i <= Len(s) THEN s[i] ELSE NoFrame]
<1>1. /\ s \in Seq(Frames) /\ Len(s) \in Nat /\ DOMAIN s = 1..Len(s)
      /\ Len(s) <= NumRam /\ NumRam \in Nat
      /\ \A a \in DOMAIN s : s[a] # NoFrame
  BY ListLength, KernelMemAssumption DEF FreeList, Frames, NoFrame
<1>2. {i \in 1..NumRam : G[i] # NoFrame} = 1..Len(s)
  BY <1>1
<1>3. FreeFrames = SubSeq(G, 1, Len(s))
  <2>1. FreeNode = G
    BY FreeNodeIs
  <2>2. Cardinality({i \in 1..NumRam : G[i] # NoFrame}) = Len(s)
    BY <1>2, ListLength
  <2> HIDE DEF G
  <2> QED
    BY <2>1, <2>2 DEF FreeFrames
<1>4. SubSeq(G, 1, Len(s)) = s
  <2>1. G \in Seq(Frames \cup {NoFrame}) /\ Len(G) = NumRam
    BY <1>1
  <2>2. /\ SubSeq(G, 1, Len(s)) \in Seq(Frames \cup {NoFrame})
        /\ Len(SubSeq(G, 1, Len(s))) = Len(s)
        /\ \A i \in 1..Len(s) : SubSeq(G, 1, Len(s))[i] = G[i]
    BY <1>1, <2>1
  <2>3. \A i \in 1..Len(s) : G[i] = s[i]
    BY <1>1
  <2> HIDE DEF G
  <2> QED
    BY <1>1, <2>2, <2>3
<1> QED
  BY <1>3, <1>4

-----------------------------------------------------------------------------
(* The theorem                                                             *)

LEMMA FInvInit == KernelMemInit => FInv
<1> SUFFICES ASSUME KernelMemInit PROVE FInv
  OBVIOUS
<1>1. /\ pc = [t \in CPUs |-> "idle"] /\ loc = [t \in CPUs |-> NoCall]
      /\ free_fp_list = 0 /\ allocated = Frames /\ entered = {}
      /\ fp_next = [f \in Frames |-> IF f = NumRam - 1 THEN NoFrame ELSE f + 1]
  BY DEF KernelMemInit
<1>2. NumRam \in Nat /\ NumRam > 1
  BY KernelMemAssumption
<1>3. ShapesOK
  <2>1. ShapeOK("idle", NoCall)
    BY NewShape, NoFrames DEF ShapeOK, Grows, Away, Early, Taking, Giving
  <2> QED
    BY <1>1, <2>1 DEF ShapesOK
<1>4. RamTyped
  <2>1. fp_next \in [Frames -> Frames \cup {NoFrame}]
    BY <1>1, <1>2 DEF Frames
  <2>2. free_fp_list \in Frames
    BY <1>1, <1>2 DEF Frames
  <2> QED
    BY <1>1, <2>1, <2>2 DEF RamTyped
<1>5. ListOK
  <2>1. PICK s : s = [i \in 1..NumRam |-> i - 1]
    OBVIOUS
  <2>2. s \in Seq(Frames) /\ Len(s) = NumRam /\ DOMAIN s = 1..NumRam
        /\ s # << >>
    BY <1>2, <2>1 DEF Frames
  <2>3. \A a, b \in DOMAIN s : s[a] = s[b] => a = b
    BY <1>2, <2>1
  <2>4. allocated = {s[a] : a \in DOMAIN s}
    <3>1. ASSUME NEW f \in Frames PROVE \E a \in 1..NumRam : f = a - 1
      <4>1. f + 1 \in 1..NumRam /\ f = f + 1 - 1
        BY <1>2 DEF Frames
      <4> QED
        BY <1>2, <4>1 DEF Frames
    <3>2. \A a \in 1..NumRam : a - 1 \in Frames
      BY <1>2 DEF Frames
    <3> QED
      BY <1>1, <2>1, <3>1, <3>2
  <2>5. s[1] = 0
    BY <1>2, <2>1
  <2>6. \A a \in DOMAIN s : fp_next[s[a]] = IF a < Len(s) THEN s[a + 1] ELSE NoFrame
    <3> SUFFICES ASSUME NEW a \in 1..NumRam
                 PROVE  fp_next[a - 1] = IF a < NumRam THEN s[a + 1] ELSE NoFrame
      BY <2>1, <2>2
    <3>1. a - 1 \in Frames
      BY <1>2 DEF Frames
    <3>2. fp_next[a - 1] = IF a - 1 = NumRam - 1 THEN NoFrame ELSE a - 1 + 1
      BY <1>1, <3>1
    <3>3. a < NumRam => s[a + 1] = a
      BY <1>2, <2>1
    <3> QED
      BY <1>2, <3>2, <3>3
  <2>7. FreeList(s)
    BY <1>1, <2>2, <2>3, <2>4, <2>5, <2>6 DEF FreeList
  <2> QED
    BY <2>7 DEF ListOK
<1>6. HandsOK
  BY <1>1 DEF HandsOK
<1>7. Placed
  <2>1. \A t \in CPUs : loc[t].frames = << >>
    BY <1>1, NewShape
  <2>2. \A t \in CPUs : Held(t) = {} /\ IsInjective(loc[t].frames)
    BY <2>1 DEF Held, ToSet, IsInjective
  <2> QED
    BY <1>1, <2>2 DEF Placed
<1> QED
  BY <1>3, <1>4, <1>5, <1>6, <1>7, KInvInit DEF FInv, Places

LEMMA FInvStep == FInv /\ [KernelMemNext]_kvars => FInv'
<1> SUFFICES ASSUME FInv, [KernelMemNext]_kvars PROVE FInv'
  OBVIOUS
<1>1. KInv /\ CallsOK /\ ShapesOK /\ RamTyped /\ (~raced => Places)
  BY DEF FInv, KInv
<1>2. KInv'
  BY <1>1, KInvStep
<1>3. SUFFICES ShapesOK' /\ RamTyped' /\ (~raced' => Places')
  BY <1>2 DEF FInv
<1>4. ASSUME NEW t \in CPUs, CPUStep(t) PROVE ShapesOK' /\ RamTyped' /\ (~raced' => Places')
  <2>1. CASE QuietStep(t)
    BY <1>1, <2>1, QuietStepIs, QuietKeeps
  <2>2. CASE Begin(t)
    <3>1. \A size \in Sizes : size \in Nat
      BY RegionsAssumption
    <3>2. CASE Skip(t) \/ Underlock(t) \/ BeginAlloc(t) \/ BeginAccess(t)
      BY <1>1, <2>1, <3>2, SkipQuiet, UnderlockQuiet, BeginAllocQuiet, BeginAccessQuiet
    <3>3. CASE \E op, r, size : Request(t, op, r, size)
      BY <1>1, <2>1, <3>3, RequestQuiet
    <3>4. CASE \E size \in Sizes : BeginInc(t, size)
      BY <1>1, <2>1, <3>1, <3>4, BeginIncQuiet
    <3>5. CASE \E start \in MapStarts, n \in MapSizes : BeginMap(t, start, n)
      BY <1>1, <2>1, <3>5, BeginMapQuiet
    <3>6. CASE StrayCaller(t)
      <4>1. UNCHANGED << pc, loc, free_fp_list, fp_next, allocated, entered, raced >>
        BY <3>6 DEF StrayCaller, devVars, historyVars
      <4>2. Quiet /\ ShapesOK'
        BY <1>1, <4>1 DEF Quiet, ShapesOK
      <4> QED
        BY <1>1, <4>2, QuietKeeps
    <3> QED
      BY <2>2, <3>2, <3>3, <3>4, <3>5, <3>6 DEF Begin
  <2>3. CASE Limits(t)
    BY <1>1, <2>1, <2>3, LimitsQuiet
  <2>4. CASE GetFrame(t) \/ PopFrame(t) \/ PutRead(t) \/ PutFrame(t)
    BY <1>1, <2>4, GetFrameKeeps, PopFrameKeeps, PutReadKeeps, PutFrameKeeps
  <2>5. CASE TestLink(t) \/ LinkTable(t) \/ Descend(t)
    BY <1>1, <2>1, <2>5, WalkQuiet
  <2>6. CASE SetLeaf(t)
    BY <1>1, <2>1, <2>6, SetLeafQuiet, MapFrameKeeps
  <2>7. CASE ReadFifo(t) \/ Enlist(t) \/ ReadVictim(t) \/ Unlink(t)
    BY <1>1, <2>1, <2>7, ReadFifoQuiet, EnlistQuiet, VictimQuiet
  <2>8. CASE Find(t)
    BY <1>1, <2>1, <2>8, FindQuiet
  <2>9. CASE Finish(t)
    BY <1>1, <2>1, <2>9, FinishQuiet
  <2> QED
    BY <1>4, <2>2, <2>3, <2>4, <2>5, <2>6, <2>7, <2>8, <2>9 DEF CPUStep
<1>5. CASE NextSlot
  <2>1. /\ pc' = [t \in CPUs |-> "idle"] /\ loc' = loc
        /\ UNCHANGED << free_fp_list, fp_next, allocated, entered, raced >>
    BY <1>5 DEF NextSlot, devVars, historyVars
  <2>2. Quiet
    BY <2>1 DEF Quiet
  <2>3. ShapesOK'
    <3> SUFFICES ASSUME NEW t \in CPUs PROVE ShapeOK("idle", loc[t])
      BY <2>1 DEF ShapesOK
    <3>1. ShapeOK("arrived", loc[t])
      BY <1>1, <1>5 DEF ShapesOK, NextSlot, AllArrived
    <3>2. loc[t].frames = << >>
      BY <3>1 DEF ShapeOK, Grows, Away
    <3> QED
      BY <3>2, NoFrames DEF ShapeOK, Grows, Away, Early, Taking, Giving
  <2> QED
    BY <1>1, <2>2, <2>3, QuietKeeps
<1>6. CASE UNCHANGED kvars
  <2>1. UNCHANGED << pc, loc, free_fp_list, fp_next, allocated, entered, raced >>
    BY <1>6 DEF kvars, devVars, historyVars
  <2>2. Quiet /\ ShapesOK'
    BY <1>1, <2>1 DEF Quiet, ShapesOK
  <2> QED
    BY <1>1, <2>2, QuietKeeps
<1> QED
  BY <1>4, <1>5, <1>6 DEF KernelMemNext, Step, Ended

(* Until a growing system call overlaps another growth, every frame of the *)
(* RAM is in the free list, in the hands of one CPU, or was entered in the *)
(* page table once, and in one of the three only, and the list has the     *)
(* allocated nodes, each once: the two steps by which MEMPHY_get_freefp    *)
(* and MEMPHY_put_freefp read and change the list lose no frame and hand   *)
(* out none twice.                                                         *)
LEMMA AccountedFrames == FInv => FramesAccounted
<1> SUFFICES ASSUME FInv, ~raced PROVE FramesAccounted
  BY DEF FramesAccounted
<1>1. ListOK /\ Placed
  BY DEF FInv, Places
<1>2. PICK s : FreeList(s)
  BY <1>1 DEF ListOK
<1>3. FreeFrames = s
  BY <1>2, FreeFramesIs
<1>4. IsInjective(s) /\ ToSet(s) = allocated
  BY <1>2 DEF FreeList, IsInjective, ToSet
<1> QED
  BY <1>1, <1>3, <1>4, Zenon DEF FramesAccounted, Placed
=============================================================================
