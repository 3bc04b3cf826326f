------------------------ MODULE KernelMemTypeProofs ------------------------
(***************************************************************************)
(* Proof, for any number of CPUs, levels, pages and frames, that the       *)
(* memory calls of several CPUs keep their types at the grain of single    *)
(* accesses, however they overlap.                                         *)
(*                                                                         *)
(* The hard part is the walk of the page table.  A CPU keeps the number of *)
(* a table and a level from one access to the next while others link new   *)
(* tables, two of them perhaps into the same entry.  The tables have       *)
(* levels (Tree) that no step changes: a link goes to a table one level    *)
(* further down, a link that is replaced is replaced by such a table, and  *)
(* a link once seen is never cleared.  So every walk ends at a leaf.  The  *)
(* list of pages needs the like: a node points to an older one (NodesOK),  *)
(* or the way to the last node would not end.                              *)
(*                                                                         *)
(* With the levels known, so is what the last tables hold (Leaves): where  *)
(* an entry names a frame of the RAM, the frame was entered by a growth.   *)
(* A fault carries the frame of its victim from one walk to the next       *)
(* (Carried) while MAP and INC write the tables it walks through.          *)
(***************************************************************************)
EXTENDS KernelMemFramesProofs

-----------------------------------------------------------------------------
(* The recursive functions                                                 *)

LEMMA SpanIs ==
  \A level \in 1..Levels : Span[level] \in Nat \ {0}
<1> DEFINE Upto(f, n) == \A l \in 1..n : f[l] = IF l = 1 THEN 1 ELSE Fanout * f[l - 1]
           Some(n) == \E f \in [1..n -> Nat \ {0}] : Upto(f, n)
           None == {n \in Nat : ~Some(n)}
           Spans(f) == f = [l \in 1..Levels |-> IF l = 1 THEN 1 ELSE Fanout * f[l - 1]]
<1>1. Levels \in Nat \ {0} /\ Fanout \in Nat \ {0}
  BY PageTableAssumption
<1>2. \A a, b \in Nat \ {0} : a * b \in Nat \ {0}
  OBVIOUS
<1>3. None = {}
  <2> SUFFICES ASSUME None # {} PROVE FALSE
    OBVIOUS
  <2>1. PICK n \in None : \A y \in None : n <= y
    <3>1. None \in SUBSET Nat
      OBVIOUS
    <3> HIDE DEF None
    <3> QED
      BY <3>1, LeastElement
  <2>2. n \in Nat /\ ~Some(n)
    BY <2>1
  <2>3. n # 0
    <3>1. [l \in 1..0 |-> 1] \in [1..0 -> Nat \ {0}] /\ \A l \in 1..0 : FALSE
      OBVIOUS
    <3>2. Some(0)
      BY <3>1
    <3> QED
      BY <2>2, <3>2
  <2>4. n - 1 \in Nat /\ ~(n <= n - 1)
    BY <2>2, <2>3
  <2>5. Some(n - 1)
    BY <2>1, <2>4
  <2>6. PICK f \in [1..(n - 1) -> Nat \ {0}] : Upto(f, n - 1)
    BY <2>5
  <2>7. PICK v \in Nat \ {0} : v = IF n = 1 THEN 1 ELSE Fanout * f[n - 1]
    BY <1>1, <1>2, <2>2, <2>3, <2>6
  <2>8. PICK g : g = [l \in 1..n |-> IF l = n THEN v ELSE f[l]]
    OBVIOUS
  <2>9. g \in [1..n -> Nat \ {0}]
    BY <2>2, <2>3, <2>6, <2>7, <2>8
  <2>10. Upto(g, n)
    <3> SUFFICES ASSUME NEW l \in 1..n
                 PROVE  g[l] = IF l = 1 THEN 1 ELSE Fanout * g[l - 1]
      OBVIOUS
    <3>1. l # 1 => l - 1 \in 1..n /\ l - 1 # n /\ g[l - 1] = f[l - 1]
      BY <2>2, <2>8
    <3>2. CASE l = n
      BY <2>7, <2>8, <3>1, <3>2
    <3>3. CASE l # n
      <4>1. l \in 1..(n - 1) /\ g[l] = f[l]
        BY <2>2, <2>8, <3>3
      <4> QED
        BY <2>6, <3>1, <4>1
    <3> QED
      BY <3>2, <3>3
  <2> QED
    BY <2>2, <2>9, <2>10
<1>4. Some(Levels)
  BY <1>1, <1>3
<1>5. PICK f \in [1..Levels -> Nat \ {0}] : Upto(f, Levels)
  BY <1>4
<1>6. Spans(f)
  BY <1>5
<1>7. Spans(Span)
  <2> HIDE DEF Spans
  <2>1. Span = CHOOSE g : Spans(g)
    BY Zenon DEF Span, Spans
  <2> QED
    BY <1>6, <2>1, Zenon
<1>8. \A l \in 1..Levels : Span[l] = IF l = 1 THEN 1 ELSE Fanout * Span[l - 1]
  BY <1>7
<1> DEFINE Wrong == {l \in 1..Levels : Span[l] \notin Nat \ {0}}
<1>9. Wrong = {}
  <2> SUFFICES ASSUME Wrong # {} PROVE FALSE
    OBVIOUS
  <2>1. PICK l \in Wrong : \A y \in Wrong : l <= y
    <3>1. Wrong \in SUBSET Nat
      BY <1>1
    <3> HIDE DEF Wrong
    <3> QED
      BY <3>1, LeastElement
  <2>2. l \in 1..Levels /\ Span[l] \notin Nat \ {0}
    BY <2>1
  <2>3. l # 1
    BY <1>8, <2>2
  <2>4. l - 1 \in 1..Levels /\ ~(l <= l - 1)
    BY <1>1, <2>2, <2>3
  <2>5. Span[l - 1] \in Nat \ {0}
    BY <2>1, <2>4
  <2> QED
    BY <1>1, <1>2, <1>8, <2>2, <2>3, <2>5
<1> QED
  BY <1>9

(* The index of a page is one of its table.                                *)
LEMMA IndexIs ==
  ASSUME NEW p \in Nat, NEW level \in 1..Levels
  PROVE  get_pd(p, level) \in Indices
<1>1. Span[level] \in Nat \ {0} /\ Fanout \in Nat \ {0}
  BY SpanIs, PageTableAssumption
<1>2. PICK s \in Nat \ {0}, f \in Nat \ {0} : s = Span[level] /\ f = Fanout
  BY <1>1
<1>3. p \div s \in Nat
  BY <1>2
<1>4. (p \div s) % f \in 0..(f - 1)
  BY <1>2, <1>3
<1> QED
  BY <1>2, <1>4 DEF get_pd, Indices

(* A node of the page list points to an older one.                         *)
Node == [pgn : Nat \cup {NoPage}, pg_next : Nat]

NodesOK ==
  /\ pgn_nodes \in Seq(Node)
  /\ \A m \in DOMAIN pgn_nodes : pgn_nodes[m].pg_next < m

(* So the list from any node on is a sequence of nodes.                    *)
LEMMA ChainIs ==
  ASSUME NodesOK, NEW n \in 0..Len(pgn_nodes)
  PROVE  ChainFrom(n) \in Seq(DOMAIN pgn_nodes) /\ (n # 0 => ChainFrom(n) # << >>)
<1> DEFINE N == Len(pgn_nodes)
           S == Seq(1..N)
           Upto(f, k) == \A m \in 0..k :
             f[m] = IF m = 0 THEN << >> ELSE << m >> \o f[pgn_nodes[m].pg_next]
           Some(k) == \E f \in [0..k -> S] : Upto(f, k)
           None == {k \in 0..N : ~Some(k)}
           Chains(f) == f = [m \in 0..Len(pgn_nodes) |->
             IF m = 0 THEN << >> ELSE << m >> \o f[pgn_nodes[m].pg_next]]
<1>1. N \in Nat /\ DOMAIN pgn_nodes = 1..N
  BY DEF NodesOK
<1>2. ASSUME NEW m \in 1..N PROVE pgn_nodes[m].pg_next \in 0..(m - 1)
  <2>1. pgn_nodes[m] \in Node /\ pgn_nodes[m].pg_next < m
    BY <1>1 DEF NodesOK
  <2>2. pgn_nodes[m].pg_next \in Nat
    BY <2>1 DEF Node
  <2> QED
    BY <1>1, <2>1, <2>2
<1>3. << >> \in S
  OBVIOUS
<1>4. \A m \in 1..N, s \in S : << m >> \o s \in S /\ << m >> \o s # << >>
  <2> SUFFICES ASSUME NEW m \in 1..N, NEW s \in Seq(1..N)
               PROVE  << m >> \o s \in Seq(1..N) /\ << m >> \o s # << >>
    OBVIOUS
  <2>1. << m >> \in Seq(1..N) /\ Len(<< m >>) = 1
    OBVIOUS
  <2>2. PICK q : q = << m >> \o s
    OBVIOUS
  <2>3. q \in Seq(1..N) /\ Len(q) = 1 + Len(s) /\ Len(s) \in Nat
    BY <2>1, <2>2
  <2>4. q # << >>
    <3>1. Len(<< >>) = 0
      OBVIOUS
    <3> QED
      BY <2>3, <3>1
  <2> QED
    BY <2>2, <2>3, <2>4
<1> HIDE DEF S
<1>5. None = {}
  <2> SUFFICES ASSUME None # {} PROVE FALSE
    OBVIOUS
  <2>1. PICK k \in None : \A y \in None : k <= y
    <3>1. None \in SUBSET Nat
      BY <1>1
    <3> HIDE DEF None
    <3> QED
      BY <3>1, LeastElement
  <2>2. k \in 0..N /\ k \in Nat /\ ~Some(k)
    <3> HIDE DEF Some
    <3> QED
      BY <1>1, <2>1
  <2>3. k # 0
    <3>1. PICK f : f = [m \in 0..0 |-> << >>]
      OBVIOUS
    <3>2. f \in [0..0 -> S] /\ \A m \in 0..0 : f[m] = << >> /\ m = 0
      BY <1>3, <3>1
    <3>3. Some(0)
      BY <3>2
    <3> QED
      BY <2>2, <3>3
  <2>4. k - 1 \in 0..N /\ ~(k <= k - 1) /\ k \in 1..N
    BY <1>1, <2>2, <2>3
  <2>5. PICK f \in [0..(k - 1) -> S] : Upto(f, k - 1)
    BY <2>1, <2>4
  <2>6. PICK next \in 0..(k - 1) : next = pgn_nodes[k].pg_next
    BY <1>2, <2>4
  <2>7. PICK v \in S : v = << k >> \o f[next]
    BY <1>4, <2>4, <2>5
  <2>8. PICK g : g = [m \in 0..k |-> IF m = k THEN v ELSE f[m]]
    OBVIOUS
  <2>9. g \in [0..k -> S]
    BY <2>2, <2>3, <2>5, <2>7, <2>8
  <2>10. Upto(g, k)
    <3> SUFFICES ASSUME NEW m \in 0..k
                 PROVE  g[m] = IF m = 0 THEN << >> ELSE << m >> \o g[pgn_nodes[m].pg_next]
      OBVIOUS
    <3>1. CASE m = k
      <4>1. next \in 0..k /\ next # k /\ g[next] = f[next]
        BY <2>2, <2>3, <2>8
      <4> QED
        BY <2>2, <2>3, <2>6, <2>7, <2>8, <3>1, <4>1
    <3>2. CASE m # k
      <4>1. m \in 0..(k - 1) /\ g[m] = f[m]
        BY <2>2, <2>8, <3>2
      <4>2. CASE m = 0
        BY <2>5, <4>1, <4>2
      <4>3. CASE m # 0
        <5>1. PICK old : old = pgn_nodes[m].pg_next
          OBVIOUS
        <5>2. m \in 1..N
          BY <2>2, <4>3
        <5>3. old \in 0..(m - 1)
          BY <1>2, <5>1, <5>2
        <5>4. old \in 0..k /\ old # k
          BY <2>2, <5>2, <5>3
        <5>5. g[old] = f[old]
          BY <2>8, <5>4
        <5> QED
          BY <2>5, <4>1, <4>3, <5>1, <5>5
      <4> QED
        BY <4>2, <4>3
    <3> QED
      BY <3>1, <3>2
  <2> QED
    BY <2>2, <2>9, <2>10
<1>6. PICK f \in [0..N -> S] : Upto(f, N)
  <2>1. N \in 0..N
    BY <1>1
  <2> QED
    BY <1>5, <2>1
<1>7. Chains(f)
  BY <1>6
<1> DEFINE C == CHOOSE g : Chains(g)
<1>8. Chains(C) /\ ChainFrom(n) = C[n]
  <2> HIDE DEF Chains
  <2>1. Chains(C)
    BY <1>7, Zenon
  <2>2. ChainFrom(n) = C[n]
    BY Zenon DEF ChainFrom, Chains
  <2> QED
    BY <2>1, <2>2
<1> HIDE DEF C
<1>9. \A m \in 0..N : C[m] = IF m = 0 THEN << >> ELSE << m >> \o C[pgn_nodes[m].pg_next]
  BY <1>8
<1> DEFINE Wrong == {m \in 0..N : C[m] \notin S}
<1>10. Wrong = {}
  <2> SUFFICES ASSUME Wrong # {} PROVE FALSE
    OBVIOUS
  <2>1. PICK m \in Wrong : \A y \in Wrong : m <= y
    <3>1. Wrong \in SUBSET Nat
      BY <1>1
    <3> HIDE DEF Wrong
    <3> QED
      BY <3>1, LeastElement
  <2>2. m \in 0..N /\ C[m] \notin S
    BY <2>1
  <2>3. m # 0
    BY <1>3, <1>9, <2>2
  <2>4. PICK next \in 0..(m - 1) : next = pgn_nodes[m].pg_next
    BY <1>1, <1>2, <2>2, <2>3
  <2>5. next \in 0..N /\ ~(m <= next) /\ m \in 1..N
    BY <1>1, <2>2, <2>3
  <2>6. C[next] \in S
    BY <2>1, <2>5
  <2>7. C[m] = << m >> \o C[next]
    BY <1>9, <2>2, <2>3, <2>4
  <2> QED
    BY <1>4, <2>2, <2>5, <2>6, <2>7
<1>11. n # 0 => C[n] # << >>
  <2> SUFFICES ASSUME n # 0 PROVE C[n] # << >>
    OBVIOUS
  <2>1. n \in 1..N
    BY <1>1
  <2>2. PICK next \in 0..(n - 1) : next = pgn_nodes[n].pg_next
    BY <1>2, <2>1
  <2>3. next \in 0..N /\ n \in 0..N
    BY <1>1, <2>1
  <2>4. C[next] \in S
    BY <1>10, <2>3
  <2>5. C[n] = << n >> \o C[next]
    BY <1>9, <2>2, <2>3
  <2> QED
    BY <1>4, <2>1, <2>4, <2>5
<1> QED
  BY <1>1, <1>8, <1>10, <1>11 DEF S

-----------------------------------------------------------------------------
(* The invariant                                                           *)

Ops == {"none", "alloc", "free", "inc", "map", "read", "write", "access"}

(* Where a call is still to begin its walk from pgd.                       *)
Top == {"lock"} \cup Early \cup Taking

(* Where a walk is above the last level.                                   *)
Deep == {"test", "link", "descend"}

TypedCall(label, call) ==
  /\ call.op \in Ops
  /\ call.size \in Nat /\ call.n \in Nat /\ call.brk \in Nat
  /\ call.page \in Nat /\ call.want \in Nat /\ call.k \in Nat \ {0}
  /\ label = "lock" /\ call.op = "write" => call.r \in RgIds
  /\ label \in {"store end", "store brk"} => call.tmp \in Nat
  /\ call.level \in 1..Levels
  /\ label \in Top => call.level = Levels
  /\ label \in Deep => call.level > 1
  /\ label = "leaf" => call.level = 1

CallsTyped == \A t \in CPUs : TypedCall(pc[t], loc[t])

(* The scalars, and what holds of a sequence or a set by its type.         *)
Scalars ==
  /\ mmvm_lock \in CPUs \cup {NoCPU}
  /\ slot \in 1..MaxSlots
  /\ mswp_free \in Seq(0..(NumSwp - 1))
  /\ wild \in BOOLEAN /\ raced \in BOOLEAN /\ shared \in BOOLEAN /\ strayed \in BOOLEAN
  /\ entered \subseteq Frames

(* What a CPU has read of the page list is a node of it, or none.          *)
ListOf(label, call) ==
  /\ call.list \in 0..Len(pgn_nodes)
  /\ label = "unlink" => call.list # 0

PagesOK ==
  /\ NodesOK
  /\ fifo_pgn \in 0..Len(pgn_nodes)
  /\ \A t \in CPUs : ListOf(pc[t], loc[t])

(* lv is the level of each table: links go down one level at a time, and   *)
(* the table of a CPU's walk is at the level the CPU takes it to be.       *)
Tree(lv) ==
  /\ 1 \in DOMAIN tables /\ lv[1] = Levels
  /\ \A n \in DOMAIN tables, i \in Indices :
       lv[n] > 1 /\ tables[n][i] # 0 =>
         tables[n][i] \in DOMAIN tables /\ lv[tables[n][i]] = lv[n] - 1
  /\ \A t \in CPUs : loc[t].table \in DOMAIN tables /\ lv[loc[t].table] = loc[t].level

TablesAre(S) == tables \in Seq([Indices -> S])

WalksOK ==
  /\ \E S : TablesAre(S)
  /\ \E lv : Tree(lv)
  /\ \A t \in CPUs : pc[t] = "descend" => Link(t) # 0

Labelled == pc \in [CPUs -> Labels]

RegionsWell == RegionsTypeOK /\ RegionsOrdered

TInv == /\ FInv /\ RegionsWell /\ Scalars
        /\ Labelled /\ CallsTyped /\ PagesOK /\ WalksOK

-----------------------------------------------------------------------------
(* A step of one CPU                                                       *)

(* The walk goes on, begins again or takes a link.                         *)
WalksTo(t, call) ==
  \/ call.table = loc[t].table /\ call.level = loc[t].level
  \/ call.table = 1 /\ call.level = Levels
  \/ /\ call.table = Link(t) /\ call.level = loc[t].level - 1
     /\ Link(t) # 0 /\ loc[t].level > 1

Fitting(t, label, call) ==
  /\ label \in Labels
  /\ TypedCall(label, call)
  /\ ListOf(label, call)
  /\ WalksTo(t, call)

LocalStep(t) ==
  /\ OthersStay(t)
  /\ Labelled'
  /\ Fitting(t, pc'[t], loc'[t])

LEMMA StepTo ==
  ASSUME CallsOK, Labelled, NEW t \in CPUs, NEW label, NEW call,
         pc' = [pc EXCEPT ![t] = label], loc' = [loc EXCEPT ![t] = call],
         Fitting(t, label, call)
  PROVE  LocalStep(t) /\ pc'[t] = label /\ loc'[t] = call
<1>1. OthersStay(t) /\ pc'[t] = label /\ loc'[t] = call
  BY Moved
<1>2. Labelled'
  BY DEF Labelled, Fitting
<1> QED
  BY <1>1, <1>2 DEF LocalStep

LEMMA GoTo ==
  ASSUME CallsOK, Labelled, NEW t \in CPUs, NEW label,
         pc' = [pc EXCEPT ![t] = label], loc' = loc, Fitting(t, label, loc[t])
  PROVE  LocalStep(t) /\ pc'[t] = label /\ loc'[t] = loc[t]
<1>1. OthersStay(t) /\ pc'[t] = label /\ loc'[t] = loc[t]
  BY MovedOnly
<1>2. Labelled'
  BY DEF Labelled, Fitting
<1> QED
  BY <1>1, <1>2 DEF LocalStep

LEMMA SetTo ==
  ASSUME CallsOK, Labelled, NEW t \in CPUs, NEW call,
         pc' = pc, loc' = [loc EXCEPT ![t] = call], Fitting(t, pc[t], call)
  PROVE  LocalStep(t) /\ pc'[t] = pc[t] /\ loc'[t] = call
<1>1. OthersStay(t) /\ pc'[t] = pc[t] /\ loc'[t] = call
  BY SetOnly
<1> QED
  BY <1>1 DEF LocalStep, Labelled

(* What the invariant says of one CPU.                                     *)
LEMMA OneCall ==
  ASSUME TInv, NEW t \in CPUs
  PROVE  /\ CallsOK /\ Labelled /\ DOMAIN loc[t] = Fields
         /\ pc[t] \in Labels
         /\ Fitting(t, pc[t], loc[t])
         /\ TypedCall(pc[t], loc[t]) /\ ListOf(pc[t], loc[t])
<1>1. CallsOK /\ Labelled /\ CallsTyped /\ PagesOK
  BY DEF TInv, FInv, KInv
<1>2. WalksTo(t, loc[t])
  BY DEF WalksTo
<1> QED
  BY <1>1, <1>2 DEF CallsOK, CallOK, Labelled, CallsTyped, PagesOK, Fitting

LEMMA Stays ==
  ASSUME TInv, NEW t \in CPUs, pc' = pc, loc' = loc
  PROVE  LocalStep(t) /\ pc'[t] = pc[t] /\ loc'[t] = loc[t]
<1>1. CallsOK /\ Fitting(t, pc[t], loc[t]) /\ Labelled
  BY OneCall
<1> QED
  BY <1>1, StaysPut DEF LocalStep, Labelled

(* The index of a walk is one of its table.                                *)
LEMMA IndexOfWalk ==
  ASSUME TInv, NEW t \in CPUs
  PROVE  Page(t) \in Nat /\ Index(t) \in Indices
<1>1. TypedCall(pc[t], loc[t])
  BY OneCall
<1>2. loc[t].page \in Nat /\ loc[t].k \in Nat \ {0} /\ loc[t].level \in 1..Levels
  BY <1>1 DEF TypedCall
<1>3. Page(t) \in Nat
  BY <1>2 DEF Page
<1> QED
  BY <1>2, <1>3, IndexIs DEF Index

LEMMA CallsKept ==
  ASSUME TInv, NEW t \in CPUs, LocalStep(t)
  PROVE  CallsTyped'
<1> SUFFICES ASSUME NEW u \in CPUs PROVE TypedCall(pc'[u], loc'[u])
  BY DEF CallsTyped, TypedCall
<1>1. CASE u = t
  BY <1>1 DEF LocalStep, Fitting
<1>2. CASE u # t
  BY <1>2 DEF LocalStep, OthersStay, TInv, CallsTyped
<1> QED
  BY <1>1, <1>2

LEMMA PagesKept ==
  ASSUME TInv, NEW t \in CPUs, LocalStep(t), UNCHANGED fifoVars
  PROVE  PagesOK'
<1>1. UNCHANGED << fifo_pgn, pgn_nodes >> /\ PagesOK
  BY DEF fifoVars, TInv
<1>2. ASSUME NEW u \in CPUs PROVE ListOf(pc'[u], loc'[u])
  <2>1. CASE u = t
    BY <2>1 DEF LocalStep, Fitting
  <2>2. CASE u # t
    BY <1>1, <2>2 DEF LocalStep, OthersStay, PagesOK
  <2> QED
    BY <2>1, <2>2
<1> QED
  BY <1>1, <1>2 DEF PagesOK, ListOf, NodesOK

(* The walk of t arrives at a table of the level it takes it to be.        *)
LEMMA Arrives ==
  ASSUME TInv, NEW t \in CPUs, NEW call, WalksTo(t, call), NEW lv, Tree(lv)
  PROVE  call.table \in DOMAIN tables /\ lv[call.table] = call.level
<1>1. CASE call.table = loc[t].table /\ call.level = loc[t].level
  BY <1>1 DEF Tree
<1>2. CASE call.table = 1 /\ call.level = Levels
  BY <1>2 DEF Tree
<1>3. CASE /\ call.table = Link(t) /\ call.level = loc[t].level - 1
           /\ Link(t) # 0 /\ loc[t].level > 1
  <2>1. loc[t].table \in DOMAIN tables /\ lv[loc[t].table] = loc[t].level
    BY DEF Tree
  <2>2. Index(t) \in Indices
    BY IndexOfWalk
  <2> QED
    BY <1>3, <2>1, <2>2 DEF Tree, Link
<1> QED
  BY <1>1, <1>2, <1>3 DEF WalksTo

LEMMA TreeKept ==
  ASSUME TInv, NEW t \in CPUs, LocalStep(t), UNCHANGED tables, NEW lv, Tree(lv)
  PROVE  Tree(lv)'
<1>1. ASSUME NEW u \in CPUs
      PROVE  loc'[u].table \in DOMAIN tables /\ lv[loc'[u].table] = loc'[u].level
  <2>1. CASE u = t
    BY <2>1, Arrives DEF LocalStep, Fitting
  <2>2. CASE u # t
    BY <2>2 DEF LocalStep, OthersStay, Tree
  <2> QED
    BY <2>1, <2>2
<1> QED
  BY <1>1 DEF Tree

LEMMA WalksKept ==
  ASSUME TInv, NEW t \in CPUs, LocalStep(t), UNCHANGED tables,
         pc'[t] = "descend" => Link(t)' # 0
  PROVE  WalksOK'
<1>1. WalksOK
  BY DEF TInv
<1>2. \E S : TablesAre(S)'
  BY <1>1 DEF WalksOK, TablesAre
<1>3. \E lv : Tree(lv)'
  BY <1>1, TreeKept DEF WalksOK
<1>4. ASSUME NEW u \in CPUs, pc'[u] = "descend" PROVE Link(u)' # 0
  <2>1. CASE u = t
    BY <1>4, <2>1
  <2>2. CASE u # t
    <3>1. pc[u] = "descend" /\ loc'[u] = loc[u]
      BY <1>4, <2>2 DEF LocalStep, OthersStay
    <3>2. Link(u)' = Link(u)
      BY <3>1 DEF Link, Index, Page, get_pd
    <3> QED
      BY <1>1, <3>1, <3>2 DEF WalksOK
  <2> QED
    BY <2>1, <2>2
<1> QED
  BY <1>2, <1>3, <1>4 DEF WalksOK

-----------------------------------------------------------------------------
(* Steps that begin a call                                                 *)

LEMMA LevelsAre == Levels \in 1..Levels /\ Levels > 1
<1>1. Levels > 1
  BY KernelMemAssumption
<1>2. Levels \in Nat \ {0}
  BY PageTableAssumption
<1> QED
  BY <1>1, <1>2

(* A call as it is before its first walk suits every place but a leaf.     *)
LEMMA NewFitting ==
  ASSUME TInv, NEW t \in CPUs, NEW call, NEW label \in Labels \ {"leaf", "unlink"},
         call.op \in Ops, call.size \in Nat, call.n \in Nat, call.brk \in Nat,
         call.page \in Nat, call.want \in Nat, call.k \in Nat \ {0},
         label = "lock" /\ call.op = "write" => call.r \in RgIds,
         label \in {"store end", "store brk"} => call.tmp \in Nat,
         call.list \in 0..Len(pgn_nodes),
         call.level = Levels, call.table = 1
  PROVE  Fitting(t, label, call)
<1>1. Levels \in 1..Levels /\ Levels > 1
  BY LevelsAre
<1>2. TypedCall(label, call)
  BY <1>1 DEF TypedCall
<1> QED
  BY <1>2 DEF Fitting, ListOf, WalksTo

(* The list of pages is a sequence.                                        *)
LEMMA ListBounds ==
  ASSUME TInv
  PROVE  /\ Len(pgn_nodes) \in Nat /\ DOMAIN pgn_nodes = 1..Len(pgn_nodes)
         /\ 0 \in 0..Len(pgn_nodes)
<1>1. pgn_nodes \in Seq(Node)
  BY DEF TInv, PagesOK, NodesOK
<1> QED
  BY <1>1

LEMMA NoCallFits ==
  ASSUME TInv, NEW t \in CPUs
  PROVE  Fitting(t, "arrived", NoCall)
<1>1. /\ NoCall.op \in Ops /\ NoCall.size \in Nat /\ NoCall.n \in Nat
      /\ NoCall.brk \in Nat /\ NoCall.page \in Nat /\ NoCall.want \in Nat
      /\ NoCall.k \in Nat \ {0} /\ NoCall.list = 0
      /\ NoCall.level = Levels /\ NoCall.table = 1
  BY DEF NoCall, Ops
<1>2. "arrived" \in Labels \ {"leaf", "unlink"}
  BY DEF Labels
<1> QED
  BY <1>1, <1>2, NewFitting, ListBounds

LEMMA SkipLocal ==
  ASSUME TInv, NEW t \in CPUs, Skip(t)
  PROVE  LocalStep(t) /\ pc'[t] = "arrived"
<1>1. Fitting(t, "arrived", loc[t])
  <2>1. Fitting(t, pc[t], loc[t])
    BY OneCall
  <2>2. "arrived" \in Labels /\ "arrived" \notin Top \cup Deep
    BY DEF Labels, Top, Deep, Early, Taking
  <2> QED
    BY <2>1, <2>2 DEF Fitting, TypedCall, ListOf
<1> QED
  BY <1>1, GoTo, OneCall DEF Skip, Goto

LEMMA RequestLocal ==
  ASSUME TInv, NEW t \in CPUs, NEW op \in Ops, NEW r, NEW size \in Nat,
         op = "write" => r \in RgIds, Request(t, op, r, size)
  PROVE  LocalStep(t) /\ pc'[t] = "lock"
<1>1. PICK call : call = [NoCall EXCEPT !.op = op, !.r = r, !.size = size]
  OBVIOUS
<1>2. /\ call.op \in Ops /\ call.size \in Nat /\ call.n \in Nat
      /\ call.brk \in Nat /\ call.page \in Nat /\ call.want \in Nat
      /\ call.k \in Nat \ {0} /\ call.list = 0 /\ call.op = op /\ call.r = r
      /\ call.level = Levels /\ call.table = 1
  BY <1>1 DEF NoCall
<1>3. "lock" \in Labels \ {"leaf", "unlink"}
  BY DEF Labels
<1>4. Fitting(t, "lock", call)
  BY <1>2, <1>3, NewFitting, ListBounds
<1> QED
  BY <1>1, <1>4, StepTo, OneCall DEF Request, Goto, Set

LEMMA UnderlockLocal ==
  ASSUME TInv, NEW t \in CPUs, Underlock(t)
  PROVE  LocalStep(t) /\ pc'[t] = "arrived"
BY NoCallFits, StepTo, OneCall DEF Underlock, Goto, Set

LEMMA BeginAllocLocal ==
  ASSUME TInv, NEW t \in CPUs, BeginAlloc(t)
  PROVE  LocalStep(t) /\ pc'[t] = "end"
<1>1. DOMAIN loc[t] = Fields /\ pc[t] = "lock"
      /\ TypedCall("lock", loc[t]) /\ ListOf("lock", loc[t])
  BY OneCall DEF BeginAlloc
<1>2. PICK call : call = [loc[t] EXCEPT !.brk = sbrk, !.n = PagesOf(loc[t].size)]
  OBVIOUS
<1>3. sbrk \in Nat /\ PagesOf(loc[t].size) \in Nat
  BY <1>1, PagesCover DEF TInv, RegionsWell, RegionsTypeOK, TypedCall
<1>4. /\ call.op = loc[t].op /\ call.size = loc[t].size /\ call.n \in Nat
      /\ call.brk \in Nat /\ call.page = loc[t].page /\ call.want = loc[t].want
      /\ call.k = loc[t].k /\ call.list = loc[t].list
      /\ call.level = loc[t].level /\ call.table = loc[t].table
  BY <1>1, <1>2, <1>3 DEF Fields
<1>5. /\ "end" \in Labels /\ "end" \notin Deep /\ "lock" \in Top
      /\ "end" \notin {"lock", "unlink", "leaf", "store end", "store brk"}
  BY DEF Labels, Deep, Top
<1>6. TypedCall("end", call)
  BY <1>1, <1>4, <1>5 DEF TypedCall
<1>7. Fitting(t, "end", call)
  BY <1>1, <1>4, <1>5, <1>6 DEF Fitting, ListOf, WalksTo
<1>8. pc' = [pc EXCEPT ![t] = "end"] /\ loc' = [loc EXCEPT ![t] = call]
  BY <1>2 DEF BeginAlloc, Goto, Set
<1> QED
  BY <1>7, <1>8, StepTo, OneCall

LEMMA BeginAccessLocal ==
  ASSUME TInv, NEW t \in CPUs, BeginAccess(t)
  PROVE  LocalStep(t) /\ pc'[t] = "find page"
<1>1. DOMAIN loc[t] = Fields /\ pc[t] = "lock"
      /\ TypedCall("lock", loc[t]) /\ ListOf("lock", loc[t])
      /\ loc[t].op \in {"read", "write"}
  BY OneCall DEF BeginAccess
<1>2. PICK from : /\ from = IF loc[t].op = "read" THEN 0 ELSE symrgtbl[loc[t].r].rg_start
                  /\ Set(t, [NoCall EXCEPT !.op = "access",
                               !.want = Mem!PageOf(from + loc[t].size),
                               !.page = Mem!PageOf(from + loc[t].size)])
  BY Zenon DEF BeginAccess
<1>3. from \in Nat
  <2>1. CASE loc[t].op = "read"
    BY <1>2, <2>1
  <2>2. CASE loc[t].op # "read"
    <3>1. loc[t].r \in RgIds /\ symrgtbl \in [RgIds -> Region]
      BY <1>1, <2>2 DEF TypedCall, TInv, RegionsWell, RegionsTypeOK
    <3>2. symrgtbl[loc[t].r] \in Region
      BY <3>1
    <3> QED
      BY <1>2, <2>2, <3>2 DEF Region
  <2> QED
    BY <2>1, <2>2
<1>4. PICK page \in Nat : page = Mem!PageOf(from + loc[t].size)
  <2>1. loc[t].size \in Nat /\ PAGESZ \in Nat \ {0}
    BY <1>1, RegionsAssumption DEF TypedCall
  <2>2. \A a \in Nat, b \in Nat \ {0} : a \div b \in Nat
    OBVIOUS
  <2>3. from + loc[t].size \in Nat
    BY <1>3, <2>1
  <2> QED
    BY <2>1, <2>2, <2>3 DEF Mem!PageOf
<1>5. PICK call : call = [NoCall EXCEPT !.op = "access", !.want = page, !.page = page]
  OBVIOUS
<1>6. /\ call.op \in Ops /\ call.size \in Nat /\ call.n \in Nat
      /\ call.brk \in Nat /\ call.page \in Nat /\ call.want \in Nat
      /\ call.k \in Nat \ {0} /\ call.list = 0
      /\ call.level = Levels /\ call.table = 1
  BY <1>4, <1>5 DEF NoCall, Ops
<1>7. /\ "find page" \in Labels \ {"leaf", "unlink"}
      /\ "find page" \notin {"lock", "store end", "store brk"}
  BY DEF Labels
<1>8. Fitting(t, "find page", call)
  BY <1>6, <1>7, NewFitting, ListBounds
<1>9. pc' = [pc EXCEPT ![t] = "find page"] /\ loc' = [loc EXCEPT ![t] = call]
  BY <1>2, <1>4, <1>5 DEF BeginAccess, Goto, Set
<1> QED
  BY <1>8, <1>9, StepTo, OneCall

LEMMA BeginIncLocal ==
  ASSUME TInv, NEW t \in CPUs, NEW size \in Nat, BeginInc(t, size)
  PROVE  LocalStep(t) /\ pc'[t] = "end"
<1>1. PICK call : call = [NoCall EXCEPT !.op = "inc", !.size = size, !.n = PagesOf(size)]
  OBVIOUS
<1>2. PagesOf(size) \in Nat /\ "inc" \in Ops
  BY PagesCover DEF Ops
<1>3. /\ call.op \in Ops /\ call.size \in Nat /\ call.n \in Nat
      /\ call.brk \in Nat /\ call.page \in Nat /\ call.want \in Nat
      /\ call.k \in Nat \ {0} /\ call.list = 0
      /\ call.level = Levels /\ call.table = 1
  BY <1>1, <1>2 DEF NoCall
<1>4. "end" \in Labels \ {"leaf", "unlink"} /\ "end" \notin {"lock", "store end", "store brk"}
  BY DEF Labels
<1>5. Fitting(t, "end", call)
  BY <1>3, <1>4, NewFitting, ListBounds
<1>6. pc' = [pc EXCEPT ![t] = "end"] /\ loc' = [loc EXCEPT ![t] = call]
  BY <1>1 DEF BeginInc, Goto, Set
<1> QED
  BY <1>5, <1>6, StepTo, OneCall

LEMMA BeginMapLocal ==
  ASSUME TInv, NEW t \in CPUs, NEW start \in MapStarts, NEW n \in MapSizes,
         BeginMap(t, start, n)
  PROVE  LocalStep(t) /\ pc'[t] = "test"
<1>1. start \in Nat /\ n \in Nat /\ Ratio \in Nat \ {0}
  BY KernelMemAssumption
<1>2. PICK page \in Nat : page = start \div Ratio
  BY <1>1
<1>3. PICK call : call = [NoCall EXCEPT !.op = "map", !.n = n, !.page = page]
  OBVIOUS
<1>4. /\ call.op \in Ops /\ call.size \in Nat /\ call.n \in Nat
      /\ call.brk \in Nat /\ call.page \in Nat /\ call.want \in Nat
      /\ call.k \in Nat \ {0} /\ call.list = 0
      /\ call.level = Levels /\ call.table = 1
  BY <1>1, <1>2, <1>3 DEF NoCall, Ops
<1>5. "test" \in Labels \ {"leaf", "unlink"} /\ "test" \notin {"lock", "store end", "store brk"}
  BY DEF Labels
<1>6. Fitting(t, "test", call)
  BY <1>4, <1>5, NewFitting, ListBounds
<1>7. pc' = [pc EXCEPT ![t] = "test"] /\ loc' = [loc EXCEPT ![t] = call]
  BY <1>2, <1>3 DEF BeginMap, Goto, Set
<1> QED
  BY <1>6, <1>7, StepTo, OneCall

-----------------------------------------------------------------------------
(* Steps that leave page and walk alone                                    *)

SameWalk(call, old) ==
  /\ call.op = old.op /\ call.size = old.size /\ call.n = old.n
  /\ call.brk = old.brk /\ call.page = old.page /\ call.want = old.want
  /\ call.k = old.k /\ call.list = old.list
  /\ call.level = old.level /\ call.table = old.table

LEMMA SameFits ==
  ASSUME TInv, NEW t \in CPUs, NEW label \in Labels \ {"lock", "unlink"}, NEW call,
         SameWalk(call, loc[t]),
         label \in {"store end", "store brk"} => call.tmp \in Nat,
         label \in Top => loc[t].level = Levels,
         label \in Deep => loc[t].level > 1,
         label = "leaf" => loc[t].level = 1
  PROVE  Fitting(t, label, call)
<1>1. TypedCall(pc[t], loc[t]) /\ ListOf(pc[t], loc[t])
  BY OneCall
<1>2. TypedCall(label, call)
  BY <1>1 DEF TypedCall, SameWalk
<1> QED
  BY <1>1, <1>2 DEF Fitting, ListOf, WalksTo, SameWalk

LEMMA LimitsLocal ==
  ASSUME TInv, NEW t \in CPUs, Limits(t)
  PROVE  LocalStep(t) /\ pc'[t] # "descend"
<1>1. DOMAIN loc[t] = Fields /\ TypedCall(pc[t], loc[t]) /\ ListOf(pc[t], loc[t])
  BY OneCall
<1>2. sbrk \in Nat /\ vm_end \in Nat
  BY DEF TInv, RegionsWell, RegionsTypeOK
<1>3. {"load end", "store end", "load brk", "store brk", "get"}
        \subseteq (Labels \ {"lock", "unlink", "descend", "leaf"}) \ Deep
  BY DEF Labels, Deep
<1>4. pc[t] \in Early => loc[t].level = Levels
  BY <1>1 DEF TypedCall, Top
<1>5. CASE At(t, "end") /\ Goto(t, "load end")
           /\ Set(t, [loc[t] EXCEPT !.page = (vm_end \div PAGESZ) \div Ratio])
  <2>1. PICK page \in Nat : page = (vm_end \div PAGESZ) \div Ratio
    <3>1. PAGESZ \in Nat \ {0} /\ Ratio \in Nat \ {0}
      BY RegionsAssumption, KernelMemAssumption
    <3>2. \A a \in Nat, b \in Nat \ {0} : a \div b \in Nat
      OBVIOUS
    <3> QED
      BY <1>2, <3>1, <3>2
  <2>2. PICK call : call = [loc[t] EXCEPT !.page = page]
    OBVIOUS
  <2>3. /\ call.op = loc[t].op /\ call.size = loc[t].size /\ call.n = loc[t].n
        /\ call.brk = loc[t].brk /\ call.page \in Nat /\ call.want = loc[t].want
        /\ call.k = loc[t].k /\ call.list = loc[t].list
        /\ call.level = loc[t].level /\ call.table = loc[t].table
    BY <1>1, <2>2 DEF Fields
  <2>4. TypedCall("load end", call)
    BY <1>1, <1>3, <1>4, <1>5, <2>3 DEF TypedCall, At, Early
  <2>5. Fitting(t, "load end", call)
    BY <1>1, <1>3, <2>3, <2>4 DEF Fitting, ListOf, WalksTo
  <2>6. pc' = [pc EXCEPT ![t] = "load end"] /\ loc' = [loc EXCEPT ![t] = call]
    BY <1>5, <2>1, <2>2 DEF Goto, Set
  <2> QED
    BY <2>5, <2>6, StepTo, OneCall
<1>6. ASSUME NEW label \in {"store end", "store brk"}, NEW value \in Nat,
             Goto(t, label), Set(t, [loc[t] EXCEPT !.tmp = value]), pc[t] \in Early
      PROVE  LocalStep(t) /\ pc'[t] # "descend"
  <2>1. PICK call : call = [loc[t] EXCEPT !.tmp = value]
    OBVIOUS
  <2>2. SameWalk(call, loc[t]) /\ call.tmp \in Nat
    BY <1>1, <2>1 DEF SameWalk, Fields
  <2>3. Fitting(t, label, call)
    BY <1>3, <1>4, <1>6, <2>2, SameFits
  <2>4. pc' = [pc EXCEPT ![t] = label] /\ loc' = [loc EXCEPT ![t] = call]
    BY <1>6, <2>1 DEF Goto, Set
  <2> QED
    BY <2>3, <2>4, StepTo, OneCall
<1>7. ASSUME NEW label \in {"load brk", "get"}, Goto(t, label), loc' = loc, pc[t] \in Early
      PROVE  LocalStep(t) /\ pc'[t] # "descend"
  <2>1. Fitting(t, label, loc[t])
    BY <1>3, <1>4, <1>7, SameFits DEF SameWalk
  <2> QED
    BY <1>7, <2>1, GoTo, OneCall DEF Goto
<1>8. pc[t] \in Early
  BY DEF Limits, At, Early
<1> QED
  BY <1>2, <1>5, <1>6, <1>7, <1>8 DEF Limits

LEMMA FramesLocal ==
  ASSUME TInv, NEW t \in CPUs, GetFrame(t) \/ PopFrame(t) \/ PutRead(t) \/ PutFrame(t)
  PROVE  LocalStep(t) /\ (pc'[t] = "descend" => pc[t] = "descend" /\ loc' = loc)
<1>1. DOMAIN loc[t] = Fields /\ TypedCall(pc[t], loc[t])
  BY OneCall
<1>2. /\ {"get", "pop", "put", "push", "test", "finish"}
           \subseteq Labels \ {"lock", "unlink", "descend", "leaf"}
      /\ {"get", "pop"} \subseteq Top \ Deep
      /\ {"put", "push", "finish"} \cap (Top \cup Deep) = {}
      /\ "test" \notin Top
  BY DEF Labels, Top, Deep, Early, Taking
<1>3. pc[t] \in {"get", "pop"} => loc[t].level = Levels
  BY <1>1, <1>2 DEF TypedCall
<1>4. ASSUME NEW label \in {"get", "pop", "put", "push", "test", "finish"}, NEW call,
             SameWalk(call, loc[t]), loc' = [loc EXCEPT ![t] = call],
             pc' = [pc EXCEPT ![t] = label],
             label \in {"get", "pop", "test"} => pc[t] \in {"get", "pop"}
      PROVE  LocalStep(t) /\ pc'[t] # "descend"
  <2>1. Fitting(t, label, call)
    BY <1>2, <1>3, <1>4, LevelsAre, SameFits
  <2> QED
    BY <1>2, <1>4, <2>1, StepTo, OneCall
<1>5. ASSUME NEW value, Set(t, [loc[t] EXCEPT !.tmp = value])
      PROVE  \E call : SameWalk(call, loc[t]) /\ loc' = [loc EXCEPT ![t] = call]
  <2>1. PICK call : call = [loc[t] EXCEPT !.tmp = value]
    OBVIOUS
  <2>2. SameWalk(call, loc[t])
    BY <1>1, <2>1 DEF SameWalk, Fields
  <2> QED
    BY <1>5, <2>1, <2>2 DEF Set
<1>6. ASSUME NEW value, Set(t, [loc[t] EXCEPT !.frames = value])
      PROVE  \E call : SameWalk(call, loc[t]) /\ loc' = [loc EXCEPT ![t] = call]
  <2>1. PICK call : call = [loc[t] EXCEPT !.frames = value]
    OBVIOUS
  <2>2. SameWalk(call, loc[t])
    BY <1>1, <2>1 DEF SameWalk, Fields
  <2> QED
    BY <1>6, <2>1, <2>2 DEF Set
<1>7. CASE GetFrame(t)
  <2>1. PICK label \in {"pop", "put", "finish"} : pc' = [pc EXCEPT ![t] = label]
    BY <1>7 DEF GetFrame, Goto, AfterRunOut
  <2>2. pc[t] = "get" /\ \E call : SameWalk(call, loc[t]) /\ loc' = [loc EXCEPT ![t] = call]
    BY <1>5, <1>7 DEF GetFrame, At
  <2> QED
    BY <1>4, <2>1, <2>2
<1>8. CASE PopFrame(t)
  <2>1. CASE loc[t].tmp \notin allocated
    <3>1. pc' = pc /\ loc' = loc
      BY <1>8, <2>1 DEF PopFrame
    <3> QED
      BY <3>1, Stays
  <2>2. CASE loc[t].tmp \in allocated
    <3>1. PICK label \in {"get", "test"} : pc' = [pc EXCEPT ![t] = label]
      BY <1>8, <2>2 DEF PopFrame, Goto
    <3>2. Set(t, [loc[t] EXCEPT !.frames = Append(loc[t].frames, loc[t].tmp)])
      BY <1>1, <1>8, <2>2 DEF PopFrame, Fields
    <3>3. pc[t] = "pop" /\ \E call : SameWalk(call, loc[t]) /\ loc' = [loc EXCEPT ![t] = call]
      BY <1>6, <1>8, <3>2 DEF PopFrame, At
    <3> QED
      BY <1>4, <3>1, <3>3
  <2> QED
    BY <2>1, <2>2
<1>9. CASE PutRead(t)
  <2>1. \E call : SameWalk(call, loc[t]) /\ loc' = [loc EXCEPT ![t] = call]
    BY <1>5, <1>9 DEF PutRead
  <2> QED
    BY <1>4, <1>9, <2>1 DEF PutRead, Goto
<1>10. CASE PutFrame(t)
  <2>1. PICK label \in {"put", "finish"} : pc' = [pc EXCEPT ![t] = label]
    BY <1>10 DEF PutFrame, Goto
  <2>2. \E call : SameWalk(call, loc[t]) /\ loc' = [loc EXCEPT ![t] = call]
    BY <1>6, <1>10 DEF PutFrame
  <2> QED
    BY <1>4, <2>1, <2>2
<1> QED
  BY <1>7, <1>8, <1>9, <1>10

-----------------------------------------------------------------------------
(* Steps of a walk                                                         *)

LEMMA TestLinkLocal ==
  ASSUME TInv, NEW t \in CPUs, TestLink(t)
  PROVE  LocalStep(t) /\ (pc'[t] = "descend" => Link(t)' # 0)
<1>1. TypedCall(pc[t], loc[t]) /\ pc[t] = "test" /\ loc' = loc /\ tables' = tables
  BY OneCall DEF TestLink, At
<1>2. loc[t].level > 1
  BY <1>1 DEF TypedCall, Deep
<1>3. {"link", "descend"} \subseteq Labels \ {"lock", "unlink", "leaf", "store end", "store brk"}
      /\ {"link", "descend"} \cap Top = {}
  BY DEF Labels, Top, Early, Taking
<1>4. PICK label \in {"link", "descend"} :
        pc' = [pc EXCEPT ![t] = label] /\ (label = "descend" => Link(t) # 0)
  BY DEF TestLink, Goto
<1>5. Fitting(t, label, loc[t])
  BY <1>2, <1>3, SameFits DEF SameWalk
<1>6. LocalStep(t) /\ pc'[t] = label
  BY <1>1, <1>4, <1>5, GoTo, OneCall
<1>7. Link(t)' = Link(t)
  BY <1>1 DEF Link, Index, Page, get_pd
<1> QED
  BY <1>4, <1>6, <1>7

LEMMA LinkTableLocal ==
  ASSUME TInv, NEW t \in CPUs, LinkTable(t)
  PROVE  LocalStep(t) /\ loc' = loc /\ loc[t].level > 1
<1>1. TypedCall(pc[t], loc[t]) /\ pc[t] = "link" /\ loc' = loc
  BY OneCall DEF LinkTable, At
<1>2. loc[t].level > 1
  BY <1>1 DEF TypedCall, Deep
<1>3. "descend" \in Labels \ {"lock", "unlink", "leaf", "store end", "store brk"}
      /\ "descend" \notin Top
  BY DEF Labels, Top, Early, Taking
<1>4. Fitting(t, "descend", loc[t])
  BY <1>2, <1>3, SameFits DEF SameWalk
<1> QED
  BY <1>1, <1>2, <1>4, GoTo, OneCall DEF LinkTable, Goto

LEMMA DescendLocal ==
  ASSUME TInv, NEW t \in CPUs, Descend(t)
  PROVE  LocalStep(t) /\ pc'[t] # "descend"
<1>1. /\ DOMAIN loc[t] = Fields /\ TypedCall(pc[t], loc[t]) /\ ListOf(pc[t], loc[t])
      /\ pc[t] = "descend"
  BY OneCall DEF Descend, At
<1>2. loc[t].level > 1 /\ loc[t].level \in 1..Levels /\ Levels \in Nat
  BY <1>1, PageTableAssumption DEF TypedCall, Deep
<1>3. Link(t) # 0
  BY <1>1 DEF TInv, WalksOK
<1>4. PICK call : call = [loc[t] EXCEPT !.table = Link(t), !.level = loc[t].level - 1]
  OBVIOUS
<1>5. /\ call.op = loc[t].op /\ call.size = loc[t].size /\ call.n = loc[t].n
      /\ call.brk = loc[t].brk /\ call.page = loc[t].page /\ call.want = loc[t].want
      /\ call.k = loc[t].k /\ call.list = loc[t].list
      /\ call.level = loc[t].level - 1 /\ call.table = Link(t)
  BY <1>1, <1>4 DEF Fields
<1>6. PICK label \in {"leaf", "test"} :
        pc' = [pc EXCEPT ![t] = label] /\ (label = "leaf" <=> loc[t].level = 2)
  BY DEF Descend, Goto
<1>7. loc' = [loc EXCEPT ![t] = call]
  BY <1>1, <1>4 DEF Descend, Set, Fields
<1>8. {"leaf", "test"} \subseteq Labels \ {"lock", "unlink", "descend", "store end", "store brk"}
      /\ {"leaf", "test"} \cap Top = {} /\ "leaf" \notin Deep
  BY DEF Labels, Top, Deep, Early, Taking
<1>9. /\ loc[t].level - 1 \in 1..Levels
      /\ label \in Deep => loc[t].level - 1 > 1
      /\ label = "leaf" => loc[t].level - 1 = 1
  BY <1>2, <1>6, <1>8
<1>10. TypedCall(label, call)
  BY <1>1, <1>5, <1>8, <1>9 DEF TypedCall
<1>11. Fitting(t, label, call)
  BY <1>1, <1>2, <1>3, <1>5, <1>8, <1>10 DEF Fitting, ListOf, WalksTo
<1> QED
  BY <1>6, <1>7, <1>8, <1>11, StepTo, OneCall

(* A walk for page p begins at pgd, wherever it is for.                    *)
LEMMA StartFits ==
  ASSUME TInv, NEW t \in CPUs, NEW p \in Nat, NEW call, DOMAIN call = Fields,
         NEW label \in Labels \ {"lock", "unlink", "leaf", "store end", "store brk"},
         call.op = loc[t].op, call.size = loc[t].size, call.n = loc[t].n,
         call.brk = loc[t].brk, call.page = p, call.want = loc[t].want,
         call.k \in Nat \ {0}, call.list = loc[t].list,
         call.level = Levels, call.table = 1
  PROVE  Fitting(t, label, call)
<1>1. TypedCall(pc[t], loc[t]) /\ ListOf(pc[t], loc[t])
  BY OneCall
<1>2. TypedCall(label, call)
  BY <1>1, LevelsAre DEF TypedCall
<1> QED
  BY <1>1, <1>2 DEF Fitting, ListOf, WalksTo

LEMMA NextPageLocal ==
  ASSUME TInv, NEW t \in CPUs, NextPage(t)
  PROVE  LocalStep(t) /\ pc'[t] # "descend"
<1>1. DOMAIN loc[t] = Fields /\ TypedCall(pc[t], loc[t])
  BY OneCall
<1>2. {"test", "finish"} \subseteq
        Labels \ {"lock", "unlink", "descend", "leaf", "store end", "store brk"}
      /\ "finish" \notin Top \cup Deep
  BY DEF Labels, Top, Deep, Early, Taking
<1>3. CASE loc[t].k < loc[t].n
  <2>1. PICK call : call = [loc[t] EXCEPT !.k = loc[t].k + 1, !.level = Levels, !.table = 1]
    OBVIOUS
  <2>2. DOMAIN call = Fields
        /\ call.op = loc[t].op /\ call.size = loc[t].size /\ call.n = loc[t].n
        /\ call.brk = loc[t].brk /\ call.page = loc[t].page /\ call.want = loc[t].want
        /\ call.k = loc[t].k + 1 /\ call.list = loc[t].list
        /\ call.level = Levels /\ call.table = 1
    BY <1>1, <2>1 DEF Fields
  <2>3. loc[t].page \in Nat /\ loc[t].k + 1 \in Nat \ {0}
    <3>1. loc[t].page \in Nat /\ loc[t].k \in Nat \ {0}
      BY <1>1 DEF TypedCall
    <3> QED
      BY <3>1
  <2>4. Fitting(t, "test", call)
    BY <1>2, <2>2, <2>3, StartFits
  <2>5. pc' = [pc EXCEPT ![t] = "test"] /\ loc' = [loc EXCEPT ![t] = call]
    <3>1. /\ Set(t, [loc[t] EXCEPT !.k = @ + 1, !.level = Levels, !.table = 1])
          /\ Goto(t, "test")
      BY <1>3, Zenon DEF NextPage
    <3>2. call = [loc[t] EXCEPT !.k = @ + 1, !.level = Levels, !.table = 1]
      BY <2>1
    <3> QED
      BY <3>1, <3>2 DEF Goto, Set
  <2> QED
    BY <1>2, <2>4, <2>5, StepTo, OneCall
<1>4. CASE ~(loc[t].k < loc[t].n)
  <2>1. Fitting(t, "finish", loc[t])
    BY <1>2, SameFits DEF SameWalk
  <2> QED
    BY <1>4, <2>1, GoTo, OneCall DEF NextPage, Goto
<1> QED
  BY <1>3, <1>4

LEMMA SetLeafLocal ==
  ASSUME TInv, NEW t \in CPUs, SetLeaf(t)
  PROVE  LocalStep(t) /\ pc'[t] # "descend" /\ loc[t].level = 1
<1>1. DOMAIN loc[t] = Fields /\ TypedCall(pc[t], loc[t]) /\ pc[t] = "leaf"
  BY OneCall DEF SetLeaf, At
<1>2. loc[t].level = 1
  BY <1>1 DEF TypedCall
<1>3. {"test", "read fifo"} \subseteq
        Labels \ {"lock", "unlink", "descend", "leaf", "store end", "store brk"}
      /\ "read fifo" \notin Top \cup Deep
  BY DEF Labels, Top, Deep, Early, Taking
<1>4. CASE MapPattern(t)
  BY <1>2, <1>4, NextPageLocal DEF MapPattern
<1>5. CASE MapFrame(t)
  <2>1. PICK call : call = [loc[t] EXCEPT !.frames = Tail(loc[t].frames)]
    OBVIOUS
  <2>2. SameWalk(call, loc[t])
    BY <1>1, <2>1 DEF SameWalk, Fields
  <2>3. pc' = [pc EXCEPT ![t] = "read fifo"] /\ loc' = [loc EXCEPT ![t] = call]
    BY <1>1, <1>5, <2>1 DEF MapFrame, Goto, Set, Fields
  <2>4. Fitting(t, "read fifo", call)
    BY <1>3, <2>2, SameFits
  <2> QED
    BY <1>2, <2>3, <2>4, StepTo, OneCall
<1>6. CASE SwapVictim(t)
  <2>1. PICK call : call = [StartWalk(t, loc[t].want) EXCEPT !.swp = NoFrame]
    OBVIOUS
  <2>2. DOMAIN call = Fields
        /\ call.op = loc[t].op /\ call.size = loc[t].size /\ call.n = loc[t].n
        /\ call.brk = loc[t].brk /\ call.page = loc[t].want /\ call.want = loc[t].want
        /\ call.k = 1 /\ call.list = loc[t].list
        /\ call.level = Levels /\ call.table = 1
    BY <1>1, <2>1 DEF StartWalk, Fields
  <2>3. loc[t].want \in Nat /\ call.k \in Nat \ {0}
    BY <1>1, <2>2 DEF TypedCall
  <2>4. Fitting(t, "test", call)
    BY <1>3, <2>2, <2>3, StartFits
  <2>5. pc' = [pc EXCEPT ![t] = "test"] /\ loc' = [loc EXCEPT ![t] = call]
    BY <1>6, <2>1 DEF SwapVictim, Goto, Set
  <2> QED
    BY <1>2, <2>4, <2>5, StepTo, OneCall
<1>7. CASE EnterPage(t)
  <2>1. Fitting(t, "read fifo", loc[t])
    BY <1>3, SameFits DEF SameWalk
  <2>2. pc' = [pc EXCEPT ![t] = "read fifo"] /\ loc' = loc
    BY <1>7 DEF EnterPage, Goto
  <2> QED
    BY <1>2, <1>3, <2>1, <2>2, GoTo, OneCall
<1> QED
  BY <1>4, <1>5, <1>6, <1>7 DEF SetLeaf

-----------------------------------------------------------------------------
(* Steps of the page list and of the reading walks                         *)

LEMMA ReadFifoLocal ==
  ASSUME TInv, NEW t \in CPUs, ReadFifo(t) \/ ReadVictim(t)
  PROVE  LocalStep(t) /\ pc'[t] # "descend"
<1>1. DOMAIN loc[t] = Fields /\ TypedCall(pc[t], loc[t])
  BY OneCall
<1>2. fifo_pgn \in 0..Len(pgn_nodes)
  BY DEF TInv, PagesOK
<1>3. PICK call : call = [loc[t] EXCEPT !.list = fifo_pgn]
  OBVIOUS
<1>4. /\ call.op = loc[t].op /\ call.size = loc[t].size /\ call.n = loc[t].n
      /\ call.brk = loc[t].brk /\ call.page = loc[t].page /\ call.want = loc[t].want
      /\ call.k = loc[t].k /\ call.list = fifo_pgn
      /\ call.level = loc[t].level /\ call.table = loc[t].table
  BY <1>1, <1>3 DEF Fields
<1>5. PICK label \in {"enlist", "finish", "unlink"} :
        pc' = [pc EXCEPT ![t] = label] /\ (label = "unlink" => fifo_pgn # 0)
  BY DEF ReadFifo, ReadVictim, Goto
<1>6. {"enlist", "finish", "unlink"}
        \subseteq Labels \ {"lock", "leaf", "descend", "store end", "store brk"}
      /\ {"enlist", "finish", "unlink"} \cap (Top \cup Deep) = {}
  BY DEF Labels, Top, Deep, Early, Taking
<1>7. TypedCall(label, call)
  BY <1>1, <1>4, <1>6 DEF TypedCall
<1>8. Fitting(t, label, call)
  BY <1>2, <1>4, <1>5, <1>6, <1>7 DEF Fitting, ListOf, WalksTo
<1>9. loc' = [loc EXCEPT ![t] = call]
  BY <1>3 DEF ReadFifo, ReadVictim, Set
<1> QED
  BY <1>5, <1>6, <1>8, <1>9, StepTo, OneCall

(* The locals of a walk for page p.                                        *)
LEMMA StartWalkIs ==
  ASSUME TInv, NEW t \in CPUs, NEW p \in Nat, NEW call, call = StartWalk(t, p)
  PROVE  /\ DOMAIN call = Fields
         /\ call.op = loc[t].op /\ call.size = loc[t].size /\ call.n = loc[t].n
         /\ call.brk = loc[t].brk /\ call.page = p /\ call.want = loc[t].want
         /\ call.k = 1 /\ call.k \in Nat \ {0} /\ call.list = loc[t].list
         /\ call.level = Levels /\ call.table = 1
<1>1. DOMAIN loc[t] = Fields
  BY OneCall
<1> QED
  BY <1>1 DEF StartWalk, Fields

LEMMA WalkFits ==
  ASSUME TInv, NEW t \in CPUs, NEW p \in Nat, NEW call, call = StartWalk(t, p)
  PROVE  \A label \in Labels \ {"lock", "unlink", "leaf", "store end", "store brk"} :
           Fitting(t, label, call)
<1>1. /\ DOMAIN call = Fields
      /\ call.op = loc[t].op /\ call.size = loc[t].size /\ call.n = loc[t].n
      /\ call.brk = loc[t].brk /\ call.page = p /\ call.want = loc[t].want
      /\ call.k \in Nat \ {0} /\ call.list = loc[t].list
      /\ call.level = Levels /\ call.table = 1
  BY StartWalkIs
<1> QED
  BY <1>1, StartFits, Zenon

LEMMA EnlistLocal ==
  ASSUME TInv, NEW t \in CPUs, Enlist(t)
  PROVE  LocalStep(t) /\ pc'[t] # "descend"
<1>1. TypedCall(pc[t], loc[t])
  BY OneCall
<1>2. CASE loc[t].op = "access"
  <2>1. "find frame" \in
          Labels \ {"lock", "unlink", "leaf", "descend", "store end", "store brk"}
    BY DEF Labels
  <2>2. PICK call : call = StartWalk(t, loc[t].want)
    OBVIOUS
  <2>3. loc[t].want \in Nat
    BY <1>1 DEF TypedCall
  <2>4. Fitting(t, "find frame", call)
    BY <2>1, <2>2, <2>3, WalkFits
  <2>5. pc' = [pc EXCEPT ![t] = "find frame"] /\ loc' = [loc EXCEPT ![t] = call]
    BY <1>2, <2>2 DEF Enlist, Goto, Set
  <2> QED
    BY <2>1, <2>4, <2>5, StepTo, OneCall
<1>3. CASE loc[t].op # "access"
  BY <1>3, NextPageLocal DEF Enlist
<1> QED
  BY <1>2, <1>3

LEMMA FoundLocal ==
  ASSUME TInv, NEW t \in CPUs, NEW entry, Found(t, entry), Find(t)
  PROVE  LocalStep(t) /\ pc'[t] # "descend"
<1>1. DOMAIN loc[t] = Fields /\ TypedCall(pc[t], loc[t])
  BY OneCall
<1>2. {"find frame", "victim", "finish", "test"} \subseteq
          Labels \ {"lock", "unlink", "leaf", "descend", "store end", "store brk"}
      /\ "finish" \notin Top \cup Deep
  BY DEF Labels, Top, Deep, Early, Taking
<1>3. loc[t].want \in Nat
  BY <1>1 DEF TypedCall
<1>4. CASE pc[t] = "find page"
  <2>1. PICK label \in {"find frame", "victim"} : pc' = [pc EXCEPT ![t] = label]
    BY <1>4 DEF Found, Goto
  <2>2. PICK call : call = StartWalk(t, loc[t].want)
    OBVIOUS
  <2>3. Fitting(t, label, call)
    BY <1>2, <1>3, <2>2, WalkFits
  <2>4. loc' = [loc EXCEPT ![t] = call]
    BY <1>4, <2>2 DEF Found, Set
  <2> QED
    BY <1>2, <2>1, <2>3, <2>4, StepTo, OneCall
<1>5. CASE pc[t] = "find victim" /\ mswp_free = << >>
  <2>1. Fitting(t, "finish", loc[t])
    BY <1>2, SameFits DEF SameWalk
  <2>2. pc' = [pc EXCEPT ![t] = "finish"] /\ loc' = loc
    BY <1>5 DEF Found, Goto
  <2> QED
    BY <1>2, <2>1, <2>2, GoTo, OneCall
<1>6. CASE pc[t] = "find victim" /\ mswp_free # << >>
  <2>5. Page(t) \in Nat
    BY IndexOfWalk
  <2>1. PICK start : start = StartWalk(t, Page(t))
    OBVIOUS
  <2>2. PICK call : call = [start EXCEPT !.swp = Head(mswp_free),
                         !.fpn = Mem!PAGING_FPN(entry)]
    OBVIOUS
  <2>3. DOMAIN start = Fields
        /\ start.op = loc[t].op /\ start.size = loc[t].size /\ start.n = loc[t].n
        /\ start.brk = loc[t].brk /\ start.page = Page(t) /\ start.want = loc[t].want
        /\ start.k \in Nat \ {0} /\ start.list = loc[t].list
        /\ start.level = Levels /\ start.table = 1
    BY <2>1, <2>5, StartWalkIs
  <2>4. DOMAIN call = Fields
        /\ call.op = start.op /\ call.size = start.size /\ call.n = start.n
        /\ call.brk = start.brk /\ call.page = start.page /\ call.want = start.want
        /\ call.k = start.k /\ call.list = start.list
        /\ call.level = start.level /\ call.table = start.table
    BY <2>2, <2>3 DEF Fields
  <2>6. Fitting(t, "test", call)
    BY <1>2, <1>3, <2>3, <2>4, <2>5, StartFits
  <2>7. pc' = [pc EXCEPT ![t] = "test"] /\ loc' = [loc EXCEPT ![t] = call]
    BY <1>6, <2>1, <2>2 DEF Found, Goto, Set
  <2> QED
    BY <1>2, <2>6, <2>7, StepTo, OneCall
<1>7. CASE pc[t] = "find frame"
  <2>1. Fitting(t, "finish", loc[t])
    BY <1>2, SameFits DEF SameWalk
  <2>2. pc' = [pc EXCEPT ![t] = "finish"] /\ loc' = loc
    BY <1>7 DEF Found, Goto
  <2> QED
    BY <1>2, <2>1, <2>2, GoTo, OneCall
<1> QED
  BY <1>4, <1>5, <1>6, <1>7 DEF Found

LEMMA FindLocal ==
  ASSUME TInv, NEW t \in CPUs, Find(t)
  PROVE  LocalStep(t) /\ pc'[t] # "descend"
<1>1. /\ DOMAIN loc[t] = Fields /\ TypedCall(pc[t], loc[t]) /\ ListOf(pc[t], loc[t])
      /\ pc[t] \in {"find page", "find victim", "find frame"}
  BY OneCall DEF Find
<1>2. CASE Found(t, Link(t)) \/ Found(t, ZeroEntry)
  BY <1>2, FoundLocal
<1>3. CASE /\ loc[t].level # 1 /\ Link(t) # 0
           /\ Set(t, [loc[t] EXCEPT !.table = Link(t), !.level = @ - 1])
           /\ UNCHANGED << pc, mswp_free, wild, strayed >>
  <2>1. loc[t].level \in 1..Levels /\ Levels \in Nat
    BY <1>1, PageTableAssumption DEF TypedCall
  <2>2. loc[t].level > 1 /\ loc[t].level - 1 \in 1..Levels
    BY <1>3, <2>1
  <2>3. PICK call : call = [loc[t] EXCEPT !.table = Link(t), !.level = @ - 1]
    OBVIOUS
  <2>4. /\ call.op = loc[t].op /\ call.size = loc[t].size /\ call.n = loc[t].n
        /\ call.brk = loc[t].brk /\ call.page = loc[t].page /\ call.want = loc[t].want
        /\ call.k = loc[t].k /\ call.list = loc[t].list
        /\ call.level = loc[t].level - 1 /\ call.table = Link(t)
    BY <1>1, <2>3 DEF Fields
  <2>5. pc[t] \in Labels \ {"lock", "unlink", "leaf", "descend", "store end", "store brk"}
        /\ pc[t] \notin Top \cup Deep
    BY <1>1 DEF Labels, Top, Deep, Early, Taking
  <2>6. TypedCall(pc[t], call)
    BY <1>1, <2>2, <2>4, <2>5 DEF TypedCall
  <2>7. Fitting(t, pc[t], call)
    BY <1>1, <1>3, <2>2, <2>4, <2>5, <2>6 DEF Fitting, ListOf, WalksTo
  <2>8. pc' = pc /\ loc' = [loc EXCEPT ![t] = call]
    BY <1>3, <2>3 DEF Set
  <2> QED
    BY <2>5, <2>7, <2>8, SetTo, OneCall
<1> QED
  BY <1>2, <1>3 DEF Find

LEMMA FinishLocal ==
  ASSUME TInv, NEW t \in CPUs, Finish(t)
  PROVE  LocalStep(t) /\ pc'[t] = "arrived"
<1>1. pc' = [pc EXCEPT ![t] = "arrived"] /\ loc' = [loc EXCEPT ![t] = NoCall]
  BY DEF Finish, Goto, Set
<1> QED
  BY <1>1, NoCallFits, StepTo, OneCall

(* The node at the end of the list holds a page, if no node is a freed one. *)
LEMMA VictimIs ==
  ASSUME TInv, NEW t \in CPUs, pc[t] = "unlink", NEW chain,
         chain = ChainFrom(loc[t].list),
         ~\E i \in DOMAIN chain : pgn_nodes[chain[i]].pgn = NoPage
  PROVE  pgn_nodes[Last(chain)].pgn \in Nat
<1>1. loc[t].list \in 0..Len(pgn_nodes) /\ loc[t].list # 0
  BY OneCall DEF ListOf
<1>2. NodesOK
  BY DEF TInv, PagesOK
<1>3. chain \in Seq(DOMAIN pgn_nodes) /\ chain # << >>
  BY <1>1, <1>2, ChainIs
<1>4. Len(chain) \in DOMAIN chain /\ chain[Len(chain)] \in DOMAIN pgn_nodes
  BY <1>3
<1>5. pgn_nodes[chain[Len(chain)]] \in Node
  BY <1>2, <1>4 DEF NodesOK
<1>6. pgn_nodes[chain[Len(chain)]].pgn # NoPage
  BY <1>4
<1> QED
  BY <1>5, <1>6 DEF Node, Last

LEMMA UnlinkLocal ==
  ASSUME TInv, NEW t \in CPUs, Unlink(t)
  PROVE  LocalStep(t) /\ pc'[t] # "descend"
<1>1. pc[t] = "unlink"
  BY DEF Unlink, At
<1>2. PICK chain : chain = ChainFrom(loc[t].list)
  OBVIOUS
<1>3. CASE \E i \in DOMAIN chain : pgn_nodes[chain[i]].pgn = NoPage
  <2>1. pc' = pc /\ loc' = loc
    BY <1>2, <1>3 DEF Unlink
  <2> QED
    BY <1>1, <2>1, Stays
<1>4. CASE ~\E i \in DOMAIN chain : pgn_nodes[chain[i]].pgn = NoPage
  <2>1. PICK victim \in Nat : victim = pgn_nodes[Last(chain)].pgn
    BY <1>1, <1>2, <1>4, VictimIs
  <2>2. Set(t, StartWalk(t, victim)) /\ Goto(t, "find victim")
    BY <1>2, <1>4, <2>1 DEF Unlink
  <2>3. "find victim" \in
          Labels \ {"lock", "unlink", "leaf", "descend", "store end", "store brk"}
    BY DEF Labels
  <2>4. Fitting(t, "find victim", StartWalk(t, victim))
    BY <2>3, WalkFits
  <2> QED
    BY <2>2, <2>3, <2>4, StepTo, OneCall DEF Set, Goto
<1> QED
  BY <1>3, <1>4

(* The shared structures that some of these steps change.                  *)
LEMMA EnlistPages ==
  ASSUME TInv, NEW t \in CPUs, Enlist(t)
  PROVE  PagesOK'
<1>1. NodesOK /\ fifo_pgn \in 0..Len(pgn_nodes) /\ \A u \in CPUs : ListOf(pc[u], loc[u])
  BY DEF TInv, PagesOK
<1>2. PICK node : node = [pgn |-> Page(t), pg_next |-> loc[t].list]
  OBVIOUS
<1>3. pgn_nodes' = Append(pgn_nodes, node) /\ fifo_pgn' = Len(pgn_nodes) + 1
  BY <1>2 DEF Enlist
<1>4. pgn_nodes \in Seq(Node) /\ Len(pgn_nodes) \in Nat
  BY <1>1 DEF NodesOK
<1>5. loc[t].list \in 0..Len(pgn_nodes)
  BY <1>1 DEF ListOf
<1>6. node \in Node /\ node.pg_next = loc[t].list
  <2>1. Page(t) \in Nat
    BY IndexOfWalk
  <2> QED
    BY <1>2, <1>4, <1>5, <2>1 DEF Node
<1>7. /\ pgn_nodes' \in Seq(Node) /\ Len(pgn_nodes') = Len(pgn_nodes) + 1
      /\ \A m \in 1..Len(pgn_nodes) : pgn_nodes'[m] = pgn_nodes[m]
      /\ pgn_nodes'[Len(pgn_nodes) + 1] = node
  BY <1>3, <1>4, <1>6
<1>8. NodesOK'
  <2> SUFFICES ASSUME NEW m \in 1..(Len(pgn_nodes) + 1) PROVE pgn_nodes'[m].pg_next < m
    BY <1>4, <1>7 DEF NodesOK
  <2>1. CASE m = Len(pgn_nodes) + 1
    BY <1>4, <1>5, <1>6, <1>7, <2>1
  <2>2. CASE m # Len(pgn_nodes) + 1
    <3>1. m \in 1..Len(pgn_nodes)
      BY <1>4, <2>2
    <3> QED
      BY <1>1, <1>4, <1>7, <3>1 DEF NodesOK
  <2> QED
    BY <2>1, <2>2
<1>9. ASSUME NEW u \in CPUs PROVE ListOf(pc[u], loc[u])'
  <2>1. LocalStep(t)
    BY EnlistLocal
  <2>2. ListOf(pc'[u], loc'[u])
    BY <1>1, <2>1 DEF LocalStep, OthersStay, Fitting
  <2> QED
    BY <1>4, <1>7, <2>2 DEF ListOf
<1> QED
  BY <1>3, <1>4, <1>7, <1>8, <1>9 DEF PagesOK

LEMMA UnlinkPages ==
  ASSUME TInv, NEW t \in CPUs, Unlink(t)
  PROVE  PagesOK'
<1>1. NodesOK /\ fifo_pgn \in 0..Len(pgn_nodes) /\ \A u \in CPUs : ListOf(pc[u], loc[u])
  BY DEF TInv, PagesOK
<1>2. pgn_nodes \in Seq(Node) /\ Len(pgn_nodes) \in Nat
      /\ DOMAIN pgn_nodes = 1..Len(pgn_nodes)
  BY <1>1 DEF NodesOK
<1>3. LocalStep(t)
  BY UnlinkLocal
<1>4. \A u \in CPUs : ListOf(pc'[u], loc'[u])
  BY <1>1, <1>3 DEF LocalStep, OthersStay, Fitting
<1>5. CASE UNCHANGED fifoVars
  BY <1>3, <1>5, PagesKept
<1>6. CASE ~UNCHANGED fifoVars
  <2>1. PICK chain, last : chain = ChainFrom(loc[t].list) /\ last = Last(chain)
    OBVIOUS
  <2>2. fifo_pgn' \in {0, fifo_pgn}
    BY <1>6 DEF Unlink, fifoVars
  <2>3. pgn_nodes' = [m \in DOMAIN pgn_nodes |->
          IF m = last THEN [pgn_nodes[m] EXCEPT !.pgn = NoPage]
          ELSE IF m \in ToSet(Front(chain)) /\ pgn_nodes[m].pg_next = last
          THEN [pgn_nodes[m] EXCEPT !.pg_next = 0]
          ELSE pgn_nodes[m]]
    BY <1>6, <2>1, Zenon DEF Unlink
  <2>4. ASSUME NEW m \in DOMAIN pgn_nodes
        PROVE  pgn_nodes'[m] \in Node /\ pgn_nodes'[m].pg_next < m
    <3>1. pgn_nodes[m] \in Node /\ pgn_nodes[m].pg_next < m /\ m \in Nat \ {0}
      BY <1>1, <1>2 DEF NodesOK
    <3>2. \/ pgn_nodes'[m] = [pgn_nodes[m] EXCEPT !.pgn = NoPage]
          \/ pgn_nodes'[m] = [pgn_nodes[m] EXCEPT !.pg_next = 0]
          \/ pgn_nodes'[m] = pgn_nodes[m]
      BY <2>3
    <3> QED
      BY <3>1, <3>2 DEF Node
  <2>5. pgn_nodes' \in Seq(Node) /\ Len(pgn_nodes') = Len(pgn_nodes)
        /\ DOMAIN pgn_nodes' = DOMAIN pgn_nodes
    <3>1. pgn_nodes' = [m \in 1..Len(pgn_nodes) |-> pgn_nodes'[m]]
      BY <1>2, <2>3
    <3>2. \A m \in 1..Len(pgn_nodes) : pgn_nodes'[m] \in Node
      BY <1>2, <2>4
    <3> QED
      BY <1>2, <3>1, <3>2
  <2>6. NodesOK'
    BY <2>4, <2>5 DEF NodesOK
  <2> QED
    BY <1>1, <1>2, <1>4, <2>2, <2>5, <2>6 DEF PagesOK, ListOf
<1> QED
  BY <1>5, <1>6

-----------------------------------------------------------------------------
(* The two steps that write a table                                        *)

(* What the invariant says of the tree that a CPU walks.                   *)
LEMMA TreeIs ==
  ASSUME TInv, NEW t \in CPUs
  PROVE  /\ \E S : TablesAre(S)
         /\ \E lv : Tree(lv)
         /\ Len(tables) \in Nat /\ DOMAIN tables = 1..Len(tables)
         /\ loc[t].table \in DOMAIN tables
<1>1. WalksOK
  BY DEF TInv
<1>2. PICK S : TablesAre(S)
  BY <1>1 DEF WalksOK
<1>3. PICK lv : Tree(lv)
  BY <1>1 DEF WalksOK
<1>4. Len(tables) \in Nat /\ DOMAIN tables = 1..Len(tables)
  BY <1>2 DEF TablesAre
<1>5. loc[t].table \in DOMAIN tables
  BY <1>3 DEF Tree
<1> QED
  BY <1>2, <1>3, <1>4, <1>5

(* A step from tables of the levels lv to tables of the levels up writes   *)
(* no other entry than e, if any.                                          *)
Entries(lv, up, e) ==
  \A m \in DOMAIN tables', j \in Indices :
    up[m] = 1 => \/ tables'[m][j] = e
                 \/ m \in DOMAIN tables /\ lv[m] = 1 /\ tables'[m][j] = tables[m][j]

LEMMA LinkTableWalks ==
  ASSUME TInv, NEW t \in CPUs, LinkTable(t)
  PROVE  /\ WalksOK'
         /\ \A lv : Tree(lv) => \E up : Tree(up)' /\ Entries(lv, up, ZeroEntry)
<1> DEFINE N == Len(tables)
<1>1. WalksOK /\ N \in Nat /\ DOMAIN tables = 1..N
  BY TreeIs DEF TInv
<1>2. PICK n \in 1..N : n = loc[t].table
  BY <1>1, TreeIs
<1>3. PICK i \in Indices : i = Index(t)
  BY IndexOfWalk
<1>4. LocalStep(t) /\ loc' = loc /\ loc[t].level > 1
  BY LinkTableLocal
<1>5. PICK down : down = loc[t].level - 1
  OBVIOUS
<1>6. down \in 1..Levels
  <2>1. loc[t].level \in 1..Levels /\ Levels \in Nat
    BY OneCall, PageTableAssumption DEF TypedCall
  <2> QED
    BY <1>4, <1>5, <2>1
<1>7. PICK linked, new : /\ linked = [tables[n] EXCEPT ![i] = N + 1]
                         /\ new = NewTable(down)
  OBVIOUS
<1>8. tables' = Append([tables EXCEPT ![n] = linked], new)
  BY <1>2, <1>3, <1>5, <1>7 DEF LinkTable, LinkNew
<1>9. PICK S : TablesAre(S)
  BY <1>1 DEF WalksOK
<1>10. PICK T : T = S \cup {N + 1, 0, ZeroEntry}
  OBVIOUS
<1>11. linked \in [Indices -> T] /\ new \in [Indices -> T]
  <2>1. tables[n] \in [Indices -> S]
    BY <1>1, <1>9 DEF TablesAre
  <2>2. linked \in [Indices -> T]
    BY <1>3, <1>7, <1>10, <2>1
  <2>3. new \in [Indices -> T]
    BY <1>7, <1>10 DEF NewTable
  <2> QED
    BY <2>2, <2>3
<1>12. tables \in Seq([Indices -> T])
  <2>1. [Indices -> S] \subseteq [Indices -> T]
    BY <1>10
  <2> QED
    BY <1>9, <2>1 DEF TablesAre
<1>13. /\ tables' \in Seq([Indices -> T]) /\ DOMAIN tables' = 1..(N + 1)
       /\ \A m \in 1..N : tables'[m] = IF m = n THEN linked ELSE tables[m]
       /\ tables'[N + 1] = new
  <2>1. PICK X : X = [Indices -> T]
    OBVIOUS
  <2>2. PICK old : old = [tables EXCEPT ![n] = linked]
    OBVIOUS
  <2>3. old \in Seq(X) /\ Len(old) = N
        /\ \A m \in 1..N : old[m] = IF m = n THEN linked ELSE tables[m]
    BY <1>1, <1>11, <1>12, <2>1, <2>2
  <2>4. tables' = Append(old, new) /\ new \in X
    BY <1>8, <1>11, <2>1, <2>2
  <2> QED
    BY <1>1, <2>1, <2>3, <2>4
<1>14. \A j \in Indices : /\ linked[j] = IF j = i THEN N + 1 ELSE tables[n][j]
                          /\ new[j] = IF down = 1 THEN ZeroEntry ELSE 0
  <2>1. tables[n] \in [Indices -> S]
    BY <1>1, <1>9 DEF TablesAre
  <2>2. \A j \in Indices : linked[j] = IF j = i THEN N + 1 ELSE tables[n][j]
    BY <1>7, <2>1
  <2>3. \A j \in Indices : new[j] = IF down = 1 THEN ZeroEntry ELSE 0
    BY <1>6, <1>7 DEF NewTable
  <2> QED
    BY <2>2, <2>3
<1>15. ASSUME NEW lv, Tree(lv) PROVE \E up : Tree(up)' /\ Entries(lv, up, ZeroEntry)
  <2>1. Tree(lv)
    BY <1>15
  <2>2. PICK up : up = [m \in 1..(N + 1) |-> IF m = N + 1 THEN down ELSE lv[m]]
    OBVIOUS
  <2>3. \A m \in 1..N : up[m] = lv[m]
    BY <1>1, <2>2
  <2>4. up[N + 1] = down
    BY <1>1, <2>2
  <2>5. lv[n] = loc[t].level
    BY <1>2, <2>1 DEF Tree
  <2>6. ASSUME NEW m \in 1..(N + 1), NEW j \in Indices, up[m] > 1, tables'[m][j] # 0
        PROVE  tables'[m][j] \in 1..(N + 1) /\ up[tables'[m][j]] = up[m] - 1
    <3>1. CASE m = N + 1
      <4>1. down > 1
        BY <2>4, <2>6, <3>1
      <4>2. new[j] = 0
        BY <1>14, <4>1
      <4> QED
        BY <1>13, <2>6, <3>1, <4>2
    <3>2. CASE m = n /\ j = i
      <4>1. tables'[m][j] = N + 1
        BY <1>13, <1>14, <3>2
      <4> QED
        BY <1>1, <1>5, <2>3, <2>4, <2>5, <3>2, <4>1
    <3>3. CASE m \in 1..N /\ ~(m = n /\ j = i)
      <4>1. tables'[m][j] = tables[m][j]
        BY <1>13, <1>14, <3>3
      <4>2. lv[m] > 1
        BY <2>3, <2>6, <3>3
      <4>3. tables[m][j] \in 1..N /\ lv[tables[m][j]] = lv[m] - 1
        BY <1>1, <2>1, <2>6, <3>3, <4>1, <4>2 DEF Tree
      <4> QED
        BY <1>1, <2>3, <3>3, <4>1, <4>3
    <3> QED
      BY <1>1, <3>1, <3>2, <3>3
  <2>7. \A u \in CPUs : loc'[u].table \in 1..N /\ up[loc'[u].table] = loc'[u].level
    BY <1>1, <1>4, <2>1, <2>3 DEF Tree
  <2>8. 1 \in 1..(N + 1) /\ up[1] = Levels
    BY <1>1, <2>1, <2>3 DEF Tree
  <2>9. Tree(up)'
    BY <1>1, <1>13, <2>6, <2>7, <2>8 DEF Tree
  <2>10. ASSUME NEW m \in 1..(N + 1), NEW j \in Indices, up[m] = 1
         PROVE  \/ tables'[m][j] = ZeroEntry
                \/ m \in 1..N /\ lv[m] = 1 /\ tables'[m][j] = tables[m][j]
    <3>1. CASE m = N + 1
      <4>1. down = 1
        BY <2>4, <2>10, <3>1
      <4>2. new[j] = ZeroEntry
        BY <1>14, <4>1
      <4> QED
        BY <1>13, <3>1, <4>2
    <3>2. CASE m # N + 1
      <4>1. m \in 1..N
        BY <1>1, <3>2
      <4>2. lv[m] = 1
        BY <2>3, <2>10, <4>1
      <4>3. m # n
        BY <1>4, <2>5, <4>2
      <4>4. tables'[m] = tables[m]
        BY <1>13, <4>1, <4>3
      <4> QED
        BY <4>1, <4>2, <4>4
    <3> QED
      BY <3>1, <3>2
  <2>11. Entries(lv, up, ZeroEntry)
    BY <1>1, <1>13, <2>10, Zenon DEF Entries
  <2> QED
    BY <2>9, <2>11
<1>16. ASSUME NEW u \in CPUs, pc'[u] = "descend" PROVE Link(u)' # 0
  <2>1. PICK m \in 1..N : m = loc[u].table
    BY <1>1, TreeIs
  <2>2. PICK j \in Indices : j = Index(u)
    BY IndexOfWalk
  <2>3. Link(u)' = tables'[m][j] /\ Link(u) = tables[m][j]
    BY <1>4, <2>1, <2>2 DEF Link, Index, Page, get_pd
  <2>4. tables'[m][j] = IF m = n /\ j = i THEN N + 1 ELSE tables[m][j]
    BY <1>13, <1>14
  <2>5. CASE u = t
    BY <1>1, <1>2, <1>3, <2>1, <2>2, <2>3, <2>4, <2>5
  <2>6. CASE u # t
    <3>1. Link(u) # 0
      BY <1>1, <1>4, <1>16, <2>6 DEF LocalStep, OthersStay, WalksOK
    <3> QED
      BY <1>1, <2>3, <2>4, <3>1
  <2> QED
    BY <2>5, <2>6
<1>17. TablesAre(T)'
  BY <1>13 DEF TablesAre
<1>18. WalksOK'
  BY <1>1, <1>15, <1>16, <1>17 DEF WalksOK
<1> QED
  BY <1>15, <1>18

(* What t writes at the leaf of its walk.                                  *)
Written(t, entry) ==
  /\ strayed' = strayed
  /\ \/ entry = Mem!PatternEntry /\ entered' = entered
     \/ /\ loc[t].op \in {"alloc", "inc"}
        /\ entry = Mem!FpnEntry(Link(t), loc[t].frames[1])
        /\ entered' = entered \cup {loc[t].frames[1]}
     \/ /\ loc[t].swp # NoFrame
        /\ entry = Mem!SwapEntry(loc[t].swp) /\ entered' = entered
     \/ /\ loc[t].op = "access"
        /\ entry = Mem!FpnEntry(Link(t), loc[t].fpn) /\ entered' = entered

LEMMA SetLeafWalks ==
  ASSUME TInv, NEW t \in CPUs, SetLeaf(t)
  PROVE  /\ WalksOK'
         /\ \E entry : /\ Written(t, entry)
                       /\ \A lv : Tree(lv) => Tree(lv)' /\ Entries(lv, lv, entry)
<1> DEFINE N == Len(tables)
<1>1. WalksOK /\ N \in Nat /\ DOMAIN tables = 1..N
  BY TreeIs DEF TInv
<1>2. PICK n \in 1..N : n = loc[t].table
  BY <1>1, TreeIs
<1>3. PICK i \in Indices : i = Index(t)
  BY IndexOfWalk
<1>4. LocalStep(t) /\ pc'[t] # "descend" /\ loc[t].level = 1
  BY SetLeafLocal
<1>5. PICK entry : tables' = [tables EXCEPT ![n][i] = entry] /\ Written(t, entry)
  BY <1>2, <1>3
     DEF SetLeaf, MapPattern, MapFrame, SwapVictim, EnterPage, SetEntry, Written
<1>6. PICK set : set = [tables[n] EXCEPT ![i] = entry]
  OBVIOUS
<1>7. PICK S : TablesAre(S)
  BY <1>1 DEF WalksOK
<1>8. PICK T : T = S \cup {entry}
  OBVIOUS
<1>9. set \in [Indices -> T] /\ tables \in Seq([Indices -> T])
  <2>1. tables[n] \in [Indices -> S]
    BY <1>1, <1>7 DEF TablesAre
  <2>2. set \in [Indices -> T]
    BY <1>3, <1>6, <1>8, <2>1
  <2>3. [Indices -> S] \subseteq [Indices -> T]
    BY <1>8
  <2> QED
    BY <1>7, <2>2, <2>3 DEF TablesAre
<1>10. /\ tables' \in Seq([Indices -> T]) /\ DOMAIN tables' = 1..N
       /\ \A m \in 1..N : m # n => tables'[m] = tables[m]
       /\ tables'[n] = set
  <2>1. PICK X : X = [Indices -> T]
    OBVIOUS
  <2>2. tables' = [tables EXCEPT ![n] = set] /\ set \in X /\ tables \in Seq(X)
    BY <1>5, <1>6, <1>9, <2>1
  <2> QED
    BY <1>1, <2>1, <2>2
<1>11. \A lv : Tree(lv) => lv[n] = 1
  BY <1>2, <1>4 DEF Tree
<1>12. ASSUME NEW lv, Tree(lv) PROVE Entries(lv, lv, entry)
  <2> SUFFICES ASSUME NEW m \in 1..N, NEW j \in Indices, lv[m] = 1
               PROVE  tables'[m][j] = entry \/ tables'[m][j] = tables[m][j]
    BY <1>1, <1>10 DEF Entries
  <2>1. tables[n] \in [Indices -> S]
    BY <1>1, <1>7 DEF TablesAre
  <2>2. set[j] = IF j = i THEN entry ELSE tables[n][j]
    BY <1>3, <1>6, <2>1
  <2> QED
    BY <1>10, <2>2
<1>13. ASSUME NEW lv, Tree(lv) PROVE Tree(lv)'
  <2>1. ASSUME NEW u \in CPUs
        PROVE  loc'[u].table \in 1..N /\ lv[loc'[u].table] = loc'[u].level
    <3>1. CASE u = t
      BY <1>1, <1>4, <1>13, <3>1, Arrives DEF LocalStep, Fitting
    <3>2. CASE u # t
      BY <1>1, <1>4, <1>13, <3>2 DEF LocalStep, OthersStay, Tree
    <3> QED
      BY <3>1, <3>2
  <2>2. ASSUME NEW m \in 1..N, NEW j \in Indices, lv[m] > 1, tables'[m][j] # 0
        PROVE  tables'[m][j] \in 1..N /\ lv[tables'[m][j]] = lv[m] - 1
    <3>1. m # n
      BY <1>11, <1>13, <2>2
    <3>2. tables'[m][j] = tables[m][j]
      BY <1>10, <3>1
    <3> QED
      BY <1>1, <1>13, <2>2, <3>2 DEF Tree
  <2>3. 1 \in 1..N /\ lv[1] = Levels
    BY <1>1, <1>13 DEF Tree
  <2> QED
    BY <1>10, <2>1, <2>2, <2>3 DEF Tree
<1>14. ASSUME NEW u \in CPUs, pc'[u] = "descend" PROVE Link(u)' # 0
  <2>1. u # t
    BY <1>4, <1>14
  <2>2. pc[u] = "descend" /\ loc'[u] = loc[u]
    BY <1>4, <1>14, <2>1 DEF LocalStep, OthersStay
  <2>3. loc[u].level > 1
    BY <2>2, OneCall DEF TypedCall, Deep
  <2>4. loc[u].table # n
    BY <1>1, <1>11, <2>3 DEF Tree, WalksOK
  <2>5. loc[u].table \in 1..N
    BY <1>1, TreeIs
  <2>6. Link(u)' = Link(u)
    BY <1>10, <2>2, <2>4, <2>5 DEF Link, Index, Page, get_pd
  <2> QED
    BY <1>1, <2>2, <2>6 DEF WalksOK
<1>15. TablesAre(T)'
  BY <1>10 DEF TablesAre
<1>16. WalksOK'
  BY <1>1, <1>13, <1>14, <1>15 DEF WalksOK
<1> QED
  BY <1>5, <1>12, <1>13, <1>16

-----------------------------------------------------------------------------
(* The scalars and the regions                                             *)

LEMMA BeginScalars ==
  ASSUME TInv, NEW t \in CPUs, UNCHANGED << slot, mswp_free, wild, entered, strayed >>,
         mmvm_lock' \in {mmvm_lock, t},
         UNCHANGED << raced, shared >> \/ \E op : NoteOverlap(t, op)
  PROVE  Scalars'
<1>1. Scalars
  BY DEF TInv
<1>2. mmvm_lock' \in CPUs \cup {NoCPU}
  BY <1>1 DEF Scalars
<1>3. raced' \in BOOLEAN /\ shared' \in BOOLEAN
  <2>1. CASE UNCHANGED << raced, shared >>
    BY <1>1, <2>1 DEF Scalars
  <2>2. CASE \E op : NoteOverlap(t, op)
    BY <2>2, Zenon DEF NoteOverlap
  <2> QED
    BY <2>1, <2>2
<1> QED
  BY <1>1, <1>2, <1>3 DEF Scalars

(* A step that leaves the lock and the histories of overlaps alone.        *)
LEMMA SameScalars ==
  ASSUME TInv, UNCHANGED << mmvm_lock, slot, raced, shared >>,
         wild' \in BOOLEAN, strayed' \in BOOLEAN, mswp_free' \in {mswp_free, Tail(mswp_free)},
         mswp_free = << >> => mswp_free' = mswp_free, entered' \subseteq Frames
  PROVE  Scalars'
<1>1. Scalars
  BY DEF TInv
<1>2. mswp_free' \in Seq(0..(NumSwp - 1))
  <2>1. PICK X : X = 0..(NumSwp - 1)
    OBVIOUS
  <2>2. mswp_free \in Seq(X)
    BY <1>1, <2>1 DEF Scalars
  <2>3. mswp_free # << >> => Tail(mswp_free) \in Seq(X)
    BY <2>2
  <2> QED
    BY <2>1, <2>2, <2>3
<1> QED
  BY <1>1, <1>2 DEF Scalars

LEMMA RegionsStay ==
  ASSUME TInv, UNCHANGED regionVars
  PROVE  RegionsWell'
<1>1. UNCHANGED << symrgtbl, vm_freerg_list, sbrk, vm_end, leaked >> /\ RegionsWell
  BY DEF regionVars, TInv
<1> QED
  BY <1>1 DEF RegionsWell, RegionsTypeOK, RegionsOrdered

LEMMA UnderlockRegions ==
  ASSUME TInv, NEW t \in CPUs, Underlock(t)
  PROVE  RegionsWell'
<1>1. CallOK(t) /\ TypedCall("lock", loc[t]) /\ pc[t] = "lock"
      /\ RegionsTypeOK /\ RegionsOrdered
  BY OneCall DEF Underlock, CallsOK, TInv, RegionsWell
<1>2. CASE loc[t].op = "alloc" /\ AllocFromFreeList(loc[t].r, loc[t].size)
  <2>1. loc[t].r \in RgIds /\ loc[t].size \in Nat
    BY <1>1, <1>2 DEF CallOK
  <2> QED
    BY <1>1, <1>2, <2>1, AllocFromFreeListTyped DEF RegionsWell
<1>3. CASE loc[t].op = "free" /\ Free(loc[t].r)
  <2>1. loc[t].r \in RgIds
    BY <1>1, <1>3 DEF CallOK
  <2> QED
    BY <1>1, <1>3, <2>1, FreeTyped DEF RegionsWell
<1>4. CASE UNCHANGED regionVars
  BY <1>4, RegionsStay
<1> QED
  BY <1>2, <1>3, <1>4 DEF Underlock

LEMMA LimitsRegions ==
  ASSUME TInv, NEW t \in CPUs, Limits(t)
  PROVE  RegionsWell'
<1>1. RegionsTypeOK /\ RegionsOrdered /\ UNCHANGED << symrgtbl, vm_freerg_list, leaked >>
  BY DEF TInv, RegionsWell, Limits, regVars
<1>2. sbrk \in Nat /\ vm_end \in Nat
  BY <1>1 DEF RegionsTypeOK
<1>3. TypedCall(pc[t], loc[t])
  BY OneCall
<1>4. sbrk' \in Nat /\ vm_end' \in Nat
  <2>1. CASE UNCHANGED limitVars
    BY <1>2, <2>1 DEF limitVars
  <2>2. CASE At(t, "store end") /\ vm_end' = loc[t].tmp + loc[t].n * PAGESZ /\ sbrk' = sbrk
    <3>1. loc[t].tmp \in Nat /\ loc[t].n \in Nat /\ PAGESZ \in Nat
      BY <1>3, <2>2, RegionsAssumption DEF TypedCall, At
    <3>2. \A a, b, c \in Nat : a + b * c \in Nat
      OBVIOUS
    <3> QED
      BY <1>2, <2>2, <3>1, <3>2
  <2>3. CASE At(t, "store brk") /\ sbrk' = loc[t].tmp + loc[t].size /\ vm_end' = vm_end
    <3>1. loc[t].tmp \in Nat /\ loc[t].size \in Nat
      BY <1>3, <2>3 DEF TypedCall, At
    <3>2. \A a, b \in Nat : a + b \in Nat
      OBVIOUS
    <3>3. loc[t].tmp + loc[t].size \in Nat
      BY <3>1, <3>2, Zenon
    <3> QED
      BY <1>2, <2>3, <3>3, Zenon
  <2> QED
    BY <2>1, <2>2, <2>3 DEF Limits
<1> QED
  BY <1>1, <1>4 DEF RegionsWell, RegionsTypeOK, RegionsOrdered

LEMMA FinishRegions ==
  ASSUME TInv, NEW t \in CPUs, Finish(t)
  PROVE  RegionsWell'
<1>1. /\ RegionsTypeOK /\ RegionsOrdered /\ CallOK(t) /\ TypedCall(pc[t], loc[t])
      /\ pc[t] = "finish"
  BY OneCall DEF TInv, RegionsWell, CallsOK, Finish, At
<1>2. UNCHANGED << vm_freerg_list, sbrk, vm_end >>
  BY DEF Finish, limitVars
<1>3. loc[t].size \in Nat /\ loc[t].brk \in Nat /\ leaked \in Nat
  BY <1>1 DEF TypedCall, RegionsTypeOK
<1>4. CASE loc[t].op = "alloc"
  <2>1. loc[t].r \in RgIds
    BY <1>1, <1>4 DEF CallOK
  <2>2. PICK rg : rg = Rg(loc[t].brk, loc[t].brk + loc[t].size)
    OBVIOUS
  <2>3. rg \in Region /\ Ordered(rg)
    BY <1>3, <2>2 DEF Rg, Region, Ordered
  <2>4. /\ symrgtbl' = [symrgtbl EXCEPT ![loc[t].r] = rg]
        /\ leaked' = leaked + Length(symrgtbl[loc[t].r])
    BY <1>4, <2>2 DEF Finish
  <2>5. symrgtbl \in [RgIds -> Region] /\ \A x \in RgIds : Ordered(symrgtbl[x])
    BY <1>1 DEF RegionsTypeOK, RegionsOrdered
  <2>6. symrgtbl' \in [RgIds -> Region] /\ \A x \in RgIds : Ordered(symrgtbl'[x])
    BY <2>3, <2>4, <2>5
  <2>7. Length(symrgtbl[loc[t].r]) \in Nat
    <3>1. symrgtbl[loc[t].r] \in Region /\ Ordered(symrgtbl[loc[t].r])
      BY <2>1, <2>5
    <3> QED
      BY <3>1 DEF Region, Ordered, Length
  <2>8. leaked' \in Nat
    BY <1>3, <2>4, <2>7
  <2> QED
    BY <1>1, <1>2, <2>6, <2>8 DEF RegionsWell, RegionsTypeOK, RegionsOrdered
<1>5. CASE loc[t].op # "alloc"
  <2>1. symrgtbl' = symrgtbl
        /\ leaked' = leaked + (IF loc[t].op = "inc" THEN loc[t].size ELSE 0)
    BY <1>5 DEF Finish
  <2>2. leaked' \in Nat
    BY <1>3, <2>1
  <2> QED
    BY <1>1, <1>2, <2>1, <2>2 DEF RegionsWell, RegionsTypeOK, RegionsOrdered
<1> QED
  BY <1>4, <1>5

-----------------------------------------------------------------------------
(* Every step                                                              *)

LEMMA TInvKept ==
  ASSUME TInv, NEW t \in CPUs, LocalStep(t),
         FInv', RegionsWell', Scalars', PagesOK', WalksOK'
  PROVE  TInv'
<1>1. Labelled'
  BY DEF LocalStep
<1> QED
  BY <1>1, CallsKept DEF TInv

(* A step that links no table and adds no page to the list.                *)
LEMMA QuietTyped ==
  ASSUME TInv, FInv', NEW t \in CPUs, LocalStep(t), UNCHANGED << tables, fifoVars >>,
         pc'[t] = "descend" => Link(t)' # 0,
         RegionsWell', Scalars'
  PROVE  TInv'
BY TInvKept, PagesKept, WalksKept

LEMMA SpecConstants ==
  /\ \A size \in Sizes : size \in Nat
  /\ \A offset \in Offsets : offset \in Nat
  /\ {"alloc", "free", "read", "write"} \subseteq Ops
<1>1. {"alloc", "free", "read", "write"} \subseteq Ops
  BY DEF Ops
<1> QED
  BY <1>1, RegionsAssumption, KernelMemAssumption

LEMMA RequestTyped ==
  ASSUME TInv, FInv', NEW t \in CPUs, NEW op \in Ops, NEW r, NEW size \in Nat,
         op = "write" => r \in RgIds, Request(t, op, r, size)
  PROVE  TInv'
<1>1. LocalStep(t) /\ pc'[t] = "lock"
  BY RequestLocal
<1>2. /\ UNCHANGED << regionVars, tables, fifoVars, mmvm_lock, slot, mswp_free, wild,
                      entered, raced, shared, strayed >>
  BY DEF Request, devVars, historyVars
<1>3. Scalars'
  BY <1>2, BeginScalars
<1> QED
  BY <1>1, <1>2, <1>3, RegionsStay, QuietTyped

LEMMA BeginTyped ==
  ASSUME TInv, FInv', NEW t \in CPUs, Begin(t)
  PROVE  TInv'
<1>1. CASE Skip(t)
  <2>1. LocalStep(t) /\ pc'[t] # "descend"
    BY <1>1, SkipLocal
  <2>2. /\ UNCHANGED << regionVars, tables, fifoVars, mmvm_lock, slot, mswp_free, wild,
                        entered, raced, shared, strayed >>
    BY <1>1 DEF Skip, devVars, historyVars
  <2> QED
    BY <2>1, <2>2, BeginScalars, RegionsStay, QuietTyped
<1>2. CASE \/ \E r \in RgIds, size \in Sizes : Request(t, "alloc", r, size)
           \/ \E r \in RgIds : Request(t, "free", r, 0)
           \/ \E offset \in Offsets :
                \/ Request(t, "read", 0, offset)
                \/ \E r \in RgIds : Request(t, "write", r, offset)
  BY <1>2, SpecConstants, RequestTyped
<1>3. CASE Underlock(t)
  <2>1. LocalStep(t) /\ pc'[t] # "descend"
    BY <1>3, UnderlockLocal
  <2>2. UNCHANGED << tables, fifoVars, mmvm_lock, slot, mswp_free, wild, entered,
                     raced, shared, strayed >>
    BY <1>3 DEF Underlock, devVars
  <2> QED
    BY <1>3, <2>1, <2>2, BeginScalars, UnderlockRegions, QuietTyped
<1>4. CASE BeginAlloc(t)
  <2>1. LocalStep(t) /\ pc'[t] # "descend"
    BY <1>4, BeginAllocLocal
  <2>2. /\ UNCHANGED << regionVars, tables, fifoVars, slot, mswp_free, wild, entered, strayed >>
        /\ mmvm_lock' = t /\ \E op : NoteOverlap(t, op)
    BY <1>4, Zenon DEF BeginAlloc, Acquire, devVars
  <2> QED
    BY <2>1, <2>2, BeginScalars, RegionsStay, QuietTyped
<1>5. CASE BeginAccess(t)
  <2>1. LocalStep(t) /\ pc'[t] # "descend"
    BY <1>5, BeginAccessLocal
  <2>2. /\ UNCHANGED << regionVars, tables, fifoVars, slot, mswp_free, wild, entered, strayed >>
        /\ mmvm_lock' = t /\ \E op : NoteOverlap(t, op)
    BY <1>5, Zenon DEF BeginAccess, Acquire, devVars
  <2> QED
    BY <2>1, <2>2, BeginScalars, RegionsStay, QuietTyped
<1>6. ASSUME NEW size \in Sizes, BeginInc(t, size) PROVE TInv'
  <2>1. LocalStep(t) /\ pc'[t] # "descend"
    BY <1>6, SpecConstants, BeginIncLocal
  <2>2. /\ UNCHANGED << regionVars, tables, fifoVars, slot, mswp_free, wild, entered,
                        strayed, mmvm_lock >>
        /\ \E op : NoteOverlap(t, op)
    BY <1>6, Zenon DEF BeginInc, devVars
  <2> QED
    BY <2>1, <2>2, BeginScalars, RegionsStay, QuietTyped
<1>7. ASSUME NEW start \in MapStarts, NEW n \in MapSizes, BeginMap(t, start, n)
      PROVE  TInv'
  <2>1. LocalStep(t) /\ pc'[t] # "descend"
    BY <1>7, BeginMapLocal
  <2>2. /\ UNCHANGED << regionVars, tables, fifoVars, slot, mswp_free, wild, entered,
                        strayed, mmvm_lock >>
        /\ \E op : NoteOverlap(t, op)
    BY <1>7, Zenon DEF BeginMap, devVars
  <2> QED
    BY <2>1, <2>2, BeginScalars, RegionsStay, QuietTyped
<1>8. CASE StrayCaller(t)
  <2>1. UNCHANGED << regionVars, tables, fifoVars, mmvm_lock, slot, mswp_free, entered,
                     raced, shared, strayed, pc, loc >>
        /\ wild' = TRUE /\ pc[t] = "idle"
    BY <1>8 DEF StrayCaller, devVars, historyVars
  <2>2. LocalStep(t) /\ pc'[t] # "descend"
    BY <2>1, Stays
  <2>3. strayed' \in BOOLEAN /\ entered' \subseteq Frames
    BY <2>1 DEF TInv, Scalars
  <2> QED
    BY <2>1, <2>2, <2>3, SameScalars, RegionsStay, QuietTyped
<1> QED
  BY <1>1, <1>2, <1>3, <1>4, <1>5, <1>6, <1>7, <1>8 DEF Begin

LEMMA LimitsTyped ==
  ASSUME TInv, FInv', NEW t \in CPUs, Limits(t)
  PROVE  TInv'
<1>1. LocalStep(t) /\ pc'[t] # "descend"
  BY LimitsLocal
<1>2. UNCHANGED << tables, fifoVars, mmvm_lock, slot, mswp_free, wild, entered,
                   raced, shared, strayed >>
  BY DEF Limits, devVars, historyVars
<1>3. wild' \in BOOLEAN /\ strayed' \in BOOLEAN /\ entered' \subseteq Frames
  BY <1>2 DEF TInv, Scalars
<1> QED
  BY <1>1, <1>2, <1>3, SameScalars, LimitsRegions, QuietTyped

LEMMA FramesTyped ==
  ASSUME TInv, FInv', NEW t \in CPUs,
         GetFrame(t) \/ PopFrame(t) \/ PutRead(t) \/ PutFrame(t)
  PROVE  TInv'
<1>1. LocalStep(t) /\ (pc'[t] = "descend" => pc[t] = "descend")
  BY FramesLocal
<1>2. pc'[t] # "descend"
  BY <1>1 DEF GetFrame, PopFrame, PutRead, PutFrame, At
<1>3. /\ UNCHANGED << regionVars, tables, fifoVars, mmvm_lock, slot, mswp_free,
                      entered, raced, shared, strayed >>
      /\ wild' \in {wild, TRUE}
  BY DEF GetFrame, PopFrame, PutRead, PutFrame, devVars, historyVars
<1>4. wild' \in BOOLEAN /\ strayed' \in BOOLEAN /\ entered' \subseteq Frames
  BY <1>3 DEF TInv, Scalars
<1> QED
  BY <1>1, <1>2, <1>3, <1>4, SameScalars, RegionsStay, QuietTyped

LEMMA WalkTyped ==
  ASSUME TInv, FInv', NEW t \in CPUs, TestLink(t) \/ LinkTable(t) \/ Descend(t)
  PROVE  TInv'
<1>1. LocalStep(t)
  BY TestLinkLocal, LinkTableLocal, DescendLocal
<1>2. UNCHANGED << regionVars, fifoVars, mmvm_lock, slot, mswp_free, wild,
                   entered, raced, shared, strayed >>
  BY DEF TestLink, LinkTable, Descend, devVars, historyVars
<1>3. wild' \in BOOLEAN /\ strayed' \in BOOLEAN /\ entered' \subseteq Frames
  BY <1>2 DEF TInv, Scalars
<1>4. WalksOK'
  <2>1. CASE TestLink(t)
    BY <2>1, TestLinkLocal, WalksKept DEF TestLink
  <2>2. CASE LinkTable(t)
    BY <2>2, LinkTableWalks
  <2>3. CASE Descend(t)
    BY <2>3, DescendLocal, WalksKept DEF Descend
  <2> QED
    BY <2>1, <2>2, <2>3
<1> QED
  BY <1>1, <1>2, <1>3, <1>4, SameScalars, RegionsStay, PagesKept, TInvKept

(* A CPU that has come to a leaf to map a page has a frame for it.         *)
LEMMA FrameInHand ==
  ASSUME TInv, NEW t \in CPUs, pc[t] = "leaf", loc[t].op \in {"alloc", "inc"}
  PROVE  loc[t].frames[1] \in Frames
<1>1. ShapeOK("leaf", loc[t])
  BY DEF TInv, FInv, ShapesOK
<1>2. Grows("leaf", loc[t]) /\ "leaf" \in Walking
  BY DEF Grows, Away, Walking
<1>3. /\ loc[t].frames \in Seq(Frames) /\ Len(loc[t].frames) = Due(loc[t])
      /\ loc[t].n \in Nat /\ loc[t].k \in Nat \ {0}
  BY <1>1, <1>2 DEF ShapeOK
<1>4. Due(loc[t]) \in Nat /\ Due(loc[t]) >= 1
  BY <1>3 DEF Due
<1>5. PICK X : X = Frames
  OBVIOUS
<1>6. loc[t].frames \in Seq(X) /\ 1 \in 1..Len(loc[t].frames)
  BY <1>3, <1>4, <1>5
<1> QED
  BY <1>5, <1>6

LEMMA SetLeafTyped ==
  ASSUME TInv, FInv', NEW t \in CPUs, SetLeaf(t)
  PROVE  TInv'
<1>1. LocalStep(t)
  BY SetLeafLocal
<1>2. UNCHANGED << regionVars, fifoVars, mmvm_lock, slot, mswp_free, wild, raced, shared,
                   strayed >>
      /\ pc[t] = "leaf"
  BY DEF SetLeaf, At, devVars
<1>3. wild' \in BOOLEAN /\ strayed' \in BOOLEAN /\ entered \subseteq Frames
  BY <1>2 DEF TInv, Scalars
<1>4. entered' \subseteq Frames
  <2>1. CASE MapPattern(t) \/ SwapVictim(t) \/ EnterPage(t)
    BY <1>3, <2>1 DEF MapPattern, SwapVictim, EnterPage
  <2>2. CASE MapFrame(t)
    <3>1. loc[t].frames[1] \in Frames
      BY <1>2, <2>2, FrameInHand DEF MapFrame
    <3> QED
      BY <1>3, <2>2, <3>1 DEF MapFrame
  <2> QED
    BY <2>1, <2>2 DEF SetLeaf
<1> QED
  BY <1>1, <1>2, <1>3, <1>4, SameScalars, RegionsStay, PagesKept, SetLeafWalks, TInvKept

LEMMA PageListTyped ==
  ASSUME TInv, FInv', NEW t \in CPUs,
         ReadFifo(t) \/ Enlist(t) \/ ReadVictim(t) \/ Unlink(t)
  PROVE  TInv'
<1>1. LocalStep(t) /\ pc'[t] # "descend"
  BY ReadFifoLocal, EnlistLocal, UnlinkLocal
<1>2. /\ UNCHANGED << regionVars, tables, mmvm_lock, slot, mswp_free, entered, raced,
                      shared, strayed >>
      /\ wild' \in {wild, TRUE}
  BY DEF ReadFifo, Enlist, ReadVictim, Unlink, devVars, historyVars
<1>3. wild' \in BOOLEAN /\ strayed' \in BOOLEAN /\ entered' \subseteq Frames
  BY <1>2 DEF TInv, Scalars
<1>4. PagesOK'
  <2>1. CASE ReadFifo(t) \/ ReadVictim(t)
    BY <1>1, <2>1, PagesKept DEF ReadFifo, ReadVictim
  <2>2. CASE Enlist(t) \/ Unlink(t)
    BY <2>2, EnlistPages, UnlinkPages
  <2> QED
    BY <2>1, <2>2
<1> QED
  BY <1>1, <1>2, <1>3, <1>4, SameScalars, RegionsStay, WalksKept, TInvKept

LEMMA FindTyped ==
  ASSUME TInv, FInv', NEW t \in CPUs, Find(t)
  PROVE  TInv'
<1>1. LocalStep(t) /\ pc'[t] # "descend"
  BY FindLocal
<1>2. UNCHANGED << regionVars, tables, fifoVars, mmvm_lock, slot, entered, raced, shared >>
  BY DEF Find, historyVars
<1>3. wild \in BOOLEAN /\ strayed \in BOOLEAN /\ entered' \subseteq Frames
  BY <1>2 DEF TInv, Scalars
<1>4. \A entry : Found(t, entry) =>
        /\ wild' \in BOOLEAN /\ strayed' \in BOOLEAN
        /\ mswp_free' \in {mswp_free, Tail(mswp_free)}
        /\ mswp_free = << >> => mswp_free' = mswp_free
  <2> TAKE entry
  <2>1. AsFrame(entry) => wild' \in BOOLEAN /\ strayed' \in BOOLEAN
    BY Zenon DEF AsFrame
  <2> QED
    BY <1>3, <2>1, Zenon DEF Found
<1>5. /\ wild' \in BOOLEAN /\ strayed' \in BOOLEAN
      /\ mswp_free' \in {mswp_free, Tail(mswp_free)}
      /\ mswp_free = << >> => mswp_free' = mswp_free
  BY <1>3, <1>4 DEF Find
<1> QED
  BY <1>1, <1>2, <1>3, <1>5, SameScalars, RegionsStay, QuietTyped

LEMMA FinishTyped ==
  ASSUME TInv, FInv', NEW t \in CPUs, Finish(t)
  PROVE  TInv'
<1>1. LocalStep(t) /\ pc'[t] # "descend"
  BY FinishLocal
<1>2. UNCHANGED << tables, fifoVars, slot, mswp_free, wild, entered, raced, shared,
                   strayed >>
  BY DEF Finish, devVars
<1>3. mmvm_lock' \in CPUs \cup {NoCPU}
  BY DEF Finish, Release, TInv, Scalars
<1>4. Scalars'
  BY <1>2, <1>3 DEF TInv, Scalars
<1> QED
  BY <1>1, <1>2, <1>4, FinishRegions, QuietTyped

LEMMA NextSlotTyped ==
  ASSUME TInv, FInv', NextSlot
  PROVE  TInv'
<1>1. /\ UNCHANGED << regionVars, tables, fifoVars, mmvm_lock, mswp_free, wild, entered,
                      raced, shared, strayed, loc >>
      /\ pc' = [t \in CPUs |-> "idle"] /\ slot < MaxSlots /\ slot' = slot + 1
      /\ \A t \in CPUs : pc[t] = "arrived"
  BY DEF NextSlot, AllArrived, devVars, historyVars
<1>2. UNCHANGED << fifo_pgn, pgn_nodes >>
  BY <1>1 DEF fifoVars
<1>3. slot' \in 1..MaxSlots
  <2>1. slot \in 1..MaxSlots /\ MaxSlots \in Nat
    BY KernelMemAssumption DEF TInv, Scalars
  <2> QED
    BY <1>1, <2>1
<1>4. Scalars'
  BY <1>1, <1>3 DEF TInv, Scalars
<1>5. Labelled' /\ "idle" \notin Top \cup Deep
  BY <1>1 DEF Labelled, Labels, Top, Deep, Early, Taking
<1>6. CallsTyped'
  <2> SUFFICES ASSUME NEW t \in CPUs PROVE TypedCall("idle", loc[t])
    BY <1>1 DEF CallsTyped, TypedCall
  <2>1. TypedCall("arrived", loc[t])
    BY <1>1 DEF TInv, CallsTyped
  <2> QED
    BY <1>5, <2>1 DEF TypedCall
<1>7. PagesOK'
  <2>1. NodesOK /\ fifo_pgn \in 0..Len(pgn_nodes) /\ \A t \in CPUs : ListOf(pc[t], loc[t])
    BY DEF TInv, PagesOK
  <2>2. \A t \in CPUs : ListOf(pc'[t], loc'[t])
    BY <1>1, <2>1 DEF ListOf
  <2> QED
    BY <1>2, <2>1, <2>2 DEF PagesOK, NodesOK, ListOf
<1>8. WalksOK'
  <2>1. \E S : TablesAre(S)'
    BY <1>1 DEF TInv, WalksOK, TablesAre
  <2>2. \E lv : Tree(lv)'
    BY <1>1 DEF TInv, WalksOK, Tree
  <2>3. \A t \in CPUs : pc'[t] # "descend"
    BY <1>1
  <2> QED
    BY <2>1, <2>2, <2>3 DEF WalksOK
<1> QED
  BY <1>1, <1>4, <1>5, <1>6, <1>7, <1>8, RegionsStay DEF TInv

LEMMA StutterTyped ==
  ASSUME TInv, FInv', UNCHANGED kvars
  PROVE  TInv'
<1>1. UNCHANGED << regionVars, tables, fifo_pgn, pgn_nodes, mmvm_lock, mswp_free, wild,
                   entered, raced, shared, strayed, loc, pc, slot >>
  BY DEF kvars, devVars, fifoVars, historyVars
<1>2. Scalars' /\ Labelled' /\ CallsTyped'
  BY <1>1 DEF TInv, Scalars, Labelled, CallsTyped, TypedCall
<1>3. PagesOK'
  BY <1>1 DEF TInv, PagesOK, NodesOK, ListOf
<1>4. WalksOK'
  <2>1. \E S : TablesAre(S)'
    BY <1>1 DEF TInv, WalksOK, TablesAre
  <2>2. \E lv : Tree(lv)'
    BY <1>1 DEF TInv, WalksOK, Tree
  <2>3. ASSUME NEW t \in CPUs, pc'[t] = "descend" PROVE Link(t)' # 0
    <3>1. Link(t)' = Link(t)
      BY <1>1 DEF Link, Index, Page, get_pd
    <3> QED
      BY <1>1, <2>3, <3>1 DEF TInv, WalksOK
  <2> QED
    BY <2>1, <2>2, <2>3 DEF WalksOK
<1> QED
  BY <1>1, <1>2, <1>3, <1>4, RegionsStay DEF TInv

LEMMA TInvStep == TInv /\ [KernelMemNext]_kvars => TInv'
<1> SUFFICES ASSUME TInv, [KernelMemNext]_kvars PROVE TInv'
  OBVIOUS
<1>1. FInv'
  BY FInvStep DEF TInv
<1>2. ASSUME NEW t \in CPUs, CPUStep(t) PROVE TInv'
  <2>1. CASE Begin(t)
    BY <1>1, <2>1, BeginTyped
  <2>2. CASE Limits(t)
    BY <1>1, <2>2, LimitsTyped
  <2>3. CASE GetFrame(t) \/ PopFrame(t) \/ PutRead(t) \/ PutFrame(t)
    BY <1>1, <2>3, FramesTyped
  <2>4. CASE TestLink(t) \/ LinkTable(t) \/ Descend(t)
    BY <1>1, <2>4, WalkTyped
  <2>5. CASE SetLeaf(t)
    BY <1>1, <2>5, SetLeafTyped
  <2>6. CASE ReadFifo(t) \/ Enlist(t) \/ ReadVictim(t) \/ Unlink(t)
    BY <1>1, <2>6, PageListTyped
  <2>7. CASE Find(t)
    BY <1>1, <2>7, FindTyped
  <2>8. CASE Finish(t)
    BY <1>1, <2>8, FinishTyped
  <2> QED
    BY <1>2, <2>1, <2>2, <2>3, <2>4, <2>5, <2>6, <2>7, <2>8 DEF CPUStep
<1> QED
  BY <1>1, <1>2, NextSlotTyped, StutterTyped DEF KernelMemNext, Step, Ended

LEMMA TInvInit == KernelMemInit => TInv
<1> SUFFICES ASSUME KernelMemInit PROVE TInv
  OBVIOUS
<1>1. /\ pc = [t \in CPUs |-> "idle"] /\ loc = [t \in CPUs |-> NoCall]
      /\ slot = 1 /\ mmvm_lock = NoCPU /\ wild = FALSE /\ raced = FALSE
      /\ shared = FALSE /\ strayed = FALSE /\ entered = {} /\ fifo_pgn = 0 /\ pgn_nodes = << >>
      /\ mswp_free = [n \in 1..NumSwp |-> n - 1]
      /\ tables = << NewTable(Levels) >>
  BY DEF KernelMemInit, PageTableInit
<1>2. NumSwp \in Nat /\ NumSwp > 1 /\ MaxSlots \in Nat \ {0}
  BY KernelMemAssumption
<1>3. RegionsWell
  BY InitInvariant DEF KernelMemInit, RInv, RegionsWell
<1>4. Scalars
  <2>1. mswp_free \in Seq(0..(NumSwp - 1))
    BY <1>1, <1>2
  <2>2. slot \in 1..MaxSlots
    BY <1>1, <1>2
  <2> QED
    BY <1>1, <2>1, <2>2 DEF Scalars
<1>5. Labelled /\ "idle" \notin Top \cup Deep
  BY <1>1 DEF Labelled, Labels, Top, Deep, Early, Taking
<1>6. /\ NoCall.op \in Ops /\ NoCall.size \in Nat /\ NoCall.n \in Nat
      /\ NoCall.brk \in Nat /\ NoCall.page \in Nat /\ NoCall.want \in Nat
      /\ NoCall.k \in Nat \ {0} /\ NoCall.list = 0
      /\ NoCall.level = Levels /\ NoCall.table = 1
  BY DEF NoCall, Ops
<1>7. CallsTyped
  BY <1>1, <1>5, <1>6, LevelsAre DEF CallsTyped, TypedCall
<1>8. PagesOK
  <2>1. << >> \in Seq(Node) /\ Len(<< >>) = 0 /\ 0 \in 0..0 /\ DOMAIN << >> = {}
    OBVIOUS
  <2> QED
    BY <1>1, <1>6, <2>1 DEF PagesOK, NodesOK, ListOf
<1>9. Levels # 1
  BY LevelsAre
<1>10. PICK top : top = NewTable(Levels)
  OBVIOUS
<1>11. tables = << top >> /\ top \in [Indices -> {0}]
  BY <1>1, <1>9, <1>10 DEF NewTable
<1>12. WalksOK
  <2>1. TablesAre({0})
    BY <1>11 DEF TablesAre
  <2>2. DOMAIN tables = {1} /\ tables[1] = top
    BY <1>11
  <2>3. PICK lv : lv = [n \in {1} |-> Levels]
    OBVIOUS
  <2>4. Tree(lv)
    BY <1>1, <1>6, <1>11, <2>2, <2>3 DEF Tree
  <2>5. \A t \in CPUs : pc[t] # "descend"
    BY <1>1
  <2> QED
    BY <2>1, <2>4, <2>5 DEF WalksOK
<1> QED
  BY <1>3, <1>4, <1>5, <1>7, <1>8, <1>12, FInvInit DEF TInv

-----------------------------------------------------------------------------
(* The entries of the tables                                               *)

(* The frame of a page in the RAM was entered.                             *)
Honest(entry) ==
  /\ entry.num \in Nat
  /\ ~strayed /\ Resides(entry) => Mem!PAGING_FPN(entry) \in entered

Leaves(lv) ==
  \A n \in DOMAIN tables, i \in Indices : lv[n] = 1 => Honest(tables[n][i])

(* A fault that walks to the leaves it will write has its victim's frame.  *)
Carried(label, call) ==
  /\ call.swp # NoFrame => call.swp \in Nat
  /\ label \in Walking /\ call.op = "access" =>
       call.fpn \in Nat /\ (~strayed => call.fpn \in entered)

EntriesOK ==
  /\ \E lv : Tree(lv) /\ Leaves(lv)
  /\ \A t \in CPUs : Carried(pc[t], loc[t])

EInv == TInv /\ EntriesOK

(* The histories only grow.                                                *)
Grew == entered \subseteq entered' /\ (strayed => strayed')

LEMMA FrameField ==
  ASSUME NEW entry, entry.num \in Nat, NEW f \in Nat
  PROVE  /\ Mem!PAGING_FPN(entry) \in Nat
         /\ Mem!FpnEntry(entry, f).num \in Nat
         /\ f \in Frames => Mem!PAGING_FPN(Mem!FpnEntry(entry, f)) = f
<1>1. PICK R \in Nat \ {0} : R = FpnRange /\ NumRam <= R /\ NumRam \in Nat
  BY KernelMemAssumption
<1>2. PICK num \in Nat : num = entry.num
  OBVIOUS
<1>3. PICK g : g = f % R
  OBVIOUS
<1>4. g \in Nat /\ g < R /\ (f < R => g = f)
  BY <1>1, <1>3
<1>5. num % R \in Nat
  BY <1>1
<1>6. num - (num % R) + g \in Nat /\ (num - (num % R) + g) % R = g
  BY <1>1, <1>4
<1>7. f \in Frames => f < R
  BY <1>1 DEF Frames
<1> QED
  BY <1>1, <1>2, <1>3, <1>4, <1>5, <1>6, <1>7 DEF Mem!FpnEntry, Mem!PAGING_FPN

LEMMA LeavesKept ==
  ASSUME Grew, NEW lv, NEW up, NEW entry, Leaves(lv), Entries(lv, up, entry),
         Honest(entry)'
  PROVE  Leaves(up)'
<1> SUFFICES ASSUME NEW n \in DOMAIN tables', NEW i \in Indices, up[n] = 1
             PROVE  Honest(tables[n][i])'
  BY DEF Leaves
<1>1. CASE tables'[n][i] = entry
  BY <1>1 DEF Honest, Resides, Mem!PAGING_FPN
<1>2. CASE n \in DOMAIN tables /\ lv[n] = 1 /\ tables'[n][i] = tables[n][i]
  <2>1. Honest(tables[n][i])
    BY <1>2 DEF Leaves
  <2> QED
    BY <1>2, <2>1 DEF Honest, Grew, Resides, Mem!PAGING_FPN
<1> QED
  BY <1>1, <1>2 DEF Entries

LEMMA ZeroHonest == Honest(ZeroEntry) /\ Honest(ZeroEntry)'
BY DEF Honest, ZeroEntry, Resides

(* The CPUs but t carry what they carried.                                 *)
LEMMA OthersCarry ==
  ASSUME EInv, NEW t \in CPUs, LocalStep(t), Grew, Carried(pc[t], loc[t])'
  PROVE  \A u \in CPUs : Carried(pc[u], loc[u])'
<1> SUFFICES ASSUME NEW u \in CPUs PROVE Carried(pc[u], loc[u])'
  OBVIOUS
<1>1. CASE u # t
  <2>1. Carried(pc[u], loc[u]) /\ pc'[u] = pc[u] /\ loc'[u] = loc[u]
    BY <1>1 DEF EInv, EntriesOK, LocalStep, OthersStay
  <2> QED
    BY <2>1 DEF Carried, Grew
<1> QED
  BY <1>1

(* A step of t that sets no leaf.                                          *)
LEMMA EntriesStay ==
  ASSUME EInv, NEW t \in CPUs, LocalStep(t), UNCHANGED tables, Grew,
         Carried(pc[t], loc[t])'
  PROVE  EntriesOK'
<1>1. PICK lv : Tree(lv) /\ Leaves(lv)
  BY DEF EInv, EntriesOK
<1>2. Tree(lv)'
  BY <1>1, TreeKept DEF EInv
<1>3. Leaves(lv)'
  <2>1. Entries(lv, lv, ZeroEntry)
    BY DEF Entries
  <2> QED
    BY <1>1, <2>1, LeavesKept, ZeroHonest
<1> QED
  BY <1>2, <1>3, OthersCarry DEF EntriesOK

(* A step on which t takes up no frame.                                    *)
LEMMA CarriesOn ==
  ASSUME EInv, NEW t \in CPUs, Grew, loc'[t].swp \in {loc[t].swp, NoFrame},
         pc'[t] \in Walking /\ loc'[t].op = "access" =>
           pc[t] \in Walking /\ loc[t].op = "access" /\ loc'[t].fpn = loc[t].fpn
  PROVE  Carried(pc[t], loc[t])'
<1>1. Carried(pc[t], loc[t])
  BY DEF EInv, EntriesOK
<1> QED
  BY <1>1 DEF Carried, Grew

LEMMA BeginCarries ==
  ASSUME EInv, NEW t \in CPUs, Begin(t)
  PROVE  Carried(pc[t], loc[t])' /\ Grew /\ UNCHANGED tables
<1>1. TInv /\ CallsOK /\ DOMAIN loc[t] = Fields /\ DOMAIN pc = CPUs /\ DOMAIN loc = CPUs
  BY OneCall DEF EInv, CallsOK
<1>2. UNCHANGED << tables, entered, strayed >>
  BY DEF Begin, Skip, Request, Underlock, BeginAlloc, BeginAccess, BeginInc, BeginMap,
         StrayCaller, historyVars
<1>3. Grew
  BY <1>2 DEF Grew
<1>4. NoCall.swp = NoFrame
  BY DEF NoCall
<1>5. /\ "arrived" \notin Walking /\ "lock" \notin Walking /\ "end" \notin Walking
      /\ "find page" \notin Walking /\ "idle" \notin Walking
  BY DEF Walking
<1>6. CASE Skip(t) \/ StrayCaller(t)
  <2>1. loc' = loc /\ pc'[t] \in {"arrived", "idle"}
    BY <1>1, <1>6 DEF Skip, StrayCaller, Goto
  <2> QED
    BY <1>2, <1>3, <1>5, <2>1, CarriesOn
<1>7. ASSUME NEW op, NEW r, NEW size, Request(t, op, r, size)
      PROVE  Carried(pc[t], loc[t])'
  <2>1. pc'[t] = "lock" /\ loc'[t].swp = NoFrame
    BY <1>1, <1>7 DEF Request, Goto, Set, NoCall
  <2> QED
    BY <1>3, <1>5, <2>1, CarriesOn
<1>8. CASE Underlock(t)
  <2>1. pc'[t] = "arrived" /\ loc'[t] = NoCall
    BY <1>1, <1>8 DEF Underlock, Goto, Set
  <2> QED
    BY <1>2, <1>3, <1>4, <1>5, <2>1, CarriesOn
<1>9. CASE BeginAlloc(t)
  <2>1. pc'[t] = "end"
    BY <1>1, <1>9 DEF BeginAlloc, Goto
  <2>2. loc'[t].swp = loc[t].swp
    BY <1>1, <1>9 DEF BeginAlloc, Set, Fields
  <2> QED
    BY <1>2, <1>3, <1>5, <2>1, <2>2, CarriesOn
<1>10. CASE BeginAccess(t)
  <2>1. pc'[t] = "find page"
    BY <1>1, <1>10 DEF BeginAccess, Goto
  <2>2. \E page : loc' = [loc EXCEPT ![t] =
                    [NoCall EXCEPT !.op = "access", !.want = page, !.page = page]]
    BY <1>10, Zenon DEF BeginAccess, Set
  <2>3. loc'[t].swp = NoFrame
    BY <1>1, <2>2 DEF NoCall
  <2> QED
    BY <1>2, <1>3, <1>5, <2>1, <2>3, CarriesOn
<1>11. ASSUME NEW size, BeginInc(t, size) PROVE Carried(pc[t], loc[t])'
  <2>1. pc'[t] = "end" /\ loc'[t].swp = NoFrame
    BY <1>1, <1>11 DEF BeginInc, Goto, Set, NoCall
  <2> QED
    BY <1>3, <1>5, <2>1, CarriesOn
<1>12. ASSUME NEW start, NEW n, BeginMap(t, start, n) PROVE Carried(pc[t], loc[t])'
  <2>1. loc'[t].op = "map" /\ loc'[t].swp = NoFrame
    BY <1>1, <1>12 DEF BeginMap, Set, NoCall
  <2> QED
    BY <1>3, <2>1, CarriesOn
<1> QED
  BY <1>2, <1>3, <1>6, <1>7, <1>8, <1>9, <1>10, <1>11, <1>12 DEF Begin

LEMMA GrowthCarries ==
  ASSUME EInv, NEW t \in CPUs,
         Limits(t) \/ GetFrame(t) \/ PopFrame(t) \/ PutRead(t) \/ PutFrame(t)
  PROVE  Carried(pc[t], loc[t])' /\ Grew /\ UNCHANGED tables
<1>1. TInv /\ DOMAIN loc[t] = Fields /\ DOMAIN pc = CPUs /\ DOMAIN loc = CPUs
      /\ ShapeOK(pc[t], loc[t])
  BY OneCall DEF EInv, CallsOK, TInv, FInv, ShapesOK
<1>2. UNCHANGED << tables, entered, strayed >>
  BY DEF Limits, GetFrame, PopFrame, PutRead, PutFrame, historyVars
<1>3. Grew
  BY <1>2 DEF Grew
<1>4. loc'[t].swp = loc[t].swp /\ loc'[t].op = loc[t].op
  <2>1. CASE Limits(t)
    BY <1>1, <2>1 DEF Limits, Set, Fields
  <2>2. CASE GetFrame(t) \/ PutRead(t)
    BY <1>1, <2>2 DEF GetFrame, PutRead, Set, Fields
  <2>3. CASE PopFrame(t)
    BY <1>1, <2>3 DEF PopFrame, Set, Fields
  <2>4. CASE PutFrame(t)
    BY <1>1, <2>4 DEF PutFrame, Set, Fields
  <2> QED
    BY <2>1, <2>2, <2>3, <2>4
<1>5. loc[t].op # "access"
  <2>1. pc[t] \in Early \cup Taking \cup Giving
    BY DEF Limits, GetFrame, PopFrame, PutRead, PutFrame, At, Early, Taking, Giving
  <2> QED
    BY <1>1, <2>1 DEF ShapeOK, Grows
<1> QED
  BY <1>2, <1>3, <1>4, <1>5, CarriesOn

LEMMA PlainCarries ==
  ASSUME EInv, NEW t \in CPUs,
         TestLink(t) \/ LinkTable(t) \/ Descend(t)
           \/ ReadFifo(t) \/ Enlist(t) \/ ReadVictim(t) \/ Unlink(t) \/ Finish(t)
  PROVE  Carried(pc[t], loc[t])' /\ Grew
<1>1. TInv /\ DOMAIN loc[t] = Fields /\ DOMAIN pc = CPUs /\ DOMAIN loc = CPUs
  BY OneCall DEF EInv, CallsOK
<1>2. UNCHANGED << entered, strayed >>
  BY DEF TestLink, LinkTable, Descend, ReadFifo, Enlist, ReadVictim, Unlink, Finish,
         historyVars
<1>3. Grew
  BY <1>2 DEF Grew
<1>4. {"test", "link", "descend", "leaf"} = Walking
      /\ {"enlist", "unlink", "finish", "arrived", "find frame", "find victim"}
           \cap Walking = {}
  BY DEF Walking
<1>5. CASE TestLink(t) \/ LinkTable(t)
  BY <1>3, <1>4, <1>5, CarriesOn DEF TestLink, LinkTable, At
<1>6. CASE Descend(t)
  <2>1. loc'[t].swp = loc[t].swp /\ loc'[t].op = loc[t].op /\ loc'[t].fpn = loc[t].fpn
    BY <1>1, <1>6 DEF Descend, Set, Fields
  <2> QED
    BY <1>3, <1>4, <1>6, <2>1, CarriesOn DEF Descend, At
<1>7. CASE ReadFifo(t) \/ ReadVictim(t)
  <2>1. loc'[t].swp = loc[t].swp
    BY <1>1, <1>7 DEF ReadFifo, ReadVictim, Set, Fields
  <2>2. pc'[t] \in {"enlist", "unlink", "finish"}
    BY <1>1, <1>7 DEF ReadFifo, ReadVictim, Goto
  <2> QED
    BY <1>3, <1>4, <2>1, <2>2, CarriesOn
<1>8. CASE Enlist(t)
  <2>1. CASE loc[t].op = "access"
    <3>1. pc'[t] = "find frame" /\ loc'[t] = StartWalk(t, loc[t].want)
      BY <1>1, <1>8, <2>1 DEF Enlist, Set, Goto
    <3>2. loc'[t].swp = loc[t].swp
      BY <1>1, <3>1 DEF StartWalk, Fields
    <3> QED
      BY <1>3, <1>4, <3>1, <3>2, CarriesOn
  <2>2. CASE loc[t].op # "access"
    <3>1. loc'[t].swp = loc[t].swp /\ loc'[t].op = loc[t].op
      BY <1>1, <1>8, <2>2 DEF Enlist, NextPage, Set, Fields
    <3> QED
      BY <1>3, <2>2, <3>1, CarriesOn
  <2> QED
    BY <2>1, <2>2
<1>9. CASE Unlink(t)
  <2>1. CASE pc' = pc /\ loc' = loc
    BY <1>3, <1>4, <1>9, <2>1, CarriesOn DEF Unlink, At
  <2>2. CASE \E p : Set(t, StartWalk(t, p)) /\ Goto(t, "find victim")
    <3>1. pc'[t] = "find victim" /\ \E p : loc'[t] = StartWalk(t, p)
      BY <1>1, <2>2 DEF Set, Goto
    <3>2. loc'[t].swp = loc[t].swp
      BY <1>1, <3>1 DEF StartWalk, Fields
    <3> QED
      BY <1>3, <1>4, <3>1, <3>2, CarriesOn
  <2> QED
    BY <1>9, <2>1, <2>2, Zenon DEF Unlink
<1>10. CASE Finish(t)
  <2>1. pc'[t] = "arrived" /\ loc'[t].swp = NoFrame
    BY <1>1, <1>10 DEF Finish, Set, Goto, NoCall
  <2> QED
    BY <1>3, <1>4, <2>1, CarriesOn
<1> QED
  BY <1>3, <1>5, <1>6, <1>7, <1>8, <1>9, <1>10

(* What a walk reads at its leaf.                                          *)
LEMMA LeafHonest ==
  ASSUME EInv, NEW t \in CPUs, loc[t].level = 1
  PROVE  Honest(Link(t))
<1>1. PICK lv : Tree(lv) /\ Leaves(lv)
  BY DEF EInv, EntriesOK
<1>2. loc[t].table \in DOMAIN tables /\ lv[loc[t].table] = 1
  BY <1>1 DEF Tree
<1>3. Index(t) \in Indices
  BY IndexOfWalk DEF EInv
<1> QED
  BY <1>1, <1>2, <1>3 DEF Leaves, Link

LEMMA FirstIs ==
  ASSUME NEW X, NEW s \in Seq(X), s # << >>
  PROVE  Head(s) \in X
<1>1. Len(s) \in Nat \ {0} /\ Head(s) = s[1]
  OBVIOUS
<1> QED
  BY <1>1

LEMMA FindEntries ==
  ASSUME EInv, NEW t \in CPUs, Find(t)
  PROVE  EntriesOK'
<1>1. /\ TInv /\ LocalStep(t) /\ DOMAIN loc[t] = Fields
      /\ DOMAIN pc = CPUs /\ DOMAIN loc = CPUs
  BY OneCall, FindLocal DEF EInv, CallsOK
<1>2. UNCHANGED << tables, entered >> /\ pc[t] \notin Walking
  BY DEF Find, Walking
<1>3. Carried(pc[t], loc[t]) /\ mswp_free \in Seq(0..(NumSwp - 1))
  BY <1>1 DEF EInv, EntriesOK, TInv, Scalars
<1>4. {"find frame", "victim", "finish"} \cap Walking = {}
  BY DEF Walking
<1>5. ASSUME NEW entry, Found(t, entry), Honest(entry)
      PROVE  Carried(pc[t], loc[t])' /\ Grew
  <2>1. AsFrame(entry) => Grew
    BY <1>2, Zenon DEF AsFrame, Grew
  <2>2. UNCHANGED strayed => Grew
    BY <1>2 DEF Grew
  <2>3. CASE pc[t] = "find page"
    <3>1. pc'[t] \in {"find frame", "victim"} /\ loc'[t] = StartWalk(t, loc[t].want)
          /\ strayed' = strayed
      BY <1>1, <1>5, <2>3 DEF Found, Goto, Set
    <3>2. loc'[t].swp = loc[t].swp
      BY <1>1, <3>1 DEF StartWalk, Fields
    <3> QED
      BY <1>4, <2>2, <3>1, <3>2, CarriesOn
  <2>4. CASE pc[t] = "find victim" /\ mswp_free = << >>
    <3>1. pc'[t] = "finish" /\ loc' = loc /\ strayed' = strayed
      BY <1>1, <1>5, <2>4 DEF Found, Goto
    <3> QED
      BY <1>4, <2>2, <3>1, CarriesOn
  <2>5. CASE pc[t] = "find victim" /\ mswp_free # << >>
    <3>1. AsFrame(entry)
          /\ Set(t, [StartWalk(t, Page(t)) EXCEPT !.swp = Head(mswp_free),
                         !.fpn = Mem!PAGING_FPN(entry)])
      BY <1>5, <2>5 DEF Found
    <3>2. loc'[t].swp = Head(mswp_free) /\ loc'[t].fpn = Mem!PAGING_FPN(entry)
      BY <1>1, <3>1 DEF Set, StartWalk, Fields
    <3>3. Head(mswp_free) \in Nat
      <4>1. PICK X : X = 0..(NumSwp - 1)
        OBVIOUS
      <4>2. mswp_free \in Seq(X)
        BY <1>3, <4>1
      <4>3. Head(mswp_free) \in X
        BY <2>5, <4>2, FirstIs
      <4> QED
        BY <4>1, <4>3
    <3>4. Mem!PAGING_FPN(entry) \in Nat
      BY <1>5, FrameField DEF Honest
    <3>5. ~strayed' => ~strayed /\ Resides(entry)
      BY <3>1 DEF AsFrame
    <3>6. ~strayed' => Mem!PAGING_FPN(entry) \in entered'
      BY <1>2, <1>5, <3>5 DEF Honest
    <3> QED
      BY <2>1, <3>1, <3>2, <3>3, <3>4, <3>6 DEF Carried
  <2>6. CASE pc[t] = "find frame"
    <3>1. pc'[t] = "finish" /\ loc' = loc /\ AsFrame(entry)
      BY <1>1, <1>5, <2>6 DEF Found, Goto
    <3> QED
      BY <1>4, <2>1, <3>1, CarriesOn
  <2> QED
    BY <1>5, <2>3, <2>4, <2>5, <2>6 DEF Found
<1>6. CASE loc[t].level = 1 /\ Found(t, Link(t))
  BY <1>1, <1>2, <1>5, <1>6, LeafHonest, EntriesStay
<1>7. CASE Found(t, ZeroEntry)
  BY <1>1, <1>2, <1>5, <1>7, ZeroHonest, EntriesStay
<1>8. CASE /\ Set(t, [loc[t] EXCEPT !.table = Link(t), !.level = @ - 1])
           /\ UNCHANGED << pc, mswp_free, wild, strayed >>
  <2>1. Grew
    BY <1>2, <1>8 DEF Grew
  <2>2. loc'[t].swp = loc[t].swp /\ pc'[t] \notin Walking
    BY <1>1, <1>2, <1>8 DEF Set, Fields
  <2>3. Carried(pc[t], loc[t])'
    BY <2>1, <2>2, CarriesOn
  <2> QED
    BY <1>1, <1>2, <2>1, <2>3, EntriesStay
<1> QED
  BY <1>6, <1>7, <1>8 DEF Find

LEMMA LinkTableEntries ==
  ASSUME EInv, NEW t \in CPUs, LinkTable(t)
  PROVE  EntriesOK'
<1>1. PICK lv : Tree(lv) /\ Leaves(lv)
  BY DEF EInv, EntriesOK
<1>2. PICK up : Tree(up)' /\ Entries(lv, up, ZeroEntry)
  BY <1>1, LinkTableWalks DEF EInv
<1>3. LocalStep(t) /\ Carried(pc[t], loc[t])' /\ Grew
  BY LinkTableLocal, PlainCarries DEF EInv
<1>4. Leaves(up)'
  BY <1>1, <1>2, <1>3, LeavesKept, ZeroHonest
<1> QED
  BY <1>2, <1>3, <1>4, OthersCarry DEF EntriesOK

LEMMA SetLeafEntries ==
  ASSUME EInv, NEW t \in CPUs, SetLeaf(t)
  PROVE  EntriesOK'
<1>1. PICK lv : Tree(lv) /\ Leaves(lv)
  BY DEF EInv, EntriesOK
<1>2. PICK entry : Written(t, entry) /\ Tree(lv)' /\ Entries(lv, lv, entry)
  BY <1>1, SetLeafWalks DEF EInv
<1>3. /\ TInv /\ LocalStep(t) /\ loc[t].level = 1 /\ DOMAIN loc[t] = Fields
      /\ DOMAIN pc = CPUs /\ DOMAIN loc = CPUs
      /\ pc[t] = "leaf" /\ "leaf" \in Walking
  BY OneCall, SetLeafLocal DEF EInv, CallsOK, SetLeaf, At, Walking
<1>4. Honest(Link(t)) /\ Carried("leaf", loc[t])
  BY <1>3, LeafHonest DEF EInv, EntriesOK
<1>5. Grew
  BY <1>2 DEF Written, Grew
<1>6. Honest(entry)'
  <2>1. CASE entry = Mem!PatternEntry
    BY <2>1, KernelMemAssumption DEF Mem!PatternEntry, Honest, Resides
  <2>2. CASE /\ loc[t].op \in {"alloc", "inc"}
             /\ entry = Mem!FpnEntry(Link(t), loc[t].frames[1])
             /\ entered' = entered \cup {loc[t].frames[1]}
    <3>1. PICK f \in Frames : f = loc[t].frames[1]
      BY <1>3, <2>2, FrameInHand
    <3>2. f \in Nat
      BY DEF Frames
    <3>3. entry.num \in Nat /\ Mem!PAGING_FPN(entry) = f
      BY <1>4, <2>2, <3>1, <3>2, FrameField DEF Honest
    <3> QED
      BY <2>2, <3>1, <3>3 DEF Honest, Mem!PAGING_FPN, Resides
  <2>3. CASE loc[t].swp # NoFrame /\ entry = Mem!SwapEntry(loc[t].swp)
    <3>1. PICK a \in Nat, b \in Nat : a = loc[t].swp /\ b = SwpShift
      BY <1>4, <2>3, KernelMemAssumption DEF Carried
    <3>2. a * b \in Nat
      OBVIOUS
    <3> QED
      BY <2>3, <3>1, <3>2 DEF Mem!SwapEntry, Honest, Resides
  <2>4. CASE /\ loc[t].op = "access"
             /\ entry = Mem!FpnEntry(Link(t), loc[t].fpn) /\ entered' = entered
             /\ strayed' = strayed
    <3>1. PICK f \in Nat : f = loc[t].fpn /\ (~strayed => f \in entered)
      BY <1>3, <1>4, <2>4 DEF Carried
    <3>2. ~strayed => f \in Frames
      BY <1>3, <3>1 DEF TInv, Scalars
    <3>3. entry.num \in Nat /\ (~strayed => Mem!PAGING_FPN(entry) = f)
      BY <1>4, <2>4, <3>1, <3>2, FrameField DEF Honest
    <3> QED
      BY <2>4, <3>1, <3>3 DEF Honest, Mem!PAGING_FPN, Resides
  <2> QED
    BY <1>2, <2>1, <2>2, <2>3, <2>4 DEF Written
<1>7. Leaves(lv)'
  BY <1>1, <1>2, <1>5, <1>6, LeavesKept
<1>8. Carried(pc[t], loc[t])'
  <2>1. /\ loc'[t].swp \in {loc[t].swp, NoFrame} /\ loc'[t].op = loc[t].op
        /\ loc'[t].fpn = loc[t].fpn
    <3>1. CASE MapPattern(t)
      BY <1>3, <3>1 DEF MapPattern, NextPage, Set, Fields
    <3>2. CASE MapFrame(t)
      BY <1>3, <3>2 DEF MapFrame, Set, Fields
    <3>3. CASE SwapVictim(t)
      BY <1>3, <3>3 DEF SwapVictim, StartWalk, Set, Fields
    <3>4. CASE EnterPage(t)
      BY <3>4 DEF EnterPage
    <3> QED
      BY <3>1, <3>2, <3>3, <3>4 DEF SetLeaf
  <2> QED
    BY <1>3, <1>5, <2>1, CarriesOn
<1> QED
  BY <1>2, <1>3, <1>5, <1>7, <1>8, OthersCarry DEF EntriesOK

(* pte_walk ends at an entry of a table of the last level, or early.       *)
LEMMA WalkIs ==
  ASSUME NEW lv, Tree(lv), NEW p \in Nat
  PROVE  \/ pte_walk(p) = ZeroEntry
         \/ \E n \in DOMAIN tables, i \in Indices :
              lv[n] = 1 /\ pte_walk(p) = tables[n][i]
<1> DEFINE Next(f, l) == IF l = Levels THEN 1
                         ELSE IF f[l + 1] = 0 THEN 0
                         ELSE tables[f[l + 1]][get_pd(p, l + 1)]
           From(f, k) == \A l \in k..Levels : f[l] = Next(f, l)
           None == {d \in 0..(Levels - 1) : ~\E f : From(f, Levels - d)}
           Rec(f) == f = [l \in 1..Levels |->
                            IF l = Levels THEN 1
                            ELSE IF f[l + 1] = 0 THEN 0
                            ELSE tables[f[l + 1]][get_pd(p, l + 1)]]
<1>1. Levels \in Nat /\ Levels > 1
  BY LevelsAre
<1>2. None = {}
  <2> SUFFICES ASSUME None # {} PROVE FALSE
    OBVIOUS
  <2>1. PICK d \in None : \A y \in None : d <= y
    <3>1. None \in SUBSET Nat
      BY <1>1
    <3> HIDE DEF None
    <3> QED
      BY <3>1, LeastElement
  <2>2. PICK k \in 1..Levels : k = Levels - d
    BY <1>1, <2>1
  <2>3. \E f : From(f, k)
    <3>1. CASE d = 0
      <4>1. PICK f : f = [l \in {Levels} |-> 1]
        OBVIOUS
      <4>2. k..Levels = {Levels} /\ f[Levels] = 1
        BY <1>1, <2>2, <3>1, <4>1
      <4>3. From(f, k)
        BY <4>2
      <4> QED
        BY <4>3
    <3>2. CASE d # 0
      <4>1. d - 1 \in 0..(Levels - 1) /\ ~(d <= d - 1) /\ Levels - (d - 1) = k + 1
            /\ k # Levels
        BY <1>1, <2>1, <2>2, <3>2
      <4>2. \E f : From(f, Levels - (d - 1))
        BY <2>1, <4>1
      <4>3. PICK f : From(f, k + 1)
        BY <4>1, <4>2
      <4>4. PICK v : v = Next(f, k)
        OBVIOUS
      <4>5. PICK g : g = [l \in k..Levels |-> IF l = k THEN v ELSE f[l]]
        OBVIOUS
      <4>6. From(g, k)
        <5> SUFFICES ASSUME NEW l \in k..Levels PROVE g[l] = Next(g, l)
          OBVIOUS
        <5>1. l # Levels => l + 1 \in k..Levels /\ l + 1 # k /\ g[l + 1] = f[l + 1]
          BY <1>1, <4>5
        <5>2. Next(g, l) = Next(f, l)
          BY <5>1
        <5>3. CASE l = k
          BY <4>4, <4>5, <5>2, <5>3
        <5>4. CASE l # k
          <6>1. l \in (k + 1)..Levels /\ g[l] = f[l]
            BY <1>1, <4>5, <5>4
          <6> QED
            BY <4>3, <5>2, <6>1
        <5> QED
          BY <5>3, <5>4
      <4> QED
        BY <4>6
    <3> QED
      BY <3>1, <3>2
  <2> QED
    BY <2>1, <2>2, <2>3
<1>3. \E f : Rec(f)
  <2>1. Levels - 1 \in 0..(Levels - 1) /\ Levels - (Levels - 1) = 1
    BY <1>1
  <2>2. PICK f : From(f, 1)
    BY <1>2, <2>1
  <2>3. PICK g : g = [l \in 1..Levels |-> f[l]]
    OBVIOUS
  <2>4. \A l \in 1..Levels : f[l] = Next(g, l)
    BY <1>1, <2>2, <2>3
  <2>5. g = [l \in 1..Levels |-> Next(g, l)]
    BY <2>3, <2>4
  <2> QED
    BY <2>5
<1> DEFINE C == CHOOSE f : Rec(f)
<1>4. /\ Rec(C)
      /\ pte_walk(p) = IF C[1] = 0 THEN ZeroEntry ELSE tables[C[1]][get_pd(p, 1)]
  <2>1. pte_walk(p) = IF C[1] = 0 THEN ZeroEntry ELSE tables[C[1]][get_pd(p, 1)]
    BY Zenon DEF pte_walk
  <2> HIDE DEF Rec
  <2>2. Rec(C)
    BY <1>3, Zenon
  <2> QED
    BY <2>1, <2>2
<1> HIDE DEF C
<1>5. \A l \in 1..Levels : C[l] = Next(C, l)
  BY <1>4
<1> DEFINE At0(l) == C[l] = 0 \/ (C[l] \in DOMAIN tables /\ lv[C[l]] = l)
           Wrong == {d \in 0..(Levels - 1) : ~At0(Levels - d)}
<1>6. Wrong = {}
  <2> SUFFICES ASSUME Wrong # {} PROVE FALSE
    OBVIOUS
  <2>1. PICK d \in Wrong : \A y \in Wrong : d <= y
    <3>1. Wrong \in SUBSET Nat
      BY <1>1
    <3> HIDE DEF Wrong
    <3> QED
      BY <3>1, LeastElement
  <2>2. PICK l \in 1..Levels : l = Levels - d
    BY <1>1, <2>1
  <2>3. ~At0(l)
    BY <2>1, <2>2
  <2>4. l # Levels
    BY <1>5, <2>2, <2>3 DEF Tree
  <2>5. d - 1 \in 0..(Levels - 1) /\ ~(d <= d - 1) /\ Levels - (d - 1) = l + 1
        /\ l + 1 \in 1..Levels /\ l + 1 > 1
    BY <1>1, <2>1, <2>2, <2>4
  <2>6. At0(l + 1)
    <3>1. At0(Levels - (d - 1))
      BY <2>1, <2>5
    <3> QED
      BY <2>5, <3>1
  <2>7. C[l + 1] # 0 /\ C[l] = tables[C[l + 1]][get_pd(p, l + 1)]
    BY <1>5, <2>3, <2>4
  <2>8. get_pd(p, l + 1) \in Indices
    BY <2>5, IndexIs
  <2>9. C[l] \in DOMAIN tables /\ lv[C[l]] = l + 1 - 1
    BY <2>3, <2>5, <2>6, <2>7, <2>8 DEF Tree
  <2> QED
    BY <2>2, <2>3, <2>9
<1>7. At0(1)
  <2>1. Levels - 1 \in 0..(Levels - 1) /\ Levels - (Levels - 1) = 1
    BY <1>1
  <2>2. At0(Levels - (Levels - 1))
    BY <1>6, <2>1
  <2> QED
    BY <2>1, <2>2
<1>8. get_pd(p, 1) \in Indices
  BY <1>1, IndexIs
<1> QED
  BY <1>4, <1>7, <1>8

LEMMA EInvInit == KernelMemInit => EInv
<1> SUFFICES ASSUME KernelMemInit PROVE EInv
  OBVIOUS
<1>1. TInv
  BY TInvInit
<1>2. PICK lv : Tree(lv)
  BY <1>1 DEF TInv, WalksOK
<1>3. /\ tables = << NewTable(Levels) >> /\ pc = [t \in CPUs |-> "idle"]
      /\ loc = [t \in CPUs |-> NoCall]
  BY DEF KernelMemInit, PageTableInit
<1>4. DOMAIN tables = {1}
  BY <1>3
<1>5. Leaves(lv)
  BY <1>2, <1>4, LevelsAre DEF Tree, Leaves
<1>6. \A t \in CPUs : Carried(pc[t], loc[t])
  BY <1>3 DEF Carried, Walking, NoCall
<1> QED
  BY <1>1, <1>2, <1>5, <1>6 DEF EInv, EntriesOK

LEMMA BeginLocal ==
  ASSUME TInv, NEW t \in CPUs, Begin(t)
  PROVE  LocalStep(t)
<1>1. CASE StrayCaller(t)
  BY <1>1, Stays DEF StrayCaller
<1>2. CASE \/ \E r \in RgIds, size \in Sizes : Request(t, "alloc", r, size)
           \/ \E r \in RgIds : Request(t, "free", r, 0)
           \/ \E offset \in Offsets :
                \/ Request(t, "read", 0, offset)
                \/ \E r \in RgIds : Request(t, "write", r, offset)
  BY <1>2, SpecConstants, RequestLocal
<1>3. CASE \/ \E size \in Sizes : BeginInc(t, size)
           \/ \E start \in MapStarts, n \in MapSizes : BeginMap(t, start, n)
  BY <1>3, SpecConstants, BeginIncLocal, BeginMapLocal
<1>4. CASE Skip(t) \/ Underlock(t) \/ BeginAlloc(t) \/ BeginAccess(t)
  BY <1>4, SkipLocal, UnderlockLocal, BeginAllocLocal, BeginAccessLocal
<1> QED
  BY <1>1, <1>2, <1>3, <1>4 DEF Begin

LEMMA EInvStep == EInv /\ [KernelMemNext]_kvars => EInv'
<1> SUFFICES ASSUME EInv, [KernelMemNext]_kvars PROVE EInv'
  OBVIOUS
<1>1. TInv /\ TInv'
  BY TInvStep DEF EInv
<1>2. ASSUME NEW t \in CPUs, CPUStep(t) PROVE EntriesOK'
  <2>1. CASE Begin(t)
    <3>1. LocalStep(t)
      BY <1>1, <2>1, BeginLocal
    <3> QED
      BY <2>1, <3>1, BeginCarries, EntriesStay
  <2>2. CASE Limits(t) \/ GetFrame(t) \/ PopFrame(t) \/ PutRead(t) \/ PutFrame(t)
    <3>1. LocalStep(t)
      BY <1>1, <2>2, LimitsLocal, FramesLocal
    <3> QED
      BY <2>2, <3>1, GrowthCarries, EntriesStay
  <2>3. CASE TestLink(t) \/ Descend(t)
    <3>1. LocalStep(t) /\ UNCHANGED tables
      BY <1>1, <2>3, TestLinkLocal, DescendLocal DEF TestLink, Descend
    <3> QED
      BY <2>3, <3>1, PlainCarries, EntriesStay
  <2>4. CASE LinkTable(t)
    BY <2>4, LinkTableEntries
  <2>5. CASE SetLeaf(t)
    BY <2>5, SetLeafEntries
  <2>6. CASE ReadFifo(t) \/ Enlist(t) \/ ReadVictim(t) \/ Unlink(t) \/ Finish(t)
    <3>1. LocalStep(t) /\ UNCHANGED tables
      BY <1>1, <2>6, ReadFifoLocal, EnlistLocal, UnlinkLocal, FinishLocal
         DEF ReadFifo, Enlist, ReadVictim, Unlink, Finish
    <3> QED
      BY <2>6, <3>1, PlainCarries, EntriesStay
  <2>7. CASE Find(t)
    BY <2>7, FindEntries
  <2> QED
    BY <1>2, <2>1, <2>2, <2>3, <2>4, <2>5, <2>6, <2>7 DEF CPUStep
<1>3. CASE UNCHANGED << tables, loc, entered, strayed >> /\ \A t \in CPUs :
             pc'[t] = pc[t] \/ pc'[t] = "idle"
  <2>1. PICK lv : Tree(lv) /\ Leaves(lv)
    BY DEF EInv, EntriesOK
  <2>2. Tree(lv)'
    BY <1>3, <2>1 DEF Tree
  <2>3. Leaves(lv)'
    BY <1>3, <2>1 DEF Leaves, Honest, Resides, Mem!PAGING_FPN
  <2>4. "idle" \notin Walking
    BY DEF Walking
  <2>5. ASSUME NEW t \in CPUs PROVE Carried(pc[t], loc[t])'
    <3>1. Carried(pc[t], loc[t])
      BY DEF EInv, EntriesOK
    <3> QED
      BY <1>3, <2>4, <3>1 DEF Carried
  <2> QED
    BY <1>1, <2>2, <2>3, <2>5 DEF EInv, EntriesOK
<1>4. NextSlot \/ UNCHANGED kvars => UNCHANGED << tables, loc, entered, strayed >>
        /\ \A t \in CPUs : pc'[t] = pc[t] \/ pc'[t] = "idle"
  BY DEF NextSlot, kvars, historyVars
<1> QED
  BY <1>1, <1>2, <1>3, <1>4 DEF EInv, KernelMemNext, Step, Ended

-----------------------------------------------------------------------------
(* The strengthened invariant, whatever calls overlap.                     *)
THEOREM KernelMemTypedInvariant == KernelMemSpec => []TInv
BY TInvInit, TInvStep, PTL DEF KernelMemSpec

(* The tables that pte_set_fpn and pte_get_entry walk through remain a     *)
(* tree of Levels levels, and every CPU is at a table of the level it      *)
(* takes it to be, although two CPUs may find the same link missing and    *)
(* both link a table, and a link that was tested is read again.            *)
THEOREM WalksCorrect == KernelMemSpec => []WalksOK
<1>1. TInv => WalksOK
  BY DEF TInv
<1> QED
  BY <1>1, KernelMemTypedInvariant, PTL

(* What the CPUs keep in their hands in the middle of a call stays what it *)
(* is meant to be, however the calls overlap: a walk is at a table that    *)
(* exists, and frames, page nodes, levels and labels are within bounds.    *)
THEOREM KernelMemTypeCorrect == KernelMemSpec => []KernelMemTypeOK
<1>1. TInv => KernelMemTypeOK
  <2> SUFFICES ASSUME TInv PROVE KernelMemTypeOK
    OBVIOUS
  <2>1. RegionsTypeOK /\ RamTyped /\ Scalars /\ Labelled
    BY DEF TInv, FInv, RegionsWell
  <2>2. ASSUME NEW t \in CPUs
        PROVE  /\ loc[t].op \in Ops /\ loc[t].frames \in Seq(Frames)
               /\ loc[t].level \in 1..Levels /\ loc[t].table \in DOMAIN tables
    <3>1. TypedCall(pc[t], loc[t]) /\ loc[t].table \in DOMAIN tables
      BY OneCall, TreeIs
    <3>2. ShapeOK(pc[t], loc[t])
      BY DEF TInv, FInv, ShapesOK
    <3> QED
      BY <3>1, <3>2 DEF TypedCall, ShapeOK
  <2>3. /\ fifo_pgn \in 0..Len(pgn_nodes)
        /\ pgn_nodes \in Seq([pgn : Nat \cup {NoPage}, pg_next : 0..Len(pgn_nodes)])
    <3>1. NodesOK /\ fifo_pgn \in 0..Len(pgn_nodes)
      BY DEF TInv, PagesOK
    <3>2. PICK N \in Nat : N = Len(pgn_nodes) /\ DOMAIN pgn_nodes = 1..N
      BY ListBounds
    <3>3. PICK S : S = [pgn : Nat \cup {NoPage}, pg_next : 0..N]
      OBVIOUS
    <3>4. ASSUME NEW m \in 1..N PROVE pgn_nodes[m] \in S
      <4>1. pgn_nodes[m] \in Node /\ pgn_nodes[m].pg_next < m
        BY <3>1, <3>2 DEF NodesOK
      <4>2. pgn_nodes[m].pg_next \in 0..N
        BY <4>1 DEF Node
      <4> QED
        BY <3>3, <4>1, <4>2 DEF Node
    <3>5. pgn_nodes \in Seq(Node)
      BY <3>1 DEF NodesOK
    <3>6. pgn_nodes \in Seq(S)
      BY <3>2, <3>4, <3>5
    <3> QED
      BY <3>1, <3>2, <3>3, <3>6
  <2> QED
    BY <2>1, <2>2, <2>3, Zenon DEF KernelMemTypeOK, Ops, RamTyped, Scalars, Labelled
<1> QED
  BY <1>1, KernelMemTypedInvariant, PTL

(* Until a growing system call overlaps another growth, every frame of the *)
(* RAM is in the free list, in the hands of one CPU, or was entered in the *)
(* page table once, and in one of the three only: the two steps by which   *)
(* MEMPHY_get_freefp and MEMPHY_put_freefp read and change the list lose   *)
(* no frame and hand out none twice.  And, with overlaps too, until the    *)
(* number of an entry that names no frame is used as one, the page table   *)
(* leads to frames of the third kind only: a page fault, whose walks MAP   *)
(* and INC may change under its feet, brings no other frame into it.       *)
THEOREM FramesConservedCorrect == KernelMemSpec => []FramesConserved
<1>1. KernelMemSpec => []EInv
  BY EInvInit, EInvStep, PTL DEF KernelMemSpec
<1>2. EInv => FramesConserved
  <2> SUFFICES ASSUME EInv PROVE FramesConserved
    OBVIOUS
  <2>1. FramesAccounted
    BY AccountedFrames DEF EInv, TInv
  <2>2. ASSUME ~strayed, NEW p \in 0..MaxPage, Resides(pte_walk(p))
        PROVE  Mem!PAGING_FPN(pte_walk(p)) \in entered
    <3>1. PICK lv : Tree(lv) /\ Leaves(lv)
      BY DEF EInv, EntriesOK
    <3>2. p \in Nat
      OBVIOUS
    <3>3. Honest(pte_walk(p))
      BY <3>1, <3>2, WalkIs, ZeroHonest DEF Leaves
    <3> QED
      BY <2>2, <3>3 DEF Honest
  <2> QED
    BY <2>1, <2>2, Zenon DEF FramesConserved
<1> QED
  BY <1>1, <1>2, PTL
=============================================================================
