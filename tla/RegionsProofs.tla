--------------------------- MODULE RegionsProofs ---------------------------
(***************************************************************************)
(* Proofs, for all sizes, symbols and page sizes, that the regions of the  *)
(* address space stay disjoint and inside the area.                        *)
(*                                                                         *)
(* The argument: an operation either hands the same bytes on unchanged,    *)
(* cuts a free region in two, or takes bytes above the break, where no     *)
(* region reaches.  Ordered is what must be added to make it inductive:    *)
(* a region whose end lay before its start would make room out of nothing. *)
(*                                                                         *)
(* That no byte is lost follows from it: each operation leaves unclaimed   *)
(* what was, and adds to it exactly the bytes it counts as leaked.         *)
(***************************************************************************)
EXTENDS Regions, TLAPS, FiniteSetTheorems

Ordered(rg) == rg.rg_start <= rg.rg_end

RegionsOrdered ==
  /\ \A r \in RgIds : Ordered(symrgtbl[r])
  /\ \A k \in DOMAIN vm_freerg_list : Ordered(vm_freerg_list[k])

RInv == RegionsTypeOK /\ RegionsOrdered /\ RegionsDisjoint /\ RegionsInArea

(* a is a part of b.                                                       *)
Within(a, b) == b.rg_start <= a.rg_start /\ a.rg_end <= b.rg_end

-----------------------------------------------------------------------------
(* Rounding a size up to whole pages never makes it smaller.               *)
LEMMA PagesCover ==
  ASSUME NEW size \in Nat
  PROVE  PagesOf(size) \in Nat /\ PagesOf(size) * PAGESZ >= size
<1> DEFINE q == (size + PAGESZ - 1) \div PAGESZ
           m == (size + PAGESZ - 1) % PAGESZ
<1>1. PAGESZ \in Nat /\ PAGESZ > 0
  BY RegionsAssumption
<1>2. q \in Nat /\ m \in 0..(PAGESZ - 1) /\ size + PAGESZ - 1 = PAGESZ * q + m
  BY <1>1, SMTT(60)
<1> HIDE DEF q, m
<1>3. PAGESZ * q >= size /\ PAGESZ * q = q * PAGESZ
  BY <1>1, <1>2
<1> QED
  BY <1>2, <1>3 DEF PagesOf, q

(* Parts of disjoint regions are disjoint.                                 *)
LEMMA DisjointParts ==
  ASSUME NEW a \in Region, NEW b \in Region, NEW x \in Region, NEW y \in Region,
         Within(x, a), Within(y, b), Disjoint(a, b)
  PROVE  Disjoint(x, y)
  BY DEF Region, Within, Disjoint, Length

(* What the allocation leaves of the list: every region of it lies in the  *)
(* one it comes from, and none meets the bytes handed out.                 *)
CarvedWell(k, size, new) ==
  /\ new \in Seq(Region)
  /\ Len(new) \in {Len(vm_freerg_list), Len(vm_freerg_list) - 1}
  /\ \A j \in DOMAIN new :
       LET i == IF Len(new) = Len(vm_freerg_list) \/ j < k THEN j ELSE j + 1
       IN  /\ i \in DOMAIN vm_freerg_list
           /\ Ordered(new[j])
           /\ Within(new[j], vm_freerg_list[i])
           /\ i = k => \/ Length(new[j]) = 0
                       \/ new[j].rg_start >= vm_freerg_list[k].rg_start + size

(* Carved, the update of the free list in get_free_vmrg_area, does that.   *)
LEMMA CarvedParts ==
  ASSUME vm_freerg_list \in Seq(Region),
         \A j \in DOMAIN vm_freerg_list : Ordered(vm_freerg_list[j]),
         NEW k \in DOMAIN vm_freerg_list, NEW size \in Nat, Fits(k, size)
  PROVE  CarvedWell(k, size, Carved(k, size))
<1> DEFINE list == vm_freerg_list
<1>1. list[k] \in Region /\ k \in 1..Len(list) /\ Len(list) \in Nat
  OBVIOUS
<1>2. list[k].rg_start + size <= list[k].rg_end
  BY DEF Fits
<1>3. CASE list[k].rg_start + size < list[k].rg_end
  <2>1. PICK rg : rg = [list[k] EXCEPT !.rg_start = @ + size]
    OBVIOUS
  <2>2. rg \in Region /\ Ordered(rg) /\ Within(rg, list[k])
        /\ rg.rg_start = list[k].rg_start + size
    BY <1>1, <1>3, <2>1 DEF Region, Ordered, Within
  <2>3. PICK new : new = [list EXCEPT ![k] = rg]
    OBVIOUS
  <2>4. Carved(k, size) = new
    BY <1>3, <2>1, <2>3 DEF Carved
  <2>5. new \in Seq(Region) /\ Len(new) = Len(list) /\ DOMAIN new = DOMAIN list
    BY <2>2, <2>3
  <2>6. \A j \in DOMAIN list : new[j] = IF j = k THEN rg ELSE list[j]
    BY <2>3
  <2>7. CarvedWell(k, size, new)
    <3> SUFFICES ASSUME NEW j \in DOMAIN list
                 PROVE  /\ Ordered(new[j]) /\ Within(new[j], list[j])
                        /\ j = k => \/ Length(new[j]) = 0
                                    \/ new[j].rg_start >= list[k].rg_start + size
      BY <1>1, <2>5 DEF CarvedWell
    <3>1. CASE j = k
      BY <1>1, <2>2, <2>6, <3>1 DEF Region
    <3>2. CASE j # k
      <4>1. new[j] = list[j] /\ list[j] \in Region /\ Ordered(list[j])
        BY <2>6, <3>2
      <4> QED
        BY <3>2, <4>1 DEF Region, Within
    <3> QED
      BY <3>1, <3>2
  <2> QED
    BY <2>4, <2>7
<1>4. CASE ~(list[k].rg_start + size < list[k].rg_end) /\ k < Len(list)
  <2>1. PICK new : new = [j \in 1..(Len(list) - 1) |-> IF j < k THEN list[j] ELSE list[j + 1]]
    OBVIOUS
  <2>2. Carved(k, size) = new
    BY <1>4, <2>1 DEF Carved
  <2>3. new \in Seq(Region) /\ Len(new) = Len(list) - 1 /\ DOMAIN new = 1..(Len(list) - 1)
    BY <1>1, <1>4, <2>1
  <2>4. \A j \in DOMAIN new : new[j] = list[IF j < k THEN j ELSE j + 1]
    BY <2>1, <2>3
  <2>5. CarvedWell(k, size, new)
    <3> SUFFICES ASSUME NEW j \in DOMAIN new,
                        NEW i, i = IF j < k THEN j ELSE j + 1
                 PROVE  /\ i \in DOMAIN list
                        /\ Ordered(new[j]) /\ Within(new[j], list[i]) /\ i # k
      <4>1. Len(new) # Len(list)
        BY <1>1, <2>3
      <4> QED
        BY <1>1, <2>3, <4>1 DEF CarvedWell
    <3>1. i \in DOMAIN list /\ i # k /\ new[j] = list[i]
      BY <1>1, <1>4, <2>3, <2>4
    <3>2. list[i] \in Region /\ Ordered(list[i])
      BY <3>1
    <3> QED
      BY <3>1, <3>2 DEF Region, Within
  <2> QED
    BY <2>2, <2>5
<1>5. CASE ~(list[k].rg_start + size < list[k].rg_end) /\ ~(k < Len(list))
  <2>1. PICK rg : rg = [list[k] EXCEPT !.rg_start = list[k].rg_end]
    OBVIOUS
  <2>2. rg \in Region /\ Ordered(rg) /\ Within(rg, list[k]) /\ Length(rg) = 0
    <3>1. rg \in Region /\ rg.rg_start = list[k].rg_end /\ rg.rg_end = list[k].rg_end
      BY <1>1, <2>1 DEF Region
    <3> QED
      BY <1>1, <1>2, <3>1 DEF Region, Ordered, Within, Length
  <2>3. PICK new : new = [list EXCEPT ![k] = rg]
    OBVIOUS
  <2>4. Carved(k, size) = new
    BY <1>5, <2>1, <2>3 DEF Carved
  <2>5. new \in Seq(Region) /\ Len(new) = Len(list) /\ DOMAIN new = DOMAIN list
    BY <2>2, <2>3
  <2>6. \A j \in DOMAIN list : new[j] = IF j = k THEN rg ELSE list[j]
    BY <2>3
  <2>7. CarvedWell(k, size, new)
    <3> SUFFICES ASSUME NEW j \in DOMAIN list
                 PROVE  /\ Ordered(new[j]) /\ Within(new[j], list[j])
                        /\ j = k => \/ Length(new[j]) = 0
                                    \/ new[j].rg_start >= list[k].rg_start + size
      BY <1>1, <2>5 DEF CarvedWell
    <3>1. CASE j = k
      BY <1>1, <2>2, <2>6, <3>1 DEF Region
    <3>2. CASE j # k
      <4>1. new[j] = list[j] /\ list[j] \in Region /\ Ordered(list[j])
        BY <2>6, <3>2
      <4> QED
        BY <3>2, <4>1 DEF Region, Within
    <3> QED
      BY <3>1, <3>2
  <2> QED
    BY <2>4, <2>7
<1> QED
  BY <1>3, <1>4, <1>5
-----------------------------------------------------------------------------
(* The area init_mm makes: empty, with one empty region in the free list.  *)
LEMMA InitInvariant == RegionsInit => RInv
<1> SUFFICES ASSUME RegionsInit PROVE RInv
  OBVIOUS
<1>1. NullRegion \in Region /\ NullRegion.rg_start = 0 /\ NullRegion.rg_end = 0
  BY DEF NullRegion, Rg, Region
<1>2. vm_freerg_list = << NullRegion >> /\ Len(vm_freerg_list) = 1
      /\ vm_freerg_list \in Seq(Region) /\ vm_freerg_list[1] = NullRegion
  BY <1>1 DEF RegionsInit
<1>3. \A r \in RgIds : symrgtbl[r] = NullRegion
  BY DEF RegionsInit
<1>4. \A k \in DOMAIN vm_freerg_list : vm_freerg_list[k] = NullRegion
  BY <1>2
<1>5. RegionsTypeOK
  BY <1>1, <1>2 DEF RegionsInit, RegionsTypeOK
<1>6. RegionsOrdered
  BY <1>1, <1>3, <1>4 DEF RegionsOrdered, Ordered
<1>7. RegionsDisjoint
  BY <1>1, <1>3, <1>4 DEF RegionsDisjoint, Disjoint, Length
<1>8. RegionsInArea
  BY <1>1, <1>3, <1>4 DEF RegionsInArea, RegionsInit
<1> QED
  BY <1>5, <1>6, <1>7, <1>8 DEF RInv

(* Taking bytes from the free list, or giving them back, leaves regions:   *)
(* whether or not the ones there were are disjoint.                        *)
LEMMA AllocFromFreeListTyped ==
  ASSUME RegionsTypeOK, RegionsOrdered, NEW r \in RgIds, NEW size \in Nat,
         AllocFromFreeList(r, size)
  PROVE  RegionsTypeOK' /\ RegionsOrdered'
<1>1. PICK k \in DOMAIN vm_freerg_list :
        /\ Fits(k, size)
        /\ symrgtbl' = [symrgtbl EXCEPT ![r] = Rg(vm_freerg_list[k].rg_start,
                                                  vm_freerg_list[k].rg_start + size)]
        /\ vm_freerg_list' = Carved(k, size)
        /\ leaked' = leaked + Length(symrgtbl[r])
        /\ sbrk' = sbrk /\ vm_end' = vm_end
  BY DEF AllocFromFreeList, FirstFit
<1>2. PICK rg : rg = Rg(vm_freerg_list[k].rg_start, vm_freerg_list[k].rg_start + size)
  OBVIOUS
<1>3. /\ symrgtbl \in [RgIds -> Region] /\ vm_freerg_list \in Seq(Region)
      /\ sbrk \in Nat /\ vm_end \in Nat /\ leaked \in Nat
      /\ \A x \in RgIds : symrgtbl[x] \in Region /\ Ordered(symrgtbl[x])
      /\ \A j \in DOMAIN vm_freerg_list : Ordered(vm_freerg_list[j])
  BY DEF RegionsTypeOK, RegionsOrdered
<1>4. vm_freerg_list' \in Seq(Region)
      /\ \A j \in DOMAIN vm_freerg_list' : Ordered(vm_freerg_list'[j])
  <2>1. CarvedWell(k, size, vm_freerg_list')
    BY <1>1, <1>3, CarvedParts
  <2> QED
    BY <2>1 DEF CarvedWell
<1>5. rg \in Region /\ Ordered(rg)
  <2>1. vm_freerg_list[k] \in Region
    BY <1>3
  <2> QED
    BY <1>2, <2>1 DEF Rg, Region, Ordered
<1>6. symrgtbl' \in [RgIds -> Region]
      /\ \A x \in RgIds : symrgtbl'[x] = IF x = r THEN rg ELSE symrgtbl[x]
  BY <1>1, <1>2, <1>3, <1>5
<1>7. leaked' \in Nat
  BY <1>1, <1>3 DEF Region, Ordered, Length
<1> QED
  BY <1>1, <1>3, <1>4, <1>5, <1>6, <1>7 DEF RegionsTypeOK, RegionsOrdered

LEMMA FreeTyped ==
  ASSUME RegionsTypeOK, RegionsOrdered, NEW r \in RgIds, Free(r)
  PROVE  RegionsTypeOK' /\ RegionsOrdered'
<1>1. /\ symrgtbl \in [RgIds -> Region] /\ vm_freerg_list \in Seq(Region)
      /\ \A x \in RgIds : symrgtbl[x] \in Region /\ Ordered(symrgtbl[x])
      /\ \A j \in DOMAIN vm_freerg_list : Ordered(vm_freerg_list[j])
  BY DEF RegionsTypeOK, RegionsOrdered
<1>2. symrgtbl' = [symrgtbl EXCEPT ![r] = NullRegion]
      /\ UNCHANGED << sbrk, vm_end, leaked >>
  BY DEF Free
<1>3. NullRegion \in Region /\ Ordered(NullRegion)
  BY DEF NullRegion, Rg, Region, Ordered
<1>4. symrgtbl' \in [RgIds -> Region]
      /\ \A x \in RgIds : Ordered(symrgtbl'[x])
  BY <1>1, <1>2, <1>3
<1>5. vm_freerg_list' \in Seq(Region)
      /\ \A j \in DOMAIN vm_freerg_list' : Ordered(vm_freerg_list'[j])
  <2>1. CASE vm_freerg_list' = vm_freerg_list
    BY <1>1, <2>1
  <2>2. CASE vm_freerg_list' = << symrgtbl[r] >> \o vm_freerg_list
    <3>1. PICK new : new = << symrgtbl[r] >> \o vm_freerg_list
      OBVIOUS
    <3>2. symrgtbl[r] \in Region /\ Ordered(symrgtbl[r])
      BY <1>1
    <3>3. new \in Seq(Region) /\ Len(new) = Len(vm_freerg_list) + 1
      BY <1>1, <3>1, <3>2
    <3>4. /\ new[1] = symrgtbl[r]
          /\ \A j \in DOMAIN new : j # 1 =>
               j - 1 \in DOMAIN vm_freerg_list /\ new[j] = vm_freerg_list[j - 1]
      BY <1>1, <3>1, <3>2, <3>3
    <3> QED
      BY <1>1, <2>2, <3>1, <3>2, <3>3, <3>4
  <2> QED
    BY <2>1, <2>2 DEF Free
<1> QED
  BY <1>2, <1>4, <1>5 DEF RegionsTypeOK, RegionsOrdered

(* Taking bytes from the free list.                                        *)
LEMMA AllocFromFreeListInvariant ==
  ASSUME RInv, NEW r \in RgIds, NEW size \in Nat, AllocFromFreeList(r, size)
  PROVE  RInv'
<1>1. PICK k \in DOMAIN vm_freerg_list :
        /\ Fits(k, size)
        /\ symrgtbl' = [symrgtbl EXCEPT ![r] = Rg(vm_freerg_list[k].rg_start,
                                                  vm_freerg_list[k].rg_start + size)]
        /\ vm_freerg_list' = Carved(k, size)
        /\ leaked' = leaked + Length(symrgtbl[r])
        /\ sbrk' = sbrk /\ vm_end' = vm_end
  BY DEF AllocFromFreeList, FirstFit
<1>2. PICK rg : rg = Rg(vm_freerg_list[k].rg_start, vm_freerg_list[k].rg_start + size)
  OBVIOUS
<1>3. PICK new : new = Carved(k, size)
  OBVIOUS
<1>4. /\ symrgtbl \in [RgIds -> Region] /\ vm_freerg_list \in Seq(Region)
      /\ sbrk \in Nat /\ vm_end \in Nat /\ leaked \in Nat
      /\ \A x \in RgIds : symrgtbl[x] \in Region /\ Ordered(symrgtbl[x])
      /\ \A j \in DOMAIN vm_freerg_list : Ordered(vm_freerg_list[j])
  BY DEF RInv, RegionsTypeOK, RegionsOrdered
<1>5. \A j \in DOMAIN vm_freerg_list : vm_freerg_list[j] \in Region
  BY <1>4
<1>6. CarvedWell(k, size, new)
  BY <1>1, <1>3, <1>4, CarvedParts
<1>7. new \in Seq(Region) /\ \A j \in DOMAIN new : new[j] \in Region /\ Ordered(new[j])
  <2>1. new \in Seq(Region) /\ \A j \in DOMAIN new : Ordered(new[j])
    BY <1>6 DEF CarvedWell
  <2> QED
    BY <2>1
<1>8. /\ rg \in Region /\ Ordered(rg) /\ Within(rg, vm_freerg_list[k])
      /\ rg.rg_end = vm_freerg_list[k].rg_start + size
  <2>1. vm_freerg_list[k] \in Region
        /\ vm_freerg_list[k].rg_start + size <= vm_freerg_list[k].rg_end
    BY <1>1, <1>5 DEF Fits
  <2> QED
    BY <1>2, <2>1 DEF Rg, Region, Ordered, Within
<1>9. vm_freerg_list' = new
      /\ symrgtbl' \in [RgIds -> Region]
      /\ \A x \in RgIds : symrgtbl'[x] = IF x = r THEN rg ELSE symrgtbl[x]
  BY <1>1, <1>2, <1>3, <1>4, <1>8
<1>10. \A a \in Region : Within(a, a)
  BY DEF Region, Within
<1>11. PICK from \in [DOMAIN new -> DOMAIN vm_freerg_list] :
         /\ \A j \in DOMAIN new :
              /\ Within(new[j], vm_freerg_list[from[j]])
              /\ from[j] = k => Length(new[j]) = 0 \/ new[j].rg_start >= rg.rg_end
         /\ \A j, l \in DOMAIN new : j # l => from[j] # from[l]
  <2> DEFINE origin == [j \in DOMAIN new |->
                          IF Len(new) = Len(vm_freerg_list) \/ j < k THEN j ELSE j + 1]
  <2>1. \A j \in DOMAIN new :
          /\ origin[j] \in DOMAIN vm_freerg_list
          /\ Within(new[j], vm_freerg_list[origin[j]])
          /\ origin[j] = k => Length(new[j]) = 0 \/ new[j].rg_start >= rg.rg_end
    BY <1>6, <1>8 DEF CarvedWell
  <2>2. \A j, l \in DOMAIN new : j # l => origin[j] # origin[l]
    BY <1>4, <1>7
  <2> QED
    BY <2>1, <2>2
<1>12. RegionsTypeOK' /\ RegionsOrdered'
  BY AllocFromFreeListTyped DEF RInv
<1>13. RegionsDisjoint'
  <2>1. ASSUME NEW x \in RgIds, NEW y \in RgIds, x # y
        PROVE  Disjoint(symrgtbl'[x], symrgtbl'[y])
    <3>1. CASE x = r
      <4>1. Disjoint(vm_freerg_list[k], symrgtbl[y])
        BY <1>4, <1>5 DEF RInv, RegionsDisjoint, Disjoint
      <4> QED
        BY <1>4, <1>5, <1>8, <1>9, <1>10, <2>1, <3>1, <4>1, DisjointParts
    <3>2. CASE y = r
      <4>1. Disjoint(symrgtbl[x], vm_freerg_list[k])
        BY DEF RInv, RegionsDisjoint
      <4> QED
        BY <1>4, <1>5, <1>8, <1>9, <1>10, <2>1, <3>2, <4>1, DisjointParts
    <3>3. CASE x # r /\ y # r
      BY <1>9, <2>1, <3>3 DEF RInv, RegionsDisjoint
    <3> QED
      BY <3>1, <3>2, <3>3
  <2>2. ASSUME NEW x \in RgIds, NEW j \in DOMAIN new
        PROVE  Disjoint(symrgtbl'[x], new[j])
    <3>1. CASE x # r
      <4>1. Disjoint(symrgtbl[x], vm_freerg_list[from[j]])
        BY <1>11 DEF RInv, RegionsDisjoint
      <4> QED
        BY <1>4, <1>5, <1>7, <1>9, <1>10, <1>11, <3>1, <4>1, DisjointParts
    <3>2. CASE x = r /\ from[j] # k
      <4>1. Disjoint(vm_freerg_list[k], vm_freerg_list[from[j]])
        BY <1>11, <3>2 DEF RInv, RegionsDisjoint
      <4> QED
        BY <1>5, <1>7, <1>8, <1>9, <1>11, <3>2, <4>1, DisjointParts
    <3>3. CASE x = r /\ from[j] = k
      <4>1. Length(new[j]) = 0 \/ rg.rg_end <= new[j].rg_start
        BY <1>7, <1>8, <1>11, <3>3 DEF Region
      <4> QED
        BY <1>9, <3>3, <4>1 DEF Disjoint
    <3> QED
      BY <3>1, <3>2, <3>3
  <2>3. ASSUME NEW j \in DOMAIN new, NEW l \in DOMAIN new, j # l
        PROVE  Disjoint(new[j], new[l])
    <3>1. Disjoint(vm_freerg_list[from[j]], vm_freerg_list[from[l]])
      BY <1>11, <2>3 DEF RInv, RegionsDisjoint
    <3> QED
      BY <1>5, <1>7, <1>11, <3>1, DisjointParts
  <2> QED
    BY <1>9, <2>1, <2>2, <2>3 DEF RegionsDisjoint
<1>14. RegionsInArea'
  <2>1. \A j \in DOMAIN vm_freerg_list : vm_freerg_list[j].rg_end <= sbrk
    BY DEF RInv, RegionsInArea
  <2>2. \A x \in RgIds : symrgtbl'[x].rg_end <= sbrk
    <3>1. rg.rg_end <= sbrk
      BY <1>4, <1>5, <1>8, <2>1 DEF Region, Within
    <3> QED
      BY <1>9, <3>1 DEF RInv, RegionsInArea
  <2>3. \A j \in DOMAIN new : new[j].rg_end <= sbrk
    BY <1>4, <1>5, <1>7, <1>11, <2>1 DEF Region, Within
  <2> QED
    BY <1>1, <1>9, <2>2, <2>3 DEF RInv, RegionsInArea
<1> QED
  BY <1>12, <1>13, <1>14 DEF RInv
(* Taking bytes above the break: no region reaches there.                  *)
LEMMA AllocAtBreakInvariant ==
  ASSUME RInv, NEW r \in RgIds, NEW size \in Nat, AllocAtBreak(r, size)
  PROVE  RInv'
<1>1. /\ symrgtbl' = [symrgtbl EXCEPT ![r] = Rg(sbrk, sbrk + size)]
      /\ vm_freerg_list' = vm_freerg_list
      /\ sbrk' = sbrk + size
      /\ vm_end' = vm_end + PagesOf(size) * PAGESZ
      /\ leaked' = leaked + Length(symrgtbl[r])
  BY DEF AllocAtBreak, inc_vma_limit
<1>2. /\ symrgtbl \in [RgIds -> Region] /\ vm_freerg_list \in Seq(Region)
      /\ sbrk \in Nat /\ vm_end \in Nat /\ leaked \in Nat
      /\ \A x \in RgIds : symrgtbl[x] \in Region /\ Ordered(symrgtbl[x])
      /\ \A j \in DOMAIN vm_freerg_list : Ordered(vm_freerg_list[j])
  BY DEF RInv, RegionsTypeOK, RegionsOrdered
<1>3. /\ \A x \in RgIds : symrgtbl[x].rg_end <= sbrk
      /\ \A j \in DOMAIN vm_freerg_list : vm_freerg_list[j].rg_end <= sbrk
      /\ sbrk <= vm_end
  BY DEF RInv, RegionsInArea
<1>4. PICK rg : rg = Rg(sbrk, sbrk + size)
  OBVIOUS
<1>5. rg \in Region /\ Ordered(rg) /\ rg.rg_start = sbrk /\ rg.rg_end = sbrk + size
  BY <1>2, <1>4 DEF Rg, Region, Ordered
<1>6. symrgtbl' \in [RgIds -> Region]
      /\ \A x \in RgIds : symrgtbl'[x] = IF x = r THEN rg ELSE symrgtbl[x]
  BY <1>1, <1>2, <1>4, <1>5
<1>7. PagesOf(size) * PAGESZ >= size /\ PagesOf(size) * PAGESZ \in Nat
  BY PagesCover, RegionsAssumption
<1>8. RegionsTypeOK'
  <2>1. leaked' \in Nat
    BY <1>1, <1>2 DEF Region, Ordered, Length
  <2>2. sbrk' \in Nat /\ vm_end' \in Nat
    BY <1>1, <1>2, <1>7
  <2> QED
    BY <1>1, <1>2, <1>6, <2>1, <2>2 DEF RegionsTypeOK
<1>9. RegionsOrdered'
  BY <1>1, <1>2, <1>5, <1>6 DEF RegionsOrdered
<1>10. RegionsDisjoint'
  <2>1. \A x \in RgIds : Disjoint(symrgtbl[x], rg) /\ Disjoint(rg, symrgtbl[x])
    BY <1>3, <1>5 DEF Disjoint
  <2>2. \A j \in DOMAIN vm_freerg_list : Disjoint(rg, vm_freerg_list[j])
    BY <1>3, <1>5 DEF Disjoint
  <2> QED
    BY <1>1, <1>6, <2>1, <2>2 DEF RInv, RegionsDisjoint
<1>11. RegionsInArea'
  <2>1. \A x \in RgIds : symrgtbl'[x].rg_end <= sbrk'
    BY <1>1, <1>2, <1>3, <1>5, <1>6 DEF Region
  <2>2. \A j \in DOMAIN vm_freerg_list : vm_freerg_list[j].rg_end <= sbrk'
    <3>1. \A j \in DOMAIN vm_freerg_list : vm_freerg_list[j] \in Region
      BY <1>2
    <3> QED
      BY <1>1, <1>2, <1>3, <3>1 DEF Region
  <2>3. sbrk' <= vm_end'
    BY <1>1, <1>2, <1>3, <1>7
  <2> QED
    BY <1>1, <2>1, <2>2, <2>3 DEF RegionsInArea
<1> QED
  BY <1>8, <1>9, <1>10, <1>11 DEF RInv

(* Giving a region back: the same bytes, now in the list.                  *)
LEMMA FreeInvariant ==
  ASSUME RInv, NEW r \in RgIds, Free(r)
  PROVE  RInv'
<1>1. /\ symrgtbl \in [RgIds -> Region] /\ vm_freerg_list \in Seq(Region)
      /\ \A x \in RgIds : symrgtbl[x] \in Region /\ Ordered(symrgtbl[x])
      /\ \A j \in DOMAIN vm_freerg_list : Ordered(vm_freerg_list[j])
      /\ sbrk \in Nat
  BY DEF RInv, RegionsTypeOK, RegionsOrdered
<1>2. /\ symrgtbl' = [symrgtbl EXCEPT ![r] = NullRegion]
      /\ sbrk' = sbrk /\ vm_end' = vm_end /\ leaked' = leaked
  BY DEF Free
<1>3. NullRegion \in Region /\ NullRegion.rg_start = 0 /\ NullRegion.rg_end = 0
  BY DEF NullRegion, Rg, Region
<1>4. symrgtbl' \in [RgIds -> Region]
      /\ \A x \in RgIds : symrgtbl'[x] = IF x = r THEN NullRegion ELSE symrgtbl[x]
  BY <1>1, <1>2, <1>3
<1>5. \A a : Disjoint(NullRegion, a) /\ Disjoint(a, NullRegion)
  BY <1>3 DEF Disjoint, Length
<1>6. CASE vm_freerg_list' = vm_freerg_list
  <2>1. RegionsDisjoint'
    BY <1>4, <1>5, <1>6 DEF RInv, RegionsDisjoint
  <2>2. RegionsInArea'
    BY <1>1, <1>2, <1>3, <1>4, <1>6 DEF RInv, RegionsInArea
  <2> QED
    BY <2>1, <2>2, FreeTyped DEF RInv
<1>7. CASE vm_freerg_list' = << symrgtbl[r] >> \o vm_freerg_list
  <2>1. PICK new : new = << symrgtbl[r] >> \o vm_freerg_list
    OBVIOUS
  <2>2. symrgtbl[r] \in Region /\ Ordered(symrgtbl[r])
    BY <1>1
  <2>3. new \in Seq(Region) /\ Len(new) = Len(vm_freerg_list) + 1
    BY <1>1, <2>1, <2>2
  <2>4. /\ new[1] = symrgtbl[r]
        /\ \A j \in DOMAIN new : j # 1 =>
             j - 1 \in DOMAIN vm_freerg_list /\ new[j] = vm_freerg_list[j - 1]
    BY <1>1, <2>1, <2>2, <2>3
  <2>5. RegionsDisjoint'
    <3>1. \A x, y \in RgIds : x # y => Disjoint(symrgtbl'[x], symrgtbl'[y])
      BY <1>4, <1>5 DEF RInv, RegionsDisjoint
    <3>2. ASSUME NEW x \in RgIds, NEW j \in DOMAIN new
          PROVE  Disjoint(symrgtbl'[x], new[j])
      <4>1. CASE x = r
        BY <1>4, <1>5, <4>1
      <4>2. CASE x # r /\ j = 1
        BY <1>4, <2>4, <4>2 DEF RInv, RegionsDisjoint
      <4>3. CASE x # r /\ j # 1
        BY <1>4, <2>4, <4>3 DEF RInv, RegionsDisjoint
      <4> QED
        BY <4>1, <4>2, <4>3
    <3>3. ASSUME NEW j \in DOMAIN new, NEW l \in DOMAIN new, j # l
          PROVE  Disjoint(new[j], new[l])
      <4>1. CASE j = 1
        BY <2>4, <3>3, <4>1 DEF RInv, RegionsDisjoint
      <4>2. CASE l = 1
        <5>1. Disjoint(new[l], new[j])
          BY <2>4, <3>3, <4>2 DEF RInv, RegionsDisjoint
        <5> QED
          BY <5>1 DEF Disjoint
      <4>3. CASE j # 1 /\ l # 1
        <5>1. j - 1 # l - 1
          BY <2>3, <3>3
        <5> QED
          BY <2>4, <4>3, <5>1 DEF RInv, RegionsDisjoint
      <4> QED
        BY <4>1, <4>2, <4>3
    <3> QED
      BY <1>7, <2>1, <3>1, <3>2, <3>3 DEF RegionsDisjoint
  <2>6. RegionsInArea'
    <3>1. \A j \in DOMAIN new : new[j].rg_end <= sbrk
      BY <2>4 DEF RInv, RegionsInArea
    <3>2. \A x \in RgIds : symrgtbl'[x].rg_end <= sbrk
      BY <1>1, <1>3, <1>4 DEF RInv, RegionsInArea
    <3> QED
      BY <1>2, <1>7, <2>1, <3>1, <3>2 DEF RInv, RegionsInArea
  <2> QED
    BY <2>5, <2>6, FreeTyped DEF RInv
<1> QED
  BY <1>6, <1>7 DEF Free

(* Moving the break without handing out the bytes below it.                *)
LEMMA GrowBySyscallInvariant ==
  ASSUME RInv, NEW size \in Nat, GrowBySyscall(size)
  PROVE  RInv'
<1>1. /\ symrgtbl' = symrgtbl /\ vm_freerg_list' = vm_freerg_list
      /\ sbrk' = sbrk + size
      /\ vm_end' = vm_end + PagesOf(size) * PAGESZ
      /\ leaked' = leaked + size
  BY DEF GrowBySyscall, inc_vma_limit
<1>2. PagesOf(size) * PAGESZ >= size /\ PagesOf(size) * PAGESZ \in Nat
  BY PagesCover, RegionsAssumption
<1>3. /\ sbrk \in Nat /\ vm_end \in Nat /\ leaked \in Nat
      /\ \A x \in RgIds : symrgtbl[x] \in Region
      /\ \A k \in DOMAIN vm_freerg_list : vm_freerg_list[k] \in Region
  BY DEF RInv, RegionsTypeOK
<1>4. RegionsTypeOK'
  BY <1>1, <1>2, <1>3 DEF RInv, RegionsTypeOK
<1>5. RegionsOrdered' /\ RegionsDisjoint'
  BY <1>1 DEF RInv, RegionsOrdered, RegionsDisjoint
<1>6. RegionsInArea'
  BY <1>1, <1>2, <1>3 DEF RInv, RegionsInArea, Region
<1> QED
  BY <1>4, <1>5, <1>6 DEF RInv

-----------------------------------------------------------------------------
(* No call of __alloc, __free or inc_vma_limit disturbs the invariant.     *)
LEMMA StepInvariant == RInv /\ [RegionsNext]_regionVars => RInv'
<1> SUFFICES ASSUME RInv, [RegionsNext]_regionVars PROVE RInv'
  OBVIOUS
<1>1. \A size \in Sizes : size \in Nat
  BY RegionsAssumption
<1>2. CASE \E r \in RgIds, size \in Sizes : AllocFromFreeList(r, size)
  BY <1>1, <1>2, AllocFromFreeListInvariant
<1>3. CASE \E r \in RgIds, size \in Sizes : AllocAtBreak(r, size)
  BY <1>1, <1>3, AllocAtBreakInvariant
<1>4. CASE \E r \in RgIds : Free(r)
  BY <1>4, FreeInvariant
<1>5. CASE \E size \in Sizes : GrowBySyscall(size)
  BY <1>1, <1>5, GrowBySyscallInvariant
<1>6. CASE UNCHANGED regionVars
  BY <1>6 DEF regionVars, RInv, RegionsTypeOK, RegionsOrdered, RegionsDisjoint, RegionsInArea
<1> QED
  BY <1>2, <1>3, <1>4, <1>5, <1>6 DEF RegionsNext

(* The strengthened invariant holds in every state of the address space.   *)
THEOREM RegionsInvariant == RegionsSpec => []RInv
BY InitInvariant, StepInvariant, PTL DEF RegionsSpec

(* Regions are pairs of addresses, and no counter becomes negative,        *)
(* whatever __alloc, __free and inc_vma_limit are called with.             *)
THEOREM RegionsTypeCorrect == RegionsSpec => []RegionsTypeOK
<1>1. RInv => RegionsTypeOK
  BY DEF RInv
<1> QED
  BY <1>1, RegionsInvariant, PTL

(* __alloc never hands out a byte that another symbol or the free list     *)
(* still holds.                                                            *)
THEOREM RegionsDisjointCorrect == RegionsSpec => []RegionsDisjoint
<1>1. RInv => RegionsDisjoint
  BY DEF RInv
<1> QED
  BY <1>1, RegionsInvariant, PTL

(* No region reaches beyond the break, nor the break beyond vm_end, though *)
(* one moves by bytes and the other by whole pages.                        *)
THEOREM RegionsInAreaCorrect == RegionsSpec => []RegionsInArea
<1>1. RInv => RegionsInArea
  BY DEF RInv
<1> QED
  BY <1>1, RegionsInvariant, PTL
-----------------------------------------------------------------------------
(* The bytes below the break are finitely many, those of a region as many  *)
(* as its length.                                                          *)
LEMMA UnclaimedFinite ==
  ASSUME sbrk \in Nat
  PROVE  IsFiniteSet(Unclaimed) /\ Cardinality(Unclaimed) \in Nat
<1>1. IsFiniteSet(0..(sbrk - 1))
  BY FS_Interval
<1>2. Unclaimed \in SUBSET (0..(sbrk - 1))
  BY DEF Unclaimed
<1>3. IsFiniteSet(Unclaimed)
  BY <1>1, <1>2, FS_Subset
<1> QED
  BY <1>3, FS_CardinalityType

LEMMA BytesCounted ==
  ASSUME NEW rg \in Region, Ordered(rg)
  PROVE  IsFiniteSet(Bytes(rg)) /\ Cardinality(Bytes(rg)) = Length(rg)
<1>1. rg.rg_start \in Int /\ rg.rg_end - 1 \in Int /\ rg.rg_start <= rg.rg_end
  BY DEF Region, Ordered
<1>2. PICK a \in Int, b \in Int : a = rg.rg_start /\ b = rg.rg_end - 1
  BY <1>1
<1>3. IsFiniteSet(a..b) /\ Cardinality(a..b) = IF a > b THEN 0 ELSE b - a + 1
  BY FS_Interval
<1>4. (IF a > b THEN 0 ELSE b - a + 1) = Length(rg)
  BY <1>1, <1>2 DEF Region, Length
<1> QED
  BY <1>2, <1>3, <1>4 DEF Bytes

(* Two sets with no element in common.                                     *)
LEMMA CountedApart ==
  ASSUME NEW S, NEW T, IsFiniteSet(S), IsFiniteSet(T), S \cap T = {}
  PROVE  Cardinality(S \cup T) = Cardinality(S) + Cardinality(T)
<1>1. Cardinality(S) \in Nat /\ Cardinality(T) \in Nat
  BY FS_CardinalityType
<1>2. Cardinality(S \cap T) = 0
  BY FS_EmptySet
<1>3. Cardinality(S \cup T) = Cardinality(S) + Cardinality(T) - Cardinality(S \cap T)
  BY FS_Union
<1> QED
  BY <1>1, <1>2, <1>3

(* No byte gets lost in Carved: what was in the list is still in it, or    *)
(* among the bytes handed out.                                             *)
LEMMA CarvedKeeps ==
  ASSUME vm_freerg_list \in Seq(Region),
         NEW k \in DOMAIN vm_freerg_list, NEW size \in Nat, Fits(k, size),
         NEW i \in DOMAIN vm_freerg_list, NEW b \in Bytes(vm_freerg_list[i])
  PROVE  \/ \E j \in DOMAIN Carved(k, size) : b \in Bytes(Carved(k, size)[j])
         \/ b \in Bytes(Rg(vm_freerg_list[k].rg_start, vm_freerg_list[k].rg_start + size))
<1> DEFINE list == vm_freerg_list
<1>1. /\ list[k] \in Region /\ list[i] \in Region
      /\ k \in 1..Len(list) /\ i \in 1..Len(list) /\ Len(list) \in Nat
  OBVIOUS
<1>2. PICK taken : taken = Rg(list[k].rg_start, list[k].rg_start + size)
  OBVIOUS
<1>3. b \in Int /\ list[i].rg_start <= b /\ b < list[i].rg_end
  BY <1>1 DEF Bytes, Region
<1>4. i = k => b \in Bytes(taken) \/ list[k].rg_start + size <= b
  BY <1>1, <1>2, <1>3 DEF Bytes, Rg, Region
<1>5. CASE list[k].rg_start + size < list[k].rg_end
  <2>1. PICK rg : rg = [list[k] EXCEPT !.rg_start = @ + size]
    OBVIOUS
  <2>2. rg.rg_start = list[k].rg_start + size /\ rg.rg_end = list[k].rg_end
    BY <1>1, <2>1 DEF Region
  <2>3. PICK new : new = [list EXCEPT ![k] = rg]
    OBVIOUS
  <2>4. Carved(k, size) = new
    BY <1>5, <2>1, <2>3 DEF Carved
  <2>5. DOMAIN new = DOMAIN list /\ new[i] = IF i = k THEN rg ELSE list[i]
    BY <2>3
  <2>6. b \in Bytes(new[i]) \/ b \in Bytes(taken)
    BY <1>1, <1>3, <1>4, <2>2, <2>5 DEF Bytes, Region
  <2> QED
    BY <1>2, <2>4, <2>5, <2>6
<1>6. CASE ~(list[k].rg_start + size < list[k].rg_end) /\ k < Len(list)
  <2>1. PICK new : new = [j \in 1..(Len(list) - 1) |-> IF j < k THEN list[j] ELSE list[j + 1]]
    OBVIOUS
  <2>2. Carved(k, size) = new
    BY <1>6, <2>1 DEF Carved
  <2>3. CASE i = k
    BY <1>1, <1>2, <1>3, <1>4, <1>6, <2>3 DEF Region
  <2>4. CASE i < k
    BY <1>1, <2>1, <2>2, <2>4
  <2>5. CASE i > k
    <3>1. i - 1 \in DOMAIN new /\ new[i - 1] = list[i]
      BY <1>1, <2>1, <2>5
    <3> QED
      BY <2>2, <3>1
  <2> QED
    BY <1>1, <2>3, <2>4, <2>5
<1>7. CASE ~(list[k].rg_start + size < list[k].rg_end) /\ ~(k < Len(list))
  <2>1. PICK rg : rg = [list[k] EXCEPT !.rg_start = list[k].rg_end]
    OBVIOUS
  <2>2. PICK new : new = [list EXCEPT ![k] = rg]
    OBVIOUS
  <2>3. Carved(k, size) = new
    BY <1>7, <2>1, <2>2 DEF Carved
  <2>4. CASE i = k
    BY <1>1, <1>2, <1>3, <1>4, <1>7, <2>4 DEF Region
  <2>5. CASE i # k
    BY <2>2, <2>3, <2>5
  <2> QED
    BY <2>4, <2>5
<1> QED
  BY <1>5, <1>6, <1>7

(* Disjoint regions have no byte in common.                                *)
LEMMA DisjointBytes ==
  ASSUME NEW a \in Region, NEW b \in Region, Disjoint(a, b)
  PROVE  Bytes(a) \cap Bytes(b) = {}
<1> SUFFICES ASSUME NEW x \in Bytes(a), x \in Bytes(b)
             PROVE  FALSE
  OBVIOUS
<1> QED
  BY DEF Region, Disjoint, Length, Bytes

(* A symbol given other bytes leaves its former ones unclaimed, and only   *)
(* those: taken are bytes of the free list, or above the break.            *)
LEMMA OldBytesLeak ==
  ASSUME RInv, RInv', NEW r \in RgIds,
         Unclaimed' = Unclaimed \cup Bytes(symrgtbl[r]),
         leaked' = leaked + Length(symrgtbl[r]),
         BytesConserved
  PROVE  BytesConserved'
<1>1. symrgtbl[r] \in Region /\ Ordered(symrgtbl[r]) /\ sbrk \in Nat
  BY DEF RInv, RegionsTypeOK, RegionsOrdered
<1>2. IsFiniteSet(Unclaimed)
  BY <1>1, UnclaimedFinite
<1>3. IsFiniteSet(Bytes(symrgtbl[r])) /\ Cardinality(Bytes(symrgtbl[r])) = Length(symrgtbl[r])
  BY <1>1, BytesCounted
<1>4. Unclaimed \cap Bytes(symrgtbl[r]) = {}
  BY DEF Unclaimed
<1>5. Cardinality(Unclaimed') = Cardinality(Unclaimed) + Length(symrgtbl[r])
  BY <1>2, <1>3, <1>4, CountedApart
<1> QED
  BY <1>5 DEF BytesConserved

LEMMA AllocFromFreeListConserves ==
  ASSUME RInv, RInv', BytesConserved, NEW r \in RgIds, NEW size \in Nat,
         AllocFromFreeList(r, size)
  PROVE  BytesConserved'
<1>1. PICK k \in DOMAIN vm_freerg_list :
        /\ Fits(k, size)
        /\ symrgtbl' = [symrgtbl EXCEPT ![r] = Rg(vm_freerg_list[k].rg_start,
                                                  vm_freerg_list[k].rg_start + size)]
        /\ vm_freerg_list' = Carved(k, size)
        /\ leaked' = leaked + Length(symrgtbl[r])
        /\ sbrk' = sbrk
  BY DEF AllocFromFreeList, FirstFit
<1>2. PICK taken : taken = Rg(vm_freerg_list[k].rg_start, vm_freerg_list[k].rg_start + size)
  OBVIOUS
<1>3. /\ symrgtbl \in [RgIds -> Region] /\ vm_freerg_list \in Seq(Region) /\ sbrk \in Nat
      /\ \A x \in RgIds : symrgtbl[x] \in Region
      /\ \A j \in DOMAIN vm_freerg_list :
           vm_freerg_list[j] \in Region /\ Ordered(vm_freerg_list[j])
  BY DEF RInv, RegionsTypeOK, RegionsOrdered
<1>4. \A x \in RgIds : symrgtbl'[x] = IF x = r THEN taken ELSE symrgtbl[x]
  BY <1>1, <1>2, <1>3
<1>5. CarvedWell(k, size, vm_freerg_list')
  BY <1>1, <1>3, CarvedParts
<1>6. Bytes(taken) \subseteq Bytes(vm_freerg_list[k])
  BY <1>1, <1>2, <1>3 DEF Fits, Rg, Region, Bytes
<1>7. \A j \in DOMAIN vm_freerg_list' :
        \E i \in DOMAIN vm_freerg_list : Bytes(vm_freerg_list'[j]) \subseteq Bytes(vm_freerg_list[i])
  <2> SUFFICES ASSUME NEW j \in DOMAIN vm_freerg_list'
               PROVE  \E i \in DOMAIN vm_freerg_list :
                        Bytes(vm_freerg_list'[j]) \subseteq Bytes(vm_freerg_list[i])
    OBVIOUS
  <2>1. PICK i \in DOMAIN vm_freerg_list : Within(vm_freerg_list'[j], vm_freerg_list[i])
    BY <1>5 DEF CarvedWell
  <2>2. vm_freerg_list'[j] \in Region /\ vm_freerg_list[i] \in Region
    BY <1>3 DEF RInv, RegionsTypeOK
  <2> QED
    BY <2>1, <2>2 DEF Within, Region, Bytes
<1>8. \A i \in DOMAIN vm_freerg_list : \A b : b \in Bytes(vm_freerg_list[i]) =>
        \/ b \in Bytes(taken)
        \/ \E j \in DOMAIN vm_freerg_list' : b \in Bytes(vm_freerg_list'[j])
  BY <1>1, <1>2, <1>3, CarvedKeeps
<1>9. Unclaimed' = Unclaimed \cup Bytes(symrgtbl[r])
  <2>1. ASSUME NEW b \in Unclaimed PROVE b \in Unclaimed'
    BY <1>1, <1>4, <1>6, <1>7, <2>1 DEF Unclaimed
  <2>2. ASSUME NEW b \in Bytes(symrgtbl[r]) PROVE b \in Unclaimed'
    <3>1. b \in 0..(sbrk - 1)
      BY <1>3, <2>2 DEF RInv, RegionsInArea, Bytes, Region
    <3>2. \A x \in RgIds : x # r => b \notin Bytes(symrgtbl[x])
      <4> SUFFICES ASSUME NEW x \in RgIds, x # r PROVE b \notin Bytes(symrgtbl[x])
        OBVIOUS
      <4>1. Disjoint(symrgtbl[x], symrgtbl[r])
        BY DEF RInv, RegionsDisjoint
      <4> QED
        BY <1>3, <2>2, <4>1, DisjointBytes
    <3>3. \A i \in DOMAIN vm_freerg_list : b \notin Bytes(vm_freerg_list[i])
      <4> SUFFICES ASSUME NEW i \in DOMAIN vm_freerg_list
                   PROVE  b \notin Bytes(vm_freerg_list[i])
        OBVIOUS
      <4>1. Disjoint(symrgtbl[r], vm_freerg_list[i])
        BY DEF RInv, RegionsDisjoint
      <4> QED
        BY <1>3, <2>2, <4>1, DisjointBytes
    <3> QED
      BY <1>1, <1>4, <1>6, <1>7, <3>1, <3>2, <3>3 DEF Unclaimed
  <2>3. ASSUME NEW b \in Unclaimed', b \notin Bytes(symrgtbl[r])
        PROVE  b \in Unclaimed
    <3>1. /\ b \in 0..(sbrk - 1)
          /\ \A x \in RgIds : b \notin Bytes(symrgtbl'[x])
          /\ \A j \in DOMAIN vm_freerg_list' : b \notin Bytes(vm_freerg_list'[j])
      BY <1>1, <2>3 DEF Unclaimed
    <3>2. b \notin Bytes(taken)
      BY <1>4, <3>1
    <3>3. \A i \in DOMAIN vm_freerg_list : b \notin Bytes(vm_freerg_list[i])
      BY <1>8, <3>1, <3>2
    <3>4. \A x \in RgIds : b \notin Bytes(symrgtbl[x])
      BY <1>4, <2>3, <3>1
    <3> QED
      BY <3>1, <3>3, <3>4 DEF Unclaimed
  <2> QED
    BY <2>1, <2>2, <2>3
<1> QED
  BY <1>1, <1>9, OldBytesLeak

LEMMA AllocAtBreakConserves ==
  ASSUME RInv, RInv', BytesConserved, NEW r \in RgIds, NEW size \in Nat,
         AllocAtBreak(r, size)
  PROVE  BytesConserved'
<1>1. /\ symrgtbl' = [symrgtbl EXCEPT ![r] = Rg(sbrk, sbrk + size)]
      /\ vm_freerg_list' = vm_freerg_list
      /\ sbrk' = sbrk + size
      /\ leaked' = leaked + Length(symrgtbl[r])
  BY DEF AllocAtBreak, inc_vma_limit
<1>2. PICK taken : taken = Rg(sbrk, sbrk + size)
  OBVIOUS
<1>3. /\ symrgtbl \in [RgIds -> Region] /\ sbrk \in Nat
      /\ \A x \in RgIds : symrgtbl[x] \in Region
      /\ \A j \in DOMAIN vm_freerg_list : vm_freerg_list[j] \in Region
  BY DEF RInv, RegionsTypeOK
<1>4. /\ \A x \in RgIds : symrgtbl[x].rg_end <= sbrk
      /\ \A j \in DOMAIN vm_freerg_list : vm_freerg_list[j].rg_end <= sbrk
  BY DEF RInv, RegionsInArea
<1>5. \A x \in RgIds : symrgtbl'[x] = IF x = r THEN taken ELSE symrgtbl[x]
  BY <1>1, <1>2, <1>3
<1>6. Bytes(taken) = sbrk..(sbrk + size - 1)
  <2>1. taken.rg_start = sbrk /\ taken.rg_end = sbrk + size
    BY <1>2 DEF Rg
  <2>2. taken.rg_end - 1 = sbrk + size - 1
    BY <1>3, <2>1
  <2> QED
    BY <2>1, <2>2 DEF Bytes
<1>7. /\ 0..(sbrk' - 1) = 0..(sbrk - 1) \cup Bytes(taken)
      /\ 0..(sbrk - 1) \cap Bytes(taken) = {}
  BY <1>1, <1>3, <1>6
<1>8. /\ \A x \in RgIds : Bytes(symrgtbl[x]) \subseteq 0..(sbrk - 1)
      /\ \A j \in DOMAIN vm_freerg_list : Bytes(vm_freerg_list[j]) \subseteq 0..(sbrk - 1)
  BY <1>3, <1>4 DEF Bytes, Region
<1>9. /\ \A x \in RgIds : x # r => Bytes(symrgtbl[x]) \cap Bytes(symrgtbl[r]) = {}
      /\ \A j \in DOMAIN vm_freerg_list :
           Bytes(vm_freerg_list[j]) \cap Bytes(symrgtbl[r]) = {}
  <2>1. \A x \in RgIds : x # r => Disjoint(symrgtbl[x], symrgtbl[r])
    BY DEF RInv, RegionsDisjoint
  <2>2. \A j \in DOMAIN vm_freerg_list : Disjoint(symrgtbl[r], vm_freerg_list[j])
    BY DEF RInv, RegionsDisjoint
  <2>3. \A j \in DOMAIN vm_freerg_list :
          Bytes(symrgtbl[r]) \cap Bytes(vm_freerg_list[j]) = {}
    BY <1>3, <2>2, DisjointBytes
  <2>4. \A x \in RgIds : x # r => Bytes(symrgtbl[x]) \cap Bytes(symrgtbl[r]) = {}
    BY <1>3, <2>1, DisjointBytes
  <2> QED
    BY <2>3, <2>4
<1>10. Unclaimed' = Unclaimed \cup Bytes(symrgtbl[r])
  <2>1. ASSUME NEW b \in Unclaimed PROVE b \in Unclaimed'
    BY <1>1, <1>5, <1>7, <2>1 DEF Unclaimed
  <2>2. ASSUME NEW b \in Bytes(symrgtbl[r]) PROVE b \in Unclaimed'
    BY <1>1, <1>5, <1>7, <1>8, <1>9, <2>2 DEF Unclaimed
  <2>3. ASSUME NEW b \in Unclaimed', b \notin Bytes(symrgtbl[r])
        PROVE  b \in Unclaimed
    BY <1>1, <1>5, <1>7, <2>3 DEF Unclaimed
  <2> QED
    BY <2>1, <2>2, <2>3
<1> QED
  BY <1>1, <1>10, OldBytesLeak

LEMMA FreeConserves ==
  ASSUME RInv, BytesConserved, NEW r \in RgIds, Free(r)
  PROVE  BytesConserved'
<1>1. /\ symrgtbl' = [symrgtbl EXCEPT ![r] = NullRegion]
      /\ sbrk' = sbrk /\ leaked' = leaked
  BY DEF Free
<1>2. /\ symrgtbl \in [RgIds -> Region] /\ vm_freerg_list \in Seq(Region)
      /\ symrgtbl[r] \in Region
  BY DEF RInv, RegionsTypeOK
<1>3. Bytes(NullRegion) = {}
  BY DEF NullRegion, Rg, Bytes
<1>4. \A x \in RgIds : symrgtbl'[x] = IF x = r THEN NullRegion ELSE symrgtbl[x]
  BY <1>1, <1>2
<1>5. \A b : (\E j \in DOMAIN vm_freerg_list' : b \in Bytes(vm_freerg_list'[j]))
         <=> \/ b \in Bytes(symrgtbl[r])
             \/ \E k \in DOMAIN vm_freerg_list : b \in Bytes(vm_freerg_list[k])
  <2>1. CASE Length(symrgtbl[r]) > 0
    <3>1. PICK new : new = << symrgtbl[r] >> \o vm_freerg_list
      OBVIOUS
    <3>2. vm_freerg_list' = new
      BY <2>1, <3>1 DEF Free
    <3>3. /\ Len(new) = Len(vm_freerg_list) + 1 /\ DOMAIN new = 1..Len(new)
          /\ new[1] = symrgtbl[r]
          /\ \A k \in DOMAIN vm_freerg_list :
               k + 1 \in DOMAIN new /\ new[k + 1] = vm_freerg_list[k]
          /\ \A j \in DOMAIN new : j # 1 =>
               j - 1 \in DOMAIN vm_freerg_list /\ new[j] = vm_freerg_list[j - 1]
      BY <1>2, <3>1
    <3>4. 1 \in DOMAIN new
      BY <1>2, <3>3
    <3> QED
      BY <3>2, <3>3, <3>4
  <2>2. CASE ~(Length(symrgtbl[r]) > 0)
    <3>1. Bytes(symrgtbl[r]) = {}
      BY <1>2, <2>2 DEF Bytes, Region, Length
    <3>2. vm_freerg_list' = vm_freerg_list
      BY <2>2 DEF Free
    <3> QED
      BY <3>1, <3>2
  <2> QED
    BY <2>1, <2>2
<1>6. Unclaimed' = Unclaimed
  <2>1. ASSUME NEW b \in Unclaimed PROVE b \in Unclaimed'
    BY <1>1, <1>3, <1>4, <1>5, <2>1 DEF Unclaimed
  <2>2. ASSUME NEW b \in Unclaimed' PROVE b \in Unclaimed
    BY <1>1, <1>4, <1>5, <2>2 DEF Unclaimed
  <2> QED
    BY <2>1, <2>2
<1> QED
  BY <1>1, <1>6 DEF BytesConserved

LEMMA GrowBySyscallConserves ==
  ASSUME RInv, BytesConserved, NEW size \in Nat, GrowBySyscall(size)
  PROVE  BytesConserved'
<1>1. /\ symrgtbl' = symrgtbl /\ vm_freerg_list' = vm_freerg_list
      /\ sbrk' = sbrk + size /\ leaked' = leaked + size
  BY DEF GrowBySyscall, inc_vma_limit
<1>2. /\ sbrk \in Nat
      /\ \A x \in RgIds : symrgtbl[x] \in Region
      /\ \A k \in DOMAIN vm_freerg_list : vm_freerg_list[k] \in Region
  BY DEF RInv, RegionsTypeOK
<1>3. PICK new : new = Rg(sbrk, sbrk + size)
  OBVIOUS
<1>4. new \in Region /\ Ordered(new) /\ Length(new) = size
      /\ Bytes(new) = sbrk..(sbrk + size - 1)
  BY <1>2, <1>3 DEF Rg, Region, Ordered, Length, Bytes
<1>5. /\ 0..(sbrk' - 1) = 0..(sbrk - 1) \cup Bytes(new)
      /\ 0..(sbrk - 1) \cap Bytes(new) = {}
  BY <1>1, <1>2, <1>4
<1>6. /\ \A x \in RgIds : Bytes(symrgtbl[x]) \subseteq 0..(sbrk - 1)
      /\ \A k \in DOMAIN vm_freerg_list : Bytes(vm_freerg_list[k]) \subseteq 0..(sbrk - 1)
  BY <1>2 DEF RInv, RegionsInArea, Bytes, Region
<1>7. Unclaimed' = Unclaimed \cup Bytes(new)
  <2>1. ASSUME NEW b \in Unclaimed PROVE b \in Unclaimed'
    BY <1>1, <1>5, <2>1 DEF Unclaimed
  <2>2. ASSUME NEW b \in Bytes(new) PROVE b \in Unclaimed'
    BY <1>1, <1>5, <1>6, <2>2 DEF Unclaimed
  <2>3. ASSUME NEW b \in Unclaimed', b \notin Bytes(new) PROVE b \in Unclaimed
    BY <1>1, <1>5, <2>3 DEF Unclaimed
  <2> QED
    BY <2>1, <2>2, <2>3
<1>8. Unclaimed \cap Bytes(new) = {}
  BY <1>5 DEF Unclaimed
<1>9. Cardinality(Unclaimed') = Cardinality(Unclaimed) + size
  <2>1. IsFiniteSet(Bytes(new)) /\ Cardinality(Bytes(new)) = size
    BY <1>4, BytesCounted
  <2> QED
    BY <1>2, <1>7, <1>8, <2>1, UnclaimedFinite, CountedApart
<1> QED
  BY <1>1, <1>9 DEF BytesConserved

(* Whatever __alloc, __free and inc_vma_limit do to the list and the       *)
(* break, the bytes nobody has are those counted as given up: first fit    *)
(* loses none and hands out none twice.                                    *)
THEOREM BytesConservedCorrect == RegionsSpec => []BytesConserved
<1>1. RegionsInit => BytesConserved
  <2> SUFFICES ASSUME RegionsInit PROVE BytesConserved
    OBVIOUS
  <2>1. sbrk = 0 /\ leaked = 0
    BY DEF RegionsInit
  <2>2. Unclaimed = {}
    BY <2>1 DEF Unclaimed
  <2> QED
    BY <2>1, <2>2, FS_EmptySet DEF BytesConserved
<1>2. RInv /\ RInv' /\ BytesConserved /\ [RegionsNext]_regionVars => BytesConserved'
  <2> SUFFICES ASSUME RInv, RInv', BytesConserved, [RegionsNext]_regionVars
               PROVE  BytesConserved'
    OBVIOUS
  <2>1. \A size \in Sizes : size \in Nat
    BY RegionsAssumption
  <2>2. CASE \E r \in RgIds, size \in Sizes : AllocFromFreeList(r, size)
    BY <2>1, <2>2, AllocFromFreeListConserves
  <2>3. CASE \E r \in RgIds, size \in Sizes : AllocAtBreak(r, size)
    BY <2>1, <2>3, AllocAtBreakConserves
  <2>4. CASE \E r \in RgIds : Free(r)
    BY <2>4, FreeConserves
  <2>5. CASE \E size \in Sizes : GrowBySyscall(size)
    BY <2>1, <2>5, GrowBySyscallConserves
  <2>6. CASE UNCHANGED regionVars
    BY <2>6 DEF regionVars, BytesConserved, Unclaimed
  <2> QED
    BY <2>2, <2>3, <2>4, <2>5, <2>6 DEF RegionsNext
<1> QED
  BY <1>1, <1>2, RegionsInvariant, PTL DEF RegionsSpec
=============================================================================
