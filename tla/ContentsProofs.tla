--------------------------- MODULE ContentsProofs --------------------------
(***************************************************************************)
(* The invariant of Paging, proved of each of its operations for any       *)
(* number of frames and pages; then VMem and Contents, for any devices,    *)
(* sizes, symbols, offsets and maps: what is proved of the regions and of  *)
(* paging holds of the two together, and what is written is kept.          *)
(*                                                                         *)
(* The properties of Paging are not inductive by themselves: which frame a *)
(* fault hands on depends on the victim being a page with an entry, and    *)
(* on no entry losing its present flag when it is swapped out.             *)
(***************************************************************************)
EXTENDS Contents, RegionsProofs

FifoPresent == \A p \in ToSet(fifo_pgn) : pte[p].present

SwappedPresent == \A p \in Pages : pte[p].swapped => pte[p].present

FramesInRam == ~strayed => \A p \in Resident : PAGING_FPN(pte[p]) < NumRam

SlotsDistinct == IsInjective(mswp_free)

PInv ==
  /\ PagingTypeOK
  /\ FifoPresent
  /\ SwappedPresent
  /\ FramesInRam
  /\ SlotsDistinct
  /\ FramesExclusive
  /\ SwapSlotsExclusive
  /\ ResidentEvictable

-----------------------------------------------------------------------------
(* Entries                                                                 *)

(* The low bits of a number can be replaced by any smaller number.         *)
LEMMA LowBits ==
  ASSUME NEW a \in Nat, NEW b \in Nat, NEW m \in Nat \ {0}, b < m
  PROVE  a - (a % m) + b \in Nat /\ (a - (a % m) + b) % m = b
<1> DEFINE q == a \div m
<1>1. a = m * q + (a % m) /\ a % m \in 0..(m - 1) /\ q \in Nat
  OBVIOUS
<1>2. a - (a % m) + b = m * q + b
  BY <1>1
<1> HIDE DEF q
<1>3. (m * q + b) % m = b
  BY <1>1
<1> QED
  BY <1>1, <1>2, <1>3

LEMMA FrameNumber ==
  ASSUME NEW e \in PTE
  PROVE  PAGING_FPN(e) \in Nat
  BY PagingAssumption DEF PTE, PAGING_FPN

(* pte_set_fpn keeps a frame number of the RAM, whatever the entry was.     *)
LEMMA FpnEntryIs ==
  ASSUME NEW e \in PTE, NEW f \in Nat
  PROVE  /\ FpnEntry(e, f) \in PTE
         /\ FpnEntry(e, f).present /\ ~FpnEntry(e, f).swapped
         /\ f < NumRam => PAGING_FPN(FpnEntry(e, f)) = f
<1> DEFINE g == f % FpnRange
<1>1. /\ g < FpnRange /\ g \in Nat /\ FpnRange \in Nat \ {0} /\ e.num \in Nat
      /\ f < NumRam => g = f
  BY PagingAssumption DEF PTE
<1> HIDE DEF g
<1>2. /\ e.num - (e.num % FpnRange) + g \in Nat
      /\ (e.num - (e.num % FpnRange) + g) % FpnRange = g
  BY <1>1, LowBits
<1> QED
  BY <1>1, <1>2 DEF FpnEntry, PTE, PAGING_FPN, g

(* pte_set_swap keeps the swap frame.                                      *)
LEMMA SwapEntryIs ==
  ASSUME NEW s \in Nat
  PROVE  /\ SwapEntry(s) \in PTE
         /\ SwapEntry(s).present /\ SwapEntry(s).swapped
         /\ SwapEntry(s).num % SwpShift = 0
         /\ PAGING_SWP(SwapEntry(s)) = s
<1>1. SwpShift \in Nat \ {0}
  BY PagingAssumption
<1>2. s * SwpShift \in Nat /\ (s * SwpShift) % SwpShift = 0
      /\ (s * SwpShift) \div SwpShift = s
  BY <1>1
<1> QED
  BY <1>2 DEF SwapEntry, PTE, PAGING_SWP

-----------------------------------------------------------------------------
(* Lists                                                                   *)

LEMMA ElementIs ==
  ASSUME NEW S, NEW s \in Seq(S)
  PROVE  /\ Len(s) \in Nat /\ DOMAIN s = 1..Len(s)
         /\ \A i \in 1..Len(s) : s[i] \in S
         /\ ToSet(s) \subseteq S
  BY DEF ToSet

LEMMA ReverseIs ==
  ASSUME NEW S, NEW s \in Seq(S)
  PROVE  /\ Reverse(s) \in Seq(S)
         /\ ToSet(Reverse(s)) = ToSet(s)
         /\ IsInjective(s) => IsInjective(Reverse(s))
<1>1. Len(s) \in Nat /\ \A i \in 1..Len(s) : s[i] \in S
  OBVIOUS
<1>2. \A i \in 1..Len(s) : Len(s) - i + 1 \in 1..Len(s)
  BY <1>1
<1>3. Reverse(s) \in Seq(S) /\ DOMAIN Reverse(s) = 1..Len(s)
  BY <1>1, <1>2 DEF Reverse
<1>4. \A i \in 1..Len(s) : Reverse(s)[i] = s[Len(s) - i + 1]
  BY DEF Reverse
<1>5. \A i \in 1..Len(s) : s[i] = Reverse(s)[Len(s) - i + 1]
  BY <1>1, <1>2, <1>4
<1>6. ToSet(Reverse(s)) = ToSet(s)
  BY <1>2, <1>3, <1>4, <1>5 DEF ToSet
<1>7. IsInjective(s) => IsInjective(Reverse(s))
  BY <1>1, <1>2, <1>3, <1>4 DEF IsInjective
<1> QED
  BY <1>3, <1>6, <1>7

LEMMA ConcatIs ==
  ASSUME NEW S, NEW s \in Seq(S), NEW t \in Seq(S)
  PROVE  s \o t \in Seq(S) /\ ToSet(s \o t) = ToSet(s) \cup ToSet(t)
<1>1. s \o t \in Seq(S) /\ Len(s \o t) = Len(s) + Len(t)
  OBVIOUS
<1>2. \A i \in 1..(Len(s) + Len(t)) :
        (s \o t)[i] = IF i <= Len(s) THEN s[i] ELSE t[i - Len(s)]
  OBVIOUS
<1>3. \A i \in 1..Len(s) : i \in 1..(Len(s) + Len(t)) /\ (s \o t)[i] = s[i]
  BY <1>2
<1>4. \A i \in 1..Len(t) : /\ Len(s) + i \in 1..(Len(s) + Len(t))
                            /\ (s \o t)[Len(s) + i] = t[i]
  BY <1>2
<1>5. \A i \in 1..(Len(s) + Len(t)) : i <= Len(s) \/ i - Len(s) \in 1..Len(t)
  OBVIOUS
<1>6. DOMAIN s = 1..Len(s) /\ DOMAIN t = 1..Len(t)
      /\ DOMAIN (s \o t) = 1..(Len(s) + Len(t))
  BY <1>1
<1>7. ToSet(s \o t) \subseteq ToSet(s) \cup ToSet(t)
  BY <1>2, <1>5, <1>6 DEF ToSet
<1>8. ToSet(s) \subseteq ToSet(s \o t) /\ ToSet(t) \subseteq ToSet(s \o t)
  BY <1>3, <1>4, <1>6 DEF ToSet
<1> QED
  BY <1>1, <1>7, <1>8

LEMMA EnlistIs ==
  ASSUME NEW S, NEW x \in S, NEW t \in Seq(S)
  PROVE  << x >> \o t \in Seq(S) /\ ToSet(<< x >> \o t) = {x} \cup ToSet(t)
<1>1. << x >> \in Seq(S)
  OBVIOUS
<1>2. ToSet(<< x >>) = {x}
  BY DEF ToSet
<1>3. << x >> \o t \in Seq(S) /\ ToSet(<< x >> \o t) = ToSet(<< x >>) \cup ToSet(t)
  BY <1>1, ConcatIs
<1> QED
  BY <1>2, <1>3

LEMMA FrontIs ==
  ASSUME NEW S, NEW s \in Seq(S), s # << >>
  PROVE  /\ Front(s) \in Seq(S) /\ Last(s) \in ToSet(s)
         /\ Last(s) \in S /\ ToSet(s) = ToSet(Front(s)) \cup {Last(s)}
<1>1. Len(s) \in Nat \ {0} /\ DOMAIN s = 1..Len(s)
  OBVIOUS
<1>2. /\ Front(s) \in Seq(S) /\ DOMAIN Front(s) = 1..(Len(s) - 1)
      /\ \A i \in 1..(Len(s) - 1) : Front(s)[i] = s[i]
  BY <1>1 DEF Front
<1>3. Last(s) = s[Len(s)] /\ Len(s) \in 1..Len(s)
  BY <1>1 DEF Last
<1>4. 1..Len(s) = 1..(Len(s) - 1) \cup {Len(s)}
  BY <1>1
<1> QED
  BY <1>1, <1>2, <1>3, <1>4 DEF ToSet

LEMMA TailIs ==
  ASSUME NEW S, NEW s \in Seq(S), s # << >>
  PROVE  /\ Tail(s) \in Seq(S) /\ Head(s) \in S /\ Head(s) \in ToSet(s)
         /\ ToSet(Tail(s)) \subseteq ToSet(s)
         /\ IsInjective(s) => IsInjective(Tail(s)) /\ Head(s) \notin ToSet(Tail(s))
<1>1. Len(s) \in Nat \ {0} /\ DOMAIN s = 1..Len(s) /\ Head(s) = s[1]
  OBVIOUS
<1>2. /\ Tail(s) \in Seq(S) /\ DOMAIN Tail(s) = 1..(Len(s) - 1)
      /\ \A i \in 1..(Len(s) - 1) : Tail(s)[i] = s[i + 1] /\ i + 1 \in 1..Len(s)
  BY <1>1
<1>3. 1 \in 1..Len(s)
  BY <1>1
<1>4. ToSet(Tail(s)) \subseteq ToSet(s) /\ Head(s) \in ToSet(s)
  BY <1>1, <1>2, <1>3 DEF ToSet
<1>5. ASSUME IsInjective(s)
      PROVE  IsInjective(Tail(s)) /\ Head(s) \notin ToSet(Tail(s))
  BY <1>1, <1>2, <1>3, <1>5 DEF ToSet, IsInjective
<1> QED
  BY <1>1, <1>2, <1>3, <1>4, <1>5

LEMMA SuffixIs ==
  ASSUME NEW S, NEW s \in Seq(S), NEW n \in Nat, n <= Len(s)
  PROVE  LET t == SubSeq(s, n + 1, Len(s))
         IN  /\ t \in Seq(S) /\ ToSet(t) \subseteq ToSet(s)
             /\ IsInjective(s) => /\ IsInjective(t)
                                  /\ \A i \in 1..n : s[i] \notin ToSet(t)
<1> DEFINE t == SubSeq(s, n + 1, Len(s))
<1>1. Len(s) \in Nat /\ DOMAIN s = 1..Len(s)
  OBVIOUS
<1>2. /\ t \in Seq(S) /\ DOMAIN t = 1..(Len(s) - n)
      /\ \A i \in 1..(Len(s) - n) : t[i] = s[n + i] /\ n + i \in 1..Len(s)
  BY <1>1
<1> HIDE DEF t
<1>3. ToSet(t) \subseteq ToSet(s)
  BY <1>1, <1>2 DEF ToSet
<1>4. ASSUME IsInjective(s)
      PROVE  IsInjective(t) /\ \A i \in 1..n : s[i] \notin ToSet(t)
  <2>1. ASSUME NEW i \in DOMAIN s, NEW j \in DOMAIN s, s[i] = s[j]
        PROVE  i = j
    BY <1>4, <2>1 DEF IsInjective
  <2>2. ASSUME NEW i \in DOMAIN t, NEW j \in DOMAIN t, t[i] = t[j]
        PROVE  i = j
    <3>1. n + i \in DOMAIN s /\ n + j \in DOMAIN s /\ s[n + i] = s[n + j]
      BY <1>1, <1>2, <2>2
    <3>2. n + i = n + j
      BY <2>1, <3>1
    <3> QED
      BY <1>1, <1>2, <3>2
  <2>3. ASSUME NEW i \in 1..n, NEW j \in DOMAIN t, s[i] = t[j]
        PROVE  FALSE
    <3>1. i \in DOMAIN s /\ n + j \in DOMAIN s /\ s[i] = s[n + j]
      BY <1>1, <1>2, <2>3
    <3>2. i = n + j
      BY <2>1, <3>1
    <3> QED
      BY <1>1, <1>2, <3>2
  <2> QED
    BY <2>2, <2>3 DEF IsInjective, ToSet
<1> QED
  BY <1>2, <1>3, <1>4 DEF t

-----------------------------------------------------------------------------
(* init_mm and MEMPHY_format establish the invariant.                      *)
LEMMA InitPaging == PagingInit => PInv
<1> SUFFICES ASSUME PagingInit PROVE PInv
  OBVIOUS
<1>1. NumRam \in Nat /\ NumSwp \in Nat /\ NumRam > 1
  BY PagingAssumption
<1>2. /\ pte = [p \in Pages |-> [present |-> FALSE, swapped |-> FALSE, num |-> 0]]
      /\ fifo_pgn = << >> /\ wild = FALSE /\ strayed = FALSE
      /\ mram_free = [n \in 1..NumRam |-> n - 1]
      /\ mswp_free = [n \in 1..NumSwp |-> n - 1]
  BY DEF PagingInit
<1>3. mram_free \in Seq(0..(NumRam - 1)) /\ mswp_free \in Seq(0..(NumSwp - 1))
  BY <1>1, <1>2
<1>4. [present |-> FALSE, swapped |-> FALSE, num |-> 0] \in PTE
  BY DEF PTE
<1>5. pte \in [Pages -> PTE]
  BY <1>2, <1>4
<1>6. PagingTypeOK
  <2>1. << >> \in Seq(Pages)
    OBVIOUS
  <2>2. fifo_pgn \in Seq(Pages)
    BY <1>2, <2>1
  <2>3. wild \in BOOLEAN /\ strayed \in BOOLEAN
    BY <1>2
  <2> QED
    BY <1>3, <1>5, <2>2, <2>3 DEF PagingTypeOK
<1>7. Resident = {} /\ InSwap = {}
  BY <1>2 DEF Resident, InSwap
<1>8. IsInjective(mram_free) /\ IsInjective(mswp_free)
  BY <1>1, <1>2 DEF IsInjective
<1>9. ToSet(fifo_pgn) = {}
  BY <1>2 DEF ToSet
<1> QED
  BY <1>2, <1>6, <1>7, <1>8, <1>9 DEF PInv, FifoPresent, SwappedPresent, FramesInRam,
     SlotsDistinct, FramesExclusive, SwapSlotsExclusive, ResidentEvictable

-----------------------------------------------------------------------------
(* vm_map_ram and vmap_pgd_memset                                          *)

(* Both branches of vm_map_ram keep every frame in one place: those mapped *)
(* have left the list, and those given back are the ones taken.            *)
LEMMA MapFramesInvariant ==
  ASSUME PInv, NEW start \in Nat, NEW n \in Nat, n <= Len(mram_free),
         MappedPage(start, n) <= MaxPage, MapFrames(start, n),
         UNCHANGED << mswp_free, wild, strayed >>
  PROVE  PInv'
<1> DEFINE b == start \div Ratio
           new == {p \in Pages : \E m \in 1..n : p = MappedPage(start, m)}
           list == [m \in 1..n |-> MappedPage(start, m)]
<1>1. b \in Nat /\ MaxPage \in Nat
  BY PagingAssumption
<1>2. /\ pte \in [Pages -> PTE] /\ fifo_pgn \in Seq(Pages)
      /\ mram_free \in Seq(0..(NumRam - 1)) /\ mswp_free \in Seq(0..(NumSwp - 1))
      /\ strayed \in BOOLEAN /\ wild \in BOOLEAN
  BY DEF PInv, PagingTypeOK
<1>3. \A m \in 1..n : MappedPage(start, m) = b + m - 1 /\ MappedPage(start, m) \in Pages
  <2> SUFFICES ASSUME NEW m \in 1..n
               PROVE  MappedPage(start, m) = b + m - 1 /\ MappedPage(start, m) \in Pages
    OBVIOUS
  <2>1. MappedPage(start, m) = b + m - 1 /\ MappedPage(start, n) = b + n - 1
    BY DEF MappedPage
  <2> HIDE DEF b
  <2> QED
    BY <1>1, <2>1 DEF Pages
<1>4. \A p \in new : p - b + 1 \in 1..n /\ p \in Nat
  <2> SUFFICES ASSUME NEW p \in new PROVE p - b + 1 \in 1..n /\ p \in Nat
    OBVIOUS
  <2>1. PICK m \in 1..n : p = MappedPage(start, m)
    OBVIOUS
  <2>2. p = b + m - 1
    BY <1>3, <2>1
  <2> HIDE DEF b, new
  <2> QED
    BY <1>1, <2>2
<1>5. \A p \in Pages :
        pte'[p] = IF p \in new THEN FpnEntry(pte[p], mram_free[p - b + 1]) ELSE pte[p]
  BY DEF MapFrames
<1>6. /\ fifo_pgn' = Reverse(list) \o fifo_pgn
      /\ mram_free' = SubSeq(mram_free, n + 1, Len(mram_free))
      /\ pte' = [p \in Pages |-> pte'[p]]
      /\ mswp_free' = mswp_free /\ wild' = wild /\ strayed' = strayed
  BY DEF MapFrames, FramesLeft
<1>7. list \in Seq(Pages) /\ ToSet(list) = new
  <2>1. list \in Seq(Pages)
    BY <1>3
  <2>2. DOMAIN list = 1..n /\ \A m \in 1..n : list[m] = MappedPage(start, m)
    OBVIOUS
  <2> QED
    BY <1>3, <2>1, <2>2 DEF ToSet
<1> HIDE DEF b, new, list
<1>8. fifo_pgn' \in Seq(Pages) /\ ToSet(fifo_pgn') = new \cup ToSet(fifo_pgn)
  BY <1>2, <1>6, <1>7, ReverseIs, ConcatIs
<1>9. /\ mram_free' \in Seq(0..(NumRam - 1)) /\ ToSet(mram_free') \subseteq ToSet(mram_free)
      /\ IsInjective(mram_free) =>
           /\ IsInjective(mram_free')
           /\ \A i \in 1..n : mram_free[i] \notin ToSet(mram_free')
  BY <1>2, <1>6, SuffixIs
<1>10. \A i \in 1..n : mram_free[i] \in 0..(NumRam - 1) /\ i \in DOMAIN mram_free
  <2>1. /\ Len(mram_free) \in Nat /\ DOMAIN mram_free = 1..Len(mram_free)
        /\ \A i \in 1..Len(mram_free) : mram_free[i] \in 0..(NumRam - 1)
    <3>1. mram_free \in Seq(0..(NumRam - 1))
      BY <1>2
    <3> QED
      BY ONLY <3>1, ElementIs
  <2>2. \A i \in 1..n : i \in 1..Len(mram_free)
    BY <2>1
  <2> QED
    BY <2>1, <2>2
<1>11. \A p \in new : /\ p \in Pages /\ pte'[p] \in PTE
                      /\ pte'[p].present /\ ~pte'[p].swapped
                      /\ PAGING_FPN(pte'[p]) = mram_free[p - b + 1]
  <2> SUFFICES ASSUME NEW p \in new
               PROVE  /\ p \in Pages /\ pte'[p] \in PTE
                      /\ pte'[p].present /\ ~pte'[p].swapped
                      /\ PAGING_FPN(pte'[p]) = mram_free[p - b + 1]
    OBVIOUS
  <2>1. p \in Pages
    BY DEF new
  <2>2. pte[p] \in PTE /\ pte'[p] = FpnEntry(pte[p], mram_free[p - b + 1])
    BY <1>2, <1>5, <2>1
  <2>3. mram_free[p - b + 1] \in 0..(NumRam - 1)
    BY <1>4, <1>10
  <2>4. mram_free[p - b + 1] \in Nat /\ mram_free[p - b + 1] < NumRam
    BY <2>3, PagingAssumption
  <2> QED
    BY <2>1, <2>2, <2>4, FpnEntryIs
<1>12. \A p \in Pages \ new : pte'[p] = pte[p]
  BY <1>5
<1>13. PagingTypeOK'
  <2>1. pte' \in [Pages -> PTE]
    BY <1>2, <1>6, <1>11, <1>12
  <2> QED
    BY <1>2, <1>6, <1>8, <1>9, <2>1 DEF PagingTypeOK
<1>14. Resident' \subseteq Resident \cup new /\ InSwap' \subseteq InSwap \ new
  BY <1>11, <1>12 DEF Resident, InSwap
<1>15. \A p \in Resident' \ new : p \in Resident /\ pte'[p] = pte[p]
  BY <1>12, <1>14 DEF Resident
<1>16. \A p \in InSwap' : p \in InSwap /\ pte'[p] = pte[p]
  BY <1>12, <1>14 DEF InSwap
<1>17. FifoPresent'
  <2>1. ToSet(fifo_pgn) \subseteq Pages
    BY <1>2 DEF ToSet
  <2> QED
    BY <1>8, <1>11, <1>12, <2>1 DEF PInv, FifoPresent
<1>18. SwappedPresent'
  BY <1>11, <1>12 DEF PInv, SwappedPresent
<1>19. FramesInRam'
  <2>1. \A p \in new : PAGING_FPN(pte'[p]) < NumRam
    BY <1>4, <1>10, <1>11, PagingAssumption
  <2> QED
    BY <1>6, <1>15, <2>1 DEF PInv, FramesInRam
<1>20. FramesExclusive'
  <2> SUFFICES ASSUME ~strayed' PROVE FramesExclusive'
    BY DEF FramesExclusive
  <2>1. /\ \A p, q \in Resident : p # q => PAGING_FPN(pte[p]) # PAGING_FPN(pte[q])
        /\ \A p \in Resident : PAGING_FPN(pte[p]) \notin ToSet(mram_free)
        /\ IsInjective(mram_free) /\ ~wild
    BY <1>6 DEF PInv, FramesExclusive
  <2>2. \A p \in new : /\ PAGING_FPN(pte'[p]) \in ToSet(mram_free)
                       /\ PAGING_FPN(pte'[p]) \notin ToSet(mram_free')
    BY <1>4, <1>9, <1>10, <1>11, <2>1 DEF ToSet
  <2>3. ASSUME NEW p \in new, NEW q \in new, p # q
        PROVE  PAGING_FPN(pte'[p]) # PAGING_FPN(pte'[q])
    <3>1. p - b + 1 # q - b + 1
      BY <1>1, <1>4, <2>3
    <3> QED
      BY <1>4, <1>10, <1>11, <2>1, <3>1 DEF IsInjective
  <2>4. ASSUME NEW p \in Resident', NEW q \in Resident', p # q
        PROVE  PAGING_FPN(pte'[p]) # PAGING_FPN(pte'[q])
    BY <1>15, <2>1, <2>2, <2>3, <2>4
  <2>5. \A p \in Resident' : PAGING_FPN(pte'[p]) \notin ToSet(mram_free')
    BY <1>9, <1>15, <2>1, <2>2
  <2> QED
    BY <1>6, <1>9, <2>1, <2>4, <2>5 DEF FramesExclusive
<1>21. SwapSlotsExclusive'
  BY <1>6, <1>16 DEF PInv, SwapSlotsExclusive
<1>22. ResidentEvictable'
  BY <1>6, <1>8, <1>14 DEF PInv, ResidentEvictable
<1>23. SlotsDistinct'
  BY <1>6 DEF PInv, SlotsDistinct
<1> QED
  BY <1>13, <1>17, <1>18, <1>19, <1>20, <1>21, <1>22, <1>23 DEF PInv

LEMMA ReturnFramesInvariant ==
  ASSUME PInv, ReturnFrames, UNCHANGED << mswp_free, wild, strayed >>
  PROVE  PInv'
<1>1. mram_free \in Seq(0..(NumRam - 1))
  BY DEF PInv, PagingTypeOK
<1>2. /\ mram_free' \in Seq(0..(NumRam - 1)) /\ ToSet(mram_free') = ToSet(mram_free)
      /\ IsInjective(mram_free) => IsInjective(mram_free')
  BY <1>1, ReverseIs DEF ReturnFrames
<1>3. UNCHANGED << pte, fifo_pgn, mswp_free, wild, strayed >>
  BY DEF ReturnFrames
<1>4. PagingTypeOK'
  BY <1>2, <1>3 DEF PInv, PagingTypeOK
<1>5. Resident' = Resident /\ InSwap' = InSwap
  BY <1>3 DEF Resident, InSwap
<1>6. FramesExclusive'
  BY <1>2, <1>3, <1>5 DEF PInv, FramesExclusive
<1>7. FifoPresent' /\ SwappedPresent' /\ FramesInRam' /\ SlotsDistinct'
  BY <1>3, <1>5 DEF PInv, FifoPresent, SwappedPresent, FramesInRam, SlotsDistinct
<1>8. SwapSlotsExclusive' /\ ResidentEvictable'
  BY <1>3, <1>5 DEF PInv, SwapSlotsExclusive, ResidentEvictable
<1> QED
  BY <1>4, <1>6, <1>7, <1>8 DEF PInv

(* vm_map_ram, called for any number of pages.                             *)
LEMMA VmMapRamInvariant ==
  ASSUME PInv, NEW start \in Nat, NEW n \in Nat, vm_map_ram(start, n)
  PROVE  PInv'
<1>1. CASE n <= Len(mram_free)
  BY <1>1, MapFramesInvariant DEF vm_map_ram
<1>2. CASE ~(n <= Len(mram_free))
  BY <1>2, ReturnFramesInvariant DEF vm_map_ram
<1> QED
  BY <1>1, <1>2

(* vmap_pgd_memset: the pattern names no swap frame of type 0, and its two *)
(* flags make the page one that is neither resident nor in the device.     *)
LEMMA MemsetInvariant ==
  ASSUME PInv, NEW start, NEW n, vmap_pgd_memset(start, n)
  PROVE  PInv'
<1>1. /\ pte \in [Pages -> PTE] /\ fifo_pgn \in Seq(Pages)
  BY DEF PInv, PagingTypeOK
<1>2. /\ PatternEntry \in PTE /\ PatternEntry.present /\ PatternEntry.swapped
      /\ PatternEntry.num % SwpShift # 0
  BY PagingAssumption DEF PatternEntry, PTE
<1>3. UNCHANGED << fifo_pgn, mram_free, mswp_free, wild, strayed >>
  BY DEF vmap_pgd_memset
<1>4. \A p \in Pages : pte'[p] = PatternEntry \/ pte'[p] = pte[p]
  BY DEF vmap_pgd_memset
<1>5. pte' \in [Pages -> PTE]
  <2>1. pte' = [p \in Pages |-> pte'[p]]
    BY DEF vmap_pgd_memset
  <2> QED
    BY <1>1, <1>2, <1>4, <2>1
<1>6. \A p \in Resident' : p \in Resident /\ pte'[p] = pte[p]
  BY <1>2, <1>4 DEF Resident
<1>7. \A p \in InSwap' : p \in InSwap /\ pte'[p] = pte[p]
  BY <1>2, <1>4 DEF InSwap
<1>8. PagingTypeOK'
  BY <1>3, <1>5 DEF PInv, PagingTypeOK
<1>9. FifoPresent'
  <2>1. ToSet(fifo_pgn) \subseteq Pages
    BY <1>1, ElementIs
  <2> QED
    BY <1>2, <1>3, <1>4, <2>1 DEF PInv, FifoPresent
<1>10. SwappedPresent'
  BY <1>2, <1>4 DEF PInv, SwappedPresent
<1>11. FramesInRam' /\ SlotsDistinct'
  BY <1>3, <1>6 DEF PInv, FramesInRam, SlotsDistinct
<1>12. FramesExclusive'
  BY <1>3, <1>6 DEF PInv, FramesExclusive
<1>13. SwapSlotsExclusive' /\ ResidentEvictable'
  BY <1>3, <1>6, <1>7 DEF PInv, SwapSlotsExclusive, ResidentEvictable
<1> QED
  BY <1>8, <1>9, <1>10, <1>11, <1>12, <1>13 DEF PInv

-----------------------------------------------------------------------------
(* pg_getpage                                                              *)

(* The access to a page taken for present: it stays in the RAM unless the  *)
(* number was not one of a frame.                                          *)
LEMMA PageHitInvariant ==
  ASSUME PInv, NEW p \in Pages, PageHit(p)
  PROVE  PInv'
<1>1. UNCHANGED << pte, fifo_pgn, mram_free, mswp_free >>
  BY DEF PageHit
<1>2. /\ wild' \in BOOLEAN /\ strayed' \in BOOLEAN
      /\ wild' = ~InRam(PAGING_FPN(pte[p]))
      /\ strayed' = (strayed \/ pte[p].swapped) /\ pte[p].present
  BY DEF PageHit, Hit, pte_get_entry
<1>3. Resident' = Resident /\ InSwap' = InSwap
  BY <1>1 DEF Resident, InSwap
<1>4. PagingTypeOK'
  BY <1>1, <1>2 DEF PInv, PagingTypeOK
<1>5. ~strayed' => ~strayed /\ p \in Resident
  BY <1>2 DEF Resident
<1>6. FramesInRam'
  BY <1>1, <1>3, <1>5 DEF PInv, FramesInRam
<1>7. FramesExclusive'
  BY <1>1, <1>2, <1>3, <1>5 DEF PInv, FramesInRam, FramesExclusive, InRam
<1>8. FifoPresent' /\ SwappedPresent' /\ SlotsDistinct'
  BY <1>1 DEF PInv, FifoPresent, SwappedPresent, SlotsDistinct
<1>9. SwapSlotsExclusive' /\ ResidentEvictable'
  BY <1>1, <1>3 DEF PInv, SwapSlotsExclusive, ResidentEvictable
<1> QED
  BY <1>4, <1>6, <1>7, <1>8, <1>9 DEF PInv

(* No page to evict or no frame to evict it to.                            *)
LEMMA FaultFailsInvariant ==
  ASSUME PInv, NEW p \in Pages, FaultFails(p)
  PROVE  PInv'
<1>1. UNCHANGED << pte, mram_free, mswp_free, wild, strayed >>
  BY DEF FaultFails
<1>2. fifo_pgn \in Seq(Pages)
  BY DEF PInv, PagingTypeOK
<1>3. fifo_pgn' \in Seq(Pages) /\ ToSet(fifo_pgn') \subseteq ToSet(fifo_pgn)
  <2>1. CASE fifo_pgn = << >>
    BY <1>2, <2>1 DEF FaultFails
  <2>2. CASE fifo_pgn # << >>
    BY <1>2, <2>2, FrontIs DEF FaultFails
  <2> QED
    BY <2>1, <2>2
<1>4. mswp_free # << >> => fifo_pgn' = fifo_pgn
  BY DEF FaultFails, CanEvict
<1>5. Resident' = Resident /\ InSwap' = InSwap
  BY <1>1 DEF Resident, InSwap
<1>6. PagingTypeOK'
  BY <1>1, <1>3 DEF PInv, PagingTypeOK
<1>7. FifoPresent' /\ SwappedPresent' /\ FramesInRam' /\ SlotsDistinct'
  BY <1>1, <1>3, <1>5 DEF PInv, FifoPresent, SwappedPresent, FramesInRam, SlotsDistinct
<1>8. FramesExclusive' /\ SwapSlotsExclusive'
  BY <1>1, <1>5 DEF PInv, FramesExclusive, SwapSlotsExclusive
<1>9. ResidentEvictable'
  BY <1>1, <1>4, <1>5 DEF PInv, ResidentEvictable
<1> QED
  BY <1>6, <1>7, <1>8, <1>9 DEF PInv

(* What a fault does: the victim is another page, its entry names the      *)
(* first free swap frame, and p has the victim's frame.                    *)
LEMMA FaultIs ==
  ASSUME PInv, NEW p \in Pages, Fault(p)
  PROVE  /\ Victim \in Pages /\ Victim # p /\ pte[Victim].present
         /\ ~pte[p].present /\ ~pte[p].swapped
         /\ VictimFpn \in Nat /\ Head(mswp_free) \in 0..(NumSwp - 1)
         /\ mswp_free # << >> /\ fifo_pgn # << >>
         /\ mswp_free' = Tail(mswp_free) /\ mram_free' = mram_free
         /\ pte' \in [Pages -> PTE]
         /\ pte'[Victim] = SwapEntry(Head(mswp_free))
         /\ pte'[p] = FpnEntry(pte[p], VictimFpn)
         /\ \A q \in Pages \ {p, Victim} : pte'[q] = pte[q]
<1>1. /\ pte \in [Pages -> PTE] /\ fifo_pgn \in Seq(Pages)
      /\ mswp_free \in Seq(0..(NumSwp - 1))
  BY DEF PInv, PagingTypeOK
<1>2. fifo_pgn # << >> /\ mswp_free # << >> /\ ~pte[p].present
  BY DEF Fault, CanEvict, Hit, pte_get_entry
<1>3. Victim \in Pages /\ Victim \in ToSet(fifo_pgn)
  BY <1>1, <1>2, FrontIs DEF Victim
<1>4. pte[Victim].present /\ Victim # p
  BY <1>2, <1>3 DEF PInv, FifoPresent
<1>5. ~pte[p].swapped
  BY <1>2 DEF PInv, SwappedPresent
<1>6. mswp_free' = Tail(mswp_free) /\ mram_free' = mram_free
  BY <1>5 DEF Fault, SlotsAfter, pte_get_entry
<1>7. Head(mswp_free) \in 0..(NumSwp - 1) /\ Head(mswp_free) \in Nat
  BY <1>1, <1>2, TailIs, PagingAssumption
<1>8. VictimFpn \in Nat
  BY <1>1, <1>3, FrameNumber DEF VictimFpn, pte_get_entry
<1>9. SwapEntry(Head(mswp_free)) \in PTE /\ FpnEntry(pte[p], VictimFpn) \in PTE
  BY <1>1, <1>7, <1>8, SwapEntryIs, FpnEntryIs
<1>10. pte' = [pte EXCEPT ![Victim] = SwapEntry(Head(mswp_free)),
                          ![p] = FpnEntry(@, VictimFpn)]
  BY DEF Fault
<1>11. /\ pte' \in [Pages -> PTE]
       /\ pte'[Victim] = SwapEntry(Head(mswp_free))
       /\ pte'[p] = FpnEntry(pte[p], VictimFpn)
       /\ \A q \in Pages \ {p, Victim} : pte'[q] = pte[q]
  BY <1>1, <1>3, <1>4, <1>9, <1>10
<1> QED
  BY <1>2, <1>3, <1>4, <1>5, <1>6, <1>7, <1>8, <1>11

(* A page is evicted for p.                                                *)
LEMMA FaultInvariant ==
  ASSUME PInv, NEW p \in Pages, Fault(p)
  PROVE  PInv'
<1> DEFINE v == Victim
           h == Head(mswp_free)
           f == VictimFpn
<1>1. /\ pte \in [Pages -> PTE] /\ fifo_pgn \in Seq(Pages)
      /\ mram_free \in Seq(0..(NumRam - 1)) /\ mswp_free \in Seq(0..(NumSwp - 1))
  BY DEF PInv, PagingTypeOK
<1>2. /\ v \in Pages /\ v # p /\ pte[v].present /\ ~pte[p].present /\ ~pte[p].swapped
      /\ f \in Nat /\ h \in 0..(NumSwp - 1) /\ h \in Nat
      /\ mswp_free # << >> /\ fifo_pgn # << >>
      /\ mswp_free' = Tail(mswp_free) /\ mram_free' = mram_free
      /\ pte' \in [Pages -> PTE]
      /\ pte'[v] = SwapEntry(h) /\ pte'[p] = FpnEntry(pte[p], f)
      /\ \A q \in Pages \ {p, v} : pte'[q] = pte[q]
  BY FaultIs, PagingAssumption
<1>3. /\ wild' = ~InRam(f) /\ strayed' = (strayed \/ pte[v].swapped)
      /\ fifo_pgn' = << p >> \o Front(fifo_pgn)
      /\ f = PAGING_FPN(pte[v])
  BY DEF Fault, FifoAfter, pte_get_entry, VictimFpn
<1>4. /\ Front(fifo_pgn) \in Seq(Pages)
      /\ ToSet(fifo_pgn) = ToSet(Front(fifo_pgn)) \cup {v}
  BY <1>1, <1>2, FrontIs DEF Victim
<1> HIDE DEF v, h, f
<1>5. fifo_pgn' \in Seq(Pages) /\ ToSet(fifo_pgn') = {p} \cup ToSet(Front(fifo_pgn))
  BY <1>3, <1>4, EnlistIs
<1>6. /\ mswp_free' \in Seq(0..(NumSwp - 1)) /\ h \in ToSet(mswp_free)
      /\ ToSet(mswp_free') \subseteq ToSet(mswp_free)
      /\ IsInjective(mswp_free') /\ h \notin ToSet(mswp_free')
  BY <1>1, <1>2, TailIs DEF PInv, SlotsDistinct, h
<1>7. /\ pte'[p].present /\ ~pte'[p].swapped
      /\ f < NumRam => PAGING_FPN(pte'[p]) = f
  BY <1>1, <1>2, FpnEntryIs
<1>8. /\ pte'[v].present /\ pte'[v].swapped
      /\ PAGING_SWP(pte'[v]) = h
  BY <1>2, SwapEntryIs
<1>9. PagingTypeOK'
  BY <1>1, <1>2, <1>3, <1>5, <1>6 DEF PInv, PagingTypeOK
<1>10. \A q \in Resident' : q # v /\ (q # p => q \in Resident /\ pte'[q] = pte[q])
  BY <1>2, <1>8 DEF Resident
<1>11. \A q \in InSwap' : q # p /\ (q # v => q \in InSwap /\ pte'[q] = pte[q])
  BY <1>2, <1>7 DEF InSwap
<1>12. FifoPresent'
  <2>1. ToSet(fifo_pgn) \subseteq Pages
    BY <1>1, ElementIs
  <2>2. \A q \in ToSet(Front(fifo_pgn)) : q \in Pages /\ pte[q].present
    BY <1>4, <2>1 DEF PInv, FifoPresent
  <2> QED
    BY <1>2, <1>5, <1>7, <1>8, <2>2 DEF FifoPresent
<1>13. SwappedPresent'
  BY <1>2, <1>7, <1>8 DEF PInv, SwappedPresent
<1>14. ~strayed' => ~strayed /\ v \in Resident /\ f < NumRam
  BY <1>2, <1>3 DEF PInv, FramesInRam, Resident
<1>15. FramesInRam'
  BY <1>7, <1>10, <1>14 DEF PInv, FramesInRam
<1>16. FramesExclusive'
  <2> SUFFICES ASSUME ~strayed' PROVE FramesExclusive'
    BY DEF FramesExclusive
  <2>1. /\ \A q, r \in Resident : q # r => PAGING_FPN(pte[q]) # PAGING_FPN(pte[r])
        /\ \A q \in Resident : PAGING_FPN(pte[q]) \notin ToSet(mram_free)
        /\ IsInjective(mram_free)
    BY <1>14 DEF PInv, FramesExclusive
  <2>2. /\ PAGING_FPN(pte'[p]) = PAGING_FPN(pte[v]) /\ v \in Resident /\ ~wild'
    BY <1>3, <1>7, <1>14 DEF InRam
  <2>3. \A q, r \in Resident' : q # r => PAGING_FPN(pte'[q]) # PAGING_FPN(pte'[r])
    BY <1>10, <2>1, <2>2
  <2>4. \A q \in Resident' : PAGING_FPN(pte'[q]) \notin ToSet(mram_free)
    BY <1>10, <2>1, <2>2
  <2> QED
    BY <1>2, <2>1, <2>2, <2>3, <2>4 DEF FramesExclusive
<1>17. SwapSlotsExclusive'
  <2>1. /\ \A q, r \in InSwap : q # r => PAGING_SWP(pte[q]) # PAGING_SWP(pte[r])
        /\ \A q \in InSwap : PAGING_SWP(pte[q]) \notin ToSet(mswp_free)
    BY DEF PInv, SwapSlotsExclusive
  <2>2. \A q, r \in InSwap' : q # r => PAGING_SWP(pte'[q]) # PAGING_SWP(pte'[r])
    BY <1>6, <1>8, <1>11, <2>1
  <2>3. \A q \in InSwap' : PAGING_SWP(pte'[q]) \notin ToSet(mswp_free')
    BY <1>6, <1>8, <1>11, <2>1
  <2> QED
    BY <2>2, <2>3 DEF SwapSlotsExclusive
<1>18. ResidentEvictable'
  <2>1. Resident \subseteq ToSet(fifo_pgn)
    BY <1>2 DEF PInv, ResidentEvictable
  <2> QED
    BY <1>4, <1>5, <1>10, <2>1 DEF ResidentEvictable
<1>19. SlotsDistinct'
  BY <1>6 DEF SlotsDistinct
<1> QED
  BY <1>9, <1>12, <1>13, <1>15, <1>16, <1>17, <1>18, <1>19 DEF PInv

LEMMA GetPageInvariant ==
  ASSUME PInv, NEW p \in Pages, pg_getpage(p)
  PROVE  PInv'
  BY PageHitInvariant, FaultFailsInvariant, FaultInvariant DEF pg_getpage

LEMMA PagingUnchanged ==
  ASSUME PInv, UNCHANGED pagingVars
  PROVE  PInv'
<1>1. UNCHANGED << pte, fifo_pgn, mram_free, mswp_free, wild, strayed >>
  BY DEF pagingVars
<1>2. Resident' = Resident /\ InSwap' = InSwap
  BY <1>1 DEF Resident, InSwap
<1>3. PagingTypeOK' /\ FifoPresent' /\ SwappedPresent' /\ FramesInRam' /\ SlotsDistinct'
  BY <1>1, <1>2 DEF PInv, PagingTypeOK, FifoPresent, SwappedPresent, FramesInRam,
     SlotsDistinct
<1>4. FramesExclusive' /\ SwapSlotsExclusive' /\ ResidentEvictable'
  BY <1>1, <1>2 DEF PInv, FramesExclusive, SwapSlotsExclusive, ResidentEvictable
<1> QED
  BY <1>3, <1>4 DEF PInv

-----------------------------------------------------------------------------
(* The memory calls, and the contents                                      *)

(* The parts of VMem and Contents, as proofs need them.                    *)
LEMMA ConstantTypes ==
  /\ \A size \in Sizes : size \in Nat /\ PagesOf(size) \in Nat
  /\ \A offset \in Offsets : offset \in Nat
  /\ \A a \in Nat : a \div PAGESZ \in Nat
<1>1. \A size \in Sizes : size \in Nat /\ PagesOf(size) \in Nat
  BY RegionsAssumption, PagesCover
<1>2. \A offset \in Offsets : offset \in Nat
  BY VMemAssumption
<1>3. PAGESZ \in Nat \ {0}
  BY RegionsAssumption
<1>4. \A a \in Nat : a \div PAGESZ \in Nat
  BY <1>3
<1> QED
  BY <1>1, <1>2, <1>4

(* The pages instructions access have an entry.                            *)
LEMMA AccessedPages ==
  ASSUME RInv, NEW r \in RgIds, NEW offset \in Offsets
  PROVE  /\ Read(r, offset) => PageOf(ReadAddr(r, offset)) \in Pages
         /\ Write(r, offset) => PageOf(WriteAddr(r, offset)) \in Pages
<1>1. symrgtbl[r] \in Region
  BY DEF RInv, RegionsTypeOK
<1>2. ReadAddr(r, offset) \in Nat /\ WriteAddr(r, offset) \in Nat
  BY <1>1, ConstantTypes DEF ReadAddr, WriteAddr, Region
<1>3. PageOf(ReadAddr(r, offset)) \in Nat /\ PageOf(WriteAddr(r, offset)) \in Nat
  BY <1>2, ConstantTypes DEF PageOf
<1>4. MaxPage \in Nat
  BY PagingAssumption
<1> QED
  BY <1>3, <1>4 DEF Read, Write, Access, Pages

-----------------------------------------------------------------------------
(* VMem                                                                    *)

(* To Regions, every step of VMem is a step of its own or none.            *)
LEMMA VMemStepsRegions == [Next]_vars => [RegionsNext]_regionVars
<1> SUFFICES ASSUME [Next]_vars PROVE [RegionsNext]_regionVars
  OBVIOUS
<1>1. CASE UNCHANGED vars
  BY <1>1 DEF vars
<1>2. CASE Undefined
  BY <1>2 DEF Undefined, vars
<1>3. ASSUME NEW r \in RgIds, NEW size \in Sizes, Alloc(r, size)
      PROVE  RegionsNext
  BY <1>3 DEF Alloc, RegionsNext
<1>4. ASSUME NEW size \in Sizes, Grow(size)
      PROVE  [RegionsNext]_regionVars
  BY <1>4 DEF Grow, StrayCaller, RegionsNext
<1>5. ASSUME NEW start \in MapStarts, NEW n \in MapSizes, Map(start, n)
      PROVE  UNCHANGED regionVars
  BY <1>5 DEF Map, StrayCaller
<1>6. ASSUME NEW r \in RgIds, Dealloc(r)
      PROVE  RegionsNext
  BY <1>6 DEF Dealloc, RegionsNext
<1>7. ASSUME NEW r \in RgIds, NEW offset \in Offsets, Read(r, offset) \/ Write(r, offset)
      PROVE  UNCHANGED regionVars
  BY <1>7 DEF Read, Write, Access
<1>8. CASE StrayCaller
  BY <1>8 DEF StrayCaller
<1> QED
  BY <1>1, <1>2, <1>3, <1>4, <1>5, <1>6, <1>7, <1>8 DEF Next, Call

(* inc_vma_limit maps from a page number, and a number of pages.           *)
LEMMA MapGrowthInvariant ==
  ASSUME RInv, PInv, NEW size \in Sizes, MapGrowth(size)
  PROVE  PInv'
<1>1. vm_end \in Nat
  BY DEF RInv, RegionsTypeOK
<1>2. vm_end \div PAGESZ \in Nat /\ PagesOf(size) \in Nat
  BY <1>1, ConstantTypes
<1> QED
  BY <1>2, VmMapRamInvariant DEF MapGrowth

(* A call that strays claims nothing of the frames any more, and leaves    *)
(* the lists and the entries.                                              *)
LEMMA StrayCallerInvariant ==
  ASSUME PInv, StrayCaller
  PROVE  PInv'
<1>1. /\ UNCHANGED << pte, fifo_pgn, mram_free, mswp_free >>
      /\ wild' = TRUE /\ strayed' = TRUE
  BY DEF StrayCaller
<1>2. Resident' = Resident /\ InSwap' = InSwap
  BY <1>1 DEF Resident, InSwap
<1>3. PagingTypeOK' /\ FifoPresent' /\ SwappedPresent' /\ FramesInRam' /\ SlotsDistinct'
  BY <1>1, <1>2 DEF PInv, PagingTypeOK, FifoPresent, SwappedPresent, FramesInRam,
     SlotsDistinct
<1>4. FramesExclusive' /\ SwapSlotsExclusive' /\ ResidentEvictable'
  BY <1>1, <1>2 DEF PInv, FramesExclusive, SwapSlotsExclusive, ResidentEvictable
<1> QED
  BY <1>3, <1>4 DEF PInv

LEMMA VMemStepsPaging == RInv /\ PInv /\ [Next]_vars => PInv'
<1> SUFFICES ASSUME RInv, PInv, [Next]_vars PROVE PInv'
  OBVIOUS
<1>1. CASE UNCHANGED pagingVars
  BY <1>1, PagingUnchanged
<1>2. CASE UNCHANGED vars \/ Undefined
  BY <1>1, <1>2 DEF Undefined, vars
<1>3. ASSUME NEW r \in RgIds, NEW size \in Sizes, Alloc(r, size)
      PROVE  PInv'
  BY <1>1, <1>3, MapGrowthInvariant DEF Alloc
<1>4. ASSUME NEW size \in Sizes, Grow(size)
      PROVE  PInv'
  BY <1>4, MapGrowthInvariant, StrayCallerInvariant DEF Grow
<1>5. ASSUME NEW start \in MapStarts, NEW n \in MapSizes, Map(start, n)
      PROVE  PInv'
  BY <1>5, MemsetInvariant, StrayCallerInvariant DEF Map
<1>6. ASSUME NEW r \in RgIds, Dealloc(r)
      PROVE  PInv'
  BY <1>1, <1>6 DEF Dealloc
<1>7. ASSUME NEW r \in RgIds, NEW offset \in Offsets, Read(r, offset) \/ Write(r, offset)
      PROVE  PInv'
  BY <1>7, AccessedPages, GetPageInvariant DEF Read, Write, Access
<1> QED
  BY <1>2, <1>3, <1>4, <1>5, <1>6, <1>7, StrayCallerInvariant DEF Next, Call

(* The memory system keeps the contract of its regions: what is proved of  *)
(* Regions, where increments meet nothing else, holds of the programs'     *)
(* calls, page faults and system calls between them included.              *)
THEOREM VMemImplementsRegions == Spec => RegionsSpec
<1>1. Init => RegionsInit
  BY DEF Init
<1> QED
  BY <1>1, VMemStepsRegions, PTL DEF Spec, RegionsSpec

THEOREM VMemInvariant == Spec => [](RInv /\ PInv)
<1>1. Init => RInv /\ PInv
  BY InitInvariant, InitPaging DEF Init
<1>2. RInv /\ PInv /\ [Next]_vars => (RInv /\ PInv)'
  BY StepInvariant, VMemStepsRegions, VMemStepsPaging
<1> QED
  BY <1>1, <1>2, PTL DEF Spec

-----------------------------------------------------------------------------
(* Contents                                                                *)

Holds(p, e, ram, swp) ==
  \/ e.present /\ ~e.swapped /\ ram[PAGING_FPN(e)] = p
  \/ e.swapped /\ e.num % SwpShift = 0 /\ swp[PAGING_SWP(e)] = p

StorageTypeOK ==
  /\ in_ram \in [0..(NumRam - 1) -> Pages \cup {NoPage}]
  /\ in_swp \in [0..(NumSwp - 1) -> Pages \cup {NoPage}]
  /\ written \subseteq Pages

CInv == RInv /\ PInv /\ StorageTypeOK /\ ContentsKept

LEMMA KeptIs ==
  ASSUME StorageTypeOK
  PROVE  ContentsKept <=> (~strayed => \A p \in written : Holds(p, pte[p], in_ram, in_swp))
  BY DEF StorageTypeOK, ContentsKept, Holds, Resident, InSwap

LEMMA InitContents == ContentsInit => CInv
<1> SUFFICES ASSUME ContentsInit PROVE CInv
  OBVIOUS
<1>1. RInv /\ PInv
  BY InitInvariant, InitPaging DEF ContentsInit, Init
<1>2. StorageTypeOK /\ ContentsKept
  BY DEF ContentsInit, StorageTypeOK, ContentsKept
<1> QED
  BY <1>1, <1>2 DEF CInv

(* To VMem, the direct accesses to the devices are no steps.               *)
LEMMA ContentsStepsVMem ==
  [ContentsNext]_<< vars, contentVars >> => [Next]_vars
<1> SUFFICES ASSUME [ContentsNext]_<< vars, contentVars >> PROVE [Next]_vars
  OBVIOUS
<1>1. CASE UNCHANGED << vars, contentVars >>
  BY <1>1
<1>2. CASE ContentsUndefined
  BY <1>2 DEF ContentsUndefined, Undefined
<1>3. CASE ContentsCall
  <2>1. CASE \E f \in RawFrames, s \in RawFrames : mm_swap_page(f, s)
    BY <1>3, <2>1 DEF mm_swap_page, ContentsCall, Next, Call
  <2>2. CASE \E f \in RawFrames : io_write(f)
    BY <2>2 DEF io_write
  <2>3. CASE \/ \E r \in RgIds, size \in Sizes : Alloc(r, size)
             \/ \E size \in Sizes : Grow(size)
             \/ \E start \in MapStarts, n \in MapSizes : Map(start, n)
             \/ \E r \in RgIds : Dealloc(r)
             \/ \E r \in RgIds, offset \in Offsets : Read(r, offset) \/ Write(r, offset)
    BY <1>3, <2>3 DEF ContentsCall, Next, Call
  <2> QED
    BY <1>3, <2>1, <2>2, <2>3 DEF ContentsCall
<1> QED
  BY <1>1, <1>2, <1>3 DEF ContentsNext

(* A page whose entry a mapping leaves alone still has its bytes.          *)
LEMMA RemappedKeeps ==
  ASSUME CInv, Remapped, strayed' = strayed
  PROVE  StorageTypeOK' /\ ContentsKept'
<1>1. StorageTypeOK'
  BY DEF CInv, StorageTypeOK, Remapped
<1>2. ~strayed => \A p \in written : Holds(p, pte[p], in_ram, in_swp)
  BY KeptIs DEF CInv
<1>3. ~strayed' => \A p \in written' : Holds(p, pte'[p], in_ram', in_swp')
  BY <1>2 DEF Remapped
<1>4. ContentsKept' <=>
        (~strayed' => \A p \in written' : Holds(p, pte'[p], in_ram', in_swp'))
  BY <1>1 DEF StorageTypeOK, ContentsKept, Holds, Resident, InSwap
<1> QED
  BY <1>1, <1>3, <1>4

(* Nothing is claimed of the contents either.                              *)
LEMMA StrayCallerKeeps ==
  ASSUME CInv, StrayCaller, Remapped \/ UNCHANGED contentVars
  PROVE  StorageTypeOK' /\ ContentsKept'
<1>1. strayed' = TRUE
  BY DEF StrayCaller
<1>2. StorageTypeOK'
  BY DEF CInv, StorageTypeOK, Remapped, contentVars
<1> QED
  BY <1>1, <1>2 DEF ContentsKept

(* pg_getpage and the copy to the swap device move the bytes of the victim *)
(* with its entry, and overwrite none that a page needs.                   *)
LEMMA FetchKeeps ==
  ASSUME CInv, NEW p \in Pages, pg_getpage(p), Fetched(p)
  PROVE  /\ in_swp' \in [0..(NumSwp - 1) -> Pages \cup {NoPage}]
         /\ ~strayed' => /\ \A q \in written : Holds(q, pte'[q], in_ram, in_swp')
                         /\ pte'[p].present => ~pte'[p].swapped
<1>1. StorageTypeOK /\ PInv
  BY DEF CInv
<1>2. ~strayed => \A q \in written : Holds(q, pte[q], in_ram, in_swp)
  BY KeptIs DEF CInv
<1>3. CASE PageHit(p)
  <2>1. in_swp' = in_swp /\ pte' = pte /\ strayed' = (strayed \/ pte[p].swapped)
    BY <1>3 DEF PageHit, Fetched, pte_get_entry
  <2> QED
    BY <1>1, <1>2, <2>1 DEF StorageTypeOK
<1>4. CASE FaultFails(p)
  <2>1. in_swp' = in_swp /\ pte' = pte /\ strayed' = strayed /\ ~pte[p].present
    BY <1>4 DEF FaultFails, Fetched, Hit, pte_get_entry
  <2> QED
    BY <1>1, <1>2, <2>1 DEF StorageTypeOK
<1>5. CASE Fault(p)
  <2> DEFINE v == Victim
             h == Head(mswp_free)
             f == VictimFpn
  <2>1. /\ v \in Pages /\ v # p /\ pte[v].present /\ ~pte[p].present /\ ~pte[p].swapped
        /\ f \in Nat /\ h \in 0..(NumSwp - 1) /\ h \in Nat /\ mswp_free # << >>
        /\ pte'[v] = SwapEntry(h) /\ pte'[p] = FpnEntry(pte[p], f)
        /\ \A q \in Pages \ {p, v} : pte'[q] = pte[q]
    BY <1>1, <1>5, FaultIs, PagingAssumption
  <2>2. /\ strayed' = (strayed \/ pte[v].swapped)
        /\ f = PAGING_FPN(pte[v])
    BY <1>5 DEF Fault, pte_get_entry, VictimFpn
  <2>3. in_swp' = [in_swp EXCEPT ![h] = FrameHolds(f)]
    BY <1>5 DEF Fault, Fetched, SwapOut
  <2>4. h \in ToSet(mswp_free)
    BY <1>1, <2>1, TailIs DEF PInv, PagingTypeOK
  <2>5. pte[p] \in PTE
    BY <1>1 DEF PInv, PagingTypeOK
  <2> HIDE DEF v, h, f
  <2>6. FrameHolds(f) \in Pages \cup {NoPage}
    BY <1>1, <2>1, PagingAssumption DEF StorageTypeOK, FrameHolds, InRam
  <2>7. /\ in_swp' \in [0..(NumSwp - 1) -> Pages \cup {NoPage}]
        /\ in_swp'[h] = FrameHolds(f)
        /\ \A s \in 0..(NumSwp - 1) : s # h => in_swp'[s] = in_swp[s]
    BY <1>1, <2>1, <2>3, <2>6 DEF StorageTypeOK
  <2>8. ~pte'[p].swapped
    BY <2>1, <2>5, FpnEntryIs
  <2>9. ASSUME ~strayed', NEW q \in written
        PROVE  Holds(q, pte'[q], in_ram, in_swp')
    <3>1. q \in Pages /\ Holds(q, pte[q], in_ram, in_swp)
      BY <1>1, <1>2, <2>2, <2>9 DEF StorageTypeOK
    <3>2. q # p
      BY <2>1, <3>1 DEF Holds
    <3>3. CASE q = v
      <4>1. v \in Resident /\ f < NumRam /\ in_ram[f] = v
        BY <1>1, <2>1, <2>2, <2>9, <3>1, <3>3
           DEF PInv, FramesInRam, Resident, Holds
      <4>2. in_swp'[h] = v
        BY <2>7, <4>1 DEF FrameHolds, InRam
      <4>3. /\ pte'[v].swapped /\ pte'[v].num % SwpShift = 0
            /\ PAGING_SWP(pte'[v]) = h
        BY <2>1, SwapEntryIs
      <4> QED
        BY <3>3, <4>2, <4>3 DEF Holds
    <3>4. CASE q # v
      <4>1. pte'[q] = pte[q]
        BY <2>1, <3>1, <3>2, <3>4
      <4>2. CASE q \in InSwap
        <5>1. PAGING_SWP(pte[q]) # h
          BY <1>1, <2>4, <4>2 DEF PInv, SwapSlotsExclusive
        <5>2. in_swp'[PAGING_SWP(pte[q])] = in_swp[PAGING_SWP(pte[q])]
          BY <1>1, <2>3, <5>1 DEF StorageTypeOK
        <5> QED
          BY <3>1, <4>1, <5>2 DEF Holds
      <4>3. CASE q \notin InSwap
        BY <3>1, <4>1, <4>3 DEF Holds, InSwap
      <4> QED
        BY <4>2, <4>3
    <3> QED
      BY <3>3, <3>4
  <2> QED
    BY <2>7, <2>8, <2>9
<1> QED
  BY <1>3, <1>4, <1>5 DEF pg_getpage

(* What the step leaves behind, once the storage is known to be well       *)
(* formed: the same formula as KeptIs, of the new state.                   *)
LEMMA KeptAfter ==
  ASSUME StorageTypeOK',
         ~strayed' => \A q \in written' : Holds(q, pte'[q], in_ram', in_swp')
  PROVE  ContentsKept'
  BY DEF StorageTypeOK, ContentsKept, Holds, Resident, InSwap

LEMMA ReadKeeps ==
  ASSUME CInv, NEW p \in Pages, pg_getpage(p), ReadPage(p)
  PROVE  StorageTypeOK' /\ ContentsKept'
<1>1. Fetched(p) /\ in_ram' = in_ram /\ written' = written
  BY DEF ReadPage
<1>2. /\ in_swp' \in [0..(NumSwp - 1) -> Pages \cup {NoPage}]
      /\ ~strayed' => \A q \in written : Holds(q, pte'[q], in_ram, in_swp')
  BY <1>1, FetchKeeps
<1>3. StorageTypeOK'
  BY <1>1, <1>2 DEF CInv, StorageTypeOK
<1> QED
  BY <1>1, <1>2, <1>3, KeptAfter

(* The bytes stored for p take the place of none that another page needs:  *)
(* p has its frame for itself.                                             *)
LEMMA WriteKeeps ==
  ASSUME CInv, PInv', NEW p \in Pages, pg_getpage(p), WritePage(p)
  PROVE  StorageTypeOK' /\ ContentsKept'
<1> DEFINE f == PAGING_FPN(pte'[p])
<1>1. /\ in_swp' \in [0..(NumSwp - 1) -> Pages \cup {NoPage}]
      /\ ~strayed' => /\ \A q \in written : Holds(q, pte'[q], in_ram, in_swp')
                      /\ pte'[p].present => ~pte'[p].swapped
  BY FetchKeeps DEF WritePage
<1>2. /\ in_ram \in [0..(NumRam - 1) -> Pages \cup {NoPage}]
      /\ written \subseteq Pages
  BY DEF CInv, StorageTypeOK
<1>3. CASE ~pte'[p].present
  <2>1. in_ram' = in_ram /\ written' = written
    BY <1>3 DEF WritePage
  <2>2. StorageTypeOK'
    BY <1>1, <1>2, <2>1 DEF StorageTypeOK
  <2> QED
    BY <1>1, <2>1, <2>2, KeptAfter
<1>4. CASE pte'[p].present
  <2>1. /\ in_ram' = [g \in 0..(NumRam - 1) |->
                        IF g = f THEN p ELSE IF in_ram[g] = p THEN NoPage ELSE in_ram[g]]
        /\ written' = written \cup {p}
    BY <1>2, <1>4 DEF WritePage, Stored
  <2>2. StorageTypeOK'
    BY <1>1, <1>2, <2>1 DEF StorageTypeOK
  <2>3. ASSUME ~strayed', NEW q \in written'
        PROVE  Holds(q, pte'[q], in_ram', in_swp')
    <3>1. p \in Resident' /\ f < NumRam /\ f \in Nat
      <4>1. pte'[p] \in PTE /\ p \in Resident'
        BY <1>1, <1>4, <2>3 DEF PInv, PagingTypeOK, Resident
      <4> QED
        BY <2>3, <4>1, FrameNumber DEF PInv, FramesInRam
    <3>2. in_ram'[f] = p
      BY <2>1, <3>1, PagingAssumption
    <3>3. CASE q = p
      BY <3>1, <3>2, <3>3 DEF Holds, Resident
    <3>4. CASE q # p
      <4>1. q \in Pages /\ Holds(q, pte'[q], in_ram, in_swp')
        BY <1>1, <1>2, <2>1, <2>3, <3>4
      <4>2. CASE q \in Resident'
        <5> DEFINE g == PAGING_FPN(pte'[q])
        <5>1. g # f
          BY <2>3, <3>1, <3>4, <4>2 DEF PInv, FramesExclusive
        <5>2. g \in Nat /\ g < NumRam
          BY <2>3, <4>1, <4>2, FrameNumber DEF PInv, PagingTypeOK, FramesInRam
        <5>3. in_ram[g] = q
          BY <4>1, <4>2 DEF Holds, Resident
        <5> HIDE DEF f, g
        <5>4. in_ram'[g] = q
          BY <2>1, <3>4, <5>1, <5>2, <5>3, PagingAssumption
        <5> QED
          BY <4>1, <4>2, <5>4 DEF Holds, Resident, g
      <4>3. CASE q \notin Resident'
        BY <4>1, <4>3 DEF Holds, Resident
      <4> QED
        BY <4>2, <4>3
    <3> QED
      BY <3>3, <3>4
  <2> QED
    BY <2>2, <2>3, KeptAfter
<1> QED
  BY <1>3, <1>4

(* What a system call overwrites counts as written no longer, and nothing  *)
(* else changes.                                                           *)
LEMMA DirectKeeps ==
  ASSUME CInv, NEW f \in RawFrames, NEW s \in RawFrames,
         mm_swap_page(f, s) \/ io_write(f)
  PROVE  StorageTypeOK' /\ ContentsKept'
<1>1. f \in 0..(NumRam - 1) /\ s \in 0..(NumSwp - 1)
  BY VMemAssumption
<1>2. /\ in_ram \in [0..(NumRam - 1) -> Pages \cup {NoPage}]
      /\ in_swp \in [0..(NumSwp - 1) -> Pages \cup {NoPage}]
      /\ written \subseteq Pages
  BY DEF CInv, StorageTypeOK
<1>3. ~strayed => \A q \in written : Holds(q, pte[q], in_ram, in_swp)
  BY KeptIs DEF CInv
<1>4. pte' = pte /\ (~strayed' => ~strayed)
  BY DEF mm_swap_page, StrayCaller, io_write, vars, pagingVars
<1>5. CASE mm_swap_page(f, s) /\ CallerLayoutAgrees
  <2>1. /\ in_swp' = [in_swp EXCEPT ![s] = in_ram[f]] /\ in_ram' = in_ram
        /\ written' = {p \in written : ~(p \in InSwap /\ PAGING_SWP(pte[p]) = s)}
    BY <1>5 DEF mm_swap_page
  <2>2. StorageTypeOK'
    BY <1>1, <1>2, <2>1 DEF StorageTypeOK
  <2>3. ASSUME ~strayed', NEW q \in written'
        PROVE  Holds(q, pte'[q], in_ram', in_swp')
    BY <1>2, <1>3, <1>4, <2>1, <2>3 DEF Holds, InSwap
  <2> QED
    BY <2>2, <2>3, KeptAfter
<1>6. CASE io_write(f)
  <2>1. /\ in_ram' = [in_ram EXCEPT ![f] = NoPage] /\ in_swp' = in_swp
        /\ written' = {p \in written : ~(p \in Resident /\ PAGING_FPN(pte[p]) = f)}
    BY <1>6 DEF io_write
  <2>2. StorageTypeOK'
    BY <1>1, <1>2, <2>1 DEF StorageTypeOK
  <2>3. ASSUME ~strayed', NEW q \in written'
        PROVE  Holds(q, pte'[q], in_ram', in_swp')
    BY <1>2, <1>3, <1>4, <2>1, <2>3 DEF Holds, Resident
  <2> QED
    BY <2>2, <2>3, KeptAfter
<1>7. CASE mm_swap_page(f, s) /\ ~CallerLayoutAgrees
  BY <1>7, StrayCallerKeeps DEF mm_swap_page
<1> QED
  BY <1>5, <1>6, <1>7

LEMMA ContentsStep ==
  CInv /\ [ContentsNext]_<< vars, contentVars >> => CInv'
<1> SUFFICES ASSUME CInv, [ContentsNext]_<< vars, contentVars >> PROVE CInv'
  OBVIOUS
<1>1. RInv /\ PInv
  BY DEF CInv
<1>2. RInv' /\ PInv'
  BY <1>1, ContentsStepsVMem, VMemStepsRegions, VMemStepsPaging, StepInvariant
<1>3. StorageTypeOK' /\ ContentsKept'
  <2>1. CASE UNCHANGED << vars, contentVars >> \/ ContentsUndefined
    <3>1. UNCHANGED << pte, strayed, in_ram, in_swp, written >>
      BY <2>1 DEF ContentsUndefined, Undefined, vars, pagingVars, contentVars
    <3> QED
      BY <3>1 DEF CInv, StorageTypeOK, ContentsKept, Resident, InSwap
  <2>2. CASE Remapped /\ strayed' = strayed
    BY <2>2, RemappedKeeps
  <2>3. ASSUME NEW r \in RgIds, NEW size \in Sizes, Alloc(r, size), Remapped
        PROVE  StorageTypeOK' /\ ContentsKept'
    BY <2>2, <2>3 DEF Alloc, MapGrowth, vm_map_ram, pagingVars
  <2>4. ASSUME NEW size \in Sizes, Grow(size), Remapped
        PROVE  StorageTypeOK' /\ ContentsKept'
    BY <2>2, <2>4, StrayCallerKeeps DEF Grow, MapGrowth, vm_map_ram
  <2>5. ASSUME NEW start \in MapStarts, NEW n \in MapSizes, Map(start, n), Remapped
        PROVE  StorageTypeOK' /\ ContentsKept'
    BY <2>2, <2>5, StrayCallerKeeps DEF Map, vmap_pgd_memset
  <2>6. ASSUME NEW r \in RgIds, Dealloc(r), Remapped
        PROVE  StorageTypeOK' /\ ContentsKept'
    BY <2>2, <2>6 DEF Dealloc, pagingVars
  <2>7. ASSUME NEW r \in RgIds, NEW offset \in Offsets, Read(r, offset),
               ReadPage(PageOf(ReadAddr(r, offset)))
        PROVE  StorageTypeOK' /\ ContentsKept'
    <3>1. /\ PageOf(ReadAddr(r, offset)) \in Pages
          /\ pg_getpage(PageOf(ReadAddr(r, offset)))
      BY <1>1, <2>7, AccessedPages DEF Read, Access
    <3> QED
      BY <2>7, <3>1, ReadKeeps
  <2>8. ASSUME NEW r \in RgIds, NEW offset \in Offsets, Write(r, offset),
               WritePage(PageOf(WriteAddr(r, offset)))
        PROVE  StorageTypeOK' /\ ContentsKept'
    <3>1. /\ PageOf(WriteAddr(r, offset)) \in Pages
          /\ pg_getpage(PageOf(WriteAddr(r, offset)))
      BY <1>1, <2>8, AccessedPages DEF Write, Access
    <3> QED
      BY <1>2, <2>8, <3>1, WriteKeeps
  <2>9. CASE \/ \E f \in RawFrames, s \in RawFrames : mm_swap_page(f, s)
             \/ \E f \in RawFrames : io_write(f)
    BY <2>9, DirectKeeps
  <2> QED
    BY <2>1, <2>3, <2>4, <2>5, <2>6, <2>7, <2>8, <2>9 DEF ContentsNext, ContentsCall
<1> QED
  BY <1>2, <1>3 DEF CInv

THEOREM ContentsInvariant == ContentsSpec => []CInv
BY InitContents, ContentsStep, PTL DEF ContentsSpec

(* The storage does not change what the memory system does.                *)
THEOREM ContentsImplementsVMem == ContentsSpec => Spec
<1>1. ContentsInit => Init
  BY DEF ContentsInit
<1> QED
  BY <1>1, ContentsStepsVMem, PTL DEF ContentsSpec, Spec

-----------------------------------------------------------------------------
(* What the runs check, for every value of the constants                   *)

LEMMA InvariantParts ==
  CInv => /\ ContentsTypeOK /\ FramesExclusive /\ SwapSlotsExclusive
          /\ ResidentEvictable /\ RegionsDisjoint /\ RegionsInArea /\ ContentsKept
  BY DEF CInv, RInv, PInv, ContentsTypeOK, TypeOK, StorageTypeOK

(* Every list, entry and frame number stays within its range.              *)
THEOREM ContentsTypeCorrect == ContentsSpec => []ContentsTypeOK
BY InvariantParts, ContentsInvariant, PTL

(* No frame is used twice, and no access leaves the RAM, unless a number   *)
(* that is not a frame's has been used as one.                             *)
THEOREM FramesExclusiveCorrect == ContentsSpec => []FramesExclusive
BY InvariantParts, ContentsInvariant, PTL

(* No swap frame is used twice.                                            *)
THEOREM SwapSlotsExclusiveCorrect == ContentsSpec => []SwapSlotsExclusive
BY InvariantParts, ContentsInvariant, PTL

(* Eviction reaches every page in RAM.                                     *)
THEOREM ResidentEvictableCorrect == ContentsSpec => []ResidentEvictable
BY InvariantParts, ContentsInvariant, PTL

(* What is written stays where its entry says.                             *)
THEOREM ContentsKeptCorrect == ContentsSpec => []ContentsKept
BY InvariantParts, ContentsInvariant, PTL

(* Allocations stay disjoint and inside the area with paging, storage and  *)
(* system calls around them.                                               *)
THEOREM AllocationsCorrect == ContentsSpec => [](RegionsDisjoint /\ RegionsInArea)
BY InvariantParts, ContentsInvariant, PTL

(* Nor do they lose a byte: what neither a symbol nor the free list has    *)
(* was given up by an __alloc to a symbol in use or by SYSMEM_INC_OP.      *)
THEOREM BytesConservedInCalls == ContentsSpec => []BytesConserved
BY BytesConservedCorrect, VMemImplementsRegions, ContentsImplementsVMem, PTL

(* alloc_pages_range and what follows it take all of the frames for the    *)
(* pages they add, or keep none.                                           *)
LEMMA MapTakesAllOrNone ==
  ASSUME PInv, NEW start \in Nat, NEW n \in Nat, vm_map_ram(start, n)
  PROVE  \/ ToSet(mram_free') = ToSet(mram_free) /\ Len(mram_free') = Len(mram_free)
         \/ /\ Len(mram_free') = Len(mram_free) - n
            /\ ToSet(mram_free') \subseteq ToSet(mram_free)
<1>1. mram_free \in Seq(0..(NumRam - 1)) /\ Len(mram_free) \in Nat
  BY DEF PInv, PagingTypeOK
<1>2. CASE n <= Len(mram_free)
  <2>1. mram_free' = SubSeq(mram_free, n + 1, Len(mram_free))
    BY <1>2 DEF vm_map_ram, MapFrames, FramesLeft
  <2>2. Len(mram_free') = Len(mram_free) - n
    BY <1>1, <1>2, <2>1
  <2>3. ToSet(mram_free') \subseteq ToSet(mram_free)
    BY <1>1, <1>2, <2>1, SuffixIs
  <2> QED
    BY <2>2, <2>3
<1>3. CASE ~(n <= Len(mram_free))
  <2>1. mram_free' = Reverse(mram_free)
    BY <1>3 DEF vm_map_ram, ReturnFrames
  <2>2. Len(Reverse(mram_free)) = Len(mram_free)
    BY <1>1 DEF Reverse
  <2> QED
    BY <1>1, <2>1, <2>2, ReverseIs
<1> QED
  BY <1>2, <1>3

LEMMA GrowthTakesAllOrNone ==
  ASSUME RInv, PInv, NEW size \in Sizes, inc_vma_limit(size), MapGrowth(size)
  PROVE  \/ ToSet(mram_free') = ToSet(mram_free) /\ Len(mram_free') = Len(mram_free)
         \/ /\ Len(mram_free') = Len(mram_free) - Growth
            /\ ToSet(mram_free') \subseteq ToSet(mram_free)
<1>1. vm_end \in Nat /\ PAGESZ \in Nat \ {0}
  BY RegionsAssumption DEF RInv, RegionsTypeOK
<1>2. vm_end \div PAGESZ \in Nat /\ PagesOf(size) \in Nat
  BY <1>1, ConstantTypes
<1>3. Growth = PagesOf(size)
  <2>1. vm_end' = vm_end + PagesOf(size) * PAGESZ
    BY DEF inc_vma_limit
  <2>2. (PagesOf(size) * PAGESZ) \div PAGESZ = PagesOf(size)
    BY <1>1, <1>2
  <2>3. PagesOf(size) * PAGESZ \in Nat
    BY <1>1, <1>2
  <2>4. vm_end' - vm_end = PagesOf(size) * PAGESZ
    BY <1>1, <2>1, <2>3
  <2> QED
    BY <2>2, <2>4 DEF Growth
<1> QED
  BY <1>2, <1>3, MapTakesAllOrNone DEF MapGrowth

THEOREM AllOrNothingCorrect == ContentsSpec => AllOrNothing
<1> DEFINE A == \/ ToSet(mram_free') = ToSet(mram_free) /\ Len(mram_free') = Len(mram_free)
                \/ /\ Len(mram_free') = Len(mram_free) - Growth
                   /\ ToSet(mram_free') \subseteq ToSet(mram_free)
<1>1. RInv /\ PInv /\ [Next]_vars => [A]_vars
  <2> SUFFICES ASSUME RInv, PInv, Next PROVE A
    OBVIOUS
  <2>1. CASE mram_free' = mram_free
    BY <2>1
  <2>2. ASSUME NEW size \in Sizes, inc_vma_limit(size), MapGrowth(size)
        PROVE  A
    BY <2>2, GrowthTakesAllOrNone
  <2>3. ASSUME NEW r \in RgIds, NEW size \in Sizes, Alloc(r, size)
        PROVE  A
    BY <2>1, <2>2, <2>3 DEF Alloc, AllocAtBreak, pagingVars
  <2>4. ASSUME NEW size \in Sizes, Grow(size)
        PROVE  A
    BY <2>1, <2>2, <2>4 DEF Grow, GrowBySyscall, StrayCaller
  <2>5. ASSUME NEW start \in MapStarts, NEW n \in MapSizes, Map(start, n)
        PROVE  A
    BY <2>1, <2>5 DEF Map, vmap_pgd_memset, StrayCaller
  <2>6. ASSUME NEW r \in RgIds, Dealloc(r)
        PROVE  A
    BY <2>1, <2>6 DEF Dealloc, pagingVars
  <2>7. ASSUME NEW r \in RgIds, NEW offset \in Offsets, Read(r, offset) \/ Write(r, offset)
        PROVE  A
    BY <2>1, <2>7 DEF Read, Write, Access, pg_getpage, PageHit, FaultFails, Fault
  <2>8. CASE Undefined
    BY <2>1, <2>8 DEF Undefined, vars, pagingVars
  <2>9. CASE StrayCaller
    BY <2>1, <2>9 DEF StrayCaller
  <2> QED
    BY <2>3, <2>4, <2>5, <2>6, <2>7, <2>8, <2>9 DEF Next, Call
<1>2. Spec => [][A]_vars
  <2> HIDE DEF A
  <2> QED
    BY <1>1, VMemInvariant, PTL DEF Spec
<1> QED
  BY <1>2, ContentsImplementsVMem, PTL DEF AllOrNothing
=============================================================================
