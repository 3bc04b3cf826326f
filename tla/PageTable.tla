----------------------------- MODULE PageTable -----------------------------
(***************************************************************************)
(* The page table of mm64.c as the tree it is: tables that are allocated   *)
(* when a walk first needs them and linked from the table one level up.    *)
(* The code has five levels of 512 entries; the two numbers are constants. *)
(* Level 1 is the last, the one that holds the entries; table 1 is pgd.    *)
(***************************************************************************)
EXTENDS Integers, Sequences

CONSTANTS
  Levels,   (* 5 in the code                                               *)
  Fanout    (* 512 in the code: PAGING64_PAGESZ / sizeof(uint64_t)         *)

ASSUME PageTableAssumption == Levels \in Nat \ {0} /\ Fanout \in Nat \ {0}

VARIABLE
  tables    (* a sequence: each table maps an index to the table below,    *)
            (* 0 for none, or, at level 1, to an entry                     *)

Indices == 0..(Fanout - 1)

ZeroEntry == [present |-> FALSE, swapped |-> FALSE, num |-> 0]

(* alloc_page_table and the memset that follows it.                        *)
NewTable(level) == [i \in Indices |-> IF level = 1 THEN ZeroEntry ELSE 0]

PageTableInit == tables = << NewTable(Levels) >>

(* Mutant of get_pd: every level takes the digit of the last one.          *)
get_pd_last(p, level) == p % Fanout

(* The pages below one entry of a table at each level: PAGING64_ADDR_..._  *)
(* LOBIT, counted in pages.                                                *)
Span[level \in 1..Levels] == IF level = 1 THEN 1 ELSE Fanout * Span[level - 1]

(* get_pd_from_pagenum: the index of page p in its table at this level.    *)
get_pd(p, level) == (p \div Span[level]) % Fanout

(* The entry of page p by the walk from pgd down: 0 if a table is missing. *)
pte_walk(p) ==
  LET table[l \in 1..Levels] ==
        IF l = Levels THEN 1
        ELSE IF table[l + 1] = 0 THEN 0
        ELSE tables[table[l + 1]][get_pd(p, l + 1)]
  IN  IF table[1] = 0 THEN ZeroEntry ELSE tables[table[1]][get_pd(p, 1)]

(* A new table for the level below is put into entry i of table t.         *)
LinkNew(t, i, level) ==
  tables' = Append([tables EXCEPT ![t][i] = Len(tables) + 1], NewTable(level - 1))

SetEntry(t, i, entry) == tables' = [tables EXCEPT ![t][i] = entry]
=============================================================================
