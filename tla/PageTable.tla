----------------------------- MODULE PageTable -----------------------------
(***************************************************************************)
(* The generic page table (libk/lib/page.c over the entry accessors of     *)
(* arch/x86/common/include/page.h) and the one of arm                      *)
(* (arch/arm/hal/mem/page.c) as the kernel's VM blocks use them            *)
(* (kernel/proc/vm.c): ranges are mapped with the largest pages that fit,  *)
(* tables are allocated on the way down, blocks are taken apart page by    *)
(* page, and tables that become empty are given back.  Addresses count     *)
(* pages; a table has two entries, the first of arm's two more.            *)
(***************************************************************************)
EXTENDS Integers, Sequences, FiniteSets

CONSTANTS
  Arm,          \* the page table is the one of arm
  Procs,        \* the processes, each with a page table
  Slots,        \* Slots[p]: the ranges [base, n] that vm_alloc can give to p
  Levels,       \* PAGE_LEVELS
  BlockLevels,  \* the levels whose entries may map memory
  Ram,          \* the page frames palloc hands out
  Dev, Img      \* the first frame of a device and of the core image

VARIABLES
  pt,      \* pt[p]: the entries, the number of tables below the root, panic
  blocks,  \* blocks[p]: the VM blocks of p, in use or being freed
  ram,     \* the free page frames
  view     \* view[p][v]: the frame p was promised at v, 0 for none

ptVars == <<pt, blocks, ram, view>>

Vpages == 0..(2^Levels - 1)
Count(l) == IF l \in BlockLevels THEN 2^(Levels - l) ELSE 0
Key(l, v) == <<l, v \div 2^(Levels - l)>>
Keys == UNION {{<<l, i>> : i \in 0..(2^l - 1)} : l \in 1..Levels}
Table(k) == {<<k[1], i>> : i \in {j \in 0..(2^k[1] - 1) : j \div 2 = k[2] \div 2}}

None == [kind |-> "none", ppfn |-> 0, cache |-> FALSE]
NextTable == [kind |-> "table", ppfn |-> 0, cache |-> FALSE]
Leaf(f, cache) == [kind |-> "leaf", ppfn |-> f, cache |-> cache]

-----------------------------------------------------------------------------
\* The page table.

page_get_block_level(v, f, n) ==
  LET fits == {l \in BlockLevels :
                 v % Count(l) = 0 /\ f % Count(l) = 0 /\ n >= Count(l)} IN
  IF fits = {} THEN Levels ELSE CHOOSE l \in fits : \A m \in fits : l <= m

page_get_pte_dest_paddr(e, l, v) == e.ppfn + (v % Count(l))

RECURSIVE translate_from(_, _, _)
translate_from(t, v, l) ==
  LET e == t.pte[Key(l, v)] IN
  CASE e.kind = "none" -> 0
    [] e.kind = "leaf" -> page_get_pte_dest_paddr(e, l, v)
    [] e.kind = "table" -> translate_from(t, v, l + 1)

generic_translate(t, v) == translate_from(t, v, 1)

\* The tables on the way are allocated.  A large page on the way, or another
\* mapping at the end of it, is a panic.  The attribute written as "cache" is
\* the one that was given as "exec".
map_page(t, v, f, block, cache, exec) ==
  LET path == {Key(l, v) : l \in 1..(block - 1)}
      e == t.pte[Key(block, v)]
      new == {k \in path : t.pte[k].kind = "none"}
  IN IF \/ v = 0
        \/ \E k \in path : t.pte[k].kind = "leaf"
        \/ e.kind # "none" /\ e # Leaf(f, cache)
     THEN [t EXCEPT !.bad = TRUE]
     ELSE [t EXCEPT
             !.pte = [k \in Keys |->
                        IF k \in new THEN NextTable
                        ELSE IF k = Key(block, v) /\ e.kind = "none"
                        THEN Leaf(f, exec) ELSE @[k]],
             !.tables = @ + Cardinality(new)]

RECURSIVE generic_map_range(_, _, _, _, _, _)
generic_map_range(t, v, f, n, cache, exec) ==
  IF n = 0 \/ t.bad THEN t
  ELSE LET l == page_get_block_level(v, f, n) IN
       generic_map_range(map_page(t, v, f, l, cache, exec),
                         v + Count(l), f + Count(l), n - Count(l), cache, exec)

\* Mutant: an emptied table is given back only one level up.
free_empty_tables_once(t, v, l) ==
  IF l = 1 \/ \E k \in Table(Key(l, v)) : t.pte[k].kind # "none"
  THEN t
  ELSE [t EXCEPT !.pte[Key(l - 1, v)] = None, !.tables = @ - 1]

\* The tables above an unmapped entry that it leaves empty are given back.
RECURSIVE free_empty_tables(_, _, _)
free_empty_tables(t, v, l) ==
  IF l = 1 \/ \E k \in Table(Key(l, v)) : t.pte[k].kind # "none"
  THEN t
  ELSE free_empty_tables([t EXCEPT !.pte[Key(l - 1, v)] = None, !.tables = @ - 1],
                         v, l - 1)

unmap_page(t, v, f, block) ==
  LET e == t.pte[Key(block, v)] IN
  IF \/ \E l \in 1..(block - 1) : t.pte[Key(l, v)].kind # "table"
     \/ e.kind # "leaf"
     \/ page_get_pte_dest_paddr(e, block, v) # f
  THEN [t EXCEPT !.bad = TRUE]
  ELSE free_empty_tables([t EXCEPT !.pte[Key(block, v)] = None], v, block)

\* generic_unmap_range, for the one page vm.c passes.
generic_unmap_range(t, v, f) == unmap_page(t, v, f, page_get_block_level(v, f, 1))

-----------------------------------------------------------------------------
\* The page table of arm: the entries of level Levels - 1 are the first table,
\* and map 1 MB or point to a second table.  The present bits of the two kinds
\* are different bits, so an entry that is written as both is Mixed.

L1(v) == Key(Levels - 1, v)
L2(v) == Key(Levels, v)
Mixed == [kind |-> "mixed", ppfn |-> 0, cache |-> FALSE]

arm_translate(t, v) ==
  LET e == t.pte[L1(v)] IN
  CASE e.kind = "none" -> 0
    [] e.kind \in {"leaf", "mixed"} -> page_get_pte_dest_paddr(e, Levels - 1, v)
    [] e.kind = "table" -> t.pte[L2(v)].ppfn

\* A 1 MB entry that is there must be the same in everything; a page may be
\* made writable or executable, which all pages of a process are.
arm_map_block(t, v, f, cache) ==
  LET e == t.pte[L1(v)] IN
  IF e.kind \in {"leaf", "mixed"}
  THEN IF e = Leaf(f, cache) THEN t ELSE [t EXCEPT !.bad = TRUE]
  ELSE [t EXCEPT !.pte[L1(v)] = IF e.kind = "table" THEN Mixed ELSE Leaf(f, cache)]

alloc_l2table(t, v) ==
  [t EXCEPT !.pte[L1(v)] = IF @.kind = "none" THEN NextTable ELSE Mixed,
            !.tables = @ + 1]

arm_map_page(t, v, f, cache) ==
  LET u == IF t.pte[L1(v)].kind \in {"table", "mixed"} THEN t ELSE alloc_l2table(t, v)
      e == u.pte[L2(v)]
  IN IF e.kind = "none" THEN [u EXCEPT !.pte[L2(v)] = Leaf(f, cache)]
     ELSE IF e = Leaf(f, cache) THEN u
     ELSE [u EXCEPT !.bad = TRUE]

RECURSIVE arm_map_range(_, _, _, _, _)
arm_map_range(t, v, f, n, cache) ==
  LET big == Count(Levels - 1) IN
  IF n = 0 \/ t.bad THEN t
  ELSE IF v % big = 0 /\ f % big = 0 /\ n >= big
  THEN arm_map_range(arm_map_block(t, v, f, cache), v + big, f + big, n - big, cache)
  ELSE arm_map_range(arm_map_page(t, v, f, cache), v + 1, f + 1, n - 1, cache)

\* The first table keeps the entries of the HAL, so it never becomes empty.
arm_unmap_page(t, v, f) ==
  LET u == [t EXCEPT !.pte[L2(v)] = None] IN
  IF t.pte[L1(v)].kind # "table" \/ t.pte[L2(v)] # Leaf(f, t.pte[L2(v)].cache)
  THEN [t EXCEPT !.bad = TRUE]
  ELSE IF \E k \in Table(L2(v)) : u.pte[k].kind # "none" THEN u
  ELSE [u EXCEPT !.pte[L1(v)] = None, !.tables = @ - 1]

\* unmap_range, for the one page vm.c passes.
arm_unmap_range(t, v, f) == arm_unmap_page(t, v, f)

\* The functions the HAL gives the kernel (hal_exports).
translate(t, v) == IF Arm THEN arm_translate(t, v) ELSE generic_translate(t, v)

kernel_map_range(t, v, f, n, cache, exec) ==
  IF Arm THEN arm_map_range(t, v, f, n, cache)
  ELSE generic_map_range(t, v, f, n, cache, exec)

kernel_unmap_range(t, v, f) ==
  IF Arm THEN arm_unmap_range(t, v, f) ELSE generic_unmap_range(t, v, f)

-----------------------------------------------------------------------------
\* The VM blocks.

PageTableInit ==
  /\ pt = [p \in Procs |-> [pte |-> [k \in Keys |-> None], tables |-> 0, bad |-> FALSE]]
  /\ blocks = [p \in Procs |-> {}]
  /\ ram = Ram
  /\ view = [p \in Procs |-> [v \in Vpages |-> 0]]

Running == \A p \in Procs : ~pt[p].bad

Pages(b) == b.base..(b.base + b.n - 1)

\* vm_alloc gives a range no block of the process has.
Free(p) == {s \in Slots[p] : \A b \in blocks[p] : b.base # s.base}

NewBlock(s, type) ==
  [base |-> s.base, n |-> s.n, type |-> type, off |-> 0, prev |-> 0]

\* A block without memory: its pages come with the first access to them.
vm_alloc(p) ==
  \E s \in Free(p) :
    /\ blocks' = [blocks EXCEPT ![p] = @ \cup {NewBlock(s, "none")}]
    /\ UNCHANGED <<pt, ram, view>>

\* A page fault in such a block, which becomes the owner of its pages.
vm_map(p) ==
  \E b \in blocks[p], f \in ram : \E v \in Pages(b) :
    /\ b.type \in {"none", "owner"} /\ b.off = 0
    /\ translate(pt[p], v) = 0
    /\ pt' = [pt EXCEPT ![p] = kernel_map_range(@, v, f, 1, TRUE, TRUE)]
    /\ blocks' = [blocks EXCEPT ![p] = (@ \ {b}) \cup {[b EXCEPT !.type = "owner"]}]
    /\ ram' = ram \ {f}
    /\ view' = [view EXCEPT ![p][v] = f]

\* vm_map_coreimg and vm_map_devtree map the image from frame Img on, and
\* vm_map_dev a device from frame Dev on, uncached.
MapFixed(p, first, type, cache) ==
  \E s \in Free(p) :
    /\ pt' = [pt EXCEPT ![p] = kernel_map_range(@, s.base, first, s.n, cache, TRUE)]
    /\ blocks' = [blocks EXCEPT ![p] = @ \cup {NewBlock(s, type)}]
    /\ view' = [view EXCEPT ![p] = [v \in Vpages |->
                  IF v \in s.base..(s.base + s.n - 1) THEN first + v - s.base ELSE @[v]]]
    /\ UNCHANGED ram

vm_map_coreimg(p) == MapFixed(p, Img, "image", TRUE)
vm_map_dev(p) == MapFixed(p, Dev, "dev", FALSE)

RECURSIVE map_pages(_, _, _)
map_pages(t, v, fs) ==
  IF fs = <<>> THEN t
  ELSE map_pages(kernel_map_range(t, v, Head(fs), 1, TRUE, TRUE), v + 1, Tail(fs))

FramesFor(n) == {fs \in [1..n -> ram] : \A i, j \in 1..n : fs[i] = fs[j] => i = j}

PagesAt(p, s, fs) ==
  [v \in Vpages |-> IF v \in s.base..(s.base + s.n - 1) THEN fs[v - s.base + 1]
                    ELSE view[p][v]]

\* Memory of its own, mapped at once.
vm_map_kernel(p) ==
  \E s \in Free(p) : \E fs \in FramesFor(s.n) :
    /\ pt' = [pt EXCEPT ![p] = map_pages(@, s.base, fs)]
    /\ blocks' = [blocks EXCEPT ![p] = @ \cup {NewBlock(s, "owner")}]
    /\ ram' = ram \ {fs[i] : i \in 1..s.n}
    /\ view' = [view EXCEPT ![p] = PagesAt(p, s, fs)]

\* Memory of process q, which has not started yet, that the loader p sees too.
vm_map_cross(p, q) ==
  \E s \in Free(p), r \in Free(q) : \E fs \in FramesFor(s.n) :
    /\ p # q /\ s.n = r.n
    /\ pt' = [pt EXCEPT ![p] = map_pages(@, s.base, fs), ![q] = map_pages(@, r.base, fs)]
    /\ blocks' = [blocks EXCEPT ![p] = @ \cup {NewBlock(s, "guest")},
                                ![q] = @ \cup {NewBlock(r, "owner")}]
    /\ ram' = ram \ {fs[i] : i \in 1..s.n}
    /\ view' = [view EXCEPT ![p] = PagesAt(p, s, fs), ![q] = PagesAt(q, r, fs)]

\* The loader frees its view of the pages before their owner runs.
Shared(p, b) ==
  \E q \in Procs \ {p} : \E v \in Pages(b), w \in Vpages :
    view[p][v] # 0 /\ view[p][v] = view[q][w] /\ b.type = "owner"

\* One round of vm_free_block_pages: translate and unmap under the lock of
\* the page table, then the page goes back if the block owns it.
vm_free_block_pages(p) ==
  \E b \in blocks[p] :
    LET v == b.base + b.off
        f == translate(pt[p], v)
        there == f # 0 /\ f # b.prev
        last == b.off + 1 = b.n
    IN /\ ~Shared(p, b)
       /\ pt' = [pt EXCEPT ![p] = IF there THEN kernel_unmap_range(@, v, f) ELSE @]
       /\ ram' = IF there /\ b.type = "owner" THEN ram \cup {f} ELSE ram
       /\ blocks' = [blocks EXCEPT ![p] =
            (@ \ {b}) \cup
            IF last THEN {}
            ELSE {[b EXCEPT !.off = @ + 1, !.prev = IF there THEN f ELSE @]}]
       /\ view' = [view EXCEPT ![p][v] = 0]

PageTableNext ==
  /\ Running
  /\ \E p \in Procs :
       \/ vm_alloc(p) \/ vm_map(p) \/ vm_map_coreimg(p) \/ vm_map_dev(p)
       \/ vm_map_kernel(p) \/ vm_free_block_pages(p)
       \/ \E q \in Procs : vm_map_cross(p, q)

-----------------------------------------------------------------------------

\* translate gives every process exactly the frames its mapping calls
\* promised, whatever large and small pages they were mapped with and whatever
\* was unmapped around them; a table exists exactly where an entry below it is
\* in use, and is counted; no entry of arm is
\* written as two kinds; no frame is both free and mapped, and none is lost.
\* The kernel panics only on freeing a block that has large pages.
PageTableExact ==
  IF Running
  THEN /\ \A p \in Procs :
            /\ \A v \in Vpages : translate(pt[p], v) = view[p][v]
            /\ LET inner == {k \in Keys : pt[p].pte[k].kind = "table"} IN
               /\ pt[p].tables = Cardinality(inner)
               /\ \A k \in Keys : k[1] > (IF Arm THEN Levels - 1 ELSE 1) =>
                    ((\E j \in Table(k) : pt[p].pte[j].kind # "none")
                       <=> <<k[1] - 1, k[2] \div 2>> \in inner)
            /\ \A k \in Keys : pt[p].pte[k].kind # "mixed"
       /\ {view[p][v] : p \in Procs, v \in Vpages} \cap ram = {}
       /\ Ram \ ram \subseteq {view[p][v] : p \in Procs, v \in Vpages}
  ELSE \E p \in Procs, l \in BlockLevels \ {Levels}, v \in Vpages :
         pt[p].bad /\ pt[p].pte[Key(l, v)].kind = "leaf"

\* What vm_map_dev's "Uncacheable" says: no page of a device is mapped cached.
DevUncached ==
  \A p \in Procs : \A b \in blocks[p] : \A v \in Pages(b) :
    b.type = "dev" => ~pt[p].pte[Key(Levels, v)].cache
=============================================================================
