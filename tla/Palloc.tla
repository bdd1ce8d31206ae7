------------------------------- MODULE Palloc -------------------------------
(***************************************************************************)
(* The page allocator (kernel/mem/palloc.c): buddy lists per region, built *)
(* from the PFN database.  Salloc extends it with its main caller.         *)
(*                                                                         *)
(* palloc_region and pfree run under the region's lock and are one action  *)
(* each; what they do to the lists and nodes is a function of the record   *)
(* s.  s.ok is FALSE once remove_node has not found its node, a panic.     *)
(* The look at avail_pages before the lock and the statistics after it are *)
(* part of the action, and the matches no caller uses are left out.        *)
(***************************************************************************)
EXTENDS Integers, FiniteSetsExt, SequencesExt

CONSTANTS
  PfnStart, PfnLimit,    \* the range of page frame numbers
  Tags,                  \* Tags[pfn]: the set of tags, or NoTags if not usable
  NoTags,
  MaxOrder,              \* PALLOC_MAX_ORDER
  Counts                 \* the sizes callers ask for

Pfns    == PfnStart .. (PfnLimit - 1)
Orders  == 0 .. MaxOrder
Regions == 0 .. (PfnLimit - PfnStart)

ASSUME PallocAssumption ==
  /\ PfnStart \in Nat \ {0} /\ PfnLimit \in Nat /\ PfnStart < PfnLimit
  /\ MaxOrder \in Nat \ {0}
  /\ DOMAIN Tags = Pfns
  /\ Counts \subseteq Nat \ {0}

Size(order) == 2^order
Block(pfn, order) == pfn .. (pfn + Size(order) - 1)

-----------------------------------------------------------------------------
\* Lists and nodes.

\* The lists are empty, the nodes are zero.
Blank ==
  [free  |-> [r \in Regions |-> [o \in Orders |-> <<>>]],
   node  |-> [p \in Pfns |-> [order |-> 0, region |-> 0, alloc |-> FALSE, avail |-> FALSE]],
   tags  |-> [r \in Regions |-> {}],
   pages |-> [r \in Regions |-> 0],     \* avail_pages
   count |-> 0,                         \* region_count
   ok    |-> TRUE]

insert_node(s, pfn, r, o) == [s EXCEPT !.free[r][o] = <<pfn>> \o @]

remove_node(s, pfn, r, o) ==
  [s EXCEPT !.free[r][o] = Remove(@, pfn), !.ok = @ /\ pfn \in ToSet(s.free[r][o])]

\* A node of a free block of order o in region r.
FreeNode(o, r) == [order |-> o, region |-> r, alloc |-> FALSE, avail |-> TRUE]

\* A block of order o may start at pfn.
Fits(pfn, o, limit) == pfn % Size(o) = 0 /\ pfn + Size(o) <= limit

\* init_region: the largest block that fits, again and again.
RECURSIVE InitBlocks(_, _, _, _)
InitBlocks(s, pfn, limit, r) ==
  IF pfn >= limit THEN s
  ELSE LET o == Max({x \in Orders : Fits(pfn, x, limit)})
       IN InitBlocks(insert_node([s EXCEPT !.node[pfn] = FreeNode(o, r)], pfn, r, o),
                     pfn + Size(o), limit, r)

init_region(s, start, limit, tags) ==
  LET r == s.count
      t == InitBlocks([s EXCEPT !.tags[r] = tags, !.pages[r] = @ + limit - start],
                      start, limit, r)
  IN [t EXCEPT !.count = @ + 1]

\* init_palloc's loop: start is the first page of the region being recorded,
\* or 0.  The page that ends a region does not start one.
RECURSIVE Scan(_, _, _)
Scan(s, pfn, start) ==
  IF pfn = PfnLimit
  THEN IF start = 0 THEN s ELSE init_region(s, start, PfnLimit, Tags[start])
  ELSE IF start # 0 /\ Tags[pfn] # Tags[start]
       THEN Scan(init_region(s, start, pfn, Tags[start]), pfn + 1, 0)
  ELSE IF start = 0 /\ Tags[pfn] # NoTags THEN Scan(s, pfn + 1, pfn)
  ELSE Scan(s, pfn + 1, start)

init_palloc == Scan(Blank, PfnStart, 0)

-----------------------------------------------------------------------------
\* Splitting and combining.

Fail == [Blank EXCEPT !.ok = FALSE]

\* The end of buddy_split: the first block of order o becomes two.
Halve(s, o, r) ==
  LET pfn   == Head(s.free[r][o])
      other == pfn + Size(o - 1)
      t     == [s EXCEPT !.free[r][o] = Tail(@), !.node[pfn] = FreeNode(o - 1, r),
                         !.node[other] = FreeNode(o - 1, r)]
  IN insert_node(insert_node(t, pfn, r, o - 1), other, r, o - 1)

RECURSIVE buddy_split(_, _, _)
buddy_split(s, o, r) ==
  IF s.free[r][o] # <<>> THEN Halve(s, o, r)
  ELSE IF o = MaxOrder THEN Fail
  ELSE LET t == buddy_split(s, o + 1, r)
       IN IF t = Fail THEN Fail ELSE Halve(t, o, r)

\* Mutant: the alloc bit of the other block is not looked at.
CombinesAllocated(s, pfn, other) ==
  other \in Pfns /\ s.node[other] \in
    {[s.node[pfn] EXCEPT !.avail = TRUE, !.alloc = a] : a \in BOOLEAN}

\* The other block is free, of the same order and in the same region.
Combines(s, pfn, other) ==
  /\ other \in Pfns
  /\ s.node[other].avail /\ ~s.node[other].alloc
  /\ s.node[other].region = s.node[pfn].region
  /\ s.node[other].order = s.node[pfn].order

RECURSIVE buddy_combine(_, _)
buddy_combine(s, pfn) ==
  LET r      == s.node[pfn].region
      o      == s.node[pfn].order
      low    == pfn % Size(o + 1) = 0
      higher == IF low THEN pfn ELSE pfn - Size(o)
      other  == IF low THEN pfn + Size(o) ELSE pfn - Size(o)
      t      == remove_node(remove_node(s, pfn, r, o), other, r, o)
      u      == [t EXCEPT !.node[pfn].order = o + 1, !.node[other].order = o + 1]
  IN IF o = MaxOrder \/ ~Combines(s, pfn, other) THEN s
     ELSE buddy_combine(insert_node(u, higher, r, o + 1), higher)

-----------------------------------------------------------------------------
\* Allocating and freeing.

VARIABLES
  s,           \* regions and nodes
  held,        \* the blocks callers own, <<pfn, order>>
  allocated,   \* page_stats.num_pages_alloc
  panicked     \* palloc_direct_mapped found nothing

vars == <<s, held, allocated, panicked>>

Init == s = init_palloc /\ held = {} /\ allocated = 0 /\ panicked = FALSE

\* The smallest order of at least count pages.
calc_palloc_order(count) == Min({o \in Orders : Size(o) >= count})

\* The lists after palloc_region has made a block of order o available.
WithBlock(o, r) ==
  IF s.free[r][o] # <<>> THEN s ELSE buddy_split(s, o + 1, r)

\* palloc_region succeeds in region r.
CanAlloc(count, r) ==
  LET o == calc_palloc_order(count)
  IN s.pages[r] >= Size(o) /\ o # MaxOrder /\ WithBlock(o, r) # Fail

\* Mutant: avail_pages is not reduced.
palloc_region_uncounted(count, r) ==
  LET o   == calc_palloc_order(count)
      t   == WithBlock(o, r)
      pfn == Head(t.free[r][o])
  IN /\ s' = [t EXCEPT !.free[r][o] = Tail(@), !.node[pfn].alloc = TRUE]
     /\ held' = held \cup {<<pfn, o>>}
     /\ allocated' = allocated + Size(o)
     /\ UNCHANGED panicked

palloc_region(count, r) ==
  LET o   == calc_palloc_order(count)
      t   == WithBlock(o, r)
      pfn == Head(t.free[r][o])
  IN /\ s' = [t EXCEPT !.free[r][o] = Tail(@), !.node[pfn].alloc = TRUE,
                       !.pages[r] = @ - Size(o)]
     /\ held' = held \cup {<<pfn, o>>}
     /\ allocated' = allocated + Size(o)
     /\ UNCHANGED panicked

Direct == {"normal", "mapped", "access"}
Mapped == {"normal", "mapped"}

\* The passes of palloc_direct_mapped and of palloc over the regions.
DirectPasses ==
  << <<"exact", Direct>>, <<"set_all", Direct>>, <<"exact", Mapped>>, <<"set_all", Mapped>> >>
AllPasses ==
  DirectPasses \o << <<"exact", {"normal"}>>, <<"set_all", {"normal"}>>, <<"ignore", {}>> >>

\* palloc_tag's test of a region.
Matched(r, pass) ==
  \/ pass[1] = "ignore"
  \/ pass[1] = "exact" /\ s.tags[r] = pass[2]
  \/ pass[1] = "set_all" /\ pass[2] \subseteq s.tags[r]

Candidates(count, pass) ==
  {r \in 0..(s.count - 1) : Matched(r, pass) /\ CanAlloc(count, r)}

\* The first region of the first pass that yields pages.
AllocBy(count, passes) ==
  \E i \in DOMAIN passes :
    /\ Candidates(count, passes[i]) # {}
    /\ \A j \in 1..(i - 1) : Candidates(count, passes[j]) = {}
    /\ palloc_region(count, Min(Candidates(count, passes[i])))

NoneFor(count, passes) ==
  \A i \in DOMAIN passes : Candidates(count, passes[i]) = {}

\* palloc returns 0 when there is nothing.
palloc(count) ==
  \/ AllocBy(count, AllPasses)
  \/ NoneFor(count, AllPasses) /\ UNCHANGED vars

palloc_direct_mapped(count) ==
  \/ AllocBy(count, DirectPasses)
  \/ NoneFor(count, DirectPasses) /\ panicked' = TRUE /\ UNCHANGED <<s, held, allocated>>

pfree(pfn, o) ==
  /\ <<pfn, o>> \in held
  /\ LET n == s.node[pfn]
         t == insert_node([s EXCEPT !.node[pfn].alloc = FALSE,
                                    !.pages[n.region] = @ + Size(n.order)],
                          pfn, n.region, n.order)
     IN /\ s' = buddy_combine(t, pfn)
        /\ allocated' = allocated - Size(n.order)
  /\ held' = held \ {<<pfn, o>>}
  /\ UNCHANGED panicked

-----------------------------------------------------------------------------
\* Properties.

\* The free blocks of region r, <<pfn, order>>, and all of them.
FreeBlocks(r) == UNION {{<<p, o>> : p \in ToSet(s.free[r][o])} : o \in Orders}
AllFree == UNION {FreeBlocks(r) : r \in Regions}

PagesOf(blocks) == UNION {Block(b[1], b[2]) : b \in blocks}
NumPages(blocks) == FoldSet(LAMBDA b, n : n + Size(b[2]), 0, blocks)

\* The pages init_palloc has put into regions.
Managed == LET t == init_palloc
           IN UNION {UNION {Block(p, o) : p \in ToSet(t.free[r][o])} :
                       r \in Regions, o \in Orders}

\* The blocks on the lists and the blocks callers hold never overlap, and
\* together they are all the pages of the regions: no page is handed out
\* twice, and none is lost, whatever palloc splits and pfree combines.
PagesPartitioned ==
  /\ PagesOf(AllFree) \cup PagesOf(held) = Managed
  /\ NumPages(AllFree) + NumPages(held) = Cardinality(Managed)

\* Two free buddies of a region are always combined, so memory that has been
\* freed can be had again in blocks as large as before.
Coalesced ==
  \A r \in Regions : \A b \in FreeBlocks(r) :
    LET o == b[2] IN
    o < MaxOrder /\ b[1] % Size(o + 1) = 0 => <<b[1] + Size(o), o>> \notin FreeBlocks(r)

\* palloc fails only if no region has a free block that is large enough: the
\* tags are a preference, and splitting finds every block.
FailsOnlyWhenExhausted ==
  \A count \in Counts :
    NoneFor(count, AllPasses) =>
      LET o == calc_palloc_order(count) IN o < MaxOrder => \A b \in AllFree : b[2] < o
=============================================================================
