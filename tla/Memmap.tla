------------------------------- MODULE Memmap -------------------------------
(***************************************************************************)
(* The loader's map of physical memory (libk/lib/memmap.c) from boot to    *)
(* the first page allocator: regions of the memory node are claimed as     *)
(* usable, parts of them as used, the directly mapped range is tagged      *)
(* (loader/mem/memmap.c, arch/*/loader/setup.c), and the loader, the HAL   *)
(* and the kernel then take memory from it.  In the end the kernel turns   *)
(* it into the PFN database, which says of every page frame whether the    *)
(* page allocator may have it (kernel/mem/pfn.c).                          *)
(***************************************************************************)
EXTENDS Integers, Sequences, SequencesExt

CONSTANTS
  Top,         \* addresses are below Top
  NumSlots,    \* num_slots
  Regs,        \* regions [start, size] a memory node can name
  MemStarts,   \* what the firmware may say of the start of memory
  MemSizes,    \* and of its size, 0 when it says nothing
  MaxRegs, MaxClaims, MaxAllocs,
  Sizes, Align, \* Align is the size of a page
  DbPages, NodePages \* pages the PFN database and the nodes of palloc take

VARIABLES
  es,      \* the entries [start, size, flags, tags]
  bad,     \* the panic that stopped the boot, "" for none
  phase,   \* which part of the boot is under way
  mem,     \* memstart, memsize, size_up_to_now, memstart_found, how many regions, their addresses
  kind,    \* kind[a]: what address a was last claimed as
  got,     \* the allocations that were returned [start, was]
  pfndb    \* the PFN database: page frame -> [usable, inuse, tags]

memmapVars == <<es, bad, phase, mem, kind, got, pfndb>>

Addr == 0..(Top - 1)
End(e) == e.start + e.size
Span(start, size) == start..(start + size - 1)
Holds(e, a) == e.start <= a /\ a < End(e)

-----------------------------------------------------------------------------
\* claim_memmap_region.  m is the map [es, bad]; a loop carries its locals.

insert_entry(m, i, new) ==
  IF Len(m.es) >= NumSlots THEN [m EXCEPT !.bad = "overflow"]
  ELSE [m EXCEPT !.es = InsertAt(@, i, new)]

\* The new entry keeps the tags of the entry it pushes away.
insert_before(m, i, start, size, type) ==
  insert_entry(m, i, [m.es[i] EXCEPT !.start = start, !.size = size, !.flags = type])

split_entry(m, i, offset) ==
  IF offset < 0 \/ offset >= m.es[i].size THEN [m EXCEPT !.bad = "split"]
  ELSE LET e == m.es[i] IN
       insert_entry([m EXCEPT !.es[i].size = offset], i + 1,
                    [e EXCEPT !.start = @ + offset, !.size = @ - offset])

split_entry2(m, i, offset1, offset2) ==
  LET n == split_entry(m, i, offset2) IN
  IF n.bad # "" THEN n ELSE split_entry(n, i, offset1)

SetFlags(m, i, type) ==
  IF m.bad # "" THEN m ELSE [m EXCEPT !.es[i].flags = type]

RECURSIVE merge_consecutive_regions(_, _)
merge_consecutive_regions(m, i) ==
  IF m.bad # "" \/ i >= Len(m.es) THEN m
  ELSE IF End(m.es[i]) = m.es[i + 1].start /\ m.es[i].flags = m.es[i + 1].flags
  THEN merge_consecutive_regions(
         [m EXCEPT !.es = RemoveAt([@ EXCEPT ![i].size = @ + m.es[i + 1].size], i + 1)], i)
  ELSE merge_consecutive_regions(m, i + 1)

RECURSIVE claim_from(_, _, _, _, _, _)
claim_from(m, i, start, size, end, type) ==
  IF m.bad # "" \/ size = 0 THEN m
  ELSE IF i > Len(m.es)
  THEN insert_entry(m, i, [start |-> start, size |-> size, flags |-> type, tags |-> {}])
  ELSE LET e == m.es[i] IN
       CASE end <= e.start -> insert_before(m, i, start, size, type)
         [] end > e.start /\ start < e.start ->
              \* the size of the new entry is taken after its start was set
              claim_from(insert_before(m, i, start, 0, type), i + 1, start, size, end, type)
         [] start = e.start /\ size >= e.size ->
              claim_from(SetFlags(m, i, type), i + 1, start + e.size, size - e.size, end, type)
         [] start = e.start /\ size < e.size ->
              SetFlags(split_entry(m, i, size), i, type)
         [] start > e.start /\ start < End(e) /\ end >= End(e) ->
              claim_from(SetFlags(split_entry(m, i, start - e.start), i + 1, type),
                         i + 2, start, size - (End(e) - start), end, type)
         [] start > e.start /\ end < End(e) ->
              SetFlags(split_entry2(m, i, start - e.start, end - e.start), i + 1, type)
         [] start >= End(e) -> claim_from(m, i + 1, start, size, end, type)

claim_memmap_region(m, start, size, type) ==
  merge_consecutive_regions(claim_from(m, 1, start, size, start + size, type), 1)

-----------------------------------------------------------------------------
\* do_tag_memmap_region.

SetTag(m, i, tag) ==
  IF m.bad # "" THEN m ELSE [m EXCEPT !.es[i].tags = @ \cup {tag}]

RECURSIVE tag_from(_, _, _, _, _)
tag_from(m, i, start, end, tag) ==
  IF m.bad # "" \/ i > Len(m.es) THEN m
  ELSE LET e == m.es[i] IN
       CASE e.start < start /\ End(e) > start /\ End(e) < end ->
              tag_from(SetTag(split_entry(m, i, start - e.start), i + 1, tag),
                       i + 2, start, end, tag)
         [] e.start > start /\ e.start < end /\ End(e) > end ->
              \* the offset is negative: the u64 is larger than any size
              tag_from(SetTag(split_entry(m, i, start - e.start), i, tag),
                       i + 1, start, end, tag)
         [] e.start < start /\ End(e) > end ->
              tag_from(SetTag(split_entry2(m, i, start - e.start, end - e.start), i + 1, tag),
                       i + 2, start, end, tag)
         [] e.start >= start /\ End(e) <= end ->
              tag_from(SetTag(m, i, tag), i + 1, start, end, tag)
         [] OTHER -> tag_from(m, i + 1, start, end, tag)

tag_memmap_region(m, start, size, tag) ==
  IF size = 0 THEN m ELSE tag_from(m, 1, start, start + size, tag)

-----------------------------------------------------------------------------
\* find_free_memmap_region: the first usable entry with room and fitting tags.

AlignUp(a) == ((a + Align - 1) \div Align) * Align


Room(e, size) ==
  e.size >= size /\ AlignUp(e.start) < End(e) /\ End(e) - AlignUp(e.start) >= size

Matches(e, match, mask) ==
  CASE match = "exact" -> e.tags = mask
    [] match = "set_all" -> mask \subseteq e.tags
    [] match = "ignore" -> TRUE

Fitting(m, size, match, mask) ==
  {i \in 1..Len(m.es) : /\ m.es[i].flags = "usable" /\ Room(m.es[i], size)
                        /\ Matches(m.es[i], match, mask)}

Preferences ==
  <<[match |-> "exact", mask |-> {"normal", "mapped", "access"}],
    [match |-> "set_all", mask |-> {"normal", "mapped", "access"}],
    [match |-> "exact", mask |-> {"normal", "mapped"}],
    [match |-> "set_all", mask |-> {"normal", "mapped"}],
    [match |-> "exact", mask |-> {"normal"}],
    [match |-> "set_all", mask |-> {"normal"}],
    [match |-> "ignore", mask |-> {}]>>

DirectPreferences == SubSeq(Preferences, 1, 4)

\* The callers try one preference after the other until an address other than
\* 0 comes back.  A region found at 0 is claimed all the same.
RECURSIVE find_free_by(_, _, _, _)
find_free_by(m, size, prefs, leak) ==
  IF prefs = <<>> \/ m.bad # ""
  THEN [m |-> [m EXCEPT !.bad = IF @ = "" THEN "nomem" ELSE @], at |-> 0, leak |-> leak]
  ELSE LET fit == Fitting(m, size, prefs[1].match, prefs[1].mask)
           i == CHOOSE j \in fit : \A k \in fit : j <= k
           at == AlignUp(m.es[i].start)
           n == claim_memmap_region(m, at, size, "used")
       IN IF fit = {} THEN find_free_by(m, size, Tail(prefs), leak)
          ELSE IF at = 0
          THEN find_free_by(n, size, Tail(prefs), leak \cup Span(0, size))
          ELSE [m |-> n, at |-> at, leak |-> leak]

-----------------------------------------------------------------------------
\* The boot.

Map == [es |-> es, bad |-> bad]
SetMap(m) == es' = m.es /\ bad' = m.bad

MemmapInit ==
  /\ es = <<>> /\ bad = "" /\ phase = "create"
  /\ \E s \in MemStarts, z \in MemSizes :
       mem = [start |-> s, size |-> z, upto |-> 0, found |-> FALSE, regs |-> 0,
              ram |-> {}]
  /\ kind = [a \in Addr |-> "none"]
  /\ got = <<>>
  /\ pfndb = <<>>

SetKind(start, size, type) ==
  kind' = [a \in Addr |-> IF a \in Span(start, size) THEN type ELSE kind[a]]

\* One round of create_all_from_memory_node: the region is cut to what the
\* firmware says of memory, claimed and tagged.
create_region ==
  \E r \in Regs :
    LET end == r.start + r.size
        start == IF r.start < mem.start THEN mem.start ELSE r.start
        whole == end - start
        size == IF mem.size # 0 /\ mem.upto + whole > mem.size
                THEN mem.size - mem.upto ELSE whole
        first == r.start >= mem.start /\ ~mem.found
    IN /\ phase = "create" /\ mem.regs < MaxRegs
       /\ mem.size = 0 \/ mem.upto < mem.size
       /\ \A a \in Span(r.start, r.size) : kind[a] = "none"
       /\ IF end <= mem.start
          THEN /\ mem' = [mem EXCEPT !.regs = @ + 1]
               /\ UNCHANGED <<es, bad, kind>>
          ELSE /\ SetMap(tag_memmap_region(claim_memmap_region(Map, start, size, "usable"),
                                           start, size, "normal"))
               /\ SetKind(start, size, "usable")
               /\ mem' = [mem EXCEPT !.regs = @ + 1, !.upto = @ + size,
                                     !.ram = @ \cup Span(start, size),
                                     !.start = IF first THEN r.start ELSE @,
                                     !.found = @ \/ first]
       /\ UNCHANGED <<phase, got, pfndb>>

\* Its end.
create_done ==
  /\ phase = "create" /\ es # <<>>
  /\ phase' = "claim"
  /\ mem' = [mem EXCEPT !.size = IF @ = 0 THEN mem.upto ELSE @, !.regs = 0]
  /\ UNCHANGED <<es, bad, kind, got, pfndb>>

\* claim_firmware, claim_memrsv, claim_loader, claim_coreimg and the segments
\* that loader/boot/exec.c loads: ranges of memory.
claim_used ==
  \E start \in Addr, size \in 1..Top :
    /\ phase \in {"claim", "alloc"} /\ mem.regs < MaxClaims
    /\ start + size <= Top
    /\ \E i \in 1..Len(es) : es[i].start <= start /\ start + size <= End(es[i])
    /\ SetMap(claim_memmap_region(Map, start, size, "used"))
    /\ SetKind(start, size, "used")
    /\ mem' = [mem EXCEPT !.regs = @ + 1]
    /\ UNCHANGED <<phase, got, pfndb>>

\* The architecture tags the range of memory as directly mapped.
tag_direct_mapped ==
  /\ phase = "claim"
  /\ phase' = "alloc"
  /\ SetMap(tag_memmap_region(Map, mem.start, mem.size, "mapped"))
  /\ UNCHANGED <<mem, kind, got, pfndb>>

\* A range of size is found by the preferences and claimed; kind and got
\* follow what was returned.
Take(size, prefs) ==
  LET r == find_free_by(Map, size, prefs, {}) IN
  /\ SetMap(r.m)
  /\ kind' = [a \in Addr |-> IF a \in r.leak \/ (r.at # 0 /\ a \in Span(r.at, size))
                             THEN "used" ELSE kind[a]]
  /\ got' = IF r.at = 0 THEN got
            ELSE Append(got, [start |-> r.at, was |-> {kind[a] : a \in Span(r.at, size)}])
  /\ UNCHANGED <<mem, pfndb>>

\* find_free_memmap_region_for_palloc and its direct-mapped form.
Allocate(prefs) ==
  /\ phase = "alloc" /\ Len(got) < MaxAllocs
  /\ \E size \in Sizes : Take(size, prefs)
  /\ UNCHANGED phase

find_free_memmap_region_for_palloc == Allocate(Preferences)
find_free_memmap_direct_mapped_region == Allocate(DirectPreferences)

-----------------------------------------------------------------------------
\* The PFN database.

reserve_pfndb ==
  /\ phase = "alloc" /\ phase' = "palloc"
  /\ Take(DbPages * Align, DirectPreferences)

reserve_palloc ==
  /\ phase = "palloc" /\ phase' = "pfndb"
  /\ Take(NodePages * Align, DirectPreferences)

AlignDown(a) == (a \div Align) * Align
Frames(from, to) == (from \div Align)..((to \div Align) - 1)

find_paddr_range == Frames(AlignDown(es[1].start), AlignUp(End(es[Len(es)])))

Hole == [usable |-> FALSE, inuse |-> TRUE, tags |-> {}]
Entry(e) == IF e.flags = "usable" THEN [usable |-> TRUE, inuse |-> FALSE, tags |-> e.tags]
            ELSE [usable |-> TRUE, inuse |-> TRUE, tags |-> {}]

\* The frames f in a range of the database get the value v.
Fill(db, frames, v) == [f \in DOMAIN db |-> IF f \in frames THEN v ELSE db[f]]

\* Entry after entry: what lies between the whole pages of the last one and of
\* this one is a hole, and an entry without a whole page takes prev_end back.
RECURSIVE construct_from(_, _, _)
construct_from(db, i, prev_end) ==
  IF i > Len(es)
  THEN Fill(db, Frames(prev_end, AlignUp(End(es[Len(es)]))), Hole)
  ELSE LET start == AlignUp(es[i].start)
           end == AlignDown(End(es[i]))
       IN construct_from(Fill(Fill(db, Frames(prev_end, start), Hole),
                              Frames(start, end), Entry(es[i])), i + 1, end)

construct_pfndb ==
  construct_from([f \in find_paddr_range |-> Hole], 1, AlignDown(es[1].start))

\* The first page of memory is not given out.
init_pfndb ==
  /\ phase = "pfndb" /\ phase' = "pages"
  /\ pfndb' = LET db == construct_pfndb IN
              IF 0 \in DOMAIN db /\ db[0].usable /\ ~db[0].inuse
              THEN [db EXCEPT ![0].usable = FALSE, ![0].inuse = TRUE] ELSE db
  /\ UNCHANGED <<es, bad, mem, kind, got>>

MemmapNext ==
  /\ bad = ""
  /\ \/ create_region \/ create_done \/ claim_used \/ tag_direct_mapped
     \/ find_free_memmap_region_for_palloc \/ find_free_memmap_direct_mapped_region
     \/ reserve_pfndb \/ reserve_palloc \/ init_pfndb

-----------------------------------------------------------------------------

\* What the loader takes for the range of memory is the memory there is: it
\* has no hole, and its start was not moved past a region that was cut.
OneRange == Span(mem.start, mem.size) = mem.ram

\* Of the PFN database: the allocator may have a frame only if no address of
\* it is in use or missing, and never frame 0; if memory is one range, it may
\* have every such frame, and only as directly mapped memory.
PfndbExact ==
  phase = "pages" =>
    /\ UNION {Span(f * Align, Align) : f \in DOMAIN pfndb}
         = AlignDown(es[1].start)..(AlignUp(End(es[Len(es)])) - 1)
    /\ \A f \in DOMAIN pfndb :
         LET whole == f # 0 /\ \A a \in Span(f * Align, Align) : a \in Addr /\ kind[a] = "usable"
             given == pfndb[f].usable /\ ~pfndb[f].inuse
         IN /\ given => whole
            /\ OneRange => (whole => given)
            /\ OneRange /\ given => pfndb[f].tags = {"normal", "mapped"}

=============================================================================
