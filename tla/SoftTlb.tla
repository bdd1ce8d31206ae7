------------------------------ MODULE SoftTlb ------------------------------
(***************************************************************************)
(* Page table entries and the TLBs filled from them.  Mappings come and go *)
(* through the accessors of the architecture (PageEntry, libk/lib/page.c); *)
(* on mips (arch/mips/hal/mem/tlb.c) and openrisc                          *)
(* (arch/openrisc/hal/mem/mmu.c) one CPU, whose misses are served in       *)
(* software, runs beside other CPUs that map and unmap pages meanwhile.    *)
(* Who invalidates whom is the subject of Shootdown; here an unmapped page *)
(* is owed an invalidation until the CPU has done it.                      *)
(***************************************************************************)
EXTENDS PageEntry, FiniteSets

CONSTANT Machines   \* the computers: arch, hardware TLB, and what is mapped where

VARIABLES
  mmu,  \* the CPU: machine, TLB and its configuration, table in use, refill
  mm    \* the page tables, what was asked for, pages owed an invalidation

arch == mmu.m.arch
hw == mmu.m.hw
Family ==
  CASE arch \in {"mips32", "mips64"} -> "mips" [] arch \in {"riscv32", "riscv64"} -> "riscv"
    [] arch \in {"ia32", "amd64"} -> "x86" [] OTHER -> arch
Soft == Family \in {"mips", "openrisc"}
Tables == {r.p : r \in mmu.m.reqs}
Users == Tables \ {"kernel"}
Asid(p) == CASE p = "p" -> 1 [] p = "q" -> 2 [] OTHER -> 0

-----------------------------------------------------------------------------
\* The accessors of the architecture.

Zero == CASE Family = "riscv" -> riscv_entry [] Family = "mips" -> mips_entry
          [] Family = "openrisc" -> openrisc_entry [] Family = "x86" -> x86_entry
          [] OTHER -> aarch64_entry
page_get_pte(l, v) ==
  CASE Family = "riscv" -> riscv_page_get_pte(arch, l, v)
    [] Family = "mips" -> mips_page_get_pte(arch, l, v)
    [] Family = "openrisc" -> openrisc_page_get_pte(arch, l, v)
    [] Family = "x86" -> x86_page_get_pte(arch, l, v)
    [] OTHER -> aarch64_page_get_pte(arch, l, v)
page_get_block_page_count(l) ==
  CASE Family = "riscv" -> riscv_page_get_block_page_count(arch, l)
    [] Family = "mips" -> mips_page_get_block_page_count(arch, l)
    [] Family = "openrisc" -> openrisc_page_get_block_page_count(arch, l)
    [] Family = "x86" -> x86_page_get_block_page_count(arch, l)
    [] OTHER -> aarch64_page_get_block_page_count(arch, l)
page_is_pte_valid(e) ==
  CASE Family = "riscv" -> riscv_is_valid(e) [] Family = "mips" -> mips_is_valid(e)
    [] Family = "openrisc" -> openrisc_is_valid(e) [] Family = "x86" -> x86_is_valid(e)
    [] OTHER -> aarch64_is_valid(e)
page_is_pte_leaf(e, l) ==
  CASE Family = "riscv" -> riscv_is_leaf(e) [] Family = "mips" -> mips_is_leaf(e)
    [] Family = "openrisc" -> openrisc_is_leaf(e) [] Family = "x86" -> x86_is_leaf(arch, e, l)
    [] OTHER -> aarch64_is_leaf(e, l)
page_get_pte_dest_ppfn(e) ==
  CASE Family = "riscv" -> riscv_dest_ppfn(e) [] Family = "mips" -> mips_dest_ppfn(e)
    [] Family = "openrisc" -> openrisc_dest_ppfn(e) [] Family = "x86" -> x86_dest_ppfn(e)
    [] OTHER -> aarch64_dest_ppfn(e)
page_get_pte_next_table(e) ==
  CASE Family = "riscv" -> riscv_next_table(e) [] Family = "mips" -> mips_next_table(e)
    [] Family = "openrisc" -> openrisc_next_table(e) [] Family = "x86" -> x86_next_table(e)
    [] OTHER -> aarch64_next_table(e)
page_get_pte_attri(e) ==
  CASE Family = "riscv" -> riscv_get_attri(e) [] Family = "mips" -> mips_get_attri(e)
    [] Family = "openrisc" -> openrisc_get_attri(e) [] Family = "x86" -> x86_get_attri(e)
    [] OTHER -> aarch64_get_attri(e)
page_compare_pte_attri(e, f, at) ==
  CASE Family = "riscv" -> riscv_compare(e, f, at) [] Family = "mips" -> mips_compare(e, f, at)
    [] Family = "openrisc" -> openrisc_compare(e, f, at)
    [] Family = "x86" -> x86_compare(arch, e, f, at)
    [] OTHER -> aarch64_compare(e, f, at)
page_set_pte_attri(l, f, at) ==
  CASE Family = "riscv" -> riscv_set_attri(f, at) [] Family = "mips" -> mips_set_attri(f, at)
    [] Family = "openrisc" -> openrisc_set_attri(f, at)
    [] Family = "x86" -> x86_set_attri(arch, l, f, at)
    [] OTHER -> aarch64_set_attri(l, f, at)
page_set_pte_next_table(f) ==
  CASE Family = "riscv" -> riscv_set_next_table(f) [] Family = "mips" -> mips_set_next_table(f)
    [] Family = "openrisc" -> openrisc_set_next_table(f)
    [] Family = "x86" -> x86_set_next_table(f)
    [] OTHER -> aarch64_set_next_table(f)
page_is_empty_table(es) ==
  CASE Family = "riscv" -> riscv_is_empty_table(es) [] Family = "mips" -> mips_is_empty_table(es)
    [] Family = "openrisc" -> openrisc_is_empty_table(es)
    [] Family = "x86" -> x86_is_empty_table(es)
    [] OTHER -> aarch64_is_empty_table(es)

-----------------------------------------------------------------------------
\* The page tables: the entry at the indices that lead to it; a table that is
\* not there is absent, one that is there reads zero where nothing is mapped.

Path(l, v) == [i \in 1..l |-> page_get_pte(i, v)]
Pte(t, path) == IF path \in DOMAIN t THEN t[path] ELSE Zero
Put(t, path, e) == [k \in DOMAIN t \cup {path} |-> IF k = path THEN e ELSE t[k]]
TableFrame == 7

Stops(t, l, v) ==
  ~page_is_pte_valid(Pte(t, Path(l, v))) \/ page_is_pte_leaf(Pte(t, Path(l, v)), l)

\* generic_translate_attri: <<>> for a page that is not mapped.
generic_translate_attri(t, v) ==
  LET l == CHOOSE i \in 1..PAGE_LEVELS(arch) :
             Stops(t, i, v) /\ \A j \in 1..(i - 1) : ~Stops(t, j, v)
      e == Pte(t, Path(l, v))
  IN IF ~page_is_pte_valid(e) THEN <<>>
     ELSE [ppfn |-> page_get_pte_dest_ppfn(e) + (v % page_get_block_page_count(l)),
           at |-> page_get_pte_attri(e)]

RECURSIVE map_page(_, _, _)
map_page(t, r, l) ==
  LET path == Path(l, r.v)
      e == Pte(t, path)
  IN CASE l < r.l /\ ~page_is_pte_valid(e) ->
            map_page(Put(t, path, page_set_pte_next_table(TableFrame)), r, l + 1)
       [] l < r.l /\ page_is_pte_valid(e) -> map_page(t, r, l + 1)
       [] l = r.l /\ page_is_pte_valid(e) -> t
       [] OTHER ->
            Put(t, path, page_set_pte_attri(l, r.f, [r.at EXCEPT !.cache = r.at.exec]))

\* An entry in the way, a larger page or a mapping that is there already, must
\* compare equal, or map_page panics.
Refuses(t, r) ==
  \E l \in 1..r.l :
    LET e == Pte(t, Path(l, r.v)) IN
    /\ page_is_pte_valid(e) /\ (l < r.l => page_is_pte_leaf(e, l))
    /\ ~page_compare_pte_attri(e, r.f, r.at)

RECURSIVE unmap_page(_, _, _)
unmap_page(t, l, v) ==
  LET u == Put(t, Path(l, v), Zero)
      table == {k \in DOMAIN u : Len(k) = l /\ SubSeq(k, 1, l - 1) = Path(l - 1, v)}
  IN IF l > 1 /\ page_is_empty_table([k \in table |-> u[k]])
     THEN unmap_page([k \in DOMAIN u \ table |-> u[k]], l - 1, v)
     ELSE u
-----------------------------------------------------------------------------
\* The TLB of mips: an entry maps a pair of pages of one address space.  hw has
\* the fields of the configuration registers: type, size and its extension, the
\* last register that is there, and whether the FTLB takes pages of 4 KB.

NoLo == [valid |-> FALSE, pfn |-> 0, dirty |-> 0, coherent |-> 0]
Invalid == [asid |-> 0, vpn2 |-> 0, lo |-> <<NoLo, NoLo>>]

\* The registers say which of them is the last.
read_cpu_config(h, i) == i <= h.last /\ i <= 5

\* The size field has one bit here, and six in the register.
init_vtlb(h) ==
  IF h.type \notin {1, 4} THEN [has_vtlb |-> FALSE, vtlb |-> 0]
  ELSE [has_vtlb |-> TRUE,
        vtlb |-> h.size + (IF read_cpu_config(h, 4) THEN 2 * h.ext ELSE 0) + 1]

init_ftlb(h) ==
  IF h.type # 4 \/ ~h.ftlb4k THEN [has_ftlb |-> FALSE, ftlb |-> 0]
  ELSE [has_ftlb |-> TRUE, ftlb |-> h.sets * h.ways]

\* External: the entries the hardware has.
HwEntries(h) == 0..(h.size + (IF h.last >= 4 THEN 2 * h.ext ELSE 0))

\* Mutant: a page is written to a random entry though its pair has one.
write_tlb_entryRandom(tlb, index, e) == {[tlb EXCEPT ![i] = e] : i \in DOMAIN tlb}

\* Without an index (-1) any entry is chosen, by the CPU's random register.
write_tlb_entry(tlb, index, e) ==
  {[tlb EXCEPT ![i] = e] : i \in IF index = -1 THEN DOMAIN tlb ELSE {index}}

write_invalid_vtlb_entry(tlb, i) == CHOOSE t \in write_tlb_entry(tlb, i, Invalid) : TRUE
write_invalid_ftlb_entry(tlb, i) == CHOOSE t \in write_tlb_entry(tlb, i, Invalid) : TRUE

do_flush_tlb(tlb, cfg) ==
  [i \in DOMAIN tlb |->
     IF i < cfg.vtlb THEN write_invalid_vtlb_entry(tlb, i)[i]
     ELSE IF cfg.has_ftlb /\ i < cfg.vtlb + cfg.ftlb THEN write_invalid_ftlb_entry(tlb, i)[i]
     ELSE tlb[i]]

mips_flush_tlb(c) == [c EXCEPT !.tlb = do_flush_tlb(@, c.cfg)]
mips_invalidate_tlb(c) == [c EXCEPT !.tlb = do_flush_tlb(@, c.cfg)]

\* What was in the TLB before is of no process.
init_tlb_mp(m) ==
  LET v == init_vtlb(m.hw)
      f == init_ftlb(m.hw)
      cfg == [has_vtlb |-> v.has_vtlb, vtlb |-> v.vtlb, has_ftlb |-> f.has_ftlb, ftlb |-> f.ftlb]
      junk == [asid |-> 1, vpn2 |-> 2,
               lo |-> <<[NoLo EXCEPT !.valid = TRUE], [NoLo EXCEPT !.valid = TRUE]>>]
  IN [cfg |-> cfg, tlb |-> do_flush_tlb([i \in HwEntries(m.hw) |-> junk], cfg)]

probe_tlb_index(tlb, asid, vpn2) ==
  LET found == {i \in DOMAIN tlb : tlb[i].asid = asid /\ tlb[i].vpn2 = vpn2} IN
  IF found = {} THEN -1 ELSE CHOOSE i \in found : TRUE

\* A page that is not mapped (<<>>) leaves its half of the entry invalid.
Lo(x) ==
  IF x = <<>> THEN NoLo
  ELSE [valid |-> TRUE, pfn |-> x.ppfn, dirty |-> x.at.write,
        coherent |-> IF x.at.cache = 1 THEN 3 ELSE 2]

map_tlb_entry_user(tlb, asid, vpn2, x0, x1) ==
  write_tlb_entry(tlb, probe_tlb_index(tlb, asid, vpn2),
                  [asid |-> asid, vpn2 |-> vpn2, lo |-> <<Lo(x0), Lo(x1)>>])

-----------------------------------------------------------------------------
\* The TLBs of openrisc, one for data and one for instructions (itlb), of hw.ways
\* ways and hw.sets sets.  An entry is of whatever table was in use.

NoMatch == [valid |-> FALSE, vpn |-> 0, ppn |-> 0, cached |-> FALSE, may |-> protect_regs(0)]

setup_mmu_mp(h) == [ways |-> IF h.ways = 0 THEN 1 ELSE h.ways, sets |-> 2^h.sets_order]

openrisc_flush_tlb(c) ==
  [c EXCEPT !.tlb = [k \in DOMAIN @ |->
     IF k[2] < c.cfg.ways /\ k[3] < c.cfg.sets THEN NoMatch ELSE @[k]]]
openrisc_invalidate_tlb(c) == openrisc_flush_tlb(c)
set_page_table(c, p) == [c EXCEPT !.run = p]

\* The search ends at a way that is not in use or of the greatest age there is;
\* else the first of the oldest is taken.
victim(tlb, itlb, set, ways, age) ==
  LET W == 0..(ways - 1)
      ends == {w \in W : ~tlb[<<itlb, w, set>>].valid \/ (age[w] = ways - 1 /\ age[w] > 0)}
      oldest == {w \in W : \A x \in W : age[x] <= age[w]}
      first(S) == CHOOSE w \in S : \A x \in S : w <= x
  IN first(IF ends # {} THEN ends ELSE oldest)

tlb_refill(c, itlb, v, x, age) ==
  LET set == v % c.cfg.sets
      way == victim(c.tlb, itlb, set, c.cfg.ways, age)
      type == compose_prot_type(x.at.kernel, 1, x.at.write, x.at.exec)
  IN [c EXCEPT !.tlb[<<itlb, way, set>>] =
        [valid |-> TRUE, vpn |-> v, ppn |-> x.ppfn, cached |-> x.at.cache = 1,
         may |-> protect_regs(protect_scheme_to_reg_idx(type))]]
-----------------------------------------------------------------------------

Empty == [x \in {} |-> 0]
Idle == [phase |-> "idle", v |-> 0, itlb |-> 0, x |-> <<>>]

SoftTlbInit ==
  \E m \in Machines :
    LET none == [cfg |-> <<>>, tlb |-> <<>>] IN
    /\ mmu = [m |-> m, cfg |-> none.cfg, tlb |-> none.tlb, run |-> "reset", refill |-> Idle,
              done |-> <<>>, panic |-> FALSE]
    /\ mm = [pt |-> [p \in {r.p : r \in m.reqs} |-> Empty],
             want |-> {}, owed |-> {}, refused |-> <<>>]

Live == ~mmu.panic /\ mm.refused = <<>>
Table(p) == mm.pt[p]

\* hal_entry_mp: the TLB is set up; after a reset openrisc's is empty.
Boot ==
  /\ mmu.run = "reset"
  /\ mmu' = CASE Family = "mips" ->
                   LET t == init_tlb_mp(mmu.m) IN
                   [mmu EXCEPT !.cfg = t.cfg, !.tlb = t.tlb, !.run = "kernel"]
             [] Family = "openrisc" ->
                   LET cfg == setup_mmu_mp(hw) IN
                   set_page_table([mmu EXCEPT !.cfg = cfg,
                     !.tlb = [k \in {0, 1} \X (0..(cfg.ways - 1)) \X (0..(cfg.sets - 1))
                                |-> NoMatch]], "kernel")
             [] OTHER -> [mmu EXCEPT !.run = "kernel"]
  /\ UNCHANGED mm

\* A CPU maps a page of some process, where nothing is mapped or the same is
\* already; one that is unmapped is not mapped again before it is invalidated.
\* The kernel's part is the same in every table.
Map ==
  \E r \in mmu.m.reqs :
    LET all == {q \in mmu.m.reqs : q.v = r.v /\ q.f = r.f /\ q.at = r.at /\ r.at.kernel = 1}
             \cup {r} IN
    /\ mmu.run # "reset" /\ \A q \in all : <<q.p, q.v>> \notin mm.owed
    /\ \A w \in mm.want : w.p = r.p /\ w.v = r.v => w = r
    /\ IF Refuses(Table(r.p), r) THEN mm' = [mm EXCEPT !.refused = <<r>>]
       ELSE mm' = [mm EXCEPT
              !.pt = [p \in DOMAIN @ |-> IF \E q \in all : q.p = p
                                          THEN map_page(@[p], CHOOSE q \in all : q.p = p, 1)
                                          ELSE @[p]],
              !.want = @ \cup all]
    /\ UNCHANGED mmu

\* A CPU unmaps a page, and owes the others the news.
Unmap ==
  \E r \in mm.want :
    /\ r.p \in Users /\ r.at.kernel = 0
    /\ mm' = [mm EXCEPT !.pt[r.p] = unmap_page(@, r.l, r.v), !.want = @ \ {r},
                        !.owed = IF Soft THEN @ \cup {<<r.p, r.v>>} ELSE @]
    /\ UNCHANGED mmu

\* A trap enters the HAL: openrisc flushes its TLB and takes the kernel's table.
Trap ==
  /\ Soft /\ mmu.run \in Users /\ mmu.refill = Idle
  /\ mmu' = IF Family = "mips" THEN [mmu EXCEPT !.run = "kernel", !.done = <<>>]
            ELSE set_page_table(openrisc_flush_tlb([mmu EXCEPT !.done = <<>>]), "kernel")
  /\ UNCHANGED mm

\* The kernel switches to a process (switch_to), or the trap returns to it.
Resume ==
  /\ Soft /\ mmu.run = "kernel" /\ mmu.refill = Idle
  /\ \E p \in Users :
       LET c == set_page_table([mmu EXCEPT !.done = <<>>], p) IN
       \/ mmu' = c
       \/ Family = "openrisc" /\ mmu' = openrisc_flush_tlb(c)
  /\ UNCHANGED mm

\* The CPU serves the invalidations it is owed, in the kernel.
Invalidate ==
  /\ Soft /\ mmu.run = "kernel" /\ mmu.refill = Idle /\ mm.owed # {}
  /\ mmu' = IF Family = "mips" THEN mips_invalidate_tlb(mmu)
            ELSE openrisc_invalidate_tlb([mmu EXCEPT !.done = <<>>])
  /\ mm' = [mm EXCEPT !.owed = {}]

-----------------------------------------------------------------------------
\* Misses.

Half(v) == 1 + (v % 2)
Hit(v, itlb) ==
  IF Family = "mips"
  THEN {i \in DOMAIN mmu.tlb : /\ mmu.tlb[i].asid = Asid(mmu.run)
                               /\ mmu.tlb[i].vpn2 = v \div 2 /\ mmu.tlb[i].lo[Half(v)].valid}
  ELSE {k \in DOMAIN mmu.tlb : k[1] = itlb /\ mmu.tlb[k].valid /\ mmu.tlb[k].vpn = v}

\* An access the TLB does not translate: there is no entry, or (mips) the pair's
\* entry has nothing for this page.
Miss ==
  \E r \in mmu.m.reqs, itlb \in IF Family = "mips" THEN {0} ELSE {0, 1} :
    /\ Soft /\ mmu.refill = Idle /\ r.p = mmu.run
    /\ Family = "mips" => mmu.run \in Users
    /\ (mmu.run \in Users <=> r.at.kernel = 0)
    /\ Hit(r.v, itlb) = {}
    /\ mmu' = [mmu EXCEPT !.refill = [phase |-> "entry", v |-> r.v, itlb |-> itlb, x |-> <<>>],
                          !.done = <<>>]
    /\ UNCHANGED mm

Translated(v) == generic_translate_attri(Table(mmu.run), v)
Goto(phase) == [mmu EXCEPT !.refill.phase = phase]

\* int_handler_entry of mips: a page that is mapped is a refill, another one a
\* page fault, after which the access is tried again.
int_handler_entry ==
  /\ Family = "mips" /\ mmu.refill.phase = "entry"
  /\ mmu' = IF Translated(mmu.refill.v) = <<>> THEN [mmu EXCEPT !.refill = Idle] ELSE Goto("check")
  /\ UNCHANGED mm

\* int_handler_tlb_refill looks again, and panics if the page has gone.
int_handler_tlb_refill ==
  /\ mmu.refill.phase = "check"
  /\ mmu' = IF Translated(mmu.refill.v) = <<>> THEN [mmu EXCEPT !.panic = TRUE] ELSE Goto("even")
  /\ UNCHANGED mm

\* It translates the two pages of the pair, one after the other.
RefillEven ==
  /\ mmu.refill.phase = "even"
  /\ mmu' = [Goto("odd") EXCEPT !.refill.x = Translated(2 * (mmu.refill.v \div 2))]
  /\ UNCHANGED mm
RefillOdd ==
  LET v == mmu.refill.v
      odd == Translated(2 * (v \div 2) + 1)
  IN /\ mmu.refill.phase = "odd"
     /\ \E t \in map_tlb_entry_user(mmu.tlb, Asid(mmu.run), v \div 2, mmu.refill.x, odd) :
          mmu' = [mmu EXCEPT !.tlb = t, !.refill = Idle, !.done = <<v, 0>>]
     /\ UNCHANGED mm

\* tlb_miss_handler_entry of openrisc: translate, and fill the entry.
tlb_miss_handler_entry ==
  LET x == Translated(mmu.refill.v) IN
  /\ Family = "openrisc" /\ mmu.refill.phase = "entry"
  /\ mmu' = IF x = <<>> THEN [mmu EXCEPT !.refill = Idle]
            ELSE [Goto("write") EXCEPT !.refill.x = x]
  /\ UNCHANGED mm
RefillWrite ==
  /\ mmu.refill.phase = "write"
  /\ \E age \in [0..(mmu.cfg.ways - 1) -> 0..(mmu.cfg.ways - 1)] :
       LET f == mmu.refill IN
       mmu' = [tlb_refill(mmu, f.itlb, f.v, f.x, age)
                 EXCEPT !.refill = Idle, !.done = <<f.v, f.itlb>>]
  /\ UNCHANGED mm

SoftTlbNext ==
  /\ Live
  /\ \/ Boot \/ Map \/ Unmap \/ Trap \/ Resume \/ Invalidate \/ Miss
     \/ int_handler_entry \/ int_handler_tlb_refill \/ RefillEven \/ RefillOdd
     \/ tlb_miss_handler_entry \/ RefillWrite

-----------------------------------------------------------------------------

\* What a page's mapping looks like through the accessors: cache is as exec was
\* asked for (riscv's entries do not say), ia32 always allows exec, and read
\* is always allowed.
Attributes(r) ==
  [r.at EXCEPT !.cache = IF Family = "riscv" THEN 1 ELSE r.at.exec,
               !.exec = IF arch = "ia32" THEN 1 ELSE @]

\* Every page that was mapped reads back as it was asked for, frame, attributes
\* and all, and no other page is mapped; entries above it are tables.  map_page
\* refuses to map the same again only if it was asked for other cacheability
\* than it stores, or, on aarch64, compares a kernel page in another way than it
\* sets it.
PteExact ==
  /\ \A p \in Tables : \A r \in mmu.m.reqs :
       generic_translate_attri(Table(p), r.v)
         = IF \E w \in mm.want : w.p = p /\ w.v = r.v
           THEN LET w == CHOOSE w \in mm.want : w.p = p /\ w.v = r.v IN
                [ppfn |-> w.f, at |-> Attributes(w)]
           ELSE <<>>
  /\ \A p \in Tables : \A k \in DOMAIN Table(p) :
       Len(k) < PAGE_LEVELS(arch) /\ page_is_pte_valid(Table(p)[k])
         /\ ~page_is_pte_leaf(Table(p)[k], Len(k))
         => page_get_pte_next_table(Table(p)[k]) = TableFrame
  /\ mm.refused # <<>> =>
       LET r == mm.refused[1] IN
       \/ r.at.cache # r.at.exec
       \/ arch = "aarch64" /\ r.at.kernel = 1

\* What the TLB translates is what the page table of the process maps, unless
\* the CPU is still owed the news that the page was unmapped; no page has two
\* entries; a page that was just filled in is translated, so that an access is
\* not tried for ever; openrisc's entries give users their own pages only; and
\* the refill handler panics only over a page another CPU unmapped meanwhile.
TlbExact ==
  /\ PteExact
  /\ Family = "mips" /\ mmu.run # "reset" =>
       /\ mmu.cfg.vtlb = Cardinality(DOMAIN mmu.tlb)
       /\ \A i \in DOMAIN mmu.tlb, h \in {1, 2}, p \in Users :
            LET e == mmu.tlb[i]
                v == 2 * e.vpn2 + h - 1
            IN e.lo[h].valid /\ e.asid = Asid(p) /\ <<p, v>> \notin mm.owed =>
                 Lo(generic_translate_attri(Table(p), v)) = e.lo[h]
       /\ \A i, j \in DOMAIN mmu.tlb :
            i # j /\ mmu.tlb[i].asid # 0 =>
              <<mmu.tlb[i].asid, mmu.tlb[i].vpn2>> # <<mmu.tlb[j].asid, mmu.tlb[j].vpn2>>
  /\ Family = "openrisc" /\ mmu.run # "reset" =>
       \A k \in DOMAIN mmu.tlb :
         LET e == mmu.tlb[k]
             x == generic_translate_attri(Table(mmu.run), e.vpn)
         IN e.valid =>
              /\ \A j \in DOMAIN mmu.tlb :
                   j # k /\ j[1] = k[1] /\ mmu.tlb[j].valid => mmu.tlb[j].vpn # e.vpn
              /\ <<mmu.run, e.vpn>> \notin mm.owed =>
                   /\ x # <<>> /\ x.ppfn = e.ppn /\ (x.at.cache = 1) = e.cached
                   /\ (x.at.kernel = 0) = e.may.ur /\ e.may.ur = e.may.uw
                   /\ e.may.ur = e.may.ux /\ e.may.kr /\ e.may.kw
  /\ mmu.done # <<>> =>
       \/ Hit(mmu.done[1], mmu.done[2]) # {}
       \/ <<mmu.run, mmu.done[1]>> \in mm.owed
  /\ mmu.panic => <<mmu.run, mmu.refill.v>> \in mm.owed
=============================================================================
