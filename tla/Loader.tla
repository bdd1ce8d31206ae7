------------------------------- MODULE Loader -------------------------------
(***************************************************************************)
(* The second half of the boot loader (loader/loader.c): once the firmware *)
(* has described the machine (Firmware) and the memory map is built        *)
(* (Memmap), it tags the memory, builds the first page table, loads the    *)
(* HAL and the kernel and jumps to the HAL, on each of the architectures   *)
(* of arch/*/loader/setup.c.  Addresses count pages.  Of the page table    *)
(* two levels are kept; an entry of the first maps Large pages at once.    *)
(***************************************************************************)
EXTENDS Integers, Sequences, FiniteSets, SequencesExt

CONSTANTS
  Machines,   \* the machines: see "What a machine is" below
  Large,      \* pages of a large page
  Seg,        \* first page of the direct segment of MIPS and Alpha
  AccessEnd,  \* pages the direct segment of MIPS reaches (512MB)
  UserEnd,    \* USER_VADDR_LIMIT
  HighHalf,   \* first page of the upper half of AArch64's addresses
  PreEnd      \* pages the x86 preloader maps one to one

VARIABLES
  m,   \* the machine
  ld   \* the loader: its stage, the memory map, the page table, what it loaded

loaderVars == <<m, ld>>

(* What a machine is: arch; mem, the frames of its memory; loader and      *)
(* coreimg, the frames those occupy (coreimg is empty when it is part of   *)
(* the loader); files, the records of the core image in order, each with   *)
(* the program headers [at, n, load] of an ELF file; uart, the page of the *)
(* console; el, the privilege level the firmware starts the CPU at; boot,  *)
(* where an x86 preloader was put: [src, dst, n] in bytes; and given, what *)
(* the firmware leaves in the registers: a flattened device tree "fdt", a  *)
(* description of its "own", or "null".                                    *)

Low(s) == CHOOSE x \in s : \A y \in s : x <= y
High(s) == CHOOSE x \in s : \A y \in s : x >= y
Panic(s, why) == [s EXCEPT !.bad = IF @ = "" THEN why ELSE @]

-----------------------------------------------------------------------------
\* The memory map: who owns a frame, and how it is tagged.

claim_memmap_region(s, frames, who) ==
  [s EXCEPT !.own = [f \in DOMAIN @ |-> IF f \in frames THEN who ELSE @[f]],
            !.clash = @ \/ \E f \in frames \cap DOMAIN s.own :
                              s.own[f] \notin {"free", "lost", who}]

tag_memmap_region(s, frames, tag) ==
  [s EXCEPT !.tags = [f \in DOMAIN @ |-> IF f \in frames THEN @[f] \cup {tag} ELSE @[f]]]

\* The tags find_free_memmap_region_for_palloc asks for, one attempt after
\* the other.
Attempt(k, t) ==
  CASE k = 1 -> t = {"map", "access"}
    [] k = 2 -> {"map", "access"} \subseteq t
    [] k = 3 -> t = {"map"}
    [] k = 4 -> "map" \in t
    [] k = 5 -> t = {}
    [] OTHER -> TRUE

\* Where n free frames of one entry of the map begin.
Runs(s, n, k) ==
  {f \in DOMAIN s.own :
     \A g \in f..(f + n - 1) : /\ g \in DOMAIN s.own
                               /\ s.own[g] = "free"
                               /\ s.tags[g] = s.tags[f]
                               /\ Attempt(k, s.tags[g])}

\* What is found at address 0 stays claimed and counts as not found.
RECURSIVE find_free_from(_, _, _, _)
find_free_from(s, n, who, k) ==
  IF k > 7 THEN [s |-> Panic(s, "full"), at |-> 0]
  ELSE IF Runs(s, n, k) = {} THEN find_free_from(s, n, who, k + 1)
  ELSE LET f == Low(Runs(s, n, k)) IN
       IF f = 0
       THEN find_free_from(claim_memmap_region(s, 0..(n - 1), "lost"), n, who, k + 1)
       ELSE [s |-> claim_memmap_region(s, f..(f + n - 1), who), at |-> f]

memmap_alloc_phys(s, n, who) == find_free_from(s, n, who, 1)

\* A region is refused when its first or its last frame is in use: one that
\* is in use in the middle is not noticed.
check_memmap_region_usable(s, frames) ==
  \A f \in {Low(frames), High(frames)} : f \in DOMAIN s.own => s.own[f] = "free"

-----------------------------------------------------------------------------
\* The access windows: how the loader reaches a frame.

mips_access_win_to_phys(s, v) ==
  IF v \in Seg..(Seg + AccessEnd - 1) THEN [s |-> s, at |-> v - Seg]
                                      ELSE [s |-> Panic(s, "window"), at |-> 0]

alpha_access_win_to_phys(s, v) ==
  IF v >= Seg THEN [s |-> s, at |-> v - Seg] ELSE [s |-> Panic(s, "window"), at |-> 0]

openrisc_access_win_to_phys(s, v) == [s |-> s, at |-> v]

access_win_to_phys(s, v) ==
  CASE m.arch = "mips" -> mips_access_win_to_phys(s, v)
    [] m.arch = "alpha" -> alpha_access_win_to_phys(s, v)
    [] OTHER -> openrisc_access_win_to_phys(s, v)

has_direct_access == m.arch \in {"mips", "alpha", "openrisc"}

\* The loader writes to what it has allocated: on MIPS through the direct
\* segment, on x86 through the page table of the preloader.
phys_to_access_win(s, frames) ==
  IF \/ m.arch = "mips" /\ ~(frames \subseteq 0..(AccessEnd - 1))
     \/ m.arch = "x86" /\ ~(frames \subseteq 0..(PreEnd - 1))
  THEN Panic(s, "window") ELSE s

alloc_page(s) ==
  LET r == memmap_alloc_phys(s, 1, "table") IN phys_to_access_win(r.s, {r.at})

\* AArch64's root is two pages, one for each half of the addresses.
aarch64_setup_page(s) ==
  LET r == memmap_alloc_phys(s, 2, "table") IN phys_to_access_win(r.s, {r.at, r.at + 1})

arm_setup_page(s) ==
  LET r == memmap_alloc_phys(s, 4, "table") IN phys_to_access_win(r.s, r.at..(r.at + 3))

setup_page(s) ==
  CASE m.arch = "aarch64" -> aarch64_setup_page(s)
    [] m.arch = "arm" -> arm_setup_page(s)
    [] OTHER -> alloc_page(s)

-----------------------------------------------------------------------------
\* The page tables.  An entry is a table, a leaf [frame, x, w, c], or broken:
\* on ARM one that has the bits of both.

L1(v) == <<1, v \div Large>>
L2(v) == <<2, v>>
Is(s, key, kind) == key \in DOMAIN s.pt /\ s.pt[key].kind = kind
Put(s, key, e) ==
  [s EXCEPT !.pt = [k \in DOMAIN @ \cup {key} |-> IF k = key THEN e ELSE @[k]]]
Bare(kind) == [kind |-> kind, frame |-> 0, x |-> 0, w |-> 0, c |-> 0]
Leaf(p, x, w, c) == [kind |-> "leaf", frame |-> p, x |-> x, w |-> w, c |-> c]

\* Mutant: the tables that exist are not looked for.
generic_map_page_fresh(s, v, p, block, cache, exec, write) ==
  LET t == Put(alloc_page(s), L1(v), Bare("table")) IN
  IF block THEN Put(s, L1(v), Leaf(p, exec, write, exec))
  ELSE Put([t EXCEPT !.pt = [k \in {j \in DOMAIN @ : j[1] = 1 \/ j[2] \div Large # v \div Large}
                               |-> @[k]]], L2(v), Leaf(p, exec, write, exec))

new_table(s, v, kind) == Put(alloc_page(s), L1(v), Bare(kind))

\* The cacheability that is stored is the argument "exec"; the one that is
\* compared is the argument "cache".
generic_set(t, key, p, cache, exec, write) ==
  IF key \notin DOMAIN t.pt THEN Put(t, key, Leaf(p, exec, write, exec))
  ELSE IF t.pt[key] = Leaf(p, exec, write, cache) THEN t ELSE Panic(t, "remap")

generic_map_page(s, v, p, block, cache, exec, write) ==
  IF v = 0 /\ p # 0 THEN Panic(s, "null")
  ELSE IF ~block /\ Is(s, L1(v), "leaf") THEN Panic(s, "remap")
  ELSE generic_set(IF block \/ L1(v) \in DOMAIN s.pt THEN s ELSE new_table(s, v, "table"),
                   IF block THEN L1(v) ELSE L2(v), p, cache, exec, write)

\* An entry that exists may only gain permissions.
grant(t, key, p, cache, exec, write) ==
  IF key \notin DOMAIN t.pt THEN Put(t, key, Leaf(p, exec, write, cache))
  ELSE IF t.pt[key].frame # p \/ t.pt[key].c # cache THEN Panic(t, "remap")
  ELSE Put(t, key, [t.pt[key] EXCEPT !.x = IF exec = 1 THEN 1 ELSE @,
                                     !.w = IF write = 1 THEN 1 ELSE @])

\* A section replaces a table without looking; a page put where a section is
\* leaves an entry that has the bits of both.
arm_map_page(s, v, p, block, cache, exec, write) ==
  IF block
  THEN IF ~Is(s, L1(v), "leaf") THEN Put(s, L1(v), Leaf(p, exec, write, cache))
       ELSE IF s.pt[L1(v)] = Leaf(p, exec, write, cache) THEN s ELSE Panic(s, "remap")
  ELSE grant(IF Is(s, L1(v), "table") \/ Is(s, L1(v), "broken") THEN s
             ELSE new_table(s, v, IF Is(s, L1(v), "leaf") THEN "broken" ELSE "table"),
             L2(v), p, cache, exec, write)

\* No large pages; the segment, not the entry, says what is cached.
alpha_map_page(s, v, p, cache, exec, write) ==
  grant(IF L1(v) \in DOMAIN s.pt THEN s ELSE new_table(s, v, "table"),
        L2(v), p, 0, exec, write)

map_page(s, v, p, block, cache, exec, write) ==
  CASE m.arch = "arm" -> arm_map_page(s, v, p, block, cache, exec, write)
    [] m.arch = "alpha" -> alpha_map_page(s, v, p, cache, exec, write)
    [] OTHER -> generic_map_page(s, v, p, block, cache, exec, write)

\* The largest pages that fit are used.
RECURSIVE map_from(_, _, _, _, _, _, _)
map_from(s, v, p, n, cache, exec, write) ==
  LET block == /\ m.arch \notin {"alpha", "mips", "openrisc"}
               /\ v % Large = 0 /\ p % Large = 0 /\ n >= Large
      k == IF block THEN Large ELSE 1 IN
  IF n <= 0 \/ s.bad # "" THEN s
  ELSE map_from(map_page(s, v, p, block, cache, exec, write),
                v + k, p + k, n - k, cache, exec, write)

\* RISC-V: memory is cached, everything else is not.
check_cacheability(s, frames, cache) ==
  IF (cache = 1) = (frames \subseteq m.mem) THEN s ELSE Panic(s, "cacheability")

map_range(s, v, p, n, cache, exec, write) ==
  LET t == IF m.arch = "riscv" THEN check_cacheability(s, p..(p + n - 1), cache) ELSE s IN
  map_from(t, v, p, n, cache, exec, write)

\* What the CPU makes of the table (external).
Walk(s, v) ==
  CASE s.mmu = "lower" /\ v >= HighHalf -> Bare("none")
    [] Is(s, L1(v), "leaf") -> [s.pt[L1(v)] EXCEPT !.frame = @ + (v % Large)]
    [] Is(s, L1(v), "table") /\ Is(s, L2(v), "leaf") -> s.pt[L2(v)]
    [] OTHER -> Bare("none")

Translate(s, v) ==
  IF s.mmu # "off" THEN Walk(s, v)
  ELSE Leaf(IF m.arch = "openrisc" THEN v ELSE v - Seg, 1, 1, 1)

-----------------------------------------------------------------------------
\* The stages of loader().

\* The x86 preloader moves the loader to its place, forwards or backwards,
\* so that an overlap does no harm; backwards it moves one byte more.
move_bootimg(mem, src, dst, n) ==
  LET copy(c, i) == [c EXCEPT ![dst + i] = c[src + i]] IN
  CASE src > dst -> FoldLeft(copy, mem, [i \in 1..n |-> i - 1])
    [] src < dst -> FoldLeft(copy, mem, [i \in 1..(n + 1) |-> n - (i - 1)])
    [] OTHER -> mem

Cells == 0..12
preload_entry ==
  /\ ld.stage = "preload"
  /\ LET b == m.boot
         mem == [c \in Cells |-> IF c \in b.src..(b.src + b.n - 1) THEN c - b.src ELSE 99]
     IN ld' = [ld EXCEPT !.stage = "entry",
                         !.moved = [i \in 0..(b.n - 1) |->
                                      move_bootimg(mem, b.src, b.dst, b.n)[b.dst + i]]]
  /\ UNCHANGED m

\* AArch64 leaves EL3 and EL2; OpenRISC turns its MMU off; RISC-V is in
\* supervisor mode already.
switch_to_el1(el) ==
  LET two == IF el = 3 THEN 2 ELSE el IN IF el >= 2 THEN two - 1 ELSE two

init_arch(el) == IF m.arch = "aarch64" THEN switch_to_el1(el) ELSE el

\* What the entry points make of the registers: the name of the firmware's
\* driver, and whether the device tree is supplied.  Alpha has no limits of
\* its stacks and no entry for other CPUs.
Entered(fw, fdt) == [fw |-> fw, fdt |-> fdt, limit |-> TRUE]
riscv_loader_entry(given) == Entered("none", given # "null")
aarch64_loader_entry(given) == Entered("none", given = "fdt")
arm_loader_entry(given) ==
  Entered(IF given = "own" THEN "atags" ELSE "none", given = "fdt")
mips_loader_entry(given) ==
  Entered(IF given = "fdt" THEN "none" ELSE "karg", given = "fdt")
x86_loader_entry(given) ==
  Entered(IF given = "own" THEN "multiboot" ELSE "none", FALSE)
openrisc_loader_entry(given) == Entered("none", FALSE)
alpha_loader_entry(given) == [Entered("srm", FALSE) EXCEPT !.limit = FALSE]

loader_entry(arch, given) ==
  CASE arch = "riscv" -> riscv_loader_entry(given)
    [] arch = "aarch64" -> aarch64_loader_entry(given)
    [] arch = "arm" -> arm_loader_entry(given)
    [] arch = "mips" -> mips_loader_entry(given)
    [] arch = "x86" -> x86_loader_entry(given)
    [] arch = "openrisc" -> openrisc_loader_entry(given)
    [] arch = "alpha" -> alpha_loader_entry(given)

register_internal_drivers == {"none", "ofw", "obp", "multiboot"}
register_drivers ==
  CASE m.arch = "arm" -> {"atags"}
    [] m.arch = "mips" -> {"karg"}
    [] m.arch = "alpha" -> {"srm"}
    [] OTHER -> {}

\* init_bss to init_memmap: the magic words are put at the ends of both
\* stacks, the firmware's driver and the core image are found, and what is
\* in use is claimed.
LoaderInit ==
  /\ ld.stage = "entry"
  /\ LET s == claim_memmap_region(claim_memmap_region(ld, m.loader, "loader"),
                                  m.coreimg, "coreimg") IN
     ld' = [(CASE ld.args.fw \notin register_internal_drivers \cup register_drivers ->
                    Panic(s, "firmware")
               [] m.files = <<>> -> Panic(s, "coreimg")
               [] OTHER -> s)
            EXCEPT !.el = init_arch(@), !.magic = ld.args.limit, !.stage = "memmap"]
  /\ UNCHANGED m

riscv_final_memmap(s) ==
  tag_memmap_region(claim_memmap_region(s, Low(m.mem)..(Low(m.loader) - 1), "firmware"),
                    m.mem \cap 0..(UserEnd - 1), "map")

aarch64_final_memmap(s) == tag_memmap_region(s, m.mem \cap 0..(UserEnd - 1), "map")

mips_final_memmap(s) ==
  LET low == m.mem \cap 0..(AccessEnd - 1) IN
  IF Low(m.mem) >= AccessEnd THEN Panic(s, "window")
  ELSE tag_memmap_region(tag_memmap_region(s, low, "map"), low, "access")

\* ARM, x86, Alpha and OpenRISC.
all_final_memmap(s) == tag_memmap_region(s, m.mem, "map")

final_memmap ==
  /\ ld.stage = "memmap" /\ ld.bad = ""
  /\ ld' = [(CASE m.arch = "riscv" -> riscv_final_memmap(ld)
               [] m.arch = "aarch64" -> aarch64_final_memmap(ld)
               [] m.arch = "mips" -> mips_final_memmap(ld)
               [] OTHER -> all_final_memmap(ld)) EXCEPT !.stage = "page"]
  /\ UNCHANGED m

map_memmap_1to1(s) == map_range(s, Low(m.mem), Low(m.mem), Cardinality(m.mem), 1, 1, 1)

init_page ==
  /\ ld.stage = "page" /\ ld.bad = ""
  /\ ld' = [map_memmap_1to1(setup_page(ld)) EXCEPT !.stage = "hal"]
  /\ UNCHANGED m

coreimg_find_file(name) ==
  LET hits == {i \in DOMAIN m.files : m.files[i].name = name} IN
  IF hits = {} THEN {} ELSE m.files[Low(hits)].headers

\* The pages all headers with a size span.
get_vmem_range(elf) ==
  LET sized == {h \in elf : h.n > 0} IN
  Low({h.at : h \in sized})..High({h.at + h.n - 1 : h \in sized})

\* Only headers of type PT_LOAD are copied, to the window the frames are
\* reached by; page v of the file ends up in frame v + delta.
inflate_elf(s, name, elf, delta) ==
  LET pages == UNION {h.at..(h.at + h.n - 1) : h \in {g \in elf : g.load}} IN
  IF s.bad # "" THEN s
  ELSE [s EXCEPT !.holds = [f \in DOMAIN @ \cup {v + delta : v \in pages} |->
                              IF f - delta \in pages THEN <<name, f - delta>> ELSE @[f]]]

\* An image has the place its addresses name, or any frames that are free;
\* lo is its first page and n the number of its pages.
load_direct(win, name, elf, lo, n) ==
  LET frames == win.at..(win.at + n - 1) IN
  IF ~check_memmap_region_usable(win.s, frames) THEN Panic(win.s, "overlap")
  ELSE inflate_elf(claim_memmap_region(win.s, frames, name), name, elf, win.at - lo)

load_mapped(got, name, elf, lo, n) ==
  inflate_elf(map_range(phys_to_access_win(got.s, got.at..(got.at + n - 1)),
                        lo, got.at, n, 1, 1, 1), name, elf, got.at - lo)

load_at(s, name, elf, lo, hi) ==
  [(IF has_direct_access
    THEN load_direct(access_win_to_phys(s, lo), name, elf, lo, hi - lo)
    ELSE load_mapped(memmap_alloc_phys(s, hi - lo, name), name, elf, lo, hi - lo))
   EXCEPT !.area[name] = [lo |-> lo, hi |-> hi]]

load_elf(s, name) ==
  LET elf == coreimg_find_file(name) IN
  IF elf = {} THEN s
  ELSE load_at(s, name, elf, Low(get_vmem_range(elf)), High(get_vmem_range(elf)) + 1)

load_hal ==
  /\ ld.stage = "hal" /\ ld.bad = ""
  /\ ld' = [load_elf(ld, "hal") EXCEPT !.stage = "kernel"]
  /\ UNCHANGED m

\* The area of both images, for the HAL.
announce(s) ==
  [s EXCEPT !.stage = "final",
            !.sysarea = [lo |-> Low({s.area.hal.lo, s.area.kernel.lo}),
                         hi |-> High({s.area.hal.hi, s.area.kernel.hi})]]

load_kernel ==
  /\ ld.stage = "kernel" /\ ld.bad = ""
  /\ ld' = announce(load_elf(ld, "kernel"))
  /\ UNCHANGED m

\* The console is mapped; OpenRISC moves the system area to the top.
final_arch ==
  /\ ld.stage = "final" /\ ld.bad = ""
  /\ LET t == IF m.arch \in {"mips", "x86"} THEN ld
              ELSE map_range(ld, m.uart, m.uart, 1, 0, 0, 1) IN
     ld' = [t EXCEPT !.stage = "jump",
                     !.sysarea = IF m.arch = "openrisc" THEN [lo |-> 1000, hi |-> 1000] ELSE @]
  /\ UNCHANGED m

\* The table is given to the CPU, on AArch64 for the lower half of the
\* addresses only; the x86 CPU leaves the preloader's table for it.  AArch64
\* insists on EL1.  MIPS, Alpha and OpenRISC need no table yet.
riscv_jump_to_hal(s) == [s EXCEPT !.mmu = "all"]
arm_jump_to_hal(s) == [s EXCEPT !.mmu = "all"]
x86_jump_to_hal(s) == [s EXCEPT !.mmu = "all"]
aarch64_jump_to_hal(s) ==
  LET t == [s EXCEPT !.mmu = "lower"] IN IF s.el # 1 THEN Panic(t, "el") ELSE t

check_stack(s) == IF s.args.limit /\ ~s.magic THEN Panic(s, "stack") ELSE s

jump_to_hal ==
  /\ ld.stage = "jump" /\ ld.bad = ""
  /\ LET s == check_stack(ld) IN
     ld' = [(CASE s.bad # "" -> s
               [] m.arch = "riscv" -> riscv_jump_to_hal(s)
               [] m.arch = "arm" -> arm_jump_to_hal(s)
               [] m.arch = "x86" -> x86_jump_to_hal(s)
               [] m.arch = "aarch64" -> aarch64_jump_to_hal(s)
               [] OTHER -> s) EXCEPT !.stage = "done"]
  /\ UNCHANGED m

\* Another CPU, which the HAL has started at mp_entry.  It uses the same
\* table; AArch64's function for the jump is empty.
loader_mp ==
  /\ ld.stage = "done" /\ ld.bad = "" /\ ld.mp = "off" /\ m.arch # "alpha"
  /\ ld' = [ld EXCEPT !.mp = CASE check_stack(ld).bad # "" -> "panic"
                               [] m.arch = "aarch64" -> "unreachable"
                               [] OTHER -> "hal"]
  /\ UNCHANGED m

-----------------------------------------------------------------------------
loader_args(mc) ==
  [stage |-> IF mc.arch = "x86" THEN "preload" ELSE "entry", bad |-> "", clash |-> FALSE,
   args |-> loader_entry(mc.arch, mc.given), mmu |-> "off",
   own |-> [f \in mc.mem |-> "free"], tags |-> [f \in mc.mem |-> {}],
   pt |-> [k \in {} |-> Bare("none")], holds |-> [f \in {} |-> <<"none", 0>>],
   area |-> [hal |-> [lo |-> 0, hi |-> 0], kernel |-> [lo |-> 0, hi |-> 0]],
   sysarea |-> [lo |-> 0, hi |-> 0], el |-> mc.el, magic |-> FALSE,
   moved |-> [i \in {} |-> 0], mp |-> "off"]

LoaderStart ==
  /\ m \in Machines
  /\ ld = loader_args(m)

LoaderNext == \/ preload_entry \/ LoaderInit \/ final_memmap \/ init_page
              \/ load_hal \/ load_kernel \/ final_arch \/ jump_to_hal \/ loader_mp

-----------------------------------------------------------------------------
\* What the HAL finds: every page of it and of the kernel that is loaded from
\* the image is where the CPU looks for it, executable and writable, in a
\* frame that the memory map gives to that image and to nothing else; the
\* memory is seen one to one; the console is mapped and not cached; and the
\* area announced to the HAL covers both images; and a device tree that the
\* firmware supplied is the one that is used.
Loaded(name) ==
  \A h \in coreimg_find_file(name) : h.load =>
    \A v \in h.at..(h.at + h.n - 1) :
      LET e == Translate(ld, v) IN
      /\ e.kind = "leaf" /\ e.x = 1 /\ e.w = 1
      /\ e.frame \in DOMAIN ld.holds /\ ld.holds[e.frame] = <<name, v>>
      /\ ld.own[e.frame] = name

BootReady ==
  ld.stage = "done" /\ ld.bad = "" =>
    /\ Loaded("hal") /\ Loaded("kernel")
    /\ ~ld.clash
    /\ \A f \in m.loader : ld.own[f] = "loader"
    /\ \A f \in m.coreimg : ld.own[f] = "coreimg"
    /\ ld.mmu # "off" => \A f \in m.mem : Translate(ld, f).frame = f
    /\ m.arch \in {"riscv", "arm", "aarch64"} =>
         LET e == Walk(ld, m.uart) IN e.frame = m.uart /\ e.w = 1 /\ e.c = 0
    /\ m.arch # "openrisc" =>
         \A a \in {ld.area.hal, ld.area.kernel} :
            ld.sysarea.lo <= a.lo /\ a.hi <= ld.sysarea.hi
    /\ m.given = "fdt" /\ m.arch # "x86" => ld.args.fdt
    /\ m.arch = "x86" => \A i \in DOMAIN ld.moved : ld.moved[i] = i

\* The loader gives up only for want of memory, or when an image that has
\* one place finds it taken.
BootGivesUp == ld.bad \in {"", "full", "overlap", "coreimg"}
=============================================================================
