------------------------------ MODULE Firmware ------------------------------
(***************************************************************************)
(* The firmware drivers of the loader (loader/firmware,                    *)
(* arch/*/loader/firmware): once there is a device tree, the driver adds   *)
(* to it what the firmware says of the machine, and the loader reads it    *)
(* back when it looks for the core image (loader/boot/coreimg.c) and       *)
(* builds the map of memory (loader/mem/memmap.c).                         *)
(***************************************************************************)
EXTENDS Devtree

CONSTANT Infos   \* pairs of boards and what their firmware may say

VARIABLES
  info,   \* what it says, by driver
  boot    \* [stage, bad, acpi, coreimg, usable, used, memstart, memsize]

firmwareVars == <<devtreeVars, info, boot>>

Chosen == <<"/", "chosen">>
Memory == <<"/", "memory">>
Memrsv == <<"/", "memrsv", "-block">>

InitrdStart == <<"initrd", "-start">>
InitrdEnd == <<"initrd", "-end">>
Linux == <<"linux", ",">>

Cells2(n) == <<n \div Cell, n % Cell>>

-----------------------------------------------------------------------------
\* Helpers of the drivers; w is the tree.

\* The node at a path below the root, which is made when there is none.
get_node(t, path) ==
  IF devtree_walk(t, path) # 0 THEN t
  ELSE devtree_alloc_node(t, devtree_get_root(t), Tail(path))

PropAt(w, path, name, data) ==
  IF w.bad # "" THEN w ELSE devtree_alloc_prop(w, devtree_walk(w, path), name, data)
Put(t, path, name, data) == PropAt(get_node(t, path), path, name, data)

\* A node that is made with a compatible property unless it is there.
Device(t, path, compatible) ==
  IF devtree_walk(t, path) # 0 THEN t ELSE Put(t, path, <<"compatible">>, <<<<compatible>>>>)

devtree_alloc_prop_u64(t, path, name, n) == Put(t, path, name, Cells2(n))
devtree_alloc_prop_u32(t, path, name, n) == Put(t, path, name, <<n>>)

\* An initrd is added when it has a place and a size.
Initrd(w, start, end) ==
  devtree_alloc_prop_u64(
    devtree_alloc_prop_u64(w, Chosen, InitrdStart, start), Chosen, InitrdEnd, end)
initrd_at(w, start, size) ==
  IF start = 0 \/ size = 0 \/ w.bad # "" THEN w ELSE Initrd(w, start, start + size)
add_initrd(t, start, size) == initrd_at(get_node(t, Chosen), start, size)

\* The driver of the firmware's name, and where the tree comes from.
need_fdt == info.drv \in {"none", "karg", "atags", "srm"}

At(stage) == boot.stage = stage /\ boot.bad = "" /\ tree.bad = "" /\ at.bad = ""
Then(stage) == boot' = [boot EXCEPT !.stage = stage]

-----------------------------------------------------------------------------
\* Multiboot.

find_and_parse_initrd ==
  /\ At("multiboot") /\ Then("cmd")
  /\ tree' = IF info.initrd = <<>> THEN get_node(tree, Chosen)
             ELSE Initrd(get_node(tree, Chosen), info.initrd[1], info.initrd[2])

parse_cmd ==
  /\ At("cmd") /\ Then("mmap")
  /\ tree' = IF info.cmd THEN Put(tree, Chosen, <<"bootargs">>, <<<<"cmd">>>>)
             ELSE get_node(tree, Chosen)

\* Entries that count for the size of memory, and for the slots of reg; a
\* reserved one counts when it follows what was counted before.
RECURSIVE mmap_scan(_, _)
mmap_scan(entries, acc) ==
  IF entries = <<>> THEN acc
  ELSE LET e == Head(entries) IN
       mmap_scan(Tail(entries),
         IF e.type = "avail" \/ (e.type = "reserved" /\ e.addr = acc.end)
         THEN [end |-> Max({acc.end, e.addr + e.len}), slots |-> acc.slots + 1]
         ELSE acc)

Avail == SelectSeq(info.mmap, LAMBDA e : e.type = "avail")

\* Slots that no available entry fills stay zero.
mmap_reg(t, cells, slots) ==
  LET Wide(n) == IF cells.addr = 1 THEN <<n>> ELSE Cells2(n)
      used == FlattenSeq([i \in DOMAIN Avail |-> Wide(Avail[i].addr) \o Wide(Avail[i].len)])
      rest == [i \in 1..((slots - Len(Avail)) * 2 * cells.addr) |-> 0]
      bad == IF cells \notin {[addr |-> 1, size |-> 1], [addr |-> 2, size |-> 2]} THEN "cells"
             ELSE IF cells.addr = 1 /\ \E e \in Range(Avail) : e.addr >= Cell \/ e.len >= Cell
             THEN "range" ELSE ""
  IN IF t.bad # "" THEN tree' = t /\ UNCHANGED boot
     ELSE IF bad # "" THEN tree' = t /\ boot' = [boot EXCEPT !.bad = bad]
     ELSE tree' = Put(t, Memory, <<"reg">>, used \o rest) /\ Then("rsv")

mmap_memory(t, slots) ==
  mmap_reg(t, devtree_get_reg_num_cells(t, devtree_walk(t, Memory)), slots)

parse_mmap ==
  /\ At("mmap")
  /\ LET scan == mmap_scan(info.mmap, [end |-> 0, slots |-> 0])
         sized == IF scan.end > 0
                  THEN devtree_alloc_prop_u64(tree, Chosen, <<"mem", "size">>, scan.end)
                  ELSE get_node(tree, Chosen)
     IN mmap_memory(get_node(sized, Memory), scan.slots)

build_reserve_node ==
  /\ At("rsv") /\ Then(IF info.acpi = <<>> THEN "coreimg" ELSE "acpi")
  /\ tree' = Put(tree, Memrsv, <<"rsv0">>, Cells2(0) \o Cells2(1))

-----------------------------------------------------------------------------
\* ACPI: info.acpi[1] is [revision, xsdt, rsdt, madt], madt a tuple of entries
\* [type, id, apic, base, gsi], empty when there is none.

Acpi == info.acpi[1]
OfType(type) == SelectSeq(Acpi.madt, LAMBDA e : e.type = type)

\* A table is looked for in the XSDT when there is one.
find_table == IF Acpi.xsdt THEN Acpi.madt ELSE IF Acpi.rsdt THEN Acpi.madt ELSE <<>>

init_acpi_tables ==
  /\ At("acpi")
  /\ tree' = LET p == <<"/", "acpi">>
                 t1 == Device(tree, p, "intel,acpi")
                 t2 == devtree_alloc_prop_u32(t1, p, <<"rsdt">>, IF Acpi.rsdt THEN 1 ELSE 0)
             IN IF Acpi.revision > 0
                THEN devtree_alloc_prop_u64(t2, p, <<"xsdt">>, IF Acpi.xsdt THEN 1 ELSE 0)
                ELSE t2
  /\ Then(IF find_table = <<>> THEN "coreimg" ELSE "lapic")

acpi_get_lapic_base ==
  LET over == OfType("lapic_addr") IN IF over = <<>> THEN Acpi.base ELSE over[1].base

setup_lapic ==
  /\ At("lapic") /\ Then("ioapic")
  /\ tree' = LET p == <<"/", "local_apic">> IN
             devtree_alloc_prop_u64(Device(tree, p, "intel,local-apic"), p,
                                    <<"acpi", ",", "base">>, acpi_get_lapic_base)

ChipCount == <<"acpi", ",", "chip", "-count">>
ChipConfig == <<"acpi", ",", "chip", "-config">>
CpuCount == <<"acpi", ",", "cpu", "-count">>
CpuConfig == <<"acpi", ",", "cpu", "-config">>

\* The cells of entries of the MADT, and how many there are.
Config(t, path, count, config, entries) ==
  Put(devtree_alloc_prop_u32(t, path, count, Len(entries)), path, config,
      FlattenSeq(entries))

setup_ioapic ==
  /\ At("ioapic") /\ Then("cpus")
  /\ tree' = LET p == <<"/", "io_apic">>
                 es == OfType("ioapic")
             IN Config(Device(tree, p, "intel,io-apic"), p, ChipCount, ChipConfig,
                       [i \in DOMAIN es |-> <<es[i].id, es[i].gsi>> \o Cells2(es[i].base)])

setup_cpus ==
  /\ At("cpus") /\ Then("coreimg")
  /\ tree' = LET p == <<"/", "cpus">>
                 es == OfType("lapic")
             IN Config(Device(tree, p, "x86"), p, CpuCount, CpuConfig,
                       [i \in DOMAIN es |-> <<es[i].id, es[i].apic>>])

-----------------------------------------------------------------------------
\* The drivers that add to a flattened tree: an old ARM boot loader's tags, a
\* MIPS monitor's arguments and an Alpha's SRM console; and Open Firmware.

\* [tag, start, size]; a tag of two words is empty.
RECURSIVE atags_from(_, _)
atags_from(t, tags) ==
  IF tags = <<>> \/ t.bad # "" THEN t
  ELSE LET a == Head(tags)
           Two(n1, x1, n2, x2) ==
             devtree_alloc_prop_u64(devtree_alloc_prop_u64(t, Chosen, n1, x1), Chosen, n2, x2)
       IN atags_from(
            CASE a.tag = "empty" -> t
              [] a.tag = "core" -> devtree_alloc_prop_u32(t, Chosen, <<"pagesize">>, 1)
              [] a.tag = "mem" -> Two(<<"mem", "start">>, a.start, <<"mem", "size">>, a.size)
              [] a.tag = "ramdisk" -> Two(<<"ramdisk", "-start">>, a.start,
                                          <<"ramdisk", "-end">>, a.start + a.size)
              [] a.tag = "initrd2" -> Two(InitrdStart, a.start, InitrdEnd, a.start + a.size)
              [] a.tag = "cmdline" -> Put(t, Chosen, <<"bootargs">>, <<<<"cmd">>>>)
              [] a.tag = "unknown" -> [t EXCEPT !.bad = "unknown tag"],
            Tail(tags))

init_atags ==
  /\ At("atags") /\ Then("coreimg")
  /\ tree' = atags_from(get_node(tree, Chosen), info.tags)

\* search_kargv, then search_env: a value, 0 when the key is not there.
get_ulong(key) ==
  IF key \in DOMAIN info.args THEN info.args[key]
  ELSE IF key \in DOMAIN info.env THEN info.env[key] ELSE 0

chosen_num(t, name, n) == IF n = 0 THEN t ELSE devtree_alloc_prop_u64(t, Chosen, name, n)
chosen_args(t) ==
  IF DOMAIN info.args = {} THEN t ELSE Put(t, Chosen, <<"bootargs">>, <<<<"cmd">>>>)

init_karg ==
  /\ At("karg") /\ Then("coreimg")
  /\ tree' = chosen_args(
               chosen_num(
                 chosen_num(add_initrd(tree, get_ulong("rd_start"), get_ulong("rd_size")),
                            <<"mem", "size">>, get_ulong("memsize")),
                 <<"e", "mem", "size">>, get_ulong("ememsize")))

\* Clusters [start, len, usage]; those in use become reserved entries whose
\* names are their numbers.
Clusters == info.clusters
InUse == SelectSeq(Clusters, LAMBDA c : c.usage # 0)

RECURSIVE srm_reserve(_, _)
srm_reserve(t, i) ==
  IF i > Len(InUse) \/ t.bad # "" THEN t
  ELSE srm_reserve(Put(t, Memrsv, Spelt(<<0, 0, i - 1>>),
                       Cells2(InUse[i].start) \o Cells2(InUse[i].len)), i + 1)

init_srm ==
  /\ At("srm") /\ Then("coreimg")
  /\ tree' = LET start == Min({c.start : c \in Range(Clusters)})
                 end == Max({c.start + c.len : c \in Range(Clusters)})
             IN srm_reserve(
                  get_node(
                    devtree_alloc_prop_u64(
                      devtree_alloc_prop_u64(add_initrd(tree, info.initrd[1], info.initrd[2]),
                                             Chosen, <<"mem", "start">>, start),
                      Chosen, <<"mem", "size">>, end - start),
                    Memrsv), 1)

init_ofw ==
  /\ At("ofw") /\ Then("coreimg")
  /\ tree' = add_initrd(tree, info.initrd[1], info.initrd[2])

-----------------------------------------------------------------------------
\* What the loader reads back.

PropNum(t, p) == parse_cell_num(t.props[p].data, 0, Len(t.props[p].data))

\* Mutant: the name that a flattened tree uses is not tried.
EitherPropPlain(name) == devtree_find_prop(tree, devtree_walk(tree, Chosen), name)

\* A property of /chosen by either of its names, 0 for none.
EitherOf(p, c, name) == IF p # 0 THEN p ELSE devtree_find_prop(tree, c, Linux \o name)
EitherIn(c, name) == EitherOf(devtree_find_prop(tree, c, name), c, name)
EitherProp(name) == EitherIn(devtree_walk(tree, Chosen), name)

supplied(start, end) == IF end <= start \/ ~info.magic THEN <<>> ELSE <<start, end>>
supplied_by(p, q) == IF p = 0 \/ q = 0 THEN <<>> ELSE supplied(PropNum(tree, p), PropNum(tree, q))
find_supplied_coreimg == supplied_by(EitherProp(InitrdStart), EitherProp(InitrdEnd))

coreimg_at(coreimg) ==
  boot' = [boot EXCEPT !.coreimg = coreimg, !.stage = "create",
                       !.bad = IF coreimg = <<>> /\ ~info.embedded THEN "no coreimg" ELSE @]

init_coreimg ==
  /\ At("coreimg")
  /\ coreimg_at(find_supplied_coreimg)
  /\ UNCHANGED tree

\* A number of /chosen, 0 when it is not there.
NumAt(p) == IF p = 0 THEN 0 ELSE PropNum(tree, p)
ChosenNum(name) == NumAt(devtree_find_prop(tree, devtree_walk(tree, Chosen), name))

\* The regions of the memory node, with their sizes; r is the first of them.
RECURSIVE regs_from(_, _, _)
regs_from(n, r, name) ==
  IF r.next < 0 THEN <<>>
  ELSE <<<<devtree_translate_addr(tree, n, r.addr), r.size>>>> \o
       (IF r.next = 0 THEN <<>> ELSE regs_from(n, devtree_get_addr(tree, n, r.next, name), name))

translated_regs(n, name) ==
  IF n = 0 THEN <<>> ELSE regs_from(n, devtree_get_addr(tree, n, 0, name), name)

MemoryRegs == translated_regs(devtree_walk(tree, Memory), <<"reg">>)

\* b is [memstart, memsize, found, total, usable].
RECURSIVE create_from(_, _)
create_from(b, regs) ==
  IF regs = <<>> \/ (b.memsize # 0 /\ b.total >= b.memsize /\ b.looped) THEN b
  ELSE LET a == regs[1][1]
           s == regs[1][2]
           cut == a < b.memstart
           addr == IF cut THEN b.memstart ELSE a
           full == IF cut THEN s - (b.memstart - a) ELSE s
           first == ~cut /\ ~b.found
           size == IF b.memsize # 0 /\ b.total + full > b.memsize THEN b.memsize - b.total ELSE full
           c == [b EXCEPT !.looped = TRUE]
       IN create_from(
            IF s = 0 \/ a + s <= b.memstart THEN c
            ELSE [c EXCEPT !.memstart = IF first THEN addr ELSE @, !.found = @ \/ first,
                           !.total = @ + size, !.usable = Append(@, <<addr, size>>)],
            Tail(regs))

\* b is what /chosen says, which counts only when no region has a size.
create_in(chosen, b, regs) ==
  LET valid == \E i \in DOMAIN regs : regs[i][2] # 0
      said  == HasProp(tree, chosen, <<"mem", "start">>) /\ HasProp(tree, chosen, <<"mem", "size">>)
  IN boot' = IF chosen = 0 \/ ~(valid \/ said) THEN [boot EXCEPT !.bad = "no memory"]
             ELSE [boot EXCEPT !.usable = IF valid THEN create_from(b, regs).usable
                                          ELSE <<<<b.memstart, b.memsize>>>>,
                               !.stage = "firmware"]

create_all ==
  /\ At("create")
  /\ LET start == Max({ChosenNum(<<"mem", "start">>), info.range[1]})
         fwsize == ChosenNum(<<"mem", "size">>)
         top == info.range[2]
         size == IF top > start /\ top - start < fwsize THEN top ELSE fwsize
     IN create_in(devtree_walk(tree, Chosen),
                  [memstart |-> start, memsize |-> size, found |-> FALSE, total |-> 0,
                   usable |-> <<>>, looped |-> FALSE],
                  MemoryRegs)
  /\ UNCHANGED tree

\* What the firmware holds is what lies between the available regions.
Gaps(avail) ==
  LET Prev(i) == IF i = 1 THEN 0 ELSE avail[i - 1][1] + avail[i - 1][2]
      gaps == [i \in DOMAIN avail |-> <<Prev(i), avail[i][1] - Prev(i)>>]
  IN SelectSeq(gaps, LAMBDA g : g[1] + g[2] # 0)

claim_gaps(memory, avail) ==
  boot' = [boot EXCEPT !.stage = "claim", !.used = Gaps(avail),
                       !.bad = IF avail = <<>> /\ HasProp(tree, memory, <<"available">>)
                               THEN "no avail" ELSE @]

claim_firmware ==
  /\ At("firmware")
  /\ LET memory == devtree_walk(tree, Memory) IN
     claim_gaps(memory, translated_regs(memory, <<"available">>))
  /\ UNCHANGED tree

claim_memrsv ==
  /\ At("claim")
  /\ LET n == devtree_walk(tree, Memrsv)
         Entry(p) == <<Num(SubSeq(tree.props[p].data, 1, 2)), Num(SubSeq(tree.props[p].data, 3, 4))>>
         ps == IF n = 0 THEN <<>> ELSE Props(tree, n)
     IN boot' = [boot EXCEPT !.used = @ \o [i \in DOMAIN ps |-> Entry(ps[i])], !.stage = "loader"]
  /\ UNCHANGED tree

\* claim_loader and claim_coreimg.
claim_loader ==
  /\ At("loader")
  /\ boot' = [boot EXCEPT
       !.used = @ \o <<info.loader>> \o
         (IF boot.coreimg = <<>> THEN <<>>
          ELSE <<<<boot.coreimg[1], boot.coreimg[2] - boot.coreimg[1]>>>>),
       !.stage = "booted"]
  /\ UNCHANGED tree

-----------------------------------------------------------------------------

\* A driver that needs a flattened tree gets one before it starts.
init_firmware ==
  /\ boot.stage = "tree" /\ at.phase = "done" /\ At("tree")
  /\ Then(IF info.drv \in {"none", "obp"} THEN "coreimg" ELSE info.drv)
  /\ UNCHANGED tree

FirmwareInit ==
  /\ DevtreeInit
  /\ \E i \in Infos : fw.board \in i[1] /\ info = i[2]
  /\ fw.kind = IF need_fdt \/ info.drv = "multiboot" THEN "fdt" ELSE info.drv
  /\ boot = [stage |-> "tree", bad |-> "", coreimg |-> <<>>, usable |-> <<>>, used |-> <<>>]

Halted ==
  /\ boot.stage = "booted" \/ boot.bad # "" \/ tree.bad # "" \/ at.bad # ""
  /\ UNCHANGED firmwareVars

BuildStep == at.phase # "done" /\ DevtreeNext /\ UNCHANGED <<info, boot>>

MultibootStep ==
  /\ \/ init_firmware
     \/ find_and_parse_initrd \/ parse_cmd \/ parse_mmap \/ build_reserve_node
  /\ UNCHANGED <<fw, at, info>>

AcpiStep ==
  /\ init_acpi_tables \/ setup_lapic \/ setup_ioapic \/ setup_cpus
  /\ UNCHANGED <<fw, at, info>>

DriverStep ==
  /\ init_atags \/ init_karg \/ init_srm \/ init_ofw
  /\ UNCHANGED <<fw, at, info>>

ReadStep ==
  /\ init_coreimg \/ create_all \/ claim_firmware \/ claim_memrsv \/ claim_loader
  /\ UNCHANGED <<fw, at, info>>

FirmwareNext ==
  BuildStep \/ MultibootStep \/ AcpiStep \/ DriverStep \/ ReadStep \/ Halted

FirmwareSpec == FirmwareInit /\ [][FirmwareNext]_firmwareVars

-----------------------------------------------------------------------------
\* What the firmware says, in its own words.

\* Token of the node below the root with this name, and a number it holds; d
\* is the description (Devtree).
Top0(d, name) ==
  Latest({j \in d.kept : KeptOwner(d, j) = Min(d.kept) /\ Alike(Toks[j].name, name)})
Said(d, j, name) == IF j = 0 THEN 0 ELSE Num(Value(d, j, name))
SaidAs(d, j, name) ==
  Said(d, j, IF j # 0 /\ Tok(d, j, name) # 0 THEN name ELSE Linux \o name)

SaidTag(tag) == SelectSeq(info.tags, LAMBDA a : a.tag = tag)
Ends2(start, size) == <<start, start + size>>
GivenInitrd ==
  CASE info.drv = "multiboot" -> info.initrd
    [] info.drv \in {"srm", "ofw"} -> Ends2(info.initrd[1], info.initrd[2])
    [] info.drv = "karg" -> Ends2(get_ulong("rd_start"), get_ulong("rd_size"))
    [] info.drv = "atags" /\ SaidTag("initrd2") # <<>> ->
         Ends2(Last(SaidTag("initrd2")).start, Last(SaidTag("initrd2")).size)
    [] OTHER -> <<>>
PlaceOf(given, d, chosen) ==
  IF given # <<>> /\ given[2] > given[1] /\ given[1] # 0 THEN given
  ELSE <<SaidAs(d, chosen, InitrdStart), SaidAs(d, chosen, InitrdEnd)>>
Magic(place) == IF place[2] > place[1] /\ info.magic THEN place ELSE <<>>
SaidInitrd(d) == Magic(PlaceOf(GivenInitrd, d, Top0(d, <<"chosen">>)))

\* The addresses of memory in the order the firmware lists them, and how many
\* of them it allows.
Bytes(a, n) == [i \in 1..n |-> a + i - 1]
BytesOf(regs) == FlattenSeq([i \in DOMAIN regs |-> Bytes(regs[i][1], regs[i][2])])
SaidRegs(d, memory) ==
  CASE info.drv = "multiboot" -> [i \in DOMAIN Avail |-> <<Avail[i].addr, Avail[i].len>>]
    [] memory # 0 -> RegsOf(d, memory)
    [] OTHER -> <<>>
AllBytes(regs, mem) ==
  CASE regs # <<>> -> BytesOf(regs)
    [] info.drv = "srm" -> BytesOf([i \in DOMAIN Clusters |-> <<Clusters[i].start, Clusters[i].len>>])
    [] mem # <<>> -> Bytes(Last(mem).start, Last(mem).size)
    [] OTHER -> <<>>
SaidSize(mem) ==
  CASE info.drv = "karg" -> get_ulong("memsize")
    [] info.drv = "atags" /\ mem # <<>> -> Last(mem).size
    [] OTHER -> 0
Limit(size) == IF 0 < info.range[2] /\ info.range[2] < size THEN info.range[2] ELSE size
Allowed(all, limit) == IF limit = 0 THEN all ELSE SubSeq(all, 1, Min({limit, Len(all)}))
SaidMemory(d) ==
  Allowed(AllBytes(SaidRegs(d, Top0(d, <<"memory">>)), SaidTag("mem")),
          Limit(SaidSize(SaidTag("mem"))))

SaidReserved(initrd) ==
  {<<Num(SubSeq(r, 1, 2)), Num(SubSeq(r, 3, 4))>> : r \in {x \in Range(fw.board.rsv) : fw.kind = "fdt"}}
  \cup {info.loader}
  \cup (IF info.drv = "multiboot" THEN {<<0, 1>>} ELSE {})
  \cup (IF info.drv = "srm" THEN {<<c.start, c.len>> : c \in Range(InUse)} ELSE {})
  \cup (IF initrd = <<>> THEN {} ELSE {<<initrd[1], initrd[2] - initrd[1]>>})

\* What passes from the firmware to the loader through the device tree gets
\* there: the core image is where the firmware put it, all the memory the
\* firmware reports or allows is usable and nothing else, what it reserves is
\* claimed, and the CPUs and the interrupt controllers of the MADT are listed
\* in its order.
CpusFaithful(cpus, cpu_node, chip_node) ==
  /\ Data(tree, cpu_node, CpuCount) = <<Len(cpus)>>
  /\ Data(tree, cpu_node, CpuConfig) =
       FlattenSeq([i \in DOMAIN cpus |-> <<cpus[i].id, cpus[i].apic>>])
  /\ Len(Data(tree, chip_node, ChipConfig)) = 4 * Len(OfType("ioapic"))

BootFaithful(d, initrd) ==
  /\ boot.coreimg = initrd
  /\ Range(BytesOf(boot.usable)) = Range(SaidMemory(d))
  /\ SaidReserved(initrd) \subseteq Range(boot.used)
  /\ info.drv = "multiboot" /\ info.acpi # <<>> /\ find_table # <<>> =>
       CpusFaithful(OfType("lapic"), devtree_walk(tree, <<"/", "cpus">>),
                    devtree_walk(tree, <<"/", "io_apic">>))

FirmwareFaithful ==
  boot.stage = "booted" => BootFaithful(Description, SaidInitrd(Description))
=============================================================================
