------------------------------- MODULE Boards -------------------------------
(***************************************************************************)
(* Small machines for the models of the boot, of interrupts, traps and     *)
(* paging: the descriptions their firmware hands over, after the trees of  *)
(* arch/*/dts, and what they are asked to do; and the calls of a process.  *)
(***************************************************************************)
LOCAL INSTANCE Naturals
LOCAL INSTANCE Sequences

LOCAL B(name) == <<[t |-> "begin", name |-> name]>>
LOCAL E == <<[t |-> "end"]>>
LOCAL Nop == <<[t |-> "nop"]>>
LOCAL Bad == <<[t |-> "bad"]>>
LOCAL Fin == <<[t |-> "fin"]>>
LOCAL P(name, data) == <<[t |-> "prop", name |-> name, data |-> data]>>
LOCAL Cells(a, s) == P(<<"#address", "-cells">>, <<a>>) \o P(<<"#size", "-cells">>, <<s>>)
LOCAL Phandle(h) == P(<<"phandle">>, <<h>>)
LOCAL Intc(h, n) == P(<<"interrupt", "-controller">>, <<>>) \o Phandle(h)
                    \o P(<<"#interrupt", "-cells">>, <<n>>)
LOCAL Board(toks) == [toks |-> toks, rsv |-> <<>>, unnamed |-> {}]

\* Wide addresses; a bus, a controller on it, one in a CPU and a third that
\* interrupts both.
Wide == Board(
  B(<<>>) \o Cells(2, 1) \o P(<<"interrupt", "-parent">>, <<1>>)
  \o B(<<"memory", "@", "8">>) \o P(<<"reg">>, <<0, 8, 4, 1, 0, 6>>) \o E
  \o B(<<"soc">>) \o Cells(2, 2) \o P(<<"ranges">>, <<0, 0, 2, 0, 1, 0>>) \o Nop
  \o B(<<"pic", "@", "0">>) \o Intc(1, 2) \o P(<<"reg">>, <<0, 3, 0, 1>>) \o E
  \o B(<<"uart", "@", "1">>) \o P(<<"reg">>, <<0, 5, 0, 2, 3, 3, 0, 1>>)
  \o P(<<"interrupts">>, <<7, 1>>) \o P(<<"compatible">>, <<<<"ns16550a">>, <<"ns16550">>>>) \o E
  \o E
  \o B(<<"cpus">>) \o Cells(1, 0)
  \o B(<<"cpu", "@", "0">>) \o P(<<"reg">>, <<0>>) \o P(<<"clock", "-frequency">>, <<9>>)
  \o B(<<"cpuintc">>) \o Intc(2, 1) \o E \o E \o E
  \o B(<<"plic">>) \o Intc(3, 1) \o P(<<"interrupts", "-extended">>, <<2, 5, 1, 4, 4>>) \o E
  \o E \o Fin)

\* Two buses below one another, two devices of one name, one switched off.
Nested == [Board(
  B(<<>>) \o Cells(1, 1)
  \o B(<<"bus">>) \o Cells(1, 1) \o P(<<"ranges">>, <<0, 4, 2, 4, 8, 4>>)
  \o P(<<"use", "-ioport">>, <<>>)
  \o B(<<"isa">>) \o Cells(1, 1) \o P(<<"ranges">>, <<8, 5, 2>>)
  \o Intc(4, 1)
  \o B(<<"uart", "@", "8">>) \o P(<<"reg">>, <<8, 1, 9, 1, 12, 1>>)
  \o P(<<"interrupts">>, <<4>>) \o E \o E
  \o B(<<"uart", "@", "1">>) \o P(<<"reg">>, <<1, 1>>) \o P(<<"status">>, <<<<"disabled">>>>) \o E
  \o B(<<"uart", "@", "2">>) \o P(<<"reg">>, <<6, 1>>) \o P(<<"interrupts", "-extended">>, <<4, 3>>)
  \o E \o E
  \o B(<<"bus", "@", "1">>) \o E \o E \o Fin)
  EXCEPT !.unnamed = {16}]

\* A bus with narrow addresses below a wide one.
Narrow == Board(
  B(<<>>) \o Cells(2, 1)
  \o B(<<"soc">>) \o Cells(1, 1) \o P(<<"ranges">>, <<0, 2, 0, 8>>)
  \o B(<<"uart">>) \o P(<<"reg">>, <<3, 1>>) \o E \o E \o E \o Fin)

\* A name that is the beginning of an earlier one.
Alike == Board(
  B(<<>>) \o B(<<"clk", "-gate">>) \o P(<<"reg", "-shift">>, <<2>>) \o E
  \o B(<<"clk">>) \o P(<<"reg">>, <<1, 1>>) \o E \o E \o Fin)

\* Reserved memory.
Reserved == [Board(B(<<>>) \o B(<<"memory">>) \o E \o E \o Fin)
             EXCEPT !.rsv = [i \in 1..11 |-> <<0, i, 0, 1>>]]

\* One node below the root; a damaged tree.
Single == Board(B(<<>>) \o B(<<"soc">>) \o B(<<"a">>) \o E \o B(<<"b">>) \o E \o E \o E \o Fin)
Damaged == Board(B(<<>>) \o Bad \o Fin)

\* Boards for the firmware drivers: memory in two regions and an initrd that
\* the tree names; wide cells and reserved memory; no memory at all.
LOCAL Initrd(from, to) == P(<<"linux", ",", "initrd", "-start">>, <<from>>)
                          \o P(<<"linux", ",", "initrd", "-end">>, <<to>>)
Regions == Board(
  B(<<>>) \o Cells(1, 1) \o B(<<"chosen">>) \o Initrd(9, 11) \o E
  \o B(<<"memory", "@", "2">>) \o P(<<"reg">>, <<2, 4, 8, 4>>) \o E \o E \o Fin)
Fenced == [Board(
  B(<<>>) \o Cells(2, 2) \o B(<<"memory">>) \o P(<<"reg">>, <<0, 1, 1, 2>>) \o E
  \o B(<<"chosen">>) \o E \o E \o Fin) EXCEPT !.rsv = <<<<0, 4, 0, 1>>, <<1, 0, 0, 2>>>>]
Bare == Board(B(<<>>) \o Cells(1, 1) \o E \o Fin)
Mixed == Board(B(<<>>) \o Cells(2, 1) \o E \o Fin)
Owned == Board(
  B(<<>>) \o Cells(1, 1) \o B(<<"chosen">>) \o E
  \o B(<<"memory">>) \o P(<<"reg">>, <<0, 9>>) \o P(<<"available">>, <<2, 3, 6, 2>>) \o E
  \o E \o Fin)

AllBoards == {Wide, Nested, Narrow, Alike, Reserved, Single, Damaged,
              Regions, Fenced, Bare, Mixed, Owned}

-----------------------------------------------------------------------------
\* What the firmware of these boards says besides.

LOCAL Says(drv) ==
  [drv |-> drv, initrd |-> <<>>, cmd |-> FALSE, mmap |-> <<>>, acpi |-> <<>>,
   tags |-> <<>>, args |-> [x \in {} |-> 0], env |-> [x \in {} |-> 0], clusters |-> <<>>,
   loader |-> <<2, 1>>, magic |-> TRUE, embedded |-> TRUE, range |-> <<0, 0>>]
LOCAL Mem(type, addr, len) == [type |-> type, addr |-> addr, len |-> len]
LOCAL Tag(tag, start, size) == [tag |-> tag, start |-> start, size |-> size]
LOCAL Cluster(start, len, usage) == [start |-> start, len |-> len, usage |-> usage]
LOCAL Madt(type, id) == [type |-> type, id |-> id, apic |-> id + 1, base |-> 30, gsi |-> 2]

LOCAL Pc == [Says("multiboot") EXCEPT
  !.initrd = <<6, 8>>, !.cmd = TRUE,
  !.mmap = <<Mem("avail", 0, 4), Mem("reserved", 4, 1), Mem("avail", 6, 3), Mem("reserved", 12, 2)>>,
  !.acpi = <<[revision |-> 2, xsdt |-> TRUE, rsdt |-> FALSE, base |-> 20,
              madt |-> <<Madt("lapic", 0), Madt("ioapic", 1), Madt("lapic", 3), Madt("lapic_addr", 4)>>]>>]

AllInfos ==
  {<<AllBoards, Says("none")>>, <<AllBoards, Says("obp")>>,
   <<AllBoards, [Says("ofw") EXCEPT !.initrd = <<3, 2>>]>>,
   <<{Regions, Fenced, Mixed}, Pc>>,
   <<{Regions, Fenced, Mixed},
     [Pc EXCEPT !.initrd = <<>>, !.acpi = <<>>, !.mmap = <<Mem("avail", 1, 20)>>]>>,
   <<{Fenced}, [Pc EXCEPT !.cmd = FALSE, !.magic = FALSE, !.embedded = FALSE]>>,
   <<{Bare}, [Pc EXCEPT !.acpi = <<[@[1] EXCEPT !.revision = 0, !.xsdt = FALSE]>>]>>,
   <<{Bare}, [Pc EXCEPT !.mmap = <<>>,
              !.acpi = <<[@[1] EXCEPT !.xsdt = FALSE, !.rsdt = TRUE, !.madt = SubSeq(@, 1, 2)]>>]>>,
   <<{Regions, Bare}, [Says("atags") EXCEPT
      !.tags = <<Tag("core", 0, 0), Tag("empty", 0, 0), Tag("mem", 1, 6), Tag("ramdisk", 3, 1),
                 Tag("initrd2", 5, 2), Tag("cmdline", 0, 0)>>]>>,
   <<{Bare}, [Says("atags") EXCEPT !.tags = <<Tag("unknown", 0, 0)>>]>>,
   <<{Regions, Bare}, [Says("karg") EXCEPT
      !.args = [rd_start |-> 3, rd_size |-> 1], !.env = [memsize |-> 6, ememsize |-> 7, rd_size |-> 9]]>>,
   <<{Regions}, [Says("karg") EXCEPT !.env = [memsize |-> 7, rd_start |-> 3], !.range = <<0, 5>>]>>,
   <<{Bare, Regions}, [Says("srm") EXCEPT !.initrd = <<4, 1>>,
      !.clusters = <<Cluster(0, 2, 1), Cluster(2, 4, 0), Cluster(6, 1, 2), Cluster(7, 5, 0)>>]>>}

-----------------------------------------------------------------------------
\* Machines for the loader.  Where page tables are used, the two images share
\* a large page or do not, and the memory begins and ends inside one or not;
\* in a direct segment, the images lie apart, touch or run into the core image.

LOCAL Header(at, n, load) == [at |-> at, n |-> n, load |-> load]
LOCAL Machine(arch, mem, loader, hal, kernel) ==
  [arch |-> arch, mem |-> mem, loader |-> {loader}, coreimg |-> {}, uart |-> 40, el |-> 1,
   given |-> "own",
   files |-> <<[name |-> "kernel", headers |-> {Header(kernel, 2, TRUE)}],
               [name |-> "hal", headers |-> {Header(hal, 1, TRUE), Header(hal + 1, 1, TRUE)}]>>,
   boot |-> [src |-> 4, dst |-> 4, n |-> 5]]

LOCAL Paged ==
  {Machine(arch, lo..(lo + n - 1), lo + at, 62, kernel) :
     arch \in {"riscv", "arm", "aarch64", "x86"}, lo \in {0, 4, 5}, n \in {12, 16},
     at \in {1, 2}, kernel \in {58, 60}}
LOCAL Segmented(arch, seg) ==
  {[Machine(arch, 0..(n - 1), 1, seg + hal, seg + hal + gap) EXCEPT !.coreimg = img] :
     n \in {16, 18}, img \in {{}, {8}}, hal \in {6, 9}, gap \in {2, 3}}

AllMachines ==
  Paged
  \cup {[x EXCEPT !.el = el] : x \in {y \in Paged : y.arch = "aarch64"}, el \in {2, 3}}
  \cup {[x EXCEPT !.boot.src = src] : x \in {y \in Paged : y.arch = "x86"}, src \in {2, 7}}
  \cup {[x EXCEPT !.files[2].headers = @ \cup {Header(64, 1, FALSE)}] : x \in Paged}
  \cup {[x EXCEPT !.files = <<>>] : x \in {y \in Paged : y.mem = 4..19}}
  \cup {[x EXCEPT !.given = given] :
          x \in {y \in Paged : y.mem = 4..19} \cup Segmented("mips", 80), given \in {"fdt", "null"}}
  \cup Segmented("mips", 80) \cup Segmented("alpha", 80) \cup Segmented("openrisc", 0)

-----------------------------------------------------------------------------
\* Computers for the interrupt drivers, after arch/*/dts: nodes in the order
\* of the tree, what each is connected to, and where its wires really go.

LOCAL Dev(drv, up, intc, ints, wires) ==
  [drv |-> drv, up |-> up, intc |-> intc, ints |-> ints, wires |-> wires, ids |-> <<>>, freq |-> 1000]
LOCAL To(n, raw) == <<[to |-> n, raw |-> raw]>>
LOCAL CpuNode(drv, ids) == [Dev(drv, 0, FALSE, <<>>, {}) EXCEPT !.ids = ids]
LOCAL Computer(boot, root, nodes) == [boot |-> boot, root |-> root, nodes |-> nodes]
LOCAL Serials(n, lines) == [k \in DOMAIN lines |-> Dev("user", 0, FALSE, To(n, <<<<lines[k]>>>>), {<<n, lines[k]>>})]

\* One hart, and two of which the second boots.
LOCAL Riscv1 == Computer(0, [c \in {0} |-> 2],
  <<CpuNode("riscv_cpu", <<0>>), Dev("riscv_cpu_intc", 1, TRUE, To(2, <<>>), {}),
    Dev("clint", 0, FALSE, To(2, <<<<3>>, <<7>>>>), {<<2, 5>>}),
    Dev("plic", 0, TRUE, To(2, <<<<11>>, <<9>>>>), {<<2, 9>>})>> \o Serials(4, <<10, 3>>))
LOCAL Riscv2(boot) == Computer(boot, [c \in {0, 1} |-> 2 * c + 2],
  <<CpuNode("riscv_cpu", <<0>>), Dev("riscv_cpu_intc", 1, TRUE, To(2, <<>>), {}),
    CpuNode("riscv_cpu", <<1>>), Dev("riscv_cpu_intc", 3, TRUE, To(4, <<>>), {}),
    Dev("clint", 0, FALSE, To(2, <<<<3>>, <<7>>>>) \o To(4, <<<<3>>, <<7>>>>), {<<2, 5>>, <<4, 5>>}),
    Dev("plic", 0, TRUE, To(2, <<<<11>>, <<9>>>>) \o To(4, <<<<11>>, <<9>>>>), {<<2, 9>>, <<4, 9>>})>>
  \o Serials(6, <<10>>))

LOCAL Malta(cpus, lines) == Computer(0, [c \in {cpus[k] : k \in DOMAIN cpus} |-> 1],
  <<Dev("mips_cpu_intc", 0, TRUE, To(1, <<>>), {}), Dev("mips_cpu_timer", 0, FALSE, To(1, <<<<7>>>>), {<<1, 7>>}),
    Dev("i8259", 0, TRUE, To(1, <<<<2>>>>), {<<1, 2>>})>>
  \o Serials(3, lines) \o [k \in DOMAIN cpus |-> CpuNode("mips_cpu", <<cpus[k]>>)])

LOCAL Or1k == Computer(0, [c \in {0, 1} |-> 1],
  <<Dev("or1k_intc", 0, TRUE, To(1, <<>>), {}), Dev("or1k_cpu_timer", 0, FALSE, To(1, <<<<32>>>>), {}),
    CpuNode("or1200_cpu", <<0>>), Dev("ompic", 0, FALSE, To(1, <<<<1>>>>), {})>>
  \o Serials(1, <<2>>))

LOCAL Raspi == Computer(0, [c \in {0, 1} |-> 1],
  <<Dev("bcm2836", 0, TRUE, To(1, <<>>), {}), Dev("bcm2835", 0, TRUE, To(1, <<<<8, 4>>>>), {<<1, 8>>}),
    Dev("armv7_generic_timer", 0, FALSE, To(1, <<<<0, 4>>, <<1, 4>>, <<3, 4>>, <<2, 4>>>>), {<<1, 1>>}),
    CpuNode("armv7_cpu", <<0>>), CpuNode("armv7_cpu", <<1>>),
    Dev("user", 0, FALSE, To(2, <<<<2, 25>>>>), {<<2, 89>>}),
    Dev("user", 0, FALSE, To(2, <<<<1, 29>>>>), {<<2, 61>>})>>)

LOCAL PcNodes == Computer(0, [c \in {0, 1} |-> 2],
  <<CpuNode("x86_cpu", <<0, 1>>), Dev("lapic", 0, TRUE, To(2, <<>>), {}),
    Dev("ioapic", 0, TRUE, To(2, <<<<0>>>>), {})>>)

AllComputers ==
  {Riscv1, Riscv2(0), Riscv2(1), Malta(<<0>>, <<4, 1, 8>>), Malta(<<1, 0>>, <<4>>), Malta(<<0>>, <<10, 12>>),
   Or1k, Raspi, PcNodes}

-----------------------------------------------------------------------------
\* CPUs for the trap handlers: every system call on one CPU, and two CPUs
\* between which threads move.  5 is SYSCALL_PING, the others as in Trap.

TrapMachines ==
  {[arch |-> a, cpus |-> 1, calls |-> {5} \X (0..2) \cup {1, 2, 3, 9, 10, 11, 12} \X {0}] :
     a \in {"arm", "mips", "openrisc", "riscv32", "ia32"}}
  \cup {[arch |-> a, cpus |-> 2, calls |-> {<<5, 2>>}] : a \in {"mips", "riscv64", "amd64"}}

-----------------------------------------------------------------------------
\* Page tables and TLBs: the pages of two processes and of the kernel on the
\* architectures with a software TLB, pages and larger blocks on the others.

LOCAL At(x, c, k) == [exec |-> x, read |-> 1, write |-> 1, cache |-> c, kernel |-> k]
LOCAL Req(p, v, f, l, at) == [p |-> p, v |-> v, f |-> f, l |-> l, at |-> at]
LOCAL Mips(a, l, h, more) ==
  [arch |-> a, hw |-> h,
   reqs |-> {Req("p", 4, 1, l, At(1, 1, 0)), Req("p", 5, 3, l, At(1, 1, 0))}
            \cup {Req(t, 4, 2, l, At(1, 1, 0)) : t \in more}]
LOCAL Config(type, size, ext, last) ==
  [type |-> type, size |-> size, ext |-> ext, last |-> last, ftlb4k |-> FALSE, ways |-> 2, sets |-> 2]
LOCAL Openrisc(w, o, user, v) ==
  [arch |-> "openrisc", hw |-> [ways |-> w, sets_order |-> o],
   reqs |-> {Req("p", 4, 1, 2, At(1, 1, 0)), Req(user, v, 2, 2, At(1, 1, 0))}
            \cup {Req(t, 8, 3, 2, At(1, 1, 1)) : t \in {"kernel", "p", user}}]
LOCAL Walked(a, small, large, size) ==
  [arch |-> a, hw |-> <<>>,
   reqs |-> {Req("p", 5, 1, small, at) : at \in {At(1, 1, 0), At(1, 1, 1), At(0, 0, 1), At(1, 0, 1)}}
            \cup {Req("p", 6, 2, small, At(1, 1, 0))}
            \cup {Req("p", size, 2 * size, large, At(1, 1, 0))}]

PagingMachines ==
  {Mips("mips32", 2, Config(1, 1, 0, 1), {"p", "q"}), Mips("mips64", 4, Config(4, 0, 1, 4), {"q"}),
   Openrisc(0, 1, "q", 4), Openrisc(2, 0, "p", 6),
   Walked("riscv32", 2, 1, 1024), Walked("riscv64", 3, 2, 512), Walked("ia32", 2, 1, 1024),
   Walked("amd64", 4, 3, 512)}
  \cup {[arch |-> "aarch64", hw |-> <<>>,
         reqs |-> {Req("p", 5, 1, 4, at) : at \in {At(1, 1, 0), At(1, 1, 1), At(1, 0, 0)}}]}

-----------------------------------------------------------------------------
\* What a process calls (Api).  rootfs has the directories d and m and the
\* file d/ef, devfs three devices; devfs is on m, or not mounted yet.

Folder(dir, name) == [dir |-> dir, name |-> name, type |-> "dir", opcode |-> "none", data |-> <<>>]
Special(name, opcode) == [dir |-> 1, name |-> name, type |-> "dev", opcode |-> opcode, data |-> <<>>]

ApiNodes ==
  [rootfs |-> <<Folder(0, <<>>), Folder(1, <<"d">>),
                [dir |-> 2, name |-> <<"e", "f">>, type |-> "file", opcode |-> "none",
                 data |-> <<"a", "b", "c", "d", "e", "f", "g">>],
                Folder(1, <<"m">>)>>,
   devfs |-> <<Folder(0, <<>>), Special(<<"z">>, "zero"), Special(<<"u">>, "uart"), Special(<<"n">>, "null")>>]

\* Descriptors 1, 2 and 5 are of rootfs and 7 is free; the others are of
\* devfs, or free.
ApiFds ==
  LET Held(fs, id) == [use |-> TRUE, vent |-> [fs |-> fs, id |-> id]]
      free == [use |-> FALSE, vent |-> [fs |-> "rootfs", id |-> 0]]
      root == [i \in {1, 2, 5} |-> Held("rootfs", CASE i = 1 -> 3 [] i = 2 -> 2 [] i = 5 -> 4)]
      devs == [i \in {0, 3, 4, 6} |-> Held("devfs", CASE i = 0 -> 3 [] i = 3 -> 2 [] i = 4 -> 1 [] i = 6 -> 4)]
  IN [mnt \in {0, 4} |->
        [i \in 0..7 |-> IF i \in DOMAIN root THEN root[i]
                        ELSE IF mnt = 4 /\ i \in DOMAIN devs THEN devs[i] ELSE free]]

ApiCalls ==
  {[op |-> "acquire", path |-> p] :
     p \in {<<"/">>, <<"/", "d", "/", "e", "f">>, <<"d">>, <<"m", "/", "z">>, <<"/", "m">>, <<"x">>}}
  \cup {[op |-> "release", fd |-> i] : i \in {1, 5, 7}}
  \cup {[op |-> "dev_create", fd |-> i, name |-> <<"n">>, mode |-> "mode", pid |-> "pid", opcode |-> "full"] :
          i \in {2, 4}}
  \cup {[op |-> "pipe_create", fd |-> i, name |-> <<"p", "q">>, mode |-> "mode"] : i \in {4, 5}}
  \cup {[op |-> "file_open", fd |-> i, flags |-> "flags", mode |-> "mode"] : i \in {1, 2}}
  \cup {[op |-> "dir_open", fd |-> i, flags |-> "flags"] : i \in {1, 2}}
  \cup {[op |-> "file_read", fd |-> x[1], count |-> x[2]] :
          x \in {<<1, 3>>, <<1, 9>>, <<2, 3>>, <<3, 9>>, <<6, 3>>, <<7, 3>>}}
  \cup {[op |-> "file_write", fd |-> i, bytes |-> <<"1", "2", "3", "4", "5", "6", "7", "8">>] : i \in {0, 6}}
  \cup {[op |-> "file_write", fd |-> i, bytes |-> <<"1", "2", "3">>] : i \in {0, 1, 4}}
  \cup {[op |-> "dir_create", fd |-> 2, name |-> <<"x">>, mode |-> "mode"], [op |-> "dir_remove", fd |-> 2],
        [op |-> "symlink_read", fd |-> 1, count |-> 3]}
  \cup {[op |-> "mount", fd |-> i, name |-> <<"d">>, opcode |-> "devfs"] : i \in {0, 2, 5}}
  \cup {[op |-> "task_create", type |-> 1, dir |-> <<"d">>, argv |-> << <<"e">>, <<"x">> >>],
        [op |-> "exit", status |-> 5], [op |-> "detach", status |-> 5], [op |-> "wait", pid |-> 3],
        [op |-> "getcwd"]}
  \cup {[op |-> "chdir", path |-> p] : p \in {<<"d">>, <<"/", "m">>, <<"x">>}}
=============================================================================
