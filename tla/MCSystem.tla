------------------------------ MODULE MCSystem ------------------------------
(***************************************************************************)
(* Parts of the system that do not wait for one another, each on a small   *)
(* instance of its own, in one run: unit says which part a behaviour is    *)
(* about.  The kernel's memory is the part this module extends; it keeps   *)
(* its initial state in the behaviours of the other parts, whose variables *)
(* are v1, v2 and so on, Unused where a part has fewer.                    *)
(***************************************************************************)
EXTENDS Salloc, FiniteSets

CONSTANTS
  Nil,     \* no ventry, no string
  Panicked \* a getter that panics

VARIABLES unit, v1, v2, v3, v4, v5, v6, v7, v8, v9, v10

Unused == "unused"
slots == <<v1, v2, v3, v4, v5, v6, v7, v8, v9, v10>>

From3 == v3 = Unused /\ v4 = Unused /\ v5 = Unused /\ v6 = Unused /\ v7 = Unused
From5 == v5 = Unused /\ v6 = Unused
From7 == v7 = Unused
From8 == v8 = Unused /\ v9 = Unused /\ v10 = Unused

-----------------------------------------------------------------------------
\* Memory: a block of the highest order, pages with other tags right behind
\* it, and two sizes of structs, whose buckets are one and two pages.

MCTags == [p \in Pfns |-> IF p <= 11 THEN Mapped ELSE Direct]

MCSizes == <<4, 10>>

-----------------------------------------------------------------------------
\* VFS: a link, a loop of links, a node that cannot be acquired, and a
\* directory that a second file system is mounted on.

Node(m, dir, name, id, to) ==
  [m |-> m, dir |-> dir, name |-> name, id |-> id, to |-> to]

F == INSTANCE Vfs WITH
  vpc <- v1, vent <- v2, mlock <- v3, vlock <- v4, entry <- v5, walk <- v6, fds <- v7,
  Actors <- {"a", "b"}, Vents <- 0..9,
  Entries <- {Node("M0", 0, "d", 1, <<>>), Node("M0", 1, "f", 2, <<>>),
              Node("M0", 1, "g", 3, <<>>), Node("M0", 0, "l", 4, <<"d", "f">>),
              Node("M0", 0, "m", 5, <<>>), Node("M0", 0, "x", 6, <<"x">>),
              Node("M0", 0, "r", 7, <<>>), Node("M1", 0, "h", 1, <<>>)},
  Refused <- {<<"M0", 7>>},
  Paths <- [a |-> {<<"l">>, <<"m", "h">>, <<"x">>, <<"r">>},
            b |-> {<<"d", "..", ".", "d", "g">>, <<"m">>, <<"d", "n">>}],
  AfterMount <- {<<"m", "h">>}, MountDir <- <<"m">>, Mounter <- "b",
  MaxLinks <- 2, MaxOpen <- [a |-> 1, b |-> 2], None <- Nil

\* The two UART drivers; more bytes come in than the shift buffer holds.
N == INSTANCE Serial WITH
  uart <- v1, irq <- v2, handler <- v3, drv <- v4, intr <- v5, buf <- v6,
  units <- v7, rd <- v8, wt <- v9, log <- v10,
  Handlers <- {"h1", "h2"}, Readers <- {"r1", "r2"}, Writers <- {"w1"},
  Counts <- {1, 2}, Cap <- 2, RxCap <- 2, MaxIn <- 3, EoiFirst <- TRUE
L == INSTANCE Serial WITH
  uart <- v1, irq <- v2, handler <- v3, drv <- v4, intr <- v5, buf <- v6,
  units <- v7, rd <- v8, wt <- v9, log <- v10,
  Handlers <- {"h1", "h2"}, Readers <- {"r1"}, Writers <- {"w1", "w2"},
  Counts <- {1, 2}, Cap <- 2, RxCap <- 2, MaxIn <- 3, EoiFirst <- FALSE

-----------------------------------------------------------------------------
\* Address spaces: p with blocks of one and two pages, some of which share a
\* large page, and q which other processes' pages are mapped into; three
\* frames.  Tables have two entries and three levels, or are those of arm.
T == INSTANCE PageTable WITH
  Arm <- FALSE, pt <- v1, blocks <- v2, ram <- v3, view <- v4,
  Procs <- {"p", "q"},
  Slots <- [p |-> {[base |-> 1, n |-> 1], [base |-> 2, n |-> 2], [base |-> 4, n |-> 2]},
            q |-> {[base |-> 3, n |-> 1]}],
  Levels <- 3, BlockLevels <- {2, 3}, Ram <- {1, 2, 3}, Dev <- 9, Img <- 12
E == INSTANCE PageTable WITH
  Arm <- TRUE, pt <- v1, blocks <- v2, ram <- v3, view <- v4,
  Procs <- {"p", "q"},
  Slots <- [p |-> {[base |-> 1, n |-> 1], [base |-> 2, n |-> 2], [base |-> 4, n |-> 3]},
            q |-> {[base |-> 3, n |-> 1]}],
  Levels <- 3, BlockLevels <- {2, 3}, Ram <- {1, 2}, Dev <- 9, Img <- 12

\* The loader's memory map: regions that overlap, adjoin and leave a hole.
Reg(from, to) == [start |-> from, size |-> to - from]
O == INSTANCE Memmap WITH
  es <- v1, bad <- v2, phase <- v3, mem <- v4, kind <- v5, got <- v6, pfndb <- v7,
  Top <- 9, NumSlots <- 12,
  Regs <- {Reg(0, 8), Reg(1, 4), Reg(4, 8), Reg(0, 3), Reg(5, 9), Reg(2, 9)},
  MemStarts <- {0, 2}, MemSizes <- {0, 5}, MaxRegs <- 2, MaxClaims <- 2,
  MaxAllocs <- 2, Sizes <- {2}, Align <- 2, DbPages <- 1, NodePages <- 1

\* Two threads that read two files, and a directory that fills while it is
\* listed through buffers of two entries or three.
R == INSTANCE FileIo WITH
  fds <- v1, file <- v2, node <- v3, dir <- v4,
  Threads <- {"t", "u"}, FileSize <- [f |-> 5, g |-> 2], Missing <- "none",
  MaxFiles <- 2, MaxData <- 2, ItemSizes <- {1, 2}, ItemCounts <- {1, 3},
  Offsets <- {3, 6}, First <- <<>>, Pipes <- {}, DentSize <- [x \in {} |-> 0],
  DirBuf <- 3, MsgRoom <- 3
D == INSTANCE FileIo WITH
  fds <- v1, file <- v2, node <- v3, dir <- v4,
  Threads <- {}, FileSize <- [f |-> 1], Missing <- "none",
  MaxFiles <- 1, MaxData <- 2, ItemSizes <- {1}, ItemCounts <- {1}, Offsets <- {1},
  First <- <<"n1", "n2", "n3">>, Pipes <- {"p1", "p2"},
  DentSize <- [n1 |-> 1, n2 |-> 2, n3 |-> 1, p1 |-> 2, p2 |-> 1],
  DirBuf <- 3, MsgRoom <- 3

\* Id maps of one, two and three levels, full and ragged.
I == INSTANCE Ids WITH
  obj <- v1, map <- v2, holders <- v3, wild <- v4, Bits <- 2, Ranges <- {1, 3, 7, 8}

\* An address space of six pages.
A == INSTANCE VmRanges WITH
  avail <- v1, inuse <- v2, sanit <- v3, objs <- v4, active <- v5, refs <- v6,
  Start <- 1, End <- 7, Sizes <- {1, 3}, ThreadSize <- 2

\* Three CPUs.
S == INSTANCE Smp WITH
  boot <- v1, next_seq <- v2, seq <- v3, mp <- v4, pc <- v5, ints <- v6,
  saved <- v7, lock <- v8, bad <- v9, NumCpus <- 3

\* Ints of three bits and longs of six.
X == INSTANCE Arith WITH a <- v1, b <- v2, wraps <- v3, H <- 3, W <- 6

G == INSTANCE Boards

\* Page table entries on eight architectures, and TLBs that software fills.
K == INSTANCE SoftTlb WITH mmu <- v1, mm <- v2, Machines <- G!PagingMachines

\* The heap of a process: three places for chunks, which hold blocks of 4, 8
\* and 10 words.
H == INSTANCE Heap WITH
  heap <- v1, live <- v2, Chunks <- {1, 2, 3}, ChunkSize <- 16, HeadSize <- 6,
  BlockHead <- 2, MagicSize <- 1, Requests <- {2, 8}, MaxLive <- 3, MaxDrift <- 1, Null <- 0

\* Two calls of a process; a message has room for eight bytes.
Q == INSTANCE Api WITH
  buf <- v1, st <- v2, WordSize <- 2, MaxWords <- 4, MaxParams <- 15, ExtraSafe <- 2,
  Calls <- G!ApiCalls, MaxCalls <- 2, Nodes <- G!ApiNodes, MaxNodes <- 6, Fds <- G!ApiFds,
  Image <- <<"E", "L", "F", "z">>, Null <- Nil

-----------------------------------------------------------------------------

SystemInit ==
  /\ SallocInit
  /\ \/ /\ unit = "memory" /\ v1 = Unused /\ v2 = Unused /\ v3 = Unused
        /\ v4 = Unused /\ From5 /\ From7 /\ From8
     \/ unit = "vfs" /\ F!VfsInit /\ From8
     \/ unit = "ns16550" /\ N!SerialInit
     \/ unit = "pl011" /\ L!SerialInit
     \/ unit = "pages" /\ T!PageTableInit /\ From5 /\ From7 /\ From8
     \/ unit = "arm" /\ E!PageTableInit /\ From5 /\ From7 /\ From8
     \/ unit = "memmap" /\ O!MemmapInit /\ From8
     \/ unit = "files" /\ R!FileIoInit /\ From5 /\ From7 /\ From8
     \/ unit = "dirs" /\ D!FileIoInit /\ From5 /\ From7 /\ From8
     \/ unit = "ids" /\ I!IdsInit /\ From5 /\ From7 /\ From8
     \/ unit = "ranges" /\ A!RangesInit /\ From7 /\ From8
     \/ unit = "smp" /\ S!SmpInit /\ v10 = Unused
     \/ unit = "tlb" /\ K!SoftTlbInit /\ From3 /\ From8
     \/ unit = "heap" /\ H!init_malloc /\ From3 /\ From8
     \/ unit = "api" /\ Q!ApiInit /\ From3 /\ From8
     \/ unit = "arith" /\ X!ArithInit /\ v4 = Unused /\ From5 /\ From7 /\ From8

Part(u) == unit = u /\ UNCHANGED <<unit, allVars>>
Keep3 == UNCHANGED <<v3, v4, v5, v6, v7, v8, v9, v10>>
Keep5 == UNCHANGED <<v5, v6, v7, v8, v9, v10>>
Keep7 == UNCHANGED <<v7, v8, v9, v10>>
Keep8 == UNCHANGED <<v8, v9, v10>>

SystemNext ==
  \/ unit = "memory" /\ SallocNext /\ UNCHANGED <<unit, slots>>
  \/ Part("vfs") /\ F!VfsNext /\ Keep8
  \/ Part("ns16550") /\ N!SerialNext
  \/ Part("pl011") /\ L!SerialNext
  \/ Part("pages") /\ T!PageTableNext /\ Keep5
  \/ Part("arm") /\ E!PageTableNext /\ Keep5
  \/ Part("memmap") /\ O!MemmapNext /\ Keep8
  \/ Part("files") /\ R!FileIoNext /\ Keep5
  \/ Part("dirs") /\ D!FileIoNext /\ Keep5
  \/ Part("ids") /\ I!IdsNext /\ Keep5
  \/ Part("ranges") /\ A!RangesNext /\ Keep7
  \/ Part("smp") /\ S!SmpNext /\ UNCHANGED v10
  \/ Part("tlb") /\ K!SoftTlbNext /\ Keep3
  \/ Part("heap") /\ H!HeapNext /\ Keep3
  \/ Part("api") /\ Q!ApiNext /\ Keep3
  \/ Part("arith") /\ X!ArithNext /\ UNCHANGED <<v4, v5, v6, v7, v8, v9, v10>>

SystemSpec == SystemInit /\ [][SystemNext]_<<allVars, unit, slots>>

\* The behaviours about the calls of a process only.
CallsSpec == unit = "api" /\ SystemInit /\ [][SystemNext]_<<allVars, unit, slots>>

-----------------------------------------------------------------------------
\* The properties of the parts.

\* Palloc: every page is free in one list entry or held by one owner, and
\* pfree merges buddies as far as they go; palloc fails only when no block is
\* large enough.
PagesExact == unit = "memory" => PagesPartitioned /\ Coalesced /\ FailsOnlyWhenExhausted

\* Salloc: the structs handed out do not overlap, and the partial lists and
\* the bucket counts agree with what is held.
StructsExact == unit = "memory" => StructsDisjoint /\ PartialExact /\ BooksExact

\* Vfs: walk_path ends at the node the path names.
ResolvesRight == unit = "vfs" => F!ResolvesRight



\* PageTable: what the tables map is what the blocks hold; on arm a device is
\* mapped uncached, as vm_map_dev asks.
PageTableExact == /\ unit = "pages" => T!PageTableExact
                  /\ unit = "arm" => E!PageTableExact /\ E!DevUncached



\* Ids: no id is handed out twice.
\* VmRanges: ranges and blocks partition the address space.
IdsExact == /\ unit = "ids" => I!IdsExact
            /\ unit = "ranges" => A!RangesExact

\* Smp: numbers, locks and interrupt states of the CPUs.
SmpSafe == unit = "smp" => S!SmpSafe

\* SoftTlb: entries read back as they were mapped, and what the TLB translates
\* is what the page table maps.
TlbExact == unit = "tlb" => K!TlbExact

\* Heap: blocks do not overlap, and the lists and counts of malloc agree with
\* what is in use, as long as no chunk is lost.
HeapExact == unit = "heap" => H!HeapExact


\* Api: no getter of libsys/ipc.c finds a parameter missing in an answer.
AnswerFits == unit = "api" => Q!AnswerFits

\* Arith: libk's integer routines agree with arithmetic.
ArithExact == unit = "arith" => X!ArithExact
=============================================================================
