----------------------------- MODULE MCMachine ------------------------------
(***************************************************************************)
(* What depends on the machine, each part on a small instance of its own,  *)
(* in one run: unit says which part a behaviour is about.  The VM blocks   *)
(* of a process and the TLBs of its CPUs are the part this module extends; *)
(* they keep their first state in the behaviours of the other parts, whose *)
(* variables are v1 to v5, Unused where a part has fewer.                  *)
(***************************************************************************)
EXTENDS VmBlocks, TLC

VARIABLES unit, v1, v2, v3, v4, v5

Unused == "unused"
slots == <<v1, v2, v3, v4, v5>>

\* CPUs, blocks and pages are interchangeable.
Symmetry ==
  Permutations(Cpus) \cup Permutations(Blocks) \cup Permutations(Pages)

\* Nine ways to boot on twelve boards, with room for the tree and without.
G == INSTANCE Boards
W == INSTANCE Firmware WITH
  fw <- v1, tree <- v2, at <- v3, info <- v4, boot <- v5,
  Cell <- 16, Boards <- G!AllBoards, Infos <- G!AllInfos,
  Paths <- {<<"memory">>, <<"soc">>, <<"bus">>, <<"bus", "@", "1">>, <<"nothing">>},
  Head0 <- 3, NodeSize <- 5, Word <- 2, BufSizes <- {60, 1000}

\* The rest of the loader, on seven architectures.
B == INSTANCE Loader WITH
  m <- v1, ld <- v2, Machines <- G!AllMachines,
  Large <- 4, Seg <- 80, AccessEnd <- 14, UserEnd <- 18, HighHalf <- 100, PreEnd <- 18

\* Devices and interrupts, on nine computers of five architectures.
C == INSTANCE Intc WITH
  m <- v1, s <- v2, Computers <- G!AllComputers, MaxTicks <- 2, MaxRaise <- 2, Period <- 100

\* Traps, on six architectures; on those with two CPUs threads migrate.
P == INSTANCE Trap WITH hal <- v1, th <- v2, Machines <- G!TrapMachines

-----------------------------------------------------------------------------

From3 == v3 = Unused /\ v4 = Unused /\ v5 = Unused

MachineInit ==
  /\ Init
  /\ \/ unit = "blocks" /\ v1 = Unused /\ v2 = Unused /\ From3
     \/ /\ online = Cpus /\ asid
        /\ \/ unit = "firmware" /\ W!FirmwareInit
           \/ unit = "loader" /\ B!LoaderStart /\ From3
           \/ unit = "intc" /\ C!IntcInit /\ From3
           \/ unit = "trap" /\ P!TrapInit /\ From3

Part(u) == unit = u /\ UNCHANGED <<unit, vars>>
Keep3 == UNCHANGED <<v3, v4, v5>>

MachineNext ==
  \/ unit = "blocks" /\ Next /\ UNCHANGED <<unit, slots>>
  \/ Part("firmware") /\ W!BuildStep
  \/ Part("firmware") /\ W!MultibootStep
  \/ Part("firmware") /\ W!AcpiStep
  \/ Part("firmware") /\ W!DriverStep
  \/ Part("firmware") /\ W!ReadStep
  \/ Part("firmware") /\ W!Halted
  \/ Part("loader") /\ B!LoaderNext /\ Keep3
  \/ Part("intc") /\ C!IntcNext /\ Keep3
  \/ Part("trap") /\ P!TrapNext /\ Keep3

MachineSpec == MachineInit /\ [][MachineNext]_<<vars, unit, slots>>

-----------------------------------------------------------------------------
\* The properties of the parts; those of VmBlocks and Tlb are stated there.

\* Firmware: image, memory and CPUs reach the loader as the firmware has them.
\* Devtree: the tree is what the firmware described, and lookups are right.
FirmwareFaithful == /\ unit = "firmware" => W!FirmwareFaithful
                    /\ unit = "firmware" /\ v5.stage = "tree" => W!DevtreeExact

\* Loader: the HAL finds itself, the kernel, the memory and the console where
\* the CPU looks for them, and the loader gives up only for want of memory.
BootReady == unit = "loader" => B!BootReady /\ B!BootGivesUp

\* Intc: interrupts reach the driver of the device that raised them, once, and
\* the clock goes by the ticks of CPU 0.
IntsExact == unit = "intc" => C!IntsExact

\* Trap: a thread that enters the HAL or the kernel resumes exactly.
TrapExact == unit = "trap" => P!TrapExact
=============================================================================
