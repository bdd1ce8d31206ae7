------------------------------ MODULE VmBlocks ------------------------------
(***************************************************************************)
(* The VM blocks of one user process (kernel/proc/vm.c) on their way round *)
(*                                                                         *)
(*   avail -> inuse -> sanit_mapped -> sanit_unmapped -> avail             *)
(*                                                                         *)
(* together with the page table, the TLBs of the CPUs that run the         *)
(* process's threads, the shootdown queue (Tlb) and the process's cleaner. *)
(* A block is one page at a fixed address.  Each action is one critical    *)
(* section; a CPU in the kernel is a program counter in dispatch.          *)
(***************************************************************************)
EXTENDS Tlb

CONSTANTS
  Pages,       \* physical pages
  NoPage,      \* "not mapped"
  NoBlock,     \* no operand
  AsidModes,   \* the values asid_supported() may have
  LateFill     \* a TLB may load a translation of a block being freed

ASSUME VmAssumption ==
  /\ NoPage \notin Pages /\ NoBlock \notin Blocks
  /\ IsFiniteSet(Blocks)
  /\ AsidModes \subseteq BOOLEAN /\ LateFill \in BOOLEAN

VARIABLES
  online,      \* the CPUs that were brought up
  asid,        \* asid_supported()
  pc,          \* pc[c]: where CPU c is in dispatch, or "user"
  op,          \* op[c]: the system call or fault c is handling
  arg,         \* arg[c]: the block it is about
  avail, inuse, sanitMapped,    \* the process's block lists
  sanitUnmapped,                \* a queue: the cleaner takes the first
  active,      \* num_active_blocks
  pte,         \* pte[b]: the page the page table has for b
  tlb,         \* tlb[c]: the translations c has cached, <<block, page>>
  freePages,   \* pages palloc may hand out
  cleaner      \* the cleaner: its place, block and page

listVars == <<avail, inuse, sanitMapped, sanitUnmapped, active>>
mapVars  == <<pte, tlb, freePages>>
machine  == <<online, asid>>
vars     == <<machine, tlbVars, pc, op, arg, listVars, mapVars, cleaner>>

At(c, label) == pc[c] = label
To(c, label) == pc' = [pc EXCEPT ![c] = label]

\* A panic stops all CPUs.
Running == \A c \in Cpus : ~At(c, "panic")

\* vm_create, with every address available, on one CPU or on all of them.
Init ==
  /\ TlbInit
  /\ online \in {Cpus} \cup {{c} : c \in Cpus}
  /\ asid \in AsidModes
  /\ pc = [c \in Cpus |-> "user"]
  /\ op = [c \in Cpus |-> "none"]
  /\ arg = [c \in Cpus |-> NoBlock]
  /\ avail = Blocks /\ inuse = {} /\ sanitMapped = {} /\ sanitUnmapped = <<>>
  /\ active = 0
  /\ pte = [b \in Blocks |-> NoPage]
  /\ tlb = [c \in Cpus |-> {}]
  /\ freePages = Pages
  /\ cleaner = [at |-> "pop", b |-> NoBlock, page |-> NoPage]

-----------------------------------------------------------------------------
\* User mode.

Cached(c, b) == \E p \in Pages : <<b, p>> \in tlb[c]

\* A user thread, or the hardware ahead of it, loads a translation.
Fill(c, b) ==
  /\ At(c, "user")
  /\ ~Cached(c, b)
  /\ pte[b] # NoPage
  /\ b \in inuse \/ LateFill
  /\ tlb' = [tlb EXCEPT ![c] = @ \cup {<<b, pte[b]>>}]
  /\ UNCHANGED <<tlbVars, pc, op, arg, listVars, pte, freePages, cleaner>>

\* Some thread is already freeing the block: freeing it twice is an error of
\* the program, which vm_free answers with a panic.
BeingFreed(b) == \E c \in Cpus : op[c] = "free" /\ arg[c] = b

\* A trap or an interrupt: the CPU enters dispatch.
Trap(c, o, b) ==
  /\ At(c, "user")
  /\ To(c, "service")
  /\ op' = [op EXCEPT ![c] = o]
  /\ arg' = [arg EXCEPT ![c] = b]
  /\ UNCHANGED <<tlbVars, listVars, mapVars, cleaner>>

\* MaxSeq bounds the number of shootdowns, and so of vm_free calls.
FreesLeft ==
  nextSeq + Cardinality({c \in Cpus : op[c] = "free"}) <= MaxSeq

\* A page fault, vm_alloc, vm_free, or any other entry (a timer tick).
Enter(c) ==
  \/ \E b \in inuse : ~Cached(c, b) /\ pte[b] = NoPage /\ Trap(c, "fault", b)
  \/ Trap(c, "alloc", NoBlock)
  \/ \E b \in inuse : FreesLeft /\ ~BeingFreed(b) /\ Trap(c, "free", b)
  \/ Trap(c, "other", NoBlock)

-----------------------------------------------------------------------------
\* service_tlb_shootdown_requests, at the start of every dispatch.

\* tlb_shootdown_reqs.lock is held through the whole second loop.
QueueFree(c) == \A d \in Cpus \ {c} : ~At(d, "draining")

Forget(c, blocks) ==
  tlb' = [tlb EXCEPT ![c] = {e \in @ : e[1] \notin blocks}]

\* The first loop: invalidate, if there are ASIDs, and acknowledge.
Service(c) ==
  /\ At(c, "service") /\ QueueFree(c)
  /\ service_ack(c)
  /\ IF asid THEN Forget(c, Unseen(c)) ELSE UNCHANGED tlb
  /\ To(c, IF asid THEN "drain" ELSE "flush")
  /\ UNCHANGED <<op, arg, listVars, pte, freePages, cleaner>>

\* Mutant: the TLB is not flushed.
FlushNothing(c) ==
  /\ At(c, "flush")
  /\ To(c, "drain")
  /\ UNCHANGED <<tlbVars, op, arg, listVars, mapVars, cleaner>>

\* Without ASIDs the whole TLB is flushed after the acknowledgements.
Flush(c) ==
  /\ At(c, "flush")
  /\ Forget(c, Blocks)
  /\ To(c, "drain")
  /\ UNCHANGED <<tlbVars, op, arg, listVars, pte, freePages, cleaner>>

\* vm_move_to_sanit_unmapped
vm_move_to_sanit_unmapped(b) ==
  /\ sanitMapped' = sanitMapped \ {b}
  /\ sanitUnmapped' = Append(sanitUnmapped, b)
  /\ UNCHANGED <<avail, inuse, active>>

\* The second loop, one request at a time.
Drain(c) ==
  /\ At(c, "drain") \/ At(c, "draining")
  /\ QueueFree(c)
  /\ IF FrontDone
     THEN /\ To(c, "draining")
          /\ \E b \in Blocks : service_pop(b) /\ vm_move_to_sanit_unmapped(b)
     ELSE /\ To(c, "handler")
          /\ UNCHANGED <<tlbVars, listVars>>
  /\ UNCHANGED <<op, arg, mapVars, cleaner>>

-----------------------------------------------------------------------------
\* The handlers.

Return(c) ==
  /\ To(c, "user")
  /\ op' = [op EXCEPT ![c] = "none"]
  /\ arg' = [arg EXCEPT ![c] = NoBlock]

Other(c) ==
  /\ At(c, "handler") /\ op[c] = "other"
  /\ Return(c)
  /\ UNCHANGED <<tlbVars, listVars, mapVars, cleaner>>

\* Mutant: the block is counted only when it is in use.
vm_alloc_uncounted(c) ==
  /\ At(c, "handler") /\ op[c] = "alloc"
  /\ IF avail = {}
     THEN Return(c) /\ UNCHANGED listVars
     ELSE \E b \in avail :
            /\ avail' = avail \ {b}
            /\ arg' = [arg EXCEPT ![c] = b]
            /\ To(c, "insert")
            /\ UNCHANGED <<op, inuse, sanitMapped, sanitUnmapped, active>>
  /\ UNCHANGED <<tlbVars, mapVars, cleaner>>

\* vm_alloc, under the lock of avail_unmapped: take the block and count it.
vm_alloc(c) ==
  /\ At(c, "handler") /\ op[c] = "alloc"
  /\ IF avail = {}
     THEN Return(c) /\ UNCHANGED listVars
     ELSE \E b \in avail :
            /\ avail' = avail \ {b}
            /\ active' = active + 1
            /\ arg' = [arg EXCEPT ![c] = b]
            /\ To(c, "insert")
            /\ UNCHANGED <<op, inuse, sanitMapped, sanitUnmapped>>
  /\ UNCHANGED <<tlbVars, mapVars, cleaner>>

\* Its end: the block is put on inuse_mapped.
vm_alloc_insert(c) ==
  /\ At(c, "insert")
  /\ inuse' = inuse \cup {arg[c]}
  /\ Return(c)
  /\ UNCHANGED <<tlbVars, avail, sanitMapped, sanitUnmapped, active, mapVars,
                 cleaner>>

\* vm_map, under the lock of inuse_mapped: a fresh page for the address.  The
\* page table refuses to change an existing mapping (libk/lib/page.c).
vm_map(c) ==
  LET b == arg[c] IN
  /\ At(c, "handler") /\ op[c] = "fault"
  /\ IF b \in inuse
     THEN \E p \in freePages :
            /\ freePages' = freePages \ {p}
            /\ IF pte[b] = NoPage
               THEN pte' = [pte EXCEPT ![b] = p] /\ Return(c)
               ELSE To(c, "panic") /\ UNCHANGED <<pte, op, arg>>
     ELSE Return(c) /\ UNCHANGED <<pte, freePages>>
  /\ UNCHANGED <<tlbVars, listVars, tlb, cleaner>>

\* vm_free_block takes the block off inuse_mapped,
vm_free_block(c) ==
  /\ At(c, "handler") /\ op[c] = "free"
  /\ inuse' = inuse \ {arg[c]}
  /\ To(c, "sanit")
  /\ UNCHANGED <<tlbVars, op, arg, avail, sanitMapped, sanitUnmapped, active,
                 mapVars, cleaner>>

\* _vm_free_removed_block puts it on sanit_mapped.  A thread's block passes
\* through reuse_mapped, whose threshold is 0, in the same critical section.
vm_free_sanit(c) ==
  /\ At(c, "sanit")
  /\ sanitMapped' = sanitMapped \cup {arg[c]}
  /\ To(c, "request")
  /\ UNCHANGED <<tlbVars, op, arg, avail, inuse, sanitUnmapped, active,
                 mapVars, cleaner>>

\* and requests a shootdown; with one CPU, it is done on the spot.
vm_free_request(c) ==
  /\ At(c, "request") /\ QueueFree(c)
  /\ IF Cardinality(online) <= 1
     THEN /\ Forget(c, {arg[c]})
          /\ vm_move_to_sanit_unmapped(arg[c])
          /\ UNCHANGED tlbVars
     ELSE /\ request_tlb_shootdown(arg[c])
          /\ UNCHANGED <<tlb, listVars>>
  /\ Return(c)
  /\ UNCHANGED <<pte, freePages, cleaner>>

-----------------------------------------------------------------------------
\* The cleaner's vm_move_sanit_to_avail.

CleanerAt(label) == Running /\ cleaner.at = label

CleanerPop ==
  /\ CleanerAt("pop")
  /\ sanitUnmapped # <<>>
  /\ cleaner' = [at |-> "unmap", b |-> Head(sanitUnmapped), page |-> NoPage]
  /\ sanitUnmapped' = Tail(sanitUnmapped)
  /\ UNCHANGED <<tlbVars, pc, op, arg, avail, inuse, sanitMapped, active,
                 mapVars>>

\* vm_free_block_pages: unmap under page_table_lock,
CleanerUnmap ==
  /\ CleanerAt("unmap")
  /\ pte' = [pte EXCEPT ![cleaner.b] = NoPage]
  /\ cleaner' = [at |-> "pfree", b |-> cleaner.b, page |-> pte[cleaner.b]]
  /\ UNCHANGED <<tlbVars, pc, op, arg, listVars, tlb, freePages>>

\* then free the page, if there was one,
CleanerFree ==
  /\ CleanerAt("pfree")
  /\ freePages' = freePages \cup ({cleaner.page} \ {NoPage})
  /\ cleaner' = [cleaner EXCEPT !.at = "avail", !.page = NoPage]
  /\ UNCHANGED <<tlbVars, pc, op, arg, listVars, pte, tlb>>

\* put the block on avail_unmapped,
CleanerAvail ==
  /\ CleanerAt("avail")
  /\ avail' = avail \cup {cleaner.b}
  /\ cleaner' = [cleaner EXCEPT !.at = "dec"]
  /\ UNCHANGED <<tlbVars, pc, op, arg, inuse, sanitMapped, sanitUnmapped,
                 active, mapVars>>

\* and only then stop counting it.
CleanerDec ==
  /\ CleanerAt("dec")
  /\ active' = active - 1
  /\ cleaner' = [at |-> "pop", b |-> NoBlock, page |-> NoPage]
  /\ UNCHANGED <<tlbVars, pc, op, arg, avail, inuse, sanitMapped,
                 sanitUnmapped, mapVars>>

Cleaner ==
  /\ UNCHANGED machine
  /\ CleanerPop \/ CleanerUnmap \/ CleanerFree \/ CleanerAvail \/ CleanerDec

-----------------------------------------------------------------------------

\* What a CPU does in the kernel, and the timer tick that brings it there.
Kernel(c) ==
  /\ Running /\ c \in online /\ UNCHANGED machine
  /\ \/ Service(c) \/ Flush(c) \/ Drain(c)
     \/ Other(c) \/ vm_alloc(c) \/ vm_alloc_insert(c) \/ vm_map(c)
     \/ vm_free_block(c) \/ vm_free_sanit(c) \/ vm_free_request(c)

Tick(c) ==
  Running /\ c \in online /\ UNCHANGED machine /\ Trap(c, "other", NoBlock)

User(c) ==
  /\ Running /\ c \in online /\ UNCHANGED machine
  /\ Enter(c) \/ \E b \in Blocks : Fill(c, b)

Halted == ~Running /\ UNCHANGED vars

Next == (\E c \in Cpus : Kernel(c) \/ User(c)) \/ Cleaner \/ Halted

Spec == Init /\ [][Next]_vars

\* A CPU in the kernel goes on, a CPU in user mode is interrupted by its
\* timer, and the cleaner is scheduled.
FairSpec ==
  /\ Spec
  /\ \A c \in Cpus : WF_vars(Kernel(c)) /\ WF_vars(Tick(c))
  /\ WF_vars(Cleaner)

-----------------------------------------------------------------------------

\* A page is never free, and so never handed out again, while a CPU running
\* user code can still reach it: vm_free_block_pages gives pages back only
\* after service_tlb_shootdown_requests has run on every CPU.
NoStaleTranslation ==
  \A c \in Cpus : At(c, "user") => \A e \in tlb[c] : e[2] \notin freePages

\* The cleaner of a dying process is finished when num_active_blocks is 0:
\* then no block is in use, on a list on its way back, or in the hands of a
\* CPU that is moving it ("so that the process cleaner won't miss this
\* block").
ActiveCoversBlocks == active = 0 => avail = Blocks

\* No block is on its way from vm_free, or from vm_alloc.
AllHome == Running => avail \cup inuse = Blocks
=============================================================================
