------------------------------- MODULE MCWaiting ----------------------------
(***************************************************************************)
(* The synchronisation primitives that are clients of the kernel's wait    *)
(* queue, the barrier, the VM blocks of a process on their way back from   *)
(* vm_free, clients of the system process that may be stopped, parents     *)
(* that wait for their children, and threads that sleep for a time, on     *)
(* small instances in one run: whatever waits is served.                   *)
(* unit says which of them a behaviour is about; it never changes, and the *)
(* variables the others would use stay Unused.                             *)
(***************************************************************************)
EXTENDS Integers

VARIABLES
  unit,
  pc, futex, call, kbit, waitLock, waiting,        \* the wait queue
  seen, left,                                      \* its clients
  pending,                                         \* Event
  posted, taken,                                   \* Semaphore
  plock, pipe, ask, result,                        \* Pipe
  wr,                                              \* RwLock
  bpc, barLocal, local, mine, round,               \* Barrier
  reqs, nextSeq, mySeq, bseq, waitAcks,            \* Tlb
  online, asid, op, arg, avail, inuse, sanitMapped,
  sanitUnmapped, active, pte, tlb, freePages, cleaner,  \* VmBlocks
  proc, cln, list, task, creator, pop, cup, wt, told, halted   \* TaskLife

wq == <<pc, futex, call, kbit, waitLock, waiting>>
sm == <<posted, taken>>
pp == <<plock, pipe, ask, result>>
br == <<bpc, barLocal, local, mine, round>>
vm == <<reqs, nextSeq, mySeq, bseq, waitAcks, online, asid, op, arg, avail,
        inuse, sanitMapped, sanitUnmapped, active, pte, tlb, freePages>>
tl == <<proc, cln, list, task, creator, pop, cup, wt, told, halted>>

Unused == "unused"
Nobody == "nobody"

\* The cleaner and two signallers on one CPU.
EventThreads == {"w", "s1", "s2"}
E == INSTANCE Event WITH
       Threads <- EventThreads, Futexes <- {"e"}, NoThread <- Nobody,
       TheEvent <- "e", Waiter <- "w", Signals <- 4, OneCpu <- TRUE

\* One taker, and two posters whose posts the limit cuts off.
Taker == "a"
S == INSTANCE Semaphore WITH
       Threads <- {"a", "p1", "p2"}, Futexes <- {"s"}, NoThread <- Nobody,
       Takers <- {Taker}, Posters <- {"p1", "p2"}, TheSema <- "s",
       MaxCount <- 3, PostCount <- 2, Rounds <- 2

\* One reader and two writers; a message is smaller than the largest write.
PipeThreads == {"r", "w1", "w2"}
P == INSTANCE Pipe WITH
       Threads <- PipeThreads, Futexes <- {"rs", "ws"}, NoThread <- Nobody,
       Takers <- {"r"}, Posters <- {"w1", "w2"}, TheSema <- "rs",
       MaxCount <- 0, PostCount <- 1, Rounds <- 1,
       ReaderSema <- "rs", WriterSema <- "ws", Sizes <- {1, 3}, MaxMsg <- 2

\* Two waiters and two signallers.
C == INSTANCE CondVar WITH
       Threads <- {"x1", "x2", "g1", "g2"}, Futexes <- {"c"},
       NoThread <- Nobody, CondWaiters <- {"x1", "x2"},
       CondSignallers <- {"g1", "g2"}, TheCond <- "c", calls <- left

\* A reader and two writers; an uninitialised word is any word.
Lockers == {"r1", "w1", "w2"}
R == INSTANCE RwLock WITH
       Threads <- Lockers, Futexes <- {"rd", "wt"}, NoThread <- Nobody,
       RwReaders <- {"r1"}, RwWriters <- {"w1", "w2"},
       RdFutex <- "rd", WaitFutex <- "wt",
       Garbage <- [kernel : {0, 1}, locked : {0, 1}], Rounds <- 1

\* Three threads that meet three times.
Meeting == {"b1", "b2", "b3"}
B == INSTANCE Barrier WITH
       BarThreads <- Meeting, NoLocal <- Nobody, BarRounds <- 3

\* A block, two CPUs, and a page to spare.
V == INSTANCE VmBlocks WITH
       Cpus <- {"c1", "c2"}, Blocks <- {"b"}, MaxSeq <- 2,
       Pages <- {"p1", "p2"}, NoPage <- Nobody, NoBlock <- Nobody,
       AsidModes <- BOOLEAN, LateFill <- FALSE

\* A process struct that is used for two children, one after the other, and
\* two waits.
L == INSTANCE TaskLife WITH
       Pids <- {"p"}, Structs <- {"k1", "k2"}, NoPid <- Nobody, NoTask <- Nobody,
       Waiters <- {"w1", "w2"}, MaxCreate <- 2, Prompt <- TRUE

\* A client whose process may be told to exit, and the structs of popup
\* threads.  Its variables are named after the others'.
I == INSTANCE Ipc WITH
       Procs <- {"app", "sys"}, NoProc <- Nobody, NoThread <- Nobody,
       Threads <- {"a", "x", "y"}, Clients <- {"a"}, Receivers <- {},
       Home <- [a |-> "app", x |-> Nobody, y |-> Nobody],
       Server <- "sys", System <- "sys", Kinds <- {"popup_request"},
       Preset <- {"sys"}, AllPorts <- TRUE, Killable <- {"app"}, MaxAsk <- 2,
       tstate <- proc, pid <- cln, ref <- list, listed <- task,
       pstate <- creator, panicked <- pop, ipcq <- cup, ipcLock <- wt,
       waitType <- told, waitFor <- halted, replyTo <- bpc, msg <- barLocal,
       opcode <- local, popup <- mine, role <- round, dst <- plock,
       asked <- pipe, cleanup <- ask, unacked <- result

\* Two CPUs and two threads that sleep for a while or for good, with a clock of
\* two binary digits.  Its variables are named after the others'.
TimeCpus == <<"c1", "c2">>
T == INSTANCE Timeout WITH
       SmpCpus <- {"c1", "c2"}, Boot <- "c1", Sleepers <- {"s1", "s2"},
       Worker <- "worker", Idle <- Nobody, Delays <- {0, 1, 2}, Half <- 2,
       Period <- 1, Horizon <- 2, Never <- 9,
       at <- proc, run <- cln, then <- list, copy <- task, part <- creator,
       lock <- pop, ms <- cup, qlock <- wt, queue <- told, delay <- halted,
       deadline <- posted, ready <- taken

NoQueue == /\ futex = Unused /\ kbit = Unused /\ waitLock = Unused /\ waiting = Unused
           /\ left = Unused
NoSeen == seen = Unused
NoEvent == pending = Unused
NoSema == posted = Unused /\ taken = Unused
NoPipe == plock = Unused /\ pipe = Unused /\ ask = Unused /\ result = Unused
NoRw == wr = Unused
NoBarrier == /\ bpc = Unused /\ barLocal = Unused /\ local = Unused
             /\ mine = Unused /\ round = Unused

NoVm == /\ reqs = Unused /\ nextSeq = Unused /\ mySeq = Unused
        /\ bseq = Unused /\ waitAcks = Unused /\ online = Unused
        /\ asid = Unused /\ op = Unused /\ arg = Unused /\ avail = Unused
        /\ inuse = Unused /\ sanitMapped = Unused /\ sanitUnmapped = Unused
        /\ active = Unused /\ pte = Unused /\ tlb = Unused
        /\ freePages = Unused
NoCleaner == cleaner = Unused
NoLife == /\ proc = Unused /\ cln = Unused /\ list = Unused /\ task = Unused
          /\ creator = Unused /\ pop = Unused /\ cup = Unused /\ wt = Unused
          /\ told = Unused /\ halted = Unused

WaitingInit ==
  \/ /\ unit = "event" /\ E!Init
     /\ NoSeen /\ NoSema /\ NoPipe /\ NoRw /\ NoBarrier /\ NoVm /\ NoCleaner
     /\ NoLife
  \/ /\ unit = "sema" /\ S!SemInit
     /\ NoEvent /\ NoPipe /\ NoRw /\ NoBarrier /\ NoVm /\ NoCleaner /\ NoLife
  \/ /\ unit = "pipe" /\ P!PipeInit
     /\ NoSeen /\ NoEvent /\ NoSema /\ NoRw /\ NoBarrier /\ NoVm /\ NoCleaner
     /\ NoLife
  \/ /\ unit = "cond" /\ C!CondInit
     /\ NoSeen /\ NoEvent /\ NoSema /\ NoPipe /\ NoRw /\ NoBarrier /\ NoVm
     /\ NoCleaner /\ NoLife
  \/ /\ unit = "rwlock" /\ R!RwInit
     /\ NoEvent /\ NoSema /\ NoPipe /\ NoBarrier /\ NoVm /\ NoCleaner /\ NoLife
  \/ /\ unit = "barrier" /\ B!BarInit
     /\ NoQueue /\ pc = Unused /\ call = Unused /\ NoSeen /\ NoEvent /\ NoSema /\ NoPipe
     /\ NoRw /\ NoVm /\ NoCleaner /\ NoLife
  \/ /\ unit = "vm" /\ V!Init
     /\ NoQueue /\ call = Unused /\ NoSeen /\ NoEvent /\ NoSema /\ NoPipe
     /\ NoRw /\ NoBarrier /\ NoLife
  \/ /\ unit = "life" /\ L!LifeInit
     /\ NoQueue /\ pc = Unused /\ call = Unused /\ NoSeen /\ NoEvent /\ NoSema
     /\ NoPipe /\ NoRw /\ NoBarrier /\ NoVm /\ NoCleaner
  \/ /\ unit = "ipc" /\ I!Init
     /\ NoQueue /\ NoSeen /\ NoEvent /\ NoSema /\ NoRw /\ NoVm
  \/ /\ unit = "timeout" /\ T!TimeoutInit
     /\ NoQueue /\ pc = Unused /\ call = Unused /\ NoSeen /\ NoEvent /\ NoPipe
     /\ NoRw /\ NoBarrier /\ NoVm /\ NoCleaner

\* The n-th thread of each unit.
Thread(n) == [event |-> <<"w", "s1", "s2">>, sema |-> <<"a", "p1", "p2">>,
              pipe |-> <<"r", "w1", "w2">>, cond |-> <<"x1", "x2", "g1", "g2">>,
              rwlock |-> <<"w1", "w2", "r1">>,
              barrier |-> <<"b1", "b2", "b3">>, vm |-> <<"c1", "c2">>][unit][n]

Step(n) ==
  /\ UNCHANGED unit
  /\ \/ /\ unit = "event" /\ n <= 3
        /\ IF n = 1 THEN E!WaiterStep ELSE E!SignallerStep(Thread(n))
        /\ UNCHANGED <<seen, sm, pp, wr, br, vm, cleaner, tl>>
     \/ /\ unit = "sema" /\ n <= 3 /\ S!SemStep(Thread(n))
        /\ UNCHANGED <<pending, pp, wr, br, vm, cleaner, tl>>
     \/ /\ unit = "pipe" /\ n <= 3 /\ P!PipeStep(Thread(n))
        /\ UNCHANGED <<seen, pending, sm, wr, br, vm, cleaner, tl>>
     \/ /\ unit = "cond" /\ n <= 4 /\ C!CondStep(Thread(n))
        /\ UNCHANGED <<seen, pending, sm, pp, wr, br, vm, cleaner, tl>>
     \/ /\ unit = "rwlock" /\ n <= 3 /\ R!RwStep(Thread(n))
        /\ UNCHANGED <<pending, sm, pp, br, vm, cleaner, tl>>
     \/ /\ unit = "barrier" /\ n <= 3 /\ B!BarStep(Thread(n))
        /\ UNCHANGED <<wq, seen, left, pending, sm, pp, wr, vm, cleaner, tl>>
     \/ /\ unit = "vm" /\ n <= 3
        /\ IF n = 3 THEN V!Cleaner
                    ELSE V!Kernel(Thread(n)) \/ V!Tick(Thread(n))
        /\ UNCHANGED <<futex, call, kbit, waitLock, waiting, seen, left,
                       pending, sm, pp, wr, br, tl>>

     \/ /\ unit = "life"
        /\ CASE n = 1 -> L!ParentStep
             [] n = 2 -> L!ChildStep("p")
             [] n = 3 -> L!CleanerStep("p")
             [] n = 4 -> L!CleanupStep("p")
             [] n = 5 -> L!WaiterStep("w1")
             [] n = 6 -> L!WaiterStep("w2")
        /\ UNCHANGED <<wq, seen, left, pending, sm, pp, wr, br, vm, cleaner>>
     \/ /\ unit = "ipc" /\ n <= 5 /\ I!Running
        /\ IF n <= 3 THEN I!ThreadStep(<<"a", "x", "y">>[n])
                     ELSE I!CleanerStep(<<"app", "sys">>[n - 3])
        /\ UNCHANGED <<futex, kbit, waitLock, waiting, seen, left, pending, sm,
                       wr, vm>>
     \/ /\ unit = "timeout" /\ n <= 2 /\ T!CpuStep(TimeCpus[n])
        /\ UNCHANGED <<wq, seen, left, pending, pp, wr, br, vm, cleaner>>

\* A client asks, its process is told to exit.
ClientAsks ==
  /\ unit = "ipc" /\ I!Running
  /\ I!Ask("a", "popup_request") \/ I!Exit("app")
  /\ UNCHANGED <<unit, futex, kbit, waitLock, waiting, seen, left, pending, sm,
                 wr, vm>>

\* A parent starts a child or waits for it, a child detaches.
ParentAsks ==
  /\ unit = "life" /\ L!Ask
  /\ UNCHANGED <<unit, wq, seen, left, pending, sm, pp, wr, br, vm, cleaner>>

\* What a CPU does in user mode is up to the program.
UserStep(c) ==
  /\ unit = "vm" /\ V!User(c)
  /\ UNCHANGED <<unit, futex, call, kbit, waitLock, waiting, seen, left,
                 pending, sm, pp, wr, br, tl>>

\* A thread asks to sleep.
SleeperAsks(n) ==
  /\ unit = "timeout" /\ T!syscall_handler_wait(TimeCpus[n])
  /\ UNCHANGED <<unit, wq, seen, left, pending, pp, wr, br, vm, cleaner>>

\* What a CPU does between two ticks: it runs the worker that it has picked,
\* and a tick finds the clock's lock without readers.
BetweenTicks(n) ==
  /\ unit = "timeout"
  /\ T!timeout_wakeup_worker(TimeCpus[n]) \/ T!rwlock_wlock(TimeCpus[n])
  /\ UNCHANGED <<unit, wq, seen, left, pending, pp, wr, br, vm, cleaner>>

WaitingNext ==
  (\E n \in 1..6 : Step(n)) \/ ParentAsks \/ ClientAsks
  \/ (\E c \in {"c1", "c2"} : UserStep(c))
  \/ (\E n \in 1..2 : SleeperAsks(n))

allVars == <<unit, wq, seen, left, pending, sm, pp, wr, br, vm, cleaner, tl>>

\* Every runnable thread is run: the run queues are FIFO and the spinning
\* threads are preempted by the clock, which also brings a CPU in user mode
\* into the kernel; every cleaner runs.  A tick is much longer than the few
\* instructions to the worker's lock or for which a reader holds the clock's
\* lock, so ticks and readers do not always come in the way of these.
WaitingSpec ==
  /\ WaitingInit /\ [][WaitingNext]_allVars
  /\ \A n \in 1..6 : WF_allVars(Step(n))
  /\ \A n \in 1..2 : SF_allVars(BetweenTicks(n))

-----------------------------------------------------------------------------

\* Nothing is left waiting.  Event: process_cleaner has found all the work
\* that was signalled.  Semaphore: the taker is not asleep in sema_wait.
\* Pipe: the calls of vfs_pipe_read and vfs_pipe_write have returned.
\* Condition variable: every cond_wait has returned, if it was signalled.
\* Reader-writer lock: no writer wants or has the lock.  Barrier: everybody
\* is outside.  VM: no block is between vm_free and avail_unmapped.  Tasks:
\* no child is left and no parent waits for one.  IPC: no client waits for an
\* answer, and the system has been told of every stopped process.  Timeouts:
\* nobody sleeps whose time has come.
Served ==
  CASE unit = "event"   -> pending = {}
    [] unit = "sema"    -> ~S!Slept(Taker)
    [] unit = "pipe"    -> P!PipeIdle
    [] unit = "cond"    -> C!cword.locked = 1 => C!AllWoken
    [] unit = "rwlock"  -> R!WritersIdle
    [] unit = "barrier" -> B!AllOut
    [] unit = "vm"      -> V!AllHome
    [] unit = "life"    -> L!LifeSettled
    [] unit = "ipc"     -> I!Settled
    [] unit = "timeout" -> T!NobodyOverdue


\* Semaphore: the count of sema_wait, sema_trywait and sema_post_count is
\* what has been posted less what has been taken, and within max_count.
UnitsConserved == unit = "sema" => S!UnitsConserved

\* Pipe: vfs_pipe_read copies only from the buffer of a writer that is still
\* in vfs_pipe_write, alone, and stays inside it; vfs_pipe_write returns what
\* a reader took of this buffer, and only after one has.
PipeFaithful == unit = "pipe" => P!BufferAlive /\ P!WriteReported

\* Condition variable: cond_wait, which does not loop, never returns before
\* cond_signal.  Timeouts: timeout_wakeup_worker wakes nobody before its time.
NoEarlyReturn == /\ unit = "cond" => C!NoEarlyReturn
                 /\ unit = "timeout" => T!NoEarlyWake

\* Reader-writer lock: a writer is alone, whatever futex_wait swapped in, and
\* none of the "Inconsistent rwlock state" panics is reached.  The clock's
\* lock: clock_advance_ms is alone, and clock_get_ms reads a whole time.
WriterAlone == /\ unit = "rwlock" => R!WriterAlone /\ R!RwConsistent
               /\ unit = "timeout" => T!ClockWhole

\* Barrier: nobody returns from barrier_wait before everybody has entered,
\* and the record on the first thread's stack outlives its users.
BarrierHolds == unit = "barrier" => B!BarrierHolds /\ B!LocalAlive

\* Tasks: task_api_wait reports what the child it waited for has detached or
\* exited with.
StatusReported == unit = "life" => L!StatusReported

\* Tasks: the stages of an exit keep their order, from the task struct to the
\* address space, and reference counts are exact.
StagesInOrder == unit = "life" => L!StagesInOrder /\ L!TaskRefsExact

\* IPC: the thread a waiter expects its answer from exists and will send it
\* there, and every sleeper is on the queue that ipc_respond and the purge of
\* a stopped process search.
IpcLinked == unit = "ipc" => I!Linked /\ I!SleepersQueued

\* IPC: once ipc_notify_system has told the system that a process is stopped,
\* the process has no thread, and gets none.
StoppedIsEmpty == unit = "ipc" => I!StoppedIsEmpty

\* Reader-writer lock: futex_wait waits "without acquiring it", so wait_futex
\* is locked exactly while a writer has it.  (The code swaps an uninitialised
\* word in, and the property fails.)
WaitTakesNothing == unit = "rwlock" => R!WaitTakesNothing
=============================================================================
