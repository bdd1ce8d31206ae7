------------------------------ MODULE TaskLife ------------------------------
(***************************************************************************)
(* The life of a process, from task_create to the last sfree: the task     *)
(* table of the system process (system/task/task.c, system/api/task.c) and *)
(* the kernel's process table and cleaner threads (kernel/proc/process.c). *)
(*                                                                         *)
(* A child runs one thread, which may detach and then exits, and its       *)
(* parent waits for it.  Each request is handled by a popup thread of the  *)
(* system process; so is the kernel's notice that a process has stopped.   *)
(* Every critical section is one action.  The signal of a task is taken as *)
(* CondVar promises it, the cleanup event as Event does on one CPU.        *)
(***************************************************************************)
EXTENDS Integers, Sequences, FiniteSets

CONSTANTS
  Pids,        \* process structs: a pid is the address of one
  Structs,     \* task structs
  NoPid, NoTask,
  Waiters,     \* popup threads that handle the parent's waits
  MaxCreate,   \* bound: the number of task_create calls
  Prompt       \* popup threads drop their references before the cleanup runs

VARIABLES
  proc,        \* proc[p]: process.state, the threads and the VM blocks of p
  cln,         \* cln[p]: the cleaner thread of p
  list,        \* tasks.first and what follows
  task,        \* task[k]: struct task
  creator,     \* the popup thread that handles task_create
  pop,         \* pop[p]: the popup thread that handles the child's requests
  cup,         \* cup[p]: the popup thread that handles SYS_NOTIF_PROCESS_STOPPED
  wt,          \* wt[w]: a popup thread that handles a wait
  told,        \* told[p]: the statuses p has detached or exited with
  halted       \* "no", or what stopped the system process or the kernel

lifeVars == <<proc, cln, list, task, creator, pop, cup, wt, told, halted>>

NoStatus == "zero"
NoProc == [state |-> "free", threads |-> 0, blocks |-> 0, sig |-> FALSE, ref |-> 0]
FreeTask == [state |-> "free", pid |-> NoPid, status |-> NoStatus, ref |-> 0,
             signalled |-> FALSE]
Idle == [at |-> "idle", k |-> NoTask]

LifeInit ==
  /\ proc = [p \in Pids |-> NoProc]
  /\ cln = [p \in Pids |-> [at |-> "none", stopped |-> FALSE]]
  /\ list = <<>>
  /\ task = [k \in Structs |-> FreeTask]
  /\ creator = [at |-> "idle", pid |-> NoPid, k |-> NoTask, left |-> MaxCreate]
  /\ pop = [p \in Pids |-> Idle]
  /\ cup = [p \in Pids |-> Idle]
  /\ wt = [w \in Waiters |-> [at |-> "idle", k |-> NoTask, pid |-> NoPid,
                              status |-> NoStatus]]
  /\ told = [p \in Pids |-> {}]
  /\ halted = "no"

Up == halted = "no"

-----------------------------------------------------------------------------
\* The task table.

\* acquire_task: the first task of the list with this pid.
Find(p) ==
  LET hits == SelectSeq(list, LAMBDA k : task[k].pid = p)
  IN IF hits = <<>> THEN NoTask ELSE Head(hits)

acquire_task(k) ==
  task' = IF k = NoTask THEN task ELSE [task EXCEPT ![k].ref = @ + 1]

release_task(k) == task' = [task EXCEPT ![k].ref = @ - 1]

\* new_task: the constructor clears the struct, which is put first.
new_task(k) ==
  /\ task[k].state = "free"
  /\ task' = [task EXCEPT ![k] = [FreeTask EXCEPT !.state = "enter"]]
  /\ list' = <<k>> \o list

-----------------------------------------------------------------------------
\* task_create, in a popup thread of the system process.

\* syscall_process_create: create_process, with its cleaner thread.
task_create(p) ==
  /\ Up /\ creator.at = "idle" /\ creator.left > 0
  /\ proc[p].state = "free" /\ cln[p].at = "none"
  /\ proc' = [proc EXCEPT ![p] = [NoProc EXCEPT !.state = "enter", !.blocks = 1, !.ref = 1]]
  /\ cln' = [cln EXCEPT ![p] = [at |-> "wait", stopped |-> FALSE]]
  /\ creator' = [creator EXCEPT !.at = "new", !.pid = p, !.left = @ - 1]
  /\ told' = [told EXCEPT ![p] = {}]
  /\ UNCHANGED <<list, task, pop, cup, wt, halted>>

CreatorTo(at) == creator' = [creator EXCEPT !.at = at]

\* exec_elf cannot load the image: task_exit finds no task yet and does
\* nothing, so the process stays.
CreateBadImage ==
  /\ Up /\ creator.at = "new"
  /\ creator' = [creator EXCEPT !.at = "idle", !.pid = NoPid]
  /\ UNCHANGED <<proc, cln, list, task, pop, cup, wt, told, halted>>

\* exec_elf loads the image; the task is linked before it has its pid,
CreateLink(k) ==
  /\ Up /\ creator.at = "new"
  /\ new_task(k)
  /\ creator' = [creator EXCEPT !.at = "pid", !.k = k]
  /\ UNCHANGED <<proc, cln, pop, cup, wt, told, halted>>

CreateFill ==
  /\ Up /\ creator.at = "pid"
  /\ task' = [task EXCEPT ![creator.k].pid = creator.pid]
  /\ CreatorTo("run")
  /\ UNCHANGED <<proc, cln, list, pop, cup, wt, told, halted>>

CreateRun ==
  /\ Up /\ creator.at = "run"
  /\ task' = [task EXCEPT ![creator.k].state = "run"]
  /\ CreatorTo("start")
  /\ UNCHANGED <<proc, cln, list, pop, cup, wt, told, halted>>

\* syscall_thread_create_cross, and the answer to the parent.
CreateStart ==
  /\ Up /\ creator.at = "start"
  /\ proc' = [proc EXCEPT ![creator.pid].threads = 1]
  /\ creator' = [creator EXCEPT !.at = "idle", !.k = NoTask]
  /\ UNCHANGED <<cln, list, task, pop, cup, wt, told, halted>>

\* The thread cannot be created: the state goes back, and task_exit follows
\* in this popup thread.
CreateFail ==
  /\ Up /\ creator.at = "start"
  /\ LET k == creator.k  p == creator.pid IN
     /\ task' = [task EXCEPT ![k].state = "enter"]
     /\ pop' = [pop EXCEPT ![p] = [at |-> "exit", k |-> NoTask]]
  /\ creator' = [creator EXCEPT !.at = "idle", !.k = NoTask]
  /\ UNCHANGED <<proc, cln, list, cup, wt, told, halted>>

-----------------------------------------------------------------------------
\* The child's requests: task_detach and task_exit.

PopTo(p, at) == pop' = [pop EXCEPT ![p].at = at]

\* The child's thread asks; it waits for the answer, so it has one popup.
ChildAsks(p, what) ==
  /\ Up /\ pop[p].at = "idle"
  /\ proc[p].state = "enter" /\ proc[p].threads = 1
  /\ what = "detach" => told[p] = {}
  /\ PopTo(p, what)
  /\ UNCHANGED <<proc, cln, list, task, creator, cup, wt, told, halted>>

\* access_task at the start of either; without a task nothing is done.
RequestAcquire(p) ==
  /\ Up /\ pop[p].at \in {"detach", "exit"}
  /\ LET k == Find(p) IN
     /\ acquire_task(k)
     /\ pop' = [pop EXCEPT ![p] = [k |-> k, at |->
          IF k = NoTask THEN "idle"
          ELSE IF pop[p].at = "detach" THEN "detach_state" ELSE "exit_state"]]
  /\ UNCHANGED <<proc, cln, list, creator, cup, wt, told, halted>>

\* Under the task's rwlock.
task_detach_state(p) ==
  /\ Up /\ pop[p].at = "detach_state"
  /\ LET k == pop[p].k IN
     IF task[k].state = "run"
     THEN task' = [task EXCEPT ![k].state = "detach"] /\ PopTo(p, "detach_status")
     ELSE UNCHANGED task /\ PopTo(p, "release")
  /\ UNCHANGED <<proc, cln, list, creator, cup, wt, told, halted>>

task_exit_state(p) ==
  /\ Up /\ pop[p].at = "exit_state"
  /\ LET k == pop[p].k IN
     IF task[k].state # "exit"
     THEN task' = [task EXCEPT ![k].state = "exit"] /\ PopTo(p, "exit_status")
     ELSE UNCHANGED task /\ PopTo(p, "release")
  /\ UNCHANGED <<proc, cln, list, creator, cup, wt, told, halted>>

\* Mutant: the signal goes out before the status is stored.
SetStatusLate(p) ==
  /\ Up /\ pop[p].at \in {"detach_status", "exit_status"}
  /\ LET s == IF pop[p].at = "exit_status" THEN "exited" ELSE "detached" IN
     /\ task' = [task EXCEPT ![pop[p].k].signalled = TRUE]
     /\ told' = [told EXCEPT ![p] = @ \cup {s}]
     /\ PopTo(p, IF s = "exited" THEN "exit_signal" ELSE "detach_signal")
  /\ UNCHANGED <<proc, cln, list, creator, cup, wt, halted>>

\* exit_status, outside the lock; a status tells who stored it.
SetStatus(p) ==
  /\ Up /\ pop[p].at \in {"detach_status", "exit_status"}
  /\ LET s == IF pop[p].at = "exit_status" THEN "exited" ELSE "detached" IN
     /\ task' = [task EXCEPT ![pop[p].k].status = s]
     /\ told' = [told EXCEPT ![p] = @ \cup {s}]
     /\ PopTo(p, IF s = "exited" THEN "exit_signal" ELSE "detach_signal")
  /\ UNCHANGED <<proc, cln, list, creator, cup, wt, halted>>

\* cond_signal: everybody who waits, and will wait, goes on.
SignalExit(p) ==
  /\ Up /\ pop[p].at \in {"detach_signal", "exit_signal"}
  /\ task' = [task EXCEPT ![pop[p].k].signalled = TRUE]
  /\ PopTo(p, IF pop[p].at = "exit_signal" THEN "process_exit" ELSE "release")
  /\ UNCHANGED <<proc, cln, list, creator, cup, wt, told, halted>>

\* syscall_process_exit: exit_process sets the state and signals the cleaner.
exit_process(p) ==
  /\ Up /\ pop[p].at = "process_exit"
  /\ proc' = [proc EXCEPT ![p].state = "stopped", ![p].sig = TRUE]
  /\ PopTo(p, "release")
  /\ UNCHANGED <<cln, list, task, creator, cup, wt, told, halted>>

RequestRelease(p) ==
  /\ Up /\ pop[p].at = "release"
  /\ release_task(pop[p].k)
  /\ pop' = [pop EXCEPT ![p] = Idle]
  /\ UNCHANGED <<proc, cln, list, creator, cup, wt, told, halted>>

-----------------------------------------------------------------------------
\* task_api_wait, in a popup thread of the system process.

WaitTo(w, at) == wt' = [wt EXCEPT ![w].at = at]

\* The parent knows a pid once task_create has returned it, and keeps it.
task_api_wait(w, p) ==
  /\ Up /\ wt[w].at = "idle"
  /\ p = creator.pid /\ creator.at = "idle"
  /\ Prompt => cup[p].at \notin {"check", "unlink", "free"}
  /\ LET k == Find(p) IN
     /\ k # NoTask
     /\ acquire_task(k)
     /\ wt' = [wt EXCEPT ![w] = [at |-> "cond", k |-> k, pid |-> p, status |-> NoStatus]]
  /\ UNCHANGED <<proc, cln, list, creator, pop, cup, told, halted>>

\* cond_wait returns, and the status is read.
WaitStatus(w) ==
  /\ Up /\ wt[w].at = "cond" /\ task[wt[w].k].signalled
  /\ wt' = [wt EXCEPT ![w].at = "release", ![w].status = task[wt[w].k].status]
  /\ UNCHANGED <<proc, cln, list, task, creator, pop, cup, told, halted>>

WaitRelease(w) ==
  /\ Up /\ wt[w].at = "release"
  /\ release_task(wt[w].k)
  /\ wt' = [wt EXCEPT ![w] = [at |-> "idle", k |-> NoTask, pid |-> NoPid,
                              status |-> NoStatus]]
  /\ UNCHANGED <<proc, cln, list, creator, pop, cup, told, halted>>

-----------------------------------------------------------------------------
\* process_cleaner, a kernel thread for each process.

Cleaner(p, at) == Up /\ cln[p].at = at
CleanerTo(p, at) == cln' = [cln EXCEPT ![p].at = at]

\* event_wait; the blocks freed so far are taken back.
CleanerWake(p) ==
  /\ Cleaner(p, "wait") /\ proc[p].sig
  /\ proc' = [proc EXCEPT ![p].sig = FALSE]
  /\ CleanerTo(p, "stop")
  /\ UNCHANGED <<list, task, creator, pop, cup, wt, told, halted>>

\* _stop_all_threads: the last thread is gone, or the waiting ones are woken
\* to find that they are to leave.
stop_all_threads(p) ==
  /\ Cleaner(p, "stop")
  /\ IF ~cln[p].stopped /\ proc[p].state = "stopped" /\ proc[p].threads = 0
     THEN cln' = [cln EXCEPT ![p] = [at |-> "notify", stopped |-> TRUE]]
     ELSE CleanerTo(p, "purge")
  /\ UNCHANGED <<proc, list, task, creator, pop, cup, wt, told, halted>>

\* The child's thread ends in dispatch; its block's way back signals the event.
ThreadEnds(p) ==
  /\ Up /\ proc[p].state = "stopped" /\ proc[p].threads = 1
  /\ proc' = [proc EXCEPT ![p].threads = 0, ![p].sig = TRUE]
  /\ UNCHANGED <<cln, list, task, creator, pop, cup, wt, told, halted>>

\* ipc_notify_system: a popup thread for the notice.
CleanerNotify(p) ==
  /\ Cleaner(p, "notify")
  /\ cup' = [cup EXCEPT ![p] = [at |-> "acquire", k |-> NoTask]]
  /\ CleanerTo(p, "purge")
  /\ UNCHANGED <<proc, list, task, creator, pop, wt, told, halted>>

\* Mutant: the address space is given up when the threads have stopped.
free_all_vm_blocks_early(p) ==
  /\ Cleaner(p, "purge")
  /\ IF proc[p].state # "enter" /\ cln[p].stopped
     THEN CleanerTo(p, "destroy") /\ UNCHANGED proc
     ELSE CleanerTo(p, "wait") /\ UNCHANGED proc
  /\ UNCHANGED <<list, task, creator, pop, cup, wt, told, halted>>

\* _free_all_vm_blocks: nothing is left, or vm_purge takes all blocks off
\* inuse_mapped.  Their way back is VmBlocks; its end signals the event.
free_all_vm_blocks(p) ==
  /\ Cleaner(p, "purge")
  /\ IF proc[p].state = "zombie" /\ proc[p].blocks = 0 /\ cln[p].stopped
     THEN CleanerTo(p, "destroy") /\ UNCHANGED proc
     ELSE /\ CleanerTo(p, "wait")
          /\ proc' = IF proc[p].state = "zombie"
                     THEN [proc EXCEPT ![p].blocks = 0, ![p].sig = TRUE]
                     ELSE proc
  /\ UNCHANGED <<list, task, creator, pop, cup, wt, told, halted>>

\* vm_destory, free_addr_space, free_asid, and the process leaves the list.
CleanerDestroy(p) ==
  /\ Cleaner(p, "destroy")
  /\ proc' = [proc EXCEPT ![p].state = "gone"]
  /\ CleanerTo(p, "free")
  /\ UNCHANGED <<list, task, creator, pop, cup, wt, told, halted>>

\* sfree(p), whoever refers to it; the thread ends.
CleanerFree(p) ==
  /\ Cleaner(p, "free")
  /\ Prompt => proc[p].ref = 1
  /\ proc' = [proc EXCEPT ![p] = NoProc]
  /\ cln' = [cln EXCEPT ![p] = [at |-> "none", stopped |-> FALSE]]
  /\ UNCHANGED <<list, task, creator, pop, cup, wt, told, halted>>

-----------------------------------------------------------------------------
\* task_cleanup, in the popup thread of the notice.

CupTo(p, at) == cup' = [cup EXCEPT ![p].at = at]

\* The task is looked up, and the reference dropped at once.
CleanupFind(p) ==
  /\ Up /\ cup[p].at = "acquire"
  /\ cup' = [cup EXCEPT ![p] = [at |-> "check", k |-> Find(p)]]
  /\ UNCHANGED <<proc, cln, list, task, creator, pop, wt, told, halted>>

\* del_task: the panic,
del_task_check(p) ==
  LET k == cup[p].k IN
  /\ Up /\ cup[p].at = "check"
  /\ Prompt /\ k # NoTask => task[k].ref = 0
  /\ halted' = IF k = NoTask THEN "null task"
               ELSE IF task[k].ref # 0 THEN "inconsistent ref count" ELSE "no"
  /\ CupTo(p, "unlink")
  /\ UNCHANGED <<proc, cln, list, task, creator, pop, wt, told>>

\* the list,
del_task_unlink(p) ==
  /\ Up /\ cup[p].at = "unlink"
  /\ list' = SelectSeq(list, LAMBDA k : k # cup[p].k)
  /\ CupTo(p, "free")
  /\ UNCHANGED <<proc, cln, task, creator, pop, wt, told, halted>>

\* sfree.
del_task_free(p) ==
  /\ Up /\ cup[p].at = "free"
  /\ task' = [task EXCEPT ![cup[p].k] = FreeTask]
  /\ cup' = [cup EXCEPT ![p] = [at |-> "recycle", k |-> NoTask]]
  /\ UNCHANGED <<proc, cln, list, creator, pop, wt, told, halted>>

\* syscall_process_recycle: acquire_process, the new state and the event,
recycle_process(p) ==
  /\ Up /\ cup[p].at = "recycle"
  /\ proc' = [proc EXCEPT ![p].state = "zombie", ![p].sig = TRUE, ![p].ref = @ + 1]
  /\ CupTo(p, "release")
  /\ UNCHANGED <<cln, list, task, creator, pop, wt, told, halted>>

\* and release_process.
release_process(p) ==
  /\ Up /\ cup[p].at = "release"
  /\ proc' = [proc EXCEPT ![p].ref = @ - 1]
  /\ cup' = [cup EXCEPT ![p] = Idle]
  /\ UNCHANGED <<cln, list, task, creator, pop, wt, told, halted>>

-----------------------------------------------------------------------------

\* What the program chooses: to start a child, to ask, to wait.
Ask ==
  \/ \E p \in Pids : task_create(p) \/ ChildAsks(p, "detach")
  \/ \E w \in Waiters, p \in Pids : task_api_wait(w, p)

\* A child that runs exits in the end.
ChildStep(p) ==
  \/ ChildAsks(p, "exit")
  \/ RequestAcquire(p) \/ task_detach_state(p) \/ task_exit_state(p)
  \/ SetStatus(p) \/ SignalExit(p) \/ exit_process(p) \/ RequestRelease(p)

CleanerStep(p) ==
  \/ CleanerWake(p) \/ stop_all_threads(p) \/ ThreadEnds(p) \/ CleanerNotify(p)
  \/ free_all_vm_blocks(p) \/ CleanerDestroy(p) \/ CleanerFree(p)

CleanupStep(p) ==
  \/ CleanupFind(p) \/ del_task_check(p) \/ del_task_unlink(p) \/ del_task_free(p)
  \/ recycle_process(p) \/ release_process(p)

ParentStep ==
  \/ \E k \in Structs : CreateLink(k)
  \/ CreateBadImage \/ CreateFill \/ CreateRun \/ CreateStart \/ CreateFail

WaiterStep(w) == WaitStatus(w) \/ WaitRelease(w)

LifeNext ==
  \/ Ask \/ ParentStep
  \/ \E p \in Pids : ChildStep(p) \/ CleanerStep(p) \/ CleanupStep(p)
  \/ \E w \in Waiters : WaiterStep(w)

LifeSpec == LifeInit /\ [][LifeNext]_lifeVars

-----------------------------------------------------------------------------

Holders(k) ==
  {<<"pop", p>> : p \in {q \in Pids : pop[q].k = k}} \cup
  {<<"wt", w>> : w \in {v \in Waiters : wt[v].k = k}}

\* A task's ref_count is the number of popup threads inside access_task, and
\* none of them is left with a task that was freed.
TaskRefsExact ==
  Up => \A k \in Structs :
          /\ task[k].ref = Cardinality(Holders(k))
          /\ Holders(k) # {} => task[k].state # "free"

\* A wait reports a status that the child it waited for has detached or
\* exited with, never the zero of a new task, nor a later child's.
StatusReported ==
  \A w \in Waiters :
    wt[w].at = "release" /\ Up => wt[w].status \in told[wt[w].pid]

\* The stages of an exit keep their order: the task is gone before the kernel
\* is told to recycle, a thread of the process is never left in an address
\* space that is given up, and neither is a VM block.
StagesInOrder ==
  Up => \A p \in Pids :
          /\ proc[p].state \in {"zombie", "gone", "free"} => Find(p) = NoTask
          /\ proc[p].state \in {"gone", "free"} => proc[p].threads = 0 /\ proc[p].blocks = 0

\* del_task's check never fails: a task is deleted when nobody uses it.  (It
\* fails: nothing makes the deletion wait.)
NoRefPanic == halted = "no"

\* Every child that got as far as its task is gone, and nobody waits for it.
LifeSettled ==
  /\ \A p \in Pids : proc[p].state = "enter" => Find(p) = NoTask
  /\ \A p \in Pids : proc[p].state \in {"enter", "free"}
  /\ \A w \in Waiters : wt[w].at = "idle"
=============================================================================
