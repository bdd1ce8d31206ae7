------------------------------ MODULE WaitQueue ------------------------------
(***************************************************************************)
(* The kernel's wait queue as its futex clients see it: the two system     *)
(* calls wait_on_object(WAIT_ON_FUTEX) and wake_on_object(WAIT_ON_FUTEX)   *)
(* of kernel/proc/wait.c, entered through syscall_handler_wait and         *)
(* syscall_handler_wake.                                                   *)
(*                                                                         *)
(* A futex word has a kernel bit ("somebody may be asleep") and a value    *)
(* called locked.  User code changes the word with compare-and-swap; the   *)
(* kernel only reads it, with two separate loads (one for the kernel bit,  *)
(* one for locked), and may see a compare-and-swap happen between them.    *)
(* The queue's spinlock is held from the check of the word until the       *)
(* thread is on the queue: wait_on_object returns with the lock held and   *)
(* sleep_thread, called at the end of dispatch, releases it.               *)
(*                                                                         *)
(* A thread is a program counter.  A client moves pc[t] to "sys_wait" or   *)
(* "sys_wake" with the arguments in call[t]; the call resumes the client   *)
(* at call[t].ret.  All threads belong to one process.                     *)
(***************************************************************************)
EXTENDS Integers, FiniteSets

CONSTANTS
  Threads,     \* the threads of the process
  Futexes,     \* the futex words they share
  NoThread     \* "the wait queue's lock is free"

ASSUME ThreadsAssumption == NoThread \notin Threads

VARIABLES
  pc,          \* pc[t]: where t is, in the client or in a system call
  futex,       \* futex[f]: the word, [kernel, locked]
  call,        \* call[t]: the arguments of t's wait or wake
  kbit,        \* kbit[t]: the kernel bit t's system call has loaded
  waitLock,    \* holder of wait_queue.lock
  waiting      \* the threads on wait_queue

waitVars == <<call, kbit, waitLock, waiting>>

FutexWord == [kernel : {0, 1}, locked : Nat]

Word(k, l) == [kernel |-> k, locked |-> l]

\* Where the clients of this module resume after a system call.
ResumeLabels == {"none", "idle", "lock", "reset"}

\* FUTEX_WHEN_EQ and FUTEX_WHEN_NE with a value, and the client label the
\* call resumes at.
Calls == [obj : Futexes, op : {"eq", "ne"}, val : Nat, ret : ResumeLabels]

WhenEq(f, v, r) == [obj |-> f, op |-> "eq", val |-> v, ret |-> r]
WhenNe(f, v, r) == [obj |-> f, op |-> "ne", val |-> v, ret |-> r]

\* The condition on the value both calls test.
When(c, locked) == IF c.op = "ne" THEN locked # c.val ELSE locked = c.val

WaitInit ==
  /\ futex    = [f \in Futexes |-> Word(0, 0)]
  /\ call     = [t \in Threads |->
                   WhenEq(CHOOSE f \in Futexes : TRUE, 0, "none")]
  /\ kbit     = [t \in Threads |-> 0]
  /\ waitLock = NoThread
  /\ waiting  = {}

\* Enter the kernel to wait or to wake: take the queue's lock and load the
\* kernel bit of the word.
EnterLocked(t, from, to) ==
  /\ pc[t] = from
  /\ waitLock = NoThread
  /\ waitLock' = t
  /\ kbit' = [kbit EXCEPT ![t] = futex[call[t].obj].kernel]
  /\ pc' = [pc EXCEPT ![t] = to]
  /\ UNCHANGED <<futex, call, waiting>>

WaitEnter(t) == EnterLocked(t, "sys_wait", "wait_locked")

WakeEnter(t) == EnterLocked(t, "sys_wake", "wake_locked")

\* The sleep condition: the kernel bit is set and the value is as asked.
DoWait(t) ==
  /\ kbit[t] = 1
  /\ When(call[t], futex[call[t].obj].locked)

\* Mutant: the lock is released before the thread is on the queue, and the
\* insertion is lost to a concurrent one.
WaitDecideUnlocked(t) ==
  /\ pc[t] = "wait_locked"
  /\ pc' = [pc EXCEPT ![t] = IF DoWait(t) THEN "asleep" ELSE call[t].ret]
  /\ waitLock' = NoThread
  /\ UNCHANGED <<futex, call, kbit, waiting>>

\* wait_on_object loads the value and decides; sleep_thread queues the
\* thread and releases the lock, or the call returns at once.
WaitDecide(t) ==
  /\ pc[t] = "wait_locked"
  /\ IF DoWait(t)
     THEN /\ waiting' = waiting \cup {t}
          /\ pc' = [pc EXCEPT ![t] = "asleep"]
     ELSE /\ pc' = [pc EXCEPT ![t] = call[t].ret]
          /\ UNCHANGED waiting
  /\ waitLock' = NoThread
  /\ UNCHANGED <<futex, call, kbit>>

\* The threads the queue holds for an object.
Sleepers(obj) == {u \in waiting : call[u].obj = obj}

\* Mutant: the wake asks for the kernel bit to be set, as the wait does.
DoWakeupBitSet(t) ==
  /\ kbit[t] = 1
  /\ When(call[t], futex[call[t].obj].locked)

DoWakeup(t) ==
  /\ kbit[t] = 0
  /\ When(call[t], futex[call[t].obj].locked)

\* wake_on_object wakes every thread waiting for the object (the callers
\* pass no maximum), or none if the word is not as asked.
WakeDecide(t) ==
  LET woken == IF DoWakeup(t) THEN Sleepers(call[t].obj) ELSE {} IN
  /\ pc[t] = "wake_locked"
  /\ waiting' = waiting \ woken
  /\ pc' = [u \in Threads |->
              IF u = t \/ u \in woken THEN call[u].ret ELSE pc[u]]
  /\ waitLock' = NoThread
  /\ UNCHANGED <<futex, call, kbit>>

WaitStep(t) ==
  WaitEnter(t) \/ WaitDecide(t) \/ WakeEnter(t) \/ WakeDecide(t)

\* For clients: enter a system call, or move on inside the client.
EnterKernel(t, label, c) ==
  /\ pc' = [pc EXCEPT ![t] = label]
  /\ call' = [call EXCEPT ![t] = c]
  /\ UNCHANGED <<kbit, waitLock, waiting>>

Goto(t, label) ==
  /\ pc' = [pc EXCEPT ![t] = label]
  /\ UNCHANGED waitVars

WaitLabels == {"sys_wait", "wait_locked", "asleep", "sys_wake", "wake_locked"}

\* The queue's own types, used by the type invariants of the clients.
WaitTypeOK ==
  /\ futex \in [Futexes -> FutexWord]
  /\ call \in [Threads -> Calls]
  /\ kbit \in [Threads -> {0, 1}]
  /\ waitLock \in Threads \cup {NoThread}
  /\ waiting \subseteq Threads

\* The queue holds exactly the sleeping threads, and its lock is held by
\* exactly the thread between the check and the sleep or wake: the hand-over
\* of wait_queue.lock from wait_on_object to sleep_thread loses nobody.
QueueExact ==
  /\ waiting = {t \in Threads : pc[t] = "asleep"}
  /\ \A t \in Threads :
       pc[t] \in {"wait_locked", "wake_locked"} <=> waitLock = t
=============================================================================
