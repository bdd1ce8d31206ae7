------------------------------- MODULE CondVar -------------------------------
(***************************************************************************)
(* The libc condition variable (libc/kth/condvar.c), as the task manager   *)
(* uses it for the exit of a task: a one-shot event that stays signalled.  *)
(***************************************************************************)
EXTENDS WaitQueue

CONSTANTS
  CondWaiters,    \* the threads that call cond_wait
  CondSignallers, \* the threads that call cond_signal
  TheCond         \* the futex word of the condition variable

VARIABLES
  calls        \* calls[t]: the calls t has still to make

condVars == <<pc, futex, call, kbit, waitLock, waiting, calls>>

cword == futex[TheCond]

SetCond(w) == futex' = [futex EXCEPT ![TheCond] = w]

CondInit ==
  /\ WaitInit
  /\ pc = [t \in Threads |-> "idle"]
  /\ calls = [t \in Threads |-> 1]

CondBegin(t) ==
  /\ pc[t] = "idle"
  /\ calls[t] > 0
  /\ calls' = [calls EXCEPT ![t] = @ - 1]
  /\ Goto(t, IF t \in CondWaiters THEN "cond_wait" ELSE "cond_signal")
  /\ UNCHANGED futex

\* Mutant: the wait call does not name a value to wait for.
cond_wait_any(t) ==
  /\ pc[t] = "cond_wait"
  /\ IF cword.locked # 0
     THEN UNCHANGED futex /\ Goto(t, "woken")
     ELSE /\ SetCond(Word(1, 0))
          /\ EnterKernel(t, "sys_wait", WhenEq(TheCond, 1, "woken"))
  /\ UNCHANGED calls

\* cond_wait_spin: return if it is signalled, in the spin loop or in the
\* compare-and-swap loop; else set the kernel bit and wait, once.
cond_wait(t) ==
  /\ pc[t] = "cond_wait"
  /\ IF cword.locked # 0
     THEN UNCHANGED futex /\ Goto(t, "woken")
     ELSE /\ SetCond(Word(1, 0))
          /\ EnterKernel(t, "sys_wait", WhenEq(TheCond, 0, "woken"))
  /\ UNCHANGED calls

cond_signal(t) ==
  /\ pc[t] = "cond_signal"
  /\ SetCond(Word(cword.kernel, 1))
  /\ Goto(t, IF cword.kernel = 1 THEN "signal_kernel" ELSE "done")
  /\ UNCHANGED calls

cond_signal_kernel(t) ==
  /\ pc[t] = "signal_kernel"
  /\ IF cword.kernel = 0
     THEN UNCHANGED futex /\ Goto(t, "done")
     ELSE /\ SetCond(Word(0, cword.locked))
          /\ EnterKernel(t, "sys_wake", WhenEq(TheCond, 1, "done"))
  /\ UNCHANGED calls

CondKernel(t) == WaitStep(t) /\ UNCHANGED calls

CondStep(t) ==
  \/ CondBegin(t) \/ cond_wait(t)
  \/ cond_signal(t) \/ cond_signal_kernel(t)
  \/ CondKernel(t)

CondNext == \E t \in Threads : CondStep(t)

CondSpec == CondInit /\ [][CondNext]_condVars

CondFairness == \A t \in Threads : WF_condVars(CondStep(t))

-----------------------------------------------------------------------------

\* cond_wait has no loop around its wait call, so it must not return before
\* the signal: neither the kernel's refusal to sleep nor a wake-up happens
\* while the word still says "not signalled".
NoEarlyReturn == \A t \in CondWaiters : pc[t] = "woken" => cword.locked = 1

\* Every waiter is back from cond_wait.
AllWoken == \A t \in CondWaiters : pc[t] = "woken"
=============================================================================
