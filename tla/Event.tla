-------------------------------- MODULE Event --------------------------------
(***************************************************************************)
(* The kernel's wait event (kernel/proc/event.c), a futex the kernel uses  *)
(* itself.  Its one client is the cleaner thread of a process, which loops *)
(* on event_wait and then does whatever work it finds; every CPU that      *)
(* leaves work for the cleaner calls event_signal afterwards.              *)
(*                                                                         *)
(* locked means "signalled".  The event counts nothing: several signals    *)
(* before one event_wait are one, which is why the ghost variable pending  *)
(* records whose work the waiter has not looked at yet.                    *)
(***************************************************************************)
EXTENDS WaitQueue

CONSTANTS
  TheEvent,    \* the futex word of the event
  Waiter,      \* the cleaner thread
  Signals,     \* how often each of the other threads signals
  OneCpu       \* hal_get_num_cpus() is 1

VARIABLES
  pending,     \* signallers whose work the waiter has still to find
  left         \* left[t]: signals t has still to send

vars == <<pc, futex, call, kbit, waitLock, waiting, pending, left>>

Signallers == Threads \ {Waiter}

word == futex[TheEvent]

SetWord(w) == futex' = [futex EXCEPT ![TheEvent] = w]

\* event_init, and a waiter that has just been created.
Init ==
  /\ WaitInit
  /\ pc = [t \in Threads |-> IF t = Waiter THEN "wait" ELSE "idle"]
  /\ pending = {}
  /\ left = [t \in Signallers |-> Signals]

\* The spin loop of _wait_for_signal, with max_spin = 0: one look.
wait_spin ==
  /\ pc[Waiter] = "wait"
  /\ Goto(Waiter, IF word.locked # 0 THEN "reset" ELSE "wait_cas")
  /\ UNCHANGED <<futex, pending, left>>

\* Its compare-and-swap loop: announce a sleeper unless signalled meanwhile.
wait_for_signal ==
  /\ pc[Waiter] = "wait_cas"
  /\ IF word.locked # 0
     THEN /\ Goto(Waiter, "reset")
          /\ UNCHANGED futex
     ELSE /\ SetWord(Word(1, word.locked))
          /\ EnterKernel(Waiter, "sys_wait", WhenEq(TheEvent, 0, "reset"))
  /\ UNCHANGED <<pending, left>>

reset_signal ==
  /\ pc[Waiter] = "reset"
  /\ SetWord(Word(word.kernel, 0))
  /\ Goto(Waiter, "work")
  /\ UNCHANGED <<pending, left>>

\* The waiter finds everything left for it so far, and waits again.
Work ==
  /\ pc[Waiter] = "work"
  /\ pending' = {}
  /\ Goto(Waiter, "wait")
  /\ UNCHANGED <<futex, left>>

\* A signaller leaves work and calls event_signal.
LeaveWork(t) ==
  /\ pc[t] = "idle"
  /\ left[t] > 0
  /\ left' = [left EXCEPT ![t] = @ - 1]
  /\ pending' = pending \cup {t}
  /\ Goto(t, "signal")
  /\ UNCHANGED futex

\* The first loop sets locked.
event_signal(t) ==
  /\ pc[t] = "signal"
  /\ SetWord(Word(word.kernel, 1))
  /\ Goto(t, IF word.kernel = 1 THEN "signal_kernel" ELSE "idle")
  /\ UNCHANGED <<pending, left>>

\* The second loop clears the kernel bit, if nobody else has, and then wakes
\* the waiter provided locked is still 1.
event_signal_kernel(t) ==
  /\ pc[t] = "signal_kernel"
  /\ IF word.kernel = 0
     THEN /\ Goto(t, "idle")
          /\ UNCHANGED futex
     ELSE /\ SetWord(Word(0, word.locked))
          /\ EnterKernel(t, "sys_wake", WhenEq(TheEvent, 1, "idle"))
  /\ UNCHANGED <<pending, left>>

Kernel(t) == WaitStep(t) /\ UNCHANGED <<pending, left>>

\* On a single CPU the kernel is entered with interrupts off, so a thread in
\* event_signal, or between the check and the sleep of a system call, is not
\* interleaved with any other.
Runs(t) ==
  OneCpu =>
    \A u \in Threads \ {t} :
      /\ pc[u] \notin {"signal", "signal_kernel", "wait_locked", "wake_locked"}
      /\ pc[u] # "sys_wake"

WaiterStep ==
  /\ Runs(Waiter)
  /\ wait_spin \/ wait_for_signal \/ reset_signal \/ Work \/ Kernel(Waiter)

SignallerStep(t) ==
  /\ Runs(t)
  /\ LeaveWork(t) \/ event_signal(t) \/ event_signal_kernel(t) \/ Kernel(t)

\* Nothing more will be signalled, and the waiter sleeps.
Quiet ==
  /\ pc[Waiter] = "asleep"
  /\ \A t \in Signallers : pc[t] = "idle" /\ left[t] = 0
  /\ UNCHANGED vars

Next == WaiterStep \/ (\E t \in Signallers : SignallerStep(t)) \/ Quiet

Spec == Init /\ [][Next]_vars

\* Every runnable thread runs; a signal in progress is completed.
FairSpec ==
  /\ Spec
  /\ WF_vars(WaiterStep)
  /\ \A t \in Signallers : WF_vars(SignallerStep(t))

-----------------------------------------------------------------------------

\* A signaller whose call is still going to reach the waiter.
Signalling ==
  \E t \in Signallers :
    pc[t] \in {"signal", "signal_kernel", "sys_wake", "wake_locked"}

\* Work that was signalled is done: process_cleaner waits "for next cleanup
\* event" and then finds it.
SignalsServed == \A t \in Signallers : t \in pending ~> t \notin pending
=============================================================================
