------------------------------ MODULE Threads -------------------------------
(***************************************************************************)
(* Thread structs: their creation, their reference counts, the legal       *)
(* changes of state, the way through dispatch() and the exit               *)
(* (kernel/proc/thread.c, kernel/syscall/dispatch.c).                      *)
(*                                                                         *)
(* A runnable thread may run at once: the run queue is left out, so every  *)
(* interleaving of as many CPUs as threads is a behaviour.  A panic stops  *)
(* the kernel: panicked names the failed check.                            *)
(***************************************************************************)
EXTENDS Integers, FiniteSets, Sequences

CONSTANTS
  Threads,     \* the thread structs salloc can hand out
  NoThread,
  Procs,
  NoProc

ASSUME ThreadsAssumption ==
  NoThread \notin Threads /\ NoProc \notin Procs /\ IsFiniteSet(Threads)

VARIABLES
  pc,          \* pc[t]: "user", "asleep", or a place in the kernel
  tstate,      \* tstate[t]: thread.state
  pid,         \* pid[t]: thread.pid
  ref,         \* ref[t]: thread.ref_count
  listed,      \* the global thread list; a process's list is its part of it
  pstate,      \* pstate[p]: process.state
  panicked     \* "none", or the check that failed

threadVars == <<pc, tstate, pid, ref, listed, pstate, panicked>>

ThreadStates == {"free", "enter", "normal", "wait", "exit"}

ThreadsOf(p) == {t \in listed : pid[t] = p}

Running == panicked = "none"

Add(f, t, k) == [f EXCEPT ![t] = @ + k]

\* The threads of home run in user mode; the other structs are free.
ThreadsInit(home) ==
  /\ pc = [t \in Threads |-> IF home[t] = NoProc THEN "none" ELSE "user"]
  /\ tstate = [t \in Threads |-> IF home[t] = NoProc THEN "free" ELSE "normal"]
  /\ pid = home
  /\ ref = [t \in Threads |-> IF home[t] = NoProc THEN 0 ELSE 2]
  /\ listed = {t \in Threads : home[t] # NoProc}
  /\ pstate = [p \in Procs |-> "enter"]
  /\ panicked = "none"

\* The transitions set_thread_state lets through.
Allowed(old, new) ==
  \/ new = "normal" /\ old \in {"enter", "wait"}
  \/ new = "wait" /\ old = "normal"
  \/ new = "exit" /\ old \in {"normal", "wait"}

set_thread_state(ts, new) ==
  /\ tstate' = [t \in Threads |-> IF t \in ts THEN new ELSE tstate[t]]
  /\ panicked' = IF \A t \in ts : Allowed(tstate[t], new) THEN "none" ELSE "state"

\* create_and_run_thread: salloc, ref_count 1, the lists, then run_thread,
\* which adds a reference.  The caller sets pc[n] and ref[n].
create_and_run_thread(n, p) ==
  /\ tstate[n] = "free"
  /\ tstate' = [tstate EXCEPT ![n] = "normal"]
  /\ pid' = [pid EXCEPT ![n] = p]
  /\ listed' = listed \cup {n}
  /\ UNCHANGED <<pstate, panicked>>

\* The references of a thread nobody else refers to: its creation and its run.
NewRef == 2

\* dispatch() of a thread of a process that is not stopped: access_thread
\* takes a reference and the handler follows.
Dispatch(t, handler) ==
  /\ pc[t] = "user"
  /\ pstate[pid[t]] # "stopped"
  /\ pc' = [pc EXCEPT ![t] = handler]
  /\ ref' = Add(ref, t, 1)
  /\ UNCHANGED <<tstate, pid, listed, pstate, panicked>>

\* dispatch() of a thread whose process is stopped, on any system call or
\* interrupt: the reference is released again, the run's is dropped.
DispatchStopped(t) ==
  /\ pc[t] = "user"
  /\ pstate[pid[t]] = "stopped"
  /\ set_thread_state({t}, "exit")
  /\ pc' = [pc EXCEPT ![t] = "exit"]
  /\ ref' = Add(ref, t, -1)
  /\ UNCHANGED <<pid, listed, pstate>>

\* SYSCALL_THREAD_EXIT: its handler does nothing, dispatch() does the rest.
ThreadExit(t) ==
  /\ pc[t] = "user"
  /\ pstate[pid[t]] # "stopped"
  /\ pc' = [pc EXCEPT ![t] = "exit"]
  /\ ref' = Add(ref, t, -1)
  /\ UNCHANGED <<tstate, pid, listed, pstate, panicked>>

\* exit_thread, to the end of the critical section that unlinks the thread.
exit_thread_unlink(t) ==
  /\ pc[t] = "exit"
  /\ listed' = listed \ {t}
  /\ pc' = [pc EXCEPT ![t] = "reap"]
  /\ UNCHANGED <<tstate, pid, ref, pstate, panicked>>

\* The rest of exit_thread: the last reference, the check, sfree.
exit_thread_reap(t) ==
  /\ pc[t] = "reap"
  /\ ref' = Add(ref, t, -1)
  /\ panicked' = IF ref[t] = 1 THEN "none" ELSE "ref"
  /\ tstate' = [tstate EXCEPT ![t] = "free"]
  /\ pc' = [pc EXCEPT ![t] = "none"]
  /\ UNCHANGED <<pid, listed, pstate>>

\* exit_process, less the event.
exit_process(p) ==
  pstate' = [pstate EXCEPT ![p] = "stopped"]
=============================================================================
