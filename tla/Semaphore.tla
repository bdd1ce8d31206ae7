------------------------------ MODULE Semaphore ------------------------------
(***************************************************************************)
(* The libc semaphore (libc/kth/semaphore.c): a futex word whose value is  *)
(* the count.  The operations are given the label they start from (here)   *)
(* and the one they return to (next), so that a client can be written on   *)
(* top of them; Pipe is one.                                               *)
(*                                                                         *)
(* Takers wait for one unit a round, or try to; posters post PostCount     *)
(* units a round.                                                          *)
(***************************************************************************)
EXTENDS WaitQueue

CONSTANTS
  Takers,      \* the threads that wait
  Posters,     \* the threads that post
  TheSema,     \* the futex word of the semaphore
  MaxCount,    \* max_count; 0 for no limit
  PostCount,   \* the count of one post
  Rounds       \* how often each thread calls

VARIABLES
  seen,        \* seen[t]: the word sema_trywait has read
  left,        \* left[t]: rounds t has still to do
  posted,      \* the units the counter has really been raised by
  taken        \* the units taken from it

semVars == <<pc, futex, call, kbit, waitLock, waiting, seen, left, posted,
             taken>>

SetFutex(f, w) == futex' = [futex EXCEPT ![f] = w]

\* The loop of sema_wait_spin: take a unit, or set the kernel bit and wait
\* while the count is 0.  (The spin test is true at the first attempt for
\* every max_spin.)
sema_wait(t, f, here, next) ==
  /\ pc[t] = here
  /\ IF futex[f].locked > 0
     THEN /\ SetFutex(f, Word(futex[f].kernel, futex[f].locked - 1))
          /\ Goto(t, next)
     ELSE /\ SetFutex(f, Word(1, 0))
          /\ EnterKernel(t, "sys_wait", WhenEq(f, 0, here))

\* The count after a post: capped by max_count if there is one.
Capped(n, max) == IF max # 0 /\ n > max THEN max ELSE n

\* The first loop of sema_post_count raises the count.
sema_post_count(t, f, count, max, here, kernel, next) ==
  /\ pc[t] = here
  /\ SetFutex(f, Word(futex[f].kernel, Capped(futex[f].locked + count, max)))
  /\ Goto(t, IF futex[f].kernel = 1 THEN kernel ELSE next)

\* Its second loop clears the kernel bit, unless the units are gone or
\* another thread has cleared it, and wakes the sleepers.
sema_post_kernel(t, f, here, next) ==
  /\ pc[t] = here
  /\ IF futex[f].locked = 0 \/ futex[f].kernel = 0
     THEN /\ UNCHANGED futex
          /\ Goto(t, next)
     ELSE /\ SetFutex(f, Word(0, futex[f].locked))
          /\ EnterKernel(t, "sys_wake", WhenNe(f, 0, next))

sema_trywait_read(t) ==
  /\ pc[t] = "try"
  /\ seen' = [seen EXCEPT ![t] = futex[TheSema]]
  /\ Goto(t, IF futex[TheSema].locked = 0 THEN "idle" ELSE "try_cas")
  /\ UNCHANGED <<futex, left, posted, taken>>

\* Mutant: a plain store instead of the compare-and-swap.
sema_trywait_store(t) ==
  /\ pc[t] = "try_cas"
  /\ SetFutex(TheSema, Word(seen[t].kernel, seen[t].locked - 1))
  /\ taken' = taken + 1
  /\ Goto(t, "idle")
  /\ UNCHANGED <<seen, left, posted>>

sema_trywait_cas(t) ==
  /\ pc[t] = "try_cas"
  /\ IF futex[TheSema] = seen[t]
     THEN /\ SetFutex(TheSema, Word(seen[t].kernel, seen[t].locked - 1))
          /\ taken' = taken + 1
     ELSE UNCHANGED <<futex, taken>>
  /\ Goto(t, "idle")
  /\ UNCHANGED <<seen, left, posted>>

-----------------------------------------------------------------------------

SemInit ==
  /\ WaitInit
  /\ pc = [t \in Threads |-> "idle"]
  /\ seen = [t \in Threads |-> Word(0, 0)]
  /\ left = [t \in Threads |-> Rounds]
  /\ posted = 0
  /\ taken = 0

SemBegin(t) ==
  /\ pc[t] = "idle"
  /\ left[t] > 0
  /\ left' = [left EXCEPT ![t] = @ - 1]
  /\ \/ t \in Takers /\ \E label \in {"wait", "try"} : Goto(t, label)
     \/ t \in Posters /\ Goto(t, "post")
  /\ UNCHANGED <<futex, seen, posted, taken>>

SemWait(t) ==
  /\ sema_wait(t, TheSema, "wait", "idle")
  /\ taken' = IF pc'[t] = "idle" THEN taken + 1 ELSE taken
  /\ UNCHANGED <<seen, left, posted>>

SemPost(t) ==
  /\ sema_post_count(t, TheSema, PostCount, MaxCount, "post", "post_kernel",
                     "idle")
  /\ posted' = posted + (futex'[TheSema].locked - futex[TheSema].locked)
  /\ UNCHANGED <<seen, left, taken>>

SemPostKernel(t) ==
  /\ sema_post_kernel(t, TheSema, "post_kernel", "idle")
  /\ UNCHANGED <<seen, left, posted, taken>>

SemKernel(t) == WaitStep(t) /\ UNCHANGED <<seen, left, posted, taken>>

SemStep(t) ==
  \/ SemBegin(t) \/ SemWait(t)
  \/ sema_trywait_read(t) \/ sema_trywait_cas(t)
  \/ SemPost(t) \/ SemPostKernel(t)
  \/ SemKernel(t)

SemNext == \E t \in Threads : SemStep(t)

SemSpec == SemInit /\ [][SemNext]_semVars

SemFairness == \A t \in Threads : WF_semVars(SemStep(t))

-----------------------------------------------------------------------------

\* No unit is lost or made up: the count is what has been posted less what
\* has been taken, whatever waits, tries and posts interleave, and it never
\* exceeds max_count.
UnitsConserved ==
  /\ futex[TheSema].locked = posted - taken
  /\ MaxCount # 0 => futex[TheSema].locked <= MaxCount

\* A taker sleeps although there are units to take.
Slept(t) == pc[t] = "asleep" /\ futex[TheSema].locked > 0
=============================================================================
