------------------------------ MODULE FutexLock ------------------------------
(***************************************************************************)
(* The libc futex lock (libc/sys/futex.c), which is also the mutex of      *)
(* libc/kth/mutex.c.  Each thread takes and releases one lock Loops times, *)
(* as the workers of system/test/thread.c do.                              *)
(*                                                                         *)
(* A compare-and-swap loop is one action: the code retries until the word  *)
(* it read is the word it replaces.  futex_trylock, which tries once, is   *)
(* two actions.                                                            *)
(***************************************************************************)
EXTENDS WaitQueue, TLAPS

CONSTANTS
  TheLock,     \* the futex word of the lock
  Spin,        \* the spin argument of futex_lock
  Loops        \* how often each thread takes the lock

ASSUME FutexLockAssumption ==
  /\ Futexes = {TheLock}
  /\ Spin \in Int
  /\ Loops \in Nat

VARIABLES
  seen,        \* seen[t]: the word futex_trylock has read
  left         \* left[t]: rounds t has still to do

vars == <<pc, futex, call, kbit, waitLock, waiting, seen, left>>

word == futex[TheLock]

SetWord(w) == futex' = [futex EXCEPT ![TheLock] = w]

Init ==
  /\ WaitInit
  /\ pc = [t \in Threads |-> "idle"]
  /\ seen = [t \in Threads |-> Word(0, 0)]
  /\ left = [t \in Threads |-> Loops]

\* The thread calls futex_lock or futex_trylock.
Begin(t) ==
  /\ pc[t] = "idle"
  /\ left[t] > 0
  /\ left' = [left EXCEPT ![t] = @ - 1]
  /\ \E label \in {"lock", "trylock"} : Goto(t, label)
  /\ UNCHANGED <<futex, seen>>

\* Whether futex_lock stops spinning and asks the kernel to wait:
\* spin >= 0 || ++num_spins > spin, with num_spins = 0 at the first attempt.
AskKernel == Spin >= 0 \/ 1 > Spin

futex_lock(t) ==
  /\ pc[t] = "lock"
  /\ \/ /\ word.locked = 0
        /\ SetWord(Word(word.kernel, 1))
        /\ Goto(t, "cs")
     \/ /\ word.locked # 0
        /\ LET new == Word(IF AskKernel THEN 1 ELSE word.kernel, word.locked) IN
           /\ SetWord(new)
           /\ IF new.kernel = 1
              THEN EnterKernel(t, "sys_wait", WhenEq(TheLock, 1, "lock"))
              ELSE Goto(t, "lock")
  /\ UNCHANGED <<seen, left>>

futex_trylock_read(t) ==
  /\ pc[t] = "trylock"
  /\ seen' = [seen EXCEPT ![t] = word]
  /\ Goto(t, IF word.locked # 0 THEN "idle" ELSE "trylock_cas")
  /\ UNCHANGED <<futex, left>>

\* Mutant: a plain store instead of the compare-and-swap.
futex_trylock_store(t) ==
  /\ pc[t] = "trylock_cas"
  /\ SetWord(Word(seen[t].kernel, 1))
  /\ Goto(t, "cs")
  /\ UNCHANGED <<seen, left>>

futex_trylock_cas(t) ==
  /\ pc[t] = "trylock_cas"
  /\ IF word = seen[t]
     THEN /\ SetWord(Word(seen[t].kernel, 1))
          /\ Goto(t, "cs")
     ELSE /\ Goto(t, "idle")
          /\ UNCHANGED futex
  /\ UNCHANGED <<seen, left>>

\* The critical section ends and futex_unlock is called.
Leave(t) ==
  /\ pc[t] = "cs"
  /\ Goto(t, "unlock")
  /\ UNCHANGED <<futex, seen, left>>

\* The first loop of futex_unlock clears locked.
futex_unlock(t) ==
  /\ pc[t] = "unlock"
  /\ IF word.locked = 0
     THEN /\ Goto(t, "idle")
          /\ UNCHANGED futex
     ELSE /\ SetWord(Word(word.kernel, 0))
          /\ Goto(t, IF word.kernel = 1 THEN "unlock_kernel" ELSE "idle")
  /\ UNCHANGED <<seen, left>>

\* Mutant: the kernel bit is cleared and the wake call forgotten.
futex_unlock_nowake(t) ==
  /\ pc[t] = "unlock_kernel"
  /\ SetWord(Word(0, word.locked))
  /\ Goto(t, "idle")
  /\ UNCHANGED <<seen, left>>

\* Its second loop clears the kernel bit and then makes the wake call,
\* unless somebody has the lock again or has cleared the bit.
futex_unlock_kernel(t) ==
  /\ pc[t] = "unlock_kernel"
  /\ IF word.locked # 0 \/ word.kernel = 0
     THEN /\ Goto(t, "idle")
          /\ UNCHANGED futex
     ELSE /\ SetWord(Word(0, word.locked))
          /\ EnterKernel(t, "sys_wake", WhenEq(TheLock, 0, "idle"))
  /\ UNCHANGED <<seen, left>>

Kernel(t) == WaitStep(t) /\ UNCHANGED <<seen, left>>

Step(t) ==
  \/ Begin(t)
  \/ futex_lock(t)
  \/ futex_trylock_read(t)
  \/ futex_trylock_cas(t)
  \/ Leave(t)
  \/ futex_unlock(t)
  \/ futex_unlock_kernel(t)
  \/ Kernel(t)

\* All the work is done.
Done ==
  /\ \A t \in Threads : pc[t] = "idle" /\ left[t] = 0
  /\ UNCHANGED vars

Next == (\E t \in Threads : Step(t)) \/ Done

Spec == Init /\ [][Next]_vars

\* A runnable thread is eventually run: the scheduler's queues are FIFO and
\* a thread that is not on the wait queue is on a run queue or on a CPU.
FairSpec == Spec /\ \A t \in Threads : WF_vars(Step(t))

-----------------------------------------------------------------------------

InCS == {t \in Threads : pc[t] \in {"cs", "unlock"}}

TypeOK ==
  /\ WaitTypeOK
  /\ pc \in [Threads -> {"idle", "lock", "trylock", "trylock_cas", "cs",
                         "unlock", "unlock_kernel"} \cup WaitLabels]
  /\ seen \in [Threads -> FutexWord]
  /\ left \in [Threads -> 0..Loops]

\* futex_lock and futex_trylock give the lock to one thread at a time, and
\* the word says locked exactly while one of them has it.
MutualExclusion ==
  /\ \A t, u \in InCS : t = u
  /\ word.locked = (IF InCS = {} THEN 0 ELSE 1)

\* With two threads no sleeper is forgotten: while a thread sleeps on the
\* lock, either the kernel bit still says so, and the next futex_unlock will
\* see it, or an unlocking thread is on its way to wake it.
NoSleeperForgotten ==
  waiting # {} =>
    \/ word.kernel = 1
    \/ \E t \in Threads : pc[t] \in {"sys_wake", "wake_locked"}

\* Every worker gets through its rounds, as test_futex assumes when it joins
\* all of them before it compares the counter.
AllFinish == <>(\A t \in Threads : pc[t] = "idle" /\ left[t] = 0)

-----------------------------------------------------------------------------
\* Proofs, for any set of threads, any spin argument and any number of rounds.

\* What a thread in a system call resumes at, and what futex_trylock has
\* read when it reaches its compare-and-swap.  Mutual exclusion is not
\* inductive without these: a woken thread goes where call[t].ret says, and
\* the compare-and-swap succeeds only on the unlocked word it has read.
ResumeOK ==
  \A t \in Threads :
    /\ pc[t] \in {"sys_wait", "wait_locked", "asleep"} => call[t].ret = "lock"
    /\ pc[t] \in {"sys_wake", "wake_locked"} => call[t].ret = "idle"
    /\ pc[t] = "trylock_cas" => seen[t].locked = 0

\* The inductive invariant.
IInv == TypeOK /\ ResumeOK /\ QueueExact /\ MutualExclusion

\* A futex word has its type, so that the steps below need not expand the
\* record.
LEMMA WordType ==
  ASSUME NEW k \in {0, 1}, NEW l \in Nat
  PROVE  Word(k, l) \in FutexWord
  BY DEF Word, FutexWord

\* The fields of a futex word.
LEMMA WordFields ==
  ASSUME NEW w \in FutexWord
  PROVE  w.kernel \in {0, 1} /\ w.locked \in Nat
  BY DEF FutexWord

\* Every initial state satisfies the invariant.
LEMMA InitIInv == Init => IInv
<1> SUFFICES ASSUME Init PROVE IInv
  OBVIOUS
<1> USE ThreadsAssumption, FutexLockAssumption
<1>1. TypeOK
  <2>1. Word(0, 0) \in FutexWord
    BY WordType
  <2>2. WhenEq(CHOOSE f \in Futexes : TRUE, 0, "none") \in Calls
    <3> DEFINE f0 == CHOOSE f \in Futexes : TRUE
    <3>1. \E f \in Futexes : TRUE
      OBVIOUS
    <3>2. f0 \in Futexes
      BY <3>1, Zenon
    <3> HIDE DEF f0
    <3>3. WhenEq(f0, 0, "none") \in Calls
      BY <3>2 DEF WhenEq, Calls, ResumeLabels
    <3> QED
      BY <3>3 DEF f0
  <2> QED
    BY <2>1, <2>2 DEF Init, WaitInit, TypeOK, WaitTypeOK, WaitLabels
<1>2. ResumeOK /\ QueueExact
  BY DEF Init, WaitInit, Word, ResumeOK, QueueExact
<1>3. MutualExclusion
  BY DEF Init, WaitInit, Word, MutualExclusion, InCS, word
<1> QED
  BY <1>1, <1>2, <1>3 DEF IInv

\* Every step of every thread preserves it.
LEMMA StepIInv ==
  ASSUME IInv, NEW t \in Threads, Step(t)
  PROVE  IInv'
<1> USE ThreadsAssumption, FutexLockAssumption
<1> USE DEF IInv
<1>a. /\ word \in FutexWord
      /\ word.kernel \in {0, 1}
      /\ word.locked \in Nat
      /\ seen[t].kernel \in {0, 1}
  BY WordFields DEF TypeOK, WaitTypeOK, word
<1>b. /\ WhenEq(TheLock, 1, "lock") \in Calls
      /\ WhenEq(TheLock, 0, "idle") \in Calls
  BY DEF WhenEq, Calls, ResumeLabels
<1>1. CASE Begin(t)
  <2>1. TypeOK'
    BY <1>1, <1>a, <1>b, WordType DEF Begin, Goto, EnterKernel, waitVars, SetWord, word,
           TypeOK, WaitTypeOK, WaitLabels
  <2>2. ResumeOK'
    BY <1>1 DEF Begin, Goto, EnterKernel, waitVars, SetWord, Word, word,
           TypeOK, WaitTypeOK, FutexWord, Calls, WhenEq, ResumeOK
  <2>3. QueueExact'
    BY <1>1 DEF Begin, Goto, EnterKernel, waitVars, SetWord, Word, word,
           TypeOK, WaitTypeOK, QueueExact
  <2>4. MutualExclusion'
    BY <1>1 DEF Begin, Goto, EnterKernel, waitVars, SetWord, Word, word,
           TypeOK, WaitTypeOK, FutexWord, ResumeOK,
           MutualExclusion, InCS
  <2> QED
    BY <2>1, <2>2, <2>3, <2>4
<1>2. CASE futex_lock(t)
  <2>1. TypeOK'
    BY <1>2, <1>a, <1>b, WordType DEF futex_lock, Goto, EnterKernel, waitVars, SetWord, word,
           TypeOK, WaitTypeOK, WaitLabels
  <2>2. ResumeOK'
    BY <1>2 DEF futex_lock, Goto, EnterKernel, waitVars, SetWord, Word, word,
           TypeOK, WaitTypeOK, FutexWord, Calls, WhenEq, ResumeOK
  <2>3. QueueExact'
    BY <1>2 DEF futex_lock, Goto, EnterKernel, waitVars, SetWord, Word, word,
           TypeOK, WaitTypeOK, QueueExact
  <2>4. MutualExclusion'
    BY <1>2 DEF futex_lock, Goto, EnterKernel, waitVars, SetWord, Word, word,
           TypeOK, WaitTypeOK, FutexWord, ResumeOK,
           MutualExclusion, InCS
  <2> QED
    BY <2>1, <2>2, <2>3, <2>4
<1>3. CASE futex_trylock_read(t)
  <2>1. TypeOK'
    BY <1>3, <1>a, <1>b, WordType DEF futex_trylock_read, Goto, EnterKernel, waitVars, SetWord, word,
           TypeOK, WaitTypeOK, WaitLabels
  <2>2. ResumeOK'
    BY <1>3 DEF futex_trylock_read, Goto, EnterKernel, waitVars, SetWord, Word, word,
           TypeOK, WaitTypeOK, FutexWord, Calls, WhenEq, ResumeOK
  <2>3. QueueExact'
    BY <1>3 DEF futex_trylock_read, Goto, EnterKernel, waitVars, SetWord, Word, word,
           TypeOK, WaitTypeOK, QueueExact
  <2>4. MutualExclusion'
    BY <1>3 DEF futex_trylock_read, Goto, EnterKernel, waitVars, SetWord, Word, word,
           TypeOK, WaitTypeOK, FutexWord, ResumeOK,
           MutualExclusion, InCS
  <2> QED
    BY <2>1, <2>2, <2>3, <2>4
<1>4. CASE futex_trylock_cas(t)
  <2>1. TypeOK'
    BY <1>4, <1>a, <1>b, WordType DEF futex_trylock_cas, Goto, EnterKernel, waitVars, SetWord, word,
           TypeOK, WaitTypeOK, WaitLabels
  <2>2. ResumeOK'
    BY <1>4 DEF futex_trylock_cas, Goto, EnterKernel, waitVars, SetWord, Word, word,
           TypeOK, WaitTypeOK, FutexWord, Calls, WhenEq, ResumeOK
  <2>3. QueueExact'
    BY <1>4 DEF futex_trylock_cas, Goto, EnterKernel, waitVars, SetWord, Word, word,
           TypeOK, WaitTypeOK, QueueExact
  <2>4. MutualExclusion'
    BY <1>4 DEF futex_trylock_cas, Goto, EnterKernel, waitVars, SetWord, Word, word,
           TypeOK, WaitTypeOK, FutexWord, ResumeOK,
           MutualExclusion, InCS
  <2> QED
    BY <2>1, <2>2, <2>3, <2>4
<1>5. CASE Leave(t)
  <2>1. TypeOK'
    BY <1>5, <1>a, <1>b, WordType DEF Leave, Goto, EnterKernel, waitVars, SetWord, word,
           TypeOK, WaitTypeOK, WaitLabels
  <2>2. ResumeOK'
    BY <1>5 DEF Leave, Goto, EnterKernel, waitVars, SetWord, Word, word,
           TypeOK, WaitTypeOK, FutexWord, Calls, WhenEq, ResumeOK
  <2>3. QueueExact'
    BY <1>5 DEF Leave, Goto, EnterKernel, waitVars, SetWord, Word, word,
           TypeOK, WaitTypeOK, QueueExact
  <2>4. MutualExclusion'
    BY <1>5 DEF Leave, Goto, EnterKernel, waitVars, SetWord, Word, word,
           TypeOK, WaitTypeOK, FutexWord, ResumeOK,
           MutualExclusion, InCS
  <2> QED
    BY <2>1, <2>2, <2>3, <2>4
<1>6. CASE futex_unlock(t)
  <2>1. TypeOK'
    BY <1>6, <1>a, <1>b, WordType DEF futex_unlock, Goto, EnterKernel, waitVars, SetWord, word,
           TypeOK, WaitTypeOK, WaitLabels
  <2>2. ResumeOK'
    BY <1>6 DEF futex_unlock, Goto, EnterKernel, waitVars, SetWord, Word, word,
           TypeOK, WaitTypeOK, FutexWord, Calls, WhenEq, ResumeOK
  <2>3. QueueExact'
    BY <1>6 DEF futex_unlock, Goto, EnterKernel, waitVars, SetWord, Word, word,
           TypeOK, WaitTypeOK, QueueExact
  <2>4. MutualExclusion'
    BY <1>6 DEF futex_unlock, Goto, EnterKernel, waitVars, SetWord, Word, word,
           TypeOK, WaitTypeOK, FutexWord, ResumeOK,
           MutualExclusion, InCS
  <2> QED
    BY <2>1, <2>2, <2>3, <2>4
<1>7. CASE futex_unlock_kernel(t)
  <2>1. TypeOK'
    BY <1>7, <1>a, <1>b, WordType DEF futex_unlock_kernel, Goto, EnterKernel, waitVars, SetWord, word,
           TypeOK, WaitTypeOK, WaitLabels
  <2>2. ResumeOK'
    BY <1>7 DEF futex_unlock_kernel, Goto, EnterKernel, waitVars, SetWord, Word, word,
           TypeOK, WaitTypeOK, FutexWord, Calls, WhenEq, ResumeOK
  <2>3. QueueExact'
    BY <1>7 DEF futex_unlock_kernel, Goto, EnterKernel, waitVars, SetWord, Word, word,
           TypeOK, WaitTypeOK, QueueExact
  <2>4. MutualExclusion'
    BY <1>7 DEF futex_unlock_kernel, Goto, EnterKernel, waitVars, SetWord, Word, word,
           TypeOK, WaitTypeOK, FutexWord, ResumeOK,
           MutualExclusion, InCS
  <2> QED
    BY <2>1, <2>2, <2>3, <2>4
<1>8. CASE WaitEnter(t) /\ UNCHANGED <<seen, left>>
  <2>1. TypeOK'
    BY <1>8 DEF WaitEnter, EnterLocked, word, TypeOK, WaitTypeOK, FutexWord, Calls, ResumeOK,
           QueueExact, WaitLabels
  <2>2. ResumeOK'
    BY <1>8 DEF WaitEnter, EnterLocked, word, TypeOK, WaitTypeOK, QueueExact, ResumeOK
  <2>3. QueueExact'
    BY <1>8 DEF WaitEnter, EnterLocked, word, TypeOK, WaitTypeOK, ResumeOK, QueueExact
  <2>4. MutualExclusion'
    BY <1>8 DEF WaitEnter, EnterLocked, word, TypeOK, WaitTypeOK, ResumeOK, QueueExact,
           MutualExclusion, InCS
  <2> QED
    BY <2>1, <2>2, <2>3, <2>4
<1>9. CASE WakeEnter(t) /\ UNCHANGED <<seen, left>>
  <2>1. TypeOK'
    BY <1>9 DEF WakeEnter, EnterLocked, word, TypeOK, WaitTypeOK, FutexWord, Calls, ResumeOK,
           QueueExact, WaitLabels
  <2>2. ResumeOK'
    BY <1>9 DEF WakeEnter, EnterLocked, word, TypeOK, WaitTypeOK, QueueExact, ResumeOK
  <2>3. QueueExact'
    BY <1>9 DEF WakeEnter, EnterLocked, word, TypeOK, WaitTypeOK, ResumeOK, QueueExact
  <2>4. MutualExclusion'
    BY <1>9 DEF WakeEnter, EnterLocked, word, TypeOK, WaitTypeOK, ResumeOK, QueueExact,
           MutualExclusion, InCS
  <2> QED
    BY <2>1, <2>2, <2>3, <2>4
<1>10. CASE WaitDecide(t) /\ UNCHANGED <<seen, left>>
  <2>1. TypeOK'
    BY <1>10 DEF WaitDecide, TypeOK, WaitTypeOK, ResumeOK, WaitLabels
  <2>2. ResumeOK'
    BY <1>10 DEF WaitDecide, DoWait, word, TypeOK, WaitTypeOK, QueueExact, ResumeOK
  <2>3. QueueExact'
    BY <1>10 DEF WaitDecide, DoWait, word, TypeOK, WaitTypeOK, ResumeOK, QueueExact
  <2>4. MutualExclusion'
    <3>1. \A u \in Threads : pc'[u] \in {"cs", "unlock"} <=> pc[u] \in {"cs", "unlock"}
      BY <1>10 DEF WaitDecide, TypeOK, ResumeOK
    <3>2. InCS' = InCS /\ word' = word
      BY <1>10, <3>1 DEF WaitDecide, InCS, word
    <3> QED
      BY <3>2, Zenon DEF MutualExclusion
  <2> QED
    BY <2>1, <2>2, <2>3, <2>4
<1>11. CASE WakeDecide(t) /\ UNCHANGED <<seen, left>>
  <2>1. TypeOK'
    BY <1>11 DEF WakeDecide, Sleepers, word, TypeOK, WaitTypeOK, FutexWord, Calls, ResumeOK,
           QueueExact, WaitLabels
  <2>2. ResumeOK'
    BY <1>11 DEF WakeDecide, Sleepers, word, TypeOK, WaitTypeOK, QueueExact, ResumeOK
  <2>3. QueueExact'
    BY <1>11 DEF WakeDecide, Sleepers, word, TypeOK, WaitTypeOK, ResumeOK, QueueExact
  <2>4. MutualExclusion'
    <3>1. \A u \in Threads : pc'[u] \in {"cs", "unlock"} <=> pc[u] \in {"cs", "unlock"}
      BY <1>11 DEF WakeDecide, Sleepers, TypeOK, WaitTypeOK, ResumeOK, QueueExact
    <3>2. InCS' = InCS /\ word' = word
      BY <1>11, <3>1 DEF WakeDecide, InCS, word
    <3> QED
      BY <3>2, Zenon DEF MutualExclusion
  <2> QED
    BY <2>1, <2>2, <2>3, <2>4
<1> QED
  BY <1>1, <1>2, <1>3, <1>4, <1>5, <1>6, <1>7, <1>8, <1>9, <1>10, <1>11 DEF Step, Kernel, WaitStep

\* A step that changes nothing preserves it too.
LEMMA StutterIInv == IInv /\ UNCHANGED vars => IInv'
  BY DEF IInv, vars, TypeOK, WaitTypeOK, ResumeOK, QueueExact,
         MutualExclusion, InCS, word

\* The invariant holds in every reachable state.
THEOREM Invariance == Spec => []IInv
<1>1. IInv /\ [Next]_vars => IInv'
  BY StepIInv, StutterIInv DEF Next, Done
<1> QED
  BY InitIInv, <1>1, PTL DEF Spec

\* futex_lock and futex_trylock never give the lock to two threads, however
\* many there are and however they spin.
THEOREM LockIsExclusive == Spec => []MutualExclusion
<1>1. IInv => MutualExclusion
  BY DEF IInv
<1> QED
  BY Invariance, <1>1, PTL

\* The hand-over of wait_queue.lock from wait_on_object to sleep_thread: the
\* queue holds exactly the sleeping threads and the lock exactly one holder.
THEOREM QueueIsExact == Spec => []QueueExact
<1>1. IInv => QueueExact
  BY DEF IInv
<1> QED
  BY Invariance, <1>1, PTL

-----------------------------------------------------------------------------
\* Two threads.

\* A thread that sleeps, or that has seen the kernel bit and is going to.
Sleepy(t) == pc[t] = "asleep" \/ (pc[t] = "wait_locked" /\ kbit[t] = 1)

\* A thread that is on its way to wake the others and will not turn back: it
\* has not loaded the kernel bit yet, or it has loaded 0.
Waking(t) == pc[t] = "sys_wake" \/ (pc[t] = "wake_locked" /\ kbit[t] = 0)

\* The bit is on, or somebody is on the way, already when the thread decides
\* to sleep; and whoever has turned back has seen the bit on.
Watched ==
  \A t \in Threads : Sleepy(t) =>
    word.kernel = 1 \/ \E u \in Threads : Waking(u)

\* What the wake of futex_unlock asks for.
WakeArgs ==
  \A t \in Threads : pc[t] \in {"sys_wake", "wake_locked"} =>
    call[t] = WhenEq(TheLock, 0, "idle")

\* Every step of one of two threads keeps the sleeper watched.  Two matter
\* where the wake decides: no third thread has the lock then, so the word is
\* as the wake asks, and it wakes everybody but the caller.
LEMMA StepWatched ==
  ASSUME NEW a, NEW b, Threads = {a, b}, IInv, Watched, WakeArgs,
         NEW t \in Threads, Step(t)
  PROVE  Watched' /\ WakeArgs'
<1> USE ThreadsAssumption, FutexLockAssumption
<1> USE DEF TypeOK, WaitTypeOK
<1>a. IInv'
  BY StepIInv
<1>b. /\ word \in FutexWord
      /\ word.kernel \in {0, 1}
  BY WordFields DEF IInv, word
<1>c. futex[call[t].obj] = word
  <2>1. call[t] \in Calls
    BY DEF IInv
  <2>2. call[t].obj = TheLock
    BY <2>1 DEF Calls
  <2> QED
    BY <2>2 DEF word
<1>1. CASE Begin(t)
  <2>1. WakeArgs'
    BY <1>1 DEF IInv, Begin, Goto, EnterKernel, waitVars, WakeArgs
  <2>2. Watched'
    BY <1>1, <1>b DEF IInv, Begin, Goto, EnterKernel, waitVars, SetWord,
           Word, word, Watched, Sleepy, Waking, FutexWord, ResumeOK
  <2> QED
    BY <2>1, <2>2
<1>2. CASE futex_lock(t)
  <2>1. WakeArgs'
    BY <1>2 DEF IInv, futex_lock, Goto, EnterKernel, waitVars, WakeArgs
  <2>2. Watched'
    BY <1>2, <1>b DEF IInv, futex_lock, Goto, EnterKernel, waitVars, SetWord,
           Word, word, Watched, Sleepy, Waking, FutexWord, ResumeOK
  <2> QED
    BY <2>1, <2>2
<1>3. CASE futex_trylock_read(t)
  <2>1. WakeArgs'
    BY <1>3 DEF IInv, futex_trylock_read, Goto, EnterKernel, waitVars, WakeArgs
  <2>2. Watched'
    BY <1>3, <1>b DEF IInv, futex_trylock_read, Goto, EnterKernel, waitVars, SetWord,
           Word, word, Watched, Sleepy, Waking, FutexWord, ResumeOK
  <2> QED
    BY <2>1, <2>2
<1>4. CASE futex_trylock_cas(t)
  <2>1. WakeArgs'
    BY <1>4 DEF IInv, futex_trylock_cas, Goto, EnterKernel, waitVars, WakeArgs
  <2>2. Watched'
    BY <1>4, <1>b DEF IInv, futex_trylock_cas, Goto, EnterKernel, waitVars, SetWord,
           Word, word, Watched, Sleepy, Waking, FutexWord, ResumeOK
  <2> QED
    BY <2>1, <2>2
<1>5. CASE Leave(t)
  <2>1. WakeArgs'
    BY <1>5 DEF IInv, Leave, Goto, EnterKernel, waitVars, WakeArgs
  <2>2. Watched'
    BY <1>5, <1>b DEF IInv, Leave, Goto, EnterKernel, waitVars, SetWord,
           Word, word, Watched, Sleepy, Waking, FutexWord, ResumeOK
  <2> QED
    BY <2>1, <2>2
<1>6. CASE futex_unlock(t)
  <2>1. WakeArgs'
    BY <1>6 DEF IInv, futex_unlock, Goto, EnterKernel, waitVars, WakeArgs
  <2>2. Watched'
    BY <1>6, <1>b DEF IInv, futex_unlock, Goto, EnterKernel, waitVars, SetWord,
           Word, word, Watched, Sleepy, Waking, FutexWord, ResumeOK
  <2> QED
    BY <2>1, <2>2
<1>7. CASE futex_unlock_kernel(t)
  <2>1. WakeArgs'
    BY <1>7 DEF IInv, futex_unlock_kernel, Goto, EnterKernel, waitVars, WakeArgs
  <2>2. Watched'
    BY <1>7, <1>b DEF IInv, futex_unlock_kernel, Goto, EnterKernel, waitVars, SetWord,
           Word, word, Watched, Sleepy, Waking, FutexWord, ResumeOK
  <2> QED
    BY <2>1, <2>2
<1>8. CASE WaitEnter(t) /\ UNCHANGED <<seen, left>>
  <2>1. WakeArgs'
    BY <1>8 DEF IInv, WaitEnter, EnterLocked, QueueExact, ResumeOK, WakeArgs
  <2>2. Watched'
    <3>1. kbit'[t] = word.kernel /\ word' = word /\ pc[t] = "sys_wait"
      BY <1>8, <1>c DEF IInv, WaitEnter, EnterLocked, word
    <3>2. \A u \in Threads \ {t} : pc'[u] = pc[u] /\ kbit'[u] = kbit[u]
      BY <1>8 DEF IInv, WaitEnter, EnterLocked
    <3>3. \A u \in Threads : Waking(u) => Waking(u)'
      BY <3>1, <3>2 DEF Waking
    <3>4. \A u \in Threads : Sleepy(u)' => Sleepy(u) \/ word.kernel = 1
      <4>1. \A u \in Threads \ {t} : Sleepy(u)' => Sleepy(u)
        BY <3>2 DEF Sleepy
      <4>2. Sleepy(t)' => word.kernel = 1
        BY <3>1, <1>8 DEF Sleepy, WaitEnter, EnterLocked, IInv
      <4> QED
        BY <4>1, <4>2
    <3> QED
      BY <3>1, <3>3, <3>4, Zenon DEF Watched
  <2> QED
    BY <2>1, <2>2
<1>9. CASE WakeEnter(t) /\ UNCHANGED <<seen, left>>
  <2>1. WakeArgs'
    BY <1>9 DEF IInv, WakeEnter, EnterLocked, QueueExact, ResumeOK, WakeArgs
  <2>2. Watched'
    <3>1. /\ kbit'[t] = word.kernel /\ word' = word
          /\ pc'[t] = "wake_locked"
      BY <1>9, <1>c DEF IInv, WakeEnter, EnterLocked, word
    <3>2. \A u \in Threads \ {t} : pc'[u] = pc[u] /\ kbit'[u] = kbit[u]
      BY <1>9 DEF IInv, WakeEnter, EnterLocked
    <3>3. \A u \in Threads : Sleepy(u)' => Sleepy(u)
      BY <3>1, <3>2 DEF Sleepy
    <3>4. word.kernel = 0 => Waking(t)'
      BY <3>1 DEF Waking
    <3> QED
      BY <3>1, <3>3, <3>4, <1>b DEF Watched
  <2> QED
    BY <2>1, <2>2
<1>10. CASE WaitDecide(t) /\ UNCHANGED <<seen, left>>
  <2>1. WakeArgs'
    BY <1>10 DEF IInv, WaitDecide, DoWait, QueueExact, ResumeOK, WakeArgs
  <2>2. Watched'
    BY <1>10, <1>b DEF IInv, WaitDecide, DoWait, word, Watched, Sleepy, Waking,
           QueueExact, ResumeOK, WakeArgs
  <2> QED
    BY <2>1, <2>2
<1>11. CASE WakeDecide(t) /\ UNCHANGED <<seen, left>>
  <2>1. WakeArgs'
    BY <1>11 DEF IInv, WakeDecide, Sleepers, QueueExact, ResumeOK, WakeArgs
  <2>2. Watched'
    <3> SUFFICES ASSUME NEW u \in Threads, Sleepy(u)'
                 PROVE  word'.kernel = 1
      BY DEF Watched
    <3>1. word' = word
      BY <1>11 DEF WakeDecide, word
    <3>2. pc[t] = "wake_locked" /\ pc'[t] = "idle"
      BY <1>11 DEF IInv, WakeDecide, ResumeOK
    <3>3. u # t /\ pc[u] # "wait_locked"
      BY <3>2 DEF IInv, QueueExact, Sleepy
    <3>4. pc[u] = "asleep" /\ ~DoWakeup(t)
      <4>1. ASSUME u \in Sleepers(call[t].obj), DoWakeup(t) PROVE FALSE
        BY <1>11, <4>1 DEF IInv, WakeDecide, QueueExact, ResumeOK, Sleepy, Sleepers
      <4>2. u \notin Sleepers(call[t].obj) \/ ~DoWakeup(t)
        BY <4>1
      <4>3. pc'[u] = pc[u]
        BY <1>11, <3>3, <4>2 DEF IInv, WakeDecide
      <4>4. pc[u] = "asleep"
        BY <3>3, <4>3 DEF Sleepy
      <4>5. call[u].obj = call[t].obj
        BY DEF IInv, Calls
      <4> QED
        BY <4>2, <4>4, <4>5 DEF IInv, QueueExact, Sleepers
    <3>5. word.locked = 0
      BY <3>2, <3>3, <3>4 DEF IInv, MutualExclusion, InCS
    <3>6. kbit[t] # 0
      BY <3>2, <3>4, <3>5, <1>c DEF DoWakeup, When, WhenEq, WakeArgs
    <3>7. \A v \in Threads : ~Waking(v)
      BY <3>2, <3>3, <3>4, <3>6 DEF Waking
    <3> QED
      BY <3>1, <3>4, <3>7 DEF Watched, Sleepy
  <2> QED
    BY <2>1, <2>2
<1> QED
  BY <1>1, <1>2, <1>3, <1>4, <1>5, <1>6, <1>7, <1>8, <1>9, <1>10, <1>11
     DEF Step, Kernel, WaitStep

\* Two threads never forget each other: while one sleeps on the lock, the
\* kernel bit says so or the other is in its wake call.  (With three threads
\* futex_unlock does forget one.)
THEOREM TwoForgetNobody ==
  ASSUME NEW a, NEW b, Threads = {a, b}
  PROVE  Spec => []NoSleeperForgotten
<1>1. Init => Watched /\ WakeArgs
  BY DEF Init, WaitInit, Watched, WakeArgs, Sleepy
<1>2. IInv /\ Watched /\ WakeArgs /\ [Next]_vars => (Watched /\ WakeArgs)'
  <2> SUFFICES ASSUME IInv, Watched, WakeArgs, [Next]_vars
               PROVE  (Watched /\ WakeArgs)'
    OBVIOUS
  <2>1. CASE UNCHANGED vars
    BY <2>1 DEF vars, Watched, WakeArgs, Sleepy, Waking, word
  <2>2. CASE \E t \in Threads : Step(t)
    BY <2>2, StepWatched
  <2> QED
    BY <2>1, <2>2 DEF Next, Done
<1>3. IInv /\ Watched => NoSleeperForgotten
  BY DEF IInv, QueueExact, Watched, Sleepy, Waking, NoSleeperForgotten
<1> QED
  BY <1>1, <1>2, <1>3, Invariance, PTL DEF Spec

=============================================================================
