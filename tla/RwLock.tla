------------------------------- MODULE RwLock -------------------------------
(***************************************************************************)
(* The libc reader-writer lock (libc/kth/rwlock.c) that the VFS and the    *)
(* pseudo file systems use, with the spin limit of -1 that rwlock_init     *)
(* gives it.  rd_futex counts readers in steps of two; its lowest bit says *)
(* that a writer waits or writes.  wr_futex, a plain futex lock, keeps the *)
(* writers apart and is taken here in one step (FutexLock has its steps);  *)
(* wait_futex keeps new readers out while a writer is about.               *)
(*                                                                         *)
(* futex_wait continues its loop, and so executes the compare-and-swap of  *)
(* the loop's condition, before f_new has been given a value: the word it  *)
(* swaps in is any of Garbage.                                             *)
(*                                                                         *)
(* The proof that the lock is safe for any number of threads is at the end *)
(* of the module.                                                          *)
(***************************************************************************)
EXTENDS WaitQueue, FiniteSetTheorems, TLAPS

CONSTANTS
  RwReaders,   \* the threads that read
  RwWriters,   \* the threads that write
  RdFutex,     \* rd_futex
  WaitFutex,   \* wait_futex
  Garbage,     \* the words an uninitialised f_new may hold
  Rounds       \* how often each thread takes the lock

VARIABLES
  seen,        \* seen[t]: the word a single compare-and-swap has read
  left,        \* left[t]: rounds t has still to do
  wr           \* holder of wr_futex

rwVars == <<pc, futex, call, kbit, waitLock, waiting, seen, left, wr>>

rd == futex[RdFutex]

SetFutex(f, w) == futex' = [futex EXCEPT ![f] = w]

\* The word read is of no use after the compare-and-swap.
Forget(t) == seen' = [seen EXCEPT ![t] = Word(0, 0)]

Odd(n) == n % 2 = 1

RwInit ==
  /\ WaitInit
  /\ pc = [t \in Threads |-> "idle"]
  /\ seen = [t \in Threads |-> Word(0, 0)]
  /\ left = [t \in Threads |-> Rounds]
  /\ wr = NoThread

RwBegin(t) ==
  /\ pc[t] = "idle"
  /\ left[t] > 0
  /\ left' = [left EXCEPT ![t] = @ - 1]
  /\ \/ t \in RwReaders /\ \E l \in {"r_wait", "r_try"} : Goto(t, l)
     \/ t \in RwWriters /\ Goto(t, "w_lock")
  /\ UNCHANGED <<futex, seen, wr>>

\* The loop of futex_wait on wait_futex.
futex_wait(t) ==
  /\ pc[t] = "r_wait"
  /\ IF futex[WaitFutex].locked = 0
     THEN UNCHANGED futex /\ Goto(t, "r_lock")
     ELSE \E g \in Garbage :
            /\ SetFutex(WaitFutex, g)
            /\ IF g.kernel = 1
               THEN EnterKernel(t, "sys_wait", WhenEq(WaitFutex, 1, "r_wait"))
               ELSE Goto(t, "r_wait")
  /\ UNCHANGED <<seen, left, wr>>

\* Mutant: the writer's bit is not looked at.
rwlock_rlock_blind(t) ==
  /\ pc[t] = "r_lock"
  /\ SetFutex(RdFutex, Word(rd.kernel, rd.locked + 2))
  /\ Goto(t, "reading")
  /\ UNCHANGED <<seen, left, wr>>

\* rwlock_rlock after futex_wait: count the reader in, or start again if a
\* writer has registered.
rwlock_rlock(t) ==
  /\ pc[t] = "r_lock"
  /\ IF Odd(rd.locked)
     THEN UNCHANGED futex /\ Goto(t, "r_wait")
     ELSE SetFutex(RdFutex, Word(rd.kernel, rd.locked + 2)) /\ Goto(t, "reading")
  /\ UNCHANGED <<seen, left, wr>>

rwlock_rtrylock(t) ==
  /\ \/ /\ pc[t] = "r_try"
        /\ seen' = [seen EXCEPT ![t] = rd]
        /\ Goto(t, IF Odd(rd.locked) THEN "idle" ELSE "r_try_cas")
        /\ UNCHANGED futex
     \/ /\ pc[t] = "r_try_cas"
        /\ IF rd = seen[t]
           THEN /\ SetFutex(RdFutex, Word(rd.kernel, rd.locked + 2))
                /\ Goto(t, "reading")
           ELSE UNCHANGED futex /\ Goto(t, "idle")
        /\ Forget(t)
  /\ UNCHANGED <<left, wr>>

\* The first loop of rwlock_runlock counts the reader out.
rwlock_runlock(t) ==
  /\ pc[t] = "reading"
  /\ IF rd.locked <= 1
     THEN UNCHANGED futex /\ Goto(t, "panic")
     ELSE /\ SetFutex(RdFutex, Word(rd.kernel, rd.locked - 2))
          /\ Goto(t, IF rd.locked = 3 THEN "r_kernel" ELSE "idle")
  /\ UNCHANGED <<seen, left, wr>>

\* The last reader, when a writer has registered, clears the kernel bit and
\* wakes the writer.
rwlock_runlock_kernel(t) ==
  /\ pc[t] = "r_kernel"
  /\ IF rd.kernel = 0
     THEN UNCHANGED futex /\ Goto(t, "idle")
     ELSE /\ SetFutex(RdFutex, Word(0, rd.locked))
          /\ EnterKernel(t, "sys_wake", WhenNe(RdFutex, 0, "idle"))
  /\ UNCHANGED <<seen, left, wr>>

\* rwlock_wlock: wr_futex is acquired.
rwlock_wlock(t) ==
  /\ pc[t] = "w_lock"
  /\ wr = NoThread
  /\ wr' = t
  /\ Goto(t, "w_try")
  /\ UNCHANGED <<futex, seen, left>>

\* futex_trylock on wait_futex, which "must not fail": a failure panics.
TryWaitFutex(t) ==
  /\ \/ /\ pc[t] = "w_try"
        /\ seen' = [seen EXCEPT ![t] = futex[WaitFutex]]
        /\ Goto(t, IF futex[WaitFutex].locked # 0 THEN "panic" ELSE "w_try_cas")
        /\ UNCHANGED futex
     \/ /\ pc[t] = "w_try_cas"
        /\ IF futex[WaitFutex] = seen[t]
           THEN /\ SetFutex(WaitFutex, Word(seen[t].kernel, 1))
                /\ Goto(t, "w_register")
           ELSE UNCHANGED futex /\ Goto(t, "panic")
        /\ Forget(t)
  /\ UNCHANGED <<left, wr>>

\* The first loop of wait_for_reads sets the writer's bit.
Register(t) ==
  /\ pc[t] = "w_register"
  /\ IF Odd(rd.locked)
     THEN UNCHANGED futex /\ Goto(t, "panic")
     ELSE SetFutex(RdFutex, Word(rd.kernel, rd.locked + 1)) /\ Goto(t, "w_reads")
  /\ UNCHANGED <<seen, left, wr>>

\* Its second loop waits for the readers to leave.
wait_for_reads(t) ==
  /\ pc[t] = "w_reads"
  /\ IF rd.locked = 1
     THEN SetFutex(RdFutex, Word(0, 1)) /\ Goto(t, "writing")
     ELSE /\ SetFutex(RdFutex, Word(1, rd.locked))
          /\ EnterKernel(t, "sys_wait", WhenNe(RdFutex, 1, "w_reads"))
  /\ UNCHANGED <<seen, left, wr>>

\* rwlock_wunlock reads the word and swaps it in one attempt; both tests
\* panic.
rwlock_wunlock(t) ==
  /\ \/ /\ pc[t] = "writing"
        /\ seen' = [seen EXCEPT ![t] = rd]
        /\ Goto(t, IF rd.locked # 1 THEN "panic" ELSE "w_cas")
        /\ UNCHANGED futex
     \/ /\ pc[t] = "w_cas"
        /\ IF rd = seen[t]
           THEN SetFutex(RdFutex, Word(rd.kernel, 0)) /\ Goto(t, "w_unlock")
           ELSE UNCHANGED futex /\ Goto(t, "panic")
        /\ Forget(t)
  /\ UNCHANGED <<left, wr>>

\* futex_unlock on wait_futex: clear locked, then the kernel bit, then wake.
UnlockWaitFutex(t) ==
  LET w == futex[WaitFutex] IN
  /\ \/ /\ pc[t] = "w_unlock"
        /\ IF w.locked = 0
           THEN UNCHANGED futex /\ Goto(t, "w_done")
           ELSE /\ SetFutex(WaitFutex, Word(w.kernel, 0))
                /\ Goto(t, IF w.kernel = 1 THEN "w_kernel" ELSE "w_done")
     \/ /\ pc[t] = "w_kernel"
        /\ IF w.locked # 0 \/ w.kernel = 0
           THEN UNCHANGED futex /\ Goto(t, "w_done")
           ELSE /\ SetFutex(WaitFutex, Word(0, 0))
                /\ EnterKernel(t, "sys_wake", WhenEq(WaitFutex, 0, "w_done"))
  /\ UNCHANGED <<seen, left, wr>>

\* futex_unlock on wr_futex.
UnlockWriters(t) ==
  /\ pc[t] = "w_done"
  /\ wr' = NoThread
  /\ Goto(t, "idle")
  /\ UNCHANGED <<futex, seen, left>>

RwKernel(t) == WaitStep(t) /\ UNCHANGED <<seen, left, wr>>

RwStep(t) ==
  \/ RwBegin(t)
  \/ futex_wait(t) \/ rwlock_rlock(t) \/ rwlock_rtrylock(t)
  \/ rwlock_runlock(t) \/ rwlock_runlock_kernel(t)
  \/ rwlock_wlock(t) \/ TryWaitFutex(t) \/ Register(t) \/ wait_for_reads(t)
  \/ rwlock_wunlock(t) \/ UnlockWaitFutex(t) \/ UnlockWriters(t)
  \/ RwKernel(t)

RwNext == \E t \in Threads : RwStep(t)

RwSpec == RwInit /\ [][RwNext]_rwVars

RwFairness == \A t \in Threads : WF_rwVars(RwStep(t))

-----------------------------------------------------------------------------

\* A writer writes alone: no reader reads and no other writer writes, also
\* when futex_wait has overwritten wait_futex.
WriterAlone ==
  \A w \in RwWriters : pc[w] \in {"writing", "w_cas"} =>
    \A t \in Threads \ {w} : pc[t] \notin {"reading", "writing", "w_cas"}

\* None of the "Inconsistent rwlock state" panics is reached: the trylock of
\* wait_futex does not fail, the writer's bit is never set twice, the reader
\* count never runs below zero and nobody changes rd_futex between the read
\* and the compare-and-swap of rwlock_wunlock.
RwConsistent == \A t \in Threads : pc[t] # "panic"

\* No writer is inside the lock or waiting for it.
WritersIdle == \A w \in RwWriters : pc[w] = "idle"

\* futex_wait waits "without acquiring it": wait_futex says locked exactly
\* while a writer has taken it.
WaitTakesNothing ==
  futex[WaitFutex].locked = 1 <=>
    \E w \in RwWriters :
      \/ pc[w] \in {"w_register", "w_reads", "writing", "w_cas", "w_unlock"}
      \/ call[w].obj = RdFutex /\ pc[w] \in WaitLabels

-----------------------------------------------------------------------------
\* The lock is safe for any number of readers and writers, whatever words
\* futex_wait swaps in.

RwAssumption ==
  /\ {RdFutex, WaitFutex} \subseteq Futexes /\ RdFutex # WaitFutex
  /\ Garbage \subseteq FutexWord
  /\ IsFiniteSet(Threads) /\ RwWriters \subseteq Threads

\* Where a thread is, or will be when its system call returns.
Loc(t) == IF pc[t] \in WaitLabels THEN call[t].ret ELSE pc[t]

RwReturns == {"none", "idle", "r_wait", "w_reads", "w_done"}

RwShape ==
  /\ DOMAIN pc = Threads /\ DOMAIN call = Threads
  /\ \A t \in Threads : call[t].ret \in RwReturns
  /\ waiting \subseteq {t \in Threads : pc[t] = "asleep"}

RwTypeOK ==
  /\ RwShape
  /\ futex \in [Futexes -> FutexWord]
  /\ seen \in [Threads -> FutexWord]
  /\ wr \in Threads \cup {NoThread}

\* wr_futex belongs to the writer that is past it and not yet back.
Owners ==
  \A t \in Threads :
    wr = t <=> Loc(t) \in {"w_try", "w_try_cas", "w_register", "w_reads", "writing",
                           "w_cas", "w_unlock", "w_kernel", "w_done"}

Reading == {t \in Threads : Loc(t) = "reading"}

\* The writer's bit of rd_futex is set.
Claimed == wr \in Threads /\ Loc(wr) \in {"w_reads", "writing", "w_cas"}

\* rd_futex counts the readers, and has the writer's bit.
ReadersCounted == rd.locked = 2 * Cardinality(Reading) + (IF Claimed THEN 1 ELSE 0)

\* Nobody changes rd_futex while a writer writes, not even its kernel bit.
Quiet == \A t \in Threads : Loc(t) \in {"writing", "w_cas"} => rd = Word(0, 1)

\* futex_wait changes wait_futex only while a writer has it.
Barred ==
  futex[WaitFutex].locked # 0 =>
    wr \in Threads /\ Loc(wr) \in {"w_register", "w_reads", "writing", "w_cas", "w_unlock"}

\* What the single compare-and-swaps have read is still true, or cannot succeed.
Recalled ==
  \A t \in Threads :
    /\ Loc(t) = "w_cas" => seen[t] = rd
    /\ Loc(t) = "w_try_cas" => seen[t] = futex[WaitFutex]
    /\ Loc(t) = "r_try_cas" => ~Odd(seen[t].locked)
    /\ Loc(t) # "panic"

\* The inductive invariant.
RwInv == RwTypeOK /\ Owners /\ ReadersCounted /\ Quiet /\ Barred /\ Recalled

\* t goes to l, the others stay where they are.
Moved(t, l) ==
  /\ Loc(t)' = l
  /\ \A u \in Threads \ {t} : Loc(u)' = Loc(u)

\* The fields of a futex word, and a word of such fields.
LEMMA RwWord ==
  /\ \A w \in FutexWord : w.kernel \in {0, 1} /\ w.locked \in Nat
  /\ \A k \in {0, 1}, l \in Nat :
       Word(k, l) \in FutexWord /\ Word(k, l).kernel = k /\ Word(k, l).locked = l
  BY DEF FutexWord, Word

\* A step of user code moves one thread.
LEMMA RwGoto ==
  ASSUME RwShape, NEW t \in Threads, pc[t] \notin WaitLabels,
         NEW l, l \notin WaitLabels, Goto(t, l)
  PROVE  RwShape' /\ Moved(t, l) /\ Loc(t) = pc[t]
  BY Zenon DEF RwShape, Goto, waitVars, Moved, Loc, WaitLabels

\* A thread that enters the kernel is where it will resume.
LEMMA RwEnter ==
  ASSUME RwShape, NEW t \in Threads, pc[t] \notin WaitLabels,
         NEW l \in {"sys_wait", "sys_wake"}, NEW c, c.ret \in RwReturns, EnterKernel(t, l, c)
  PROVE  RwShape' /\ Moved(t, c.ret) /\ Loc(t) = pc[t]
  BY Zenon DEF RwShape, EnterKernel, Moved, Loc, WaitLabels

\* The kernel moves nobody: it returns a thread to where it was to resume.
LEMMA RwKernelStep ==
  ASSUME RwShape, NEW t \in Threads, WaitStep(t)
  PROVE  RwShape' /\ (\A u \in Threads : Loc(u)' = Loc(u)) /\ UNCHANGED futex
<1>1. CASE WaitEnter(t) \/ WakeEnter(t)
  BY <1>1 DEF WaitEnter, WakeEnter, EnterLocked, RwShape, Loc, WaitLabels
<1>2. CASE WaitDecide(t)
  BY <1>2 DEF WaitDecide, RwShape, RwReturns, Loc, WaitLabels
<1>3. CASE WakeDecide(t)
  BY <1>3 DEF WakeDecide, Sleepers, RwShape, RwReturns, Loc, WaitLabels
<1> QED
  BY <1>1, <1>2, <1>3 DEF WaitStep
\* How the number of readers changes.
LEMMA RwReaders3 ==
  ASSUME RwAssumption, NEW t \in Threads, NEW l, Moved(t, l)
  PROVE  /\ IsFiniteSet(Reading) /\ Cardinality(Reading) \in Nat
         /\ Loc(t) # "reading" /\ l # "reading" => Reading' = Reading
         /\ Loc(t) # "reading" /\ l = "reading" =>
              Cardinality(Reading') = Cardinality(Reading) + 1
         /\ Loc(t) = "reading" /\ l # "reading" =>
              Cardinality(Reading') = Cardinality(Reading) - 1 /\ Cardinality(Reading) > 0
<1>1. IsFiniteSet(Reading) /\ Cardinality(Reading) \in Nat
  BY FS_Subset, FS_CardinalityType DEF RwAssumption, Reading
<1>2. Loc(t) # "reading" /\ l # "reading" => Reading' = Reading
  BY Zenon DEF Moved, Reading
<1>3. ASSUME Loc(t) # "reading", l = "reading"
      PROVE  Cardinality(Reading') = Cardinality(Reading) + 1
  <2>1. Reading' = Reading \cup {t} /\ t \notin Reading
    BY <1>3 DEF Moved, Reading
  <2> QED
    BY <1>1, <2>1, FS_AddElement
<1>4. ASSUME Loc(t) = "reading", l # "reading"
      PROVE  Cardinality(Reading') = Cardinality(Reading) - 1 /\ Cardinality(Reading) > 0
  <2>1. Reading' = Reading \ {t} /\ t \in Reading
    BY <1>4 DEF Moved, Reading
  <2>2. Cardinality(Reading') = Cardinality(Reading) - 1
    BY <1>1, <2>1, FS_RemoveElement
  <2>3. Cardinality(Reading) # 0
    BY <1>1, <2>1, FS_EmptySet
  <2> QED
    BY <1>1, <2>2, <2>3
<1> QED
  BY <1>1, <1>2, <1>3, <1>4, Zenon

\* The writer's bit is the lowest bit of the count.
LEMMA RwOdd ==
  ASSUME RwAssumption, ReadersCounted
  PROVE  /\ Odd(rd.locked) <=> Claimed
         /\ rd.locked = 1 => Claimed /\ Reading = {}
         /\ rd.locked \in Nat
<1>1. IsFiniteSet(Reading) /\ Cardinality(Reading) \in Nat
  BY FS_Subset, FS_CardinalityType DEF RwAssumption, Reading
<1>2. Odd(rd.locked) <=> Claimed
  BY <1>1 DEF ReadersCounted, Odd
<1>3. rd.locked = 1 => Claimed /\ Cardinality(Reading) = 0
  BY <1>1 DEF ReadersCounted
<1>4. rd.locked \in Nat
  BY <1>1 DEF ReadersCounted
<1> QED
  BY <1>1, <1>2, <1>3, <1>4, FS_EmptySet, Zenon

\* Every initial state satisfies the invariant.
LEMMA RwInitInv ==
  ASSUME RwAssumption, RwInit
  PROVE  RwInv
<1>1. \A t \in Threads : Loc(t) = "idle"
  BY DEF RwInit, Loc, WaitLabels
<1>2. RwTypeOK
  <2>1. DOMAIN call = Threads /\ \A t \in Threads : call[t].ret = "none"
    BY DEF RwInit, WaitInit, WhenEq
  <2> QED
    BY <2>1, RwWord DEF RwInit, WaitInit, RwTypeOK, RwShape, RwReturns
<1>3. rd = Word(0, 0) /\ futex[WaitFutex] = Word(0, 0) /\ wr = NoThread
  BY Zenon DEF RwAssumption, RwInit, WaitInit, rd
<1>4. Owners /\ Quiet /\ Recalled
  BY Zenon, <1>1, <1>3, ThreadsAssumption DEF Owners, Quiet, Recalled
<1>5. Barred
  BY <1>3, RwWord DEF Barred
<1>6. ReadersCounted
  <2>1. Reading = {} /\ ~Claimed
    BY Zenon, <1>1, <1>3, ThreadsAssumption DEF Reading, Claimed
  <2>2. Cardinality(Reading) = 0
    BY <2>1, FS_EmptySet
  <2> QED
    BY <1>3, <2>1, <2>2, RwWord DEF ReadersCounted
<1> QED
  BY Zenon, <1>2, <1>4, <1>5, <1>6 DEF RwInv

\* A step that leaves the value of rd_futex alone and moves no reader in or out and no writer
\* across the setting of its bit.
LEMMA RwAside ==
  ASSUME RwAssumption, RwInv, NEW t \in Threads, NEW l, Moved(t, l), Owners',
         Loc(t) # "reading", l # "reading", rd'.locked = rd.locked,
         Loc(t) \in {"w_reads", "writing", "w_cas"} <=> l \in {"w_reads", "writing", "w_cas"}
  PROVE  ReadersCounted'
<1>1. Reading' = Reading
  BY Zenon, RwReaders3
<1>2. Claimed' <=> Claimed
  BY Zenon, ThreadsAssumption DEF Claimed, Moved, RwInv, Owners, RwTypeOK
<1> QED
  BY Zenon, <1>1, <1>2 DEF RwInv, ReadersCounted
\* A step that changes neither word, when no writer gets or gives up wr_futex.
LEMMA RwPlain ==
  ASSUME RwAssumption, RwInv, NEW t \in Threads, NEW l, Moved(t, l), RwShape',
         Loc(t) \in {"idle", "r_wait", "r_lock", "r_try", "r_try_cas", "r_kernel"},
         l \in {"idle", "r_wait", "r_lock", "r_try", "r_try_cas", "w_lock"},
         UNCHANGED <<futex, wr>>, seen' \in [Threads -> FutexWord],
         \A u \in Threads \ {t} : seen'[u] = seen[u],
         l = "r_try_cas" => ~Odd(seen'[t].locked)
  PROVE  RwInv'
<1>1. RwTypeOK'
  BY Zenon DEF RwInv, RwTypeOK
<1>2. Owners'
  BY Zenon DEF RwInv, Owners, Moved
<1>3. rd' = rd
  BY Zenon DEF rd
<1>4. ReadersCounted'
  BY Zenon, <1>2, <1>3, RwAside
<1>5. Quiet'
  BY Zenon, <1>3 DEF RwInv, Quiet, Moved
<1>6. Barred'
  BY Zenon DEF RwInv, Owners, Barred, Moved
<1>7. Recalled'
  BY Zenon, <1>3 DEF RwInv, Recalled, Moved
<1> QED
  BY Zenon, <1>1, <1>2, <1>4, <1>5, <1>6, <1>7 DEF RwInv

\* A thread begins; the first half of rwlock_rtrylock.
LEMMA RwBeginStep ==
  ASSUME RwAssumption, RwInv, NEW t \in Threads, RwBegin(t)
  PROVE  RwInv'
<1>1. PICK l \in {"r_wait", "r_try", "w_lock"} : Goto(t, l)
  BY Zenon DEF RwBegin
<1>2. pc[t] = "idle" /\ UNCHANGED <<futex, seen, wr>>
  BY Zenon DEF RwBegin
<1>3. RwShape' /\ Moved(t, l) /\ Loc(t) = pc[t]
  BY Zenon, <1>1, <1>2, RwGoto DEF RwInv, RwTypeOK, WaitLabels
<1> QED
  BY Zenon, <1>1, <1>2, <1>3, RwPlain DEF RwInv, RwTypeOK

\* A reader waits for wait_futex, and may swap a word in that nobody has set.
LEMMA RwWaitStep ==
  ASSUME RwAssumption, RwInv, NEW t \in Threads, futex_wait(t)
  PROVE  RwInv'
<1>0. pc[t] = "r_wait" /\ UNCHANGED <<seen, wr>>
  BY Zenon DEF futex_wait
<1>1. CASE futex[WaitFutex].locked = 0
  <2>1. Goto(t, "r_lock") /\ UNCHANGED futex
    BY Zenon, <1>1 DEF futex_wait
  <2>2. RwShape' /\ Moved(t, "r_lock") /\ Loc(t) = pc[t]
    BY Zenon, <1>0, <2>1, RwGoto DEF RwInv, RwTypeOK, WaitLabels
  <2> QED
    BY Zenon, <1>0, <2>1, <2>2, RwPlain DEF RwInv, RwTypeOK
<1>2. CASE futex[WaitFutex].locked # 0
  <2>1. PICK g \in Garbage :
          /\ SetFutex(WaitFutex, g)
          /\ \/ EnterKernel(t, "sys_wait", WhenEq(WaitFutex, 1, "r_wait"))
             \/ Goto(t, "r_wait")
    BY Zenon, <1>2 DEF futex_wait
  <2>2. WhenEq(WaitFutex, 1, "r_wait").ret = "r_wait" /\ "r_wait" \in RwReturns
    BY DEF WhenEq, RwReturns
  <2>3. RwShape' /\ Moved(t, "r_wait") /\ Loc(t) = "r_wait"
    <3>1. CASE Goto(t, "r_wait")
      BY Zenon, <1>0, <3>1, RwGoto DEF RwInv, RwTypeOK, WaitLabels
    <3>2. CASE EnterKernel(t, "sys_wait", WhenEq(WaitFutex, 1, "r_wait"))
      BY Zenon, <1>0, <2>2, <3>2, RwEnter DEF RwInv, RwTypeOK, WaitLabels
    <3> QED
      BY Zenon, <2>1, <3>1, <3>2
  <2>4. \A u \in Threads : Loc(u)' = Loc(u)
    BY Zenon, <2>3 DEF Moved
  <2>5. /\ futex' \in [Futexes -> FutexWord]
        /\ rd' = rd
    BY Zenon, <2>1 DEF SetFutex, rd, RwAssumption, RwInv, RwTypeOK
  <2>6. wr \in Threads /\ Loc(wr) \in {"w_register", "w_reads", "writing", "w_cas", "w_unlock"}
    BY Zenon, <1>2 DEF RwInv, Barred
  <2>7. \A u \in Threads : Loc(u) # "w_try_cas"
    BY Zenon, <2>6 DEF RwInv, Owners
  <2>8. RwTypeOK' /\ Owners' /\ Quiet' /\ Barred' /\ Recalled'
    BY Zenon, <1>0, <2>3, <2>4, <2>5, <2>6, <2>7
    DEF RwInv, RwTypeOK, Owners, Quiet, Barred, Recalled
  <2>9. ReadersCounted'
    BY Zenon, <2>3, <2>5, <2>8, RwAside
  <2> QED
    BY Zenon, <2>8, <2>9 DEF RwInv
<1> QED
  BY Zenon, <1>1, <1>2

\* A reader is counted in, when the writer's bit is clear.
LEMMA RwEnters ==
  ASSUME RwAssumption, RwInv, NEW t \in Threads, Moved(t, "reading"), RwShape',
         Loc(t) \in {"r_lock", "r_try_cas"}, ~Odd(rd.locked),
         SetFutex(RdFutex, Word(rd.kernel, rd.locked + 2)), UNCHANGED wr,
         seen' \in [Threads -> FutexWord], \A u \in Threads \ {t} : seen'[u] = seen[u]
  PROVE  RwInv'
<1>1. rd \in FutexWord /\ rd.kernel \in {0, 1} /\ rd.locked \in Nat
  BY RwWord DEF RwAssumption, RwInv, RwTypeOK, rd
<1>2. rd.locked + 2 \in Nat
  BY <1>1
<1>3. /\ Word(rd.kernel, rd.locked + 2) \in FutexWord
      /\ Word(rd.kernel, rd.locked + 2).locked = rd.locked + 2
  BY Zenon, <1>1, <1>2, RwWord
<1>4. /\ futex' \in [Futexes -> FutexWord]
      /\ rd' = Word(rd.kernel, rd.locked + 2)
      /\ futex'[WaitFutex] = futex[WaitFutex]
  BY Zenon, <1>3 DEF SetFutex, rd, RwAssumption, RwInv, RwTypeOK
<1>5. ~Claimed
  BY Zenon, RwOdd DEF RwInv
<1>6. \A u \in Threads : Loc(u) \notin {"writing", "w_cas"}
  BY Zenon, <1>5 DEF Claimed, RwInv, Owners
<1>7. RwTypeOK' /\ Owners' /\ Quiet' /\ Barred' /\ Recalled'
  BY Zenon, <1>4, <1>6 DEF RwInv, RwTypeOK, Owners, Quiet, Barred, Recalled, Moved
<1>8. ~Claimed'
  BY Zenon, <1>5 DEF Claimed, Moved, RwInv, Owners
<1>9. /\ Cardinality(Reading) \in Nat
      /\ Cardinality(Reading') = Cardinality(Reading) + 1
  BY Zenon, RwReaders3
<1>10. rd.locked = 2 * Cardinality(Reading)
  BY <1>5, <1>9 DEF RwInv, ReadersCounted
<1>11. ReadersCounted'
  <2>1. rd'.locked = rd.locked + 2
    BY Zenon, <1>3, <1>4
  <2>2. rd'.locked = 2 * Cardinality(Reading')
    BY <1>9, <1>10, <2>1
  <2> QED
    BY <1>8, <1>9, <2>2 DEF ReadersCounted
<1> QED
  BY Zenon, <1>7, <1>11 DEF RwInv
\* rwlock_rlock and both halves of rwlock_rtrylock.
LEMMA RwReadStep ==
  ASSUME RwAssumption, RwInv, NEW t \in Threads, rwlock_rlock(t) \/ rwlock_rtrylock(t)
  PROVE  RwInv'
<1>0. /\ RwShape /\ seen \in [Threads -> FutexWord]
      /\ rd \in FutexWord
  BY Zenon DEF RwInv, RwTypeOK, RwAssumption, rd
<1>1. CASE rwlock_rlock(t)
  <2>0. pc[t] = "r_lock" /\ UNCHANGED <<seen, wr>>
    BY Zenon, <1>1 DEF rwlock_rlock
  <2>1. CASE Odd(rd.locked)
    <3>1. Goto(t, "r_wait") /\ UNCHANGED futex
      BY Zenon, <1>1, <2>1 DEF rwlock_rlock
    <3>2. RwShape' /\ Moved(t, "r_wait") /\ Loc(t) = pc[t]
      BY Zenon, <1>0, <2>0, <3>1, RwGoto DEF WaitLabels
    <3> QED
      BY Zenon, <1>0, <2>0, <3>1, <3>2, RwPlain
  <2>2. CASE ~Odd(rd.locked)
    <3>1. Goto(t, "reading") /\ SetFutex(RdFutex, Word(rd.kernel, rd.locked + 2))
      BY Zenon, <1>1, <2>2 DEF rwlock_rlock
    <3>2. RwShape' /\ Moved(t, "reading") /\ Loc(t) = pc[t]
      BY Zenon, <1>0, <2>0, <3>1, RwGoto DEF WaitLabels
    <3> QED
      BY Zenon, <1>0, <2>0, <2>2, <3>1, <3>2, RwEnters
  <2> QED
    BY Zenon, <2>1, <2>2
<1>2. CASE rwlock_rtrylock(t) /\ pc[t] = "r_try"
  <2>1. /\ seen' = [seen EXCEPT ![t] = rd]
        /\ Goto(t, IF Odd(rd.locked) THEN "idle" ELSE "r_try_cas")
        /\ UNCHANGED <<futex, wr>>
    BY Zenon, <1>2 DEF rwlock_rtrylock
  <2>2. PICK l \in {"idle", "r_try_cas"} : Goto(t, l) /\ (l = "r_try_cas" => ~Odd(rd.locked))
    BY Zenon, <2>1
  <2>3. RwShape' /\ Moved(t, l) /\ Loc(t) = pc[t]
    BY Zenon, <1>0, <1>2, <2>2, RwGoto DEF WaitLabels
  <2>4. /\ seen' \in [Threads -> FutexWord] /\ seen'[t] = rd
        /\ \A u \in Threads \ {t} : seen'[u] = seen[u]
    BY Zenon, <1>0, <2>1
  <2> QED
    BY Zenon, <1>2, <2>1, <2>2, <2>3, <2>4, RwPlain
<1>3. CASE rwlock_rtrylock(t) /\ pc[t] = "r_try_cas"
  <2>1. Forget(t) /\ UNCHANGED wr
    BY Zenon, <1>3 DEF rwlock_rtrylock
  <2>2. Word(0, 0) \in FutexWord
    BY RwWord
  <2>3. /\ seen' \in [Threads -> FutexWord]
        /\ \A u \in Threads \ {t} : seen'[u] = seen[u]
    BY Zenon, <1>0, <2>1, <2>2 DEF Forget
  <2>4. CASE rd = seen[t]
    <3>1. Goto(t, "reading") /\ SetFutex(RdFutex, Word(rd.kernel, rd.locked + 2))
      BY Zenon, <1>3, <2>4 DEF rwlock_rtrylock
    <3>2. RwShape' /\ Moved(t, "reading") /\ Loc(t) = pc[t]
      BY Zenon, <1>0, <1>3, <3>1, RwGoto DEF WaitLabels
    <3>3. ~Odd(rd.locked)
      BY Zenon, <1>3, <2>4, <3>2 DEF RwInv, Recalled
    <3> QED
      BY Zenon, <1>3, <2>1, <2>3, <3>1, <3>2, <3>3, RwEnters
  <2>5. CASE rd # seen[t]
    <3>1. Goto(t, "idle") /\ UNCHANGED futex
      BY Zenon, <1>3, <2>5 DEF rwlock_rtrylock
    <3>2. RwShape' /\ Moved(t, "idle") /\ Loc(t) = pc[t]
      BY Zenon, <1>0, <1>3, <3>1, RwGoto DEF WaitLabels
    <3> QED
      BY Zenon, <1>3, <2>1, <2>3, <3>1, <3>2, RwPlain
  <2> QED
    BY Zenon, <2>4, <2>5
<1> QED
  BY Zenon, <1>1, <1>2, <1>3 DEF rwlock_rtrylock

\* A reader leaves; the last one, when a writer waits, has still to wake it.
LEMMA RwLeaveStep ==
  ASSUME RwAssumption, RwInv, NEW t \in Threads, rwlock_runlock(t)
  PROVE  RwInv'
<1>0. pc[t] = "reading" /\ UNCHANGED <<seen, wr>>
  BY Zenon DEF rwlock_runlock
<1>1. Loc(t) = "reading"
  BY Zenon, <1>0 DEF Loc, WaitLabels
<1>2. /\ Cardinality(Reading) \in Nat /\ Cardinality(Reading) > 0
  <2>1. IsFiniteSet(Reading) /\ Cardinality(Reading) \in Nat
    BY FS_Subset, FS_CardinalityType DEF RwAssumption, Reading
  <2>2. t \in Reading
    BY Zenon, <1>1 DEF Reading
  <2>3. Cardinality(Reading) # 0
    BY <2>1, <2>2, FS_EmptySet
  <2> QED
    BY <2>1, <2>3
<1>3. rd.locked \in Nat /\ rd.locked > 1 /\ ~(rd.locked <= 1) /\ rd.locked - 2 \in Nat
  BY <1>2 DEF RwInv, ReadersCounted
<1>4. rd \in FutexWord /\ rd.kernel \in {0, 1}
  BY RwWord DEF RwAssumption, RwInv, RwTypeOK, rd
<1>5. SetFutex(RdFutex, Word(rd.kernel, rd.locked - 2))
  BY Zenon, <1>3 DEF rwlock_runlock
<1>6. PICK l \in {"r_kernel", "idle"} : Goto(t, l)
  BY Zenon, <1>3 DEF rwlock_runlock
<1>7. RwShape' /\ Moved(t, l)
  BY Zenon, <1>0, <1>6, RwGoto DEF RwInv, RwTypeOK, WaitLabels
<1>8. /\ Word(rd.kernel, rd.locked - 2) \in FutexWord
      /\ Word(rd.kernel, rd.locked - 2).locked = rd.locked - 2
  BY Zenon, <1>3, <1>4, RwWord
<1>9. /\ futex' \in [Futexes -> FutexWord]
      /\ rd' = Word(rd.kernel, rd.locked - 2)
      /\ futex'[WaitFutex] = futex[WaitFutex]
  BY Zenon, <1>5, <1>8 DEF SetFutex, rd, RwAssumption, RwInv, RwTypeOK
<1>10. \A u \in Threads : Loc(u) \notin {"writing", "w_cas"}
  <2>1. Word(0, 1).locked = 1
    BY RwWord
  <2>2. rd # Word(0, 1)
    BY <1>3, <2>1
  <2> QED
    BY Zenon, <2>2 DEF RwInv, Quiet
<1>11. RwTypeOK' /\ Owners' /\ Quiet' /\ Barred' /\ Recalled'
  BY Zenon, <1>0, <1>1, <1>6, <1>7, <1>9, <1>10
  DEF RwInv, RwTypeOK, Owners, Quiet, Barred, Recalled, Moved
<1>12. Claimed' <=> Claimed
  BY Zenon, <1>0, <1>1, <1>6, <1>7 DEF Claimed, Moved
<1>13. Cardinality(Reading') = Cardinality(Reading) - 1
  BY Zenon, <1>1, <1>6, <1>7, RwReaders3
<1>14. ReadersCounted'
  <2>1. rd'.locked = rd.locked - 2
    BY Zenon, <1>8, <1>9
  <2> QED
    BY <1>2, <1>12, <1>13, <2>1 DEF RwInv, ReadersCounted
<1> QED
  BY Zenon, <1>11, <1>14 DEF RwInv
\* The last reader clears the kernel bit and enters the kernel to wake the writer.
LEMMA RwLastStep ==
  ASSUME RwAssumption, RwInv, NEW t \in Threads, rwlock_runlock_kernel(t)
  PROVE  RwInv'
<1>0. pc[t] = "r_kernel" /\ UNCHANGED <<seen, wr>> /\ RwShape /\ seen \in [Threads -> FutexWord]
  BY Zenon DEF rwlock_runlock_kernel, RwInv, RwTypeOK
<1>1. CASE rd.kernel = 0
  <2>1. Goto(t, "idle") /\ UNCHANGED futex
    BY Zenon, <1>1 DEF rwlock_runlock_kernel
  <2>2. RwShape' /\ Moved(t, "idle") /\ Loc(t) = pc[t]
    BY Zenon, <1>0, <2>1, RwGoto DEF WaitLabels
  <2> QED
    BY Zenon, <1>0, <2>1, <2>2, RwPlain
<1>2. CASE rd.kernel # 0
  <2>1. /\ SetFutex(RdFutex, Word(0, rd.locked))
        /\ EnterKernel(t, "sys_wake", WhenNe(RdFutex, 0, "idle"))
    BY Zenon, <1>2 DEF rwlock_runlock_kernel
  <2>2. WhenNe(RdFutex, 0, "idle").ret = "idle" /\ "idle" \in RwReturns
    BY DEF WhenNe, RwReturns
  <2>3. RwShape' /\ Moved(t, "idle") /\ Loc(t) = "r_kernel"
    BY Zenon, <1>0, <2>1, <2>2, RwEnter DEF WaitLabels
  <2>4. rd.locked \in Nat /\ Word(0, 1).kernel = 0
    BY RwWord DEF RwAssumption, RwInv, RwTypeOK, rd
  <2>5. Word(0, rd.locked) \in FutexWord /\ Word(0, rd.locked).locked = rd.locked
    BY <2>4, RwWord
  <2>6. /\ futex' \in [Futexes -> FutexWord]
        /\ rd'.locked = rd.locked
        /\ futex'[WaitFutex] = futex[WaitFutex]
    BY Zenon, <2>1, <2>5 DEF SetFutex, rd, RwAssumption, RwInv, RwTypeOK
  <2>7. \A u \in Threads : Loc(u) \notin {"writing", "w_cas"}
    BY Zenon, <1>2, <2>4 DEF RwInv, Quiet
  <2>8. RwTypeOK' /\ Owners' /\ Quiet' /\ Barred' /\ Recalled'
    BY Zenon, <1>0, <2>3, <2>6, <2>7
    DEF RwInv, RwTypeOK, Owners, Quiet, Barred, Recalled, Moved
  <2>9. ReadersCounted'
    BY Zenon, <2>3, <2>6, <2>8, RwAside
  <2> QED
    BY Zenon, <2>8, <2>9 DEF RwInv
<1> QED
  BY Zenon, <1>1, <1>2

\* A writer takes wr_futex, and gives it back.
LEMMA RwWriterStep ==
  ASSUME RwAssumption, RwInv, NEW t \in Threads, rwlock_wlock(t) \/ UnlockWriters(t)
  PROVE  RwInv'
<1>0. /\ RwShape /\ UNCHANGED <<futex, seen>>
      /\ rd' = rd
  BY Zenon DEF rwlock_wlock, UnlockWriters, RwInv, RwTypeOK, rd
<1>1. CASE rwlock_wlock(t)
  <2>1. pc[t] = "w_lock" /\ wr = NoThread /\ wr' = t /\ Goto(t, "w_try")
    BY Zenon, <1>1 DEF rwlock_wlock
  <2>2. RwShape' /\ Moved(t, "w_try") /\ Loc(t) = "w_lock"
    BY Zenon, <1>0, <2>1, RwGoto DEF WaitLabels
  <2>3. RwTypeOK' /\ Owners' /\ Quiet' /\ Barred' /\ Recalled'
    BY Zenon, <1>0, <2>1, <2>2, ThreadsAssumption
    DEF RwInv, RwTypeOK, Owners, Quiet, Barred, Recalled, Moved
  <2>4. ReadersCounted'
    BY Zenon, <1>0, <2>2, <2>3, RwAside
  <2> QED
    BY Zenon, <2>3, <2>4 DEF RwInv
<1>2. CASE UnlockWriters(t)
  <2>1. pc[t] = "w_done" /\ wr' = NoThread /\ Goto(t, "idle")
    BY Zenon, <1>2 DEF UnlockWriters
  <2>2. RwShape' /\ Moved(t, "idle") /\ Loc(t) = "w_done"
    BY Zenon, <1>0, <2>1, RwGoto DEF WaitLabels
  <2>3. wr = t
    BY Zenon, <2>2 DEF RwInv, Owners
  <2>4. RwTypeOK' /\ Owners' /\ Quiet' /\ Barred' /\ Recalled'
    BY Zenon, <1>0, <2>1, <2>2, <2>3, ThreadsAssumption
    DEF RwInv, RwTypeOK, Owners, Quiet, Barred, Recalled, Moved
  <2>5. ReadersCounted'
    BY Zenon, <1>0, <2>2, <2>4, RwAside
  <2> QED
    BY Zenon, <2>4, <2>5 DEF RwInv
<1> QED
  BY Zenon, <1>1, <1>2

\* The trylock of wait_futex does not fail: only the owner of wr_futex locks
\* it, and readers do not change it while it is not locked.
LEMMA RwTryStep ==
  ASSUME RwAssumption, RwInv, NEW t \in Threads, TryWaitFutex(t)
  PROVE  RwInv'
<1>0. RwShape /\ UNCHANGED wr /\ futex[WaitFutex] \in FutexWord
  BY Zenon DEF TryWaitFutex, RwInv, RwTypeOK, RwAssumption
<1>1. CASE pc[t] = "w_try"
  <2>1. Loc(t) = "w_try"
    BY Zenon, <1>1 DEF Loc, WaitLabels
  <2>2. wr = t /\ futex[WaitFutex].locked = 0
    BY Zenon, <2>1 DEF RwInv, Owners, Barred
  <2>3. seen' = [seen EXCEPT ![t] = futex[WaitFutex]] /\ Goto(t, "w_try_cas") /\ UNCHANGED futex
    BY Zenon, <1>1, <2>2 DEF TryWaitFutex
  <2>4. RwShape' /\ Moved(t, "w_try_cas")
    BY Zenon, <1>0, <1>1, <2>3, RwGoto DEF WaitLabels
  <2>5. rd' = rd
    BY Zenon, <2>3 DEF rd
  <2>6. RwTypeOK' /\ Owners' /\ Quiet' /\ Barred' /\ Recalled'
    BY Zenon, <1>0, <2>1, <2>2, <2>3, <2>4, <2>5
    DEF RwInv, RwTypeOK, Owners, Quiet, Barred, Recalled, Moved
  <2>7. ReadersCounted'
    BY Zenon, <2>1, <2>4, <2>5, <2>6, RwAside
  <2> QED
    BY Zenon, <2>6, <2>7 DEF RwInv
<1>2. CASE pc[t] = "w_try_cas"
  <2>1. Loc(t) = "w_try_cas"
    BY Zenon, <1>2 DEF Loc, WaitLabels
  <2>2. wr = t /\ futex[WaitFutex] = seen[t]
    BY Zenon, <2>1 DEF RwInv, Owners, Recalled
  <2>3. SetFutex(WaitFutex, Word(seen[t].kernel, 1)) /\ Goto(t, "w_register") /\ Forget(t)
    BY Zenon, <1>2, <2>2 DEF TryWaitFutex
  <2>4. RwShape' /\ Moved(t, "w_register")
    BY Zenon, <1>0, <1>2, <2>3, RwGoto DEF WaitLabels
  <2>5. Word(seen[t].kernel, 1) \in FutexWord /\ Word(0, 0) \in FutexWord
    BY <1>0, <2>2, RwWord
  <2>6. /\ futex' \in [Futexes -> FutexWord] /\ rd' = rd
        /\ seen' \in [Threads -> FutexWord] /\ \A u \in Threads \ {t} : seen'[u] = seen[u]
    BY Zenon, <2>3, <2>5 DEF SetFutex, Forget, rd, RwAssumption, RwInv, RwTypeOK
  <2>7. \A u \in Threads \ {t} : Loc(u) # "w_try_cas"
    BY Zenon, <2>2 DEF RwInv, Owners
  <2>8. RwTypeOK' /\ Owners' /\ Quiet' /\ Barred' /\ Recalled'
    BY Zenon, <1>0, <2>1, <2>2, <2>4, <2>6, <2>7
    DEF RwInv, RwTypeOK, Owners, Quiet, Barred, Recalled, Moved
  <2>9. ReadersCounted'
    BY Zenon, <2>1, <2>4, <2>6, <2>8, RwAside
  <2> QED
    BY Zenon, <2>8, <2>9 DEF RwInv
<1> QED
  BY Zenon, <1>1, <1>2 DEF TryWaitFutex
\* The writer sets its bit, which is clear, and then waits for the readers.
LEMMA RwRegisterStep ==
  ASSUME RwAssumption, RwInv, NEW t \in Threads, Register(t)
  PROVE  RwInv'
<1>0. pc[t] = "w_register" /\ UNCHANGED <<seen, wr>>
  BY Zenon DEF Register
<1>1. Loc(t) = "w_register"
  BY Zenon, <1>0 DEF Loc, WaitLabels
<1>2. wr = t /\ ~Claimed
  BY Zenon, <1>1 DEF RwInv, Owners, Claimed
<1>3. ~Odd(rd.locked) /\ rd.locked \in Nat
  BY Zenon, <1>2, RwOdd DEF RwInv
<1>4. SetFutex(RdFutex, Word(rd.kernel, rd.locked + 1)) /\ Goto(t, "w_reads")
  BY Zenon, <1>3 DEF Register
<1>5. RwShape' /\ Moved(t, "w_reads")
  BY Zenon, <1>0, <1>4, RwGoto DEF RwInv, RwTypeOK, WaitLabels
<1>6. rd.kernel \in {0, 1} /\ rd.locked + 1 \in Nat
  BY <1>3, RwWord DEF RwAssumption, RwInv, RwTypeOK, rd
<1>7. /\ Word(rd.kernel, rd.locked + 1) \in FutexWord
      /\ Word(rd.kernel, rd.locked + 1).locked = rd.locked + 1
  BY Zenon, <1>6, RwWord
<1>8. /\ futex' \in [Futexes -> FutexWord]
      /\ rd'.locked = rd.locked + 1
      /\ futex'[WaitFutex] = futex[WaitFutex]
  BY Zenon, <1>4, <1>7 DEF SetFutex, rd, RwAssumption, RwInv, RwTypeOK
<1>9. \A u \in Threads : Loc(u) \notin {"writing", "w_cas"}
  BY Zenon, <1>1, <1>2 DEF RwInv, Owners
<1>10. RwTypeOK' /\ Owners' /\ Quiet' /\ Barred' /\ Recalled'
  BY Zenon, <1>0, <1>1, <1>2, <1>5, <1>8, <1>9
  DEF RwInv, RwTypeOK, Owners, Quiet, Barred, Recalled, Moved
<1>11. Claimed'
  BY Zenon, <1>0, <1>2, <1>5 DEF Claimed, Moved
<1>12. Reading' = Reading /\ Cardinality(Reading) \in Nat
  <2>1. Loc(t) # "reading" /\ "w_reads" # "reading"
    BY Zenon, <1>1
  <2>2. Cardinality(Reading) \in Nat
    BY Zenon, <1>5, RwReaders3
  <2> QED
    BY Zenon, <1>5, <2>1, <2>2, RwReaders3
<1>13. ReadersCounted'
  <2>1. rd.locked = 2 * Cardinality(Reading)
    BY <1>2, <1>12 DEF RwInv, ReadersCounted
  <2> QED
    BY <1>8, <1>11, <1>12, <2>1 DEF ReadersCounted
<1> QED
  BY Zenon, <1>10, <1>13 DEF RwInv

\* The writer goes on when rd_futex has its bit only, and else sets the kernel
\* bit and waits.
LEMMA RwReadsStep ==
  ASSUME RwAssumption, RwInv, NEW t \in Threads, wait_for_reads(t)
  PROVE  RwInv'
<1>0. pc[t] = "w_reads" /\ UNCHANGED <<seen, wr>> /\ RwShape
  BY Zenon DEF wait_for_reads, RwInv, RwTypeOK
<1>1. Loc(t) = "w_reads"
  BY Zenon, <1>0 DEF Loc, WaitLabels
<1>2. wr = t
  BY Zenon, <1>1 DEF RwInv, Owners
<1>3. rd.locked \in Nat /\ 0 \in {0, 1} /\ 1 \in {0, 1} /\ 1 \in Nat
  BY RwOdd DEF RwInv
<1>4. PICK k \in {0, 1}, l \in {"writing", "w_reads"} :
        /\ SetFutex(RdFutex, Word(k, rd.locked))
        /\ RwShape' /\ Moved(t, l)
        /\ l = "writing" => k = 0 /\ rd.locked = 1
  <2>1. CASE rd.locked = 1
    <3>1. SetFutex(RdFutex, Word(0, rd.locked)) /\ Goto(t, "writing")
      BY Zenon, <2>1 DEF wait_for_reads
    <3>2. RwShape' /\ Moved(t, "writing")
      BY Zenon, <1>0, <3>1, RwGoto DEF WaitLabels
    <3> QED
      BY Zenon, <1>3, <2>1, <3>1, <3>2
  <2>2. CASE rd.locked # 1
    <3>1. /\ SetFutex(RdFutex, Word(1, rd.locked))
          /\ EnterKernel(t, "sys_wait", WhenNe(RdFutex, 1, "w_reads"))
      BY Zenon, <2>2 DEF wait_for_reads
    <3>2. WhenNe(RdFutex, 1, "w_reads").ret = "w_reads" /\ "w_reads" \in RwReturns
      BY DEF WhenNe, RwReturns
    <3>3. RwShape' /\ Moved(t, "w_reads")
      BY Zenon, <1>0, <3>1, <3>2, RwEnter DEF WaitLabels
    <3>4. "w_reads" # "writing"
      OBVIOUS
    <3> QED
      BY Zenon, <1>3, <3>1, <3>3, <3>4
  <2> QED
    BY Zenon, <2>1, <2>2
<1>5. Word(k, rd.locked) \in FutexWord /\ Word(k, rd.locked).locked = rd.locked
  BY Zenon, <1>3, RwWord
<1>6. /\ futex' \in [Futexes -> FutexWord]
      /\ rd' = Word(k, rd.locked)
      /\ futex'[WaitFutex] = futex[WaitFutex]
  BY Zenon, <1>4, <1>5 DEF SetFutex, rd, RwAssumption, RwInv, RwTypeOK
<1>7. \A u \in Threads : Loc(u) \notin {"writing", "w_cas"}
  BY Zenon, <1>1, <1>2 DEF RwInv, Owners
<1>8. RwTypeOK' /\ Owners' /\ Quiet' /\ Barred' /\ Recalled'
  BY Zenon, <1>0, <1>1, <1>2, <1>4, <1>6, <1>7
  DEF RwInv, RwTypeOK, Owners, Quiet, Barred, Recalled, Moved
<1>9. ReadersCounted'
  BY Zenon, <1>1, <1>4, <1>5, <1>6, <1>8, RwAside
<1> QED
  BY Zenon, <1>8, <1>9 DEF RwInv

\* The writer finds rd_futex as it left it, and clears its bit.
LEMMA RwUnlockStep ==
  ASSUME RwAssumption, RwInv, NEW t \in Threads, rwlock_wunlock(t)
  PROVE  RwInv'
<1>0. RwShape /\ UNCHANGED wr /\ rd \in FutexWord
  BY Zenon DEF rwlock_wunlock, RwInv, RwTypeOK, RwAssumption, rd
<1>1. Word(0, 1).locked = 1 /\ Word(0, 1).kernel = 0 /\ Word(0, 0) \in FutexWord
  BY RwWord
<1>2. CASE pc[t] = "writing"
  <2>1. Loc(t) = "writing"
    BY Zenon, <1>2 DEF Loc, WaitLabels
  <2>2. wr = t /\ rd = Word(0, 1)
    BY Zenon, <2>1 DEF RwInv, Owners, Quiet
  <2>3. seen' = [seen EXCEPT ![t] = rd] /\ Goto(t, "w_cas") /\ UNCHANGED futex
    BY Zenon, <1>1, <1>2, <2>2 DEF rwlock_wunlock
  <2>4. RwShape' /\ Moved(t, "w_cas")
    BY Zenon, <1>0, <1>2, <2>3, RwGoto DEF WaitLabels
  <2>5. rd' = rd
    BY Zenon, <2>3 DEF rd
  <2>6. RwTypeOK' /\ Owners' /\ Quiet' /\ Barred' /\ Recalled'
    BY Zenon, <1>0, <2>1, <2>2, <2>3, <2>4, <2>5
    DEF RwInv, RwTypeOK, Owners, Quiet, Barred, Recalled, Moved
  <2>7. ReadersCounted'
    BY Zenon, <2>1, <2>4, <2>5, <2>6, RwAside
  <2> QED
    BY Zenon, <2>6, <2>7 DEF RwInv
<1>3. CASE pc[t] = "w_cas"
  <2>1. Loc(t) = "w_cas"
    BY Zenon, <1>3 DEF Loc, WaitLabels
  <2>2. wr = t /\ rd = Word(0, 1) /\ rd = seen[t]
    BY Zenon, <2>1 DEF RwInv, Owners, Quiet, Recalled
  <2>3. SetFutex(RdFutex, Word(0, 0)) /\ Goto(t, "w_unlock") /\ Forget(t)
    BY Zenon, <1>1, <1>3, <2>2 DEF rwlock_wunlock
  <2>4. RwShape' /\ Moved(t, "w_unlock")
    BY Zenon, <1>0, <1>3, <2>3, RwGoto DEF WaitLabels
  <2>5. /\ futex' \in [Futexes -> FutexWord] /\ rd' = Word(0, 0)
        /\ futex'[WaitFutex] = futex[WaitFutex]
        /\ seen' \in [Threads -> FutexWord] /\ \A u \in Threads \ {t} : seen'[u] = seen[u]
    BY Zenon, <1>1, <2>3 DEF SetFutex, Forget, rd, RwAssumption, RwInv, RwTypeOK
  <2>6. \A u \in Threads \ {t} : Loc(u) \notin {"writing", "w_cas"}
    BY Zenon, <2>2 DEF RwInv, Owners
  <2>7. RwTypeOK' /\ Owners' /\ Quiet' /\ Barred' /\ Recalled'
    BY Zenon, <1>0, <2>1, <2>2, <2>4, <2>5, <2>6
    DEF RwInv, RwTypeOK, Owners, Quiet, Barred, Recalled, Moved
  <2>8. Reading' = Reading /\ Reading = {}
    <3>1. Loc(t) # "reading" /\ "w_unlock" # "reading"
      BY Zenon, <2>1
    <3>2. Reading' = Reading
      BY Zenon, <2>4, <3>1, RwReaders3
    <3> QED
      BY Zenon, <1>1, <2>2, <3>2, RwOdd DEF RwInv
  <2>9. ~Claimed'
    BY Zenon, <1>0, <2>2, <2>4 DEF Claimed, Moved
  <2>10. ReadersCounted'
    <3>1. Cardinality({}) = 0 /\ Word(0, 0).locked = 0
      BY FS_EmptySet, RwWord
    <3>2. Cardinality(Reading') = 0 /\ rd'.locked = 0
      BY Zenon, <2>5, <2>8, <3>1
    <3> QED
      BY <2>9, <3>2 DEF ReadersCounted
  <2> QED
    BY Zenon, <2>7, <2>10 DEF RwInv
<1> QED
  BY Zenon, <1>2, <1>3 DEF rwlock_wunlock
\* The writer unlocks wait_futex, whatever word is in it.
LEMMA RwOpenStep ==
  ASSUME RwAssumption, RwInv, NEW t \in Threads, UnlockWaitFutex(t)
  PROVE  RwInv'
<1> DEFINE w == futex[WaitFutex]
<1>0. RwShape /\ UNCHANGED <<seen, wr>> /\ w \in FutexWord /\ futex \in [Futexes -> FutexWord]
  BY Zenon DEF UnlockWaitFutex, RwInv, RwTypeOK, RwAssumption
<1>1. pc[t] \in {"w_unlock", "w_kernel"}
  BY Zenon DEF UnlockWaitFutex
<1>2. Loc(t) = pc[t]
  BY Zenon, <1>1 DEF Loc, WaitLabels
<1>3. wr = t
  BY Zenon, <1>1, <1>2 DEF RwInv, Owners
<1>4. Word(w.kernel, 0) \in FutexWord /\ Word(w.kernel, 0).locked = 0
      /\ Word(0, 0) \in FutexWord /\ Word(0, 0).locked = 0
  BY <1>0, RwWord
<1>5. pc[t] = "w_kernel" => w.locked = 0
  BY Zenon, <1>2, <1>3 DEF RwInv, Barred
<1>6. PICK g \in FutexWord : futex' = [futex EXCEPT ![WaitFutex] = g] /\ g.locked = 0
  <2>1. w.locked = 0 => futex = [futex EXCEPT ![WaitFutex] = w]
    BY Zenon, <1>0
  <2> QED
    BY Zenon, <1>0, <1>4, <1>5, <2>1 DEF UnlockWaitFutex, SetFutex
<1>7. PICK l \in {"w_done", "w_kernel"} : RwShape' /\ Moved(t, l)
  <2>1. WhenEq(WaitFutex, 0, "w_done").ret = "w_done" /\ "w_done" \in RwReturns
    BY DEF WhenEq, RwReturns
  <2>2. \/ \E l \in {"w_done", "w_kernel"} : Goto(t, l)
        \/ EnterKernel(t, "sys_wake", WhenEq(WaitFutex, 0, "w_done"))
    BY Zenon DEF UnlockWaitFutex
  <2>3. CASE \E l \in {"w_done", "w_kernel"} : Goto(t, l)
    BY Zenon, <1>0, <1>1, <2>3, RwGoto DEF WaitLabels
  <2>4. CASE EnterKernel(t, "sys_wake", WhenEq(WaitFutex, 0, "w_done"))
    <3>1. RwShape' /\ Moved(t, "w_done")
      BY Zenon, <1>0, <1>1, <2>1, <2>4, RwEnter DEF WaitLabels
    <3> QED
      BY Zenon, <3>1
  <2> QED
    BY Zenon, <2>2, <2>3, <2>4
<1>8. /\ futex' \in [Futexes -> FutexWord] /\ rd' = rd
      /\ futex'[WaitFutex].locked = 0
  BY Zenon, <1>0, <1>6 DEF rd, RwAssumption
<1>9. \A u \in Threads : Loc(u) # "w_try_cas"
  BY Zenon, <1>1, <1>2, <1>3 DEF RwInv, Owners
<1>10. RwTypeOK' /\ Owners' /\ Quiet' /\ Barred' /\ Recalled'
  BY Zenon, <1>0, <1>1, <1>2, <1>3, <1>7, <1>8, <1>9
  DEF RwInv, RwTypeOK, Owners, Quiet, Barred, Recalled, Moved
<1>11. ReadersCounted'
  BY Zenon, <1>1, <1>2, <1>7, <1>8, <1>10, RwAside
<1> QED
  BY Zenon, <1>10, <1>11 DEF RwInv

\* A step of the kernel, or of nobody.
LEMMA RwStillStep ==
  ASSUME RwInv, RwShape', \A u \in Threads : Loc(u)' = Loc(u), UNCHANGED <<futex, seen, wr>>
  PROVE  RwInv'
<1>1. RwTypeOK' /\ Owners' /\ Quiet' /\ Barred' /\ Recalled'
  BY Zenon DEF RwInv, RwTypeOK, Owners, Quiet, Barred, Recalled, rd
<1>2. Reading' = Reading /\ (Claimed' <=> Claimed)
  BY Zenon DEF Reading, Claimed
<1>3. ReadersCounted'
  BY Zenon, <1>2 DEF RwInv, ReadersCounted, rd
<1> QED
  BY Zenon, <1>1, <1>3 DEF RwInv

\* For any number of readers and writers, and whatever word futex_wait swaps
\* in: a writer of rwlock_wlock writes alone, and none of the "Inconsistent
\* rwlock state" panics of rwlock.c is reached.
THEOREM RwLockIsSafe ==
  ASSUME RwAssumption
  PROVE  RwSpec => [](WriterAlone /\ RwConsistent)
<1>1. RwInit => RwInv
  BY RwInitInv
<1>2. RwInv /\ [RwNext]_rwVars => RwInv'
  <2> SUFFICES ASSUME RwInv, [RwNext]_rwVars PROVE RwInv'
    OBVIOUS
  <2>1. CASE UNCHANGED rwVars
    <3>1. RwShape' /\ (\A u \in Threads : Loc(u)' = Loc(u)) /\ UNCHANGED <<futex, seen, wr>>
      BY Zenon, <2>1 DEF rwVars, RwInv, RwTypeOK, RwShape, Loc
    <3> QED
      BY Zenon, <3>1, RwStillStep
  <2>2. ASSUME NEW t \in Threads, RwKernel(t) PROVE RwInv'
    BY Zenon, <2>2, RwKernelStep, RwStillStep DEF RwKernel, RwInv, RwTypeOK
  <2>3. ASSUME NEW t \in Threads, RwStep(t) PROVE RwInv'
    BY Zenon, <2>2, <2>3, RwBeginStep, RwWaitStep, RwReadStep, RwLeaveStep, RwLastStep,
       RwWriterStep, RwTryStep, RwRegisterStep, RwReadsStep, RwUnlockStep, RwOpenStep
    DEF RwStep
  <2> QED
    BY Zenon, <2>1, <2>3 DEF RwNext
<1>3. RwInv => WriterAlone /\ RwConsistent
  <2> SUFFICES ASSUME RwInv PROVE WriterAlone /\ RwConsistent
    OBVIOUS
  <2>2. \A t \in Threads : pc[t] \in {"reading", "writing", "w_cas", "panic"} => Loc(t) = pc[t]
    BY Zenon DEF Loc, WaitLabels
  <2>3. RwConsistent
    BY Zenon, <2>2 DEF RwInv, Recalled, RwConsistent
  <2>4. ASSUME NEW w \in Threads, Loc(w) \in {"writing", "w_cas"} PROVE Reading = {}
    <3>1. rd = Word(0, 1)
      BY Zenon, <2>4 DEF RwInv, Quiet
    <3>2. rd.locked = 1
      BY <3>1, RwWord
    <3> QED
      BY Zenon, <3>2, RwOdd DEF RwInv
  <2>5. WriterAlone
    BY Zenon, <2>2, <2>4 DEF WriterAlone, RwAssumption, RwInv, Owners, Reading
  <2> QED
    BY Zenon, <2>3, <2>5
<1> QED
  BY <1>1, <1>2, <1>3, PTL DEF RwSpec
=============================================================================
