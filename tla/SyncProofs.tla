----------------------------- MODULE SyncProofs -----------------------------
(***************************************************************************)
(* The libc condition variable, semaphore and barrier, and the pipe that   *)
(* is built from two semaphores, for any number of threads.  Each has      *)
(* variables of its own, all but the barrier beside those of the kernel's  *)
(* wait queue, and its theorem is about its own specification.             *)
(***************************************************************************)
EXTENDS CondVar, Pipe, Barrier, FiniteSetTheorems, TLAPS

-----------------------------------------------------------------------------
\* cond_wait never returns before the signal, for any number of waiters and
\* signallers.

CondCalls ==
  [obj : Futexes, op : {"eq"}, val : {0, 1}, ret : {"none", "woken", "done"}]

CondTypeOK ==
  /\ pc \in [Threads -> {"idle", "cond_wait", "cond_signal", "signal_kernel",
                         "woken", "done"} \cup WaitLabels]
  /\ futex \in [Futexes -> [kernel : {0, 1}, locked : {0, 1}]]
  /\ call \in [Threads -> CondCalls]
  /\ kbit \in [Threads -> {0, 1}]
  /\ waiting \subseteq {t \in Threads : pc[t] = "asleep"}

\* What is known of the word where a thread is.  A waiter that the kernel
\* refuses to put to sleep because the kernel bit is clear may return only
\* because the bit is cleared after the signal; a waker knows the signal.
Known ==
  \A t \in Threads :
    /\ pc[t] \in {"sys_wait", "wait_locked", "asleep"} =>
         call[t] = WhenEq(TheCond, 0, "woken")
    /\ pc[t] \in {"sys_wake", "wake_locked"} =>
         call[t] = WhenEq(TheCond, 1, "done")
    /\ pc[t] = "sys_wait" => cword.kernel = 1 \/ cword.locked = 1
    /\ pc[t] = "wait_locked" => kbit[t] = 1 \/ cword.locked = 1
    /\ pc[t] \in {"signal_kernel", "sys_wake", "wake_locked", "woken"} =>
         cword.locked = 1

\* The inductive invariant.
CondInv == CondTypeOK /\ Known

\* Every initial state satisfies it.
LEMMA CondInitInv ==
  ASSUME TheCond \in Futexes, CondInit
  PROVE  CondInv
<1>1. WhenEq(CHOOSE f \in Futexes : TRUE, 0, "none") \in CondCalls
  <2> DEFINE f0 == CHOOSE f \in Futexes : TRUE
  <2>1. f0 \in Futexes
    <3>1. \E f \in Futexes : TRUE
      OBVIOUS
    <3> QED
      BY <3>1, Zenon
  <2> HIDE DEF f0
  <2>2. WhenEq(f0, 0, "none") \in CondCalls
    BY <2>1 DEF WhenEq, CondCalls
  <2> QED
    BY <2>2 DEF f0
<1>2. CondTypeOK
  BY <1>1 DEF CondInit, WaitInit, CondTypeOK, WaitLabels, Word
<1>3. Known
  BY DEF CondInit, Known
<1> QED
  BY <1>2, <1>3 DEF CondInv

\* Every step of every thread preserves it.
LEMMA CondStepInv ==
  ASSUME TheCond \in Futexes, CondInv, NEW t \in Threads, CondStep(t)
  PROVE  CondInv'
<1> USE DEF CondInv
<1>a. /\ cword \in [kernel : {0, 1}, locked : {0, 1}]
      /\ cword.kernel \in {0, 1}
      /\ cword.locked \in {0, 1}
  BY DEF CondTypeOK, cword
<1>b. /\ WhenEq(TheCond, 0, "woken") \in CondCalls
      /\ WhenEq(TheCond, 1, "done") \in CondCalls
  BY DEF WhenEq, CondCalls
<1>1. CASE CondBegin(t)
  <2>1. CondTypeOK'
    BY <1>1 DEF CondBegin, Goto, waitVars, CondTypeOK, WaitLabels
  <2>2. Known'
    BY <1>1 DEF CondBegin, Goto, waitVars, CondTypeOK, Known, cword
  <2> QED
    BY <2>1, <2>2
<1>2. CASE cond_wait(t)
  <2>1. CondTypeOK'
    BY <1>2, <1>a, <1>b
    DEF cond_wait, SetCond, Word, Goto, EnterKernel, waitVars, CondTypeOK, WaitLabels
  <2>2. Known'
    BY <1>2, <1>a
    DEF cond_wait, SetCond, Word, Goto, EnterKernel, waitVars, CondTypeOK, Known, cword
  <2> QED
    BY <2>1, <2>2
<1>3. CASE cond_signal(t)
  <2>1. CondTypeOK'
    BY <1>3, <1>a
    DEF cond_signal, SetCond, Word, Goto, waitVars, CondTypeOK, WaitLabels
  <2>2. Known'
    BY <1>3, <1>a
    DEF cond_signal, SetCond, Word, Goto, waitVars, CondTypeOK, Known, cword
  <2> QED
    BY <2>1, <2>2
<1>4. CASE cond_signal_kernel(t)
  <2>1. CondTypeOK'
    BY <1>4, <1>a, <1>b
    DEF cond_signal_kernel, SetCond, Word, Goto, EnterKernel, waitVars, CondTypeOK,
        WaitLabels
  <2>2. Known'
    BY <1>4, <1>a
    DEF cond_signal_kernel, SetCond, Word, Goto, EnterKernel, waitVars, CondTypeOK,
        Known, cword
  <2> QED
    BY <2>1, <2>2
<1>5. CASE WaitEnter(t)
  <2>1. CondTypeOK'
    BY <1>5 DEF WaitEnter, EnterLocked, CondTypeOK, CondCalls, WaitLabels
  <2>2. Known'
    BY <1>5 DEF WaitEnter, EnterLocked, CondTypeOK, Known, WhenEq, cword
  <2> QED
    BY <2>1, <2>2
<1>6. CASE WakeEnter(t)
  <2>1. CondTypeOK'
    BY <1>6 DEF WakeEnter, EnterLocked, CondTypeOK, CondCalls, WaitLabels
  <2>2. Known'
    BY <1>6 DEF WakeEnter, EnterLocked, CondTypeOK, Known, WhenEq, cword
  <2> QED
    BY <2>1, <2>2
<1>7. CASE WaitDecide(t)
  <2>1. call[t] = WhenEq(TheCond, 0, "woken")
    BY <1>7 DEF WaitDecide, Known
  <2>2. ~DoWait(t) => cword.locked = 1
    BY <1>7, <2>1, <1>a DEF WaitDecide, DoWait, When, WhenEq, Known, cword
  <2>3. CondTypeOK'
    BY <1>7, <2>1 DEF WaitDecide, WhenEq, CondTypeOK, WaitLabels
  <2>4. Known'
    BY <1>7, <2>1, <2>2 DEF WaitDecide, WhenEq, CondTypeOK, Known, cword
  <2> QED
    BY <2>3, <2>4
<1>8. CASE WakeDecide(t)
  <2>1. call[t] = WhenEq(TheCond, 1, "done")
    BY <1>8 DEF WakeDecide, Known
  <2>2. \A u \in waiting : u \in Threads /\ u # t /\ call[u] = WhenEq(TheCond, 0, "woken")
    BY <1>8 DEF WakeDecide, CondTypeOK, Known
  <2>3. cword.locked = 1
    BY <1>8 DEF WakeDecide, Known
  <2>4. CondTypeOK'
    BY <1>8, <2>1, <2>2 DEF WakeDecide, Sleepers, WhenEq, CondTypeOK, WaitLabels
  <2>5. Known'
    BY <1>8, <2>1, <2>2, <2>3 DEF WakeDecide, Sleepers, WhenEq, CondTypeOK, Known, cword
  <2> QED
    BY <2>4, <2>5
<1> QED
  BY <1>1, <1>2, <1>3, <1>4, <1>5, <1>6, <1>7, <1>8 DEF CondStep, CondKernel, WaitStep

\* cond_wait makes one wait call and then returns, whatever the kernel did;
\* it still never returns before the signal, for any number of threads.
THEOREM WaitsForTheSignal ==
  ASSUME TheCond \in Futexes, CondWaiters \subseteq Threads
  PROVE  CondSpec => []NoEarlyReturn
<1>1. CondInit => CondInv
  BY CondInitInv
<1>2. CondInv /\ [CondNext]_condVars => CondInv'
  <2>1. CondInv /\ UNCHANGED condVars => CondInv'
    BY DEF CondInv, condVars, CondTypeOK, Known, cword
  <2> QED
    BY <2>1, CondStepInv DEF CondNext
<1>3. CondInv => NoEarlyReturn
  BY DEF CondInv, Known, NoEarlyReturn
<1> QED
  BY <1>1, <1>2, <1>3, PTL DEF CondSpec

-----------------------------------------------------------------------------
\* The semaphore loses and makes up no unit, for any number of takers and
\* posters, any count of a post and any limit.

SemAssumption == TheSema \in Futexes /\ PostCount \in Nat /\ MaxCount \in Nat

SemTypeOK ==
  /\ pc \in [Threads -> {"idle", "wait", "try", "try_cas", "post", "post_kernel", "none"}
                          \cup WaitLabels]
  /\ futex \in [Futexes -> FutexWord]
  /\ seen \in [Threads -> FutexWord]
  /\ posted \in Nat
  /\ taken \in Nat

\* A call never resumes a thread at the compare-and-swap of sema_trywait,
\* which has read a word with a unit in it: it cannot take a unit of none.
SeenUnit ==
  /\ call \in [Threads -> [obj : Futexes, op : {"eq", "ne"}, val : {0},
                           ret : {"none", "idle", "wait"}]]
  /\ \A t \in Threads : pc[t] = "try_cas" => seen[t].locked > 0

\* The inductive invariant.
SemInv == SemTypeOK /\ SeenUnit /\ UnitsConserved

\* The fields of a futex word, and a word of such fields.
LEMMA SemWord ==
  /\ \A w \in FutexWord : w.kernel \in {0, 1} /\ w.locked \in Nat
  /\ \A k \in {0, 1}, l \in Nat :
       Word(k, l) \in FutexWord /\ Word(k, l).kernel = k /\ Word(k, l).locked = l
  BY DEF FutexWord, Word

\* Every initial state satisfies the invariant.
LEMMA SemInitInv ==
  ASSUME SemAssumption, SemInit
  PROVE  SemInv
<1> DEFINE f0 == CHOOSE f \in Futexes : TRUE
<1>1. f0 \in Futexes
  <2>1. \E f \in Futexes : TRUE
    BY DEF SemAssumption
  <2> QED
    BY <2>1, Zenon
<1>2. call = [t \in Threads |-> WhenEq(f0, 0, "none")]
  BY DEF SemInit, WaitInit
<1> HIDE DEF f0
<1>3. SemTypeOK
  BY SemWord DEF SemInit, WaitInit, SemTypeOK
<1>4. SeenUnit
  BY <1>1, <1>2 DEF SemInit, SeenUnit, WhenEq
<1>5. UnitsConserved
  BY SemWord DEF SemAssumption, SemInit, WaitInit, UnitsConserved
<1> QED
  BY <1>3, <1>4, <1>5 DEF SemInv

\* Every step of every thread preserves it.
LEMMA SemStepInv ==
  ASSUME SemAssumption, SemInv, NEW t \in Threads, SemStep(t)
  PROVE  SemInv'
<1> USE DEF SemInv, SemAssumption
<1> DEFINE w == futex[TheSema]
<1>a. /\ w \in FutexWord /\ w.kernel \in {0, 1} /\ w.locked \in Nat
      /\ seen[t] \in FutexWord /\ seen[t].kernel \in {0, 1} /\ seen[t].locked \in Nat
  BY SemWord DEF SemTypeOK
<1>1. CASE SemBegin(t)
  BY <1>1 DEF SemBegin, Goto, waitVars, SemTypeOK, SeenUnit, UnitsConserved
<1>2. CASE SemWait(t)
  <2>1. CASE w.locked > 0
    <3>1. /\ w.locked - 1 \in Nat
          /\ futex' = [futex EXCEPT ![TheSema] = Word(w.kernel, w.locked - 1)]
          /\ pc' = [pc EXCEPT ![t] = "idle"]
          /\ taken' = taken + 1
          /\ UNCHANGED <<call, seen, posted>>
      BY <1>2, <1>a, <2>1
      DEF SemWait, sema_wait, SetFutex, Goto, waitVars, SemTypeOK
    <3>2. SemTypeOK'
      BY <3>1, <1>a, SemWord DEF SemTypeOK
    <3>3. SeenUnit'
      BY <3>1 DEF SemTypeOK, SeenUnit
    <3>4. UnitsConserved'
      BY <3>1, <1>a, SemWord DEF SemTypeOK, UnitsConserved
    <3> QED
      BY <3>2, <3>3, <3>4
  <2>2. CASE ~(w.locked > 0)
    <3>1. /\ w.locked = 0
          /\ futex' = [futex EXCEPT ![TheSema] = Word(1, 0)]
          /\ pc' = [pc EXCEPT ![t] = "sys_wait"]
          /\ call' = [call EXCEPT ![t] = WhenEq(TheSema, 0, "wait")]
          /\ UNCHANGED <<seen, posted, taken>>
      BY <1>2, <1>a, <2>2
      DEF SemWait, sema_wait, SetFutex, EnterKernel, SemTypeOK
    <3>2. SemTypeOK'
      BY <3>1, SemWord DEF SemTypeOK, WaitLabels
    <3>3. SeenUnit'
      BY <3>1 DEF SemTypeOK, SeenUnit, WhenEq
    <3>4. UnitsConserved'
      BY <3>1, SemWord DEF SemTypeOK, UnitsConserved
    <3> QED
      BY <3>2, <3>3, <3>4
  <2> QED
    BY <2>1, <2>2
<1>3. CASE sema_trywait_read(t)
  <2>1. SemTypeOK'
    BY <1>3, <1>a DEF sema_trywait_read, Goto, waitVars, SemTypeOK
  <2>2. SeenUnit'
    BY <1>3, <1>a DEF sema_trywait_read, Goto, waitVars, SemTypeOK, SeenUnit
  <2>3. UnitsConserved'
    BY <1>3 DEF sema_trywait_read, UnitsConserved
  <2> QED
    BY <2>1, <2>2, <2>3
<1>4. CASE sema_trywait_cas(t)
  <2>1. /\ pc' = [pc EXCEPT ![t] = "idle"]
        /\ UNCHANGED <<call, seen, posted>>
        /\ \/ UNCHANGED <<futex, taken>>
           \/ /\ w = seen[t]
              /\ futex' = [futex EXCEPT ![TheSema] = Word(w.kernel, w.locked - 1)]
              /\ taken' = taken + 1
    BY <1>4 DEF sema_trywait_cas, SetFutex, Goto, waitVars
  <2>2. seen[t].locked - 1 \in Nat
    BY <1>4, <1>a DEF sema_trywait_cas, SeenUnit
  <2>3. SemTypeOK'
    BY <2>1, <2>2, <1>a, SemWord DEF SemTypeOK
  <2>4. SeenUnit'
    BY <2>1 DEF SemTypeOK, SeenUnit
  <2>5. UnitsConserved'
    BY <2>1, <2>2, <1>a, SemWord DEF SemTypeOK, UnitsConserved
  <2> QED
    BY <2>3, <2>4, <2>5
<1>5. CASE SemPost(t)
  <2> DEFINE n == Capped(w.locked + PostCount, MaxCount)
  <2>1. /\ n \in Nat
        /\ MaxCount # 0 => n <= MaxCount
        /\ w.locked <= n
    BY <1>a DEF Capped, UnitsConserved
  <2>2. futex' = [futex EXCEPT ![TheSema] = Word(w.kernel, n)]
    BY <1>5 DEF SemPost, sema_post_count, SetFutex
  <2> HIDE DEF n
  <2>3. futex'[TheSema].locked = n
    BY <2>1, <2>2, <1>a, SemWord DEF SemTypeOK
  <2>4. /\ posted' = posted + (n - w.locked)
        /\ \E l \in {"post_kernel", "idle"} : pc' = [pc EXCEPT ![t] = l]
        /\ UNCHANGED <<call, seen, taken>>
    <3>1. posted' = posted + (n - w.locked)
      BY <1>5, <2>3 DEF SemPost
    <3>2. \E l \in {"post_kernel", "idle"} : Goto(t, l)
      BY <1>5, Zenon DEF SemPost, sema_post_count
    <3>3. \E l \in {"post_kernel", "idle"} : pc' = [pc EXCEPT ![t] = l] /\ UNCHANGED call
      BY <3>2, Zenon DEF Goto, waitVars
    <3>4. UNCHANGED <<seen, taken>>
      BY <1>5, Zenon DEF SemPost
    <3> QED
      BY <3>1, <3>3, <3>4, Zenon
  <2>5. SemTypeOK'
    BY <2>1, <2>2, <2>4, <1>a, SemWord DEF SemTypeOK
  <2>6. SeenUnit'
    BY <2>4 DEF SemTypeOK, SeenUnit
  <2>7. UnitsConserved'
    BY <2>1, <2>3, <2>4, <1>a DEF SemTypeOK, UnitsConserved
  <2> QED
    BY <2>5, <2>6, <2>7
<1>6. CASE SemPostKernel(t)
  <2>1. /\ \E l \in {"sys_wake", "idle"} : pc' = [pc EXCEPT ![t] = l]
        /\ UNCHANGED <<seen, posted, taken>>
        /\ \/ UNCHANGED futex
           \/ futex' = [futex EXCEPT ![TheSema] = Word(0, w.locked)]
        /\ \/ UNCHANGED call
           \/ call' = [call EXCEPT ![t] = WhenNe(TheSema, 0, "idle")]
    BY <1>6 DEF SemPostKernel, sema_post_kernel, SetFutex, Goto, EnterKernel, waitVars
  <2>2. SemTypeOK'
    BY <2>1, <1>a, SemWord DEF SemTypeOK, WaitLabels
  <2>3. SeenUnit'
    BY <2>1 DEF SemTypeOK, SeenUnit, WhenNe
  <2>4. UnitsConserved'
    BY <2>1, <1>a, SemWord DEF SemTypeOK, UnitsConserved
  <2> QED
    BY <2>2, <2>3, <2>4
<1>7. CASE SemKernel(t)
  <2>1. UNCHANGED <<futex, call, seen, posted, taken>>
    BY <1>7 DEF SemKernel, WaitStep, WaitEnter, WakeEnter, EnterLocked, WaitDecide, WakeDecide
  <2> DEFINE Moved(u) == {pc[u], call[u].ret, "wait_locked", "wake_locked", "asleep"}
  <2>2. \A u \in Threads : pc'[u] \in Moved(u)
    BY <1>7 DEF SemKernel, WaitStep, WaitEnter, WakeEnter, EnterLocked, WaitDecide,
                WakeDecide, SemTypeOK
  <2>3. pc' = [u \in Threads |-> pc'[u]]
    BY <1>7 DEF SemKernel, WaitStep, WaitEnter, WakeEnter, EnterLocked, WaitDecide,
                WakeDecide, SemTypeOK
  <2>4. SemTypeOK'
    BY <2>1, <2>2, <2>3 DEF SemTypeOK, SeenUnit, WaitLabels
  <2>5. SeenUnit'
    BY <2>1, <2>2 DEF SeenUnit
  <2>6. UnitsConserved'
    BY <2>1 DEF UnitsConserved
  <2> QED
    BY <2>4, <2>5, <2>6
<1> QED
  BY <1>1, <1>2, <1>3, <1>4, <1>5, <1>6, <1>7 DEF SemStep

\* No wait, try or post loses a unit or makes one up, and the count stays
\* within max_count, for any number of threads.
THEOREM UnitsAreConserved ==
  ASSUME SemAssumption
  PROVE  SemSpec => []UnitsConserved
<1>1. SemInit => SemInv
  BY SemInitInv
<1>2. SemInv /\ [SemNext]_semVars => SemInv'
  <2>1. SemInv /\ UNCHANGED semVars => SemInv'
    BY DEF SemInv, semVars, SemTypeOK, SeenUnit, UnitsConserved
  <2> QED
    BY <2>1, SemStepInv DEF SemNext
<1>3. SemInv => UnitsConserved
  BY DEF SemInv
<1> QED
  BY <1>1, <1>2, <1>3, PTL DEF SemSpec

-----------------------------------------------------------------------------
\* The barrier holds, for any finite number of threads and any number of
\* rounds.  BarrierHolds speaks of rounds only, so the invariant has to say
\* where everybody is: while a record is being closed, in the round of that
\* record or, already back, in the next one; otherwise in the round of the
\* open record or about to enter it.  That the first thread leaves last rests
\* on its count being the number of threads counted in.

BarTypeOK ==
  /\ bpc \in [BarThreads -> {"out", "count", "first", "others", "release", "drain",
                             "uncount"}]
  /\ barLocal \in BarThreads \cup {NoLocal}
  /\ local \in [BarThreads -> [count : Int, release : {0, 1}]]
  /\ mine \in [BarThreads -> BarThreads \cup {NoLocal}]
  /\ round \in [BarThreads -> Nat]

\* The threads counted in the record of o.
Counted(o) == {t \in BarThreads : bpc[t] \notin {"out", "count"} /\ mine[t] = o}

\* Who owns a record, which one is open, released and how far counted.
Record(t) ==
  /\ bpc[t] # "out" => mine[t] \in BarThreads
  /\ bpc[t] \in {"first", "release", "drain"} => mine[t] = t
  /\ bpc[t] \in {"others", "uncount"} => mine[t] # t
  /\ bpc[t] \in {"count", "first"} /\ mine[t] = t <=> barLocal = t
  /\ bpc[t] = "uncount" => bpc[mine[t]] = "drain"
  /\ bpc[t] # "out" /\ mine[t] = t =>
       /\ local[t].release = IF bpc[t] = "drain" THEN 1 ELSE 0
       /\ local[t].count = Cardinality(Counted(t))

Records == \A t \in BarThreads : Record(t)

Closing(o) == bpc[o] \in {"release", "drain"}

\* While a record is being closed, everybody is in its round: first all wait
\* in it, then they leave and may already be in the next one.
ClosingRound ==
  \A o, t \in BarThreads :
    Closing(o) /\ t # o =>
      \/ mine[t] = o /\ bpc[t] = "others"
      \/ mine[t] = o /\ bpc[t] = "uncount"
      \/ bpc[o] = "drain" /\ bpc[t] = "out" /\ round[t] = round[o]
      \/ /\ bpc[o] = "drain" /\ barLocal # NoLocal /\ mine[t] = barLocal
         /\ bpc[t] \in {"count", "first", "others"}
         /\ round[t] = round[o] + 1

\* Otherwise everybody is in the round of the open record, or about to be.
OpenRound ==
  (\A o \in BarThreads : ~Closing(o)) =>
    \A t, u \in BarThreads :
      IF barLocal = NoLocal
      THEN bpc[t] = "out" /\ round[t] = round[u]
      ELSE \/ bpc[t] = "out" /\ round[t] = round[barLocal] - 1
           \/ bpc[t] # "out" /\ mine[t] = barLocal

\* The inductive invariant.
BarInv == BarTypeOK /\ LocalAlive /\ Records /\ ClosingRound /\ OpenRound

LEMMA BarInitInv ==
  ASSUME NoLocal \notin BarThreads, BarInit
  PROVE  BarInv
  BY DEF BarInit, BarInv, BarTypeOK, LocalAlive, Records, Record, ClosingRound,
         OpenRound, Closing

\* A thread arrives: it opens a record, or joins the one that is open, which
\* is in its round.
LEMMA ArriveInv ==
  ASSUME NoLocal \notin BarThreads, BarInv, NEW t \in BarThreads, Arrive(t)
  PROVE  BarInv'
<1>. USE DEF BarInv
<1>1. BarTypeOK'
  BY DEF Arrive, At, BarGoto, BarTypeOK
<1>2. /\ bpc[t] = "out" /\ bpc'[t] = "count"
      /\ round'[t] = round[t] + 1 /\ mine'[t] = barLocal'
      /\ local'[t] = [count |-> 0, release |-> 0]
      /\ barLocal' = IF barLocal = NoLocal THEN t ELSE barLocal
      /\ \A u \in BarThreads \ {t} : /\ bpc'[u] = bpc[u] /\ round'[u] = round[u]
                                     /\ mine'[u] = mine[u] /\ local'[u] = local[u]
  BY Zenon DEF Arrive, At, BarGoto, BarTypeOK
<1>3. \A u \in BarThreads : bpc[u] # "out" => mine[u] # t
  BY Zenon, <1>2 DEF LocalAlive
<1>4. barLocal # NoLocal =>
        /\ barLocal \in BarThreads \ {t}
        /\ bpc[barLocal] \in {"count", "first"} /\ mine[barLocal] = barLocal
        /\ round[barLocal] = round[t] + 1
  <2>. SUFFICES ASSUME barLocal # NoLocal
                PROVE  /\ barLocal \in BarThreads \ {t}
                       /\ bpc[barLocal] \in {"count", "first"}
                       /\ mine[barLocal] = barLocal
                       /\ round[barLocal] = round[t] + 1
    BY Zenon
  <2>1. /\ barLocal \in BarThreads \ {t}
        /\ bpc[barLocal] \in {"count", "first"} /\ mine[barLocal] = barLocal
    BY Zenon, <1>2 DEF BarTypeOK, Records, Record
  <2>2. ASSUME NEW o \in BarThreads, Closing(o) PROVE round[barLocal] = round[t] + 1
    <3>1. round[t] = round[o]
      BY Zenon, <1>2, <2>2 DEF ClosingRound, Closing
    <3>2. round[barLocal] = round[o] + 1
      BY Zenon, <2>1, <2>2 DEF ClosingRound, Closing
    <3>. QED
      BY Zenon, <3>1, <3>2
  <2>3. ASSUME \A o \in BarThreads : ~Closing(o) PROVE round[barLocal] = round[t] + 1
    <3>1. round[t] = round[barLocal] - 1
      BY Zenon, <1>2, <2>3 DEF OpenRound
    <3>. QED
      BY <2>1, <3>1 DEF BarTypeOK
  <2>. QED
    BY Zenon, <2>1, <2>2, <2>3
<1>5. LocalAlive'
  BY <1>2, <1>3, <1>4 DEF LocalAlive, Records, Record
<1>6. Records'
  <2>1. \A o \in BarThreads \ {t} : Counted(o)' = Counted(o)
    BY Zenon, <1>2 DEF Counted
  <2>2. Counted(t)' = {} /\ Cardinality(Counted(t)') = 0
    <3>1. Counted(t)' = {}
      BY Zenon, <1>2, <1>3 DEF Counted
    <3>. QED
      BY Zenon, <3>1, FS_EmptySet
  <2>. SUFFICES ASSUME NEW u \in BarThreads
                PROVE  Record(u)'
    BY Zenon DEF Records
  <2>3. CASE u = t
    BY <1>2, <1>4, <2>2, <2>3 DEF Record
  <2>4. CASE u # t
    <3>1. Record(u)
      BY Zenon DEF Records
    <3>. QED
      BY <1>2, <1>3, <1>4, <2>1, <2>4, <3>1 DEF Record
  <2>. QED
    BY Zenon, <2>3, <2>4
<1>7. ClosingRound'
  BY <1>2, <1>4 DEF ClosingRound, Closing, BarTypeOK
<1>8. OpenRound'
  BY <1>2, <1>4 DEF OpenRound, Closing, BarTypeOK
<1>. QED
  BY Zenon, <1>1, <1>5, <1>6, <1>7, <1>8

LEMMA CountedFinite ==
  ASSUME IsFiniteSet(BarThreads)
  PROVE  \A o : IsFiniteSet(Counted(o)) /\ Cardinality(Counted(o)) \in Nat
  BY Zenon, FS_Subset, FS_CardinalityType DEF Counted

\* It counts itself in.
LEMMA CountInInv ==
  ASSUME IsFiniteSet(BarThreads), NoLocal \notin BarThreads, BarInv,
         NEW t \in BarThreads, CountIn(t)
  PROVE  BarInv'
<1>. USE DEF BarInv
<1>1. mine[t] \in BarThreads /\ bpc[t] = "count"
  BY Zenon DEF CountIn, At, Records, Record
<1>2. PICK m \in BarThreads : m = mine[t]
  BY Zenon, <1>1
<1>3. BarTypeOK'
  BY <1>1 DEF CountIn, BarGoto, BarTypeOK
<1>4. /\ bpc'[t] = IF m = t THEN "first" ELSE "others"
      /\ \A u \in BarThreads \ {t} : bpc'[u] = bpc[u]
      /\ local'[m].count = local[m].count + 1
      /\ local'[m].release = local[m].release
      /\ \A u \in BarThreads \ {m} : local'[u] = local[u]
      /\ UNCHANGED <<barLocal, mine, round>>
  BY <1>2 DEF CountIn, BarGoto, BarTypeOK
<1>5. \A o \in BarThreads : ~(Closing(o) /\ mine[t] = o)
  BY Zenon, <1>1 DEF ClosingRound, Closing, Records, Record
<1>6. LocalAlive'
  <2>. SUFFICES ASSUME NEW u \in BarThreads, bpc'[u] # "out"
                PROVE  /\ bpc'[mine[u]] \in {"count", "first", "release", "drain"}
                       /\ mine[mine[u]] = mine[u]
                       /\ round[mine[u]] = round[u]
    BY Zenon, <1>4 DEF LocalAlive
  <2>1. bpc[u] # "out" /\ mine[u] \in BarThreads
    BY Zenon, <1>1, <1>4 DEF Records, Record
  <2>2. /\ bpc[mine[u]] \in {"count", "first", "release", "drain"}
        /\ mine[mine[u]] = mine[u]
        /\ round[mine[u]] = round[u]
    BY Zenon, <2>1 DEF LocalAlive
  <2>. QED
    BY Zenon, <1>2, <1>4, <2>1, <2>2
<1>7. Records'
  <2>1. \A o \in BarThreads \ {m} : Counted(o)' = Counted(o)
    BY Zenon, <1>1, <1>2, <1>4 DEF Counted
  <2>2. Counted(m)' = Counted(m) \cup {t} /\ t \notin Counted(m)
    BY Zenon, <1>1, <1>2, <1>4 DEF Counted
  <2>3. Cardinality(Counted(m)') = Cardinality(Counted(m)) + 1
    BY <2>2, CountedFinite, FS_AddElement, Zenon
  <2>. SUFFICES ASSUME NEW u \in BarThreads PROVE Record(u)'
    BY Zenon DEF Records
  <2>4. Record(u) /\ Record(m)
    BY Zenon DEF Records
  <2>5. CASE u = m
    BY <1>1, <1>2, <1>4, <1>5, <2>3, <2>4, <2>5 DEF Record, Closing
  <2>6. CASE u # m
    BY <1>1, <1>2, <1>4, <1>5, <2>1, <2>4, <2>6 DEF Record, Closing
  <2>. QED
    BY Zenon, <2>5, <2>6
<1>8. ClosingRound' /\ OpenRound'
  BY <1>1, <1>2, <1>4, <1>5 DEF ClosingRound, OpenRound, Closing
<1>. QED
  BY Zenon, <1>3, <1>6, <1>7, <1>8

\* The first thread finds the count complete: everybody waits in its record.
LEMMA AllHereInv ==
  ASSUME IsFiniteSet(BarThreads), NoLocal \notin BarThreads, BarInv,
         NEW t \in BarThreads, AllHere(t)
  PROVE  BarInv'
<1>. USE DEF BarInv
<1>1. /\ bpc[t] = "first" /\ bpc'[t] = "release"
      /\ \A u \in BarThreads \ {t} : bpc'[u] = bpc[u]
      /\ barLocal' = NoLocal /\ local[t].count = Cardinality(BarThreads)
      /\ UNCHANGED <<local, mine, round>>
  BY Zenon DEF AllHere, At, BarGoto, BarTypeOK, Total
<1>2. BarTypeOK'
  BY Zenon DEF AllHere, BarGoto, BarTypeOK
<1>3. mine[t] = t /\ Cardinality(Counted(t)) = Cardinality(BarThreads)
  <2>1. Record(t)
    BY Zenon DEF Records
  <2>. QED
    BY <1>1, <2>1, Zenon DEF Record
<1>4. Counted(t) = BarThreads
  <2>1. Counted(t) \subseteq BarThreads
    BY Zenon DEF Counted
  <2>. QED
    BY <1>3, <2>1, FS_Subset, Zenon
<1>5. \A u \in BarThreads \ {t} : bpc[u] = "others" /\ mine[u] = t
  <2>. SUFFICES ASSUME NEW u \in BarThreads \ {t}
                PROVE  bpc[u] = "others" /\ mine[u] = t
    BY Zenon
  <2>1. Record(u) /\ u \in Counted(t)
    BY Zenon, <1>4 DEF Records
  <2>. QED
    BY Zenon, <1>1, <2>1 DEF Counted, Record, BarTypeOK
<1>6. LocalAlive'
  <2>1. \A u \in BarThreads : mine[u] = t
    BY Zenon, <1>3, <1>5
  <2>2. \A u \in BarThreads : bpc[u] # "out"
    BY Zenon, <1>1, <1>5
  <2>. QED
    BY Zenon, <1>1, <1>3, <2>1, <2>2 DEF LocalAlive
<1>7. Records'
  <2>1. \A o \in BarThreads : Counted(o)' = Counted(o)
    BY Zenon, <1>1 DEF Counted
  <2>. QED
    BY <1>1, <1>5, <2>1 DEF Records, Record
<1>8. ClosingRound' /\ OpenRound'
  BY <1>1, <1>3, <1>5 DEF ClosingRound, OpenRound, Closing
<1>. QED
  BY Zenon, <1>2, <1>6, <1>7, <1>8

LEMMA ReleaseInv ==
  ASSUME BarInv, NEW t \in BarThreads, Release(t)
  PROVE  BarInv'
<1>. USE DEF BarInv
<1>1. /\ bpc[t] = "release" /\ bpc'[t] = "drain"
      /\ \A u \in BarThreads \ {t} : bpc'[u] = bpc[u] /\ local'[u] = local[u]
      /\ local'[t].release = 1 /\ local'[t].count = local[t].count
      /\ UNCHANGED <<barLocal, mine, round>>
  BY Zenon DEF Release, At, BarGoto, BarTypeOK
<1>2. BarTypeOK'
  BY Zenon DEF Release, BarGoto, BarTypeOK
<1>3. LocalAlive'
  BY <1>1 DEF LocalAlive, Records, Record
<1>4. Records'
  <2>1. \A o \in BarThreads : Counted(o)' = Counted(o)
    BY Zenon, <1>1 DEF Counted
  <2>. SUFFICES ASSUME NEW u \in BarThreads PROVE Record(u)'
    BY Zenon DEF Records
  <2>2. Record(u)
    BY Zenon DEF Records
  <2>. QED
    BY Zenon, <1>1, <2>1, <2>2 DEF Record
<1>5. ClosingRound' /\ OpenRound'
  BY <1>1 DEF ClosingRound, OpenRound, Closing
<1>. QED
  BY Zenon, <1>2, <1>3, <1>4, <1>5

\* The others see the flag of a record that is being closed.
LEMMA ReleasedInv ==
  ASSUME BarInv, NEW t \in BarThreads, Released(t)
  PROVE  BarInv'
<1>. USE DEF BarInv
<1>1. /\ bpc[t] = "others" /\ bpc'[t] = "uncount"
      /\ \A u \in BarThreads \ {t} : bpc'[u] = bpc[u]
      /\ local[mine[t]].release = 1
      /\ UNCHANGED <<barLocal, local, mine, round>>
  BY Zenon DEF Released, At, BarGoto, BarTypeOK
<1>2. BarTypeOK'
  BY Zenon DEF Released, BarGoto, BarTypeOK
<1>3. PICK m \in BarThreads : m = mine[t] /\ m # t /\ bpc[m] # "out" /\ mine[m] = m
  BY <1>1 DEF Records, Record, LocalAlive
<1>4. bpc[m] = "drain"
  <2>1. Record(m)
    BY Zenon DEF Records
  <2>. QED
    BY <1>1, <1>3, <2>1 DEF Record
<1>5. \A u \in BarThreads : bpc[u] # "out" => mine[u] # t
  BY Zenon, <1>1 DEF LocalAlive
<1>6. LocalAlive'
  BY <1>1, <1>5 DEF LocalAlive, Records, Record
<1>7. Records'
  <2>1. \A o \in BarThreads : Counted(o)' = Counted(o)
    BY Zenon, <1>1 DEF Counted
  <2>. SUFFICES ASSUME NEW u \in BarThreads PROVE Record(u)'
    BY Zenon DEF Records
  <2>2. Record(u)
    BY Zenon DEF Records
  <2>. QED
    BY Zenon, <1>1, <1>3, <1>4, <1>5, <2>1, <2>2 DEF Record
<1>8. ClosingRound' /\ OpenRound'
  BY <1>1, <1>3, <1>4 DEF ClosingRound, OpenRound, Closing
<1>. QED
  BY Zenon, <1>2, <1>6, <1>7, <1>8

\* They leave, and may arrive again before the first has left.
LEMMA CountOutInv ==
  ASSUME IsFiniteSet(BarThreads), BarInv, NEW t \in BarThreads, CountOut(t)
  PROVE  BarInv'
<1>. USE DEF BarInv
<1>1. bpc[t] = "uncount" /\ mine[t] \in BarThreads \ {t}
  BY Zenon DEF CountOut, At, Records, Record
<1>2. PICK m \in BarThreads : m = mine[t] /\ m # t /\ bpc[m] = "drain"
                              /\ mine[m] = m /\ round[m] = round[t]
  BY Zenon, <1>1 DEF Records, Record, LocalAlive
<1>3. /\ bpc'[t] = "out"
      /\ \A u \in BarThreads \ {t} : bpc'[u] = bpc[u]
      /\ local'[m].count = local[m].count - 1
      /\ local'[m].release = local[m].release
      /\ \A u \in BarThreads \ {m} : local'[u] = local[u]
      /\ UNCHANGED <<barLocal, mine, round>>
  BY Zenon, <1>2 DEF CountOut, BarGoto, BarTypeOK
<1>4. BarTypeOK'
  BY <1>1 DEF CountOut, BarGoto, BarTypeOK
<1>5. \A u \in BarThreads : bpc[u] # "out" => mine[u] # t
  BY Zenon, <1>1 DEF LocalAlive
<1>6. LocalAlive'
  BY <1>3, <1>5 DEF LocalAlive, Records, Record
<1>7. Records'
  <2>1. \A o \in BarThreads \ {m} : Counted(o)' = Counted(o)
    BY Zenon, <1>1, <1>2, <1>3 DEF Counted
  <2>2. Counted(m)' = Counted(m) \ {t} /\ t \in Counted(m)
    BY Zenon, <1>1, <1>2, <1>3 DEF Counted
  <2>3. Cardinality(Counted(m)') = Cardinality(Counted(m)) - 1
    BY <2>2, CountedFinite, FS_RemoveElement, Zenon
  <2>. SUFFICES ASSUME NEW u \in BarThreads PROVE Record(u)'
    BY Zenon DEF Records
  <2>4. Record(u) /\ Record(m)
    BY Zenon DEF Records
  <2>5. CASE u = m
    BY Zenon, <1>2, <1>3, <2>3, <2>4, <2>5 DEF Record
  <2>6. CASE u # m
    BY <1>1, <1>2, <1>3, <1>5, <2>1, <2>4, <2>6 DEF Record
  <2>. QED
    BY Zenon, <2>5, <2>6
<1>8. \A o \in BarThreads : Closing(o)' <=> Closing(o)
  BY Zenon, <1>1, <1>3 DEF Closing
<1>9. OpenRound'
  BY Zenon, <1>2, <1>8 DEF OpenRound, Closing
<1>10. ClosingRound'
  <2>. SUFFICES ASSUME NEW o \in BarThreads, NEW u \in BarThreads, Closing(o), u # o
                PROVE  \/ mine'[u] = o /\ bpc'[u] = "others"
                       \/ mine'[u] = o /\ bpc'[u] = "uncount"
                       \/ bpc'[o] = "drain" /\ bpc'[u] = "out" /\ round'[u] = round'[o]
                       \/ /\ bpc'[o] = "drain" /\ barLocal' # NoLocal /\ mine'[u] = barLocal'
                          /\ bpc'[u] \in {"count", "first", "others"}
                          /\ round'[u] = round'[o] + 1
    BY Zenon, <1>8 DEF ClosingRound
  <2>1. bpc'[o] = bpc[o] /\ mine' = mine /\ round' = round /\ barLocal' = barLocal
    BY Zenon, <1>1, <1>3 DEF Closing
  <2>2. CASE u = t
    <3>1. mine[t] = o
      BY <1>1, <2>2 DEF ClosingRound
    <3> QED
      BY Zenon, <1>2, <1>3, <2>1, <2>2, <3>1
  <2>3. CASE u # t
    <3>1. bpc'[u] = bpc[u]
      BY Zenon, <1>3, <2>3
    <3> QED
      BY <2>1, <3>1 DEF ClosingRound
  <2>. QED
    BY Zenon, <2>2, <2>3
<1>. QED
  BY Zenon, <1>4, <1>6, <1>7, <1>9, <1>10

\* A set of one element.
LEMMA OnlyOne ==
  ASSUME NEW S, IsFiniteSet(S), Cardinality(S) = 1, NEW x \in S
  PROVE  S = {x}
<1>1. Cardinality(S \ {x}) = Cardinality(S) - 1 /\ IsFiniteSet(S \ {x})
  BY FS_RemoveElement, Zenon
<1>2. S \ {x} = {}
  BY <1>1, FS_EmptySet
<1>. QED
  BY Zenon, <1>2

\* The first thread leaves when it is alone in its record.
LEMMA DrainedInv ==
  ASSUME IsFiniteSet(BarThreads), NoLocal \notin BarThreads, BarInv,
         NEW t \in BarThreads, Drained(t)
  PROVE  BarInv'
<1>. USE DEF BarInv
<1>1. /\ bpc[t] = "drain" /\ bpc'[t] = "out"
      /\ \A u \in BarThreads \ {t} : bpc'[u] = bpc[u]
      /\ local[t].count = 1
      /\ UNCHANGED <<barLocal, local, mine, round>>
  BY Zenon DEF Drained, At, BarGoto, BarTypeOK
<1>2. BarTypeOK'
  BY Zenon DEF Drained, BarGoto, BarTypeOK
<1>3. mine[t] = t /\ barLocal # t /\ Cardinality(Counted(t)) = 1
  <2>1. Record(t)
    BY Zenon DEF Records
  <2>. QED
    BY Zenon, <1>1, <2>1 DEF Record
<1>4. Counted(t) = {t}
  <2>1. t \in Counted(t)
    BY Zenon, <1>1, <1>3 DEF Counted
  <2>. QED
    BY <1>3, <2>1, CountedFinite, OnlyOne, Zenon
<1>5. ASSUME NEW u \in BarThreads \ {t}
      PROVE  \/ bpc[u] = "out" /\ round[u] = round[t]
             \/ /\ barLocal # NoLocal /\ mine[u] = barLocal
                /\ bpc[u] \in {"count", "first", "others"}
                /\ round[u] = round[t] + 1
  <2>1. u \notin Counted(t)
    BY Zenon, <1>4
  <2>2. ~(mine[u] = t /\ bpc[u] \in {"others", "uncount"})
    BY Zenon, <2>1 DEF Counted
  <2>. QED
    BY <1>1, <2>2 DEF ClosingRound, Closing
<1>6. \A u \in BarThreads \ {t} : bpc[u] # "out" => mine[u] # t
  BY Zenon, <1>3, <1>5
<1>7. LocalAlive'
  BY <1>1, <1>6 DEF LocalAlive, Records, Record
<1>8. Records'
  <2>. SUFFICES ASSUME NEW u \in BarThreads PROVE Record(u)'
    BY Zenon DEF Records
  <2>1. u # t => Counted(u)' = Counted(u)
    BY Zenon, <1>1, <1>3 DEF Counted
  <2>2. Record(u)
    BY Zenon DEF Records
  <2>. QED
    BY Zenon, <1>1, <1>3, <1>6, <2>1, <2>2 DEF Record
<1>9. \A o \in BarThreads : ~Closing(o)'
  BY Zenon, <1>1, <1>5 DEF Closing
<1>10. ClosingRound'
  BY Zenon, <1>9 DEF ClosingRound
<1>11. OpenRound'
  <2>1. barLocal = NoLocal =>
          \A u \in BarThreads : bpc'[u] = "out" /\ round[u] = round[t]
    BY Zenon, <1>1, <1>5
  <2>2. barLocal # NoLocal =>
          /\ barLocal \in BarThreads \ {t} /\ round[barLocal] = round[t] + 1
          /\ round[t] = round[barLocal] - 1
    <3>. SUFFICES ASSUME barLocal # NoLocal
                  PROVE  /\ barLocal \in BarThreads \ {t}
                         /\ round[barLocal] = round[t] + 1
                         /\ round[t] = round[barLocal] - 1
      BY Zenon
    <3>1. barLocal \in BarThreads \ {t} /\ bpc[barLocal] # "out"
      BY Zenon, <1>3 DEF BarTypeOK, Records, Record
    <3>2. round[barLocal] = round[t] + 1
      BY Zenon, <1>5, <3>1
    <3>. QED
      BY <3>1, <3>2 DEF BarTypeOK
  <2>. QED
    BY Zenon, <1>1, <1>5, <2>1, <2>2 DEF OpenRound
<1>. QED
  BY Zenon, <1>2, <1>7, <1>8, <1>10, <1>11

\* No thread leaves its n-th barrier_wait before every thread has entered its
\* n-th, and the record a thread counts in is alive until it has left, for any
\* finite number of threads and any number of rounds.
THEOREM BarrierIsSafe ==
  ASSUME IsFiniteSet(BarThreads), NoLocal \notin BarThreads
  PROVE  BarSpec => [](BarrierHolds /\ LocalAlive)
<1>1. BarInit => BarInv
  BY Zenon, BarInitInv
<1>2. BarInv /\ [BarNext]_barVars => BarInv'
  <2>1. ASSUME BarInv, UNCHANGED barVars PROVE BarInv'
    BY <2>1 DEF BarInv, barVars, BarTypeOK, LocalAlive, Records, Record, Counted,
                ClosingRound, OpenRound, Closing
  <2>. QED
    BY Zenon, <2>1, ArriveInv, CountInInv, AllHereInv, ReleaseInv, ReleasedInv, CountOutInv,
       DrainedInv DEF BarNext, BarStep
<1>3. BarInv => BarrierHolds
  <2>. SUFFICES ASSUME BarInv, NEW t \in BarThreads, NEW u \in BarThreads,
                       bpc[t] \in {"out", "release", "drain", "uncount"}
                PROVE  round[u] >= round[t]
    BY Zenon DEF BarrierHolds
  <2>1. round[t] \in Nat /\ round[u] \in Nat
    BY Zenon DEF BarInv, BarTypeOK
  <2>2. ASSUME NEW o \in BarThreads, Closing(o) PROVE round[u] >= round[t]
    <3>1. /\ round[t] = round[o]
          /\ round[u] = round[o] \/ round[u] = round[o] + 1
      BY <2>2 DEF BarInv, ClosingRound, LocalAlive
    <3>. QED
      BY <2>1, <3>1
  <2>3. ASSUME \A o \in BarThreads : ~Closing(o) PROVE round[u] >= round[t]
    <3>1. bpc[t] = "out"
      BY Zenon, <2>3 DEF BarInv, Closing, Records, Record
    <3>2. CASE barLocal = NoLocal
      BY <2>1, <2>3, <3>2 DEF BarInv, OpenRound
    <3>3. CASE barLocal # NoLocal
      <4>1. round[barLocal] \in Nat /\ round[t] = round[barLocal] - 1
        BY Zenon, <2>3, <3>1, <3>3 DEF BarInv, OpenRound, BarTypeOK
      <4>2. round[u] = round[barLocal] - 1 \/ round[u] = round[barLocal]
        BY Zenon, <2>3, <3>3 DEF BarInv, OpenRound, LocalAlive
      <4>. QED
        BY <2>1, <4>1, <4>2
    <3>. QED
      BY Zenon, <3>2, <3>3
  <2>. QED
    BY Zenon, <2>2, <2>3
<1>4. BarInv => LocalAlive
  BY Zenon DEF BarInv
<1>. QED
  BY <1>1, <1>2, <1>3, <1>4, PTL DEF BarSpec

-----------------------------------------------------------------------------
\* A pipe hands a buffer from one writer to one reader at a time, for any number
\* of readers and writers.

PipeAssumption ==
  /\ {ReaderSema, WriterSema} \subseteq Futexes /\ ReaderSema # WriterSema
  /\ Sizes \subseteq Nat \ {0} /\ MaxMsg \in Nat \ {0}
  /\ Threads = Readers \cup Writers

\* Where a thread is, or will be when its system call returns.
PipeLoc(t) == IF pc[t] \in WaitLabels THEN call[t].ret ELSE pc[t]

PipeReturns == {"none", "idle", "r_wait", "w_wait"}

PipeShape ==
  /\ DOMAIN pc = Threads /\ DOMAIN call = Threads
  /\ \A t \in Threads : call[t].ret \in PipeReturns
  /\ waiting \subseteq {t \in Threads : pc[t] = "asleep"}

PipeTypeOK ==
  /\ PipeShape
  /\ futex \in [Futexes -> FutexWord]
  /\ ask \in [Threads -> Nat]
  /\ plock \in Threads \cup {NoThread}
  /\ pipe \in [data : Threads \cup {NoThread}, count : Nat, offset : Nat]
  /\ result \in Nat

\* The mutex belongs to the writer that is inside, and who calls has a size.
PipeHolder ==
  \A t \in Threads :
    /\ plock = t <=> PipeLoc(t) \in {"w_post", "w_kernel", "w_wait", "w_unlock"}
    /\ plock = t => t \in Writers
    /\ PipeLoc(t) = "w_lock" => t \in Writers
    /\ PipeLoc(t) \in {"r_wait", "r_copy", "w_lock"} => ask[t] > 0

\* The two counts, and where the writer inside is.
PipeAt(w, r, L) ==
  /\ futex[WriterSema].locked = w /\ futex[ReaderSema].locked = r
  /\ plock \in Threads /\ PipeLoc(plock) \in L /\ pipe.data = plock

\* The readers between their wait and their post: none, or one, which is at l.
NoneCopies == \A t \in Threads : PipeLoc(t) \notin {"r_copy", "r_post"}
OneCopies(l) ==
  \E c \in Threads : /\ PipeLoc(c) = l
                     /\ \A t \in Threads : PipeLoc(t) \in {"r_copy", "r_post"} => t = c

\* The buffer is as the writer has published it, or as the reader left it.
PipeFresh == pipe.offset = 0 /\ pipe.count > 0
PipeRead == pipe.offset = result /\ result > 0 /\ result <= pipe.count

\* The turns of a writer and its reader.
PipeTurn ==
  \/ /\ plock = NoThread /\ NoneCopies
     /\ futex[WriterSema].locked = 0 /\ futex[ReaderSema].locked = 0
  \/ PipeAt(0, 0, {"w_post"}) /\ NoneCopies /\ PipeFresh
  \/ PipeAt(1, 0, {"w_kernel", "w_wait"}) /\ NoneCopies /\ PipeFresh
  \/ PipeAt(0, 0, {"w_kernel", "w_wait"}) /\ OneCopies("r_copy") /\ PipeFresh
  \/ PipeAt(0, 0, {"w_kernel", "w_wait"}) /\ OneCopies("r_post") /\ PipeRead
  \/ PipeAt(0, 1, {"w_kernel", "w_wait"}) /\ NoneCopies /\ PipeRead
  \/ PipeAt(0, 0, {"w_unlock"}) /\ NoneCopies /\ PipeRead

\* The inductive invariant.
PipeInv == PipeTypeOK /\ PipeHolder /\ PipeTurn

\* t goes to l, the others stay where they are.
PipeMoved(t, l) ==
  /\ PipeLoc(t)' = l
  /\ \A u \in Threads \ {t} : PipeLoc(u)' = PipeLoc(u)

\* The words are words, and the counts of the semaphores other than f stay.
PipeWords(f) ==
  /\ futex' \in [Futexes -> FutexWord]
  /\ \A g \in Futexes \ {f} : futex'[g].locked = futex[g].locked

\* A step of user code moves one thread.
LEMMA PipeGoto ==
  ASSUME PipeShape, NEW t \in Threads, pc[t] \notin WaitLabels,
         NEW l, l \notin WaitLabels, Goto(t, l)
  PROVE  PipeShape' /\ PipeMoved(t, l) /\ PipeLoc(t) = pc[t]
  BY Zenon DEF PipeShape, Goto, waitVars, PipeMoved, PipeLoc, WaitLabels

\* A thread that enters the kernel is where it will resume.
LEMMA PipeEnter ==
  ASSUME PipeShape, NEW t \in Threads, pc[t] \notin WaitLabels,
         NEW l \in {"sys_wait", "sys_wake"}, NEW c, c.ret \in PipeReturns, EnterKernel(t, l, c)
  PROVE  PipeShape' /\ PipeMoved(t, c.ret) /\ PipeLoc(t) = pc[t]
  BY Zenon DEF PipeShape, EnterKernel, PipeMoved, PipeLoc, WaitLabels

\* The kernel moves nobody: it returns a thread to where it was to resume.
LEMMA PipeKernelStep ==
  ASSUME PipeShape, NEW t \in Threads, WaitStep(t)
  PROVE  PipeShape' /\ (\A u \in Threads : PipeLoc(u)' = PipeLoc(u)) /\ UNCHANGED futex
<1>1. CASE WaitEnter(t) \/ WakeEnter(t)
  BY <1>1 DEF WaitEnter, WakeEnter, EnterLocked, PipeShape, PipeLoc, WaitLabels
<1>2. CASE WaitDecide(t)
  BY <1>2 DEF WaitDecide, PipeShape, PipeReturns, PipeLoc, WaitLabels
<1>3. CASE WakeDecide(t)
  BY <1>3 DEF WakeDecide, Sleepers, PipeShape, PipeReturns, PipeLoc, WaitLabels
<1> QED
  BY <1>1, <1>2, <1>3 DEF WaitStep

\* sema_wait takes a unit, or leaves the thread where it was.
LEMMA PipeTakes ==
  ASSUME PipeShape, futex \in [Futexes -> FutexWord], NEW t \in Threads, NEW f \in Futexes,
         NEW here \in {"r_wait", "w_wait"}, NEW next \in {"r_copy", "w_unlock"},
         sema_wait(t, f, here, next)
  PROVE  /\ PipeShape' /\ PipeWords(f) /\ PipeLoc(t) = here
         /\ \/ /\ PipeMoved(t, next) /\ futex[f].locked # 0
               /\ futex'[f].locked = futex[f].locked - 1
            \/ PipeMoved(t, here) /\ futex'[f].locked = futex[f].locked
<1>1. /\ futex[f] \in FutexWord /\ futex[f].kernel \in {0, 1} /\ futex[f].locked \in Nat
      /\ Word(1, 0) \in FutexWord /\ Word(1, 0).locked = 0
  BY SemWord
<1>2. here \notin WaitLabels /\ next \notin WaitLabels /\ here \in PipeReturns
  BY DEF WaitLabels, PipeReturns
<1>3. pc[t] = here
  BY Zenon DEF sema_wait
<1>4. CASE futex[f].locked > 0
  <2>1. /\ futex' = [futex EXCEPT ![f] = Word(futex[f].kernel, futex[f].locked - 1)]
        /\ Goto(t, next)
    BY Zenon, <1>4 DEF sema_wait, SetFutex
  <2>2. futex[f].locked - 1 \in Nat /\ futex[f].locked # 0
    BY <1>1, <1>4
  <2>3. /\ Word(futex[f].kernel, futex[f].locked - 1) \in FutexWord
        /\ Word(futex[f].kernel, futex[f].locked - 1).locked = futex[f].locked - 1
    BY Zenon, <1>1, <2>2, SemWord
  <2>4. PipeWords(f) /\ futex'[f].locked = futex[f].locked - 1
    BY Zenon, <2>1, <2>3 DEF PipeWords
  <2> QED
    BY Zenon, <1>2, <1>3, <2>1, <2>2, <2>4, PipeGoto
<1>5. CASE ~(futex[f].locked > 0)
  <2>1. /\ futex' = [futex EXCEPT ![f] = Word(1, 0)]
        /\ EnterKernel(t, "sys_wait", WhenEq(f, 0, here))
    BY Zenon, <1>5 DEF sema_wait, SetFutex
  <2>2. WhenEq(f, 0, here).ret = here
    BY DEF WhenEq
  <2>3. futex[f].locked = 0
    BY <1>1, <1>5
  <2>4. PipeWords(f) /\ futex'[f].locked = futex[f].locked
    BY Zenon, <1>1, <2>1, <2>3 DEF PipeWords
  <2> QED
    BY Zenon, <1>2, <1>3, <2>1, <2>2, <2>4, PipeEnter
<1> QED
  BY Zenon, <1>4, <1>5

\* sema_post adds a unit.
LEMMA PipePosts ==
  ASSUME PipeShape, futex \in [Futexes -> FutexWord], NEW t \in Threads, NEW f \in Futexes,
         NEW here \in {"r_post", "w_post"}, NEW kernel \in {"r_kernel", "w_kernel"},
         NEW next \in {"idle", "w_wait"}, sema_post_count(t, f, 1, 0, here, kernel, next)
  PROVE  /\ PipeShape' /\ PipeWords(f) /\ PipeLoc(t) = here
         /\ futex'[f].locked = futex[f].locked + 1
         /\ \E l \in {kernel, next} : PipeMoved(t, l)
<1>1. /\ futex[f] \in FutexWord /\ futex[f].kernel \in {0, 1} /\ futex[f].locked \in Nat
  BY SemWord
<1>2. here \notin WaitLabels /\ next \notin WaitLabels /\ kernel \notin WaitLabels
  BY DEF WaitLabels
<1>3. Capped(futex[f].locked + 1, 0) = futex[f].locked + 1 /\ futex[f].locked + 1 \in Nat
  BY <1>1 DEF Capped
<1>4. /\ Word(futex[f].kernel, futex[f].locked + 1) \in FutexWord
      /\ Word(futex[f].kernel, futex[f].locked + 1).locked = futex[f].locked + 1
  BY Zenon, <1>1, <1>3, SemWord
<1>5. /\ pc[t] = here
      /\ futex' = [futex EXCEPT ![f] = Word(futex[f].kernel, futex[f].locked + 1)]
  BY Zenon, <1>3 DEF sema_post_count, SetFutex
<1>6. PICK l \in {kernel, next} : Goto(t, l)
  BY Zenon DEF sema_post_count
<1>7. PipeWords(f) /\ futex'[f].locked = futex[f].locked + 1
  BY Zenon, <1>4, <1>5 DEF PipeWords
<1> QED
  BY Zenon, <1>2, <1>5, <1>6, <1>7, PipeGoto

\* Its second half changes no count.
LEMMA PipeWakes ==
  ASSUME PipeShape, futex \in [Futexes -> FutexWord], NEW t \in Threads, NEW f \in Futexes,
         NEW here \in {"r_kernel", "w_kernel"}, NEW next \in {"idle", "w_wait"},
         sema_post_kernel(t, f, here, next)
  PROVE  /\ PipeShape' /\ PipeWords(f) /\ PipeLoc(t) = here
         /\ futex'[f].locked = futex[f].locked /\ PipeMoved(t, next)
<1>1. /\ futex[f] \in FutexWord /\ futex[f].locked \in Nat
      /\ Word(0, futex[f].locked) \in FutexWord
      /\ Word(0, futex[f].locked).locked = futex[f].locked
  BY SemWord
<1>2. here \notin WaitLabels /\ next \notin WaitLabels /\ next \in PipeReturns
  BY DEF WaitLabels, PipeReturns
<1>3. pc[t] = here
  BY Zenon DEF sema_post_kernel
<1>4. CASE UNCHANGED futex /\ Goto(t, next)
  BY Zenon, <1>2, <1>3, <1>4, PipeGoto DEF PipeWords
<1>5. CASE /\ futex' = [futex EXCEPT ![f] = Word(0, futex[f].locked)]
           /\ EnterKernel(t, "sys_wake", WhenNe(f, 0, next))
  <2>1. WhenNe(f, 0, next).ret = next
    BY DEF WhenNe
  <2>2. PipeWords(f) /\ futex'[f].locked = futex[f].locked
    BY Zenon, <1>1, <1>5 DEF PipeWords
  <2> QED
    BY Zenon, <1>2, <1>3, <1>5, <2>1, <2>2, PipeEnter
<1> QED
  BY Zenon, <1>4, <1>5 DEF sema_post_kernel, SetFutex
\* Every initial state satisfies the invariant.
LEMMA PipeInitInv ==
  ASSUME PipeAssumption, PipeInit
  PROVE  PipeInv
<1>1. \A t \in Threads : PipeLoc(t) = "idle"
  BY DEF PipeInit, PipeLoc, WaitLabels
<1>2. DOMAIN call = Threads /\ \A t \in Threads : call[t].ret = "none"
  BY DEF PipeInit, WaitInit, WhenEq
<1>3. PipeTypeOK
  BY <1>2, SemWord DEF PipeInit, WaitInit, PipeTypeOK, PipeShape, PipeReturns
<1>4. PipeHolder
  BY Zenon, <1>1, ThreadsAssumption DEF PipeHolder, PipeInit
<1>5. futex[WriterSema].locked = 0 /\ futex[ReaderSema].locked = 0
  BY SemWord DEF PipeInit, WaitInit, PipeAssumption
<1>6. PipeTurn
  BY Zenon, <1>1, <1>5 DEF PipeTurn, PipeInit, NoneCopies
<1> QED
  BY Zenon, <1>3, <1>4, <1>6 DEF PipeInv

\* A step that passes nothing on: no count changes, nobody comes to the buffer or
\* leaves it, and the writer inside goes from its post to its wait at most.
LEMMA PipeAside ==
  ASSUME PipeAssumption, PipeInv, NEW t \in Threads, NEW l, PipeMoved(t, l), PipeShape',
         futex' \in [Futexes -> FutexWord],
         futex'[WriterSema].locked = futex[WriterSema].locked,
         futex'[ReaderSema].locked = futex[ReaderSema].locked,
         \/ l = PipeLoc(t)
         \/ PipeLoc(t) = "w_kernel" /\ l = "w_wait"
         \/ PipeLoc(t) \in {"idle", "r_kernel"} /\ l \in {"idle", "r_wait", "w_lock"},
         UNCHANGED <<plock, pipe, result>>, ask' \in [Threads -> Nat],
         \A u \in Threads \ {t} : ask'[u] = ask[u],
         l \in {"r_wait", "r_copy", "w_lock"} => ask'[t] > 0,
         l = "w_lock" => t \in Writers
  PROVE  PipeInv'
<1>1. PipeTypeOK'
  BY Zenon DEF PipeInv, PipeTypeOK
<1>2. PipeHolder'
  BY Zenon DEF PipeInv, PipeHolder, PipeMoved
<1>3. \A u \in Threads : PipeLoc(u)' \in {"r_copy", "r_post"} \/ PipeLoc(u) \in {"r_copy", "r_post"}
                         => PipeLoc(u)' = PipeLoc(u)
  BY Zenon DEF PipeMoved
<1>4. /\ NoneCopies => NoneCopies'
      /\ OneCopies("r_copy") => OneCopies("r_copy")'
      /\ OneCopies("r_post") => OneCopies("r_post")'
  BY Zenon, <1>3 DEF NoneCopies, OneCopies
<1>5. plock \in Threads =>
        /\ PipeLoc(plock) \in {"w_kernel", "w_wait"} => PipeLoc(plock)' \in {"w_kernel", "w_wait"}
        /\ PipeLoc(plock) \in {"w_post"} => PipeLoc(plock)' \in {"w_post"}
        /\ PipeLoc(plock) \in {"w_unlock"} => PipeLoc(plock)' \in {"w_unlock"}
  BY Zenon DEF PipeMoved
<1>6. PipeTurn'
  BY Zenon, <1>4, <1>5 DEF PipeInv, PipeTurn, PipeAt, PipeFresh, PipeRead
<1> QED
  BY Zenon, <1>1, <1>2, <1>6 DEF PipeInv

\* Nobody is moved.
LEMMA PipeStill ==
  ASSUME PipeInv, PipeShape', \A u \in Threads : PipeLoc(u)' = PipeLoc(u),
         UNCHANGED <<futex, plock, pipe, ask, result>>
  PROVE  PipeInv'
<1>1. PipeTypeOK' /\ PipeHolder'
  BY Zenon DEF PipeInv, PipeTypeOK, PipeHolder
<1>2. /\ NoneCopies => NoneCopies'
      /\ OneCopies("r_copy") => OneCopies("r_copy")'
      /\ OneCopies("r_post") => OneCopies("r_post")'
  BY Zenon DEF NoneCopies, OneCopies
<1>3. PipeTurn'
  BY Zenon, <1>2 DEF PipeInv, PipeTurn, PipeAt, PipeFresh, PipeRead
<1> QED
  BY Zenon, <1>1, <1>3 DEF PipeInv

\* A call begins with a size.
LEMMA PipeBeginStep ==
  ASSUME PipeAssumption, PipeInv, NEW t \in Threads, PipeBegin(t)
  PROVE  PipeInv'
<1>1. PICK n \in Sizes : ask' = [ask EXCEPT ![t] = n]
  BY Zenon DEF PipeBegin
<1>2. n \in Nat /\ n > 0
  BY DEF PipeAssumption
<1>3. PICK l \in {"r_wait", "w_lock"} : Goto(t, l) /\ (l = "w_lock" => t \in Writers)
  BY Zenon DEF PipeBegin, PipeAssumption
<1>4. pc[t] = "idle" /\ UNCHANGED <<futex, plock, pipe, result>>
  BY Zenon DEF PipeBegin
<1>5. PipeShape' /\ PipeMoved(t, l) /\ PipeLoc(t) = "idle"
  BY Zenon, <1>3, <1>4, PipeGoto DEF PipeInv, PipeTypeOK, WaitLabels
<1>6. /\ ask' \in [Threads -> Nat] /\ ask'[t] = n
      /\ \A u \in Threads \ {t} : ask'[u] = ask[u]
      /\ futex' \in [Futexes -> FutexWord]
  BY Zenon, <1>1, <1>2, <1>4 DEF PipeInv, PipeTypeOK
<1> QED
  BY Zenon, <1>2, <1>3, <1>4, <1>5, <1>6, PipeAside

\* The reader takes the unit of the writer semaphore, or waits.
LEMMA PipeReadWaitStep ==
  ASSUME PipeAssumption, PipeInv, NEW t \in Threads, ReadWait(t)
  PROVE  PipeInv'
<1>0. /\ PipeShape /\ futex \in [Futexes -> FutexWord] /\ ask \in [Threads -> Nat]
      /\ WriterSema \in Futexes /\ ReaderSema \in Futexes /\ ReaderSema # WriterSema
      /\ UNCHANGED <<plock, pipe, ask, result>> /\ sema_wait(t, WriterSema, "r_wait", "r_copy")
  BY Zenon DEF PipeInv, PipeTypeOK, PipeAssumption, ReadWait
<1>1. /\ PipeShape' /\ PipeWords(WriterSema) /\ PipeLoc(t) = "r_wait"
      /\ \/ /\ PipeMoved(t, "r_copy") /\ futex[WriterSema].locked # 0
            /\ futex'[WriterSema].locked = futex[WriterSema].locked - 1
         \/ PipeMoved(t, "r_wait") /\ futex'[WriterSema].locked = futex[WriterSema].locked
  BY Zenon, <1>0, PipeTakes
<1>2. /\ futex' \in [Futexes -> FutexWord]
      /\ futex'[ReaderSema].locked = futex[ReaderSema].locked
      /\ ask[t] > 0
  BY Zenon, <1>0, <1>1 DEF PipeWords, PipeInv, PipeHolder
<1>3. CASE PipeMoved(t, "r_wait") /\ futex'[WriterSema].locked = futex[WriterSema].locked
  BY Zenon, <1>0, <1>1, <1>2, <1>3, PipeAside
<1>4. CASE /\ PipeMoved(t, "r_copy") /\ futex[WriterSema].locked # 0
           /\ futex'[WriterSema].locked = futex[WriterSema].locked - 1
  <2>1. PipeTypeOK' /\ PipeHolder'
    BY Zenon, <1>0, <1>1, <1>2, <1>4 DEF PipeInv, PipeTypeOK, PipeHolder, PipeMoved
  <2>2. PipeAt(1, 0, {"w_kernel", "w_wait"}) /\ NoneCopies /\ PipeFresh
    BY Zenon, <1>4 DEF PipeInv, PipeTurn, PipeAt
  <2>3. futex'[WriterSema].locked = 0 /\ futex'[ReaderSema].locked = 0
    BY <1>2, <1>4, <2>2 DEF PipeAt
  <2>4. PipeAt(0, 0, {"w_kernel", "w_wait"})'
    BY Zenon, <1>0, <1>1, <1>4, <2>2, <2>3 DEF PipeAt, PipeMoved
  <2>5. OneCopies("r_copy")' /\ PipeFresh'
    BY Zenon, <1>0, <1>4, <2>2 DEF OneCopies, NoneCopies, PipeMoved, PipeFresh
  <2> QED
    BY Zenon, <2>1, <2>4, <2>5 DEF PipeInv, PipeTurn
<1> QED
  BY Zenon, <1>1, <1>3, <1>4
\* The copy takes something of a fresh buffer, and not more than is in it.
LEMMA PipeSize ==
  ASSUME PipeAssumption, PipeTypeOK, PipeFresh, NEW t \in Threads, ask[t] > 0
  PROVE  ReadSize(t) \in Nat /\ ReadSize(t) > 0 /\ ReadSize(t) <= pipe.count
<1>1. pipe.offset = 0 /\ pipe.count \in Nat /\ pipe.count > 0 /\ ask[t] \in Nat
  BY DEF PipeTypeOK, PipeFresh
<1>2. MaxMsg \in Nat /\ MaxMsg > 0
  BY DEF PipeAssumption
<1> QED
  BY <1>1, <1>2 DEF ReadSize

\* The reader copies.
LEMMA PipeCopyStep ==
  ASSUME PipeAssumption, PipeInv, NEW t \in Threads, ReadCopy(t)
  PROVE  PipeInv'
<1>0. /\ pc[t] = "r_copy" /\ Goto(t, "r_post") /\ UNCHANGED <<futex, plock>>
      /\ pipe' = [pipe EXCEPT !.offset = pipe.offset + ReadSize(t)] /\ result' = ReadSize(t)
      /\ ask' = [ask EXCEPT ![t] = 0]
      /\ PipeTypeOK
  BY Zenon DEF ReadCopy, PipeInv
<1>1. PipeShape' /\ PipeMoved(t, "r_post") /\ PipeLoc(t) = "r_copy"
  BY Zenon, <1>0, PipeGoto DEF PipeTypeOK, WaitLabels
<1>2. PipeAt(0, 0, {"w_kernel", "w_wait"}) /\ OneCopies("r_copy") /\ PipeFresh
  BY Zenon, <1>1 DEF PipeInv, PipeTurn, NoneCopies, OneCopies
<1>3. ask[t] > 0
  BY Zenon, <1>1 DEF PipeInv, PipeHolder
<1>4. ReadSize(t) \in Nat /\ ReadSize(t) > 0 /\ ReadSize(t) <= pipe.count
  BY Zenon, <1>0, <1>2, <1>3, PipeSize
<1> HIDE DEF ReadSize
<1>5. /\ pipe.offset + ReadSize(t) = ReadSize(t)
      /\ pipe \in [data : Threads \cup {NoThread}, count : Nat, offset : Nat]
  BY <1>0, <1>2, <1>4 DEF PipeFresh, PipeTypeOK
<1>6. /\ pipe' \in [data : Threads \cup {NoThread}, count : Nat, offset : Nat]
      /\ pipe'.offset = result' /\ pipe'.count = pipe.count /\ pipe'.data = pipe.data
  BY <1>0, <1>4, <1>5
<1>7. ask' \in [Threads -> Nat] /\ \A u \in Threads \ {t} : ask'[u] = ask[u]
  BY <1>0 DEF PipeTypeOK
<1>8. PipeTypeOK' /\ PipeHolder'
  BY Zenon, <1>0, <1>1, <1>4, <1>6, <1>7 DEF PipeInv, PipeTypeOK, PipeHolder, PipeMoved
<1>9. PipeAt(0, 0, {"w_kernel", "w_wait"})'
  BY Zenon, <1>0, <1>1, <1>2, <1>6 DEF PipeAt, PipeMoved
<1>10. OneCopies("r_post")' /\ PipeRead'
  BY Zenon, <1>0, <1>1, <1>2, <1>4, <1>6 DEF OneCopies, PipeMoved, PipeRead
<1> QED
  BY Zenon, <1>8, <1>9, <1>10 DEF PipeInv, PipeTurn

\* The reader posts, which lets the writer go on.
LEMMA PipeReadPostStep ==
  ASSUME PipeAssumption, PipeInv, NEW t \in Threads, ReadPost(t)
  PROVE  PipeInv'
<1>0. /\ PipeShape /\ futex \in [Futexes -> FutexWord] /\ ask \in [Threads -> Nat]
      /\ WriterSema \in Futexes /\ ReaderSema \in Futexes /\ ReaderSema # WriterSema
      /\ UNCHANGED <<plock, pipe, ask, result>>
  BY Zenon DEF PipeInv, PipeTypeOK, PipeAssumption, ReadPost
<1>1. CASE sema_post_count(t, ReaderSema, 1, 0, "r_post", "r_kernel", "idle")
  <2>1. /\ PipeShape' /\ PipeWords(ReaderSema) /\ PipeLoc(t) = "r_post"
        /\ futex'[ReaderSema].locked = futex[ReaderSema].locked + 1
        /\ \E l \in {"r_kernel", "idle"} : PipeMoved(t, l)
    BY Zenon, <1>0, <1>1, PipePosts
  <2>2. PICK l \in {"r_kernel", "idle"} : PipeMoved(t, l)
    BY <2>1
  <2>3. /\ futex' \in [Futexes -> FutexWord]
        /\ futex'[WriterSema].locked = futex[WriterSema].locked
    BY Zenon, <1>0, <2>1 DEF PipeWords
  <2>4. PipeTypeOK' /\ PipeHolder'
    BY Zenon, <1>0, <2>1, <2>2, <2>3 DEF PipeInv, PipeTypeOK, PipeHolder, PipeMoved
  <2>5. PipeAt(0, 0, {"w_kernel", "w_wait"}) /\ OneCopies("r_post") /\ PipeRead
    BY Zenon, <2>1 DEF PipeInv, PipeTurn, NoneCopies, OneCopies
  <2>6. futex'[WriterSema].locked = 0 /\ futex'[ReaderSema].locked = 1
    BY <2>1, <2>3, <2>5 DEF PipeAt
  <2>7. PipeAt(0, 1, {"w_kernel", "w_wait"})'
    BY Zenon, <1>0, <2>1, <2>2, <2>5, <2>6 DEF PipeAt, PipeMoved
  <2>8. NoneCopies' /\ PipeRead'
    BY Zenon, <1>0, <2>1, <2>2, <2>5 DEF OneCopies, NoneCopies, PipeMoved, PipeRead
  <2> QED
    BY Zenon, <2>4, <2>7, <2>8 DEF PipeInv, PipeTurn
<1>2. CASE sema_post_kernel(t, ReaderSema, "r_kernel", "idle")
  <2>1. /\ PipeShape' /\ PipeWords(ReaderSema) /\ PipeLoc(t) = "r_kernel"
        /\ futex'[ReaderSema].locked = futex[ReaderSema].locked /\ PipeMoved(t, "idle")
    BY Zenon, <1>0, <1>2, PipeWakes
  <2> QED
    BY Zenon, <1>0, <2>1, PipeAside DEF PipeWords
<1> QED
  BY Zenon, <1>1, <1>2 DEF ReadPost

\* A writer takes the mutex and publishes its buffer.
LEMMA PipeFillStep ==
  ASSUME PipeAssumption, PipeInv, NEW t \in Threads, WriteFill(t)
  PROVE  PipeInv'
<1>0. /\ pc[t] = "w_lock" /\ Goto(t, "w_post") /\ UNCHANGED <<futex, ask, result>>
      /\ plock = NoThread /\ plock' = t
      /\ pipe' = [data |-> t, count |-> ask[t], offset |-> 0]
      /\ PipeTypeOK
  BY Zenon DEF WriteFill, PipeInv
<1>1. PipeShape' /\ PipeMoved(t, "w_post") /\ PipeLoc(t) = "w_lock"
  BY Zenon, <1>0, PipeGoto DEF PipeTypeOK, WaitLabels
<1>2. ask[t] > 0 /\ t \in Writers
  BY Zenon, <1>1 DEF PipeInv, PipeHolder
<1>3. /\ pipe' \in [data : Threads \cup {NoThread}, count : Nat, offset : Nat]
      /\ pipe'.data = t /\ pipe'.count = ask[t] /\ pipe'.offset = 0
  BY <1>0 DEF PipeTypeOK
<1>4. PipeTypeOK' /\ PipeHolder'
  BY Zenon, <1>0, <1>1, <1>2, <1>3, ThreadsAssumption
  DEF PipeInv, PipeTypeOK, PipeHolder, PipeMoved
<1>5. /\ NoneCopies /\ futex[WriterSema].locked = 0 /\ futex[ReaderSema].locked = 0
  BY Zenon, <1>0, ThreadsAssumption DEF PipeInv, PipeTurn, PipeAt
<1>6. PipeAt(0, 0, {"w_post"})' /\ NoneCopies' /\ PipeFresh'
  BY Zenon, <1>0, <1>1, <1>2, <1>3, <1>5 DEF PipeAt, PipeMoved, NoneCopies, PipeFresh
<1> QED
  BY Zenon, <1>4, <1>6 DEF PipeInv, PipeTurn
\* The writer offers its buffer.
LEMMA PipeWritePostStep ==
  ASSUME PipeAssumption, PipeInv, NEW t \in Threads, WritePost(t)
  PROVE  PipeInv'
<1>0. /\ PipeShape /\ futex \in [Futexes -> FutexWord] /\ ask \in [Threads -> Nat]
      /\ WriterSema \in Futexes /\ ReaderSema \in Futexes /\ ReaderSema # WriterSema
      /\ UNCHANGED <<plock, pipe, ask, result>>
  BY Zenon DEF PipeInv, PipeTypeOK, PipeAssumption, WritePost
<1>1. CASE sema_post_count(t, WriterSema, 1, 0, "w_post", "w_kernel", "w_wait")
  <2>1. /\ PipeShape' /\ PipeWords(WriterSema) /\ PipeLoc(t) = "w_post"
        /\ futex'[WriterSema].locked = futex[WriterSema].locked + 1
        /\ \E l \in {"w_kernel", "w_wait"} : PipeMoved(t, l)
    BY Zenon, <1>0, <1>1, PipePosts
  <2>2. PICK l \in {"w_kernel", "w_wait"} : PipeMoved(t, l)
    BY <2>1
  <2>3. /\ futex' \in [Futexes -> FutexWord]
        /\ futex'[ReaderSema].locked = futex[ReaderSema].locked
        /\ plock = t
    BY Zenon, <1>0, <2>1 DEF PipeWords, PipeInv, PipeHolder
  <2>4. PipeTypeOK' /\ PipeHolder'
    BY Zenon, <1>0, <2>1, <2>2, <2>3 DEF PipeInv, PipeTypeOK, PipeHolder, PipeMoved
  <2>5. PipeAt(0, 0, {"w_post"}) /\ NoneCopies /\ PipeFresh
    BY Zenon, <2>1, <2>3, ThreadsAssumption DEF PipeInv, PipeTurn, PipeAt
  <2>6. futex'[WriterSema].locked = 1 /\ futex'[ReaderSema].locked = 0
    BY <2>1, <2>3, <2>5 DEF PipeAt
  <2>7. PipeAt(1, 0, {"w_kernel", "w_wait"})'
    BY Zenon, <1>0, <2>2, <2>3, <2>5, <2>6 DEF PipeAt, PipeMoved
  <2>8. NoneCopies' /\ PipeFresh'
    BY Zenon, <1>0, <2>2, <2>5 DEF NoneCopies, PipeMoved, PipeFresh
  <2> QED
    BY Zenon, <2>4, <2>7, <2>8 DEF PipeInv, PipeTurn
<1>2. CASE sema_post_kernel(t, WriterSema, "w_kernel", "w_wait")
  <2>1. /\ PipeShape' /\ PipeWords(WriterSema) /\ PipeLoc(t) = "w_kernel"
        /\ futex'[WriterSema].locked = futex[WriterSema].locked /\ PipeMoved(t, "w_wait")
    BY Zenon, <1>0, <1>2, PipeWakes
  <2> QED
    BY Zenon, <1>0, <2>1, PipeAside DEF PipeWords
<1> QED
  BY Zenon, <1>1, <1>2 DEF WritePost

\* The writer takes the unit of the reader semaphore, or waits.
LEMMA PipeWriteWaitStep ==
  ASSUME PipeAssumption, PipeInv, NEW t \in Threads, WriteWait(t)
  PROVE  PipeInv'
<1>0. /\ PipeShape /\ futex \in [Futexes -> FutexWord] /\ ask \in [Threads -> Nat]
      /\ WriterSema \in Futexes /\ ReaderSema \in Futexes /\ ReaderSema # WriterSema
      /\ UNCHANGED <<plock, pipe, ask, result>> /\ sema_wait(t, ReaderSema, "w_wait", "w_unlock")
  BY Zenon DEF PipeInv, PipeTypeOK, PipeAssumption, WriteWait
<1>1. /\ PipeShape' /\ PipeWords(ReaderSema) /\ PipeLoc(t) = "w_wait"
      /\ \/ /\ PipeMoved(t, "w_unlock") /\ futex[ReaderSema].locked # 0
            /\ futex'[ReaderSema].locked = futex[ReaderSema].locked - 1
         \/ PipeMoved(t, "w_wait") /\ futex'[ReaderSema].locked = futex[ReaderSema].locked
  BY Zenon, <1>0, PipeTakes
<1>2. /\ futex' \in [Futexes -> FutexWord]
      /\ futex'[WriterSema].locked = futex[WriterSema].locked
      /\ plock = t
  BY Zenon, <1>0, <1>1 DEF PipeWords, PipeInv, PipeHolder
<1>3. CASE PipeMoved(t, "w_wait") /\ futex'[ReaderSema].locked = futex[ReaderSema].locked
  BY Zenon, <1>0, <1>1, <1>2, <1>3, PipeAside
<1>4. CASE /\ PipeMoved(t, "w_unlock") /\ futex[ReaderSema].locked # 0
           /\ futex'[ReaderSema].locked = futex[ReaderSema].locked - 1
  <2>1. PipeTypeOK' /\ PipeHolder'
    BY Zenon, <1>0, <1>1, <1>2, <1>4 DEF PipeInv, PipeTypeOK, PipeHolder, PipeMoved
  <2>2. PipeAt(0, 1, {"w_kernel", "w_wait"}) /\ NoneCopies /\ PipeRead
    BY Zenon, <1>4 DEF PipeInv, PipeTurn, PipeAt
  <2>3. futex'[WriterSema].locked = 0 /\ futex'[ReaderSema].locked = 0
    BY <1>2, <1>4, <2>2 DEF PipeAt
  <2>4. PipeAt(0, 0, {"w_unlock"})'
    BY Zenon, <1>0, <1>2, <1>4, <2>2, <2>3 DEF PipeAt, PipeMoved
  <2>5. NoneCopies' /\ PipeRead'
    BY Zenon, <1>0, <1>4, <2>2 DEF NoneCopies, PipeMoved, PipeRead
  <2> QED
    BY Zenon, <2>1, <2>4, <2>5 DEF PipeInv, PipeTurn
<1> QED
  BY Zenon, <1>1, <1>3, <1>4

\* The writer gives the mutex back.
LEMMA PipeUnlockStep ==
  ASSUME PipeAssumption, PipeInv, NEW t \in Threads, WriteUnlock(t)
  PROVE  PipeInv'
<1>0. /\ pc[t] = "w_unlock" /\ Goto(t, "idle") /\ UNCHANGED <<futex, pipe, result>>
      /\ plock' = NoThread /\ ask' = [ask EXCEPT ![t] = 0]
      /\ PipeTypeOK
  BY Zenon DEF WriteUnlock, PipeInv
<1>1. PipeShape' /\ PipeMoved(t, "idle") /\ PipeLoc(t) = "w_unlock"
  BY Zenon, <1>0, PipeGoto DEF PipeTypeOK, WaitLabels
<1>2. ask' \in [Threads -> Nat] /\ \A u \in Threads \ {t} : ask'[u] = ask[u]
  BY <1>0 DEF PipeTypeOK
<1>3. plock = t
  BY Zenon, <1>1 DEF PipeInv, PipeHolder
<1>4. PipeTypeOK' /\ PipeHolder'
  BY Zenon, <1>0, <1>1, <1>2, <1>3, ThreadsAssumption
  DEF PipeInv, PipeTypeOK, PipeHolder, PipeMoved
<1>5. PipeAt(0, 0, {"w_unlock"}) /\ NoneCopies
  BY Zenon, <1>1, <1>3, ThreadsAssumption DEF PipeInv, PipeTurn, PipeAt
<1>6. NoneCopies' /\ futex'[WriterSema].locked = 0 /\ futex'[ReaderSema].locked = 0
  BY Zenon, <1>0, <1>1, <1>5 DEF PipeAt, NoneCopies, PipeMoved
<1> QED
  BY Zenon, <1>0, <1>4, <1>6 DEF PipeInv, PipeTurn

\* For any number of readers, writers and messages of any size: vfs_pipe_read
\* copies from the buffer of a writer that is still in vfs_pipe_write, alone and
\* within its bounds, and vfs_pipe_write reports what was read of its own buffer.
THEOREM PipeIsFaithful ==
  ASSUME PipeAssumption
  PROVE  PipeSpec => [](BufferAlive /\ WriteReported)
<1>1. PipeInit => PipeInv
  BY PipeInitInv
<1>2. PipeInv /\ [PipeNext]_pipeVars => PipeInv'
  <2> SUFFICES ASSUME PipeInv, [PipeNext]_pipeVars PROVE PipeInv'
    OBVIOUS
  <2>1. CASE UNCHANGED pipeVars
    <3>1. /\ PipeShape' /\ (\A u \in Threads : PipeLoc(u)' = PipeLoc(u))
          /\ UNCHANGED <<futex, plock, pipe, ask, result>>
      BY Zenon, <2>1 DEF pipeVars, PipeInv, PipeTypeOK, PipeShape, PipeLoc
    <3> QED
      BY Zenon, <3>1, PipeStill
  <2>2. ASSUME NEW t \in Threads, PipeKernel(t) PROVE PipeInv'
    BY Zenon, <2>2, PipeKernelStep, PipeStill DEF PipeKernel, PipeInv, PipeTypeOK
  <2>3. ASSUME NEW t \in Threads, PipeStep(t) PROVE PipeInv'
    BY Zenon, <2>2, <2>3, PipeBeginStep, PipeReadWaitStep, PipeCopyStep, PipeReadPostStep,
       PipeFillStep, PipeWritePostStep, PipeWriteWaitStep, PipeUnlockStep
    DEF PipeStep
  <2> QED
    BY Zenon, <2>1, <2>3 DEF PipeNext
<1>3. PipeInv => BufferAlive /\ WriteReported
  <2> SUFFICES ASSUME PipeInv PROVE BufferAlive /\ WriteReported
    OBVIOUS
  <2>1. \A t \in Threads : pc[t] \in {"r_copy", "w_unlock"} => PipeLoc(t) = pc[t]
    BY Zenon DEF PipeLoc, WaitLabels
  <2>2. ASSUME NEW r \in Readers, pc[r] = "r_copy"
        PROVE  /\ pipe.data \in Writers /\ plock = pipe.data
               /\ \A q \in Readers : pc[q] = "r_copy" => q = r
               /\ pipe.offset + ReadSize(r) <= pipe.count
    <3>1. r \in Threads /\ PipeLoc(r) = "r_copy" /\ Readers \subseteq Threads
      BY Zenon, <2>1, <2>2 DEF PipeAssumption
    <3>2. PipeAt(0, 0, {"w_kernel", "w_wait"}) /\ OneCopies("r_copy") /\ PipeFresh
      BY Zenon, <3>1 DEF PipeInv, PipeTurn, NoneCopies, OneCopies
    <3>3. plock = pipe.data /\ plock \in Writers
      BY Zenon, <3>2 DEF PipeAt, PipeInv, PipeHolder
    <3>4. \A q \in Readers : pc[q] = "r_copy" => q = r
      BY Zenon, <2>1, <3>1, <3>2 DEF OneCopies
    <3>5. ask[r] > 0
      BY Zenon, <3>1 DEF PipeInv, PipeHolder
    <3>6. ReadSize(r) \in Nat /\ ReadSize(r) <= pipe.count
      BY Zenon, <3>1, <3>2, <3>5, PipeSize DEF PipeInv
    <3>7. pipe.offset + ReadSize(r) <= pipe.count
      <4> HIDE DEF ReadSize
      <4> QED
        BY <3>2, <3>6 DEF PipeFresh
    <3> QED
      BY Zenon, <3>3, <3>4, <3>7
  <2>3. ASSUME NEW w \in Writers, pc[w] = "w_unlock"
        PROVE  pipe.data = w /\ pipe.offset = result /\ pipe.offset > 0
    <3>1. w \in Threads /\ PipeLoc(w) = "w_unlock"
      BY Zenon, <2>1, <2>3 DEF PipeAssumption
    <3>2. plock = w
      BY Zenon, <3>1 DEF PipeInv, PipeHolder
    <3>3. PipeAt(0, 0, {"w_unlock"}) /\ PipeRead
      BY Zenon, <3>1, <3>2, ThreadsAssumption DEF PipeInv, PipeTurn, PipeAt
    <3> QED
      BY Zenon, <3>2, <3>3 DEF PipeAt, PipeRead
  <2> QED
    BY Zenon, <2>2, <2>3 DEF BufferAlive, WriteReported
<1> QED
  BY <1>1, <1>2, <1>3, PTL DEF PipeSpec

=============================================================================
