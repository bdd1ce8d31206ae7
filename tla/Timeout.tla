------------------------------- MODULE Timeout ------------------------------
(***************************************************************************)
(* Threads that sleep for a time: the HAL's clock (hal/dev/clock.c), the   *)
(* wait queue ordered by wake-up time (kernel/proc/wait.c), the worker     *)
(* thread that wakes those whose time has come, and the scheduler that     *)
(* runs the worker only when somebody's time has come.                     *)
(*                                                                         *)
(* The clock is a 64-bit number of milliseconds.  A 32-bit CPU loads and   *)
(* stores it in two halves, in an order that is the compiler's, so the HAL *)
(* guards it with a reader-writer spinlock of its own.  The timer          *)
(* interrupt of the boot CPU is the only writer.                           *)
(*                                                                         *)
(* A CPU is a place at[c] and the thread run[c] it runs.  Interrupts are   *)
(* off except in a thread: in system calls, in the scheduler, and in the   *)
(* worker while it holds the lock of the queue.                            *)
(***************************************************************************)
EXTENDS Integers, Sequences, SequencesExt, FiniteSetTheorems, TLAPS

CONSTANTS
  SmpCpus,     \* the CPUs
  Boot,        \* the one whose timer drives the clock
  Sleepers,    \* the threads that ask to sleep
  Worker,      \* timeout_wakeup_worker
  Idle,        \* the idle thread of a CPU, of the lowest class
  Delays,      \* the timeouts asked for; 0 stands for no timeout
  Half,        \* what half of the clock holds: its base
  Period,      \* clock_period, less than Half
  Horizon,     \* bound: the clock stands still from here on
  Never        \* -1ull, more than Horizon and every delay together

VARIABLES
  at,          \* at[c]: where c is
  run,         \* run[c]: the thread c runs
  then,        \* then[c]: where c goes on with the time it has read
  copy,        \* copy[c]: the halves loaded, or to be stored
  part,        \* part[c]: the halves not yet loaded or stored
  lock,        \* the clock's lock, [write, readers]
  ms,          \* the clock, [hi, lo]
  qlock,       \* holder of wait_queue.lock
  queue,       \* wait_queue
  delay,       \* delay[t]: the timeout t asks for
  deadline,    \* deadline[t]: wait_timeout_ms
  ready        \* ready[class]: sched_queues, for the classes that matter

clockVars == <<lock, ms>>
readVars == <<then, copy, part>>
queueVars == <<qlock, queue, deadline>>
timeoutVars == <<at, run, clockVars, readVars, queueVars, delay, ready>>

Halves == {"hi", "lo"}
Split(n) == [hi |-> n \div Half, lo |-> n % Half]
Value(w) == w.hi * Half + w.lo

Go(c, l) == at' = [at EXCEPT ![c] = l]

\* A local variable is of no use any more.
Forget(c) == copy' = [copy EXCEPT ![c] = Split(0)]
Leave(c) == run' = [run EXCEPT ![c] = Idle]

TimeoutInit ==
  /\ at = [c \in SmpCpus |-> "sched"]
  /\ run = [c \in SmpCpus |-> Idle]
  /\ then = [c \in SmpCpus |-> "sched"]
  /\ copy = [c \in SmpCpus |-> Split(0)]
  /\ part = [c \in SmpCpus |-> {}]
  /\ lock = [write |-> 0, readers |-> 0]
  /\ ms = Split(0)
  /\ qlock = Idle
  /\ queue = <<>>
  /\ delay = [t \in Sleepers |-> 0]
  /\ deadline = [t \in Sleepers |-> 0]
  /\ ready = [timer |-> <<Worker>>, normal |-> SetToSeq(Sleepers)]

-----------------------------------------------------------------------------
\* The clock.

\* hal_get_ms is called: clock_get_ms begins.
hal_get_ms(c, l) ==
  /\ Go(c, "rlock")
  /\ then' = [then EXCEPT ![c] = l]

\* Mutant: the writer's bit is not looked at.
rwlock_rlock_blind(c) ==
  /\ at[c] = "rlock"
  /\ lock' = [lock EXCEPT !.readers = @ + 1]
  /\ part' = [part EXCEPT ![c] = Halves]
  /\ Go(c, "load")
  /\ UNCHANGED <<run, ms, then, copy, queueVars, delay, ready>>

rwlock_rlock(c) ==
  /\ at[c] = "rlock"
  /\ lock.write = 0
  /\ lock' = [lock EXCEPT !.readers = @ + 1]
  /\ part' = [part EXCEPT ![c] = Halves]
  /\ Go(c, "load")
  /\ UNCHANGED <<run, ms, then, copy, queueVars, delay, ready>>

clock_get_ms(c) ==
  /\ at[c] = "load"
  /\ \E h \in part[c] :
       /\ copy' = [copy EXCEPT ![c][h] = ms[h]]
       /\ part' = [part EXCEPT ![c] = @ \ {h}]
  /\ Go(c, IF part'[c] = {} THEN "runlock" ELSE "load")
  /\ UNCHANGED <<run, clockVars, then, queueVars, delay, ready>>

\* Both tests of the word panic.
rwlock_runlock(c) ==
  /\ at[c] = "runlock"
  /\ IF lock.write = 1 \/ lock.readers = 0
     THEN Go(c, "panic") /\ UNCHANGED <<lock, then>>
     ELSE /\ Go(c, then[c])
          /\ lock' = [lock EXCEPT !.readers = @ - 1]
          /\ then' = [then EXCEPT ![c] = "sched"]
  /\ UNCHANGED <<run, ms, copy, part, queueVars, delay, ready>>

\* The writer waits for the readers only: it relies on being the only one.
rwlock_wlock(c) ==
  /\ at[c] = "wlock"
  /\ lock.readers = 0
  /\ lock' = [lock EXCEPT !.write = 1]
  /\ copy' = [copy EXCEPT ![c] = Split(Value(ms) + Period)]
  /\ part' = [part EXCEPT ![c] = Halves]
  /\ Go(c, "store")
  /\ UNCHANGED <<run, ms, then, queueVars, delay, ready>>

clock_advance_ms(c) ==
  /\ at[c] = "store"
  /\ \E h \in part[c] :
       /\ ms' = [ms EXCEPT ![h] = copy[c][h]]
       /\ part' = [part EXCEPT ![c] = @ \ {h}]
  /\ Go(c, IF part'[c] = {} THEN "wunlock" ELSE "store")
  /\ UNCHANGED <<run, lock, then, copy, queueVars, delay, ready>>

\* The thread that c runs goes back to the queue of its class.
PutBack(c) ==
  /\ ready' = CASE run[c] = Worker -> [ready EXCEPT !.timer = Append(@, Worker)]
                [] run[c] = Idle   -> ready
                [] OTHER           -> [ready EXCEPT !.normal = Append(@, run[c])]
  /\ Leave(c)

\* After the clock the interrupt goes to the kernel, which schedules anew.
rwlock_wunlock(c) ==
  /\ at[c] = "wunlock"
  /\ IF lock.write = 0 \/ lock.readers > 0
     THEN Go(c, "panic") /\ UNCHANGED <<lock, run, ready>>
     ELSE /\ Go(c, "sched")
          /\ lock' = [write |-> 0, readers |-> 0]
          /\ PutBack(c)
  /\ Forget(c)
  /\ UNCHANGED <<ms, then, part, queueVars, delay>>

\* The timer interrupt, which finds c in a thread with interrupts on.
generic_timer_int_handler(c) ==
  /\ at[c] \in {"thread", "worker"}
  /\ IF c = Boot /\ Value(ms) < Horizon
     THEN Go(c, "wlock") /\ UNCHANGED <<run, ready>>
     ELSE Go(c, "sched") /\ PutBack(c)
  /\ UNCHANGED <<clockVars, readVars, queueVars, delay>>

-----------------------------------------------------------------------------
\* The queue and the scheduler.

\* sched: is_wait_queue_ready reads the clock before it looks at the queue.
sched(c) ==
  /\ at[c] = "sched"
  /\ hal_get_ms(c, "ready")
  /\ UNCHANGED <<run, clockVars, copy, part, queueVars, delay, ready>>

\* Somebody is at the front of the queue, and the time read is theirs.
is_wait_queue_ready(now) ==
  now >= IF queue = <<>> THEN Never ELSE deadline[Head(queue)]

\* The lock of the queue is held for a look only.
LookAtQueue(c) ==
  /\ at[c] = "ready"
  /\ qlock = Idle
  /\ Go(c, IF is_wait_queue_ready(Value(copy[c])) THEN "pick_timer" ELSE "pick")
  /\ Forget(c)
  /\ UNCHANGED <<run, clockVars, then, part, queueVars, delay, ready>>

pick_from_sched_queue(c) ==
  /\ \/ /\ at[c] = "pick_timer"
        /\ IF ready.timer = <<>>
           THEN Go(c, "pick") /\ UNCHANGED <<run, ready>>
           ELSE /\ Go(c, "worker")
                /\ run' = [run EXCEPT ![c] = Head(ready.timer)]
                /\ ready' = [ready EXCEPT !.timer = Tail(@)]
     \/ /\ at[c] = "pick"
        /\ Go(c, "thread")
        /\ IF ready.normal = <<>>
           THEN run' = [run EXCEPT ![c] = Idle] /\ UNCHANGED ready
           ELSE /\ run' = [run EXCEPT ![c] = Head(ready.normal)]
                /\ ready' = [ready EXCEPT !.normal = Tail(@)]
  /\ UNCHANGED <<clockVars, readVars, queueVars, delay>>

\* syscall_wait_on_timeout: a thread asks to sleep.
syscall_handler_wait(c) ==
  /\ at[c] = "thread"
  /\ run[c] \in Sleepers
  /\ \E d \in Delays : delay' = [delay EXCEPT ![run[c]] = d]
  /\ Go(c, "wait")
  /\ UNCHANGED <<run, clockVars, readVars, queueVars, ready>>

\* wait_on_object takes the lock of the queue, which sleep_thread releases.
wait_on_object(c) ==
  /\ at[c] = "wait"
  /\ qlock = Idle
  /\ qlock' = c
  /\ IF delay[run[c]] = 0
     THEN Go(c, "sleep") /\ UNCHANGED then
     ELSE hal_get_ms(c, "sleep")
  /\ UNCHANGED <<run, clockVars, copy, part, queue, delay, deadline, ready>>

\* Mutant: a new thread is queued behind the others.
list_insert_last(t, d) == Append(queue, t)

\* list_insert_sorted with wait_queue_compare: in front of the first thread
\* that is not to be woken earlier.
list_insert_sorted(t, d) ==
  LET before == Len(SelectSeq(queue, LAMBDA u : deadline[u] < d))
  IN  SubSeq(queue, 1, before) \o <<t>> \o SubSeq(queue, before + 1, Len(queue))

sleep_thread(c) ==
  LET t == run[c]
      d == IF delay[t] = 0 THEN Never ELSE Value(copy[c]) + delay[t]
  IN  /\ at[c] = "sleep"
      /\ deadline' = [deadline EXCEPT ![t] = d]
      /\ queue' = list_insert_sorted(t, d)
      /\ qlock' = Idle
      /\ delay' = [delay EXCEPT ![t] = 0]
      /\ Go(c, "sched")
      /\ Leave(c)
      /\ Forget(c)
      /\ UNCHANGED <<clockVars, then, part, ready>>

\* The loop of timeout_wakeup_worker reads the clock again for each thread.
\* It ends with the lock released and the worker back in its queue.
NextSleeper(c, q) ==
  IF q = <<>>
  THEN qlock' = Idle /\ Go(c, "yield") /\ UNCHANGED then
  ELSE qlock' = c /\ hal_get_ms(c, "test")

timeout_wakeup_worker(c) ==
  /\ \/ /\ at[c] = "worker"
        /\ qlock = Idle
        /\ NextSleeper(c, queue)
        /\ UNCHANGED <<run, queue, ready>>
     \/ /\ at[c] = "test"
        /\ IF deadline[Head(queue)] > Value(copy[c])
           THEN qlock' = Idle /\ Go(c, "yield") /\ UNCHANGED <<then, queue, ready>>
           ELSE /\ queue' = Tail(queue)
                /\ ready' = [ready EXCEPT !.normal = Append(@, Head(queue))]
                /\ NextSleeper(c, Tail(queue))
        /\ UNCHANGED run
     \/ /\ at[c] = "yield"
        /\ PutBack(c)
        /\ Go(c, "sched")
        /\ UNCHANGED <<qlock, then, queue>>
  /\ Forget(c)
  /\ UNCHANGED <<clockVars, part, delay, deadline>>

CpuStep(c) ==
  \/ rwlock_rlock(c) \/ clock_get_ms(c) \/ rwlock_runlock(c)
  \/ rwlock_wlock(c) \/ clock_advance_ms(c) \/ rwlock_wunlock(c)
  \/ generic_timer_int_handler(c)
  \/ sched(c) \/ LookAtQueue(c) \/ pick_from_sched_queue(c)
  \/ wait_on_object(c) \/ sleep_thread(c) \/ timeout_wakeup_worker(c)

TimeoutNext == \E c \in SmpCpus : CpuStep(c) \/ syscall_handler_wait(c)

TimeoutSpec == TimeoutInit /\ [][TimeoutNext]_timeoutVars

-----------------------------------------------------------------------------

\* The clock's lock: while the boot CPU stores a half nobody reads, what
\* clock_get_ms returns is the time and never one half of an old and one of a
\* new time, and the tests of rwlock_runlock and rwlock_wunlock never panic.
ClockWhole ==
  /\ \A c \in SmpCpus : at[c] # "panic"
  /\ \A c \in SmpCpus : at[c] = "runlock" => copy[c] = ms
  /\ at[Boot] \in {"store", "wunlock"} =>
       \A c \in SmpCpus : at[c] \notin {"load", "runlock"}

\* The time that has come: what the clock shows, or showed before the boot
\* CPU began to store.
Now == IF at[Boot] = "store" THEN Value(copy[Boot]) - Period ELSE Value(ms)

\* Asleep, or about to be.
Asleep(t) ==
  \/ \E i \in 1..Len(queue) : queue[i] = t
  \/ \E c \in SmpCpus : run[c] = t /\ (at[c] = "sleep" \/ then[c] = "sleep")

\* timeout_wakeup_worker wakes nobody before its time, and the queue that it
\* and is_wait_queue_ready look at from the front is in the order of the
\* wake-up times.
NoEarlyWake ==
  /\ \A t \in Sleepers : ~Asleep(t) => deadline[t] <= Now
  /\ \A i, j \in 1..Len(queue) : i < j => deadline[queue[i]] <= deadline[queue[j]]

\* Nobody whose time has come is asleep.
NobodyOverdue == \A i \in 1..Len(queue) : deadline[queue[i]] > Now

-----------------------------------------------------------------------------
\* The clock is whole for any number of CPUs, of which one has the timer.

TimeoutAssumption == Boot \in SmpCpus /\ IsFiniteSet(SmpCpus)

\* A clock word has two halves.
IsWord(w) == w = [h \in Halves |-> w[h]]

ClockTypeOK ==
  /\ DOMAIN at = SmpCpus /\ DOMAIN then = SmpCpus
  /\ DOMAIN copy = SmpCpus /\ DOMAIN part = SmpCpus
  /\ \A c \in SmpCpus : IsWord(copy[c]) /\ then[c] \in {"sched", "ready", "sleep", "test"}
  /\ lock \in [write : {0, 1}, readers : Nat]
  /\ IsWord(ms)

\* The CPUs inside clock_get_ms.
ClockReaders == {c \in SmpCpus : at[c] \in {"load", "runlock"}}

\* The word of the lock counts the readers, or says that the boot CPU writes.
LockExact ==
  /\ lock.readers = Cardinality(ClockReaders)
  /\ lock.write = 1 <=> at[Boot] \in {"store", "wunlock"}
  /\ lock.write = 1 => lock.readers = 0
  /\ \A c \in SmpCpus : at[c] \in {"wlock", "store", "wunlock"} => c = Boot

\* What a reader has loaded so far is what the clock shows.
Loaded(c) ==
  /\ at[c] = "load" => /\ part[c] \subseteq Halves
                       /\ \A h \in Halves \ part[c] : copy[c][h] = ms[h]
  /\ at[c] = "runlock" => copy[c] = ms
  /\ at[c] # "panic"

HalvesTrue == \A c \in SmpCpus : Loaded(c)

\* The inductive invariant.
ClockInv == ClockTypeOK /\ LockExact /\ HalvesTrue

\* Splitting a time gives a word.
LEMMA SplitWord ==
  ASSUME NEW n
  PROVE  IsWord(Split(n))
  BY DEF IsWord, Split, Halves

\* How the number of readers changes when c goes to l.
LEMMA ReadersMove ==
  ASSUME TimeoutAssumption, DOMAIN at = SmpCpus, NEW c \in SmpCpus, NEW l, Go(c, l)
  PROVE  /\ Cardinality(ClockReaders) \in Nat
         /\ at[c] \in {"load", "runlock"} <=> l \in {"load", "runlock"}
              => ClockReaders' = ClockReaders
         /\ at[c] \notin {"load", "runlock"} /\ l \in {"load", "runlock"}
              => Cardinality(ClockReaders') = Cardinality(ClockReaders) + 1
         /\ at[c] \in {"load", "runlock"} /\ l \notin {"load", "runlock"}
              => /\ Cardinality(ClockReaders') = Cardinality(ClockReaders) - 1
                 /\ Cardinality(ClockReaders) > 0
<1>0. at'[c] = l /\ \A d \in SmpCpus \ {c} : at'[d] = at[d]
  BY Zenon DEF Go
<1>1. IsFiniteSet(ClockReaders) /\ Cardinality(ClockReaders) \in Nat
  BY FS_Subset, FS_CardinalityType DEF TimeoutAssumption, ClockReaders
<1>2. ASSUME at[c] \in {"load", "runlock"} <=> l \in {"load", "runlock"}
      PROVE  ClockReaders' = ClockReaders
  BY <1>0, <1>2, Zenon DEF ClockReaders
<1>3. ASSUME at[c] \notin {"load", "runlock"}, l \in {"load", "runlock"}
      PROVE  Cardinality(ClockReaders') = Cardinality(ClockReaders) + 1
  <2>1. ClockReaders' = ClockReaders \cup {c} /\ c \notin ClockReaders
    BY <1>0, <1>3 DEF ClockReaders
  <2> QED
    BY <1>1, <2>1, FS_AddElement
<1>4. ASSUME at[c] \in {"load", "runlock"}, l \notin {"load", "runlock"}
      PROVE  /\ Cardinality(ClockReaders') = Cardinality(ClockReaders) - 1
             /\ Cardinality(ClockReaders) > 0
  <2>1. ClockReaders' = ClockReaders \ {c} /\ c \in ClockReaders
    BY <1>0, <1>4 DEF ClockReaders
  <2>2. Cardinality(ClockReaders') = Cardinality(ClockReaders) - 1
    BY <1>1, <2>1, FS_RemoveElement
  <2>3. Cardinality(ClockReaders) # 0
    BY <1>1, <2>1, FS_EmptySet
  <2> QED
    BY <1>1, <2>2, <2>3
<1> QED
  BY Zenon, <1>1, <1>2, <1>3, <1>4

\* Every initial state satisfies the invariant.
LEMMA ClockInit ==
  ASSUME TimeoutAssumption, TimeoutInit
  PROVE  ClockInv
<1>1. ClockTypeOK
  BY SplitWord DEF TimeoutInit, ClockTypeOK
<1>2. ClockReaders = {}
  BY DEF TimeoutInit, ClockReaders
<1>3. lock.readers = 0 /\ lock.write = 0 /\ \A c \in SmpCpus : at[c] = "sched"
  BY DEF TimeoutInit
<1>4. Cardinality(ClockReaders) = 0
  BY <1>2, FS_EmptySet
<1>5. LockExact
  BY <1>3, <1>4 DEF LockExact, TimeoutAssumption
<1>6. HalvesTrue
  BY Zenon, <1>3 DEF HalvesTrue, Loaded
<1> QED
  BY Zenon, <1>1, <1>5, <1>6 DEF ClockInv

\* What a CPU has loaded stays true while nobody touches it.
LEMMA SameLoaded ==
  ASSUME NEW d, Loaded(d), at'[d] = at[d], copy'[d] = copy[d], part'[d] = part[d], ms' = ms
  PROVE  Loaded(d)'
  BY DEF Loaded

\* A step outside the clock's lock.
LEMMA ClockAside ==
  ASSUME TimeoutAssumption, ClockInv, NEW c \in SmpCpus, NEW l, Go(c, l),
         at[c] \notin {"load", "runlock", "store", "wunlock"},
         l \notin {"load", "runlock", "store", "wunlock", "panic"},
         l = "wlock" => c = Boot, UNCHANGED <<lock, ms, part>>,
         DOMAIN then' = SmpCpus, DOMAIN copy' = SmpCpus,
         \A d \in SmpCpus : then'[d] \in {"sched", "ready", "sleep", "test"},
         IsWord(copy'[c]), \A d \in SmpCpus \ {c} : copy'[d] = copy[d]
  PROVE  ClockInv'
<1>1. DOMAIN at' = SmpCpus /\ at'[c] = l /\ \A d \in SmpCpus \ {c} : at'[d] = at[d]
  BY Zenon DEF Go, ClockInv, ClockTypeOK
<1>2. ClockTypeOK'
  <2>1. \A d \in SmpCpus : IsWord(copy'[d])
    BY Zenon DEF ClockInv, ClockTypeOK
  <2>2. IsWord(ms') /\ lock' \in [write : {0, 1}, readers : Nat] /\ DOMAIN part' = SmpCpus
    BY Zenon DEF ClockInv, ClockTypeOK
  <2> QED
    BY Zenon, <1>1, <2>1, <2>2 DEF ClockTypeOK
<1>3. ClockReaders' = ClockReaders
  BY Zenon, ReadersMove DEF ClockInv, ClockTypeOK
<1>4. LockExact'
  <2>1. lock'.readers = Cardinality(ClockReaders')
    BY Zenon, <1>3 DEF ClockInv, LockExact
  <2>2. at'[Boot] \in {"store", "wunlock"} <=> at[Boot] \in {"store", "wunlock"}
    BY Zenon, <1>1 DEF TimeoutAssumption
  <2> QED
    BY Zenon, <1>1, <2>1, <2>2 DEF ClockInv, LockExact
<1>5. HalvesTrue'
  <2>1. Loaded(c)'
    BY Zenon, <1>1 DEF Loaded
  <2>2. ASSUME NEW d \in SmpCpus, d # c PROVE Loaded(d)'
    <3>1. Loaded(d) /\ at'[d] = at[d] /\ copy'[d] = copy[d] /\ part'[d] = part[d] /\ ms' = ms
      BY Zenon, <1>1, <2>2 DEF ClockInv, HalvesTrue
    <3> QED
      BY Zenon, <3>1, SameLoaded
  <2> QED
    BY Zenon, <2>1, <2>2 DEF HalvesTrue
<1> QED
  BY Zenon, <1>2, <1>4, <1>5 DEF ClockInv

\* Forget leaves words, and hal_get_ms a place to go on.
LEMMA Locals ==
  ASSUME ClockInv, NEW c \in SmpCpus
  PROVE  /\ Forget(c) => /\ DOMAIN copy' = SmpCpus /\ IsWord(copy'[c])
                         /\ \A d \in SmpCpus \ {c} : copy'[d] = copy[d]
         /\ UNCHANGED copy => /\ DOMAIN copy' = SmpCpus /\ IsWord(copy'[c])
                              /\ \A d \in SmpCpus \ {c} : copy'[d] = copy[d]
         /\ \A l \in {"sched", "ready", "sleep", "test"} :
              then' = [then EXCEPT ![c] = l] =>
                /\ DOMAIN then' = SmpCpus
                /\ \A d \in SmpCpus : then'[d] \in {"sched", "ready", "sleep", "test"}
         /\ UNCHANGED then =>
              /\ DOMAIN then' = SmpCpus
              /\ \A d \in SmpCpus : then'[d] \in {"sched", "ready", "sleep", "test"}
  BY Zenon, SplitWord DEF ClockInv, ClockTypeOK, Forget
\* The steps of the scheduler, the worker, threads and the interrupt do not
\* touch the clock.
LEMMA ClockOthers ==
  ASSUME TimeoutAssumption, ClockInv, NEW c \in SmpCpus,
         \/ generic_timer_int_handler(c) \/ sched(c) \/ LookAtQueue(c)
         \/ pick_from_sched_queue(c) \/ wait_on_object(c) \/ sleep_thread(c)
         \/ timeout_wakeup_worker(c) \/ syscall_handler_wait(c)
  PROVE  ClockInv'
<1>1. CASE generic_timer_int_handler(c)
  <2>1. PICK l \in {"wlock", "sched"} : Go(c, l) /\ (l = "wlock" => c = Boot)
    BY Zenon, <1>1 DEF generic_timer_int_handler
  <2>2. /\ at[c] \in {"thread", "worker"}
        /\ UNCHANGED <<lock, ms, part>> /\ UNCHANGED copy /\ UNCHANGED then
    BY Zenon, <1>1 DEF generic_timer_int_handler, clockVars, readVars
  <2> QED
    BY Zenon, <2>1, <2>2, Locals, ClockAside
<1>2. CASE sched(c)
  <2>1. /\ at[c] = "sched" /\ Go(c, "rlock") /\ then' = [then EXCEPT ![c] = "ready"]
        /\ UNCHANGED <<lock, ms, part>> /\ UNCHANGED copy
    BY Zenon, <1>2 DEF sched, hal_get_ms, clockVars
  <2> QED
    BY Zenon, <2>1, Locals, ClockAside
<1>3. CASE LookAtQueue(c)
  <2>1. PICK l \in {"pick_timer", "pick"} : Go(c, l)
    BY Zenon, <1>3 DEF LookAtQueue
  <2>2. at[c] = "ready" /\ Forget(c) /\ UNCHANGED <<lock, ms, part>> /\ UNCHANGED then
    BY Zenon, <1>3 DEF LookAtQueue, clockVars
  <2> QED
    BY Zenon, <2>1, <2>2, Locals, ClockAside
<1>4. CASE pick_from_sched_queue(c)
  <2>1. PICK l \in {"pick", "worker", "thread"} : Go(c, l)
    BY Zenon, <1>4 DEF pick_from_sched_queue
  <2>2. /\ at[c] \in {"pick_timer", "pick"}
        /\ UNCHANGED <<lock, ms, part>> /\ UNCHANGED copy /\ UNCHANGED then
    BY Zenon, <1>4 DEF pick_from_sched_queue, clockVars, readVars
  <2> QED
    BY Zenon, <2>1, <2>2, Locals, ClockAside
<1>5. CASE wait_on_object(c)
  <2>1. PICK l \in {"sleep", "rlock"} : Go(c, l)
    BY Zenon, <1>5 DEF wait_on_object, hal_get_ms
  <2>2. /\ at[c] = "wait" /\ UNCHANGED <<lock, ms, part>> /\ UNCHANGED copy
        /\ UNCHANGED then \/ then' = [then EXCEPT ![c] = "sleep"]
    BY Zenon, <1>5 DEF wait_on_object, hal_get_ms, clockVars
  <2> QED
    BY Zenon, <2>1, <2>2, Locals, ClockAside
<1>6. CASE sleep_thread(c)
  <2>1. /\ at[c] = "sleep" /\ Go(c, "sched") /\ Forget(c)
        /\ UNCHANGED <<lock, ms, part>> /\ UNCHANGED then
    BY Zenon, <1>6 DEF sleep_thread, clockVars
  <2> QED
    BY Zenon, <2>1, Locals, ClockAside
<1>7. CASE timeout_wakeup_worker(c)
  <2>1. PICK l \in {"yield", "rlock", "sched"} : Go(c, l)
    BY Zenon, <1>7 DEF timeout_wakeup_worker, NextSleeper, hal_get_ms
  <2>2. /\ at[c] \in {"worker", "test", "yield"} /\ Forget(c) /\ UNCHANGED <<lock, ms, part>>
        /\ UNCHANGED then \/ then' = [then EXCEPT ![c] = "test"]
    BY Zenon, <1>7 DEF timeout_wakeup_worker, NextSleeper, hal_get_ms, clockVars
  <2> QED
    BY Zenon, <2>1, <2>2, Locals, ClockAside
<1>8. CASE syscall_handler_wait(c)
  <2>1. /\ at[c] = "thread" /\ Go(c, "wait")
        /\ UNCHANGED <<lock, ms, part>> /\ UNCHANGED copy /\ UNCHANGED then
    BY Zenon, <1>8 DEF syscall_handler_wait, clockVars, readVars
  <2> QED
    BY Zenon, <2>1, Locals, ClockAside
<1> QED
  BY Zenon, <1>1, <1>2, <1>3, <1>4, <1>5, <1>6, <1>7, <1>8

\* A reader comes in when nobody writes.
LEMMA ClockEnters ==
  ASSUME TimeoutAssumption, ClockInv, NEW c \in SmpCpus, rwlock_rlock(c)
  PROVE  ClockInv'
<1>0. /\ at[c] = "rlock" /\ Go(c, "load") /\ lock.write = 0
      /\ lock' = [lock EXCEPT !.readers = lock.readers + 1]
      /\ part' = [part EXCEPT ![c] = Halves] /\ UNCHANGED <<ms, then, copy>>
      /\ ClockTypeOK /\ LockExact
  BY Zenon DEF rwlock_rlock, ClockInv
<1>1. DOMAIN at' = SmpCpus /\ at'[c] = "load" /\ \A d \in SmpCpus \ {c} : at'[d] = at[d]
  BY Zenon, <1>0 DEF Go, ClockTypeOK
<1>2. /\ lock' \in [write : {0, 1}, readers : Nat] /\ lock'.write = 0
      /\ lock'.readers = lock.readers + 1
  BY <1>0 DEF ClockTypeOK
<1>3. DOMAIN part' = SmpCpus /\ part'[c] = Halves /\ \A d \in SmpCpus \ {c} : part'[d] = part[d]
  BY Zenon, <1>0 DEF ClockTypeOK
<1>4. ClockTypeOK'
  BY Zenon, <1>0, <1>1, <1>2, <1>3 DEF ClockTypeOK
<1>5. LockExact'
  <2>1. Cardinality(ClockReaders') = Cardinality(ClockReaders) + 1
    BY Zenon, <1>0, ReadersMove DEF ClockTypeOK
  <2>2. lock'.readers = Cardinality(ClockReaders')
    BY Zenon, <1>0, <1>2, <2>1 DEF LockExact
  <2>3. 0 # 1
    OBVIOUS
  <2>4. at'[Boot] \notin {"store", "wunlock"}
    BY Zenon, <1>0, <1>1, <2>3 DEF LockExact, TimeoutAssumption
  <2> QED
    BY Zenon, <1>0, <1>1, <1>2, <2>2, <2>3, <2>4 DEF LockExact
<1>6. HalvesTrue'
  <2>1. Loaded(c)'
    BY Zenon, <1>1, <1>3 DEF Loaded
  <2>2. ASSUME NEW d \in SmpCpus, d # c PROVE Loaded(d)'
    BY Zenon, <1>0, <1>1, <1>3, <2>2, SameLoaded DEF ClockInv, HalvesTrue
  <2> QED
    BY Zenon, <2>1, <2>2 DEF HalvesTrue
<1> QED
  BY Zenon, <1>4, <1>5, <1>6 DEF ClockInv

\* A reader loads a half, which nobody changes.
LEMMA ClockLoads ==
  ASSUME TimeoutAssumption, ClockInv, NEW c \in SmpCpus, clock_get_ms(c)
  PROVE  ClockInv'
<1>0. /\ at[c] = "load" /\ UNCHANGED <<lock, ms, then>>
      /\ Go(c, IF part'[c] = {} THEN "runlock" ELSE "load")
      /\ ClockTypeOK /\ LockExact
  BY Zenon DEF clock_get_ms, ClockInv, clockVars
<1>1. PICK h \in part[c] : /\ copy' = [copy EXCEPT ![c] = [copy[c] EXCEPT ![h] = ms[h]]]
                           /\ part' = [part EXCEPT ![c] = part[c] \ {h}]
  BY Zenon DEF clock_get_ms
<1>2. PICK l \in {"runlock", "load"} : Go(c, l) /\ (l = "runlock" => part'[c] = {})
  BY Zenon, <1>0
<1>3. DOMAIN at' = SmpCpus /\ at'[c] = l /\ \A d \in SmpCpus \ {c} : at'[d] = at[d]
  BY Zenon, <1>0, <1>2 DEF Go, ClockTypeOK
<1>4. /\ DOMAIN part' = SmpCpus /\ part'[c] = part[c] \ {h}
      /\ \A d \in SmpCpus \ {c} : part'[d] = part[d]
      /\ DOMAIN copy' = SmpCpus /\ copy'[c] = [copy[c] EXCEPT ![h] = ms[h]]
      /\ \A d \in SmpCpus \ {c} : copy'[d] = copy[d]
  BY Zenon, <1>0, <1>1 DEF ClockTypeOK
<1>5. IsWord(copy[c]) /\ IsWord(ms) /\ h \in Halves /\ Loaded(c)
  BY Zenon, <1>0 DEF ClockTypeOK, ClockInv, HalvesTrue, Loaded
<1>6. /\ IsWord(copy'[c]) /\ copy'[c][h] = ms[h]
      /\ \A k \in Halves \ {h} : copy'[c][k] = copy[c][k]
  <2>1. copy'[c] = [copy[c] EXCEPT ![h] = ms[h]]
    BY Zenon, <1>4
  <2> QED
    BY <1>5, <2>1 DEF IsWord
<1>7. ClockTypeOK'
  BY Zenon, <1>0, <1>3, <1>4, <1>6 DEF ClockTypeOK
<1>8. ClockReaders' = ClockReaders
  BY Zenon, <1>0, <1>2, ReadersMove DEF ClockTypeOK
<1>9. LockExact'
  BY Zenon, <1>0, <1>2, <1>3, <1>8 DEF LockExact, TimeoutAssumption
<1>10. part'[c] \subseteq Halves /\ \A k \in Halves \ part'[c] : copy'[c][k] = ms[k]
  BY <1>0, <1>4, <1>5, <1>6 DEF Loaded
<1>11. l = "runlock" => copy'[c] = ms
  <2>1. ASSUME l = "runlock" PROVE copy'[c] = ms
    <3>1. \A k \in Halves : copy'[c][k] = ms[k]
      BY Zenon, <1>2, <1>10, <2>1
    <3>2. [k \in Halves |-> copy'[c][k]] = [k \in Halves |-> ms[k]]
      BY Zenon, <3>1
    <3> QED
      BY Zenon, <1>5, <1>6, <3>2 DEF IsWord
  <2> QED
    BY Zenon, <2>1
<1>12. HalvesTrue'
  <2>1. Loaded(c)'
    BY <1>0, <1>2, <1>3, <1>10, <1>11 DEF Loaded
  <2>2. ASSUME NEW d \in SmpCpus, d # c PROVE Loaded(d)'
    BY Zenon, <1>0, <1>3, <1>4, <2>2, SameLoaded DEF ClockInv, HalvesTrue
  <2> QED
    BY Zenon, <2>1, <2>2 DEF HalvesTrue
<1> QED
  BY Zenon, <1>7, <1>9, <1>12 DEF ClockInv
\* A reader leaves; the word says that there is one.
LEMMA ClockLeaves ==
  ASSUME TimeoutAssumption, ClockInv, NEW c \in SmpCpus, rwlock_runlock(c)
  PROVE  ClockInv'
<1>0. /\ at[c] = "runlock" /\ UNCHANGED <<ms, copy, part>>
      /\ ClockTypeOK /\ LockExact
  BY Zenon DEF rwlock_runlock, ClockInv
<1>1. c \in ClockReaders
  BY Zenon, <1>0 DEF ClockReaders
<1>2. IsFiniteSet(ClockReaders) /\ Cardinality(ClockReaders) \in Nat
  BY FS_Subset, FS_CardinalityType DEF TimeoutAssumption, ClockReaders
<1>3. Cardinality(ClockReaders) # 0
  BY <1>1, <1>2, FS_EmptySet
<1>4. lock.readers \in Nat /\ lock.readers # 0 /\ lock.write \in {0, 1} /\ lock.write # 1
  BY <1>0, <1>3 DEF LockExact, ClockTypeOK
<1>5. /\ Go(c, then[c]) /\ lock' = [lock EXCEPT !.readers = lock.readers - 1]
      /\ then' = [then EXCEPT ![c] = "sched"]
  BY Zenon, <1>4 DEF rwlock_runlock
<1>6. then[c] \in {"sched", "ready", "sleep", "test"}
  BY Zenon, <1>0 DEF ClockTypeOK
<1>7. DOMAIN at' = SmpCpus /\ at'[c] = then[c] /\ \A d \in SmpCpus \ {c} : at'[d] = at[d]
  BY Zenon, <1>0, <1>5 DEF Go, ClockTypeOK
<1>8. /\ lock' \in [write : {0, 1}, readers : Nat] /\ lock'.write = lock.write
      /\ lock'.readers = lock.readers - 1
  BY <1>0, <1>4, <1>5 DEF ClockTypeOK
<1>9. ClockTypeOK'
  <2>1. /\ DOMAIN then' = SmpCpus
        /\ \A d \in SmpCpus : then'[d] \in {"sched", "ready", "sleep", "test"}
    BY Zenon, <1>5, Locals
  <2> QED
    BY Zenon, <1>0, <1>7, <1>8, <2>1 DEF ClockTypeOK
<1>10. LockExact'
  <2>1. Cardinality(ClockReaders') = Cardinality(ClockReaders) - 1
    BY Zenon, <1>0, <1>5, <1>6, ReadersMove DEF ClockTypeOK
  <2>2. lock'.readers = Cardinality(ClockReaders')
    BY Zenon, <1>0, <1>8, <2>1 DEF LockExact
  <2>3. at'[Boot] \notin {"store", "wunlock"} /\ lock'.write # 1
    BY Zenon, <1>0, <1>4, <1>6, <1>7, <1>8 DEF LockExact, TimeoutAssumption
  <2>4. \A d \in SmpCpus : at'[d] \in {"wlock", "store", "wunlock"} => d = Boot
    BY Zenon, <1>0, <1>6, <1>7 DEF LockExact
  <2> QED
    BY Zenon, <2>2, <2>3, <2>4 DEF LockExact
<1>11. HalvesTrue'
  <2>1. Loaded(c)'
    BY Zenon, <1>6, <1>7 DEF Loaded
  <2>2. ASSUME NEW d \in SmpCpus, d # c PROVE Loaded(d)'
    BY Zenon, <1>0, <1>7, <2>2, SameLoaded DEF ClockInv, HalvesTrue
  <2> QED
    BY Zenon, <2>1, <2>2 DEF HalvesTrue
<1> QED
  BY Zenon, <1>9, <1>10, <1>11 DEF ClockInv

\* While the boot CPU has the lock nobody is inside clock_get_ms.
LEMMA NoReaders ==
  ASSUME TimeoutAssumption, LockExact, lock.readers = 0
  PROVE  \A d \in SmpCpus : at[d] \notin {"load", "runlock"}
<1>1. IsFiniteSet(ClockReaders)
  BY FS_Subset DEF TimeoutAssumption, ClockReaders
<1>2. ClockReaders = {}
  BY <1>1, FS_EmptySet DEF LockExact
<1> QED
  BY Zenon, <1>2 DEF ClockReaders
\* The boot CPU takes the lock once the readers are gone.
LEMMA ClockLocked ==
  ASSUME TimeoutAssumption, ClockInv, NEW c \in SmpCpus, rwlock_wlock(c)
  PROVE  ClockInv'
<1>0. /\ at[c] = "wlock" /\ lock.readers = 0 /\ UNCHANGED <<ms, then>> /\ Go(c, "store")
      /\ lock' = [lock EXCEPT !.write = 1] /\ ClockTypeOK /\ LockExact
      /\ copy' = [copy EXCEPT ![c] = Split(Value(ms) + Period)]
  BY Zenon DEF rwlock_wlock, ClockInv
<1>1. c = Boot /\ \A d \in SmpCpus : at[d] \notin {"load", "runlock"}
  BY Zenon, <1>0, NoReaders DEF LockExact
<1>2. DOMAIN at' = SmpCpus /\ at'[c] = "store" /\ \A d \in SmpCpus \ {c} : at'[d] = at[d]
  BY Zenon, <1>0 DEF Go, ClockTypeOK
<1>3. lock' \in [write : {0, 1}, readers : Nat] /\ lock'.write = 1 /\ lock'.readers = 0
  BY <1>0 DEF ClockTypeOK
<1>4. DOMAIN part' = SmpCpus /\ DOMAIN copy' = SmpCpus /\ \A d \in SmpCpus : IsWord(copy'[d])
  <2>1. IsWord(Split(Value(ms) + Period))
    BY Zenon, SplitWord
  <2> QED
    BY Zenon, <1>0, <2>1 DEF ClockTypeOK, rwlock_wlock
<1>5. ClockTypeOK'
  BY Zenon, <1>0, <1>2, <1>3, <1>4 DEF ClockTypeOK
<1>6. LockExact'
  <2>1. ClockReaders' = ClockReaders
    BY <1>0, <1>2 DEF ClockReaders
  <2>2. at'[Boot] = "store" /\ lock'.readers = Cardinality(ClockReaders')
    BY Zenon, <1>0, <1>1, <1>2, <1>3, <2>1 DEF LockExact
  <2>3. \A d \in SmpCpus : at'[d] \in {"wlock", "store", "wunlock"} => d = Boot
    BY Zenon, <1>0, <1>1, <1>2 DEF LockExact
  <2> QED
    BY Zenon, <1>3, <2>2, <2>3 DEF LockExact
<1>7. HalvesTrue'
  BY Zenon, <1>1, <1>2 DEF ClockInv, HalvesTrue, Loaded
<1> QED
  BY Zenon, <1>5, <1>6, <1>7 DEF ClockInv

\* The boot CPU stores a half, while nobody reads.
LEMMA ClockStored ==
  ASSUME TimeoutAssumption, ClockInv, NEW c \in SmpCpus, clock_advance_ms(c)
  PROVE  ClockInv'
<1>0. /\ at[c] = "store" /\ UNCHANGED <<lock, then, copy>> /\ ClockTypeOK /\ LockExact
      /\ Go(c, IF part'[c] = {} THEN "wunlock" ELSE "store")
  BY Zenon DEF clock_advance_ms, ClockInv
<1>1. PICK h \in part[c] : /\ ms' = [ms EXCEPT ![h] = copy[c][h]]
                           /\ part' = [part EXCEPT ![c] = part[c] \ {h}]
  BY Zenon DEF clock_advance_ms
<1>2. PICK l \in {"wunlock", "store"} : Go(c, l)
  BY Zenon, <1>0
<1>3. c = Boot /\ lock.write = 1 /\ lock.readers = 0
  BY Zenon, <1>0 DEF LockExact
<1>4. \A d \in SmpCpus : at[d] \notin {"load", "runlock"}
  BY Zenon, <1>0, <1>3, NoReaders
<1>5. DOMAIN at' = SmpCpus /\ at'[c] = l /\ \A d \in SmpCpus \ {c} : at'[d] = at[d]
  BY Zenon, <1>0, <1>2 DEF Go, ClockTypeOK
<1>6. IsWord(ms') /\ DOMAIN part' = SmpCpus
  BY <1>0, <1>1 DEF ClockTypeOK, IsWord
<1>7. ClockTypeOK'
  BY Zenon, <1>0, <1>5, <1>6 DEF ClockTypeOK
<1>8. LockExact'
  <2>1. ClockReaders' = ClockReaders
    BY Zenon, <1>0, <1>2, ReadersMove DEF ClockTypeOK
  <2> QED
    BY Zenon, <1>0, <1>2, <1>3, <1>5, <2>1 DEF LockExact
<1>9. HalvesTrue'
  BY Zenon, <1>2, <1>4, <1>5 DEF ClockInv, HalvesTrue, Loaded
<1> QED
  BY Zenon, <1>7, <1>8, <1>9 DEF ClockInv

\* The boot CPU gives the lock back, and the word says that it had it.
LEMMA ClockUnlocked ==
  ASSUME TimeoutAssumption, ClockInv, NEW c \in SmpCpus, rwlock_wunlock(c)
  PROVE  ClockInv'
<1>0. /\ at[c] = "wunlock" /\ UNCHANGED <<ms, then, part>> /\ ClockTypeOK /\ LockExact /\ Forget(c)
  BY Zenon DEF rwlock_wunlock, ClockInv
<1>1. c = Boot /\ lock.write = 1 /\ lock.readers = 0
  BY Zenon, <1>0 DEF LockExact
<1>2. ~(lock.write = 0 \/ lock.readers > 0)
  BY <1>1
<1>3. Go(c, "sched") /\ lock' = [write |-> 0, readers |-> 0]
  BY Zenon, <1>2 DEF rwlock_wunlock
<1>4. \A d \in SmpCpus : at[d] \notin {"load", "runlock"}
  BY Zenon, <1>0, <1>1, NoReaders
<1>5. DOMAIN at' = SmpCpus /\ at'[c] = "sched" /\ \A d \in SmpCpus \ {c} : at'[d] = at[d]
  BY Zenon, <1>0, <1>3 DEF Go, ClockTypeOK
<1>6. lock' \in [write : {0, 1}, readers : Nat] /\ lock'.write = 0 /\ lock'.readers = 0
  BY <1>3
<1>7. DOMAIN copy' = SmpCpus /\ \A d \in SmpCpus : IsWord(copy'[d])
  BY Zenon, <1>0, Locals DEF ClockTypeOK
<1>8. ClockTypeOK'
  BY Zenon, <1>0, <1>5, <1>6, <1>7 DEF ClockTypeOK
<1>9. LockExact'
  <2>1. ClockReaders' = ClockReaders
    BY <1>0, <1>5 DEF ClockReaders
  <2>2. lock'.write # 1
    BY <1>6
  <2>3. at'[Boot] = "sched" /\ lock'.readers = Cardinality(ClockReaders')
    BY Zenon, <1>0, <1>1, <1>5, <1>6, <2>1 DEF LockExact
  <2>4. \A d \in SmpCpus : at'[d] \in {"wlock", "store", "wunlock"} => d = Boot
    BY Zenon, <1>0, <1>1, <1>5 DEF LockExact
  <2> QED
    BY Zenon, <2>2, <2>3, <2>4 DEF LockExact
<1>10. HalvesTrue'
  BY Zenon, <1>4, <1>5 DEF ClockInv, HalvesTrue, Loaded
<1> QED
  BY Zenon, <1>8, <1>9, <1>10 DEF ClockInv
\* The clock of hal/dev/clock.c under its reader-writer spinlock: no CPU ever
\* reads a time of two halves that do not belong together, and no unlock
\* panics, for any number of CPUs and any period.
THEOREM ClockIsWhole ==
  ASSUME TimeoutAssumption
  PROVE  TimeoutSpec => []ClockWhole
<1>1. TimeoutInit => ClockInv
  BY Zenon, ClockInit
<1>2. ClockInv /\ [TimeoutNext]_timeoutVars => ClockInv'
  <2>1. ASSUME ClockInv, NEW c \in SmpCpus, CpuStep(c) \/ syscall_handler_wait(c)
        PROVE  ClockInv'
    BY Zenon, <2>1, ClockOthers, ClockEnters, ClockLoads, ClockLeaves, ClockLocked,
       ClockStored, ClockUnlocked DEF CpuStep
  <2>2. ASSUME ClockInv, UNCHANGED timeoutVars PROVE ClockInv'
    <3>1. UNCHANGED <<at, then, lock, ms, copy, part>>
      BY Zenon, <2>2 DEF timeoutVars, clockVars, readVars
    <3>2. ClockReaders' = ClockReaders
      BY Zenon, <3>1 DEF ClockReaders
    <3>3. ClockTypeOK' /\ LockExact'
      BY Zenon, <2>2, <3>1, <3>2 DEF ClockInv, ClockTypeOK, LockExact
    <3>4. HalvesTrue'
      BY Zenon, <2>2, <3>1, SameLoaded DEF ClockInv, HalvesTrue
    <3> QED
      BY Zenon, <3>3, <3>4 DEF ClockInv
  <2> QED
    BY Zenon, <2>1, <2>2 DEF TimeoutNext
<1>3. ClockInv => ClockWhole
  <2> SUFFICES ASSUME ClockInv PROVE ClockWhole
    OBVIOUS
  <2>1. \A c \in SmpCpus : at[c] # "panic" /\ (at[c] = "runlock" => copy[c] = ms)
    BY Zenon DEF ClockInv, HalvesTrue, Loaded
  <2>2. ASSUME at[Boot] \in {"store", "wunlock"}
        PROVE  \A c \in SmpCpus : at[c] \notin {"load", "runlock"}
    BY Zenon, <2>2, NoReaders DEF ClockInv, LockExact
  <2> QED
    BY Zenon, <2>1, <2>2 DEF ClockWhole
<1> QED
  BY <1>1, <1>2, <1>3, PTL DEF TimeoutSpec
=============================================================================
