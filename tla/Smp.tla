-------------------------------- MODULE Smp ---------------------------------
(***************************************************************************)
(* Bringing up the CPUs (hal/mp/second.c, hal/hal.c) and what they do once *)
(* they work: take a spinlock with interrupts off (kernel/atomic/          *)
(* spinlock.c, hal/int/state.c) in a kernel thread, which an interrupt may *)
(* come upon, and in the interrupt handler (hal/int/handler.c), and stop   *)
(* together when one of them panics (hal/mp/halt.c).  The proof for any    *)
(* number of CPUs is at the end of the module.                             *)
(***************************************************************************)
EXTENDS Integers, FiniteSetTheorems, TLAPS

CONSTANT NumCpus

CPUs == 0..(NumCpus - 1)
Levels == {"thread", "handler"}
NoSeq == -1

VARIABLES
  boot,       \* where each CPU is: off, entry, init, wait, work, halted; the
              \* boot CPU: publish, start, up, work, halted
  next_seq,   \* mp_seq of the loop in bringup_all_secondary_cpus
  seq,        \* the mp_seq each CPU took on
  mp,         \* mp_bringup_lock, start_working_lock, cur_bringup_mp_seq, cpu_halted
  pc,         \* each CPU's place in its thread and in its handler
  ints,       \* on: the CPU takes interrupts; state: interrupt_enabled
  saved,      \* `enabled' of each level
  lock,       \* the spinlock: locked and int_enabled
  bad         \* a failed assert

bootVars == <<boot, next_seq, seq, mp>>
workVars == <<pc, ints, saved, lock>>
smpVars == <<bootVars, workVars, bad>>

SmpInit ==
  /\ boot = [c \in CPUs |-> IF c = 0 THEN "publish" ELSE "off"]
  /\ next_seq = 1
  /\ seq = [c \in CPUs |-> IF c = 0 THEN 0 ELSE NoSeq]
  /\ mp = [bringup |-> 0, start |-> 1, cur_seq |-> 0, halted |-> FALSE]
  /\ pc = [c \in CPUs |-> [l \in Levels |-> "rest"]]
  /\ ints = [c \in CPUs |-> [on |-> FALSE, state |-> 0]]
  /\ saved = [c \in CPUs |-> [l \in Levels |-> 0]]
  /\ lock = [locked |-> 0, int_enabled |-> 0]
  /\ bad = FALSE

BootTo(c, from, to) == boot[c] = from /\ boot' = [boot EXCEPT ![c] = to]

\* One round of the loop: say which CPU is next and close its lock,
bringup_publish ==
  /\ next_seq < NumCpus /\ BootTo(0, "publish", "start")
  /\ mp' = [mp EXCEPT !.cur_seq = next_seq, !.bringup = 1]
  /\ UNCHANGED <<next_seq, seq, workVars, bad>>

\* start it,
start_cpu ==
  /\ boot[0] = "start"
  /\ boot' = [boot EXCEPT ![0] = "up", ![next_seq] = "entry"]
  /\ UNCHANGED <<next_seq, seq, mp, workVars, bad>>

\* and wait for it.
bringup_wait ==
  /\ mp.bringup = 0 /\ BootTo(0, "up", "publish")
  /\ next_seq' = next_seq + 1
  /\ UNCHANGED <<seq, mp, workVars, bad>>

\* A CPU that works runs kernel threads, with interrupts on.
StartsWork(c) == ints' = [ints EXCEPT ![c] = [on |-> TRUE, state |-> 1]]

\* release_secondary_cpu_lock, and the boot CPU starts to work.
release_secondary_cpu_lock ==
  /\ next_seq = NumCpus /\ BootTo(0, "publish", "work") /\ StartsWork(0)
  /\ mp' = [mp EXCEPT !.start = 0]
  /\ UNCHANGED <<next_seq, seq, pc, saved, lock, bad>>

\* hal_entry of a secondary CPU: it learns its number,
hal_entry(c) ==
  /\ BootTo(c, "entry", "init")
  /\ seq' = [seq EXCEPT ![c] = mp.cur_seq]
  /\ UNCHANGED <<next_seq, mp, workVars, bad>>

\* hal_mp, to where secondary_cpu_init_done lets the boot CPU go on,
secondary_cpu_init_done(c) ==
  /\ BootTo(c, "init", "wait")
  /\ mp' = [mp EXCEPT !.bringup = 0]
  /\ UNCHANGED <<next_seq, seq, workVars, bad>>

\* and its wait for the start.
hal_mp_work(c) ==
  /\ mp.start = 0 /\ BootTo(c, "wait", "work") /\ StartsWork(c)
  /\ UNCHANGED <<next_seq, seq, mp, pc, saved, lock, bad>>

-----------------------------------------------------------------------------

\* The level that runs: the handler, while there is one.
Running(c, l) ==
  boot[c] = "work" /\ (pc[c]["handler"] # "rest" => l = "handler")

To(c, l, from, to) ==
  /\ Running(c, l) /\ pc[c][l] = from
  /\ pc' = [pc EXCEPT ![c][l] = to]
  /\ UNCHANGED bootVars

\* disable_local_int.
DisableInt(c) == ints' = [ints EXCEPT ![c] = [on |-> FALSE, state |-> 0]]

\* A handler has something to do from its start, a thread when it pleases.
Wants(l) == IF l = "handler" THEN "enter" ELSE "rest"

\* Mutant: a plain spinlock_lock, which leaves interrupts on.
spinlock_lock_plain(c, l) ==
  /\ To(c, l, Wants(l), "spin")
  /\ saved' = [saved EXCEPT ![c][l] = ints[c].state]
  /\ UNCHANGED <<ints, lock, bad>>

\* spinlock_lock_int: interrupts off,
spinlock_lock_int(c, l) ==
  /\ To(c, l, Wants(l), "spin")
  /\ saved' = [saved EXCEPT ![c][l] = ints[c].state]
  /\ DisableInt(c)
  /\ UNCHANGED <<lock, bad>>

\* the lock taken (spinlock_lock),
spinlock_lock(c, l) ==
  /\ lock.locked = 0 /\ To(c, l, "spin", "mark")
  /\ lock' = [locked |-> 1, int_enabled |-> 0]
  /\ UNCHANGED <<ints, saved, bad>>

\* and the caller's interrupt state written into it, which must succeed.
MarkLock(c, l) ==
  /\ To(c, l, "mark", "held")
  /\ lock' = [lock EXCEPT !.int_enabled = saved[c][l]]
  /\ bad' = (bad \/ lock # [locked |-> 1, int_enabled |-> 0])
  /\ UNCHANGED <<ints, saved>>

\* spinlock_unlock_int: the state read back, the lock given up,
spinlock_unlock_int(c, l) ==
  /\ To(c, l, "held", "restore")
  /\ saved' = [saved EXCEPT ![c][l] = lock.int_enabled]
  /\ bad' = (bad \/ lock.locked = 0)
  /\ lock' = [locked |-> 0, int_enabled |-> 0]
  /\ UNCHANGED ints

\* restore_local_int.
restore_local_int(c, l) ==
  /\ To(c, l, "restore", IF l = "handler" THEN "leave" ELSE "rest")
  /\ bad' = (bad \/ (ints[c].state = 1 /\ saved[c][l] = 0))
  /\ ints' = IF ints[c].state = 0 /\ saved[c][l] = 1
             THEN [ints EXCEPT ![c] = [on |-> TRUE, state |-> 1]] ELSE ints
  /\ UNCHANGED <<saved, lock>>

\* An interrupt: int_handler marks interrupts as off and, when a CPU has
\* panicked, stops for good (handle_halt).
int_handler(c) ==
  /\ boot[c] = "work" /\ ints[c].on /\ pc[c]["handler"] = "rest"
  /\ DisableInt(c)
  /\ IF mp.halted
     THEN boot' = [boot EXCEPT ![c] = "halted"] /\ UNCHANGED pc
     ELSE pc' = [pc EXCEPT ![c]["handler"] = "enter"] /\ UNCHANGED boot
  /\ UNCHANGED <<next_seq, seq, mp, saved, lock, bad>>

\* The end of int_handler; the return from the interrupt turns them on.
int_handler_return(c) ==
  /\ To(c, "handler", "leave", "rest") /\ StartsWork(c)
  /\ UNCHANGED <<saved, lock, bad>>

\* panic, with or without the lock: halt_all_cpus.
halt_all_cpus(c, l) ==
  /\ Running(c, l) /\ pc[c][l] \in {Wants(l), "held"}
  /\ BootTo(c, "work", "halted")
  /\ mp' = [mp EXCEPT !.halted = TRUE] /\ DisableInt(c)
  /\ UNCHANGED <<next_seq, seq, pc, saved, lock, bad>>

SmpNext ==
  \/ bringup_publish \/ start_cpu \/ bringup_wait \/ release_secondary_cpu_lock
  \/ \E c \in CPUs :
       \/ hal_entry(c) \/ secondary_cpu_init_done(c) \/ hal_mp_work(c)
       \/ int_handler(c) \/ int_handler_return(c)
       \/ \E l \in Levels :
            \/ spinlock_lock_int(c, l) \/ spinlock_lock(c, l) \/ MarkLock(c, l)
            \/ spinlock_unlock_int(c, l) \/ restore_local_int(c, l)
            \/ halt_all_cpus(c, l)

SmpSpec == SmpInit /\ [][SmpNext]_smpVars

-----------------------------------------------------------------------------

Holds(c, l) == pc[c][l] \in {"mark", "held"}

\* Every CPU takes on its own number, though all read it from one variable;
\* none works before the boot CPU lets them; one level of one CPU holds the
\* lock, and never the thread under a handler that spins on it; a thread that
\* is done with the lock has interrupts on again; no assert of the lock or of restore_local_int fails.
SmpSafe ==
  /\ ~bad
  /\ \A c \in CPUs : seq[c] \in {NoSeq, c} /\ (boot[c] = "work" => seq[c] = c)
  /\ mp.start = 1 => \A c \in CPUs : boot[c] # "work"
  /\ Cardinality({x \in CPUs \X Levels : Holds(x[1], x[2])}) = lock.locked
  /\ \A c \in CPUs :
       /\ pc[c]["handler"] = "spin" => ~Holds(c, "thread")
       /\ boot[c] = "work" /\ pc[c] = [l \in Levels |-> "rest"]
            => ints[c] = [on |-> TRUE, state |-> 1]

-----------------------------------------------------------------------------
\* The CPUs come up one after the other and the spinlock excludes, for any
\* number of CPUs.

SmpAssumption == NumCpus \in Nat \ {0}

MpOK ==
  /\ DOMAIN mp = {"bringup", "start", "cur_seq", "halted"}
  /\ mp.bringup \in {0, 1} /\ mp.start \in {0, 1}

SmpTypeOK ==
  /\ DOMAIN boot = CPUs /\ DOMAIN seq = CPUs
  /\ DOMAIN pc = CPUs /\ DOMAIN ints = CPUs /\ DOMAIN saved = CPUs
  /\ \A c \in CPUs : DOMAIN pc[c] = Levels /\ DOMAIN saved[c] = Levels
  /\ MpOK
  /\ lock \in [locked : {0, 1}, int_enabled : {0, 1}]
  /\ next_seq \in 1..NumCpus

\* Where the boot CPU is in its loop.
BootOK ==
  /\ boot[0] \in {"publish", "start", "up", "work", "halted"} /\ seq[0] = 0
  /\ boot[0] \in {"start", "up"} => next_seq < NumCpus /\ mp.cur_seq = next_seq
  /\ boot[0] = "start" => mp.bringup = 1
  /\ boot[0] \in {"work", "halted"} <=> mp.start = 0

\* Where another CPU is, as seen from the loop.
SecondOK(c) ==
  /\ c < next_seq => boot[c] \in {"wait", "work", "halted"}
  /\ c > next_seq \/ (c = next_seq /\ boot[0] # "up") => boot[c] = "off"
  /\ c = next_seq /\ boot[0] = "up" =>
       \/ boot[c] \in {"entry", "init"} /\ mp.bringup = 1
       \/ boot[c] = "wait"
  /\ seq[c] = IF boot[c] \in {"off", "entry"} THEN NoSeq ELSE c
  /\ boot[c] \in {"work", "halted"} => mp.start = 0

Resting(c) == pc[c]["thread"] = "rest" /\ pc[c]["handler"] = "rest"

\* The interrupt state with which a level takes the lock.
Entry(l) == IF l = "thread" THEN 1 ELSE 0

\* A CPU has interrupts on when it works and neither level is at the lock;
\* then only may a handler begin.
WorkOK(c) ==
  /\ pc[c]["thread"] \in {"rest", "spin", "mark", "held", "restore"}
  /\ pc[c]["handler"] \in {"rest", "enter", "spin", "mark", "held", "restore", "leave"}
  /\ pc[c]["handler"] # "rest" => pc[c]["thread"] = "rest"
  /\ boot[c] \notin {"work", "halted"} => Resting(c)
  /\ ints[c] = IF boot[c] = "work" /\ Resting(c) THEN [on |-> TRUE, state |-> 1]
               ELSE [on |-> FALSE, state |-> 0]
  /\ \A l \in Levels :
       pc[c][l] \in {"spin", "mark", "held", "restore"} => saved[c][l] = Entry(l)

\* Who is at the lock knows what it holds.
LockOK(c, l) ==
  /\ pc[c][l] = "mark" => lock = [locked |-> 1, int_enabled |-> 0]
  /\ pc[c][l] = "held" => lock = [locked |-> 1, int_enabled |-> Entry(l)]

HeldBy(c, l) == Holds(c, l) /\ \A d \in CPUs, m \in Levels : Holds(d, m) => d = c /\ m = l

\* The lock is taken exactly when somebody holds it, and then one does.
Alone ==
  \/ lock.locked = 0 /\ \A c \in CPUs, l \in Levels : ~Holds(c, l)
  \/ lock.locked = 1 /\ \E c \in CPUs, l \in Levels : HeldBy(c, l)

\* The inductive invariant.
SmpInv ==
  /\ SmpTypeOK /\ BootOK /\ bad = FALSE /\ Alone
  /\ \A c \in CPUs \ {0} : SecondOK(c)
  /\ \A c \in CPUs : WorkOK(c)
  /\ \A c \in CPUs, l \in Levels : LockOK(c, l)
\* Before the CPUs start.
LEMMA SmpBegins ==
  ASSUME SmpAssumption, SmpInit
  PROVE  SmpInv
<1>1. 0 \in CPUs /\ \A c \in CPUs : c \in Nat
  BY DEF SmpAssumption, CPUs
<1>2. SmpTypeOK
  BY <1>1 DEF SmpTypeOK, MpOK, SmpInit, SmpAssumption
<1>3. BootOK
  BY <1>1 DEF BootOK, SmpInit
<1>4. ASSUME NEW c \in CPUs \ {0} PROVE SecondOK(c)
  BY <1>1, <1>4 DEF SecondOK, SmpInit
<1>5. \A c \in CPUs, l \in Levels : pc[c][l] = "rest"
  BY Zenon DEF SmpInit
<1>6. ASSUME NEW c \in CPUs PROVE WorkOK(c)
  <2>1. boot[c] # "work" /\ ints[c] = [on |-> FALSE, state |-> 0]
    BY Zenon DEF SmpInit
  <2> QED
    BY <1>5, <2>1 DEF WorkOK, Resting, Levels
<1>7. Alone /\ bad = FALSE
  BY <1>5 DEF Alone, Holds, SmpInit
<1>8. \A c \in CPUs, l \in Levels : LockOK(c, l)
  BY Zenon, <1>5 DEF LockOK
<1> QED
  BY Zenon, <1>2, <1>3, <1>4, <1>6, <1>7, <1>8 DEF SmpInv

\* What a CPU does at the lock stays right while nobody touches it.
LEMMA SameWork ==
  ASSUME NEW d, WorkOK(d), pc'[d] = pc[d], ints'[d] = ints[d], saved'[d] = saved[d],
         boot'[d] = boot[d] \/ {boot[d], boot'[d]} \cap {"work", "halted"} = {}
  PROVE  WorkOK(d)'
  BY DEF WorkOK, Resting

\* A step that leaves the places at the lock, and the lock, alone.
LEMMA SameLock ==
  ASSUME Alone, \A c \in CPUs, l \in Levels : LockOK(c, l), lock' = lock,
         \A c \in CPUs, l \in Levels :
           \/ pc'[c][l] = pc[c][l]
           \/ {pc[c][l], pc'[c][l]} \cap {"mark", "held"} = {}
  PROVE  Alone' /\ \A c \in CPUs, l \in Levels : LockOK(c, l)'
<1>1. \A c \in CPUs, l \in Levels : Holds(c, l)' <=> Holds(c, l)
  BY DEF Holds
<1>2. Alone'
  BY <1>1 DEF Alone, HeldBy
<1>3. ASSUME NEW c \in CPUs, NEW l \in Levels PROVE LockOK(c, l)'
  <2>1. pc'[c][l] \in {"mark", "held"} => pc'[c][l] = pc[c][l]
    OBVIOUS
  <2> QED
    BY Zenon, <2>1 DEF LockOK
<1> QED
  BY Zenon, <1>2, <1>3

\* A step of the bring-up touches no CPU that works.
LEMMA BootStep ==
  ASSUME SmpAssumption, SmpInv, UNCHANGED <<workVars, bad>>, BootOK',
         \A c \in CPUs \ {0} : SecondOK(c)',
         DOMAIN boot' = CPUs, DOMAIN seq' = CPUs, next_seq' \in 1..NumCpus,
         MpOK',
         \A c \in CPUs : \/ boot'[c] = boot[c]
                         \/ {boot[c], boot'[c]} \cap {"work", "halted"} = {}
  PROVE  SmpInv'
<1>1. UNCHANGED <<pc, ints, saved, lock, bad>>
  BY Zenon DEF workVars
<1>2. SmpTypeOK'
  BY Zenon, <1>1 DEF SmpInv, SmpTypeOK
<1>3. \A c \in CPUs : WorkOK(c)'
  BY Zenon, <1>1, SameWork DEF SmpInv
<1>4. Alone' /\ \A c \in CPUs, l \in Levels : LockOK(c, l)'
  BY Zenon, <1>1, SameLock DEF SmpInv
<1>5. bad' = FALSE
  BY Zenon, <1>1 DEF SmpInv
<1> QED
  BY <1>2, <1>3, <1>4, <1>5 DEF SmpInv

\* Numbers of CPUs.
LEMMA CpuNumbers ==
  ASSUME SmpAssumption
  PROVE  0 \in CPUs /\ (\A c \in CPUs : c \in Nat /\ c < NumCpus)
         /\ \A n \in Nat : n < NumCpus => n \in CPUs
  BY DEF SmpAssumption, CPUs

\* One round of bringup_all_secondary_cpus.
LEMMA Bringup ==
  ASSUME SmpAssumption, SmpInv, bringup_publish \/ start_cpu \/ bringup_wait
  PROVE  SmpInv'
<1>0. /\ 0 \in CPUs /\ NumCpus \in Nat /\ next_seq \in 1..NumCpus
      /\ \A c \in CPUs : c \in Nat /\ c < NumCpus
      /\ DOMAIN boot = CPUs /\ DOMAIN seq = CPUs
      /\ MpOK
  BY Zenon, CpuNumbers DEF SmpInv, SmpTypeOK, SmpAssumption
<1>1. CASE bringup_publish
  <2>1. /\ next_seq < NumCpus /\ boot[0] = "publish" /\ boot'[0] = "start"
        /\ \A c \in CPUs \ {0} : boot'[c] = boot[c]
        /\ DOMAIN boot' = CPUs /\ UNCHANGED <<next_seq, seq>>
        /\ mp' = [mp EXCEPT !.cur_seq = next_seq, !.bringup = 1]
        /\ UNCHANGED <<workVars, bad>>
    BY Zenon, <1>0, <1>1 DEF bringup_publish, BootTo
  <2>2. /\ MpOK'
        /\ mp'.start = mp.start /\ mp'.cur_seq = next_seq /\ mp'.bringup = 1
    BY <1>0, <2>1 DEF MpOK
  <2>3. BootOK'
    BY <1>0, <2>1, <2>2 DEF SmpInv, BootOK
  <2>4. ASSUME NEW c \in CPUs \ {0} PROVE SecondOK(c)'
    BY <1>0, <2>1, <2>2, <2>4 DEF SmpInv, SecondOK
  <2> QED
    BY <1>0, <2>1, <2>2, <2>3, <2>4, BootStep
<1>2. CASE start_cpu
  <2>1. /\ boot[0] = "start" /\ UNCHANGED <<next_seq, seq, mp>> /\ UNCHANGED <<workVars, bad>>
        /\ boot' = [boot EXCEPT ![0] = "up", ![next_seq] = "entry"]
    BY Zenon, <1>2 DEF start_cpu
  <2>2. next_seq \in CPUs \ {0} /\ next_seq < NumCpus /\ mp.cur_seq = next_seq /\ mp.bringup = 1
    BY <1>0, <2>1, CpuNumbers DEF SmpInv, BootOK
  <2>3. /\ boot'[0] = "up" /\ boot'[next_seq] = "entry" /\ DOMAIN boot' = CPUs
        /\ \A c \in CPUs \ {0, next_seq} : boot'[c] = boot[c]
    BY <1>0, <2>1, <2>2
  <2>4. SecondOK(next_seq) /\ boot[next_seq] = "off"
    BY <1>0, <2>1, <2>2 DEF SmpInv, SecondOK
  <2>5. BootOK'
    BY <1>0, <2>1, <2>2, <2>3 DEF SmpInv, BootOK
  <2>6. ASSUME NEW c \in CPUs \ {0} PROVE SecondOK(c)'
    BY <1>0, <2>1, <2>2, <2>3, <2>4, <2>6 DEF SmpInv, SecondOK
  <2> QED
    BY <1>0, <2>1, <2>3, <2>4, <2>5, <2>6, BootStep DEF MpOK
<1>3. CASE bringup_wait
  <2>1. /\ mp.bringup = 0 /\ boot[0] = "up" /\ boot'[0] = "publish"
        /\ \A c \in CPUs \ {0} : boot'[c] = boot[c]
        /\ DOMAIN boot' = CPUs /\ UNCHANGED <<seq, mp>> /\ next_seq' = next_seq + 1
        /\ UNCHANGED <<workVars, bad>>
    BY Zenon, <1>0, <1>3 DEF bringup_wait, BootTo
  <2>2. next_seq < NumCpus /\ next_seq' \in 1..NumCpus
    BY <1>0, <2>1 DEF SmpInv, BootOK
  <2>3. BootOK'
    BY <1>0, <2>1, <2>2 DEF SmpInv, BootOK
  <2>4. ASSUME NEW c \in CPUs \ {0} PROVE SecondOK(c)'
    BY <1>0, <2>1, <2>2, <2>4 DEF SmpInv, SecondOK
  <2> QED
    BY <1>0, <2>1, <2>2, <2>3, <2>4, BootStep DEF MpOK
<1> QED
  BY Zenon, <1>1, <1>2, <1>3
\* A CPU that the boot CPU has started takes on its number and reports.
LEMMA Reports ==
  ASSUME SmpAssumption, SmpInv, NEW c \in CPUs, hal_entry(c) \/ secondary_cpu_init_done(c)
  PROVE  SmpInv'
<1>0. /\ 0 \in CPUs /\ NumCpus \in Nat /\ next_seq \in 1..NumCpus
      /\ \A d \in CPUs : d \in Nat /\ d < NumCpus
      /\ DOMAIN boot = CPUs /\ DOMAIN seq = CPUs /\ MpOK
  BY Zenon, CpuNumbers DEF SmpInv, SmpTypeOK, SmpAssumption
<1>1. boot[c] \in {"entry", "init"}
  BY Zenon DEF hal_entry, secondary_cpu_init_done, BootTo
<1>2. c # 0
  BY <1>1 DEF SmpInv, BootOK
<1>3. c = next_seq /\ boot[0] = "up" /\ mp.cur_seq = c /\ mp.bringup = 1 /\ SecondOK(c)
  BY <1>0, <1>1, <1>2 DEF SmpInv, SecondOK, BootOK
<1>4. CASE hal_entry(c)
  <2>1. /\ boot[c] = "entry" /\ boot'[c] = "init" /\ DOMAIN boot' = CPUs
        /\ \A d \in CPUs \ {c} : boot'[d] = boot[d]
        /\ seq'[c] = c /\ \A d \in CPUs \ {c} : seq'[d] = seq[d]
        /\ DOMAIN seq' = CPUs /\ UNCHANGED <<next_seq, mp>> /\ UNCHANGED <<workVars, bad>>
    BY Zenon, <1>0, <1>3, <1>4 DEF hal_entry, BootTo
  <2>2. BootOK'
    BY <1>0, <1>2, <2>1 DEF SmpInv, BootOK
  <2>3. ASSUME NEW d \in CPUs \ {0} PROVE SecondOK(d)'
    BY <1>0, <1>2, <1>3, <2>1, <2>3 DEF SmpInv, SecondOK
  <2> QED
    BY <1>0, <2>1, <2>2, <2>3, BootStep DEF MpOK
<1>5. CASE secondary_cpu_init_done(c)
  <2>1. /\ boot[c] = "init" /\ boot'[c] = "wait" /\ DOMAIN boot' = CPUs
        /\ \A d \in CPUs \ {c} : boot'[d] = boot[d]
        /\ UNCHANGED <<next_seq, seq>> /\ UNCHANGED <<workVars, bad>>
        /\ mp' = [mp EXCEPT !.bringup = 0]
    BY Zenon, <1>0, <1>5 DEF secondary_cpu_init_done, BootTo
  <2>2. MpOK' /\ mp'.start = mp.start /\ mp'.cur_seq = mp.cur_seq /\ mp'.bringup = 0
    BY <1>0, <2>1 DEF MpOK
  <2>3. BootOK'
    BY <1>0, <1>2, <1>3, <2>1, <2>2 DEF SmpInv, BootOK
  <2>4. ASSUME NEW d \in CPUs \ {0} PROVE SecondOK(d)'
    BY <1>0, <1>2, <1>3, <2>1, <2>2, <2>4 DEF SmpInv, SecondOK
  <2> QED
    BY <1>0, <2>1, <2>2, <2>3, <2>4, BootStep
<1> QED
  BY Zenon, <1>4, <1>5

\* A CPU begins to work: it is not at the lock, and its interrupts go on.
LEMMA BeginsWork ==
  ASSUME SmpAssumption, SmpInv, NEW c \in CPUs, StartsWork(c), UNCHANGED <<pc, saved, lock, bad>>,
         boot[c] \notin {"work", "halted"}, boot' = [boot EXCEPT ![c] = "work"],
         BootOK', \A d \in CPUs \ {0} : SecondOK(d)', DOMAIN seq' = CPUs, MpOK',
         UNCHANGED next_seq
  PROVE  SmpInv'
<1>1. /\ DOMAIN boot = CPUs /\ DOMAIN ints = CPUs
  BY Zenon DEF SmpInv, SmpTypeOK
<1>2. /\ DOMAIN boot' = CPUs /\ boot'[c] = "work" /\ \A d \in CPUs \ {c} : boot'[d] = boot[d]
      /\ DOMAIN ints' = CPUs /\ ints'[c] = [on |-> TRUE, state |-> 1]
      /\ \A d \in CPUs \ {c} : ints'[d] = ints[d]
  BY Zenon, <1>1 DEF StartsWork
<1>3. SmpTypeOK'
  BY Zenon, <1>2 DEF SmpInv, SmpTypeOK
<1>4. WorkOK(c)'
  <2>1. WorkOK(c) /\ Resting(c)
    BY Zenon DEF SmpInv, WorkOK
  <2> QED
    BY <1>2, <2>1 DEF WorkOK, Resting, Levels
<1>5. ASSUME NEW d \in CPUs, d # c PROVE WorkOK(d)'
  BY Zenon, <1>2, <1>5, SameWork DEF SmpInv
<1>6. Alone' /\ \A d \in CPUs, l \in Levels : LockOK(d, l)'
  BY Zenon, SameLock DEF SmpInv
<1>7. bad' = FALSE
  BY Zenon DEF SmpInv
<1> QED
  BY Zenon, <1>3, <1>4, <1>5, <1>6, <1>7 DEF SmpInv

\* The boot CPU opens start_working_lock, and each CPU starts to work.
LEMMA Starts ==
  ASSUME SmpAssumption, SmpInv,
         release_secondary_cpu_lock \/ \E c \in CPUs : hal_mp_work(c)
  PROVE  SmpInv'
<1>0. /\ 0 \in CPUs /\ NumCpus \in Nat /\ next_seq \in 1..NumCpus
      /\ \A d \in CPUs : d \in Nat /\ d < NumCpus
      /\ DOMAIN boot = CPUs /\ DOMAIN seq = CPUs /\ MpOK
  BY Zenon, CpuNumbers DEF SmpInv, SmpTypeOK, SmpAssumption
<1>1. CASE release_secondary_cpu_lock
  <2>1. /\ next_seq = NumCpus /\ boot[0] = "publish" /\ boot' = [boot EXCEPT ![0] = "work"]
        /\ boot'[0] = "work" /\ \A d \in CPUs \ {0} : boot'[d] = boot[d]
        /\ StartsWork(0) /\ mp' = [mp EXCEPT !.start = 0]
        /\ UNCHANGED <<next_seq, seq>> /\ UNCHANGED <<pc, saved, lock, bad>>
    BY Zenon, <1>0, <1>1 DEF release_secondary_cpu_lock, BootTo
  <2>2. MpOK' /\ mp'.start = 0
    BY <1>0, <2>1 DEF MpOK
  <2>3. BootOK'
    BY <1>0, <2>1, <2>2 DEF SmpInv, BootOK
  <2>4. ASSUME NEW d \in CPUs \ {0} PROVE SecondOK(d)'
    BY <1>0, <2>1, <2>2, <2>4 DEF SmpInv, SecondOK
  <2> QED
    BY <1>0, <2>1, <2>2, <2>3, <2>4, BeginsWork
<1>2. ASSUME NEW c \in CPUs, hal_mp_work(c) PROVE SmpInv'
  <2>1. /\ mp.start = 0 /\ boot[c] = "wait" /\ boot' = [boot EXCEPT ![c] = "work"]
        /\ boot'[c] = "work" /\ \A d \in CPUs \ {c} : boot'[d] = boot[d]
        /\ StartsWork(c) /\ UNCHANGED <<next_seq, seq, mp>> /\ UNCHANGED <<pc, saved, lock, bad>>
    BY Zenon, <1>0, <1>2 DEF hal_mp_work, BootTo
  <2>2. c # 0 /\ boot[0] \in {"work", "halted"}
    BY <2>1 DEF SmpInv, BootOK
  <2>3. BootOK'
    BY <1>0, <2>1, <2>2 DEF SmpInv, BootOK
  <2>4. ASSUME NEW d \in CPUs \ {0} PROVE SecondOK(d)'
    BY <1>0, <2>1, <2>2, <2>4 DEF SmpInv, SecondOK
  <2> QED
    BY <1>0, <2>1, <2>3, <2>4, BeginsWork DEF MpOK
<1> QED
  BY Zenon, <1>1, <1>2
\* A step of one level of a CPU that works.
LEMMA LevelStep ==
  ASSUME SmpAssumption, SmpInv, NEW c \in CPUs, NEW l \in Levels, NEW from, NEW to,
         To(c, l, from, to)
  PROVE  /\ boot[c] = "work" /\ pc[c][l] = from /\ pc'[c][l] = to /\ UNCHANGED bootVars
         /\ DOMAIN pc' = CPUs /\ \A d \in CPUs : DOMAIN pc'[d] = Levels
         /\ \A d \in CPUs \ {c} : pc'[d] = pc[d]
         /\ \A m \in Levels \ {l} : pc'[c][m] = pc[c][m]
         /\ l = "thread" => pc[c]["handler"] = "rest"
         /\ WorkOK(c)
<1>1. /\ boot[c] = "work" /\ pc[c][l] = from /\ pc' = [pc EXCEPT ![c][l] = to]
      /\ UNCHANGED bootVars /\ (pc[c]["handler"] # "rest" => l = "handler")
  BY Zenon DEF To, Running
<1>2. DOMAIN pc = CPUs /\ \A d \in CPUs : DOMAIN pc[d] = Levels
  BY Zenon DEF SmpInv, SmpTypeOK
<1>3. WorkOK(c)
  BY Zenon DEF SmpInv
<1> QED
  BY <1>1, <1>2, <1>3

\* What is left to show of such a step.
LEMMA LevelInv ==
  ASSUME SmpAssumption, SmpInv, NEW c \in CPUs, UNCHANGED bootVars,
         DOMAIN pc' = CPUs, \A d \in CPUs : DOMAIN pc'[d] = Levels,
         \A d \in CPUs \ {c} : pc'[d] = pc[d],
         DOMAIN ints' = CPUs, \A d \in CPUs \ {c} : ints'[d] = ints[d],
         DOMAIN saved' = CPUs, \A d \in CPUs \ {c} : saved'[d] = saved[d],
         DOMAIN saved'[c] = Levels, lock' \in [locked : {0, 1}, int_enabled : {0, 1}],
         WorkOK(c)', Alone', \A d \in CPUs, m \in Levels : LockOK(d, m)', bad' = FALSE
  PROVE  SmpInv'
<1>1. UNCHANGED <<boot, next_seq, seq, mp>>
  BY Zenon DEF bootVars
<1>2. SmpTypeOK'
  BY Zenon, <1>1 DEF SmpInv, SmpTypeOK, MpOK
<1>3. BootOK' /\ \A d \in CPUs \ {0} : SecondOK(d)'
  BY Zenon, <1>1 DEF SmpInv, BootOK, SecondOK
<1>4. ASSUME NEW d \in CPUs, d # c PROVE WorkOK(d)'
  BY Zenon, <1>1, <1>4, SameWork DEF SmpInv
<1> QED
  BY Zenon, <1>2, <1>3, <1>4 DEF SmpInv

\* What holds of the fields of the CPUs when a step leaves them alone.
LEMMA Fields ==
  ASSUME SmpInv, NEW c \in CPUs
  PROVE  /\ UNCHANGED saved =>
              /\ DOMAIN saved' = CPUs /\ DOMAIN saved'[c] = Levels
              /\ \A d \in CPUs \ {c} : saved'[d] = saved[d]
         /\ UNCHANGED ints =>
              DOMAIN ints' = CPUs /\ \A d \in CPUs \ {c} : ints'[d] = ints[d]
<1>1. DOMAIN saved = CPUs /\ DOMAIN ints = CPUs /\ DOMAIN saved[c] = Levels
  BY Zenon DEF SmpInv, SmpTypeOK
<1> QED
  BY <1>1

\* spinlock_lock_int saves the interrupt state and turns interrupts off.
LEMMA TurnsOff ==
  ASSUME SmpAssumption, SmpInv, NEW c \in CPUs, NEW l \in Levels, spinlock_lock_int(c, l)
  PROVE  SmpInv'
<1>1. /\ To(c, l, Wants(l), "spin") /\ UNCHANGED <<lock, bad>>
      /\ saved' = [saved EXCEPT ![c][l] = ints[c].state]
      /\ ints' = [ints EXCEPT ![c] = [on |-> FALSE, state |-> 0]]
  BY Zenon DEF spinlock_lock_int, DisableInt
<1>2. /\ boot[c] = "work" /\ pc[c][l] = Wants(l) /\ pc'[c][l] = "spin" /\ UNCHANGED bootVars
      /\ DOMAIN pc' = CPUs /\ \A d \in CPUs : DOMAIN pc'[d] = Levels
      /\ \A d \in CPUs \ {c} : pc'[d] = pc[d]
      /\ \A m \in Levels \ {l} : pc'[c][m] = pc[c][m]
      /\ l = "thread" => pc[c]["handler"] = "rest"
      /\ WorkOK(c)
  BY Zenon, <1>1, LevelStep
<1>3. /\ DOMAIN saved' = CPUs /\ DOMAIN saved'[c] = Levels /\ saved'[c][l] = ints[c].state
      /\ \A d \in CPUs \ {c} : saved'[d] = saved[d]
      /\ \A m \in Levels \ {l} : saved'[c][m] = saved[c][m]
      /\ DOMAIN ints' = CPUs /\ ints'[c] = [on |-> FALSE, state |-> 0]
      /\ \A d \in CPUs \ {c} : ints'[d] = ints[d]
  <2>1. DOMAIN saved = CPUs /\ DOMAIN ints = CPUs /\ DOMAIN saved[c] = Levels
    BY Zenon DEF SmpInv, SmpTypeOK
  <2> QED
    BY <1>1, <2>1
<1>4. WorkOK(c)'
  <2>0. boot' = boot
    BY Zenon, <1>2 DEF bootVars
  <2>1. CASE l = "thread"
    <3>1. ints[c].state = 1
      BY <1>2, <2>1 DEF WorkOK, Resting, Wants
    <3> QED
      BY <1>2, <1>3, <2>0, <2>1, <3>1 DEF WorkOK, Resting, Wants, Levels, Entry
  <2>2. CASE l = "handler"
    <3>1. ints[c].state = 0 /\ pc[c]["thread"] = "rest"
      BY <1>2, <2>2 DEF WorkOK, Resting, Wants
    <3> QED
      BY <1>2, <1>3, <2>0, <2>2, <3>1 DEF WorkOK, Resting, Wants, Levels, Entry
  <2> QED
    BY Zenon, <2>1, <2>2 DEF Levels
<1>5. Alone' /\ \A d \in CPUs, m \in Levels : LockOK(d, m)'
  <2>1. Wants(l) \in {"rest", "enter"}
    BY Zenon DEF Wants
  <2>2. \A d \in CPUs, m \in Levels :
           \/ pc'[d][m] = pc[d][m]
           \/ {pc[d][m], pc'[d][m]} \cap {"mark", "held"} = {}
    BY <1>2, <2>1
  <2> QED
    BY Zenon, <1>1, <2>2, SameLock DEF SmpInv
<1>6. bad' = FALSE /\ lock' \in [locked : {0, 1}, int_enabled : {0, 1}]
  BY Zenon, <1>1 DEF SmpInv, SmpTypeOK
<1> QED
  BY Zenon, <1>2, <1>3, <1>4, <1>5, <1>6, LevelInv

\* spinlock_lock takes a lock that nobody holds.
LEMMA Takes ==
  ASSUME SmpAssumption, SmpInv, NEW c \in CPUs, NEW l \in Levels, spinlock_lock(c, l)
  PROVE  SmpInv'
<1>1. /\ To(c, l, "spin", "mark") /\ UNCHANGED <<ints, saved, bad>> /\ lock.locked = 0
      /\ lock' = [locked |-> 1, int_enabled |-> 0]
  BY Zenon DEF spinlock_lock
<1>2. /\ boot[c] = "work" /\ pc[c][l] = "spin" /\ pc'[c][l] = "mark" /\ UNCHANGED bootVars
      /\ DOMAIN pc' = CPUs /\ \A d \in CPUs : DOMAIN pc'[d] = Levels
      /\ \A d \in CPUs \ {c} : pc'[d] = pc[d]
      /\ \A m \in Levels \ {l} : pc'[c][m] = pc[c][m]
      /\ l = "thread" => pc[c]["handler"] = "rest"
      /\ WorkOK(c)
  BY Zenon, <1>1, LevelStep
<1>3. /\ DOMAIN saved' = CPUs /\ DOMAIN saved'[c] = Levels
      /\ \A d \in CPUs \ {c} : saved'[d] = saved[d]
      /\ DOMAIN ints' = CPUs /\ \A d \in CPUs \ {c} : ints'[d] = ints[d]
  BY Zenon, <1>1, Fields
<1>4. WorkOK(c)'
  <2>1. CASE l = "thread"
    BY <1>1, <1>2, <2>1 DEF WorkOK, Resting, Levels, bootVars
  <2>2. CASE l = "handler"
    BY <1>1, <1>2, <2>2 DEF WorkOK, Resting, Levels, bootVars
  <2> QED
    BY Zenon, <2>1, <2>2 DEF Levels
<1>5. \A d \in CPUs, m \in Levels : ~Holds(d, m)
  BY <1>1 DEF SmpInv, Alone
<1>6. \A d \in CPUs, m \in Levels : Holds(d, m)' <=> d = c /\ m = l
  BY <1>2, <1>5 DEF Holds
<1>7. Alone'
  BY <1>1, <1>6 DEF Alone, HeldBy
<1>8. ASSUME NEW d \in CPUs, NEW m \in Levels PROVE LockOK(d, m)'
  BY <1>1, <1>2, <1>6 DEF LockOK, Holds
<1>9. bad' = FALSE /\ lock' \in [locked : {0, 1}, int_enabled : {0, 1}]
  BY <1>1 DEF SmpInv
<1> QED
  BY Zenon, <1>2, <1>3, <1>4, <1>7, <1>8, <1>9, LevelInv
\* The holder writes its interrupt state into the lock, and finds it as it was.
LEMMA Marks ==
  ASSUME SmpAssumption, SmpInv, NEW c \in CPUs, NEW l \in Levels, MarkLock(c, l)
  PROVE  SmpInv'
<1>1. /\ To(c, l, "mark", "held") /\ UNCHANGED <<ints, saved>>
      /\ lock' = [lock EXCEPT !.int_enabled = saved[c][l]]
      /\ bad' = (bad \/ lock # [locked |-> 1, int_enabled |-> 0])
  BY Zenon DEF MarkLock
<1>2. /\ boot[c] = "work" /\ pc[c][l] = "mark" /\ pc'[c][l] = "held" /\ UNCHANGED bootVars
      /\ DOMAIN pc' = CPUs /\ \A d \in CPUs : DOMAIN pc'[d] = Levels
      /\ \A d \in CPUs \ {c} : pc'[d] = pc[d]
      /\ \A m \in Levels \ {l} : pc'[c][m] = pc[c][m]
      /\ l = "thread" => pc[c]["handler"] = "rest"
      /\ WorkOK(c)
  BY Zenon, <1>1, LevelStep
<1>3. /\ DOMAIN saved' = CPUs /\ DOMAIN saved'[c] = Levels
      /\ \A d \in CPUs \ {c} : saved'[d] = saved[d]
      /\ DOMAIN ints' = CPUs /\ \A d \in CPUs \ {c} : ints'[d] = ints[d]
  BY Zenon, <1>1, Fields
<1>4. WorkOK(c)'
  <2>1. CASE l = "thread"
    BY <1>1, <1>2, <1>3, <2>1 DEF WorkOK, Resting, Levels, Entry, bootVars
  <2>2. CASE l = "handler"
    BY <1>1, <1>2, <1>3, <2>2 DEF WorkOK, Resting, Levels, Entry, bootVars
  <2> QED
    BY Zenon, <2>1, <2>2 DEF Levels
<1>5. lock = [locked |-> 1, int_enabled |-> 0] /\ bad = FALSE /\ saved[c][l] = Entry(l)
  BY Zenon, <1>2 DEF SmpInv, LockOK, WorkOK
<1>6. bad' = FALSE /\ lock' = [locked |-> 1, int_enabled |-> Entry(l)]
  BY <1>1, <1>5
<1>7. HeldBy(c, l)
  BY <1>2, <1>5 DEF SmpInv, Alone, HeldBy, Holds
<1>8. \A d \in CPUs, m \in Levels : Holds(d, m)' <=> d = c /\ m = l
  BY <1>2, <1>7 DEF Holds, HeldBy
<1>9. Alone'
  BY <1>6, <1>8 DEF Alone, HeldBy
<1>10. ASSUME NEW d \in CPUs, NEW m \in Levels PROVE LockOK(d, m)'
  BY <1>2, <1>6, <1>8 DEF LockOK, Holds
<1>11. lock' \in [locked : {0, 1}, int_enabled : {0, 1}]
  BY <1>6 DEF Entry
<1> QED
  BY Zenon, <1>2, <1>3, <1>4, <1>6, <1>9, <1>10, <1>11, LevelInv

\* spinlock_unlock_int reads the state back and gives the lock up.
LEMMA GivesUp ==
  ASSUME SmpAssumption, SmpInv, NEW c \in CPUs, NEW l \in Levels, spinlock_unlock_int(c, l)
  PROVE  SmpInv'
<1>1. /\ To(c, l, "held", "restore") /\ UNCHANGED ints
      /\ saved' = [saved EXCEPT ![c][l] = lock.int_enabled]
      /\ bad' = (bad \/ lock.locked = 0) /\ lock' = [locked |-> 0, int_enabled |-> 0]
  BY Zenon DEF spinlock_unlock_int
<1>2. /\ boot[c] = "work" /\ pc[c][l] = "held" /\ pc'[c][l] = "restore" /\ UNCHANGED bootVars
      /\ DOMAIN pc' = CPUs /\ \A d \in CPUs : DOMAIN pc'[d] = Levels
      /\ \A d \in CPUs \ {c} : pc'[d] = pc[d]
      /\ \A m \in Levels \ {l} : pc'[c][m] = pc[c][m]
      /\ l = "thread" => pc[c]["handler"] = "rest"
      /\ WorkOK(c)
  BY Zenon, <1>1, LevelStep
<1>3. /\ DOMAIN saved' = CPUs /\ DOMAIN saved'[c] = Levels /\ saved'[c][l] = lock.int_enabled
      /\ \A d \in CPUs \ {c} : saved'[d] = saved[d]
      /\ \A m \in Levels \ {l} : saved'[c][m] = saved[c][m]
      /\ DOMAIN ints' = CPUs /\ ints'[c] = ints[c] /\ \A d \in CPUs \ {c} : ints'[d] = ints[d]
  <2>1. DOMAIN saved = CPUs /\ DOMAIN ints = CPUs /\ DOMAIN saved[c] = Levels
    BY Zenon DEF SmpInv, SmpTypeOK
  <2> QED
    BY <1>1, <2>1
<1>4. lock = [locked |-> 1, int_enabled |-> Entry(l)] /\ bad = FALSE
  BY Zenon, <1>2 DEF SmpInv, LockOK
<1>5. lock.locked = 1 /\ lock.int_enabled = Entry(l)
  BY <1>4
<1>6. WorkOK(c)'
  <2>1. CASE l = "thread"
    BY <1>1, <1>2, <1>3, <1>5, <2>1 DEF WorkOK, Resting, Levels, Entry, bootVars
  <2>2. CASE l = "handler"
    BY <1>1, <1>2, <1>3, <1>5, <2>2 DEF WorkOK, Resting, Levels, Entry, bootVars
  <2> QED
    BY Zenon, <2>1, <2>2 DEF Levels
<1>7. bad' = FALSE /\ lock' \in [locked : {0, 1}, int_enabled : {0, 1}]
  <2>1. lock.locked # 0 /\ lock' \in [locked : {0, 1}, int_enabled : {0, 1}]
    BY <1>1, <1>5
  <2> QED
    BY Zenon, <1>1, <1>4, <2>1
<1>8. HeldBy(c, l)
  BY <1>2, <1>5 DEF SmpInv, Alone, HeldBy, Holds
<1>9. \A d \in CPUs, m \in Levels : ~Holds(d, m)'
  BY <1>2, <1>8 DEF Holds, HeldBy
<1>10. Alone' /\ \A d \in CPUs, m \in Levels : LockOK(d, m)'
  BY <1>1, <1>9 DEF Alone, LockOK, Holds
<1> QED
  BY Zenon, <1>2, <1>3, <1>6, <1>7, <1>10, LevelInv

\* restore_local_int: a thread gets its interrupts back, a handler does not.
LEMMA Restores ==
  ASSUME SmpAssumption, SmpInv, NEW c \in CPUs, NEW l \in Levels, restore_local_int(c, l)
  PROVE  SmpInv'
<1>0. PICK to \in {"leave", "rest"} : To(c, l, "restore", to) /\ (to = "leave" <=> l = "handler")
  BY Zenon DEF restore_local_int
<1>1. /\ To(c, l, "restore", to) /\ UNCHANGED <<saved, lock>>
      /\ bad' = (bad \/ (ints[c].state = 1 /\ saved[c][l] = 0))
      /\ ints' = IF ints[c].state = 0 /\ saved[c][l] = 1
                 THEN [ints EXCEPT ![c] = [on |-> TRUE, state |-> 1]] ELSE ints
  BY Zenon, <1>0 DEF restore_local_int
<1>2. /\ boot[c] = "work" /\ pc[c][l] = "restore" /\ pc'[c][l] = to /\ UNCHANGED bootVars
      /\ DOMAIN pc' = CPUs /\ \A d \in CPUs : DOMAIN pc'[d] = Levels
      /\ \A d \in CPUs \ {c} : pc'[d] = pc[d]
      /\ \A m \in Levels \ {l} : pc'[c][m] = pc[c][m]
      /\ l = "thread" => pc[c]["handler"] = "rest"
      /\ WorkOK(c)
  BY Zenon, <1>1, LevelStep
<1>3. saved[c][l] = Entry(l) /\ ints[c] = [on |-> FALSE, state |-> 0]
  BY <1>2 DEF WorkOK, Resting, Levels
<1>4. ints' = IF l = "thread" THEN [ints EXCEPT ![c] = [on |-> TRUE, state |-> 1]] ELSE ints
  BY <1>1, <1>3 DEF Entry
<1>5. /\ DOMAIN saved' = CPUs /\ DOMAIN saved'[c] = Levels /\ saved'[c] = saved[c]
      /\ \A d \in CPUs \ {c} : saved'[d] = saved[d]
      /\ DOMAIN ints' = CPUs /\ \A d \in CPUs \ {c} : ints'[d] = ints[d]
      /\ ints'[c] = IF l = "thread" THEN [on |-> TRUE, state |-> 1] ELSE ints[c]
  <2>1. DOMAIN saved = CPUs /\ DOMAIN ints = CPUs /\ DOMAIN saved[c] = Levels
    BY Zenon DEF SmpInv, SmpTypeOK
  <2> QED
    BY <1>1, <1>4, <2>1
<1>6. WorkOK(c)'
  <2>0. boot' = boot
    BY Zenon, <1>2 DEF bootVars
  <2>1. CASE l = "thread"
    BY <1>0, <1>2, <1>5, <2>0, <2>1 DEF WorkOK, Resting, Levels
  <2>2. CASE l = "handler"
    BY <1>0, <1>2, <1>3, <1>5, <2>0, <2>2 DEF WorkOK, Resting, Levels
  <2> QED
    BY Zenon, <2>1, <2>2 DEF Levels
<1>7. Alone' /\ \A d \in CPUs, m \in Levels : LockOK(d, m)'
  <2>1. \A d \in CPUs, m \in Levels :
           \/ pc'[d][m] = pc[d][m]
           \/ {pc[d][m], pc'[d][m]} \cap {"mark", "held"} = {}
    BY <1>0, <1>2
  <2> QED
    BY Zenon, <1>1, <2>1, SameLock DEF SmpInv
<1>8. bad' = FALSE
  <2>1. ints[c].state # 1
    BY <1>3
  <2> QED
    BY Zenon, <1>1, <2>1 DEF SmpInv
<1>9. lock' \in [locked : {0, 1}, int_enabled : {0, 1}]
  BY Zenon, <1>1 DEF SmpInv, SmpTypeOK
<1> QED
  BY Zenon, <1>2, <1>5, <1>6, <1>7, <1>8, <1>9, LevelInv

\* The return from the interrupt, to a thread that is not at the lock.
LEMMA Returns ==
  ASSUME SmpAssumption, SmpInv, NEW c \in CPUs, int_handler_return(c)
  PROVE  SmpInv'
<1> DEFINE l == "handler"
<1>0. l \in Levels
  BY DEF Levels
<1> HIDE DEF l
<1>1. /\ To(c, l, "leave", "rest") /\ UNCHANGED <<saved, lock, bad>>
      /\ ints' = [ints EXCEPT ![c] = [on |-> TRUE, state |-> 1]]
  BY Zenon DEF int_handler_return, StartsWork, l
<1>2. /\ boot[c] = "work" /\ pc[c][l] = "leave" /\ pc'[c][l] = "rest" /\ UNCHANGED bootVars
      /\ DOMAIN pc' = CPUs /\ \A d \in CPUs : DOMAIN pc'[d] = Levels
      /\ \A d \in CPUs \ {c} : pc'[d] = pc[d]
      /\ \A m \in Levels \ {l} : pc'[c][m] = pc[c][m]
      /\ l = "thread" => pc[c]["handler"] = "rest"
      /\ WorkOK(c)
  BY Zenon, <1>0, <1>1, LevelStep
<1>3. /\ DOMAIN saved' = CPUs /\ DOMAIN saved'[c] = Levels /\ saved'[c] = saved[c]
      /\ \A d \in CPUs \ {c} : saved'[d] = saved[d]
      /\ DOMAIN ints' = CPUs /\ \A d \in CPUs \ {c} : ints'[d] = ints[d]
      /\ ints'[c] = [on |-> TRUE, state |-> 1]
  <2>1. DOMAIN saved = CPUs /\ DOMAIN ints = CPUs /\ DOMAIN saved[c] = Levels
    BY Zenon DEF SmpInv, SmpTypeOK
  <2> QED
    BY <1>1, <2>1
<1>4. WorkOK(c)'
  <2>0. boot' = boot
    BY Zenon, <1>2 DEF bootVars
  <2> QED
    BY <1>2, <1>3, <2>0 DEF WorkOK, Resting, Levels, l
<1>5. Alone' /\ \A d \in CPUs, m \in Levels : LockOK(d, m)'
  <2>1. \A d \in CPUs, m \in Levels :
           \/ pc'[d][m] = pc[d][m]
           \/ {pc[d][m], pc'[d][m]} \cap {"mark", "held"} = {}
    BY <1>2
  <2> QED
    BY Zenon, <1>1, <2>1, SameLock DEF SmpInv
<1>6. bad' = FALSE /\ lock' \in [locked : {0, 1}, int_enabled : {0, 1}]
  BY Zenon, <1>1 DEF SmpInv, SmpTypeOK
<1> QED
  BY Zenon, <1>2, <1>3, <1>4, <1>5, <1>6, LevelInv
\* A CPU stops for good, where it is.
LEMMA Halts ==
  ASSUME SmpAssumption, SmpInv, NEW c \in CPUs, boot[c] = "work", DisableInt(c),
         boot' = [boot EXCEPT ![c] = "halted"], UNCHANGED <<next_seq, seq, pc, saved, lock, bad>>,
         MpOK', mp'.start = mp.start, mp'.cur_seq = mp.cur_seq, mp'.bringup = mp.bringup
  PROVE  SmpInv'
<1>1. DOMAIN boot = CPUs /\ DOMAIN ints = CPUs
  BY Zenon DEF SmpInv, SmpTypeOK
<1>2. /\ DOMAIN boot' = CPUs /\ boot'[c] = "halted" /\ \A d \in CPUs \ {c} : boot'[d] = boot[d]
      /\ DOMAIN ints' = CPUs /\ ints'[c] = [on |-> FALSE, state |-> 0]
      /\ \A d \in CPUs \ {c} : ints'[d] = ints[d]
  BY Zenon, <1>1 DEF DisableInt
<1>3. SmpTypeOK'
  BY Zenon, <1>2 DEF SmpInv, SmpTypeOK
<1>4. /\ boot'[0] = boot[0] \/ (boot[0] = "work" /\ boot'[0] = "halted")
      /\ mp.start = 0
  <2>1. 0 \in CPUs
    BY Zenon, CpuNumbers
  <2>2. c # 0 => SecondOK(c)
    BY Zenon DEF SmpInv
  <2> QED
    BY Zenon, <1>2, <2>1, <2>2 DEF SmpInv, BootOK, SecondOK
<1>5. BootOK'
  BY <1>4 DEF SmpInv, BootOK
<1>6. ASSUME NEW d \in CPUs \ {0} PROVE SecondOK(d)'
  <2>1. SecondOK(d) /\ boot[0] \in {"work", "halted"}
    BY Zenon, <1>4 DEF SmpInv, BootOK
  <2>2. boot'[d] = boot[d] \/ (boot[d] = "work" /\ boot'[d] = "halted")
    BY Zenon, <1>2
  <2> QED
    BY <1>4, <2>1, <2>2 DEF SecondOK
<1>7. WorkOK(c)'
  <2>1. WorkOK(c)
    BY Zenon DEF SmpInv
  <2> QED
    BY <1>2, <2>1 DEF WorkOK, Resting
<1>8. ASSUME NEW d \in CPUs, d # c PROVE WorkOK(d)'
  BY Zenon, <1>2, <1>8, SameWork DEF SmpInv
<1>9. Alone' /\ \A d \in CPUs, l \in Levels : LockOK(d, l)'
  BY Zenon, SameLock DEF SmpInv
<1>10. bad' = FALSE
  BY Zenon DEF SmpInv
<1> QED
  BY Zenon, <1>3, <1>5, <1>6, <1>7, <1>8, <1>9, <1>10 DEF SmpInv

\* panic stops the CPU, and the interrupts of the others find that it did.
LEMMA Panics ==
  ASSUME SmpAssumption, SmpInv, NEW c \in CPUs, NEW l \in Levels, halt_all_cpus(c, l)
  PROVE  SmpInv'
<1>1. /\ boot[c] = "work" /\ boot' = [boot EXCEPT ![c] = "halted"] /\ DisableInt(c)
      /\ mp' = [mp EXCEPT !.halted = TRUE] /\ UNCHANGED <<next_seq, seq, pc, saved, lock, bad>>
  BY Zenon DEF halt_all_cpus, BootTo
<1>2. MpOK
  BY Zenon DEF SmpInv, SmpTypeOK
<1>3. MpOK' /\ mp'.start = mp.start /\ mp'.cur_seq = mp.cur_seq /\ mp'.bringup = mp.bringup
  BY <1>1, <1>2 DEF MpOK
<1> QED
  BY Zenon, <1>1, <1>3, Halts

\* An interrupt comes upon a thread that is not at the lock.
LEMMA Interrupts ==
  ASSUME SmpAssumption, SmpInv, NEW c \in CPUs, int_handler(c)
  PROVE  SmpInv'
<1>1. /\ boot[c] = "work" /\ ints[c].on /\ DisableInt(c)
      /\ UNCHANGED <<next_seq, seq, mp>> /\ UNCHANGED <<saved, lock, bad>>
  BY Zenon DEF int_handler
<1>2. MpOK /\ MpOK'
  BY Zenon, <1>1 DEF SmpInv, SmpTypeOK, MpOK
<1>3. CASE boot' = [boot EXCEPT ![c] = "halted"] /\ UNCHANGED pc
  BY Zenon, <1>1, <1>2, <1>3, Halts
<1>4. CASE pc' = [pc EXCEPT ![c]["handler"] = "enter"] /\ UNCHANGED boot
  <2>1. WorkOK(c) /\ Resting(c)
    <3>1. WorkOK(c)
      BY Zenon DEF SmpInv
    <3> QED
      BY <1>1, <3>1 DEF WorkOK
  <2>2. /\ DOMAIN pc' = CPUs /\ \A d \in CPUs : DOMAIN pc'[d] = Levels
        /\ \A d \in CPUs \ {c} : pc'[d] = pc[d]
        /\ pc'[c]["handler"] = "enter" /\ pc'[c]["thread"] = "rest"
    <3>1. DOMAIN pc = CPUs /\ (\A d \in CPUs : DOMAIN pc[d] = Levels)
      BY Zenon DEF SmpInv, SmpTypeOK
    <3> QED
      BY <1>4, <2>1, <3>1 DEF Levels, Resting
  <2>3. /\ DOMAIN ints' = CPUs /\ ints'[c] = [on |-> FALSE, state |-> 0]
        /\ \A d \in CPUs \ {c} : ints'[d] = ints[d]
        /\ DOMAIN saved' = CPUs /\ DOMAIN saved'[c] = Levels
        /\ \A d \in CPUs \ {c} : saved'[d] = saved[d]
    BY Zenon, <1>1 DEF SmpInv, SmpTypeOK, DisableInt
  <2>4. WorkOK(c)'
    <3>1. \A m \in Levels : pc'[c][m] \in {"enter", "rest"}
      BY <2>2 DEF Levels
    <3>2. ~Resting(c)' /\ boot'[c] = "work"
      BY Zenon, <1>1, <1>4, <2>2 DEF Resting
    <3> QED
      BY <2>2, <2>3, <3>1, <3>2 DEF WorkOK
  <2>5. Alone' /\ \A d \in CPUs, m \in Levels : LockOK(d, m)'
    <3>1. \A d \in CPUs, m \in Levels :
             \/ pc'[d][m] = pc[d][m]
             \/ {pc[d][m], pc'[d][m]} \cap {"mark", "held"} = {}
      BY <2>1, <2>2 DEF Resting, Levels
    <3> QED
      BY Zenon, <1>1, <3>1, SameLock DEF SmpInv
  <2>6. bad' = FALSE /\ lock' \in [locked : {0, 1}, int_enabled : {0, 1}]
    BY Zenon, <1>1 DEF SmpInv, SmpTypeOK
  <2>7. UNCHANGED bootVars
    BY Zenon, <1>1, <1>4 DEF bootVars
  <2> QED
    BY Zenon, <2>2, <2>3, <2>4, <2>5, <2>6, <2>7, LevelInv
<1> QED
  BY Zenon, <1>3, <1>4 DEF int_handler

\* The invariant is enough.
LEMMA SmpInvSafe ==
  ASSUME SmpAssumption, SmpInv
  PROVE  SmpSafe
<1>1. ASSUME NEW c \in CPUs PROVE seq[c] \in {NoSeq, c} /\ (boot[c] = "work" => seq[c] = c)
  <2>1. c # 0 => SecondOK(c)
    BY Zenon DEF SmpInv
  <2> QED
    BY <2>1 DEF SmpInv, BootOK, SecondOK
<1>2. ASSUME mp.start = 1, NEW c \in CPUs PROVE boot[c] # "work"
  <2>1. c # 0 => SecondOK(c)
    BY Zenon DEF SmpInv
  <2> QED
    BY <1>2, <2>1 DEF SmpInv, BootOK, SecondOK
<1>3. Cardinality({x \in CPUs \X Levels : Holds(x[1], x[2])}) = lock.locked
  <2> DEFINE H == {x \in CPUs \X Levels : Holds(x[1], x[2])}
  <2>1. CASE lock.locked = 0 /\ \A c \in CPUs, l \in Levels : ~Holds(c, l)
    <3>1. H = {}
      BY <2>1
    <3> QED
      BY <2>1, <3>1, FS_EmptySet
  <2>2. ASSUME lock.locked = 1, NEW c \in CPUs, NEW l \in Levels, HeldBy(c, l)
        PROVE  Cardinality(H) = lock.locked
    <3>1. H = {<<c, l>>}
      BY <2>2 DEF HeldBy
    <3> HIDE DEF H
    <3> QED
      BY <2>2, <3>1, FS_Singleton
  <2> QED
    BY Zenon, <2>1, <2>2 DEF SmpInv, Alone
<1>4. ASSUME NEW c \in CPUs
      PROVE  /\ pc[c]["handler"] = "spin" => ~Holds(c, "thread")
             /\ boot[c] = "work" /\ pc[c] = [l \in Levels |-> "rest"]
                  => ints[c] = [on |-> TRUE, state |-> 1]
  <2>1. WorkOK(c)
    BY Zenon DEF SmpInv
  <2> QED
    BY <2>1 DEF WorkOK, Resting, Holds, Levels
<1>5. ~bad
  BY Zenon DEF SmpInv
<1> QED
  BY Zenon, <1>1, <1>2, <1>3, <1>4, <1>5 DEF SmpSafe

\* bringup_all_secondary_cpus and spinlock_lock_int, for any number of CPUs:
\* every CPU takes on its own number and starts after the boot CPU says so,
\* and one level of one CPU at a time holds the spinlock, never with a handler
\* above it that spins, also while CPUs panic and stop.
THEOREM SpinlockIsSafe ==
  ASSUME SmpAssumption
  PROVE  SmpSpec => []SmpSafe
<1>1. SmpInit => SmpInv
  BY Zenon, SmpBegins
<1>2. SmpInv /\ [SmpNext]_smpVars => SmpInv'
  <2>1. ASSUME SmpInv, SmpNext PROVE SmpInv'
    BY Zenon, <2>1, Bringup, Starts, Reports, Interrupts, Returns, TurnsOff, Takes, Marks,
       GivesUp, Restores, Panics DEF SmpNext
  <2>2. ASSUME SmpInv, UNCHANGED smpVars PROVE SmpInv'
    <3>1. UNCHANGED bootVars /\ UNCHANGED <<workVars, bad>> /\ UNCHANGED <<boot, seq, next_seq, mp>>
      BY Zenon, <2>2 DEF smpVars, bootVars
    <3>2. BootOK' /\ (\A c \in CPUs \ {0} : SecondOK(c)') /\ MpOK'
      BY Zenon, <2>2, <3>1 DEF SmpInv, SmpTypeOK, BootOK, SecondOK, MpOK
    <3>3. DOMAIN boot' = CPUs /\ DOMAIN seq' = CPUs /\ next_seq' \in 1..NumCpus
      BY Zenon, <2>2, <3>1 DEF SmpInv, SmpTypeOK
    <3> QED
      BY Zenon, <2>2, <3>1, <3>2, <3>3, BootStep
  <2> QED
    BY Zenon, <2>1, <2>2
<1>3. SmpInv => SmpSafe
  BY Zenon, SmpInvSafe
<1> QED
  BY <1>1, <1>2, <1>3, PTL DEF SmpSpec
=============================================================================
