------------------------------- MODULE Barrier -------------------------------
(***************************************************************************)
(* The libc barrier (libc/kth/barrier.c).  The first thread to arrive      *)
(* publishes a record on its own stack in bar->local; the others count     *)
(* themselves in there and spin on its release flag.  The record is named  *)
(* by its owner.                                                           *)
(***************************************************************************)
EXTENDS Integers, FiniteSets

CONSTANTS
  BarThreads,  \* the threads that meet; bar->total is their number
  NoLocal,     \* NULL
  BarRounds    \* how often they meet

VARIABLES
  bpc,         \* bpc[t]: where t is in barrier_wait
  barLocal,    \* bar->local
  local,       \* local[t]: the record on the stack of t, [count, release]
  mine,        \* mine[t]: my_local
  round        \* round[t]: how often t has entered the barrier

barVars == <<bpc, barLocal, local, mine, round>>

Total == Cardinality(BarThreads)

At(t, label) == bpc[t] = label

BarGoto(t, label) == bpc' = [bpc EXCEPT ![t] = label]

BarInit ==
  /\ bpc = [t \in BarThreads |-> "out"]
  /\ barLocal = NoLocal
  /\ local = [t \in BarThreads |-> [count |-> 0, release |-> 0]]
  /\ mine = [t \in BarThreads |-> NoLocal]
  /\ round = [t \in BarThreads |-> 0]

\* Enter: clear the own record and compare-and-swap it into bar->local.
Arrive(t) ==
  /\ At(t, "out")
  /\ round[t] < BarRounds
  /\ round' = [round EXCEPT ![t] = @ + 1]
  /\ local' = [local EXCEPT ![t] = [count |-> 0, release |-> 0]]
  /\ barLocal' = IF barLocal = NoLocal THEN t ELSE barLocal
  /\ mine' = [mine EXCEPT ![t] = barLocal']
  /\ BarGoto(t, "count")

CountIn(t) ==
  /\ At(t, "count")
  /\ local' = [local EXCEPT ![mine[t]].count = @ + 1]
  /\ BarGoto(t, IF mine[t] = t THEN "first" ELSE "others")
  /\ UNCHANGED <<barLocal, mine, round>>

\* Mutant: the first thread releases when it is not the only one any more.
AllHereEarly(t) ==
  /\ At(t, "first")
  /\ local[t].count > 1
  /\ barLocal' = NoLocal
  /\ BarGoto(t, "release")
  /\ UNCHANGED <<local, mine, round>>

\* The first thread has seen all the others and closes this round.
AllHere(t) ==
  /\ At(t, "first")
  /\ local[t].count = Total
  /\ barLocal' = NoLocal
  /\ BarGoto(t, "release")
  /\ UNCHANGED <<local, mine, round>>

Release(t) ==
  /\ At(t, "release")
  /\ local' = [local EXCEPT ![t].release = 1]
  /\ BarGoto(t, "drain")
  /\ UNCHANGED <<barLocal, mine, round>>

\* The first thread waits until the others have left its record.
Drained(t) ==
  /\ At(t, "drain")
  /\ local[t].count = 1
  /\ BarGoto(t, "out")
  /\ UNCHANGED <<barLocal, local, mine, round>>

Released(t) ==
  /\ At(t, "others")
  /\ local[mine[t]].release = 1
  /\ BarGoto(t, "uncount")
  /\ UNCHANGED <<barLocal, local, mine, round>>

CountOut(t) ==
  /\ At(t, "uncount")
  /\ local' = [local EXCEPT ![mine[t]].count = @ - 1]
  /\ BarGoto(t, "out")
  /\ UNCHANGED <<barLocal, mine, round>>

BarStep(t) ==
  \/ Arrive(t) \/ CountIn(t)
  \/ AllHere(t) \/ Release(t) \/ Drained(t)
  \/ Released(t) \/ CountOut(t)

BarNext == \E t \in BarThreads : BarStep(t)

BarSpec == BarInit /\ [][BarNext]_barVars

BarFairness == \A t \in BarThreads : WF_barVars(BarStep(t))

-----------------------------------------------------------------------------

\* Nobody passes before everybody has come: a thread leaves its n-th
\* barrier_wait only when every thread has entered its n-th.
BarrierHolds ==
  \A t, u \in BarThreads :
    bpc[t] \in {"out", "release", "drain", "uncount"} => round[u] >= round[t]

\* The record a thread counts in and spins on is on the stack of a thread
\* that is still inside the same barrier_wait: the first thread leaves last,
\* also when the fast ones are already in the next round.
LocalAlive ==
  \A t \in BarThreads :
    bpc[t] # "out" =>
      /\ bpc[mine[t]] \in {"count", "first", "release", "drain"}
      /\ mine[mine[t]] = mine[t]
      /\ round[mine[t]] = round[t]

\* Nobody is inside barrier_wait.
AllOut == \A t \in BarThreads : bpc[t] = "out"
=============================================================================
