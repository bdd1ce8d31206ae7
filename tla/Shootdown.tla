------------------------------ MODULE Shootdown ------------------------------
(***************************************************************************)
(* What the TLB shootdown of kernel/proc/tlb.c promises its caller, the VM *)
(* block manager: a request is completed only when every CPU has passed    *)
(* through the service routine since the request was made.                 *)
(***************************************************************************)
CONSTANTS Cpus, Blocks

VARIABLES
  pending,     \* blocks whose shootdown is under way
  owed         \* owed[b]: the CPUs that have not serviced it yet

vars == <<pending, owed>>

Init ==
  /\ pending = {}
  /\ owed = [b \in Blocks |-> {}]

Request(b) ==
  /\ b \notin pending
  /\ pending' = pending \cup {b}
  /\ owed' = [owed EXCEPT ![b] = Cpus]

\* A CPU services everything that is pending.
Service(c) ==
  /\ owed' = [b \in Blocks |-> owed[b] \ {c}]
  /\ UNCHANGED pending

Complete(b) ==
  /\ b \in pending
  /\ owed[b] = {}
  /\ pending' = pending \ {b}
  /\ UNCHANGED owed

Next ==
  \/ \E b \in Blocks : Request(b) \/ Complete(b)
  \/ \E c \in Cpus : Service(c)

Spec == Init /\ [][Next]_vars
=============================================================================
