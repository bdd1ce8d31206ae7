--------------------------------- MODULE Tlb ---------------------------------
(***************************************************************************)
(* The TLB shootdown queue of kernel/proc/tlb.c: a list of requests in the *)
(* order of their sequence numbers, a count of missing acknowledgements in *)
(* each, and per CPU the sequence number up to which it has acknowledged.  *)
(* Each action is one critical section of tlb_shootdown_reqs.lock.         *)
(*                                                                         *)
(* The module is a specification of its own, in which any block may be     *)
(* requested, and is extended by VmBlocks, which adds the blocks' lists.   *)
(***************************************************************************)
EXTENDS Integers, Sequences, FiniteSets

CONSTANTS
  Cpus,        \* the CPUs, all of them running
  Blocks,      \* struct vm_block
  MaxSeq       \* bound on the sequence numbers used

ASSUME TlbAssumption ==
  /\ IsFiniteSet(Cpus)
  /\ MaxSeq \in Nat

VARIABLES
  reqs,        \* tlb_shootdown_reqs
  nextSeq,     \* tlb_shootdown_seq, the next number to hand out
  mySeq,       \* mySeq[c]: local_tlb_shootdown_seq of CPU c
  bseq,        \* bseq[b]: b->tlb_shootdown_seq
  waitAcks     \* waitAcks[b]: b->wait_acks

tlbVars == <<reqs, nextSeq, mySeq, bseq, waitAcks>>

NumCpus == Cardinality(Cpus)

Queued == {reqs[i] : i \in 1..Len(reqs)}

\* init_tlb_shootdown
TlbInit ==
  /\ reqs = <<>>
  /\ nextSeq = 1
  /\ mySeq = [c \in Cpus |-> 0]
  /\ bseq = [b \in Blocks |-> 0]
  /\ waitAcks = [b \in Blocks |-> 0]

\* Mutant: the requesting CPU does not wait for itself.
request_tlb_shootdown_others(b) ==
  /\ nextSeq <= MaxSeq
  /\ waitAcks' = [waitAcks EXCEPT ![b] = NumCpus - 1]
  /\ bseq' = [bseq EXCEPT ![b] = nextSeq]
  /\ nextSeq' = nextSeq + 1
  /\ reqs' = Append(reqs, b)
  /\ UNCHANGED mySeq

\* Mutant: a new request is put at the front of the list.
request_tlb_shootdown_front(b) ==
  /\ nextSeq <= MaxSeq
  /\ waitAcks' = [waitAcks EXCEPT ![b] = NumCpus]
  /\ bseq' = [bseq EXCEPT ![b] = nextSeq]
  /\ nextSeq' = nextSeq + 1
  /\ reqs' = <<b>> \o reqs
  /\ UNCHANGED mySeq

\* request_tlb_shootdown, with more than one CPU.
request_tlb_shootdown(b) ==
  /\ nextSeq <= MaxSeq
  /\ waitAcks' = [waitAcks EXCEPT ![b] = NumCpus]
  /\ bseq' = [bseq EXCEPT ![b] = nextSeq]
  /\ nextSeq' = nextSeq + 1
  /\ reqs' = Append(reqs, b)
  /\ UNCHANGED mySeq

\* The requests a CPU has not acknowledged.
Unseen(c) == {b \in Queued : mySeq[c] < bseq[b]}

\* Mutant: the CPU remembers the newest number handed out, not the newest
\* request it acknowledged.
service_skip(c) ==
  /\ waitAcks' = [b \in Blocks |->
                    IF b \in Unseen(c) THEN waitAcks[b] - 1 ELSE waitAcks[b]]
  /\ mySeq' = [mySeq EXCEPT ![c] = nextSeq]
  /\ UNCHANGED <<reqs, nextSeq, bseq>>

\* The first loop of service_tlb_shootdown_requests.  The list is in the
\* order of the numbers, so the last one acknowledged is the newest.
service_ack(c) ==
  /\ waitAcks' = [b \in Blocks |->
                    IF b \in Unseen(c) THEN waitAcks[b] - 1 ELSE waitAcks[b]]
  /\ mySeq' = [mySeq EXCEPT ![c] =
                 IF Unseen(c) = {} THEN @ ELSE bseq[reqs[Len(reqs)]]]
  /\ UNCHANGED <<reqs, nextSeq, bseq>>

\* One round of its second loop: the oldest request, acknowledged by all.
FrontDone == reqs # <<>> /\ waitAcks[Head(reqs)] = 0

service_pop(b) ==
  /\ FrontDone
  /\ b = Head(reqs)
  /\ reqs' = Tail(reqs)
  /\ UNCHANGED <<nextSeq, mySeq, bseq, waitAcks>>

TlbNext ==
  \/ \E b \in Blocks : b \notin Queued /\ request_tlb_shootdown(b)
  \/ \E c \in Cpus : service_ack(c)
  \/ \E b \in Blocks : service_pop(b)

TlbSpec == TlbInit /\ [][TlbNext]_tlbVars

-----------------------------------------------------------------------------

TlbTypeOK ==
  /\ reqs \in Seq(Blocks)
  /\ nextSeq \in Nat \ {0}
  /\ mySeq \in [Cpus -> Nat]
  /\ bseq \in [Blocks -> Nat]
  /\ waitAcks \in [Blocks -> Nat]

\* The CPUs that have not passed over a block's last request.
Owing(b) == {c \in Cpus : mySeq[c] < bseq[b]}

\* wait_acks counts exactly the CPUs that still have to acknowledge: no
\* acknowledgement is lost or given twice, and no CPU owes one for a block
\* that has left the queue.
AcksExact ==
  \A b \in Blocks :
    IF b \in Queued THEN waitAcks[b] = Cardinality(Owing(b))
                    ELSE Owing(b) = {}

\* The queue is in the order of the sequence numbers, so that the numbers
\* the CPUs remember stand for every older request.
QueueOrdered ==
  /\ \A i, j \in 1..Len(reqs) : i < j => bseq[reqs[i]] < bseq[reqs[j]]
  /\ \A b \in Blocks : bseq[b] < nextSeq

\* The queue implements the promise: a request leaves it only after every
\* CPU has serviced it.
Promise ==
  INSTANCE Shootdown WITH
    pending <- Queued,
    owed    <- [b \in Blocks |-> Owing(b)]

ShootdownPromise == Promise!Spec
=============================================================================
