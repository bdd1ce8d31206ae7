--------------------------- MODULE VmBlocksProofs ---------------------------
(***************************************************************************)
(* The blocks of a process, for any number of CPUs, blocks, pages and      *)
(* shootdowns, with or without ASIDs and on one CPU or on all: no CPU in   *)
(* user mode reaches a page that is free, num_active_blocks is 0 only when *)
(* every block is back home, and the shootdown queue keeps its promise.    *)
(*                                                                         *)
(* The inductive invariant VInv says of a block where it is (on one list,  *)
(* in the hands of one CPU or of the cleaner), of a page who has it, and   *)
(* of a cached translation that it agrees with the page table and, once    *)
(* the block is in the shootdown queue, that its CPU still owes the        *)
(* acknowledgement.  Without ASIDs a CPU acknowledges before it flushes,   *)
(* so nothing is claimed of the TLB of a CPU between the two.              *)
(***************************************************************************)
EXTENDS VmBlocks, FiniteSetTheorems, TLAPS

-----------------------------------------------------------------------------
\* The shootdown queue: the acknowledgement counts are exact, and the queue
\* implements the promise of module Shootdown.  A count of CPUs and a set of
\* CPUs are tied together by AcksExact.  It is inductive only with
\* QueueOrdered, since a CPU remembers one number for all the requests it has
\* seen, and with the fact that no CPU is ahead of the numbers handed out.

NotAhead == \A c \in Cpus : mySeq[c] < nextSeq

IInv == TlbTypeOK /\ QueueOrdered /\ AcksExact /\ NotAhead

\* A request joins the queue's members.
LEMMA QueuedAppend ==
  ASSUME reqs \in Seq(Blocks), NEW b \in Blocks, reqs' = Append(reqs, b)
  PROVE  Queued' = Queued \cup {b}
<1>1. Len(reqs') = Len(reqs) + 1 /\ Len(reqs) \in Nat
  OBVIOUS
<1>2. \A i \in 1..Len(reqs) : reqs'[i] = reqs[i]
  OBVIOUS
<1>3. reqs'[Len(reqs) + 1] = b
  OBVIOUS
<1>. QED
  BY <1>1, <1>2, <1>3 DEF Queued

\* The oldest request, and only it, leaves them.
LEMMA QueuedTail ==
  ASSUME TlbTypeOK, QueueOrdered, reqs # <<>>, reqs' = Tail(reqs)
  PROVE  Queued' = Queued \ {Head(reqs)}
<1>1. /\ Len(reqs) \in Nat \ {0}
      /\ Len(reqs') = Len(reqs) - 1
      /\ Head(reqs) = reqs[1]
      /\ \A i \in 1..Len(reqs) : reqs[i] \in Blocks
      /\ \A i \in 1..Len(reqs') : reqs'[i] = reqs[i + 1]
  BY DEF TlbTypeOK
<1>2. \A i \in 2..Len(reqs) : reqs[i] # reqs[1]
  <2>. SUFFICES ASSUME NEW i \in 2..Len(reqs) PROVE reqs[i] # reqs[1]
    BY Zenon
  <2>1. bseq[reqs[1]] < bseq[reqs[i]]
    BY <1>1 DEF QueueOrdered
  <2>2. bseq[reqs[1]] \in Nat /\ bseq[reqs[i]] \in Nat
    BY <1>1 DEF TlbTypeOK
  <2>. QED
    BY <2>1, <2>2
<1>3. Queued' \subseteq Queued \ {Head(reqs)}
  BY <1>1, <1>2 DEF Queued
<1>4. ASSUME NEW b \in Queued \ {Head(reqs)} PROVE b \in Queued'
  <2>1. PICK i \in 1..Len(reqs) : b = reqs[i]
    BY Zenon, <1>4 DEF Queued
  <2>2. i \in 2..Len(reqs)
    BY <1>1, <1>4, <2>1
  <2>3. i - 1 \in 1..Len(reqs') /\ reqs'[i - 1] = reqs[i]
    BY <1>1, <2>2
  <2>. QED
    BY Zenon, <2>1, <2>3 DEF Queued
<1>. QED
  BY Zenon, <1>3, <1>4

\* The last request carries the newest number.
LEMMA NewestLast ==
  ASSUME TlbTypeOK, QueueOrdered, reqs # <<>>
  PROVE  /\ reqs[Len(reqs)] \in Queued
         /\ \A b \in Queued : bseq[b] <= bseq[reqs[Len(reqs)]]
<1>1. /\ Len(reqs) \in Nat \ {0}
      /\ \A i \in 1..Len(reqs) : reqs[i] \in Blocks
  BY DEF TlbTypeOK
<1>2. \A i \in 1..Len(reqs) : bseq[reqs[i]] <= bseq[reqs[Len(reqs)]]
  <2>. SUFFICES ASSUME NEW i \in 1..Len(reqs)
                PROVE  bseq[reqs[i]] <= bseq[reqs[Len(reqs)]]
    BY Zenon
  <2>1. bseq[reqs[i]] \in Nat /\ bseq[reqs[Len(reqs)]] \in Nat
    BY <1>1 DEF TlbTypeOK
  <2>2. i < Len(reqs) => bseq[reqs[i]] < bseq[reqs[Len(reqs)]]
    BY <1>1 DEF QueueOrdered
  <2>. QED
    BY <1>1, <2>1, <2>2
<1>. QED
  BY <1>1, <1>2 DEF Queued

\* Only blocks are queued.
LEMMA QueuedBlocks == TlbTypeOK => Queued \subseteq Blocks
  BY DEF TlbTypeOK, Queued

\* The CPUs that owe an acknowledgement can be counted.
LEMMA OwingFinite ==
  ASSUME NEW b \in Blocks
  PROVE  IsFiniteSet(Owing(b)) /\ Cardinality(Owing(b)) \in Nat
  BY Zenon, FS_Subset, FS_CardinalityType, TlbAssumption DEF Owing

\* init_tlb_shootdown establishes the invariant.
LEMMA InitIInv == TlbInit => IInv
<1>. SUFFICES ASSUME TlbInit PROVE IInv
  BY Zenon
<1>1. TlbTypeOK /\ NotAhead /\ QueueOrdered
  BY DEF TlbInit, TlbTypeOK, NotAhead, QueueOrdered
<1>2. AcksExact
  BY DEF TlbInit, AcksExact, Owing, Queued
<1>. QED
  BY Zenon, <1>1, <1>2 DEF IInv

\* A new request owes an acknowledgement from every CPU, and changes nothing
\* for the other blocks.
LEMMA RequestOwing ==
  ASSUME IInv, NEW b \in Blocks, b \notin Queued, request_tlb_shootdown(b)
  PROVE  /\ Queued' = Queued \cup {b}
         /\ Owing(b)' = Cpus
         /\ \A x \in Blocks \ {b} : Owing(x)' = Owing(x)
<1>1. Queued' = Queued \cup {b}
  BY Zenon, QueuedAppend DEF IInv, TlbTypeOK, request_tlb_shootdown
<1>2. bseq'[b] = nextSeq /\ \A x \in Blocks \ {b} : bseq'[x] = bseq[x]
  BY Zenon DEF IInv, TlbTypeOK, request_tlb_shootdown
<1>3. Owing(b)' = Cpus
  BY Zenon, <1>2 DEF IInv, NotAhead, Owing, request_tlb_shootdown
<1>4. \A x \in Blocks \ {b} : Owing(x)' = Owing(x)
  BY Zenon, <1>2 DEF Owing, request_tlb_shootdown
<1>. QED
  BY Zenon, <1>1, <1>3, <1>4

\* request_tlb_shootdown preserves it.
LEMMA RequestIInv ==
  ASSUME IInv, NEW b \in Blocks, b \notin Queued, request_tlb_shootdown(b)
  PROVE  IInv'
<1>. USE DEF IInv
<1>1. NumCpus \in Nat
  BY Zenon, FS_CardinalityType, TlbAssumption DEF NumCpus
<1>2. TlbTypeOK'
  BY <1>1 DEF TlbTypeOK, request_tlb_shootdown
<1>3. QueueOrdered'
  <2>1. /\ Len(reqs) \in Nat /\ Len(reqs') = Len(reqs) + 1
        /\ \A i \in 1..Len(reqs) : /\ reqs'[i] = reqs[i]
                                   /\ reqs[i] \in Blocks \ {b}
        /\ reqs'[Len(reqs) + 1] = b
    BY DEF TlbTypeOK, request_tlb_shootdown, Queued
  <2>2. bseq'[b] = nextSeq /\ \A x \in Blocks \ {b} : bseq'[x] = bseq[x]
    BY Zenon DEF TlbTypeOK, request_tlb_shootdown
  <2>3. \A x \in Blocks : bseq[x] < nextSeq
    BY Zenon DEF QueueOrdered
  <2>4. nextSeq' = nextSeq + 1 /\ nextSeq \in Nat
    BY Zenon DEF TlbTypeOK, request_tlb_shootdown
  <2>5. \A x \in Blocks : bseq[x] \in Nat
    BY Zenon DEF TlbTypeOK
  <2>6. \A x \in Blocks : bseq'[x] < nextSeq'
    BY <2>2, <2>3, <2>4, <2>5
  <2>7. ASSUME NEW i \in 1..Len(reqs'), NEW j \in 1..Len(reqs'), i < j
        PROVE  bseq'[reqs'[i]] < bseq'[reqs'[j]]
    <3>1. i \in 1..Len(reqs) /\ bseq'[reqs'[i]] = bseq[reqs[i]]
      BY <2>1, <2>2, <2>7
    <3>2. CASE j = Len(reqs) + 1
      BY Zenon, <2>1, <2>2, <2>3, <3>1, <3>2
    <3>3. CASE j \in 1..Len(reqs)
      BY Zenon, <2>1, <2>2, <2>7, <3>1, <3>3 DEF QueueOrdered
    <3>. QED
      BY <2>1, <3>2, <3>3
  <2>. QED
    BY Zenon, <2>6, <2>7 DEF QueueOrdered
<1>4. AcksExact'
  <2>. SUFFICES ASSUME NEW x \in Blocks
                PROVE  IF x \in Queued' THEN waitAcks'[x] = Cardinality(Owing(x)')
                                        ELSE Owing(x)' = {}
    BY Zenon DEF AcksExact
  <2>1. CASE x = b
    BY Zenon, <2>1, RequestOwing DEF TlbTypeOK, request_tlb_shootdown, NumCpus
  <2>2. CASE x # b
    <3>1. waitAcks'[x] = waitAcks[x] /\ Owing(x)' = Owing(x)
      BY Zenon, <2>2, RequestOwing DEF TlbTypeOK, request_tlb_shootdown
    <3>2. x \in Queued' <=> x \in Queued
      BY Zenon, <2>2, RequestOwing
    <3>. QED
      BY Zenon, <3>1, <3>2 DEF AcksExact
  <2>. QED
    BY Zenon, <2>1, <2>2
<1>5. NotAhead'
  BY DEF TlbTypeOK, NotAhead, request_tlb_shootdown
<1>. QED
  BY Zenon, <1>2, <1>3, <1>4, <1>5

\* Servicing pays what one CPU owes, for every block at once.
LEMMA ServiceOwing ==
  ASSUME IInv, NEW c \in Cpus, service_ack(c)
  PROVE  /\ Queued' = Queued
         /\ mySeq'[c] \in Nat /\ mySeq'[c] < nextSeq
         /\ \A x \in Blocks : Owing(x)' = Owing(x) \ {c}
         /\ \A x \in Queued : c \in Owing(x) <=> x \in Unseen(c)
<1>. USE DEF IInv
<1>. DEFINE last == bseq[reqs[Len(reqs)]]
<1>1. Queued' = Queued /\ bseq' = bseq
  BY Zenon DEF service_ack, Queued
<1>2. Queued \subseteq Blocks
  BY Zenon, QueuedBlocks
<1>3. \A x \in Queued : c \in Owing(x) <=> x \in Unseen(c)
  BY Zenon DEF Owing, Unseen
<1>4. \A d \in Cpus \ {c} : mySeq'[d] = mySeq[d]
  BY Zenon DEF TlbTypeOK, service_ack
<1>5. CASE Unseen(c) = {}
  <2>1. mySeq'[c] = mySeq[c]
    BY Zenon, <1>5 DEF TlbTypeOK, service_ack
  <2>2. \A x \in Blocks : c \notin Owing(x)
    BY Zenon, <1>3, <1>5 DEF AcksExact
  <2>3. \A x \in Blocks : Owing(x)' = Owing(x)
    BY Zenon, <1>1, <1>4, <2>1 DEF Owing
  <2>. QED
    BY Zenon, <1>1, <1>3, <2>1, <2>2, <2>3 DEF TlbTypeOK, NotAhead
<1>6. CASE Unseen(c) # {}
  <2>1. mySeq'[c] = last
    BY Zenon, <1>6 DEF TlbTypeOK, service_ack
  <2>2. reqs # <<>>
    BY <1>6 DEF Unseen, Queued
  <2>3. reqs[Len(reqs)] \in Queued /\ \A x \in Queued : bseq[x] <= last
    BY Zenon, <2>2, NewestLast
  <2>4. last \in Nat /\ last < nextSeq
    BY Zenon, <1>2, <2>3 DEF TlbTypeOK, QueueOrdered
  <2>5. ASSUME NEW x \in Blocks PROVE Owing(x)' = Owing(x) \ {c}
    <3>1. c \notin Owing(x)'
      <4>1. CASE x \in Queued
        BY <1>1, <2>1, <2>3, <2>4, <4>1 DEF Owing, TlbTypeOK
      <4>2. CASE x \notin Queued
        <5>1. bseq[x] <= mySeq[c]
          <6>1. c \notin Owing(x)
            BY Zenon, <4>2 DEF AcksExact
          <6>2. mySeq[c] \in Nat /\ bseq[x] \in Nat
            BY Zenon DEF TlbTypeOK
          <6>. QED
            BY <6>1, <6>2 DEF Owing
        <5>2. mySeq[c] < last
          <6>1. PICK y \in Queued : mySeq[c] < bseq[y]
            BY Zenon, <1>6 DEF Unseen
          <6>. QED
            BY <1>2, <2>3, <2>4, <6>1 DEF TlbTypeOK
        <5>. QED
          BY <1>1, <2>1, <2>4, <5>1, <5>2 DEF Owing, TlbTypeOK
      <4>. QED
        BY Zenon, <4>1, <4>2
    <3>. QED
      BY <1>1, <1>4, <3>1 DEF Owing
  <2>. QED
    BY Zenon, <1>1, <1>3, <2>1, <2>4, <2>5
<1>. QED
  BY Zenon, <1>5, <1>6

\* The first loop of service_tlb_shootdown_requests preserves it.
LEMMA ServiceIInv ==
  ASSUME IInv, NEW c \in Cpus, service_ack(c)
  PROVE  IInv'
<1>. USE DEF IInv
<1>1. ASSUME NEW x \in Blocks
      PROVE  /\ waitAcks'[x] \in Nat
             /\ IF x \in Queued' THEN waitAcks'[x] = Cardinality(Owing(x)')
                                 ELSE Owing(x)' = {}
  <2>1. Queued' = Queued /\ Owing(x)' = Owing(x) \ {c}
    BY Zenon, ServiceOwing
  <2>2. /\ IsFiniteSet(Owing(x)) /\ Cardinality(Owing(x)) \in Nat
        /\ Cardinality(Owing(x) \ {c}) \in Nat
    BY Zenon, OwingFinite, FS_CardinalityType, FS_RemoveElement
  <2>3. Cardinality(Owing(x) \ {c}) =
          IF c \in Owing(x) THEN Cardinality(Owing(x)) - 1
                            ELSE Cardinality(Owing(x))
    BY Zenon, <2>2, FS_RemoveElement
  <2>4. waitAcks'[x] = IF x \in Unseen(c) THEN waitAcks[x] - 1 ELSE waitAcks[x]
    BY Zenon DEF service_ack
  <2>5. CASE x \in Queued
    BY Zenon, <2>1, <2>2, <2>3, <2>4, <2>5, ServiceOwing DEF AcksExact
  <2>6. CASE x \notin Queued
    <3>1. x \notin Unseen(c)
      BY Zenon, <2>6 DEF Unseen
    <3>. QED
      BY Zenon, <2>1, <2>4, <2>6, <3>1 DEF AcksExact, TlbTypeOK
  <2>. QED
    BY Zenon, <2>5, <2>6
<1>2. AcksExact'
  BY Zenon, <1>1 DEF AcksExact
<1>3. \A d \in Cpus : mySeq'[d] \in Nat /\ mySeq'[d] < nextSeq
  <2>1. \A d \in Cpus \ {c} : mySeq'[d] = mySeq[d]
    BY Zenon DEF TlbTypeOK, service_ack
  <2>. QED
    BY Zenon, <2>1, ServiceOwing DEF TlbTypeOK, NotAhead
<1>4. TlbTypeOK'
  <2>1. waitAcks' \in [Blocks -> Nat]
    BY Zenon, <1>1 DEF service_ack
  <2>2. mySeq' \in [Cpus -> Nat]
    BY Zenon, <1>3 DEF service_ack, TlbTypeOK
  <2>. QED
    BY Zenon, <2>1, <2>2 DEF TlbTypeOK, service_ack
<1>5. QueueOrdered'
  BY Zenon DEF QueueOrdered, service_ack
<1>6. NotAhead'
  BY Zenon, <1>3 DEF NotAhead, service_ack
<1>. QED
  BY Zenon, <1>2, <1>4, <1>5, <1>6

\* A request that leaves the queue has been serviced by every CPU.
LEMMA PopOwing ==
  ASSUME IInv, NEW b \in Blocks, service_pop(b)
  PROVE  /\ b \in Queued /\ Queued' = Queued \ {b}
         /\ Owing(b) = {}
         /\ \A x \in Blocks : Owing(x)' = Owing(x)
<1>. USE DEF IInv
<1>1. Queued' = Queued \ {b}
  BY Zenon, QueuedTail DEF service_pop, FrontDone
<1>2. b \in Queued
  BY DEF service_pop, FrontDone, TlbTypeOK, Queued
<1>3. Cardinality(Owing(b)) = 0
  BY Zenon, <1>2 DEF AcksExact, service_pop, FrontDone
<1>4. Owing(b) = {}
  BY Zenon, <1>3, OwingFinite, FS_EmptySet
<1>5. \A x \in Blocks : Owing(x)' = Owing(x)
  BY Zenon DEF service_pop, Owing
<1>. QED
  BY Zenon, <1>1, <1>2, <1>4, <1>5

\* A round of its second loop preserves it.
LEMMA PopIInv ==
  ASSUME IInv, NEW b \in Blocks, service_pop(b)
  PROVE  IInv'
<1>. USE DEF IInv
<1>1. TlbTypeOK' /\ NotAhead'
  BY DEF TlbTypeOK, NotAhead, service_pop, FrontDone
<1>2. QueueOrdered'
  <2>1. /\ Len(reqs) \in Nat \ {0}
        /\ Len(reqs') = Len(reqs) - 1
        /\ \A i \in 1..Len(reqs') : reqs'[i] = reqs[i + 1]
    BY DEF TlbTypeOK, service_pop, FrontDone
  <2>2. bseq' = bseq /\ nextSeq' = nextSeq
    BY Zenon DEF service_pop
  <2>3. ASSUME NEW i \in 1..Len(reqs'), NEW j \in 1..Len(reqs'), i < j
        PROVE  bseq'[reqs'[i]] < bseq'[reqs'[j]]
    <3>1. i + 1 \in 1..Len(reqs) /\ j + 1 \in 1..Len(reqs) /\ i + 1 < j + 1
      BY <2>1, <2>3
    <3>2. bseq[reqs[i + 1]] < bseq[reqs[j + 1]]
      BY Zenon, <3>1 DEF QueueOrdered
    <3>. QED
      BY Zenon, <2>1, <2>2, <3>2
  <2>. QED
    BY Zenon, <2>2, <2>3 DEF QueueOrdered
<1>3. AcksExact'
  BY Zenon, PopOwing DEF AcksExact, service_pop
<1>. QED
  BY Zenon, <1>1, <1>2, <1>3

\* So does a step that changes nothing,
LEMMA StutterIInv == IInv /\ UNCHANGED tlbVars => IInv'
  BY Zenon DEF IInv, TlbTypeOK, QueueOrdered, AcksExact, NotAhead, tlbVars, Queued,
         Owing

\* and so every step of the queue.
LEMMA NextIInv == IInv /\ [TlbNext]_tlbVars => IInv'
  BY Zenon, RequestIInv, ServiceIInv, PopIInv, StutterIInv DEF TlbNext

-----------------------------------------------------------------------------

\* The inductive invariant holds in every reachable state of the queue.
THEOREM Invariance == TlbSpec => []IInv
  BY InitIInv, NextIInv, PTL DEF TlbSpec

\* wait_acks counts the CPUs that still have to service the request, for any
\* number of CPUs, blocks and requests.
THEOREM AcksAreExact == TlbSpec => [](TlbTypeOK /\ AcksExact)
<1>1. IInv => TlbTypeOK /\ AcksExact
  BY Zenon DEF IInv
<1>. QED
  BY Invariance, <1>1, PTL

\* tlb_shootdown_reqs is always in the order of the sequence numbers.
THEOREM QueueIsOrdered == TlbSpec => []QueueOrdered
<1>1. IInv => QueueOrdered
  BY Zenon DEF IInv
<1>. QED
  BY Invariance, <1>1, PTL

\* Every step of the queue is a step of the promise, or leaves it unchanged.
LEMMA StepPromise ==
  ASSUME IInv, [TlbNext]_tlbVars
  PROVE  [Promise!Next]_(Promise!vars)
<1>. DEFINE owed == [b \in Blocks |-> Owing(b)]
<1>1. ASSUME NEW b \in Blocks, b \notin Queued, request_tlb_shootdown(b)
      PROVE  Promise!Request(b)
  <2>1. Queued' = Queued \cup {b}
    BY Zenon, <1>1, RequestOwing
  <2>2. owed' = [owed EXCEPT ![b] = Cpus]
    <3>1. owed' = [x \in Blocks |-> IF x = b THEN Cpus ELSE Owing(x)]
      BY Zenon, <1>1, RequestOwing
    <3>. QED
      BY Zenon, <3>1
  <2>. QED
    BY Zenon, <1>1, <2>1, <2>2 DEF Promise!Request
<1>2. ASSUME NEW c \in Cpus, service_ack(c)
      PROVE  Promise!Service(c)
  <2>1. Queued' = Queued
    BY Zenon, <1>2, ServiceOwing
  <2>2. owed' = [b \in Blocks |-> owed[b] \ {c}]
    <3>1. owed' = [b \in Blocks |-> Owing(b) \ {c}]
      BY Zenon, <1>2, ServiceOwing
    <3>. QED
      BY Zenon, <3>1
  <2>. QED
    BY Zenon, <2>1, <2>2 DEF Promise!Service
<1>3. ASSUME NEW b \in Blocks, service_pop(b)
      PROVE  Promise!Complete(b)
  <2>1. b \in Queued /\ Queued' = Queued \ {b} /\ owed[b] = {}
    BY Zenon, <1>3, PopOwing
  <2>2. owed' = owed
    BY Zenon, <1>3, PopOwing
  <2>. QED
    BY Zenon, <2>1, <2>2 DEF Promise!Complete
<1>4. ASSUME UNCHANGED tlbVars
      PROVE  UNCHANGED Promise!vars
  BY Zenon, <1>4 DEF Promise!vars, tlbVars, Queued, Owing
<1>. QED
  BY Zenon, <1>1, <1>2, <1>3, <1>4 DEF TlbNext, Promise!Next

\* The queue with its counters and sequence numbers implements the promise
\* made to the VM block manager: a request is completed only after every CPU
\* has run service_tlb_shootdown_requests since it was made.
THEOREM Implementation == TlbSpec => ShootdownPromise
<1>1. TlbInit => Promise!Init
  BY DEF TlbInit, Promise!Init, Queued, Owing
<1>2. IInv /\ [TlbNext]_tlbVars => [Promise!Next]_(Promise!vars)
  BY Zenon, StepPromise
<1>. QED
  BY Invariance, <1>1, <1>2, PTL DEF TlbSpec, ShootdownPromise, Promise!Spec

-----------------------------------------------------------------------------
\* The blocks.

Labels == {"user", "service", "flush", "drain", "draining", "handler", "insert",
           "sanit", "request", "panic"}

VmTypeOK ==
  /\ online = Cpus \/ \E c \in Cpus : online = {c}
  /\ asid \in BOOLEAN
  /\ pc \in [Cpus -> Labels]
  /\ op \in [Cpus -> {"none", "fault", "alloc", "free", "other"}]
  /\ arg \in [Cpus -> Blocks \cup {NoBlock}]
  /\ avail \subseteq Blocks /\ inuse \subseteq Blocks /\ sanitMapped \subseteq Blocks
  /\ sanitUnmapped \in Seq(Blocks)
  /\ pte \in [Blocks -> Pages \cup {NoPage}]
  /\ tlb \in [Cpus -> SUBSET (Blocks \X Pages)]
  /\ freePages \subseteq Pages
  /\ cleaner \in [at : {"pop", "unmap", "pfree", "avail", "dec"},
                  b : Blocks \cup {NoBlock}, page : Pages \cup {NoPage}]

Unmapped == {sanitUnmapped[i] : i \in 1..Len(sanitUnmapped)}

\* The blocks that are on no list, in the hands of a CPU or of the cleaner.
Held(c) == IF pc[c] \in {"insert", "sanit"} THEN {arg[c]} ELSE {}
Cleaned == IF cleaner.at \in {"unmap", "pfree", "avail"} THEN {cleaner.b} ELSE {}

\* A block is in one place.
Apart ==
  /\ avail \cap inuse = {} /\ avail \cap sanitMapped = {} /\ avail \cap Unmapped = {}
  /\ inuse \cap sanitMapped = {} /\ inuse \cap Unmapped = {}
  /\ sanitMapped \cap Unmapped = {}
  /\ Cleaned \cap (avail \cup inuse \cup sanitMapped \cup Unmapped) = {}
  /\ \A c \in Cpus :
       /\ Held(c) \cap (avail \cup inuse \cup sanitMapped \cup Unmapped \cup Cleaned) = {}
       /\ \A d \in Cpus : c # d => Held(c) \cap Held(d) = {}
  /\ \A i, j \in 1..Len(sanitUnmapped) : sanitUnmapped[i] = sanitUnmapped[j] => i = j

\* What a CPU is doing, and to which block.
Doing ==
  /\ NoBlock \notin Cleaned
  /\ \A c \in Cpus :
       /\ pc[c] \in {"insert", "sanit", "request"} => arg[c] \in Blocks
       /\ pc[c] = "insert" => op[c] = "alloc"
       /\ pc[c] \in {"sanit", "request"} => op[c] = "free"
       /\ pc[c] \in {"user", "panic"} => op[c] # "free"
       /\ pc[c] = "request" => arg[c] \in sanitMapped /\ arg[c] \notin Queued
       /\ op[c] = "free" =>
            /\ pc[c] \notin {"sanit", "request"} => arg[c] \in inuse
            /\ \A d \in Cpus : op[d] = "free" /\ arg[c] = arg[d] => c = d
  /\ Queued \subseteq sanitMapped

\* A page is free, mapped once, or in the hands of the cleaner; a block that
\* is not on its way from inuse to the cleaner's unmap has none.
PagesApart ==
  /\ \A b \in Blocks : pte[b] \notin freePages
  /\ \A a, b \in Blocks : pte[a] = pte[b] /\ pte[a] # NoPage => a = b
  /\ cleaner.page # NoPage => /\ cleaner.page \notin freePages
                              /\ \A b \in Blocks : pte[b] # cleaner.page
  /\ cleaner.page # NoPage => cleaner.at = "pfree"
  /\ \A b \in avail : pte[b] = NoPage
  /\ \A c \in Cpus : pc[c] = "insert" => pte[arg[c]] = NoPage
  /\ cleaner.at \in {"pfree", "avail"} => pte[cleaner.b] = NoPage

\* A translation that a CPU may use.
Usable(c, e) ==
  /\ pte[e[1]] = e[2]
  /\ \/ e[1] \in inuse \cup sanitMapped
     \/ \E d \in Cpus : pc[d] = "sanit" /\ e[1] = arg[d]
  /\ e[1] \in Queued => c \in Owing(e[1])

\* A TLB that loads no translation of a block being freed has only such.
CachesRight ==
  ~LateFill =>
    /\ \A c \in Cpus : pc[c] # "flush" => \A e \in tlb[c] : Usable(c, e)
    /\ \A c \in Cpus \ online : tlb[c] = {}

ActiveExact ==
  active = Cardinality(Blocks \ avail) + (IF cleaner.at = "dec" THEN 1 ELSE 0)

VInv == IInv /\ VmTypeOK /\ Apart /\ Doing /\ PagesApart /\ CachesRight /\ ActiveExact
-----------------------------------------------------------------------------

\* A step that leaves the queue alone.
LEMMA QueueStill ==
  ASSUME IInv, UNCHANGED tlbVars
  PROVE  IInv' /\ Queued' = Queued /\ \A b : Owing(b)' = Owing(b)
  BY Zenon, StutterIInv DEF tlbVars, Queued, Owing

\* A step that leaves the lists, and so what is on sanit_unmapped, alone.
LEMMA ListsStill ==
  ASSUME UNCHANGED listVars
  PROVE  UNCHANGED <<avail, inuse, sanitMapped, sanitUnmapped, active, Unmapped>>
  BY Zenon DEF listVars, Unmapped

LEMMA VInit == Init => VInv
<1>. SUFFICES ASSUME Init PROVE VInv
  BY Zenon
<1>1. IInv /\ Queued = {}
  BY InitIInv DEF Init, TlbInit, Queued
<1>2. VmTypeOK
  BY VmAssumption DEF Init, VmTypeOK, Labels
<1>3. Unmapped = {} /\ Cleaned = {} /\ \A c \in Cpus : Held(c) = {}
  BY DEF Init, Unmapped, Cleaned, Held
<1>4. Apart /\ Doing
  BY <1>1, <1>3 DEF Init, Apart, Doing
<1>5. PagesApart /\ CachesRight
  BY Zenon, VmAssumption DEF Init, PagesApart, CachesRight
<1>6. ActiveExact
  <2>1. Blocks \ avail = {} /\ cleaner.at = "pop" /\ active = 0
    BY Zenon DEF Init
  <2>. QED
    BY <2>1, FS_EmptySet DEF ActiveExact
<1>. QED
  BY Zenon, <1>1, <1>2, <1>4, <1>5, <1>6 DEF VInv

-----------------------------------------------------------------------------
\* User mode.

LEMMA FillStep ==
  ASSUME VInv, NEW c \in Cpus, c \in online, UNCHANGED machine,
         NEW b \in Blocks, Fill(c, b)
  PROVE  VInv'
<1>. USE DEF VInv, machine
<1>1. IInv' /\ Queued' = Queued /\ \A x : Owing(x)' = Owing(x)
  BY Zenon, QueueStill DEF Fill
<1>2. UNCHANGED <<avail, inuse, sanitMapped, sanitUnmapped, active, Unmapped>>
  BY Zenon, ListsStill DEF Fill
<1>3. UNCHANGED <<pc, op, arg, pte, freePages, cleaner, online, asid>>
  BY Zenon DEF Fill
<1>4. pte[b] \in Pages /\ tlb' = [tlb EXCEPT ![c] = @ \cup {<<b, pte[b]>>}]
  BY Zenon DEF Fill, VmTypeOK
<1>5. VmTypeOK'
  BY <1>2, <1>3, <1>4 DEF VmTypeOK
<1>6. Apart' /\ Doing' /\ PagesApart' /\ ActiveExact'
  BY <1>1, <1>2, <1>3 DEF Apart, Doing, PagesApart, ActiveExact, Held, Cleaned
<1>7. ~LateFill => Usable(c, <<b, pte[b]>>)
  BY Zenon, <1>1 DEF Fill, Usable, Doing, Apart
<1>8. CachesRight'
  <2>. SUFFICES ASSUME ~LateFill PROVE CachesRight'
    BY Zenon DEF CachesRight
  <2>1. \A d \in Cpus : \A e : Usable(d, e)' <=> Usable(d, e)
    BY Zenon, <1>1, <1>2, <1>3 DEF Usable
  <2>. QED
    BY <1>3, <1>4, <1>7, <2>1 DEF CachesRight, VmTypeOK
<1>. QED
  BY Zenon, <1>1, <1>5, <1>6, <1>8

-----------------------------------------------------------------------------

\* A step of a CPU that holds no block before it or after it, that changes no
\* list and no mapping, and after which the CPU frees only a block in use that
\* no other CPU is freeing.
LEMMA MoveStep ==
  ASSUME VInv, NEW c \in Cpus,
         UNCHANGED <<machine, tlbVars, listVars, pte, tlb, cleaner>>,
         freePages' \subseteq freePages,
         NEW l \in {"user", "service", "drain", "draining", "handler", "panic"},
         NEW o \in {"none", "fault", "alloc", "free", "other"},
         NEW b \in Blocks \cup {NoBlock},
         pc[c] \notin {"flush", "insert", "sanit", "request"},
         pc' = [pc EXCEPT ![c] = l],
         op' = [op EXCEPT ![c] = o],
         arg' = [arg EXCEPT ![c] = b],
         o = "free" => /\ l \notin {"user", "panic"} /\ b \in inuse
                       /\ \A d \in Cpus \ {c} : ~(op[d] = "free" /\ arg[d] = b)
  PROVE  VInv'
<1>. USE DEF VInv, machine
<1>1. IInv' /\ Queued' = Queued /\ \A x : Owing(x)' = Owing(x)
  BY Zenon, QueueStill
<1>2. UNCHANGED <<avail, inuse, sanitMapped, sanitUnmapped, active, Unmapped>>
  BY Zenon, ListsStill
<1>3. VmTypeOK'
  BY Zenon, <1>2 DEF VmTypeOK, Labels
<1>4. Cleaned' = Cleaned /\ \A d \in Cpus : Held(d)' = Held(d)
  BY Zenon DEF Cleaned, Held, VmTypeOK
<1>5. Apart'
  BY Zenon, <1>2, <1>4 DEF Apart
<1>6. Doing'
  BY <1>1, <1>2, <1>4 DEF Doing, VmTypeOK
<1>7. PagesApart' /\ ActiveExact'
  BY Zenon, <1>2 DEF PagesApart, ActiveExact, VmTypeOK
<1>8. CachesRight'
  <2>. SUFFICES ASSUME ~LateFill PROVE CachesRight'
    BY Zenon DEF CachesRight
  <2>1. \A d \in Cpus : \A e : Usable(d, e) => Usable(d, e)'
    BY Zenon, <1>1, <1>2 DEF Usable, VmTypeOK
  <2>. QED
    BY Zenon, <2>1 DEF CachesRight, VmTypeOK
<1>. QED
  BY Zenon, <1>1, <1>3, <1>5, <1>6, <1>7, <1>8

\* Every entry into the kernel.
LEMMA EnterStep ==
  ASSUME VInv, NEW c \in Cpus, UNCHANGED machine, Enter(c)
  PROVE  VInv'
<1>1. ASSUME NEW o \in {"fault", "alloc", "free", "other"},
             NEW b \in Blocks \cup {NoBlock}, Trap(c, o, b),
             o = "free" => b \in inuse /\ ~BeingFreed(b)
      PROVE  VInv'
  BY <1>1, MoveStep, Zenon DEF Trap, At, To, BeingFreed, mapVars
<1>2. inuse \subseteq Blocks
  BY Zenon DEF VInv, VmTypeOK
<1>. QED
  BY Zenon, <1>1, <1>2 DEF Enter

-----------------------------------------------------------------------------
\* service_tlb_shootdown_requests.

\* The first loop.  With ASIDs the CPU forgets what it acknowledges, so what
\* it keeps for a queued block it has still to acknowledge: nothing.
LEMMA ServiceStep ==
  ASSUME VInv, NEW c \in Cpus, c \in online, UNCHANGED machine, Service(c)
  PROVE  VInv'
<1>. USE DEF VInv, machine
<1>1. service_ack(c)
  BY Zenon DEF Service
<1>2. /\ IInv' /\ Queued' = Queued
      /\ \A x \in Blocks : Owing(x)' = Owing(x) \ {c}
      /\ \A x \in Queued : c \in Owing(x) <=> x \in Unseen(c)
  BY Zenon, <1>1, ServiceOwing, ServiceIInv
<1>3. UNCHANGED <<avail, inuse, sanitMapped, sanitUnmapped, active, Unmapped>>
  BY Zenon, ListsStill DEF Service
<1>4. UNCHANGED <<op, arg, pte, freePages, cleaner, online, asid>>
  BY Zenon DEF Service
<1>5. /\ pc[c] = "service"
      /\ pc' = [pc EXCEPT ![c] = IF asid THEN "drain" ELSE "flush"]
      /\ tlb' = IF asid
                THEN [tlb EXCEPT ![c] = {e \in @ : e[1] \notin Unseen(c)}]
                ELSE tlb
  BY Zenon DEF Service, At, To, Forget
<1>6. VmTypeOK'
  BY Zenon, <1>3, <1>4, <1>5 DEF VmTypeOK, Labels
<1>7. Cleaned' = Cleaned /\ \A d \in Cpus : Held(d)' = Held(d)
  BY Zenon, <1>4, <1>5 DEF Cleaned, Held, VmTypeOK
<1>8. Apart'
  BY Zenon, <1>3, <1>7 DEF Apart
<1>9. Doing'
  BY Zenon, <1>2, <1>3, <1>4, <1>5, <1>7 DEF Doing, VmTypeOK
<1>10. PagesApart' /\ ActiveExact'
  BY Zenon, <1>3, <1>4, <1>5 DEF PagesApart, ActiveExact, VmTypeOK
<1>11. CachesRight'
  <2>. SUFFICES ASSUME ~LateFill PROVE CachesRight'
    BY Zenon DEF CachesRight
  <2>1. ASSUME NEW d \in Cpus, pc'[d] # "flush", NEW e \in tlb'[d]
        PROVE  Usable(d, e)'
    <3>1. e \in tlb[d] /\ pc[d] # "flush" /\ e \in Blocks \X Pages
      BY Zenon, <1>5, <2>1 DEF VmTypeOK
    <3>2. d = c => e[1] \notin Unseen(c)
      BY Zenon, <1>5, <2>1 DEF VmTypeOK
    <3>3. Usable(d, e) /\ e[1] \in Blocks
      BY Zenon, <3>1 DEF CachesRight
    <3>4. e[1] \in Queued' => d \in Owing(e[1])'
      BY Zenon, <1>2, <3>2, <3>3 DEF Usable
    <3>. QED
      BY Zenon, <1>3, <1>4, <1>5, <3>3, <3>4 DEF Usable, VmTypeOK
  <2>2. \A d \in Cpus \ online : tlb'[d] = {}
    BY Zenon, <1>4, <1>5 DEF CachesRight, VmTypeOK
  <2>. QED
    BY Zenon, <1>4, <2>1, <2>2 DEF CachesRight
<1>. QED
  BY Zenon, <1>2, <1>6, <1>8, <1>9, <1>10, <1>11

LEMMA FlushStep ==
  ASSUME VInv, NEW c \in Cpus, UNCHANGED machine, Flush(c)
  PROVE  VInv'
<1>. USE DEF VInv, machine
<1>1. IInv' /\ Queued' = Queued /\ \A x : Owing(x)' = Owing(x)
  BY Zenon, QueueStill DEF Flush
<1>2. UNCHANGED <<avail, inuse, sanitMapped, sanitUnmapped, active, Unmapped>>
  BY Zenon, ListsStill DEF Flush
<1>3. UNCHANGED <<op, arg, pte, freePages, cleaner, online, asid>>
  BY Zenon DEF Flush
<1>4. pc[c] = "flush" /\ pc' = [pc EXCEPT ![c] = "drain"]
  BY Zenon DEF Flush, At, To
<1>5. tlb' = [tlb EXCEPT ![c] = {}]
  <2>1. {e \in tlb[c] : e[1] \notin Blocks} = {}
    BY DEF VmTypeOK
  <2>. QED
    BY <2>1, Zenon DEF Flush, Forget
<1>6. VmTypeOK'
  BY Zenon, <1>2, <1>3, <1>4, <1>5 DEF VmTypeOK, Labels
<1>7. Cleaned' = Cleaned /\ \A d \in Cpus : Held(d)' = Held(d)
  BY Zenon, <1>3, <1>4 DEF Cleaned, Held, VmTypeOK
<1>8. Apart'
  BY Zenon, <1>2, <1>7 DEF Apart
<1>9. Doing'
  BY Zenon, <1>1, <1>2, <1>3, <1>4, <1>7 DEF Doing, VmTypeOK
<1>10. PagesApart' /\ ActiveExact'
  BY Zenon, <1>2, <1>3, <1>4 DEF PagesApart, ActiveExact, VmTypeOK
<1>11. CachesRight'
  <2>. SUFFICES ASSUME ~LateFill PROVE CachesRight'
    BY Zenon DEF CachesRight
  <2>1. \A d \in Cpus : \A e : Usable(d, e) => Usable(d, e)'
    BY Zenon, <1>1, <1>2, <1>3, <1>4 DEF Usable, VmTypeOK
  <2>. QED
    BY Zenon, <1>3, <1>4, <1>5, <2>1 DEF CachesRight, VmTypeOK
<1>. QED
  BY Zenon, <1>1, <1>6, <1>8, <1>9, <1>10, <1>11

\* What vm_move_to_sanit_unmapped does to the list as a set.
LEMMA UnmappedAppend ==
  ASSUME sanitUnmapped \in Seq(Blocks), NEW b \in Blocks, b \notin Unmapped,
         sanitUnmapped' = Append(sanitUnmapped, b),
         \A i, j \in 1..Len(sanitUnmapped) :
           sanitUnmapped[i] = sanitUnmapped[j] => i = j
  PROVE  /\ Unmapped' = Unmapped \cup {b}
         /\ sanitUnmapped' \in Seq(Blocks)
         /\ \A i, j \in 1..Len(sanitUnmapped') :
              sanitUnmapped'[i] = sanitUnmapped'[j] => i = j
<1>1. Len(sanitUnmapped') = Len(sanitUnmapped) + 1 /\ Len(sanitUnmapped) \in Nat
  OBVIOUS
<1>2. \A i \in 1..Len(sanitUnmapped) : sanitUnmapped'[i] = sanitUnmapped[i]
  OBVIOUS
<1>3. sanitUnmapped'[Len(sanitUnmapped) + 1] = b
  OBVIOUS
<1>4. Unmapped' = Unmapped \cup {b}
  BY <1>1, <1>2, <1>3 DEF Unmapped
<1>5. \A i \in 1..Len(sanitUnmapped) : sanitUnmapped[i] # b
  BY Zenon DEF Unmapped
<1>. QED
  BY <1>1, <1>2, <1>3, <1>4, <1>5

\* The second loop.  A request that is done has no CPU left that owes it, so
\* no CPU that may still use a translation of its block.
LEMMA DrainStep ==
  ASSUME VInv, NEW c \in Cpus, UNCHANGED machine, Drain(c)
  PROVE  VInv'
<1>. USE DEF VInv, machine
<1>1. UNCHANGED <<op, arg, pte, tlb, freePages, cleaner, online, asid>>
  BY Zenon DEF Drain, mapVars
<1>2. pc[c] \in {"drain", "draining"}
  BY Zenon DEF Drain, At
<1>3. CASE FrontDone
  <2>1. PICK b \in Blocks : service_pop(b) /\ vm_move_to_sanit_unmapped(b)
    BY Zenon, <1>3 DEF Drain
  <2>2. /\ IInv' /\ b \in Queued /\ Queued' = Queued \ {b} /\ Owing(b) = {}
        /\ \A x \in Blocks : Owing(x)' = Owing(x)
    BY Zenon, <2>1, PopOwing, PopIInv
  <2>3. b \in sanitMapped /\ b \notin Unmapped
    BY Zenon, <2>2 DEF Doing, Apart
  <2>4. /\ sanitMapped' = sanitMapped \ {b}
        /\ UNCHANGED <<avail, inuse, active>>
        /\ Unmapped' = Unmapped \cup {b} /\ sanitUnmapped' \in Seq(Blocks)
        /\ \A i, j \in 1..Len(sanitUnmapped') :
             sanitUnmapped'[i] = sanitUnmapped'[j] => i = j
    BY Zenon, <2>1, <2>3, UnmappedAppend DEF vm_move_to_sanit_unmapped, VmTypeOK, Apart
  <2>5. pc' = [pc EXCEPT ![c] = "draining"]
    BY Zenon, <1>3 DEF Drain, To
  <2>6. VmTypeOK'
    BY Zenon, <1>1, <2>4, <2>5 DEF VmTypeOK, Labels
  <2>7. Cleaned' = Cleaned /\ \A d \in Cpus : Held(d)' = Held(d)
    BY Zenon, <1>1, <1>2, <2>5 DEF Cleaned, Held, VmTypeOK
  <2>8. Apart'
    BY <2>3, <2>4, <2>7 DEF Apart
  <2>9. Doing'
    BY Zenon, <1>1, <1>2, <2>2, <2>4, <2>5, <2>7 DEF Doing, VmTypeOK
  <2>10. PagesApart' /\ ActiveExact'
    BY Zenon, <1>1, <1>2, <2>4, <2>5 DEF PagesApart, ActiveExact, VmTypeOK
  <2>11. CachesRight'
    <3>. SUFFICES ASSUME ~LateFill PROVE CachesRight'
      BY Zenon DEF CachesRight
    <3>1. ASSUME NEW d \in Cpus, pc'[d] # "flush", NEW e \in tlb'[d]
          PROVE  Usable(d, e)'
      <4>1. e \in tlb[d] /\ pc[d] # "flush" /\ e[1] \in Blocks
        BY <1>1, <1>2, <2>5, <3>1 DEF VmTypeOK
      <4>2. Usable(d, e)
        BY Zenon, <4>1 DEF CachesRight
      <4>3. e[1] # b
        BY Zenon, <2>2, <4>2 DEF Usable
      <4>4. \A x \in Cpus : pc[x] = "sanit" => pc'[x] = "sanit"
        BY Zenon, <1>2, <2>5 DEF VmTypeOK
      <4>. QED
        BY Zenon, <1>1, <2>2, <2>4, <4>1, <4>2, <4>3, <4>4 DEF Usable
    <3>. QED
      BY <1>1, <3>1, Zenon DEF CachesRight
  <2>. QED
    BY Zenon, <2>2, <2>6, <2>8, <2>9, <2>10, <2>11
<1>4. CASE ~FrontDone
  <2>1. /\ pc' = [pc EXCEPT ![c] = "handler"]
        /\ UNCHANGED <<tlbVars, listVars>>
    BY Zenon, <1>4 DEF Drain, To
  <2>2. /\ op' = [op EXCEPT ![c] = op[c]] /\ arg' = [arg EXCEPT ![c] = arg[c]]
        /\ op[c] \in {"none", "fault", "alloc", "free", "other"}
        /\ arg[c] \in Blocks \cup {NoBlock}
    BY Zenon, <1>1 DEF VmTypeOK
  <2>3. op[c] = "free" =>
          /\ arg[c] \in inuse
          /\ \A d \in Cpus \ {c} : ~(op[d] = "free" /\ arg[d] = arg[c])
    BY <1>2, Zenon DEF Doing
  <2>. QED
    BY <1>1, <1>2, <2>1, <2>2, <2>3, MoveStep, ZenonT(30)
<1>. QED
  BY Zenon, <1>3, <1>4

-----------------------------------------------------------------------------
\* The handlers of vm_alloc, of page faults and of vm_free.

\* A handler that returns with nothing done.
LEMMA ReturnStep ==
  ASSUME VInv, NEW c \in Cpus, At(c, "handler"), Return(c),
         UNCHANGED <<machine, tlbVars, listVars, mapVars, cleaner>>
  PROVE  VInv'
  BY MoveStep, Zenon DEF Return, At, To, mapVars

\* vm_alloc: the block leaves avail_unmapped for the hands of the CPU, and is
\* counted.
LEMMA AllocStep ==
  ASSUME VInv, NEW c \in Cpus, UNCHANGED machine, vm_alloc(c)
  PROVE  VInv'
<1>. USE DEF VInv, machine
<1>1. CASE avail = {}
  BY Zenon, <1>1, ReturnStep DEF vm_alloc
<1>2. CASE avail # {}
  <2>1. PICK b \in avail : /\ avail' = avail \ {b}
                           /\ active' = active + 1
                           /\ arg' = [arg EXCEPT ![c] = b]
                           /\ pc' = [pc EXCEPT ![c] = "insert"]
                           /\ UNCHANGED <<op, inuse, sanitMapped, sanitUnmapped>>
    BY Zenon, <1>2 DEF vm_alloc, To
  <2>2. /\ pc[c] = "handler" /\ op[c] = "alloc"
        /\ UNCHANGED <<pte, tlb, freePages, cleaner, online, asid>>
    BY Zenon DEF vm_alloc, At, mapVars
  <2>3. IInv' /\ Queued' = Queued /\ \A x : Owing(x)' = Owing(x)
    BY Zenon, QueueStill DEF vm_alloc
  <2>4. Unmapped' = Unmapped /\ b \in Blocks
    BY Zenon, <2>1 DEF Unmapped, VmTypeOK
  <2>5. VmTypeOK'
    BY Zenon, <2>1, <2>2 DEF VmTypeOK, Labels
  <2>6. /\ Cleaned' = Cleaned
        /\ Held(c) = {} /\ Held(c)' = {b}
        /\ \A d \in Cpus \ {c} : Held(d)' = Held(d)
    BY Zenon, <2>1, <2>2 DEF Cleaned, Held, VmTypeOK
  <2>7. Apart'
    BY <2>1, <2>4, <2>6 DEF Apart
  <2>8. Doing'
    BY Zenon, <2>1, <2>2, <2>3, <2>4, <2>6 DEF Doing, VmTypeOK
  <2>9. PagesApart'
    BY Zenon, <2>1, <2>2 DEF PagesApart, VmTypeOK
  <2>10. ActiveExact'
    <3>1. Blocks \ avail' = (Blocks \ avail) \cup {b} /\ b \notin Blocks \ avail
      BY Zenon, <2>1, <2>4
    <3>2. IsFiniteSet(Blocks \ avail)
      BY Zenon, VmAssumption, FS_Subset
    <3>3. Cardinality(Blocks \ avail') = Cardinality(Blocks \ avail) + 1
      BY <3>1, <3>2, FS_AddElement, Zenon
    <3>4. Cardinality(Blocks \ avail) \in Nat
      BY Zenon, <3>2, FS_CardinalityType
    <3>. QED
      BY <2>1, <2>2, <3>3, <3>4 DEF ActiveExact
  <2>11. CachesRight'
    <3>. SUFFICES ASSUME ~LateFill PROVE CachesRight'
      BY Zenon DEF CachesRight
    <3>1. \A d \in Cpus : \A e : Usable(d, e) => Usable(d, e)'
      BY Zenon, <2>1, <2>2, <2>3 DEF Usable, VmTypeOK
    <3>. QED
      BY Zenon, <2>1, <2>2, <3>1 DEF CachesRight, VmTypeOK
  <2>. QED
    BY Zenon, <2>3, <2>5, <2>7, <2>8, <2>9, <2>10, <2>11
<1>. QED
  BY Zenon, <1>1, <1>2

\* Its end: from the hands of the CPU to inuse_mapped.
LEMMA InsertStep ==
  ASSUME VInv, NEW c \in Cpus, UNCHANGED machine, vm_alloc_insert(c)
  PROVE  VInv'
<1>. USE DEF VInv, machine
<1>1. /\ pc[c] = "insert" /\ inuse' = inuse \cup {arg[c]}
      /\ pc' = [pc EXCEPT ![c] = "user"]
      /\ op' = [op EXCEPT ![c] = "none"]
      /\ arg' = [arg EXCEPT ![c] = NoBlock]
      /\ UNCHANGED <<avail, sanitMapped, sanitUnmapped, active, pte, tlb,
                     freePages, cleaner, online, asid>>
  BY Zenon DEF vm_alloc_insert, At, To, Return, mapVars
<1>2. IInv' /\ Queued' = Queued /\ \A x : Owing(x)' = Owing(x)
  BY Zenon, QueueStill DEF vm_alloc_insert
<1>3. Unmapped' = Unmapped /\ arg[c] \in Blocks
  BY Zenon, <1>1 DEF Unmapped, Doing
<1>4. VmTypeOK'
  BY Zenon, <1>1, <1>3 DEF VmTypeOK, Labels
<1>5. /\ Cleaned' = Cleaned
      /\ Held(c) = {arg[c]} /\ Held(c)' = {}
      /\ \A d \in Cpus \ {c} : Held(d)' = Held(d)
  BY Zenon, <1>1 DEF Cleaned, Held, VmTypeOK
<1>6. Apart'
  BY <1>1, <1>3, <1>5 DEF Apart
<1>7. Doing'
  BY <1>1, <1>2, <1>3, <1>5 DEF Doing, VmTypeOK
<1>8. PagesApart' /\ ActiveExact'
  BY Zenon, <1>1 DEF PagesApart, VmTypeOK, ActiveExact
<1>9. CachesRight'
  <2>. SUFFICES ASSUME ~LateFill PROVE CachesRight'
    BY Zenon DEF CachesRight
  <2>1. \A d \in Cpus : \A e : Usable(d, e) => Usable(d, e)'
    BY Zenon, <1>1, <1>2 DEF Usable, VmTypeOK
  <2>. QED
    BY Zenon, <1>1, <2>1 DEF CachesRight, VmTypeOK
<1>. QED
  BY Zenon, <1>2, <1>4, <1>6, <1>7, <1>8, <1>9

\* vm_map: a free page becomes the block's, or is lost in the panic.  No CPU
\* has an old translation of a block without a page.
LEMMA MapStep ==
  ASSUME VInv, NEW c \in Cpus, UNCHANGED machine, vm_map(c)
  PROVE  VInv'
<1>. USE DEF VInv, machine
<1>. DEFINE b == arg[c]
<1>1. /\ pc[c] = "handler" /\ op[c] = "fault"
      /\ UNCHANGED <<tlb, cleaner, online, asid>>
  BY Zenon DEF vm_map, At
<1>2. IInv' /\ Queued' = Queued /\ \A x : Owing(x)' = Owing(x)
  BY Zenon, QueueStill DEF vm_map
<1>3. UNCHANGED <<avail, inuse, sanitMapped, sanitUnmapped, active, Unmapped>>
  BY Zenon, ListsStill DEF vm_map
<1>4. CASE b \notin inuse
  BY Zenon, <1>4, ReturnStep DEF vm_map, mapVars
<1>5. ASSUME b \in inuse, pte[b] # NoPage PROVE VInv'
  <2>1. /\ pc' = [pc EXCEPT ![c] = "panic"] /\ freePages' \subseteq freePages
        /\ UNCHANGED <<pte, op, arg>>
    BY Zenon, <1>5 DEF vm_map, To
  <2>2. /\ op' = [op EXCEPT ![c] = "fault"] /\ arg' = [arg EXCEPT ![c] = b]
        /\ b \in Blocks \cup {NoBlock}
    BY Zenon, <1>1, <2>1 DEF VmTypeOK
  <2>. QED
    BY <1>1, <2>1, <2>2, MoveStep, Zenon DEF vm_map
<1>6. ASSUME b \in inuse, pte[b] = NoPage PROVE VInv'
  <2>1. PICK p \in freePages : /\ freePages' = freePages \ {p}
                               /\ pte' = [pte EXCEPT ![b] = p]
                               /\ Return(c)
    BY Zenon, <1>6 DEF vm_map
  <2>2. /\ pc' = [pc EXCEPT ![c] = "user"]
        /\ op' = [op EXCEPT ![c] = "none"]
        /\ arg' = [arg EXCEPT ![c] = NoBlock]
    BY Zenon, <2>1 DEF Return, To
  <2>3. b \in Blocks /\ p \in Pages /\ p # NoPage
    BY Zenon, <1>6, <2>1, VmAssumption DEF VmTypeOK
  <2>4. VmTypeOK'
    BY Zenon, <1>1, <1>3, <2>1, <2>2, <2>3 DEF VmTypeOK, Labels
  <2>5. Cleaned' = Cleaned /\ \A d \in Cpus : Held(d)' = Held(d)
    BY <1>1, <2>2, Zenon DEF Cleaned, Held, VmTypeOK
  <2>6. Apart' /\ ActiveExact'
    BY Zenon, <1>1, <1>3, <2>5 DEF Apart, ActiveExact
  <2>7. Doing'
    BY <1>1, <1>2, <1>3, <2>2, <2>5 DEF Doing, VmTypeOK
  <2>8. PagesApart'
    <3>1. /\ b \notin avail
          /\ cleaner.at \in {"pfree", "avail"} => cleaner.b # b
          /\ \A d \in Cpus : pc[d] = "insert" => arg[d] # b
      BY Zenon, <1>6 DEF Apart, Cleaned, Held
    <3>2. pte'[b] = p /\ \A x \in Blocks \ {b} : pte'[x] = pte[x]
      BY Zenon, <2>1, <2>3 DEF VmTypeOK
    <3>3. /\ \A x \in Blocks : pte'[x] \notin freePages'
          /\ \A x, y \in Blocks : pte'[x] = pte'[y] /\ pte'[x] # NoPage => x = y
      BY <2>1, <2>3, <3>2 DEF PagesApart
    <3>4. cleaner.page # NoPage => /\ cleaner.page \notin freePages'
                                   /\ \A x \in Blocks : pte'[x] # cleaner.page
      BY Zenon, <2>1, <3>2 DEF PagesApart
    <3>5. \A x \in avail : pte'[x] = NoPage
      BY Zenon, <3>1, <3>2 DEF PagesApart, VmTypeOK
    <3>6. \A d \in Cpus : pc'[d] = "insert" => pte'[arg'[d]] = NoPage
      BY <1>1, <2>2, <3>1, <3>2 DEF PagesApart, VmTypeOK, Doing
    <3>7. cleaner.at \in {"pfree", "avail"} => cleaner.b \in Blocks
      BY Zenon DEF Doing, Cleaned, VmTypeOK
    <3>8. cleaner.at \in {"pfree", "avail"} => pte'[cleaner.b] = NoPage
      BY Zenon, <3>1, <3>2, <3>7 DEF PagesApart
    <3>. QED
      BY Zenon, <1>1, <1>3, <3>3, <3>4, <3>5, <3>6, <3>8 DEF PagesApart
  <2>9. CachesRight'
    <3>. SUFFICES ASSUME ~LateFill PROVE CachesRight'
      BY Zenon DEF CachesRight
    <3>1. ASSUME NEW d \in Cpus, pc'[d] # "flush", NEW e \in tlb'[d]
          PROVE  Usable(d, e)'
      <4>1. e \in tlb[d] /\ pc[d] # "flush" /\ e[1] \in Blocks /\ e[2] \in Pages
        BY <1>1, <2>2, <3>1 DEF VmTypeOK
      <4>2. Usable(d, e)
        BY Zenon, <4>1 DEF CachesRight
      <4>3. e[1] # b
        BY Zenon, <1>6, <4>1, <4>2, VmAssumption DEF Usable
      <4>4. pte'[e[1]] = pte[e[1]]
        BY Zenon, <2>1, <4>1, <4>3 DEF VmTypeOK
      <4>5. \A x \in Cpus : pc[x] = "sanit" => pc'[x] = "sanit" /\ arg'[x] = arg[x]
        BY Zenon, <1>1, <2>2 DEF VmTypeOK
      <4>. QED
        BY Zenon, <1>2, <1>3, <4>2, <4>4, <4>5 DEF Usable
    <3>. QED
      BY Zenon, <1>1, <3>1 DEF CachesRight
  <2>. QED
    BY Zenon, <1>2, <2>4, <2>6, <2>7, <2>8, <2>9
<1>. QED
  BY Zenon, <1>4, <1>5, <1>6

\* vm_free_block: from inuse_mapped to the hands of the CPU,
LEMMA FreeStep ==
  ASSUME VInv, NEW c \in Cpus, UNCHANGED machine, vm_free_block(c)
  PROVE  VInv'
<1>. USE DEF VInv, machine
<1>1. /\ pc[c] = "handler" /\ op[c] = "free"
      /\ inuse' = inuse \ {arg[c]}
      /\ pc' = [pc EXCEPT ![c] = "sanit"]
      /\ UNCHANGED <<op, arg, avail, sanitMapped, sanitUnmapped, active, pte, tlb,
                     freePages, cleaner, online, asid>>
  BY Zenon DEF vm_free_block, At, To, mapVars
<1>2. IInv' /\ Queued' = Queued /\ \A x : Owing(x)' = Owing(x)
  BY Zenon, QueueStill DEF vm_free_block
<1>3. Unmapped' = Unmapped /\ arg[c] \in inuse /\ arg[c] \in Blocks
  BY <1>1 DEF Unmapped, Doing, VmTypeOK
<1>4. VmTypeOK'
  BY Zenon, <1>1 DEF VmTypeOK, Labels
<1>5. /\ Cleaned' = Cleaned
      /\ Held(c) = {} /\ Held(c)' = {arg[c]}
      /\ \A d \in Cpus \ {c} : Held(d)' = Held(d)
  BY Zenon, <1>1 DEF Cleaned, Held, VmTypeOK
<1>6. Apart'
  BY <1>1, <1>3, <1>5 DEF Apart
<1>7. Doing'
  BY Zenon, <1>1, <1>2, <1>3, <1>5 DEF Doing, VmTypeOK
<1>8. PagesApart' /\ ActiveExact'
  BY Zenon, <1>1 DEF PagesApart, VmTypeOK, ActiveExact
<1>9. CachesRight'
  <2>. SUFFICES ASSUME ~LateFill PROVE CachesRight'
    BY Zenon DEF CachesRight
  <2>1. \A d \in Cpus : \A e : Usable(d, e) => Usable(d, e)'
    BY Zenon, <1>1, <1>2 DEF Usable, VmTypeOK
  <2>. QED
    BY Zenon, <1>1, <2>1 DEF CachesRight, VmTypeOK
<1>. QED
  BY Zenon, <1>2, <1>4, <1>6, <1>7, <1>8, <1>9

\* and from there to sanit_mapped.
LEMMA SanitStep ==
  ASSUME VInv, NEW c \in Cpus, UNCHANGED machine, vm_free_sanit(c)
  PROVE  VInv'
<1>. USE DEF VInv, machine
<1>1. /\ pc[c] = "sanit"
      /\ sanitMapped' = sanitMapped \cup {arg[c]}
      /\ pc' = [pc EXCEPT ![c] = "request"]
      /\ UNCHANGED <<op, arg, avail, inuse, sanitUnmapped, active, pte, tlb,
                     freePages, cleaner, online, asid>>
  BY Zenon DEF vm_free_sanit, At, To, mapVars
<1>2. IInv' /\ Queued' = Queued /\ \A x : Owing(x)' = Owing(x)
  BY Zenon, QueueStill DEF vm_free_sanit
<1>3. Unmapped' = Unmapped /\ arg[c] \in Blocks
  BY <1>1, Zenon DEF Unmapped, Doing
<1>4. VmTypeOK'
  BY Zenon, <1>1, <1>3 DEF VmTypeOK, Labels
<1>5. /\ Cleaned' = Cleaned
      /\ Held(c) = {arg[c]} /\ Held(c)' = {}
      /\ \A d \in Cpus \ {c} : Held(d)' = Held(d)
  BY Zenon, <1>1 DEF Cleaned, Held, VmTypeOK
<1>6. Apart'
  BY <1>1, <1>3, <1>5 DEF Apart
<1>7. Doing'
  <2>1. arg[c] \notin Queued
    BY Zenon, <1>5 DEF Apart, Doing
  <2>. QED
    BY Zenon, <1>1, <1>2, <1>3, <1>5, <2>1 DEF Doing, VmTypeOK
<1>8. PagesApart' /\ ActiveExact'
  BY Zenon, <1>1 DEF PagesApart, VmTypeOK, ActiveExact
<1>9. CachesRight'
  <2>. SUFFICES ASSUME ~LateFill PROVE CachesRight'
    BY Zenon DEF CachesRight
  <2>1. \A d \in Cpus : \A e : Usable(d, e) => Usable(d, e)'
    BY Zenon, <1>1, <1>2 DEF Usable, VmTypeOK
  <2>. QED
    BY Zenon, <1>1, <2>1 DEF CachesRight, VmTypeOK
<1>. QED
  BY Zenon, <1>2, <1>4, <1>6, <1>7, <1>8, <1>9

\* A set of at most one CPU.
LEMMA OneCpu ==
  ASSUME NEW S, IsFiniteSet(S), Cardinality(S) <= 1, NEW c \in S
  PROVE  S = {c}
<1>. SUFFICES ASSUME NEW d \in S, d # c PROVE FALSE
  BY Zenon
<1>1. IsFiniteSet({c}) /\ Cardinality({c}) = 1
  BY FS_Singleton, Zenon
<1>2. d \notin {c} /\ {c} \cup {d} \subseteq S
  BY Zenon
<1>3. Cardinality({c} \cup {d}) = Cardinality({c}) + 1
  BY <1>1, <1>2, FS_AddElement, Zenon
<1>4. Cardinality({c} \cup {d}) <= Cardinality(S)
  BY Zenon, <1>2, FS_Subset
<1>5. Cardinality(S) \in Nat
  BY Zenon, FS_CardinalityType
<1>. QED
  BY <1>1, <1>3, <1>4, <1>5

\* request_tlb_shootdown.  On one CPU the block goes to sanit_unmapped at
\* once, and that CPU's is the only TLB; otherwise every CPU owes for it.
LEMMA RequestStep ==
  ASSUME VInv, NEW c \in Cpus, c \in online, UNCHANGED machine, vm_free_request(c)
  PROVE  VInv'
<1>. USE DEF VInv, machine
<1>1. /\ pc[c] = "request"
      /\ pc' = [pc EXCEPT ![c] = "user"]
      /\ op' = [op EXCEPT ![c] = "none"]
      /\ arg' = [arg EXCEPT ![c] = NoBlock]
      /\ UNCHANGED <<pte, freePages, cleaner, online, asid>>
  BY Zenon DEF vm_free_request, At, To, Return
<1>2. PICK b \in Blocks : b = arg[c] /\ b \in sanitMapped /\ b \notin Queued
  BY Zenon, <1>1 DEF Doing
<1>3. Cleaned' = Cleaned /\ \A d \in Cpus : Held(d)' = Held(d)
  BY <1>1, Zenon DEF Cleaned, Held, VmTypeOK
<1>4. \A d \in Cpus : pc[d] = "sanit" => pc'[d] = "sanit" /\ arg'[d] = arg[d]
  BY Zenon, <1>1 DEF VmTypeOK
<1>5. CASE Cardinality(online) <= 1
  <2>1. /\ tlb' = [tlb EXCEPT ![c] = {e \in @ : e[1] \notin {b}}]
        /\ vm_move_to_sanit_unmapped(b)
        /\ UNCHANGED tlbVars
    BY Zenon, <1>2, <1>5 DEF vm_free_request, Forget
  <2>2. IInv' /\ Queued' = Queued /\ \A x : Owing(x)' = Owing(x)
    BY Zenon, <2>1, QueueStill
  <2>3. /\ sanitMapped' = sanitMapped \ {b}
        /\ UNCHANGED <<avail, inuse, active>>
        /\ Unmapped' = Unmapped \cup {b} /\ sanitUnmapped' \in Seq(Blocks)
        /\ \A i, j \in 1..Len(sanitUnmapped') :
             sanitUnmapped'[i] = sanitUnmapped'[j] => i = j
    BY Zenon, <1>2, <2>1, UnmappedAppend DEF vm_move_to_sanit_unmapped, VmTypeOK, Apart
  <2>4. VmTypeOK'
    BY Zenon, <1>1, <2>1, <2>3 DEF VmTypeOK, Labels
  <2>5. Apart'
    BY <1>2, <1>3, <2>3, SMTT(30) DEF Apart
  <2>6. Doing'
    BY <1>1, <1>2, <1>3, <2>2, <2>3 DEF Doing, VmTypeOK
  <2>7. PagesApart' /\ ActiveExact'
    BY Zenon, <1>1, <2>3 DEF PagesApart, ActiveExact, VmTypeOK
  <2>8. online = {c}
    <3>1. IsFiniteSet(online)
      BY TlbAssumption, FS_Subset DEF VmTypeOK
    <3>. QED
      BY Zenon, <1>5, <3>1, OneCpu
  <2>9. ~LateFill => \A d \in Cpus \ {c} : tlb'[d] = {}
    BY Zenon, <2>1, <2>8 DEF CachesRight, VmTypeOK
  <2>10. ASSUME ~LateFill, NEW e \in tlb'[c] PROVE Usable(c, e)'
    <3>1. e \in tlb[c] /\ e[1] # b
      BY Zenon, <2>1 DEF VmTypeOK
    <3>2. Usable(c, e)
      BY Zenon, <1>1, <2>10, <3>1 DEF CachesRight
    <3>. QED
      BY Zenon, <1>1, <1>4, <2>2, <2>3, <3>1, <3>2 DEF Usable
  <2>11. CachesRight'
    BY Zenon, <1>1, <2>8, <2>9, <2>10 DEF CachesRight
  <2>. QED
    BY Zenon, <2>2, <2>4, <2>5, <2>6, <2>7, <2>11
<1>6. CASE ~(Cardinality(online) <= 1)
  <2>1. request_tlb_shootdown(b) /\ UNCHANGED <<tlb, listVars>>
    BY Zenon, <1>2, <1>6 DEF vm_free_request
  <2>2. /\ IInv' /\ Queued' = Queued \cup {b} /\ Owing(b)' = Cpus
        /\ \A x \in Blocks \ {b} : Owing(x)' = Owing(x)
    BY Zenon, <1>2, <2>1, RequestOwing, RequestIInv
  <2>3. UNCHANGED <<avail, inuse, sanitMapped, sanitUnmapped, active, Unmapped>>
    BY Zenon, <2>1, ListsStill
  <2>4. VmTypeOK'
    BY Zenon, <1>1, <2>1, <2>3 DEF VmTypeOK, Labels
  <2>5. Apart'
    BY Zenon, <1>3, <2>3 DEF Apart
  <2>6. Doing'
    BY <1>1, <1>2, <1>3, <2>2, <2>3 DEF Doing, VmTypeOK
  <2>7. PagesApart' /\ ActiveExact'
    BY Zenon, <1>1, <2>3 DEF PagesApart, ActiveExact, VmTypeOK
  <2>8. ASSUME ~LateFill, NEW d \in Cpus, pc'[d] # "flush", NEW e \in tlb'[d]
        PROVE  Usable(d, e)'
    <3>1. e \in tlb[d] /\ pc[d] # "flush" /\ e[1] \in Blocks
      BY <1>1, <2>1, <2>8 DEF VmTypeOK
    <3>2. Usable(d, e)
      BY Zenon, <2>8, <3>1 DEF CachesRight
    <3>. QED
      BY Zenon, <1>1, <1>4, <2>2, <2>3, <3>1, <3>2 DEF Usable
  <2>9. CachesRight'
    BY Zenon, <1>1, <2>1, <2>8 DEF CachesRight
  <2>. QED
    BY Zenon, <2>2, <2>4, <2>5, <2>6, <2>7, <2>9
<1>. QED
  BY Zenon, <1>5, <1>6

-----------------------------------------------------------------------------
\* The cleaner of a process.

\* What taking the first block off sanit_unmapped does to it as a set.
LEMMA UnmappedTail ==
  ASSUME sanitUnmapped \in Seq(Blocks), sanitUnmapped # <<>>,
         sanitUnmapped' = Tail(sanitUnmapped),
         \A i, j \in 1..Len(sanitUnmapped) :
           sanitUnmapped[i] = sanitUnmapped[j] => i = j
  PROVE  /\ Head(sanitUnmapped) \in Unmapped
         /\ Unmapped' = Unmapped \ {Head(sanitUnmapped)}
         /\ sanitUnmapped' \in Seq(Blocks)
         /\ \A i, j \in 1..Len(sanitUnmapped') :
              sanitUnmapped'[i] = sanitUnmapped'[j] => i = j
<1>1. /\ Len(sanitUnmapped) \in Nat \ {0}
      /\ Len(sanitUnmapped') = Len(sanitUnmapped) - 1
      /\ Head(sanitUnmapped) = sanitUnmapped[1]
      /\ \A i \in 1..Len(sanitUnmapped') : sanitUnmapped'[i] = sanitUnmapped[i + 1]
  OBVIOUS
<1>2. \A i \in 2..Len(sanitUnmapped) : sanitUnmapped[i] # sanitUnmapped[1]
  BY <1>1
<1>3. Unmapped' \subseteq Unmapped \ {Head(sanitUnmapped)}
  BY <1>1, <1>2 DEF Unmapped
<1>4. ASSUME NEW b \in Unmapped \ {Head(sanitUnmapped)} PROVE b \in Unmapped'
  <2>1. PICK i \in 1..Len(sanitUnmapped) : b = sanitUnmapped[i]
    BY Zenon, <1>4 DEF Unmapped
  <2>2. i - 1 \in 1..Len(sanitUnmapped') /\ sanitUnmapped'[i - 1] = sanitUnmapped[i]
    BY <1>1, <1>4, <2>1
  <2>. QED
    BY Zenon, <2>1, <2>2 DEF Unmapped
<1>5. ASSUME NEW i \in 1..Len(sanitUnmapped'), NEW j \in 1..Len(sanitUnmapped'),
             sanitUnmapped'[i] = sanitUnmapped'[j]
      PROVE  i = j
  <2>1. /\ i + 1 \in 1..Len(sanitUnmapped) /\ j + 1 \in 1..Len(sanitUnmapped)
        /\ sanitUnmapped[i + 1] = sanitUnmapped[j + 1]
    BY <1>1, <1>5
  <2>2. i + 1 = j + 1
    BY Zenon, <2>1
  <2>. QED
    BY <2>2
<1>6. Head(sanitUnmapped) \in Unmapped
  BY <1>1 DEF Unmapped
<1>. QED
  BY <1>3, <1>4, <1>5, <1>6

LEMMA CleanerPopStep ==
  ASSUME VInv, UNCHANGED machine, CleanerPop
  PROVE  VInv'
<1>. USE DEF VInv, machine
<1>1. /\ cleaner.at = "pop" /\ sanitUnmapped # <<>>
      /\ sanitUnmapped' = Tail(sanitUnmapped)
      /\ UNCHANGED <<pc, op, arg, avail, inuse, sanitMapped, active, pte, tlb,
                     freePages, online, asid>>
  BY Zenon DEF CleanerPop, CleanerAt, mapVars
<1>2. IInv' /\ Queued' = Queued /\ \A x : Owing(x)' = Owing(x)
  BY Zenon, QueueStill DEF CleanerPop
<1>3. PICK b : b = Head(sanitUnmapped)
  BY Zenon
<1>4. /\ b \in Unmapped /\ Unmapped' = Unmapped \ {b} /\ sanitUnmapped' \in Seq(Blocks)
      /\ \A i, j \in 1..Len(sanitUnmapped') :
           sanitUnmapped'[i] = sanitUnmapped'[j] => i = j
  BY Zenon, <1>1, <1>3, UnmappedTail DEF VmTypeOK, Apart
<1>5. b \in Blocks
  BY <1>4 DEF Unmapped, VmTypeOK
<1>6. cleaner' = [at |-> "unmap", b |-> b, page |-> NoPage]
  BY Zenon, <1>3 DEF CleanerPop
<1>7. VmTypeOK'
  BY Zenon, <1>1, <1>4, <1>5, <1>6 DEF VmTypeOK
<1>8. Cleaned = {} /\ Cleaned' = {b} /\ \A d \in Cpus : Held(d)' = Held(d)
  BY Zenon, <1>1, <1>6 DEF Cleaned, Held
<1>9. Apart'
  BY <1>1, <1>4, <1>8 DEF Apart
<1>10. Doing'
  BY Zenon, <1>1, <1>2, <1>5, <1>8, VmAssumption DEF Doing
<1>11. PagesApart' /\ ActiveExact'
  BY Zenon, <1>1, <1>6 DEF PagesApart, ActiveExact
<1>12. CachesRight'
  BY Zenon, <1>1, <1>2 DEF CachesRight, Usable
<1>. QED
  BY Zenon, <1>2, <1>7, <1>9, <1>10, <1>11, <1>12

\* The page table forgets the block: no CPU may use a translation of it.
LEMMA CleanerUnmapStep ==
  ASSUME VInv, UNCHANGED machine, CleanerUnmap
  PROVE  VInv'
<1>. USE DEF VInv, machine
<1>1. /\ cleaner.at = "unmap"
      /\ UNCHANGED <<pc, op, arg, tlb, freePages, online, asid>>
  BY Zenon DEF CleanerUnmap, CleanerAt
<1>2. IInv' /\ Queued' = Queued /\ \A x : Owing(x)' = Owing(x)
  BY Zenon, QueueStill DEF CleanerUnmap
<1>3. UNCHANGED <<avail, inuse, sanitMapped, sanitUnmapped, active, Unmapped>>
  BY Zenon, ListsStill DEF CleanerUnmap
<1>4. Cleaned = {cleaner.b}
  BY Zenon, <1>1 DEF Cleaned
<1>5. PICK b \in Blocks : b = cleaner.b
  BY Zenon, <1>4 DEF Doing, VmTypeOK
<1>6. /\ pte' = [pte EXCEPT ![b] = NoPage]
      /\ cleaner' = [at |-> "pfree", b |-> b, page |-> pte[b]]
  BY Zenon, <1>5 DEF CleanerUnmap
<1>7. pte'[b] = NoPage /\ \A x \in Blocks \ {b} : pte'[x] = pte[x]
  BY Zenon, <1>6 DEF VmTypeOK
<1>8. VmTypeOK'
  BY Zenon, <1>1, <1>3, <1>6 DEF VmTypeOK
<1>9. Cleaned' = {b} /\ \A d \in Cpus : Held(d)' = Held(d)
  BY Zenon, <1>1, <1>6 DEF Cleaned, Held
<1>10. Apart' /\ ActiveExact'
  BY Zenon, <1>1, <1>3, <1>4, <1>5, <1>6, <1>9 DEF Apart, ActiveExact
<1>11. Doing'
  BY Zenon, <1>1, <1>2, <1>3, <1>5, <1>9, VmAssumption DEF Doing
<1>12. PagesApart'
  <2>1. /\ \A x \in Blocks : pte'[x] \notin freePages
        /\ \A x, y \in Blocks : pte'[x] = pte'[y] /\ pte'[x] # NoPage => x = y
    BY <1>7, VmAssumption DEF PagesApart, VmTypeOK
  <2>2. pte[b] # NoPage => /\ pte[b] \notin freePages
                           /\ \A x \in Blocks : pte'[x] # pte[b]
    BY Zenon, <1>7 DEF PagesApart
  <2>3. /\ \A x \in avail : pte'[x] = NoPage
        /\ \A d \in Cpus : pc[d] = "insert" => pte'[arg[d]] = NoPage
    BY Zenon, <1>7 DEF PagesApart, VmTypeOK, Doing
  <2>. QED
    BY Zenon, <1>1, <1>3, <1>6, <1>7, <2>1, <2>2, <2>3 DEF PagesApart
<1>13. CachesRight'
  <2>. SUFFICES ASSUME ~LateFill PROVE CachesRight'
    BY Zenon DEF CachesRight
  <2>1. ASSUME NEW d \in Cpus, pc'[d] # "flush", NEW e \in tlb'[d]
        PROVE  Usable(d, e)'
    <3>1. e \in tlb[d] /\ pc[d] # "flush" /\ e[1] \in Blocks
      BY <1>1, <2>1 DEF VmTypeOK
    <3>2. Usable(d, e)
      BY Zenon, <3>1 DEF CachesRight
    <3>3. e[1] # b
      BY Zenon, <1>4, <1>5, <3>2 DEF Usable, Apart, Held
    <3>. QED
      BY Zenon, <1>1, <1>2, <1>3, <1>7, <3>1, <3>2, <3>3 DEF Usable
  <2>. QED
    BY Zenon, <1>1, <2>1 DEF CachesRight
<1>. QED
  BY Zenon, <1>2, <1>8, <1>10, <1>11, <1>12, <1>13

\* Its page, which no block has, is free again.
LEMMA CleanerFreeStep ==
  ASSUME VInv, UNCHANGED machine, CleanerFree
  PROVE  VInv'
<1>. USE DEF VInv, machine
<1>1. /\ cleaner.at = "pfree"
      /\ freePages' = freePages \cup ({cleaner.page} \ {NoPage})
      /\ UNCHANGED <<pc, op, arg, pte, tlb, online, asid>>
  BY Zenon DEF CleanerFree, CleanerAt
<1>2. IInv' /\ Queued' = Queued /\ \A x : Owing(x)' = Owing(x)
  BY Zenon, QueueStill DEF CleanerFree
<1>3. UNCHANGED <<avail, inuse, sanitMapped, sanitUnmapped, active, Unmapped>>
  BY Zenon, ListsStill DEF CleanerFree
<1>4. /\ cleaner' \in [at : {"pop", "unmap", "pfree", "avail", "dec"},
                       b : Blocks \cup {NoBlock}, page : Pages \cup {NoPage}]
      /\ cleaner'.at = "avail" /\ cleaner'.b = cleaner.b /\ cleaner'.page = NoPage
      /\ cleaner.page \in Pages \cup {NoPage}
  BY Zenon DEF CleanerFree, VmTypeOK
<1>5. VmTypeOK'
  BY Zenon, <1>1, <1>3, <1>4 DEF VmTypeOK
<1>6. Cleaned' = Cleaned /\ \A d \in Cpus : Held(d)' = Held(d)
  BY Zenon, <1>1, <1>4 DEF Cleaned, Held
<1>7. Apart' /\ ActiveExact'
  BY Zenon, <1>1, <1>3, <1>4, <1>6 DEF Apart, ActiveExact
<1>8. Doing'
  BY Zenon, <1>1, <1>2, <1>3, <1>6 DEF Doing
<1>9. PagesApart'
  BY Zenon, <1>1, <1>3, <1>4 DEF PagesApart
<1>10. CachesRight'
  BY <1>1, <1>2, <1>3 DEF CachesRight, Usable
<1>. QED
  BY Zenon, <1>2, <1>5, <1>7, <1>8, <1>9, <1>10

\* The block is back on avail_unmapped, and still counted,
LEMMA CleanerAvailStep ==
  ASSUME VInv, UNCHANGED machine, CleanerAvail
  PROVE  VInv'
<1>. USE DEF VInv, machine
<1>1. /\ cleaner.at = "avail"
      /\ avail' = avail \cup {cleaner.b}
      /\ UNCHANGED <<pc, op, arg, inuse, sanitMapped, sanitUnmapped, active, pte,
                     tlb, freePages, online, asid>>
  BY Zenon DEF CleanerAvail, CleanerAt, mapVars
<1>2. IInv' /\ Queued' = Queued /\ \A x : Owing(x)' = Owing(x)
  BY Zenon, QueueStill DEF CleanerAvail
<1>3. Unmapped' = Unmapped
  BY Zenon, <1>1 DEF Unmapped
<1>4. /\ cleaner' \in [at : {"pop", "unmap", "pfree", "avail", "dec"},
                       b : Blocks \cup {NoBlock}, page : Pages \cup {NoPage}]
      /\ cleaner'.at = "dec" /\ cleaner'.page = cleaner.page
  BY Zenon DEF CleanerAvail, VmTypeOK
<1>5. /\ Cleaned = {cleaner.b} /\ Cleaned' = {}
      /\ \A d \in Cpus : Held(d)' = Held(d)
  BY Zenon, <1>1, <1>4 DEF Cleaned, Held
<1>6. cleaner.b \in Blocks
  BY Zenon, <1>5 DEF Doing, VmTypeOK
<1>7. VmTypeOK'
  BY Zenon, <1>1, <1>4, <1>6 DEF VmTypeOK
<1>8. Apart'
  BY <1>1, <1>3, <1>5 DEF Apart
<1>9. Doing'
  BY Zenon, <1>1, <1>2, <1>5 DEF Doing
<1>10. PagesApart'
  BY Zenon, <1>1, <1>4 DEF PagesApart
<1>11. CachesRight'
  BY <1>1, <1>2 DEF CachesRight, Usable
<1>12. ActiveExact'
  <2>1. /\ cleaner.b \in Blocks \ avail
        /\ Blocks \ avail' = (Blocks \ avail) \ {cleaner.b}
    BY Zenon, <1>1, <1>5, <1>6 DEF Apart
  <2>2. IsFiniteSet(Blocks \ avail)
    BY Zenon, VmAssumption, FS_Subset
  <2>3. Cardinality(Blocks \ avail') = Cardinality(Blocks \ avail) - 1
    BY Zenon, <2>1, <2>2, FS_RemoveElement
  <2>4. Cardinality(Blocks \ avail) \in Nat
    BY Zenon, <2>2, FS_CardinalityType
  <2>. QED
    BY <1>1, <1>4, <2>3, <2>4 DEF ActiveExact
<1>. QED
  BY Zenon, <1>2, <1>7, <1>8, <1>9, <1>10, <1>11, <1>12

\* until the cleaner stops counting it.
LEMMA CleanerDecStep ==
  ASSUME VInv, UNCHANGED machine, CleanerDec
  PROVE  VInv'
<1>. USE DEF VInv, machine
<1>1. /\ cleaner.at = "dec" /\ active' = active - 1
      /\ cleaner' = [at |-> "pop", b |-> NoBlock, page |-> NoPage]
      /\ UNCHANGED <<pc, op, arg, avail, inuse, sanitMapped, sanitUnmapped, pte,
                     tlb, freePages, online, asid>>
  BY Zenon DEF CleanerDec, CleanerAt, mapVars
<1>2. IInv' /\ Queued' = Queued /\ \A x : Owing(x)' = Owing(x)
  BY Zenon, QueueStill DEF CleanerDec
<1>3. Unmapped' = Unmapped
  BY Zenon, <1>1 DEF Unmapped
<1>4. VmTypeOK'
  BY Zenon, <1>1 DEF VmTypeOK
<1>5. Cleaned = {} /\ Cleaned' = {} /\ \A d \in Cpus : Held(d)' = Held(d)
  BY <1>1, Zenon DEF Cleaned, Held
<1>6. Apart' /\ Doing'
  BY Zenon, <1>1, <1>2, <1>3, <1>5 DEF Apart, Doing
<1>7. PagesApart' /\ CachesRight'
  BY <1>1, <1>2 DEF PagesApart, CachesRight, Usable
<1>8. ActiveExact'
  <2>1. Cardinality(Blocks \ avail) \in Nat
    BY Zenon, VmAssumption, FS_Subset, FS_CardinalityType
  <2>. QED
    BY <1>1, <2>1 DEF ActiveExact
<1>. QED
  BY Zenon, <1>2, <1>4, <1>6, <1>7, <1>8

-----------------------------------------------------------------------------

LEMMA VStutter == VInv /\ UNCHANGED vars => VInv'
<1>. SUFFICES ASSUME VInv, UNCHANGED vars PROVE VInv'
  BY Zenon
<1>1. IInv' /\ Queued' = Queued /\ \A x : Owing(x)' = Owing(x)
  BY Zenon, QueueStill DEF VInv, vars
<1>2. UNCHANGED <<avail, inuse, sanitMapped, sanitUnmapped, active, Unmapped>>
  BY Zenon, ListsStill DEF vars
<1>3. UNCHANGED <<online, asid, pc, op, arg, pte, tlb, freePages, cleaner>>
  BY Zenon DEF vars, machine, mapVars
<1>4. UNCHANGED Cleaned /\ \A c \in Cpus : Held(c)' = Held(c)
  BY Zenon, <1>3 DEF Cleaned, Held
<1>5. VmTypeOK' /\ PagesApart' /\ ActiveExact'
  BY Zenon, <1>2, <1>3 DEF VInv, VmTypeOK, PagesApart, ActiveExact
<1>6. Apart' /\ Doing'
  BY Zenon, <1>1, <1>2, <1>3, <1>4 DEF VInv, Apart, Doing
<1>7. CachesRight'
  BY <1>1, <1>2, <1>3 DEF VInv, CachesRight, Usable
<1>. QED
  BY Zenon, <1>1, <1>5, <1>6, <1>7 DEF VInv

LEMMA VNext == VInv /\ [Next]_vars => VInv'
<1>. SUFFICES ASSUME VInv, [Next]_vars PROVE VInv'
  BY Zenon
<1>1. ASSUME NEW c \in Cpus, Kernel(c) PROVE VInv'
  <2>1. CASE Other(c)
    BY Zenon, <1>1, <2>1, ReturnStep DEF Kernel, Other
  <2>. QED
    BY Zenon, <1>1, <2>1, ServiceStep, FlushStep, DrainStep, AllocStep, InsertStep,
       MapStep, FreeStep, SanitStep, RequestStep DEF Kernel
<1>2. ASSUME NEW c \in Cpus, User(c) PROVE VInv'
  BY Zenon, <1>2, EnterStep, FillStep DEF User
<1>3. ASSUME Cleaner PROVE VInv'
  BY Zenon, <1>3, CleanerPopStep, CleanerUnmapStep, CleanerFreeStep, CleanerAvailStep,
     CleanerDecStep DEF Cleaner
<1>. QED
  BY Zenon, <1>1, <1>2, <1>3, VStutter DEF Next, Halted

\* The inductive invariant holds in every reachable state.
THEOREM VInvariance == Spec => []VInv
  BY VInit, VNext, PTL DEF Spec

\* A page is never free while a CPU in user mode can reach it, for any number
\* of CPUs, blocks, pages and shootdowns: the cleaner unmaps a block and gives
\* its page back (vm_free_block_pages) only after every CPU has invalidated or
\* flushed its translations.  That the TLB loads no translation of a block
\* after vm_free has taken it off inuse_mapped is assumed, since the page table
\* still has it: the run vm_late_fill shows that it is needed.
THEOREM PagesAreSafe ==
  ASSUME ~LateFill
  PROVE  Spec => []NoStaleTranslation
<1>1. VInv => NoStaleTranslation
  <2>. SUFFICES ASSUME VInv, NEW c \in Cpus, pc[c] = "user", NEW e \in tlb[c]
                PROVE  e[2] \notin freePages
    BY Zenon DEF NoStaleTranslation, At
  <2>1. Usable(c, e) /\ e[1] \in Blocks
    BY DEF VInv, CachesRight, VmTypeOK
  <2>. QED
    BY Zenon, <2>1 DEF VInv, Usable, PagesApart
<1>. QED
  BY <1>1, VInvariance, PTL

\* When the cleaner of a dying process reads 0 in num_active_blocks, no block is
\* in use, on a list on its way back or in anybody's hands.
THEOREM CountCoversBlocks == Spec => []ActiveCoversBlocks
<1>1. VInv => ActiveCoversBlocks
  <2>. SUFFICES ASSUME VInv, active = 0 PROVE avail = Blocks
    BY Zenon DEF ActiveCoversBlocks
  <2>1. IsFiniteSet(Blocks \ avail) /\ Cardinality(Blocks \ avail) \in Nat
    BY Zenon, VmAssumption, FS_Subset, FS_CardinalityType
  <2>2. Cardinality(Blocks \ avail) = 0
    BY <2>1 DEF VInv, ActiveExact
  <2>3. Blocks \ avail = {}
    BY <2>1, <2>2, FS_EmptySet, Zenon
  <2>. QED
    BY <2>3, Zenon DEF VInv, VmTypeOK
<1>. QED
  BY <1>1, VInvariance, PTL

\* The blocks use the queue as module Tlb lets them: vm_free never requests a
\* shootdown of a block that is in the queue,
THEOREM BlocksUseTheQueue == Spec => TlbSpec
<1>1. Init => TlbInit
  BY Zenon DEF Init
<1>2. ASSUME VInv, [Next]_vars PROVE [TlbNext]_tlbVars
  <2>1. ASSUME NEW c \in Cpus, Kernel(c) PROVE [TlbNext]_tlbVars
    <3>1. CASE vm_free_request(c)
      <4>1. arg[c] \in Blocks /\ arg[c] \notin Queued
        BY <1>2, <3>1, Zenon DEF VInv, Doing, vm_free_request, At
      <4>. QED
        BY Zenon, <3>1, <4>1 DEF vm_free_request, TlbNext
    <3>2. CASE Service(c)
      BY Zenon, <3>2 DEF Service, TlbNext
    <3>3. CASE Drain(c)
      BY Zenon, <3>3 DEF Drain, TlbNext
    <3>. QED
      BY Zenon, <2>1, <3>1, <3>2, <3>3
      DEF Kernel, Flush, Other, vm_alloc, vm_alloc_insert, vm_map, vm_free_block,
          vm_free_sanit
  <2>2. ASSUME NEW c \in Cpus, User(c) PROVE UNCHANGED tlbVars
    BY Zenon, <2>2 DEF User, Enter, Trap, Fill
  <2>3. ASSUME Cleaner PROVE UNCHANGED tlbVars
    BY Zenon, <2>3 DEF Cleaner, CleanerPop, CleanerUnmap, CleanerFree, CleanerAvail, CleanerDec
  <2>4. ASSUME UNCHANGED vars PROVE UNCHANGED tlbVars
    BY Zenon, <2>4 DEF vars
  <2>. QED
    BY Zenon, <1>2, <2>1, <2>2, <2>3, <2>4 DEF Next, Halted
<1>. QED
  BY <1>1, <1>2, VInvariance, PTL DEF Spec, TlbSpec

\* and so the queue keeps its promise to them: a block leaves it only after
\* every CPU has run service_tlb_shootdown_requests since its vm_free.
THEOREM PromiseToBlocks == Spec => ShootdownPromise
  BY BlocksUseTheQueue, Implementation, PTL
=============================================================================
