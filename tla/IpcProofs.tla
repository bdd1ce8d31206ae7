----------------------------- MODULE IpcProofs ------------------------------
(***************************************************************************)
(* Message passing, for any finite set of threads: the counts are exact,   *)
(* the kernel does not panic, and an answer reaches who asked.  Before the *)
(* theorems come the steps that end a wait, ipc_respond and                *)
(* purge_ipc_queue, and those of the cleaner.                              *)
(***************************************************************************)
EXTENDS IpcInv

USE SMTT(40)

\* ipc_respond finds the thread it has read from ipc_reply_to on the queue.
LEMMA RespondFoundStep ==
  ASSUME IInv, NEW t \in Threads, ipc_respond(t), Waiters(t) # {}
  PROVE  IInv'
<1> USE DEF stopVars, userVars, linkVars
<1>0. /\ Shape /\ NoPanic /\ Apart(ipcq) /\ Halting
      /\ Placed(t) /\ Engaged(t) /\ Counted(t) /\ Directed(t) /\ Mine(t)
  BY Zenon, Here
<1>1. /\ pc[t] = "respond_find" /\ ipcLock = NoThread
      /\ UNCHANGED <<pid, listed, pstate, ipcLock, linkVars, opcode, popup, dst, userVars, stopVars>>
  BY Zenon DEF ipc_respond, Lockable
<1>2. PICK w \in Threads :
        /\ First(w, Waiters(t))
        /\ ipcq' = Without({w})
        /\ msg' = [msg EXCEPT ![w] = msg[t]]
        /\ set_thread_state({w}, "normal")
        /\ pc' = [pc EXCEPT ![w] = "user", ![t] = "user"]
        /\ ref' = [ref EXCEPT ![w] = @ - 1, ![t] = @ - 2]
  BY Zenon DEF ipc_respond
<1>3. ipcq[w] > 0 /\ waitType[w] = "resp" /\ dst[t] = Me(w)
  BY Zenon, <1>2 DEF First, Waiters, Queued
<1>4. /\ pc[w] = "asleep" /\ tstate[w] = "wait" /\ w \in listed /\ pid[w] \in Procs
      /\ ipcq' \in [Threads -> Nat] /\ Apart(ipcq') /\ ipcq'[w] = 0
      /\ \A u \in Threads \ {w} : ipcq'[u] > 0 <=> ipcq[u] > 0
  BY Zenon, <1>2, <1>3, TakenOff
<1>5. w \in Awaiters(t) /\ AwaitsAnswer(w) /\ ~Stranded(w)
  <2>1. dst[t][1] = pid[w] /\ dst[t][2] = w
    BY <1>3 DEF Me
  <2>2. ~Past(dst[t])
    BY Zenon, <1>4, <2>1 DEF Past
  <2>3. Names(dst[t], t)
    BY Zenon, <1>0, <1>1, <2>2 DEF Directed
  <2>4. QED
    BY Zenon, <1>3, <1>4, <2>1, <2>3 DEF Names, AwaitsAnswer, Stranded
<1>6. /\ w # t /\ role[w] = "client" /\ Engaged(w) /\ Counted(w) /\ Mine(w)
      /\ replyTo[t] = Me(w) /\ pid[t] = Server /\ role[t] \in {"receiver", "popup"}
      /\ msg[t] = [from |-> w, n |-> asked[w], answer |-> TRUE]
  <2>1. Tied(w, t) /\ w # t /\ role[w] = "client"
    BY Zenon, <1>5, AwaiterTied
  <2>2. Engaged(w) /\ Counted(w) /\ Mine(w)
    BY Zenon, Here
  <2>3. (pc[t] # "user") = TRUE
    BY Zenon, <1>1
  <2>4. QED
    BY Zenon, <1>5, <2>1, <2>2, <2>3 DEF Tied
<1>7. /\ tstate[t] = "normal" /\ t \in listed /\ pid[t] \in Procs /\ ~(ipcq[t] > 0)
      /\ ~AwaitsAnswer(t) /\ InKernel(t) /\ opcode[t] # "request"
      /\ ~InKernel(w) /\ Alive(w) /\ ~Owes(w)
  BY Zenon, <1>0, <1>1, <1>4, <1>6 DEF Placed, Engaged, AwaitsAnswer, InKernel, Alive, Owes, Serves, KernelLabels
<1>8. /\ tstate' = [x \in Threads |-> IF x \in {w} THEN "normal" ELSE tstate[x]]
      /\ panicked' = "none"
  BY Zenon, <1>2, <1>4 DEF set_thread_state, Allowed
<1>9. /\ pc'[w] = "user" /\ pc'[t] = "user" /\ ref'[w] = ref[w] - 1 /\ ref'[t] = ref[t] - 2
      /\ tstate'[w] = "normal" /\ tstate'[t] = "normal" /\ ~(ipcq'[t] > 0)
      /\ msg'[w] = [from |-> w, n |-> asked[w], answer |-> TRUE] /\ ~(ipcq'[w] > 0)
  BY <1>0, <1>2, <1>4, <1>6, <1>7, <1>8 DEF Shape
<1>10. Shape' /\ NoPanic'
  <2>1. ref' = [ref EXCEPT ![w] = @ - 1, ![t] = @ - 2] /\ ref \in [Threads -> Int]
    BY Zenon, <1>0, <1>2 DEF Shape
  <2>2. ref' \in [Threads -> Int]
    BY Zenon, <2>1, PairInt
  <2>3. QED
    BY Zenon, <2>2, <1>0, <1>1, <1>2, <1>4, <1>8 DEF Shape, NoPanic
<1>11. \A u \in Threads \ {w, t} : Same(u)
  BY Zenon, <1>0, <1>1, <1>2, <1>4, <1>8 DEF Shape, Same
<1>12. Placed(w)' /\ Engaged(w)' /\ Mine(w)' /\ ~AwaitsAnswer(w)' /\ Directed(w)'
  BY Zenon, <1>1, <1>4, <1>6, <1>9
  DEF Placed, Engaged, Mine, AwaitsAnswer, KernelLabels, Directed, Serves
<1>13. Placed(t)' /\ Engaged(t)' /\ Mine(t)' /\ ~AwaitsAnswer(t)' /\ Directed(t)'
  BY Zenon, <1>0, <1>1, <1>6, <1>7, <1>9
  DEF Placed, Engaged, Mine, AwaitsAnswer, KernelLabels, Directed, Serves
<1>14. /\ Awaiters(t)' = Awaiters(t) \ {w} /\ Awaiters(w) = {}
       /\ \A u \in Threads \ {t} : Awaiters(u)' = Awaiters(u)
  <2>1. \A u \in Threads \ {w} : AwaitsAnswer(u)' <=> AwaitsAnswer(u)
    BY Zenon, <1>7, <1>11, <1>13, SameAwaits
  <2>2. Awaiters(t)' = Awaiters(t) \ {w}
    BY Zenon, <1>1, <1>12, <2>1 DEF Awaiters
  <2>3. waitFor[w][2] = t
    BY Zenon, <1>5 DEF Awaiters
  <2>4. \A u \in Threads \ {t} : Awaiters(u)' = Awaiters(u)
    BY Zenon, <1>1, <1>12, <2>1, <2>3 DEF Awaiters
  <2>5. Awaiters(w) = {}
    BY Zenon, <1>6, <1>7, NoneOwed
  <2>6. QED
    BY Zenon, <2>2, <2>4, <2>5
<1>15. Counted(w)' /\ Counted(t)'
  <2>1. Counted(w)'
    BY Zenon, <1>5, <1>6, <1>7, <1>9, <1>14, Ends
  <2>2. Counted(t)'
    BY Zenon, <1>0, <1>5, <1>7, <1>9, <1>14, Releases
  <2>3. QED
    BY Zenon, <2>1, <2>2
<1>16. Halting' /\ Emptied'
  BY Zenon, <1>0, <1>1 DEF Halting, Emptied, IInv, ThreadsOf
<1>17. ASSUME NEW x \in Threads, NEW r \in Threads, AwaitsAnswer(x)', waitFor'[x][2] = r,
              x \in {w, t} \/ r \in {w, t}
       PROVE  Tied(x, r)'
  <2>1. x \in Awaiters(r)'
    BY Zenon, <1>17 DEF Awaiters
  <2>2. r = t /\ x \in Awaiters(t) /\ x # w /\ x # t
    BY Zenon, <1>12, <1>13, <1>14, <1>17, <2>1
  <2>3. Tied(x, t) /\ Same(x)
    BY Zenon, <1>11, <2>2, AwaiterTied
  <2>4. Stranded(x)
    <3>1. SUFFICES ASSUME ~Stranded(x) PROVE FALSE
      BY Zenon
    <3>2. Me(x) = Me(w)
      BY Zenon, <1>6, <2>3, <3>1 DEF Tied
    <3>3. QED
      BY <2>2, <3>2 DEF Me
  <2>5. Tied(x, t)'
    BY Zenon, <1>1, <1>9, <2>3, <2>4 DEF Tied, Same, Stranded, Alive
  <2>6. QED
    BY Zenon, <2>2, <2>5
<1>18. \A u \in {w, t} : pid'[u] = pid[u] /\ pc'[u] \in Resting
  BY Zenon, <1>1, <1>9 DEF Resting
<1>19. \A u \in Threads \ {w, t} : Same(u) /\ Awaiters(u)' = Awaiters(u)
  BY Zenon, <1>11, <1>14
<1>20. \A u \in {w, t} : Placed(u)' /\ Engaged(u)' /\ Counted(u)' /\ Directed(u)' /\ Mine(u)' /\ ~AwaitsAnswer(u)'
  BY Zenon, <1>12, <1>13, <1>15
<1>21. QED
  BY Zenon, <1>1, <1>4, <1>10, <1>16, <1>17, <1>18, <1>19, <1>20, Step

\* What the threads of p that wait on the queue have in common: p has been
\* stopped, so they are clients that wait for an answer, and nobody waits for them.
LEMMA PurgedWait ==
  ASSUME IInv, NEW p \in Procs, pstate[p] = "stopped", NEW w \in Queued, pid[w] = p
  PROVE  /\ w \in Threads /\ ipcq[w] > 0 /\ pc[w] = "asleep" /\ tstate[w] = "wait"
         /\ waitType[w] = "resp" /\ role[w] = "client" /\ AwaitsAnswer(w) /\ ~Stranded(w)
         /\ w \in listed /\ Awaiters(w) = {} /\ ~InKernel(w) /\ Alive(w)
<1>1. w \in Threads /\ ipcq[w] > 0
  BY Zenon DEF Queued
<1>2. Placed(w) /\ Engaged(w) /\ Halting
  BY Zenon, <1>1, Here
<1>3. pc[w] = "asleep" /\ tstate[w] = "wait" /\ w \in listed
  BY Zenon, <1>1, <1>2 DEF Placed
<1>4. p \in Killable
  BY Zenon, <1>2 DEF Halting
<1>5. waitType[w] = "resp" /\ role[w] = "client"
  BY Zenon, <1>2, <1>3, <1>4 DEF Engaged
<1>6. Awaiters(w) = {}
  BY Zenon, <1>1, <1>3, <1>5, NoneOwed DEF Owes, Serves
<1>7. QED
  BY Zenon, <1>1, <1>3, <1>5, <1>6 DEF AwaitsAnswer, Stranded, InKernel, Alive

\* The threads the purge takes from those that wait for t, and t's count after it.
LEMMA PurgedCount ==
  ASSUME IInv, NEW t \in Threads, NEW P, P \subseteq Awaiters(t), Alive(t),
         Awaiters(t)' = Awaiters(t) \ P, Held(t)' = Held(t), pc'[t] = pc[t],
         ref'[t] = ref[t] - 0 - Cardinality(P)
  PROVE  Counted(t)'
<1>1. IsFiniteSet(Awaiters(t)) /\ Cardinality(Awaiters(t)) \in Nat
  BY Zenon, AwaitersFinite
<1>2. /\ IsFiniteSet(P) /\ Cardinality(P) \in Nat
      /\ Cardinality(Awaiters(t) \ P) = Cardinality(Awaiters(t)) - Cardinality(P)
  <2>1. IsFiniteSet(P) /\ Cardinality(P) \in Nat
    BY Zenon, <1>1, FS_Subset, FS_CardinalityType
  <2>2. Cardinality(Awaiters(t) \ P) = Cardinality(Awaiters(t)) - Cardinality(Awaiters(t) \cap P)
    BY Zenon, <1>1, FS_Difference
  <2>3. Awaiters(t) \cap P = P
    BY Zenon
  <2>4. QED
    BY Zenon, <2>1, <2>2, <2>3
<1>3. Held(t) \in Nat
  BY DEF Held
<1>4. ref[t] = NewRef + Held(t) + Cardinality(Awaiters(t)) /\ pc[t] \notin {"exit", "reap"}
  BY Zenon, Here DEF Counted, Alive, InKernel
<1>5. ref'[t] = NewRef + Held(t)' + Cardinality(Awaiters(t)')
  BY <1>1, <1>2, <1>3, <1>4 DEF NewRef
<1>6. QED
  BY Zenon, <1>4, <1>5 DEF Counted

\* purge_ipc_queue: the threads of a stopped process are woken, and those they
\* expected an answer from are told so.
LEMMA PurgeStep ==
  ASSUME IInv, NEW p \in Procs, purge_ipc_queue(p)
  PROVE  IInv'
<1> DEFINE purged == {w \in Queued : pid[w] = p}
           P(t) == PurgedAnswers(p, t)
<1>0. Shape /\ NoPanic /\ Apart(ipcq) /\ Halting
  BY Zenon DEF IInv
<1>1. /\ cleaner[p] = "purge" /\ ipcLock = NoThread /\ cleaner' = [cleaner EXCEPT ![p] = "wait"]
      /\ UNCHANGED <<pid, listed, pstate, ipcLock, waitType, waitFor, msg, opcode, popup,
                     dst, role, call, asked>>
  BY Zenon DEF purge_ipc_queue, CleanerTo, Lockable, userVars
<1>2. /\ ipcq' = Without(purged)
      /\ ref' = [t \in Threads |-> ref[t] - (IF t \in purged THEN 1 ELSE 0) - Cardinality(P(t))]
      /\ replyTo' = [t \in Threads |-> IF Cardinality(P(t)) > 0 THEN NoOne ELSE replyTo[t]]
      /\ set_thread_state(purged, "normal")
      /\ pc' = [t \in Threads |-> IF t \in purged THEN "user" ELSE pc[t]]
  BY Zenon DEF purge_ipc_queue
<1>3. pstate[p] = "stopped"
  BY Zenon, <1>0, <1>1 DEF Halting
<1>4. \A w \in purged :
         /\ w \in Threads /\ ipcq[w] > 0 /\ pc[w] = "asleep" /\ tstate[w] = "wait" /\ pid[w] = p
         /\ waitType[w] = "resp" /\ role[w] = "client" /\ AwaitsAnswer(w) /\ ~Stranded(w)
         /\ w \in listed /\ Awaiters(w) = {} /\ ~InKernel(w) /\ Alive(w)
  BY Zenon, <1>3, PurgedWait
<1>5. /\ ipcq' \in [Threads -> Nat] /\ Apart(ipcq')
      /\ \A t \in Threads : ipcq'[t] > 0 <=> ipcq[t] > 0 /\ t \notin purged
  <2>1. purged \subseteq Queued
    BY Zenon
  <2> HIDE DEF purged
  <2>2. QED
    BY Zenon, <1>0, <1>2, <2>1, WithoutQueue DEF Shape
<1>6. /\ tstate' = [t \in Threads |-> IF t \in purged THEN "normal" ELSE tstate[t]]
      /\ panicked' = "none"
  <2>1. \A t \in purged : Allowed(tstate[t], "normal")
    BY Zenon, <1>4 DEF Allowed
  <2> HIDE DEF purged
  <2>2. QED
    BY Zenon, <1>2, <2>1 DEF set_thread_state
<1>7. ASSUME NEW t \in Threads
      PROVE  P(t) = Awaiters(t) \cap purged
  <2>1. ASSUME NEW w \in P(t) PROVE w \in Awaiters(t) \cap purged
    <3>1. w \in purged /\ waitFor[w][2] = t
      BY Zenon, <2>1 DEF PurgedAnswers
    <3>2. QED
      BY Zenon, <1>4, <3>1 DEF Awaiters
  <2>2. ASSUME NEW w \in Awaiters(t), w \in purged PROVE w \in P(t)
    <3>1. Tied(w, t) /\ waitFor[w][2] = t
      BY Zenon, <2>2, AwaiterTied
    <3>2. Placed(t)
      BY Zenon, Here
    <3>3. t \in listed
      BY Zenon, <3>1, <3>2 DEF Tied, Alive, InKernel, Placed
    <3>4. QED
      BY Zenon, <1>4, <2>2, <3>1, <3>3 DEF PurgedAnswers
  <2>3. QED
    BY Zenon, <2>1, <2>2
<1> HIDE DEF purged, P
<1>8. ASSUME NEW t \in Threads
      PROVE  /\ t \in purged => /\ pc'[t] = "user" /\ tstate'[t] = "normal" /\ P(t) = {}
                                /\ ref'[t] = ref[t] - 1 /\ ~(ipcq'[t] > 0)
             /\ t \notin purged => /\ pc'[t] = pc[t] /\ tstate'[t] = tstate[t]
                                   /\ ref'[t] = ref[t] - 0 - Cardinality(P(t))
                                   /\ ipcq'[t] > 0 <=> ipcq[t] > 0
             /\ Cardinality(P(t)) \in Nat /\ ref[t] \in Int
             /\ P(t) = {} => replyTo'[t] = replyTo[t]
             /\ P(t) # {} => replyTo'[t] = NoOne
  <2>1. IsFiniteSet(P(t)) /\ Cardinality(P(t)) \in Nat
    <3>1. IsFiniteSet(Awaiters(t)) /\ P(t) \subseteq Awaiters(t)
      BY Zenon, <1>7, AwaitersFinite
    <3>2. QED
      BY Zenon, <3>1, FS_Subset, FS_CardinalityType
  <2>2. Cardinality(P(t)) = 0 <=> P(t) = {}
    BY Zenon, <2>1, FS_EmptySet
  <2>3. t \in purged => P(t) = {}
    BY Zenon, <1>4, <1>7
  <2>4. ref[t] \in Int
    BY Zenon, <1>0 DEF Shape
  <2>5. ref'[t] = ref[t] - (IF t \in purged THEN 1 ELSE 0) - Cardinality(P(t))
    BY Zenon, <1>2
  <2>6. replyTo'[t] = IF Cardinality(P(t)) > 0 THEN NoOne ELSE replyTo[t]
    BY Zenon, <1>2
  <2>7. pc'[t] = (IF t \in purged THEN "user" ELSE pc[t])
        /\ tstate'[t] = (IF t \in purged THEN "normal" ELSE tstate[t])
    BY Zenon, <1>2, <1>6
  <2>8. QED
    BY <1>5, <2>1, <2>2, <2>3, <2>4, <2>5, <2>6, <2>7
<1>9. Shape' /\ NoPanic'
  <2>1. \A t \in Threads : ref'[t] \in Int
    BY <1>8
  <2>2. ref' = [t \in Threads |-> ref'[t]]
    BY Zenon, <1>2
  <2>3. ref' \in [Threads -> Int]
    BY Zenon, <2>1, <2>2
  <2>4. DOMAIN pc' = Threads /\ DOMAIN tstate' = Threads /\ DOMAIN replyTo' = Threads
    BY Zenon, <1>2, <1>6
  <2>5. QED
    BY Zenon, <1>0, <1>1, <1>5, <1>6, <2>3, <2>4 DEF Shape, NoPanic
<1>10. Halting' /\ Emptied'
  <2>1. \A q \in Procs : cleaner'[q] \in {"purge", "notify", "notified"} => cleaner'[q] = cleaner[q]
    BY Zenon, <1>0, <1>1 DEF Shape
  <2>2. Halting'
    BY Zenon, <1>0, <1>1, <2>1 DEF Halting
  <2>3. Emptied'
    BY Zenon, <1>1, <2>1 DEF IInv, Emptied, ThreadsOf
  <2>4. QED
    BY Zenon, <2>2, <2>3
<1>11. ASSUME NEW t \in Threads
       PROVE  /\ t \in purged => ~AwaitsAnswer(t)'
              /\ t \notin purged => (AwaitsAnswer(t)' <=> AwaitsAnswer(t))
  BY Zenon, <1>1, <1>8 DEF AwaitsAnswer
<1>12. \A t \in Threads : Awaiters(t)' = Awaiters(t) \ P(t)
  BY Zenon, <1>1, <1>7, <1>11 DEF Awaiters
<1>13. ASSUME NEW t \in Threads
       PROVE  Placed(t)' /\ Engaged(t)' /\ Mine(t)' /\ Counted(t)' /\ Directed(t)'
  <2>1. Placed(t) /\ Engaged(t) /\ Mine(t) /\ Counted(t) /\ Directed(t)
    BY Zenon, Here
  <2>2. CASE t \in purged
    <3>1. /\ pc[t] = "asleep" /\ pid[t] = p /\ role[t] = "client" /\ AwaitsAnswer(t)
          /\ t \in listed /\ Awaiters(t) = {} /\ ~InKernel(t) /\ Alive(t)
      BY Zenon, <1>4, <2>2
    <3>2. pc'[t] = "user" /\ tstate'[t] = "normal" /\ P(t) = {} /\ ref'[t] = ref[t] - 1 /\ ~(ipcq'[t] > 0)
      BY Zenon, <1>8, <2>2
    <3>3. Placed(t)' /\ Engaged(t)' /\ Mine(t)' /\ Directed(t)'
      BY Zenon, <1>1, <1>3, <3>1, <3>2
      DEF Placed, Engaged, Mine, Directed, Serves, KernelLabels
    <3>4. Awaiters(t)' = Awaiters(t)
      BY Zenon, <1>12, <3>1
    <3>5. Counted(t)'
      BY Zenon, <2>1, <3>1, <3>2, <3>4, Ends
    <3>6. QED
      BY Zenon, <3>3, <3>5
  <2>3. CASE t \notin purged
    <3>1. /\ pc'[t] = pc[t] /\ tstate'[t] = tstate[t] /\ (ipcq'[t] > 0 <=> ipcq[t] > 0)
          /\ ref'[t] = ref[t] - 0 - Cardinality(P(t)) /\ (AwaitsAnswer(t)' <=> AwaitsAnswer(t))
      BY Zenon, <1>8, <1>11, <2>3
    <3>2. Placed(t)' /\ Mine(t)'
      BY Zenon, <1>1, <2>1, <3>1 DEF Placed, Mine, Replies
    <3>3. Engaged(t)'
      BY Zenon, <1>1, <2>1, <3>1 DEF Engaged, Question, Me, OpcodeOf, Replies
    <3>4. Counted(t)'
      <4>1. CASE Alive(t)
        <5>1. Held(t)' = Held(t)
          BY Zenon, <3>1 DEF Held, InKernel
        <5>2. P(t) \subseteq Awaiters(t)
          BY Zenon, <1>7
        <5>3. QED
          BY Zenon, <1>12, <3>1, <4>1, <5>1, <5>2, PurgedCount
      <4>2. CASE ~Alive(t)
        <5>1. P(t) = {}
          BY Zenon, <1>7, <4>2, NoneOwed
        <5>2. Cardinality(P(t)) = 0
          BY Zenon, <5>1, FS_EmptySet
        <5>3. ref'[t] = ref[t]
          BY <1>8, <3>1, <5>2
        <5>4. ~Alive(t)'
          BY Zenon, <3>1, <4>2 DEF Alive, InKernel
        <5>5. QED
          BY Zenon, <2>1, <3>1, <5>3, <5>4 DEF Counted
      <4>3. QED
        BY Zenon, <4>1, <4>2
    <3>5. Directed(t)'
      <4>1. ASSUME NEW d, Names(d, t)
            PROVE  Names(d, t)' \/ (P(t) # {} /\ Past(d)')
        <5>1. d[2] \in Awaiters(t) /\ pid[d[2]] = d[1] /\ d[2] \in Threads
          BY Zenon, <4>1 DEF Names, Awaiters
        <5>2. CASE d[2] \in purged
          <6>0. pid[d[2]] = p /\ pc'[d[2]] = "user"
            BY Zenon, <1>4, <1>8, <5>1, <5>2
          <6>1. d[1] = p /\ d[2] \in P(t) /\ pc'[d[2]] = "user"
            BY Zenon, <1>7, <5>1, <5>2, <6>0
          <6>2. QED
            BY Zenon, <1>1, <1>3, <5>1, <6>1 DEF Past
        <5>3. CASE d[2] \notin purged
          BY Zenon, <1>1, <1>7, <1>12, <5>1, <5>3 DEF Names
        <5>4. QED
          BY Zenon, <5>2, <5>3
      <4>2. ASSUME NEW d, Past(d)
            PROVE  Past(d)'
        <5>1. d[2] \in Threads
          BY Zenon, <4>2 DEF Past
        <5>2. pc'[d[2]] = pc[d[2]] \/ pc'[d[2]] = "user"
          BY Zenon, <1>8, <5>1
        <5>3. QED
          BY Zenon, <1>1, <4>2, <5>2 DEF Past
      <4>3. Serves(t)' <=> Serves(t)
        BY Zenon, <1>1, <3>1 DEF Serves
      <4>4. CASE P(t) = {}
        <5>1. replyTo'[t] = replyTo[t]
          BY Zenon, <1>8, <4>4
        <5>2. QED
          BY Zenon, <1>1, <2>1, <3>1, <4>1, <4>2, <4>3, <4>4, <5>1 DEF Directed
      <4>5. CASE P(t) # {}
        <5>1. replyTo'[t] = NoOne
          BY Zenon, <1>8, <4>5
        <5>2. QED
          BY Zenon, <1>1, <2>1, <3>1, <4>1, <4>2, <4>3, <5>1 DEF Directed
      <4>6. QED
        BY Zenon, <4>4, <4>5
    <3>6. QED
      BY Zenon, <3>2, <3>3, <3>4, <3>5
  <2>4. QED
    BY Zenon, <2>2, <2>3
<1>14. ASSUME NEW w \in Threads, NEW r \in Threads, AwaitsAnswer(w)', waitFor'[w][2] = r
       PROVE  Tied(w, r)'
  <2>1. w \notin purged /\ w \in Awaiters(r)
    BY Zenon, <1>1, <1>11, <1>14 DEF Awaiters
  <2>2. Tied(w, r)
    BY Zenon, <2>1, AwaiterTied
  <2>3. r \notin purged
    BY Zenon, <1>4, <2>2 DEF Tied
  <2>4. /\ pc'[r] = pc[r] /\ pc'[w] = pc[w] /\ (ipcq'[w] > 0 <=> ipcq[w] > 0)
    BY Zenon, <1>8, <2>1, <2>3
  <2>5. Stranded(w)' <=> Stranded(w)
    BY Zenon, <2>4 DEF Stranded
  <2>6. CASE Stranded(w)
    BY Zenon, <1>1, <2>2, <2>4, <2>5, <2>6 DEF Tied, Alive, InKernel
  <2>7. CASE ~Stranded(w)
    <3>1. P(r) = {}
      <4>1. SUFFICES ASSUME NEW x \in P(r) PROVE FALSE
        BY Zenon
      <4>2. x \in purged /\ x \in Awaiters(r) /\ ~Stranded(x)
        BY Zenon, <1>4, <1>7, <4>1
      <4>3. replyTo[r] = Me(x) /\ replyTo[r] = Me(w)
        <5>1. Tied(x, r)
          BY Zenon, <4>2, AwaiterTied
        <5>2. QED
          BY Zenon, <2>2, <2>7, <4>2, <5>1 DEF Tied
      <4>4. x = w
        BY <4>3 DEF Me
      <4>5. QED
        BY Zenon, <2>1, <4>2, <4>4
    <3>2. replyTo'[r] = replyTo[r]
      BY Zenon, <1>8, <3>1
    <3>3. QED
      BY Zenon, <1>1, <2>2, <2>4, <2>5, <2>7, <3>2 DEF Tied, Alive, InKernel, Owes, Serves, Me
  <2>8. QED
    BY Zenon, <2>6, <2>7
<1>15. \A t \in Threads : pid'[t] = pid[t] /\ (pc[t] \in Resting => pc'[t] \in Resting)
  BY Zenon, <1>1, <1>8 DEF Resting
<1>16. \A w \in Threads : AwaitsAnswer(w)' => waitFor'[w][2] \in Threads
  BY Zenon, <1>1, <1>11 DEF IInv, TiedAll, Tied
<1>17. Threads \subseteq Threads /\ Threads \ Threads = {}
  BY Zenon
<1>18. QED
  BY Zenon, <1>1, <1>5, <1>9, <1>10, <1>13, <1>14, <1>15, <1>16, <1>17, Step

\* ipc_notify_system: the popup thread of the system process.
LEMMA NotifyStep ==
  ASSUME IInv, NEW p \in Procs, ipc_notify_system(p)
  PROVE  IInv'
<1> USE DEF linkVars, userVars
<1>0. Shape /\ NoPanic /\ Apart(ipcq) /\ Halting /\ Emptied
  BY Zenon DEF IInv
<1>1. /\ cleaner[p] = "notify" /\ cleaner' = [cleaner EXCEPT ![p] = "notified"]
      /\ UNCHANGED <<ipcq, ipcLock, linkVars, msg, popup, dst, call, asked>>
  BY Zenon DEF ipc_notify_system, CleanerTo
<1>2. \A q \in Procs : cleaner'[q] \in {"purge", "notify", "notified"} =>
        \/ cleaner'[q] = cleaner[q]
        \/ cleaner'[q] = "notified" /\ cleaner[q] = "notify"
  BY Zenon, <1>0, <1>1 DEF Shape
<1>3. CASE System \notin popup
  <2>1. UNCHANGED <<threadVars, role, opcode>>
    BY Zenon, <1>3 DEF ipc_notify_system
  <2>2. UNCHANGED <<pc, tstate, pid, ref, listed, pstate, panicked, role, opcode>>
    BY Zenon, <2>1 DEF threadVars
  <2>3. Shape' /\ NoPanic' /\ Apart(ipcq')
    BY Zenon, <1>0, <1>1, <2>2 DEF Shape, NoPanic
  <2>4. Halting' /\ Emptied'
    BY Zenon, <1>0, <1>1, <1>2, <2>2 DEF Halting, Emptied, ThreadsOf
  <2>5. \A u \in Threads : Same(u)
    BY Zenon, <1>1, <2>2 DEF Same
  <2>6. QED
    BY Zenon, <1>1, <2>2, <2>3, <2>4, <2>5, IdleStep
<1>4. CASE System \in popup
  <2>1. PICK n \in Threads :
            /\ create_and_run_thread(n, System)
            /\ pc' = [pc EXCEPT ![n] = "user"]
            /\ ref' = [ref EXCEPT ![n] = NewRef]
            /\ role' = [role EXCEPT ![n] = "popup"]
            /\ opcode' = [opcode EXCEPT ![n] = "notify"]
    BY Zenon, <1>4 DEF ipc_notify_system
  <2>2. /\ tstate[n] = "free" /\ tstate' = [tstate EXCEPT ![n] = "normal"]
        /\ pid' = [pid EXCEPT ![n] = System] /\ listed' = listed \cup {n}
        /\ pstate' = pstate /\ panicked' = panicked
    BY Zenon, <2>1 DEF create_and_run_thread
  <2>3. pc[n] = "none" /\ ~AwaitsAnswer(n) /\ ~Owes(n) /\ ~(ipcq[n] > 0) /\ ~Alive(n)
    <3>1. Placed(n)
      BY Zenon, Here
    <3>2. QED
      BY Zenon, <2>2, <3>1 DEF Placed, AwaitsAnswer, Owes, Serves, Alive, InKernel
  <2>4. Awaiters(n) = {}
    BY Zenon, <2>3, NoneOwed
  <2>5. Shape' /\ NoPanic' /\ Apart(ipcq')
    BY <1>0, <1>1, <2>1, <2>2 DEF Shape, NoPanic, NewRef
  <2>6. /\ pc'[n] = "user" /\ tstate'[n] = "normal" /\ pid'[n] = System /\ ref'[n] = NewRef
        /\ role'[n] = "popup" /\ opcode'[n] = "notify" /\ n \in listed' /\ ~(ipcq'[n] > 0)
    BY Zenon, <1>0, <1>1, <2>1, <2>2, <2>3 DEF Shape
  <2>7. \A u \in Threads \ {n} : Same(u)
    BY Zenon, <1>0, <1>1, <2>1, <2>2 DEF Shape, Same
  <2>8. Placed(n)' /\ Engaged(n)' /\ Mine(n)' /\ ~AwaitsAnswer(n)' /\ Directed(n)'
    BY Zenon, <2>6, IpcAssumption
    DEF Placed, Engaged, Mine, AwaitsAnswer, Directed, Serves, KernelLabels
  <2>9. Awaiters(n)' = Awaiters(n) => Counted(n)'
    BY Zenon, <2>4, <2>6, Fresh
  <2>10. Quiet(n)
    BY Zenon, <2>3, <2>6, <2>8, <2>9 DEF Quiet
  <2>11. Halting' /\ Emptied'
    <3>1. Halting'
      BY Zenon, <1>0, <1>1, <1>2, <2>2 DEF Halting
    <3>2. ASSUME NEW q \in Procs \ {Server, System}, ThreadsOf(q) = {}
          PROVE  ThreadsOf(q)' = {}
      <4>1. SUFFICES ASSUME NEW x \in listed', pid'[x] = q PROVE FALSE
        BY Zenon DEF ThreadsOf
      <4>2. x \in listed /\ pid[x] = q
        BY Zenon, <1>0, <2>2, <4>1 DEF Shape
      <4>3. QED
        BY Zenon, <3>2, <4>2 DEF ThreadsOf
    <3>3. QED
      BY Zenon, <1>0, <1>2, <3>1, <3>2 DEF Emptied
  <2>12. QED
    BY Zenon, <1>1, <2>2, <2>5, <2>7, <2>10, <2>11, PairStep
<1>5. QED
  BY Zenon, <1>3, <1>4

\* The other steps of a cleaner, and exit_process.
LEMMA CleanerSteps ==
  ASSUME IInv, NEW p \in Procs,
         Acknowledge(p) \/ CleanerWake(p) \/ stop_all_threads(p) \/ (p \in Killable /\ Exit(p))
  PROVE  IInv'
<1> USE DEF linkVars, userVars, threadVars
<1>0. Shape /\ NoPanic /\ Apart(ipcq) /\ Halting /\ Emptied
  BY Zenon DEF IInv
<1>1. UNCHANGED <<pc, tstate, pid, ref, listed, panicked, ipcq, ipcLock, linkVars, msg, opcode,
                  popup, dst, userVars>>
  BY Zenon DEF Acknowledge, CleanerWake, stop_all_threads, Exit
<1>2. \/ UNCHANGED <<pstate, cleaner>>
      \/ pstate' = pstate /\ cleaner' = [cleaner EXCEPT ![p] = "stop"]
      \/ /\ pstate' = pstate
         /\ cleaner' = [cleaner EXCEPT ![p] = IF pstate[p] # "stopped" THEN "wait"
                          ELSE IF ThreadsOf(p) # {} THEN "purge" ELSE "notify"]
      \/ /\ p \in Killable /\ cleaner' = cleaner
         /\ pstate' = [pstate EXCEPT ![p] = "stopped"]
  BY Zenon DEF Acknowledge, CleanerWake, stop_all_threads, Exit, exit_process, CleanerTo
<1>3. \A q \in Procs :
        /\ pstate'[q] = pstate[q] \/ (q \in Killable /\ pstate'[q] = "stopped")
        /\ cleaner'[q] \in {"purge", "notify", "notified"} =>
             \/ cleaner'[q] = cleaner[q]
             \/ pstate[q] = "stopped" /\ (cleaner'[q] = "notify" => ThreadsOf(q) = {})
                  /\ cleaner'[q] # "notified"
  BY Zenon, <1>0, <1>2 DEF Shape
<1>4. Shape' /\ NoPanic' /\ Apart(ipcq')
  BY Zenon, <1>0, <1>1, <1>2 DEF Shape, NoPanic
<1>5. Halting'
  BY Zenon, <1>0, <1>1, <1>3 DEF Halting
<1>6. Emptied'
  BY Zenon, <1>0, <1>1, <1>3 DEF Emptied, ThreadsOf
<1>7. \A u \in Threads : Same(u)
  BY Zenon, <1>1 DEF Same
<1>8. QED
  BY Zenon, <1>1, <1>3, <1>4, <1>5, <1>6, <1>7, IdleStep

-----------------------------------------------------------------------------

\* Every step keeps the invariant.
LEMMA NextStep ==
  ASSUME Orderly, IInv, [Next]_vars
  PROVE  IInv'
<1>1. CASE UNCHANGED vars
  <2>1. /\ UNCHANGED <<pc, tstate, pid, ref, listed, pstate, panicked, ipcq, ipcLock, msg, opcode>>
        /\ UNCHANGED <<waitType, waitFor, replyTo, popup, dst, role, call, asked, cleaner>>
    BY Zenon, <1>1 DEF vars, threadVars, linkVars, userVars, stopVars
  <2>2. \A u \in Threads : Same(u)
    BY Zenon, <2>1 DEF Same
  <2>3. Shape' /\ NoPanic' /\ Apart(ipcq') /\ Halting' /\ Emptied'
    BY Zenon, <2>1 DEF IInv, Shape, NoPanic, Halting, Emptied, ThreadsOf
  <2>4. QED
    BY Zenon, <2>1, <2>2, <2>3, IdleStep
<1>2. ASSUME NEW t \in Threads, ThreadStep(t) PROVE IInv'
  <2>1. CASE \/ Answer(t) \/ Receive(t) \/ Return(t) \/ Stop(t) \/ ipc_reg_popup_handler(t)
             \/ Unlink(t) \/ Reap(t)
    BY Zenon, <2>1, AnswerStep, ReceiveStep, ReturnStep, StopStep, RegisterStep, UnlinkStep, ReapStep
  <2>2. CASE \/ ipc_request_popup(t) \/ ipc_request_serial(t) \/ ipc_request_wait(t)
             \/ sleep_ipc_thread(t)
    BY Zenon, <2>2, PopupStep, SerialStep, RequestWaitStep, SleepStep
  <2>3. CASE \/ ipc_respond_read(t) \/ ipc_respond(t) \/ ipc_receive(t) \/ ipc_receive_wait(t)
    BY Zenon, <2>3, RespondReadStep, RespondNoneStep, RespondFoundStep, ReceiveFoundStep,
       ReceiveWaitStep
  <2>4. QED
    BY Zenon, <1>2, <2>1, <2>2, <2>3 DEF ThreadStep
<1>3. ASSUME NEW t \in Threads, NEW k \in Kinds, Ask(t, k) PROVE IInv'
  BY Zenon, <1>3, AskStep
<1>4. ASSUME NEW p \in Procs, CleanerStep(p) PROVE IInv'
  BY Zenon, <1>4, CleanerSteps, PurgeStep, NotifyStep DEF CleanerStep
<1>5. ASSUME NEW p \in Killable, Exit(p) PROVE IInv'
  BY Zenon, <1>5, IpcAssumption, CleanerSteps
<1>6. QED
  BY Zenon, <1>1, <1>2, <1>3, <1>4, <1>5 DEF Next

\* The bookkeeping of ipc.c is right in every state, for any number of clients,

\* receivers, free structs, processes and messages.
THEOREM IpcInvariance ==
  ASSUME Orderly
  PROVE  Spec => []IInv
BY InitInv, NextStep, PTL DEF Spec

\* The reference count of every live thread is accounted for to the last unit,

\* whatever requests, responds, purges and exits interleave: nothing is leaked
\* by ipc_request, ipc_respond, ipc_receive or purge_ipc_queue, and nothing is
\* released twice.
THEOREM ReferencesExact ==
  ASSUME Orderly
  PROVE  Spec => []RefsExact
<1>1. IInv => RefsExact
  <2>1. SUFFICES ASSUME IInv, NEW t \in Threads, pc[t] \in {"user", "asleep"} \/ InKernel(t)
                 PROVE  ref[t] = NewRef + (IF InKernel(t) THEN 1 ELSE 0)
                                   + (IF AwaitsAnswer(t) THEN 1 ELSE 0)
                                   + Cardinality({w \in Threads : AwaitsAnswer(w) /\ waitFor[w][2] = t})
    BY Zenon DEF RefsExact
  <2>2. Counted(t) /\ Alive(t)
    BY Zenon, <2>1, Here DEF Alive
  <2>3. Cardinality(Awaiters(t)) \in Nat
    BY Zenon, AwaitersFinite
  <2>4. ref[t] = NewRef + Held(t) + Cardinality(Awaiters(t))
    BY Zenon, <2>2 DEF Counted
  <2>5. ref[t] = NewRef + (IF InKernel(t) THEN 1 ELSE 0) + (IF AwaitsAnswer(t) THEN 1 ELSE 0)
                   + Cardinality(Awaiters(t))
    BY <2>3, <2>4 DEF Held, NewRef
  <2>6. QED
    BY Zenon, <2>5 DEF Awaiters
<1>2. QED
  BY <1>1, IpcInvariance, PTL

\* Neither check of the kernel fails: exit_thread finds exactly one reference

\* left, and set_thread_state sees only the transitions it allows.
THEOREM KernelRuns ==
  ASSUME Orderly
  PROVE  Spec => []NoPanic
<1>1. IInv => NoPanic
  BY Zenon DEF IInv
<1>2. QED
  BY <1>1, IpcInvariance, PTL

\* A client of a process that has not been stopped comes back from a request

\* with the answer to that very request: ipc_respond, which reads ipc_reply_to
\* and searches the queue in two critical sections, never wakes somebody else.
THEOREM AnswersArrive ==
  ASSUME Orderly
  PROVE  Spec => []AnswerIsMine
<1>1. IInv => AnswerIsMine
  BY Zenon DEF IInv
<1>2. QED
  BY <1>1, IpcInvariance, PTL

\* When the system process has been told that a process is stopped, the process

\* has no thread left and gets none: _stop_all_threads decides on a count that
\* nothing can raise any more.
THEOREM StoppedStaysEmpty ==
  ASSUME Orderly, System \notin Killable
  PROVE  Spec => []StoppedIsEmpty
<1>1. IInv => StoppedIsEmpty
  <2>1. SUFFICES ASSUME IInv, NEW p \in Procs, cleaner[p] = "notified"
                 PROVE  ThreadsOf(p) = {}
    BY Zenon DEF StoppedIsEmpty
  <2>2. p \in Killable
    BY Zenon, <2>1 DEF IInv, Halting
  <2>3. QED
    BY Zenon, <2>1, <2>2 DEF IInv, Emptied, Orderly
<1>2. QED
  BY <1>1, IpcInvariance, PTL

-----------------------------------------------------------------------------
\* Where every request goes to a popup handler, as all requests of libc/sys/api do, no
\* thread is ever asleep outside the queue.

PopupOnly == Kinds \subseteq {"popup_request", "popup_notify"} /\ Server \in Preset

Findable(t) ==
  /\ pc[t] = "asleep" => ipcq[t] > 0
  /\ pc[t] \in {"sleep_ipc", "asleep"} => waitType[t] # "serial_recv"

FInv == IInv /\ Server \in popup /\ \A t \in Threads : Findable(t)

\* Every step keeps the sleepers on the queue.
LEMMA FindableStep ==
  ASSUME Orderly, PopupOnly, FInv, [Next]_vars
  PROVE  FInv'
<1> USE DEF linkVars, userVars, stopVars, threadVars
<1>1. IInv /\ IInv' /\ Shape /\ Shape' /\ Apart(ipcq) /\ Server \in popup
  BY Zenon, NextStep DEF FInv, IInv
<1>2. SUFFICES Server \in popup' /\ \A u \in Threads : Findable(u)'
  BY Zenon, <1>1 DEF FInv
<1>3. CASE UNCHANGED vars
  BY Zenon, <1>3 DEF vars, FInv, Findable
<1>4. ASSUME NEW t \in Threads, ThreadStep(t)
      PROVE  Server \in popup' /\ \A u \in Threads : Findable(u)'
  <2>1. CASE \/ Answer(t) \/ Receive(t) \/ Return(t) \/ Stop(t) \/ ipc_reg_popup_handler(t)
             \/ Unlink(t) \/ Reap(t) \/ ipc_respond_read(t)
    <3>1. /\ \A u \in Threads \ {t} : pc'[u] = pc[u] /\ waitType'[u] = waitType[u]
          /\ pc'[t] \notin {"sleep_ipc", "asleep"} /\ ipcq' = ipcq /\ Server \in popup'
      <4>1. /\ ipcq' = ipcq /\ Server \in popup'
            /\ waitType' = waitType \/ waitType' = [waitType EXCEPT ![t] = "none"]
        BY Zenon, <1>1, <2>1
        DEF Answer, Receive, Return, Stop, ipc_reg_popup_handler, Unlink, Reap, ipc_respond_read
      <4>2. \E place \in {"respond", "receive", "register", "exit", "user", "reap", "none", "respond_find"} :
              pc' = [pc EXCEPT ![t] = place]
        BY Zenon, <2>1
        DEF Answer, Receive, Return, Stop, ipc_reg_popup_handler, Unlink, Reap, ipc_respond_read,
            Dispatch, ThreadExit, DispatchStopped, exit_thread_unlink, exit_thread_reap
      <4>3. QED
        BY Zenon, <1>1, <4>1, <4>2 DEF Shape
    <3>2. QED
      BY Zenon, <3>1 DEF FInv, Findable
  <2>2. CASE ipc_request_popup(t)
    <3>1. PICK n \in Threads :
            \/ /\ pc' = [pc EXCEPT ![n] = "user", ![t] = "sleep_ipc"]
               /\ waitType' = [waitType EXCEPT ![t] = "resp"]
            \/ pc' = [pc EXCEPT ![n] = "user", ![t] = "user"] /\ waitType' = waitType
      BY <2>2 DEF ipc_request_popup, Link
    <3>2. ipcq' = ipcq /\ popup' = popup
      BY Zenon, <2>2 DEF ipc_request_popup
    <3>3. QED
      BY Zenon, <1>1, <3>1, <3>2 DEF FInv, Findable, Shape
  <2>3. CASE ipc_request_serial(t) \/ ipc_request_wait(t)
    <3>1. pc[t] = "request" /\ ~(PopsUp(call[t]) /\ Server \in popup)
      BY Zenon, <2>3 DEF ipc_request_serial, ipc_request_wait
    <3>2. call[t] \in Kinds
      BY Zenon, <1>1, <3>1, Here DEF Engaged
    <3>3. QED
      BY Zenon, <1>1, <3>1, <3>2 DEF PopupOnly, PopsUp
  <2>4. CASE sleep_ipc_thread(t)
    <3>1. /\ ipcq' = Pushed(t) /\ pc[t] = "sleep_ipc" /\ pc' = [pc EXCEPT ![t] = "asleep"]
          /\ waitType' = waitType /\ popup' = popup
      BY Zenon, <2>4 DEF sleep_ipc_thread
    <3>2. \A u \in Threads : ipcq'[u] > 0 <=> ipcq[u] > 0 \/ u = t
      BY Zenon, <1>1, <3>1, PushedQueue DEF Shape
    <3>3. QED
      BY Zenon, <1>1, <3>1, <3>2 DEF FInv, Findable, Shape
  <2>5. CASE ipc_respond(t)
    <3>1. /\ waitType' = waitType /\ popup' = popup
          /\ \/ ipcq' = ipcq /\ pc' = [pc EXCEPT ![t] = "user"]
             \/ \E w \in Threads : /\ First(w, Waiters(t)) /\ ipcq' = Without({w})
                                   /\ pc' = [pc EXCEPT ![w] = "user", ![t] = "user"]
      BY Zenon, <2>5 DEF ipc_respond
    <3>2. CASE ipcq' = ipcq /\ pc' = [pc EXCEPT ![t] = "user"]
      BY Zenon, <1>1, <3>1, <3>2 DEF FInv, Findable, Shape
    <3>3. ASSUME NEW w \in Threads, First(w, Waiters(t)), ipcq' = Without({w}),
                 pc' = [pc EXCEPT ![w] = "user", ![t] = "user"]
          PROVE  \A u \in Threads : Findable(u)'
      <4>1. ipcq[w] > 0
        BY Zenon, <3>3 DEF First, Waiters, Queued
      <4>2. \A u \in Threads \ {w} : ipcq'[u] > 0 <=> ipcq[u] > 0
        BY Zenon, <1>1, <3>3, <4>1, TakenOff
      <4>3. QED
        BY Zenon, <1>1, <3>1, <3>3, <4>2 DEF FInv, Findable, Shape
    <3>4. QED
      BY Zenon, <1>1, <3>1, <3>2, <3>3
  <2>6. CASE ipc_receive(t)
    <3>1. PICK s \in Threads : s \in WaitingSenders(pid[t])
      BY Zenon, <2>6 DEF ipc_receive, First
    <3>2. ipcq[s] > 0 /\ waitType[s] = "serial_recv"
      BY Zenon, <3>1 DEF WaitingSenders, Queued
    <3>3. pc[s] = "asleep"
      BY Zenon, <1>1, <3>2, Here DEF Placed
    <3>4. QED
      BY Zenon, <3>2, <3>3 DEF FInv, Findable
  <2>7. CASE ipc_receive_wait(t)
    <3>1. /\ ipcq' = ipcq /\ popup' = popup /\ pc' = [pc EXCEPT ![t] = "sleep_ipc"]
          /\ waitType' = [waitType EXCEPT ![t] = "serial_req"]
      BY Zenon, <2>7 DEF ipc_receive_wait
    <3>2. QED
      BY Zenon, <1>1, <3>1 DEF FInv, Findable, Shape
  <2>8. QED
    BY Zenon, <1>4, <2>1, <2>2, <2>3, <2>4, <2>5, <2>6, <2>7 DEF ThreadStep
<1>5. ASSUME NEW t \in Threads, NEW k \in Kinds, Ask(t, k)
      PROVE  Server \in popup' /\ \A u \in Threads : Findable(u)'
  BY Zenon, <1>1, <1>5 DEF FInv, Findable, Shape, Ask, Dispatch
<1>6. ASSUME NEW p \in Procs, CleanerStep(p) \/ Exit(p)
      PROVE  Server \in popup' /\ \A u \in Threads : Findable(u)'
  <2>1. CASE Acknowledge(p) \/ CleanerWake(p) \/ stop_all_threads(p) \/ Exit(p)
    BY Zenon, <2>1 DEF FInv, Findable, Acknowledge, CleanerWake, stop_all_threads, Exit
  <2>2. CASE purge_ipc_queue(p)
    <3> DEFINE purged == {w \in Queued : pid[w] = p}
    <3>1. /\ ipcq' = Without(purged) /\ waitType' = waitType /\ popup' = popup
          /\ pc' = [t \in Threads |-> IF t \in purged THEN "user" ELSE pc[t]]
      BY Zenon, <2>2 DEF purge_ipc_queue
    <3>2. purged \subseteq Queued
      BY Zenon
    <3> HIDE DEF purged
    <3>3. \A u \in Threads : ipcq'[u] > 0 <=> ipcq[u] > 0 /\ u \notin purged
      BY Zenon, <1>1, <3>1, <3>2, WithoutQueue DEF Shape
    <3>4. QED
      BY Zenon, <3>1, <3>3, <1>1 DEF FInv, Findable
  <2>3. CASE ipc_notify_system(p)
    <3>1. /\ ipcq' = ipcq /\ waitType' = waitType /\ popup' = popup
          /\ pc' = pc \/ \E n \in Threads : pc' = [pc EXCEPT ![n] = "user"]
      BY Zenon, <2>3 DEF ipc_notify_system
    <3>2. QED
      BY Zenon, <1>1, <3>1 DEF FInv, Findable, Shape
  <2>4. QED
    BY Zenon, <1>6, <2>1, <2>2, <2>3 DEF CleanerStep
<1>7. QED
  BY Zenon, <1>3, <1>4, <1>5, <1>6, IpcAssumption DEF Next

\* The thread a waiter expects the answer from is alive and will answer it, and

\* every sleeper is on ipc_wait_queue, where ipc_respond and purge_ipc_queue
\* look for it.
THEOREM WaitersFindable ==
  ASSUME Orderly, PopupOnly
  PROVE  Spec => [](Linked /\ SleepersQueued)
<1>1. Init => FInv
  <2>1. Init => IInv
    BY Zenon, InitInv
  <2>2. QED
    BY <2>1 DEF FInv, Findable, Init, ThreadsInit, PopupOnly
<1>2. FInv => Linked /\ SleepersQueued
  <2>1. SUFFICES ASSUME FInv PROVE Linked /\ SleepersQueued
    BY Zenon
  <2>2. IInv
    BY Zenon, <2>1 DEF FInv
  <2>3. SleepersQueued
    <3>1. \A t \in Threads : Placed(t)
      BY Zenon, <2>2, Here
    <3>2. QED
      BY Zenon, <2>1, <3>1 DEF FInv, Findable, Placed, SleepersQueued, Queued
  <2>4. ASSUME NEW w \in Threads, AwaitsAnswer(w)
        PROVE  waitFor[w][2] \in listed /\ replyTo[waitFor[w][2]] = Me(w)
    <3>1. PICK r \in Threads : r = waitFor[w][2] /\ Tied(w, r)
      BY Zenon, <2>2, <2>4 DEF IInv, TiedAll, Tied
    <3>2. ~Stranded(w)
      BY Zenon, <2>1 DEF FInv, Findable, Stranded
    <3>3. Placed(r)
      BY Zenon, <2>2, Here
    <3>4. r \in listed /\ replyTo[r] = Me(w)
      BY Zenon, <3>1, <3>2, <3>3 DEF Tied, Alive, InKernel, Placed
    <3>5. QED
      BY Zenon, <3>1, <3>4
  <2>5. Linked
    BY Zenon, <2>4 DEF Linked
  <2>6. QED
    BY Zenon, <2>3, <2>5
<1>3. QED
  BY <1>1, <1>2, FindableStep, PTL DEF Spec
=============================================================================
