------------------------------- MODULE IpcInv -------------------------------
(***************************************************************************)
(* The inductive invariant of message passing (module Ipc), what its steps *)
(* have in common, and that the steps of one thread and those that hand a  *)
(* request over keep it.  IpcProofs has the other handlers.                *)
(*                                                                         *)
(* A reference is taken by the client for itself and by the thread that is *)
(* to answer, and released by others: by ipc_respond, by purge_ipc_queue.  *)
(* So an exact count has to know who waits for whom, and that every waiter *)
(* is tied to a live thread of the server that has its question and its    *)
(* name in ipc_reply_to.  The exception is a sender that ipc_receive has   *)
(* linked and left off the queue: ipc_respond will not find it, and the    *)
(* receiver keeps its reference (see the run ipc_serial_first).            *)
(***************************************************************************)
EXTENDS Ipc, FiniteSetTheorems, TLAPS

\* Under these conditions the bookkeeping is right.  Popup handlers answer what
\* they are asked (exit_thread panics for one that does not, since its client
\* still holds a reference), the server is not stopped, and the programs of a
\* process that may be stopped send as libc/sys/api does, to popup handlers
\* only: purge_ipc_queue releases a reference of every thread it wakes, and a
\* thread that waits to send or to receive has none to give.
Orderly ==
  /\ AllPorts /\ Server \notin Killable
  /\ Killable # {} => /\ Kinds \subseteq {"popup_request", "popup_notify"}
                     /\ Server \in Preset
                     /\ \A t \in Receivers : Home[t] \notin Killable

KernelLabels == {"register", "request", "sleep_ipc", "respond", "respond_find", "receive"}

\* The variables are functions on threads and processes.
Shape ==
  /\ ipcq \in [Threads -> Nat]
  /\ DOMAIN pc = Threads /\ DOMAIN tstate = Threads /\ DOMAIN pid = Threads
  /\ ref \in [Threads -> Int] /\ listed \subseteq Threads /\ DOMAIN pstate = Procs
  /\ DOMAIN waitType = Threads /\ DOMAIN waitFor = Threads /\ DOMAIN replyTo = Threads
  /\ DOMAIN msg = Threads /\ DOMAIN opcode = Threads /\ DOMAIN dst = Threads
  /\ DOMAIN role = Threads /\ DOMAIN call = Threads /\ DOMAIN asked = Threads
  /\ DOMAIN cleaner = Procs

\* No two threads are at the same place of the queue.
Apart(q) == \A t, u \in Threads : q[t] > 0 /\ q[t] = q[u] => t = u

\* Where t is, on which lists and in which state.
Placed(t) ==
  /\ pc[t] = "none" <=> tstate[t] = "free"
  /\ t \in listed <=> pc[t] \notin {"none", "reap"}
  /\ pc[t] # "none" => pid[t] \in Procs
  /\ pc[t] \in KernelLabels \cup {"user"} => tstate[t] = "normal"
  /\ ipcq[t] > 0 => pc[t] = "asleep"
  /\ pc[t] = "asleep" => tstate[t] = "wait"
  /\ pc[t] = "sleep_ipc" => ipcLock = t

\* The message t has sent last.
Question(t) == [from |-> t, n |-> asked[t], answer |-> FALSE]

\* What t is doing there, and for whom.
Engaged(t) ==
  /\ pc[t] = "request" =>
       role[t] = "client" /\ call[t] \in Kinds /\ msg[t] = Question(t)
  /\ role[t] = "receiver" /\ pc[t] # "none" => pid[t] \notin Killable
  /\ pc[t] \in {"register", "receive"} => role[t] = "receiver" /\ opcode[t] # "request"
  /\ pc[t] \in {"respond", "respond_find"} =>
       role[t] \in {"receiver", "popup"} /\ opcode[t] # "request"
  /\ pc[t] \in {"sleep_ipc", "asleep"} =>
       \/ waitType[t] = "resp" /\ role[t] = "client" /\ Replies(call[t])
       \/ /\ waitType[t] = "serial_recv" /\ role[t] = "client" /\ Killable = {}
          /\ waitFor[t] = <<Server, NoThread>> /\ msg[t] = Question(t)
          /\ opcode[t] = OpcodeOf(call[t])
       \/ waitType[t] = "serial_req" /\ role[t] = "receiver" /\ waitFor[t] = Me(t)

\* The threads that wait for t's answer.
Awaiters(t) == {w \in Threads : AwaitsAnswer(w) /\ waitFor[w][2] = t}

\* t has its references of creation and run.
Alive(t) == pc[t] \in {"user", "asleep"} \/ InKernel(t)

\* The references t holds of itself: for dispatch(), for the answer it waits for.
Held(t) == (IF InKernel(t) THEN 1 ELSE 0) + (IF AwaitsAnswer(t) THEN 1 ELSE 0)

\* The reference count is exact.
Counted(t) ==
  /\ Alive(t) => ref[t] = NewRef + Held(t) + Cardinality(Awaiters(t))
  /\ pc[t] \in {"exit", "reap"} => ref[t] = 1

\* r has been handed a request and has not looked for its sender yet.
Serves(r) == role[r] \in {"receiver", "popup"} /\ pc[r] = "user" /\ opcode[r] = "request"
Owes(r) == Serves(r) \/ pc[r] \in {"respond", "respond_find"}

\* Off the queue before it was linked: ipc_respond will not find it.
Stranded(w) == pc[w] = "asleep" /\ ~(ipcq[w] > 0)

\* w waits for the answer of r, which is alive and knows it: it has w's question,
\* or already the answer, and will respond to w.
Tied(w, r) ==
  /\ r \in Threads /\ Alive(r) /\ pid[r] = Server /\ role[r] \in {"receiver", "popup"}
  /\ Stranded(w) => role[r] = "receiver"
  /\ ~Stranded(w) =>
       /\ Owes(r) /\ replyTo[r] = Me(w)
       /\ pc[r] = "respond_find" => dst[r] = Me(w)
       /\ msg[r] = [from |-> w, n |-> asked[w], answer |-> pc[r] # "user"]

TiedAll == \A w \in Threads : AwaitsAnswer(w) => Tied(w, waitFor[w][2])

\* d, which t has read, is a thread that waits for t, or that has been stopped.
Names(d, t) == d[2] \in Awaiters(t) /\ pid[d[2]] = d[1]
Past(d) == /\ d[1] \in Procs /\ pstate[d[1]] = "stopped"
           /\ d[2] \in Threads
           /\ pid[d[2]] = d[1] => pc[d[2]] \in {"none", "user", "exit", "reap"}

\* The thread a server thread is going to respond to.
Directed(t) ==
  /\ Serves(t) \/ pc[t] = "respond" => replyTo[t] = NoOne \/ Names(replyTo[t], t)
  /\ pc[t] = "respond_find" => Names(dst[t], t) \/ Past(dst[t])

\* Only killable processes are stopped, and a cleaner acts on stopped ones.
Halting ==
  /\ Killable # {} => Server \in popup
  /\ \A p \in Procs : pstate[p] = "stopped" => p \in Killable
  /\ \A p \in Procs : cleaner[p] \in {"purge", "notify", "notified"} => pstate[p] = "stopped"

\* The system is told only of processes without threads.
Emptied == \A p \in Procs \ {Server, System} :
             cleaner[p] \in {"notify", "notified"} => ThreadsOf(p) = {}

IInv ==
  /\ Shape /\ NoPanic /\ Apart(ipcq) /\ Halting /\ Emptied
  /\ \A t \in Threads : Placed(t) /\ Engaged(t) /\ Counted(t) /\ Directed(t)
  /\ TiedAll /\ AnswerIsMine

-----------------------------------------------------------------------------
\* The queue.

\* Fewer threads than places fit between two places.
LEMMA Between ==
  ASSUME ipcq \in [Threads -> Nat], Apart(ipcq), NEW a \in Nat, NEW b \in Nat, a < b,
         NEW S, S \subseteq Threads, \A g \in S : a < ipcq[g] /\ ipcq[g] < b
  PROVE  IsFiniteSet(S) /\ Cardinality(S) \in Nat /\ Cardinality(S) <= b - a - 1
<1> DEFINE f == [g \in S |-> ipcq[g]]
<1>1. f \in Injection(S, (a + 1)..(b - 1))
  BY DEF Apart, Injection, IsInjective
<1>2. IsFiniteSet((a + 1)..(b - 1)) /\ Cardinality((a + 1)..(b - 1)) = b - a - 1
  BY FS_Interval
<1>3. IsFiniteSet(S) /\ Cardinality(S) <= Cardinality((a + 1)..(b - 1))
  BY <1>1, <1>2, FS_Injection
<1>4. QED
  BY Zenon, <1>2, <1>3, FS_CardinalityType

\* list_remove: the others keep their order and stay apart.
LEMMA WithoutQueue ==
  ASSUME ipcq \in [Threads -> Nat], Apart(ipcq), NEW gone, gone \subseteq Queued
  PROVE  /\ Without(gone) \in [Threads -> Nat] /\ Apart(Without(gone))
         /\ \A t \in Threads : Without(gone)[t] > 0 <=> ipcq[t] > 0 /\ t \notin gone
<1> DEFINE Below(n) == {g \in gone : ipcq[g] < n}
<1>1. gone \subseteq Threads /\ \A g \in gone : ipcq[g] > 0
  BY Zenon DEF Queued
<1>2. ASSUME NEW t \in Threads
      PROVE  /\ Cardinality(Below(ipcq[t])) \in Nat
             /\ ipcq[t] > 0 => Cardinality(Below(ipcq[t])) < ipcq[t]
             /\ ipcq[t] = 0 => Cardinality(Below(ipcq[t])) = 0
  <2>1. CASE ipcq[t] = 0
    <3>1. Below(ipcq[t]) = {}
      BY <1>1, <2>1
    <3>2. QED
      BY Zenon, <2>1, <3>1, FS_EmptySet
  <2>2. CASE ipcq[t] > 0
    <3>1. Below(ipcq[t]) \subseteq Threads
          /\ \A g \in Below(ipcq[t]) : 0 < ipcq[g] /\ ipcq[g] < ipcq[t]
      BY Zenon, <1>1
    <3>2. ipcq[t] \in Nat
      BY Zenon
    <3> HIDE DEF Below
    <3>3. QED
      BY <2>2, <3>1, <3>2, Between
  <2>3. QED
    BY <2>1, <2>2
<1>3. \A t \in Threads : Without(gone)[t] =
        IF t \in gone THEN 0 ELSE ipcq[t] - Cardinality(Below(ipcq[t]))
  BY Zenon DEF Without
<1>4. Without(gone) \in [Threads -> Nat]
      /\ \A t \in Threads : Without(gone)[t] > 0 <=> ipcq[t] > 0 /\ t \notin gone
  <2>1. DOMAIN Without(gone) = Threads /\ Without(gone) = [t \in Threads |-> Without(gone)[t]]
    BY Zenon DEF Without
  <2> HIDE DEF Below
  <2>2. \A t \in Threads : Without(gone)[t] \in Nat
          /\ (Without(gone)[t] > 0 <=> ipcq[t] > 0 /\ t \notin gone)
    BY <1>1, <1>2, <1>3
  <2>3. QED
    BY Zenon, <2>1, <2>2
<1>5. ASSUME NEW t \in Threads \ gone, NEW u \in Threads \ gone, 0 < ipcq[t], ipcq[t] < ipcq[u]
      PROVE  Without(gone)[t] < Without(gone)[u]
  <2> DEFINE Mid == {g \in gone : ipcq[t] < ipcq[g] /\ ipcq[g] < ipcq[u]}
  <2>1. Below(ipcq[u]) = Below(ipcq[t]) \cup Mid /\ Below(ipcq[t]) \cap Mid = {}
    BY <1>1, <1>5 DEF Apart
  <2>2. Mid \subseteq Threads /\ \A g \in Mid : ipcq[t] < ipcq[g] /\ ipcq[g] < ipcq[u]
    BY Zenon, <1>1
  <2>3. Below(ipcq[t]) \subseteq Threads /\ \A g \in Below(ipcq[t]) : 0 < ipcq[g] /\ ipcq[g] < ipcq[t]
    BY Zenon, <1>1
  <2>4. ipcq[t] \in Nat /\ ipcq[u] \in Nat
    BY Zenon
  <2> HIDE DEF Mid, Below
  <2>5. IsFiniteSet(Mid) /\ Cardinality(Mid) \in Nat /\ Cardinality(Mid) <= ipcq[u] - ipcq[t] - 1
    BY Zenon, <1>5, <2>2, <2>4, Between
  <2>6. IsFiniteSet(Below(ipcq[t]))
    BY Zenon, <1>5, <2>3, <2>4, Between
  <2>7. Cardinality(Below(ipcq[u])) = Cardinality(Below(ipcq[t])) + Cardinality(Mid)
    <3>1. Cardinality(Below(ipcq[t]) \cup Mid) =
            Cardinality(Below(ipcq[t])) + Cardinality(Mid) - Cardinality(Below(ipcq[t]) \cap Mid)
      BY <2>5, <2>6, FS_Union, Zenon
    <3>2. Cardinality(Below(ipcq[t]) \cap Mid) = 0
      BY <2>1, FS_EmptySet, Zenon
    <3>3. QED
      BY <1>2, <2>1, <2>5, <3>1, <3>2
  <2>8. QED
    BY <1>2, <1>3, <2>4, <2>5, <2>7
<1>6. Apart(Without(gone))
  <2> HIDE DEF Below
  <2>1. SUFFICES ASSUME NEW t \in Threads, NEW u \in Threads, t # u,
                        Without(gone)[t] > 0, Without(gone)[t] = Without(gone)[u]
                 PROVE  FALSE
    BY Zenon DEF Apart
  <2>2. t \notin gone /\ u \notin gone /\ ipcq[t] > 0 /\ ipcq[u] > 0
    BY Zenon, <1>4, <2>1
  <2>3. ipcq[t] \in Nat /\ ipcq[u] \in Nat /\ ipcq[t] # ipcq[u]
    BY Zenon, <2>1, <2>2 DEF Apart
  <2>4. Without(gone)[t] \in Nat /\ Without(gone)[u] \in Nat
    BY Zenon, <1>4
  <2>5. QED
    BY <1>5, <2>1, <2>2, <2>3, <2>4
<1>7. QED
  BY Zenon, <1>4, <1>6

\* list_push_front: the new thread is the first, the others move on.
LEMMA PushedQueue ==
  ASSUME ipcq \in [Threads -> Nat], Apart(ipcq), NEW t \in Threads
  PROVE  /\ Pushed(t) \in [Threads -> Nat] /\ Apart(Pushed(t))
         /\ \A u \in Threads : Pushed(t)[u] > 0 <=> ipcq[u] > 0 \/ u = t
BY DEF Pushed, Apart

-----------------------------------------------------------------------------
\* Frames: what a step preserves of the threads it leaves alone.

\* The step leaves u alone.
Same(u) ==
  /\ pc'[u] = pc[u] /\ tstate'[u] = tstate[u] /\ pid'[u] = pid[u] /\ ref'[u] = ref[u]
  /\ u \in listed' <=> u \in listed
  /\ ipcq'[u] > 0 <=> ipcq[u] > 0
  /\ waitType'[u] = waitType[u] /\ waitFor'[u] = waitFor[u] /\ replyTo'[u] = replyTo[u]
  /\ msg'[u] = msg[u] /\ opcode'[u] = opcode[u] /\ dst'[u] = dst[u]
  /\ role'[u] = role[u] /\ call'[u] = call[u] /\ asked'[u] = asked[u]

\* What is said of a thread and its place holds while its fields stay.
LEMMA SamePlaced ==
  ASSUME NEW u \in Threads, Same(u), Placed(u), Engaged(u),
         pc[u] = "sleep_ipc" => ipcLock' = ipcLock
  PROVE  Placed(u)' /\ Engaged(u)'
BY DEF Same, Placed, Engaged, Question, Me

\* The count of a thread stays exact while the same threads wait for it.
LEMMA SameCounted ==
  ASSUME NEW u \in Threads, Same(u), Counted(u), Awaiters(u)' = Awaiters(u)
  PROVE  Counted(u)'
BY Zenon DEF Same, Counted, Held, Alive, InKernel, AwaitsAnswer

\* The threads that wait for t can be counted.
LEMMA AwaitersFinite ==
  ASSUME NEW t
  PROVE  IsFiniteSet(Awaiters(t)) /\ Cardinality(Awaiters(t)) \in Nat
<1>1. Awaiters(t) \in SUBSET Threads
  BY Zenon DEF Awaiters
<1>2. QED
  BY Zenon, <1>1, ThreadsAssumption, FS_Subset, FS_CardinalityType

\* A thread that stays in the kernel and waits for no answer holds what it held.
LEMMA HeldSteady ==
  ASSUME NEW t, ref[t] \in Int, ref' = ref, InKernel(t), InKernel(t)',
         ~AwaitsAnswer(t), ~AwaitsAnswer(t)'
  PROVE  ref'[t] = ref[t] + Held(t)' - Held(t)
  BY DEF Held

\* A step of t that changes ref[t] by as much as it changes what t holds.
LEMMA CountedBy ==
  ASSUME NEW t \in Threads, Counted(t), Alive(t), Alive(t)', Awaiters(t)' = Awaiters(t),
         ref'[t] = ref[t] + Held(t)' - Held(t)
  PROVE  Counted(t)'
<1>1. Cardinality(Awaiters(t)) \in Nat
  BY Zenon, AwaitersFinite
<1>2. Held(t) \in Nat /\ Held(t)' \in Nat
  BY DEF Held
<1>3. ref[t] = NewRef + Held(t) + Cardinality(Awaiters(t))
  BY Zenon DEF Counted
<1>4. ref'[t] = NewRef + Held(t)' + Cardinality(Awaiters(t)')
  BY <1>1, <1>2, <1>3 DEF NewRef
<1>5. pc'[t] \notin {"exit", "reap"}
  BY Zenon DEF Alive, InKernel
<1>6. QED
  BY <1>4, <1>5, Zenon DEF Counted

\* dispatch() takes a reference of t for its handler, and releases it.
LEMMA Enters ==
  ASSUME NEW t \in Threads, Counted(t), Alive(t), Awaiters(t)' = Awaiters(t),
         AwaitsAnswer(t)' <=> AwaitsAnswer(t), ~InKernel(t), InKernel(t)',
         ref'[t] = ref[t] + 1
  PROVE  Counted(t)'
<1>1. ref'[t] = ref[t] + Held(t)' - Held(t)
  <2>1. ref[t] \in Int
    BY AwaitersFinite DEF Counted, Held, NewRef
  <2>2. QED
    BY <2>1 DEF Held
<1>2. QED
  BY <1>1, CountedBy, Zenon DEF Alive

\* dispatch() releases the handler's reference of t.
LEMMA Leaves ==
  ASSUME NEW t \in Threads, Counted(t), Alive(t)', Awaiters(t)' = Awaiters(t),
         AwaitsAnswer(t)' <=> AwaitsAnswer(t), InKernel(t), ~InKernel(t)',
         ref'[t] \in {ref[t] + -1, ref[t] - 1}
  PROVE  Counted(t)'
<1>1. ref'[t] = ref[t] + Held(t)' - Held(t)
  <2>1. ref[t] \in Int
    BY AwaitersFinite DEF Counted, Held, NewRef, Alive
  <2>2. QED
    BY <2>1 DEF Held
<1>2. QED
  BY <1>1, CountedBy, Zenon DEF Alive

\* Somebody else wakes t, which holds no reference of its own.
LEMMA Keeps ==
  ASSUME NEW t \in Threads, Counted(t), Alive(t), Alive(t)', Awaiters(t)' = Awaiters(t),
         AwaitsAnswer(t)' <=> AwaitsAnswer(t), InKernel(t)' <=> InKernel(t), ref'[t] = ref[t]
  PROVE  Counted(t)'
BY Zenon DEF Counted, Alive, Held, InKernel

\* A client takes a reference of itself for the answer it is going to wait for.
LEMMA Begins ==
  ASSUME NEW t \in Threads, Counted(t), Alive(t), Alive(t)', Awaiters(t)' = Awaiters(t),
         ~AwaitsAnswer(t), AwaitsAnswer(t)', InKernel(t)' <=> InKernel(t),
         ref'[t] = ref[t] + 1
  PROVE  Counted(t)'
<1>1. ref'[t] = ref[t] + Held(t)' - Held(t)
  <2>1. ref[t] \in Int
    BY AwaitersFinite DEF Counted, Held, NewRef, Alive
  <2>2. QED
    BY <2>1 DEF Held
<1>2. QED
  BY <1>1, CountedBy, Zenon

\* One more thread waits for t, which takes a reference for it or keeps dispatch()'s.
LEMMA Takes ==
  ASSUME NEW t \in Threads, Counted(t), Alive(t), pc'[t] = "user", ~AwaitsAnswer(t),
         Cardinality(Awaiters(t)') = Cardinality(Awaiters(t)) + 1,
         \/ ~InKernel(t) /\ ref'[t] = ref[t] + 1
         \/ InKernel(t) /\ ref'[t] = ref[t]
  PROVE  Counted(t)'
<1>1. Held(t)' = 0 /\ ~InKernel(t)'
  BY DEF Held, InKernel, AwaitsAnswer
<1>2. Cardinality(Awaiters(t)) \in Nat /\ ref[t] = NewRef + Held(t) + Cardinality(Awaiters(t))
  BY Zenon, AwaitersFinite DEF Counted
<1>3. ref'[t] = NewRef + Held(t)' + Cardinality(Awaiters(t)')
  BY <1>1, <1>2 DEF Held, NewRef
<1>4. QED
  BY Zenon, <1>3 DEF Counted

\* The answer t was waiting for has come, or t has been purged from the queue.
LEMMA Ends ==
  ASSUME NEW t \in Threads, Counted(t), Alive(t), ~InKernel(t), AwaitsAnswer(t),
         pc'[t] = "user", Awaiters(t)' = Awaiters(t), ref'[t] = ref[t] - 1
  PROVE  Counted(t)'
<1>1. Held(t)' = 0 /\ Held(t) = 1
  BY DEF Held, InKernel, AwaitsAnswer
<1>2. Cardinality(Awaiters(t)) \in Nat /\ ref[t] = NewRef + Held(t) + Cardinality(Awaiters(t))
  BY Zenon, AwaitersFinite DEF Counted
<1>3. ref'[t] = NewRef + Held(t)' + Cardinality(Awaiters(t)')
  BY <1>1, <1>2 DEF NewRef
<1>4. QED
  BY Zenon, <1>3 DEF Counted

\* t has answered w, and gives up the reference of w's request with dispatch()'s.
LEMMA Releases ==
  ASSUME NEW t \in Threads, Counted(t), InKernel(t), ~AwaitsAnswer(t), pc'[t] = "user",
         NEW w \in Awaiters(t), Awaiters(t)' = Awaiters(t) \ {w}, ref'[t] = ref[t] - 2
  PROVE  Counted(t)'
<1>1. Held(t)' = 0 /\ Held(t) = 1
  BY DEF Held, InKernel, AwaitsAnswer
<1>2. Cardinality(Awaiters(t)) \in Nat /\ ref[t] = NewRef + Held(t) + Cardinality(Awaiters(t))
  BY Zenon, AwaitersFinite DEF Counted, Alive
<1>3. Cardinality(Awaiters(t)') = Cardinality(Awaiters(t)) - 1
  BY Zenon, AwaitersFinite, FS_RemoveElement
<1>4. ref'[t] = NewRef + Held(t)' + Cardinality(Awaiters(t)')
  BY <1>1, <1>2, <1>3 DEF NewRef
<1>5. QED
  BY Zenon, <1>4 DEF Counted

\* A thread that has just been created, and that one thread or nobody waits for.
LEMMA Fresh ==
  ASSUME NEW t \in Threads, Awaiters(t) = {}, pc'[t] = "user",
         \/ ref'[t] = NewRef /\ Awaiters(t)' = Awaiters(t)
         \/ ref'[t] = NewRef + 1 /\ Cardinality(Awaiters(t)') = Cardinality(Awaiters(t)) + 1
  PROVE  Counted(t)'
<1>1. Held(t)' = 0
  BY DEF Held, InKernel, AwaitsAnswer
<1>2. Cardinality(Awaiters(t)) = 0
  BY FS_EmptySet, Zenon
<1>3. ref'[t] = NewRef + Held(t)' + Cardinality(Awaiters(t)')
  BY <1>1, <1>2 DEF NewRef
<1>4. QED
  BY Zenon, <1>3 DEF Counted

\* A reference taken or released leaves a count a number.
LEMMA AddInt ==
  ASSUME NEW f \in [Threads -> Int], NEW t \in Threads
  PROVE  [f EXCEPT ![t] = @ + 1] \in [Threads -> Int]
         /\ [f EXCEPT ![t] = @ + -1] \in [Threads -> Int]
BY SMT

\* The references two threads take or release in one handler.
LEMMA PairInt ==
  ASSUME NEW f \in [Threads -> Int], NEW t \in Threads, NEW u \in Threads
  PROVE  /\ [f EXCEPT ![u] = NewRef + 1, ![t] = @ + 1] \in [Threads -> Int]
         /\ [f EXCEPT ![u] = NewRef, ![t] = @ - 1] \in [Threads -> Int]
         /\ [f EXCEPT ![u] = @ + 1, ![t] = @ + 1] \in [Threads -> Int]
         /\ [f EXCEPT ![u] = @ - 1, ![t] = @ - 2] \in [Threads -> Int]
BY SMT DEF NewRef

\* A waiter and the thread it waits for stay tied while both stay as they are.
LEMMA SameTied ==
  ASSUME Shape, Shape', NEW w \in Threads, NEW r \in Threads, Same(w), Same(r), Tied(w, r)
  PROVE  Tied(w, r)'
BY Zenon DEF Same, Tied, Shape, Alive, InKernel, Stranded, Owes, Serves, Question, Me

\* A client that stays where it is keeps its answer.
LEMMA SameMine ==
  ASSUME NEW u \in Threads, Same(u), Mine(u), Placed(u),
         \A q \in Procs : pstate[q] = "stopped" => pstate'[q] = "stopped"
  PROVE  Mine(u)'
BY Zenon DEF Same, Mine, Replies, Placed

\* A thread that stays where it is waits as before.
LEMMA SameAwaits ==
  ASSUME NEW w \in Threads, Same(w)
  PROVE  AwaitsAnswer(w)' <=> AwaitsAnswer(w)
BY Zenon DEF Same, AwaitsAnswer

\* Who waits for t is a client tied to t.
LEMMA AwaiterTied ==
  ASSUME IInv, NEW t \in Threads, NEW w \in Awaiters(t)
  PROVE  /\ w \in Threads /\ AwaitsAnswer(w) /\ waitFor[w][2] = t /\ Tied(w, t)
         /\ w # t /\ role[w] = "client"
<1>1. w \in Threads /\ AwaitsAnswer(w) /\ waitFor[w][2] = t
  BY Zenon DEF Awaiters
<1>2. Tied(w, t)
  BY <1>1, Zenon DEF IInv, TiedAll
<1>3. role[w] = "client"
  <2>1. Engaged(w)
    BY <1>1, Zenon DEF IInv
  <2>2. QED
    BY Zenon, <1>1, <2>1 DEF Engaged, AwaitsAnswer
<1>4. role[t] \in {"receiver", "popup"}
  BY <1>2, Zenon DEF Tied
<1>5. QED
  BY Zenon, <1>1, <1>2, <1>3, <1>4

\* The invariant, of one thread.
LEMMA Here ==
  ASSUME IInv, NEW t \in Threads
  PROVE  /\ Shape /\ NoPanic /\ Apart(ipcq) /\ Halting
         /\ Placed(t) /\ Engaged(t) /\ Counted(t) /\ Directed(t) /\ Mine(t)
BY Zenon DEF IInv, AnswerIsMine

\* Only a thread of Server that has a request, or that is a receiver, is waited for.
LEMMA NoneOwed ==
  ASSUME IInv, NEW t \in Threads,
         ~Alive(t) \/ pid[t] # Server \/ (~Owes(t) /\ role[t] # "receiver")
  PROVE  Awaiters(t) = {}
BY AwaiterTied, Zenon DEF Tied

\* Where a thread can be once its process is stopped and it has been purged.
Resting == {"none", "user", "exit", "reap"}

\* Who waits for a thread without a request is stranded, and stays tied to it.
LEMMA StrandedTied ==
  ASSUME NEW w \in Threads, NEW t \in Threads, Tied(w, t), Same(w), ~Owes(t),
         Alive(t)', pid'[t] = pid[t], role'[t] = role[t]
  PROVE  Tied(w, t)'
BY Zenon DEF Tied, Same, Stranded

\* What a step of t leaves alone besides the other threads.
Modest(t) ==
  /\ pstate' = pstate /\ cleaner' = cleaner /\ popup \subseteq popup'
  /\ listed' \subseteq listed /\ pid'[t] = pid[t]
  /\ ipcLock' = ipcLock \/ ipcLock = NoThread \/ ipcLock = t
  /\ pstate[pid[t]] = "stopped" /\ pc[t] \in Resting => pc'[t] \in Resting

\* A step of one thread t that neither starts nor ends a wait for an answer.
LEMMA OwnStep ==
  ASSUME IInv, NEW t \in Threads, \A u \in Threads \ {t} : Same(u), Modest(t),
         Shape', NoPanic', Apart(ipcq'), Placed(t)', Engaged(t)', Mine(t)',
         AwaitsAnswer(t)' <=> AwaitsAnswer(t),
         AwaitsAnswer(t) => /\ waitFor'[t] = waitFor[t] /\ asked'[t] = asked[t]
                            /\ ~Stranded(t) /\ ~Stranded(t)',
         Awaiters(t)' = Awaiters(t) => Counted(t)' /\ Directed(t)',
         \A w \in Awaiters(t) : Same(w) => Tied(w, t)'
  PROVE  IInv'
<1>1. \A u \in Threads : Placed(u)' /\ Engaged(u)'
  <2>1. \A u \in Threads \ {t} : pc[u] = "sleep_ipc" => ipcLock' = ipcLock
    BY ThreadsAssumption, Zenon DEF IInv, Placed, Modest
  <2>2. QED
    BY Zenon, <2>1, SamePlaced DEF IInv
<1>2. \A u \in Threads : (AwaitsAnswer(u)' <=> AwaitsAnswer(u)) /\ (AwaitsAnswer(u) => waitFor'[u] = waitFor[u])
  BY SameAwaits, Zenon DEF Same
<1>3. \A u \in Threads : Awaiters(u)' = Awaiters(u)
  BY Zenon, <1>2 DEF Awaiters
<1>4. \A u \in Threads : Counted(u)'
  BY Zenon, <1>3, SameCounted DEF IInv
<1>5. TiedAll'
  <2>1. SUFFICES ASSUME NEW w \in Threads, AwaitsAnswer(w)
                 PROVE  Tied(w, waitFor[w][2])'
    BY Zenon, <1>2 DEF TiedAll
  <2>2. PICK r \in Threads : r = waitFor[w][2] /\ r = waitFor'[w][2] /\ Tied(w, r)
                              /\ w \in Awaiters(r) /\ w # r
    <3>1. Tied(w, waitFor[w][2]) /\ waitFor[w][2] \in Threads
      BY <2>1, Zenon DEF IInv, TiedAll, Tied
    <3>2. w \in Awaiters(waitFor[w][2])
      BY Zenon, <2>1 DEF Awaiters
    <3>3. w # waitFor[w][2]
      BY Zenon, <3>1, <3>2, AwaiterTied
    <3>4. QED
      BY Zenon, <1>2, <2>1, <3>1, <3>2, <3>3
  <2> SUFFICES Tied(w, r)'
    BY Zenon, <2>2
  <2>3. CASE r = t
    BY Zenon, <2>2, <2>3
  <2>4. CASE w = t
    <3>1. Same(r) /\ ~Stranded(w) /\ ~Stranded(w)' /\ pid'[w] = pid[w] /\ asked'[w] = asked[w]
      BY <2>1, <2>2, <2>4, Zenon DEF Modest
    <3>2. QED
      BY <2>2, <3>1, Zenon DEF Same, Tied, Alive, InKernel, Owes, Serves, Me
  <2>5. CASE r # t /\ w # t
    BY Zenon, <2>2, <2>5, SameTied DEF IInv
  <2>6. QED
    BY Zenon, <2>2, <2>3, <2>4, <2>5
<1>6. \A u \in Threads : Directed(u)'
  <2>1. SUFFICES ASSUME NEW u \in Threads \ {t}
                 PROVE  Directed(u)'
    BY <1>3, Zenon
  <2>2. \A x \in Threads : pid'[x] = pid[x]
    BY Zenon DEF Same, Modest
  <2>3. ASSUME NEW d, Names(d, u)
        PROVE  Names(d, u)'
    BY Zenon, <1>3, <2>2, <2>3 DEF Names, Awaiters
  <2>4. ASSUME NEW d, Past(d)
        PROVE  Past(d)'
    BY <2>2, <2>4, Zenon DEF Past, Same, Resting, Modest
  <2>5. Same(u) /\ Directed(u)
    BY Zenon DEF IInv
  <2>6. QED
    BY <2>3, <2>4, <2>5, Zenon DEF Directed, Serves, Same
<1>7. AnswerIsMine'
  BY SameMine, Zenon DEF AnswerIsMine, IInv, Modest
<1>8. Halting' /\ Emptied'
  <2>1. Halting'
    BY Zenon DEF Modest, IInv, Halting
  <2>2. ASSUME NEW p \in Procs, ThreadsOf(p) = {}
        PROVE  ThreadsOf(p)' = {}
    <3>1. SUFFICES ASSUME NEW x \in listed', pid'[x] = p PROVE FALSE
      BY Zenon DEF ThreadsOf
    <3>2. x \in listed /\ x \in Threads /\ pid'[x] = pid[x]
      BY <3>1, Zenon DEF Modest, Same, IInv, Shape
    <3>3. QED
      BY <2>2, <3>1, <3>2, Zenon DEF ThreadsOf
  <2>3. Emptied'
    BY <2>2, Zenon DEF Modest, IInv, Emptied
  <2>4. QED
    BY Zenon, <2>1, <2>3
<1>9. QED
  BY Zenon, <1>1, <1>4, <1>5, <1>6, <1>7, <1>8 DEF IInv
-----------------------------------------------------------------------------
\* Steps of several threads.

\* A step that leaves the threads outside D alone, and the sets of those that

\* wait for them.
LEMMA Step ==
  ASSUME IInv, NEW D, D \subseteq Threads,
         \A u \in Threads \ D : Same(u) /\ Awaiters(u)' = Awaiters(u),
         Shape', NoPanic', Apart(ipcq'), Halting', Emptied',
         \A q \in Procs : pstate[q] = "stopped" => pstate'[q] = "stopped",
         ipcLock' = ipcLock \/ ipcLock = NoThread,
         \A t \in D : Placed(t)' /\ Engaged(t)' /\ Counted(t)' /\ Directed(t)' /\ Mine(t)',
         \A t \in D : \/ pid'[t] = pid[t] /\ (pc[t] \in Resting => pc'[t] \in Resting)
                      \/ pc[t] = "none" /\ pc'[t] \in Resting,
         \A w \in D : AwaitsAnswer(w)' => waitFor'[w][2] \in Threads,
         \A w \in Threads, r \in Threads :
            /\ AwaitsAnswer(w)' /\ waitFor'[w][2] = r
            /\ w \in D \/ r \in D
            => Tied(w, r)'
  PROVE  IInv'
<1>1. \A u \in Threads : Placed(u)' /\ Engaged(u)'
  <2>1. \A u \in Threads \ D : pc[u] = "sleep_ipc" => ipcLock' = ipcLock
    BY ThreadsAssumption, Zenon DEF IInv, Placed
  <2>2. QED
    BY Zenon, <2>1, SamePlaced DEF IInv
<1>2. \A u \in Threads : Counted(u)'
  BY SameCounted, Zenon DEF IInv
<1>3. TiedAll'
  <2>1. SUFFICES ASSUME NEW w \in Threads, AwaitsAnswer(w)'
                 PROVE  Tied(w, waitFor[w][2])'
    BY Zenon DEF TiedAll
  <2>2. CASE w \in D
    <3>1. PICK r \in Threads : r = waitFor'[w][2]
      BY <2>1, <2>2, Zenon
    <3>2. Tied(w, r)'
      BY Zenon, <2>1, <2>2, <3>1
    <3>3. QED
      BY Zenon, <3>1, <3>2
  <2>3. CASE w \notin D
    <3>1. Same(w) /\ AwaitsAnswer(w)
      BY <2>1, <2>3, SameAwaits, Zenon
    <3>2. PICK r \in Threads : r = waitFor[w][2] /\ Tied(w, r)
      BY <3>1, Zenon DEF IInv, TiedAll, Tied
    <3>3. r = waitFor'[w][2]
      BY <3>1, <3>2, Zenon DEF Same
    <3>4. Tied(w, r)'
      <4>1. CASE r \in D
        BY Zenon, <2>1, <3>3, <4>1
      <4>2. CASE r \notin D
        BY <3>1, <3>2, <4>2, SameTied, Zenon DEF IInv
      <4>3. QED
        BY Zenon, <4>1, <4>2
    <3>5. QED
      BY Zenon, <3>3, <3>4
  <2>4. QED
    BY Zenon, <2>2, <2>3
<1>4. \A u \in Threads : Directed(u)'
  <2>1. SUFFICES ASSUME NEW u \in Threads \ D
                 PROVE  Directed(u)'
    BY Zenon
  <2>2. Same(u) /\ Awaiters(u)' = Awaiters(u) /\ Directed(u)
    BY Zenon DEF IInv
  <2>3. ASSUME NEW d, Names(d, u)
        PROVE  Names(d, u)'
    <3>1. d[2] \in Awaiters(u) /\ pid[d[2]] = d[1] /\ d[2] \in Threads /\ AwaitsAnswer(d[2])
      BY <2>3, Zenon DEF Names, Awaiters
    <3>2. pid'[d[2]] = pid[d[2]]
      <4>1. pc[d[2]] # "none"
        BY Zenon, <3>1 DEF AwaitsAnswer
      <4>2. QED
        BY <3>1, <4>1, Zenon DEF Same
    <3>3. QED
      BY <2>2, <3>1, <3>2, Zenon DEF Names
  <2>4. ASSUME NEW d, Past(d)
        PROVE  Past(d)'
    BY <2>4, Zenon DEF Past, Same, Resting
  <2>5. QED
    BY <2>2, <2>3, <2>4, Zenon DEF Directed, Serves, Same
<1>5. AnswerIsMine'
  BY SameMine, Zenon DEF AnswerIsMine, IInv
<1>6. QED
  BY <1>1, <1>2, <1>3, <1>4, <1>5, Zenon DEF IInv

\* A step that leaves all threads alone.
LEMMA IdleStep ==
  ASSUME IInv, \A u \in Threads : Same(u), ipcLock' = ipcLock,
         Shape', NoPanic', Apart(ipcq'), Halting', Emptied',
         \A q \in Procs : pstate[q] = "stopped" => pstate'[q] = "stopped"
  PROVE  IInv'
<1>1. \A u \in Threads : Awaiters(u)' = Awaiters(u)
  BY Zenon, SameAwaits DEF Awaiters, Same
<1> DEFINE D == {}
<1>2. D \subseteq Threads /\ \A u : u \notin D
  BY Zenon
<1> HIDE DEF D
<1>3. \A u \in Threads \ D : Same(u) /\ Awaiters(u)' = Awaiters(u)
  BY Zenon, <1>1
<1>4. /\ \A t \in D : Placed(t)' /\ Engaged(t)' /\ Counted(t)' /\ Directed(t)' /\ Mine(t)'
      /\ \A t \in D : \/ pid'[t] = pid[t] /\ (pc[t] \in Resting => pc'[t] \in Resting)
                      \/ pc[t] = "none" /\ pc'[t] \in Resting
      /\ \A w \in D : AwaitsAnswer(w)' => waitFor'[w][2] \in Threads
      /\ \A w \in Threads, r \in Threads :
            /\ AwaitsAnswer(w)' /\ waitFor'[w][2] = r
            /\ w \in D \/ r \in D
            => Tied(w, r)'
  BY Zenon, <1>2
<1>5. QED
  BY Zenon, <1>2, <1>3, <1>4, Step

\* t goes to user mode, or is created, and waits for no answer.
Quiet(t) ==
  /\ Placed(t)' /\ Engaged(t)' /\ Mine(t)' /\ Directed(t)'
  /\ Awaiters(t)' = Awaiters(t) => Counted(t)'
  /\ ~AwaitsAnswer(t) /\ ~AwaitsAnswer(t)' /\ ~Owes(t)
  /\ pc'[t] = "user"
  /\ pc[t] = "none" \/ (Alive(t) /\ pid'[t] = pid[t] /\ role'[t] = role[t])

\* A step of the threads a and b that starts and ends no wait for an answer.
LEMMA PairStep ==
  ASSUME IInv, NEW a \in Threads, NEW b \in Threads,
         \A u \in Threads \ {a, b} : Same(u),
         Shape', NoPanic', Apart(ipcq'), Halting', Emptied', pstate' = pstate,
         ipcLock' = ipcLock \/ ipcLock = NoThread,
         Quiet(a), Quiet(b)
  PROVE  IInv'
<1>1. \A u \in Threads : (AwaitsAnswer(u)' <=> AwaitsAnswer(u)) /\ (AwaitsAnswer(u) => waitFor'[u] = waitFor[u])
  BY SameAwaits, Zenon DEF Same, Quiet
<1>2. \A u \in Threads : Awaiters(u)' = Awaiters(u)
  BY Zenon, <1>1 DEF Awaiters
<1>3. ASSUME NEW w \in Threads, NEW r \in Threads, AwaitsAnswer(w)', waitFor'[w][2] = r,
             w \in {a, b} \/ r \in {a, b}
      PROVE  Tied(w, r)'
  <2>1. w \notin {a, b} /\ r \in {a, b} /\ Same(w)
    BY <1>3, Zenon DEF Quiet
  <2>2. w \in Awaiters(r)
    BY Zenon, <1>2, <1>3 DEF Awaiters
  <2>3. Tied(w, r)
    BY Zenon, <2>2, AwaiterTied
  <2>4. pc[r] # "none"
    BY Zenon, <2>3 DEF Tied, Alive, InKernel
  <2>5. Alive(r)' /\ pid'[r] = pid[r] /\ role'[r] = role[r] /\ ~Owes(r)
    BY <2>1, <2>4, Zenon DEF Alive, Quiet
  <2>6. QED
    BY Zenon, <2>1, <2>3, <2>5, StrandedTied
<1>4. \A t \in {a, b} : Counted(t)' /\ pc'[t] \in Resting
  BY <1>2, Zenon DEF Resting, Quiet
<1>5. \A t \in {a, b} :
        /\ Placed(t)' /\ Engaged(t)' /\ Mine(t)' /\ Directed(t)' /\ ~AwaitsAnswer(t)'
        /\ pc[t] = "none" \/ pid'[t] = pid[t]
  BY Zenon DEF Quiet
<1>6. QED
  BY <1>2, <1>3, <1>4, <1>5, Step, Zenon

\* A step with which the client c begins to wait for the answer of r, which is
\* handed c's question.
LEMMA LinkStep ==
  ASSUME IInv, NEW c \in Threads, NEW r \in Threads, c # r,
         \A u \in Threads \ {c, r} : Same(u),
         Shape', NoPanic', Apart(ipcq'), Halting', Emptied', pstate' = pstate,
         ipcLock' = ipcLock \/ ipcLock = NoThread,
         \A t \in {c, r} : Placed(t)' /\ Engaged(t)' /\ Mine(t)' /\ ~AwaitsAnswer(t),
         role[c] = "client", role'[c] = "client", pid'[c] = pid[c], asked'[c] = asked[c],
         pc[c] \notin Resting, pc'[c] # "user", AwaitsAnswer(c)', waitFor'[c][2] = r,
         Awaiters(c)' = Awaiters(c) => Counted(c)',
         ~Owes(r), pc'[r] = "user", pid'[r] = Server, opcode'[r] = "request",
         role'[r] \in {"receiver", "popup"}, Stranded(c)' => role'[r] = "receiver",
         replyTo'[r] = Me(c), msg'[r] = Question(c),
         pc[r] = "none" \/ (Alive(r) /\ pid'[r] = pid[r] /\ role'[r] = role[r]),
         Cardinality(Awaiters(r)') = Cardinality(Awaiters(r)) + 1 => Counted(r)'
  PROVE  IInv'
<1>1. Awaiters(c) = {}
  BY Zenon, AwaiterTied DEF Tied
<1>2. ~AwaitsAnswer(r)'
  BY Zenon DEF AwaitsAnswer
<1>3. \A u \in Threads \ {c, r} :
        /\ AwaitsAnswer(u)' <=> AwaitsAnswer(u)
        /\ waitFor'[u] = waitFor[u]
  BY SameAwaits, Zenon DEF Same
<1>4. \A u \in Threads \ {r} : Awaiters(u)' = Awaiters(u)
  BY <1>2, <1>3 DEF Awaiters
<1>5. Awaiters(r)' = Awaiters(r) \cup {c} /\ c \notin Awaiters(r)
  BY <1>2, <1>3 DEF Awaiters
<1>6. Counted(c)' /\ Counted(r)'
  <2>1. Cardinality(Awaiters(r) \cup {c}) = Cardinality(Awaiters(r)) + 1
    BY Zenon, <1>5, AwaitersFinite, FS_AddElement
  <2>2. QED
    BY Zenon, <1>4, <1>5, <2>1
<1>7. Directed(c)' /\ Directed(r)'
  <2>1. Names(replyTo[r], r)'
    BY <1>5 DEF Names, Me
  <2>2. Directed(r)'
    BY Zenon, <2>1 DEF Directed
  <2>3. Directed(c)'
    <3>1. ~Serves(c)' /\ pc'[c] \notin {"respond", "respond_find"}
      BY Zenon DEF Serves, AwaitsAnswer
    <3>2. QED
      BY <3>1, Zenon DEF Directed
  <2>4. QED
    BY Zenon, <2>2, <2>3
<1>8. ASSUME NEW w \in Threads, NEW x \in Threads, AwaitsAnswer(w)', waitFor'[w][2] = x,
             w \in {c, r} \/ x \in {c, r}
      PROVE  Tied(w, x)'
  <2>1. w \in Awaiters(x)'
    BY <1>8, Zenon DEF Awaiters
  <2>2. CASE w = c
    <3>1. x = r
      BY Zenon, <1>8, <2>2
    <3>2. Serves(r)' /\ Alive(r)'
      BY Zenon DEF Serves, Alive
    <3>3. Me(c)' = Me(c) /\ msg'[r] = [from |-> c, n |-> asked'[c], answer |-> pc'[r] # "user"]
      BY Zenon DEF Me, Question
    <3>4. Tied(c, r)'
      BY Zenon, <3>2, <3>3 DEF Tied, Owes
    <3>5. QED
      BY Zenon, <2>2, <3>1, <3>4
  <2>3. CASE w # c
    <3>1. x = r /\ w \in Awaiters(r) /\ w # r
      BY <1>1, <1>2, <1>4, <1>5, <1>8, <2>1, <2>3
    <3>2. Tied(w, r) /\ Same(w)
      BY <2>3, <3>1, AwaiterTied, Zenon
    <3>3. pc[r] # "none"
      BY Zenon, <3>2 DEF Tied, Alive, InKernel
    <3>4. Alive(r)' /\ pid'[r] = pid[r] /\ role'[r] = role[r]
      BY <3>3, Zenon DEF Alive
    <3>5. Tied(w, r)'
      BY Zenon, <3>2, <3>4, StrandedTied
    <3>6. QED
      BY Zenon, <3>1, <3>5
  <2>4. QED
    BY Zenon, <2>2, <2>3
<1>9. \A t \in {c, r} : \/ pid'[t] = pid[t] /\ (pc[t] \in Resting => pc'[t] \in Resting)
                        \/ pc[t] = "none" /\ pc'[t] \in Resting
  BY Zenon DEF Resting
<1>10. \A u \in Threads \ {c, r} : Same(u) /\ Awaiters(u)' = Awaiters(u)
  BY Zenon, <1>4
<1>11. \A w \in {c, r} : AwaitsAnswer(w)' => waitFor'[w][2] \in Threads
  BY Zenon, <1>2
<1>12. QED
  BY <1>6, <1>7, <1>8, <1>9, <1>10, <1>11, Step, Zenon

-----------------------------------------------------------------------------
\* The steps of one thread, and those that hand a request over.

USE SMTT(40)

\* The invariant holds when the first threads run.
LEMMA InitInv == ASSUME Init, Orderly PROVE IInv
<1> USE DEF Init, ThreadsInit
<1>1. Shape
  BY IpcAssumption DEF Shape
<1>2. \A w \in Threads : ~AwaitsAnswer(w)
  BY Zenon DEF AwaitsAnswer
<1>3. \A t \in Threads : Cardinality(Awaiters(t)) = 0
  <2>1. \A t \in Threads : Awaiters(t) = {}
    BY Zenon, <1>2 DEF Awaiters
  <2>2. QED
    BY Zenon, <2>1, FS_EmptySet
<1>4. NoPanic /\ Apart(ipcq) /\ Halting /\ Emptied /\ AnswerIsMine /\ TiedAll
  BY <1>2 DEF NoPanic, Apart, Halting, Emptied, AnswerIsMine, Mine, TiedAll, Replies, Orderly
<1>5. \A t \in Threads : Placed(t) /\ Engaged(t)
  BY IpcAssumption, ThreadsAssumption DEF Placed, Engaged, KernelLabels, Orderly
<1>6. \A t \in Threads : Counted(t) /\ Directed(t)
  BY <1>3 DEF Counted, Held, Directed, Alive, InKernel, AwaitsAnswer, Serves, NewRef
<1>7. QED
  BY Zenon, <1>1, <1>4, <1>5, <1>6 DEF IInv

\* A client enters the kernel with a request.
LEMMA AskStep ==
  ASSUME IInv, NEW t \in Threads, NEW k \in Kinds, Ask(t, k)
  PROVE  IInv'
<1> USE DEF Ask, Dispatch, Add, linkVars, userVars, stopVars
<1>0. /\ Shape /\ NoPanic /\ Apart(ipcq) /\ Halting
      /\ Placed(t) /\ Engaged(t) /\ Counted(t) /\ Directed(t) /\ Mine(t)
  BY Zenon, Here
<1>1. Shape' /\ NoPanic' /\ Apart(ipcq')
  BY Zenon, AddInt, <1>0 DEF Shape, KernelLabels, NoPanic
<1>2. \A u \in Threads \ {t} : Same(u)
  BY Zenon, <1>0 DEF Shape, Same
<1>3. Placed(t)' /\ Engaged(t)'
  BY Zenon, <1>0 DEF Shape, Placed, Engaged, Question, KernelLabels
<1>4. ~AwaitsAnswer(t) /\ ~AwaitsAnswer(t)' /\ Awaiters(t) = {}
  <2>1. ~AwaitsAnswer(t) /\ ~AwaitsAnswer(t)' /\ ~Owes(t)
    BY Zenon, <1>0 DEF Shape, AwaitsAnswer, Owes, Serves
  <2>2. QED
    BY Zenon, <2>1, NoneOwed
<1>5. Awaiters(t)' = Awaiters(t) => Counted(t)' /\ Directed(t)'
  <2>1. Alive(t) /\ ~InKernel(t) /\ InKernel(t)' /\ ref'[t] = ref[t] + 1
    BY Zenon, <1>0 DEF Shape, Alive, InKernel
  <2>2. Directed(t)'
    BY Zenon, <1>0 DEF Shape, Directed, Serves
  <2>3. QED
    BY Zenon, <1>0, <2>1, <2>2, <1>4, Enters
<1>6. Modest(t) /\ Mine(t)'
  BY Zenon, <1>0 DEF Shape, Resting, Modest, Mine
<1>7. QED
  BY Zenon, <1>1, <1>2, <1>3, <1>4, <1>5, <1>6, OwnStep

\* A server thread writes its answer and calls ipc_respond.
LEMMA AnswerStep ==
  ASSUME IInv, NEW t \in Threads, Answer(t)
  PROVE  IInv'
<1> USE DEF Answer, Dispatch, Add, linkVars, userVars, stopVars
<1>0. /\ Shape /\ NoPanic /\ Apart(ipcq) /\ Halting
      /\ Placed(t) /\ Engaged(t) /\ Counted(t) /\ Directed(t) /\ Mine(t)
  BY Zenon, Here
<1>1. Shape' /\ NoPanic' /\ Apart(ipcq')
  BY Zenon, AddInt, <1>0 DEF Shape, KernelLabels, NoPanic
<1>2. \A u \in Threads \ {t} : Same(u)
  BY Zenon, <1>0 DEF Shape, Same
<1>3. Placed(t)' /\ Engaged(t)'
  BY Zenon, <1>0 DEF Shape, Placed, Engaged, Question, KernelLabels
<1>4. ~AwaitsAnswer(t) /\ ~AwaitsAnswer(t)'
  BY Zenon, <1>0 DEF Shape, AwaitsAnswer
<1>5. Awaiters(t)' = Awaiters(t) => Counted(t)' /\ Directed(t)'
  <2>1. Alive(t) /\ ~InKernel(t) /\ InKernel(t)' /\ ref'[t] = ref[t] + 1
    BY Zenon, <1>0 DEF Shape, Alive, InKernel
  <2>2. Awaiters(t)' = Awaiters(t) => Directed(t)'
    BY Zenon, <1>0 DEF Shape, Directed, Serves, Names
  <2>3. QED
    BY Zenon, <1>0, <2>1, <2>2, <1>4, Enters
<1>6. ASSUME NEW w \in Awaiters(t), Same(w)
      PROVE  Tied(w, t)'
  <2>1. Tied(w, t) /\ w \in Threads
    BY Zenon, AwaiterTied
  <2>2. CASE Stranded(w)
    BY Zenon, <1>6, <2>1, <2>2, <1>0 DEF Same, Tied, Stranded, Alive, InKernel, Shape
  <2>3. CASE ~Stranded(w)
    <3>1. /\ ~Stranded(w)' /\ asked'[w] = asked[w] /\ pid'[w] = pid[w] /\ pc'[t] = "respond"
          /\ pid'[t] = pid[t] /\ role'[t] = role[t] /\ replyTo'[t] = replyTo[t] /\ pc[t] = "user"
      BY Zenon, <1>6, <2>1, <2>3, <1>0 DEF Same, Stranded, Shape
    <3>2. msg[t] = [from |-> w, n |-> asked[w], answer |-> FALSE]
      BY Zenon, <2>1, <2>3, <3>1 DEF Tied
    <3>3. msg'[t] = [from |-> w, n |-> asked'[w], answer |-> TRUE]
      BY <3>1, <3>2, <1>0 DEF Shape
    <3>4. QED
      BY Zenon, <2>1, <2>3, <3>1, <3>3 DEF Tied, Owes, Alive, InKernel, Me
  <2>4. QED
    BY Zenon, <2>2, <2>3
<1>7. Modest(t) /\ Mine(t)'
  BY Zenon, <1>0 DEF Shape, Resting, Modest, Mine
<1>8. QED
  BY Zenon, <1>1, <1>2, <1>3, <1>4, <1>5, <1>6, <1>7, OwnStep

\* A server thread enters ipc_receive or ipc_reg_popup_handler.
LEMMA ReceiveStep ==
  ASSUME IInv, NEW t \in Threads, Receive(t)
  PROVE  IInv'
<1> USE DEF Receive, Dispatch, Add, linkVars, userVars, stopVars
<1>0. /\ Shape /\ NoPanic /\ Apart(ipcq) /\ Halting
      /\ Placed(t) /\ Engaged(t) /\ Counted(t) /\ Directed(t) /\ Mine(t)
  BY Zenon, Here
<1>1. Shape' /\ NoPanic' /\ Apart(ipcq')
  BY Zenon, AddInt, <1>0 DEF Shape, KernelLabels, NoPanic
<1>2. \A u \in Threads \ {t} : Same(u)
  BY Zenon, <1>0 DEF Shape, Same
<1>3. Placed(t)' /\ Engaged(t)'
  BY Zenon, <1>0 DEF Shape, Placed, Engaged, KernelLabels
<1>4. ~AwaitsAnswer(t) /\ ~AwaitsAnswer(t)' /\ ~Owes(t) /\ Alive(t)'
  BY Zenon, <1>0 DEF Shape, AwaitsAnswer, Owes, Serves, Alive, InKernel
<1>5. Awaiters(t)' = Awaiters(t) => Counted(t)' /\ Directed(t)'
  <2>1. Alive(t) /\ ~InKernel(t) /\ InKernel(t)' /\ ref'[t] = ref[t] + 1
    BY Zenon, <1>0 DEF Shape, Alive, InKernel
  <2>2. Directed(t)'
    BY Zenon, <1>0 DEF Shape, Directed, Serves
  <2>3. QED
    BY Zenon, <1>0, <2>1, <2>2, <1>4, Enters
<1>6. ASSUME NEW w \in Awaiters(t), Same(w)
      PROVE  Tied(w, t)'
  BY Zenon, <1>4, <1>6, AwaiterTied, StrandedTied
<1>7. Modest(t) /\ Mine(t)'
  BY Zenon, <1>0 DEF Shape, Resting, Modest, Mine
<1>8. QED
  BY Zenon, <1>1, <1>2, <1>3, <1>4, <1>5, <1>6, <1>7, OwnStep

\* The end of a popup thread, which has answered.
LEMMA ReturnStep ==
  ASSUME IInv, Orderly, NEW t \in Threads, Return(t)
  PROVE  IInv'
<1> USE DEF Return, ThreadExit, Add, linkVars, userVars, stopVars
<1>0. /\ Shape /\ NoPanic /\ Apart(ipcq) /\ Halting
      /\ Placed(t) /\ Engaged(t) /\ Counted(t) /\ Directed(t) /\ Mine(t)
  BY Zenon, Here
<1>1. Shape' /\ NoPanic' /\ Apart(ipcq')
  BY <1>0 DEF Shape, KernelLabels, NoPanic
<1>2. \A u \in Threads \ {t} : Same(u)
  BY Zenon, <1>0 DEF Shape, Same
<1>3. Placed(t)' /\ Engaged(t)'
  BY Zenon, <1>0 DEF Shape, Placed, Engaged, KernelLabels
<1>4. ~AwaitsAnswer(t) /\ ~AwaitsAnswer(t)' /\ Awaiters(t) = {}
  <2>1. ~AwaitsAnswer(t) /\ ~AwaitsAnswer(t)' /\ ~Owes(t)
    BY Zenon, <1>0 DEF Shape, AwaitsAnswer, Owes, Serves, Orderly
  <2>2. QED
    BY Zenon, <2>1, NoneOwed
<1>5. Counted(t)' /\ Directed(t)'
  <2>1. Cardinality(Awaiters(t)) = 0
    BY Zenon, <1>4, FS_EmptySet
  <2>2. ref[t] = 2
    <3>1. Counted(t) /\ pc[t] = "user"
      BY Zenon, <1>0
    <3>2. QED
      BY <2>1, <3>1 DEF Counted, Held, Alive, InKernel, AwaitsAnswer, NewRef
  <2>3. pc'[t] = "exit" /\ ref'[t] = ref[t] + (-1)
    BY Zenon, <1>0 DEF Shape
  <2>4. ref'[t] = 1
    BY <2>2, <2>3
  <2>5. QED
    BY Zenon, <2>3, <2>4 DEF Counted, Alive, InKernel, Directed, Serves
<1>6. Modest(t) /\ Mine(t)'
  BY Zenon, <1>0 DEF Shape, Resting, Modest, Mine
<1>7. QED
  BY Zenon, <1>1, <1>2, <1>3, <1>4, <1>5, <1>6, OwnStep

\* dispatch() of a thread whose process is stopped.
LEMMA StopStep ==
  ASSUME IInv, Orderly, NEW t \in Threads, Stop(t)
  PROVE  IInv'
<1> USE DEF Stop, DispatchStopped, set_thread_state, Add, linkVars, userVars, stopVars
<1>0. /\ Shape /\ NoPanic /\ Apart(ipcq) /\ Halting
      /\ Placed(t) /\ Engaged(t) /\ Counted(t) /\ Directed(t) /\ Mine(t)
  BY Zenon, Here
<1>1. Shape' /\ NoPanic' /\ Apart(ipcq')
  BY <1>0 DEF Shape, KernelLabels, NoPanic, Placed, Allowed
<1>2. \A u \in Threads \ {t} : Same(u)
  BY Zenon, <1>0 DEF Shape, Same
<1>3. Placed(t)' /\ Engaged(t)'
  BY Zenon, <1>0 DEF Shape, Placed, Engaged, KernelLabels
<1>4. ~AwaitsAnswer(t) /\ ~AwaitsAnswer(t)' /\ Awaiters(t) = {}
  <2>1. ~AwaitsAnswer(t) /\ ~AwaitsAnswer(t)' /\ pid[t] # Server
    BY Zenon, <1>0 DEF Shape, AwaitsAnswer, Placed, Halting, Orderly
  <2>2. QED
    BY Zenon, <2>1, NoneOwed
<1>5. Counted(t)' /\ Directed(t)'
  <2>1. Cardinality(Awaiters(t)) = 0
    BY Zenon, <1>4, FS_EmptySet
  <2>2. ref[t] = 2
    <3>1. Counted(t) /\ pc[t] = "user"
      BY Zenon, <1>0
    <3>2. QED
      BY <2>1, <3>1 DEF Counted, Held, Alive, InKernel, AwaitsAnswer, NewRef
  <2>3. pc'[t] = "exit" /\ ref'[t] = ref[t] + (-1)
    BY Zenon, <1>0 DEF Shape
  <2>4. ref'[t] = 1
    BY <2>2, <2>3
  <2>5. QED
    BY Zenon, <2>3, <2>4 DEF Counted, Alive, InKernel, Directed, Serves
<1>6. Modest(t) /\ Mine(t)'
  BY Zenon, <1>0 DEF Shape, Resting, Modest, Mine
<1>7. QED
  BY Zenon, <1>1, <1>2, <1>3, <1>4, <1>5, <1>6, OwnStep

\* exit_thread takes the thread off the lists.
LEMMA UnlinkStep ==
  ASSUME IInv, NEW t \in Threads, Unlink(t)
  PROVE  IInv'
<1> USE DEF Unlink, exit_thread_unlink, linkVars, userVars, stopVars
<1>0. /\ Shape /\ NoPanic /\ Apart(ipcq) /\ Halting
      /\ Placed(t) /\ Engaged(t) /\ Counted(t) /\ Directed(t) /\ Mine(t)
  BY Zenon, Here
<1>1. Shape' /\ NoPanic' /\ Apart(ipcq')
  BY Zenon, <1>0 DEF Shape, NoPanic
<1>2. \A u \in Threads \ {t} : Same(u)
  BY Zenon, <1>0 DEF Shape, Same
<1>3. Placed(t)' /\ Engaged(t)'
  BY Zenon, <1>0 DEF Shape, Placed, Engaged, KernelLabels
<1>4. ~AwaitsAnswer(t) /\ ~AwaitsAnswer(t)' /\ Awaiters(t) = {}
  <2>1. ~AwaitsAnswer(t) /\ ~AwaitsAnswer(t)' /\ ~Alive(t)
    BY Zenon, <1>0 DEF Shape, AwaitsAnswer, Alive, InKernel
  <2>2. QED
    BY Zenon, <2>1, NoneOwed
<1>5. Counted(t)' /\ Directed(t)'
  BY Zenon, <1>0 DEF Shape, Counted, Alive, InKernel, Directed, Serves
<1>6. Modest(t) /\ Mine(t)'
  BY Zenon, <1>0 DEF Shape, Resting, Modest, Mine
<1>7. QED
  BY Zenon, <1>1, <1>2, <1>3, <1>4, <1>5, <1>6, OwnStep

\* The check of exit_thread holds: the last reference is the creation's.
LEMMA ReapStep ==
  ASSUME IInv, NEW t \in Threads, Reap(t)
  PROVE  IInv'
<1> USE DEF Reap, exit_thread_reap, Add
<1>0. /\ Shape /\ NoPanic /\ Apart(ipcq) /\ Halting
      /\ Placed(t) /\ Engaged(t) /\ Counted(t) /\ Directed(t) /\ Mine(t)
  BY Zenon, Here
<1>1. Shape' /\ NoPanic' /\ Apart(ipcq')
  <2>1. ref[t] = 1
    BY Zenon, <1>0 DEF Counted
  <2>2. NoPanic' /\ Apart(ipcq')
    BY Zenon, <1>0, <2>1 DEF NoPanic
  <2>3. ref' \in [Threads -> Int]
    BY <1>0 DEF Shape
  <2>4. QED
    BY Zenon, <1>0, <2>2, <2>3 DEF Shape
<1>2. \A u \in Threads \ {t} : Same(u)
  BY Zenon, <1>0 DEF Shape, Same
<1>3. Placed(t)' /\ Engaged(t)'
  BY Zenon, <1>0 DEF Shape, Placed, Engaged, KernelLabels
<1>4. ~AwaitsAnswer(t) /\ ~AwaitsAnswer(t)' /\ Awaiters(t) = {}
  <2>1. ~AwaitsAnswer(t) /\ ~AwaitsAnswer(t)' /\ ~Alive(t)
    BY Zenon, <1>0 DEF Shape, AwaitsAnswer, Alive, InKernel
  <2>2. QED
    BY Zenon, <2>1, NoneOwed
<1>5. Counted(t)' /\ Directed(t)'
  BY Zenon, <1>0 DEF Shape, Counted, Alive, InKernel, Directed, Serves
<1>6. Modest(t) /\ Mine(t)'
  BY Zenon, <1>0 DEF Shape, Resting, Modest, Mine
<1>7. QED
  BY Zenon, <1>1, <1>2, <1>3, <1>4, <1>5, <1>6, OwnStep

\* ipc_reg_popup_handler.
LEMMA RegisterStep ==
  ASSUME IInv, NEW t \in Threads, ipc_reg_popup_handler(t)
  PROVE  IInv'
<1> USE DEF ipc_reg_popup_handler, Add, linkVars, userVars, stopVars
<1>0. /\ Shape /\ NoPanic /\ Apart(ipcq) /\ Halting
      /\ Placed(t) /\ Engaged(t) /\ Counted(t) /\ Directed(t) /\ Mine(t)
  BY Zenon, Here
<1>1. Shape' /\ NoPanic' /\ Apart(ipcq')
  BY Zenon, AddInt, <1>0 DEF Shape, NoPanic, Placed
<1>2. \A u \in Threads \ {t} : Same(u)
  BY Zenon, <1>0 DEF Shape, Same
<1>3. Placed(t)' /\ Engaged(t)'
  BY Zenon, <1>0 DEF Shape, Placed, Engaged, KernelLabels
<1>4. ~AwaitsAnswer(t) /\ ~AwaitsAnswer(t)' /\ ~Owes(t) /\ Alive(t)'
  BY Zenon, <1>0 DEF Shape, AwaitsAnswer, Owes, Serves, Alive, InKernel
<1>5. Awaiters(t)' = Awaiters(t) => Counted(t)' /\ Directed(t)'
  <2>1. Alive(t)' /\ InKernel(t) /\ ~InKernel(t)' /\ ref'[t] = ref[t] + -1
    BY Zenon, <1>0 DEF Shape, Alive, InKernel
  <2>2. Directed(t)'
    BY Zenon, <1>0 DEF Shape, Directed, Serves, Engaged
  <2>3. QED
    BY Zenon, <1>0, <2>1, <2>2, <1>4, Leaves
<1>6. ASSUME NEW w \in Awaiters(t), Same(w)
      PROVE  Tied(w, t)'
  BY Zenon, <1>4, <1>6, AwaiterTied, StrandedTied
<1>7. Modest(t) /\ Mine(t)'
  BY Zenon, <1>0 DEF Shape, Resting, Modest, Mine, Engaged
<1>8. QED
  BY Zenon, <1>1, <1>2, <1>3, <1>4, <1>5, <1>6, <1>7, OwnStep

\* ipc_receive with no sender waiting.
LEMMA ReceiveWaitStep ==
  ASSUME IInv, NEW t \in Threads, ipc_receive_wait(t)
  PROVE  IInv'
<1> USE DEF ipc_receive_wait, Lockable, userVars, stopVars
<1>0. /\ Shape /\ NoPanic /\ Apart(ipcq) /\ Halting
      /\ Placed(t) /\ Engaged(t) /\ Counted(t) /\ Directed(t) /\ Mine(t)
  BY Zenon, Here
<1>1. Shape' /\ NoPanic' /\ Apart(ipcq')
  BY Zenon, <1>0 DEF Shape, KernelLabels, NoPanic, Me
<1>2. \A u \in Threads \ {t} : Same(u)
  BY Zenon, <1>0 DEF Shape, Same
<1>3. Placed(t)' /\ Engaged(t)'
  BY Zenon, <1>0 DEF Shape, Placed, Engaged, KernelLabels, Me
<1>4. ~AwaitsAnswer(t) /\ ~AwaitsAnswer(t)' /\ ~Owes(t) /\ Alive(t)'
  BY Zenon, <1>0 DEF Shape, AwaitsAnswer, Owes, Serves, Alive, InKernel
<1>5. Awaiters(t)' = Awaiters(t) => Counted(t)' /\ Directed(t)'
  <2>1. Alive(t) /\ Alive(t)' /\ ref'[t] = ref[t] + Held(t)' - Held(t)
    <3>1. Alive(t) /\ Alive(t)' /\ InKernel(t) /\ InKernel(t)' /\ ref' = ref /\ ref[t] \in Int
      BY Zenon, <1>0 DEF Shape, Alive, InKernel
    <3>2. QED
      BY Zenon, <1>4, <3>1, HeldSteady
  <2>2. Directed(t)'
    BY Zenon, <1>0 DEF Shape, Directed, Serves
  <2>3. QED
    BY Zenon, <1>0, <2>1, <2>2, CountedBy
<1>6. ASSUME NEW w \in Awaiters(t), Same(w)
      PROVE  Tied(w, t)'
  BY Zenon, <1>4, <1>6, AwaiterTied, StrandedTied
<1>7. Modest(t) /\ Mine(t)'
  BY Zenon, <1>0 DEF Shape, Resting, Modest, Mine
<1>8. QED
  BY Zenon, <1>1, <1>2, <1>3, <1>4, <1>5, <1>6, <1>7, OwnStep

\* ipc_request with no receiver waiting.
LEMMA RequestWaitStep ==
  ASSUME IInv, Orderly, NEW t \in Threads, ipc_request_wait(t)
  PROVE  IInv'
<1> USE DEF ipc_request_wait, Lockable, userVars, stopVars
<1>0. /\ Shape /\ NoPanic /\ Apart(ipcq) /\ Halting
      /\ Placed(t) /\ Engaged(t) /\ Counted(t) /\ Directed(t) /\ Mine(t)
  BY Zenon, Here
<1>1. Shape' /\ NoPanic' /\ Apart(ipcq')
  BY Zenon, <1>0 DEF Shape, KernelLabels, NoPanic, OpcodeOf
<1>2. \A u \in Threads \ {t} : Same(u)
  BY Zenon, <1>0 DEF Shape, Same
<1>3. Placed(t)' /\ Engaged(t)'
  <2>1. Killable = {}
    BY Zenon, <1>0 DEF Engaged, Halting, Orderly, PopsUp
  <2>2. Placed(t)'
    BY Zenon, <1>0 DEF Shape, Placed, KernelLabels
  <2>3. Engaged(t)'
    BY Zenon, <2>1, <1>0 DEF Shape, Engaged, Question, OpcodeOf, Replies
  <2>4. QED
    BY Zenon, <2>2, <2>3
<1>4. ~AwaitsAnswer(t) /\ ~AwaitsAnswer(t)' /\ Awaiters(t) = {}
  <2>1. ~AwaitsAnswer(t) /\ ~AwaitsAnswer(t)' /\ ~Owes(t) /\ role[t] = "client"
    BY Zenon, <1>0 DEF Shape, AwaitsAnswer, Owes, Serves, Engaged
  <2>2. QED
    BY Zenon, <2>1, NoneOwed
<1>5. Awaiters(t)' = Awaiters(t) => Counted(t)' /\ Directed(t)'
  <2>1. Alive(t) /\ Alive(t)' /\ ref'[t] = ref[t] + Held(t)' - Held(t)
    <3>1. Alive(t) /\ Alive(t)' /\ InKernel(t) /\ InKernel(t)' /\ ref' = ref /\ ref[t] \in Int
      BY Zenon, <1>0 DEF Shape, Alive, InKernel
    <3>2. QED
      BY Zenon, <1>4, <3>1, HeldSteady
  <2>2. Directed(t)'
    BY Zenon, <1>0 DEF Shape, Directed, Serves
  <2>3. QED
    BY Zenon, <1>0, <2>1, <2>2, CountedBy
<1>6. Modest(t) /\ Mine(t)'
  BY Zenon, <1>0 DEF Shape, Resting, Modest, Mine
<1>7. QED
  BY Zenon, <1>1, <1>2, <1>3, <1>4, <1>5, <1>6, OwnStep

\* sleep_ipc_thread puts the thread on the queue.
LEMMA SleepStep ==
  ASSUME IInv, NEW t \in Threads, sleep_ipc_thread(t)
  PROVE  IInv'
<1> USE DEF sleep_ipc_thread, set_thread_state, Add, linkVars, userVars, stopVars
<1>0. /\ Shape /\ NoPanic /\ Apart(ipcq) /\ Halting
      /\ Placed(t) /\ Engaged(t) /\ Counted(t) /\ Directed(t) /\ Mine(t)
  BY Zenon, Here
<1>1. Shape' /\ NoPanic' /\ Apart(ipcq')
  BY Zenon, AddInt, PushedQueue, <1>0 DEF Shape, NoPanic, Placed, KernelLabels, Allowed
<1>2. ipcq'[t] > 0 /\ \A u \in Threads \ {t} : ipcq'[u] > 0 <=> ipcq[u] > 0
  BY Zenon, PushedQueue, <1>0 DEF Shape
<1>3. \A u \in Threads \ {t} : Same(u)
  BY Zenon, <1>2, <1>0 DEF Shape, Same
<1>4. Placed(t)' /\ Engaged(t)'
  BY Zenon, <1>2, <1>0 DEF Shape, Placed, Engaged, KernelLabels, Question, Me, OpcodeOf, Replies
<1>5. (AwaitsAnswer(t)' <=> AwaitsAnswer(t)) /\ ~Stranded(t) /\ ~Stranded(t)'
  BY Zenon, <1>2, <1>0 DEF Shape, AwaitsAnswer, Stranded
<1>6. Awaiters(t)' = Awaiters(t) => Counted(t)' /\ Directed(t)'
  <2>1. Alive(t)' /\ InKernel(t) /\ ~InKernel(t)' /\ ref'[t] = ref[t] + -1
    BY Zenon, <1>0 DEF Shape, Alive, InKernel
  <2>2. Directed(t)'
    BY Zenon, <1>0 DEF Shape, Directed, Serves
  <2>3. QED
    BY Zenon, <1>0, <2>1, <2>2, <1>5, Leaves
<1>7. ASSUME NEW w \in Awaiters(t), Same(w)
      PROVE  Tied(w, t)'
  <2>1. ~Owes(t) /\ Alive(t)'
    BY Zenon, <1>0 DEF Shape, Owes, Serves, Alive, InKernel
  <2>2. QED
    BY Zenon, <1>7, <2>1, AwaiterTied, StrandedTied
<1>8. Modest(t) /\ Mine(t)'
  BY Zenon, <1>0 DEF Shape, Resting, Modest, Mine, Placed
<1>9. QED
  BY Zenon, <1>1, <1>3, <1>4, <1>5, <1>6, <1>7, <1>8, OwnStep

\* ipc_respond reads ipc_reply_to.
LEMMA RespondReadStep ==
  ASSUME IInv, NEW t \in Threads, ipc_respond_read(t)
  PROVE  IInv'
<1> USE DEF ipc_respond_read, Add, linkVars, userVars, stopVars
<1>0. /\ Shape /\ NoPanic /\ Apart(ipcq) /\ Halting
      /\ Placed(t) /\ Engaged(t) /\ Counted(t) /\ Directed(t) /\ Mine(t)
  BY Zenon, Here
<1>1. Shape' /\ NoPanic' /\ Apart(ipcq')
  BY <1>0 DEF Shape, KernelLabels, NoPanic
<1>2. \A u \in Threads \ {t} : Same(u)
  BY Zenon, <1>0 DEF Shape, Same
<1>3. Placed(t)' /\ Engaged(t)'
  BY Zenon, <1>0 DEF Shape, Placed, Engaged, KernelLabels
<1>4. ~AwaitsAnswer(t) /\ ~AwaitsAnswer(t)' /\ Alive(t)'
  BY Zenon, <1>0 DEF Shape, AwaitsAnswer, Alive, InKernel
<1>5. Awaiters(t)' = Awaiters(t) => Counted(t)'
  <2>1. Alive(t) /\ Alive(t)' /\ ref'[t] = ref[t] + Held(t)' - Held(t)
    BY <1>0 DEF Shape, Held, Alive, InKernel, AwaitsAnswer
  <2>2. QED
    BY Zenon, <1>0, <2>1, CountedBy
<1>6. Awaiters(t)' = Awaiters(t) => Directed(t)'
  BY Zenon, <1>0 DEF Shape, Directed, Serves, Names, Engaged
<1>7. ASSUME NEW w \in Awaiters(t), Same(w)
      PROVE  Tied(w, t)'
  <2>1. Tied(w, t) /\ w \in Threads
    BY Zenon, AwaiterTied
  <2>2. CASE Stranded(w)
    BY Zenon, <1>4, <1>7, <2>1, <2>2 DEF Same, Tied, Stranded
  <2>3. CASE ~Stranded(w)
    <3>1. replyTo[t] = Me(w) /\ replyTo[t] # NoOne
      BY <2>1, <2>3, ThreadsAssumption DEF Tied, Me, NoOne
    <3>2. /\ ~Stranded(w)' /\ asked'[w] = asked[w] /\ pid'[w] = pid[w] /\ replyTo'[t] = replyTo[t]
          /\ pc[t] = "respond" /\ pc'[t] = "respond_find" /\ dst'[t] = replyTo[t]
          /\ pid'[t] = pid[t] /\ role'[t] = role[t] /\ msg'[t] = msg[t]
      BY Zenon, <1>7, <2>1, <2>3, <3>1, <1>0 DEF Same, Stranded, Shape
    <3>3. QED
      BY Zenon, <1>4, <2>1, <2>3, <3>1, <3>2 DEF Tied, Owes, Me
  <2>4. QED
    BY Zenon, <2>2, <2>3
<1>8. Modest(t) /\ Mine(t)'
  BY Zenon, <1>0 DEF Shape, Resting, Modest, Mine, Engaged
<1>9. QED
  BY Zenon, <1>1, <1>2, <1>3, <1>4, <1>5, <1>6, <1>7, <1>8, OwnStep

\* ipc_respond finds nobody: who waits for t is not on the queue.
LEMMA RespondNoneStep ==
  ASSUME IInv, NEW t \in Threads, ipc_respond(t), Waiters(t) = {}
  PROVE  IInv'
<1> USE DEF ipc_respond, Lockable, Add, linkVars, userVars, stopVars
<1>0. /\ Shape /\ NoPanic /\ Apart(ipcq) /\ Halting
      /\ Placed(t) /\ Engaged(t) /\ Counted(t) /\ Directed(t) /\ Mine(t)
  BY Zenon, Here
<1>1. Shape' /\ NoPanic' /\ Apart(ipcq')
  BY <1>0 DEF Shape, NoPanic
<1>2. \A u \in Threads \ {t} : Same(u)
  BY Zenon, <1>0 DEF Shape, Same
<1>3. Placed(t)' /\ Engaged(t)'
  BY Zenon, <1>0 DEF Shape, Placed, Engaged, KernelLabels
<1>4. ~AwaitsAnswer(t) /\ ~AwaitsAnswer(t)' /\ Alive(t)'
  BY Zenon, <1>0 DEF Shape, AwaitsAnswer, Alive, InKernel
<1>5. Awaiters(t)' = Awaiters(t) => Counted(t)' /\ Directed(t)'
  <2>1. Alive(t)' /\ InKernel(t) /\ ~InKernel(t)' /\ ref'[t] = ref[t] + -1
    BY Zenon, <1>0 DEF Shape, Alive, InKernel
  <2>2. Directed(t)'
    BY Zenon, <1>0 DEF Shape, Directed, Serves, Engaged
  <2>3. QED
    BY Zenon, <1>0, <2>1, <2>2, <1>4, Leaves
<1>6. ASSUME NEW w \in Awaiters(t), Same(w)
      PROVE  Tied(w, t)'
  <2>1. Tied(w, t) /\ w \in Threads /\ AwaitsAnswer(w)
    BY Zenon, AwaiterTied
  <2>2. Stranded(w)
    <3>1. Placed(w)
      BY Zenon, <2>1, Here
    <3>2. QED
      BY Zenon, <2>1, <3>1, <1>0, ThreadsAssumption DEF Tied, Stranded, AwaitsAnswer, Waiters, Queued, Placed
  <2>3. QED
    BY Zenon, <1>4, <1>6, <2>1, <2>2 DEF Same, Tied, Stranded
<1>7. Modest(t) /\ Mine(t)'
  BY Zenon, <1>0 DEF Shape, Resting, Modest, Mine, Engaged
<1>8. QED
  BY Zenon, <1>1, <1>2, <1>3, <1>4, <1>5, <1>6, <1>7, OwnStep

\* ipc_request to a popup handler.
LEMMA PopupStep ==
  ASSUME IInv, NEW t \in Threads, ipc_request_popup(t)
  PROVE  IInv'
<1> USE DEF stopVars
<1>0. /\ Shape /\ NoPanic /\ Apart(ipcq) /\ Halting
      /\ Placed(t) /\ Engaged(t) /\ Counted(t) /\ Directed(t) /\ Mine(t)
  BY Zenon, Here
<1>1. /\ pc[t] = "request" /\ Server \in popup /\ (Replies(call[t]) => ipcLock = NoThread)
      /\ UNCHANGED <<ipcq, popup, dst, call, asked, stopVars>>
  BY Zenon DEF ipc_request_popup, Lockable
<1>2. PICK n \in Threads :
       /\ create_and_run_thread(n, Server)
       /\ role' = [role EXCEPT ![n] = "popup"]
       /\ msg' = [msg EXCEPT ![n] = msg[t]]
       /\ opcode' = [opcode EXCEPT ![n] = OpcodeOf(call[t])]
       /\ IF Replies(call[t])
          THEN /\ Link(t, n, Server)
               /\ ipcLock' = t
               /\ pc' = [pc EXCEPT ![n] = "user", ![t] = "sleep_ipc"]
               /\ ref' = [ref EXCEPT ![n] = NewRef + 1, ![t] = @ + 1]
          ELSE /\ replyTo' = [replyTo EXCEPT ![n] = NoOne]
               /\ pc' = [pc EXCEPT ![n] = "user", ![t] = "user"]
               /\ ref' = [ref EXCEPT ![n] = NewRef, ![t] = @ - 1]
               /\ UNCHANGED <<ipcLock, waitType, waitFor>>
  BY Zenon DEF ipc_request_popup
<1>3. /\ tstate[n] = "free" /\ tstate' = [tstate EXCEPT ![n] = "normal"]
      /\ pid' = [pid EXCEPT ![n] = Server] /\ listed' = listed \cup {n}
      /\ pstate' = pstate /\ panicked' = panicked
  BY <1>2, Zenon DEF create_and_run_thread
<1>4. /\ Placed(n) /\ pc[n] = "none" /\ n # t /\ tstate[t] = "normal" /\ ~AwaitsAnswer(n)
      /\ ~AwaitsAnswer(t) /\ ~Owes(n) /\ ~Owes(t) /\ role[t] = "client" /\ msg[t] = Question(t)
      /\ ipcq[n] = 0 /\ ipcq[t] = 0 /\ pid[t] \in Procs /\ t \in listed
  <2>1. Placed(n) /\ Engaged(n)
    BY Zenon, Here
  <2>2. QED
    BY <2>1, <1>0, <1>1, <1>3 DEF Placed, Engaged, AwaitsAnswer, Owes, Serves, Shape, KernelLabels
<1>5. Awaiters(n) = {} /\ Cardinality(Awaiters(n)) = 0 /\ Awaiters(t) = {}
      /\ Cardinality(Awaiters(t)) = 0
  <2>1. ~Alive(n)
    BY Zenon, <1>4 DEF Alive, InKernel
  <2>2. Awaiters(n) = {} /\ Awaiters(t) = {}
    BY <1>4, <2>1, NoneOwed, Zenon
  <2>3. QED
    BY <2>2, FS_EmptySet, Zenon
<1>7. Halting' /\ Emptied'
  <2>1. Halting'
    BY <1>0, <1>1, <1>3, Zenon DEF Halting
  <2>2. ASSUME NEW p \in Procs \ {Server, System}, ThreadsOf(p) = {}
        PROVE  ThreadsOf(p)' = {}
    <3>1. SUFFICES ASSUME NEW x \in listed', pid'[x] = p PROVE FALSE
      BY Zenon DEF ThreadsOf
    <3>2. x \in listed /\ pid[x] = p
      BY Zenon, <1>0, <1>3, <3>1 DEF Shape
    <3>3. QED
      BY <2>2, <3>2, Zenon DEF ThreadsOf
  <2>3. QED
    BY <2>1, <2>2, <1>1, Zenon DEF Emptied, IInv
<1>8. /\ tstate'[t] = "normal" /\ tstate'[n] = "normal" /\ pid'[t] = pid[t] /\ pid'[n] = Server
      /\ role'[t] = "client" /\ role'[n] = "popup" /\ msg'[n] = Question(t) /\ msg'[t] = Question(t)
      /\ asked'[t] = asked[t] /\ call'[t] = call[t] /\ pc'[n] = "user" /\ ipcq'[n] = 0 /\ ipcq'[t] = 0
      /\ opcode'[n] = OpcodeOf(call[t]) /\ t \in listed' /\ n \in listed'
  BY Zenon, <1>0, <1>1, <1>2, <1>3, <1>4 DEF Shape
<1>9. Server \in Procs
  BY Zenon, IpcAssumption
<1>10. Placed(n)' /\ Engaged(n)' /\ Mine(n)' /\ ~AwaitsAnswer(n)'
  BY <1>8, <1>9 DEF Placed, Engaged, Mine, AwaitsAnswer, KernelLabels
<1>11. CASE Replies(call[t])
  <2>1. /\ pc'[t] = "sleep_ipc" /\ ref'[t] = ref[t] + 1 /\ ref'[n] = NewRef + 1 /\ ipcLock' = t /\ ipcLock = NoThread
        /\ waitType'[t] = "resp" /\ waitFor'[t] = <<Server, n>> /\ replyTo'[n] = Me(t)
    BY Zenon, <1>0, <1>1, <1>2, <1>4, <1>11 DEF Shape, Link
  <2>2. Shape' /\ NoPanic' /\ Apart(ipcq')
    <3>1. ref' = [ref EXCEPT ![n] = NewRef + 1, ![t] = @ + 1] /\ ref \in [Threads -> Int]
      BY Zenon, <1>0, <1>2, <1>11 DEF Shape
    <3>2. ref' \in [Threads -> Int]
      BY Zenon, <3>1, PairInt
    <3>3. QED
      BY Zenon, <3>2, <1>0, <1>1, <1>2, <1>3, <1>11 DEF Shape, NoPanic, Link
  <2>3. \A u \in Threads \ {t, n} : Same(u)
    BY Zenon, <1>0, <1>1, <1>2, <1>3, <1>11 DEF Shape, Same, Link
  <2>4. Placed(t)' /\ Engaged(t)' /\ Mine(t)' /\ AwaitsAnswer(t)' /\ ~Stranded(t)'
    BY Zenon, <1>4, <1>8, <1>11, <2>1 DEF Placed, Engaged, Mine, AwaitsAnswer, KernelLabels, Stranded, Replies
  <2>5. Awaiters(t)' = Awaiters(t) => Counted(t)'
    <3>1. Alive(t) /\ Alive(t)' /\ InKernel(t) /\ InKernel(t)'
      BY Zenon, <1>1, <2>1 DEF Alive, InKernel
    <3>2. QED
      BY Zenon, <1>0, <1>4, <2>1, <2>4, <3>1, Begins
  <2>6. Cardinality(Awaiters(n)') = Cardinality(Awaiters(n)) + 1 => Counted(n)'
    BY Zenon, <1>5, <1>8, <2>1, Fresh
  <2>7. opcode'[n] = "request" /\ pc[t] \notin Resting /\ pc'[t] # "user" /\ waitFor'[t][2] = n
    BY <1>1, <1>8, <1>11, <2>1 DEF OpcodeOf, Resting
  <2>8. QED
    BY <1>1, <1>3, <1>4, <1>7, <1>8, <1>10, <2>1, <2>2, <2>3, <2>4, <2>5, <2>6, <2>7, LinkStep, Zenon
<1>12. CASE ~Replies(call[t])
  <2>1. pc'[t] = "user" /\ ref'[t] = ref[t] - 1 /\ ref'[n] = NewRef /\ replyTo'[n] = NoOne /\ ipcLock' = ipcLock
    BY Zenon, <1>0, <1>1, <1>2, <1>4, <1>12 DEF Shape
  <2>2. Shape' /\ NoPanic' /\ Apart(ipcq')
    <3>1. ref' = [ref EXCEPT ![n] = NewRef, ![t] = @ - 1] /\ ref \in [Threads -> Int]
      BY Zenon, <1>0, <1>2, <1>12 DEF Shape
    <3>2. ref' \in [Threads -> Int]
      BY Zenon, <3>1, PairInt
    <3>3. QED
      BY Zenon, <3>2, <1>0, <1>1, <1>2, <1>3, <1>12 DEF Shape, NoPanic
  <2>3. \A u \in Threads \ {t, n} : Same(u)
    BY Zenon, <1>0, <1>1, <1>2, <1>3, <1>12 DEF Shape, Same
  <2>4. Placed(t)' /\ Engaged(t)' /\ Mine(t)' /\ ~AwaitsAnswer(t)'
    BY Zenon, <1>4, <1>8, <1>12, <2>1 DEF Placed, Engaged, Mine, AwaitsAnswer, KernelLabels
  <2>5. Directed(t)' /\ Directed(n)'
    BY Zenon, <1>8, <1>12, <2>1 DEF Directed, Serves, OpcodeOf
  <2>6. /\ Awaiters(t)' = Awaiters(t) => Counted(t)'
        /\ Awaiters(n)' = Awaiters(n) => Counted(n)'
    <3>1. Alive(t)' /\ InKernel(t) /\ ~InKernel(t)'
      BY Zenon, <1>1, <2>1 DEF Alive, InKernel
    <3>2. QED
      BY Zenon, <1>0, <1>4, <1>5, <1>8, <2>1, <2>4, <3>1, Leaves, Fresh
  <2>7. Alive(t)
    BY Zenon, <1>1 DEF Alive, InKernel
  <2>8. Quiet(t) /\ Quiet(n)
    BY Zenon, <1>4, <1>8, <1>10, <2>1, <2>4, <2>5, <2>6, <2>7 DEF Quiet
  <2>9. QED
    BY <1>3, <1>7, <2>1, <2>2, <2>3, <2>8, PairStep, Zenon
<1>13. QED
  BY Zenon, <1>11, <1>12

\* The thread at the head of a part of the queue is asleep, and is taken off.
LEMMA TakenOff ==
  ASSUME IInv, NEW r \in Threads, ipcq[r] > 0, ipcq' = Without({r})
  PROVE  /\ pc[r] = "asleep" /\ tstate[r] = "wait" /\ r \in listed /\ pid[r] \in Procs
         /\ ipcq' \in [Threads -> Nat] /\ Apart(ipcq') /\ ipcq'[r] = 0
         /\ \A u \in Threads \ {r} : ipcq'[u] > 0 <=> ipcq[u] > 0
<1>1. Shape /\ Apart(ipcq) /\ Placed(r) /\ {r} \subseteq Queued
  BY Zenon, Here DEF Queued
<1>2. pc[r] = "asleep" /\ tstate[r] = "wait" /\ r \in listed /\ pid[r] \in Procs
  BY Zenon, <1>1 DEF Placed
<1>3. /\ ipcq' \in [Threads -> Nat] /\ Apart(ipcq')
      /\ \A u \in Threads : ipcq'[u] > 0 <=> ipcq[u] > 0 /\ u \notin {r}
  BY Zenon, <1>1, WithoutQueue DEF Shape
<1>4. QED
  BY <1>2, <1>3

\* ipc_request with a receiver waiting.
LEMMA SerialStep ==
  ASSUME IInv, NEW t \in Threads, ipc_request_serial(t)
  PROVE  IInv'
<1> USE DEF stopVars, userVars
<1>0. /\ Shape /\ NoPanic /\ Apart(ipcq) /\ Halting
      /\ Placed(t) /\ Engaged(t) /\ Counted(t) /\ Directed(t) /\ Mine(t)
  BY Zenon, Here
<1>1. /\ pc[t] = "request" /\ ipcLock = NoThread
      /\ UNCHANGED <<pid, listed, pstate, popup, dst, userVars, stopVars>>
  BY Zenon DEF ipc_request_serial, Lockable
<1>2. PICK r \in Threads :
       /\ First(r, WaitingReceivers(Server))
       /\ ipcq' = Without({r})
       /\ msg' = [msg EXCEPT ![r] = msg[t]]
       /\ opcode' = [opcode EXCEPT ![r] = OpcodeOf(call[t])]
       /\ set_thread_state({r}, "normal")
       /\ IF Replies(call[t])
          THEN /\ Link(t, r, pid[r])
               /\ ipcLock' = t
               /\ pc' = [pc EXCEPT ![r] = "user", ![t] = "sleep_ipc"]
               /\ ref' = [ref EXCEPT ![r] = @ + 1, ![t] = @ + 1]
          ELSE /\ pc' = [pc EXCEPT ![r] = "user", ![t] = "user"]
               /\ ref' = Add(ref, t, -1)
               /\ UNCHANGED <<ipcLock, linkVars>>
  BY Zenon DEF ipc_request_serial
<1>3. ipcq[r] > 0 /\ waitType[r] = "serial_req" /\ waitFor[r][1] = Server
  BY Zenon, <1>2 DEF First, WaitingReceivers, Queued
<1>4. /\ pc[r] = "asleep" /\ tstate[r] = "wait" /\ r \in listed /\ pid[r] \in Procs
      /\ ipcq' \in [Threads -> Nat] /\ Apart(ipcq') /\ ipcq'[r] = 0
      /\ \A u \in Threads \ {r} : ipcq'[u] > 0 <=> ipcq[u] > 0
  BY Zenon, <1>2, <1>3, TakenOff
<1>5. /\ role[r] = "receiver" /\ pid[r] = Server /\ pid[r] \notin Killable /\ r # t
      /\ ~AwaitsAnswer(r) /\ ~AwaitsAnswer(t) /\ ~Owes(r) /\ ~Owes(t) /\ Alive(t) /\ Alive(r)
      /\ role[t] = "client" /\ msg[t] = Question(t) /\ ~(ipcq[t] > 0) /\ t \in listed
      /\ tstate[t] = "normal" /\ pid[t] \in Procs /\ Counted(r)
  <2>1. Engaged(r) /\ Counted(r)
    BY Zenon, Here
  <2>2. role[r] = "receiver" /\ pid[r] = Server /\ pid[r] \notin Killable
    BY <1>3, <1>4, <2>1 DEF Engaged, Me
  <2>3. QED
    BY Zenon, <1>0, <1>1, <1>3, <1>4, <2>1, <2>2
    DEF Placed, Engaged, AwaitsAnswer, Owes, Serves, Alive, InKernel, KernelLabels
<1>6. /\ tstate' = [x \in Threads |-> IF x \in {r} THEN "normal" ELSE tstate[x]]
      /\ panicked' = "none"
  BY Zenon, <1>2, <1>4 DEF set_thread_state, Allowed
<1>7. Halting' /\ Emptied'
  BY <1>0, <1>1, Zenon DEF Halting, Emptied, IInv, ThreadsOf
<1>8. /\ tstate'[t] = "normal" /\ tstate'[r] = "normal" /\ pc'[r] = "user"
      /\ msg'[r] = Question(t) /\ msg'[t] = Question(t) /\ ~(ipcq'[t] > 0)
      /\ opcode'[r] = OpcodeOf(call[t])
  BY Zenon, <1>0, <1>1, <1>2, <1>4, <1>5, <1>6 DEF Shape
<1>9. Placed(r)' /\ Engaged(r)' /\ Mine(r)' /\ ~AwaitsAnswer(r)' /\ Alive(r)'
  BY <1>1, <1>4, <1>5, <1>8 DEF Placed, Engaged, Mine, AwaitsAnswer, Alive, KernelLabels
<1>10. InKernel(t) /\ ~InKernel(r) /\ ~InKernel(r)'
  BY Zenon, <1>1, <1>4, <1>8 DEF InKernel
<1>11. CASE Replies(call[t])
  <2>1. /\ pc'[t] = "sleep_ipc" /\ ref'[t] = ref[t] + 1 /\ ref'[r] = ref[r] + 1 /\ ipcLock' = t
        /\ waitType'[t] = "resp" /\ waitFor'[t] = <<Server, r>> /\ replyTo'[r] = Me(t)
    BY Zenon, <1>0, <1>2, <1>5, <1>11 DEF Shape, Link
  <2>2. Shape' /\ NoPanic'
    <3>0. ref' = [ref EXCEPT ![r] = @ + 1, ![t] = @ + 1] /\ ref \in [Threads -> Int]
      BY Zenon, <1>0, <1>2, <1>11 DEF Shape
    <3>1. ref' \in [Threads -> Int]
      BY Zenon, <3>0, PairInt
    <3>2. QED
      BY <1>0, <1>1, <1>2, <1>4, <1>6, <1>11, <3>1, Zenon DEF Shape, NoPanic, Link
  <2>3. \A u \in Threads \ {t, r} : Same(u)
    BY Zenon, <1>0, <1>1, <1>2, <1>4, <1>6, <1>11 DEF Shape, Same, Link
  <2>4. Placed(t)' /\ Engaged(t)' /\ Mine(t)' /\ AwaitsAnswer(t)' /\ ~Stranded(t)' /\ Alive(t)'
    BY Zenon, <1>1, <1>5, <1>8, <1>11, <2>1
    DEF Placed, Engaged, Mine, AwaitsAnswer, KernelLabels, Stranded, Replies, Alive, InKernel
  <2>5. Awaiters(t)' = Awaiters(t) => Counted(t)'
    <3>1. InKernel(t)'
      BY Zenon, <2>1 DEF InKernel
    <3>2. QED
      BY Zenon, <1>0, <1>5, <1>10, <2>1, <2>4, <3>1, Begins
  <2>6. Cardinality(Awaiters(r)') = Cardinality(Awaiters(r)) + 1 => Counted(r)'
    BY Zenon, <1>5, <1>8, <1>10, <2>1, Takes
  <2>7. opcode'[r] = "request" /\ pc[t] \notin Resting /\ pc'[t] # "user" /\ waitFor'[t][2] = r
    BY <1>1, <1>8, <1>11, <2>1 DEF OpcodeOf, Resting
  <2>8. role'[t] = "client" /\ asked'[t] = asked[t] /\ pid'[t] = pid[t] /\ role'[r] = role[r]
        /\ pid'[r] = pid[r]
    BY Zenon, <1>1, <1>5
  <2>9. QED
    BY <1>1, <1>4, <1>5, <1>7, <1>8, <1>9, <2>1, <2>2, <2>3, <2>4, <2>5, <2>6, <2>7, <2>8, LinkStep, Zenon
<1>12. CASE ~Replies(call[t])
  <2>1. pc'[t] = "user" /\ ref'[t] = ref[t] + -1 /\ ref'[r] = ref[r] /\ ipcLock' = ipcLock
    BY Zenon, <1>0, <1>2, <1>5, <1>12 DEF Shape, Add
  <2>2. Shape' /\ NoPanic'
    <3>0. ref' = [ref EXCEPT ![t] = @ + -1] /\ ref \in [Threads -> Int]
      BY Zenon, <1>0, <1>2, <1>12 DEF Shape, Add
    <3>1. ref' \in [Threads -> Int]
      BY Zenon, <3>0, AddInt
    <3>2. QED
      BY <1>0, <1>1, <1>2, <1>4, <1>6, <1>12, <3>1, Zenon DEF Shape, NoPanic, linkVars
  <2>3. \A u \in Threads \ {t, r} : Same(u)
    BY Zenon, <1>0, <1>1, <1>2, <1>4, <1>6, <1>12 DEF Shape, Same, linkVars, Add
  <2>4. Placed(t)' /\ Engaged(t)' /\ Mine(t)' /\ ~AwaitsAnswer(t)' /\ Alive(t)'
    BY Zenon, <1>1, <1>5, <1>8, <1>12, <2>1 DEF Placed, Engaged, Mine, AwaitsAnswer, KernelLabels, Alive
  <2>5. Directed(t)' /\ Directed(r)'
    BY Zenon, <1>1, <1>5, <1>8, <1>12, <2>1 DEF Directed, Serves, OpcodeOf
  <2>6. /\ Awaiters(t)' = Awaiters(t) => Counted(t)'
        /\ Awaiters(r)' = Awaiters(r) => Counted(r)'
    <3>1. ~InKernel(t)'
      BY Zenon, <2>1 DEF InKernel
    <3>2. QED
      BY Zenon, <1>0, <1>5, <1>9, <1>10, <2>1, <2>4, <3>1, Leaves, Keeps
  <2>7. Quiet(t) /\ Quiet(r)
    BY Zenon, <1>1, <1>5, <1>8, <1>9, <2>1, <2>4, <2>5, <2>6 DEF Quiet
  <2>8. QED
    BY <1>1, <1>4, <1>7, <2>1, <2>2, <2>3, <2>7, PairStep, Zenon
<1>13. QED
  BY Zenon, <1>11, <1>12

\* ipc_receive with a sender waiting.
LEMMA ReceiveFoundStep ==
  ASSUME IInv, NEW t \in Threads, ipc_receive(t)
  PROVE  IInv'
<1> USE DEF stopVars, userVars
<1>0. /\ Shape /\ NoPanic /\ Apart(ipcq) /\ Halting
      /\ Placed(t) /\ Engaged(t) /\ Counted(t) /\ Directed(t) /\ Mine(t)
  BY Zenon, Here
<1>1. /\ pc[t] = "receive" /\ ipcLock = NoThread
      /\ UNCHANGED <<pid, listed, pstate, ipcLock, popup, dst, userVars, stopVars>>
  BY Zenon DEF ipc_receive, Lockable
<1>2. PICK s \in Threads :
       /\ First(s, WaitingSenders(pid[t]))
       /\ ipcq' = Without({s})
       /\ msg' = [msg EXCEPT ![t] = msg[s]]
       /\ opcode' = [opcode EXCEPT ![t] = opcode[s]]
       /\ IF opcode[s] = "request"
          THEN /\ Link(s, t, pid[t])
               /\ pc' = [pc EXCEPT ![t] = "user"]
               /\ ref' = Add(ref, s, 1)
               /\ UNCHANGED <<tstate, panicked>>
          ELSE /\ set_thread_state({s}, "normal")
               /\ pc' = [pc EXCEPT ![s] = "user", ![t] = "user"]
               /\ ref' = Add(ref, t, -1)
               /\ UNCHANGED linkVars
  BY Zenon DEF ipc_receive
<1>3. ipcq[s] > 0 /\ waitType[s] = "serial_recv" /\ waitFor[s][1] = pid[t]
  BY Zenon, <1>2 DEF First, WaitingSenders, Queued
<1>4. /\ pc[s] = "asleep" /\ tstate[s] = "wait" /\ s \in listed /\ pid[s] \in Procs
      /\ ipcq' \in [Threads -> Nat] /\ Apart(ipcq') /\ ipcq'[s] = 0
      /\ \A u \in Threads \ {s} : ipcq'[u] > 0 <=> ipcq[u] > 0
  BY Zenon, <1>2, <1>3, TakenOff
<1>5. /\ role[s] = "client" /\ pid[t] = Server /\ pid[t] \notin Killable /\ s # t
      /\ ~AwaitsAnswer(s) /\ ~AwaitsAnswer(t) /\ ~Owes(s) /\ ~Owes(t) /\ Alive(s) /\ Alive(t)
      /\ role[t] = "receiver" /\ msg[s] = Question(s) /\ ~(ipcq[t] > 0) /\ t \in listed
      /\ tstate[t] = "normal" /\ pid[t] \in Procs /\ Counted(s) /\ opcode[s] = OpcodeOf(call[s])
  <2>1. Engaged(s) /\ Counted(s)
    BY Zenon, Here
  <2>2. /\ role[s] = "client" /\ waitFor[s] = <<Server, NoThread>> /\ msg[s] = Question(s)
        /\ opcode[s] = OpcodeOf(call[s])
    BY Zenon, <1>3, <1>4, <2>1 DEF Engaged
  <2>3. pid[t] = Server
    BY <1>3, <2>2
  <2>4. QED
    BY Zenon, <1>0, <1>1, <1>3, <1>4, <2>1, <2>2, <2>3
    DEF Placed, Engaged, AwaitsAnswer, Owes, Serves, Alive, InKernel, KernelLabels
<1>6. Halting' /\ Emptied'
  BY <1>0, <1>1, Zenon DEF Halting, Emptied, IInv, ThreadsOf
<1>7. /\ pc'[t] = "user" /\ msg'[t] = Question(s) /\ ~(ipcq'[t] > 0) /\ opcode'[t] = opcode[s]
      /\ pid'[t] = pid[t] /\ role'[t] = role[t] /\ t \in listed'
      /\ pid'[s] = pid[s] /\ role'[s] = role[s] /\ s \in listed' /\ asked'[s] = asked[s] /\ call'[s] = call[s]
  BY Zenon, <1>0, <1>1, <1>2, <1>4, <1>5 DEF Shape
<1>8. tstate'[t] = "normal"
  BY <1>0, <1>2, <1>5 DEF Shape, set_thread_state
<1>9. Placed(t)' /\ Engaged(t)' /\ Mine(t)' /\ ~AwaitsAnswer(t)' /\ Alive(t)'
  BY Zenon, <1>4, <1>5, <1>7, <1>8 DEF Placed, Engaged, Mine, AwaitsAnswer, Alive, KernelLabels
<1>10. InKernel(t) /\ ~InKernel(t)' /\ ~InKernel(s)
  BY Zenon, <1>1, <1>4, <1>7 DEF InKernel
<1>11. CASE opcode[s] = "request"
  <2>1. /\ pc'[s] = "asleep" /\ ref'[s] = ref[s] + 1 /\ ref'[t] = ref[t] /\ tstate'[s] = "wait"
        /\ waitType'[s] = "resp" /\ waitFor'[s] = <<Server, t>> /\ replyTo'[t] = Me(s)
    BY <1>0, <1>2, <1>4, <1>5, <1>11 DEF Shape, Link, Add
  <2>2. Shape' /\ NoPanic'
    <3>0. ref' = [ref EXCEPT ![s] = @ + 1] /\ ref \in [Threads -> Int]
      BY Zenon, <1>0, <1>2, <1>11 DEF Shape, Add
    <3>1. ref' \in [Threads -> Int]
      BY Zenon, <3>0, AddInt
    <3>2. QED
      BY <1>0, <1>1, <1>2, <1>4, <1>11, <3>1, Zenon DEF Shape, NoPanic, Link
  <2>3. \A u \in Threads \ {s, t} : Same(u)
    BY Zenon, <1>0, <1>1, <1>2, <1>4, <1>11 DEF Shape, Same, Link, Add
  <2>4. Placed(s)' /\ Engaged(s)' /\ Mine(s)' /\ AwaitsAnswer(s)' /\ Alive(s)'
    BY Zenon, <1>4, <1>5, <1>7, <1>11, <2>1
    DEF Placed, Engaged, Mine, AwaitsAnswer, KernelLabels, Replies, OpcodeOf, Alive
  <2>5. Awaiters(s)' = Awaiters(s) => Counted(s)'
    <3>1. ~InKernel(s)'
      BY Zenon, <2>1 DEF InKernel
    <3>2. QED
      BY Zenon, <1>5, <1>10, <2>1, <2>4, <3>1, Begins
  <2>6. Cardinality(Awaiters(t)') = Cardinality(Awaiters(t)) + 1 => Counted(t)'
    BY Zenon, <1>0, <1>5, <1>7, <1>10, <2>1, Takes
  <2>7. opcode'[t] = "request" /\ pc[s] \notin Resting /\ pc'[s] # "user" /\ waitFor'[s][2] = t
    BY <1>4, <1>7, <1>11, <2>1 DEF Resting
  <2>8. QED
    BY <1>1, <1>4, <1>5, <1>6, <1>7, <1>9, <2>1, <2>2, <2>3, <2>4, <2>5, <2>6, <2>7, LinkStep, Zenon
<1>12. CASE opcode[s] # "request"
  <2>1. /\ pc'[s] = "user" /\ ref'[t] = ref[t] + -1 /\ ref'[s] = ref[s] /\ tstate'[s] = "normal"
        /\ tstate' = [x \in Threads |-> IF x \in {s} THEN "normal" ELSE tstate[x]]
        /\ panicked' = "none"
    BY Zenon, <1>0, <1>2, <1>4, <1>5, <1>12 DEF Shape, Add, set_thread_state, Allowed
  <2>2. Shape' /\ NoPanic'
    <3>0. ref' = [ref EXCEPT ![t] = @ + -1] /\ ref \in [Threads -> Int]
      BY Zenon, <1>0, <1>2, <1>12 DEF Shape, Add
    <3>1. ref' \in [Threads -> Int]
      BY Zenon, <3>0, AddInt
    <3>2. QED
      BY <1>0, <1>1, <1>2, <1>4, <1>12, <2>1, <3>1, Zenon DEF Shape, NoPanic, linkVars
  <2>3. \A u \in Threads \ {s, t} : Same(u)
    BY Zenon, <1>0, <1>1, <1>2, <1>4, <1>12, <2>1 DEF Shape, Same, linkVars, Add
  <2>4. Placed(s)' /\ Engaged(s)' /\ Mine(s)' /\ ~AwaitsAnswer(s)' /\ Alive(s)'
    BY <1>4, <1>5, <1>7, <1>12, <2>1
    DEF Placed, Engaged, Mine, AwaitsAnswer, KernelLabels, Alive, OpcodeOf
  <2>5. Directed(t)' /\ Directed(s)'
    BY Zenon, <1>5, <1>7, <1>12, <2>1 DEF Directed, Serves
  <2>6. /\ Awaiters(t)' = Awaiters(t) => Counted(t)'
        /\ Awaiters(s)' = Awaiters(s) => Counted(s)'
    <3>1. ~InKernel(s)'
      BY Zenon, <2>1 DEF InKernel
    <3>2. QED
      BY Zenon, <1>0, <1>5, <1>9, <1>10, <2>1, <2>4, <3>1, Leaves, Keeps
  <2>7. Quiet(t) /\ Quiet(s)
    BY Zenon, <1>5, <1>7, <1>9, <2>1, <2>4, <2>5, <2>6 DEF Quiet
  <2>8. QED
    BY <1>1, <1>4, <1>6, <2>1, <2>2, <2>3, <2>7, PairStep, Zenon
<1>13. QED
  BY Zenon, <1>11, <1>12

=============================================================================
