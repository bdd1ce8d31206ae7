-------------------------------- MODULE Ipc ---------------------------------
(***************************************************************************)
(* Message passing between threads (kernel/proc/ipc.c), and the stopping   *)
(* of a process whose threads are using it (kernel/proc/process.c).        *)
(*                                                                         *)
(* Clients send to the process Server, which answers them on popup threads *)
(* and on threads that call ipc_receive.  ipc_wait_queue.lock is ipcLock:  *)
(* a thread that is going to sleep keeps it from the handler to            *)
(* sleep_ipc_thread.  Every other critical section is one action.          *)
(*                                                                         *)
(* A message is its tag: who asked, the number of the question, and        *)
(* whether it is the answer.  An opcode is whether an answer is expected.  *)
(***************************************************************************)
EXTENDS Threads

CONSTANTS
  Clients,     \* threads that send
  Receivers,   \* threads of Server that call ipc_receive
  Home,        \* Home[t]: the process t starts in, NoProc for a free struct
  Server,      \* the process the clients send to
  System,      \* the process that is told of stopped processes
  Kinds,       \* the system calls the clients make
  Preset,      \* processes that have registered a popup handler already
  AllPorts,    \* the popup handler knows every opcode
  Killable,    \* processes that may be told to exit
  MaxAsk       \* bound: messages of one client

AllKinds == {"popup_request", "popup_notify", "serial_request", "serial_notify"}

ASSUME IpcAssumption ==
  /\ Clients \cup Receivers \subseteq Threads
  /\ Home \in [Threads -> Procs \cup {NoProc}]
  /\ {Server, System} \subseteq Procs /\ Preset \subseteq Procs /\ Killable \subseteq Procs
  /\ Kinds \subseteq AllKinds /\ AllPorts \in BOOLEAN /\ MaxAsk \in Nat

VARIABLES
  ipcq,        \* ipcq[t]: the place of t on ipc_wait_queue, 1 the first; 0: not on it
  ipcLock,     \* the thread that holds its lock into sleep_ipc_thread
  waitType,    \* waitType[t]: thread.wait_type
  waitFor,     \* waitFor[t]: thread.ipc_wait, <<pid, tid>>
  replyTo,     \* replyTo[t]: thread.ipc_reply_to, <<pid, tid>>
  msg,         \* msg[t]: the message block of t
  opcode,      \* opcode[t]: the opcode handed to t, or kept while t waits
  popup,       \* processes with a popup_msg_handler
  role,        \* role[t]: the program t runs
  call,        \* call[t]: the last request of client t
  dst,         \* dst[t]: the waiter ipc_respond has read from ipc_reply_to
  asked,       \* asked[t]: the number of messages t has sent
  cleanup,     \* processes whose cleanup_event is signalled
  cleaner,     \* cleaner[p]: where p's cleaner thread is
  unacked      \* unacked[p]: freed thread blocks some CPU has to acknowledge

linkVars == <<waitType, waitFor, replyTo>>
userVars == <<role, call, asked>>
stopVars == <<cleanup, cleaner, unacked>>
vars == <<threadVars, ipcq, ipcLock, linkVars, msg, opcode, popup, dst,
          userVars, stopVars>>

NoOne == <<NoProc, NoThread>>
Me(t) == <<pid[t], t>>
NoMsg == [from |-> NoThread, n |-> 0, answer |-> FALSE]

Replies(k) == k \in {"popup_request", "serial_request"}
PopsUp(k)  == k \in {"popup_request", "popup_notify"}

Init ==
  /\ ThreadsInit(Home)
  /\ ipcq = [t \in Threads |-> 0] /\ ipcLock = NoThread
  /\ waitType = [t \in Threads |-> "none"]
  /\ waitFor = [t \in Threads |-> NoOne]
  /\ replyTo = [t \in Threads |-> NoOne]
  /\ msg = [t \in Threads |-> NoMsg]
  /\ opcode = [t \in Threads |-> "none"]
  /\ popup = Preset
  /\ role = [t \in Threads |-> IF t \in Clients THEN "client"
                               ELSE IF t \in Receivers THEN "receiver" ELSE "none"]
  /\ call = [t \in Threads |-> "none"]
  /\ dst = [t \in Threads |-> NoOne]
  /\ asked = [t \in Threads |-> 0]
  /\ cleanup = {}
  /\ cleaner = [p \in Procs |-> "wait"]
  /\ unacked = [p \in Procs |-> 0]

-----------------------------------------------------------------------------
\* User programs.

\* A client fills its message block and makes one of its requests.
Ask(t, k) ==
  /\ role[t] = "client" /\ asked[t] < MaxAsk
  /\ Dispatch(t, "request")
  /\ asked' = [asked EXCEPT ![t] = @ + 1]
  /\ msg' = [msg EXCEPT ![t] = [from |-> t, n |-> asked[t] + 1, answer |-> FALSE]]
  /\ call' = [call EXCEPT ![t] = k]
  /\ UNCHANGED <<ipcq, ipcLock, linkVars, opcode, popup, dst, role, stopVars>>

\* A server thread that was handed a request writes the answer and responds.
Answer(t) ==
  /\ role[t] \in {"receiver", "popup"} /\ opcode[t] = "request"
  /\ role[t] = "popup" => AllPorts
  /\ Dispatch(t, "respond")
  /\ msg' = [msg EXCEPT ![t] = [from |-> @.from, n |-> @.n, answer |-> TRUE]]
  /\ opcode' = [opcode EXCEPT ![t] = "none"]
  /\ UNCHANGED <<ipcq, ipcLock, linkVars, popup, dst, userVars, stopVars>>

\* Any other system call of a server thread, its registration first.
Receive(t) ==
  /\ role[t] = "receiver" /\ opcode[t] # "request"
  /\ Dispatch(t, IF Server \in popup THEN "receive" ELSE "register")
  /\ UNCHANGED <<ipcq, ipcLock, linkVars, msg, opcode, popup, dst, userVars, stopVars>>

\* A popup thread ends when its handler has returned, or when there is none.
Return(t) ==
  /\ role[t] = "popup"
  /\ opcode[t] = "request" => ~AllPorts
  /\ ThreadExit(t)
  /\ UNCHANGED <<ipcq, ipcLock, linkVars, msg, opcode, popup, dst, userVars, stopVars>>

\* The process is stopped: a tick or a system call ends the thread.
Stop(t) ==
  /\ DispatchStopped(t)
  /\ UNCHANGED <<ipcq, ipcLock, linkVars, msg, opcode, popup, dst, userVars, stopVars>>

-----------------------------------------------------------------------------
\* Handlers.

Lockable == ipcLock = NoThread

Queued == {t \in Threads : ipcq[t] > 0}

\* The first thread of the wait queue that is in S.
First(t, S) == t \in S /\ \A u \in S : ipcq[t] <= ipcq[u]

\* list_push_front, and the removal of the threads gone.
Pushed(t) == [u \in Threads |-> IF u = t THEN 1
                                ELSE IF ipcq[u] > 0 THEN ipcq[u] + 1 ELSE 0]
Without(gone) ==
  [u \in Threads |-> IF u \in gone THEN 0
                     ELSE ipcq[u] - Cardinality({g \in gone : ipcq[g] < ipcq[u]})]

\* Threads in ipc_receive for process p, and senders waiting for one in p.
WaitingReceivers(p) == {t \in Queued : waitType[t] = "serial_req" /\ waitFor[t][1] = p}
WaitingSenders(p)   == {t \in Queued : waitType[t] = "serial_recv" /\ waitFor[t][1] = p}

\* t will wait for the answer of r.
Link(t, r, rpid) ==
  /\ waitType' = [waitType EXCEPT ![t] = "resp"]
  /\ waitFor' = [waitFor EXCEPT ![t] = <<rpid, r>>]
  /\ replyTo' = [replyTo EXCEPT ![r] = Me(t)]

OpcodeOf(k) == IF Replies(k) THEN "request" ELSE "notify"

ipc_reg_popup_handler(t) ==
  /\ pc[t] = "register"
  /\ popup' = popup \cup {pid[t]}
  /\ pc' = [pc EXCEPT ![t] = "user"]
  /\ ref' = Add(ref, t, -1)
  /\ UNCHANGED <<tstate, pid, listed, pstate, panicked, ipcq, ipcLock, linkVars, msg,
                 opcode, dst, userVars, stopVars>>

\* ipc_request to a process with a popup handler: a thread of that process is
\* created to take the message.  With an answer to come the lock is kept.
ipc_request_popup(t) ==
  /\ pc[t] = "request" /\ PopsUp(call[t]) /\ Server \in popup
  /\ Replies(call[t]) => Lockable
  /\ \E n \in Threads :
       /\ create_and_run_thread(n, Server)
       /\ role' = [role EXCEPT ![n] = "popup"]
       /\ msg' = [msg EXCEPT ![n] = msg[t]]
       /\ opcode' = [opcode EXCEPT ![n] = OpcodeOf(call[t])]
       /\ IF Replies(call[t])
          THEN /\ Link(t, n, Server)
               /\ ipcLock' = t
               /\ pc' = [pc EXCEPT ![n] = "user", ![t] = "sleep_ipc"]
               /\ ref' = [ref EXCEPT ![n] = NewRef + 1, ![t] = @ + 1]
          ELSE /\ replyTo' = [replyTo EXCEPT ![n] = NoOne]
               /\ pc' = [pc EXCEPT ![n] = "user", ![t] = "user"]
               /\ ref' = [ref EXCEPT ![n] = NewRef, ![t] = @ - 1]
               /\ UNCHANGED <<ipcLock, waitType, waitFor>>
  /\ UNCHANGED <<ipcq, popup, dst, call, asked, stopVars>>

\* ipc_request with a receiver waiting.
ipc_request_serial(t) ==
  /\ pc[t] = "request" /\ ~(PopsUp(call[t]) /\ Server \in popup)
  /\ Lockable
  /\ \E r \in Threads :
       /\ First(r, WaitingReceivers(Server))
       /\ ipcq' = Without({r})
       /\ msg' = [msg EXCEPT ![r] = msg[t]]
       /\ opcode' = [opcode EXCEPT ![r] = OpcodeOf(call[t])]
       /\ set_thread_state({r}, "normal")
       /\ IF Replies(call[t])
          THEN /\ Link(t, r, pid[r])
               /\ ipcLock' = t
               /\ pc' = [pc EXCEPT ![r] = "user", ![t] = "sleep_ipc"]
               /\ ref' = [ref EXCEPT ![r] = @ + 1, ![t] = @ + 1]
          ELSE /\ pc' = [pc EXCEPT ![r] = "user", ![t] = "user"]
               /\ ref' = Add(ref, t, -1)
               /\ UNCHANGED <<ipcLock, linkVars>>
  /\ UNCHANGED <<pid, listed, pstate, popup, dst, userVars, stopVars>>

\* ipc_request with no receiver: the sender waits for one, whether or not it
\* expects an answer.
ipc_request_wait(t) ==
  /\ pc[t] = "request" /\ ~(PopsUp(call[t]) /\ Server \in popup)
  /\ Lockable /\ WaitingReceivers(Server) = {}
  /\ ipcLock' = t
  /\ waitType' = [waitType EXCEPT ![t] = "serial_recv"]
  /\ waitFor' = [waitFor EXCEPT ![t] = <<Server, NoThread>>]
  /\ opcode' = [opcode EXCEPT ![t] = OpcodeOf(call[t])]
  /\ pc' = [pc EXCEPT ![t] = "sleep_ipc"]
  /\ UNCHANGED <<tstate, pid, ref, listed, pstate, panicked, ipcq, replyTo, msg,
                 popup, dst, userVars, stopVars>>

\* Mutant: the lock is released before the thread is on the queue.
sleep_ipc_thread_late(t) ==
  /\ pc[t] = "sleep_ipc"
  /\ IF ipcLock = t
     THEN /\ ipcLock' = NoThread
          /\ UNCHANGED <<threadVars, ipcq>>
     ELSE /\ Lockable
          /\ set_thread_state({t}, "wait")
          /\ ipcq' = Pushed(t)
          /\ pc' = [pc EXCEPT ![t] = "asleep"]
          /\ ref' = Add(ref, t, -1)
          /\ UNCHANGED <<ipcLock, pid, listed, pstate>>
  /\ UNCHANGED <<linkVars, msg, opcode, popup, dst, userVars, stopVars>>

\* The end of dispatch() for a thread that has to wait.
sleep_ipc_thread(t) ==
  /\ pc[t] = "sleep_ipc"
  /\ set_thread_state({t}, "wait")
  /\ ipcq' = Pushed(t)
  /\ ipcLock' = NoThread
  /\ pc' = [pc EXCEPT ![t] = "asleep"]
  /\ ref' = Add(ref, t, -1)
  /\ UNCHANGED <<pid, listed, pstate, linkVars, msg, opcode, popup, dst, userVars,
                 stopVars>>

\* ipc_respond reads ipc_reply_to under the thread's lock...
ipc_respond_read(t) ==
  /\ pc[t] = "respond"
  /\ dst' = [dst EXCEPT ![t] = replyTo[t]]
  /\ IF replyTo[t] = NoOne
     THEN pc' = [pc EXCEPT ![t] = "user"] /\ ref' = Add(ref, t, -1)
     ELSE pc' = [pc EXCEPT ![t] = "respond_find"] /\ UNCHANGED ref
  /\ UNCHANGED <<tstate, pid, listed, pstate, panicked, ipcq, ipcLock, linkVars, msg,
                 opcode, popup, userVars, stopVars>>

\* Mutant: any thread waiting for an answer will do.
WaitersAny(t) == {w \in Queued : waitType[w] = "resp"}

\* The threads ipc_respond can wake: the one it has read, if it waits.
Waiters(t) == {w \in Queued : Me(w) = dst[t] /\ waitType[w] = "resp"}

\* Mutant: the responder keeps the reference of the request.
ipc_respond_norelease(t) ==
  /\ pc[t] = "respond_find" /\ Lockable
  /\ IF Waiters(t) = {}
     THEN /\ pc' = [pc EXCEPT ![t] = "user"]
          /\ ref' = Add(ref, t, -1)
          /\ UNCHANGED <<tstate, panicked, ipcq, msg>>
     ELSE \E w \in Threads :
          /\ First(w, Waiters(t))
          /\ ipcq' = Without({w})
          /\ msg' = [msg EXCEPT ![w] = msg[t]]
          /\ set_thread_state({w}, "normal")
          /\ pc' = [pc EXCEPT ![w] = "user", ![t] = "user"]
          /\ ref' = [ref EXCEPT ![w] = @ - 1, ![t] = @ - 1]
  /\ UNCHANGED <<pid, listed, pstate, ipcLock, linkVars, opcode, popup, dst, userVars,
                 stopVars>>

\* ... and then looks for that thread on the wait queue.
ipc_respond(t) ==
  /\ pc[t] = "respond_find" /\ Lockable
  /\ IF Waiters(t) = {}
     THEN /\ pc' = [pc EXCEPT ![t] = "user"]
          /\ ref' = Add(ref, t, -1)
          /\ UNCHANGED <<tstate, panicked, ipcq, msg>>
     ELSE \E w \in Threads :
          /\ First(w, Waiters(t))
          /\ ipcq' = Without({w})
          /\ msg' = [msg EXCEPT ![w] = msg[t]]
          /\ set_thread_state({w}, "normal")
          /\ pc' = [pc EXCEPT ![w] = "user", ![t] = "user"]
          /\ ref' = [ref EXCEPT ![w] = @ - 1, ![t] = @ - 2]
  /\ UNCHANGED <<pid, listed, pstate, ipcLock, linkVars, opcode, popup, dst, userVars,
                 stopVars>>

\* ipc_receive with a sender waiting.  A sender that expects an answer is
\* taken off the queue and linked, and stays asleep.
ipc_receive(t) ==
  /\ pc[t] = "receive" /\ Lockable
  /\ \E s \in Threads :
       /\ First(s, WaitingSenders(pid[t]))
       /\ ipcq' = Without({s})
       /\ msg' = [msg EXCEPT ![t] = msg[s]]
       /\ opcode' = [opcode EXCEPT ![t] = opcode[s]]
       /\ IF opcode[s] = "request"
          THEN /\ Link(s, t, pid[t])
               /\ pc' = [pc EXCEPT ![t] = "user"]
               /\ ref' = Add(ref, s, 1)    \* t: one more, and dispatch's released
               /\ UNCHANGED <<tstate, panicked>>
          ELSE /\ set_thread_state({s}, "normal")
               /\ pc' = [pc EXCEPT ![s] = "user", ![t] = "user"]
               /\ ref' = Add(ref, t, -1)
               /\ UNCHANGED linkVars
  /\ UNCHANGED <<pid, listed, pstate, ipcLock, popup, dst, userVars, stopVars>>

ipc_receive_wait(t) ==
  /\ pc[t] = "receive" /\ Lockable /\ WaitingSenders(pid[t]) = {}
  /\ ipcLock' = t
  /\ waitType' = [waitType EXCEPT ![t] = "serial_req"]
  /\ waitFor' = [waitFor EXCEPT ![t] = Me(t)]
  /\ pc' = [pc EXCEPT ![t] = "sleep_ipc"]
  /\ UNCHANGED <<tstate, pid, ref, listed, pstate, panicked, ipcq, replyTo, msg,
                 opcode, popup, dst, userVars, stopVars>>

-----------------------------------------------------------------------------
\* Ends of threads and processes.

Unlink(t) ==
  /\ exit_thread_unlink(t)
  /\ UNCHANGED <<ipcq, ipcLock, linkVars, msg, opcode, popup, dst, userVars, stopVars>>

\* The last part of exit_thread.  The thread's block is acknowledged by all
\* CPUs only after this one has dispatched again, so from here on (the blocks of
\* a process nobody stops are left out).  salloc clears the struct before it
\* hands it out again.
Reap(t) ==
  /\ exit_thread_reap(t)
  /\ unacked' = IF pid[t] \in Killable THEN Add(unacked, pid[t], 1) ELSE unacked
  /\ waitType' = [waitType EXCEPT ![t] = "none"]
  /\ waitFor' = [waitFor EXCEPT ![t] = NoOne]
  /\ replyTo' = [replyTo EXCEPT ![t] = NoOne]
  /\ msg' = [msg EXCEPT ![t] = NoMsg]
  /\ opcode' = [opcode EXCEPT ![t] = "none"]
  /\ dst' = [dst EXCEPT ![t] = NoOne]
  /\ role' = [role EXCEPT ![t] = "none"]
  /\ call' = [call EXCEPT ![t] = "none"]
  /\ asked' = [asked EXCEPT ![t] = 0]
  /\ UNCHANGED <<ipcq, ipcLock, popup, cleanup, cleaner>>

\* The last CPU acknowledges a thread's block, and signals the cleaner.
Acknowledge(p) ==
  /\ unacked[p] > 0
  /\ unacked' = Add(unacked, p, -1)
  /\ cleanup' = cleanup \cup {p}
  /\ UNCHANGED <<threadVars, ipcq, ipcLock, linkVars, msg, opcode, popup, dst,
                 userVars, cleaner>>

\* Some thread of another process, the system's, stops p.
Exit(p) ==
  /\ pstate[p] = "enter"
  /\ exit_process(p)
  /\ cleanup' = cleanup \cup {p}
  /\ UNCHANGED <<pc, tstate, pid, ref, listed, panicked, ipcq, ipcLock, linkVars,
                 msg, opcode, popup, dst, userVars, cleaner, unacked>>

CleanerTo(p, place) == cleaner' = [cleaner EXCEPT ![p] = place]

\* process_cleaner: event_wait returns.
CleanerWake(p) ==
  /\ cleaner[p] = "wait" /\ p \in cleanup
  /\ cleanup' = cleanup \ {p}
  /\ CleanerTo(p, "stop")
  /\ UNCHANGED <<threadVars, ipcq, ipcLock, linkVars, msg, opcode, popup, dst,
                 userVars, unacked>>

\* Mutant: the threads are not counted.
stop_all_threads_uncounted(p) ==
  /\ cleaner[p] = "stop"
  /\ CleanerTo(p, IF pstate[p] # "stopped" THEN "wait" ELSE "notify")
  /\ UNCHANGED <<threadVars, ipcq, ipcLock, linkVars, msg, opcode, popup, dst,
                 userVars, cleanup, unacked>>

\* _stop_all_threads, up to the decision.
stop_all_threads(p) ==
  /\ cleaner[p] = "stop"
  /\ CleanerTo(p, IF pstate[p] # "stopped" THEN "wait"
                  ELSE IF ThreadsOf(p) # {} THEN "purge" ELSE "notify")
  /\ UNCHANGED <<threadVars, ipcq, ipcLock, linkVars, msg, opcode, popup, dst,
                 userVars, cleanup, unacked>>

\* The waiters of p that wait for the answer of a thread that is still listed.
PurgedAnswers(p, r) ==
  {w \in Queued : /\ pid[w] = p /\ waitType[w] = "resp"
                  /\ waitFor[w][2] = r /\ r \in listed}

\* purge_ipc_queue: every thread of p on the queue is woken and gives up a
\* reference, and so does the thread it expected an answer from.
purge_ipc_queue(p) ==
  /\ cleaner[p] = "purge" /\ Lockable
  /\ LET purged == {w \in Queued : pid[w] = p}
         Owed(t) == Cardinality(PurgedAnswers(p, t))
     IN
       /\ ipcq' = Without(purged)
       /\ ref' = [t \in Threads |->
                    ref[t] - (IF t \in purged THEN 1 ELSE 0) - Owed(t)]
       /\ replyTo' = [t \in Threads |-> IF Owed(t) > 0 THEN NoOne ELSE replyTo[t]]
       /\ set_thread_state(purged, "normal")
       /\ pc' = [t \in Threads |-> IF t \in purged THEN "user" ELSE pc[t]]
  /\ CleanerTo(p, "wait")
  /\ UNCHANGED <<pid, listed, pstate, ipcLock, waitType, waitFor, msg, opcode, popup,
                 dst, userVars, cleanup, unacked>>

\* ipc_notify_system(SYS_NOTIF_PROCESS_STOPPED): a popup thread of the system
\* process takes the message.
ipc_notify_system(p) ==
  /\ cleaner[p] = "notify"
  /\ CleanerTo(p, "notified")
  /\ IF System \in popup
     THEN \E n \in Threads :
            /\ create_and_run_thread(n, System)
            /\ pc' = [pc EXCEPT ![n] = "user"]
            /\ ref' = [ref EXCEPT ![n] = NewRef]
            /\ role' = [role EXCEPT ![n] = "popup"]
            /\ opcode' = [opcode EXCEPT ![n] = "notify"]
     ELSE UNCHANGED <<threadVars, role, opcode>>
  /\ UNCHANGED <<ipcq, ipcLock, linkVars, msg, popup, dst, call, asked, cleanup, unacked>>

-----------------------------------------------------------------------------

\* What a thread does by itself, in the kernel or in its program's loop.
ThreadStep(t) ==
  \/ Answer(t) \/ Receive(t) \/ Return(t) \/ Stop(t)
  \/ ipc_reg_popup_handler(t)
  \/ ipc_request_popup(t) \/ ipc_request_serial(t) \/ ipc_request_wait(t)
  \/ sleep_ipc_thread(t)
  \/ ipc_respond_read(t) \/ ipc_respond(t)
  \/ ipc_receive(t) \/ ipc_receive_wait(t)
  \/ Unlink(t) \/ Reap(t)

CleanerStep(p) ==
  \/ Acknowledge(p)
  \/ CleanerWake(p) \/ stop_all_threads(p) \/ purge_ipc_queue(p)
  \/ ipc_notify_system(p)

Next ==
  /\ Running
  /\ \/ \E t \in Threads : ThreadStep(t)
     \/ \E t \in Threads, k \in Kinds : Ask(t, k)
     \/ \E p \in Procs : CleanerStep(p)
     \/ \E p \in Killable : Exit(p)

Spec == Init /\ [][Next]_vars

\* Every CPU goes on, every thread is scheduled, every cleaner runs.
FairSpec ==
  /\ Spec
  /\ \A t \in Threads : WF_vars(Running /\ ThreadStep(t))
  /\ \A p \in Procs : WF_vars(Running /\ CleanerStep(p))

-----------------------------------------------------------------------------
\* Properties.

\* t waits for an answer, or is about to.
AwaitsAnswer(t) == pc[t] \in {"asleep", "sleep_ipc"} /\ waitType[t] = "resp"

InKernel(t) == pc[t] \in {"register", "request", "sleep_ipc", "respond", "respond_find",
                          "receive"}

\* The reference count of a live thread is accounted for to the last unit:
\* one for its creation, one for running, one while dispatch() uses it, one
\* if it waits for an answer, one for every thread that waits for its answer.
RefsExact ==
  Running => \A t \in Threads : pc[t] \in {"user", "asleep"} \/ InKernel(t) =>
    ref[t] = NewRef + (IF InKernel(t) THEN 1 ELSE 0)
                    + (IF AwaitsAnswer(t) THEN 1 ELSE 0)
                    + Cardinality({w \in Threads : AwaitsAnswer(w) /\ waitFor[w][2] = t})

\* The kernel does not panic: exit_thread finds no reference left, and
\* set_thread_state sees only the transitions it allows.
NoPanic == panicked = "none"

\* t has come back from its last request with the answer to it.
Mine(t) ==
  role[t] = "client" /\ pc[t] = "user" /\ Replies(call[t]) /\ pstate[pid[t]] # "stopped" =>
    msg[t] = [from |-> t, n |-> asked[t], answer |-> TRUE]

\* A client of a process that has not been stopped comes back from a request
\* with the answer to that very request in its message block.
AnswerIsMine == \A t \in Threads : Mine(t)

\* The thread a waiter expects the answer from exists, and will send it there.
Linked ==
  Running => \A w \in Threads : AwaitsAnswer(w) =>
    LET r == waitFor[w][2] IN r \in listed /\ replyTo[r] = Me(w)

\* A thread is asleep exactly when it is on the wait queue, so a purge or a
\* respond can find every sleeper.
SleepersQueued == \A t \in Threads : pc[t] = "asleep" <=> t \in Queued

\* Once the system has been told that a process is stopped, the process has
\* no thread, and gets none.
StoppedIsEmpty == \A p \in Procs : cleaner[p] = "notified" => ThreadsOf(p) = {}

\* Every request is answered: no client sleeps for ever.
AllAnswered == \A t \in Clients : pc[t] = "request" ~> pc[t] = "user"

\* No client is between its request and its answer, and every stopped process
\* has been cleaned up to the point where the system is told.
Settled ==
  Running =>
    /\ \A t \in Clients : pc[t] \in {"none", "user"}
    /\ \A p \in Procs : pstate[p] = "stopped" => cleaner[p] = "notified"
=============================================================================
