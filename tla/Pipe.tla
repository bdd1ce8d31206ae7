-------------------------------- MODULE Pipe --------------------------------
(***************************************************************************)
(* The named pipes of the VFS server (vfs_pipe_read and vfs_pipe_write of  *)
(* system/vfs/vfs.c) over two libc semaphores and a mutex.  A writer       *)
(* publishes a pointer to its own buffer, posts the writer semaphore and   *)
(* waits on the reader semaphore; a reader copies from the buffer and      *)
(* posts.  Reads and writes run in the pop-up threads of the server.       *)
(*                                                                         *)
(* A buffer is named by its writer, so that a stale pointer can be seen;   *)
(* the mutex is the lock of FutexLock, taken here in one step.             *)
(***************************************************************************)
EXTENDS Semaphore

CONSTANTS
  ReaderSema,  \* pipe.reader
  WriterSema,  \* pipe.writer
  Sizes,       \* how much a writer writes or a reader asks for
  MaxMsg       \* the room for data in one message

VARIABLES
  plock,       \* holder of pipe.lock
  pipe,        \* the fields data, count and offset of vnode.pipe
  ask,         \* ask[t]: the count t was called with
  result       \* the size the last vfs_pipe_read returned

pipeVars == <<pc, futex, call, kbit, waitLock, waiting, left, plock, pipe,
              ask, result>>

Readers == Takers
Writers == Posters

PipeInit ==
  /\ WaitInit
  /\ pc = [t \in Threads |-> "idle"]
  /\ left = [t \in Threads |->
               IF t \in Readers THEN Rounds * Cardinality(Writers) ELSE Rounds]
  /\ plock = NoThread
  /\ pipe = [data |-> NoThread, count |-> 0, offset |-> 0]
  /\ ask = [t \in Threads |-> 0]
  /\ result = 0

PipeBegin(t) ==
  /\ pc[t] = "idle"
  /\ left[t] > 0
  /\ left' = [left EXCEPT ![t] = @ - 1]
  /\ \E n \in Sizes : ask' = [ask EXCEPT ![t] = n]
  /\ Goto(t, IF t \in Readers THEN "r_wait" ELSE "w_lock")
  /\ UNCHANGED <<futex, plock, pipe, result>>

ReadWait(t) ==
  /\ sema_wait(t, WriterSema, "r_wait", "r_copy")
  /\ UNCHANGED <<left, plock, pipe, ask, result>>

\* Mutant: the size is not limited to what is left of the buffer.
ReadSizeUnlimited(t) == IF ask[t] > MaxMsg THEN MaxMsg ELSE ask[t]

\* req_count: what is left of the buffer, at most what was asked for and
\* what fits in the message.
ReadSize(t) ==
  LET rest == pipe.count - pipe.offset
      want == IF rest > ask[t] THEN ask[t] ELSE rest
  IN  IF want > MaxMsg THEN MaxMsg ELSE want

ReadCopy(t) ==
  /\ pc[t] = "r_copy"
  /\ pipe' = [pipe EXCEPT !.offset = @ + ReadSize(t)]
  /\ result' = ReadSize(t)
  /\ ask' = [ask EXCEPT ![t] = 0]
  /\ Goto(t, "r_post")
  /\ UNCHANGED <<futex, left, plock>>

ReadPost(t) ==
  /\ \/ sema_post_count(t, ReaderSema, 1, 0, "r_post", "r_kernel", "idle")
     \/ sema_post_kernel(t, ReaderSema, "r_kernel", "idle")
  /\ UNCHANGED <<left, plock, pipe, ask, result>>

\* Mutant: the writers are not kept apart.
WriteFillUnlocked(t) ==
  /\ pc[t] = "w_lock"
  /\ plock' = t
  /\ pipe' = [data |-> t, count |-> ask[t], offset |-> 0]
  /\ Goto(t, "w_post")
  /\ UNCHANGED <<futex, left, ask, result>>

\* mutex_lock and the assignments of data, count and offset.
WriteFill(t) ==
  /\ pc[t] = "w_lock"
  /\ plock = NoThread
  /\ plock' = t
  /\ pipe' = [data |-> t, count |-> ask[t], offset |-> 0]
  /\ Goto(t, "w_post")
  /\ UNCHANGED <<futex, left, ask, result>>

WritePost(t) ==
  /\ \/ sema_post_count(t, WriterSema, 1, 0, "w_post", "w_kernel", "w_wait")
     \/ sema_post_kernel(t, WriterSema, "w_kernel", "w_wait")
  /\ UNCHANGED <<left, plock, pipe, ask, result>>

WriteWait(t) ==
  /\ sema_wait(t, ReaderSema, "w_wait", "w_unlock")
  /\ UNCHANGED <<left, plock, pipe, ask, result>>

\* The size written is pipe.offset.
WriteUnlock(t) ==
  /\ pc[t] = "w_unlock"
  /\ plock' = NoThread
  /\ ask' = [ask EXCEPT ![t] = 0]
  /\ Goto(t, "idle")
  /\ UNCHANGED <<futex, left, pipe, result>>

PipeKernel(t) == WaitStep(t) /\ UNCHANGED <<left, plock, pipe, ask, result>>

PipeStep(t) ==
  \/ PipeBegin(t)
  \/ ReadWait(t) \/ ReadCopy(t) \/ ReadPost(t)
  \/ WriteFill(t) \/ WritePost(t) \/ WriteWait(t) \/ WriteUnlock(t)
  \/ PipeKernel(t)

PipeNext == \E t \in Threads : PipeStep(t)

PipeSpec == PipeInit /\ [][PipeNext]_pipeVars

PipeFairness == \A t \in Threads : WF_pipeVars(PipeStep(t))

-----------------------------------------------------------------------------

\* While a reader copies, the buffer it copies from belongs to a writer that
\* is still inside vfs_pipe_write, no other reader copies, and the copy stays
\* inside the buffer: a writer's message is never read after its thread has
\* answered.
BufferAlive ==
  \A r \in Readers : pc[r] = "r_copy" =>
    /\ pipe.data \in Writers
    /\ plock = pipe.data
    /\ \A q \in Readers : pc[q] = "r_copy" => q = r
    /\ pipe.offset + ReadSize(r) <= pipe.count

\* A writer is told exactly what one reader took of its buffer: nothing is
\* counted twice and no write is reported that nobody read.
WriteReported ==
  \A w \in Writers : pc[w] = "w_unlock" =>
    pipe.data = w /\ pipe.offset = result /\ pipe.offset > 0

\* Every call has returned.
PipeIdle == \A t \in Threads : pc[t] = "idle"
=============================================================================
