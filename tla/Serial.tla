------------------------------- MODULE Serial -------------------------------
(***************************************************************************)
(* The serial line from the UART to the threads that read and write        *)
(* /dev/serial, across four processes: the interrupt controller and its    *)
(* mask (hal/dev/intc.c, hal/dev/dev.c), the kernel's table of user        *)
(* interrupt handlers (kernel/proc/int.c), the driver, whose handler runs  *)
(* in a new thread for every interrupt (device/driver/ns16550.c and        *)
(* pl011.c), and devfs, which holds its rwlock while a worker thread waits *)
(* for the driver (device/dev/devfs.c, libdrv/drv.c).                      *)
(*                                                                         *)
(* Bytes are numbered in the order they come in.  sema_wait and            *)
(* sema_post_count are one step each here: what they promise is checked in *)
(* Semaphore, and the rwlock's promise in RwLock.                          *)
(***************************************************************************)
EXTENDS Integers, Sequences, FiniteSets, FiniteSetsExt, SequencesExt

CONSTANTS
  Handlers,    \* interrupt handler threads that may exist at a time
  Readers,     \* threads that read the device
  Writers,     \* threads that write to it, two bytes each
  Counts,      \* the counts they read by
  Cap,         \* sizeof(unsigned long) - 1
  RxCap,       \* bytes the UART holds
  MaxIn,       \* bytes that come in
  EoiFirst     \* ns16550.c ends the interrupt before it enables the UART's

VARIABLES
  uart,        \* [rx, ier, out]: received bytes, interrupts enabled, sent bytes
  irq,         \* [masked, dev, seq]: mask, devs[irq_seq] and user_seq are set
  handler,     \* the entry of int_handler_table: "free", "valid", "filled"
  drv,         \* how far init_ns16550_driver is
  intr,        \* intr[h]: [at, rc] of a handler thread
  buf, units,  \* shift buffer, oldest byte first, and semaphore
  rd,          \* rd[r]: [at, want, n] of a call of devfs_read
  wt,          \* wt[w]: bytes left to write, 0 outside a call
  log          \* [sent, got, dead]: bytes that came in, bytes read, in order

serialVars == <<uart, irq, handler, drv, intr, buf, units, rd, wt, log>>

SerialInit ==
  /\ uart = [rx |-> <<>>, ier |-> FALSE, out |-> <<>>]
  /\ irq = [masked |-> TRUE, dev |-> FALSE, seq |-> FALSE]
  /\ handler = "free" /\ drv = "alloc"
  /\ intr = [h \in Handlers |-> [at |-> "none", rc |-> 0]]
  /\ buf = <<>> /\ units = 0
  /\ rd = [r \in Readers |-> [at |-> "idle", want |-> 0, n |-> 0]]
  /\ wt = [w \in Writers |-> 0]
  /\ log = [sent |-> 0, got |-> <<>>, dead |-> FALSE]

-----------------------------------------------------------------------------
\* Registration and start of the driver.

\* int_handler_register: the entry is valid before it is filled in.
alloc_int_handler ==
  /\ drv = "alloc" /\ drv' = "hal" /\ handler' = "valid"
  /\ UNCHANGED <<uart, irq, intr, buf, units, rd, wt, log>>

\* generic_intc_dev_setup_int, which unmasks the line.
setup_int ==
  /\ drv = "hal" /\ drv' = "seq"
  /\ irq' = [irq EXCEPT !.dev = TRUE, !.masked = FALSE]
  /\ UNCHANGED <<uart, handler, intr, buf, units, rd, wt, log>>

\* The rest of _user_int_register, after the line is unmasked.
set_user_seq ==
  /\ drv = "seq" /\ drv' = "fill" /\ irq' = [irq EXCEPT !.seq = TRUE]
  /\ UNCHANGED <<uart, handler, intr, buf, units, rd, wt, log>>

fill_handler ==
  /\ drv = "fill" /\ drv' = "start" /\ handler' = "filled"
  /\ UNCHANGED <<uart, irq, intr, buf, units, rd, wt, log>>

\* int_register finds no such device: the entry is freed, and the driver
\* goes on without interrupts, since nothing looks at ns16550.seq.
RegisterFails ==
  /\ drv = "hal" /\ drv' = "deaf" /\ handler' = "free"
  /\ UNCHANGED <<uart, irq, intr, buf, units, rd, wt, log>>

\* start_ns16550, start_pl011: what is in the UART is thrown away.
start_ns16550 ==
  /\ drv \in {"start", "deaf"}
  /\ drv' = IF drv = "start" THEN "up" ELSE "deafUp"
  /\ uart' = [uart EXCEPT !.rx = <<>>, !.ier = TRUE]
  /\ UNCHANGED <<irq, handler, intr, buf, units, rd, wt, log>>

-----------------------------------------------------------------------------
\* Interrupts.

\* A byte comes in (a sender that never overruns the UART).
Receive ==
  /\ log.sent < MaxIn /\ Len(uart.rx) < RxCap
  /\ log' = [log EXCEPT !.sent = @ + 1]
  /\ uart' = [uart EXCEPT !.rx = Append(@, log.sent + 1)]
  /\ UNCHANGED <<irq, handler, drv, intr, buf, units, rd, wt>>

\* generic_intc_int_handler masks the line and hands user_seq to the kernel,
\* where syscall_handler_interrupt ignores 0 and int_handler_invoke starts a
\* thread at the entry; an entry that is not filled in has no process, and
\* the reference through it is fatal.
int_handler_invoke(h) ==
  /\ uart.ier /\ uart.rx # <<>> /\ ~irq.masked /\ irq.dev
  /\ irq' = [irq EXCEPT !.masked = TRUE]
  /\ IF ~irq.seq THEN UNCHANGED <<intr, log>>
     ELSE IF handler = "filled"
     THEN /\ intr[h].at = "none"
          /\ intr' = [intr EXCEPT ![h] = [at |-> "disable", rc |-> 0]]
          /\ UNCHANGED log
     ELSE log' = [log EXCEPT !.dead = TRUE] /\ UNCHANGED intr
  /\ UNCHANGED <<uart, handler, drv, buf, units, rd, wt>>

To(h, at) == intr' = [intr EXCEPT ![h].at = at]

\* ns16550_int_handler, pl011_int_handler.
DisableInts(h) ==
  /\ intr[h].at = "disable" /\ To(h, "drain")
  /\ uart' = [uart EXCEPT !.ier = FALSE]
  /\ UNCHANGED <<irq, handler, drv, buf, units, rd, wt, log>>

\* The oldest byte is shifted out of a full buffer.
shiftbuf_write_one(b) ==
  buf' = IF Len(buf) = Cap THEN Append(Tail(buf), b) ELSE Append(buf, b)

\* The byte is one of this handler's alone: no other one drains before EOI.
DrainOne(h) ==
  /\ intr[h].at = "drain" /\ uart.rx # <<>>
  /\ shiftbuf_write_one(Head(uart.rx))
  /\ uart' = [uart EXCEPT !.rx = Tail(@)]
  /\ intr' = [intr EXCEPT ![h].rc = @ + 1]
  /\ UNCHANGED <<irq, handler, drv, units, rd, wt, log>>

Drained(h) ==
  /\ intr[h].at = "drain" /\ uart.rx = <<>>
  /\ To(h, IF EoiFirst THEN "eoi" ELSE "enable")
  /\ UNCHANGED <<uart, irq, handler, drv, buf, units, rd, wt, log>>

\* int_handler_eoi, user_int_eoi, generic_intc_dev_eoi.
int_handler_eoi(h) ==
  /\ intr[h].at = "eoi" /\ To(h, IF EoiFirst THEN "enable" ELSE "post")
  /\ irq' = [irq EXCEPT !.masked = FALSE]
  /\ UNCHANGED <<uart, handler, drv, buf, units, rd, wt, log>>

EnableInts(h) ==
  /\ intr[h].at = "enable" /\ To(h, IF EoiFirst THEN "post" ELSE "eoi")
  /\ uart' = [uart EXCEPT !.ier = TRUE]
  /\ UNCHANGED <<irq, handler, drv, buf, units, rd, wt, log>>


sema_post_count(h) ==
  /\ intr[h].at = "post"
  /\ intr' = [intr EXCEPT ![h] = [at |-> "none", rc |-> 0]]
  /\ units' = Min({Cap, units + intr[h].rc})
  /\ UNCHANGED <<uart, irq, handler, drv, buf, rd, wt, log>>

-----------------------------------------------------------------------------
\* devfs and the driver's read and write.

\* devfs_read takes the rwlock for the whole call.
devfs_read(r) ==
  /\ rd[r].at = "idle" /\ \A w \in Writers : wt[w] = 0
  /\ \E c \in Counts : rd' = [rd EXCEPT ![r] = [at |-> "wait", want |-> c, n |-> 0]]
  /\ UNCHANGED <<uart, irq, handler, drv, intr, buf, units, wt, log>>

sema_wait(r) ==
  /\ rd[r].at = "wait" /\ units > 0 /\ units' = units - 1
  /\ rd' = [rd EXCEPT ![r].at = "take"]
  /\ UNCHANGED <<uart, irq, handler, drv, intr, buf, wt, log>>

shiftbuf_read_one(r) ==
  /\ rd[r].at = "take" /\ rd[r].want > 0 /\ buf # <<>>
  /\ buf' = Tail(buf) /\ log' = [log EXCEPT !.got = Append(@, Head(buf))]
  /\ rd' = [rd EXCEPT ![r].want = @ - 1, ![r].n = @ + 1]
  /\ UNCHANGED <<uart, irq, handler, drv, intr, units, wt>>

\* The count is used up or the buffer empty; a call that has nothing waits
\* again, on what may be a unit for a byte another call has taken.
ReadDone(r) ==
  /\ rd[r].at = "take" /\ (rd[r].want = 0 \/ buf = <<>>)
  /\ rd' = [rd EXCEPT ![r].at = IF rd[r].n > 0 THEN "idle" ELSE "wait"]
  /\ UNCHANGED <<uart, irq, handler, drv, intr, buf, units, wt, log>>

\* Mutant: a write takes the lock for reading.
devfs_write_shared(w) ==
  /\ wt[w] = 0 /\ \A x \in ToSet(uart.out) : x # w
  /\ wt' = [wt EXCEPT ![w] = 2]
  /\ UNCHANGED <<uart, irq, handler, drv, intr, buf, units, rd, log>>

devfs_write(w) ==
  /\ wt[w] = 0 /\ \A x \in ToSet(uart.out) : x # w
  /\ \A v \in Writers : wt[v] = 0
  /\ \A r \in Readers : rd[r].at = "idle"
  /\ wt' = [wt EXCEPT ![w] = 2]
  /\ UNCHANGED <<uart, irq, handler, drv, intr, buf, units, rd, log>>

\* dev_ns16550_write, a byte at a time.
ns16550_write_one(w) ==
  /\ wt[w] > 0 /\ wt' = [wt EXCEPT ![w] = @ - 1]
  /\ uart' = [uart EXCEPT !.out = Append(@, w)]
  /\ UNCHANGED <<irq, handler, drv, intr, buf, units, rd, log>>

-----------------------------------------------------------------------------

SerialNext ==
  \/ alloc_int_handler \/ setup_int \/ set_user_seq \/ fill_handler
  \/ RegisterFails \/ start_ns16550 \/ Receive
  \/ \E h \in Handlers :
       \/ int_handler_invoke(h) \/ DisableInts(h) \/ DrainOne(h) \/ Drained(h)
       \/ int_handler_eoi(h) \/ EnableInts(h) \/ sema_post_count(h)
  \/ \E r \in Readers :
       devfs_read(r) \/ sema_wait(r) \/ shiftbuf_read_one(r) \/ ReadDone(r)
  \/ \E w \in Writers : devfs_write(w) \/ ns16550_write_one(w)

-----------------------------------------------------------------------------

At(set) == \E h \in Handlers : intr[h].at \in set

\* No input is stranded.  There is a unit, posted, about to be posted by a
\* handler or just taken, for every byte in the shift buffer, so no reader sleeps on while
\* there are bytes for it, although a reader may take several bytes for one
\* unit and units for bytes that are gone.  Once the driver is up the line is
\* masked or the UART's interrupts are off only while a handler is on its way
\* to end that, so the next byte raises an interrupt.  And bytes are read in
\* the order they came in, though handlers and readers overlap.
InputReachesReader ==
  /\ ~log.dead
  /\ units + MapThenSumSet(LAMBDA h : intr[h].rc, Handlers)
       + Cardinality({r \in Readers : rd[r].at = "take" /\ rd[r].n = 0}) >= Len(buf)
  /\ drv = "up" => /\ irq.masked => At({"disable", "drain", "enable", "eoi"})
                   /\ ~uart.ier => At({"drain", "enable", "eoi"})
  /\ LET all == log.got \o buf \o uart.rx
     IN  \A i, j \in 1..Len(all) : i < j => all[i] < all[j]

\* The bytes of a write go out together: devfs_write holds the lock while the
\* driver sends them one by one.
OutputWhole ==
  \A i \in 1..(Len(uart.out) - 1) :
    i % 2 = 1 => uart.out[i] = uart.out[i + 1]
=============================================================================
