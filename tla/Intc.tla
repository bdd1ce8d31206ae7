-------------------------------- MODULE Intc --------------------------------
(***************************************************************************)
(* Devices and interrupts in the HAL: the enumeration of the device tree   *)
(* (hal/dev/dev.c), the tree of interrupt controllers that is built from   *)
(* it, the controllers and timers of five architectures, the numbers of    *)
(* interrupt handlers (hal/int/seq.c), the clock, and the interrupts that  *)
(* are handed to user processes, from user_int_register to user_int_eoi.   *)
(*                                                                         *)
(* A machine is a sequence of device nodes in the order in which they are  *)
(* enumerated, with the wires between them: [boot, root, nodes].  CPUs are *)
(* known by their hardware ids.  A handler runs in one step: interrupts    *)
(* are off on its CPU, and in the machines used here no other CPU writes   *)
(* to the registers that it reads and writes back.                         *)
(***************************************************************************)
EXTENDS Integers, Sequences, FiniteSets, FiniteSetsExt, SequencesExt, TLC

CONSTANTS
  Computers,   \* the machines
  MaxTicks,    \* ticks of each CPU's timer
  MaxRaise,    \* interrupts raised by each device
  Period       \* MS_PER_INT

VARIABLES
  m,           \* the machine
  s            \* registers and variables, see IntcInit

intcVars == <<m, s>>

Harts == DOMAIN m.root
Nodes == DOMAIN m.nodes
Drv(n) == m.nodes[n].drv
AllocStart == 128
AllocEnd == 255

CpuIntcs == {"riscv_cpu_intc", "mips_cpu_intc", "or1k_intc", "bcm2836", "lapic"}
SharedIntcs == {"plic", "bcm2835", "i8259", "ioapic"}
Timers == {"clint", "mips_cpu_timer", "or1k_cpu_timer", "armv7_generic_timer"}

max_num_devs(drv) ==
  CASE drv \in {"mips_cpu_intc", "lapic", "ioapic"} -> 8
    [] drv = "bcm2836" -> 10
    [] drv = "or1k_intc" -> 33
    [] drv = "bcm2835" -> 96
    [] OTHER -> 64

Bad(t, why) == [t EXCEPT !.bad = IF @ = "" THEN why ELSE @]

\* devs[irq] of a driver, and the number and the id of a CPU.
DevAt(t, drv, irq) == IF <<drv, irq>> \in DOMAIN t.devs THEN t.devs[<<drv, irq>>] ELSE 0
MpSeq(t, c) == IF \E k \in DOMAIN t.cpus : t.cpus[k].id = c
               THEN (CHOOSE k \in DOMAIN t.cpus : t.cpus[k].id = c) - 1 ELSE 0

-----------------------------------------------------------------------------
\* Interrupt sequence numbers: what handles each, by number.

set_int_handler(t, q, h) ==
  IF q \in DOMAIN t.handler THEN Bad(t, "overwrite") ELSE [t EXCEPT !.handler = (q :> h) @@ @]

\* The first free number, 0 if there is none.
alloc_int_seq(t) ==
  LET free == (AllocStart..AllocEnd) \ DOMAIN t.handler IN IF free = {} THEN 0 ELSE Min(free)

\* generic_intc_dev_setup, generic_timer_dev_setup: a number for the driver.
SetSeq(t, n, q, h) ==
  LET k == IF q >= AllocStart THEN alloc_int_seq(t) ELSE q
      u == IF k = 0 THEN t
           ELSE IF q >= AllocStart THEN [t EXCEPT !.handler = (k :> h) @@ @]
           ELSE set_int_handler(t, k, h)
  IN [u EXCEPT !.int_seq[n] = k]

-----------------------------------------------------------------------------
\* hal/dev/special.c.

reg_unique(t, f, n) == IF t.fn[f] # 0 THEN Bad(t, "registered") ELSE [t EXCEPT !.fn[f] = n]
reg_multi(t, f, n) == [t EXCEPT !.fn[f] = <<n>> \o @]

-----------------------------------------------------------------------------
\* Registers.  cpu_en: the lines a CPU lets through (sie, Status.IM, PICMR,
\* core_timer_int_ctrl); en: those a shared controller lets through.

CpuOn(t, c, irq) == [t EXCEPT !.cpu_en[c] = @ \cup {irq}]
CpuOff(t, c, irq) == [t EXCEPT !.cpu_en[c] = @ \ {irq}]
DevOn(t, n, irq) == [t EXCEPT !.en[n] = @ \cup {irq}]
DevOff(t, n, irq) == [t EXCEPT !.en[n] = @ \ {irq}]
Valid(t, n, irq) == [t EXCEPT !.valid[n] = @ \cup {irq}]

\* The lines of controller n that d is wired to, and those that devices raise.
LinesTo(n, d) == {w[2] : w \in {x \in m.nodes[d].wires : x[1] = n}}
UserLines(t, n) == UNION {LinesTo(n, d) : d \in t.up}

\* i8259: chips of eight lines; chip k > 0 is at line k + 1 of chip 0, and
\* chip 7 at line 0.  A chip lets through what is not masked and more urgent
\* than what it serves; its first such line is its ISR after the poll.
ChipLines(chip) == (8 * chip)..(8 * chip + 7)
get_cascade_mask(chips) ==
  IF chips = 1 THEN {} ELSE IF chips = 7 THEN 0..7 \ {1} ELSE (2..chips) \cap 0..7
get_cascade_pos_mask(chip) == IF chip = 7 THEN 0 ELSE chip + 1
get_cascade_chip(l) == IF l = 0 THEN 7 ELSE l - 1
Chips == 2
ChipRequests(t, n, chip, lines) ==
  {l \in lines \cap ChipLines(chip) \cap t.en[n] :
     \A h \in t.held : h[1] = n /\ h[2] \in ChipLines(chip) => l < h[2]}
I8259Requests(t, n) ==
  LET raised == UserLines(t, n)
      below == {get_cascade_pos_mask(k) : k \in {j \in 1..(Chips - 1) :
                  ChipRequests(t, n, j, raised) # {}}}
  IN ChipRequests(t, n, 0, raised \cup below)

\* What a shared controller passes on.
PendingAt(t, n) ==
  CASE Drv(n) = "i8259" -> I8259Requests(t, n)
    [] OTHER -> {l \in UserLines(t, n) \cap t.en[n] : <<n, l>> \notin t.held}

\* The CPU a shared controller is wired to: for the PLIC, context 2h + 1.
OutputHart(t, n) == IF Drv(n) = "plic" THEN (t.ctxt - 1) \div 2 ELSE m.boot

\* The lines of a CPU's own controller that are raised.
Raises(t, c, d) ==
  CASE Drv(d) \in Timers -> c \in t.tick
    [] Drv(d) \in SharedIntcs -> c = OutputHart(t, d) /\ PendingAt(t, d) # {}
    [] OTHER -> d \in t.up
CpuLines(t, c) == UNION {LinesTo(m.root[c], d) : d \in {e \in Nodes : Raises(t, c, e)}}

i8259_enable_irq(t, n, irq) ==
  LET chip == irq \div 8
      cascade == IF chip > 0 /\ t.en[n] \cap ChipLines(chip) = {}
                 THEN {get_cascade_pos_mask(chip)} ELSE {}
  IN [t EXCEPT !.en[n] = @ \cup {irq} \cup cascade]

\* Non-specific EOI: the most urgent line in service is done.
i8259_end_irq(t, n, chip) ==
  LET done(k) == LET h == {x[2] : x \in t.held} \cap ChipLines(k) IN
                 IF h = {} THEN {} ELSE {<<n, Min(h)>>}
  IN [t EXCEPT !.held = @ \ (done(chip) \cup done(0))]

i8259_disable_irq(t, n, irq) ==
  LET chip == irq \div 8
      left == t.en[n] \ {irq}
      cascade == IF chip > 0 /\ left \cap ChipLines(chip) = {}
                 THEN {get_cascade_pos_mask(chip)} ELSE {}
  IN i8259_end_irq([t EXCEPT !.en[n] = left \ cascade], n, chip)

\* With nothing in service ctz32 gives 32, a line of a chip that is not there.
i8259_pending_irq(t, n) ==
  LET isr == I8259Requests(t, n)
      first == Min(isr)
  IN IF isr = {} THEN 32
     ELSE IF first \in get_cascade_mask(Chips)
     THEN Min(ChipRequests(t, n, get_cascade_chip(first), UserLines(t, n)))
     ELSE first

-----------------------------------------------------------------------------
\* The other controllers: enable_irq, disable_irq and setup_irq of each.  A
\* line above 31 of the OR1K PIC is the tick timer, which has no mask, and bit
\* 32 of the PIC's word is bit 0; line 8 of the BCM2836 goes to core 0 and
\* has no mask, and its timer is turned on for all cores at once.

riscv_enable_irq(t, c, irq) == CpuOn(t, c, irq)
riscv_disable_irq(t, c, irq) == CpuOff(t, c, irq)
riscv_setup_irq(t, n, irq) == Valid(t, n, irq)

mips_enable_irq(t, c, irq) == CpuOn(t, c, irq)
mips_disable_irq(t, c, irq) == CpuOff(t, c, irq)
mips_setup_irq(t, n, c, irq) == mips_enable_irq(Valid(t, n, irq), c, irq)

or1k_enable_irq(t, c, irq) == IF irq >= 32 THEN t ELSE CpuOn(t, c, irq)
or1k_disable_irq(t, c, irq) == IF irq >= 32 THEN t ELSE CpuOff(t, c, irq)
or1k_setup_irq(t, n, c, irq) == or1k_enable_irq(Valid(t, n, irq % 32), c, irq)

bcm2836_enable_irq(t, seq, irq) == CpuOn(t, IF irq = 8 THEN 0 ELSE seq, irq)
bcm2836_disable_irq(t, seq, irq) == IF irq = 8 THEN t ELSE CpuOff(t, seq, irq)
bcm2836_setup_irq(t, n, irq) ==
  LET u == Valid(t, n, irq) IN
  CASE irq = 1 -> FoldSet(LAMBDA c, v : bcm2836_enable_irq(v, c, irq), u, Harts)
    [] irq = 8 -> bcm2836_enable_irq(u, 0, irq)
    [] OTHER -> u

bcm2835_enable_irq(t, n, irq) == DevOn(t, n, irq)
bcm2835_disable_irq(t, n, irq) == DevOff(t, n, irq)
bcm2835_setup_irq(t, n, irq) == DevOn(Valid(t, n, irq), n, irq)

plic_enable_irq(t, n, irq) == DevOn(t, n, irq)
plic_disable_irq(t, n, irq) == DevOff(t, n, irq)
plic_end_irq(t, n, irq) == plic_enable_irq([t EXCEPT !.held = @ \ {<<n, irq>>}], n, irq)
plic_setup_irq(t, n, irq) == plic_enable_irq(Valid(t, n, irq), n, irq)

\* The APICs keep a bitmap and nothing else.
lapic_setup_irq(t, n, irq) == Valid(t, n, irq)
ioapic_setup_irq(t, n, irq) == Valid(t, n, irq)

enable_irq(t, n, c, irq) ==
  CASE Drv(n) = "riscv_cpu_intc" -> riscv_enable_irq(t, c, irq)
    [] Drv(n) = "mips_cpu_intc" -> mips_enable_irq(t, c, irq)
    [] Drv(n) = "or1k_intc" -> or1k_enable_irq(t, c, irq)
    [] Drv(n) = "bcm2836" -> bcm2836_enable_irq(t, MpSeq(t, c), irq)
    [] Drv(n) = "bcm2835" -> bcm2835_enable_irq(t, n, irq)
    [] Drv(n) = "i8259" -> i8259_enable_irq(t, n, irq)
    [] Drv(n) = "plic" -> plic_enable_irq(t, n, irq)
    [] OTHER -> t

disable_irq(t, n, c, irq) ==
  CASE Drv(n) = "riscv_cpu_intc" -> riscv_disable_irq(t, c, irq)
    [] Drv(n) = "mips_cpu_intc" -> mips_disable_irq(t, c, irq)
    [] Drv(n) = "or1k_intc" -> or1k_disable_irq(t, c, irq)
    [] Drv(n) = "bcm2836" -> bcm2836_disable_irq(t, MpSeq(t, c), irq)
    [] Drv(n) = "bcm2835" -> bcm2835_disable_irq(t, n, irq)
    [] Drv(n) = "i8259" -> i8259_disable_irq(t, n, irq)
    [] Drv(n) = "plic" -> plic_disable_irq(t, n, irq)
    [] OTHER -> t

setup_irq(t, n, c, irq) ==
  CASE Drv(n) = "riscv_cpu_intc" -> riscv_setup_irq(t, n, irq)
    [] Drv(n) = "mips_cpu_intc" -> mips_setup_irq(t, n, c, irq)
    [] Drv(n) = "or1k_intc" -> or1k_setup_irq(t, n, c, irq)
    [] Drv(n) = "bcm2836" -> bcm2836_setup_irq(t, n, irq)
    [] Drv(n) = "bcm2835" -> bcm2835_setup_irq(t, n, irq)
    [] Drv(n) = "i8259" -> i8259_enable_irq(t, n, irq)
    [] Drv(n) = "plic" -> plic_setup_irq(t, n, irq)
    [] Drv(n) = "lapic" -> lapic_setup_irq(t, n, irq)
    [] Drv(n) = "ioapic" -> ioapic_setup_irq(t, n, irq)

end_irq(t, n, c, irq) ==
  IF Drv(n) = "plic" THEN plic_end_irq(t, n, irq) ELSE enable_irq(t, n, c, irq)

\* The numbers in the device tree: the machine's lines of a hart stand for the
\* supervisor's, the hypervisor's are left out, and the BCM2835 has banks.
riscv_irq_raw_to_seq(raw) ==
  IF raw[1] \in {2, 6} THEN -1 ELSE IF raw[1] \in {3, 7} THEN raw[1] - 2 ELSE raw[1]
bcm2835_irq_raw_to_seq(raw) ==
  IF raw[1] \in 0..2 /\ raw[2] <= (IF raw[1] = 0 THEN 7 ELSE 31) THEN raw[1] * 32 + raw[2] ELSE 96
irq_raw_to_seq(drv, raw) ==
  CASE drv = "riscv_cpu_intc" -> riscv_irq_raw_to_seq(raw)
    [] drv = "bcm2835" -> bcm2835_irq_raw_to_seq(raw)
    [] OTHER -> raw[1]

FirstOr(S, none) == IF S = {} THEN none ELSE Min(S)

\* sip and Cause.IP show lines that are masked too.
riscv_pending_irq(t, n, c) == FirstOr(CpuLines(t, c) \cap t.valid[n], -1)
mips_pending_irq(t, n, c) == FirstOr(CpuLines(t, c) \cap t.valid[n], -1)
bcm2836_pending_irq(t, n, c) == FirstOr(CpuLines(t, c) \cap t.cpu_en[c] \cap t.valid[n], -1)
\* The search starts behind last_seq, which stays 0, and finds bit 0 as 32.
or1k_pending_irq(t, n, c) ==
  LET bitmap == t.cpu_en[c] \cap CpuLines(t, c) \cap t.valid[n]
  IN IF t.cause = "timer" THEN 32
     ELSE FirstOr(bitmap \ {0}, IF 0 \in bitmap THEN 32 ELSE -1)
plic_pending_irq(t, n) == FirstOr(PendingAt(t, n) \ {0}, -1)
bcm2835_pending_irq(t, n) == FirstOr(PendingAt(t, n) \cap t.valid[n], -1)

find_pending_irq(t, n, c) ==
  CASE Drv(n) = "riscv_cpu_intc" -> riscv_pending_irq(t, n, c)
    [] Drv(n) = "mips_cpu_intc" -> mips_pending_irq(t, n, c)
    [] Drv(n) = "bcm2836" -> bcm2836_pending_irq(t, n, c)
    [] Drv(n) = "or1k_intc" -> or1k_pending_irq(t, n, c)
    [] Drv(n) = "i8259" -> i8259_pending_irq(t, n)
    [] Drv(n) = "plic" -> plic_pending_irq(t, n)
    [] Drv(n) = "bcm2835" -> bcm2835_pending_irq(t, n)
    [] OTHER -> 0

\* What reading the claim register, and the poll of the i8259, do.
Claim(t, n, irq) ==
  CASE irq < 0 -> t
    [] Drv(n) = "plic" -> [t EXCEPT !.held = @ \cup {<<n, irq>>}]
    [] Drv(n) = "i8259" /\ irq >= 8 * Chips -> Bad(t, "no such chip")
    [] Drv(n) = "i8259" -> [t EXCEPT !.held = @ \cup {<<n, irq>>}
         \cup IF irq < 8 THEN {} ELSE {<<n, get_cascade_pos_mask(irq \div 8)>>}]
    [] OTHER -> t

-----------------------------------------------------------------------------
\* Timers and the clock.

\* Each sets its CPU's next tick, and with it takes back the one that is up:
\* by an SBI call, by Compare, by the mode register, by the interval.
NextTick(t, n, c) == [t EXCEPT !.tick = @ \ {c}, !.armed[c] = t.step[n]]
clint_update_compare(t, n, c) == NextTick(t, n, c)
mips_update_compare(t, n, c) == NextTick(t, n, c)
or1k_reset_tick(t, n, c) == NextTick(t, n, c)
armv7_update_timer_interval(t, n, c) == NextTick(t, n, c)
timer_int_handler(t, n, c) ==
  CASE Drv(n) = "clint" -> clint_update_compare(t, n, c)
    [] Drv(n) = "mips_cpu_timer" -> mips_update_compare(t, n, c)
    [] Drv(n) = "or1k_cpu_timer" -> or1k_reset_tick(t, n, c)
    [] Drv(n) = "armv7_generic_timer" -> armv7_update_timer_interval(t, n, c)

clock_source_register(t, quality) ==
  LET better == quality > t.clock.quality IN
  [t EXCEPT !.clock.count = @ + 1, !.clock.best = IF better THEN t.clock.count ELSE @,
            !.clock.quality = IF better THEN quality ELSE @]
clock_advance_ms(t, idx) == IF idx # t.clock.best THEN t ELSE [t EXCEPT !.clock.ms = @ + Period]

\* Only CPU 0's timer drives the clock.
generic_timer_int_handler(t, n, c) ==
  timer_int_handler(IF MpSeq(t, c) = 0 /\ t.clock_idx[n] # 0 THEN clock_advance_ms(t, t.clock_idx[n]) ELSE t, n, c)

-----------------------------------------------------------------------------
\* hal/dev/intc.c.

\* kernel_dispatch: the interrupt of a user process, which syscall_handler_
\* interrupt ignores if it has no number.  odd: it is not what was raised.
Deliver(t, d) ==
  [t EXCEPT !.wait = IF t.user_seq[d] = 0 THEN @ ELSE @ \cup {t.user_seq[d]},
            !.odd = @ \/ d \notin t.up \/ t.user_seq[d] \in t.wait \cup {0}]

\* Mutant: the line of a user device is unmasked at once, like that of the HAL.
RECURSIVE generic_intc_int_handler_open(_, _, _)
generic_intc_int_handler_open(t, n, c) ==
  LET irq == find_pending_irq(t, n, c)
      d == DevAt(t, Drv(n), irq)
      u == disable_irq(Claim(t, n, irq), n, c, irq)
  IN IF irq < 0 \/ irq >= max_num_devs(Drv(n)) THEN t
     ELSE IF d = 0 THEN u
     ELSE IF t.int_seq[d] = 0 THEN end_irq(Deliver(u, d), n, c, irq)
     ELSE end_irq(IF t.handler[t.int_seq[d]] = "intc" THEN generic_intc_int_handler_open(u, d, c)
                  ELSE generic_timer_int_handler(u, d, c), n, c, irq)

\* The line is masked; a handler in the HAL is called and the line is unmasked
\* again; a user's line stays masked until user_int_eoi.
RECURSIVE generic_intc_int_handler(_, _, _)
generic_intc_int_handler(t, n, c) ==
  LET irq == find_pending_irq(t, n, c)
      d == DevAt(t, Drv(n), irq)
      u == disable_irq(Claim(t, n, irq), n, c, irq)
  IN IF irq < 0 \/ irq >= max_num_devs(Drv(n)) THEN t
     ELSE IF d = 0 THEN u
     ELSE IF t.int_seq[d] = 0 THEN Deliver(u, d)
     ELSE end_irq(IF t.handler[t.int_seq[d]] = "intc" THEN generic_intc_int_handler(u, d, c)
                  ELSE generic_timer_int_handler(u, d, c), n, c, irq)

RawToSeq(t, n, raw) == irq_raw_to_seq(Drv(n), raw)

generic_intc_dev_eoi(t, n, c, raws) ==
  FoldLeft(LAMBDA u, raw : end_irq(u, n, c, RawToSeq(u, n, raw)), t, raws)

\* Lines that irq_raw_to_seq refuses are skipped.
generic_intc_dev_setup_int(t, n, c, raws, d) ==
  FoldLeft(LAMBDA u, raw :
             LET irq == RawToSeq(u, n, raw)
             IN IF irq < 0 THEN u
                ELSE IF irq >= max_num_devs(Drv(n)) THEN Bad(u, "limit")
                ELSE setup_irq([u EXCEPT !.devs = (<<Drv(n), irq>> :> d) @@ @], n, c, irq),
           t, raws)

-----------------------------------------------------------------------------
\* create and setup of the drivers.

\* All lines off.  The PLIC is used through the boot CPU's context; the local
\* APIC and the BCM2836 start the other CPUs.
mips_setup(t) == [t EXCEPT !.cpu_en[m.boot] = {}]
or1k_setup(t) == [t EXCEPT !.cpu_en[m.boot] = {}]
i8259_setup(t, n) == [t EXCEPT !.en[n] = {}, !.held = {}]
bcm2835_setup(t, n) == [t EXCEPT !.en[n] = {}]
plic_setup(t, n) == [t EXCEPT !.en[n] = {}, !.ctxt = 2 * m.boot + 1]
intc_setup(t, n) ==
  CASE Drv(n) = "mips_cpu_intc" -> mips_setup(t)
    [] Drv(n) = "or1k_intc" -> or1k_setup(t)
    [] Drv(n) = "i8259" -> i8259_setup(t, n)
    [] Drv(n) = "bcm2835" -> bcm2835_setup(t, n)
    [] Drv(n) = "plic" -> plic_setup(t, n)
    [] OTHER -> t

generic_intc_dev_setup(t, n) ==
  LET a == SetSeq(t, n, AllocStart, "intc")
      b == IF Drv(n) \in {"mips_cpu_intc", "lapic"} THEN reg_multi(a, "power", n) ELSE a
      d == IF Drv(n) \in {"bcm2836", "lapic"} THEN reg_unique(b, "start_cpu", n) ELSE b
  IN intc_setup(d, n)

\* EXCEPT_NUM_TIMER is 5; the step is a fraction of the timer's frequency,
\* which is fixed for the CLINT.
TimerFreq(n) == IF Drv(n) = "clint" THEN 10000000 ELSE m.nodes[n].freq
generic_timer_dev_setup(t, n) ==
  LET a == SetSeq(t, n, IF Drv(n) = "or1k_cpu_timer" THEN 5 ELSE AllocStart, "timer")
      b == clock_source_register(reg_multi(a, "power", n), 2)
  IN [b EXCEPT !.clock_idx[n] = a.clock.count,
               !.step[n] = TimerFreq(n) \div (IF Drv(n) = "armv7_generic_timer" THEN 8 ELSE 10)]

\* probe and setup of the CPU drivers: the boot CPU's node is asked for the
\* topology, on x86 any node; there one node may stand for several CPUs.
AddCpus(t, n) ==
  [t EXCEPT !.cpus = @ \o [k \in DOMAIN m.nodes[n].ids |-> [id |-> m.nodes[n].ids[k], node |-> n]]]
BootNode(t, n) == IF m.nodes[n].ids[1] = m.boot THEN reg_unique(t, "topology", n) ELSE t
riscv_cpu_probe(t, n) == reg_multi(BootNode(AddCpus(t, n), n), "local", n)
mips_cpu_probe(t, n) == BootNode(AddCpus(t, n), n)
armv7_cpu_probe(t, n) == BootNode(AddCpus(t, n), n)
or1200_cpu_probe(t, n) == BootNode(t, n)
x86_cpu_probe(t, n) == reg_unique(AddCpus(t, n), "topology", n)

probe_dev(t, n) ==
  CASE Drv(n) \in CpuIntcs \cup SharedIntcs -> generic_intc_dev_setup(t, n)
    [] Drv(n) \in Timers -> generic_timer_dev_setup(t, n)
    [] Drv(n) = "riscv_cpu" -> riscv_cpu_probe(t, n)
    [] Drv(n) = "mips_cpu" -> mips_cpu_probe(t, n)
    [] Drv(n) = "armv7_cpu" -> armv7_cpu_probe(t, n)
    [] Drv(n) = "or1200_cpu" -> or1200_cpu_probe(t, n)
    [] Drv(n) = "x86_cpu" -> x86_cpu_probe(t, n)
    [] OTHER -> t

-----------------------------------------------------------------------------
\* Enumeration, one node a step; then the tree of controllers, the numbers of
\* the CPUs and each CPU's root.

enum_devtree_node ==
  /\ s.bad = "" /\ s.stage = "enum"
  /\ s' = LET t == probe_dev(s, s.k) IN
          [t EXCEPT !.k = @ + 1, !.list = <<s.k>> \o @,
                    !.stage = IF s.k = Len(m.nodes) THEN "tree" ELSE @]
  /\ UNCHANGED m

\* A controller that names itself is a root; the others, and the timers, are
\* attached to their controller if it has a driver.
setup_inttree_node(t, d, int, n) ==
  IF d = n THEN [t EXCEPT !.roots = <<n>> \o @]
  ELSE IF t.int_seq[n] # 0 /\ t.int_seq[d] # 0 THEN generic_intc_dev_setup_int(t, n, m.boot, int.raw, d)
  ELSE t

find_all_int_children(t, n) ==
  FoldLeft(LAMBDA u, d : FoldLeft(LAMBDA v, int : IF int.to = n THEN setup_inttree_node(v, d, int, n) ELSE v,
                                  u, Reverse(m.nodes[d].ints)), t, t.list)

\* Once for each interrupt of the controller itself.
build_int_hierarchy ==
  /\ s.bad = "" /\ s.stage = "tree"
  /\ s' = LET t == FoldLeft(LAMBDA u, n : IF ~m.nodes[n].intc THEN u
                              ELSE FoldLeft(LAMBDA v, i : find_all_int_children(v, n), u, m.nodes[n].ints),
                            s, s.list)
          IN IF t.roots = <<>> THEN Bad(t, "no root") ELSE [t EXCEPT !.stage = "topo"]
  /\ UNCHANGED m

\* The boot CPU and CPU 0 change places.
make_boot_cpu_mp_seq_zero(cpus) ==
  LET b == CHOOSE k \in DOMAIN cpus : cpus[k].id = m.boot
  IN [cpus EXCEPT ![1] = cpus[b], ![b] = cpus[1]]

riscv_detect_topology == make_boot_cpu_mp_seq_zero(s.cpus)
mips_detect_topology == make_boot_cpu_mp_seq_zero(s.cpus)
armv7_detect_topology == make_boot_cpu_mp_seq_zero(s.cpus)
x86_detect_topology == make_boot_cpu_mp_seq_zero(s.cpus)
\* An OR1K CPU is its own number, whatever nodes there are.
or1200_detect_topology == [k \in 1..Cardinality(Harts) |-> [id |-> k - 1, node |-> 0]]

init_topo ==
  /\ s.bad = "" /\ s.stage = "topo"
  /\ s' = LET drv == IF s.fn.topology = 0 THEN "none" ELSE Drv(s.fn.topology)
              cpus == CASE drv = "riscv_cpu" -> riscv_detect_topology
                        [] drv = "mips_cpu" -> mips_detect_topology
                        [] drv = "armv7_cpu" -> armv7_detect_topology
                        [] drv = "or1200_cpu" -> or1200_detect_topology
                        [] drv = "x86_cpu" -> x86_detect_topology
                        [] OTHER -> <<[id |-> m.boot, node |-> 0]>>
          IN IF cpus[1].id # m.boot THEN Bad(s, "boot CPU")
             ELSE [s EXCEPT !.cpus = cpus, !.stage = "hierarchy"]
  /\ UNCHANGED m

\* The first root below the CPU's node becomes the CPU's own.
set_cpu_local_intc(t, node, c) ==
  LET found == SelectSeq(t.roots, LAMBDA n : m.nodes[n].up = node) IN
  IF found = <<>> THEN t
  ELSE [t EXCEPT !.cpuroot[c] = found[1], !.roots = SelectSeq(@, LAMBDA n : n # found[1])]

\* The hart's lines are off but for those in use.
riscv_setup_cpu_local(t, n, c) == [t EXCEPT !.cpu_en[c] = t.valid[n]]
setup_int_hierarchy_mp(t, c) ==
  IF t.cpuroot[c] # 0 /\ Drv(t.cpuroot[c]) = "riscv_cpu_intc"
  THEN riscv_setup_cpu_local(t, t.cpuroot[c], c) ELSE t

setup_int_hierarchy ==
  /\ s.bad = "" /\ s.stage = "hierarchy"
  /\ s' = LET local == FoldLeft(LAMBDA u, n : set_cpu_local_intc(u, n, m.nodes[n].ids[1]), s, s.fn.local)
          IN IF Len(s.roots) > Len(s.cpus) THEN Bad(s, "roots")
             ELSE IF Len(local.roots) > 1 THEN Bad(local, "roots")
             ELSE [setup_int_hierarchy_mp(local, m.boot) EXCEPT !.stage = "bringup", !.k = 2]
  /\ UNCHANGED m

-----------------------------------------------------------------------------
\* The secondary CPUs, one at a time; entry is the page of the MP entry.

\* What INIT and STARTUP make of a CPU.
AcceptIpi(state, ipi) ==
  CASE ipi = "INIT_ASSERT" -> "reset"
    [] ipi = "STARTUP" /\ state = "reset" -> "init"
    [] OTHER -> state
lapic_start_cpu(state) ==
  FoldLeft(AcceptIpi, state, <<"INIT_ASSERT", "INIT_DEASSERT", "STARTUP", "STARTUP">>)
bcm2836_start_cpu(seq, state) == IF seq >= 4 THEN state ELSE "init"

\* drv_func_start_cpu, or arch_start_cpu if no driver does it.
bringup_secondary_cpu ==
  /\ s.bad = "" /\ s.stage = "bringup" /\ s.k <= Len(s.cpus)
  /\ LET c == s.cpus[s.k].id
         drv == IF s.fn.start_cpu = 0 THEN "arch" ELSE Drv(s.fn.start_cpu)
     IN /\ s.cpu[c] = "off"
        /\ s' = IF c = m.boot THEN Bad(s, "start myself")
                ELSE [s EXCEPT !.cpu[c] = CASE drv = "lapic" -> lapic_start_cpu(@)
                                            [] drv = "bcm2836" -> bcm2836_start_cpu(s.k - 1, @)
                                            [] OTHER -> "init"]
  /\ UNCHANGED m

\* hal_mp up to secondary_cpu_init_done.
hal_mp(c) ==
  /\ s.bad = "" /\ s.cpu[c] = "init"
  /\ s' = [setup_int_hierarchy_mp(s, c) EXCEPT !.cpu[c] = "ready", !.k = @ + 1]
  /\ UNCHANGED m

StartTimers(t, c, nodes) ==
  FoldLeft(LAMBDA u, n : IF Drv(n) \in Timers THEN timer_int_handler(u, n, c) ELSE u, t, nodes)

\* release_secondary_cpu_lock, then the boot CPU's timer.
start_all_devices ==
  /\ s.bad = "" /\ s.stage = "bringup" /\ s.k > Len(s.cpus)
  /\ s' = [StartTimers(s, m.boot, s.list) EXCEPT !.stage = "run", !.cpu[m.boot] = "run"]
  /\ UNCHANGED m

\* The mask that is meant to be line 7 is the lines 0, 1 and 2.
mips_cpu_power_on(t, n, c) ==
  IF t.valid[n] \cap {0, 1, 2} # {} THEN CpuOn(t, c, 7) ELSE t

start_all_devices_mp(c) ==
  /\ s.bad = "" /\ s.stage = "run" /\ s.cpu[c] = "ready"
  /\ s' = [FoldLeft(LAMBDA u, n : IF Drv(n) = "mips_cpu_intc" THEN mips_cpu_power_on(u, n, c)
                                  ELSE StartTimers(u, c, <<n>>), s, s.fn.power)
           EXCEPT !.cpu[c] = "run"]
  /\ UNCHANGED m

-----------------------------------------------------------------------------
\* Interrupts, and the processes that drive devices.

\* A device's controller; only a device with one interrupt may be registered.
IntcOf(d) == m.nodes[d].ints[1].to
UserDevs == {d \in Nodes : Drv(d) = "user" /\ m.nodes[d].ints # <<>>}
Registered == {d \in UserDevs : s.user_seq[d] # 0}
Running == {c \in Harts : s.cpu[c] = "run"}

\* user_int_register and user_int_register2, on the CPU of the caller.
user_int_register(d, c) ==
  /\ s.bad = "" /\ c \in Running /\ d \in UserDevs \ Registered
  /\ s.int_seq[IntcOf(d)] # 0
  /\ s' = [generic_intc_dev_setup_int(s, IntcOf(d), c, m.nodes[d].ints[1].raw, d)
           EXCEPT !.user_seq[d] = d]
  /\ UNCHANGED m

\* bcm2836's end_irq would look up its CPU in a context that eoi has not got.
user_int_eoi(d, c) ==
  /\ s.bad = "" /\ c \in Running /\ d \in s.wait
  /\ s' = IF Drv(IntcOf(d)) = "bcm2836" THEN Bad(s, "no context")
          ELSE [generic_intc_dev_eoi(s, IntcOf(d), c, m.nodes[d].ints[1].raw) EXCEPT !.wait = @ \ {d}]
  /\ UNCHANGED m

\* The process takes the device's data and the line falls.
ServeDevice(d) ==
  /\ s.bad = "" /\ d \in s.wait \cap s.up
  /\ s' = [s EXCEPT !.up = @ \ {d}]
  /\ UNCHANGED m

RaiseDevice(d) ==
  /\ s.bad = "" /\ d \in Registered \ s.up /\ s.raised[d] < MaxRaise
  /\ s' = [s EXCEPT !.up = @ \cup {d}, !.raised[d] = @ + 1]
  /\ UNCHANGED m

RaiseTimer(c) ==
  /\ s.bad = "" /\ s.armed[c] > 0 /\ c \in Running \ s.tick /\ s.ticks[c] < MaxTicks
  /\ s' = [s EXCEPT !.tick = @ \cup {c}, !.ticks[c] = @ + 1]
  /\ UNCHANGED m

\* What makes a CPU take an interrupt.  The OR1K has an exception of its own
\* for the timer, which is not masked.
Causes(t, c) ==
  (IF Drv(m.root[c]) = "or1k_intc" /\ c \in t.tick THEN {"timer"} ELSE {})
  \cup (IF CpuLines(t, c) \cap t.cpu_en[c] # {} THEN {"ext"} ELSE {})

\* The CPU's own root, or the one of all CPUs.
handle_dev_int(c, cause) ==
  /\ s.bad = "" /\ c \in Running /\ cause \in Causes(s, c)
  /\ LET root == IF s.cpuroot[c] # 0 THEN s.cpuroot[c] ELSE s.roots[1] IN
     s' = [generic_intc_int_handler([s EXCEPT !.cause = cause], root, c) EXCEPT !.cause = ""]
  /\ UNCHANGED m

IntcInit ==
  /\ m \in Computers
  /\ s = [bad |-> "", odd |-> FALSE, stage |-> "enum", k |-> 1, list |-> <<>>, handler |-> <<>>,
          int_seq |-> [n \in Nodes |-> 0], user_seq |-> [n \in Nodes |-> 0],
          fn |-> [start_cpu |-> 0, topology |-> 0, local |-> <<>>, power |-> <<>>],
          cpus |-> <<>>, roots |-> <<>>, cpuroot |-> [c \in Harts |-> 0], devs |-> <<>>,
          valid |-> [n \in Nodes |-> {}], en |-> [n \in Nodes |-> {}],
          cpu_en |-> [c \in Harts |-> {}], held |-> {}, ctxt |-> 0, cause |-> "",
          clock |-> [count |-> 1, best |-> 0, quality |-> 0, ms |-> 0],
          clock_idx |-> [n \in Nodes |-> 0], step |-> [n \in Nodes |-> 0],
          armed |-> [c \in Harts |-> 0], ticks |-> [c \in Harts |-> 0], tick |-> {},
          up |-> {}, raised |-> [n \in Nodes |-> 0], wait |-> {}, cpu |-> [c \in Harts |-> "off"]]

IntcNext ==
  \/ enum_devtree_node \/ build_int_hierarchy \/ init_topo \/ setup_int_hierarchy
  \/ bringup_secondary_cpu \/ start_all_devices
  \/ \E c \in Harts : hal_mp(c) \/ start_all_devices_mp(c) \/ RaiseTimer(c)
  \/ \E c \in Harts, cause \in {"timer", "ext"} : handle_dev_int(c, cause)
  \/ \E d \in UserDevs : RaiseDevice(d) \/ ServeDevice(d)
  \/ \E d \in UserDevs, c \in Harts : user_int_register(d, c) \/ user_int_eoi(d, c)

-----------------------------------------------------------------------------
Reaches(d) == \E c \in Running : Causes([s EXCEPT !.up = {d}, !.tick = {}], c) # {}
Ticks(c) == Causes([s EXCEPT !.up = {}, !.tick = {c}], c) # {}
HasTimer == \E n \in Nodes : Drv(n) \in Timers

\* The boot CPU is number 0 and the numbers are one to one with the CPUs.
CpusNumbered ==
  s.stage \in {"bringup", "run"} =>
    /\ s.cpus[1].id = m.boot
    /\ {s.cpus[k].id : k \in DOMAIN s.cpus} = Harts
    /\ Len(s.cpus) = Cardinality(Harts)

\* get_cascade_mask has the lines of chip 0 that other chips are at.
CascadesExact ==
  \A chips \in 1..6 : get_cascade_mask(chips) = {get_cascade_pos_mask(k) : k \in 1..(chips - 1)}

\* Nothing panics; an interrupt is delivered to the process of a device that
\* raised it, once until the process is done with it; a device's line gets to
\* a CPU exactly while its process is not busy with it; each CPU's timer runs
\* and gets through; and the clock has advanced by one period for each tick of
\* CPU 0 that was handled.
IntsExact ==
  /\ s.bad = "" /\ ~s.odd
  /\ CpusNumbered /\ CascadesExact
  /\ s.stage = "run" => \A d \in Registered : Reaches(d) <=> d \notin s.wait
  /\ HasTimer => \A c \in Running : s.armed[c] > 0 /\ Ticks(c)
  /\ s.clock.ms = Period * (s.ticks[m.boot] - Cardinality(s.tick \cap {m.boot}))
=============================================================================
