-------------------------------- MODULE Trap --------------------------------
(***************************************************************************)
(* Traps and context switches in the HAL: how a thread enters the HAL on a *)
(* system call, a fault or an interrupt, what the HAL answers by itself,   *)
(* how it calls the kernel, and how it resumes this thread or another one  *)
(* (hal/int, arch/<arch>/hal/int, arch/<arch>/hal/setup.c), with the page  *)
(* table, address space id and TLB that each CPU uses meanwhile, and the   *)
(* system call stubs of user programs (sysenter.h).                        *)
(*                                                                         *)
(* A context holds the registers that carry a system call by their names,  *)
(* g for all others, and pc, the thread pointer, the privilege and the     *)
(* interrupt enable bit; delay slots are left out.  hw is what the CPU's   *)
(* registers hold, ctx the register context on the CPU's interrupt stack.  *)
(* What other CPUs may do between the steps of dispatch is the subject of  *)
(* Threads and Ipc; here a dispatch is one step.                           *)
(***************************************************************************)
EXTENDS Integers, Sequences, FiniteSets

CONSTANT Machines   \* [arch, cpus, calls]: an architecture, its number of CPUs and the
                    \* system calls of its user threads, <<number, param2>>

VARIABLES
  hal,   \* [arch, cpu, calls]
  th     \* the threads, by number: see Thread

trapVars == <<hal, th>>

\* Threads 1 and 2 belong to user processes; a CPU c has an idle thread and
\* the thread that it starts with.
Users == {1, 2}
Idle(c) == 10 + c
First(c) == 20 + c
KernelTable == 0

\* System calls; any other number has no handler.
SYSCALL_HAL_PING == 1
SYSCALL_HAL_GET_TIB == 2
SYSCALL_HAL_IOPORT == 3
SYSCALL_PING == 5
SYSCALL_INTERRUPT == 7
SYSCALL_FAULT_PAGE == 8
SYSCALL_THREAD_EXIT == 9
SYSCALL_EVENT_WAIT == 10
SYSCALL_IPC_REQUEST == 11
SYSCALL_IPC_RECEIVE == 12
Port == 40           \* an I/O port
PortValue == 41      \* what it reads

Regs(names, set) == [n \in names \cup {"g"} |-> IF n \in set THEN 1 ELSE 0]
Put(r, names, vals) ==
  [n \in DOMAIN r |-> IF \E i \in DOMAIN names : names[i] = n
                      THEN vals[CHOOSE i \in DOMAIN names : names[i] = n] ELSE r[n]]

\* A fresh register context; param is 1 for every thread.
Context(names, params, entry, tls, user) ==
  [r |-> Regs(names, params), pc |-> entry, tls |-> tls, user |-> user, ie |-> TRUE, mp |-> 0]

-----------------------------------------------------------------------------
\* The stubs: the registers a system call goes in and comes back in, and
\* the length of the trapping instruction sequence.

arm_sysenter == [in |-> <<"r0", "r1", "r2", "r3">>, out |-> <<"r0", "r1", "r2">>, len |-> 4]
mips_sysenter == [in |-> <<"v0", "a0", "a1", "a2">>, out |-> <<"v0", "a0", "a1">>, len |-> 4]
openrisc_sysenter == [in |-> <<"a0", "a1", "a2", "a3">>, out |-> <<"v0", "a1", "a2">>, len |-> 4]
riscv_sysenter == [in |-> <<"a0", "a1", "a2", "a3">>, out |-> <<"a0", "a1", "a2">>, len |-> 8]
x86_sysenter == [in |-> <<"si", "ax", "bx", "cx">>, out |-> <<"si", "ax", "bx">>, len |-> 2]

\* The registers in which the HAL looks for the number and the parameters of
\* a system call, and in which it returns the outcome.
arm_get_syscall_params == <<"r0", "r1", "r2", "r3">>
arm_set_syscall_return == <<"r0", "r1", "r2">>
mips_get_syscall_params == <<"v0", "a0", "a1", "a2">>
mips_set_syscall_return == <<"v0", "a0", "a1">>
openrisc_get_syscall_params == <<"a0", "a1", "a2", "a3">>
openrisc_set_syscall_return == <<"v0", "a1", "a2">>
riscv_get_syscall_params == <<"a0", "a1", "a2", "a3">>
riscv_set_syscall_return == <<"a0", "a1", "a2">>
x86_get_syscall_params == <<"si", "ax", "bx", "cx">>
x86_set_syscall_return == <<"si", "ax", "bx">>

\* A new thread's registers.
arm_init_thread_context(entry, tcb, user) ==
  Context({"r0", "r1", "r2", "r3"}, {"r0"}, entry, 0, user)
mips_init_thread_context(entry, tcb, user) ==
  Context({"v0", "a0", "a1", "a2"}, {"a0"}, entry, tcb, FALSE)
openrisc_init_thread_context(entry, tcb, user) ==
  Context({"a0", "a1", "a2", "a3", "v0"}, {"a0"}, entry, tcb, user)
riscv_init_thread_context(entry, tcb, user) ==
  Context({"a0", "a1", "a2", "a3"}, {"a0"}, entry, tcb, user)
x86_init_thread_context(entry, tcb, user) ==
  Context({"si", "ax", "bx", "cx", "di"}, {"ax", "di"}, entry, 0, user)

\* The entries that a user's page table takes from the kernel's.
arm_init_user_page_table == 4092..4095
mips_init_user_page_table == {}
openrisc_init_user_page_table == 0..3 \cup {1023}
riscv_init_user_page_table(width) == IF width = 32 THEN 1020..1023 ELSE {511}
x86_init_user_page_table(width) == IF width = 32 THEN 1020..1023 ELSE {511}

\* What each architecture hands to the HAL: funcs, as far as it is data.
\* shift: the megabytes that an entry of the top-level page table maps.
arm_hal_entry_bsp ==
  [params |-> arm_get_syscall_params, returns |-> arm_set_syscall_return, has_ioport |-> FALSE,
   asid_limit |-> 0, kernel_entries |-> arm_init_user_page_table, shift |-> 1]
mips_hal_entry_bsp ==
  [params |-> mips_get_syscall_params, returns |-> mips_set_syscall_return, has_ioport |-> FALSE,
   asid_limit |-> 256, kernel_entries |-> mips_init_user_page_table, shift |-> 4]
openrisc_hal_entry_bsp ==
  [params |-> openrisc_get_syscall_params, returns |-> openrisc_set_syscall_return,
   has_ioport |-> FALSE, asid_limit |-> 0, kernel_entries |-> openrisc_init_user_page_table,
   shift |-> 16]
riscv_hal_entry_bsp(width) ==
  [params |-> riscv_get_syscall_params, returns |-> riscv_set_syscall_return,
   has_ioport |-> FALSE, asid_limit |-> 0, kernel_entries |-> riscv_init_user_page_table(width),
   shift |-> IF width = 32 THEN 4 ELSE 1024]
x86_hal_entry_bsp(width) ==
  [params |-> x86_get_syscall_params, returns |-> x86_set_syscall_return, has_ioport |-> TRUE,
   asid_limit |-> 0, kernel_entries |-> x86_init_user_page_table(width),
   shift |-> IF width = 32 THEN 4 ELSE 1024]

Family(a) == CASE a \in {"riscv32", "riscv64"} -> "riscv" [] a \in {"ia32", "amd64"} -> "x86"
               [] OTHER -> a
Width(a) == IF a \in {"riscv64", "amd64"} THEN 64 ELSE 32

sysenter(a) ==
  CASE Family(a) = "arm" -> arm_sysenter [] Family(a) = "mips" -> mips_sysenter
    [] Family(a) = "openrisc" -> openrisc_sysenter [] Family(a) = "riscv" -> riscv_sysenter
    [] Family(a) = "x86" -> x86_sysenter

hal_entry(a) ==
  CASE Family(a) = "arm" -> arm_hal_entry_bsp [] Family(a) = "mips" -> mips_hal_entry_bsp
    [] Family(a) = "openrisc" -> openrisc_hal_entry_bsp
    [] Family(a) = "riscv" -> riscv_hal_entry_bsp(Width(a))
    [] Family(a) = "x86" -> x86_hal_entry_bsp(Width(a))

init_thread_context(a, entry, tcb, user) ==
  CASE Family(a) = "arm" -> arm_init_thread_context(entry, tcb, user)
    [] Family(a) = "mips" -> mips_init_thread_context(entry, tcb, user)
    [] Family(a) = "openrisc" -> openrisc_init_thread_context(entry, tcb, user)
    [] Family(a) = "riscv" -> riscv_init_thread_context(entry, tcb, user)
    [] Family(a) = "x86" -> x86_init_thread_context(entry, tcb, user)

-----------------------------------------------------------------------------
\* Page tables and TLBs.  tlb holds <<table, asid>> for every table of which
\* the TLB may hold entries; running with the MMU on adds the current one.

Walk(k) == [k EXCEPT !.tlb = @ \cup {<<k.pt, k.asid>>}]

arm_switch_page_table(k, pt) == Walk([k EXCEPT !.pt = pt, !.tlb = {}])
riscv_switch_page_table(k, pt, asid) == Walk([k EXCEPT !.pt = pt, !.asid = asid, !.tlb = {}])
x86_switch_page_table(k, pt) == Walk([k EXCEPT !.pt = pt, !.tlb = {}])

openrisc_set_page_table(k, pt) == [k EXCEPT !.pt = pt]
openrisc_flush_tlb(k) == [k EXCEPT !.tlb = {}]
openrisc_enable_mmu(k) == Walk(k)

\* MIPS translates in software: the refill handler walks the running
\* thread's page table and tags the entry with its address space id.
mips_tlb_refill(k) == [k EXCEPT !.tlb = @ \cup {<<k.rc.pt, k.rc.asid>>}]

set_local_int_state(k, enabled) == [k EXCEPT !.flag = enabled]
disable_local_int(k) == [k EXCEPT !.flag = FALSE, !.hw.ie = FALSE]
enable_local_int(k) == [k EXCEPT !.flag = TRUE, !.hw.ie = TRUE]

\* Back from the trap: the CPU's registers are loaded from the context on
\* the interrupt stack.  ARM and x86 keep the thread pointer elsewhere.
arm_restore_context_gpr(k) ==
  [k EXCEPT !.hw = [k.ctx EXCEPT !.tls = k.hw.tls], !.mode = "run"]
mips_restore_context_gpr(k) ==
  [k EXCEPT !.hw = [k.ctx EXCEPT !.user = k.hw.user, !.ie = k.hw.ie], !.mode = "run"]
openrisc_restore_context_gpr(k) == [Walk(k) EXCEPT !.hw = k.ctx, !.mode = "run"]
riscv_restore_context_gpr(k) == [k EXCEPT !.hw = k.ctx, !.mode = "run"]
x86_restore_context_gpr(k) ==
  [k EXCEPT !.hw = [k.ctx EXCEPT !.tls = k.hw.tls], !.mode = "run"]

\* switch_to: resume the thread whose context has just been copied to ctx.
arm_switch_to(k, pt, user, asid, tcb) ==
  LET k1 == set_local_int_state([k EXCEPT !.hw.tls = tcb], TRUE)
  IN arm_restore_context_gpr(arm_switch_page_table(k1, pt))
mips_switch_to(k, pt, user, asid, tcb) ==
  mips_restore_context_gpr(enable_local_int([k EXCEPT !.hw.user = user, !.asid = asid]))
openrisc_switch_to(k, pt, user, asid, tcb) ==
  openrisc_restore_context_gpr(set_local_int_state(openrisc_set_page_table(k, pt), TRUE))
riscv_switch_to(k, pt, user, asid, tcb) ==
  riscv_restore_context_gpr(riscv_switch_page_table(set_local_int_state(k, TRUE), pt, asid))
x86_switch_to(k, pt, user, asid, tcb) ==
  LET k1 == set_local_int_state([k EXCEPT !.hw.tls = tcb], TRUE)
  IN x86_restore_context_gpr(x86_switch_page_table(k1, pt))

arch_switch_to(a, k, pt, user, asid, tcb) ==
  CASE Family(a) = "arm" -> arm_switch_to(k, pt, user, asid, tcb)
    [] Family(a) = "mips" -> mips_switch_to(k, pt, user, asid, tcb)
    [] Family(a) = "openrisc" -> openrisc_switch_to(k, pt, user, asid, tcb)
    [] Family(a) = "riscv" -> riscv_switch_to(k, pt, user, asid, tcb)
    [] Family(a) = "x86" -> x86_switch_to(k, pt, user, asid, tcb)

\* Around the call of the kernel.  MIPS reaches the kernel unmapped and
\* OpenRISC has taken the kernel's table already.
kernel_pre_dispatch(a, k) ==
  CASE Family(a) = "arm" -> arm_switch_page_table(k, KernelTable)
    [] Family(a) = "riscv" -> riscv_switch_page_table(k, KernelTable, 0)
    [] Family(a) = "x86" -> x86_switch_page_table(k, KernelTable)
    [] OTHER -> k
kernel_post_dispatch(a, k) ==
  CASE Family(a) = "arm" -> arm_switch_page_table(k, k.rc.pt)
    [] Family(a) = "riscv" -> riscv_switch_page_table(k, k.rc.pt, k.rc.asid)
    [] Family(a) = "x86" -> x86_switch_page_table(k, k.rc.pt)
    [] OTHER -> k

-----------------------------------------------------------------------------
\* Entry.  The hardware gives the address of the trapping instruction, or of
\* the next one; the entry code saves what the hardware has not.

ExceptionPc(a, cause, pc) ==
  IF cause = "sys" /\ Family(a) \notin {"mips", "riscv"} THEN pc + sysenter(a).len ELSE pc

arm_save_context(k, epc) == [k EXCEPT !.ctx = [k.hw EXCEPT !.pc = epc, !.tls = k.ctx.tls]]
mips_raw_int_entry(k) == [k EXCEPT !.ctx.r = k.hw.r]
mips_save_extra_context(k, epc) == [k EXCEPT !.ctx.pc = epc]
openrisc_save_ctxt1_regs_to_mem(k, epc) == [k EXCEPT !.ctx = [k.hw EXCEPT !.pc = epc]]
riscv_raw_int_entry(k) == [k EXCEPT !.ctx.r = k.hw.r, !.ctx.tls = k.hw.tls]
riscv_save_extra_context(k, epc) ==
  [k EXCEPT !.ctx.pc = epc, !.ctx.user = k.hw.user, !.ctx.ie = k.hw.ie]
x86_int_handler_prepare(k, epc) ==
  [k EXCEPT !.ctx = [k.hw EXCEPT !.pc = epc, !.tls = k.ctx.tls]]

\* RISC-V: a call from a user program is a zero instruction at an address
\* that is a multiple of eight, followed by an ecall that is skipped.
is_kernel_ecall_hack(pc) == pc % 8 = 0

arm_int_handler_entry(k, cause) == arm_save_context(k, ExceptionPc("arm", cause, k.hw.pc))
mips_int_handler_entry(k, cause) ==
  LET k1 == mips_save_extra_context(disable_local_int(mips_raw_int_entry(k)), k.hw.pc)
  IN IF cause = "sys" THEN [k1 EXCEPT !.ctx.pc = @ + 4] ELSE k1
openrisc_int_handler_entry(k, cause) ==
  LET k1 == openrisc_save_ctxt1_regs_to_mem(k, ExceptionPc("openrisc", cause, k.hw.pc))
  IN openrisc_enable_mmu(openrisc_set_page_table(openrisc_flush_tlb(k1), KernelTable))
riscv_int_handler_entry(k, cause) ==
  LET k1 == riscv_save_extra_context(riscv_raw_int_entry(k), k.hw.pc)
  IN IF cause = "sys" /\ is_kernel_ecall_hack(k1.ctx.pc)
     THEN [k1 EXCEPT !.ctx.pc = @ + 8] ELSE k1
x86_int_handler_entry(k, cause) == x86_int_handler_prepare(k, ExceptionPc("ia32", cause, k.hw.pc))

Enter(a, k, cause) ==
  LET e == CASE Family(a) = "arm" -> arm_int_handler_entry(k, cause)
             [] Family(a) = "mips" -> mips_int_handler_entry(k, cause)
             [] Family(a) = "openrisc" -> openrisc_int_handler_entry(k, cause)
             [] Family(a) = "riscv" -> riscv_int_handler_entry(k, cause)
             [] Family(a) = "x86" -> x86_int_handler_entry(k, cause)
  IN [e EXCEPT !.hw.user = FALSE, !.hw.ie = FALSE]   \* by the hardware

\* The end of int_handler_entry, when int_handler has returned.
mips_leave(k) ==
  LET k1 == [k EXCEPT !.hw.user = k.rc.user, !.ctx.tls = k.rc.tcb, !.asid = k.rc.asid]
  IN mips_restore_context_gpr(enable_local_int(k1))
openrisc_leave(k) ==
  LET k1 == openrisc_flush_tlb(openrisc_set_page_table(k, k.rc.pt))
  IN openrisc_restore_context_gpr(set_local_int_state(k1, TRUE))
Leave(a, k) ==
  CASE Family(a) = "arm" -> arm_restore_context_gpr(set_local_int_state(k, TRUE))
    [] Family(a) = "mips" -> mips_leave(k)
    [] Family(a) = "openrisc" -> openrisc_leave(k)
    [] Family(a) = "riscv" -> riscv_restore_context_gpr(set_local_int_state(k, TRUE))
    [] Family(a) = "x86" -> x86_restore_context_gpr(set_local_int_state(k, TRUE))

-----------------------------------------------------------------------------
\* The generic part.

arch_get_syscall_params(a, ctx) == [i \in 1..4 |-> ctx.r[hal_entry(a).params[i]]]
arch_set_syscall_return(a, ctx, success, r0, r1) ==
  [ctx EXCEPT !.r = Put(@, hal_entry(a).returns, <<success, r0, r1>>)]

\* int_handler_syscall: <<r0, r1>> if the HAL answers the call, else <<>>.
int_handler_syscall(a, k, p) ==
  CASE p[1] = SYSCALL_HAL_PING -> <<p[2] + 1, p[3] + 1>>
    [] p[1] = SYSCALL_HAL_GET_TIB -> <<k.rc.tcb, 0>>
    [] p[1] = SYSCALL_HAL_IOPORT /\ hal_entry(a).has_ioport -> <<PortValue, 0>>
    [] OTHER -> <<>>

\* int_handler, up to the call of the kernel with this number and parameters.
call_kernel(a, k, p) ==
  kernel_pre_dispatch(a, [k EXCEPT !.mode = "kern", !.prev = k.rc.user, !.rc.user = FALSE,
                                   !.call = p])
\* int_handler, from the return of the kernel.
kernel_returns(a, k) == Leave(a, [kernel_post_dispatch(a, k) EXCEPT !.rc.user = k.prev])

\* Mutant: the whole context is copied, the number of the CPU that the
\* thread last ran on included.
switch_contextWhole(a, k, t) ==
  LET x == th[t]
      k1 == [disable_local_int(k) EXCEPT
               !.ctx = x.ctx,
               !.rc = [tid |-> t, pt |-> x.pt, user |-> x.user, asid |-> x.asid, tcb |-> x.tcb]]
  IN arch_switch_to(a, k1, x.pt, x.user, x.asid, x.tcb)
switch_context(a, k, t) ==
  LET x == th[t]
      k1 == [disable_local_int(k) EXCEPT
               !.ctx = [x.ctx EXCEPT !.mp = k.ctx.mp],
               !.rc = [tid |-> t, pt |-> x.pt, user |-> x.user, asid |-> x.asid, tcb |-> x.tcb]]
  IN arch_switch_to(a, k1, x.pt, x.user, x.asid, x.tcb)

-----------------------------------------------------------------------------
\* Start.  get_cur_mp_seq reads a register that hal_entry sets; on RISC-V it
\* reads the context that sscratch points to, to which init_int_entry_mp has
\* copied the number, and on x86 the segment table that gs points to.

arm_hal_entry(seq) == seq
mips_hal_entry(seq) == seq
openrisc_hal_entry(seq) == seq
riscv_hal_entry(seq) == seq

\* Tables fill whole pages, so that there may be more of them than CPUs.
TablesPerPage == 3
x86_build_kernel_seg_table(cpus) ==
  [i \in 1..(((cpus + TablesPerPage - 1) \div TablesPerPage) * TablesPerPage) |-> [mp_seq |-> i]]
x86_load_gdt_mp(tables, seq) == tables[seq].mp_seq
x86_hal_entry(cpus, seq) == x86_load_gdt_mp(x86_build_kernel_seg_table(cpus), seq)

hal_entry_mp(a, cpus, seq) ==
  CASE Family(a) = "arm" -> arm_hal_entry(seq) [] Family(a) = "mips" -> mips_hal_entry(seq)
    [] Family(a) = "openrisc" -> openrisc_hal_entry(seq)
    [] Family(a) = "riscv" -> riscv_hal_entry(seq)
    [] Family(a) = "x86" -> x86_hal_entry(cpus, seq)

riscv_init_int_entry_mp(k) == [k EXCEPT !.ctx.mp = k.seq]
init_int_entry_mp(a, k) == IF Family(a) = "riscv" THEN riscv_init_int_entry_mp(k) ELSE k
get_cur_mp_seq(a, k) == IF Family(a) = "riscv" THEN k.ctx.mp ELSE k.seq

init_context_mp ==
  [tid |-> 0, pt |-> KernelTable, user |-> FALSE, asid |-> 0, tcb |-> 0]

Blank(a) == init_thread_context(a, 0, 0, FALSE)
Cpu(a, cpus, c) ==
  init_int_entry_mp(a, Walk([mode |-> "sched", hw |-> [Blank(a) EXCEPT !.ie = FALSE],
    ctx |-> Blank(a), rc |-> init_context_mp, flag |-> FALSE, pt |-> KernelTable, asid |-> 0,
    tlb |-> {}, seq |-> hal_entry_mp(a, cpus, c), prev |-> FALSE, call |-> <<>>]))

Thread(a, t) ==
  LET user == t \in Users
      asid == IF user /\ hal_entry(a).asid_limit > 0 THEN t ELSE 0
      ctx == init_thread_context(a, 16, 100 + t, user)
  IN [st |-> "ready", ctx |-> ctx, pt |-> IF user THEN t ELSE KernelTable, user |-> user,
      asid |-> asid, tcb |-> 100 + t, want |-> [r |-> ctx.r, pc |-> ctx.pc]]

CPUs == DOMAIN hal.cpu

TrapInit ==
  \E m \in Machines :
    /\ hal = [arch |-> m.arch, calls |-> m.calls, cpu |-> [c \in 1..m.cpus |-> Cpu(m.arch, m.cpus, c)]]
    /\ th = [t \in Users \cup {Idle(c) : c \in 1..m.cpus} \cup {First(c) : c \in 1..m.cpus} |->
               Thread(m.arch, t)]

-----------------------------------------------------------------------------
\* The steps of CPU c.

SetCpu(c, k) == hal' = [hal EXCEPT !.cpu[c] = k]
Running(c) == hal.cpu[c].rc.tid

\* What a call by thread t may ask for: the number and the parameters.
Calls(t) ==
  IF t \in Users
  THEN {<<p[1], Port, 2, p[2]>> : p \in hal.calls}
  ELSE {<<SYSCALL_THREAD_EXIT, 0, 0, 0>> : c \in {x \in CPUs : First(x) = t}}

\* The thread loads the registers and enters the stub, at address 0.
SystemCall(c) ==
  LET a == hal.arch  k0 == hal.cpu[c]  t == Running(c)  s == sysenter(a)
  IN /\ k0.mode = "run"
     /\ \E p \in Calls(t) :
          LET own == [[n \in DOMAIN k0.hw.r |-> 0] EXCEPT !.g = t]
              r0 == Put(own, s.in, p)
              k == disable_local_int(Enter(a, [k0 EXCEPT !.hw.r = r0, !.hw.pc = 0], "sys"))
              q == arch_get_syscall_params(a, k.ctx)
              done == int_handler_syscall(a, k, q)
          IN IF done # <<>>
             THEN /\ SetCpu(c, Leave(a, [k EXCEPT !.ctx =
                                           arch_set_syscall_return(a, @, 0, done[1], done[2])]))
                  /\ th' = [th EXCEPT ![t].want =
                              [r |-> Put(r0, s.out, <<0, done[1], done[2]>>), pc |-> s.len]]
             ELSE /\ SetCpu(c, call_kernel(a, k, q))
                  /\ th' = [th EXCEPT ![t].want = [r |-> r0, pc |-> s.len]]

\* A device interrupts the thread: the HAL's driver deals with it, or the
\* kernel is called.  x86 panics on a vector that is no fault or call.
Interrupt(c) ==
  LET a == hal.arch  k == disable_local_int(Enter(a, hal.cpu[c], "dev"))
  IN /\ hal.cpu[c].mode = "run"
     /\ Family(a) # "x86"
     /\ \/ SetCpu(c, Leave(a, k))
        \/ SetCpu(c, call_kernel(a, k, <<SYSCALL_INTERRUPT, 0, 0, 0>>))
     /\ UNCHANGED th

\* A user thread touches a page that its table does not map, or, on MIPS,
\* that the TLB does not hold.  (OpenRISC's refill touches no context.)
PageFault(c) ==
  LET a == hal.arch  k == disable_local_int(Enter(a, hal.cpu[c], "fault"))
  IN /\ hal.cpu[c].mode = "run"
     /\ Running(c) \in Users
     /\ \/ SetCpu(c, call_kernel(a, k, <<SYSCALL_FAULT_PAGE, 0, 0, 0>>))
        \/ /\ Family(a) = "mips"
           /\ SetCpu(c, Leave(a, mips_tlb_refill(k)))
     /\ UNCHANGED th

\* dispatch: the handler's outcome, and what becomes of the thread.
Resume(c, k) == SetCpu(c, kernel_returns(hal.arch, k))
Resched(c, k) == SetCpu(c, [k EXCEPT !.mode = "sched", !.call = <<>>])
thread_save_context(x, ctx) == [x EXCEPT !.ctx = ctx]
Expect(x, vals) == [x EXCEPT !.want.r = Put(@, sysenter(hal.arch).out, vals)]

syscall_handler_ping(c, k, t) ==
  LET ctx == arch_set_syscall_return(hal.arch, k.ctx, 0, k.call[2] + 1, k.call[3] + 1)
      x == Expect(th[t], <<0, k.call[2] + 1, k.call[3] + 1>>)
  IN /\ k.call[1] = SYSCALL_PING
     /\ \/ /\ k.call[4] = 0
           /\ th' = [th EXCEPT ![t] = x]
           /\ Resume(c, [k EXCEPT !.ctx = ctx])
        \/ /\ k.call[4] = 1
           /\ th' = [th EXCEPT ![t] = thread_save_context(x, ctx)]
           /\ Resume(c, [k EXCEPT !.ctx = ctx])
        \/ /\ k.call[4] = 2
           /\ th' = [th EXCEPT ![t] = [thread_save_context(x, ctx) EXCEPT !.st = "ready"]]
           /\ Resched(c, k)

\* SAVE_RESCHED; the kernel's timers may have woken a sleeping thread.
syscall_handler_interrupt(c, k, t) ==
  /\ k.call[1] = SYSCALL_INTERRUPT
  /\ \E s \in SUBSET {u \in Users : th[u].st = "sleep"} :
       th' = [u \in DOMAIN th |->
                IF u \in s THEN [th[u] EXCEPT !.st = "ready"]
                ELSE IF u = t THEN [thread_save_context(th[u], k.ctx) EXCEPT !.st = "ready"]
                ELSE th[u]]
  /\ Resched(c, k)

\* CONTINUE, or SAVE_RESCHED if the page could not be mapped.
syscall_handler_fault_page(c, k, t) ==
  /\ k.call[1] = SYSCALL_FAULT_PAGE
  /\ \/ Resume(c, k) /\ UNCHANGED th
     \/ /\ th' = [th EXCEPT ![t] = [thread_save_context(@, k.ctx) EXCEPT !.st = "ready"]]
        /\ Resched(c, k)

syscall_handler_thread_exit(c, k, t) ==
  /\ k.call[1] = SYSCALL_THREAD_EXIT
  /\ th' = [th EXCEPT ![t] = [Thread(hal.arch, t) EXCEPT !.st = "gone"]]
  /\ Resched(c, k)

\* SKIP: the thread is neither saved nor queued.
syscall_handler_illegal(c, k, t) ==
  /\ k.call[1] = SYSCALL_HAL_IOPORT
  /\ th' = [th EXCEPT ![t] = [Thread(hal.arch, t) EXCEPT !.st = "gone"]]
  /\ Resched(c, k)

\* The outcome is in the context before the thread sleeps.
syscall_handler_wait(c, k, t) ==
  LET ctx == arch_set_syscall_return(hal.arch, k.ctx, 0, 0, 0)
  IN /\ k.call[1] = SYSCALL_EVENT_WAIT
     /\ th' = [th EXCEPT ![t] = [thread_save_context(Expect(@, <<0, 0, 0>>), ctx)
                                   EXCEPT !.st = "sleep"]]
     /\ Resched(c, k)

\* Serial IPC: a request hands the opcode to a waiting receiver, in its saved
\* context, or waits; a receive takes the opcode of a waiting request and
\* finishes it, or waits.
Opcode == 7
Waiting(st) == {u \in Users : th[u].st = st}
Woken(x, opcode) ==
  [Expect(x, <<0, opcode, 0>>) EXCEPT
     !.st = "ready", !.ctx = arch_set_syscall_return(hal.arch, @, 0, opcode, 0)]
SerialIpc(c, k, t, num, wait, partner, got) ==
  LET ret(v) == arch_set_syscall_return(hal.arch, k.ctx, 0, v, 0)
  IN /\ k.call[1] = num
     /\ \/ /\ Waiting(partner) = {}
           /\ th' = [th EXCEPT ![t] = [thread_save_context(Expect(@, <<0, 0, 0>>), ret(0))
                                         EXCEPT !.st = wait]]
           /\ Resched(c, k)
        \/ \E u \in Waiting(partner) :
             /\ th' = [th EXCEPT ![t] = Expect(@, <<0, got, 0>>), ![u] = Woken(@, Opcode)]
             /\ Resume(c, [k EXCEPT !.ctx = ret(got)])
syscall_handler_ipc_request(c, k, t) ==
  SerialIpc(c, k, t, SYSCALL_IPC_REQUEST, "send", "recv", 0)
syscall_handler_ipc_receive(c, k, t) ==
  SerialIpc(c, k, t, SYSCALL_IPC_RECEIVE, "recv", "send", Opcode)

Dispatch(c) ==
  LET k == hal.cpu[c]  t == Running(c)
  IN /\ k.mode = "kern"
     /\ \/ syscall_handler_ping(c, k, t)
        \/ syscall_handler_interrupt(c, k, t)
        \/ syscall_handler_fault_page(c, k, t)
        \/ syscall_handler_thread_exit(c, k, t)
        \/ syscall_handler_illegal(c, k, t)
        \/ syscall_handler_wait(c, k, t)
        \/ syscall_handler_ipc_request(c, k, t)
        \/ syscall_handler_ipc_receive(c, k, t)

\* sched: a CPU starts with its first thread; then normal threads come
\* before its idle thread.
Candidates(c) ==
  LET ready == {u \in Users : th[u].st = "ready"}
  IN IF th[First(c)].st = "ready" THEN {First(c)}
     ELSE IF ready # {} THEN ready ELSE {Idle(c)}
Sched(c) ==
  /\ hal.cpu[c].mode = "sched"
  /\ \E t \in Candidates(c) :
       /\ SetCpu(c, switch_context(hal.arch, hal.cpu[c], t))
       /\ th' = [th EXCEPT ![t].st = "run"]

idle_worker(c) == hal.cpu[c].mode = "run" /\ Running(c) = Idle(c) /\ UNCHANGED trapVars

TrapNext ==
  \E c \in CPUs : \/ SystemCall(c) \/ Interrupt(c) \/ PageFault(c)
                  \/ Dispatch(c) \/ Sched(c) \/ idle_worker(c)

TrapSpec == TrapInit /\ [][TrapNext]_trapVars

-----------------------------------------------------------------------------
\* Addresses, in megabytes: where the HAL is linked, and a device or a piece
\* of RAM that the kernel reaches through its own table.

HalBase(a) == CASE Family(a) = "openrisc" -> 16 [] Width(a) = 64 -> 511 * 1024 [] OTHER -> 4095
KernelData(a) ==
  CASE Family(a) = "openrisc" -> {0, 2304} [] Family(a) = "riscv" -> {2048} [] OTHER -> {0}
Mapped(a, pt, addr) ==
  pt = KernelTable \/ (addr \div hal_entry(a).shift) \in hal_entry(a).kernel_entries

\* sysenter_get_tib: the register that holds the thread's control block.  On
\* x86 it is the CPU's user_tls_ptr, which user programs do not read yet.
Tib(k) == k.hw.tls

\* A running thread is exactly where it would be if the trap had been a
\* function call of the stub: the outcome in the stub's output registers, all
\* other registers and the mode its own; with its own page table, address
\* space id and thread pointer, and with interrupts on.
ResumesExact(a, k) ==
  LET x == th[k.rc.tid]
  IN /\ k.hw.r = x.want.r /\ k.hw.pc = x.want.pc
     /\ k.hw.user = x.user /\ k.rc.user = x.user
     /\ Tib(k) = x.tcb /\ k.rc.tcb = x.tcb
     /\ Family(a) # "mips" => k.pt = x.pt
     /\ k.asid = x.asid
     /\ k.hw.ie /\ k.flag
     /\ x.st = "run"

\* Whatever runs finds what it uses: the HAL is in the table of the thread
\* that it interrupts, unless traps turn translation off, and the kernel
\* runs on its own table.  No TLB entry of one process serves another.
MemoryInPlace(a, k) ==
  /\ Family(a) \notin {"mips", "openrisc"} => Mapped(a, k.pt, HalBase(a))
  /\ k.mode \in {"kern", "sched"} /\ Family(a) # "mips" =>
       \A d \in KernelData(a) : Mapped(a, k.pt, d)
  /\ \A e \in k.tlb :
       e[2] = k.asid => e[1] \in {k.rc.pt, KernelTable} \/ k.mode \in {"kern", "sched"}

\* Traps are transparent (switch_context, int_handler, int_handler_entry,
\* switch_to): a thread always resumes exactly, on whichever CPU; a CPU never
\* mistakes its number, although contexts travel between CPUs with their
\* threads; no thread runs on two CPUs; in the kernel interrupts are off.
TrapExact ==
  \A c \in CPUs :
    LET k == hal.cpu[c]
    IN /\ k.mode = "run" => ResumesExact(hal.arch, k)
       /\ k.mode # "run" => ~k.flag /\ ~k.hw.ie
       /\ MemoryInPlace(hal.arch, k)
       /\ get_cur_mp_seq(hal.arch, k) = c
       /\ \A d \in CPUs \ {c} :
            k.mode = "run" /\ hal.cpu[d].mode = "run" => k.rc.tid # hal.cpu[d].rc.tid

=============================================================================
