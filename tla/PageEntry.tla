----------------------------- MODULE PageEntry -----------------------------
(***************************************************************************)
(* The page table entries of five architectures: the accessors of          *)
(* arch/riscv, mips, openrisc, x86 and aarch64/common/include/page.h, and  *)
(* openrisc's protection schemes (common/include/mmu.h).  An entry is the  *)
(* record of the bit fields the accessors use.  at is what an entry may    *)
(* allow: exec, read, write, cache, kernel, each 0 or 1.                   *)
(***************************************************************************)
EXTENDS Integers, Sequences

Not(bit) == 1 - bit

\* MAX_NUM_VADDR_BITS is 39 on riscv64 and 48 on amd64.
PAGE_LEVELS(arch) ==
  CASE arch \in {"riscv32", "mips32", "ia32", "openrisc"} -> 2
    [] arch = "riscv64" -> 3
    [] OTHER -> 4

PAGE_TABLE_ENTRY_BITS(arch) ==
  CASE arch \in {"riscv32", "mips32", "ia32"} -> 10
    [] arch = "openrisc" -> 11
    [] OTHER -> 9

\* The index of page v in its table of level l.
Index(arch, l, v) ==
  (v \div 2^((PAGE_LEVELS(arch) - l) * PAGE_TABLE_ENTRY_BITS(arch)))
    % 2^PAGE_TABLE_ENTRY_BITS(arch)

riscv_page_get_pte(arch, l, v) == Index(arch, l, v)
mips_page_get_pte(arch, l, v) == Index(arch, l, v)
openrisc_page_get_pte(arch, l, v) == Index(arch, l, v)
x86_page_get_pte(arch, l, v) == Index(arch, l, v)
aarch64_page_get_pte(arch, l, v) == Index(arch, l, v)

BlockSize(arch, l) == 2^((PAGE_LEVELS(arch) - l) * PAGE_TABLE_ENTRY_BITS(arch))

riscv_page_get_block_page_count(arch, l) == BlockSize(arch, l)
mips_page_get_block_page_count(arch, l) == BlockSize(arch, l)
openrisc_page_get_block_page_count(arch, l) == BlockSize(arch, l)
x86_page_get_block_page_count(arch, l) ==
  IF arch = "amd64" /\ l < 3 THEN 0 ELSE BlockSize(arch, l)
aarch64_page_get_block_page_count(arch, l) == IF l <= 1 THEN 0 ELSE BlockSize(arch, l)

-----------------------------------------------------------------------------
\* riscv: no entry says whether its page is cached.

riscv_entry ==
  [valid |-> 0, read |-> 0, write |-> 0, exec |-> 0, user |-> 0, leaf |-> 0, pfn |-> 0]

riscv_is_valid(e) == e.valid = 1
riscv_is_leaf(e) == e.leaf = 1
riscv_dest_ppfn(e) == e.pfn
riscv_next_table(e) == riscv_dest_ppfn(e)
riscv_get_attri(e) ==
  [exec |-> e.exec, read |-> e.read, write |-> e.write, cache |-> 1, kernel |-> Not(e.user)]
riscv_compare(e, ppfn, at) ==
  /\ e.pfn = ppfn /\ e.exec = at.exec /\ e.read = at.read
  /\ e.write = at.write /\ e.user = Not(at.kernel)
riscv_set_attri(ppfn, at) ==
  [valid |-> 1, read |-> at.read, write |-> at.write, exec |-> at.exec,
   user |-> Not(at.kernel), leaf |-> 1, pfn |-> ppfn]
riscv_set_next_table(ppfn) == [riscv_entry EXCEPT !.valid = 1, !.pfn = ppfn]
riscv_is_empty_table(es) == \A k \in DOMAIN es : es[k] = riscv_entry

-----------------------------------------------------------------------------
\* mips: what the TLB refill handler reads.

mips_entry ==
  [present |-> 0, leaf |-> 0, write_allow |-> 0, exec_allow |-> 0, cache_allow |-> 0,
   kernel |-> 0, pfn |-> 0]

mips_is_valid(e) == e.present = 1
mips_is_leaf(e) == e.leaf = 1
mips_next_table(e) == e.pfn
mips_dest_ppfn(e) == e.pfn
mips_get_attri(e) ==
  [exec |-> e.exec_allow, read |-> 1, write |-> e.write_allow, cache |-> e.cache_allow,
   kernel |-> e.kernel]
mips_compare(e, ppfn, at) ==
  /\ e.pfn = ppfn /\ e.exec_allow = at.exec /\ e.write_allow = at.write
  /\ e.cache_allow = at.cache /\ e.kernel = at.kernel
mips_set_attri(ppfn, at) ==
  [present |-> 1, leaf |-> 1, write_allow |-> at.write, exec_allow |-> at.exec,
   cache_allow |-> at.cache, kernel |-> at.kernel, pfn |-> ppfn]
mips_set_next_table(ppfn) == [mips_entry EXCEPT !.present = 1, !.pfn = ppfn]
mips_is_empty_table(es) == \A k \in DOMAIN es : es[k] = mips_entry

-----------------------------------------------------------------------------
\* openrisc: an entry holds one of six protection schemes, 0 for none.

compose_prot_type(k, r, w, x) == <<k, r, w, x>>

protect_scheme_to_reg_idx(type) ==
  CASE type = <<1, 1, 1, 1>> -> 1
    [] type = <<1, 1, 1, 0>> -> 2
    [] type = <<0, 1, 1, 1>> -> 3
    [] type = <<0, 1, 1, 0>> -> 4
    [] type = <<0, 1, 0, 0>> -> 5
    [] type = <<0, 0, 0, 1>> -> 6
    [] OTHER -> 0

get_prot_field(k, r, w, x) == protect_scheme_to_reg_idx(compose_prot_type(k, r, w, x))

protect_attris(field) ==
  <<<<0, 0, 0, 0>>, <<1, 1, 1, 1>>, <<1, 1, 1, 0>>, <<0, 1, 1, 1>>, <<0, 1, 1, 0>>,
    <<0, 1, 0, 0>>, <<0, 0, 0, 1>>>>[field + 1]

get_prot_attri(field, cache) ==
  LET t == protect_attris(field) IN
  [kernel |-> t[1], read |-> t[2], write |-> t[3], exec |-> t[4], cache |-> cache]

\* What each scheme allows the kernel and the user to do (immupr, dmmupr).
protect_regs(field) ==
  [kx |-> field = 1, ux |-> field \in {3, 6}, kr |-> field # 0, kw |-> field # 0,
   ur |-> field \in {3, 4, 5}, uw |-> field \in {3, 4}]

openrisc_entry == [cache_disabled |-> 0, protect_field |-> 0, has_next |-> 0, pfn |-> 0]

openrisc_is_valid(e) == e.protect_field # 0
openrisc_is_leaf(e) == e.has_next = 0
openrisc_dest_ppfn(e) == e.pfn
openrisc_next_table(e) == openrisc_dest_ppfn(e)
openrisc_get_attri(e) == get_prot_attri(e.protect_field, Not(e.cache_disabled))
openrisc_compare(e, ppfn, at) ==
  e.pfn = ppfn /\ openrisc_get_attri(e) = [at EXCEPT !.read = openrisc_get_attri(e).read]
openrisc_set_attri(ppfn, at) ==
  [cache_disabled |-> Not(at.cache), has_next |-> 0, pfn |-> ppfn,
   protect_field |-> get_prot_field(at.kernel, at.read, at.write, at.exec)]
openrisc_set_next_table(ppfn) ==
  [openrisc_entry EXCEPT !.protect_field = get_prot_field(1, 1, 1, 1), !.has_next = 1,
                         !.pfn = ppfn]
openrisc_is_empty_table(es) == \A k \in DOMAIN es : es[k] = openrisc_entry

-----------------------------------------------------------------------------
\* x86: what is a leaf depends on the level too; ia32 has no no_exec.

x86_entry ==
  [present |-> 0, write_allow |-> 0, user_allow |-> 0, cache_disabled |-> 0,
   large_page |-> 0, no_exec |-> 0, pfn |-> 0]

LargeLevel(arch) == IF arch = "ia32" THEN 1 ELSE 3

x86_is_valid(e) == e.present = 1
x86_is_leaf(arch, e, l) == l > LargeLevel(arch) \/ (l = LargeLevel(arch) /\ e.large_page = 1)
x86_dest_ppfn(e) == e.pfn
x86_next_table(e) == x86_dest_ppfn(e)
x86_get_attri(e) ==
  [exec |-> Not(e.no_exec), read |-> 1, write |-> e.write_allow,
   cache |-> Not(e.cache_disabled), kernel |-> Not(e.user_allow)]
x86_compare(arch, e, ppfn, at) ==
  /\ e.pfn = ppfn /\ e.cache_disabled = Not(at.cache)
  /\ e.write_allow = at.write /\ e.user_allow = Not(at.kernel)
  /\ arch = "amd64" => e.no_exec = Not(at.exec)
x86_set_attri(arch, l, ppfn, at) ==
  [present |-> 1, pfn |-> ppfn, write_allow |-> at.write, cache_disabled |-> Not(at.cache),
   user_allow |-> Not(at.kernel), large_page |-> IF l = LargeLevel(arch) THEN 1 ELSE 0,
   no_exec |-> IF arch = "amd64" THEN Not(at.exec) ELSE 0]
x86_set_next_table(ppfn) ==
  [x86_entry EXCEPT !.present = 1, !.pfn = ppfn, !.write_allow = 1, !.user_allow = 1]
x86_is_empty_table(es) == \A k \in DOMAIN es : es[k] = x86_entry

-----------------------------------------------------------------------------
\* aarch64: the frame of a block is stored shifted, every page may be written,
\* and who may not execute is compared in another way than it is set.

aarch64_entry ==
  [present |-> 0, table |-> 0, pfn |-> 0, normal |-> 0, user |-> 0, read_only |-> 0,
   kernel_no_exec |-> 0, user_no_exec |-> 0]

aarch64_is_valid(e) == e.present = 1
aarch64_is_leaf(e, l) == l = 4 \/ e.table = 0
aarch64_next_table(e) == e.pfn
aarch64_dest_ppfn(e) == e.pfn
aarch64_get_attri(e) ==
  [exec |-> Not(IF e.user = 1 THEN e.user_no_exec ELSE e.kernel_no_exec), read |-> 1,
   write |-> Not(e.read_only), cache |-> e.normal, kernel |-> Not(e.user)]
aarch64_compare(e, ppfn, at) ==
  /\ e.pfn = ppfn /\ e.normal = at.cache /\ e.user = Not(at.kernel)
  /\ e.read_only = Not(at.write)
  /\ e.kernel_no_exec = IF at.kernel = 1 THEN Not(at.exec) ELSE 0
  /\ e.user_no_exec = IF at.kernel = 1 THEN 1 ELSE Not(at.exec)
aarch64_set_attri(l, ppfn, at) ==
  [present |-> 1, table |-> IF l = 4 THEN 1 ELSE 0,
   pfn |-> CASE l = 2 -> ppfn \div 2^18 [] l = 3 -> ppfn \div 2^9 [] OTHER -> ppfn,
   normal |-> at.cache, user |-> Not(at.kernel), read_only |-> 0,
   kernel_no_exec |-> Not(at.exec), user_no_exec |-> Not(at.exec)]
aarch64_set_next_table(ppfn) ==
  [aarch64_entry EXCEPT !.present = 1, !.table = 1, !.pfn = ppfn]
aarch64_is_empty_table(es) == \A k \in DOMAIN es : es[k] = aarch64_entry
=============================================================================
