------------------------------ MODULE VmRanges ------------------------------
(***************************************************************************)
(* The address space of a process as vm_alloc cuts it up (kernel/proc/vm.c *)
(* over the sorted lists of kernel/struct/list.c): blocks come from the    *)
(* available ranges, go through the lists of blocks being freed (VmBlocks) *)
(* and are merged back.  Addresses count pages.                            *)
(***************************************************************************)
EXTENDS Integers, Sequences, FiniteSets, SequencesExt

CONSTANTS
  Start, End,    \* dynamic.start and dynamic.end
  Sizes,         \* sizes of generic blocks
  ThreadSize     \* block_size of a thread

VARIABLES
  avail,    \* avail_unmapped, a sequence of ranges [base, size]
  inuse,    \* inuse_mapped
  sanit,    \* sanit_unmapped, a queue
  objs,     \* num_salloc_objs
  active,   \* num_active_blocks
  refs      \* what the blocks have added to the ref_count of the process

rangeVars == <<avail, inuse, sanit, objs, active, refs>>

RangeEnd(r) == r.base + r.size

\* vm_create.
RangesInit ==
  /\ avail = <<[base |-> Start, size |-> End - Start]>>
  /\ inuse = {} /\ sanit = <<>>
  /\ objs = 1 /\ active = 0 /\ refs = 1

\* What is left of range r when b is cut out of it: nothing, a shorter range,
\* or one on either side.
Rest(r, b) ==
  SelectSeq(<<[base |-> r.base, size |-> b.base - r.base],
              [base |-> RangeEnd(b), size |-> RangeEnd(r) - RangeEnd(b)]>>,
            LAMBDA x : x.size > 0)

\* A block is cut out of the i-th range.  One struct is for the block, the
\* one of a range that is used up is freed, a second range takes another.
Cut(i, b) ==
  LET rest == Rest(avail[i], b) IN
  /\ avail' = SubSeq(avail, 1, i - 1) \o rest \o SubSeq(avail, i + 1, Len(avail))
  /\ inuse' = inuse \cup {b}
  /\ objs' = objs + Len(rest)
  /\ refs' = refs + Len(rest)
  /\ active' = active + 1
  /\ UNCHANGED sanit

FirstOf(S) == CHOOSE i \in S : \A j \in S : i <= j

\* vm_alloc at a given address: the range that holds all of the block.
vm_alloc_at ==
  \E base \in Start..(End - 1), size \in Sizes :
    LET fits == {i \in DOMAIN avail :
                   avail[i].base <= base /\ RangeEnd(avail[i]) >= base + size}
    IN fits # {} /\ Cut(FirstOf(fits), [base |-> base, size |-> size])

\* vm_alloc anywhere: the front of the first range that is large enough.
vm_alloc ==
  \E size \in Sizes :
    LET fits == {i \in DOMAIN avail : avail[i].size >= size}
        i == FirstOf(fits)
    IN fits # {} /\ Cut(i, [base |-> avail[i].base, size |-> size])

\* vm_alloc_thread: the end of the last range.
vm_alloc_thread ==
  LET n == Len(avail) IN
  /\ n > 0 /\ avail[n].size >= ThreadSize
  /\ Cut(n, [base |-> RangeEnd(avail[n]) - ThreadSize, size |-> ThreadSize])

\* vm_free, to where all CPUs have acknowledged the shootdown.
vm_free ==
  \E b \in inuse :
    /\ inuse' = inuse \ {b}
    /\ sanit' = Append(sanit, b)
    /\ UNCHANGED <<avail, objs, active, refs>>

\* list_insert_sorted, by the base,
list_insert_sorted(l, n) ==
  LET i == Cardinality({j \in DOMAIN l : l[j].base < n.base}) + 1 IN InsertAt(l, i, n)

avail_list_merge(a, b) == RangeEnd(a) = b.base

\* and list_merge, first with the range before and then with the one behind.
list_merge(l, i) ==
  LET prev == i > 1 /\ avail_list_merge(l[i - 1], l[i])
      m == IF prev THEN RemoveAt([l EXCEPT ![i - 1].size = @ + l[i].size], i) ELSE l
      k == IF prev THEN i - 1 ELSE i
  IN IF k < Len(m) /\ avail_list_merge(m[k], m[k + 1])
     THEN RemoveAt([m EXCEPT ![k].size = @ + m[k + 1].size], k + 1)
     ELSE m

\* One round of vm_move_sanit_to_avail.  Each range that was merged into
\* another gives back its struct and its reference.
vm_move_sanit_to_avail ==
  /\ sanit # <<>>
  /\ LET l == list_insert_sorted(avail, Head(sanit))
         i == CHOOSE j \in DOMAIN l : l[j] = Head(sanit)
         m == list_merge(l, i)
     IN /\ avail' = m
        /\ objs' = objs - (Len(l) - Len(m))
        /\ refs' = refs - (Len(l) - Len(m))
  /\ sanit' = Tail(sanit)
  /\ active' = active - 1
  /\ UNCHANGED inuse

RangesNext ==
  \/ vm_alloc_at \/ vm_alloc \/ vm_alloc_thread \/ vm_free \/ vm_move_sanit_to_avail

-----------------------------------------------------------------------------

Given == inuse \cup {sanit[i] : i \in DOMAIN sanit}
Covers(r, a) == r.base <= a /\ a < RangeEnd(r)

\* Every page of the address space is in exactly one range or block; the
\* ranges are in order and no two adjoin, so that all memory given back can
\* be had again in one piece; the counters the cleaner waits for count what
\* there is: structs, references and active blocks.
RangesExact ==
  /\ \A a \in Start..(End - 1) :
       Cardinality({i \in DOMAIN avail : Covers(avail[i], a)})
         + Cardinality({b \in Given : Covers(b, a)}) = 1
  /\ \A i \in 1..(Len(avail) - 1) : RangeEnd(avail[i]) < avail[i + 1].base
  /\ \A i \in DOMAIN avail : avail[i].size > 0
  /\ active = Cardinality(Given)
  /\ objs = Len(avail) + active /\ refs = Len(avail) + active
=============================================================================
