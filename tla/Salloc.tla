------------------------------- MODULE Salloc -------------------------------
(***************************************************************************)
(* The structure allocator (kernel/mem/salloc.c) and malloc on top of it   *)
(* (kernel/mem/malloc.c), over the page allocator.  A bucket is a block of *)
(* pages cut into structs; it is known by its first page.  salloc and      *)
(* sfree run under the object's lock and are one action each, the call of  *)
(* the page allocator included.  Other callers share the page allocator.   *)
(***************************************************************************)
EXTENDS Palloc

CONSTANTS
  PageSize, BucketSize, MagicSize, Align,    \* sizes of structs, in words
  Sizes,         \* malloc_entries: the struct sizes, in ascending order
  BlockCount,    \* the number of structs asked for when an object is created
  Requests,      \* the sizes callers of malloc ask for
  MaxStructs     \* bound: structs in use at a time

Objs == DOMAIN Sizes

ASSUME SallocAssumption ==
  /\ Sizes \in Seq(Nat \ {0}) /\ \A o, q \in Objs : o < q => Sizes[o] < Sizes[q]
  /\ {PageSize, BucketSize, MagicSize, Align, BlockCount} \subseteq Nat \ {0}
  /\ Requests \subseteq Nat

VARIABLES
  bucket,        \* bucket[p]: [obj, block], the object and the free structs
  partial,       \* partial[o]: the list partial_buckets of object o
  count,         \* count[o]: partial_buckets.count
  structs,       \* the structs in use, <<bucket, index>>
  pages, active  \* num_palloc_pages and num_active_objs of each object

bucketVars == <<bucket, partial, count, structs, pages, active>>
allVars    == <<vars, bucketVars>>

-----------------------------------------------------------------------------
\* The shape of a bucket, from salloc_create.

AlignUp(n) == ((n + Align - 1) \div Align) * Align
DivUp(n, d) == (n + d - 1) \div d

block_size(o) == AlignUp(Sizes[o] + MagicSize)
block_start_offset == AlignUp(BucketSize + MagicSize) - MagicSize

bucket_page_count(o) ==
  LET total == block_start_offset + block_size(o) * BlockCount
  IN Size(calc_palloc_order(DivUp(total, PageSize)))

\* Mutant: the header of the bucket is forgotten.
bucket_block_count_whole(o) ==
  (bucket_page_count(o) * PageSize) \div block_size(o)

bucket_block_count(o) ==
  (bucket_page_count(o) * PageSize - block_start_offset) \div block_size(o)

\* The words struct i of a bucket of object o takes, its magic block included.
Words(o, i) ==
  LET start == block_start_offset + i * block_size(o)
  IN start .. (start + MagicSize + Sizes[o] - 1)

SallocInit ==
  /\ Init
  /\ bucket = <<>>
  /\ partial = [o \in Objs |-> <<>>]
  /\ count = [o \in Objs |-> 0]
  /\ structs = {}
  /\ pages = [o \in Objs |-> 0]
  /\ active = [o \in Objs |-> 0]

-----------------------------------------------------------------------------
\* Allocating and freeing.

\* alloc_bucket pushes the structs one after the other.
NewBucket(o) == [obj |-> o, block |-> [i \in 1..bucket_block_count(o) |->
                                         bucket_block_count(o) - i]]

insert_bucket(o, p) ==
  /\ partial' = [partial EXCEPT ![o] = <<p>> \o @]
  /\ count' = [count EXCEPT ![o] = @ + 1]

remove_bucket(o, p) ==
  /\ partial' = [partial EXCEPT ![o] = Remove(@, p)]
  /\ count' = [count EXCEPT ![o] = @ - 1]

\* salloc takes the first free struct of bucket p, whose contents are b.
Take(o, p, b) ==
  LET rest == Tail(b.block) IN
  /\ bucket' = (p :> [b EXCEPT !.block = rest]) @@ bucket
  /\ structs' = structs \cup {<<p, Head(b.block)>>}
  /\ IF rest = <<>> THEN remove_bucket(o, p)
     ELSE IF Len(rest) = bucket_block_count(o) - 1 THEN insert_bucket(o, p)
     ELSE UNCHANGED <<partial, count>>
  /\ active' = [active EXCEPT ![o] = @ + 1]

salloc(o) ==
  \/ /\ count[o] # 0
     /\ Take(o, Head(partial[o]), bucket[Head(partial[o])])
     /\ UNCHANGED <<vars, pages>>
  \/ /\ count[o] = 0
     /\ palloc_direct_mapped(bucket_page_count(o))
     /\ IF panicked' THEN UNCHANGED bucketVars
        ELSE /\ \E new \in held' \ held : Take(o, new[1], NewBucket(o))
             /\ pages' = [pages EXCEPT ![o] = @ + bucket_page_count(o)]

\* malloc takes the smallest entry that is large enough.  A larger one would
\* be tried if salloc returned NULL, but palloc_direct_mapped panics first.
malloc(size) ==
  LET fitting == {o \in Objs : size <= Sizes[o]} IN
  IF fitting = {} THEN panicked' = TRUE /\ UNCHANGED <<s, held, allocated, bucketVars>>
  ELSE salloc(Min(fitting))

\* sfree: an empty bucket is given back, a full one is on the list again.
sfree(p, i) ==
  LET o    == bucket[p].obj
      free == <<i>> \o bucket[p].block
  IN
  /\ structs' = structs \ {<<p, i>>}
  /\ active' = [active EXCEPT ![o] = @ - 1]
  /\ IF Len(free) = bucket_block_count(o)
     THEN /\ remove_bucket(o, p)
          /\ \E b \in held : b[1] = p /\ pfree(p, b[2])
          /\ bucket' = Restrict(bucket, DOMAIN bucket \ {p})
          /\ pages' = [pages EXCEPT ![o] = @ - bucket_page_count(o)]
     ELSE /\ bucket' = [bucket EXCEPT ![p].block = free]
          /\ IF Len(free) = 1 THEN insert_bucket(o, p) ELSE UNCHANGED <<partial, count>>
          /\ UNCHANGED <<vars, pages>>

\* The blocks of pages that are not buckets.
Loose == {b \in held : b[1] \notin DOMAIN bucket}

\* palloc, palloc_direct_mapped and pfree by other callers.
PageStep ==
  /\ \/ \E n \in Counts : palloc(n) \/ palloc_direct_mapped(n)
     \/ \E b \in Loose : pfree(b[1], b[2])
  /\ UNCHANGED bucketVars

SallocNext ==
  /\ ~panicked
  /\ \/ PageStep
     \/ Cardinality(structs) < MaxStructs /\ \E size \in Requests : malloc(size)
     \/ \E x \in structs : sfree(x[1], x[2])

SallocSpec == SallocInit /\ [][SallocNext]_allVars

-----------------------------------------------------------------------------
\* Properties.

InUse(p) == {x[2] : x \in {y \in structs : y[1] = p}}

\* A bucket's structs are free or in use, never both, and lie side by side in
\* the pages of the bucket, behind its header: no two callers share a word.
StructsDisjoint ==
  \A p \in DOMAIN bucket :
    LET o    == bucket[p].obj
        free == ToSet(bucket[p].block)
        all  == 0 .. (bucket_block_count(o) - 1)
    IN
    /\ IsInjective(bucket[p].block)
    /\ free \cap InUse(p) = {} /\ free \cup InUse(p) = all
    /\ \E b \in held : b[1] = p /\ Size(b[2]) = bucket_page_count(o)
    /\ \A i \in all : Words(o, i) \subseteq BucketSize .. (bucket_page_count(o) * PageSize - 1)
    /\ \A i, j \in all : i # j => Words(o, i) \cap Words(o, j) = {}

\* "We only have partial list since empty buckets are freed immediately, and
\* full buckets are dangling": the list of an object is exactly its buckets
\* with a free struct, no bucket is left with nothing in use, and no struct
\* is in use whose bucket is gone.
PartialExact ==
  /\ {x[1] : x \in structs} = DOMAIN bucket
  /\ \A o \in Objs :
       /\ IsInjective(partial[o]) /\ count[o] = Len(partial[o])
       /\ ToSet(partial[o]) =
            {p \in DOMAIN bucket : bucket[p].obj = o /\ bucket[p].block # <<>>}

\* The books agree with what is in use: num_active_objs and num_palloc_pages
\* of each salloc object, avail_pages of each region, and num_pages_alloc;
\* remove_node never panics.
BooksExact ==
  /\ \A o \in Objs :
       LET mine == {p \in DOMAIN bucket : bucket[p].obj = o} IN
       /\ active[o] = Cardinality({x \in structs : x[1] \in mine})
       /\ pages[o] = bucket_page_count(o) * Cardinality(mine)
  /\ \A r \in Regions : s.pages[r] = NumPages(FreeBlocks(r))
  /\ allocated = NumPages(held)
  /\ s.ok
=============================================================================
