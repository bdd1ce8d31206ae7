-------------------------------- MODULE Heap --------------------------------
(***************************************************************************)
(* The heap of a user process (libc/stdlib/malloc.c and salloc.c).  Blocks *)
(* of one size belong to a bucket and are cut out of chunks that the       *)
(* kernel maps; a bucket lists its chunks with a free block.  malloc and   *)
(* free run under the mutex of their bucket and are one action each;       *)
(* realloc is a malloc and a free.  Sizes count words.                     *)
(***************************************************************************)
EXTENDS Integers, Sequences, FiniteSets, SequencesExt

CONSTANTS
  Chunks,       \* where syscall_vm_alloc may map a chunk
  ChunkSize, HeadSize,         \* CHUNK_SIZE and sizeof(struct chunk)
  BlockHead, MagicSize,        \* sizeof(struct block) and sizeof(struct magic)
  Requests,     \* the sizes callers ask for
  MaxLive,      \* bound: blocks in use at a time
  MaxDrift,     \* bound: how far num_active_chunks falls below zero
  Null

VARIABLES
  heap,    \* [bucket, chunk, lost, ok]: the buckets, the mapped chunks, the
           \* chunks unmapped while another still leads to them, and whether
           \* only mapped chunks were touched
  live     \* the blocks in use: [chunk, at, len, whole, old];
           \* whole: it holds what its owner had before realloc, old: that
           \* realloc has copied it and will free it

heapVars == <<heap, live>>

MAX_BLOCK_SIZE == ChunkSize - HeadSize
MIN_BLOCK_SIZE == IF BlockHead > MagicSize THEN BlockHead ELSE MagicSize

\* new_bucket and init_malloc: powers of two between the bounds, then the
\* largest block, which has a chunk for itself.
block_size ==
  Append(SelectSeq([i \in 1..8 |-> 2 ^ (i - 1)],
                   LAMBDA n : MIN_BLOCK_SIZE < n /\ n < MAX_BLOCK_SIZE),
         MAX_BLOCK_SIZE)
num_blocks_per_chunk(b) == MAX_BLOCK_SIZE \div block_size[b]
Buckets == DOMAIN block_size

init_malloc ==
  /\ heap = [bucket |-> [b \in Buckets |-> [chunk |-> Null, active |-> 0, allocated |-> 0]],
             chunk |-> <<>>, lost |-> {}, ok |-> TRUE]
  /\ live = {}

-----------------------------------------------------------------------------
\* The steps of malloc and free, on a heap h.

Mapped(h) == DOMAIN h.chunk

create_chunk(b) ==
  [bucket |-> b, avail |-> num_blocks_per_chunk(b), inuse |-> 0,
   block |-> <<[at |-> HeadSize, span |-> num_blocks_per_chunk(b)]>>,
   prev |-> Null, next |-> Null]

\* find_chunk puts a new chunk in front only when the list is empty.
attach_chunk(h, b, c) ==
  [h EXCEPT !.chunk = [x \in Mapped(h) \cup {c} |->
                         IF x = c THEN create_chunk(b) ELSE h.chunk[x]],
            !.bucket[b] = [chunk |-> c, active |-> @.active + 1,
                           allocated |-> @.allocated + 1]]

\* Both neighbours are written, mapped or not.
detach_chunk(h, c) ==
  LET d == h.chunk[c] IN
  [h EXCEPT !.ok = @ /\ {d.prev, d.next} \subseteq Mapped(h) \cup {Null},
            !.chunk = [x \in Mapped(h) |->
                         [h.chunk[x] EXCEPT !.next = IF x = d.prev THEN d.next ELSE @,
                                            !.prev = IF x = d.next THEN d.prev ELSE @]],
            !.bucket[d.bucket].chunk = IF @ = c THEN d.next ELSE @,
            !.bucket[d.bucket].active = @ - 1]

\* Mutant: the rest of a run of free blocks keeps its length.
RestLong(f, size) == IF f.span = 1 THEN <<>> ELSE <<[at |-> f.at + size, span |-> f.span]>>

\* What is left of a run of free blocks when its first block is taken.
Rest(f, size) == IF f.span = 1 THEN <<>> ELSE <<[at |-> f.at + size, span |-> f.span - 1]>>

\* A full chunk leaves the list.
find_block(h, c) ==
  LET d == h.chunk[c]
      taken == [h EXCEPT !.chunk[c].block = Rest(Head(@), block_size[d.bucket]) \o Tail(@),
                         !.chunk[c].avail = @ - 1, !.chunk[c].inuse = @ + 1]
  IN IF d.avail = 1 THEN detach_chunk(taken, c) ELSE taken

\* The chunk is listed again; the one behind it does not learn of it, and
\* num_active_chunks does not count it.
putback_chunk(h, c) ==
  LET b == h.chunk[c].bucket IN
  [h EXCEPT !.chunk[c].prev = Null, !.chunk[c].next = h.bucket[b].chunk,
            !.bucket[b].chunk = c]

\* syscall_vm_free.
Unmap(h, c) ==
  [h EXCEPT !.chunk = [x \in Mapped(h) \ {c} |-> h.chunk[x]],
            !.bucket[h.chunk[c].bucket].allocated = @ - 1,
            !.lost = IF \E x \in Mapped(h) \ {c} : h.chunk[x].next = c THEN @ \cup {c} ELSE @]

\* A block comes back; a chunk with no block in use is unmapped.  The test of
\* num_active_chunks, an unsigned number, is a test for zero.
putback_block(h, c, at) ==
  LET on   == IF h.chunk[c].avail = 0 THEN putback_chunk(h, c) ELSE h
      back == [on EXCEPT !.chunk[c].block = <<[at |-> at, span |-> 1]>> \o @,
                         !.chunk[c].inuse = @ - 1, !.chunk[c].avail = @ + 1]
  IN IF back.chunk[c].inuse = 0 /\ back.bucket[h.chunk[c].bucket].active # 0
     THEN Unmap(detach_chunk(back, c), c) ELSE back

-----------------------------------------------------------------------------
\* The bucket for a request, 0 when it is too large.
find_bucket(size) ==
  LET fits == {b \in Buckets : block_size[b] >= size + MagicSize}
  IN IF size > MAX_BLOCK_SIZE \/ fits = {} THEN 0
     ELSE CHOOSE b \in fits : \A d \in fits : b <= d

\* malloc, for a block that x describes but for its place.  syscall_vm_alloc
\* may find no room; it does not give out the place of a lost chunk again,
\* where two lists would meet.
Take(x, others) ==
  LET b == find_bucket(x.len)
      c == heap.bucket[b].chunk
      At(d, at) == live' = others \cup {[chunk |-> d, at |-> at, len |-> x.len,
                                         whole |-> x.whole, old |-> FALSE]}
  IN
  /\ b # 0
  /\ \/ /\ c # Null
        /\ heap' = find_block(heap, c)
        /\ At(c, Head(heap.chunk[c].block).at)
     \/ /\ c = Null
        /\ \E new \in Chunks \ (Mapped(heap) \cup heap.lost) :
             heap' = find_block(attach_chunk(heap, b, new), new) /\ At(new, HeadSize)

malloc(size) == Take([len |-> size, whole |-> TRUE], live)

\* The memory is not cleared.
calloc(num, size) == malloc(num * size)

free(x) ==
  /\ heap' = putback_block(heap, x.chunk, x.at)
  /\ live' = live \ {x}

\* realloc keeps the block if the new size suits it.  Otherwise it allocates
\* another and copies what both can hold; free follows.
realloc(x, size) ==
  LET real == block_size[heap.chunk[x.chunk].bucket]
      new  == size + MagicSize
      copy == IF real - MagicSize < size THEN real - MagicSize ELSE size
  IN
  \/ size = 0 /\ free(x)
  \/ /\ size # 0 /\ new <= real /\ new >= real \div 2
     /\ live' = (live \ {x}) \cup {[x EXCEPT !.len = size]}
     /\ UNCHANGED heap
  \/ /\ size # 0 /\ ~(new <= real /\ new >= real \div 2)
     /\ Take([len |-> size, whole |-> copy <= real - MagicSize /\ (copy < size => copy >= x.len)],
             (live \ {x}) \cup {[x EXCEPT !.old = TRUE]})

\* salloc puts a magic of its own in front of the struct, and frees the block
\* when the constructor fails; sfree is free.
salloc(size) == malloc(size + MagicSize)

HeapNext ==
  /\ heap.ok
  /\ \A b \in Buckets : heap.bucket[b].active > -MaxDrift
  /\ \/ /\ Cardinality(live) < MaxLive
        /\ \/ \E n \in Requests : malloc(n) \/ calloc(2, n) \/ salloc(n)
           \/ \E x \in live, n \in Requests \cup {0} : ~x.old /\ realloc(x, n)
     \/ \E x \in live : free(x)

-----------------------------------------------------------------------------
\* Properties.

Places(c) == {HeadSize + i * block_size[heap.chunk[c].bucket] :
                i \in 0 .. (num_blocks_per_chunk(heap.chunk[c].bucket) - 1)}
Run(f, size) == {f.at + i * size : i \in 0 .. (f.span - 1)}
Free(c) == UNION {Run(f, block_size[heap.chunk[c].bucket]) : f \in ToSet(heap.chunk[c].block)}
InUse(c) == {x \in live : x.chunk = c}

\* The list of bucket b, followed along next.
Listed(b) ==
  LET at[n \in 0 .. Cardinality(Chunks)] ==
        IF n = 0 THEN heap.bucket[b].chunk
        ELSE IF at[n - 1] \in Mapped(heap) THEN heap.chunk[at[n - 1]].next ELSE Null
  IN {at[n] : n \in DOMAIN at} \ {Null}

\* putback_chunk, which leaves a pointer out, has cost the lists no chunk.
NothingLost == heap.lost = {}

\* While no chunk is lost: malloc touches only chunks that are mapped; the
\* blocks of a chunk are free or in use, never both, and its counts agree; a
\* block has room for what was asked for and realloc brings along what the
\* caller had in it; a bucket lists exactly its chunks with a free block, and
\* num_allocated_chunks counts its chunks.
HeapExact ==
  NothingLost =>
    /\ heap.ok
    /\ \A c \in Mapped(heap) :
         LET d == heap.chunk[c] IN
         /\ Free(c) \cap {x.at : x \in InUse(c)} = {}
         /\ Free(c) \cup {x.at : x \in InUse(c)} = Places(c)
         /\ d.avail = Cardinality(Free(c)) /\ d.inuse = Cardinality(InUse(c))
    /\ \A x, y \in live : x.chunk = y.chunk /\ x.at = y.at => x = y
    /\ \A x \in live : x.len + MagicSize <= block_size[heap.chunk[x.chunk].bucket] /\ x.whole
    /\ \A b \in Buckets :
         LET mine == {c \in Mapped(heap) : heap.chunk[c].bucket = b} IN
         /\ Listed(b) = {c \in mine : heap.chunk[c].avail > 0}
         /\ heap.bucket[b].allocated = Cardinality(mine)
=============================================================================
