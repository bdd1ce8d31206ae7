-------------------------------- MODULE Ids --------------------------------
(***************************************************************************)
(* The allocator of identifiers (kernel/struct/id.c), a tree of bitmaps in *)
(* which a bit of an upper map says that the map below it has a free bit,  *)
(* as the allocator of address space identifiers uses it                   *)
(* (kernel/proc/asid.c).                                                   *)
(***************************************************************************)
EXTENDS Integers, FiniteSets

CONSTANTS
  Bits,     \* NUM_BITS_PER_MAP
  Ranges    \* numbers of identifiers

VARIABLES
  obj,      \* range, num_levels
  map,      \* map[l, i]: the bits set in the i-th map of level l
  holders,  \* holders[id]: how many processes were given id
  wild      \* an identifier was taken from a tree without a free one

idVars == <<obj, map, holders, wild>>

Base == 1
NumLevels(range) == IF range <= Bits THEN 1 ELSE IF range <= Bits * Bits THEN 2 ELSE 3
Lowest(S) == CHOOSE x \in S : \A y \in S : x <= y

\* id_alloc_create: at each level, the bits with an identifier below them.
CreateMap(range, levels) ==
  [m \in {<<l, i>> : l \in 1..levels, i \in 0..(Bits^(levels - 1) - 1)} |->
     {p \in 0..(Bits - 1) : (m[2] * Bits + p) * Bits^(levels - m[1]) < range}]

IdsInit ==
  /\ \E range \in Ranges :
       /\ obj = [range |-> range, levels |-> NumLevels(range)]
       /\ map = CreateMap(range, NumLevels(range))
       /\ holders = [id \in Base..(Base + range - 1) |-> 0]
  /\ wild = FALSE

\* Down the tree along the lowest bits.
RECURSIVE Descend(_, _)
Descend(l, i) ==
  LET j == i * Bits + Lowest(map[l, i]) IN
  IF l = obj.levels THEN j ELSE Descend(l + 1, j)

\* Mutant: only the bit of the identifier and the one above it are cleared.
ClearOne(m, l, j) ==
  LET k == <<l, j \div Bits>>
      n == [m EXCEPT ![k] = @ \ {j % Bits}]
  IN IF l = 1 \/ n[k] # {} THEN n
     ELSE [n EXCEPT ![<<l - 1, (j \div Bits) \div Bits>>] = @ \ {(j \div Bits) % Bits}]

\* Up the tree as long as a map becomes empty.
RECURSIVE Clear(_, _, _)
Clear(m, l, j) ==
  LET k == <<l, j \div Bits>>
      n == [m EXCEPT ![k] = @ \ {j % Bits}]
  IN IF l = 1 \/ n[k] # {} THEN n ELSE Clear(n, l - 1, j \div Bits)

\* id_alloc, for alloc_asid.  alloc_count is never incremented and so does not
\* stop it once all identifiers are taken: ctz of an empty map leads outside.
id_alloc ==
  IF map[1, 0] = {}
  THEN wild' = TRUE /\ UNCHANGED <<obj, map, holders>>
  ELSE LET j == Descend(1, 0) IN
       /\ map' = Clear(map, obj.levels, j)
       /\ holders' = [holders EXCEPT ![Base + j] = @ + 1]
       /\ UNCHANGED <<obj, wild>>

\* id_free, for free_asid: the bits on the way up are set.
id_free ==
  \E id \in DOMAIN holders :
    LET j == id - Base
        up(l) == j \div Bits^(obj.levels - l)
    IN /\ holders[id] > 0
       /\ map' = [m \in DOMAIN map |->
                    IF m[2] = up(m[1]) \div Bits THEN map[m] \cup {up(m[1]) % Bits}
                    ELSE map[m]]
       /\ holders' = [holders EXCEPT ![id] = @ - 1]
       /\ UNCHANGED <<obj, wild>>

IdsNext == ~wild /\ (id_alloc \/ id_free)

-----------------------------------------------------------------------------

\* No two processes hold the same identifier, whatever was freed in between; a
\* bit is set exactly where the map below it has one, so that no free one is
\* out of reach; the allocator leaves the tree only when all are taken.
IdsExact ==
  /\ \A id \in DOMAIN holders :
       LET j == id - Base IN
       holders[id] = IF j % Bits \in map[obj.levels, j \div Bits] THEN 0 ELSE 1
  /\ \A m \in DOMAIN map : m[1] < obj.levels =>
       \A p \in 0..(Bits - 1) :
         p \in map[m] <=> /\ <<m[1] + 1, m[2] * Bits + p>> \in DOMAIN map
                          /\ map[m[1] + 1, m[2] * Bits + p] # {}
  /\ wild => \A id \in DOMAIN holders : holders[id] = 1
=============================================================================
