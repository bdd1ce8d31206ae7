------------------------------- MODULE Arith --------------------------------
(***************************************************************************)
(* The integer routines of libk (lib/math.c, lib/bit.c, include/align.h)   *)
(* that stand in for the compiler's on machines without a divider, checked *)
(* against arithmetic.  An int has H bits and a long has W, in place of 32 *)
(* and 64.  The 64-bit routines shift the int 0x1u by up to 63, which C    *)
(* leaves undefined: the shift instruction drops the upper bits of the     *)
(* count on some machines and yields 0 on others.  The routines for long   *)
(* and ulong are those of the machine's width, the parameter w.            *)
(***************************************************************************)
EXTENDS Integers, Sequences, FiniteSets, SequencesExt

CONSTANTS H, W

VARIABLES
  a, b,       \* the operands
  wraps       \* does the machine drop the upper bits of a shift count?

arithVars == <<a, b, wraps>>

Bit(v, i) == (v \div 2^i) % 2 = 1
Low(w, v) == v % 2^w

\* ~v + 1, and v as a signed number.
Negate(w, v) == Low(w, 2^w - v)
Signed(w, v) == IF Bit(v, w - 1) THEN v - 2^w ELSE v

\* 0x1u << i.
One(i) == IF i < H THEN 2^i ELSE IF wraps THEN 2^(i % H) ELSE 0
Common(v, m) == {i \in 0..(W - 1) : Bit(v, i) /\ Bit(m, i)} # {}

\* mul_u32 and mul_u64: a shifted copy of x for every bit of y.
mul_u(w, x, y) ==
  FoldSet(LAMBDA i, um : IF Common(y, One(i)) THEN Low(w, um + Low(w, x * 2^i)) ELSE um,
          0, 0..(w - 1))

\* mul_s32 and mul_s64.
mul_s(w, x, y) ==
  LET ux == IF Bit(x, w - 1) THEN Negate(w, x) ELSE x
      uy == IF Bit(y, w - 1) THEN Negate(w, y) ELSE y
      um == mul_u(w, ux, uy)
  IN IF Bit(x, w - 1) # Bit(y, w - 1) THEN Negate(w, um) ELSE um

\* Mutant: the top bit is not looked at.
clz_short(w, v) == Cardinality({i \in 0..(w - 2) : \A j \in i..(w - 2) : ~Bit(v, j)})

\* clz32 and clz64.
clz(w, v) == Cardinality({i \in 0..(w - 1) : \A j \in i..(w - 1) : ~Bit(v, j)})

\* ctz32 and ctz64, popcount32 and popcount64.
ctz(w, v) == Cardinality({i \in 0..(w - 1) : \A j \in 0..i : ~Bit(v, j)})
popcount(w, v) == Cardinality({i \in 0..(w - 1) : Bit(v, i)})

\* q |= m.
Or(q, m) == FoldSet(LAMBDA i, s : s + (IF Bit(q, i) \/ Bit(m, i) THEN 2^i ELSE 0), 0, 0..(W - 1))

\* div_u32 and div_u64: long division from the highest shift that fits.
div_u(w, x, y) ==
  LET n == clz(w, y)
      step[k \in 0..(n + 1)] ==
        IF k = 0 THEN [q |-> 0, r |-> x]
        ELSE LET i == n + 1 - k
                 t == Low(w, y * 2^i)
                 p == step[k - 1]
             IN IF t <= p.r THEN [q |-> Or(p.q, One(i)), r |-> p.r - t] ELSE p
  IN step[n + 1]

\* div_s32, and div_s64 which cuts its operands to an int first.  Rounds
\* towards minus infinity, but a negative multiple keeps the wrong sign.
div_s(x, y) ==
  LET nx == Bit(x, H - 1)
      ny == Bit(y, H - 1)
      uy == IF ny THEN Negate(H, y) ELSE y
      u == div_u(H, IF nx THEN Negate(H, x) ELSE x, uy)
  IN CASE nx /\ ny -> [u EXCEPT !.r = Negate(H, @)]
       [] ~nx /\ ny -> [u EXCEPT !.q = Negate(H, @)]
       [] nx /\ ~ny /\ u.r # 0 -> [q |-> Negate(H, Low(H, u.q + 1)), r |-> Low(H, Negate(H, u.r) + uy)]
       [] OTHER -> u

\* quo_u32, quo_u64, rem_u32, rem_u64 and their signed versions.
quo(w, x, y) == div_u(w, x, y).q
rem(w, x, y) == div_u(w, x, y).r
quo_s(x, y) == div_s(x, y).q
rem_s(x, y) == div_s(x, y).r

\* align_up_ulong_any and align_down_ulong_any.
align_up_any(x, y) ==
  LET d == div_u(W, x, y) IN IF d.r # 0 THEN mul_u(W, Low(W, d.q + 1), y) ELSE x
align_down_any(x, y) ==
  LET d == div_u(W, x, y) IN IF d.r # 0 THEN mul_u(W, d.q, y) ELSE x

\* align_to_power2_next32 and align_to_power2_next64; a shift by the full
\* width of a long is the machine's.
align_to_power2_next(w, v) ==
  LET pos == w - clz(w, v)
      prev == 2^(pos - 1)
  IN IF v = 0 THEN 0
     ELSE IF prev = v THEN v
     ELSE IF w = W /\ pos = W THEN (IF wraps THEN 1 ELSE 0) ELSE Low(w, 2^pos)

\* swap_endian16, swap_endian32 and swap_endian64 with n bytes, which have one
\* bit here: the lowest byte becomes the highest.
Byte(v, i) == (v \div 2^i) % 2
swap_endian(n, v) == FoldSet(LAMBDA i, s : s + Byte(v, i) * 2^(n - 1 - i), 0, 0..(n - 1))

\* swap_big_endian and swap_little_endian are for a machine of order m.
swap_big_endian(m, n, v) == IF m = "big" THEN v ELSE swap_endian(n, v)
swap_little_endian(m, n, v) == IF m = "little" THEN v ELSE swap_endian(n, v)

\* All operands, on both kinds of machine.
ArithInit ==
  /\ a \in 0..(2^W - 1) /\ b \in 0..(2^W - 1) /\ wraps \in BOOLEAN

ArithNext == UNCHANGED arithVars

-----------------------------------------------------------------------------

\* n bytes in memory, from the lowest address, as a machine of order m loads
\* them.
Load(m, n, bytes) ==
  FoldSet(LAMBDA i, s : s + bytes[i] * 2^(IF m = "big" THEN n - 1 - i ELSE i), 0, 0..(n - 1))

SwapsExact(n, bytes) ==
  \A m \in {"big", "little"} :
    /\ swap_big_endian(m, n, Load(m, n, bytes)) = Load("big", n, bytes)
    /\ swap_little_endian(m, n, Load(m, n, bytes)) = Load("little", n, bytes)

SameSign(x, y) == Bit(x, H - 1) = Bit(y, H - 1)

\* What callers of libk may count on, on every machine: int products and
\* quotients are exact; the remainder of a long division is exact and so is
\* a quotient that fits an int (as in printing digit by digit); the low int
\* of a long product, and of an address aligned to any multiple, is exact;
\* a signed quotient is the floor while the signs agree or the dividend is
\* negative and no multiple; bit counts agree with the operand's binary form;
\* a number written on a machine of either byte order is read on the other.
ArithExact ==
  LET c == Low(H, a)
      d == Low(H, b)
      fits == b # 0 /\ a \div b < 2^H - 1
  IN
  /\ mul_u(H, c, d) = Low(H, c * d)
  /\ mul_s(H, c, d) = Low(H, c * d)
  /\ Low(H, mul_u(W, a, b)) = Low(H, a * b)
  /\ Low(H, mul_s(W, a, b)) = Low(H, a * b)
  /\ d # 0 => quo(H, c, d) = c \div d /\ rem(H, c, d) = c % d
  /\ b # 0 => rem(W, a, b) = a % b
  /\ fits => quo(W, a, b) = a \div b
  /\ (d # 0 /\ SameSign(c, d)) =>
       Low(H, quo_s(c, d) * d + rem_s(c, d)) = c
  /\ (d # 0 /\ ~Bit(d, H - 1) /\ Signed(H, c) % d # 0) =>
       quo_s(c, d) = Low(H, Signed(H, c) \div d) /\ rem_s(c, d) = Signed(H, c) % d
  /\ fits => /\ Low(H, align_up_any(a, b)) = Low(H, ((a + b - 1) \div b) * b)
             /\ Low(H, align_down_any(a, b)) = Low(H, (a \div b) * b)
  /\ a # 0 => /\ 2^(W - 1 - clz(W, a)) <= a /\ a < 2^(W - clz(W, a))
              /\ a % 2^ctz(W, a) = 0 /\ Bit(a, ctz(W, a))
              /\ (popcount(W, a) = 1) = (a = 2^ctz(W, a))
  /\ (c # 0 /\ c <= 2^(H - 1)) =>
       LET p == align_to_power2_next(H, c) IN popcount(H, p) = 1 /\ c <= p /\ p < 2 * c
  /\ \A n \in {2, 4, 8} : SwapsExact(n, [i \in 0..(n - 1) |-> Byte(a + 2^W * b, i)])
=============================================================================
