--------------------------- MODULE IndexArithmetic ---------------------------
(***************************************************************************)
(* Quotients, remainders and row-major indices: what the proofs about      *)
(* flat arrays need of arithmetic; and sequences laid end to end.          *)
(***************************************************************************)
EXTENDS Integers, Sequences, WellFoundedInduction, TLAPS

(* Division with remainder.                                                *)
LEMMA DivMod ==
  ASSUME NEW x \in Nat, NEW d \in Nat \ {0}
  PROVE  /\ x \div d \in Nat /\ x % d \in 0..(d - 1)
         /\ x = (x \div d) * d + (x % d)
OBVIOUS

LEMMA MulMonotone ==
  ASSUME NEW x \in Nat, NEW y \in Nat, NEW d \in Nat, x <= y
  PROVE  x * d \in Nat /\ y * d \in Nat /\ x * d <= y * d
OBVIOUS

LEMMA MulNext ==
  ASSUME NEW x \in Nat, NEW d \in Nat
  PROVE  x * d \in Nat /\ (x + 1) * d = x * d + d
OBVIOUS

LEMMA MulAssociates ==
  ASSUME NEW x \in Nat, NEW y \in Nat, NEW z \in Nat
  PROVE  x * (y * z) = (x * y) * z
OBVIOUS

(* Quotient and remainder are unique.                                      *)
LEMMA DivModUnique ==
  ASSUME NEW q \in Nat, NEW d \in Nat \ {0}, NEW r \in 0..(d - 1)
  PROVE  q * d + r \in Nat /\ (q * d + r) \div d = q /\ (q * d + r) % d = r
<1> DEFINE x == q * d + r
<1>1. q * d \in Nat /\ x \in Nat
  BY MulNext
<1> HIDE DEF x
<1> DEFINE p == x \div d
           s == x % d
<1>2. p \in Nat /\ s \in 0..(d - 1) /\ x = p * d + s
  BY <1>1, DivMod
<1> HIDE DEF p, s
<1>3. x = q * d + r
  BY DEF x
<1>4. ~(p < q)
  <2> SUFFICES ASSUME p + 1 <= q PROVE FALSE
    BY <1>2
  <2>1. (p + 1) * d <= q * d /\ (p + 1) * d = p * d + d /\ p * d \in Nat
    BY <1>2, MulMonotone, MulNext
  <2> QED BY <1>1, <1>2, <1>3, <2>1
<1>5. ~(q < p)
  <2> SUFFICES ASSUME q + 1 <= p PROVE FALSE
    BY <1>2
  <2>1. (q + 1) * d <= p * d /\ (q + 1) * d = q * d + d /\ p * d \in Nat
    BY <1>2, MulMonotone, MulNext
  <2> QED BY <1>1, <1>2, <1>3, <2>1
<1>6. p = q
  BY <1>2, <1>4, <1>5
<1>7. s = r
  BY <1>1, <1>2, <1>3, <1>6
<1> QED BY <1>1, <1>3, <1>6, <1>7 DEF p, s

(* Where a row-major array of h rows of w has its elements.                *)
LEMMA RowMajor ==
  ASSUME NEW h \in Nat, NEW w \in Nat \ {0},
         NEW row \in 0..(h - 1), NEW col \in 0..(w - 1)
  PROVE  /\ row * w + col \in 0..(h * w - 1)
         /\ (row * w + col) \div w = row /\ (row * w + col) % w = col
<1>1. row \in Nat /\ row + 1 <= h /\ col \in Nat
  OBVIOUS
<1>2. (row + 1) * w <= h * w /\ (row + 1) * w = row * w + w
  BY <1>1, MulMonotone, MulNext
<1>3. row * w \in Nat /\ h * w \in Nat
  BY <1>1, MulNext
<1> QED BY <1>1, <1>2, <1>3, DivModUnique

(* And each of its indices is one of those.                                *)
LEMMA RowMajorAll ==
  ASSUME NEW h \in Nat, NEW w \in Nat \ {0}, NEW i \in 0..(h * w - 1)
  PROVE  /\ i \div w \in 0..(h - 1) /\ i % w \in 0..(w - 1)
         /\ i = (i \div w) * w + (i % w)
<1> DEFINE q == i \div w
           r == i % w
<1>1. h * w \in Nat
  BY MulNext
<1>2. i \in Nat /\ i < h * w
  BY <1>1
<1>3. q \in Nat /\ r \in 0..(w - 1) /\ i = q * w + r
  BY <1>2, DivMod
<1> HIDE DEF q, r
<1>4. ~(h <= q)
  <2> SUFFICES ASSUME h <= q PROVE FALSE
    OBVIOUS
  <2>1. h * w <= q * w /\ q * w \in Nat
    BY <1>3, MulMonotone
  <2> QED BY <1>1, <1>2, <1>3, <2>1
<1>5. q \in 0..(h - 1)
  BY <1>3, <1>4
<1> QED BY <1>3, <1>5 DEF q, r

(* Dividing twice is dividing by the product.                              *)
LEMMA DivDiv ==
  ASSUME NEW i \in Nat, NEW a \in Nat \ {0}, NEW b \in Nat \ {0}
  PROVE  i \div (b * a) = (i \div a) \div b
<1> DEFINE q == i \div a
           r == i % a
           s == q \div b
           t == q % b
           d == b * a
           rest == t * a + r
<1>1. q \in Nat /\ r \in 0..(a - 1) /\ i = q * a + r
  BY DivMod
<1> HIDE DEF q, r
<1>2. s \in Nat /\ t \in 0..(b - 1) /\ q = s * b + t
  BY <1>1, DivMod
<1> HIDE DEF s, t
<1>3. d \in Nat \ {0}
  OBVIOUS
<1>4. rest \in 0..(d - 1)
  BY <1>1, <1>2, RowMajor
<1>5. i = s * d + rest
  <2>1. (s * b + t) * a = s * (b * a) + t * a
    BY <1>2
  <2> QED BY <1>1, <1>2, <2>1
<1> HIDE DEF d, rest
<1>6. (s * d + rest) \div d = s
  BY <1>2, <1>3, <1>4, DivModUnique
<1>7. i \div d = s
  BY <1>5, <1>6
<1> QED BY <1>7 DEF d, s, q

(* Division of any integer.                                                *)
LEMMA DivModInt ==
  ASSUME NEW x \in Int, NEW d \in Nat \ {0}
  PROVE  /\ x \div d \in Int /\ x % d \in 0..(d - 1)
         /\ x = (x \div d) * d + (x % d)
OBVIOUS

(* Rounding down.                                                          *)
LEMMA RoundedDown ==
  ASSUME NEW x \in Nat, NEW d \in Nat \ {0}
  PROVE  /\ x \div d \in Nat
         /\ (x \div d) * d <= x
         /\ x < (x \div d + 1) * d
<1> DEFINE q == x \div d
           r == x % d
<1>1. q \in Nat /\ r \in 0..(d - 1) /\ x = q * d + r
  BY DivMod
<1> HIDE DEF q, r
<1>2. q * d \in Nat /\ (q + 1) * d = q * d + d
  BY <1>1, MulNext
<1> QED BY <1>1, <1>2 DEF q

(* A factor cancels.                                                       *)
LEMMA Cancel ==
  ASSUME NEW x \in Int, NEW y \in Int, NEW d \in Nat \ {0}, x * d < y * d
  PROVE  x < y
<1> SUFFICES ASSUME y <= x PROVE FALSE
  OBVIOUS
<1>1. x - y \in Nat
  OBVIOUS
<1>2. 0 * d <= (x - y) * d
  BY <1>1, MulMonotone
<1>3. (x - y) * d = x * d - y * d /\ x * d \in Int /\ y * d \in Int
  OBVIOUS
<1> QED BY <1>2, <1>3

-----------------------------------------------------------------------------
(* Indices of arrays of three and of four dimensions.                      *)

Flat(b, x, y) == x * b + y
Flat3(b, c, x, y, z) == Flat(c, Flat(b, x, y), z)
Flat4(b, c, d, x, y, z, t) == Flat(d, Flat3(b, c, x, y, z), t)

LEMMA FlatParts ==
  ASSUME NEW b \in Nat \ {0}, NEW x \in Nat, NEW y \in 0..(b - 1)
  PROVE  /\ Flat(b, x, y) \in Nat
         /\ Flat(b, x, y) % b = y /\ Flat(b, x, y) \div b = x
BY DivModUnique DEF Flat

LEMMA Flat3Parts ==
  ASSUME NEW b \in Nat \ {0}, NEW c \in Nat \ {0},
         NEW x \in Nat, NEW y \in 0..(b - 1), NEW z \in 0..(c - 1)
  PROVE  /\ Flat3(b, c, x, y, z) \in Nat
         /\ Flat3(b, c, x, y, z) % c = z
         /\ (Flat3(b, c, x, y, z) \div c) % b = y
         /\ (Flat3(b, c, x, y, z) \div c) \div b = x
<1>1. /\ Flat(b, x, y) \in Nat
      /\ Flat(b, x, y) % b = y /\ Flat(b, x, y) \div b = x
  BY FlatParts
<1>2. /\ Flat(c, Flat(b, x, y), z) \in Nat
      /\ Flat(c, Flat(b, x, y), z) % c = z
      /\ Flat(c, Flat(b, x, y), z) \div c = Flat(b, x, y)
  BY <1>1, FlatParts
<1> QED BY <1>1, <1>2 DEF Flat3

LEMMA Flat4Parts ==
  ASSUME NEW b \in Nat \ {0}, NEW c \in Nat \ {0}, NEW d \in Nat \ {0},
         NEW x \in Nat, NEW y \in 0..(b - 1), NEW z \in 0..(c - 1), NEW t \in 0..(d - 1)
  PROVE  /\ Flat4(b, c, d, x, y, z, t) \in Nat
         /\ Flat4(b, c, d, x, y, z, t) % d = t
         /\ (Flat4(b, c, d, x, y, z, t) \div d) % c = z
         /\ ((Flat4(b, c, d, x, y, z, t) \div d) \div c) % b = y
         /\ ((Flat4(b, c, d, x, y, z, t) \div d) \div c) \div b = x
<1> DEFINE p == Flat3(b, c, x, y, z)
<1>1. /\ p \in Nat /\ p % c = z
      /\ (p \div c) % b = y /\ (p \div c) \div b = x
  BY Flat3Parts
<1>2. Flat4(b, c, d, x, y, z, t) = Flat(d, p, t)
  BY DEF Flat4
<1> HIDE DEF p
<1>3. Flat(d, p, t) \in Nat /\ Flat(d, p, t) % d = t /\ Flat(d, p, t) \div d = p
  BY <1>1, FlatParts
<1> QED BY <1>1, <1>2, <1>3

(* Inside an array of so many rows.                                        *)
LEMMA FlatInside ==
  ASSUME NEW a \in Nat, NEW b \in Nat \ {0}, NEW x \in 0..(a - 1), NEW y \in 0..(b - 1)
  PROVE  Flat(b, x, y) \in 0..(a * b - 1)
BY RowMajor DEF Flat

LEMMA Flat3Inside ==
  ASSUME NEW a \in Nat, NEW b \in Nat \ {0}, NEW c \in Nat \ {0},
         NEW x \in 0..(a - 1), NEW y \in 0..(b - 1), NEW z \in 0..(c - 1)
  PROVE  Flat3(b, c, x, y, z) \in 0..((a * b) * c - 1)
<1>1. Flat(b, x, y) \in 0..(a * b - 1)
  BY FlatInside
<1>2. a * b \in Nat
  OBVIOUS
<1>3. Flat(c, Flat(b, x, y), z) \in 0..((a * b) * c - 1)
  BY <1>1, <1>2, FlatInside
<1> QED BY <1>3, Zenon DEF Flat3

LEMMA Flat4Inside ==
  ASSUME NEW a \in Nat, NEW b \in Nat \ {0}, NEW c \in Nat \ {0}, NEW d \in Nat \ {0},
         NEW x \in 0..(a - 1), NEW y \in 0..(b - 1), NEW z \in 0..(c - 1), NEW t \in 0..(d - 1)
  PROVE  Flat4(b, c, d, x, y, z, t) \in 0..(((a * b) * c) * d - 1)
<1>1. Flat3(b, c, x, y, z) \in 0..((a * b) * c - 1)
  BY Flat3Inside
<1>2. (a * b) * c \in Nat
  OBVIOUS
<1>3. Flat(d, Flat3(b, c, x, y, z), t) \in 0..(((a * b) * c) * d - 1)
  BY <1>1, <1>2, FlatInside
<1> QED BY <1>3, Zenon DEF Flat4

(* A set of numbers that is not empty has a least one; induction follows,  *)
(* stated of a set since a lemma cannot be about every predicate.          *)
LEMMA LeastNumber ==
  ASSUME NEW T \in SUBSET Nat, T # {}
  PROVE  \E x \in T : \A y \in T : x <= y
<1>1. PICK x \in T : \A y \in T : ~(<<y, x>> \in OpToRel(<, Nat))
  BY NatLessThanWellFounded, WFMin
<1>2. \A y \in T : ~(y < x)
  BY <1>1 DEF OpToRel
<1> QED BY <1>2

LEMMA CountingUp ==
  ASSUME NEW T \in SUBSET Nat, 0 \in T, \A n \in T : n + 1 \in T
  PROVE  T = Nat
<1> SUFFICES ASSUME Nat \ T # {} PROVE FALSE
  OBVIOUS
<1>1. PICK x \in Nat \ T : \A y \in Nat \ T : x <= y
  <2> DEFINE U == Nat \ T
  <2>1. U \in SUBSET Nat /\ U # {}
    OBVIOUS
  <2> HIDE DEF U
  <2>2. \E x \in U : \A y \in U : x <= y
    BY <2>1, LeastNumber
  <2> QED BY <2>2 DEF U
<1>2. x - 1 \in Nat /\ x # 0
  OBVIOUS
<1>3. x - 1 \in T
  BY <1>1, <1>2
<1> QED BY <1>2, <1>3

(* Sequences laid end to end, as the functions of FlattenSeq have it: that *)
(* there is one, so that it unfolds by one more sequence.                  *)
Flattened(q, f) == f = [i \in 1..Len(q) |-> IF i = 1 THEN q[i] ELSE f[i - 1] \o q[i]]

LEMMA FlattenExists ==
  ASSUME NEW q, Len(q) \in Nat
  PROVE  \E f : Flattened(q, f)
<1> DEFINE Good(f, n) == f = [i \in 1..n |-> IF i = 1 THEN q[i] ELSE f[i - 1] \o q[i]]
           T == {n \in Nat : \E f : Good(f, n)}
<1>1. 0 \in T
  <2>1. Good([i \in 1..0 |-> q[i]], 0)
    OBVIOUS
  <2> QED BY <2>1
<1>2. ASSUME NEW n \in T PROVE n + 1 \in T
  <2>1. PICK f : Good(f, n)
    OBVIOUS
  <2> DEFINE g == [i \in 1..(n + 1) |->
                     IF i <= n THEN f[i] ELSE IF i = 1 THEN q[i] ELSE f[i - 1] \o q[i]]
  <2>2. ASSUME NEW i \in 1..(n + 1)
        PROVE  g[i] = IF i = 1 THEN q[i] ELSE g[i - 1] \o q[i]
    <3>1. n \in Nat
      OBVIOUS
    <3>2. i # 1 => i - 1 \in 1..n /\ g[i - 1] = f[i - 1]
      BY <3>1
    <3>3. i <= n => i \in 1..n /\ f[i] = IF i = 1 THEN q[i] ELSE f[i - 1] \o q[i]
      <4> SUFFICES ASSUME i <= n
                   PROVE  i \in 1..n /\ f[i] = IF i = 1 THEN q[i] ELSE f[i - 1] \o q[i]
        OBVIOUS
      <4>1. i \in 1..n
        BY <3>1
      <4>2. f = [j \in 1..n |-> IF j = 1 THEN q[j] ELSE f[j - 1] \o q[j]]
        BY <2>1
      <4> QED BY <4>1, <4>2
    <3> QED BY <3>1, <3>2, <3>3
  <2>3. Good(g, n + 1)
    <3> DEFINE h == [i \in 1..(n + 1) |-> IF i = 1 THEN q[i] ELSE g[i - 1] \o q[i]]
    <3>1. g = h
      <4> HIDE DEF g
      <4>1. g = [i \in 1..(n + 1) |-> g[i]]
        BY DEF g
      <4> QED BY <2>2, <4>1
    <3> QED BY <3>1
  <2> HIDE DEF Good, g
  <2> QED BY <2>3
<1>3. T = Nat
  <2>1. T \in SUBSET Nat
    OBVIOUS
  <2> HIDE DEF T
  <2> QED BY <1>1, <1>2, <2>1, CountingUp
<1>4. Len(q) \in T
  BY <1>3
<1> QED BY <1>4 DEF Flattened

-----------------------------------------------------------------------------
HasValues(S, first, N, Round) ==
  \E g \in [0 .. N -> S] :
    \A c \in 0 .. N : g[c] = IF c = 0 THEN first ELSE Round[c][g[c - 1]]

(* A loop of N rounds, each of which makes of a value what Round says, has *)
(* a value after each round.                                               *)
LEMMA LoopHasValues ==
  ASSUME NEW S, NEW first \in S, NEW N \in Nat, NEW Round,
         \A c \in 1 .. N : \A x \in S : Round[c][x] \in S
  PROVE  HasValues(S, first, N, Round)
<1> DEFINE Good(g, m) == /\ g \in [0 .. m -> S]
                         /\ \A c \in 0 .. m :
                              g[c] = IF c = 0 THEN first ELSE Round[c][g[c - 1]]
           T == {m \in Nat : m <= N => \E g : Good(g, m)}
<1>1. 0 \in T
  <2>1. Good([c \in 0 .. 0 |-> first], 0)
    OBVIOUS
  <2> QED BY <2>1
<1>2. ASSUME NEW m \in T PROVE m + 1 \in T
  <2> HIDE DEF Good
  <2>0. m \in Nat /\ (m <= N => \E g : Good(g, m))
    OBVIOUS
  <2> SUFFICES ASSUME m + 1 <= N PROVE \E g : Good(g, m + 1)
    BY <2>0
  <2> USE DEF Good
  <2>1. PICK f : Good(f, m)
    <3>1. m \in Nat /\ m <= N
      BY <2>0
    <3> QED BY <2>0, <3>1
  <2> DEFINE g == [c \in 0 .. m + 1 |-> IF c = m + 1 THEN Round[c][f[m]] ELSE f[c]]
  <2>2. m \in Nat /\ f \in [0 .. m -> S] /\ f[m] \in S /\ m + 1 \in 1 .. N
    BY <2>1
  <2>3. Round[m + 1][f[m]] \in S
    BY <2>2
  <2>4. g \in [0 .. m + 1 -> S]
    BY <2>2, <2>3
  <2>5. ASSUME NEW c \in 0 .. m + 1
        PROVE  g[c] = IF c = 0 THEN first ELSE Round[c][g[c - 1]]
    <3>1. CASE c = m + 1
      BY <2>2, <3>1
    <3>2. CASE c # m + 1
      <4>1. c \in 0 .. m /\ (c # 0 => c - 1 \in 0 .. m /\ c - 1 # m + 1)
        BY <2>2, <3>2
      <4> QED BY <2>1, <4>1, <3>2
    <3> QED BY <3>1, <3>2
  <2> QED BY <2>4, <2>5
<1>3. T = Nat
  <2>1. T \in SUBSET Nat
    OBVIOUS
  <2> HIDE DEF T
  <2> QED BY <1>1, <1>2, <2>1, CountingUp
<1>4. N \in T
  BY <1>3
<1> QED BY <1>4 DEF HasValues

(* What each round keeps holds after the last.                             *)
LEMMA LoopKeeps ==
  ASSUME NEW S, NEW N \in Nat, NEW h, h[0] \in S,
         \A c \in 1 .. N : h[c - 1] \in S => h[c] \in S
  PROVE  h[N] \in S
<1> DEFINE T == {m \in Nat : m <= N => h[m] \in S}
<1>1. 0 \in T
  OBVIOUS
<1>2. ASSUME NEW m \in T PROVE m + 1 \in T
  <2> SUFFICES ASSUME m + 1 <= N PROVE h[m + 1] \in S
    OBVIOUS
  <2>1. m + 1 \in 1 .. N /\ (m + 1) - 1 = m
    OBVIOUS
  <2>2. h[(m + 1) - 1] \in S => h[m + 1] \in S
    BY <2>1
  <2> QED BY <2>1, <2>2
<1>3. T = Nat
  <2>1. T \in SUBSET Nat
    OBVIOUS
  <2> HIDE DEF T
  <2> QED BY <1>1, <1>2, <2>1, CountingUp
<1> QED BY <1>3
==============================================================================
