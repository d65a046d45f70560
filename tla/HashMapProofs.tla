---------------------------- MODULE HashMapProofs ----------------------------
(***************************************************************************)
(* What the hash maps of src/lib/stb_ds.h guarantee for any keys, hash     *)
(* function, seeds and sizes of the index.                                 *)
(***************************************************************************)
EXTENDS HashMap, FunctionTheorems, FiniteSetTheorems, SequenceTheorems, WellFoundedInduction, TLAPS

-----------------------------------------------------------------------------
(* Induction, and definition by recursion, for what can be said of sets    *)
(* and functions.                                                          *)

Less == {p \in Nat \X Nat : p[1] < p[2]}

LEMMA Induct ==
  ASSUME NEW S, 0 \in S, \A n \in Nat : n \in S => n + 1 \in S
  PROVE  Nat \subseteq S
<1> DEFINE T == Nat \ S
<1>1. IsWellFoundedOn(Less, Nat)
  <2>1. Less = OpToRel(<, Nat)
    BY DEF Less, OpToRel
  <2> QED BY <2>1, NatLessThanWellFounded
<1>2. CASE T # {}
  <2>1. PICK x \in T : \A y \in T : ~(<<y, x>> \in Less)
    <3>1. T \subseteq Nat
      OBVIOUS
    <3> HIDE DEF T
    <3> QED BY ONLY <1>1, <1>2, <3>1, WFMin
  <2>2. x - 1 \in Nat /\ x - 1 \in T /\ <<x - 1, x>> \in Less
    BY DEF Less
  <2> QED BY <2>1, <2>2
<1> QED BY <1>2

IsStep(step, V) == step \in [Nat \X V -> V]

Follows(f, n, b, step) == f[0] = b /\ \A i \in 0 .. n - 1 : f[i + 1] = step[<<i, f[i]>>]

IsRecursive(f, V, b, step) ==
  f \in [Nat -> V] /\ f[0] = b /\ \A n \in Nat : f[n + 1] = step[<<n, f[n]>>]

\* What is defined by recursion exists.
LEMMA Recursion ==
  ASSUME NEW V, NEW b, b \in V, NEW step, IsStep(step, V)
  PROVE  \E f : IsRecursive(f, V, b, step)
<1>0. step \in [Nat \X V -> V]
  BY DEF IsStep
<1> DEFINE Upto(n) == {f \in [0 .. n -> V] : Follows(f, n, b, step)}
<1>1. \A n \in Nat : Upto(n) # {}
  <2> DEFINE S == {n \in Nat : Upto(n) # {}}
  <2>1. 0 \in S
    <3>1. [i \in 0 .. 0 |-> b] \in Upto(0)
      BY DEF Follows
    <3> QED BY <3>1
  <2>2. ASSUME NEW n \in Nat, n \in S PROVE n + 1 \in S
    <3>1. PICK f \in [0 .. n -> V] : Follows(f, n, b, step)
      BY <2>2
    <3> DEFINE g == [i \in 0 .. n + 1 |-> IF i <= n THEN f[i] ELSE step[<<n, f[n]>>]]
    <3>2. g \in [0 .. n + 1 -> V]
      <4>1. f[n] \in V /\ step[<<n, f[n]>>] \in V
        BY <1>0
      <4> QED BY <4>1
    <3>3. Follows(g, n + 1, b, step)
      <4>1. g[0] = b
        BY <3>1 DEF Follows
      <4>2. ASSUME NEW i \in 0 .. n + 1 - 1 PROVE g[i + 1] = step[<<i, g[i]>>]
        <5>1. CASE i = n
          <6>1. g[n + 1] = step[<<n, f[n]>>] /\ g[n] = f[n]
            BY <3>2
          <6> QED BY <5>1, <6>1
        <5>2. CASE i # n
          <6>1. i \in 0 .. n - 1 /\ i + 1 <= n /\ i <= n /\ i + 1 \in 0 .. n + 1 /\ i \in 0 .. n + 1
            BY <5>2
          <6>2. g[i + 1] = f[i + 1] /\ g[i] = f[i]
            BY <6>1
          <6> QED BY <3>1, <6>1, <6>2 DEF Follows
        <5> QED BY <5>1, <5>2
      <4> HIDE DEF g
      <4> QED BY <4>1, <4>2 DEF Follows
    <3>4. g \in Upto(n + 1)
      BY <3>2, <3>3
    <3> QED BY <3>4
  <2>3. Nat \subseteq S
    <3> HIDE DEF S
    <3> QED BY ONLY <2>1, <2>2, Induct
  <2> QED BY <2>3
<1>2. ASSUME NEW m \in Nat, NEW n \in Nat, NEW f \in Upto(m), NEW g \in Upto(n)
      PROVE  \A i \in Nat : i <= m /\ i <= n => f[i] = g[i]
  <2> DEFINE S == {i \in Nat : i <= m /\ i <= n => f[i] = g[i]}
  <2>1. 0 \in S
    BY DEF Follows
  <2>2. ASSUME NEW i \in Nat, i \in S PROVE i + 1 \in S
    <3>1. CASE i + 1 <= m /\ i + 1 <= n
      <4>1. i \in 0 .. m - 1 /\ i \in 0 .. n - 1 /\ f[i] = g[i]
        BY <2>2, <3>1
      <4>2. f[i + 1] = step[<<i, f[i]>>] /\ g[i + 1] = step[<<i, g[i]>>]
        BY <4>1 DEF Follows
      <4> QED BY <4>1, <4>2
    <3> QED BY <3>1
  <2>3. Nat \subseteq S
    <3> HIDE DEF S
    <3> QED BY ONLY <2>1, <2>2, Induct
  <2> QED BY <2>3
<1> DEFINE G(n) == CHOOSE f : f \in Upto(n)
           h == [n \in Nat |-> G(n)[n]]
<1>3. \A n \in Nat : G(n) \in Upto(n)
  BY <1>1
<1> HIDE DEF G
<1>4. h \in [Nat -> V]
  <2>1. \A n \in Nat : G(n)[n] \in V
    BY <1>3
  <2> QED BY <2>1
<1>5. h[0] = b
  BY <1>3 DEF Follows
<1>6. ASSUME NEW n \in Nat PROVE h[n + 1] = step[<<n, h[n]>>]
  <2>1. G(n + 1)[n] = G(n)[n]
    <3>1. G(n + 1) \in Upto(n + 1) /\ G(n) \in Upto(n)
      BY <1>3
    <3> HIDE DEF Upto
    <3> QED BY <1>2, <3>1
  <2>2. G(n + 1)[n + 1] = step[<<n, G(n + 1)[n]>>]
    <3>1. G(n + 1) \in Upto(n + 1) /\ n \in 0 .. n + 1 - 1
      BY <1>3
    <3> QED BY <3>1 DEF Follows
  <2> QED BY <2>1, <2>2
<1> QED BY <1>4, <1>5, <1>6 DEF IsRecursive

IsStepTo(step, n, V) == step \in [(1 .. n) \X V -> V]

IsRecursiveTo(f, n, V, b, step) ==
  f \in [0 .. n -> V] /\ f[0] = b /\ \A i \in 1 .. n : f[i] = step[<<i, f[i - 1]>>]

LEMMA RecursionTo ==
  ASSUME NEW n \in Nat, NEW V, NEW b, b \in V, NEW step, IsStepTo(step, n, V)
  PROVE  \E f : IsRecursiveTo(f, n, V, b, step)
<1> DEFINE s == [p \in Nat \X V |-> IF p[1] < n THEN step[<<p[1] + 1, p[2]>>] ELSE p[2]]
<1>1. IsStep(s, V)
  <2>1. ASSUME NEW p \in Nat \X V, p[1] < n PROVE step[<<p[1] + 1, p[2]>>] \in V
    <3>1. <<p[1] + 1, p[2]>> \in (1 .. n) \X V
      BY <2>1
    <3> QED BY <3>1 DEF IsStepTo
  <2>2. \A p \in Nat \X V : (IF p[1] < n THEN step[<<p[1] + 1, p[2]>>] ELSE p[2]) \in V
    <3> TAKE p \in Nat \X V
    <3>1. p[2] \in V
      OBVIOUS
    <3>2. CASE p[1] < n
      BY <2>1, <3>2
    <3>3. CASE ~(p[1] < n)
      BY <3>1, <3>3
    <3> QED BY <3>2, <3>3
  <2> QED BY <2>2 DEF IsStep
<1>2. PICK f : IsRecursive(f, V, b, s)
  <2> HIDE DEF s
  <2> QED BY <1>1, Recursion
<1> DEFINE g == [i \in 0 .. n |-> f[i]]
<1>3. g \in [0 .. n -> V] /\ g[0] = b
  BY <1>2 DEF IsRecursive
<1>4. ASSUME NEW i \in 1 .. n PROVE g[i] = step[<<i, g[i - 1]>>]
  <2>1. i - 1 \in Nat /\ i - 1 \in 0 .. n /\ i \in 0 .. n /\ (i - 1) + 1 = i /\ i - 1 < n
    OBVIOUS
  <2>2. f[i] = s[<<i - 1, f[i - 1]>>] /\ f[i - 1] \in V
    <3> HIDE DEF s
    <3>1. f[(i - 1) + 1] = s[<<i - 1, f[i - 1]>>] /\ f \in [Nat -> V]
      BY <1>2, <2>1 DEF IsRecursive
    <3> QED BY <2>1, <3>1
  <2>3. s[<<i - 1, f[i - 1]>>] = step[<<i, f[i - 1]>>]
    <3>1. <<i - 1, f[i - 1]>> \in Nat \X V
      BY <2>1, <2>2
    <3> QED BY <2>1, <3>1
  <2>4. g[i] = f[i] /\ g[i - 1] = f[i - 1]
    BY <2>1
  <2> QED BY <2>2, <2>3, <2>4
<1>5. IsRecursiveTo(g, n, V, b, step)
  <2> HIDE DEF g
  <2> QED BY <1>3, <1>4 DEF IsRecursiveTo
<1> QED BY <1>5

-----------------------------------------------------------------------------
(* Arithmetic.                                                             *)

LEMMA DivMod ==
  ASSUME NEW a \in Int, NEW b \in Nat, b > 0
  PROVE  /\ a \div b \in Int /\ a % b \in 0 .. b - 1
         /\ a = b * (a \div b) + (a % b)
OBVIOUS

\* A quotient is the one number that leaves a remainder in range.
LEMMA DivIs ==
  ASSUME NEW a \in Int, NEW b \in Nat, b > 0, NEW q \in Int, NEW r \in Int,
         a = b * q + r, 0 <= r, r < b
  PROVE  a \div b = q /\ a % b = r
OBVIOUS

LEMMA TimesAssociative ==
  ASSUME NEW a \in Int, NEW b \in Int, NEW c \in Int
  PROVE  (a * b) * c = a * (b * c) /\ a * b = b * a /\ a * b \in Int
OBVIOUS

LEMMA Distributes ==
  ASSUME NEW a \in Int, NEW b \in Int, NEW c \in Int
  PROVE  a * (b + c) = a * b + a * c /\ a * (b - c) = a * b - a * c
OBVIOUS

LEMMA Divides ==
  ASSUME NEW a \in Int, NEW b \in Nat, b > 0
  PROVE  a % b = 0 <=> \E q \in Int : a = b * q
<1>1. ASSUME a % b = 0 PROVE \E q \in Int : a = b * q
  <2>1. a = b * (a \div b) + 0 /\ a \div b \in Int
    BY <1>1, DivMod
  <2>2. a = b * (a \div b)
    BY <2>1, TimesAssociative
  <2> QED BY <2>1, <2>2
<1>2. ASSUME NEW q \in Int, a = b * q PROVE a % b = 0
  <2>1. b * q \in Int /\ a = b * q + 0
    BY <1>2, TimesAssociative
  <2> QED BY <2>1, DivIs
<1> QED BY <1>1, <1>2

\* The product of odd numbers is odd.
LEMMA OddTimesOdd ==
  ASSUME NEW x \in Nat, NEW y \in Nat, NEW p \in Int, x * y = 2 * p, x % 2 = 1
  PROVE  y % 2 = 0
<1> SUFFICES ASSUME y % 2 = 1 PROVE FALSE
  OBVIOUS
<1> DEFINE a == x \div 2
           b == y \div 2
<1>1. a \in Int /\ b \in Int /\ x = 2 * a + 1 /\ y = 2 * b + 1
  OBVIOUS
<1> HIDE DEF a, b
<1> DEFINE c == a * y
<1>2. c \in Int /\ x * y = 2 * c + y
  <2>1. x * y = (2 * a + 1) * y
    BY <1>1
  <2>2. y * (2 * a + 1) = y * (2 * a) + y * 1
    BY <1>1, Distributes
  <2>3. y * (2 * a) = 2 * (a * y)
    BY <1>1
  <2> QED BY <1>1, <2>1, <2>2, <2>3
<1> HIDE DEF c
<1>3. 2 * p = 2 * c + (2 * b + 1)
  BY <1>1, <1>2
<1> QED BY <1>1, <1>2, <1>3

\* A power of two: it has nothing in common with odd numbers.
PowerOfTwo(n) ==
  /\ n \in Nat \ {0}
  /\ \A x, y \in Nat : x % 2 = 1 /\ (x * y) % n = 0 => y % n = 0

LEMMA One == PowerOfTwo(1)
<1>1. \A y \in Nat : y % 1 = 0
  OBVIOUS
<1> QED BY <1>1 DEF PowerOfTwo

LEMMA Twice ==
  ASSUME NEW n, PowerOfTwo(n)
  PROVE  PowerOfTwo(2 * n)
<1>1. n \in Nat /\ n > 0 /\ 2 * n \in Nat /\ 2 * n > 0
  BY DEF PowerOfTwo
<1>2. ASSUME NEW x \in Nat, NEW y \in Nat, x % 2 = 1, (x * y) % (2 * n) = 0
      PROVE  y % (2 * n) = 0
  <2>1. PICK q \in Int : x * y = (2 * n) * q
    BY <1>1, <1>2, TimesAssociative, Divides
  <2> DEFINE p == n * q
  <2>2. p \in Int /\ x * y = 2 * p
    BY <1>1, <2>1, TimesAssociative
  <2>3. y % 2 = 0
    <3> HIDE DEF p
    <3> QED BY <1>2, <2>2, OddTimesOdd
  <2> DEFINE z == y \div 2
  <2>4. z \in Nat /\ y = 2 * z
    BY <2>3
  <2> HIDE DEF z
  <2>5. x * z = n * q /\ x * z \in Int
    <3>1. x * y = 2 * (x * z) /\ x * z \in Int
      BY <2>4
    <3> DEFINE w == x * z
    <3>2. w \in Int /\ 2 * w = 2 * p
      BY <2>2, <3>1
    <3> HIDE DEF p, w
    <3>3. w = p
      BY ONLY <2>2, <3>2
    <3> QED BY <3>1, <3>3 DEF p, w
  <2>6. z % n = 0
    <3>1. (x * z) % n = 0
      BY <1>1, <2>5, Divides
    <3> QED BY <1>2, <2>4, <3>1 DEF PowerOfTwo
  <2>7. PICK r \in Int : z = n * r
    BY <1>1, <2>4, <2>6, Divides
  <2>8. y = (2 * n) * r
    BY <1>1, <2>4, <2>7, TimesAssociative
  <2> DEFINE m == 2 * n
  <2>9. m \in Nat /\ m > 0 /\ y = m * r
    BY <1>1, <2>8
  <2>10. y % m = 0
    <3> HIDE DEF m
    <3> QED BY <2>9, Divides
  <2> QED BY <2>10
<1> QED BY <1>1, <1>2 DEF PowerOfTwo

LEMMA HalfOf ==
  ASSUME NEW n \in Nat, n > 0, PowerOfTwo(2 * n)
  PROVE  PowerOfTwo(n)
<1>1. ASSUME NEW x \in Nat, NEW y \in Nat, x % 2 = 1, (x * y) % n = 0
      PROVE  y % n = 0
  <2> DEFINE w == x * y
             z == 2 * y
             m == 2 * n
  <2>0. w \in Int /\ z \in Nat /\ m \in Nat /\ m > 0 /\ w % n = 0
    BY <1>1
  <2>1. PICK q \in Int : w = n * q
    <3> HIDE DEF w
    <3> QED BY <2>0, Divides
  <2> DEFINE p == n * q
  <2>2. x * z = (2 * n) * q
    <3>1. x * z = 2 * w /\ (2 * n) * q = 2 * p
      BY TimesAssociative
    <3> QED BY <2>1, <3>1
  <2>3. z % m = 0
    <3> DEFINE v == x * z
    <3>1. v \in Int /\ v = m * q
      BY <2>0, <2>2
    <3>2. v % m = 0
      <4> HIDE DEF v, m
      <4> QED BY <2>0, <3>1, Divides
    <3>3. PowerOfTwo(m) /\ (x * z) % m = 0
      BY <3>2
    <3> HIDE DEF z, m
    <3> QED BY <1>1, <2>0, <3>3 DEF PowerOfTwo
  <2>4. PICK r \in Int : z = m * r
    <3> HIDE DEF z, m
    <3> QED BY <2>0, <2>3, Divides
  <2>5. y = n * r
    <3> DEFINE t == n * r
    <3>1. t \in Int /\ 2 * y = 2 * t
      BY <2>4, TimesAssociative
    <3> HIDE DEF t
    <3>2. y = t
      BY <3>1
    <3> QED BY <3>2 DEF t
  <2> QED BY <2>5, Divides
<1> QED BY <1>1 DEF PowerOfTwo

LEMMA IsEven ==
  ASSUME NEW n, PowerOfTwo(n), n > 1
  PROVE  n % 2 = 0
<1>1. n \in Nat
  BY DEF PowerOfTwo
<1> SUFFICES ASSUME n % 2 = 1 PROVE FALSE
  BY <1>1
<1>2. (n * 1) % n = 0
  <2>1. n * 1 = n /\ n = n * 1
    BY <1>1
  <2>2. n % n = 0
    BY <1>1, <2>1, Divides
  <2> QED BY <2>1, <2>2
<1>3. 1 % n = 0
  BY <1>1, <1>2 DEF PowerOfTwo
<1> QED BY <1>1, <1>3

Triangle(i) == (i * (i + 1)) \div 2

LEMMA TriangleIs ==
  ASSUME NEW i \in Nat
  PROVE  Triangle(i) \in Nat /\ 2 * Triangle(i) = i * (i + 1)
<1> DEFINE x == i * (i + 1)
<1>1. \E t \in Nat : x = 2 * t
  <2>1. CASE i % 2 = 0
    <3> DEFINE a == i \div 2
    <3>1. a \in Nat /\ i = 2 * a
      BY <2>1
    <3> HIDE DEF a
    <3>2. x = 2 * (a * (i + 1)) /\ a * (i + 1) \in Nat
      BY <3>1
    <3> QED BY <3>2
  <2>2. CASE i % 2 = 1
    <3> DEFINE a == (i + 1) \div 2
    <3>1. a \in Nat /\ i + 1 = 2 * a
      BY <2>2
    <3> HIDE DEF a
    <3>2. x = 2 * (i * a) /\ i * a \in Nat
      BY <3>1
    <3> QED BY <3>2
  <2> QED BY <2>1, <2>2
<1>2. PICK t \in Nat : x = 2 * t
  BY <1>1
<1>3. x \div 2 = t
  <2> HIDE DEF x
  <2> QED BY <1>2
<1> QED BY <1>2, <1>3 DEF Triangle

\* Something between 0 and n is no multiple of n.
LEMMA NoMultiple ==
  ASSUME NEW a \in Nat, NEW n \in Nat, 0 < a, a < n
  PROVE  a % n # 0
<1>1. n * 0 = 0
  OBVIOUS
<1>2. a = n * 0 + a
  BY <1>1
<1>3. a % n = a
  BY <1>2, DivIs
<1> QED BY <1>3

\* The buckets of the first turns of a probe are all different ...
LEMMA TrianglesDiffer ==
  ASSUME NEW n, PowerOfTwo(n), NEW c \in Nat, NEW i \in 0 .. n - 1, NEW j \in 0 .. n - 1, j < i
  PROVE  (c + Triangle(i)) % n # (c + Triangle(j)) % n
<1>1. n \in Nat /\ n > 0 /\ i \in Nat /\ j \in Nat
  BY DEF PowerOfTwo
<1> SUFFICES ASSUME (c + Triangle(i)) % n = (c + Triangle(j)) % n PROVE FALSE
  OBVIOUS
<1> DEFINE x == c + Triangle(i)
           y == c + Triangle(j)
           p == x \div n
           q == y \div n
           a == i - j
           b == i + j + 1
           m == 2 * n
           d == n * (p - q)
<1>2. x \in Int /\ y \in Int /\ 2 * x = 2 * c + i * (i + 1) /\ 2 * y = 2 * c + j * (j + 1)
  <2> DEFINE e == i * (i + 1)
             f == j * (j + 1)
  <2>1. Triangle(i) \in Nat /\ 2 * Triangle(i) = e
    BY <1>1, TriangleIs
  <2>2. Triangle(j) \in Nat /\ 2 * Triangle(j) = f
    BY <1>1, TriangleIs
  <2> HIDE DEF e, f
  <2>3. x \in Int /\ y \in Int /\ 2 * x = 2 * c + e /\ 2 * y = 2 * c + f
    BY <2>1, <2>2
  <2> QED BY <2>3 DEF e, f
<1>3. x - y = d /\ p \in Int /\ q \in Int /\ d \in Int
  <2>1. x = n * p + (x % n) /\ y = n * q + (y % n) /\ p \in Int /\ q \in Int
        /\ x % n \in Int
    <3> HIDE DEF x, y
    <3> QED BY <1>1, <1>2, DivMod
  <2>2. x % n = y % n
    OBVIOUS
  <2>3. d = n * p - n * q /\ n * p \in Int /\ n * q \in Int
    <3> HIDE DEF p, q
    <3> QED BY <1>1, <2>1, Distributes, TimesAssociative
  <2> DEFINE e == n * p
             f == n * q
             g == x % n
  <2>4. x = e + g /\ y = f + g /\ d = e - f /\ e \in Int /\ f \in Int /\ g \in Int
    BY <2>1, <2>2, <2>3
  <2> HIDE DEF x, y, e, f, g, d
  <2>5. x - y = d /\ d \in Int
    BY <2>4
  <2> QED BY <2>1, <2>5
<1>4. a * b = 2 * d
  <2>1. i * (i + 1) - j * (j + 1) = a * b
    BY <1>1
  <2> DEFINE e == i * (i + 1)
             f == j * (j + 1)
             g == a * b
  <2>2. e \in Int /\ f \in Int /\ e - f = g /\ 2 * x = 2 * c + e /\ 2 * y = 2 * c + f
    BY <1>1, <1>2, <2>1
  <2> HIDE DEF x, y, e, f, g, d
  <2>3. g = 2 * d
    BY <1>2, <1>3, <2>2
  <2> QED BY <2>3 DEF g
<1>5. a * b = m * (p - q) /\ b * a = a * b
  <2>1. 2 * d = m * (p - q)
    <3> DEFINE r == p - q
    <3>1. r \in Int
      BY <1>3
    <3> HIDE DEF p, q, r
    <3>2. 2 * (n * r) = (2 * n) * r
      BY <1>1, <3>1, TimesAssociative
    <3> QED BY <3>2 DEF r
  <2>2. a \in Int /\ b \in Int
    BY <1>1
  <2> HIDE DEF a, b, d, m
  <2> QED BY <1>4, <2>1, <2>2, TimesAssociative
<1>6. a \in Nat /\ b \in Nat /\ 0 < a /\ 0 < b /\ a < m /\ b < m /\ m \in Nat /\ m > 0
      /\ a + b = 2 * i + 1
  BY <1>1
<1>7. PowerOfTwo(m)
  BY Twice
<1>8. (a * b) % m = 0 /\ (b * a) % m = 0
  <2> DEFINE w == a * b
             r == p - q
  <2>1. w \in Int /\ r \in Int /\ w = m * r
    <3>1. a * b \in Int
      <4> HIDE DEF a, b
      <4> QED BY <1>6
    <3>2. r \in Int
      <4> HIDE DEF p, q
      <4> QED BY <1>3
    <3> QED BY <1>5, <3>1, <3>2
  <2>2. w % m = 0
    <3> HIDE DEF w, r, m
    <3> QED BY <1>6, <2>1, Divides
  <2> QED BY <1>5, <2>2
<1>9. a % 2 = 1 \/ b % 2 = 1
  <2> HIDE DEF a, b
  <2> QED BY <1>1, <1>6
<1> HIDE DEF a, b, m
<1>10. a % m = 0 \/ b % m = 0
  BY <1>6, <1>7, <1>8, <1>9 DEF PowerOfTwo
<1> QED BY <1>6, <1>10, NoMultiple

\* ... and so there is each of them.
LEMMA TrianglesCover ==
  ASSUME NEW n, PowerOfTwo(n), NEW c \in Nat, NEW b \in 0 .. n - 1
  PROVE  \E t \in 0 .. n - 1 : (c + Triangle(t)) % n = b
<1> DEFINE S == 0 .. n - 1
           F(t) == (c + Triangle(t)) % n
           f == [t \in S |-> F(t)]
<1>1. n \in Nat /\ n > 0
  BY DEF PowerOfTwo
<1>2. \A t \in S : F(t) \in S
  <2> TAKE t \in S
  <2>1. c + Triangle(t) \in Int
    BY <1>1, TriangleIs
  <2> QED BY <1>1, <2>1, DivMod
<1>3. \A i, j \in S : i # j => F(i) # F(j)
  <2> TAKE i, j \in S
  <2> HAVE i # j
  <2>1. CASE j < i
    BY <2>1, TrianglesDiffer
  <2>2. CASE i < j
    BY <2>2, TrianglesDiffer
  <2> QED BY <1>1, <2>1, <2>2
<1> HIDE DEF F
<1>4. f \in Injection(S, S)
  BY <1>2, <1>3 DEF Injection, IsInjective
<1>5. IsFiniteSet(S)
  BY <1>1, FS_Interval
<1> HIDE DEF f, S
<1>6. f \in Surjection(S, S)
  BY <1>4, <1>5, FS_Injection
<1> USE DEF f, S
<1>7. PICK t \in S : f[t] = b
  BY <1>6 DEF Surjection
<1> QED BY <1>7 DEF F

\* Sizes of an index.
IsSize(n) ==
  n \in Nat \ {0} /\ n % BucketLength = 0 /\ PowerOfTwo(n \div BucketLength)

LEMMA Sizes ==
  /\ IsSize(BucketLength)
  /\ \A n : IsSize(n) => IsSize(2 * n) /\ n >= BucketLength /\ n % 4 = 0
  /\ \A n : IsSize(n) /\ n > BucketLength => IsSize(n \div 2)
<1>1. BucketLength \in {4, 8}
  BY MapAssumption
<1>2. IsSize(BucketLength)
  <2>1. BucketLength \div BucketLength = 1 /\ BucketLength % BucketLength = 0
    BY <1>1
  <2> QED BY <1>1, <2>1, One DEF IsSize
<1>3. ASSUME NEW n, IsSize(n) PROVE IsSize(2 * n) /\ n >= BucketLength /\ n % 4 = 0
  <2>1. n \in Nat /\ n > 0 /\ n % BucketLength = 0 /\ PowerOfTwo(n \div BucketLength)
    BY <1>3 DEF IsSize
  <2>2. (2 * n) \div BucketLength = 2 * (n \div BucketLength) /\ (2 * n) % BucketLength = 0
        /\ n >= BucketLength /\ n % 4 = 0
    BY <1>1, <2>1
  <2>3. PowerOfTwo(2 * (n \div BucketLength))
    BY <2>1, Twice
  <2> QED BY <2>1, <2>2, <2>3 DEF IsSize
<1>4. ASSUME NEW n, IsSize(n), n > BucketLength PROVE IsSize(n \div 2)
  <2> DEFINE q == n \div BucketLength
             h == q \div 2
  <2>1. n \in Nat /\ n > 0 /\ n % BucketLength = 0 /\ PowerOfTwo(q)
    BY <1>4 DEF IsSize
  <2>2. q \in Nat /\ q > 1 /\ n = BucketLength * q
    BY <1>1, <1>4, <2>1
  <2>3. q % 2 = 0
    <3> HIDE DEF q
    <3> QED BY <2>1, <2>2, IsEven
  <2>4. h \in Nat /\ h > 0 /\ q = 2 * h
    <3> HIDE DEF q
    <3> QED BY <2>2, <2>3
  <2>5. PowerOfTwo(h)
    <3>1. PowerOfTwo(2 * h)
      BY <2>1, <2>4
    <3> HIDE DEF h, q
    <3> QED BY <2>4, <3>1, HalfOf
  <2> HIDE DEF h, q
  <2>6. (n \div 2) \div BucketLength = h /\ (n \div 2) % BucketLength = 0 /\ n \div 2 \in Nat \ {0}
    BY <1>1, <2>2, <2>4
  <2> QED BY <2>5, <2>6 DEF IsSize
<1> QED BY <1>2, <1>3, <1>4

LEMMA ProbeIn ==
  ASSUME NEW n, IsSize(n), NEW h \in Nat, NEW i \in Nat
  PROVE  Probe(n, h, i) \in 0 .. n - 1
<1> DEFINE home == h % n
           q == n \div BucketLength
           x == home \div BucketLength + Triangle(i \div BucketLength)
           b == x % q
<1>1. BucketLength \in {4, 8} /\ n \in Nat /\ n > 0 /\ n % BucketLength = 0
  BY MapAssumption DEF IsSize
<1>2. home \in Nat
  BY <1>1, DivMod
<1>3. q \in Nat /\ q > 0 /\ n = BucketLength * q
  BY <1>1
<1>4. Probe(n, h, i) = b * BucketLength + ((home + i) % BucketLength)
  BY DEF Probe, Triangle
<1> HIDE DEF home
<1>5. x \in Nat
  <2>1. home \div BucketLength \in Nat /\ i \div BucketLength \in Nat
    BY <1>1, <1>2
  <2> QED BY <2>1, TriangleIs
<1> HIDE DEF q, x
<1>6. b \in 0 .. q - 1
  BY <1>3, <1>5, DivMod
<1> HIDE DEF b
<1> QED BY <1>1, <1>2, <1>3, <1>4, <1>6

\* A probe that goes on meets every cell of the index.
LEMMA ProbesMeet ==
  ASSUME NEW n, IsSize(n), NEW h \in Nat, NEW s \in 0 .. n - 1
  PROVE  \E i \in 0 .. n - 1 : Probe(n, h, i) = s
<1> DEFINE home == h % n
           q == n \div BucketLength
           c == home \div BucketLength
           b == s \div BucketLength
           o == s % BucketLength
           z == (o - home) % BucketLength
<1>1. BucketLength \in {4, 8} /\ n \in Nat /\ n > 0 /\ n % BucketLength = 0 /\ PowerOfTwo(q)
  BY MapAssumption DEF IsSize
<1>2. home \in Nat
  BY <1>1, DivMod
<1>3. q \in Nat /\ q > 0 /\ n = BucketLength * q
  BY <1>1
<1>4. b \in 0 .. q - 1 /\ s = b * BucketLength + o /\ o \in 0 .. BucketLength - 1
  <2> HIDE DEF q
  <2> QED BY <1>1, <1>3
<1> HIDE DEF home
<1>5. c \in Nat
  BY <1>1, <1>2
<1>6. PICK t \in 0 .. q - 1 : (c + Triangle(t)) % q = b
  <2> HIDE DEF c, q, b
  <2> QED BY <1>1, <1>4, <1>5, TrianglesCover
<1> DEFINE i == t * BucketLength + z
<1>7. z \in 0 .. BucketLength - 1
  BY <1>1, <1>2, <1>4
<1>8. (home + z) % BucketLength = o
  <2> HIDE DEF o
  <2> QED BY <1>1, <1>2, <1>4
<1> HIDE DEF z, q, c, b, o
<1>9. t \in Nat
  BY <1>3
<1>10. i \in 0 .. n - 1 /\ i \div BucketLength = t /\ i \in Nat
  BY <1>1, <1>3, <1>6, <1>7, <1>9
<1>11. (home + i) % BucketLength = o
  BY <1>1, <1>2, <1>7, <1>8, <1>9
<1>12. Probe(n, h, i) = b * BucketLength + o
  <2>1. Probe(n, h, i) = ((c + Triangle(i \div BucketLength)) % q) * BucketLength
                         + ((home + i) % BucketLength)
    BY DEF Probe, Triangle, home, q, c
  <2> HIDE DEF i
  <2> QED BY <1>6, <1>10, <1>11, <2>1
<1> QED BY <1>4, <1>10, <1>12

-----------------------------------------------------------------------------
(* The index.                                                              *)

Cell  == {Empty, Deleted} \cup [hash : Nat, index : Nat]
Block == [size : Nat, strings : SUBSET [str : Keys, at : Nat, len : Nat]]
Arena == [storage : Seq(Block), remaining : Nat, block : Nat]

IsTable(t) ==
  /\ t \in [slots : Nat, used : Int, tombs : Int, seed : Seeds,
            cells : [0 .. t.slots - 1 -> Cell], mode : Modes, string : Arena]
  /\ IsSize(t.slots)

Slots(t)     == 0 .. t.slots - 1
UsedSlots(t) == {s \in Slots(t) : InUse(t.cells[s])}
TombSlots(t) == {s \in Slots(t) : t.cells[s] = Deleted}

\* The key that a cell in use stands for.
KeyOf(t, es, s) == es[t.cells[s].index + 1]

Says(t, es) ==
  \A s \in UsedSlots(t) :
    t.cells[s].index < Len(es) /\ t.cells[s].hash = Stored(KeyOf(t, es, s), t.seed)

Apart(t, es) ==
  \A r, s \in UsedSlots(t) : KeyOf(t, es, r) = KeyOf(t, es, s) => r = s

\* The probe for a hash comes to a cell before it comes to an empty one.
OnPath(t, h, s) ==
  \E i \in Slots(t) : /\ Probe(t.slots, h, i) = s
                      /\ \A j \in 0 .. i - 1 : CellAt(t, h, j) # Empty

Reach(t) == \A s \in UsedSlots(t) : OnPath(t, t.cells[s].hash, s)

Counted(t) == t.used = Cardinality(UsedSlots(t)) /\ t.tombs = Cardinality(TombSlots(t))

Good(t, es) == IsTable(t) /\ Says(t, es) /\ Apart(t, es) /\ Reach(t) /\ Counted(t)

HasRoom(t) == \E s \in Slots(t) : t.cells[s] = Empty

Complete(t, es) ==
  \A i \in 1 .. Len(es) : \E s \in Slots(t) :
    t.cells[s] = [hash |-> Stored(es[i], t.seed), index |-> i - 1]

LEMMA MinIs ==
  ASSUME NEW S \in SUBSET Nat, S # {}
  PROVE  Min(S) \in S /\ \A y \in S : Min(S) <= y
<1>1. PICK x \in S : \A y \in S : ~ (<<y, x>> \in OpToRel(<, Nat))
  BY NatLessThanWellFounded, WFMin
<1>a. \A y \in S : ~ (y < x)
  BY <1>1, Zenon DEF OpToRel
<1>2. \A y \in S : x <= y
  BY <1>a
<1>3. \E z \in S : \A y \in S : z =< y
  BY <1>2
<1> QED BY <1>3 DEF Min

LEMMA StoredIs ==
  ASSUME NEW k \in Keys, NEW seed \in Seeds
  PROVE  Stored(k, seed) \in Nat /\ Stored(k, seed) >= 2
<1>1. Hash(k, seed) \in Nat
  BY MapAssumption
<1> QED BY <1>1 DEF Stored

LEMMA CellIs ==
  /\ Empty # Deleted /\ Empty \in Cell /\ Deleted \in Cell
  /\ ~InUse(Empty) /\ ~InUse(Deleted) /\ Empty.hash = 0 /\ Deleted.hash = 1
  /\ \A c \in Cell : /\ InUse(c) <=> c # Empty /\ c # Deleted
                     /\ InUse(c) => c \in [hash : Nat, index : Nat]
                     /\ c.hash \in Nat /\ c.index \in Int
                     /\ c.hash >= 2 => InUse(c)
BY DEF Cell, Empty, Deleted, InUse

LEMMA TableIs ==
  ASSUME NEW t, IsTable(t)
  PROVE  /\ t.slots \in Nat /\ t.slots > 0 /\ IsSize(t.slots) /\ t.used \in Int /\ t.tombs \in Int
         /\ t.seed \in Seeds /\ t.mode \in Modes /\ t.string \in Arena
         /\ t.cells \in [Slots(t) -> Cell] /\ \A s \in Slots(t) : t.cells[s] \in Cell
         /\ IsFiniteSet(Slots(t)) /\ Cardinality(Slots(t)) = t.slots
<1>1. /\ t.slots \in Nat /\ t.slots > 0 /\ IsSize(t.slots) /\ t.used \in Int /\ t.tombs \in Int
      /\ t.seed \in Seeds /\ t.mode \in Modes /\ t.string \in Arena
      /\ t.cells \in [Slots(t) -> Cell]
  BY DEF IsTable, IsSize, Slots
<1>2. IsFiniteSet(Slots(t)) /\ Cardinality(Slots(t)) = t.slots
  BY <1>1, FS_Interval DEF Slots
<1> QED BY <1>1, <1>2

LEMMA CellAtIs ==
  ASSUME NEW t, IsTable(t), NEW h \in Nat, NEW i \in Slots(t)
  PROVE  /\ Probe(t.slots, h, i) \in Slots(t) /\ CellAt(t, h, i) \in Cell
         /\ CellAt(t, h, i) = t.cells[Probe(t.slots, h, i)] /\ i \in Nat
<1>1. i \in Nat /\ IsSize(t.slots)
  BY TableIs DEF Slots
<1>2. Probe(t.slots, h, i) \in Slots(t)
  BY <1>1, ProbeIn DEF Slots
<1> QED BY <1>1, <1>2, TableIs DEF CellAt

LEMMA CountsAre ==
  ASSUME NEW t, IsTable(t)
  PROVE  /\ IsFiniteSet(UsedSlots(t)) /\ Cardinality(UsedSlots(t)) \in Nat
         /\ IsFiniteSet(TombSlots(t)) /\ Cardinality(TombSlots(t)) \in Nat
<1>1. UsedSlots(t) \subseteq Slots(t) /\ TombSlots(t) \subseteq Slots(t)
  BY DEF UsedSlots, TombSlots
<1> QED BY <1>1, TableIs, FS_Subset, FS_CardinalityType

LEMMA RoomLeft ==
  ASSUME NEW t, IsTable(t),
         Cardinality(UsedSlots(t)) + Cardinality(TombSlots(t)) < t.slots
  PROVE  HasRoom(t)
<1> DEFINE U == UsedSlots(t)
           T == TombSlots(t)
<1> SUFFICES ASSUME ~HasRoom(t) PROVE FALSE
  OBVIOUS
<1>1. Slots(t) = U \cup T /\ U \cap T = {}
  <2>1. \A s \in Slots(t) : t.cells[s] \in Cell /\ t.cells[s] # Empty
    BY TableIs DEF HasRoom
  <2> QED BY <2>1, CellIs DEF UsedSlots, TombSlots
<1>2. IsFiniteSet(U) /\ IsFiniteSet(T) /\ Cardinality(U) \in Nat /\ Cardinality(T) \in Nat
      /\ Cardinality(U) + Cardinality(T) < t.slots
  BY CountsAre
<1> HIDE DEF U, T
<1>3. Cardinality(U \cup T) = Cardinality(U) + Cardinality(T) - Cardinality(U \cap T)
  BY <1>2, FS_Union
<1>4. Cardinality({}) = 0
  BY FS_EmptySet
<1>5. Cardinality(U \cup T) = t.slots /\ Cardinality(U \cap T) = 0 /\ t.slots \in Nat
  BY <1>1, <1>4, TableIs
<1>6. t.slots = Cardinality(U) + Cardinality(T) - 0
  BY <1>2, <1>3, <1>5
<1> QED BY <1>2, <1>5, <1>6

\* Where the probe for a key ends.
Ends(t, es, k) == Min(ProbeEnds(t, es, k))

\* The probe for a key ends: at its cell if there is one, at an empty cell if not.
LEMMA Finds ==
  ASSUME NEW t, IsTable(t), NEW es \in Seq(Keys), NEW k \in Keys,
         Says(t, es), Apart(t, es), Reach(t), HasRoom(t)
  PROVE  /\ ProbeEnds(t, es, k) # {}
         /\ Ends(t, es, k) \in Slots(t)
         /\ \A j \in 0 .. Ends(t, es, k) - 1 :
              CellAt(t, Stored(k, t.seed), j) # Empty /\ ~Holds(t, es, k, j)
         /\ Holds(t, es, k, Ends(t, es, k)) =>
              LET s == Probe(t.slots, Stored(k, t.seed), Ends(t, es, k)) IN
              s \in UsedSlots(t) /\ KeyOf(t, es, s) = k
         /\ ~Holds(t, es, k, Ends(t, es, k)) =>
              /\ CellAt(t, Stored(k, t.seed), Ends(t, es, k)) = Empty
              /\ \A s \in UsedSlots(t) : KeyOf(t, es, s) # k
         /\ \A s \in UsedSlots(t) : KeyOf(t, es, s) = k =>
              /\ Holds(t, es, k, Ends(t, es, k))
              /\ Probe(t.slots, Stored(k, t.seed), Ends(t, es, k)) = s
<1> DEFINE h == Stored(k, t.seed)
           E == ProbeEnds(t, es, k)
           m == Ends(t, es, k)
<1>1. h \in Nat /\ h >= 2
  BY StoredIs, TableIs
<1>2. E \in SUBSET Nat /\ E \subseteq Slots(t)
  BY TableIs DEF ProbeEnds, Slots
<1>3. E # {}
  <2>1. PICK s \in Slots(t) : t.cells[s] = Empty
    BY DEF HasRoom
  <2>2. PICK i \in Slots(t) : Probe(t.slots, h, i) = s
    <3>1. IsSize(t.slots)
      BY TableIs
    <3> HIDE DEF h
    <3> QED BY <1>1, <2>1, <3>1, ProbesMeet DEF Slots
  <2>3. CellAt(t, h, i) = Empty
    BY <2>1, <2>2 DEF CellAt
  <2> QED BY <2>3 DEF ProbeEnds, Slots
<1>4. m \in E /\ \A i \in E : m <= i
  <2> HIDE DEF E
  <2>1. Min(E) \in E /\ \A y \in E : Min(E) <= y
    BY <1>2, <1>3, MinIs
  <2> QED BY <2>1 DEF E, Ends
<1>5. m \in Slots(t) /\ m \in Nat
  BY <1>2, <1>4
<1>6. CellAt(t, h, m) = Empty \/ Holds(t, es, k, m)
  BY <1>4 DEF ProbeEnds
<1>7. ASSUME NEW j \in 0 .. m - 1 PROVE CellAt(t, h, j) # Empty /\ ~Holds(t, es, k, j)
  <2>1. j \in Slots(t) /\ j < m /\ j \in Nat
    BY <1>5, TableIs DEF Slots
  <2>2. j \notin E
    <3> HIDE DEF m, E
    <3> QED BY <1>4, <1>5, <2>1
  <2> QED BY <2>1, <2>2 DEF ProbeEnds, Slots
<1>8. ASSUME NEW i \in Slots(t), Holds(t, es, k, i)
      PROVE  LET s == Probe(t.slots, h, i) IN s \in UsedSlots(t) /\ KeyOf(t, es, s) = k
  <2> DEFINE s == Probe(t.slots, h, i)
  <2>1. s \in Slots(t) /\ t.cells[s] = CellAt(t, h, i) /\ t.cells[s] \in Cell
    BY <1>1, CellAtIs
  <2>2. t.cells[s].hash = h /\ es[t.cells[s].index + 1] = k
    BY <1>8, <2>1 DEF Holds
  <2>3. InUse(t.cells[s])
    BY <1>1, <2>1, <2>2, CellIs
  <2> QED BY <2>1, <2>2, <2>3 DEF UsedSlots, KeyOf
<1>9. ASSUME NEW s \in UsedSlots(t), KeyOf(t, es, s) = k
      PROVE  Holds(t, es, k, m) /\ Probe(t.slots, h, m) = s
  <2>1. s \in Slots(t) /\ InUse(t.cells[s]) /\ t.cells[s].hash = h
    BY <1>9 DEF UsedSlots, Says
  <2>2. PICK i \in Slots(t) : Probe(t.slots, h, i) = s /\ \A j \in 0 .. i - 1 : CellAt(t, h, j) # Empty
    BY <2>1 DEF Reach, OnPath
  <2>3. Holds(t, es, k, i) /\ CellAt(t, h, i) # Empty
    BY <1>9, <2>1, <2>2, CellIs DEF Holds, CellAt, KeyOf
  <2>4. i \in E /\ i \in Nat
    BY <1>2, <2>3 DEF ProbeEnds, Slots
  <2>5. Holds(t, es, k, m)
    <3>1. m <= i
      BY <1>4, <2>4
    <3>2. CASE m = i
      BY <2>3, <3>2
    <3>3. CASE m # i
      <4>1. m \in 0 .. i - 1
        BY <1>5, <2>4, <3>1, <3>3
      <4> QED BY <1>6, <2>2, <4>1
    <3> QED BY <3>2, <3>3
  <2>6. Probe(t.slots, h, m) \in UsedSlots(t) /\ KeyOf(t, es, Probe(t.slots, h, m)) = k
    BY <1>5, <1>8, <2>5
  <2> QED BY <1>9, <2>5, <2>6 DEF Apart
<1>10. ASSUME ~Holds(t, es, k, m)
       PROVE  CellAt(t, h, m) = Empty /\ \A s \in UsedSlots(t) : KeyOf(t, es, s) # k
  BY <1>6, <1>9, <1>10
<1> QED BY <1>3, <1>5, <1>7, <1>8, <1>9, <1>10

-----------------------------------------------------------------------------
(* A cell is written.                                                      *)

\* The table with c in a cell.
With(t, at, c) == [t EXCEPT !.cells[at] = c]

LEMMA WithIs ==
  ASSUME NEW t, IsTable(t), NEW at \in Slots(t), NEW c \in Cell
  PROVE  /\ IsTable(With(t, at, c))
         /\ With(t, at, c).slots = t.slots /\ With(t, at, c).seed = t.seed
         /\ With(t, at, c).used = t.used /\ With(t, at, c).tombs = t.tombs
         /\ With(t, at, c).mode = t.mode /\ With(t, at, c).string = t.string
         /\ With(t, at, c).cells = [t.cells EXCEPT ![at] = c]
         /\ Slots(With(t, at, c)) = Slots(t)
<1>1. t \in [slots : Nat, used : Int, tombs : Int, seed : Seeds,
             cells : [0 .. t.slots - 1 -> Cell], mode : Modes, string : Arena]
  BY DEF IsTable
<1>2. t.cells \in [0 .. t.slots - 1 -> Cell] /\ at \in 0 .. t.slots - 1 /\ IsSize(t.slots)
  BY <1>1 DEF IsTable, Slots
<1> DEFINE f == [t.cells EXCEPT ![at] = c]
           u == With(t, at, c)
<1>3. f \in [0 .. t.slots - 1 -> Cell]
  BY <1>2
<1>4. u = [t EXCEPT !.cells = f]
  BY DEF With
<1> HIDE DEF f, u
<1>5. /\ u \in [slots : Nat, used : Int, tombs : Int, seed : Seeds,
                cells : [0 .. t.slots - 1 -> Cell], mode : Modes, string : Arena]
      /\ u.slots = t.slots /\ u.seed = t.seed /\ u.used = t.used /\ u.tombs = t.tombs
      /\ u.mode = t.mode /\ u.string = t.string /\ u.cells = f
  BY <1>1, <1>3, <1>4
<1>6. IsTable(u)
  BY <1>2, <1>5 DEF IsTable
<1> QED BY <1>5, <1>6 DEF u, f, Slots

\* u is t with an entry's cell where there was none.
Enters(t, u, at, c) ==
  /\ IsTable(u) /\ u.slots = t.slots /\ u.seed = t.seed
  /\ u.cells = [t.cells EXCEPT ![at] = c]
  /\ at \in Slots(t) /\ ~InUse(t.cells[at]) /\ InUse(c) /\ c \in Cell
  /\ OnPath(t, c.hash, at)

LEMMA Entered ==
  ASSUME NEW t, IsTable(t), Reach(t), NEW u, NEW at, NEW c, Enters(t, u, at, c)
  PROVE  /\ Slots(u) = Slots(t) /\ u.cells[at] = c
         /\ \A s \in Slots(t) : s # at => u.cells[s] = t.cells[s]
         /\ Reach(u)
         /\ at \notin UsedSlots(t) /\ UsedSlots(u) = UsedSlots(t) \cup {at}
         /\ TombSlots(u) = TombSlots(t) \ {at}
<1>1. /\ IsTable(u) /\ u.slots = t.slots /\ u.seed = t.seed
      /\ u.cells = [t.cells EXCEPT ![at] = c]
      /\ at \in Slots(t) /\ ~InUse(t.cells[at]) /\ InUse(c) /\ c \in Cell
      /\ OnPath(t, c.hash, at)
  BY DEF Enters
<1>2. t.cells \in [Slots(t) -> Cell] /\ Slots(u) = Slots(t)
  BY <1>1, TableIs DEF Slots
<1>3. u.cells[at] = c /\ \A s \in Slots(t) : s # at => u.cells[s] = t.cells[s]
  BY <1>1, <1>2
<1>4. at \notin UsedSlots(t) /\ UsedSlots(u) = UsedSlots(t) \cup {at}
  BY <1>1, <1>2, <1>3 DEF UsedSlots
<1>5. TombSlots(u) = TombSlots(t) \ {at}
  <2>1. c # Deleted
    BY <1>1, CellIs
  <2> QED BY <1>1, <1>2, <1>3, <2>1 DEF TombSlots
<1>6. ASSUME NEW h \in Nat, NEW s, OnPath(t, h, s)
      PROVE  OnPath(u, h, s)
  <2>1. PICK i \in Slots(t) : /\ Probe(t.slots, h, i) = s
                              /\ \A j \in 0 .. i - 1 : CellAt(t, h, j) # Empty
    BY <1>6 DEF OnPath
  <2>2. ASSUME NEW j \in 0 .. i - 1 PROVE CellAt(u, h, j) # Empty
    <3>1. j \in Slots(t)
      BY TableIs DEF Slots
    <3>2. Probe(t.slots, h, j) \in Slots(t) /\ t.cells[Probe(t.slots, h, j)] # Empty
      BY <2>1, <3>1, CellAtIs
    <3>3. c # Empty
      BY <1>1, CellIs
    <3> QED BY <1>1, <1>3, <3>2, <3>3 DEF CellAt
  <2> QED BY <1>1, <1>2, <2>1, <2>2 DEF OnPath
<1>7. Reach(u)
  <2> SUFFICES ASSUME NEW s \in UsedSlots(u) PROVE OnPath(u, u.cells[s].hash, s)
    BY DEF Reach
  <2>1. CASE s = at
    <3>1. c.hash \in Nat
      BY <1>1, CellIs
    <3> QED BY <1>1, <1>3, <1>6, <2>1, <3>1
  <2>2. CASE s # at
    <3>1. s \in UsedSlots(t) /\ u.cells[s] = t.cells[s]
      BY <1>3, <1>4, <2>2 DEF UsedSlots
    <3>2. t.cells[s] \in Cell /\ t.cells[s].hash \in Nat
      BY <3>1, TableIs, CellIs DEF UsedSlots
    <3> QED BY <1>6, <3>1, <3>2 DEF Reach
  <2> QED BY <2>1, <2>2
<1> QED BY <1>2, <1>3, <1>4, <1>5, <1>7

\* One cell more is in use.
LEMMA EnteredCounts ==
  ASSUME NEW t, IsTable(t), Reach(t), NEW u, NEW at, NEW c, Enters(t, u, at, c)
  PROVE  /\ Cardinality(UsedSlots(u)) = Cardinality(UsedSlots(t)) + 1
         /\ Cardinality(TombSlots(u)) = IF t.cells[at] = Deleted
                                        THEN Cardinality(TombSlots(t)) - 1
                                        ELSE Cardinality(TombSlots(t))
<1>1. /\ at \notin UsedSlots(t) /\ UsedSlots(u) = UsedSlots(t) \cup {at}
      /\ TombSlots(u) = TombSlots(t) \ {at}
  BY Entered
<1>2. IsFiniteSet(UsedSlots(t)) /\ IsFiniteSet(TombSlots(t))
  BY CountsAre
<1>3. at \in TombSlots(t) <=> t.cells[at] = Deleted
  BY DEF Enters, TombSlots
<1>4. Cardinality(UsedSlots(t) \cup {at}) = Cardinality(UsedSlots(t)) + 1
  BY <1>1, <1>2, FS_AddElement
<1>5. Cardinality(TombSlots(t) \ {at}) = IF at \in TombSlots(t) THEN Cardinality(TombSlots(t)) - 1
                                         ELSE Cardinality(TombSlots(t))
  BY <1>2, FS_RemoveElement
<1> QED BY <1>1, <1>3, <1>4, <1>5

\* A cell of the old table is copied to where a probe for it first finds room.
LEMMA FillIs ==
  ASSUME NEW t, IsTable(t), HasRoom(t), NEW c \in Cell, InUse(c)
  PROVE  \E at : Fill(t, c) = With(t, at, c) /\ Enters(t, Fill(t, c), at, c)
<1> DEFINE h == c.hash
           E == {j \in 0 .. t.slots - 1 : CellAt(t, h, j) = Empty}
           i == Min(E)
           at == Probe(t.slots, h, i)
<1>1. h \in Nat
  BY CellIs
<1>2. E \in SUBSET Nat /\ E \subseteq Slots(t)
  BY TableIs DEF Slots
<1>3. E # {}
  <2>1. PICK s \in Slots(t) : t.cells[s] = Empty
    BY DEF HasRoom
  <2>2. PICK j \in Slots(t) : Probe(t.slots, h, j) = s
    <3>1. IsSize(t.slots)
      BY TableIs
    <3> HIDE DEF h
    <3> QED BY <1>1, <2>1, <3>1, ProbesMeet DEF Slots
  <2>3. CellAt(t, h, j) = Empty
    BY <2>1, <2>2 DEF CellAt
  <2> QED BY <2>3 DEF Slots
<1>4. i \in E /\ \A j \in E : i <= j
  <2> HIDE DEF E
  <2> QED BY <1>2, <1>3, MinIs
<1>5. i \in Slots(t) /\ CellAt(t, h, i) = Empty /\ i \in Nat
  BY <1>2, <1>4
<1>6. ASSUME NEW j \in 0 .. i - 1 PROVE CellAt(t, h, j) # Empty
  <2>1. j \in 0 .. t.slots - 1 /\ j < i /\ j \in Nat
    BY <1>5, TableIs DEF Slots
  <2>2. j \notin E
    <3> HIDE DEF E, i
    <3> QED BY <1>4, <1>5, <2>1
  <2> QED BY <2>1, <2>2
<1>7. Fill(t, c) = With(t, at, c)
  BY DEF Fill, With
<1> HIDE DEF E, i, h
<1>8. at \in Slots(t) /\ t.cells[at] = Empty
  BY <1>1, <1>5, CellAtIs
<1>9. OnPath(t, h, at)
  BY <1>5, <1>6 DEF OnPath
<1>10. Enters(t, With(t, at, c), at, c)
  BY <1>8, <1>9, WithIs, CellIs DEF Enters, h
<1> QED BY <1>7, <1>10

-----------------------------------------------------------------------------
(* A table is made, or made anew.                                          *)

LEMMA NewIndexIs ==
  ASSUME NEW n, IsSize(n), NEW seed \in Seeds, NEW mode \in Modes
  PROVE  /\ IsTable(NewIndex(n, seed, mode))
         /\ NewIndex(n, seed, mode).slots = n /\ NewIndex(n, seed, mode).seed = seed
         /\ NewIndex(n, seed, mode).used = 0 /\ NewIndex(n, seed, mode).tombs = 0
         /\ NewIndex(n, seed, mode).mode = mode /\ NewIndex(n, seed, mode).string = NoStrings
         /\ UsedSlots(NewIndex(n, seed, mode)) = {}
         /\ TombSlots(NewIndex(n, seed, mode)) = {}
<1> DEFINE t == NewIndex(n, seed, mode)
<1>1. NoStrings \in Arena
  <2>1. <<>> \in Seq(Block)
    BY EmptySeq
  <2> QED BY <2>1 DEF NoStrings, Arena
<1>2. n \in Nat /\ [s \in 0 .. n - 1 |-> Empty] \in [0 .. n - 1 -> Cell]
  BY CellIs DEF IsSize
<1>3. /\ t.slots = n /\ t.seed = seed /\ t.used = 0 /\ t.tombs = 0 /\ t.mode = mode
      /\ t.string = NoStrings /\ t.cells = [s \in 0 .. n - 1 |-> Empty]
  BY DEF NewIndex
<1>4. IsTable(t)
  BY <1>1, <1>2 DEF IsTable, NewIndex
<1>5. UsedSlots(t) = {} /\ TombSlots(t) = {}
  BY <1>3, CellIs DEF UsedSlots, TombSlots, Slots
<1> QED BY <1>3, <1>4, <1>5

\* What an old table becomes: cell by cell.
Blank(n, ot) ==
  [NewIndex(n, ot.seed, ot.mode) EXCEPT !.used = ot.used, !.string = ot.string]

RebuiltTo(n, ot) ==
  LET upto[s \in 0 .. ot.slots] ==
        IF s = 0 THEN Blank(n, ot)
        ELSE IF InUse(ot.cells[s - 1]) THEN Fill(upto[s - 1], ot.cells[s - 1])
        ELSE upto[s - 1]
  IN  upto

LEMMA BlankIs ==
  ASSUME NEW n, IsSize(n), NEW ot, IsTable(ot)
  PROVE  /\ IsTable(Blank(n, ot)) /\ UsedSlots(Blank(n, ot)) = {} /\ TombSlots(Blank(n, ot)) = {}
         /\ Blank(n, ot).slots = n /\ Blank(n, ot).seed = ot.seed
         /\ Blank(n, ot).used = ot.used /\ Blank(n, ot).tombs = 0
         /\ Blank(n, ot).mode = ot.mode /\ Blank(n, ot).string = ot.string
<1> DEFINE t == NewIndex(n, ot.seed, ot.mode)
           u == Blank(n, ot)
<1>1. /\ ot.seed \in Seeds /\ ot.mode \in Modes /\ ot.used \in Int /\ ot.string \in Arena
  BY TableIs
<1>2. /\ IsTable(t) /\ t.slots = n /\ t.seed = ot.seed /\ t.tombs = 0 /\ t.mode = ot.mode
      /\ UsedSlots(t) = {} /\ TombSlots(t) = {}
  BY <1>1, NewIndexIs
<1>3. u = [t EXCEPT !.used = ot.used, !.string = ot.string]
  BY DEF Blank
<1> HIDE DEF t, u
<1>4. t \in [slots : Nat, used : Int, tombs : Int, seed : Seeds,
             cells : [0 .. t.slots - 1 -> Cell], mode : Modes, string : Arena]
  BY <1>2 DEF IsTable
<1>5. /\ u \in [slots : Nat, used : Int, tombs : Int, seed : Seeds,
                cells : [0 .. t.slots - 1 -> Cell], mode : Modes, string : Arena]
      /\ u.slots = n /\ u.seed = ot.seed /\ u.used = ot.used /\ u.tombs = 0
      /\ u.mode = ot.mode /\ u.string = ot.string /\ u.cells = t.cells
  BY <1>1, <1>2, <1>3, <1>4
<1>6. IsTable(u)
  BY <1>2, <1>5 DEF IsTable
<1>7. UsedSlots(u) = {} /\ TombSlots(u) = {}
  BY <1>2, <1>5 DEF UsedSlots, TombSlots, Slots
<1> QED BY <1>5, <1>6, <1>7 DEF u

LEMMA RebuiltIs ==
  ASSUME NEW n, IsSize(n), NEW ot, IsTable(ot)
  PROVE  /\ Rebuilt(n, ot) = RebuiltTo(n, ot)[ot.slots]
         /\ RebuiltTo(n, ot)[0] = Blank(n, ot)
         /\ \A i \in 1 .. ot.slots :
              RebuiltTo(n, ot)[i] = IF InUse(ot.cells[i - 1])
                                    THEN Fill(RebuiltTo(n, ot)[i - 1], ot.cells[i - 1])
                                    ELSE RebuiltTo(n, ot)[i - 1]
<1> DEFINE m == ot.slots
           b == Blank(n, ot)
           G(i, x) == IF InUse(ot.cells[i - 1]) THEN Fill(x, ot.cells[i - 1]) ELSE x
           V == [slots : {n}, used : Int, tombs : Int, seed : Seeds, cells : [0 .. n - 1 -> Cell],
                 mode : Modes, string : Arena]
           step == [p \in (1 .. m) \X V |-> G(p[1], p[2])]
           IsIt(s) == s = [i \in 0 .. m |-> IF i = 0 THEN b ELSE G(i, s[i - 1])]
<1>0. m \in Nat
  BY TableIs
<1>1. ASSUME NEW i \in 1 .. m, NEW x \in V PROVE G(i, x) \in V
  <2>1. CASE InUse(ot.cells[i - 1])
    <3> DEFINE c == ot.cells[i - 1]
               at == Probe(x.slots, c.hash, Min({j \in 0 .. x.slots - 1 : CellAt(x, c.hash, j) = Empty}))
               f == [x.cells EXCEPT ![at] = c]
    <3>1. i - 1 \in Slots(ot)
      BY <1>0 DEF Slots
    <3>2. c \in Cell
      BY <3>1, TableIs
    <3>3. Fill(x, c) = [x EXCEPT !.cells = f]
      BY DEF Fill
    <3> HIDE DEF at, c
    <3>4. x.cells \in [0 .. n - 1 -> Cell]
      OBVIOUS
    <3>5. f \in [0 .. n - 1 -> Cell]
      BY <3>2, <3>4
    <3> HIDE DEF f
    <3>6. [x EXCEPT !.cells = f] \in V
      BY <3>5
    <3> QED BY <2>1, <3>3, <3>6 DEF c
  <2>2. CASE ~InUse(ot.cells[i - 1])
    BY <2>2
  <2> QED BY <2>1, <2>2
<1>2. b \in V
  <2>1. IsTable(b) /\ b.slots = n
    BY BlankIs
  <2>2. b \in [slots : Nat, used : Int, tombs : Int, seed : Seeds,
               cells : [0 .. b.slots - 1 -> Cell], mode : Modes, string : Arena]
    <3> HIDE DEF b
    <3> QED BY <2>1 DEF IsTable
  <2> HIDE DEF b
  <2> QED BY <2>1, <2>2
<1> HIDE DEF m, G, V, b
<1>4. IsStepTo(step, m, V)
  BY <1>1 DEF IsStepTo
<1>5. PICK f : IsRecursiveTo(f, m, V, b, step)
  <2> HIDE DEF step
  <2> QED BY <1>0, <1>2, <1>4, RecursionTo
<1>6. f \in [0 .. m -> V] /\ f[0] = b
  BY <1>5 DEF IsRecursiveTo
<1>7. ASSUME NEW i \in 1 .. m PROVE f[i] = G(i, f[i - 1])
  <2>1. f[i] = step[<<i, f[i - 1]>>]
    <3> HIDE DEF step
    <3> QED BY <1>5 DEF IsRecursiveTo
  <2>2. i - 1 \in 0 .. m
    BY <1>0
  <2>3. <<i, f[i - 1]>> \in (1 .. m) \X V
    BY <1>6, <2>2
  <2> QED BY <2>1, <2>3
<1>8. IsIt(f)
  <2>1. \A i \in 0 .. m : f[i] = IF i = 0 THEN b ELSE G(i, f[i - 1])
    BY <1>0, <1>6, <1>7
  <2> QED BY <1>6, <2>1
<1> DEFINE q == RebuiltTo(n, ot)
<1>9. IsIt(q)
  <2>1. q = CHOOSE s : IsIt(s)
    BY DEF RebuiltTo, m, G, b
  <2> HIDE DEF IsIt, q
  <2> QED BY <1>8, <2>1
<1>10. Rebuilt(n, ot) = q[m]
  BY DEF Rebuilt, RebuiltTo, Blank, m
<1> HIDE DEF q
<1>11. q[0] = b /\ \A i \in 1 .. m : q[i] = G(i, q[i - 1])
  <2>1. \A i \in 0 .. m : q[i] = IF i = 0 THEN b ELSE G(i, q[i - 1])
    BY <1>9
  <2>2. 0 \in 0 .. m /\ \A i \in 1 .. m : i \in 0 .. m /\ i # 0
    BY <1>0
  <2> QED BY <2>1, <2>2
<1> QED BY <1>10, <1>11 DEF q, m, G, b

Before(ot, m) == {s \in UsedSlots(ot) : s < m}

\* x has the entries of the first m cells of ot, and nothing else.
Copied(x, n, ot, m) ==
  /\ IsTable(x) /\ x.slots = n /\ x.seed = ot.seed /\ x.used = ot.used /\ x.tombs = 0
  /\ x.mode = ot.mode /\ x.string = ot.string
  /\ Reach(x)
  /\ TombSlots(x) = {}
  /\ \A r \in UsedSlots(x) : \E s \in Before(ot, m) : x.cells[r] = ot.cells[s]
  /\ \A s \in Before(ot, m) : \E r \in UsedSlots(x) : x.cells[r] = ot.cells[s]
  /\ \A r, s \in UsedSlots(x) : x.cells[r] = x.cells[s] => r = s
  /\ Cardinality(UsedSlots(x)) = Cardinality(Before(ot, m))

\* No two cells are for the same entry.
CellsDiffer(t) == \A r, s \in UsedSlots(t) : t.cells[r] = t.cells[s] => r = s

LEMMA BeforeIs ==
  ASSUME NEW ot, IsTable(ot), NEW m \in Nat
  PROVE  /\ IsFiniteSet(Before(ot, m)) /\ Cardinality(Before(ot, m)) \in Nat
         /\ Cardinality(Before(ot, m)) <= Cardinality(UsedSlots(ot))
         /\ Before(ot, m + 1) = IF m \in UsedSlots(ot) THEN Before(ot, m) \cup {m} ELSE Before(ot, m)
         /\ m \in UsedSlots(ot) =>
              Cardinality(Before(ot, m + 1)) = Cardinality(Before(ot, m)) + 1
<1>1. Before(ot, m) \in SUBSET UsedSlots(ot) /\ m \notin Before(ot, m)
  BY DEF Before
<1>2. IsFiniteSet(Before(ot, m)) /\ Cardinality(Before(ot, m)) \in Nat
      /\ Cardinality(Before(ot, m)) <= Cardinality(UsedSlots(ot))
  BY <1>1, CountsAre, FS_Subset, FS_CardinalityType
<1>3. \A s \in UsedSlots(ot) : s \in Nat /\ (s < m + 1 <=> s < m \/ s = m)
  BY TableIs DEF UsedSlots, Slots
<1>4. Before(ot, m + 1) = IF m \in UsedSlots(ot) THEN Before(ot, m) \cup {m} ELSE Before(ot, m)
  BY <1>3 DEF Before
<1>5. Cardinality(Before(ot, m) \cup {m}) = Cardinality(Before(ot, m)) + 1
  BY <1>1, <1>2, FS_AddElement
<1> QED BY <1>2, <1>4, <1>5

LEMMA CopiedNext ==
  ASSUME NEW n, IsSize(n), NEW ot, IsTable(ot), CellsDiffer(ot),
         Cardinality(UsedSlots(ot)) < n,
         NEW m \in Slots(ot), NEW x, Copied(x, n, ot, m)
  PROVE  Copied(IF InUse(ot.cells[m]) THEN Fill(x, ot.cells[m]) ELSE x, n, ot, m + 1)
<1> DEFINE c == ot.cells[m]
           y == Fill(x, c)
<1>1. m \in Nat /\ c \in Cell /\ n \in Nat
  BY TableIs DEF Slots, IsSize
<1>2. CASE ~InUse(c)
  <2>1. Before(ot, m + 1) = Before(ot, m)
    BY <1>1, <1>2, BeforeIs DEF UsedSlots
  <2> QED BY <1>2, <2>1 DEF Copied
<1>3. CASE InUse(c)
  <2>1. m \in UsedSlots(ot)
    BY <1>3 DEF UsedSlots
  <2>2. /\ Before(ot, m + 1) = Before(ot, m) \cup {m}
        /\ Cardinality(Before(ot, m + 1)) = Cardinality(Before(ot, m)) + 1
        /\ Cardinality(Before(ot, m)) \in Nat
        /\ Cardinality(Before(ot, m)) <= Cardinality(UsedSlots(ot))
    BY <1>1, <2>1, BeforeIs
  <2>3. IsTable(x) /\ Reach(x) /\ TombSlots(x) = {} /\ x.slots = n
        /\ Cardinality(UsedSlots(x)) = Cardinality(Before(ot, m))
    BY DEF Copied
  <2>4. HasRoom(x)
    <3>1. Cardinality(TombSlots(x)) = 0
      BY <2>3, FS_EmptySet
    <3>2. Cardinality(UsedSlots(ot)) \in Nat
      BY CountsAre
    <3>3. Cardinality(UsedSlots(x)) + Cardinality(TombSlots(x)) < x.slots
      BY <1>1, <2>2, <2>3, <3>1, <3>2
    <3> QED BY <2>3, <3>3, RoomLeft
  <2>5. PICK at : y = With(x, at, c) /\ Enters(x, y, at, c)
    <3> HIDE DEF c
    <3> QED BY <1>1, <1>3, <2>3, <2>4, FillIs
  <2>6. /\ at \in Slots(x) /\ x.cells[at] # Deleted
    <3>1. at \in Slots(x)
      BY <2>5 DEF Enters
    <3> QED BY <2>3, <3>1 DEF TombSlots
  <2> HIDE DEF c, y
  <2>7. /\ IsTable(y) /\ y.slots = x.slots /\ y.seed = x.seed /\ y.used = x.used /\ y.tombs = x.tombs
        /\ y.mode = x.mode /\ y.string = x.string
    BY <1>1, <2>3, <2>5, <2>6, WithIs
  <2>8. /\ Slots(y) = Slots(x) /\ y.cells[at] = c
        /\ \A s \in Slots(x) : s # at => y.cells[s] = x.cells[s]
        /\ Reach(y)
        /\ at \notin UsedSlots(x) /\ UsedSlots(y) = UsedSlots(x) \cup {at}
        /\ TombSlots(y) = TombSlots(x) \ {at}
    BY <2>3, <2>5, Entered
  <2>9. Cardinality(UsedSlots(y)) = Cardinality(UsedSlots(x)) + 1
    BY <2>3, <2>5, EnteredCounts
  <2>10. \A s \in UsedSlots(x) : s # at /\ y.cells[s] = x.cells[s]
    BY <2>8 DEF UsedSlots
  <2>11. ASSUME NEW r \in UsedSlots(x) PROVE x.cells[r] # c
    <3>1. PICK s \in Before(ot, m) : x.cells[r] = ot.cells[s]
      BY DEF Copied
    <3>2. s \in UsedSlots(ot) /\ s # m
      BY <1>1 DEF Before
    <3> QED BY <2>1, <3>1, <3>2 DEF CellsDiffer, c
  <2>12. \A r \in UsedSlots(y) : \E s \in Before(ot, m + 1) : y.cells[r] = ot.cells[s]
    <3>1. \A r \in UsedSlots(x) : \E s \in Before(ot, m) : x.cells[r] = ot.cells[s]
      BY DEF Copied
    <3> QED BY <2>2, <2>8, <2>10, <3>1 DEF c
  <2>13. \A s \in Before(ot, m + 1) : \E r \in UsedSlots(y) : y.cells[r] = ot.cells[s]
    <3>1. \A s \in Before(ot, m) : \E r \in UsedSlots(x) : x.cells[r] = ot.cells[s]
      BY DEF Copied
    <3> QED BY <2>2, <2>8, <2>10, <3>1 DEF c
  <2>14. \A r, s \in UsedSlots(y) : y.cells[r] = y.cells[s] => r = s
    <3>1. \A r, s \in UsedSlots(x) : x.cells[r] = x.cells[s] => r = s
      BY DEF Copied
    <3> QED BY <2>8, <2>10, <2>11, <3>1
  <2>15. Copied(y, n, ot, m + 1)
    BY <2>2, <2>3, <2>7, <2>8, <2>9, <2>12, <2>13, <2>14 DEF Copied
  <2> QED BY <1>3, <2>15 DEF c, y
<1> QED BY <1>2, <1>3

LEMMA RebuiltCopies ==
  ASSUME NEW n, IsSize(n), NEW ot, IsTable(ot), CellsDiffer(ot),
         Cardinality(UsedSlots(ot)) < n
  PROVE  Copied(Rebuilt(n, ot), n, ot, ot.slots)
<1> DEFINE q == RebuiltTo(n, ot)
           m == ot.slots
           S == {i \in Nat : i <= m => Copied(q[i], n, ot, i)}
<1>1. m \in Nat
  BY TableIs
<1>2. /\ Rebuilt(n, ot) = q[m] /\ q[0] = Blank(n, ot)
      /\ \A i \in 1 .. m : q[i] = IF InUse(ot.cells[i - 1]) THEN Fill(q[i - 1], ot.cells[i - 1])
                                  ELSE q[i - 1]
  BY RebuiltIs
<1> HIDE DEF q
<1>3. 0 \in S
  <2> DEFINE b == Blank(n, ot)
  <2>1. /\ IsTable(b) /\ UsedSlots(b) = {} /\ TombSlots(b) = {}
        /\ b.slots = n /\ b.seed = ot.seed
        /\ b.used = ot.used /\ b.tombs = 0
        /\ b.mode = ot.mode /\ b.string = ot.string
    BY BlankIs
  <2>2. Before(ot, 0) = {}
    BY TableIs DEF Before, UsedSlots, Slots
  <2> HIDE DEF b
  <2>3. Copied(b, n, ot, 0)
    BY <2>1, <2>2 DEF Copied, Reach
  <2> QED BY <1>2, <2>3 DEF b
<1>4. ASSUME NEW i \in Nat, i \in S PROVE i + 1 \in S
  <2>1. CASE i + 1 <= m
    <3>1. i + 1 \in 1 .. m /\ (i + 1) - 1 = i /\ i \in Slots(ot) /\ Copied(q[i], n, ot, i)
      BY <1>1, <1>4, <2>1 DEF Slots
    <3>2. q[i + 1] = IF InUse(ot.cells[i]) THEN Fill(q[i], ot.cells[i]) ELSE q[i]
      BY <1>2, <3>1
    <3>3. Copied(q[i + 1], n, ot, i + 1)
      BY <3>1, <3>2, CopiedNext
    <3> QED BY <3>3
  <2> QED BY <2>1
<1>5. Nat \subseteq S
  <2> HIDE DEF S
  <2> QED BY ONLY <1>3, <1>4, Induct
<1>6. Copied(q[m], n, ot, m)
  BY <1>1, <1>5
<1> QED BY <1>2, <1>6

\* What a rebuilt table says is what the old one said.
LEMMA RebuiltGood ==
  ASSUME NEW n, IsSize(n), NEW ot, NEW es, Good(ot, es), ot.used < n
  PROVE  /\ Good(Rebuilt(n, ot), es)
         /\ Rebuilt(n, ot).slots = n /\ Rebuilt(n, ot).used = ot.used
         /\ Rebuilt(n, ot).tombs = 0 /\ Rebuilt(n, ot).seed = ot.seed
         /\ Rebuilt(n, ot).mode = ot.mode /\ Rebuilt(n, ot).string = ot.string
         /\ Complete(ot, es) => Complete(Rebuilt(n, ot), es)
<1> DEFINE x == Rebuilt(n, ot)
<1>1. IsTable(ot) /\ Says(ot, es) /\ Apart(ot, es) /\ ot.used = Cardinality(UsedSlots(ot))
  BY DEF Good, Counted
<1>2. CellsDiffer(ot)
  BY <1>1 DEF CellsDiffer, Apart, KeyOf
<1>3. Copied(x, n, ot, ot.slots)
  BY <1>1, <1>2, RebuiltCopies
<1> HIDE DEF x
<1>4. Before(ot, ot.slots) = UsedSlots(ot)
  BY <1>1, TableIs DEF Before, UsedSlots, Slots
<1>5. /\ IsTable(x) /\ x.slots = n /\ x.seed = ot.seed /\ x.used = ot.used /\ x.tombs = 0
      /\ x.mode = ot.mode /\ x.string = ot.string
      /\ Reach(x)
      /\ TombSlots(x) = {}
      /\ \A r \in UsedSlots(x) : \E s \in UsedSlots(ot) : x.cells[r] = ot.cells[s]
      /\ \A s \in UsedSlots(ot) : \E r \in UsedSlots(x) : x.cells[r] = ot.cells[s]
      /\ \A r, s \in UsedSlots(x) : x.cells[r] = x.cells[s] => r = s
      /\ Cardinality(UsedSlots(x)) = Cardinality(UsedSlots(ot))
  BY <1>3, <1>4 DEF Copied
<1>6. Says(x, es)
  BY <1>1, <1>5 DEF Says, KeyOf
<1>7. Apart(x, es)
  <2> SUFFICES ASSUME NEW r \in UsedSlots(x), NEW s \in UsedSlots(x),
                      KeyOf(x, es, r) = KeyOf(x, es, s)
               PROVE  r = s
    BY DEF Apart
  <2>1. PICK a \in UsedSlots(ot) : x.cells[r] = ot.cells[a]
    BY <1>5
  <2>2. PICK b \in UsedSlots(ot) : x.cells[s] = ot.cells[b]
    BY <1>5
  <2>3. a = b
    BY <1>1, <2>1, <2>2 DEF Apart, KeyOf
  <2> QED BY <1>5, <2>1, <2>2, <2>3
<1>8. Counted(x)
  <2>1. Cardinality(TombSlots(x)) = 0
    BY <1>5, FS_EmptySet
  <2> QED BY <1>1, <1>5, <2>1 DEF Counted
<1>9. ASSUME Complete(ot, es) PROVE Complete(x, es)
  <2> SUFFICES ASSUME NEW i \in 1 .. Len(es)
               PROVE  \E r \in Slots(x) :
                        x.cells[r] = [hash |-> Stored(es[i], x.seed), index |-> i - 1]
    BY DEF Complete
  <2> DEFINE c == [hash |-> Stored(es[i], ot.seed), index |-> i - 1]
  <2>1. PICK s \in Slots(ot) : ot.cells[s] = c
    BY <1>9 DEF Complete
  <2>2. InUse(c)
    BY DEF InUse
  <2>3. s \in UsedSlots(ot)
    BY <2>1, <2>2 DEF UsedSlots
  <2> HIDE DEF c
  <2>4. PICK r \in UsedSlots(x) : x.cells[r] = ot.cells[s]
    BY <1>5, <2>3
  <2> QED BY <1>5, <2>1, <2>4 DEF c, UsedSlots
<1> QED BY <1>5, <1>6, <1>7, <1>8, <1>9 DEF Good, x

-----------------------------------------------------------------------------
(* The invariant.                                                          *)

NoRepeats(es) == \A i, j \in 1 .. Len(es) : es[i] = es[j] => i = j

\* There is an array as soon as there is an entry or an index.
HeaderInv ==
  /\ capacity = 0 => arr = <<>> /\ index = NoIndex
  /\ capacity > 0 => Len(arr) + 1 <= capacity

\* There is an index as soon as there is an entry, and it is about the entries.
IndexInv ==
  IF index.slots = 0
  THEN index = NoIndex /\ arr = <<>>
  ELSE Good(index, arr) /\ Complete(index, arr) /\ index.used = Len(arr)

\* The thresholds are kept.
LoadInv ==
  index.slots > 0 => index.used <= UsedMax(index.slots) /\ index.tombs <= TombMax(index.slots)

\* What remains of the first block of an arena is a part of it.
Fits(a) ==
  IF a.storage = <<>> THEN a.remaining = 0 ELSE a.remaining <= a.storage[1].size

StringsInv == index.mode = "arena" => Fits(index.string)

IInv ==
  /\ TypeOK /\ HeaderInv /\ IndexInv /\ LoadInv
  /\ NoRepeats(arr) /\ StringsInv /\ CopiesAreKeys /\ ArenaKeepsKeys

LEMMA Typing ==
  ASSUME TypeOK
  PROVE  arr \in Seq(Keys) /\ Len(arr) \in Nat /\ capacity \in Nat
         /\ \A i \in 1 .. Len(arr) : arr[i] \in Keys
<1>1. arr \in Seq(Keys) /\ capacity \in Nat
  BY DEF TypeOK
<1> QED BY <1>1, LenProperties, ElementOfSeq

\* The thresholds leave a cell empty.
LEMMA Thresholds ==
  ASSUME NEW n, IsSize(n)
  PROVE  /\ UsedMax(n) \in Nat /\ TombMax(n) \in Nat /\ UsedMin(n) \in Nat
         /\ UsedMax(n) > 0 /\ UsedMax(n) + TombMax(n) < n
         /\ UsedMax(n) < UsedMax(2 * n)
         /\ n > BucketLength => /\ UsedMin(n) < n \div 2
                                /\ UsedMin(n) <= UsedMax(n \div 2)
<1>1. n \in Nat /\ n > 0 /\ n % 4 = 0 /\ BucketLength \in {4, 8}
  BY Sizes, MapAssumption DEF IsSize
<1> DEFINE q == n \div 4
<1>2. q \in Nat /\ n = 4 * q /\ q > 0
  BY <1>1
<1> HIDE DEF q
<1>3. n \div 4 = q /\ n \div 8 <= q \div 2 /\ n \div 16 <= q \div 4 /\ n \div 2 = 2 * q
      /\ n \div 8 \in Nat /\ n \div 16 \in Nat
  BY <1>2
<1>4. UsedMax(n) = 3 * q /\ TombMax(n) \in Nat /\ TombMax(n) < q
  BY <1>2, <1>3 DEF UsedMax, TombMax
<1>5. UsedMax(2 * n) = 6 * q
  BY <1>2 DEF UsedMax
<1>6. UsedMin(n) \in Nat /\ (n > BucketLength => UsedMin(n) = q)
  BY <1>1, <1>2, <1>3 DEF UsedMin
<1>7. UsedMax(n \div 2) >= q
  BY <1>2, <1>3 DEF UsedMax
<1> QED BY <1>2, <1>3, <1>4, <1>5, <1>6, <1>7

\* The probe for a key finds its entry, and for no other key one.
LEMMA FindsEntry ==
  ASSUME NEW t, NEW es \in Seq(Keys), NEW k \in Keys, Good(t, es), Complete(t, es), HasRoom(t)
  PROVE  /\ Ends(t, es, k) \in Slots(t)
         /\ Holds(t, es, k, Ends(t, es, k)) <=> \E j \in 1 .. Len(es) : es[j] = k
         /\ \A j \in 1 .. Len(es) : es[j] = k =>
              CellAt(t, Stored(k, t.seed), Ends(t, es, k)) = [hash |-> Stored(k, t.seed), index |-> j - 1]
<1> DEFINE h == Stored(k, t.seed)
           m == Ends(t, es, k)
<1>1. IsTable(t) /\ Says(t, es) /\ Apart(t, es) /\ Reach(t) /\ Len(es) \in Nat
  BY LenProperties DEF Good
<1>2. /\ m \in Slots(t)
      /\ Holds(t, es, k, m) =>
           LET s == Probe(t.slots, h, m) IN s \in UsedSlots(t) /\ KeyOf(t, es, s) = k
      /\ \A s \in UsedSlots(t) : KeyOf(t, es, s) = k =>
           Holds(t, es, k, m) /\ Probe(t.slots, h, m) = s
  BY <1>1, Finds
<1>3. ASSUME NEW j \in 1 .. Len(es), es[j] = k
      PROVE  Holds(t, es, k, m) /\ CellAt(t, h, m) = [hash |-> h, index |-> j - 1]
  <2>1. PICK s \in Slots(t) : t.cells[s] = [hash |-> h, index |-> j - 1]
    BY <1>3 DEF Complete
  <2>2. s \in UsedSlots(t) /\ KeyOf(t, es, s) = k
    BY <1>1, <1>3, <2>1 DEF UsedSlots, InUse, KeyOf
  <2> QED BY <1>2, <2>1, <2>2 DEF CellAt
<1>4. ASSUME Holds(t, es, k, m) PROVE \E j \in 1 .. Len(es) : es[j] = k
  <2> DEFINE s == Probe(t.slots, h, m)
             c == t.cells[s]
  <2>1. s \in UsedSlots(t) /\ KeyOf(t, es, s) = k
    BY <1>2, <1>4
  <2> HIDE DEF s
  <2>2. c \in Cell /\ InUse(c) /\ c.index < Len(es)
    BY <1>1, <2>1, TableIs DEF UsedSlots, Says
  <2>3. c.index \in Nat
    BY <2>2, CellIs
  <2>4. c.index + 1 \in 1 .. Len(es)
    BY <1>1, <2>2, <2>3
  <2> QED BY <2>1, <2>4 DEF KeyOf
<1> QED BY <1>2, <1>3, <1>4

\* Tables that differ in other things say the same.
LEMMA SameCells ==
  ASSUME NEW t, NEW u, NEW es, Good(t, es), IsTable(u), u.slots = t.slots, u.seed = t.seed,
         u.cells = t.cells, u.used = t.used, u.tombs = t.tombs
  PROVE  Good(u, es) /\ (Complete(t, es) => Complete(u, es))
<1>1. IsTable(t) /\ Says(t, es) /\ Apart(t, es) /\ Reach(t) /\ Counted(t)
  BY DEF Good
<1>2. Slots(u) = Slots(t)
  BY DEF Slots
<1>3. UsedSlots(u) = UsedSlots(t) /\ TombSlots(u) = TombSlots(t)
  BY <1>2 DEF UsedSlots, TombSlots
<1>4. Says(u, es) /\ Apart(u, es) /\ Counted(u)
  BY <1>1, <1>3 DEF Says, Apart, Counted, KeyOf
<1>5. Reach(u)
  BY <1>1, <1>2, <1>3 DEF Reach, OnPath, CellAt
<1>6. Complete(t, es) => Complete(u, es)
  BY <1>2 DEF Complete
<1> QED BY <1>4, <1>5, <1>6 DEF Good

-----------------------------------------------------------------------------
(* A key is put.                                                           *)

LEMMA NewIndexGood ==
  ASSUME NEW seed \in Seeds, NEW mode \in Modes
  PROVE  LET t == NewIndex(BucketLength, seed, mode) IN
         /\ Good(t, <<>>) /\ Complete(t, <<>>)
         /\ t.used = 0 /\ t.tombs = 0 /\ t.slots = BucketLength
         /\ t.mode = mode /\ t.string = NoStrings
<1> DEFINE t == NewIndex(BucketLength, seed, mode)
<1>1. /\ IsTable(t) /\ t.used = 0 /\ t.tombs = 0 /\ t.slots = BucketLength
      /\ t.mode = mode /\ t.string = NoStrings
      /\ UsedSlots(t) = {} /\ TombSlots(t) = {}
  BY Sizes, NewIndexIs
<1> HIDE DEF t
<1>2. Good(t, <<>>)
  BY <1>1, FS_EmptySet DEF Good, Says, Apart, Reach, Counted
<1>3. Complete(t, <<>>)
  BY DEF Complete
<1> QED BY <1>1, <1>2, <1>3 DEF t

\* A table that keeps its thresholds has an empty cell.
LEMMA Roomy ==
  ASSUME NEW t, NEW es, Good(t, es), t.used <= UsedMax(t.slots), t.tombs <= TombMax(t.slots)
  PROVE  HasRoom(t)
<1>1. /\ IsTable(t) /\ t.used = Cardinality(UsedSlots(t)) /\ t.tombs = Cardinality(TombSlots(t))
  BY DEF Good, Counted
<1>2. /\ UsedMax(t.slots) + TombMax(t.slots) < t.slots
      /\ UsedMax(t.slots) \in Nat /\ TombMax(t.slots) \in Nat /\ t.slots \in Nat
  BY <1>1, TableIs, Thresholds
<1>3. t.used \in Int /\ t.tombs \in Int
  BY <1>1, TableIs
<1>4. t.used + t.tombs < t.slots
  BY <1>2, <1>3
<1> QED BY <1>1, <1>4, RoomLeft

\* The index an insertion works on has room for one entry more.
LEMMA ForPutIs ==
  ASSUME IInv, NEW t \in ForPut(index)
  PROVE  /\ IsTable(t) /\ Good(t, arr) /\ Complete(t, arr) /\ HasRoom(t)
         /\ t.used = Len(arr) /\ t.used < UsedMax(t.slots) /\ t.tombs <= TombMax(t.slots)
         /\ t.mode = index.mode /\ t.string = index.string
<1>1. TypeOK /\ IndexInv /\ LoadInv
  BY DEF IInv
<1>2. index.slots \in Nat /\ Len(arr) \in Nat
  BY <1>1, Typing DEF TypeOK
<1>3. /\ Good(t, arr) /\ Complete(t, arr) /\ t.used = Len(arr)
      /\ t.used < UsedMax(t.slots) /\ t.tombs <= TombMax(t.slots)
      /\ t.mode = index.mode /\ t.string = index.string
  <2>1. CASE index.slots = 0
    <3>1. index = NoIndex /\ arr = <<>>
      BY <1>1, <2>1 DEF IndexInv
    <3>2. PICK seed \in Seeds : t = NewIndex(BucketLength, seed, "caller")
      BY <2>1 DEF ForPut
    <3>3. "caller" \in Modes /\ index.mode = "caller" /\ index.string = NoStrings /\ Len(arr) = 0
      BY <3>1 DEF Modes, NoIndex
    <3>4. UsedMax(BucketLength) > 0 /\ TombMax(BucketLength) \in Nat
      BY Sizes, Thresholds
    <3>5. /\ Good(t, <<>>) /\ Complete(t, <<>>)
          /\ t.used = 0 /\ t.tombs = 0 /\ t.slots = BucketLength
          /\ t.mode = "caller" /\ t.string = NoStrings
      BY <3>2, <3>3, NewIndexGood
    <3> QED BY <3>1, <3>3, <3>4, <3>5
  <2>2. CASE index.slots # 0
    <3>1. /\ Good(index, arr) /\ Complete(index, arr) /\ index.used = Len(arr)
          /\ index.used <= UsedMax(index.slots) /\ index.tombs <= TombMax(index.slots)
          /\ IsTable(index)
      BY <1>1, <1>2, <2>2 DEF IndexInv, LoadInv, Good
    <3> DEFINE n == index.slots
               m == 2 * n
    <3>2. /\ IsSize(n) /\ IsSize(m) /\ index.used \in Int
      BY <3>1, TableIs, Sizes
    <3>3. /\ UsedMax(n) \in Nat /\ UsedMax(n) < UsedMax(m) /\ n \in Nat
          /\ UsedMax(n) + TombMax(n) < n /\ TombMax(n) \in Nat
      BY <1>2, <3>2, Thresholds
    <3>4. TombMax(m) \in Nat /\ UsedMax(m) \in Nat
      BY <3>2, Thresholds
    <3>5. index.used < m
      BY <3>1, <3>2, <3>3
    <3>6. CASE index.used >= UsedMax(n)
      <4>1. t = Rebuilt(m, index)
        BY <2>2, <3>6 DEF ForPut
      <4> HIDE DEF m
      <4>2. /\ Good(t, arr) /\ Complete(t, arr) /\ t.slots = m /\ t.used = index.used
            /\ t.tombs = 0 /\ t.mode = index.mode /\ t.string = index.string
        BY <3>1, <3>2, <3>5, <4>1, RebuiltGood
      <4>3. t.used < UsedMax(m)
        BY <3>1, <3>2, <3>3, <3>4, <4>2
      <4> QED BY <3>1, <3>4, <4>2, <4>3
    <3>7. CASE ~(index.used >= UsedMax(n))
      <4>1. t = index
        BY <2>2, <3>7 DEF ForPut
      <4> QED BY <3>1, <3>2, <3>3, <3>7, <4>1
    <3> QED BY <3>6, <3>7
  <2> QED BY <2>1, <2>2
<1>4. IsTable(t)
  BY <1>3 DEF Good
<1>5. t.used <= UsedMax(t.slots)
  BY <1>2, <1>3, <1>4, TableIs, Thresholds
<1> QED BY <1>3, <1>4, <1>5, Roomy

\* Where a key goes: the first tombstone on its way, or the cell that ends it.
TombsMet(t, k, i) == {j \in 0 .. i - 1 : CellAt(t, Stored(k, t.seed), j) = Deleted}

PlaceFor(t, k, i) ==
  Probe(t.slots, Stored(k, t.seed), IF TombsMet(t, k, i) = {} THEN i ELSE Min(TombsMet(t, k, i)))

CellFor(t, k) == [hash |-> Stored(k, t.seed), index |-> Len(arr)]

PutIn(t, k, i) ==
  [Reused(t, TombsMet(t, k, i)) EXCEPT !.used = @ + 1, !.cells[PlaceFor(t, k, i)] = CellFor(t, k)]

LEMMA PutInEnters ==
  ASSUME NEW t, IsTable(t), Len(arr) \in Nat, NEW k \in Keys, NEW i \in Slots(t),
         CellAt(t, Stored(k, t.seed), i) = Empty,
         \A j \in 0 .. i - 1 : CellAt(t, Stored(k, t.seed), j) # Empty
  PROVE  /\ Enters(t, PutIn(t, k, i), PlaceFor(t, k, i), CellFor(t, k))
         /\ PutIn(t, k, i).used = t.used + 1
         /\ PutIn(t, k, i).tombs = IF t.cells[PlaceFor(t, k, i)] = Deleted THEN t.tombs - 1 ELSE t.tombs
         /\ PutIn(t, k, i).mode = t.mode /\ PutIn(t, k, i).string = t.string
<1> DEFINE h == Stored(k, t.seed)
           T == TombsMet(t, k, i)
           at == PlaceFor(t, k, i)
           c == CellFor(t, k)
           f == [t.cells EXCEPT ![at] = c]
           r == Reused(t, T)
           u == PutIn(t, k, i)
<1>1. h \in Nat /\ h >= 2 /\ i \in Nat /\ t.slots \in Nat
  BY StoredIs, TableIs DEF Slots
<1>2. T \in SUBSET Nat /\ T \subseteq 0 .. i - 1 /\ \A j \in T : CellAt(t, h, j) = Deleted
  BY DEF TombsMet
<1>3. \E p \in Slots(t) : /\ at = Probe(t.slots, h, p)
                          /\ \A j \in 0 .. p - 1 : CellAt(t, h, j) # Empty
                          /\ IF T = {} THEN CellAt(t, h, p) = Empty ELSE CellAt(t, h, p) = Deleted
  <2>1. CASE T = {}
    <3>1. at = Probe(t.slots, h, i)
      BY <2>1 DEF PlaceFor
    <3> QED BY <2>1, <3>1
  <2>2. CASE T # {}
    <3> DEFINE p == Min(T)
    <3>1. p \in T
      <4> HIDE DEF T
      <4> QED BY <1>2, <2>2, MinIs
    <3>2. at = Probe(t.slots, h, p)
      BY <2>2 DEF PlaceFor
    <3> HIDE DEF p, T, at
    <3>3. p \in 0 .. i - 1
      BY <1>2, <3>1
    <3>4. p \in Slots(t) /\ \A j \in 0 .. p - 1 : j \in 0 .. i - 1
      BY <1>1, <3>3 DEF Slots
    <3>5. CellAt(t, h, p) = Deleted
      BY <1>2, <3>1
    <3> QED BY <2>2, <3>2, <3>4, <3>5
  <2> QED BY <2>1, <2>2
<1>4. PICK p \in Slots(t) : /\ at = Probe(t.slots, h, p)
                            /\ \A j \in 0 .. p - 1 : CellAt(t, h, j) # Empty
                            /\ IF T = {} THEN CellAt(t, h, p) = Empty ELSE CellAt(t, h, p) = Deleted
  BY <1>3
<1>5. at \in Slots(t) /\ t.cells[at] = CellAt(t, h, p)
  BY <1>1, <1>4, CellAtIs
<1>6. ~InUse(t.cells[at]) /\ (t.cells[at] = Deleted <=> T # {})
  BY <1>4, <1>5, CellIs
<1>7. c \in Cell /\ InUse(c) /\ c.hash = h
  BY <1>1 DEF CellFor, Cell, InUse
<1>8. OnPath(t, h, at)
  BY <1>4 DEF OnPath
<1>9. t \in [slots : Nat, used : Int, tombs : Int, seed : Seeds,
             cells : [0 .. t.slots - 1 -> Cell], mode : Modes, string : Arena]
      /\ IsSize(t.slots)
  BY DEF IsTable
<1>10. /\ r \in [slots : Nat, used : Int, tombs : Int, seed : Seeds,
                 cells : [0 .. t.slots - 1 -> Cell], mode : Modes, string : Arena]
       /\ r.slots = t.slots /\ r.used = t.used /\ r.seed = t.seed /\ r.cells = t.cells
       /\ r.mode = t.mode /\ r.string = t.string
       /\ r.tombs = IF T = {} THEN t.tombs ELSE t.tombs - 1
  <2> HIDE DEF T
  <2>1. CASE T = {}
    BY <1>9, <2>1 DEF Reused
  <2>2. CASE T # {}
    BY <1>9, <2>2 DEF Reused
  <2> QED BY <2>1, <2>2
<1> HIDE DEF r
<1>11. u = [r EXCEPT !.used = t.used + 1, !.cells = f]
  BY <1>10 DEF PutIn, r
<1>12. f \in [0 .. t.slots - 1 -> Cell]
  <2>1. t.cells \in [0 .. t.slots - 1 -> Cell]
    BY <1>9
  <2> HIDE DEF at, c
  <2> QED BY <1>7, <2>1
<1> HIDE DEF f, u, T, at, c
<1>13. /\ u \in [slots : Nat, used : Int, tombs : Int, seed : Seeds,
                cells : [0 .. t.slots - 1 -> Cell], mode : Modes, string : Arena]
       /\ u.slots = t.slots /\ u.used = t.used + 1 /\ u.seed = t.seed /\ u.cells = f
       /\ u.mode = t.mode /\ u.string = t.string /\ u.tombs = r.tombs
  <2> DEFINE v == t.used + 1
  <2>1. v \in Int
    BY <1>9
  <2>2. u = [r EXCEPT !.used = v, !.cells = f]
    BY <1>11
  <2> HIDE DEF v
  <2>3. u \in [slots : Nat, used : Int, tombs : Int, seed : Seeds,
               cells : [0 .. t.slots - 1 -> Cell], mode : Modes, string : Arena]
    BY ONLY <1>10, <1>12, <2>1, <2>2
  <2>4. /\ u.slots = t.slots /\ u.used = v /\ u.seed = t.seed /\ u.cells = f
        /\ u.mode = t.mode /\ u.string = t.string /\ u.tombs = r.tombs
    BY ONLY <1>10, <1>12, <2>1, <2>2
  <2> QED BY <2>3, <2>4 DEF v
<1>14. IsTable(u)
  BY <1>9, <1>13 DEF IsTable
<1>15. Enters(t, u, at, c)
  BY <1>5, <1>6, <1>7, <1>8, <1>13, <1>14 DEF Enters, f
<1>16. u.tombs = IF t.cells[at] = Deleted THEN t.tombs - 1 ELSE t.tombs
  BY <1>6, <1>10, <1>13
<1> QED BY <1>13, <1>15, <1>16 DEF u, at, c

\* With the new cell and the new entry, index and array say the same again.
LEMMA PutInGood ==
  ASSUME NEW t, arr \in Seq(Keys), NEW k \in Keys, NEW u, NEW at,
         Good(t, arr), Complete(t, arr),
         \A j \in 1 .. Len(arr) : arr[j] # k,
         Enters(t, u, at, CellFor(t, k)),
         u.used = t.used + 1,
         u.tombs = IF t.cells[at] = Deleted THEN t.tombs - 1 ELSE t.tombs
  PROVE  Good(u, Append(arr, k)) /\ Complete(u, Append(arr, k))
<1> DEFINE es == Append(arr, k)
           c  == CellFor(t, k)
           n  == Len(arr)
<1>1. IsTable(t) /\ Says(t, arr) /\ Apart(t, arr) /\ Reach(t) /\ Counted(t)
  BY DEF Good
<1>2. n \in Nat /\ Len(es) = n + 1 /\ es[n + 1] = k /\ \A j \in 1 .. n : es[j] = arr[j]
  <2>1. n \in Nat
    BY LenProperties
  <2> QED BY <2>1, AppendProperties
<1>3. /\ Slots(u) = Slots(t) /\ u.cells[at] = c
      /\ \A s \in Slots(t) : s # at => u.cells[s] = t.cells[s]
      /\ Reach(u)
      /\ at \notin UsedSlots(t) /\ UsedSlots(u) = UsedSlots(t) \cup {at}
      /\ TombSlots(u) = TombSlots(t) \ {at}
  BY <1>1, Entered
<1>4. /\ Cardinality(UsedSlots(u)) = Cardinality(UsedSlots(t)) + 1
      /\ Cardinality(TombSlots(u)) = IF t.cells[at] = Deleted
                                     THEN Cardinality(TombSlots(t)) - 1
                                     ELSE Cardinality(TombSlots(t))
  BY <1>1, EnteredCounts
<1>5. IsTable(u) /\ u.seed = t.seed /\ u.slots = t.slots /\ at \in Slots(t)
  BY DEF Enters
<1>6. c.hash = Stored(k, t.seed) /\ c.index = n
  BY DEF CellFor
<1> HIDE DEF es, c, n
<1>7. ASSUME NEW s \in UsedSlots(t)
      PROVE  /\ u.cells[s] = t.cells[s] /\ t.cells[s].index \in Nat /\ t.cells[s].index < n
             /\ KeyOf(u, es, s) = KeyOf(t, arr, s) /\ KeyOf(t, arr, s) # k
  <2>1. s \in Slots(t) /\ s # at /\ InUse(t.cells[s])
    BY <1>3 DEF UsedSlots
  <2>2. t.cells[s].index \in Nat /\ t.cells[s].index < n
    <3>1. t.cells[s] \in Cell
      BY <1>1, <2>1, TableIs
    <3> QED BY <1>1, <2>1, <3>1, CellIs DEF Says, n
  <2>3. t.cells[s].index + 1 \in 1 .. n
    BY <1>2, <2>2
  <2>4. arr[t.cells[s].index + 1] # k
    BY <2>3 DEF n
  <2> QED BY <1>2, <1>3, <2>1, <2>2, <2>3, <2>4 DEF KeyOf
<1>8. KeyOf(u, es, at) = k
  BY <1>2, <1>3, <1>6 DEF KeyOf
<1>9. Says(u, es)
  <2> SUFFICES ASSUME NEW s \in UsedSlots(u)
               PROVE  u.cells[s].index < Len(es)
                      /\ u.cells[s].hash = Stored(KeyOf(u, es, s), u.seed)
    BY DEF Says
  <2>1. CASE s = at
    BY <1>2, <1>3, <1>5, <1>6, <1>8, <2>1
  <2>2. CASE s # at
    <3>1. s \in UsedSlots(t)
      BY <1>3, <2>2
    <3>2. t.cells[s].hash = Stored(KeyOf(t, arr, s), t.seed)
      BY <1>1, <3>1 DEF Says
    <3>3. /\ u.cells[s] = t.cells[s] /\ t.cells[s].index \in Nat /\ t.cells[s].index < n
          /\ KeyOf(u, es, s) = KeyOf(t, arr, s)
      BY <1>7, <3>1
    <3> QED BY <1>2, <1>5, <3>2, <3>3
  <2> QED BY <2>1, <2>2
<1>10. Apart(u, es)
  <2> SUFFICES ASSUME NEW r \in UsedSlots(u), NEW s \in UsedSlots(u),
                      KeyOf(u, es, r) = KeyOf(u, es, s)
               PROVE  r = s
    BY DEF Apart
  <2>1. CASE r = at \/ s = at
    BY <1>3, <1>7, <1>8, <2>1
  <2>2. CASE r # at /\ s # at
    BY <1>1, <1>3, <1>7, <2>2 DEF Apart
  <2> QED BY <2>1, <2>2
<1>11. Counted(u)
  BY <1>1, <1>4 DEF Counted
<1>12. Complete(u, es)
  <2> SUFFICES ASSUME NEW i \in 1 .. Len(es)
               PROVE  \E s \in Slots(u) :
                        u.cells[s] = [hash |-> Stored(es[i], u.seed), index |-> i - 1]
    BY DEF Complete
  <2>1. CASE i = n + 1
    <3>1. c = [hash |-> Stored(es[i], u.seed), index |-> i - 1]
      BY <1>2, <1>5, <2>1 DEF c, CellFor, n
    <3> QED BY <1>3, <1>5, <3>1
  <2>2. CASE i # n + 1
    <3>1. i \in 1 .. n
      BY <1>2, <2>2
    <3>2. PICK s \in Slots(t) : t.cells[s] = [hash |-> Stored(arr[i], t.seed), index |-> i - 1]
      BY <3>1 DEF Complete, n
    <3>3. InUse(t.cells[s])
      BY <3>1, <3>2, <1>2 DEF InUse
    <3>4. s # at
      BY <3>2, <3>3 DEF Enters
    <3> QED BY <1>2, <1>3, <1>5, <3>1, <3>2, <3>4
  <2> QED BY <2>1, <2>2
<1> QED BY <1>3, <1>5, <1>9, <1>10, <1>11, <1>12 DEF Good, es

-----------------------------------------------------------------------------
(* The strings of an arena.                                                *)

LEMMA PowersAreNumbers == \A n \in Nat : Power2[n] \in Nat
<1> DEFINE step == [p \in Nat \X Nat |-> 2 * p[2]]
           IsIt(s) == s = [n \in Nat |-> IF n = 0 THEN 1 ELSE 2 * s[n - 1]]
<1>1. IsStep(step, Nat)
  BY DEF IsStep
<1>2. PICK f : IsRecursive(f, Nat, 1, step)
  <2> HIDE DEF step
  <2> QED BY ONLY <1>1, Recursion
<1>3. f \in [Nat -> Nat] /\ f[0] = 1
  BY <1>2 DEF IsRecursive
<1>4. ASSUME NEW n \in Nat PROVE f[n] = IF n = 0 THEN 1 ELSE 2 * f[n - 1]
  <2>1. CASE n = 0
    BY <1>3, <2>1
  <2>2. CASE n # 0
    <3>1. n - 1 \in Nat /\ (n - 1) + 1 = n
      BY <2>2
    <3>2. f[(n - 1) + 1] = step[<<n - 1, f[n - 1]>>]
      <4> HIDE DEF step
      <4> QED BY <1>2, <3>1 DEF IsRecursive
    <3>3. <<n - 1, f[n - 1]>> \in Nat \X Nat
      BY <1>3, <3>1
    <3>4. step[<<n - 1, f[n - 1]>>] = 2 * f[n - 1]
      BY <3>3
    <3> QED BY <2>2, <3>1, <3>2, <3>4
  <2> QED BY <2>1, <2>2
<1>5. IsIt(f)
  BY <1>3, <1>4
<1>6. IsIt(Power2)
  <2>1. Power2 = CHOOSE s : IsIt(s)
    BY DEF Power2
  <2> HIDE DEF IsIt
  <2> QED BY <1>5, <2>1
<1> DEFINE p == Power2
           S == {n \in Nat : p[n] \in Nat}
<1>7. \A n \in Nat : p[n] = IF n = 0 THEN 1 ELSE 2 * p[n - 1]
  <2>1. p = [n \in Nat |-> IF n = 0 THEN 1 ELSE 2 * p[n - 1]]
    BY <1>6
  <2> HIDE DEF p
  <2> QED BY <2>1
<1> HIDE DEF p
<1>8. 0 \in S
  BY <1>7
<1>9. ASSUME NEW n \in Nat, n \in S PROVE n + 1 \in S
  <2>1. n + 1 \in Nat /\ n + 1 # 0 /\ (n + 1) - 1 = n
    OBVIOUS
  <2>2. p[n + 1] = 2 * p[n]
    BY <1>7, <2>1
  <2> QED BY <1>9, <2>1, <2>2
<1>10. Nat \subseteq S
  <2> HIDE DEF S
  <2> QED BY ONLY <1>8, <1>9, Induct
<1> QED BY <1>10 DEF p

LEMMA SizesAreNumbers ==
  ASSUME NEW a \in Arena
  PROVE  BlockSize(a) \in Nat
<1>1. a.block \div 2 \in Nat /\ BlockMin \in Nat
  BY BlockAssumption DEF Arena
<1> DEFINE p == Power2[a.block \div 2]
<1>2. p \in Nat
  BY <1>1, PowersAreNumbers
<1> HIDE DEF p
<1>3. BlockMin * p \in Nat
  BY <1>1, <1>2
<1> QED BY <1>3 DEF BlockSize, p

\* One block of an arena is in order.
BlockIntact(b) ==
  /\ \A s \in b.strings : Bytes(s) \subseteq 0 .. b.size - 1
  /\ \A s, t \in b.strings : s # t => Bytes(s) \cap Bytes(t) = {}

Sound(a) == a \in Arena /\ StringsIntact(a) /\ Fits(a)

LEMMA SoundIs ==
  ASSUME NEW a \in Arena
  PROVE  /\ a.storage \in Seq(Block) /\ a.remaining \in Nat /\ a.block \in Nat
         /\ DOMAIN a.storage = 1 .. Len(a.storage) /\ Len(a.storage) \in Nat
         /\ \A i \in DOMAIN a.storage : a.storage[i] \in Block
         /\ a.storage # <<>> => 1 \in DOMAIN a.storage
         /\ StringsIntact(a) <=>
              /\ \A i \in DOMAIN a.storage : BlockIntact(a.storage[i])
              /\ a.storage # <<>> =>
                   \A s \in a.storage[1].strings : Bytes(s) \cap (0 .. a.remaining - 1) = {}
<1>1. a.storage \in Seq(Block) /\ a.remaining \in Nat /\ a.block \in Nat
  BY DEF Arena
<1>2. DOMAIN a.storage = 1 .. Len(a.storage) /\ Len(a.storage) \in Nat
  BY <1>1, LenProperties
<1>3. \A i \in DOMAIN a.storage : a.storage[i] \in Block
  BY <1>1, <1>2, ElementOfSeq
<1>4. a.storage # <<>> => 1 \in DOMAIN a.storage
  <2>1. a.storage # <<>> => Len(a.storage) # 0
    BY <1>1, EmptySeq
  <2> QED BY <1>2, <2>1
<1>5. StringsIntact(a) <=>
        /\ \A i \in DOMAIN a.storage : BlockIntact(a.storage[i])
        /\ a.storage # <<>> =>
             \A s \in a.storage[1].strings : Bytes(s) \cap (0 .. a.remaining - 1) = {}
  BY DEF StringsIntact, BlockIntact
<1> QED BY <1>1, <1>2, <1>3, <1>4, <1>5

LEMMA StringsOfIs ==
  ASSUME NEW a, NEW i \in DOMAIN a.storage, NEW s \in a.storage[i].strings
  PROVE  s.str \in StringsOf(a)
BY DEF StringsOf

\* The strings of the blocks of a are in blocks of b.
LEMMA StringsStay ==
  ASSUME NEW a, NEW b,
         \A i \in DOMAIN a.storage : \E j \in DOMAIN b.storage :
           a.storage[i].strings \subseteq b.storage[j].strings
  PROVE  StringsOf(a) \subseteq StringsOf(b)
<1> SUFFICES ASSUME NEW k \in StringsOf(a) PROVE k \in StringsOf(b)
  OBVIOUS
<1>1. PICK i \in DOMAIN a.storage : \E s \in a.storage[i].strings : k = s.str
  BY DEF StringsOf
<1>2. PICK s \in a.storage[i].strings : k = s.str
  BY <1>1
<1>3. PICK j \in DOMAIN b.storage : a.storage[i].strings \subseteq b.storage[j].strings
  BY <1>1
<1> QED BY <1>2, <1>3, StringsOfIs

LEMMA PlacedIs ==
  ASSUME NEW a, Sound(a), NEW str \in Keys, NEW len \in Nat \ {0}, len <= a.remaining
  PROVE  /\ Sound(Placed(a, str, len))
         /\ StringsOf(a) \cup {str} \subseteq StringsOf(Placed(a, str, len))
<1> DEFINE st == a.storage
           b == st[1]
           new == [str |-> str, at |-> a.remaining - len, len |-> len]
           c == [b EXCEPT !.strings = @ \cup {new}]
           ts == [st EXCEPT ![1] = c]
           rest == a.remaining - len
           d == Placed(a, str, len)
<1>1. /\ a \in Arena /\ Fits(a)
      /\ st \in Seq(Block) /\ a.remaining \in Nat /\ a.block \in Nat
      /\ DOMAIN st = 1 .. Len(st) /\ Len(st) \in Nat
      /\ \A i \in DOMAIN st : st[i] \in Block /\ BlockIntact(st[i])
      /\ st # <<>> => /\ 1 \in DOMAIN st
                      /\ \A s \in b.strings : Bytes(s) \cap (0 .. a.remaining - 1) = {}
  BY SoundIs DEF Sound
<1>2. st # <<>>
  BY <1>1 DEF Fits
<1>3. 1 \in 1 .. Len(st) /\ b \in Block /\ BlockIntact(b) /\ a.remaining <= b.size
  BY <1>1, <1>2 DEF Fits
<1>4. rest \in Nat /\ rest + len = a.remaining /\ rest < a.remaining
  BY <1>1
<1>5. new \in [str : Keys, at : Nat, len : Nat] /\ Bytes(new) = rest .. a.remaining - 1
      /\ new.str = str
  BY <1>4 DEF Bytes
<1>6. c \in Block /\ c.size = b.size /\ c.strings = b.strings \cup {new}
  <2> HIDE DEF new, b
  <2>1. b.strings \cup {new} \in SUBSET [str : Keys, at : Nat, len : Nat]
    BY <1>3, <1>5 DEF Block
  <2> QED BY <1>3, <2>1 DEF Block
<1>7. \A s \in b.strings : Bytes(s) \cap (0 .. a.remaining - 1) = {}
  BY <1>1, <1>2
<1> HIDE DEF c, new, b
<1>8. BlockIntact(c)
  <2>1. Bytes(new) \subseteq 0 .. b.size - 1
    <3>1. b.size \in Nat
      BY <1>3 DEF Block
    <3> QED BY <1>1, <1>3, <1>4, <1>5, <3>1
  <2>2. \A s \in b.strings : Bytes(s) \cap Bytes(new) = {}
    <3>1. Bytes(new) \subseteq 0 .. a.remaining - 1
      BY <1>1, <1>4, <1>5
    <3> QED BY <1>7, <3>1
  <2> QED BY <1>3, <1>6, <2>1, <2>2 DEF BlockIntact
<1>9. \A s \in c.strings : Bytes(s) \cap (0 .. rest - 1) = {}
  <2>1. Bytes(new) \cap (0 .. rest - 1) = {}
    BY <1>1, <1>4, <1>5
  <2>2. 0 .. rest - 1 \subseteq 0 .. a.remaining - 1
    BY <1>1, <1>4
  <2> QED BY <1>6, <1>7, <2>1, <2>2
<1>10. /\ ts \in Seq(Block) /\ DOMAIN ts = DOMAIN st /\ ts[1] = c
       /\ \A i \in DOMAIN st : i # 1 => ts[i] = st[i]
  <2>1. /\ ts \in Seq(Block) /\ Len(ts) = Len(st)
        /\ \A j \in 1 .. Len(st) : ts[j] = IF j = 1 THEN c ELSE st[j]
    <3> HIDE DEF st
    <3> QED BY <1>1, <1>3, <1>6, ExceptSeq
  <2> HIDE DEF ts
  <2>2. DOMAIN ts = 1 .. Len(ts)
    BY <2>1, LenProperties
  <2> QED BY <1>1, <1>3, <2>1, <2>2
<1>11. d = [a EXCEPT !.remaining = rest, !.storage = ts]
  BY DEF Placed, c, new, b
<1> HIDE DEF ts, rest, d
<1>12. d \in Arena /\ d.storage = ts /\ d.remaining = rest
  BY <1>1, <1>4, <1>10, <1>11 DEF Arena
<1>13. StringsIntact(d)
  <2>1. \A i \in DOMAIN ts : BlockIntact(ts[i])
    BY <1>1, <1>8, <1>10
  <2> QED BY <1>9, <1>10, <1>12, <2>1, SoundIs
<1>14. Fits(d)
  <2>1. ts # <<>>
    BY <1>1, <1>2, <1>10, SoundIs, <1>12
  <2>2. c.size \in Nat /\ rest <= c.size
    BY <1>1, <1>3, <1>4, <1>6 DEF Block
  <2> QED BY <1>10, <1>12, <2>1, <2>2 DEF Fits
<1>15. StringsOf(a) \subseteq StringsOf(d)
  <2>1. \A i \in DOMAIN st : st[i].strings \subseteq ts[i].strings
    <3> TAKE i \in DOMAIN st
    <3>1. CASE i = 1
      BY <1>6, <1>10, <3>1 DEF b
    <3>2. CASE i # 1
      BY <1>10, <3>2
    <3> QED BY <3>1, <3>2
  <2> QED BY <1>10, <1>12, <2>1, StringsStay
<1>16. str \in StringsOf(d)
  <2>1. 1 \in DOMAIN d.storage /\ new \in d.storage[1].strings
    BY <1>1, <1>2, <1>6, <1>10, <1>12
  <2> QED BY <1>5, <2>1, StringsOfIs
<1> QED BY <1>12, <1>13, <1>14, <1>15, <1>16 DEF Sound, d

LEMMA NextSizeIs ==
  ASSUME NEW a, Sound(a)
  PROVE  /\ Sound(NextSize(a)) /\ NextSize(a).storage = a.storage
         /\ NextSize(a).remaining = a.remaining
<1> DEFINE x == IF BlockSize(a) < BlockMax THEN a.block + 1 ELSE a.block
           d == NextSize(a)
<1>1. a \in Arena /\ x \in Nat
  BY DEF Sound, Arena
<1>2. d = [a EXCEPT !.block = x]
  BY DEF NextSize
<1> HIDE DEF x, d
<1>3. d \in Arena /\ d.storage = a.storage /\ d.remaining = a.remaining
  BY <1>1, <1>2 DEF Arena
<1> QED BY <1>3 DEF Sound, StringsIntact, Fits, d

\* The arena with a block in front of the others.
InFront(a, n) == [a EXCEPT !.storage = <<NewBlock(n, {})>> \o @, !.remaining = n]

LEMMA InFrontIs ==
  ASSUME NEW a, Sound(a), NEW n \in Nat
  PROVE  /\ Sound(InFront(a, n)) /\ InFront(a, n).remaining = n
         /\ StringsOf(a) \subseteq StringsOf(InFront(a, n))
<1> DEFINE st == a.storage
           b == NewBlock(n, {})
           one == <<b>>
           ts == one \o st
           d == InFront(a, n)
<1>1. /\ a \in Arena
      /\ st \in Seq(Block)
      /\ DOMAIN st = 1 .. Len(st) /\ Len(st) \in Nat
      /\ \A i \in DOMAIN st : st[i] \in Block /\ BlockIntact(st[i])
  BY SoundIs DEF Sound
<1>2. b \in Block /\ b.size = n /\ b.strings = {} /\ BlockIntact(b)
  BY DEF NewBlock, Block, BlockIntact
<1> HIDE DEF b
<1>3. one \in Seq(Block) /\ Len(one) = 1 /\ one[1] = b
  BY <1>2
<1> HIDE DEF one, st
<1>4. /\ ts \in Seq(Block) /\ Len(ts) = 1 + Len(st) /\ ts[1] = b
      /\ \A i \in 1 .. Len(st) : ts[i + 1] = st[i]
      /\ \A i \in 2 .. 1 + Len(st) : ts[i] = st[i - 1]
  <2>1. /\ ts \in Seq(Block) /\ Len(ts) = Len(one) + Len(st)
        /\ \A i \in 1 .. Len(one) + Len(st) : ts[i] = IF i <= Len(one) THEN one[i] ELSE st[i - Len(one)]
    BY <1>1, <1>3, ConcatProperties
  <2> HIDE DEF ts
  <2>2. \A i \in 1 .. 1 + Len(st) : ts[i] = IF i <= 1 THEN one[i] ELSE st[i - 1]
    BY <1>3, <2>1
  <2>3. ts[1] = b
    BY <1>1, <1>3, <2>2
  <2>4. ASSUME NEW i \in 1 .. Len(st) PROVE ts[i + 1] = st[i]
    <3>1. i + 1 \in 1 .. 1 + Len(st) /\ ~(i + 1 <= 1) /\ (i + 1) - 1 = i
      BY <1>1
    <3> QED BY <2>2, <3>1
  <2>5. ASSUME NEW i \in 2 .. 1 + Len(st) PROVE ts[i] = st[i - 1]
    <3>1. i \in 1 .. 1 + Len(st) /\ ~(i <= 1)
      BY <1>1
    <3> QED BY <2>2, <3>1
  <2> QED BY <1>3, <2>1, <2>3, <2>4, <2>5
<1>5. d = [a EXCEPT !.storage = ts, !.remaining = n]
  BY DEF InFront, one, b, st
<1> HIDE DEF ts, d
<1>6. DOMAIN ts = 1 .. 1 + Len(st)
  BY <1>1, <1>4, LenProperties
<1>7. d \in Arena /\ d.storage = ts /\ d.remaining = n
  BY <1>1, <1>4, <1>5 DEF Arena
<1>8. \A i \in DOMAIN ts : BlockIntact(ts[i])
  <2> TAKE i \in DOMAIN ts
  <2>1. CASE i = 1
    BY <1>2, <1>4, <2>1
  <2>2. CASE i # 1
    <3>1. i \in 2 .. 1 + Len(st) /\ i - 1 \in 1 .. Len(st)
      BY <1>1, <1>6, <2>2
    <3> QED BY <1>1, <1>4, <3>1
  <2> QED BY <2>1, <2>2
<1>9. StringsIntact(d)
  <2>1. \A s \in ts[1].strings : Bytes(s) \cap (0 .. n - 1) = {}
    BY <1>2, <1>4
  <2> QED BY <1>7, <1>8, <2>1, SoundIs
<1>10. Fits(d)
  <2>1. ts # <<>>
    BY <1>1, <1>4, EmptySeq
  <2> QED BY <1>2, <1>4, <1>7, <2>1 DEF Fits
<1>11. StringsOf(a) \subseteq StringsOf(d)
  <2>1. \A i \in DOMAIN st : \E j \in DOMAIN ts : st[i].strings \subseteq ts[j].strings
    <3> TAKE i \in DOMAIN st
    <3>1. i \in 1 .. Len(st) /\ i + 1 \in DOMAIN ts
      BY <1>1, <1>6
    <3>2. ts[i + 1] = st[i]
      BY <1>4, <3>1
    <3> QED BY <3>1, <3>2
  <2> QED BY <1>7, <2>1, StringsStay DEF st
<1> QED BY <1>7, <1>9, <1>10, <1>11 DEF Sound, d

LEMMA OwnBlockIs ==
  ASSUME NEW a, Sound(a), NEW str \in Keys, NEW len \in Nat \ {0}
  PROVE  /\ Sound(OwnBlock(a, str, len))
         /\ StringsOf(a) \cup {str} \subseteq StringsOf(OwnBlock(a, str, len))
<1> DEFINE st == a.storage
           new == [str |-> str, at |-> 0, len |-> len]
           own == NewBlock(len, {new})
           two == <<Head(st), own>>
           ts == IF st = <<>> THEN <<own>> ELSE two \o Tail(st)
           d == OwnBlock(a, str, len)
<1>1. /\ a \in Arena /\ Fits(a)
      /\ st \in Seq(Block) /\ a.remaining \in Nat
      /\ DOMAIN st = 1 .. Len(st) /\ Len(st) \in Nat
      /\ \A i \in DOMAIN st : st[i] \in Block /\ BlockIntact(st[i])
      /\ st # <<>> => /\ 1 \in DOMAIN st
                      /\ \A s \in st[1].strings : Bytes(s) \cap (0 .. a.remaining - 1) = {}
  BY SoundIs DEF Sound
<1>2. new \in [str : Keys, at : Nat, len : Nat] /\ Bytes(new) = 0 .. len - 1 /\ new.str = str
  BY DEF Bytes
<1>3. own \in Block /\ own.size = len /\ own.strings = {new} /\ new \in own.strings
  <2> HIDE DEF new
  <2> QED BY <1>2 DEF NewBlock, Block
<1> HIDE DEF new, own
<1>4. BlockIntact(own)
  <2>1. \A s \in own.strings : s = new
    BY <1>3
  <2>2. \A s \in own.strings : Bytes(s) \subseteq 0 .. own.size - 1
    BY <1>2, <1>3, <2>1
  <2>3. \A s, t \in own.strings : s = t
    BY <2>1
  <2> QED BY <2>2, <2>3 DEF BlockIntact
<1>5. d = [a EXCEPT !.storage = ts]
  BY DEF OwnBlock, own, new
<1> HIDE DEF d
<1>6. CASE st = <<>>
  <2>1. ts = <<own>>
    BY <1>6
  <2> HIDE DEF ts
  <2>2. ts \in Seq(Block) /\ Len(ts) = 1 /\ ts[1] = own /\ DOMAIN ts = {1}
    BY <1>3, <2>1
  <2>3. d \in Arena /\ d.storage = ts /\ d.remaining = a.remaining
    BY <1>1, <1>5, <2>2 DEF Arena
  <2>4. a.remaining = 0
    BY <1>1, <1>6 DEF Fits
  <2>5. StringsIntact(d)
    <3>1. 0 .. a.remaining - 1 = {}
      BY <2>4
    <3> HIDE DEF st
    <3> QED BY <1>4, <2>2, <2>3, <3>1, SoundIs
  <2>6. Fits(d)
    <3>1. Len(<<>>) = 0 /\ Len(ts) = 1
      BY <2>2
    <3>2. ts # <<>>
      BY ONLY <3>1
    <3>3. d.storage # <<>>
      BY <2>3, <3>2
    <3> QED BY <1>3, <2>2, <2>3, <2>4, <3>3 DEF Fits
  <2>7. StringsOf(a) \subseteq StringsOf(d)
    BY <1>6, StringsStay
  <2>8. str \in StringsOf(d)
    <3>1. 1 \in DOMAIN d.storage /\ new \in d.storage[1].strings
      BY <1>3, <2>2, <2>3
    <3> QED BY <1>2, <3>1, StringsOfIs
  <2> QED BY <2>3, <2>5, <2>6, <2>7, <2>8 DEF Sound, d
<1>7. CASE st # <<>>
  <2>1. ts = two \o Tail(st)
    BY <1>7
  <2> HIDE DEF ts
  <2>2. /\ Tail(st) \in Seq(Block) /\ Len(Tail(st)) = Len(st) - 1
        /\ \A i \in 1 .. Len(Tail(st)) : Tail(st)[i] = st[i + 1]
        /\ Head(st) = st[1] /\ st[1] \in Block /\ 1 \in DOMAIN st
    <3> HIDE DEF st
    <3>1. Head(st) = st[1]
      <4>1. st \in Seq(Block) /\ 1 \in 1 .. Len(st) /\ Len(st) \in 1 .. Len(st)
        BY <1>1, <1>7
      <4>2. SubSeq(st, 1, Len(st)) = st
        BY <1>1, SubSeqFull
      <4>3. Head(SubSeq(st, 1, Len(st))) = st[1]
        BY ONLY <4>1, HeadTailOfSubSeq
      <4> QED BY <4>2, <4>3
    <3> QED BY <1>1, <1>7, <3>1, HeadTailProperties
  <2>3. two \in Seq(Block) /\ Len(two) = 2 /\ two[1] = st[1] /\ two[2] = own
    <3> HIDE DEF st
    <3> QED BY <1>3, <2>2
  <2> DEFINE tl == Tail(st)
             n == Len(st)
  <2>4. tl \in Seq(Block) /\ Len(tl) = n - 1 /\ \A i \in 1 .. n - 1 : tl[i] = st[i + 1]
    BY <2>2
  <2>5. ts = two \o tl /\ n \in Nat /\ n > 0
    BY <1>1, <2>1, <2>2
  <2> HIDE DEF two, tl
  <2>6. /\ ts \in Seq(Block) /\ Len(ts) = 2 + (n - 1)
        /\ \A i \in 1 .. 2 + (n - 1) : ts[i] = IF i <= 2 THEN two[i] ELSE tl[i - 2]
    <3> HIDE DEF n, st
    <3>1. /\ two \o tl \in Seq(Block) /\ Len(two \o tl) = Len(two) + Len(tl)
          /\ \A i \in 1 .. Len(two) + Len(tl) : (two \o tl)[i] =
               IF i <= Len(two) THEN two[i] ELSE tl[i - Len(two)]
      BY ONLY <2>3, <2>4, ConcatProperties
    <3> QED BY ONLY <2>3, <2>4, <2>5, <3>1
  <2>7. /\ DOMAIN ts = 1 .. n + 1 /\ ts[1] = st[1] /\ ts[2] = own
        /\ \A i \in 3 .. n + 1 : ts[i] = st[i - 1]
        /\ \A i \in 2 .. n : ts[i + 1] = st[i]
    <3> HIDE DEF n, st
    <3>1. DOMAIN ts = 1 .. n + 1
      BY <2>5, <2>6, LenProperties
    <3>2. ts[1] = st[1] /\ ts[2] = own
      BY <2>3, <2>5, <2>6
    <3>3. ASSUME NEW i \in 3 .. n + 1 PROVE ts[i] = st[i - 1]
      <4>1. i \in 1 .. 2 + (n - 1) /\ ~(i <= 2) /\ i - 2 \in 1 .. n - 1 /\ (i - 2) + 1 = i - 1
        BY <2>5
      <4> QED BY <2>4, <2>6, <4>1
    <3>4. ASSUME NEW i \in 2 .. n PROVE ts[i + 1] = st[i]
      <4>1. i + 1 \in 3 .. n + 1 /\ (i + 1) - 1 = i
        BY <2>5
      <4> QED BY <3>3, <4>1
    <3> QED BY <3>1, <3>2, <3>3, <3>4
  <2>8. d \in Arena /\ d.storage = ts /\ d.remaining = a.remaining
    BY <1>1, <1>5, <2>6 DEF Arena
  <2>9. \A i \in DOMAIN ts : BlockIntact(ts[i])
    <3> TAKE i \in DOMAIN ts
    <3>1. CASE i = 1
      BY <1>1, <2>2, <2>7, <3>1
    <3>2. CASE i = 2
      BY <1>4, <2>7, <3>2
    <3>3. CASE i # 1 /\ i # 2
      <4> HIDE DEF n
      <4>1. i \in 3 .. n + 1 /\ i - 1 \in 1 .. n
        BY <2>5, <2>7, <3>3
      <4> QED BY <1>1, <2>7, <4>1 DEF n
    <3> QED BY <3>1, <3>2, <3>3
  <2>10. StringsIntact(d)
    <3>1. \A s \in ts[1].strings : Bytes(s) \cap (0 .. a.remaining - 1) = {}
      BY <1>1, <1>7, <2>7
    <3> QED BY <2>8, <2>9, <3>1, SoundIs
  <2>11. Fits(d)
    <3>1. ts # <<>>
      BY <2>5, <2>6, EmptySeq
    <3> QED BY <1>1, <1>7, <2>7, <2>8, <3>1 DEF Fits
  <2>12. StringsOf(a) \subseteq StringsOf(d)
    <3>1. \A i \in DOMAIN st : \E j \in DOMAIN ts : st[i].strings \subseteq ts[j].strings
      <4> TAKE i \in DOMAIN st
      <4>1. CASE i = 1
        <5>1. 1 \in DOMAIN ts
          BY <2>5, <2>7
        <5> QED BY <2>7, <4>1, <5>1
      <4>2. CASE i # 1
        <5> HIDE DEF n
        <5>1. i \in 2 .. n /\ i + 1 \in DOMAIN ts
          BY <1>1, <2>5, <2>7, <4>2 DEF n
        <5> QED BY <2>7, <5>1
      <4> QED BY <4>1, <4>2
    <3> QED BY <2>8, <3>1, StringsStay
  <2>13. str \in StringsOf(d)
    <3>1. 2 \in DOMAIN d.storage /\ new \in d.storage[2].strings
      BY <1>3, <2>5, <2>7, <2>8
    <3> QED BY <1>2, <3>1, StringsOfIs
  <2> QED BY <2>8, <2>10, <2>11, <2>12, <2>13 DEF Sound, d
<1> QED BY <1>6, <1>7

\* A new string is in the arena, with those that were there.
LEMMA StrAllocIs ==
  ASSUME NEW a, Sound(a), NEW str \in Keys, NEW len \in Nat \ {0}
  PROVE  /\ Sound(StrAlloc(a, str, len))
         /\ StringsOf(a) \cup {str} \subseteq StringsOf(StrAlloc(a, str, len))
<1> DEFINE n == BlockSize(a)
           g == NextSize(a)
           b == InFront(g, n)
<1>1. n \in Nat /\ a.remaining \in Nat
  BY SizesAreNumbers, SoundIs DEF Sound
<1>2. Sound(g) /\ StringsOf(g) = StringsOf(a)
  BY NextSizeIs DEF StringsOf
<1>3. CASE len <= a.remaining
  BY <1>3, PlacedIs DEF StrAlloc
<1>4. CASE ~(len <= a.remaining) /\ len > n
  <2>1. StrAlloc(a, str, len) = OwnBlock(g, str, len)
    BY <1>4 DEF StrAlloc
  <2> HIDE DEF g
  <2> QED BY <1>2, <2>1, OwnBlockIs
<1>5. CASE ~(len <= a.remaining) /\ ~(len > n)
  <2>1. StrAlloc(a, str, len) = Placed(b, str, len)
    BY <1>5 DEF StrAlloc, InFront
  <2> HIDE DEF g, n
  <2>2. Sound(b) /\ b.remaining = n /\ StringsOf(a) \subseteq StringsOf(b)
    BY <1>1, <1>2, InFrontIs
  <2> HIDE DEF b
  <2>3. len <= b.remaining
    BY <1>1, <1>5, <2>2
  <2>4. /\ Sound(Placed(b, str, len))
        /\ StringsOf(b) \cup {str} \subseteq StringsOf(Placed(b, str, len))
    BY <2>2, <2>3, PlacedIs
  <2> QED BY <2>1, <2>2, <2>4
<1> QED BY <1>3, <1>4, <1>5

-----------------------------------------------------------------------------
(* The operations.                                                         *)

LEMMA MaxIs ==
  ASSUME NEW a \in Int, NEW b \in Int, NEW c \in Int
  PROVE  /\ Max({a, b}) \in {a, b} /\ Max({a, b}) >= a /\ Max({a, b}) >= b
         /\ Max({a, b, c}) \in {a, b, c} /\ Max({a, b, c}) >= a
<1>1. \A S : (\E x \in S : \A y \in S : x >= y) => Max(S) \in S /\ \A y \in S : Max(S) >= y
  BY DEF Max
<1>2. \E x \in {a, b} : \A y \in {a, b} : x >= y
  OBVIOUS
<1>3. \E x \in {a, b, c} : \A y \in {a, b, c} : x >= y
  <2>1. CASE a >= b /\ a >= c
    BY <2>1
  <2>2. CASE b >= a /\ b >= c
    BY <2>2
  <2>3. CASE c >= a /\ c >= b
    BY <2>3
  <2> QED BY <2>1, <2>2, <2>3
<1> QED BY <1>1, <1>2, <1>3

LEMMA GrownIs ==
  ASSUME NEW len \in Nat, NEW cap \in Nat, NEW add \in Nat, NEW min \in Nat
  PROVE  /\ GrownCapacity(len, cap, add, min) \in Nat
         /\ GrownCapacity(len, cap, add, min) >= len + add
         /\ GrownCapacity(len, cap, add, min) >= min
<1> DEFINE s == len + add
           need == Max({s, min})
           d == 2 * cap
<1>1. s \in Nat /\ d \in Nat
  OBVIOUS
<1> HIDE DEF s, d
<1>2. need \in Nat /\ need >= s /\ need >= min
  <2>0. s \in Int /\ min \in Int
    BY <1>1
  <2>1. need \in {s, min} /\ need >= s /\ need >= min
    BY ONLY <2>0, MaxIs
  <2> HIDE DEF need
  <2> QED BY <1>1, <2>1
<1> HIDE DEF need
<1>3. Max({need, d, 4}) \in Nat /\ Max({need, d, 4}) >= need
  <2>0. need \in Int /\ d \in Int /\ 4 \in Int
    BY <1>1, <1>2
  <2> DEFINE x == Max({need, d, 4})
  <2>1. x \in {need, d, 4} /\ x >= need
    BY ONLY <2>0, MaxIs
  <2> HIDE DEF x
  <2>2. x \in Nat /\ x >= need
    BY <1>1, <1>2, <2>1
  <2> QED BY <2>2 DEF x
<1>4. GrownCapacity(len, cap, add, min) = IF need <= cap THEN cap ELSE Max({need, d, 4})
  BY DEF GrownCapacity, need, s, d
<1>5. s = len + add
  BY DEF s
<1> QED BY <1>1, <1>2, <1>3, <1>4, <1>5

LEMMA WithDefaultIs ==
  ASSUME IInv
  PROVE  WithDefault \in Nat /\ Len(arr) + 1 <= WithDefault
<1>1. TypeOK /\ HeaderInv
  BY DEF IInv
<1>2. capacity \in Nat /\ Len(arr) \in Nat
  BY <1>1, Typing
<1>3. CASE capacity = 0
  <2>1. Len(arr) = 0
    BY <1>1, <1>3 DEF HeaderInv
  <2>2. GrownCapacity(0, 0, 0, 1) \in Nat /\ GrownCapacity(0, 0, 0, 1) >= 1
    BY GrownIs
  <2> QED BY <1>3, <2>1, <2>2 DEF WithDefault
<1>4. CASE capacity # 0
  BY <1>1, <1>2, <1>4 DEF WithDefault, HeaderInv
<1> QED BY <1>3, <1>4

LEMMA GoodTyped ==
  ASSUME NEW t, NEW es, Good(t, es)
  PROVE  /\ t.slots \in Nat /\ t.slots > 0 /\ t.used \in Nat /\ t.tombs \in Nat
         /\ t.mode \in Modes /\ t.seed \in Seeds /\ t.slots % BucketLength = 0
         /\ t.string \in Arena /\ DOMAIN t.cells = 0 .. t.slots - 1
<1>1. IsTable(t) /\ Counted(t)
  BY DEF Good
<1>2. t.used \in Nat /\ t.tombs \in Nat
  BY <1>1, CountsAre DEF Counted
<1>3. t.slots % BucketLength = 0
  BY <1>1, TableIs DEF IsSize
<1>4. DOMAIN t.cells = 0 .. t.slots - 1
  BY <1>1, TableIs DEF Slots
<1> QED BY <1>1, <1>2, <1>3, <1>4, TableIs

\* What an operation has to establish when it leaves an index.
LEMMA Established ==
  ASSUME arr' \in Seq(Keys), capacity' \in Nat, Len(arr') + 1 <= capacity', temp' \in Int,
         copies' \in [Keys -> Nat],
         Good(index', arr'), Complete(index', arr'), index'.used = Len(arr'),
         index'.used <= UsedMax(index'.slots), index'.tombs <= TombMax(index'.slots),
         NoRepeats(arr'), StringsInv', CopiesAreKeys', ArenaKeepsKeys'
  PROVE  IInv'
<1>1. /\ index'.slots \in Nat /\ index'.slots > 0 /\ index'.used \in Nat /\ index'.tombs \in Nat
      /\ index'.mode \in Modes /\ index'.seed \in Seeds /\ index'.slots % BucketLength = 0
      /\ DOMAIN index'.cells = 0 .. index'.slots - 1
  BY GoodTyped
<1>2. TypeOK'
  BY <1>1 DEF TypeOK
<1>3. HeaderInv'
  <2>1. Len(arr') \in Nat
    BY LenProperties
  <2> QED BY <2>1 DEF HeaderInv
<1>4. IndexInv' /\ LoadInv'
  BY <1>1 DEF IndexInv, LoadInv
<1> QED BY <1>2, <1>3, <1>4 DEF IInv

\* The probe for a key on the index.
LEMMA FindSlotIs ==
  ASSUME NEW t, NEW es \in Seq(Keys), NEW k \in Keys, Good(t, es), Complete(t, es), HasRoom(t)
  PROVE  /\ \A j \in 1 .. Len(es) : es[j] = k =>
              /\ FindSlot(t, es, k) \in UsedSlots(t) /\ FindSlot(t, es, k) >= 0
              /\ t.cells[FindSlot(t, es, k)] = [hash |-> Stored(k, t.seed), index |-> j - 1]
         /\ (\A j \in 1 .. Len(es) : es[j] # k) => FindSlot(t, es, k) = -1
<1> DEFINE h == Stored(k, t.seed)
           m == Ends(t, es, k)
           s == Probe(t.slots, h, m)
<1>1. IsTable(t) /\ Says(t, es) /\ Apart(t, es) /\ Reach(t)
  BY DEF Good
<1>2. m \in Slots(t) /\ (Holds(t, es, k, m) => s \in UsedSlots(t))
  BY <1>1, Finds
<1>3. /\ Holds(t, es, k, m) <=> \E j \in 1 .. Len(es) : es[j] = k
      /\ \A j \in 1 .. Len(es) : es[j] = k =>
           CellAt(t, h, m) = [hash |-> h, index |-> j - 1]
  BY FindsEntry
<1>4. FindSlot(t, es, k) = IF Holds(t, es, k, m) THEN s ELSE -1
  BY DEF FindSlot, Ends
<1>5. CellAt(t, h, m) = t.cells[s]
  BY DEF CellAt
<1>6. s \in UsedSlots(t) => s >= 0
  BY <1>1, TableIs DEF UsedSlots, Slots
<1> QED BY <1>2, <1>3, <1>4, <1>5, <1>6

\* An index there is.
LEMMA IndexIs ==
  ASSUME IInv, index.slots # 0
  PROVE  /\ Good(index, arr) /\ Complete(index, arr) /\ HasRoom(index)
         /\ index.used = Len(arr) /\ index.used <= UsedMax(index.slots)
         /\ index.tombs <= TombMax(index.slots)
<1>1. IndexInv /\ LoadInv /\ index.slots \in Nat
  BY DEF IInv, TypeOK
<1>2. /\ Good(index, arr) /\ Complete(index, arr)
      /\ index.used = Len(arr) /\ index.used <= UsedMax(index.slots)
      /\ index.tombs <= TombMax(index.slots)
  BY <1>1 DEF IndexInv, LoadInv
<1> QED BY <1>2, Roomy

LEMMA InitInv == Init => IInv
<1> SUFFICES ASSUME Init PROVE IInv
  OBVIOUS
<1>1. arr = <<>> /\ capacity = 0 /\ temp = 0 /\ index = NoIndex /\ copies = [k \in Keys |-> 0]
  BY DEF Init
<1>2. /\ index.slots = 0 /\ index.used = 0 /\ index.tombs = 0 /\ index.mode = "caller"
      /\ DOMAIN index.cells = {}
  BY <1>1 DEF NoIndex
<1>3. TypeOK
  BY <1>1, <1>2 DEF TypeOK, Modes
<1>4. HeaderInv /\ IndexInv /\ LoadInv /\ StringsInv /\ ArenaKeepsKeys /\ CopiesAreKeys
  BY <1>1, <1>2 DEF HeaderInv, IndexInv, LoadInv, StringsInv, ArenaKeepsKeys, CopiesAreKeys
<1>5. NoRepeats(arr)
  BY <1>1 DEF NoRepeats
<1> QED BY <1>3, <1>4, <1>5 DEF IInv

\* An operation that leaves entries, index and copies alone.
LEMMA UntouchedInv ==
  ASSUME IInv, capacity' \in Nat, Len(arr) + 1 <= capacity', temp' \in Int,
         UNCHANGED <<arr, index, copies>>
  PROVE  IInv'
<1>1. arr' = arr /\ index' = index /\ copies' = copies
  OBVIOUS
<1>2. TypeOK'
  BY <1>1 DEF IInv, TypeOK
<1>3. HeaderInv'
  <2>1. Len(arr) \in Nat
    BY Typing DEF IInv
  <2> QED BY <1>1, <2>1 DEF HeaderInv
<1>4. IndexInv' /\ LoadInv' /\ NoRepeats(arr') /\ StringsInv' /\ CopiesAreKeys' /\ ArenaKeepsKeys'
  BY <1>1 DEF IInv, IndexInv, LoadInv, StringsInv, CopiesAreKeys, ArenaKeepsKeys
<1> QED BY <1>2, <1>3, <1>4 DEF IInv

LEMMA DefaultInv == ASSUME IInv, Default PROVE IInv'
<1>1. capacity' = WithDefault /\ temp' = temp /\ UNCHANGED <<arr, index, copies>>
  BY DEF Default
<1>2. temp \in Int
  BY DEF IInv, TypeOK
<1> QED BY <1>1, <1>2, WithDefaultIs, UntouchedInv

\* What stbds_hmget_key answers.
LEMMA GetAnswers ==
  ASSUME IInv, NEW k \in Keys, Get(k)
  PROVE  /\ \A j \in 1 .. Len(arr) : arr[j] = k => temp' = j - 1
         /\ (\A j \in 1 .. Len(arr) : arr[j] # k) => temp' = -1
<1>1. temp' = IF index.slots = 0 THEN -1
              ELSE IF FindSlot(index, arr, k) < 0 THEN -1
              ELSE index.cells[FindSlot(index, arr, k)].index
  BY DEF Get
<1>2. CASE index.slots = 0
  <2>1. arr = <<>>
    BY <1>2 DEF IInv, IndexInv
  <2>2. Len(arr) = 0
    BY <2>1
  <2> QED BY <1>1, <1>2, <2>2
<1>3. CASE index.slots # 0
  <2>1. arr \in Seq(Keys)
    BY Typing DEF IInv
  <2>2. /\ \A j \in 1 .. Len(arr) : arr[j] = k =>
             /\ FindSlot(index, arr, k) \in UsedSlots(index) /\ FindSlot(index, arr, k) >= 0
             /\ index.cells[FindSlot(index, arr, k)]
                  = [hash |-> Stored(k, index.seed), index |-> j - 1]
        /\ (\A j \in 1 .. Len(arr) : arr[j] # k) => FindSlot(index, arr, k) = -1
    BY <1>3, <2>1, IndexIs, FindSlotIs
  <2>3. \A s \in UsedSlots(index) : s \in Int
    BY <1>3, IndexIs, GoodTyped DEF UsedSlots, Slots
  <2> DEFINE f == FindSlot(index, arr, k)
  <2>4. ASSUME NEW j \in 1 .. Len(arr), arr[j] = k PROVE temp' = j - 1
    <3>1. f >= 0 /\ f \in Int /\ index.cells[f] = [hash |-> Stored(k, index.seed), index |-> j - 1]
      BY <2>2, <2>3, <2>4
    <3> HIDE DEF f
    <3>2. ~(f < 0) /\ index.cells[f].index = j - 1
      BY <3>1
    <3> QED BY <1>1, <1>3, <3>2 DEF f
  <2>5. ASSUME \A j \in 1 .. Len(arr) : arr[j] # k PROVE temp' = -1
    <3>1. f = -1
      BY <2>2, <2>5
    <3> QED BY <1>1, <1>3, <3>1
  <2> QED BY <2>4, <2>5
<1> QED BY <1>2, <1>3

LEMMA GetInv == ASSUME IInv, NEW k \in Keys, Get(k) PROVE IInv'
<1>1. capacity' = WithDefault /\ UNCHANGED <<arr, index, copies>>
  BY DEF Get
<1>2. temp' \in Int
  BY GetAnswers
<1> QED BY <1>1, <1>2, WithDefaultIs, UntouchedInv

LEMMA NewInv == ASSUME IInv, NEW mode \in {"strdup", "arena"}, New(mode) PROVE IInv'
<1>1. capacity = 0 /\ capacity' = WithDefault /\ arr' = arr /\ temp' = temp /\ copies' = copies
  BY DEF New
<1>2. PICK seed \in Seeds : index' = NewIndex(BucketLength, seed, mode)
  BY DEF New
<1>3. arr = <<>> /\ index = NoIndex
  BY <1>1 DEF IInv, HeaderInv
<1>4. mode \in Modes /\ NoIndex.mode = "caller"
  BY DEF Modes, NoIndex
<1>5. /\ Good(index', <<>>) /\ Complete(index', <<>>)
      /\ index'.used = 0 /\ index'.tombs = 0 /\ index'.slots = BucketLength
      /\ index'.mode = mode /\ index'.string = NoStrings
  BY <1>2, <1>4, NewIndexGood
<1>6. UsedMax(BucketLength) > 0 /\ UsedMax(BucketLength) \in Nat /\ TombMax(BucketLength) \in Nat
  BY Sizes, Thresholds
<1>7. arr' \in Seq(Keys) /\ capacity' \in Nat /\ Len(arr') + 1 <= capacity' /\ Len(arr') = 0
      /\ temp' \in Int /\ copies' \in [Keys -> Nat]
  BY <1>1, <1>3, WithDefaultIs DEF IInv, TypeOK
<1>8. NoRepeats(arr')
  BY <1>1, <1>3 DEF NoRepeats
<1>9. StringsInv'
  BY <1>5 DEF StringsInv, Fits, NoStrings
<1>10. ArenaKeepsKeys'
  BY <1>1, <1>3, <1>5 DEF ArenaKeepsKeys, StringsIntact, NoStrings
<1>11. CopiesAreKeys'
  BY <1>1, <1>3, <1>4 DEF IInv, CopiesAreKeys
<1> QED BY <1>1, <1>3, <1>5, <1>6, <1>7, <1>8, <1>9, <1>10, <1>11, Established

\* Where the probe of an insertion ends.
LEMMA PutProbe ==
  ASSUME IInv, NEW k \in Keys, NEW t \in ForPut(index)
  PROVE  LET i == Min(PutStops(t, k)) IN
         /\ i = Ends(t, arr, k) /\ i \in Slots(t)
         /\ Holds(t, arr, k, i) <=> \E j \in 1 .. Len(arr) : arr[j] = k
         /\ \A j \in 1 .. Len(arr) : arr[j] = k =>
              CellAt(t, Stored(k, t.seed), i) = [hash |-> Stored(k, t.seed), index |-> j - 1]
         /\ ~Holds(t, arr, k, i) =>
              /\ CellAt(t, Stored(k, t.seed), i) = Empty
              /\ \A j \in 0 .. i - 1 : CellAt(t, Stored(k, t.seed), j) # Empty
<1>1. IsTable(t) /\ Good(t, arr) /\ Complete(t, arr) /\ HasRoom(t) /\ arr \in Seq(Keys)
  BY ForPutIs, Typing DEF IInv
<1>2. Says(t, arr) /\ Apart(t, arr) /\ Reach(t)
  BY <1>1 DEF Good
<1>3. Min(PutStops(t, k)) = Ends(t, arr, k)
  BY DEF PutStops, Ends
<1>4. /\ Ends(t, arr, k) \in Slots(t)
      /\ \A j \in 0 .. Ends(t, arr, k) - 1 : CellAt(t, Stored(k, t.seed), j) # Empty
      /\ ~Holds(t, arr, k, Ends(t, arr, k)) =>
           CellAt(t, Stored(k, t.seed), Ends(t, arr, k)) = Empty
  BY <1>1, <1>2, Finds
<1>5. /\ Holds(t, arr, k, Ends(t, arr, k)) <=> \E j \in 1 .. Len(arr) : arr[j] = k
      /\ \A j \in 1 .. Len(arr) : arr[j] = k =>
           CellAt(t, Stored(k, t.seed), Ends(t, arr, k))
             = [hash |-> Stored(k, t.seed), index |-> j - 1]
  BY <1>1, FindsEntry
<1> QED BY <1>3, <1>4, <1>5

\* What stbds_hmput_key answers, and what it makes of the array.
LEMMA PutAnswers ==
  ASSUME IInv, NEW k \in Keys, Put(k)
  PROVE  /\ \A j \in 1 .. Len(arr) : arr[j] = k => temp' = j - 1 /\ arr' = arr
         /\ (\A j \in 1 .. Len(arr) : arr[j] # k) => temp' = Len(arr) /\ arr' = Append(arr, k)
<1> DEFINE i(t) == Min(PutStops(t, k))
<1>1. PICK t \in ForPut(index) : IF Holds(t, arr, k, i(t)) THEN Update(t, k, i(t))
                                 ELSE Insert(t, k, i(t))
  BY DEF Put
<1>2. /\ Holds(t, arr, k, i(t)) <=> \E j \in 1 .. Len(arr) : arr[j] = k
      /\ \A j \in 1 .. Len(arr) : arr[j] = k =>
           CellAt(t, Stored(k, t.seed), i(t)) = [hash |-> Stored(k, t.seed), index |-> j - 1]
  BY PutProbe
<1> HIDE DEF i
<1>3. ASSUME NEW j \in 1 .. Len(arr), arr[j] = k PROVE temp' = j - 1 /\ arr' = arr
  <2>1. Update(t, k, i(t))
    BY <1>1, <1>2, <1>3
  <2>2. temp' = CellAt(t, Stored(k, t.seed), i(t)).index /\ arr' = arr
    BY <2>1 DEF Update
  <2>3. CellAt(t, Stored(k, t.seed), i(t)) = [hash |-> Stored(k, t.seed), index |-> j - 1]
    BY <1>2, <1>3
  <2> QED BY <2>2, <2>3
<1>4. ASSUME \A j \in 1 .. Len(arr) : arr[j] # k
      PROVE  temp' = Len(arr) /\ arr' = Append(arr, k)
  <2>1. Insert(t, k, i(t))
    BY <1>1, <1>2, <1>4
  <2> QED BY <2>1 DEF Insert
<1> QED BY <1>3, <1>4

LEMMA UpdateInv ==
  ASSUME IInv, NEW k \in Keys, NEW t \in ForPut(index), NEW i, Update(t, k, i), temp' \in Int
  PROVE  IInv'
<1>1. capacity' = WithDefault /\ index' = t /\ arr' = arr /\ copies' = copies
  BY DEF Update
<1>2. /\ Good(t, arr) /\ Complete(t, arr) /\ IsTable(t)
      /\ t.used = Len(arr) /\ t.used < UsedMax(t.slots) /\ t.tombs <= TombMax(t.slots)
      /\ t.mode = index.mode /\ t.string = index.string
  BY ForPutIs
<1>3. t.used <= UsedMax(t.slots)
  BY <1>2, TableIs, Thresholds
<1>4. /\ arr \in Seq(Keys) /\ copies \in [Keys -> Nat] /\ NoRepeats(arr)
      /\ StringsInv /\ CopiesAreKeys /\ ArenaKeepsKeys
  BY DEF IInv, TypeOK
<1>5. StringsInv' /\ CopiesAreKeys' /\ ArenaKeepsKeys'
  BY <1>1, <1>2, <1>4 DEF StringsInv, CopiesAreKeys, ArenaKeepsKeys
<1> QED BY <1>1, <1>2, <1>3, <1>4, <1>5, WithDefaultIs, Established

LEMMA InsertInv ==
  ASSUME IInv, NEW k \in Keys, NEW t \in ForPut(index),
         Insert(t, k, Min(PutStops(t, k))), ~Holds(t, arr, k, Min(PutStops(t, k)))
  PROVE  IInv'
<1> DEFINE i == Min(PutStops(t, k))
           at == PlaceFor(t, k, i)
           u == PutIn(t, k, i)
           a == StrAlloc(u.string, k, KeyLen[k])
           n == Len(arr)
<1>1. /\ Good(t, arr) /\ Complete(t, arr) /\ IsTable(t)
      /\ t.used = Len(arr) /\ t.used < UsedMax(t.slots) /\ t.tombs <= TombMax(t.slots)
      /\ t.mode = index.mode /\ t.string = index.string
  BY ForPutIs
<1>2. /\ arr \in Seq(Keys) /\ Len(arr) \in Nat /\ copies \in [Keys -> Nat] /\ NoRepeats(arr)
      /\ StringsInv /\ CopiesAreKeys /\ ArenaKeepsKeys
      /\ \A j \in 1 .. Len(arr) : arr[j] \in Keys
      /\ DOMAIN arr = 1 .. Len(arr)
  BY Typing, LenProperties DEF IInv, TypeOK
<1>3. /\ i \in Slots(t)
      /\ \A j \in 1 .. Len(arr) : arr[j] # k
      /\ CellAt(t, Stored(k, t.seed), i) = Empty
      /\ \A j \in 0 .. i - 1 : CellAt(t, Stored(k, t.seed), j) # Empty
  BY PutProbe
<1>4. /\ arr' = Append(arr, k) /\ temp' = Len(arr) /\ capacity' = InsertCapacity
      /\ index' = IF t.mode = "arena" THEN [u EXCEPT !.string = StrAlloc(@, k, KeyLen[k])] ELSE u
      /\ copies' = IF t.mode = "strdup" THEN [copies EXCEPT ![k] = @ + 1] ELSE copies
  BY DEF Insert, PutIn, PlaceFor, CellFor, TombsMet
<1> HIDE DEF i
<1>5. /\ Enters(t, u, at, CellFor(t, k)) /\ u.used = t.used + 1
      /\ u.tombs = IF t.cells[at] = Deleted THEN t.tombs - 1 ELSE t.tombs
      /\ u.mode = t.mode /\ u.string = t.string
  BY <1>1, <1>2, <1>3, PutInEnters
<1> HIDE DEF u, at
<1>6. Good(u, Append(arr, k)) /\ Complete(u, Append(arr, k)) /\ IsTable(u) /\ u.slots = t.slots
  BY <1>1, <1>2, <1>3, <1>5, PutInGood DEF Enters
<1>7. /\ Append(arr, k) \in Seq(Keys) /\ Len(Append(arr, k)) = n + 1
      /\ DOMAIN Append(arr, k) = 1 .. n + 1
      /\ Append(arr, k)[n + 1] = k /\ \A j \in 1 .. n : Append(arr, k)[j] = arr[j]
  <2> DEFINE es == Append(arr, k)
  <2>1. /\ es \in Seq(Keys) /\ Len(es) = n + 1
        /\ es[n + 1] = k /\ \A j \in 1 .. n : es[j] = arr[j]
    BY <1>2, AppendProperties
  <2> HIDE DEF es
  <2>2. DOMAIN es = 1 .. n + 1
    BY <2>1, LenProperties
  <2> QED BY <2>1, <2>2 DEF es
<1>8. u.used <= UsedMax(u.slots) /\ u.tombs <= TombMax(u.slots)
  <2>1. /\ UsedMax(t.slots) \in Nat /\ TombMax(t.slots) \in Nat
        /\ t.used \in Int /\ t.tombs \in Int
    BY <1>1, TableIs, Thresholds
  <2> QED BY <1>1, <1>5, <1>6, <2>1
<1>9. /\ Good(index', arr') /\ Complete(index', arr') /\ index'.used = u.used /\ index'.tombs = u.tombs
      /\ index'.slots = u.slots /\ index'.mode = u.mode
      /\ (t.mode # "arena" => index'.string = u.string)
      /\ (t.mode = "arena" =>
            /\ index'.string = a /\ Sound(a)
            /\ {arr[j] : j \in DOMAIN arr} \cup {k} \subseteq StringsOf(a))
  <2>1. CASE t.mode # "arena"
    BY <1>4, <1>6, <2>1
  <2>2. CASE t.mode = "arena"
    <3>1. index' = [u EXCEPT !.string = a]
      BY <1>4, <2>2
    <3>2. Sound(u.string) /\ {arr[j] : j \in DOMAIN arr} \subseteq StringsOf(u.string)
      <4>1. u.string \in Arena
        BY <1>6, TableIs
      <4>2. u.string = index.string /\ index.mode = "arena"
        BY <1>1, <1>5, <2>2
      <4> QED BY <1>2, <4>1, <4>2 DEF Sound, StringsInv, ArenaKeepsKeys
    <3>3. KeyLen[k] \in Nat \ {0}
      BY MapAssumption
    <3> DEFINE x == u.string
               len == KeyLen[k]
    <3>4. Sound(a) /\ StringsOf(x) \cup {k} \subseteq StringsOf(a)
      <4>1. Sound(x)
        BY <3>2
      <4> HIDE DEF x, len
      <4> QED BY <3>3, <4>1, StrAllocIs DEF x, len
    <3> HIDE DEF a
    <3>5. a \in Arena
      BY <3>4 DEF Sound
    <3> DEFINE v == index'
    <3>6. /\ u \in [slots : Nat, used : Int, tombs : Int, seed : Seeds,
                    cells : [0 .. u.slots - 1 -> Cell], mode : Modes, string : Arena]
          /\ IsSize(u.slots)
      BY <1>6 DEF IsTable
    <3>7. v = [u EXCEPT !.string = a]
      BY <3>1
    <3> HIDE DEF v
    <3>8. /\ v \in [slots : Nat, used : Int, tombs : Int, seed : Seeds,
                    cells : [0 .. u.slots - 1 -> Cell], mode : Modes, string : Arena]
          /\ v.slots = u.slots /\ v.seed = u.seed /\ v.cells = u.cells /\ v.used = u.used
          /\ v.tombs = u.tombs /\ v.mode = u.mode /\ v.string = a
      BY <3>5, <3>6, <3>7
    <3>9. IsTable(v)
      BY <3>6, <3>8 DEF IsTable
    <3>10. Good(v, Append(arr, k)) /\ Complete(v, Append(arr, k))
      BY <1>6, <3>8, <3>9, SameCells
    <3> QED BY <1>4, <2>2, <3>2, <3>4, <3>8, <3>10 DEF v
  <2> QED BY <2>1, <2>2
<1> HIDE DEF a
<1>10. NoRepeats(arr')
  <2> SUFFICES ASSUME NEW p \in 1 .. n + 1, NEW q \in 1 .. n + 1,
                      Append(arr, k)[p] = Append(arr, k)[q]
               PROVE  p = q
    BY <1>4, <1>7 DEF NoRepeats
  <2>1. \A j \in 1 .. n + 1 : j \in 1 .. n \/ j = n + 1
    BY <1>2
  <2> QED BY <1>2, <1>3, <1>7, <2>1 DEF NoRepeats
<1>11. copies' \in [Keys -> Nat] /\ CopiesAreKeys'
  <2>1. \A x \in Keys : (\E j \in DOMAIN arr' : arr'[j] = x)
                          <=> (x = k \/ \E j \in DOMAIN arr : arr[j] = x)
    <3>1. DOMAIN arr' = 1 .. n + 1 /\ arr'[n + 1] = k /\ \A j \in 1 .. n : arr'[j] = arr[j]
      BY <1>4, <1>7
    <3>2. DOMAIN arr = 1 .. n /\ n \in Nat
      BY <1>2
    <3>3. \A j \in 1 .. n + 1 : j \in 1 .. n \/ j = n + 1
      BY <3>2
    <3>4. n + 1 \in 1 .. n + 1 /\ \A j \in 1 .. n : j \in 1 .. n + 1
      BY <3>2
    <3> HIDE DEF n
    <3> QED BY <3>1, <3>2, <3>3, <3>4
  <2>2. index'.mode = index.mode /\ t.mode = index.mode
    BY <1>1, <1>5, <1>9
  <2>3. \A x \in Keys : copies[x] = IF index.mode = "strdup" /\ \E j \in DOMAIN arr : arr[j] = x
                                    THEN 1 ELSE 0
    BY <1>2 DEF CopiesAreKeys
  <2>4. ~\E j \in DOMAIN arr : arr[j] = k
    BY <1>2, <1>3
  <2>5. CASE index.mode = "strdup"
    <3>1. copies[k] = 0 /\ copies' = [copies EXCEPT ![k] = copies[k] + 1]
      BY <1>4, <2>2, <2>3, <2>4, <2>5
    <3>2. copies' \in [Keys -> Nat] /\ copies'[k] = 1 /\ \A x \in Keys : x # k => copies'[x] = copies[x]
      BY <1>2, <3>1
    <3>3. \A x \in Keys : copies'[x] = IF \E j \in DOMAIN arr' : arr'[j] = x THEN 1 ELSE 0
      BY <2>1, <2>3, <2>5, <3>2
    <3> QED BY <2>2, <2>5, <3>2, <3>3 DEF CopiesAreKeys
  <2>6. CASE index.mode # "strdup"
    <3>1. copies' = copies
      BY <1>4, <2>2, <2>6
    <3> QED BY <1>2, <2>2, <2>3, <2>6, <3>1 DEF CopiesAreKeys
  <2> QED BY <2>5, <2>6
<1>12. StringsInv' /\ ArenaKeepsKeys'
  <2> SUFFICES ASSUME index'.mode = "arena"
               PROVE  /\ Fits(index'.string) /\ StringsIntact(index'.string)
                      /\ {arr'[j] : j \in DOMAIN arr'} \subseteq StringsOf(index'.string)
    BY DEF StringsInv, ArenaKeepsKeys
  <2>1. /\ index'.string = a /\ Sound(a)
        /\ {arr[j] : j \in DOMAIN arr} \cup {k} \subseteq StringsOf(a)
    BY <1>5, <1>9
  <2>2. \A j \in DOMAIN arr' : arr'[j] \in {arr[p] : p \in DOMAIN arr} \cup {k}
    <3>1. \A j \in 1 .. n + 1 : j \in 1 .. n \/ j = n + 1
      BY <1>2
    <3> QED BY <1>2, <1>4, <1>7, <3>1
  <2> QED BY <2>1, <2>2 DEF Sound
<1>13. capacity' \in Nat /\ Len(arr') + 1 <= capacity'
  <2> DEFINE m == n + 1
             w == WithDefault
             g == GrownCapacity(m, w, 1, 0)
  <2>1. m \in Nat /\ w \in Nat
    BY <1>2, WithDefaultIs
  <2>2. capacity' = g
    BY <1>4 DEF InsertCapacity
  <2>3. g \in Nat /\ g >= m + 1
    <3> HIDE DEF m, w
    <3> QED BY ONLY <2>1, GrownIs
  <2> HIDE DEF g
  <2>4. Len(arr') = m
    BY <1>4, <1>7
  <2> QED BY <2>2, <2>3, <2>4
<1>14. index'.used = Len(arr') /\ index'.used <= UsedMax(index'.slots)
       /\ index'.tombs <= TombMax(index'.slots)
  BY <1>1, <1>4, <1>5, <1>7, <1>8, <1>9
<1>15. arr' \in Seq(Keys) /\ temp' \in Int
  BY <1>2, <1>4, <1>7
<1> QED BY <1>9, <1>10, <1>11, <1>12, <1>13, <1>14, <1>15, Established

LEMMA PutInv == ASSUME IInv, NEW k \in Keys, Put(k) PROVE IInv'
<1> DEFINE i(t) == Min(PutStops(t, k))
<1>1. PICK t \in ForPut(index) : IF Holds(t, arr, k, i(t)) THEN Update(t, k, i(t))
                                 ELSE Insert(t, k, i(t))
  BY DEF Put
<1>2. temp' \in Int
  <2>1. Len(arr) \in Nat
    BY Typing DEF IInv
  <2> QED BY <2>1, PutAnswers
<1>3. CASE Holds(t, arr, k, i(t))
  <2>1. Update(t, k, i(t))
    BY <1>1, <1>3
  <2> HIDE DEF i
  <2> QED BY <1>2, <2>1, UpdateInv
<1>4. CASE ~Holds(t, arr, k, i(t))
  BY <1>1, <1>4, InsertInv
<1> QED BY <1>3, <1>4

-----------------------------------------------------------------------------
(* A key is deleted: the last entry fills the gap.                         *)

GapFilled(es, j) == Front([es EXCEPT ![j] = Last(es)])

LEMMA GapFilledIs ==
  ASSUME NEW es \in Seq(Keys), NEW j \in 1 .. Len(es)
  PROVE  /\ Len(es) \in Nat \ {0}
         /\ GapFilled(es, j) \in Seq(Keys) /\ Len(GapFilled(es, j)) = Len(es) - 1
         /\ DOMAIN GapFilled(es, j) = 1 .. Len(es) - 1
         /\ \A i \in 1 .. Len(es) - 1 : GapFilled(es, j)[i] = IF i = j THEN es[Len(es)] ELSE es[i]
<1> DEFINE n == Len(es)
           fs == [es EXCEPT ![j] = Last(es)]
           m == n - 1
           gs == SubSeq(fs, 1, m)
<1>1. n \in Nat /\ n > 0 /\ m \in Nat
  BY LenProperties
<1>2. Last(es) = es[n] /\ es[n] \in Keys
  BY <1>1, ElementOfSeq DEF Last
<1>3. fs \in Seq(Keys) /\ Len(fs) = n /\ \A i \in 1 .. n : fs[i] = IF i = j THEN es[n] ELSE es[i]
  BY <1>2, ExceptSeq
<1>4. GapFilled(es, j) = gs
  <2> HIDE DEF fs
  <2>1. GapFilled(es, j) = Front(fs)
    BY DEF GapFilled, fs
  <2> QED BY <1>3, <2>1 DEF Front
<1> HIDE DEF fs
<1>5. gs \in Seq(Keys) /\ Len(gs) = m /\ \A i \in 1 .. m : gs[i] = fs[i]
  <2>1. 1 \in 1 .. Len(fs) + 1 /\ m \in 0 .. Len(fs) /\ m \in Nat
    BY <1>1, <1>3
  <2> HIDE DEF n, m
  <2>2. \A i \in 1 .. m : fs[i] \in Keys
    BY <1>1, <1>3, <2>1, ElementOfSeq
  <2>3. gs = [i \in 1 .. m |-> fs[i]]
    BY <1>1, <1>3, <2>1
  <2> HIDE DEF gs
  <2>4. gs \in Seq(Keys) /\ Len(gs) = m
    BY <2>1, <2>2, <2>3
  <2> QED BY <2>3, <2>4
<1>6. DOMAIN gs = 1 .. m
  <2> HIDE DEF gs, m
  <2> QED BY <1>5, LenProperties
<1>7. \A i \in 1 .. m : i \in 1 .. n
  BY <1>1
<1> HIDE DEF gs
<1>8. \A i \in 1 .. m : gs[i] = IF i = j THEN es[n] ELSE es[i]
  BY ONLY <1>3, <1>5, <1>7
<1>9. n \in Nat \ {0}
  BY <1>1
<1> QED BY ONLY <1>4, <1>5, <1>6, <1>8, <1>9

\* v is t without the entry at slot: the last of n entries has its index, old.
Closed(v, t, slot, old, n) ==
  /\ IsTable(v) /\ v.slots = t.slots /\ v.seed = t.seed
  /\ v.used = t.used - 1 /\ v.tombs = t.tombs + 1
  /\ v.cells[slot] = Deleted
  /\ \A r \in Slots(t) \ {slot} :
       v.cells[r] = IF InUse(t.cells[r]) /\ t.cells[r].index = n - 1
                    THEN [hash |-> t.cells[r].hash, index |-> old]
                    ELSE t.cells[r]

LEMMA ClosedGood ==
  ASSUME NEW es \in Seq(Keys), NEW t, Good(t, es), Complete(t, es),
         NEW slot \in UsedSlots(t), NEW v, Closed(v, t, slot, t.cells[slot].index, Len(es))
  PROVE  LET j == t.cells[slot].index + 1 IN
         Good(v, GapFilled(es, j)) /\ Complete(v, GapFilled(es, j))
<1> DEFINE old == t.cells[slot].index
           j == old + 1
           n == Len(es)
           fs == GapFilled(es, j)
<1>1. IsTable(t) /\ Says(t, es) /\ Apart(t, es) /\ Reach(t) /\ Counted(t) /\ n \in Nat
  BY LenProperties DEF Good
<1>2. /\ IsTable(v) /\ v.slots = t.slots /\ v.seed = t.seed
      /\ v.used = t.used - 1 /\ v.tombs = t.tombs + 1
      /\ v.cells[slot] = Deleted
      /\ Slots(v) = Slots(t)
  BY DEF Closed, Slots
<1>3. \A r \in UsedSlots(t) : /\ r \in Slots(t) /\ InUse(t.cells[r])
                              /\ t.cells[r].index \in 0 .. n - 1 /\ t.cells[r].hash \in Nat
  <2> TAKE r \in UsedSlots(t)
  <2>1. r \in Slots(t) /\ InUse(t.cells[r]) /\ t.cells[r] \in Cell
    BY <1>1, TableIs DEF UsedSlots
  <2>2. t.cells[r].index \in Nat /\ t.cells[r].index < n /\ t.cells[r].hash \in Nat
    BY <1>1, <2>1, CellIs DEF Says
  <2> QED BY <1>1, <2>1, <2>2
<1>4. old \in 0 .. n - 1 /\ j \in 1 .. n /\ n > 0
  BY <1>1, <1>3
<1>5. /\ Len(fs) = n - 1
      /\ \A i \in 1 .. n - 1 : fs[i] = IF i = j THEN es[n] ELSE es[i]
  <2> HIDE DEF j
  <2> QED BY <1>4, GapFilledIs
<1>6. /\ \A r \in Slots(t) : r # slot =>
           v.cells[r] = IF InUse(t.cells[r]) /\ t.cells[r].index = n - 1
                        THEN [hash |-> t.cells[r].hash, index |-> old]
                        ELSE t.cells[r]
  BY DEF Closed
<1>7. \A r \in UsedSlots(t) : r # slot => t.cells[r].index # old
  BY <1>1 DEF Apart, KeyOf
<1> HIDE DEF old, fs, n
<1>8. \A r \in Slots(t) : r # slot => (InUse(v.cells[r]) <=> InUse(t.cells[r]))
                                      /\ (v.cells[r] = Deleted <=> t.cells[r] = Deleted)
                                      /\ (v.cells[r] = Empty <=> t.cells[r] = Empty)
  <2> TAKE r \in Slots(t)
  <2> HAVE r # slot
  <2>1. CASE InUse(t.cells[r]) /\ t.cells[r].index = n - 1
    <3>0. v.cells[r] = [hash |-> t.cells[r].hash, index |-> old]
      BY <1>6, <2>1
    <3>a. v.cells[r].index = old
      BY <3>0
    <3>b. v.cells[r] \in Cell /\ t.cells[r] \in Cell
      BY <1>1, <1>2, TableIs
    <3>1. v.cells[r].index = old /\ v.cells[r] \in Cell /\ t.cells[r] \in Cell
      BY <3>a, <3>b
    <3>2. InUse(v.cells[r])
      BY <1>4, <3>1 DEF InUse
    <3> QED BY <2>1, <3>1, <3>2, CellIs
  <2>2. CASE ~(InUse(t.cells[r]) /\ t.cells[r].index = n - 1)
    BY <1>6, <2>2
  <2> QED BY <2>1, <2>2
<1>9. UsedSlots(v) = UsedSlots(t) \ {slot} /\ TombSlots(v) = TombSlots(t) \cup {slot}
      /\ slot \notin TombSlots(t)
  <2>1. slot \in Slots(t) /\ ~InUse(v.cells[slot]) /\ t.cells[slot] # Deleted
    BY <1>2, <1>3, CellIs
  <2> QED BY <1>2, <1>8, <2>1 DEF UsedSlots, TombSlots
<1>10. Counted(v)
  <2>1. IsFiniteSet(UsedSlots(t)) /\ IsFiniteSet(TombSlots(t))
    BY <1>1, CountsAre
  <2>2. Cardinality(UsedSlots(v)) = Cardinality(UsedSlots(t)) - 1
    BY <1>9, <2>1, FS_RemoveElement
  <2>3. Cardinality(TombSlots(v)) = Cardinality(TombSlots(t)) + 1
    BY <1>9, <2>1, FS_AddElement
  <2> QED BY <1>1, <1>2, <2>2, <2>3 DEF Counted
\* What a cell in use says after the deletion.
<1>11. ASSUME NEW r \in UsedSlots(v)
       PROVE  /\ r \in UsedSlots(t) /\ r # slot
              /\ v.cells[r].hash = t.cells[r].hash
              /\ v.cells[r].index \in 0 .. n - 2
              /\ KeyOf(v, fs, r) = KeyOf(t, es, r)
  <2>1. r \in UsedSlots(t) /\ r # slot /\ r \in Slots(t) /\ InUse(t.cells[r])
        /\ t.cells[r].index \in 0 .. n - 1 /\ t.cells[r].index # old
    BY <1>3, <1>7, <1>9
  <2>2. CASE t.cells[r].index = n - 1
    <3>1. v.cells[r] = [hash |-> t.cells[r].hash, index |-> old]
      BY <1>6, <2>1, <2>2
    <3>2. v.cells[r].hash = t.cells[r].hash /\ v.cells[r].index = old
      BY <3>1
    <3>3. old \in 0 .. n - 2 /\ j \in 1 .. n - 1 /\ j = old + 1
      BY <1>1, <1>4, <2>1, <2>2
    <3>4. KeyOf(v, fs, r) = es[n] /\ KeyOf(t, es, r) = es[n]
      <4>1. fs[old + 1] = es[n]
        BY <1>5, <3>3
      <4>2. (n - 1) + 1 = n
        BY <1>1
      <4> QED BY <2>2, <3>2, <4>1, <4>2 DEF KeyOf
    <3> QED BY <2>1, <3>2, <3>3, <3>4
  <2>3. CASE t.cells[r].index # n - 1
    <3>1. v.cells[r] = t.cells[r]
      BY <1>6, <2>1, <2>3
    <3> DEFINE x == t.cells[r].index
    <3>2. x \in 0 .. n - 2 /\ x + 1 \in 1 .. n - 1 /\ x + 1 # j
      BY <1>1, <1>4, <2>1, <2>3
    <3>3. fs[x + 1] = es[x + 1]
      <4> HIDE DEF x, j
      <4> QED BY <1>5, <3>2
    <3> QED BY <2>1, <3>1, <3>2, <3>3 DEF KeyOf
  <2> QED BY <2>2, <2>3
<1>12. Says(v, fs)
  <2> SUFFICES ASSUME NEW r \in UsedSlots(v)
               PROVE  v.cells[r].index < Len(fs)
                      /\ v.cells[r].hash = Stored(KeyOf(v, fs, r), v.seed)
    BY DEF Says
  <2>1. v.cells[r].index < Len(fs)
    BY <1>1, <1>5, <1>11
  <2>2. t.cells[r].hash = Stored(KeyOf(t, es, r), t.seed)
    BY <1>1, <1>11 DEF Says
  <2> QED BY <1>2, <1>11, <2>1, <2>2
<1>13. Apart(v, fs)
  BY <1>1, <1>11 DEF Apart
<1>14. Reach(v)
  <2> SUFFICES ASSUME NEW r \in UsedSlots(v) PROVE OnPath(v, v.cells[r].hash, r)
    BY DEF Reach
  <2> DEFINE h == t.cells[r].hash
  <2>1. r \in UsedSlots(t) /\ v.cells[r].hash = h /\ h \in Nat
    BY <1>3, <1>11
  <2>2. PICK i \in Slots(t) : /\ Probe(t.slots, h, i) = r
                              /\ \A p \in 0 .. i - 1 : CellAt(t, h, p) # Empty
    BY <1>1, <2>1 DEF Reach, OnPath
  <2> HIDE DEF h
  <2>3. ASSUME NEW p \in 0 .. i - 1 PROVE CellAt(v, h, p) # Empty
    <3>1. p \in Slots(t)
      BY <1>1, TableIs DEF Slots
    <3> DEFINE s == Probe(t.slots, h, p)
    <3>2. s \in Slots(t) /\ t.cells[s] # Empty
      BY <1>1, <2>1, <2>2, <3>1, CellAtIs
    <3> HIDE DEF s
    <3>3. v.cells[s] # Empty
      BY <1>2, <1>8, <3>2, CellIs
    <3> QED BY <1>2, <3>3 DEF CellAt, s
  <2> QED BY <1>2, <2>1, <2>2, <2>3 DEF OnPath
<1>15. Complete(v, fs)
  <2> SUFFICES ASSUME NEW i \in 1 .. n - 1
               PROVE  \E s \in Slots(v) :
                        v.cells[s] = [hash |-> Stored(fs[i], v.seed), index |-> i - 1]
    BY <1>5 DEF Complete
  <2>1. CASE i = j
    <3>1. n \in 1 .. Len(es)
      BY <1>1, <1>4 DEF n
    <3>2. PICK s \in Slots(t) : t.cells[s] = [hash |-> Stored(es[n], t.seed), index |-> n - 1]
      BY <3>1 DEF Complete
    <3>3. s # slot /\ InUse(t.cells[s])
      BY <1>1, <1>4, <2>1, <3>2 DEF InUse, old
    <3>4. v.cells[s] = [hash |-> Stored(es[n], t.seed), index |-> old]
      BY <1>6, <3>2, <3>3
    <3>5. fs[i] = es[n] /\ i - 1 = old
      BY <1>4, <1>5, <2>1
    <3> QED BY <1>2, <3>4, <3>5
  <2>2. CASE i # j
    <3>1. i \in 1 .. Len(es) /\ i - 1 # n - 1 /\ i - 1 # old
      BY <1>1, <1>4, <2>2 DEF n
    <3>2. PICK s \in Slots(t) : t.cells[s] = [hash |-> Stored(es[i], t.seed), index |-> i - 1]
      BY <3>1 DEF Complete
    <3>3. s # slot
      BY <3>1, <3>2 DEF old
    <3>a. t.cells[s].index # n - 1
      BY <3>1, <3>2
    <3>4. v.cells[s] = t.cells[s]
      BY <1>6, <3>3, <3>a
    <3>5. fs[i] = es[i]
      BY <1>5, <2>2
    <3> QED BY <1>2, <3>2, <3>4, <3>5
  <2> QED BY <2>1, <2>2
<1> QED BY <1>2, <1>10, <1>12, <1>13, <1>14, <1>15 DEF Good, fs, old

\* A table that shrinks or is cleared of tombstones keeps what it says.
LEMMA TrimmedGood ==
  ASSUME NEW t, NEW es, Good(t, es), Complete(t, es), t.used <= UsedMax(t.slots)
  PROVE  /\ Good(Trimmed(t), es) /\ Complete(Trimmed(t), es)
         /\ Trimmed(t).used = t.used
         /\ Trimmed(t).used <= UsedMax(Trimmed(t).slots)
         /\ Trimmed(t).tombs <= TombMax(Trimmed(t).slots)
         /\ Trimmed(t).mode = t.mode /\ Trimmed(t).string = t.string
<1> DEFINE n == t.slots
           m == n \div 2
<1>1. IsSize(n) /\ n \in Nat /\ t.used \in Int /\ t.tombs \in Int
  BY TableIs DEF Good
<1>2. /\ UsedMax(n) \in Nat /\ TombMax(n) \in Nat /\ UsedMin(n) \in Nat
      /\ UsedMax(n) + TombMax(n) < n
  BY <1>1, Thresholds
<1>3. CASE t.used < UsedMin(n) /\ n > BucketLength
  <2>1. IsSize(m) /\ UsedMin(n) < m /\ UsedMin(n) <= UsedMax(m) /\ m \in Nat
    BY <1>1, <1>3, Thresholds, Sizes
  <2>2. UsedMax(m) \in Nat /\ TombMax(m) \in Nat
    BY <2>1, Thresholds
  <2>3. t.used < m /\ t.used <= UsedMax(m)
    BY <1>1, <1>2, <1>3, <2>1, <2>2
  <2>4. Trimmed(t) = Rebuilt(m, t)
    BY <1>3 DEF Trimmed
  <2> HIDE DEF m
  <2> QED BY <2>1, <2>2, <2>3, <2>4, RebuiltGood
<1>4. CASE ~(t.used < UsedMin(n) /\ n > BucketLength) /\ t.tombs > TombMax(n)
  <2>1. Trimmed(t) = Rebuilt(n, t)
    BY <1>4 DEF Trimmed
  <2>2. t.used < n
    BY <1>1, <1>2
  <2> HIDE DEF n
  <2> QED BY <1>1, <1>2, <2>1, <2>2, RebuiltGood DEF n
<1>5. CASE ~(t.used < UsedMin(n) /\ n > BucketLength) /\ ~(t.tombs > TombMax(n))
  <2>1. Trimmed(t) = t
    BY <1>5 DEF Trimmed
  <2> QED BY <1>1, <1>2, <1>5, <2>1
<1> QED BY <1>3, <1>4, <1>5

\* The table with a tombstone for an entry.
Dropped(t, slot) == [t EXCEPT !.used = @ - 1, !.tombs = @ + 1, !.cells[slot] = Deleted]

LEMMA DroppedIs ==
  ASSUME NEW t, IsTable(t), NEW slot \in Slots(t)
  PROVE  LET d == Dropped(t, slot) IN
         /\ IsTable(d) /\ d.slots = t.slots /\ d.seed = t.seed
         /\ d.used = t.used - 1 /\ d.tombs = t.tombs + 1
         /\ d.mode = t.mode /\ d.string = t.string /\ Slots(d) = Slots(t)
         /\ d.cells[slot] = Deleted /\ \A r \in Slots(t) : r # slot => d.cells[r] = t.cells[r]
<1> DEFINE d == Dropped(t, slot)
           f == [t.cells EXCEPT ![slot] = Deleted]
           x == t.used - 1
           y == t.tombs + 1
<1>1. /\ t \in [slots : Nat, used : Int, tombs : Int, seed : Seeds,
                cells : [0 .. t.slots - 1 -> Cell], mode : Modes, string : Arena]
      /\ IsSize(t.slots) /\ slot \in 0 .. t.slots - 1
  BY DEF IsTable, Slots
<1>2. x \in Int /\ y \in Int
  BY <1>1
<1>3. t.cells \in [0 .. t.slots - 1 -> Cell]
  BY <1>1
<1>4. f \in [0 .. t.slots - 1 -> Cell] /\ f[slot] = Deleted
      /\ \A r \in 0 .. t.slots - 1 : r # slot => f[r] = t.cells[r]
  BY <1>1, <1>3, CellIs
<1>5. d = [t EXCEPT !.used = x, !.tombs = y, !.cells = f]
  BY DEF Dropped
<1> HIDE DEF x, y, f, d
<1>6. d \in [slots : Nat, used : Int, tombs : Int, seed : Seeds,
             cells : [0 .. t.slots - 1 -> Cell], mode : Modes, string : Arena]
  BY ONLY <1>1, <1>2, <1>4, <1>5
<1>7. /\ d.slots = t.slots /\ d.seed = t.seed /\ d.used = x /\ d.tombs = y
      /\ d.mode = t.mode /\ d.string = t.string /\ d.cells = f
  BY ONLY <1>1, <1>2, <1>4, <1>5
<1>8. IsTable(d)
  BY <1>1, <1>6, <1>7 DEF IsTable
<1> QED BY <1>4, <1>7, <1>8 DEF x, y, d, Slots

\* What stbds_hmdel_key makes of the table before it looks at its thresholds.
Unlinked(t, es, slot) ==
  LET old == t.cells[slot].index
      fs  == [es EXCEPT ![old + 1] = Last(es)]
  IN  IF old # Len(es) - 1 THEN Moved(Dropped(t, slot), fs, Last(es), old) ELSE Dropped(t, slot)

LEMMA UnlinkedIs ==
  ASSUME NEW es \in Seq(Keys), NEW t, Good(t, es), Complete(t, es), HasRoom(t),
         NEW slot \in UsedSlots(t)
  PROVE  /\ Closed(Unlinked(t, es, slot), t, slot, t.cells[slot].index, Len(es))
         /\ Unlinked(t, es, slot).mode = t.mode /\ Unlinked(t, es, slot).string = t.string
<1> DEFINE old == t.cells[slot].index
           n == Len(es)
           fs == [es EXCEPT ![old + 1] = Last(es)]
           k == Last(es)
           d == Dropped(t, slot)
<1>1. IsTable(t) /\ Says(t, es) /\ Apart(t, es) /\ Reach(t) /\ n \in Nat
  BY LenProperties DEF Good
<1>2. \A r \in UsedSlots(t) : /\ r \in Slots(t) /\ InUse(t.cells[r])
                              /\ t.cells[r].index \in 0 .. n - 1 /\ t.cells[r].hash \in Nat
                              /\ t.cells[r] \in Cell
  <2> TAKE r \in UsedSlots(t)
  <2>1. r \in Slots(t) /\ InUse(t.cells[r]) /\ t.cells[r] \in Cell
    BY <1>1, TableIs DEF UsedSlots
  <2>2. t.cells[r].index \in Nat /\ t.cells[r].index < n /\ t.cells[r].hash \in Nat
    BY <1>1, <2>1, CellIs DEF Says
  <2> QED BY <1>1, <2>1, <2>2
<1>3. /\ IsTable(d) /\ d.slots = t.slots /\ d.seed = t.seed
      /\ d.used = t.used - 1 /\ d.tombs = t.tombs + 1
      /\ d.mode = t.mode /\ d.string = t.string /\ Slots(d) = Slots(t)
      /\ d.cells[slot] = Deleted /\ \A r \in Slots(t) : r # slot => d.cells[r] = t.cells[r]
  BY <1>1, <1>2, DroppedIs
<1>4. old \in 0 .. n - 1 /\ n > 0 /\ old + 1 \in 1 .. n /\ slot \in Slots(t)
  BY <1>1, <1>2
<1>5. \A r \in UsedSlots(t) : r # slot => t.cells[r].index # old
  BY <1>1 DEF Apart, KeyOf
<1>6. k = es[n] /\ k \in Keys
  BY <1>1, <1>4, ElementOfSeq DEF Last
<1>7. fs \in Seq(Keys) /\ Len(fs) = n
      /\ \A i \in 1 .. n : fs[i] = IF i = old + 1 THEN k ELSE es[i]
  <2> DEFINE j == old + 1
  <2>1. fs = [es EXCEPT ![j] = k] /\ j \in 1 .. Len(es)
    BY <1>4
  <2> HIDE DEF j, k, fs
  <2>2. fs \in Seq(Keys) /\ Len(fs) = Len(es)
        /\ \A i \in 1 .. Len(es) : fs[i] = IF i = j THEN k ELSE es[i]
    BY ONLY <1>6, <2>1, ExceptSeq
  <2> QED BY <2>2 DEF j
<1> HIDE DEF d, fs, k
<1>8. UsedSlots(d) = UsedSlots(t) \ {slot}
  BY <1>3, <1>4, CellIs DEF UsedSlots
<1>9. \A r \in UsedSlots(d) : /\ d.cells[r] = t.cells[r]
                              /\ KeyOf(d, fs, r) = KeyOf(t, es, r)
  <2> TAKE r \in UsedSlots(d)
  <2>1. r \in UsedSlots(t) /\ r # slot /\ d.cells[r] = t.cells[r]
        /\ t.cells[r].index \in 0 .. n - 1 /\ t.cells[r].index # old
    BY <1>2, <1>3, <1>5, <1>8
  <2> DEFINE x == t.cells[r].index
  <2>2. x + 1 \in 1 .. n /\ x + 1 # old + 1
    BY <1>1, <1>4, <2>1
  <2>3. fs[x + 1] = es[x + 1]
    BY <1>7, <2>2
  <2> QED BY <2>1, <2>3 DEF KeyOf
<1>10. CASE old = n - 1
  <2>1. Unlinked(t, es, slot) = d
    BY <1>10 DEF Unlinked, d
  <2>2. \A r \in Slots(t) \ {slot} : ~(InUse(t.cells[r]) /\ t.cells[r].index = n - 1)
    BY <1>5, <1>10 DEF UsedSlots
  <2>3. Closed(d, t, slot, old, n)
    BY <1>3, <2>2 DEF Closed
  <2> QED BY <1>3, <2>1, <2>3
<1>11. CASE old # n - 1
  <2>1. Says(d, fs) /\ Apart(d, fs)
    <3>1. Says(d, fs)
      <4> SUFFICES ASSUME NEW r \in UsedSlots(d)
                   PROVE  d.cells[r].index < Len(fs)
                          /\ d.cells[r].hash = Stored(KeyOf(d, fs, r), d.seed)
        BY DEF Says
      <4>1. r \in UsedSlots(t)
        BY <1>8
      <4>2. t.cells[r].index < n /\ t.cells[r].hash = Stored(KeyOf(t, es, r), t.seed)
        BY <1>1, <4>1 DEF Says
      <4> QED BY <1>3, <1>7, <1>9, <4>2
    <3>2. Apart(d, fs)
      BY <1>1, <1>8, <1>9 DEF Apart
    <3> QED BY <3>1, <3>2
  <2>2. \A r \in Slots(t) : d.cells[r] = Empty <=> t.cells[r] = Empty
    BY <1>2, <1>3, <1>4, CellIs
  <2>3. HasRoom(d)
    BY <1>3, <2>2 DEF HasRoom
  <2>4. Reach(d)
    <3> SUFFICES ASSUME NEW r \in UsedSlots(d) PROVE OnPath(d, d.cells[r].hash, r)
      BY DEF Reach
    <3> DEFINE h == t.cells[r].hash
    <3>1. r \in UsedSlots(t) /\ d.cells[r].hash = h /\ h \in Nat
      BY <1>2, <1>8, <1>9
    <3>2. PICK i \in Slots(t) : /\ Probe(t.slots, h, i) = r
                                /\ \A p \in 0 .. i - 1 : CellAt(t, h, p) # Empty
      BY <1>1, <3>1 DEF Reach, OnPath
    <3> HIDE DEF h
    <3>3. ASSUME NEW p \in 0 .. i - 1 PROVE CellAt(d, h, p) # Empty
      <4>1. p \in Slots(t)
        BY <1>1, TableIs DEF Slots
      <4> DEFINE s == Probe(t.slots, h, p)
      <4>2. s \in Slots(t) /\ t.cells[s] # Empty
        BY <1>1, <3>1, <3>2, <4>1, CellAtIs
      <4> HIDE DEF s
      <4>3. d.cells[s] # Empty
        BY <2>2, <4>2
      <4> QED BY <1>3, <4>3 DEF CellAt, s
    <3> QED BY <1>3, <3>1, <3>2, <3>3 DEF OnPath
  <2>5. n \in 1 .. Len(es)
    BY <1>1, <1>4
  <2>6. PICK s \in Slots(t) : t.cells[s] = [hash |-> Stored(es[n], t.seed), index |-> n - 1]
    BY <2>5 DEF Complete
  <2>7. t.cells[s].hash = Stored(k, t.seed) /\ t.cells[s].index = n - 1
    BY <1>6, <2>6
  <2>8. InUse(t.cells[s]) /\ s # slot
    BY <1>1, <1>4, <1>11, <2>7 DEF InUse
  <2>9. s \in UsedSlots(t) /\ s \in UsedSlots(d)
    BY <1>8, <2>8 DEF UsedSlots
  <2>10. KeyOf(d, fs, s) = k
    <3>1. (n - 1) + 1 = n
      BY <1>1
    <3>2. KeyOf(t, es, s) = k
      BY <1>6, <2>7, <3>1 DEF KeyOf
    <3> QED BY <1>9, <2>9, <3>2
  <2>11. FindSlot(d, fs, k) = s
    <3>1. /\ Holds(d, fs, k, Ends(d, fs, k))
          /\ Probe(d.slots, Stored(k, d.seed), Ends(d, fs, k)) = s
      BY <1>3, <1>6, <1>7, <2>1, <2>3, <2>4, <2>9, <2>10, Finds
    <3> QED BY <3>1 DEF FindSlot, Ends
  <2> DEFINE c == [d.cells[s] EXCEPT !.index = old]
             v == With(d, s, c)
  <2>12. Unlinked(t, es, slot) = v
    <3>1. Unlinked(t, es, slot) = Moved(d, fs, k, old)
      BY <1>11 DEF Unlinked, d, fs, k
    <3>2. Moved(d, fs, k, old) = [d EXCEPT !.cells[s].index = old]
      BY <2>11 DEF Moved
    <3> QED BY <3>1, <3>2 DEF With
  <2>13. c = [hash |-> t.cells[s].hash, index |-> old] /\ c \in Cell
    <3>1. d.cells[s] = t.cells[s] /\ t.cells[s] \in [hash : Nat, index : Nat]
      BY <1>2, <1>9, <2>8, <2>9, CellIs
    <3>2. old \in Nat
      BY <1>4
    <3> HIDE DEF old
    <3>3. c = [hash |-> t.cells[s].hash, index |-> old]
      BY <3>1
    <3>4. c \in [hash : Nat, index : Nat]
      BY <3>1, <3>2
    <3> HIDE DEF c
    <3> QED BY <3>3, <3>4 DEF Cell
  <2> HIDE DEF c
  <2>14. /\ IsTable(v) /\ v.slots = d.slots /\ v.seed = d.seed
         /\ v.used = d.used /\ v.tombs = d.tombs /\ v.mode = d.mode /\ v.string = d.string
         /\ v.cells = [d.cells EXCEPT ![s] = c]
    BY <1>3, <2>13, WithIs
  <2> HIDE DEF v
  <2>15. \A r \in Slots(t) : v.cells[r] = IF r = s THEN c ELSE d.cells[r]
    <3>1. d.cells \in [Slots(t) -> Cell]
      BY <1>3, TableIs
    <3> QED BY <2>14, <3>1
  <2>16. ASSUME NEW r \in Slots(t) \ {slot}
         PROVE  v.cells[r] = IF InUse(t.cells[r]) /\ t.cells[r].index = n - 1
                             THEN [hash |-> t.cells[r].hash, index |-> old]
                             ELSE t.cells[r]
    <3>1. CASE r = s
      BY <2>7, <2>8, <2>13, <2>15, <3>1
    <3>2. CASE r # s
      <4>1. v.cells[r] = t.cells[r]
        BY <1>3, <2>15, <3>2
      <4>2. ~(InUse(t.cells[r]) /\ t.cells[r].index = n - 1)
        BY <1>1, <2>7, <2>9, <3>2 DEF Apart, KeyOf, UsedSlots
      <4> QED BY <4>1, <4>2
    <3> QED BY <3>1, <3>2
  <2>17. v.cells[slot] = Deleted
    BY <1>3, <1>4, <2>8, <2>15
  <2>18. Closed(v, t, slot, old, n)
    BY <1>3, <2>14, <2>16, <2>17 DEF Closed
  <2> QED BY <1>3, <2>12, <2>14, <2>18
<1> QED BY <1>10, <1>11

\* stbds_hmdel_key finds the entry of the key, or there is none.
LEMMA DelIs ==
  ASSUME IInv, NEW k \in Keys, Del(k)
  PROVE  /\ (\A j \in 1 .. Len(arr) : arr[j] # k) =>
              temp' = 0 /\ UNCHANGED <<arr, capacity, index, copies>>
         /\ \A j \in 1 .. Len(arr) : arr[j] = k =>
              /\ index.slots # 0
              /\ \E slot \in UsedSlots(index) : index.cells[slot].index = j - 1 /\ Unlink(slot)
<1> DEFINE slot == IF index.slots = 0 THEN -1 ELSE FindSlot(index, arr, k)
<1>1. IF slot >= 0 THEN Unlink(slot) ELSE temp' = 0 /\ UNCHANGED <<arr, capacity, index, copies>>
  BY DEF Del
<1>2. arr \in Seq(Keys)
  BY Typing DEF IInv
<1>3. CASE index.slots = 0
  <2>1. arr = <<>>
    BY <1>3 DEF IInv, IndexInv
  <2>2. Len(arr) = 0 /\ ~(slot >= 0)
    BY <1>3, <2>1
  <2> HIDE DEF slot
  <2> QED BY <1>1, <2>2
<1>4. CASE index.slots # 0
  <2>1. /\ \A j \in 1 .. Len(arr) : arr[j] = k =>
             /\ FindSlot(index, arr, k) \in UsedSlots(index) /\ FindSlot(index, arr, k) >= 0
             /\ index.cells[FindSlot(index, arr, k)]
                  = [hash |-> Stored(k, index.seed), index |-> j - 1]
        /\ (\A j \in 1 .. Len(arr) : arr[j] # k) => FindSlot(index, arr, k) = -1
    BY <1>2, <1>4, IndexIs, FindSlotIs
  <2>2. slot = FindSlot(index, arr, k)
    BY <1>4
  <2> HIDE DEF slot
  <2>3. ASSUME \A j \in 1 .. Len(arr) : arr[j] # k PROVE ~(slot >= 0)
    BY <2>1, <2>2, <2>3
  <2>4. ASSUME NEW j \in 1 .. Len(arr), arr[j] = k
        PROVE  slot \in UsedSlots(index) /\ slot >= 0 /\ index.cells[slot].index = j - 1
    <3>1. /\ slot \in UsedSlots(index) /\ slot >= 0
          /\ index.cells[slot] = [hash |-> Stored(k, index.seed), index |-> j - 1]
      BY <2>1, <2>2, <2>4
    <3>2. index.cells[slot].index = j - 1
      BY <3>1
    <3> QED BY <3>1, <3>2
  <2> QED BY <1>1, <1>4, <2>3, <2>4
<1> QED BY <1>3, <1>4

\* What the last step of stbds_hmdel_key works on.
LEMMA UnlinkIs ==
  ASSUME IInv, NEW j \in 1 .. Len(arr), index.slots # 0,
         NEW slot \in UsedSlots(index), index.cells[slot].index = j - 1, Unlink(slot)
  PROVE  LET t == Unlinked(index, arr, slot) IN
         /\ arr' = GapFilled(arr, j) /\ temp' = 1 /\ index' = Trimmed(t) /\ capacity' = capacity
         /\ copies' = IF index.mode = "strdup" THEN [copies EXCEPT ![arr[j]] = @ - 1] ELSE copies
         /\ Good(t, arr') /\ Complete(t, arr') /\ t.slots = index.slots
         /\ t.used = index.used - 1 /\ t.mode = index.mode /\ t.string = index.string
<1> DEFINE t == Unlinked(index, arr, slot)
           old == index.cells[slot].index
<1>1. arr \in Seq(Keys) /\ old + 1 = j
  BY Typing DEF IInv
<1>2. Good(index, arr) /\ Complete(index, arr) /\ HasRoom(index)
  BY IndexIs
<1>3. /\ Closed(t, index, slot, old, Len(arr)) /\ t.mode = index.mode /\ t.string = index.string
  BY <1>1, <1>2, UnlinkedIs
<1>4. Good(t, GapFilled(arr, old + 1)) /\ Complete(t, GapFilled(arr, old + 1))
  <2> HIDE DEF t
  <2> QED BY <1>1, <1>2, <1>3, ClosedGood
<1>5. /\ arr' = GapFilled(arr, old + 1) /\ temp' = 1 /\ index' = Trimmed(t) /\ capacity' = capacity
      /\ copies' = IF index.mode = "strdup" THEN [copies EXCEPT ![arr[old + 1]] = @ - 1] ELSE copies
  BY DEF Unlink, Unlinked, Dropped, GapFilled, Freed
<1> HIDE DEF t, old
<1>6. t.slots = index.slots /\ t.used = index.used - 1
  BY <1>3 DEF Closed
<1> QED BY <1>1, <1>3, <1>4, <1>5, <1>6 DEF t

LEMMA UnlinkInv ==
  ASSUME IInv, NEW j \in 1 .. Len(arr), index.slots # 0,
         NEW slot \in UsedSlots(index), index.cells[slot].index = j - 1, Unlink(slot)
  PROVE  IInv'
<1> DEFINE t == Unlinked(index, arr, slot)
           n == Len(arr)
<1>1. /\ arr' = GapFilled(arr, j) /\ temp' = 1 /\ index' = Trimmed(t) /\ capacity' = capacity
      /\ copies' = IF index.mode = "strdup" THEN [copies EXCEPT ![arr[j]] = @ - 1] ELSE copies
      /\ Good(t, arr') /\ Complete(t, arr') /\ t.slots = index.slots
      /\ t.used = index.used - 1 /\ t.mode = index.mode /\ t.string = index.string
  BY UnlinkIs
<1> HIDE DEF t
<1>2. /\ arr \in Seq(Keys) /\ copies \in [Keys -> Nat] /\ NoRepeats(arr) /\ capacity \in Nat
      /\ StringsInv /\ CopiesAreKeys /\ ArenaKeepsKeys /\ HeaderInv
      /\ \A i \in 1 .. n : arr[i] \in Keys
      /\ DOMAIN arr = 1 .. n
  BY Typing, LenProperties DEF IInv, TypeOK
<1>3. /\ n \in Nat \ {0} /\ arr' \in Seq(Keys) /\ Len(arr') = n - 1 /\ DOMAIN arr' = 1 .. n - 1
      /\ \A i \in 1 .. n - 1 : arr'[i] = IF i = j THEN arr[n] ELSE arr[i]
  BY <1>1, <1>2, GapFilledIs
<1>4. index.used = n /\ index.used <= UsedMax(index.slots) /\ Good(index, arr)
  BY IndexIs
<1>5. t.used <= UsedMax(t.slots) /\ t.used = n - 1
  <2>1. UsedMax(index.slots) \in Nat
    BY <1>4, TableIs, Thresholds DEF Good
  <2> QED BY <1>1, <1>3, <1>4, <2>1
<1>6. /\ Good(index', arr') /\ Complete(index', arr') /\ index'.used = t.used
      /\ index'.used <= UsedMax(index'.slots) /\ index'.tombs <= TombMax(index'.slots)
      /\ index'.mode = t.mode /\ index'.string = t.string
  BY <1>1, <1>5, TrimmedGood
\* Where an entry was before.
<1> DEFINE from(i) == IF i = j THEN n ELSE i
<1>7. /\ \A i \in 1 .. n - 1 : from(i) \in 1 .. n /\ arr'[i] = arr[from(i)] /\ from(i) # j
      /\ \A i \in 1 .. n - 1, h \in 1 .. n - 1 : from(i) = from(h) => i = h
  BY <1>3
<1>8. \A i \in 1 .. n : i # j => \E h \in 1 .. n - 1 : arr'[h] = arr[i]
  <2> TAKE i \in 1 .. n
  <2> HAVE i # j
  <2>1. CASE i = n
    <3>1. j \in 1 .. n - 1 /\ arr'[j] = arr[i]
      BY <1>3, <2>1
    <3> QED BY <3>1
  <2>2. CASE i # n
    <3>1. i \in 1 .. n - 1 /\ arr'[i] = arr[i]
      BY <1>3, <2>2
    <3> QED BY <3>1
  <2> QED BY <2>1, <2>2
<1> HIDE DEF from, n
<1>9. NoRepeats(arr')
  BY <1>2, <1>3, <1>7 DEF NoRepeats, n
<1>10. \A x \in Keys : (\E i \in DOMAIN arr' : arr'[i] = x)
                         <=> (x # arr[j] /\ \E i \in DOMAIN arr : arr[i] = x)
  <2>1. \A i, h \in 1 .. n : arr[i] = arr[h] => i = h
    BY <1>2 DEF NoRepeats, n
  <2>2. j \in 1 .. n
    BY DEF n
  <2>3. ASSUME NEW x \in Keys, NEW i \in DOMAIN arr', arr'[i] = x
        PROVE  x # arr[j] /\ \E h \in DOMAIN arr : arr[h] = x
    <3>1. from(i) \in 1 .. n /\ arr'[i] = arr[from(i)] /\ from(i) # j
      BY <1>3, <1>7
    <3> QED BY <1>2, <2>1, <2>2, <2>3, <3>1 DEF n
  <2>4. ASSUME NEW x \in Keys, x # arr[j], NEW i \in DOMAIN arr, arr[i] = x
        PROVE  \E h \in DOMAIN arr' : arr'[h] = x
    <3>1. i \in 1 .. n /\ i # j
      BY <1>2, <2>4 DEF n
    <3> QED BY <1>3, <1>8, <2>4, <3>1
  <2> QED BY <2>3, <2>4
<1>11. copies' \in [Keys -> Nat] /\ CopiesAreKeys'
  <2>1. index'.mode = index.mode
    BY <1>1, <1>6
  <2>2. \A x \in Keys : copies[x] = IF index.mode = "strdup" /\ \E i \in DOMAIN arr : arr[i] = x
                                    THEN 1 ELSE 0
    BY <1>2 DEF CopiesAreKeys
  <2>3. j \in DOMAIN arr /\ arr[j] \in Keys
    BY <1>2 DEF n
  <2>4. CASE index.mode = "strdup"
    <3> DEFINE k == arr[j]
    <3>1. copies[k] = 1 /\ copies' = [copies EXCEPT ![k] = copies[k] - 1] /\ k \in Keys
      BY <1>1, <2>2, <2>3, <2>4
    <3> HIDE DEF k
    <3>2. copies' \in [Keys -> Nat] /\ copies'[k] = 0 /\ \A x \in Keys : x # k => copies'[x] = copies[x]
      BY <1>2, <3>1
    <3>3. \A x \in Keys : copies'[x] = IF \E i \in DOMAIN arr' : arr'[i] = x THEN 1 ELSE 0
      BY <1>10, <2>2, <2>4, <3>2 DEF k
    <3> QED BY <2>1, <2>4, <3>2, <3>3 DEF CopiesAreKeys
  <2>5. CASE index.mode # "strdup"
    <3>1. copies' = copies
      BY <1>1, <2>5
    <3> QED BY <1>2, <2>1, <2>2, <2>5, <3>1 DEF CopiesAreKeys
  <2> QED BY <2>4, <2>5
<1>12. StringsInv' /\ ArenaKeepsKeys'
  <2> SUFFICES ASSUME index'.mode = "arena"
               PROVE  /\ Fits(index'.string) /\ StringsIntact(index'.string)
                      /\ {arr'[i] : i \in DOMAIN arr'} \subseteq StringsOf(index'.string)
    BY DEF StringsInv, ArenaKeepsKeys
  <2>1. /\ index'.string = index.string /\ Fits(index.string) /\ StringsIntact(index.string)
        /\ {arr[i] : i \in DOMAIN arr} \subseteq StringsOf(index.string)
    BY <1>1, <1>2, <1>6 DEF StringsInv, ArenaKeepsKeys
  <2>2. \A i \in DOMAIN arr' : arr'[i] \in {arr[h] : h \in DOMAIN arr}
    BY <1>2, <1>3, <1>7
  <2> QED BY <2>1, <2>2
<1>13. capacity' \in Nat /\ Len(arr') + 1 <= capacity'
  BY <1>1, <1>2, <1>3, EmptySeq DEF HeaderInv, n
<1>14. temp' \in Int /\ index'.used = Len(arr')
  BY <1>1, <1>3, <1>5, <1>6
<1> QED BY <1>3, <1>6, <1>9, <1>11, <1>12, <1>13, <1>14, Established

LEMMA DelInv == ASSUME IInv, NEW k \in Keys, Del(k) PROVE IInv'
<1>1. CASE \A j \in 1 .. Len(arr) : arr[j] # k
  <2>1. temp' = 0 /\ UNCHANGED <<arr, capacity, index, copies>>
    BY <1>1, DelIs
  <2>2. capacity \in Nat
    BY Typing DEF IInv
  <2>3. IInv'
    <3>1. arr' = arr /\ capacity' = capacity /\ index' = index /\ copies' = copies
      BY <2>1
    <3>2. TypeOK'
      BY <2>1, <3>1 DEF IInv, TypeOK
    <3>3. HeaderInv' /\ IndexInv' /\ LoadInv' /\ NoRepeats(arr') /\ StringsInv' /\ CopiesAreKeys'
          /\ ArenaKeepsKeys'
      BY <3>1 DEF IInv, HeaderInv, IndexInv, LoadInv, StringsInv, CopiesAreKeys, ArenaKeepsKeys
    <3> QED BY <3>2, <3>3 DEF IInv
  <2> QED BY <2>3
<1>2. ASSUME NEW j \in 1 .. Len(arr), arr[j] = k PROVE IInv'
  BY <1>2, DelIs, UnlinkInv
<1> QED BY <1>1, <1>2

LEMMA FreeInv == ASSUME IInv, Free PROVE IInv'
<1>1. /\ arr' = <<>> /\ capacity' = 0 /\ temp' = 0 /\ index' = NoIndex
      /\ copies' = IF index.mode = "strdup"
                   THEN [k \in Keys |-> copies[k] - Cardinality({i \in DOMAIN arr : arr[i] = k})]
                   ELSE copies
  BY DEF Free
<1>2. /\ copies \in [Keys -> Nat] /\ NoRepeats(arr) /\ DOMAIN arr = 1 .. Len(arr)
      /\ \A k \in Keys : copies[k] = IF index.mode = "strdup" /\ \E i \in DOMAIN arr : arr[i] = k
                                     THEN 1 ELSE 0
  BY Typing, LenProperties DEF IInv, TypeOK, CopiesAreKeys
<1>3. ASSUME NEW k \in Keys
      PROVE  Cardinality({i \in DOMAIN arr : arr[i] = k})
               = IF \E i \in DOMAIN arr : arr[i] = k THEN 1 ELSE 0
  <2>1. ASSUME NEW i \in DOMAIN arr, arr[i] = k
        PROVE  Cardinality({h \in DOMAIN arr : arr[h] = k}) = 1
    <3>1. {h \in DOMAIN arr : arr[h] = k} = {i}
      BY <1>2, <2>1 DEF NoRepeats
    <3> QED BY <3>1, FS_Singleton
  <2>2. ASSUME ~\E i \in DOMAIN arr : arr[i] = k
        PROVE  Cardinality({h \in DOMAIN arr : arr[h] = k}) = 0
    <3>1. {h \in DOMAIN arr : arr[h] = k} = {}
      BY <2>2
    <3> QED BY <3>1, FS_EmptySet
  <2> QED BY <2>1, <2>2
<1>4. copies' = [k \in Keys |-> 0]
  <2>1. CASE index.mode = "strdup"
    <3>1. \A k \in Keys : copies[k] - Cardinality({i \in DOMAIN arr : arr[i] = k}) = 0
      BY <1>2, <1>3, <2>1
    <3> QED BY <1>1, <2>1, <3>1
  <2>2. CASE index.mode # "strdup"
    BY <1>1, <1>2, <2>2
  <2> QED BY <2>1, <2>2
<1>5. Init'
  BY <1>1, <1>4 DEF Init
<1>6. Init' => IInv'
  BY InitInv, PTL
<1> QED BY <1>5, <1>6

-----------------------------------------------------------------------------
(* What holds of every map.                                                *)

LEMMA NextInv == IInv /\ [Next]_vars => IInv'
<1> SUFFICES ASSUME IInv, [Next]_vars PROVE IInv'
  OBVIOUS
<1>1. CASE \E mode \in {"strdup", "arena"} : New(mode)
  BY <1>1, NewInv
<1>2. CASE Default
  BY <1>2, DefaultInv
<1>3. ASSUME NEW k \in Keys, Get(k) PROVE IInv'
  BY <1>3, GetInv
<1>4. ASSUME NEW k \in Keys, Put(k) PROVE IInv'
  BY <1>4, PutInv
<1>5. ASSUME NEW k \in Keys, Del(k) PROVE IInv'
  BY <1>5, DelInv
<1>6. CASE Free
  BY <1>6, FreeInv
<1>7. CASE UNCHANGED vars
  <2>1. /\ arr' = arr /\ capacity' = capacity /\ temp' = temp /\ index' = index
        /\ copies' = copies
    BY <1>7 DEF vars
  <2>2. TypeOK'
    BY <2>1 DEF IInv, TypeOK
  <2>3. HeaderInv' /\ IndexInv' /\ LoadInv' /\ NoRepeats(arr') /\ StringsInv' /\ CopiesAreKeys'
        /\ ArenaKeepsKeys'
    BY <2>1 DEF IInv, HeaderInv, IndexInv, LoadInv, StringsInv, CopiesAreKeys, ArenaKeepsKeys
  <2> QED BY <2>2, <2>3 DEF IInv
<1> QED BY <1>1, <1>2, <1>3, <1>4, <1>5, <1>6, <1>7 DEF Next

\* The invariant holds whatever is put, got and deleted, in any order.
THEOREM Invariance == Spec => []IInv
BY InitInv, NextInv, PTL DEF Spec

\* Array, header and index are about the same entries.
THEOREM MapStaysConsistent == Spec => []MapConsistent
<1>1. IInv => MapConsistent
  <2> SUFFICES ASSUME IInv PROVE MapConsistent
    OBVIOUS
  <2>1. /\ TypeOK /\ HeaderInv /\ IndexInv /\ Len(arr) \in Nat /\ capacity \in Nat
        /\ DOMAIN arr = 1 .. Len(arr)
    BY Typing, LenProperties DEF IInv
  <2>2. IndexIsArray
    <3>1. CASE index.slots = 0
      <4>1. arr = <<>> /\ index.used = 0 /\ index.tombs = 0 /\ DOMAIN index.cells = {}
        BY <2>1, <3>1 DEF IndexInv, NoIndex
      <4>2. Len(arr) = 0 /\ DOMAIN arr = {}
        BY <4>1
      <4>3. /\ {s \in DOMAIN index.cells : InUse(index.cells[s])} = {}
            /\ {s \in DOMAIN index.cells : index.cells[s] = Deleted} = {}
        BY <4>1
      <4> QED BY <4>1, <4>2, <4>3, FS_EmptySet DEF IndexIsArray
    <3>2. CASE index.slots # 0
      <4>1. /\ Good(index, arr) /\ Complete(index, arr) /\ index.used = Len(arr)
        BY <3>2, IndexIs
      <4>2. DOMAIN index.cells = Slots(index)
        BY <4>1, GoodTyped DEF Slots
      <4>3. /\ {s \in DOMAIN index.cells : InUse(index.cells[s])} = UsedSlots(index)
            /\ {s \in DOMAIN index.cells : index.cells[s] = Deleted} = TombSlots(index)
        BY <4>2 DEF UsedSlots, TombSlots
      <4>4. /\ index.used = Cardinality(UsedSlots(index))
            /\ index.tombs = Cardinality(TombSlots(index))
        BY <4>1 DEF Good, Counted
      <4>5. \A i \in DOMAIN arr : \E s \in DOMAIN index.cells :
              index.cells[s] = [hash |-> Stored(arr[i], index.seed), index |-> i - 1]
        BY <2>1, <4>1, <4>2 DEF Complete
      <4> QED BY <4>1, <4>3, <4>4, <4>5 DEF IndexIsArray
    <3> QED BY <3>1, <3>2
  <2>3. RoomForLength
    BY <2>1 DEF RoomForLength, Length, HeaderInv
  <2> QED BY <2>1, <2>2, <2>3 DEF MapConsistent
<1> QED BY <1>1, Invariance, PTL

\* No probe goes round for ever: the buckets it comes to are a triangular number
\* apart from the first, so it comes to all of them, and one cell is empty.
THEOREM ProbesAlwaysEnd == Spec => []ProbesEnd
<1>1. IInv => ProbesEnd
  <2> SUFFICES ASSUME IInv, index.slots > 0, NEW k \in Keys
               PROVE  /\ ProbeEnds(index, arr, k) # {}
                      /\ Holds(index, arr, k, Min(ProbeEnds(index, arr, k)))
                           <=> \E i \in DOMAIN arr : arr[i] = k
    BY DEF ProbesEnd
  <2>1. arr \in Seq(Keys) /\ DOMAIN arr = 1 .. Len(arr)
    BY Typing, LenProperties DEF IInv
  <2>2. /\ Good(index, arr) /\ Complete(index, arr) /\ HasRoom(index)
        /\ IsTable(index) /\ Says(index, arr) /\ Apart(index, arr) /\ Reach(index)
    BY IndexIs DEF Good
  <2>3. ProbeEnds(index, arr, k) # {}
    BY <2>1, <2>2, Finds
  <2>4. Holds(index, arr, k, Ends(index, arr, k)) <=> \E i \in 1 .. Len(arr) : arr[i] = k
    BY <2>1, <2>2, FindsEntry
  <2> QED BY <2>1, <2>3, <2>4 DEF Ends
<1> QED BY <1>1, Invariance, PTL

\* A map that copies its keys has one copy of each key in it and no other; keys
\* in an arena stay there as they were written.
THEOREM KeysAreKept == Spec => []KeysKept
<1>1. IInv => KeysKept
  BY DEF IInv, KeysKept
<1> QED BY <1>1, Invariance, PTL

-----------------------------------------------------------------------------
(* The map is an ordered map.                                              *)

LEMMA IndexOfIs ==
  ASSUME IInv, NEW k \in Keys
  PROVE  /\ \A j \in 1 .. Len(arr) : arr[j] = k => M!IndexOf(arr, k) = j - 1
         /\ (\A j \in 1 .. Len(arr) : arr[j] # k) => M!IndexOf(arr, k) = -1
<1>1. DOMAIN arr = 1 .. Len(arr) /\ NoRepeats(arr)
  BY Typing, LenProperties DEF IInv
<1> DEFINE found == {i \in DOMAIN arr : arr[i] = k}
<1>2. M!IndexOf(arr, k) = IF found = {} THEN -1 ELSE (CHOOSE i \in found : TRUE) - 1
  BY DEF M!IndexOf
<1>3. ASSUME NEW j \in 1 .. Len(arr), arr[j] = k PROVE M!IndexOf(arr, k) = j - 1
  <2>1. found = {j}
    BY <1>1, <1>3 DEF NoRepeats
  <2> HIDE DEF found
  <2>2. (CHOOSE i \in found : TRUE) = j
    BY <2>1
  <2> QED BY <1>2, <2>1, <2>2
<1>4. ASSUME \A j \in 1 .. Len(arr) : arr[j] # k PROVE M!IndexOf(arr, k) = -1
  <2>1. found = {}
    BY <1>1, <1>4
  <2> QED BY <1>2, <2>1
<1> QED BY <1>3, <1>4

LEMMA MapSteps == IInv /\ [Next]_vars => [M!MapNext]_(M!mapVars)
<1> SUFFICES ASSUME IInv, [Next]_vars PROVE [M!MapNext]_(M!mapVars)
  OBVIOUS
<1>0. Len(arr) \in Nat
  BY Typing DEF IInv
<1>1. CASE \E mode \in {"strdup", "arena"} : New(mode)
  <2>1. arr' = arr /\ temp' = temp
    BY <1>1 DEF New
  <2> QED BY <2>1 DEF M!mapVars
<1>2. CASE Default
  <2>1. arr' = arr /\ temp' = temp
    BY <1>2 DEF Default
  <2> QED BY <2>1 DEF M!mapVars
<1>3. ASSUME NEW k \in Keys, Get(k) PROVE M!MapGet(k)
  <2>1. temp' = M!IndexOf(arr, k)
    BY <1>3, GetAnswers, IndexOfIs
  <2>2. arr' = arr
    BY <1>3 DEF Get
  <2> QED BY <2>1, <2>2 DEF M!MapGet
<1>4. ASSUME NEW k \in Keys, Put(k) PROVE M!MapPut(k)
  <2> DEFINE i == M!IndexOf(arr, k)
  <2>1. ASSUME NEW j \in 1 .. Len(arr), arr[j] = k PROVE M!MapPut(k)
    <3>1. i = j - 1 /\ temp' = j - 1 /\ arr' = arr
      BY <1>4, <2>1, PutAnswers, IndexOfIs
    <3>2. i >= 0
      BY <1>0, <3>1
    <3> QED BY <3>1, <3>2 DEF M!MapPut
  <2>2. ASSUME \A j \in 1 .. Len(arr) : arr[j] # k PROVE M!MapPut(k)
    <3>1. i = -1 /\ temp' = Len(arr) /\ arr' = Append(arr, k)
      BY <1>4, <2>2, PutAnswers, IndexOfIs
    <3>2. ~(i >= 0)
      BY <3>1
    <3> QED BY <3>1, <3>2 DEF M!MapPut
  <2> QED BY <2>1, <2>2
<1>5. ASSUME NEW k \in Keys, Del(k) PROVE M!MapDel(k)
  <2> DEFINE i == M!IndexOf(arr, k)
  <2>1. ASSUME NEW j \in 1 .. Len(arr), arr[j] = k PROVE M!MapDel(k)
    <3>1. PICK slot \in UsedSlots(index) : index.cells[slot].index = j - 1 /\ Unlink(slot)
      BY <1>5, <2>1, DelIs
    <3>2. index.slots # 0
      BY <1>5, <2>1, DelIs
    <3>3. temp' = 1 /\ arr' = GapFilled(arr, j)
      BY <3>1, <3>2, UnlinkIs
    <3>4. i = j - 1
      BY <2>1, IndexOfIs
    <3>5. i >= 0 /\ i + 1 = j
      BY <1>0, <3>4
    <3> HIDE DEF i
    <3>6. arr' = M!Front([arr EXCEPT ![i + 1] = M!Last(arr)])
      BY <3>3, <3>5 DEF GapFilled, Front, Last, M!Front, M!Last
    <3>7. M!MapDel(k) <=> /\ temp' = IF i >= 0 THEN 1 ELSE 0
                          /\ arr' = IF i >= 0 THEN M!Front([arr EXCEPT ![i + 1] = M!Last(arr)])
                                    ELSE arr
      BY DEF M!MapDel, i
    <3> QED BY <3>3, <3>5, <3>6, <3>7
  <2>2. ASSUME \A j \in 1 .. Len(arr) : arr[j] # k PROVE M!MapDel(k)
    <3>1. i = -1 /\ temp' = 0 /\ arr' = arr
      BY <1>5, <2>2, DelIs, IndexOfIs
    <3>2. ~(i >= 0)
      BY <3>1
    <3> QED BY <3>1, <3>2 DEF M!MapDel
  <2> QED BY <2>1, <2>2
<1>6. CASE Free
  BY <1>6 DEF Free, M!MapNext, M!MapFree
<1>7. CASE UNCHANGED vars
  BY <1>7 DEF vars, M!mapVars
<1> QED BY <1>1, <1>2, <1>3, <1>4, <1>5, <1>6, <1>7 DEF Next, M!MapNext

\* Index, tombstones, seeds and rebuilds are invisible: the map is the ordered
\* map that the documentation promises.
THEOREM MapIsOrderedMap == Spec => ImplementsOrderedMap
<1>1. Init => M!MapInit
  BY DEF Init, M!MapInit
<1> QED BY <1>1, MapSteps, Invariance, PTL DEF Spec, ImplementsOrderedMap, M!MapSpec

-----------------------------------------------------------------------------
(* Resizes are apart.                                                      *)

\* A table above the smallest size is as full as the smaller one needs.
MinInv == index.slots > BucketLength => index.used >= UsedMin(index.slots)

\* After a resize to n with u entries the next one is an eighth of n away.
FarFromNext(n, u) ==
  /\ u - 1 + n \div 8 <= UsedMax(n)
  /\ n > BucketLength => u - n \div 8 >= UsedMin(n)

LEMMA DoubledIsFar ==
  ASSUME NEW n, IsSize(n), NEW u \in {UsedMax(n), UsedMax(n) + 1}
  PROVE  FarFromNext(2 * n, u) /\ u >= UsedMin(2 * n)
<1>1. n \in Nat /\ n > 0 /\ n % 4 = 0 /\ BucketLength \in {4, 8} /\ n >= BucketLength
  BY Sizes, MapAssumption DEF IsSize
<1> DEFINE q == n \div 4
           m == 2 * n
<1>2. q \in Nat /\ n = 4 * q /\ q > 0 /\ m = 8 * q /\ m > BucketLength
  BY <1>1
<1> HIDE DEF q, m
<1>3. UsedMax(n) = 3 * q
  BY <1>2 DEF UsedMax
<1>4. UsedMax(m) = 6 * q
  BY <1>2 DEF UsedMax
<1>5. UsedMin(m) = 2 * q
  BY <1>1, <1>2 DEF UsedMin
<1>6. m \div 8 = q
  BY <1>2
<1>7. u \in {3 * q, 3 * q + 1}
  BY <1>3
<1>8. FarFromNext(m, u) /\ u >= UsedMin(m)
  BY <1>2, <1>4, <1>5, <1>6, <1>7 DEF FarFromNext
<1> QED BY <1>8 DEF m

LEMMA HalvedIsFar ==
  ASSUME NEW n, IsSize(n), n > BucketLength, NEW u \in Int, u = UsedMin(n) - 1
  PROVE  FarFromNext(n \div 2, u) /\ (n \div 2 > BucketLength => u >= UsedMin(n \div 2))
<1> DEFINE q == n \div 4
           m == n \div 2
<1>1. n \in Nat /\ n > 0 /\ n % 4 = 0 /\ BucketLength \in {4, 8} /\ m % 4 = 0
  <2>1. IsSize(m)
    BY Sizes
  <2>2. m % 4 = 0
    <3> HIDE DEF m
    <3> QED BY <2>1, Sizes
  <2> QED BY <2>2, Sizes, MapAssumption DEF IsSize
<1>2. q \in Nat /\ n = 4 * q /\ q > 0 /\ m = 2 * q
  BY <1>1
<1>3. q % 2 = 0
  BY <1>1, <1>2
<1> HIDE DEF q, m
<1> DEFINE r == q \div 2
<1>4. r \in Nat /\ q = 2 * r /\ r > 0 /\ m = 4 * r /\ n = 8 * r
  BY <1>2, <1>3
<1> HIDE DEF r
<1>5. UsedMin(n) = 2 * r /\ u = 2 * r - 1
  BY <1>1, <1>4 DEF UsedMin
<1>6. UsedMax(m) = 3 * r /\ m \div 8 = r \div 2
  BY <1>4 DEF UsedMax
<1>7. m > BucketLength => UsedMin(m) = r /\ r >= 2
  BY <1>1, <1>4 DEF UsedMin
<1>8. FarFromNext(m, u) /\ (m > BucketLength => u >= UsedMin(m))
  BY <1>1, <1>4, <1>5, <1>6, <1>7 DEF FarFromNext
<1> QED BY <1>8 DEF m

LEMMA TrimmedSlots ==
  ASSUME NEW t, NEW es, Good(t, es), Complete(t, es), t.used <= UsedMax(t.slots)
  PROVE  Trimmed(t).slots = IF t.used < UsedMin(t.slots) /\ t.slots > BucketLength
                            THEN t.slots \div 2 ELSE t.slots
<1> DEFINE n == t.slots
           m == n \div 2
<1>1. IsSize(n) /\ n \in Nat /\ t.used \in Int
  BY TableIs DEF Good
<1>2. /\ UsedMax(n) \in Nat /\ TombMax(n) \in Nat /\ UsedMin(n) \in Nat
      /\ UsedMax(n) + TombMax(n) < n
  BY <1>1, Thresholds
<1>3. CASE t.used < UsedMin(n) /\ n > BucketLength
  <2>1. IsSize(m) /\ UsedMin(n) < m /\ m \in Nat
    BY <1>1, <1>3, Thresholds, Sizes
  <2>2. t.used < m
    BY <1>1, <1>2, <1>3, <2>1
  <2>3. Trimmed(t) = Rebuilt(m, t)
    BY <1>3 DEF Trimmed
  <2> HIDE DEF m
  <2>4. Trimmed(t).slots = m
    BY <2>1, <2>2, <2>3, RebuiltGood
  <2> QED BY <1>3, <2>4 DEF m
<1>4. CASE ~(t.used < UsedMin(n) /\ n > BucketLength)
  <2>1. t.used < n
    BY <1>1, <1>2
  <2>2. Trimmed(t) = Rebuilt(n, t) \/ Trimmed(t) = t
    BY <1>4 DEF Trimmed
  <2> HIDE DEF n
  <2>3. Trimmed(t).slots = n
    BY <1>1, <2>1, <2>2, RebuiltGood DEF n
  <2> QED BY <1>4, <2>3 DEF n
<1> QED BY <1>3, <1>4

\* What an insertion does to the size of the index.
LEMMA PutSizes ==
  ASSUME IInv, NEW k \in Keys, Put(k), index.slots # 0
  PROVE  \/ index'.slots = index.slots /\ index'.used >= index.used
         \/ /\ index'.slots = 2 * index.slots
            /\ index'.used \in {UsedMax(index.slots), UsedMax(index.slots) + 1}
<1> DEFINE i(t) == Min(PutStops(t, k))
<1>1. PICK t \in ForPut(index) : IF Holds(t, arr, k, i(t)) THEN Update(t, k, i(t))
                                 ELSE Insert(t, k, i(t))
  BY DEF Put
<1>2. /\ Good(index, arr) /\ index.used = Len(arr) /\ index.used <= UsedMax(index.slots)
      /\ Len(arr) \in Nat
  BY IndexIs, Typing DEF IInv
<1>3. IsTable(t) /\ t.used = Len(arr)
  BY ForPutIs
<1>4. index'.slots = t.slots /\ index'.used \in {t.used, t.used + 1}
  <2>1. CASE Holds(t, arr, k, i(t))
    <3>1. index' = t
      BY <1>1, <2>1 DEF Update
    <3> QED BY <3>1
  <2>2. CASE ~Holds(t, arr, k, i(t))
    <3> DEFINE u == PutIn(t, k, i(t))
               at == PlaceFor(t, k, i(t))
    <3>1. index' = IF t.mode = "arena" THEN [u EXCEPT !.string = StrAlloc(@, k, KeyLen[k])] ELSE u
      BY <1>1, <2>2 DEF Insert, PutIn, PlaceFor, CellFor, TombsMet
    <3>2. /\ i(t) \in Slots(t) /\ CellAt(t, Stored(k, t.seed), i(t)) = Empty
          /\ \A j \in 0 .. i(t) - 1 : CellAt(t, Stored(k, t.seed), j) # Empty
      BY <2>2, PutProbe
    <3> HIDE DEF i
    <3>3. Enters(t, u, at, CellFor(t, k)) /\ u.used = t.used + 1
      BY <1>2, <1>3, <3>2, PutInEnters
    <3> HIDE DEF u, at
    <3>4. u.slots = t.slots /\ IsTable(u)
      BY <3>3 DEF Enters
    <3> DEFINE a == StrAlloc(u.string, k, KeyLen[k])
    <3>5. index' = IF t.mode = "arena" THEN [u EXCEPT !.string = a] ELSE u
      BY <3>1
    <3> HIDE DEF a
    <3>6. [u EXCEPT !.string = a].slots = u.slots /\ [u EXCEPT !.string = a].used = u.used
      BY <3>4 DEF IsTable
    <3> QED BY <3>3, <3>4, <3>5, <3>6
  <2> QED BY <2>1, <2>2
<1> DEFINE n == index.slots
           m == 2 * n
<1>5. CASE index.used >= UsedMax(n)
  <2>1. t = Rebuilt(m, index)
    BY <1>5 DEF ForPut
  <2>2. IsSize(n) /\ IsSize(m) /\ n \in Nat
    BY <1>2, TableIs, Sizes DEF Good
  <2>3. UsedMax(n) \in Nat /\ TombMax(n) \in Nat /\ UsedMax(n) + TombMax(n) < n
    BY <2>2, Thresholds
  <2>4. index.used < m /\ index.used = UsedMax(n)
    BY <1>2, <1>5, <2>2, <2>3
  <2> HIDE DEF m
  <2>5. t.slots = m
    BY <1>2, <2>1, <2>2, <2>4, RebuiltGood
  <2> QED BY <1>2, <1>3, <1>4, <2>4, <2>5 DEF m
<1>6. CASE ~(index.used >= UsedMax(n))
  <2>1. t = index
    BY <1>6 DEF ForPut
  <2> QED BY <1>2, <1>4, <2>1
<1> QED BY <1>5, <1>6

\* What a deletion does to the size of the index.
LEMMA DelSizes ==
  ASSUME IInv, MinInv, NEW k \in Keys, Del(k)
  PROVE  \/ index' = index
         \/ /\ index'.slots = index.slots /\ index.slots # 0
            /\ index.slots > BucketLength => index'.used >= UsedMin(index.slots)
         \/ /\ index'.slots = index.slots \div 2 /\ index.slots > BucketLength
            /\ IsSize(index.slots) /\ index'.used = UsedMin(index.slots) - 1
<1>1. CASE \A j \in 1 .. Len(arr) : arr[j] # k
  BY <1>1, DelIs
<1>2. ASSUME NEW j \in 1 .. Len(arr), arr[j] = k
      PROVE  \/ /\ index'.slots = index.slots /\ index.slots # 0
                /\ index.slots > BucketLength => index'.used >= UsedMin(index.slots)
             \/ /\ index'.slots = index.slots \div 2 /\ index.slots > BucketLength
                /\ IsSize(index.slots) /\ index'.used = UsedMin(index.slots) - 1
  <2>1. PICK slot \in UsedSlots(index) : index.cells[slot].index = j - 1 /\ Unlink(slot)
    BY <1>2, DelIs
  <2>2. index.slots # 0
    BY <1>2, DelIs
  <2> DEFINE t == Unlinked(index, arr, slot)
             n == index.slots
  <2>3. /\ index' = Trimmed(t) /\ Good(t, arr') /\ Complete(t, arr') /\ t.slots = n
        /\ t.used = index.used - 1
    BY <2>1, <2>2, UnlinkIs
  <2> HIDE DEF t
  <2>4. IsSize(n) /\ index.used <= UsedMax(n) /\ index.used \in Int /\ n \in Nat
    BY <2>2, IndexIs, TableIs DEF Good
  <2>5. UsedMax(n) \in Nat /\ UsedMin(n) \in Nat
    BY <2>4, Thresholds
  <2>6. t.used <= UsedMax(t.slots)
    BY <2>3, <2>4, <2>5
  <2>7. /\ index'.used = t.used
        /\ index'.slots = IF t.used < UsedMin(n) /\ n > BucketLength THEN n \div 2 ELSE n
    BY <2>3, <2>6, TrimmedGood, TrimmedSlots
  <2>8. CASE t.used < UsedMin(n) /\ n > BucketLength
    <3>1. index.used >= UsedMin(n)
      BY <2>8 DEF MinInv
    <3>2. t.used = UsedMin(n) - 1
      BY <2>3, <2>4, <2>5, <2>8, <3>1
    <3> QED BY <2>4, <2>7, <2>8, <3>2
  <2>9. CASE ~(t.used < UsedMin(n) /\ n > BucketLength)
    <3>1. n > BucketLength => index'.used >= UsedMin(n)
      BY <2>3, <2>4, <2>5, <2>7, <2>9
    <3> QED BY <2>2, <2>7, <2>9, <3>1
  <2> QED BY <2>8, <2>9
<1> QED BY <1>1, <1>2

\* A step keeps MinInv, and if it resizes the index the next resize is far.
LEMMA Resizes ==
  ASSUME IInv, MinInv, [Next]_vars
  PROVE  /\ MinInv'
         /\ index.slots > 0 /\ index'.slots > 0 /\ index'.slots # index.slots =>
              FarFromNext(index'.slots, index'.used)
<1> DEFINE Goal == /\ MinInv'
                   /\ index.slots > 0 /\ index'.slots > 0 /\ index'.slots # index.slots =>
                        FarFromNext(index'.slots, index'.used)
<1>0. index.slots \in Nat /\ BucketLength \in {4, 8}
  BY MapAssumption DEF IInv, TypeOK
<1>1. CASE index' = index
  BY <1>1 DEF MinInv
<1>2. ASSUME NEW mode \in {"strdup", "arena"}, New(mode) PROVE Goal
  <2>1. PICK seed \in Seeds : index' = NewIndex(BucketLength, seed, mode)
    BY <1>2 DEF New
  <2>2. index'.slots = BucketLength /\ index.slots = 0
    BY <1>2, <2>1 DEF New, NewIndex, IInv, HeaderInv, NoIndex
  <2> QED BY <1>0, <2>2 DEF MinInv
<1>3. ASSUME NEW k \in Keys, Put(k) PROVE Goal
  <2>1. CASE index.slots = 0
    <3>1. PICK t \in ForPut(index) : index'.slots = t.slots /\ t.slots = BucketLength
      <4>1. \A t \in ForPut(index) : t.slots = BucketLength
        BY <2>1 DEF ForPut, NewIndex
      <4>2. \E t \in ForPut(index) : index'.slots = t.slots
        <5> DEFINE i(t) == Min(PutStops(t, k))
        <5>1. PICK t \in ForPut(index) : IF Holds(t, arr, k, i(t)) THEN Update(t, k, i(t))
                                         ELSE Insert(t, k, i(t))
          BY <1>3 DEF Put
        <5>2. ~\E j \in 1 .. Len(arr) : arr[j] = k
          <6>1. arr = <<>>
            BY <2>1 DEF IInv, IndexInv
          <6>2. Len(arr) = 0
            BY <6>1
          <6> QED BY <6>2
        <5>3. ~Holds(t, arr, k, i(t))
          BY <5>2, PutProbe
        <5>4. t.mode # "arena" /\ IsTable(t)
          <6>1. index.mode = "caller"
            BY <2>1 DEF IInv, IndexInv, NoIndex
          <6> QED BY <6>1, ForPutIs
        <5>5. index' = PutIn(t, k, i(t))
          BY <5>1, <5>3, <5>4 DEF Insert, PutIn, PlaceFor, CellFor, TombsMet
        <5>6. PutIn(t, k, i(t)).slots = t.slots
          <6>1. /\ i(t) \in Slots(t) /\ CellAt(t, Stored(k, t.seed), i(t)) = Empty
                /\ \A j \in 0 .. i(t) - 1 : CellAt(t, Stored(k, t.seed), j) # Empty
            BY <5>3, PutProbe
          <6>2. Len(arr) \in Nat
            BY Typing DEF IInv
          <6> HIDE DEF i
          <6>3. Enters(t, PutIn(t, k, i(t)), PlaceFor(t, k, i(t)), CellFor(t, k))
            BY <5>4, <6>1, <6>2, PutInEnters
          <6> QED BY <6>3 DEF Enters
        <5> QED BY <5>5, <5>6
      <4> QED BY <4>1, <4>2
    <3> QED BY <1>0, <2>1, <3>1 DEF MinInv
  <2>2. CASE index.slots # 0
    <3>1. IsSize(index.slots) /\ index.used \in Int /\ UsedMin(index.slots) \in Nat
      BY <2>2, IndexIs, TableIs, Thresholds DEF Good
    <3>2. IInv'
      BY <1>3, PutInv
    <3>3. CASE index'.slots = index.slots /\ index'.used >= index.used
      <4>1. index'.used \in Int
        BY <3>2 DEF IInv, TypeOK
      <4> QED BY <3>1, <3>3, <4>1 DEF MinInv
    <3>4. CASE /\ index'.slots = 2 * index.slots
               /\ index'.used \in {UsedMax(index.slots), UsedMax(index.slots) + 1}
      <4> DEFINE n == index.slots
                 u == index'.used
      <4>1. FarFromNext(2 * n, u) /\ u >= UsedMin(2 * n)
        <5>1. u \in {UsedMax(n), UsedMax(n) + 1}
          BY <3>4
        <5> HIDE DEF n, u
        <5> QED BY <3>1, <5>1, DoubledIsFar DEF n
      <4> QED BY <3>4, <4>1 DEF MinInv
    <3> QED BY <1>3, <2>2, <3>3, <3>4, PutSizes
  <2> QED BY <2>1, <2>2
<1>4. ASSUME NEW k \in Keys, Del(k) PROVE Goal
  <2>1. CASE /\ index'.slots = index.slots /\ index.slots # 0
             /\ index.slots > BucketLength => index'.used >= UsedMin(index.slots)
    BY <2>1 DEF MinInv
  <2>2. CASE /\ index'.slots = index.slots \div 2 /\ index.slots > BucketLength
             /\ IsSize(index.slots) /\ index'.used = UsedMin(index.slots) - 1
    <3> DEFINE n == index.slots
               u == index'.used
    <3>1. IsSize(n) /\ n > BucketLength /\ u = UsedMin(n) - 1 /\ u \in Int
      <4>1. UsedMin(n) \in Nat
        BY <2>2, Thresholds
      <4> QED BY <2>2, <4>1
    <3>2. FarFromNext(n \div 2, u) /\ (n \div 2 > BucketLength => u >= UsedMin(n \div 2))
      <4> HIDE DEF n, u
      <4> QED BY <3>1, HalvedIsFar
    <3> QED BY <2>2, <3>2 DEF MinInv
  <2> QED BY <1>1, <1>4, <2>1, <2>2, DelSizes
<1>5. CASE Free
  <2>1. index'.slots = 0
    BY <1>5 DEF Free, NoIndex
  <2> QED BY <1>0, <2>1 DEF MinInv
<1>6. CASE Default
  BY <1>1, <1>6 DEF Default
<1>7. ASSUME NEW k \in Keys, Get(k) PROVE Goal
  BY <1>1, <1>7 DEF Get
<1>8. CASE UNCHANGED vars
  BY <1>1, <1>8 DEF vars
<1> QED BY <1>2, <1>3, <1>4, <1>5, <1>6, <1>7, <1>8 DEF Next

\* After a resize an eighth of the table has to be put or deleted before there
\* is another (the comment at line 321).
THEOREM ResizesStayApart == Spec => ResizesAreApart
<1>1. Init => MinInv
  <2>1. NoIndex.slots = 0 /\ BucketLength \in {4, 8}
    BY MapAssumption DEF NoIndex
  <2> QED BY <2>1 DEF Init, MinInv
<1>2. IInv /\ MinInv /\ [Next]_vars => MinInv'
  BY Resizes
<1> DEFINE A == LET n == index'.slots IN
                index.slots > 0 /\ n > 0 /\ n # index.slots =>
                  /\ index'.used - 1 + n \div 8 <= UsedMax(n)
                  /\ n > BucketLength => index'.used - n \div 8 >= UsedMin(n)
<1>3. IInv /\ MinInv /\ [Next]_vars => [A]_vars
  BY Resizes DEF FarFromNext
<1>4. ResizesAreApart <=> [][A]_vars
  BY DEF ResizesAreApart
<1> HIDE DEF A
<1> QED BY <1>1, <1>2, <1>3, <1>4, Invariance, PTL DEF Spec
=============================================================================
