----------------------------- MODULE CodecProofs -----------------------------
(***************************************************************************)
(* What src/minecraft/protocol/protocol.c and the generated readers and    *)
(* writers guarantee for integers and bytes of any width, any layouts and  *)
(* values, and any size of the buffers and of the arena.                   *)
(***************************************************************************)
EXTENDS Codec, SequenceTheorems, WellFoundedInduction, TLAPS

-----------------------------------------------------------------------------
(* Induction, and definition by recursion, for what can be said of sets    *)
(* and functions.                                                          *)

Less == {p \in Nat \X Nat : p[1] < p[2]}

LEMMA Induct ==
  ASSUME NEW S, 0 \in S, \A n \in Nat : n \in S => n + 1 \in S
  PROVE  Nat \subseteq S
<1> DEFINE T == Nat \ S
<1>1. IsWellFoundedOn(Less, Nat)
  <2>1. Less = OpToRel(<, Nat)
    BY DEF Less, OpToRel
  <2> QED BY <2>1, NatLessThanWellFounded
<1>2. CASE T # {}
  <2>1. PICK x \in T : \A y \in T : ~(<<y, x>> \in Less)
    <3>1. T \subseteq Nat
      OBVIOUS
    <3> HIDE DEF T
    <3> QED BY ONLY <1>1, <1>2, <3>1, WFMin
  <2>2. x - 1 \in Nat /\ x - 1 \in T /\ <<x - 1, x>> \in Less
    BY DEF Less
  <2> QED BY <2>1, <2>2
<1> QED BY <1>2

IsStep(step, V) == step \in [Nat \X V -> V]

Follows(f, n, b, step) == f[0] = b /\ \A i \in 0 .. n - 1 : f[i + 1] = step[<<i, f[i]>>]

IsRecursive(f, V, b, step) ==
  f \in [Nat -> V] /\ f[0] = b /\ \A n \in Nat : f[n + 1] = step[<<n, f[n]>>]

\* What is defined by recursion exists.
LEMMA Recursion ==
  ASSUME NEW V, NEW b, b \in V, NEW step, IsStep(step, V)
  PROVE  \E f : IsRecursive(f, V, b, step)
<1>0. step \in [Nat \X V -> V]
  BY DEF IsStep
<1> DEFINE Upto(n) == {f \in [0 .. n -> V] : Follows(f, n, b, step)}
<1>1. \A n \in Nat : Upto(n) # {}
  <2> DEFINE S == {n \in Nat : Upto(n) # {}}
  <2>1. 0 \in S
    <3>1. [i \in 0 .. 0 |-> b] \in Upto(0)
      BY DEF Follows
    <3> QED BY <3>1
  <2>2. ASSUME NEW n \in Nat, n \in S PROVE n + 1 \in S
    <3>1. PICK f \in [0 .. n -> V] : Follows(f, n, b, step)
      BY <2>2
    <3> DEFINE g == [i \in 0 .. n + 1 |-> IF i <= n THEN f[i] ELSE step[<<n, f[n]>>]]
    <3>2. g \in [0 .. n + 1 -> V]
      <4>1. f[n] \in V /\ step[<<n, f[n]>>] \in V
        BY <1>0
      <4> QED BY <4>1
    <3>3. Follows(g, n + 1, b, step)
      <4>1. g[0] = b
        BY <3>1 DEF Follows
      <4>2. ASSUME NEW i \in 0 .. n + 1 - 1 PROVE g[i + 1] = step[<<i, g[i]>>]
        <5>1. CASE i = n
          <6>1. g[n + 1] = step[<<n, f[n]>>] /\ g[n] = f[n]
            BY <3>2
          <6> QED BY <5>1, <6>1
        <5>2. CASE i # n
          <6>1. i \in 0 .. n - 1 /\ i + 1 <= n /\ i <= n /\ i + 1 \in 0 .. n + 1 /\ i \in 0 .. n + 1
            BY <5>2
          <6>2. g[i + 1] = f[i + 1] /\ g[i] = f[i]
            BY <6>1
          <6> QED BY <3>1, <6>1, <6>2 DEF Follows
        <5> QED BY <5>1, <5>2
      <4> HIDE DEF g
      <4> QED BY <4>1, <4>2 DEF Follows
    <3>4. g \in Upto(n + 1)
      BY <3>2, <3>3
    <3> QED BY <3>4
  <2>3. Nat \subseteq S
    <3> HIDE DEF S
    <3> QED BY ONLY <2>1, <2>2, Induct
  <2> QED BY <2>3
<1>2. ASSUME NEW m \in Nat, NEW n \in Nat, NEW f \in Upto(m), NEW g \in Upto(n)
      PROVE  \A i \in Nat : i <= m /\ i <= n => f[i] = g[i]
  <2> DEFINE S == {i \in Nat : i <= m /\ i <= n => f[i] = g[i]}
  <2>1. 0 \in S
    BY DEF Follows
  <2>2. ASSUME NEW i \in Nat, i \in S PROVE i + 1 \in S
    <3>1. CASE i + 1 <= m /\ i + 1 <= n
      <4>1. i \in 0 .. m - 1 /\ i \in 0 .. n - 1 /\ f[i] = g[i]
        BY <2>2, <3>1
      <4>2. f[i + 1] = step[<<i, f[i]>>] /\ g[i + 1] = step[<<i, g[i]>>]
        BY <4>1 DEF Follows
      <4> QED BY <4>1, <4>2
    <3> QED BY <3>1
  <2>3. Nat \subseteq S
    <3> HIDE DEF S
    <3> QED BY ONLY <2>1, <2>2, Induct
  <2> QED BY <2>3
<1> DEFINE G(n) == CHOOSE f : f \in Upto(n)
           h == [n \in Nat |-> G(n)[n]]
<1>3. \A n \in Nat : G(n) \in Upto(n)
  BY <1>1
<1> HIDE DEF G
<1>4. h \in [Nat -> V]
  <2>1. \A n \in Nat : G(n)[n] \in V
    BY <1>3
  <2> QED BY <2>1
<1>5. h[0] = b
  BY <1>3 DEF Follows
<1>6. ASSUME NEW n \in Nat PROVE h[n + 1] = step[<<n, h[n]>>]
  <2>1. G(n + 1)[n] = G(n)[n]
    <3>1. G(n + 1) \in Upto(n + 1) /\ G(n) \in Upto(n)
      BY <1>3
    <3> HIDE DEF Upto
    <3> QED BY <1>2, <3>1
  <2>2. G(n + 1)[n + 1] = step[<<n, G(n + 1)[n]>>]
    <3>1. G(n + 1) \in Upto(n + 1) /\ n \in 0 .. n + 1 - 1
      BY <1>3
    <3> QED BY <3>1 DEF Follows
  <2> QED BY <2>1, <2>2
<1> QED BY <1>4, <1>5, <1>6 DEF IsRecursive

IsStepTo(step, n, V) == step \in [(1 .. n) \X V -> V]

IsRecursiveTo(f, n, V, b, step) ==
  f \in [0 .. n -> V] /\ f[0] = b /\ \A i \in 1 .. n : f[i] = step[<<i, f[i - 1]>>]

LEMMA RecursionTo ==
  ASSUME NEW n \in Nat, NEW V, NEW b, b \in V, NEW step, IsStepTo(step, n, V)
  PROVE  \E f : IsRecursiveTo(f, n, V, b, step)
<1> DEFINE s == [p \in Nat \X V |-> IF p[1] < n THEN step[<<p[1] + 1, p[2]>>] ELSE p[2]]
<1>1. IsStep(s, V)
  <2>1. ASSUME NEW p \in Nat \X V, p[1] < n PROVE step[<<p[1] + 1, p[2]>>] \in V
    <3>1. <<p[1] + 1, p[2]>> \in (1 .. n) \X V
      BY <2>1
    <3> QED BY <3>1 DEF IsStepTo
  <2>2. \A p \in Nat \X V : (IF p[1] < n THEN step[<<p[1] + 1, p[2]>>] ELSE p[2]) \in V
    <3> TAKE p \in Nat \X V
    <3>1. p[2] \in V
      OBVIOUS
    <3>2. CASE p[1] < n
      BY <2>1, <3>2
    <3>3. CASE ~(p[1] < n)
      BY <3>1, <3>3
    <3> QED BY <3>2, <3>3
  <2> QED BY <2>2 DEF IsStep
<1>2. PICK f : IsRecursive(f, V, b, s)
  <2> HIDE DEF s
  <2> QED BY <1>1, Recursion
<1> DEFINE g == [i \in 0 .. n |-> f[i]]
<1>3. g \in [0 .. n -> V] /\ g[0] = b
  BY <1>2 DEF IsRecursive
<1>4. ASSUME NEW i \in 1 .. n PROVE g[i] = step[<<i, g[i - 1]>>]
  <2>1. i - 1 \in Nat /\ i - 1 \in 0 .. n /\ i \in 0 .. n /\ (i - 1) + 1 = i /\ i - 1 < n
    OBVIOUS
  <2>2. f[i] = s[<<i - 1, f[i - 1]>>] /\ f[i - 1] \in V
    <3> HIDE DEF s
    <3>1. f[(i - 1) + 1] = s[<<i - 1, f[i - 1]>>] /\ f \in [Nat -> V]
      BY <1>2, <2>1 DEF IsRecursive
    <3> QED BY <2>1, <3>1
  <2>3. s[<<i - 1, f[i - 1]>>] = step[<<i, f[i - 1]>>]
    <3>1. <<i - 1, f[i - 1]>> \in Nat \X V
      BY <2>1, <2>2
    <3> QED BY <2>1, <3>1
  <2>4. g[i] = f[i] /\ g[i - 1] = f[i - 1]
    BY <2>1
  <2> QED BY <2>2, <2>3, <2>4
<1>5. IsRecursiveTo(g, n, V, b, step)
  <2> HIDE DEF g
  <2> QED BY <1>3, <1>4 DEF IsRecursiveTo
<1> QED BY <1>5

-----------------------------------------------------------------------------
(* Arithmetic.                                                             *)

LEMMA DivMod ==
  ASSUME NEW a \in Int, NEW b \in Nat, b > 0
  PROVE  /\ a \div b \in Int /\ a % b \in 0 .. b - 1
         /\ a = b * (a \div b) + (a % b)
OBVIOUS

\* A quotient is the one number that leaves a remainder in range.
LEMMA DivIs ==
  ASSUME NEW a \in Int, NEW b \in Nat, b > 0, NEW q \in Int, NEW r \in Int,
         a = b * q + r, 0 <= r, r < b
  PROVE  a \div b = q /\ a % b = r
OBVIOUS

LEMMA TimesMonotone ==
  ASSUME NEW a \in Int, NEW b \in Int, NEW t \in Nat, a <= b
  PROVE  a * t <= b * t
OBVIOUS

LEMMA TimesAssociative ==
  ASSUME NEW a \in Int, NEW b \in Int, NEW c \in Int
  PROVE  (a * b) * c = a * (b * c) /\ a * b = b * a
OBVIOUS

LEMMA Distributes ==
  ASSUME NEW a \in Int, NEW b \in Int, NEW c \in Int
  PROVE  a * (b + c) = a * b + a * c /\ a * (b - c) = a * b - a * c
OBVIOUS

LEMMA TimesPositive ==
  ASSUME NEW a \in Nat, NEW b \in Nat, a >= 1, b >= 1
  PROVE  a * b \in Nat /\ a * b >= 1 /\ a * b >= b
OBVIOUS

LEMMA TimesNat ==
  ASSUME NEW a \in Nat, NEW b \in Nat
  PROVE  a * b \in Nat
OBVIOUS

\* Two divisions are one.
LEMMA DivDiv ==
  ASSUME NEW v \in Int, NEW a \in Nat, a >= 1, NEW b \in Nat, b >= 1
  PROVE  (v \div a) \div b = v \div (a * b)
<1> DEFINE q == v \div a
           r == v % a
           p == q \div b
           s == q % b
<1>1. q \in Int /\ r \in Int /\ 0 <= r /\ r < a /\ v = a * q + r
  BY DivMod
<1>2. p \in Int /\ s \in Int /\ 0 <= s /\ s < b /\ q = b * p + s
  BY <1>1, DivMod
<1> HIDE DEF q, r, p, s
<1>3. a * q = (a * b) * p + a * s
  BY <1>1, <1>2, Distributes, TimesAssociative
<1>4. a * s + r < a * b /\ 0 <= a * s + r
  <2>1. s * a <= (b - 1) * a
    BY <1>2, TimesMonotone
  <2>2. (b - 1) * a = b * a - a /\ s * a = a * s /\ b * a = a * b /\ 0 * a = 0
    BY <1>2
  <2>3. 0 * a <= s * a
    BY <1>2, TimesMonotone
  <2> QED BY <1>1, <1>2, <2>1, <2>2, <2>3
<1>5. v \div (a * b) = p
  <2> DEFINE c == a * b
             t == a * s + r
  <2>1. c \in Nat /\ c > 0 /\ t \in Int
    BY <1>1, <1>2, TimesPositive
  <2>2. v = c * p + t /\ 0 <= t /\ t < c
    BY <1>1, <1>2, <1>3, <1>4
  <2>3. v \div c = p
    <3> HIDE DEF c, t
    <3> QED BY <1>2, <2>1, <2>2, DivIs
  <2> QED BY <2>3
<1> QED BY <1>5 DEF p, q

LEMMA PowerIs ==
  ASSUME NEW b \in Nat
  PROVE  /\ Power(b) \in [Nat -> Nat]
         /\ Power(b)[0] = 1
         /\ \A n \in Nat : Power(b)[n + 1] = b * Power(b)[n]
<1> DEFINE step == [p \in Nat \X Nat |-> b * p[2]]
           IsIt(p) == p = [n \in Nat |-> IF n = 0 THEN 1 ELSE b * p[n - 1]]
<1>1. IsStep(step, Nat)
  BY DEF IsStep
<1>2. PICK f \in [Nat -> Nat] : f[0] = 1 /\ \A n \in Nat : f[n + 1] = step[<<n, f[n]>>]
  <2> DEFINE one == 1
  <2>1. one \in Nat
    OBVIOUS
  <2> HIDE DEF step, one
  <2>2. \E f : IsRecursive(f, Nat, one, step)
    BY <1>1, <2>1, Recursion
  <2> QED BY <2>2 DEF one, IsRecursive
<1>3. IsIt(f)
  <2> DEFINE g == [n \in Nat |-> IF n = 0 THEN 1 ELSE b * f[n - 1]]
  <2>1. ASSUME NEW n \in Nat PROVE f[n] = g[n]
    <3>1. CASE n # 0
      <4>1. n - 1 \in Nat /\ (n - 1) + 1 = n
        BY <3>1
      <4>2. f[(n - 1) + 1] = b * f[n - 1]
        BY <4>1, <1>2
      <4> QED BY <3>1, <4>1, <4>2
    <3> QED BY <1>2, <3>1
  <2> QED BY <2>1
<1>4. IsIt(Power(b))
  <2>1. Power(b) = CHOOSE p : IsIt(p)
    BY DEF Power
  <2> HIDE DEF IsIt
  <2> QED BY <2>1, <1>3
<1> DEFINE q == Power(b)
<1> HIDE DEF q
<1>5. q = [n \in Nat |-> IF n = 0 THEN 1 ELSE b * q[n - 1]]
  BY <1>4 DEF q
<1>6. q[0] = 1 /\ \A n \in Nat : q[n + 1] = b * q[n]
  <2>1. q[0] = 1
    BY <1>5
  <2>2. ASSUME NEW n \in Nat PROVE q[n + 1] = b * q[n]
    <3>1. n + 1 \in Nat /\ n + 1 # 0 /\ (n + 1) - 1 = n
      OBVIOUS
    <3>2. q[n + 1] = IF n + 1 = 0 THEN 1 ELSE b * q[(n + 1) - 1]
      BY <1>5, <3>1
    <3> QED BY <3>1, <3>2
  <2> QED BY <2>1, <2>2
<1> DEFINE S == {n \in Nat : q[n] \in Nat}
<1>7. Nat \subseteq S
  <2>1. 0 \in S /\ \A n \in Nat : n \in S => n + 1 \in S
    BY <1>6
  <2> HIDE DEF S
  <2> QED BY <2>1, Induct
<1>8. q \in [Nat -> Nat]
  BY <1>5, <1>7
<1> QED BY <1>6, <1>8 DEF q

LEMMA PowerPositive ==
  ASSUME NEW b \in Nat, b >= 1, NEW n \in Nat
  PROVE  Power(b)[n] \in Nat /\ Power(b)[n] >= 1
<1> DEFINE S == {i \in Nat : Power(b)[i] >= 1}
<1>1. 0 \in S
  <2>1. Power(b)[0] = 1
    BY PowerIs
  <2> QED BY <2>1
<1>2. ASSUME NEW i \in Nat, i \in S PROVE i + 1 \in S
  <2>1. Power(b)[i] \in Nat /\ Power(b)[i] >= 1 /\ Power(b)[i + 1] = b * Power(b)[i]
    BY <1>2, PowerIs
  <2>2. b * Power(b)[i] >= 1
    BY <2>1, TimesPositive
  <2> QED BY <2>1, <2>2
<1>3. Nat \subseteq S
  <2> HIDE DEF S
  <2> QED BY ONLY <1>1, <1>2, Induct
<1> QED BY <1>3, PowerIs

LEMMA PowerSum ==
  ASSUME NEW b \in Nat, NEW m \in Nat, NEW n \in Nat
  PROVE  Power(b)[m + n] = Power(b)[m] * Power(b)[n]
<1> DEFINE P == Power(b)
           S == {i \in Nat : P[m + i] = P[m] * P[i]}
<1>1. P \in [Nat -> Nat] /\ P[0] = 1 /\ \A i \in Nat : P[i + 1] = b * P[i]
  BY PowerIs
<1> HIDE DEF P
<1>2. 0 \in S
  BY <1>1
<1>3. ASSUME NEW i \in Nat, i \in S PROVE i + 1 \in S
  <2>1. m + (i + 1) = (m + i) + 1 /\ m + i \in Nat
    OBVIOUS
  <2>2. P[m + (i + 1)] = b * (P[m] * P[i])
    BY <1>1, <1>3, <2>1
  <2>3. P[m] \in Int /\ P[i] \in Int
    BY <1>1
  <2>4. b * (P[m] * P[i]) = P[m] * (b * P[i])
    BY <2>3, TimesAssociative
  <2>5. P[i + 1] = b * P[i]
    BY <1>1
  <2> QED BY <2>2, <2>4, <2>5
<1>4. Nat \subseteq S
  <2> HIDE DEF S
  <2> QED BY ONLY <1>2, <1>3, Induct
<1> QED BY <1>4 DEF P

LEMMA PowerMonotone ==
  ASSUME NEW b \in Nat, b >= 1, NEW m \in Nat, NEW n \in Nat, m <= n
  PROVE  Power(b)[m] <= Power(b)[n]
<1> DEFINE d == n - m
<1>1. d \in Nat /\ n = m + d
  OBVIOUS
<1> HIDE DEF d
<1>2. Power(b)[n] = Power(b)[m] * Power(b)[d]
  BY <1>1, PowerSum
<1>3. Power(b)[m] \in Nat /\ Power(b)[d] \in Nat /\ Power(b)[m] >= 1 /\ Power(b)[d] >= 1
  BY <1>1, PowerPositive
<1>4. Power(b)[d] * Power(b)[m] >= Power(b)[m]
  BY <1>3, TimesPositive
<1> QED BY <1>2, <1>3, <1>4, TimesAssociative

LEMMA PowerOfPower ==
  ASSUME NEW b \in Nat, NEW m \in Nat, NEW n \in Nat
  PROVE  Power(Power(b)[m])[n] = Power(b)[m * n]
<1> DEFINE P == Power(b)
           c == P[m]
           Q == Power(c)
           S == {i \in Nat : Q[i] = P[m * i]}
<1>1. c \in Nat /\ P[0] = 1
  BY PowerIs
<1>2. Q[0] = 1 /\ \A i \in Nat : Q[i + 1] = c * Q[i]
  <2> HIDE DEF c
  <2> QED BY <1>1, PowerIs
<1> HIDE DEF P, Q
<1>3. 0 \in S
  <2>1. m * 0 = 0
    OBVIOUS
  <2> QED BY <1>1, <1>2, <2>1
<1>4. ASSUME NEW i \in Nat, i \in S PROVE i + 1 \in S
  <2>1. m * i \in Nat /\ m * (i + 1) = m + m * i
    BY TimesNat, Distributes
  <2>2. P[m + m * i] = P[m] * P[m * i]
    BY <2>1, PowerSum DEF P
  <2>3. Q[i + 1] = c * Q[i] /\ Q[i] = P[m * i]
    BY <1>2, <1>4
  <2> QED BY <2>1, <2>2, <2>3
<1>5. Nat \subseteq S
  <2> HIDE DEF S
  <2> QED BY ONLY <1>3, <1>4, Induct
<1> QED BY <1>5 DEF P, Q

LEMMA Least ==
  ASSUME NEW T, T \subseteq Nat, T # {}
  PROVE  \E x \in T : \A y \in T : x <= y
<1> DEFINE S == {n \in Nat : \A y \in T : n <= y}
<1> SUFFICES ASSUME \A x \in T : \E y \in T : ~(x <= y) PROVE FALSE
  OBVIOUS
<1>1. 0 \in S
  OBVIOUS
<1>2. ASSUME NEW n \in Nat, n \in S PROVE n + 1 \in S
  <2>1. n \notin T
    BY <1>2
  <2>2. ASSUME NEW y \in T PROVE n + 1 <= y
    <3>1. n <= y /\ y # n /\ y \in Nat
      BY <1>2, <2>1
    <3> QED BY <3>1
  <2> QED BY <2>2
<1>3. Nat \subseteq S
  <2> HIDE DEF S
  <2> QED BY ONLY <1>1, <1>2, Induct
<1>4. PICK y \in T : TRUE
  OBVIOUS
<1>5. y + 1 \in S
  BY <1>3
<1> QED BY <1>5

\* What the widths of bytes and integers give.
LEMMA Widths ==
  /\ GroupBits \in Nat /\ Width \in Nat /\ FixedLength \in Nat /\ FixedLength >= 1
  /\ More \in Nat /\ More >= 2
  /\ Base \in Nat /\ Base = 2 * More
  /\ Half \in Nat /\ Half >= 1 /\ Words \in Nat /\ Words = 2 * Half
  /\ MaxGroups \in Nat /\ MaxGroups >= 1 /\ Words <= Power(More)[MaxGroups]
<1>1. /\ GroupBits \in Nat /\ GroupBits >= 1 /\ Width \in Nat /\ Width >= 1
      /\ FixedLength \in Nat /\ FixedLength >= 1
  BY EncodingAssumption
<1>2. \A n \in Nat : Power(2)[n] \in Nat /\ Power(2)[n] >= 1 /\ Power(2)[n + 1] = 2 * Power(2)[n]
  BY PowerPositive, PowerIs
<1> DEFINE g == GroupBits - 1
           w == Width - 1
<1>3. g \in Nat /\ GroupBits = g + 1 /\ w \in Nat /\ Width = w + 1
  BY <1>1
<1>4. More \in Nat /\ More >= 2
  BY <1>2, <1>3 DEF More
<1>5. Half \in Nat /\ Half >= 1 /\ Words \in Nat /\ Words = 2 * Half
  BY <1>2, <1>3 DEF Half, Words
<1>6. Base \in Nat /\ Base = 2 * More
  BY <1>4 DEF Base
<1> DEFINE m == MaxGroups
           a == Width + GroupBits - 1
           r == a % GroupBits
<1>7. m \in Int /\ r \in 0 .. GroupBits - 1 /\ a = GroupBits * m + r
  BY <1>1, DivMod DEF MaxGroups
<1> HIDE DEF m, r, g, w
<1>8. m >= 1
  <2>1. CASE m <= 0
    <3>1. m * GroupBits <= 0 * GroupBits
      BY <1>1, <1>7, <2>1, TimesMonotone
    <3> QED BY <1>1, <1>7, <3>1, TimesAssociative
  <2> QED BY <1>7, <2>1
<1>9. GroupBits * m >= Width /\ GroupBits * m \in Nat
  BY <1>1, <1>7, <1>8, TimesNat
<1>10. Words <= Power(More)[m]
  <2>1. Power(2)[Width] <= Power(2)[GroupBits * m]
    BY <1>1, <1>9, PowerMonotone
  <2>2. Power(Power(2)[GroupBits])[m] = Power(2)[GroupBits * m]
    BY <1>1, <1>7, <1>8, PowerOfPower
  <2> QED BY <2>1, <2>2 DEF Words, More
<1> QED BY <1>1, <1>4, <1>5, <1>6, <1>7, <1>8, <1>10 DEF m

-----------------------------------------------------------------------------
(* Digits and numbers.                                                     *)

LEMMA NextQuotient ==
  ASSUME NEW v \in Int, NEW b \in Nat, b >= 1, NEW k \in Nat
  PROVE  (v \div Power(b)[k]) \div b = v \div Power(b)[k + 1]
<1>1. Power(b)[k] \in Nat /\ Power(b)[k] >= 1 /\ Power(b)[k + 1] = b * Power(b)[k]
  BY PowerPositive, PowerIs
<1>2. Power(b)[k + 1] = Power(b)[k] * b
  BY <1>1, TimesAssociative
<1> QED BY <1>1, <1>2, DivDiv

LEMMA DigitIn ==
  ASSUME NEW v \in Int, NEW b \in Nat, b >= 1, NEW k \in Nat
  PROVE  v \div Power(b)[k] \in Int /\ (v \div Power(b)[k]) % b \in 0 .. b - 1
<1>1. Power(b)[k] \in Nat /\ Power(b)[k] >= 1
  BY PowerPositive
<1>2. v \div Power(b)[k] \in Int
  BY <1>1, DivMod
<1> QED BY <1>2, DivMod

\* The remainder of one digit more.
LEMMA ModNext ==
  ASSUME NEW v \in Int, NEW a \in Nat, a >= 1, NEW b \in Nat, b >= 1
  PROVE  v % (a * b) = (v % a) + ((v \div a) % b) * a
<1> DEFINE q == v \div a
           r == v % a
           p == q \div b
           s == q % b
           c == a * b
           t == a * s + r
<1>1. q \in Int /\ r \in Int /\ 0 <= r /\ r < a /\ v = a * q + r
  BY DivMod
<1>2. p \in Int /\ s \in Int /\ 0 <= s /\ s < b /\ q = b * p + s
  BY <1>1, DivMod
<1> HIDE DEF q, r, p, s
<1>3. a * q = (a * b) * p + a * s
  BY <1>1, <1>2, Distributes, TimesAssociative
<1>4. a * s + r < a * b /\ 0 <= a * s + r
  <2>1. s * a <= (b - 1) * a
    BY <1>2, TimesMonotone
  <2>2. (b - 1) * a = b * a - a /\ s * a = a * s /\ b * a = a * b /\ 0 * a = 0
    BY <1>2
  <2>3. 0 * a <= s * a
    BY <1>2, TimesMonotone
  <2> QED BY <1>1, <1>2, <2>1, <2>2, <2>3
<1>5. c \in Nat /\ c > 0 /\ t \in Int
  BY <1>1, <1>2, TimesPositive
<1>6. v = c * p + t /\ 0 <= t /\ t < c
  BY <1>1, <1>2, <1>3, <1>4
<1>7. v % c = t
  <2> HIDE DEF c, t
  <2> QED BY <1>2, <1>5, <1>6, DivIs
<1>8. t = r + s * a
  BY <1>1, <1>2, TimesAssociative
<1> QED BY <1>7, <1>8 DEF q, r, p, s

LEMMA ModOfSmall ==
  ASSUME NEW v \in Nat, NEW c \in Nat, v < c
  PROVE  v % c = v
<1>1. v = c * 0 + v
  OBVIOUS
<1> QED BY <1>1, DivIs

\* The partial sums of Positional.
SumTo(digits, b) ==
  LET sum[n \in 0 .. Len(digits)] ==
        IF n = 0 THEN 0 ELSE sum[n - 1] + digits[n] * Power(b)[n - 1]
  IN  sum

LEMMA SumsAre ==
  ASSUME NEW digits \in Seq(Nat), NEW b \in Nat
  PROVE  /\ Positional(digits, b) = SumTo(digits, b)[Len(digits)]
         /\ SumTo(digits, b) \in [0 .. Len(digits) -> Nat]
         /\ SumTo(digits, b)[0] = 0
         /\ \A i \in 1 .. Len(digits) :
              SumTo(digits, b)[i] = SumTo(digits, b)[i - 1] + digits[i] * Power(b)[i - 1]
<1> DEFINE m == Len(digits)
           step == [p \in (1 .. m) \X Nat |-> p[2] + digits[p[1]] * Power(b)[p[1] - 1]]
           IsIt(s) == s = [n \in 0 .. m |->
                             IF n = 0 THEN 0 ELSE s[n - 1] + digits[n] * Power(b)[n - 1]]
<1>0. m \in Nat /\ \A i \in 1 .. m : digits[i] \in Nat
  BY ElementOfSeq, LenProperties
<1>1. \A i \in 1 .. m : digits[i] * Power(b)[i - 1] \in Nat
  <2> TAKE i \in 1 .. m
  <2>1. i - 1 \in Nat /\ digits[i] \in Nat
    BY <1>0
  <2>2. Power(b)[i - 1] \in Nat
    BY <2>1, PowerIs
  <2> QED BY <2>1, <2>2, TimesNat
<1> HIDE DEF m
<1>2. IsStepTo(step, m, Nat)
  <2>1. \A p \in (1 .. m) \X Nat : p[2] + digits[p[1]] * Power(b)[p[1] - 1] \in Nat
    BY <1>1
  <2> QED BY <2>1 DEF IsStepTo
<1>3. PICK f : IsRecursiveTo(f, m, Nat, 0, step)
  <2> DEFINE zero == 0
  <2>1. zero \in Nat
    OBVIOUS
  <2> HIDE DEF step, zero
  <2>2. \E f : IsRecursiveTo(f, m, Nat, zero, step)
    BY <1>0, <1>2, <2>1, RecursionTo
  <2> QED BY <2>2 DEF zero
<1>4. f \in [0 .. m -> Nat] /\ f[0] = 0
  BY <1>3 DEF IsRecursiveTo
<1>5. ASSUME NEW i \in 1 .. m PROVE f[i] = f[i - 1] + digits[i] * Power(b)[i - 1]
  <2>1. f[i] = step[<<i, f[i - 1]>>]
    <3> HIDE DEF step
    <3> QED BY <1>3 DEF IsRecursiveTo
  <2>2. i - 1 \in 0 .. m
    BY <1>0
  <2>3. <<i, f[i - 1]>> \in (1 .. m) \X Nat
    BY <1>4, <2>2
  <2> QED BY <2>1, <2>3
<1>6. IsIt(f)
  <2>1. \A n \in 0 .. m : f[n] = IF n = 0 THEN 0 ELSE f[n - 1] + digits[n] * Power(b)[n - 1]
    BY <1>0, <1>4, <1>5
  <2> QED BY <1>4, <2>1
<1> DEFINE q == SumTo(digits, b)
<1>7. IsIt(q)
  <2>1. q = CHOOSE s : IsIt(s)
    BY DEF SumTo, m
  <2> HIDE DEF IsIt, q
  <2> QED BY <1>6, <2>1
<1>8. Positional(digits, b) = q[m]
  BY DEF Positional, SumTo, m
<1> HIDE DEF q
<1>9. q[0] = 0 /\ \A i \in 1 .. m : q[i] = q[i - 1] + digits[i] * Power(b)[i - 1]
  <2>1. \A n \in 0 .. m : q[n] = IF n = 0 THEN 0 ELSE q[n - 1] + digits[n] * Power(b)[n - 1]
    BY <1>7
  <2>2. 0 \in 0 .. m /\ \A i \in 1 .. m : i \in 0 .. m /\ i # 0
    BY <1>0
  <2> QED BY <2>1, <2>2
<1> DEFINE S == {n \in Nat : n <= m => q[n] \in Nat}
<1>10. 0 \in S
  BY <1>9
<1>11. ASSUME NEW n \in Nat, n \in S PROVE n + 1 \in S
  <2>1. CASE n + 1 <= m
    <3>1. n + 1 \in 1 .. m /\ (n + 1) - 1 = n /\ q[n] \in Nat
      BY <1>0, <1>11, <2>1
    <3>2. q[n + 1] = q[n] + digits[n + 1] * Power(b)[n] /\ digits[n + 1] * Power(b)[n] \in Nat
      BY <1>1, <1>9, <3>1
    <3> QED BY <3>1, <3>2
  <2> QED BY <2>1
<1>12. Nat \subseteq S
  <2> HIDE DEF S
  <2> QED BY ONLY <1>10, <1>11, Induct
<1>13. q \in [0 .. m -> Nat]
  BY <1>7, <1>12
<1> QED BY <1>8, <1>9, <1>13 DEF q, m

LEMMA FunctionIsSeq ==
  ASSUME NEW n \in Nat, NEW S, NEW f \in [1 .. n -> S]
  PROVE  f \in Seq(S) /\ Len(f) = n /\ \A i \in 1 .. n : f[i] \in S
OBVIOUS

LEMMA PositionalIn ==
  ASSUME NEW digits \in Seq(Nat), NEW b \in Nat
  PROVE  Positional(digits, b) \in Nat
<1>1. Len(digits) \in 0 .. Len(digits)
  BY LenProperties
<1> QED BY <1>1, SumsAre

\* The digits of a number give back what of it they hold.
LEMMA NumberOfDigits ==
  ASSUME NEW v \in Int, NEW b \in Nat, b >= 1, NEW n \in Nat, NEW digits \in Seq(Nat),
         Len(digits) = n, \A i \in 1 .. n : digits[i] = (v \div Power(b)[i - 1]) % b
  PROVE  Positional(digits, b) = v % Power(b)[n]
<1> DEFINE q == SumTo(digits, b)
           S == {i \in Nat : i <= n => q[i] = v % Power(b)[i]}
<1>1. /\ q[0] = 0
      /\ \A i \in 1 .. n : q[i] = q[i - 1] + digits[i] * Power(b)[i - 1]
  BY SumsAre
<1>2. 0 \in S
  <2>1. Power(b)[0] = 1 /\ v = 1 * v + 0
    BY PowerIs
  <2>2. v % 1 = 0
    BY <2>1, DivIs
  <2> QED BY <1>1, <2>1, <2>2
<1>3. ASSUME NEW i \in Nat, i \in S PROVE i + 1 \in S
  <2> SUFFICES ASSUME i + 1 <= n PROVE q[i + 1] = v % Power(b)[i + 1]
    OBVIOUS
  <2>1. i + 1 \in 1 .. n /\ (i + 1) - 1 = i /\ q[i] = v % Power(b)[i]
    BY <1>3
  <2>2. q[i + 1] = (v % Power(b)[i]) + ((v \div Power(b)[i]) % b) * Power(b)[i]
    BY <1>1, <2>1
  <2>3. Power(b)[i] \in Nat /\ Power(b)[i] >= 1 /\ Power(b)[i + 1] = b * Power(b)[i]
    BY PowerIs, PowerPositive
  <2>4. Power(b)[i + 1] = Power(b)[i] * b
    BY <2>3, TimesAssociative
  <2>5. v % (Power(b)[i] * b) = (v % Power(b)[i]) + ((v \div Power(b)[i]) % b) * Power(b)[i]
    BY <2>3, ModNext
  <2> QED BY <2>2, <2>4, <2>5
<1>4. Nat \subseteq S
  <2> HIDE DEF S
  <2> QED BY ONLY <1>2, <1>3, Induct
<1>5. q[n] = v % Power(b)[n]
  BY <1>4
<1> QED BY <1>5, SumsAre

AreDigits(x, n, b) == \A i \in 1 .. n : x[i] \in 0 .. b - 1

AreWeights(P, b) == P[0] = 1 /\ \A i \in Nat : P[i] \in Nat /\ P[i] >= 1 /\ P[i + 1] = b * P[i]

AreSums(q, n, x, P) ==
  /\ q[0] = 0
  /\ \A i \in 0 .. n : q[i] \in Nat
  /\ \A i \in 1 .. n : q[i] = q[i - 1] + x[i] * P[i - 1]

\* A digit is what lies between its weight and the next.
LEMMA DigitInSum ==
  ASSUME NEW b \in Nat, b >= 1, NEW n \in Nat, NEW x, AreDigits(x, n, b),
         NEW P, AreWeights(P, b), NEW q, AreSums(q, n, x, P),
         NEW k \in Nat, k + 1 <= n
  PROVE  (q[n] \div P[k]) % b = x[k + 1]
<1>0. /\ \A i \in 1 .. n : x[i] \in 0 .. b - 1
      /\ P[0] = 1 /\ \A i \in Nat : P[i] \in Nat /\ P[i] >= 1 /\ P[i + 1] = b * P[i]
      /\ q[0] = 0
      /\ \A i \in 0 .. n : q[i] \in Nat
      /\ \A i \in 1 .. n : q[i] = q[i - 1] + x[i] * P[i - 1]
  BY DEF AreDigits, AreWeights, AreSums
<1> DEFINE d == x[k + 1]
           R(e) == {r \in Nat : q[k + 1 + e] = q[k] + P[k] * d + P[k + 1] * r}
<1>1. d \in Nat /\ d < b /\ P[k] \in Nat /\ P[k] >= 1 /\ P[k + 1] = b * P[k] /\ q[k] \in Nat
  <2>1. k + 1 \in 1 .. n /\ k \in 0 .. n
    OBVIOUS
  <2> QED BY <1>0, <2>1
<1>2. \A i \in Nat : i + 1 <= n => q[i + 1] = q[i] + x[i + 1] * P[i] /\ x[i + 1] \in 0 .. b - 1
                                   /\ q[i] \in Nat /\ P[i] \in Nat
  <2> TAKE i \in Nat
  <2> HAVE i + 1 <= n
  <2>1. i + 1 \in 1 .. n /\ (i + 1) - 1 = i /\ i \in 0 .. n
    OBVIOUS
  <2> QED BY <1>0, <2>1
<1> HIDE DEF d
\* Below it lies less than its weight.
<1>3. q[k] < P[k]
  <2> DEFINE S == {i \in Nat : i <= n => q[i] < P[i]}
  <2>1. 0 \in S
    BY <1>0
  <2>2. ASSUME NEW i \in Nat, i \in S PROVE i + 1 \in S
    <3> SUFFICES ASSUME i + 1 <= n PROVE q[i + 1] < P[i + 1]
      OBVIOUS
    <3> DEFINE y == x[i + 1]
               w == P[i]
               z == q[i]
    <3>1. y \in Nat /\ y <= b - 1 /\ w \in Nat /\ z \in Nat /\ z < w
      BY <1>2, <2>2
    <3>2. q[i + 1] = z + y * w /\ P[i + 1] = b * w
      BY <1>0, <1>2
    <3> HIDE DEF y, w, z
    <3>3. y * w <= (b - 1) * w
      BY <3>1, TimesMonotone
    <3>4. (b - 1) * w = b * w - w /\ y * w \in Int /\ b * w \in Int
      BY <3>1
    <3>5. z + y * w < b * w
      <4> DEFINE u == y * w
                 v == b * w
                 t == (b - 1) * w
      <4>1. u \in Int /\ v \in Int /\ u <= t /\ t = v - w
        BY <3>3, <3>4
      <4> HIDE DEF u, v, t
      <4>2. z + u < v
        BY <3>1, <4>1
      <4> QED BY <4>2 DEF u, v
    <3> QED BY <3>2, <3>5
  <2>3. Nat \subseteq S
    <3> HIDE DEF S
    <3> QED BY ONLY <2>1, <2>2, Induct
  <2> QED BY <2>3
\* Above it lies a multiple of the next weight.
<1>4. \A e \in Nat : k + 1 + e <= n => R(e) # {} /\ \E m \in Nat : P[k + 1 + e] = P[k + 1] * m
  <2> DEFINE S == {e \in Nat : k + 1 + e <= n =>
                       R(e) # {} /\ \E m \in Nat : P[k + 1 + e] = P[k + 1] * m}
  <2>1. 0 \in S
    <3>1. k + 1 + 0 = k + 1 /\ k + 1 \in Nat
      OBVIOUS
    <3>2. P[k + 1] \in Nat
      BY <1>0, <3>1
    <3>3. P[k + 1] * 0 = 0 /\ P[k + 1] * 1 = P[k + 1] /\ d * P[k] = P[k] * d /\ P[k] * d \in Int
      BY <1>1, <3>2
    <3>4. q[k + 1] = q[k] + P[k] * d + P[k + 1] * 0
      <4>1. q[k + 1] = q[k] + d * P[k]
        BY <1>2 DEF d
      <4> QED BY <1>1, <3>3, <4>1
    <3>5. 0 \in R(0)
      BY <3>1, <3>4
    <3>6. P[k + 1 + 0] = P[k + 1] * 1
      BY <3>1, <3>3
    <3> HIDE DEF R
    <3> QED BY <3>5, <3>6
  <2>2. ASSUME NEW e \in Nat, e \in S PROVE e + 1 \in S
    <3> DEFINE i == k + 1 + e
               f == k + 1 + (e + 1)
    <3> SUFFICES ASSUME f <= n
                 PROVE  R(e + 1) # {} /\ \E m \in Nat : P[f] = P[k + 1] * m
      OBVIOUS
    <3>1. i \in Nat /\ i + 1 = f /\ i + 1 <= n /\ i <= n /\ k + 1 \in Nat
      OBVIOUS
    <3>2. R(e) # {} /\ \E m \in Nat : P[i] = P[k + 1] * m
      BY <2>2, <3>1
    <3>3. PICK r \in Nat : q[i] = q[k] + P[k] * d + P[k + 1] * r
      BY <3>2
    <3>4. PICK m \in Nat : P[i] = P[k + 1] * m
      BY <3>2
    <3> DEFINE y == x[i + 1]
               c == P[k + 1]
    <3>5. y \in Nat /\ q[f] = q[i] + y * P[i] /\ c \in Nat /\ P[f] = b * P[i]
      BY <1>0, <1>2, <3>1
    <3>6. y * (c * m) = c * (y * m) /\ y * m \in Nat /\ b * (c * m) = c * (b * m) /\ b * m \in Nat
      <4> HIDE DEF y, c
      <4>1. (y * c) * m = y * (c * m) /\ (c * y) * m = c * (y * m) /\ y * c = c * y
            /\ (b * c) * m = b * (c * m) /\ (c * b) * m = c * (b * m) /\ b * c = c * b
        BY <3>5, TimesAssociative
      <4>2. y * m \in Nat /\ b * m \in Nat
        BY <3>5, TimesNat
      <4> QED BY <4>1, <4>2
    <3>7. q[f] = q[k] + P[k] * d + c * (r + y * m)
      <4> HIDE DEF y, f
      <4>1. c * (r + y * m) = c * r + c * (y * m)
        BY <3>5, <3>6, Distributes
      <4>2. c * r \in Int /\ c * (y * m) \in Int /\ P[k] * d \in Int
        BY <1>1, <3>5, <3>6
      <4>3. q[f] = (q[k] + P[k] * d + c * r) + c * (y * m)
        BY <3>3, <3>4, <3>5, <3>6
      <4> QED BY <1>1, <4>1, <4>2, <4>3
    <3>8. r + y * m \in R(e + 1)
      <4>1. r + y * m \in Nat
        BY <3>6
      <4> HIDE DEF y
      <4> QED BY <3>7, <4>1
    <3>9. P[f] = P[k + 1] * (b * m) /\ b * m \in Nat
      BY <3>4, <3>5, <3>6
    <3> HIDE DEF R, f
    <3> QED BY <3>8, <3>9
  <2>3. Nat \subseteq S
    <3> HIDE DEF S
    <3> QED BY ONLY <2>1, <2>2, Induct
  <2> HIDE DEF R
  <2> QED BY <2>3
<1>5. PICK r \in Nat : q[n] = q[k] + P[k] * d + P[k + 1] * r
  <2> DEFINE e == n - (k + 1)
  <2>1. e \in Nat /\ k + 1 + e = n
    OBVIOUS
  <2>2. R(e) # {}
    <3>1. k + 1 + e <= n
      BY <2>1
    <3> HIDE DEF R, e
    <3> QED BY ONLY <1>4, <2>1, <3>1
  <2> QED BY <2>1, <2>2
<1> DEFINE w == P[k]
           z == q[k]
           t == d + b * r
<1>6. w \in Nat /\ w > 0 /\ z \in Nat /\ z < w
  BY <1>1, <1>3
<1>7. q[n] = z + w * d + (b * w) * r
  BY <1>1, <1>5
<1> HIDE DEF w, z
<1>8. (b * w) * r = w * (b * r) /\ w * d \in Int /\ b * r \in Int /\ w * (b * r) \in Int
  <2>1. (b * w) * r = (w * b) * r /\ (w * b) * r = w * (b * r)
    BY <1>6, TimesAssociative
  <2> QED BY <1>1, <1>6, <2>1
<1>9. w * t = w * d + w * (b * r) /\ t \in Int
  BY <1>1, <1>6, <1>8, Distributes
<1>10. q[n] = w * t + z
  BY <1>6, <1>7, <1>8, <1>9
<1>11. q[n] \in Int
  BY <1>0
<1>12. q[n] \div w = t
  <2> DEFINE a == q[n]
  <2>1. a \in Int /\ a = w * t + z /\ t \in Int
    BY <1>9, <1>10, <1>11
  <2>2. 0 <= z /\ z \in Int
    BY <1>6
  <2> HIDE DEF t, a
  <2>3. a \div w = t
    BY ONLY <1>6, <2>1, <2>2, DivIs
  <2> QED BY <2>3 DEF a
<1>13. t % b = d
  <2>1. t = b * r + d /\ t \in Int /\ 0 <= d /\ d \in Int /\ r \in Int
    BY <1>1, <1>8, <1>9
  <2> HIDE DEF t
  <2>2. b \in Nat /\ b > 0
    OBVIOUS
  <2> QED BY ONLY <1>1, <2>1, <2>2, DivIs
<1> QED BY <1>12, <1>13 DEF w, d

\* A number made of digits has these digits.
LEMMA DigitsOfNumber ==
  ASSUME NEW b \in Nat, b >= 1, NEW n \in Nat, NEW digits \in Seq(Nat), Len(digits) = n,
         \A i \in 1 .. n : digits[i] < b, NEW k \in Nat, k + 1 <= n
  PROVE  (Positional(digits, b) \div Power(b)[k]) % b = digits[k + 1]
<1> DEFINE q == SumTo(digits, b)
           P == Power(b)
<1>1. /\ Positional(digits, b) = q[n]
      /\ q[0] = 0
      /\ \A i \in 1 .. n : q[i] = q[i - 1] + digits[i] * P[i - 1]
      /\ \A i \in 0 .. n : q[i] \in Nat
  BY SumsAre
<1>2. P[0] = 1 /\ \A i \in Nat : P[i] \in Nat /\ P[i] >= 1 /\ P[i + 1] = b * P[i]
  BY PowerIs, PowerPositive
<1>3. \A i \in 1 .. n : digits[i] \in 0 .. b - 1
  BY ElementOfSeq
<1> HIDE DEF q, P
<1>4. AreDigits(digits, n, b)
  BY <1>3 DEF AreDigits
<1>5. AreSums(q, n, digits, P)
  BY <1>1 DEF AreSums
<1>6. AreWeights(P, b)
  BY <1>2 DEF AreWeights
<1>8. (q[n] \div P[k]) % b = digits[k + 1]
  BY <1>4, <1>5, <1>6, DigitInSum
<1> QED BY <1>1, <1>8 DEF P

-----------------------------------------------------------------------------
(* Integers of fixed length.                                               *)

LEMMA HostBytesAre ==
  ASSUME NEW x \in Int
  PROVE  /\ HostBytes(x) \in Seq(Byte) /\ HostBytes(x) \in Seq(Nat)
         /\ Len(HostBytes(x)) = FixedLength
         /\ \A i \in 1 .. FixedLength : HostBytes(x)[i] = (x \div Power(Base)[i - 1]) % Base
<1> DEFINE F == FixedLength
           D(i) == (x \div Power(Base)[i - 1]) % Base
<1>1. F \in Nat /\ Base \in Nat /\ Base >= 1
  BY Widths
<1>2. \A i \in 1 .. F : D(i) \in Byte /\ D(i) \in Nat
  <2> TAKE i \in 1 .. F
  <2>1. i - 1 \in Nat
    BY <1>1
  <2>2. (x \div Power(Base)[i - 1]) % Base \in 0 .. Base - 1
    BY <1>1, <2>1, DigitIn
  <2> QED BY <2>2 DEF Byte
<1> DEFINE h == [i \in 1 .. F |-> D(i)]
<1>3. HostBytes(x) = h
  BY DEF HostBytes
<1> HIDE DEF F, D
<1>4. h \in [1 .. F -> Byte] /\ h \in [1 .. F -> Nat] /\ \A i \in 1 .. F : h[i] = D(i)
  BY <1>2
<1> HIDE DEF h
<1>5. h \in Seq(Byte) /\ h \in Seq(Nat) /\ Len(h) = F
  BY <1>1, <1>4, FunctionIsSeq
<1> QED BY <1>3, <1>4, <1>5 DEF F, D

LEMMA BigEndianAre ==
  ASSUME NEW x \in Int
  PROVE  /\ BigEndian(x) \in Seq(Byte)
         /\ Len(BigEndian(x)) = FixedLength
         /\ BigEndian(x) = Reverse(HostBytes(x))
         /\ Reverse(BigEndian(x)) = HostBytes(x)
<1> DEFINE F == FixedLength
           h == HostBytes(x)
           D(i) == (x \div Power(Base)[i - 1]) % Base
<1>1. F \in Nat
  BY Widths
<1>2. h \in Seq(Byte) /\ Len(h) = F /\ h = [i \in 1 .. F |-> D(i)]
  BY HostBytesAre DEF HostBytes
<1>3. BigEndian(x) = [i \in 1 .. F |-> D(F - i + 1)]
  <2>1. \A i \in 1 .. F : (F - i + 1) - 1 = F - i
    BY <1>1
  <2> QED BY <2>1 DEF BigEndian
<1> HIDE DEF F, h, D
<1>4. \A i \in 1 .. F : F - i + 1 \in 1 .. F /\ F - (F - i + 1) + 1 = i
  BY <1>1
<1>5. Reverse(h) = [i \in 1 .. F |-> h[(F - i) + 1]]
  BY <1>2 DEF Reverse
<1>6. BigEndian(x) = Reverse(h)
  <2>1. \A i \in 1 .. F : h[F - i + 1] = D(F - i + 1)
    BY <1>2, <1>4
  <2> QED BY <1>3, <1>5, <2>1
<1>7. \A i \in 1 .. F : h[i] \in Byte
  BY <1>2, ElementOfSeq
<1>8. BigEndian(x) \in [1 .. F -> Byte] /\ \A i \in 1 .. F : BigEndian(x)[i] = h[F - i + 1]
  BY <1>4, <1>5, <1>6, <1>7
<1> DEFINE e == BigEndian(x)
<1> HIDE DEF e
<1>9. e \in Seq(Byte) /\ Len(e) = F
  <2>1. e \in [1 .. F -> Byte]
    BY <1>8 DEF e
  <2> QED BY <1>1, <2>1, FunctionIsSeq
<1>10. Reverse(e) = [i \in 1 .. F |-> e[(F - i) + 1]]
  BY <1>9 DEF Reverse
<1>11. Reverse(e) = h
  <2>1. \A i \in 1 .. F : e[F - i + 1] = h[i]
    BY <1>4, <1>8 DEF e
  <2> QED BY <1>2, <1>10, <2>1
<1> QED BY <1>6, <1>9, <1>11 DEF e, h, F

\* What is loaded is stored again.
LEMMA LoadStore ==
  ASSUME NEW bs \in Seq(Byte), Len(bs) = FixedLength
  PROVE  FromHost(bs) \in Nat /\ HostBytes(FromHost(bs)) = bs
<1> DEFINE F == FixedLength
           x == FromHost(bs)
<1>1. F \in Nat /\ Base \in Nat /\ Base >= 1
  BY Widths
<1>2. \A i \in 1 .. F : bs[i] \in 0 .. Base - 1
  <2> TAKE i \in 1 .. F
  <2>1. bs[i] \in Byte
    BY ElementOfSeq
  <2> QED BY <2>1 DEF Byte
<1>3. bs \in Seq(Nat)
  BY <1>1, <1>2
<1>4. x \in Nat
  BY <1>1, <1>3, PositionalIn DEF FromHost
<1>5. \A i \in 1 .. F : (x \div Power(Base)[i - 1]) % Base = bs[i]
  <2> TAKE i \in 1 .. F
  <2> DEFINE k == i - 1
  <2>1. k \in Nat /\ k + 1 <= F /\ k + 1 = i
    BY <1>1
  <2>2. \A j \in 1 .. F : bs[j] < Base
    BY <1>1, <1>2
  <2> HIDE DEF k
  <2>3. (Positional(bs, Base) \div Power(Base)[k]) % Base = bs[k + 1]
    BY <1>1, <1>3, <2>1, <2>2, DigitsOfNumber
  <2> QED BY <2>1, <2>3 DEF FromHost, k
<1>6. bs = [i \in 1 .. F |-> bs[i]]
  OBVIOUS
<1> HIDE DEF x
<1>7. HostBytes(x) = [i \in 1 .. F |-> bs[i]]
  BY <1>5 DEF HostBytes
<1> QED BY <1>4, <1>6, <1>7 DEF x

LEMMA ReverseIs ==
  ASSUME NEW S, NEW bs \in Seq(S)
  PROVE  Reverse(bs) \in Seq(S) /\ Len(Reverse(bs)) = Len(bs)
BY DEF Reverse

\* An integer of fixed length is written most significant byte first.
LEMMA FixedWritten ==
  ASSUME NEW v \in Nat
  PROVE  HostBytes(Swapped(v)) = BigEndian(v)
<1> DEFINE h == HostBytes(v)
           e == BigEndian(v)
<1>1. e \in Seq(Byte) /\ Len(e) = FixedLength /\ e = Reverse(h)
  BY BigEndianAre
<1>2. Swapped(v) = FromHost(e)
  BY <1>1 DEF Swapped
<1> HIDE DEF e
<1>3. HostBytes(FromHost(e)) = e
  BY <1>1, LoadStore
<1> QED BY <1>2, <1>3 DEF e

\* And read back as what was written.
LEMMA FixedRead ==
  ASSUME NEW v \in 0 .. Power(Base)[FixedLength] - 1
  PROVE  Swapped(FromHost(BigEndian(v))) = v
<1> DEFINE h == HostBytes(v)
           e == BigEndian(v)
           F == FixedLength
           c == Power(Base)[F]
<1>1. F \in Nat /\ Base \in Nat /\ Base >= 1
  BY Widths
<1>2. c \in Nat /\ c >= 1
  BY <1>1, PowerPositive
<1>3. v \in Nat /\ v < c /\ v \in Int
  BY <1>2
<1>4. e \in Seq(Byte) /\ Len(e) = FixedLength /\ Reverse(e) = h
  BY <1>3, BigEndianAre
<1>5. /\ h \in Seq(Nat) /\ Len(h) = F
      /\ \A i \in 1 .. F : h[i] = (v \div Power(Base)[i - 1]) % Base
  BY <1>3, HostBytesAre
<1> HIDE DEF h, e
<1>6. HostBytes(FromHost(e)) = e
  BY <1>4, LoadStore
<1>7. Swapped(FromHost(e)) = FromHost(h)
  BY <1>4, <1>6 DEF Swapped
<1> HIDE DEF F
<1>8. Positional(h, Base) = v % c
  BY <1>1, <1>3, <1>5, NumberOfDigits
<1> HIDE DEF c
<1>9. v % c = v
  BY <1>2, <1>3, ModOfSmall
<1> QED BY <1>7, <1>8, <1>9 DEF e, FromHost

-----------------------------------------------------------------------------
(* Variable integers.                                                      *)

Group(u, k) == (u \div Power(More)[k]) % More

IsLength(u, n) == u < Power(More)[n] /\ (n = 1 \/ u >= Power(More)[n - 1])

GroupsOf(v) == CHOOSE n \in 1 .. MaxGroups : IsLength(v % Words, n)

\* There is a fewest number of groups,
LEMMA LengthExists ==
  ASSUME NEW u \in 0 .. Words - 1
  PROVE  \E n \in 1 .. MaxGroups : IsLength(u, n)
<1> DEFINE P == Power(More)
           T == {n \in 1 .. MaxGroups : u < P[n]}
<1>1. MaxGroups \in Nat /\ MaxGroups >= 1 /\ Words \in Nat /\ Words <= P[MaxGroups] /\ More \in Nat
  BY Widths
<1>2. \A n \in Nat : P[n] \in Nat
  BY <1>1, PowerIs
<1> HIDE DEF P
<1>3. MaxGroups \in T
  BY <1>1, <1>2
<1>4. PICK n \in T : \A m \in T : n <= m
  <2>1. T \subseteq Nat
    BY <1>1
  <2> HIDE DEF T
  <2> QED BY <1>3, <2>1, Least
<1>5. n = 1 \/ u >= P[n - 1]
  <2>1. CASE n # 1
    <3>1. n - 1 \in 1 .. MaxGroups /\ n - 1 \in Nat /\ ~(n <= n - 1)
      BY <1>1, <2>1
    <3>2. n - 1 \notin T
      BY <1>4, <3>1
    <3>3. ~(u < P[n - 1])
      BY <3>1, <3>2
    <3> QED BY <1>1, <1>2, <3>1, <3>3
  <2> QED BY <2>1
<1> QED BY <1>5 DEF IsLength, P

\* and only one.
LEMMA LengthUnique ==
  ASSUME NEW u \in Nat, NEW m \in Nat, NEW n \in Nat, m >= 1, IsLength(u, m), IsLength(u, n)
  PROVE  n <= m
<1> SUFFICES ASSUME m <= n - 1 PROVE FALSE
  OBVIOUS
<1> DEFINE k == n - 1
<1>1. More \in Nat /\ More >= 1
  BY Widths
<1>2. k \in Nat /\ m <= k /\ n # 1
  OBVIOUS
<1>3. u < Power(More)[m] /\ u >= Power(More)[k]
  BY <1>2 DEF IsLength
<1> HIDE DEF k
<1>4. Power(More)[m] <= Power(More)[k] /\ Power(More)[m] \in Nat /\ Power(More)[k] \in Nat
  BY <1>1, <1>2, PowerMonotone, PowerIs
<1> QED BY <1>3, <1>4

LEMMA GroupIn ==
  ASSUME NEW u \in Int, NEW k \in Nat
  PROVE  Group(u, k) \in 0 .. More - 1 /\ Group(u, k) \in Byte /\ Group(u, k) + More \in Byte
<1>1. More \in Nat /\ More >= 1 /\ Base = 2 * More
  BY Widths
<1>2. Group(u, k) \in 0 .. More - 1
  BY <1>1, DigitIn DEF Group
<1> QED BY <1>1, <1>2 DEF Byte

LEMMA VarintBytesAre ==
  ASSUME NEW v \in Int
  PROVE  /\ v % Words \in 0 .. Words - 1
         /\ GroupsOf(v) \in 1 .. MaxGroups
         /\ IsLength(v % Words, GroupsOf(v))
         /\ VarintBytes(v) \in Seq(Byte)
         /\ Len(VarintBytes(v)) = GroupsOf(v)
         /\ \A i \in 1 .. GroupsOf(v) :
              VarintBytes(v)[i] = Group(v % Words, i - 1) + (IF i < GroupsOf(v) THEN More ELSE 0)
<1> DEFINE u == v % Words
           n == GroupsOf(v)
           B(i) == Group(u, i - 1) + (IF i < n THEN More ELSE 0)
           f == [i \in 1 .. n |-> B(i)]
<1>1. Words \in Nat /\ Words > 0 /\ MaxGroups \in Nat
  BY Widths
<1>2. u \in 0 .. Words - 1
  BY <1>1, DivMod
<1>3. n \in 1 .. MaxGroups /\ IsLength(u, n)
  <2>1. \E m \in 1 .. MaxGroups : IsLength(u, m)
    <3> HIDE DEF u
    <3> QED BY <1>2, LengthExists
  <2> QED BY <2>1 DEF GroupsOf
<1>4. VarintBytes(v) = f
  BY DEF VarintBytes, GroupsOf, IsLength, Group
<1> HIDE DEF u, n
<1>5. \A i \in 1 .. n : B(i) \in Byte
  <2> TAKE i \in 1 .. n
  <2>1. i - 1 \in Nat /\ u \in Int
    BY <1>1, <1>2, <1>3
  <2>2. Group(u, i - 1) \in Int /\ Group(u, i - 1) \in Byte /\ Group(u, i - 1) + More \in Byte
    <3>1. Group(u, i - 1) \in 0 .. More - 1
      BY <2>1, GroupIn
    <3> QED BY <2>1, <3>1, GroupIn
  <2> QED BY <2>2
<1> HIDE DEF B
<1>6. f \in [1 .. n -> Byte] /\ \A i \in 1 .. n : f[i] = B(i)
  BY <1>5
<1> HIDE DEF f
<1>7. f \in Seq(Byte) /\ Len(f) = n
  <2>1. n \in Nat
    BY <1>1, <1>3
  <2> QED BY <1>6, <2>1, FunctionIsSeq
<1> QED BY <1>2, <1>3, <1>4, <1>6, <1>7 DEF u, n, B

LEMMA SignedIs ==
  ASSUME NEW u \in 0 .. Words - 1
  PROVE  Signed(u) \in Int32
BY Widths DEF Signed, Int32

LEMMA SignedOfWord ==
  ASSUME NEW v \in Int32
  PROVE  v \in Int /\ Signed(v % Words) = v
<1>1. Half \in Nat /\ Half >= 1 /\ Words \in Nat /\ Words = 2 * Half /\ Words > 0
  BY Widths
<1>2. v \in Int /\ -Half <= v /\ v < Half
  BY <1>1 DEF Int32
<1>3. CASE v >= 0
  <2>1. v = Words * 0 + v /\ v < Words
    BY <1>1, <1>2
  <2>2. v % Words = v
    BY <1>1, <1>2, <1>3, <2>1, DivIs
  <2> QED BY <1>1, <1>2, <2>2 DEF Signed
<1>4. CASE v < 0
  <2>1. v = Words * (-1) + (v + Words) /\ v + Words < Words /\ 0 <= v + Words /\ v + Words \in Int
    BY <1>1, <1>2, <1>4
  <2>2. v % Words = v + Words
    BY <1>1, <1>2, <2>1, DivIs
  <2> QED BY <1>1, <1>2, <2>2 DEF Signed
<1> QED BY <1>2, <1>3, <1>4

LEMMA WordsIn ==
  ASSUME NEW u \in Int
  PROVE  u % Words \in 0 .. Words - 1
<1>1. Words \in Nat /\ Words > 0
  BY Widths
<1> QED BY <1>1, DivMod

\* Whatever is read is an integer of the width.
LEMMA VarintIn ==
  ASSUME NEW n \in Nat, NEW bs \in [1 .. n -> Byte]
  PROVE  Varint(bs) \in Int32
<1> DEFINE m == [i \in DOMAIN bs |-> bs[i] % More]
           p == Positional(m, More)
<1>1. More \in Nat /\ More >= 1 /\ Base \in Nat
  BY Widths
<1>2. \A i \in 1 .. n : bs[i] % More \in Nat
  <2> TAKE i \in 1 .. n
  <2>1. bs[i] \in Byte
    OBVIOUS
  <2>2. bs[i] \in Int
    BY <1>1, <2>1 DEF Byte
  <2> DEFINE x == bs[i]
  <2> HIDE DEF x
  <2>3. x % More \in 0 .. More - 1
    BY <1>1, <2>2, DivMod DEF x
  <2> QED BY <1>1, <2>3 DEF x
<1>3. m \in [1 .. n -> Nat]
  BY <1>2
<1>4. Varint(bs) = Signed(p % Words)
  BY DEF Varint
<1> HIDE DEF m
<1>5. m \in Seq(Nat)
  BY <1>3, FunctionIsSeq
<1>6. p \in Int
  BY <1>1, <1>5, PositionalIn
<1> HIDE DEF p
<1>7. p % Words \in 0 .. Words - 1
  BY <1>6, WordsIn
<1> QED BY <1>4, <1>7, SignedIs

\* Every integer of the width is read back from its bytes.
LEMMA VarintRead ==
  ASSUME NEW v \in Int32
  PROVE  Varint(VarintBytes(v)) = v
<1> DEFINE u == v % Words
           n == GroupsOf(v)
           bs == VarintBytes(v)
           m == [i \in DOMAIN bs |-> bs[i] % More]
           p == Positional(m, More)
<1>1. More \in Nat /\ More >= 1 /\ Words \in Nat /\ MaxGroups \in Nat
  BY Widths
<1>2. v \in Int /\ Signed(u) = v
  BY SignedOfWord
<1>3. /\ u \in 0 .. Words - 1
      /\ n \in 1 .. MaxGroups
      /\ IsLength(u, n)
      /\ bs \in Seq(Byte) /\ Len(bs) = n
      /\ \A i \in 1 .. n : bs[i] = Group(u, i - 1) + (IF i < n THEN More ELSE 0)
  BY <1>2, VarintBytesAre
<1>4. Varint(bs) = Signed(p % Words)
  BY DEF Varint
<1> HIDE DEF u, n, bs
<1>5. \A i \in 1 .. n : bs[i] % More = Group(u, i - 1)
  <2> TAKE i \in 1 .. n
  <2> DEFINE g == Group(u, i - 1)
             x == bs[i]
  <2>1. i - 1 \in Nat /\ u \in Int
    BY <1>1, <1>3
  <2>2. g \in 0 .. More - 1
    BY <2>1, GroupIn
  <2>3. x = g + (IF i < n THEN More ELSE 0)
    BY <1>3
  <2> HIDE DEF g, x
  <2>4. x = More * 0 + g \/ x = More * 1 + g
    BY <1>1, <2>2, <2>3
  <2>5. x % More = g
    BY <1>1, <2>2, <2>4, DivIs
  <2> QED BY <2>5 DEF g, x
<1>6. n \in Nat /\ DOMAIN bs = 1 .. n
  BY <1>1, <1>3
<1>7. m \in [1 .. n -> Nat] /\ \A i \in 1 .. n : m[i] = Group(u, i - 1)
  <2>1. \A i \in 1 .. n : Group(u, i - 1) \in Nat
    <3> TAKE i \in 1 .. n
    <3>1. i - 1 \in Nat /\ u \in Int
      BY <1>1, <1>3
    <3>2. Group(u, i - 1) \in 0 .. More - 1
      BY <3>1, GroupIn
    <3> QED BY <1>1, <3>2
  <2> QED BY <1>5, <1>6, <2>1
<1> HIDE DEF m
<1>8. m \in Seq(Nat) /\ Len(m) = n
  BY <1>6, <1>7, FunctionIsSeq
<1>9. \A i \in 1 .. n : m[i] = (u \div Power(More)[i - 1]) % More
  BY <1>7 DEF Group
<1>10. u \in Int
  BY <1>1, <1>3
<1>11. p = u % Power(More)[n]
  BY <1>1, <1>6, <1>8, <1>9, <1>10, NumberOfDigits
<1>12. u < Power(More)[n] /\ Power(More)[n] \in Nat /\ u \in Nat /\ u < Words
  <2>1. Power(More) \in [Nat -> Nat]
    BY <1>1, PowerIs
  <2>2. u < Power(More)[n]
    BY <1>3 DEF IsLength
  <2>3. u \in Nat /\ u < Words
    BY <1>1, <1>3
  <2> QED BY <1>6, <2>1, <2>2, <2>3
<1>13. p = u
  BY <1>11, <1>12, ModOfSmall
<1>14. u % Words = u
  BY <1>1, <1>12, ModOfSmall
<1> QED BY <1>2, <1>4, <1>13, <1>14 DEF bs, u

\* A byte of a variable integer has its high bit set unless it is the last.
LEMMA HighBits ==
  ASSUME NEW v \in Int
  PROVE  \A i \in 1 .. GroupsOf(v) : VarintBytes(v)[i] < More <=> i = GroupsOf(v)
<1> DEFINE u == v % Words
           n == GroupsOf(v)
           bs == VarintBytes(v)
<1>1. More \in Nat /\ Words \in Nat /\ MaxGroups \in Nat
  BY Widths
<1>2. /\ u \in 0 .. Words - 1
      /\ n \in 1 .. MaxGroups
      /\ \A i \in 1 .. n : bs[i] = Group(u, i - 1) + (IF i < n THEN More ELSE 0)
  BY VarintBytesAre
<1> HIDE DEF u, n, bs
<1>3. \A i \in 1 .. n : bs[i] < More <=> i = n
  <2> TAKE i \in 1 .. n
  <2>1. i - 1 \in Nat /\ u \in Int
    BY <1>1, <1>2
  <2>2. Group(u, i - 1) \in 0 .. More - 1
    BY <2>1, GroupIn
  <2> QED BY <1>1, <1>2, <2>2
<1> QED BY <1>3 DEF n, bs

\* The groups that the writer has written of x after k turns of its loop.
Groups(x, k) == [i \in 1 .. k |-> Group(x, i - 1) + More]

LEMMA GroupsAre ==
  ASSUME NEW x \in Int, NEW k \in Nat
  PROVE  /\ Groups(x, k) \in Seq(Byte) /\ Len(Groups(x, k)) = k
         /\ Append(Groups(x, k), Group(x, k) + More) = Groups(x, k + 1)
<1> DEFINE B(i) == Group(x, i - 1) + More
           f == [i \in 1 .. k |-> B(i)]
           g == [i \in 1 .. k + 1 |-> B(i)]
<1>1. \A i \in 1 .. k + 1 : B(i) \in Byte
  <2> TAKE i \in 1 .. k + 1
  <2>1. i - 1 \in Nat
    OBVIOUS
  <2> QED BY <2>1, GroupIn
<1>2. B(k + 1) = Group(x, k) + More
  OBVIOUS
<1>3. Groups(x, k) = f /\ Groups(x, k + 1) = g
  BY DEF Groups
<1> HIDE DEF B
<1>4. f \in [1 .. k -> Byte] /\ g \in [1 .. k + 1 -> Byte]
  BY <1>1
<1>5. f \in Seq(Byte) /\ Len(f) = k /\ g \in Seq(Byte) /\ Len(g) = k + 1
  BY <1>4, FunctionIsSeq
<1>6. Append(f, B(k + 1)) = g
  <2> DEFINE h == Append(f, B(k + 1))
  <2>1. B(k + 1) \in Byte
    BY <1>1
  <2>2. h \in Seq(Byte) /\ Len(h) = k + 1 /\ \A i \in 1 .. k : h[i] = f[i]
    BY <1>5, <2>1, AppendProperties
  <2>3. h[k + 1] = B(k + 1)
    BY <1>5, <2>1, AppendProperties
  <2>4. \A i \in 1 .. k : f[i] = B(i) /\ g[i] = B(i)
    OBVIOUS
  <2>5. g[k + 1] = B(k + 1)
    OBVIOUS
  <2>6. \A i \in 1 .. k + 1 : i \in 1 .. k \/ i = k + 1
    OBVIOUS
  <2> HIDE DEF f, g, h
  <2>7. \A i \in 1 .. k + 1 : h[i] = g[i]
    BY <2>2, <2>3, <2>4, <2>5, <2>6
  <2> QED BY <1>5, <2>2, <2>7, SeqEqual DEF h
<1> QED BY <1>2, <1>3, <1>5, <1>6

\* The loop ends for no value below zero, and for another when all of its
\* groups are written.
LEMMA LoopWrites ==
  ASSUME NEW x \in Int32, NEW k \in Nat, k = 0 \/ x \div Power(More)[k] # 0,
         LoopEnds(x \div Power(More)[k])
  PROVE  /\ k + 1 <= MaxGroups
         /\ Append(Groups(x, k), Group(x, k)) = VarintBytes(x)
<1> DEFINE P == Power(More)
           y == x \div P[k]
           n == GroupsOf(x)
<1>1. /\ More \in Nat /\ More >= 2 /\ Words \in Nat /\ Words = 2 * Half /\ Half \in Nat /\ Half >= 1
      /\ MaxGroups \in Nat
  BY Widths
<1>2. x \in Int /\ x < Half
  BY <1>1 DEF Int32
<1>3. P[k] \in Nat /\ P[k] >= 1 /\ P[k + 1] \in Nat /\ P[k + 1] >= 1
  BY <1>1, PowerPositive
<1>4. y \div More = x \div P[k + 1]
  BY <1>1, <1>2, NextQuotient
<1>5. x \div P[k + 1] = 0
  BY <1>4 DEF LoopEnds
<1>6. 0 <= x /\ x < P[k + 1]
  <2> DEFINE c == P[k + 1]
  <2>1. c \in Nat /\ c > 0 /\ x \div c = 0
    BY <1>3, <1>5
  <2> HIDE DEF c
  <2>2. x % c \in 0 .. c - 1 /\ x = c * (x \div c) + (x % c)
    BY <1>2, <2>1, DivMod
  <2>3. x = x % c
    BY <1>2, <2>1, <2>2
  <2> QED BY <2>1, <2>2, <2>3 DEF c
<1>7. k = 0 \/ x >= P[k]
  <2> SUFFICES ASSUME x < P[k] PROVE y = 0
    BY <1>2, <1>3
  <2> DEFINE c == P[k]
  <2>1. c \in Nat /\ c > 0 /\ x < c /\ x = c * 0 + x
    BY <1>2, <1>3
  <2> HIDE DEF c
  <2>2. x \div c = 0
    BY <1>2, <1>6, <2>1, DivIs
  <2> QED BY <2>2 DEF c
<1>8. x % Words = x
  BY <1>1, <1>2, <1>6, ModOfSmall
<1>9. /\ n \in 1 .. MaxGroups
      /\ IsLength(x, n)
      /\ VarintBytes(x) \in Seq(Byte)
      /\ Len(VarintBytes(x)) = n
      /\ \A i \in 1 .. n : VarintBytes(x)[i] = Group(x, i - 1) + (IF i < n THEN More ELSE 0)
  BY <1>2, <1>8, VarintBytesAre
<1>10. IsLength(x, k + 1)
  <2>1. (k + 1) - 1 = k
    OBVIOUS
  <2> QED BY <1>6, <1>7, <2>1 DEF IsLength
<1> HIDE DEF P, y, n
<1>11. n = k + 1
  <2> DEFINE j == k + 1
  <2>1. n \in Nat /\ n >= 1 /\ x \in Nat /\ j \in Nat /\ j >= 1
    BY <1>1, <1>2, <1>6, <1>9
  <2>2. IsLength(x, j)
    BY <1>10
  <2> HIDE DEF j
  <2>3. n <= j
    BY <1>9, <2>1, <2>2, LengthUnique
  <2>4. j <= n
    BY <1>9, <2>1, <2>2, LengthUnique
  <2>5. n = j
    BY <2>1, <2>3, <2>4
  <2> QED BY <2>5 DEF j
<1> DEFINE f == Groups(x, k)
           g == VarintBytes(x)
           e == Group(x, k)
<1>12. f \in Seq(Byte) /\ Len(f) = k /\ e \in Byte
  BY <1>2, GroupsAre, GroupIn
<1>13. \A i \in 1 .. k : f[i] = g[i]
  <2> TAKE i \in 1 .. k
  <2>1. i \in 1 .. n /\ i < n
    BY <1>11
  <2>2. g[i] = Group(x, i - 1) + More
    BY <1>9, <2>1
  <2> QED BY <2>2 DEF Groups
<1>14. g[k + 1] = e
  <2>1. k + 1 \in 1 .. n /\ ~(k + 1 < n) /\ (k + 1) - 1 = k
    BY <1>11
  <2>2. g[k + 1] = Group(x, k) + 0
    BY <1>9, <2>1
  <2>3. e \in Int
    <3>1. e \in 0 .. More - 1
      BY <1>2, GroupIn
    <3> QED BY <1>1, <3>1
  <2> HIDE DEF g
  <2> QED BY <2>2, <2>3
<1> DEFINE h == Append(f, e)
<1> HIDE DEF f, g, e
<1>15. /\ h \in Seq(Byte) /\ Len(h) = k + 1 /\ h[k + 1] = e
       /\ \A i \in 1 .. k : h[i] = f[i]
  BY <1>12, AppendProperties
<1>16. \A i \in 1 .. k + 1 : h[i] = g[i]
  <2>1. \A i \in 1 .. k + 1 : i \in 1 .. k \/ i = k + 1
    OBVIOUS
  <2> HIDE DEF h
  <2> QED BY <1>13, <1>14, <1>15, <2>1
<1>17. h = g
  <2>1. g \in Seq(Byte) /\ Len(g) = k + 1
    BY <1>9, <1>11 DEF g
  <2> HIDE DEF h
  <2> QED BY <1>15, <1>16, <2>1, SeqEqual
<1> QED BY <1>1, <1>9, <1>11, <1>17 DEF f, g, e

-----------------------------------------------------------------------------
(* Packets.                                                                *)

AnyValue == UNION {Values(kind) : kind \in Kinds}

IsTyped(l, vs) ==
  /\ l \in Seq(Kinds)
  /\ vs \in Seq(AnyValue) /\ Len(vs) <= Len(l)
  /\ \A i \in 1 .. Len(vs) : vs[i] \in Values(l[i])

LEMMA FieldBytesAre ==
  ASSUME NEW kind \in Kinds, NEW v \in Values(kind)
  PROVE  FieldBytes(kind, v) \in Seq(Byte)
<1>1. CASE kind = "varint"
  <2>1. v \in Int
    BY <1>1, ValuesAssumption, SignedOfWord
  <2> QED BY <1>1, <2>1, VarintBytesAre DEF FieldBytes, Arrays
<1>2. CASE kind = "be"
  <2>1. Power(Base)[FixedLength] \in Nat
    BY Widths, PowerIs
  <2>2. v \in Int
    BY <1>2, <2>1, ValuesAssumption
  <2> QED BY <1>2, <2>2, BigEndianAre DEF FieldBytes, Arrays
<1>3. CASE kind \in Arrays
  <2>1. v \in Seq(Byte) /\ Len(v) \in Int
    BY <1>3, ValuesAssumption, LenProperties
  <2>2. VarintBytes(Len(v)) \in Seq(Byte)
    BY <2>1, VarintBytesAre
  <2>3. VarintBytes(Len(v)) \o v \in Seq(Byte)
    BY <2>1, <2>2, ConcatProperties
  <2> QED BY <1>3, <2>3 DEF FieldBytes, Arrays
<1>4. CASE kind = "raw"
  <2>1. v \in [1 .. FixedLength -> Byte]
    BY <1>4, ValuesAssumption
  <2>2. v \in Seq(Byte)
    BY <2>1, Widths, FunctionIsSeq
  <2> QED BY <1>4, <2>2 DEF FieldBytes, Arrays
<1>5. CASE kind \in {"rest", "option"}
  <2>1. v \in Seq(Byte)
    BY <1>5, ValuesAssumption
  <2> QED BY <1>5, <2>1 DEF FieldBytes, Arrays
<1> QED BY <1>1, <1>2, <1>3, <1>4, <1>5 DEF Kinds, Arrays

\* The encodings of the first fields of Encode.
EncodedTo(l, vs) ==
  LET upto[n \in 0 .. Len(vs)] ==
        IF n = 0 THEN <<>> ELSE upto[n - 1] \o FieldBytes(l[n], vs[n])
  IN  upto

LEMMA EncodedIs ==
  ASSUME NEW l, NEW vs, IsTyped(l, vs)
  PROVE  /\ Encode(l, vs) = EncodedTo(l, vs)[Len(vs)]
         /\ EncodedTo(l, vs) \in [0 .. Len(vs) -> Seq(Byte)]
         /\ EncodedTo(l, vs)[0] = <<>>
         /\ \A i \in 1 .. Len(vs) :
              /\ EncodedTo(l, vs)[i] = EncodedTo(l, vs)[i - 1] \o FieldBytes(l[i], vs[i])
              /\ FieldBytes(l[i], vs[i]) \in Seq(Byte)
<1> DEFINE m == Len(vs)
           F(i) == FieldBytes(l[i], vs[i])
           V == Seq(Byte)
           step == [p \in (1 .. m) \X V |-> p[2] \o F(p[1])]
           IsIt(s) == s = [n \in 0 .. m |-> IF n = 0 THEN <<>> ELSE s[n - 1] \o F(n)]
<1>0. m \in Nat
  BY LenProperties DEF IsTyped
<1>1. \A i \in 1 .. m : F(i) \in V
  <2> TAKE i \in 1 .. m
  <2>1. l[i] \in Kinds
    <3>1. i \in 1 .. Len(l) /\ l \in Seq(Kinds)
      BY <1>0, LenProperties DEF IsTyped
    <3> QED BY <3>1, ElementOfSeq
  <2>2. vs[i] \in Values(l[i])
    BY DEF IsTyped
  <2> QED BY <2>1, <2>2, FieldBytesAre
<1>2. \A s \in V, t \in V : s \o t \in V
  BY ConcatProperties
<1>3. <<>> \in V
  BY EmptySeq
<1> HIDE DEF m, F, V
<1>4. IsStepTo(step, m, V)
  <2>1. \A p \in (1 .. m) \X V : p[2] \o F(p[1]) \in V
    BY <1>1, <1>2
  <2> QED BY <2>1 DEF IsStepTo
<1>5. PICK f : IsRecursiveTo(f, m, V, <<>>, step)
  <2> DEFINE empty == <<>>
  <2>1. empty \in V
    BY <1>3
  <2> HIDE DEF step, empty
  <2>2. \E f : IsRecursiveTo(f, m, V, empty, step)
    BY <1>0, <1>4, <2>1, RecursionTo
  <2> QED BY <2>2 DEF empty
<1>6. f \in [0 .. m -> V] /\ f[0] = <<>>
  BY <1>5 DEF IsRecursiveTo
<1>7. ASSUME NEW i \in 1 .. m PROVE f[i] = f[i - 1] \o F(i)
  <2>1. f[i] = step[<<i, f[i - 1]>>]
    <3> HIDE DEF step
    <3> QED BY <1>5 DEF IsRecursiveTo
  <2>2. i - 1 \in 0 .. m
    BY <1>0
  <2>3. <<i, f[i - 1]>> \in (1 .. m) \X V
    BY <1>6, <2>2
  <2> QED BY <2>1, <2>3
<1>8. IsIt(f)
  <2>1. \A n \in 0 .. m : f[n] = IF n = 0 THEN <<>> ELSE f[n - 1] \o F(n)
    BY <1>0, <1>6, <1>7
  <2> QED BY <1>6, <2>1
<1> DEFINE q == EncodedTo(l, vs)
<1>9. IsIt(q)
  <2>1. q = CHOOSE s : IsIt(s)
    BY DEF EncodedTo, m, F
  <2> HIDE DEF IsIt, q
  <2> QED BY <1>8, <2>1
<1>10. Encode(l, vs) = q[m]
  BY DEF Encode, EncodedTo, m
<1> HIDE DEF q
<1>11. q[0] = <<>> /\ \A i \in 1 .. m : q[i] = q[i - 1] \o F(i)
  <2>1. \A n \in 0 .. m : q[n] = IF n = 0 THEN <<>> ELSE q[n - 1] \o F(n)
    BY <1>9
  <2>2. 0 \in 0 .. m /\ \A i \in 1 .. m : i \in 0 .. m /\ i # 0
    BY <1>0
  <2> QED BY <2>1, <2>2
<1> DEFINE S == {n \in Nat : n <= m => q[n] \in V}
<1>12. 0 \in S
  BY <1>3, <1>11
<1>13. ASSUME NEW n \in Nat, n \in S PROVE n + 1 \in S
  <2>1. CASE n + 1 <= m
    <3>1. n + 1 \in 1 .. m /\ (n + 1) - 1 = n /\ q[n] \in V
      BY <1>0, <1>13, <2>1
    <3>2. q[n + 1] = q[n] \o F(n + 1)
      BY <1>11, <3>1
    <3>3. F(n + 1) \in V
      BY <1>1, <3>1
    <3>4. q[n] \o F(n + 1) \in V
      BY <1>2, <3>1, <3>3
    <3>5. n + 1 \in Nat
      OBVIOUS
    <3> QED BY ONLY <3>2, <3>4, <3>5
  <2> QED BY <2>1
<1>14. Nat \subseteq S
  <2> HIDE DEF S
  <2> QED BY ONLY <1>12, <1>13, Induct
<1>15. q \in [0 .. m -> V]
  BY <1>9, <1>14
<1> QED BY <1>1, <1>10, <1>11, <1>15 DEF q, m, F, V

LEMMA AppendTyped ==
  ASSUME NEW l, NEW vs, IsTyped(l, vs), Len(vs) < Len(l), NEW v \in Values(l[Len(vs) + 1])
  PROVE  /\ IsTyped(l, Append(vs, v))
         /\ Len(vs) \in Nat /\ Len(Append(vs, v)) = Len(vs) + 1
         /\ Append(vs, v)[Len(vs) + 1] = v
         /\ \A i \in 1 .. Len(vs) : Append(vs, v)[i] = vs[i]
<1> DEFINE n == Len(vs)
           ws == Append(vs, v)
<1>1. l \in Seq(Kinds) /\ vs \in Seq(AnyValue) /\ n \in Nat /\ Len(l) \in Nat /\ n + 1 <= Len(l)
  <2>1. l \in Seq(Kinds) /\ vs \in Seq(AnyValue)
    BY DEF IsTyped
  <2>2. n \in Nat /\ Len(l) \in Nat
    BY <2>1, LenProperties
  <2> QED BY <2>1, <2>2
<1>2. v \in AnyValue
  <2>1. l[n + 1] \in Kinds
    <3>1. n + 1 \in 1 .. Len(l)
      BY <1>1
    <3> QED BY <1>1, <3>1, ElementOfSeq
  <2> QED BY <2>1 DEF AnyValue
<1>3. /\ ws \in Seq(AnyValue) /\ Len(ws) = n + 1
      /\ \A i \in 1 .. n : ws[i] = vs[i]
      /\ ws[n + 1] = v
  <2> HIDE DEF n
  <2>1. vs \in Seq(AnyValue) /\ Len(vs) = n
    BY <1>1 DEF n
  <2> QED BY <1>1, <1>2, <2>1, AppendProperties
<1>4. \A i \in 1 .. n + 1 : ws[i] \in Values(l[i])
  <2> TAKE i \in 1 .. n + 1
  <2>1. CASE i = n + 1
    BY <1>3, <2>1
  <2>2. CASE i # n + 1
    <3>1. i \in 1 .. n
      BY <1>1, <2>2
    <3>2. vs[i] \in Values(l[i])
      BY <3>1 DEF IsTyped
    <3> QED BY <1>3, <3>1, <3>2
  <2> QED BY <2>1, <2>2
<1> HIDE DEF n, ws
<1>5. IsTyped(l, ws)
  BY <1>1, <1>3, <1>4 DEF IsTyped
<1> QED BY <1>1, <1>3, <1>5 DEF n, ws

\* What was encoded stays when a value is added.
LEMMA EncodeAppend ==
  ASSUME NEW l, NEW vs, IsTyped(l, vs), Len(vs) < Len(l), NEW v \in Values(l[Len(vs) + 1])
  PROVE  /\ EncodedTo(l, Append(vs, v))[Len(vs)] = Encode(l, vs)
         /\ Encode(l, Append(vs, v)) = Encode(l, vs) \o FieldBytes(l[Len(vs) + 1], v)
<1> DEFINE n == Len(vs)
           ws == Append(vs, v)
           D == EncodedTo(l, vs)
           E == EncodedTo(l, ws)
<1>1. /\ IsTyped(l, ws) /\ n \in Nat /\ Len(ws) = n + 1 /\ ws[n + 1] = v
      /\ \A i \in 1 .. n : ws[i] = vs[i]
  BY AppendTyped
<1>2. Encode(l, vs) = D[n] /\ D[0] = <<>> /\ \A i \in 1 .. n : D[i] = D[i - 1] \o FieldBytes(l[i], vs[i])
  BY EncodedIs
<1>3. /\ Encode(l, ws) = E[n + 1] /\ E[0] = <<>>
      /\ \A i \in 1 .. n + 1 : E[i] = E[i - 1] \o FieldBytes(l[i], ws[i])
  <2> HIDE DEF ws
  <2>1. /\ Encode(l, ws) = E[Len(ws)] /\ E[0] = <<>>
        /\ \A i \in 1 .. Len(ws) : E[i] = E[i - 1] \o FieldBytes(l[i], ws[i])
    BY <1>1, EncodedIs
  <2> QED BY <1>1, <2>1
<1> HIDE DEF n, ws, D, E
<1> DEFINE S == {i \in Nat : i <= n => E[i] = D[i]}
<1>4. 0 \in S
  BY <1>2, <1>3
<1>5. ASSUME NEW i \in Nat, i \in S PROVE i + 1 \in S
  <2>1. CASE i + 1 <= n
    <3>1. i + 1 \in 1 .. n /\ i + 1 \in 1 .. n + 1 /\ (i + 1) - 1 = i /\ E[i] = D[i]
      BY <1>1, <1>5, <2>1
    <3>2. ws[i + 1] = vs[i + 1]
      BY <1>1, <3>1
    <3>3. E[i + 1] = E[i] \o FieldBytes(l[i + 1], vs[i + 1])
      BY <1>3, <3>1, <3>2
    <3>4. D[i + 1] = D[i] \o FieldBytes(l[i + 1], vs[i + 1])
      BY <1>2, <3>1
    <3>5. E[i] = D[i]
      BY <3>1
    <3>6. E[i + 1] = D[i + 1]
      BY ONLY <3>3, <3>4, <3>5
    <3>7. i + 1 \in Nat
      OBVIOUS
    <3> QED BY ONLY <3>6, <3>7
  <2> QED BY <2>1
<1>6. Nat \subseteq S
  <2> HIDE DEF S
  <2> QED BY ONLY <1>4, <1>5, Induct
<1>7. E[n] = D[n]
  BY <1>1, <1>6
<1>8. E[n + 1] = E[n] \o FieldBytes(l[n + 1], v)
  <2>1. n + 1 \in 1 .. n + 1 /\ (n + 1) - 1 = n
    BY <1>1
  <2> QED BY <1>1, <1>3, <2>1
<1> QED BY <1>2, <1>3, <1>7, <1>8 DEF n, ws, E

\* Every field is where the ones before it end.
LEMMA FieldAt ==
  ASSUME NEW l, NEW vs, IsTyped(l, vs), NEW j \in 0 .. Len(vs)
  PROVE  /\ Len(EncodedTo(l, vs)[j]) \in Nat
         /\ Len(EncodedTo(l, vs)[j]) <= Len(Encode(l, vs))
         /\ \A i \in 1 .. Len(EncodedTo(l, vs)[j]) : Encode(l, vs)[i] = EncodedTo(l, vs)[j][i]
<1> DEFINE n == Len(vs)
           E == EncodedTo(l, vs)
           F(i) == FieldBytes(l[i], vs[i])
<1>1. /\ Encode(l, vs) = E[n]
      /\ E \in [0 .. n -> Seq(Byte)]
      /\ \A i \in 1 .. n : E[i] = E[i - 1] \o F(i) /\ F(i) \in Seq(Byte)
  BY EncodedIs
<1>2. n \in Nat /\ j \in Nat /\ j <= n
  <2>1. n \in Nat
    BY LenProperties DEF IsTyped
  <2> QED BY <2>1
<1> HIDE DEF n, E, F
<1> DEFINE Agree(a, b) == Len(a) \in Nat /\ Len(a) <= Len(b) /\ \A i \in 1 .. Len(a) : b[i] = a[i]
           S == {k \in Nat : j + k <= n => Agree(E[j], E[j + k])}
<1>3. \A k \in 0 .. n : Len(E[k]) \in Nat /\ E[k] \in Seq(Byte)
  BY <1>1, LenProperties
<1>4. 0 \in S
  <2>1. j + 0 = j /\ j \in 0 .. n
    BY <1>2
  <2> QED BY <1>3, <2>1
<1>5. ASSUME NEW k \in Nat, k \in S PROVE k + 1 \in S
  <2> SUFFICES ASSUME j + (k + 1) <= n PROVE Agree(E[j], E[j + (k + 1)])
    OBVIOUS
  <2>1. /\ j + (k + 1) \in 1 .. n /\ (j + (k + 1)) - 1 = j + k /\ j + k \in 0 .. n /\ j + k <= n
        /\ j \in 0 .. n
    BY <1>2
  <2>2. Agree(E[j], E[j + k])
    BY <1>5, <2>1
  <2> DEFINE a == E[j]
             b == E[j + k]
             f == F(j + (k + 1))
  <2>3. a \in Seq(Byte) /\ b \in Seq(Byte) /\ f \in Seq(Byte) /\ E[j + (k + 1)] = b \o f
    BY <1>1, <1>3, <2>1
  <2>4. Len(a) \in Nat /\ Len(a) <= Len(b) /\ \A i \in 1 .. Len(a) : b[i] = a[i]
    BY <2>2
  <2> HIDE DEF a, b, f
  <2>5. Len(b) \in Nat /\ Len(f) \in Nat
    BY <2>3, LenProperties
  <2>6. Len(b \o f) = Len(b) + Len(f) /\ \A i \in 1 .. Len(b) : (b \o f)[i] = b[i]
    BY <2>3, <2>5, ConcatProperties
  <2>7. Agree(a, b \o f)
    BY <2>4, <2>5, <2>6
  <2> QED BY <2>3, <2>7 DEF a
<1>6. Nat \subseteq S
  <2> HIDE DEF S
  <2> QED BY ONLY <1>4, <1>5, Induct
<1> DEFINE d == n - j
<1>7. d \in Nat /\ j + d = n
  BY <1>2
<1>8. d \in S
  BY <1>6, <1>7
<1>9. Agree(E[j], E[n])
  BY <1>7, <1>8
<1> QED BY <1>1, <1>9 DEF n, E

\* f lies in c where a ends, and with it b does.
LiesIn(c, a, b, f) ==
  /\ f \in Seq(Byte)
  /\ Len(b) = Len(a) + Len(f) /\ Len(a) \in Nat
  /\ Len(b) <= Len(c)
  /\ \A i \in 1 .. Len(f) : c[Len(a) + i] = f[i]

\* So that it can be read from there.
LEMMA FieldRead ==
  ASSUME NEW l, NEW vs, IsTyped(l, vs), NEW j \in Nat, j + 1 <= Len(vs)
  PROVE  LiesIn(Encode(l, vs), EncodedTo(l, vs)[j], EncodedTo(l, vs)[j + 1],
                FieldBytes(l[j + 1], vs[j + 1]))
<1> DEFINE n == Len(vs)
           E == EncodedTo(l, vs)
           f == FieldBytes(l[j + 1], vs[j + 1])
           a == E[j]
           b == E[j + 1]
           c == Encode(l, vs)
<1>1. n \in Nat
  BY LenProperties DEF IsTyped
<1>2. j + 1 \in 1 .. n /\ (j + 1) - 1 = j /\ j \in 0 .. n /\ j + 1 \in 0 .. n
  BY <1>1
<1>3. E \in [0 .. n -> Seq(Byte)] /\ b = a \o f /\ f \in Seq(Byte)
  <2>1. \A i \in 1 .. n : E[i] = E[i - 1] \o FieldBytes(l[i], vs[i]) /\ FieldBytes(l[i], vs[i]) \in Seq(Byte)
    BY EncodedIs
  <2>2. E \in [0 .. n -> Seq(Byte)]
    BY EncodedIs
  <2> QED BY <1>2, <2>1, <2>2
<1>4. Len(b) <= Len(c) /\ \A i \in 1 .. Len(b) : c[i] = b[i]
  <2> DEFINE k == j + 1
  <2>1. k \in 0 .. Len(vs)
    BY <1>2
  <2> HIDE DEF k
  <2>2. /\ Len(EncodedTo(l, vs)[k]) <= Len(Encode(l, vs))
        /\ \A i \in 1 .. Len(EncodedTo(l, vs)[k]) : Encode(l, vs)[i] = EncodedTo(l, vs)[k][i]
    <3>1. Len(EncodedTo(l, vs)[k]) <= Len(Encode(l, vs))
      BY ONLY <2>1, FieldAt, IsTyped(l, vs)
    <3>2. \A i \in 1 .. Len(EncodedTo(l, vs)[k]) : Encode(l, vs)[i] = EncodedTo(l, vs)[k][i]
      BY ONLY <2>1, FieldAt, IsTyped(l, vs)
    <3> QED BY <3>1, <3>2
  <2> QED BY <2>2 DEF k
<1>5. a \in Seq(Byte)
  BY <1>2, <1>3
<1> HIDE DEF n, E, f, a, b, c
<1>6. Len(a) \in Nat /\ Len(f) \in Nat
  BY <1>3, <1>5, LenProperties
<1>7. /\ Len(a \o f) = Len(a) + Len(f)
      /\ \A i \in 1 .. Len(a) + Len(f) : (a \o f)[i] = IF i <= Len(a) THEN a[i] ELSE f[i - Len(a)]
  BY <1>3, <1>5, ConcatProperties
<1>8. \A i \in 1 .. Len(f) : c[Len(a) + i] = f[i]
  <2> TAKE i \in 1 .. Len(f)
  <2>1. /\ Len(a) + i \in 1 .. Len(a) + Len(f) /\ ~(Len(a) + i <= Len(a))
        /\ (Len(a) + i) - Len(a) = i
    BY <1>6
  <2>2. b[Len(a) + i] = f[i]
    BY <1>3, <1>7, <2>1
  <2>3. Len(a) + i \in 1 .. Len(b)
    BY <1>3, <1>7, <2>1
  <2> QED BY <1>4, <2>2, <2>3
<1>9. LiesIn(c, a, b, f)
  BY <1>3, <1>4, <1>6, <1>7, <1>8 DEF LiesIn
<1> QED BY <1>9 DEF f, a, b, c, E

-----------------------------------------------------------------------------
(* The invariant.                                                          *)

\* Elements of the arrays among the first fields of a packet.
ElementsTo(l, vs) ==
  LET sum[n \in 0 .. Len(vs)] ==
        IF n = 0 THEN 0 ELSE sum[n - 1] + (IF l[n] \in Arrays THEN Len(vs[n]) ELSE 0)
  IN  sum

Result == Int \cup Seq(Byte)
Extent == [at : 0 .. ArenaSize, len : Nat]

SequencesInv ==
  /\ values \in Seq(AnyValue)
  /\ got \in Seq(Result)
  /\ arrays \in Seq(Extent) /\ arrays # <<>>

LayoutInv ==
  /\ layout \in IF origin = "ours" THEN ToClient ELSE ToServer
  /\ \A i \in 1 .. Len(values) : values[i] \in Values(layout[i])

PhaseInv ==
  /\ origin = "ours" <=> pc \in {"write", "varint", "elements", "sent", "full", "crashed"}
  /\ pc = "compose" => origin = "peer"

\* The integer that WriteByte writes, and what lies before it in the buffer.
Meant  == IF WriteKind = "varint" THEN Written ELSE Len(Written)
Before == EncodedTo(layout, values)[Len(values) - 1]
Turns  == Len(data) - Len(Before)

WriteInv ==
  origin = "ours" =>
    /\ size = Budget - Len(data)
    /\ pc \in {"write", "sent"} => data = Encode(layout, values) /\ size >= 0
    /\ pc \in {"varint", "elements"} => Len(values) >= 1 /\ Len(Before) <= Budget
    /\ pc = "varint" =>
         /\ WriteKind \in {"varint"} \cup Arrays
         /\ Turns >= 0
         /\ data = Before \o Groups(Meant, Turns)
         /\ left = Meant \div Power(More)[Turns]
         /\ Turns = 0 \/ left # 0
    /\ pc = "elements" => WriteKind \in Arrays /\ data = Before \o VarintBytes(Len(Written))
    /\ pc = "full" => Len(data) <= Budget + MaxGroups
    /\ pc = "crashed" => left < 0

ReadInv ==
  origin # "ours" =>
    /\ pos >= 0
    /\ pc # "compose" /\ "buffer" \notin negative => size >= 0 /\ pos + size = total
    /\ pc = "accepted" => size = 0 /\ Len(got) = Len(layout)

ArenaInv ==
  negative = {} =>
    /\ \A i \in 1 .. Len(arrays) : arrays[i].at + arrays[i].len <= offset
    /\ \A i, j \in 1 .. Len(arrays) : i < j => arrays[i].at + arrays[i].len <= arrays[j].at

\* What has been read is what was meant, up to here in the packet.
InStep ==
  /\ \A i \in 1 .. Len(got) : got[i] = values[i]
  /\ pos = Len(EncodedTo(layout, values)[Len(got)])

\* The byte of an option was read, and its value is not what is left.
OutOfStep ==
  /\ Len(got) >= 1 /\ layout[Len(got)] = "option" /\ Len(values[Len(got)]) # 1
  /\ pos # total

PeerInv ==
  origin = "peer" =>
    /\ data = Encode(layout, values)
    /\ negative = {}
    /\ pc = "compose" => got = <<>> /\ pos = 0 /\ offset = arrays[1].len
    /\ pc # "compose" =>
         /\ Len(values) = Len(layout) /\ total = Len(data)
         /\ InStep \/ OutOfStep
         /\ offset = arrays[1].len + ElementsTo(layout, values)[Len(got)]
    /\ Fair => pc # "rejected"

IInv ==
  /\ TypeOK /\ SequencesInv /\ LayoutInv /\ PhaseInv
  /\ WriteInv /\ ReadInv /\ ArenaInv /\ PeerInv

LEMMA Typing ==
  ASSUME IInv
  PROVE  /\ IsTyped(layout, values)
         /\ Len(layout) \in Nat /\ Len(values) \in Nat /\ Len(got) \in Nat /\ Len(data) \in Nat
         /\ Len(values) <= Len(layout) /\ Len(got) <= Len(layout)
         /\ size \in Int /\ pos \in Int /\ left \in Int /\ total \in Nat
         /\ offset \in Nat /\ offset <= ArenaSize /\ ArenaSize \in Nat /\ Budget \in Nat
         /\ data \in Seq(Byte) /\ layout \in Seq(Kinds)
<1>1. /\ layout \in Seq(Kinds) /\ values \in Seq(AnyValue) /\ got \in Seq(Result)
      /\ data \in Seq(Byte)
  BY DEF IInv, TypeOK, SequencesInv
<1>2. Len(layout) \in Nat /\ Len(values) \in Nat /\ Len(got) \in Nat /\ Len(data) \in Nat
  BY <1>1, LenProperties
<1>3. Len(values) <= Len(layout) /\ Len(got) <= Len(layout) /\ total \in Nat
  BY DEF IInv, TypeOK
<1>4. size \in Int /\ pos \in Int /\ left \in Int
  BY DEF IInv, TypeOK
<1>5. offset \in 0 .. ArenaSize
  BY DEF IInv, TypeOK
<1>6. ArenaSize \in Nat /\ Budget \in Nat
  BY CodecAssumption
<1>7. \A i \in 1 .. Len(values) : values[i] \in Values(layout[i])
  BY DEF IInv, LayoutInv
<1>8. IsTyped(layout, values)
  BY <1>1, <1>3, <1>7 DEF IsTyped
<1> QED BY <1>1, <1>2, <1>3, <1>4, <1>5, <1>6, <1>8

\* A step of the writer keeps what the reader has, and the other way round.
LEMMA WriterKeeps ==
  ASSUME IInv, origin = "ours", UNCHANGED <<origin, layout, reading>>,
         pc' \in {"write", "varint", "elements", "sent", "full", "crashed"},
         data' \in Seq(Byte), size' \in Int, left' \in Int,
         IsTyped(layout, values'), WriteInv'
  PROVE  IInv'
<1> USE DEF reading, arena
<1>1. TypeOK'
  <2>1. /\ pc' \in {"compose", "read", "accepted", "rejected",
                    "write", "varint", "elements", "sent", "full", "crashed"}
        /\ origin' \in {"ours", "peer", "bytes"}
        /\ Len(values') <= Len(layout')
    BY DEF IsTyped
  <2>2. layout' = layout /\ got' = got /\ total' = total /\ pos' = pos /\ offset' = offset
        /\ arrays' = arrays /\ negative' = negative
    OBVIOUS
  <2>3. /\ layout \in Seq(Kinds) /\ Len(got) <= Len(layout) /\ total \in Nat /\ pos \in Int
        /\ offset \in 0 .. ArenaSize
        /\ \A i \in DOMAIN arrays : arrays[i].at \in 0 .. ArenaSize
        /\ negative \subseteq Arrays
    BY DEF IInv, TypeOK
  <2> QED BY <2>1, <2>2, <2>3 DEF TypeOK
<1>2. SequencesInv'
  BY DEF IInv, SequencesInv, IsTyped
<1>3. LayoutInv'
  BY DEF IInv, LayoutInv, IsTyped
<1>4. PhaseInv'
  BY DEF PhaseInv
<1>5. ReadInv' /\ PeerInv'
  BY DEF ReadInv, PeerInv
<1>6. ArenaInv'
  BY DEF IInv, ArenaInv
<1> QED BY <1>1, <1>2, <1>3, <1>4, <1>5, <1>6 DEF IInv

LEMMA NoGroups ==
  ASSUME NEW x \in Int, NEW bs \in Seq(Byte)
  PROVE  bs \o Groups(x, 0) = bs /\ x \div Power(More)[0] = x
<1>1. Groups(x, 0) \in Seq(Byte) /\ Len(Groups(x, 0)) = 0
  <2> DEFINE k == 0
  <2>1. k \in Nat
    OBVIOUS
  <2> HIDE DEF k
  <2>2. Groups(x, k) \in Seq(Byte) /\ Len(Groups(x, k)) = k
    BY <2>1, GroupsAre
  <2> QED BY <2>2 DEF k
<1>2. Groups(x, 0) = <<>>
  BY <1>1, EmptySeq
<1>3. bs \o Groups(x, 0) = bs
  BY <1>2, ConcatEmptySeq
<1>4. Power(More)[0] = 1
  BY Widths, PowerIs
<1>5. x = 1 * x + 0
  OBVIOUS
<1>6. x \div 1 = x
  BY <1>5, DivIs
<1> QED BY <1>3, <1>4, <1>6

LEMMA WriteFieldInv ==
  ASSUME IInv, WriteField
  PROVE  IInv'
<1> DEFINE n == Len(values)
           kind == layout[n + 1]
           next == IF n + 1 = Len(layout) THEN "sent" ELSE "write"
<1>1. pc = "write" /\ n < Len(layout) /\ origin = "ours"
  BY DEF WriteField, IInv, PhaseInv
<1>2. PICK v \in Values(kind) :
        /\ values' = Append(values, v)
        /\ \/ kind = "varint" /\ WriteVarint(v)
           \/ kind \in Arrays /\ WriteVarint(Len(v))
           \/ kind = "be" /\ Store(HostBytes(Swapped(v)), next)
           \/ kind \in {"raw", "rest"} /\ Store(v, next)
  BY DEF WriteField
<1>3. /\ IsTyped(layout, values) /\ n \in Nat /\ Len(layout) \in Nat /\ Len(data) \in Nat
      /\ data \in Seq(Byte) /\ size \in Int /\ Budget \in Nat /\ left \in Int
  BY Typing
<1>4. kind \in Kinds
  <2>1. n + 1 \in 1 .. Len(layout) /\ layout \in Seq(Kinds)
    BY <1>1, <1>3 DEF IsTyped
  <2> QED BY <2>1, ElementOfSeq
<1>5. data = Encode(layout, values) /\ size >= 0 /\ size = Budget - Len(data)
  BY <1>1 DEF IInv, WriteInv
<1> DEFINE f == FieldBytes(kind, v)
<1>6. /\ IsTyped(layout, values') /\ Len(values') = n + 1 /\ values'[n + 1] = v
      /\ EncodedTo(layout, values')[n] = data
      /\ Encode(layout, values') = data \o f
      /\ f \in Seq(Byte)
  <2>1. IsTyped(layout, Append(values, v)) /\ Len(Append(values, v)) = n + 1
        /\ Append(values, v)[n + 1] = v
    BY <1>1, <1>3, AppendTyped
  <2>2. /\ EncodedTo(layout, Append(values, v))[n] = Encode(layout, values)
        /\ Encode(layout, Append(values, v)) = Encode(layout, values) \o f
    BY <1>1, <1>3, EncodeAppend
  <2>3. f \in Seq(Byte)
    BY <1>4, FieldBytesAre
  <2> QED BY <1>2, <1>5, <2>1, <2>2, <2>3
<1>7. UNCHANGED <<origin, layout, reading>>
  BY <1>2 DEF WriteVarint, Store
<1>8. WriteKind' = kind /\ Written' = v /\ Before' = data
  <2>1. Len(values') - 1 = n
    BY <1>3, <1>6
  <2>2. layout' = layout
    BY <1>7
  <2> QED BY <1>6, <2>1, <2>2 DEF WriteKind, Written, Last, Before
<1> HIDE DEF n, kind, next, f
<1>9. ASSUME NEW x \in Int, WriteVarint(x), kind \in {"varint"} \cup Arrays, Meant' = x
      PROVE  IInv'
  <2>1. pc' = "varint" /\ left' = x /\ data' = data /\ size' = size
    BY <1>9 DEF WriteVarint
  <2>2. Turns' = 0 /\ Turns' \in Int
    BY <1>3, <1>8, <2>1 DEF Turns
  <2>3. data \o Groups(x, 0) = data /\ x \div Power(More)[0] = x
    BY <1>3, NoGroups
  <2>4. data' = Before' \o Groups(Meant', Turns') /\ left' = Meant' \div Power(More)[Turns']
    BY <1>8, <1>9, <2>1, <2>2, <2>3
  <2>5. WriteInv'
    BY <1>3, <1>5, <1>6, <1>7, <1>8, <1>9, <2>1, <2>2, <2>4 DEF WriteInv
  <2> QED BY <1>1, <1>3, <1>6, <1>7, <2>1, <2>5, WriterKeeps
<1>10. ASSUME Store(f, next)
       PROVE  IInv'
  <2>1. next \in {"sent", "write"}
    BY DEF next
  <2>2. Len(f) \in Nat
    BY <1>6, LenProperties
  <2>3. left' = left
    BY <1>10 DEF Store
  <2>4. CASE Len(f) > size
    <3>1. pc' = "full" /\ data' = data /\ size' = size
      BY <1>10, <2>4 DEF Store
    <3>2. Len(data) <= Budget + MaxGroups
      BY <1>3, <1>5, Widths
    <3>3. WriteInv'
      BY <1>5, <3>1, <3>2 DEF WriteInv
    <3> QED BY <1>1, <1>3, <1>6, <1>7, <2>3, <3>1, <3>3, WriterKeeps
  <2>5. CASE ~(Len(f) > size)
    <3>1. pc' = next /\ data' = data \o f /\ size' = size - Len(f)
      BY <1>10, <2>5 DEF Store
    <3>2. data' \in Seq(Byte) /\ Len(data') = Len(data) + Len(f)
      BY <1>3, <1>6, <3>1, ConcatProperties
    <3>3. data' = Encode(layout', values')
      BY <1>6, <1>7, <3>1
    <3>4. size' >= 0 /\ size' = Budget - Len(data') /\ size' \in Int
      BY <1>3, <1>5, <2>2, <2>5, <3>1, <3>2
    <3>5. WriteInv'
      BY <2>1, <3>1, <3>3, <3>4 DEF WriteInv
    <3>6. pc' \in {"write", "varint", "elements", "sent", "full", "crashed"}
      BY <2>1, <3>1
    <3> QED BY <1>1, <1>3, <1>6, <1>7, <2>3, <3>2, <3>4, <3>5, <3>6, WriterKeeps
  <2> QED BY <2>4, <2>5
<1>11. CASE kind = "varint" /\ WriteVarint(v)
  <2>1. v \in Int
    BY <1>2, <1>11, ValuesAssumption, SignedOfWord
  <2>2. Meant' = v
    BY <1>8, <1>11 DEF Meant
  <2> QED BY <1>9, <1>11, <2>1, <2>2
<1>12. CASE kind \in Arrays /\ WriteVarint(Len(v))
  <2>1. Len(v) \in Int
    BY <1>2, <1>12, ValuesAssumption, LenProperties
  <2>2. Meant' = Len(v)
    BY <1>8, <1>12 DEF Meant, Arrays
  <2> QED BY <1>9, <1>12, <2>1, <2>2
<1>13. CASE kind = "be" /\ Store(HostBytes(Swapped(v)), next)
  <2>1. Power(Base)[FixedLength] \in Nat
    BY Widths, PowerIs
  <2>2. v \in Nat
    BY <1>2, <1>13, <2>1, ValuesAssumption
  <2>3. HostBytes(Swapped(v)) = f
    BY <1>13, <2>2, FixedWritten DEF FieldBytes, Arrays, f
  <2> QED BY <1>10, <1>13, <2>3
<1>14. CASE kind \in {"raw", "rest"} /\ Store(v, next)
  <2>1. v = f
    BY <1>14 DEF FieldBytes, Arrays, f
  <2> QED BY <1>10, <1>14, <2>1
<1> QED BY <1>2, <1>11, <1>12, <1>13, <1>14 DEF kind, next

\* A value that is not below zero has no more than MaxGroups groups.
LEMMA NegativeIsLeft ==
  ASSUME NEW x \in Int32, NEW k \in Nat, k >= MaxGroups, x \div Power(More)[k] # 0
  PROVE  x \div Power(More)[k] < 0
<1> DEFINE P == Power(More)
           c == P[k]
<1>1. /\ More \in Nat /\ More >= 1 /\ Words \in Nat /\ Words = 2 * Half /\ Half \in Nat /\ Half >= 1
      /\ MaxGroups \in Nat /\ Words <= P[MaxGroups]
  BY Widths
<1>2. P[MaxGroups] <= c /\ P[MaxGroups] \in Nat /\ c \in Nat /\ c >= 1
  <2>1. P[MaxGroups] <= P[k]
    BY <1>1, PowerMonotone
  <2>2. P[MaxGroups] \in Nat /\ P[k] \in Nat /\ P[k] >= 1
    BY <1>1, PowerPositive
  <2> QED BY <2>1, <2>2
<1>3. x \in Int /\ x < c
  BY <1>1, <1>2 DEF Int32
<1> HIDE DEF c, P
<1>4. CASE x >= 0
  <2>1. x = c * 0 + x /\ c > 0
    BY <1>2, <1>3
  <2>2. x \div c = 0
    BY <1>2, <1>3, <1>4, <2>1, DivIs
  <2> QED BY <2>2 DEF c, P
<1>5. CASE x < 0
  <2>1. x \div c < 0
    BY <1>2, <1>3, <1>5
  <2> QED BY <2>1 DEF c, P
<1> QED BY <1>3, <1>4, <1>5

\* What is known of the field that is being written.
LEMMA Writing ==
  ASSUME IInv, origin = "ours", pc \in {"varint", "elements"}
  PROVE  /\ Len(values) >= 1
         /\ Before \in Seq(Byte) /\ Len(Before) \in Nat /\ Len(Before) <= Budget
         /\ Encode(layout, values) = Before \o FieldBytes(WriteKind, Written)
         /\ WriteKind \in Kinds /\ Written \in Values(WriteKind)
         /\ WriteKind = "varint" => Len(Before) = 0
<1> DEFINE n == Len(values)
           k == n - 1
           E == EncodedTo(layout, values)
<1>1. /\ IsTyped(layout, values) /\ n \in Nat /\ layout \in Seq(Kinds) /\ n <= Len(layout)
      /\ Len(layout) \in Nat
  BY Typing
<1>2. n >= 1 /\ Len(Before) <= Budget
  BY DEF IInv, WriteInv
<1>3. n \in 1 .. n /\ k \in 0 .. n /\ n \in 1 .. Len(layout)
  BY <1>1, <1>2
<1>4. /\ Encode(layout, values) = E[n] /\ E \in [0 .. n -> Seq(Byte)] /\ E[0] = <<>>
      /\ \A i \in 1 .. n : E[i] = E[i - 1] \o FieldBytes(layout[i], values[i])
  BY <1>1, EncodedIs
<1>5. E[n] = E[k] \o FieldBytes(layout[n], values[n])
  BY <1>3, <1>4
<1>6. layout[n] \in Kinds /\ values[n] \in Values(layout[n])
  <2>1. layout[n] \in Kinds
    BY <1>1, <1>3, ElementOfSeq
  <2> QED BY <1>1, <1>3, <2>1 DEF IsTyped
<1>7. ASSUME layout[n] = "varint" PROVE Len(E[k]) = 0
  <2>1. layout \in ToClient
    BY DEF IInv, LayoutInv
  <2>2. n \in DOMAIN layout
    BY <1>1, <1>3
  <2>3. n = 1
    BY <1>7, <2>1, <2>2, LayoutAssumption
  <2>4. E[k] = <<>>
    BY <1>4, <2>3
  <2> QED BY <2>4
<1>8. Before = E[k] /\ WriteKind = layout[n] /\ Written = values[n]
  BY DEF Before, WriteKind, Written, Last
<1> HIDE DEF n, k, E
<1>9. E[k] \in Seq(Byte)
  BY <1>3, <1>4
<1>10. Len(E[k]) \in Nat
  BY <1>9, LenProperties
<1> QED BY <1>2, <1>4, <1>5, <1>6, <1>7, <1>8, <1>9, <1>10 DEF n

LEMMA MeantIs ==
  ASSUME IInv, origin = "ours", pc = "varint"
  PROVE  Meant \in Int32 /\ Meant \in Int
<1>1. WriteKind \in {"varint"} \cup Arrays /\ Written \in Values(WriteKind)
  BY Writing DEF IInv, WriteInv
<1>2. CASE WriteKind = "varint"
  <2>1. Meant \in Int32
    BY <1>1, <1>2, ValuesAssumption DEF Meant
  <2> QED BY <2>1, SignedOfWord
<1>3. CASE WriteKind \in Arrays
  <2>1. Written \in Seq(Byte) /\ Len(Written) < Half
    BY <1>1, <1>3, ValuesAssumption
  <2>2. Len(Written) \in Nat
    BY <2>1, LenProperties
  <2>3. Meant = Len(Written)
    BY <1>3 DEF Meant, Arrays
  <2> QED BY <2>1, <2>2, <2>3, Widths DEF Int32
<1> QED BY <1>1, <1>2, <1>3

LEMMA AppendToConcat ==
  \A s \in Seq(Byte), t \in Seq(Byte), e \in Byte : Append(s \o t, e) = s \o Append(t, e)
<1> TAKE s \in Seq(Byte), t \in Seq(Byte), e \in Byte
<1>1. s \o t \in Seq(Byte) /\ <<e>> \in Seq(Byte)
  BY ConcatProperties
<1>2. Append(s \o t, e) = (s \o t) \o <<e>>
  BY <1>1, AppendIsConcat
<1>3. Append(t, e) = t \o <<e>>
  BY AppendIsConcat
<1> QED BY <1>1, <1>2, <1>3, ConcatAssociative

LEMMA WriteByteInv ==
  ASSUME IInv, WriteByte
  PROVE  IInv'
<1> DEFINE x == Meant
           k == Turns
           b == Before
           g == Group(x, k)
<1>1. pc = "varint" /\ origin = "ours"
  BY DEF WriteByte, IInv, PhaseInv
<1>2. /\ IsTyped(layout, values) /\ Len(data) \in Nat /\ Len(values) <= Len(layout)
      /\ data \in Seq(Byte) /\ size \in Int /\ Budget \in Nat /\ left \in Int
  BY Typing
<1>3. /\ b \in Seq(Byte) /\ Len(b) \in Nat /\ Len(b) <= Budget /\ Len(values) >= 1
      /\ Encode(layout, values) = b \o FieldBytes(WriteKind, Written)
      /\ WriteKind = "varint" => Len(b) = 0
  BY <1>1, Writing
<1>4. x \in Int32 /\ x \in Int
  BY <1>1, MeantIs
<1>5. /\ size = Budget - Len(data)
      /\ WriteKind \in {"varint"} \cup Arrays
      /\ k >= 0 /\ data = b \o Groups(x, k) /\ left = x \div Power(More)[k] /\ (k = 0 \/ left # 0)
  BY <1>1 DEF IInv, WriteInv
<1>6. k \in Nat /\ Len(data) = Len(b) + k
  BY <1>2, <1>3, <1>5 DEF Turns
<1>7. /\ UNCHANGED <<origin, layout, values, reading>>
      /\ data' = Append(data, (left % More) + MoreBit(left))
      /\ size' = size - 1 /\ left' = left \div More
      /\ pc' = IF LoopEnds(left)
               THEN (IF WriteKind = "varint" THEN AfterField ELSE "elements")
               ELSE IF Len(data) >= Budget + MaxGroups THEN "crashed" ELSE "varint"
  BY DEF WriteByte
<1>8. WriteKind' = WriteKind /\ Written' = Written /\ Before' = b /\ Meant' = x /\ AfterField' = AfterField
  BY <1>7 DEF WriteKind, Written, Before, Meant, AfterField
<1>9. left % More = g /\ g \in 0 .. More - 1 /\ g \in Byte /\ g + More \in Byte /\ More \in Nat
      /\ MaxGroups \in Nat /\ MaxGroups <= Budget
  <2>1. left % More = g
    BY <1>5 DEF Group
  <2>2. g \in 0 .. More - 1 /\ g \in Byte /\ g + More \in Byte
    BY <1>4, <1>6, GroupIn
  <2> QED BY <2>1, <2>2, Widths, LayoutAssumption
<1>10. left' = x \div Power(More)[k + 1] /\ left' \in Int
  <2>1. More \in Nat /\ More >= 1
    BY Widths
  <2>2. (x \div Power(More)[k]) \div More = x \div Power(More)[k + 1]
    BY <1>4, <1>6, <2>1, NextQuotient
  <2>3. left \div More \in Int
    BY <1>2, <2>1, DivMod
  <2> QED BY <1>5, <1>7, <2>2, <2>3
<1>11. /\ Groups(x, k) \in Seq(Byte)
       /\ Append(Groups(x, k), g + More) = Groups(x, k + 1)
  BY <1>4, <1>6, GroupsAre
<1>12. ASSUME NEW e \in Byte, data' = Append(data, e)
       PROVE  /\ data' \in Seq(Byte) /\ Len(data') = Len(b) + k + 1
              /\ data' = b \o Append(Groups(x, k), e)
              /\ size' = Budget - Len(data') /\ size' \in Int
  <2>1. data' \in Seq(Byte) /\ Len(data') = Len(data) + 1
    BY <1>2, <1>12, AppendProperties
  <2> DEFINE t == Groups(x, k)
  <2>2. Append(b \o t, e) = b \o Append(t, e)
    <3>1. t \in Seq(Byte) /\ b \in Seq(Byte)
      BY <1>3, <1>11
    <3>2. e \in Byte
      OBVIOUS
    <3> HIDE DEF t, b
    <3> QED BY ONLY <3>1, <3>2, AppendToConcat
  <2>3. data' = b \o Append(t, e)
    <3>1. data = b \o t
      BY <1>5
    <3> QED BY ONLY <1>12, <2>2, <3>1
  <2>4. Len(data') = Len(b) + k + 1
    BY <1>3, <1>6, <2>1
  <2>5. size' = Budget - Len(data') /\ size' \in Int
    <3>1. size = Budget - Len(data)
      BY <1>5
    <3>2. size' = size - 1
      BY <1>7
    <3>3. Len(data) \in Int /\ Budget \in Int /\ Len(data') = Len(data) + 1
      BY <1>2, <2>1
    <3> QED BY ONLY <3>1, <3>2, <3>3
  <2> QED BY <2>1, <2>3, <2>4, <2>5
<1> HIDE DEF x, k, b, g
<1>13. CASE ~LoopEnds(left)
  <2>1. data' = Append(data, g + More)
    BY <1>7, <1>9, <1>13 DEF LoopEnds, MoreBit
  <2>2. /\ data' \in Seq(Byte) /\ Len(data') = Len(b) + k + 1
        /\ data' = b \o Groups(x, k + 1)
        /\ size' = Budget - Len(data') /\ size' \in Int
    BY <1>9, <1>11, <1>12, <2>1
  <2>3. left' # 0
    BY <1>7, <1>13 DEF LoopEnds
  <2>4. pc' = IF Len(data) >= Budget + MaxGroups THEN "crashed" ELSE "varint"
    BY <1>7, <1>13
  <2>5. pc' = "crashed" => left' < 0
    <3> SUFFICES ASSUME Len(data) >= Budget + MaxGroups PROVE left' < 0
      BY <2>4
    <3> DEFINE j == k + 1
    <3>1. j \in Nat /\ j >= MaxGroups
      BY <1>2, <1>3, <1>6, <1>9
    <3>2. x \div Power(More)[j] # 0
      BY <1>10, <2>3
    <3> HIDE DEF j
    <3>3. x \div Power(More)[j] < 0
      BY <1>4, <3>1, <3>2, NegativeIsLeft
    <3> QED BY <1>10, <3>3 DEF j
  <2>6. Turns' = k + 1
    <3>1. Turns' = Len(data') - Len(b)
      BY <1>8 DEF Turns
    <3> QED BY <1>3, <1>6, <2>2, <3>1
  <2>7. WriteInv'
    <3>1. Turns' >= 0 /\ k + 1 \in Nat
      BY <1>6, <2>6
    <3>2. data' = Before' \o Groups(Meant', Turns')
      BY <1>8, <2>2, <2>6
    <3>3. left' = Meant' \div Power(More)[Turns']
      BY <1>8, <1>10, <2>6
    <3>4. Len(values') >= 1 /\ Len(Before') <= Budget /\ WriteKind' \in {"varint"} \cup Arrays
      BY <1>3, <1>5, <1>7, <1>8
    <3> QED BY <2>2, <2>3, <2>4, <2>5, <3>1, <3>2, <3>3, <3>4 DEF WriteInv
  <2>8. pc' \in {"write", "varint", "elements", "sent", "full", "crashed"}
    BY <2>4
  <2> QED BY <1>1, <1>2, <1>7, <1>10, <2>2, <2>7, <2>8, WriterKeeps
<1>14. CASE LoopEnds(left)
  <2>1. k + 1 <= MaxGroups /\ Append(Groups(x, k), g) = VarintBytes(x)
    BY <1>4, <1>5, <1>6, <1>14, LoopWrites DEF g
  <2>2. data' = Append(data, g)
    <3>1. MoreBit(left) = 0
      BY <1>14 DEF LoopEnds, MoreBit
    <3>2. g + 0 = g
      BY <1>9
    <3> QED BY <1>7, <1>9, <3>1, <3>2
  <2>3. /\ data' \in Seq(Byte) /\ Len(data') = Len(b) + k + 1
        /\ data' = b \o VarintBytes(x)
        /\ size' = Budget - Len(data') /\ size' \in Int
    BY <1>9, <1>12, <2>1, <2>2
  <2>4. CASE WriteKind = "varint"
    <3>1. pc' = AfterField /\ AfterField \in {"write", "sent"}
      BY <1>7, <1>14, <2>4 DEF AfterField
    <3>2. x = Written
      BY <2>4 DEF Meant, x
    <3>3. data' = Encode(layout', values')
      <4>1. FieldBytes(WriteKind, Written) = VarintBytes(Written)
        BY <2>4 DEF FieldBytes, Arrays
      <4>2. Encode(layout', values') = Encode(layout, values)
        BY <1>7
      <4> QED BY <1>3, <2>3, <3>2, <4>1, <4>2
    <3>4. size' >= 0
      BY <1>2, <1>3, <1>6, <1>9, <2>1, <2>3, <2>4
    <3>5. WriteInv'
      BY <2>3, <3>1, <3>3, <3>4 DEF WriteInv
    <3>6. pc' \in {"write", "varint", "elements", "sent", "full", "crashed"}
      BY <3>1
    <3> QED BY <1>1, <1>2, <1>7, <1>10, <2>3, <3>5, <3>6, WriterKeeps
  <2>5. CASE WriteKind # "varint"
    <3>1. pc' = "elements"
      BY <1>7, <1>14, <2>5
    <3>2. x = Len(Written)
      BY <2>5 DEF Meant, x
    <3>3. WriteKind' \in Arrays /\ data' = Before' \o VarintBytes(Len(Written'))
      BY <1>5, <1>8, <2>3, <2>5, <3>2
    <3>4. Len(values') >= 1 /\ Len(Before') <= Budget
      BY <1>3, <1>7, <1>8
    <3>5. WriteInv'
      BY <2>3, <3>1, <3>3, <3>4 DEF WriteInv
    <3> QED BY <1>1, <1>2, <1>7, <1>10, <2>3, <3>1, <3>5, WriterKeeps
  <2> QED BY <2>4, <2>5
<1> QED BY <1>13, <1>14

LEMMA WriteElementsInv ==
  ASSUME IInv, WriteElements
  PROVE  IInv'
<1> DEFINE b == Before
           w == Written
           h == VarintBytes(Len(w))
<1>1. pc = "elements" /\ origin = "ours" /\ Store(w, AfterField) /\ values' = values
  BY DEF WriteElements, IInv, PhaseInv
<1>2. /\ IsTyped(layout, values) /\ Len(data) \in Nat /\ left \in Int
      /\ data \in Seq(Byte) /\ size \in Int /\ Budget \in Nat
  BY Typing
<1>3. /\ b \in Seq(Byte) /\ Len(b) \in Nat /\ Len(b) <= Budget
      /\ Encode(layout, values) = b \o FieldBytes(WriteKind, w)
      /\ w \in Values(WriteKind)
  BY <1>1, Writing
<1>4. size = Budget - Len(data) /\ WriteKind \in Arrays /\ data = b \o h
  BY <1>1 DEF IInv, WriteInv
<1>5. w \in Seq(Byte) /\ Len(w) \in Nat
  BY <1>3, <1>4, ValuesAssumption, LenProperties
<1>6. h \in Seq(Byte) /\ Len(h) \in Nat /\ Len(h) <= MaxGroups /\ MaxGroups \in Nat
  <2>1. h \in Seq(Byte) /\ Len(h) = GroupsOf(Len(w)) /\ GroupsOf(Len(w)) \in 1 .. MaxGroups
    BY <1>5, VarintBytesAre
  <2> QED BY <2>1, Widths
<1>7. FieldBytes(WriteKind, w) = h \o w
  BY <1>4 DEF FieldBytes, Arrays
<1>8. UNCHANGED <<origin, layout, reading>> /\ left' = left
  BY <1>1 DEF Store
<1>9. IsTyped(layout, values')
  BY <1>1, <1>2
<1> HIDE DEF b, w, h
<1>10. Len(data) = Len(b) + Len(h)
  BY <1>3, <1>4, <1>6, ConcatProperties
<1>11. Encode(layout, values) = data \o w
  <2>1. (b \o h) \o w = b \o (h \o w)
    BY <1>3, <1>5, <1>6, ConcatAssociative
  <2> QED BY <1>3, <1>4, <1>7, <2>1
<1>12. CASE Len(w) > size
  <2>1. pc' = "full" /\ data' = data /\ size' = size
    BY <1>1, <1>12 DEF Store
  <2>2. Len(data) <= Budget + MaxGroups
    BY <1>2, <1>3, <1>6, <1>10
  <2>3. WriteInv'
    BY <1>4, <2>1, <2>2 DEF WriteInv
  <2> QED BY <1>1, <1>2, <1>8, <1>9, <2>1, <2>3, WriterKeeps
<1>13. CASE ~(Len(w) > size)
  <2>1. pc' = AfterField /\ data' = data \o w /\ size' = size - Len(w)
    BY <1>1, <1>13 DEF Store
  <2>2. AfterField \in {"sent", "write"}
    BY DEF AfterField
  <2>3. data' \in Seq(Byte) /\ Len(data') = Len(data) + Len(w)
    BY <1>2, <1>5, <2>1, ConcatProperties
  <2>4. data' = Encode(layout', values')
    <3>1. Encode(layout', values') = Encode(layout, values)
      BY <1>1, <1>8
    <3> QED BY <1>11, <2>1, <3>1
  <2>5. size' >= 0 /\ size' = Budget - Len(data') /\ size' \in Int
    <3>1. size = Budget - Len(data) /\ size' = size - Len(w)
      BY <1>4, <2>1
    <3>2. Len(data) \in Int /\ Budget \in Int /\ Len(w) \in Int /\ Len(w) <= size
      BY <1>2, <1>5, <1>13
    <3>3. Len(data') = Len(data) + Len(w)
      BY <2>3
    <3> QED BY ONLY <3>1, <3>2, <3>3
  <2>6. WriteInv'
    BY <2>1, <2>2, <2>4, <2>5 DEF WriteInv
  <2>7. pc' \in {"write", "varint", "elements", "sent", "full", "crashed"}
    BY <2>1, <2>2
  <2> QED BY <1>1, <1>2, <1>8, <1>9, <2>3, <2>5, <2>6, <2>7, WriterKeeps
<1> QED BY <1>12, <1>13

LEMMA ElementsIs ==
  ASSUME NEW l, NEW vs, IsTyped(l, vs)
  PROVE  /\ ElementsOf(l, vs) = ElementsTo(l, vs)[Len(vs)]
         /\ ElementsTo(l, vs) \in [0 .. Len(vs) -> Nat]
         /\ ElementsTo(l, vs)[0] = 0
         /\ \A i \in 1 .. Len(vs) :
              ElementsTo(l, vs)[i] =
                ElementsTo(l, vs)[i - 1] + (IF l[i] \in Arrays THEN Len(vs[i]) ELSE 0)
<1> DEFINE m == Len(vs)
           F(i) == IF l[i] \in Arrays THEN Len(vs[i]) ELSE 0
           step == [p \in (1 .. m) \X Nat |-> p[2] + F(p[1])]
           IsIt(s) == s = [n \in 0 .. m |-> IF n = 0 THEN 0 ELSE s[n - 1] + F(n)]
<1>0. m \in Nat
  BY LenProperties DEF IsTyped
<1>1. \A i \in 1 .. m : F(i) \in Nat
  <2> TAKE i \in 1 .. m
  <2>1. vs[i] \in Values(l[i])
    BY DEF IsTyped
  <2>2. CASE l[i] \in Arrays
    <3>1. vs[i] \in Seq(Byte)
      BY <2>1, <2>2, ValuesAssumption
    <3>2. Len(vs[i]) \in Nat
      BY <3>1, LenProperties
    <3> QED BY <2>2, <3>2
  <2> QED BY <2>2
<1> HIDE DEF m, F
<1>2. IsStepTo(step, m, Nat)
  <2>1. \A p \in (1 .. m) \X Nat : p[2] + F(p[1]) \in Nat
    BY <1>1
  <2> QED BY <2>1 DEF IsStepTo
<1>3. PICK f : IsRecursiveTo(f, m, Nat, 0, step)
  <2> DEFINE zero == 0
  <2>1. zero \in Nat
    OBVIOUS
  <2> HIDE DEF step, zero
  <2>2. \E f : IsRecursiveTo(f, m, Nat, zero, step)
    BY <1>0, <1>2, <2>1, RecursionTo
  <2> QED BY <2>2 DEF zero
<1>4. f \in [0 .. m -> Nat] /\ f[0] = 0
  BY <1>3 DEF IsRecursiveTo
<1>5. ASSUME NEW i \in 1 .. m PROVE f[i] = f[i - 1] + F(i)
  <2>1. f[i] = step[<<i, f[i - 1]>>]
    <3> HIDE DEF step
    <3> QED BY <1>3 DEF IsRecursiveTo
  <2>2. i - 1 \in 0 .. m
    BY <1>0
  <2>3. <<i, f[i - 1]>> \in (1 .. m) \X Nat
    BY <1>4, <2>2
  <2> QED BY <2>1, <2>3
<1>6. IsIt(f)
  <2>1. \A n \in 0 .. m : f[n] = IF n = 0 THEN 0 ELSE f[n - 1] + F(n)
    BY <1>0, <1>4, <1>5
  <2> QED BY <1>4, <2>1
<1> DEFINE q == ElementsTo(l, vs)
<1>7. IsIt(q)
  <2>1. q = CHOOSE s : IsIt(s)
    BY DEF ElementsTo, m, F
  <2> HIDE DEF IsIt, q
  <2> QED BY <1>6, <2>1
<1>8. ElementsOf(l, vs) = q[m]
  BY DEF ElementsOf, ElementsTo, m
<1> HIDE DEF q
<1>9. q[0] = 0 /\ \A i \in 1 .. m : q[i] = q[i - 1] + F(i)
  <2>1. \A n \in 0 .. m : q[n] = IF n = 0 THEN 0 ELSE q[n - 1] + F(n)
    BY <1>7
  <2>2. 0 \in 0 .. m /\ \A i \in 1 .. m : i \in 0 .. m /\ i # 0
    BY <1>0
  <2> QED BY <2>1, <2>2
<1> DEFINE S == {n \in Nat : n <= m => q[n] \in Nat}
<1>10. 0 \in S
  BY <1>9
<1>11. ASSUME NEW n \in Nat, n \in S PROVE n + 1 \in S
  <2>1. CASE n + 1 <= m
    <3>1. n + 1 \in 1 .. m /\ (n + 1) - 1 = n /\ q[n] \in Nat
      BY <1>0, <1>11, <2>1
    <3>2. q[n + 1] = q[n] + F(n + 1) /\ F(n + 1) \in Nat
      BY <1>1, <1>9, <3>1
    <3> QED BY <3>1, <3>2
  <2> QED BY <2>1
<1>12. Nat \subseteq S
  <2> HIDE DEF S
  <2> QED BY ONLY <1>10, <1>11, Induct
<1>13. q \in [0 .. m -> Nat]
  BY <1>7, <1>12
<1> QED BY <1>8, <1>9, <1>13 DEF q, m, F

LEMMA ElementsGrow ==
  ASSUME NEW l, NEW vs, IsTyped(l, vs), NEW j \in 0 .. Len(vs)
  PROVE  /\ ElementsTo(l, vs)[j] \in Nat /\ ElementsOf(l, vs) \in Nat
         /\ ElementsTo(l, vs)[j] <= ElementsOf(l, vs)
<1> DEFINE n == Len(vs)
           q == ElementsTo(l, vs)
           F(i) == IF l[i] \in Arrays THEN Len(vs[i]) ELSE 0
<1>1. ElementsOf(l, vs) = q[n] /\ q \in [0 .. n -> Nat]
      /\ \A i \in 1 .. n : q[i] = q[i - 1] + F(i)
  BY ElementsIs
<1>2. n \in Nat /\ j \in Nat /\ j <= n
  <2>1. n \in Nat
    BY LenProperties DEF IsTyped
  <2> QED BY <2>1
<1>3. \A i \in 1 .. n : q[i - 1] <= q[i]
  <2> TAKE i \in 1 .. n
  <2>1. vs[i] \in Values(l[i])
    BY DEF IsTyped
  <2>2. F(i) \in Nat
    <3>1. CASE l[i] \in Arrays
      <4>1. vs[i] \in Seq(Byte)
        BY <2>1, <3>1, ValuesAssumption
      <4>2. Len(vs[i]) \in Nat
        BY <4>1, LenProperties
      <4> QED BY <3>1, <4>2
    <3> QED BY <3>1
  <2>3. i - 1 \in 0 .. n
    BY <1>2
  <2>4. q[i - 1] \in Nat /\ q[i] = q[i - 1] + F(i)
    BY <1>1, <2>3
  <2> HIDE DEF F
  <2> QED BY <2>2, <2>4
<1> HIDE DEF n, q, F
<1> DEFINE S == {k \in Nat : j + k <= n => q[j] <= q[j + k]}
<1>4. 0 \in S
  <2>1. j \in 0 .. n /\ j + 0 = j
    BY <1>2
  <2> QED BY <1>1, <2>1
<1>5. ASSUME NEW k \in Nat, k \in S PROVE k + 1 \in S
  <2> SUFFICES ASSUME j + (k + 1) <= n PROVE q[j] <= q[j + (k + 1)]
    OBVIOUS
  <2> DEFINE i == j + (k + 1)
  <2>1. i \in 1 .. n /\ i - 1 = j + k /\ j + k <= n /\ j \in 0 .. n /\ j + k \in 0 .. n /\ i \in 0 .. n
    BY <1>2
  <2>2. q[j] <= q[j + k]
    BY <1>5, <2>1
  <2>3. q[j + k] <= q[i]
    <3> HIDE DEF i
    <3>1. q[i - 1] <= q[i]
      BY <1>3, <2>1
    <3> QED BY <2>1, <3>1
  <2>4. q[j] \in Nat /\ q[j + k] \in Nat /\ q[i] \in Nat
    BY <1>1, <2>1
  <2> QED BY <2>2, <2>3, <2>4
<1>6. Nat \subseteq S
  <2> HIDE DEF S
  <2> QED BY ONLY <1>4, <1>5, Induct
<1> DEFINE d == n - j
<1>7. d \in Nat /\ j + d = n
  BY <1>2
<1>8. d \in S
  BY <1>6, <1>7
<1>9. q[j] <= q[n] /\ q[j] \in Nat /\ q[n] \in Nat
  <2>1. j \in 0 .. n /\ n \in 0 .. n
    BY <1>2
  <2> QED BY <1>1, <1>7, <1>8, <2>1
<1> QED BY <1>1, <1>9 DEF q

LEMMA BytesAre ==
  ASSUME IInv, NEW p \in Nat, NEW n \in Nat
  PROVE  /\ Bytes(p, n) \in [1 .. n -> Byte]
         /\ Bytes(p, n) \in Seq(Byte) /\ Len(Bytes(p, n)) = n
         /\ \A i \in 1 .. n : Bytes(p, n)[i] = At(p + i)
<1>1. \A i \in 1 .. n : At(p + i) \in Byte
  <2> TAKE i \in 1 .. n
  <2>1. data \in Seq(Byte) /\ Len(data) \in Nat
    BY Typing
  <2>2. CASE p + i <= Len(data)
    <3>1. p + i \in 1 .. Len(data)
      BY <2>1, <2>2
    <3>2. data[p + i] \in Byte
      BY <2>1, <3>1, ElementOfSeq
    <3> QED BY <2>2, <3>2 DEF At
  <2>3. CASE ~(p + i <= Len(data))
    <3>1. 0 \in Byte
      BY Widths DEF Byte
    <3> QED BY <2>3, <3>1 DEF At
  <2> QED BY <2>2, <2>3
<1> DEFINE f == Bytes(p, n)
<1>2. f = [i \in 1 .. n |-> At(p + i)]
  BY DEF Bytes
<1> HIDE DEF f
<1>3. f \in [1 .. n -> Byte] /\ \A i \in 1 .. n : f[i] = At(p + i)
  BY <1>1, <1>2
<1>4. f \in Seq(Byte) /\ Len(f) = n
  BY <1>3, FunctionIsSeq
<1> QED BY <1>3, <1>4 DEF f

LEMMA SwappedIn ==
  ASSUME NEW x \in Int
  PROVE  Swapped(x) \in Nat
<1> DEFINE h == HostBytes(x)
           e == Reverse(h)
<1>1. h \in Seq(Nat)
  BY HostBytesAre
<1>2. e \in Seq(Nat)
  <2> HIDE DEF h
  <2> QED BY <1>1, ReverseIs
<1>3. Base \in Nat
  BY Widths
<1>4. Swapped(x) = Positional(e, Base)
  BY DEF Swapped, FromHost
<1> HIDE DEF e
<1> QED BY <1>2, <1>3, <1>4, PositionalIn

\* A peer's packet is in step until all of it is read, and the next field
\* lies at the cursor.
LEMMA PeerReads ==
  ASSUME IInv, origin = "peer", pc = "read", Len(got) < Len(layout),
         NEW f, f = FieldBytes(Kind, values[Len(got) + 1])
  PROVE  /\ InStep
         /\ Kind \in Kinds /\ values[Len(got) + 1] \in Values(Kind) /\ Kind # "rest"
         /\ Kind = "option" => Len(got) + 1 = Len(layout)
         /\ f \in Seq(Byte) /\ Len(f) \in Nat /\ Len(f) <= size
         /\ \A i \in 1 .. Len(f) : At(pos + i) = f[i]
         /\ pos + Len(f) = Len(EncodedTo(layout, values)[Len(got) + 1])
         /\ Len(got) + 1 <= Len(values) /\ size = total - pos /\ pos \in Nat
         /\ Kind = "option" => total = pos + Len(f)
         /\ offset = arrays[1].len + ElementsTo(layout, values)[Len(got)]
<1> DEFINE j == Len(got)
           n == Len(values)
           E == EncodedTo(layout, values)
<1>1. /\ IsTyped(layout, values) /\ Len(layout) \in Nat /\ n \in Nat /\ j \in Nat
      /\ layout \in Seq(Kinds) /\ Len(data) \in Nat /\ size \in Int /\ pos \in Int
  BY Typing
<1>2. /\ data = Encode(layout, values) /\ negative = {}
      /\ n = Len(layout) /\ total = Len(data) /\ (InStep \/ OutOfStep)
      /\ offset = arrays[1].len + ElementsTo(layout, values)[j]
  BY DEF IInv, PeerInv
<1>3. pos >= 0 /\ size >= 0 /\ pos + size = total
  BY <1>2 DEF IInv, ReadInv
<1>4. layout \in ToServer
  BY DEF IInv, LayoutInv
<1>5. \A i \in 1 .. n : layout[i] # "rest" /\ (layout[i] = "option" => i = n)
  BY <1>1, <1>2, <1>4, LayoutAssumption
<1>6. InStep
  <2>1. CASE OutOfStep
    <3>1. j >= 1 /\ layout[j] = "option"
      BY <2>1 DEF OutOfStep
    <3>2. j \in 1 .. n
      BY <1>1, <1>2, <3>1
    <3>3. j = n
      BY <1>5, <3>1, <3>2
    <3> QED BY <1>1, <1>2, <3>3
  <2> QED BY <1>2, <2>1
<1>7. j + 1 \in 1 .. n /\ Kind = layout[j + 1]
  BY <1>1, <1>2 DEF Kind
<1>8. Kind \in Kinds /\ values[j + 1] \in Values(Kind)
  <2>1. Kind \in Kinds
    BY <1>1, <1>2, <1>7, ElementOfSeq
  <2> QED BY <1>1, <1>7, <2>1 DEF IsTyped
<1>9. /\ f \in Seq(Byte)
      /\ Len(E[j + 1]) = Len(E[j]) + Len(f) /\ Len(E[j]) \in Nat
      /\ Len(E[j + 1]) <= Len(data)
      /\ \A i \in 1 .. Len(f) : data[Len(E[j]) + i] = f[i]
  <2>1. j + 1 <= Len(values)
    BY <1>7
  <2> DEFINE g == FieldBytes(layout[j + 1], values[j + 1])
  <2>2. /\ g \in Seq(Byte)
        /\ Len(E[j + 1]) = Len(E[j]) + Len(g) /\ Len(E[j]) \in Nat
        /\ Len(E[j + 1]) <= Len(Encode(layout, values))
        /\ \A i \in 1 .. Len(g) : Encode(layout, values)[Len(E[j]) + i] = g[i]
    <3>1. IsTyped(layout, values) /\ j \in Nat /\ j + 1 <= Len(values)
      BY <1>1, <2>1
    <3> HIDE DEF j
    <3>2. LiesIn(Encode(layout, values), EncodedTo(layout, values)[j],
                 EncodedTo(layout, values)[j + 1], FieldBytes(layout[j + 1], values[j + 1]))
      BY ONLY <3>1, FieldRead
    <3> QED BY <3>2 DEF LiesIn
  <2>3. f = g
    BY <1>7
  <2> HIDE DEF g, E
  <2> QED BY <1>2, <2>2, <2>3
<1>10. pos = Len(E[j])
  BY <1>6 DEF InStep
<1> HIDE DEF E, j, n
<1>11. Len(f) \in Nat
  BY <1>9, LenProperties
<1>12. pos + Len(f) = Len(E[j + 1]) /\ Len(f) <= size /\ size = total - pos /\ pos \in Nat
  <2>1. pos \in Nat /\ size = total - pos
    BY <1>1, <1>2, <1>3
  <2>2. pos + Len(f) = Len(E[j + 1])
    BY <1>9, <1>10
  <2>3. pos + Len(f) <= total /\ total \in Nat
    BY <1>1, <1>2, <1>9, <2>2
  <2> QED BY <1>11, <2>1, <2>2, <2>3
<1>13. \A i \in 1 .. Len(f) : At(pos + i) = f[i]
  <2> TAKE i \in 1 .. Len(f)
  <2>1. pos + i <= Len(data)
    BY <1>1, <1>2, <1>11, <1>12
  <2> QED BY <1>9, <1>10, <2>1 DEF At
<1>14. ASSUME Kind = "option" PROVE total = pos + Len(f) /\ j + 1 = n
  <2>1. j + 1 = n
    BY <1>5, <1>7, <1>14
  <2>2. data = E[n]
    BY <1>1, <1>2, EncodedIs DEF E, n
  <2> QED BY <1>2, <1>12, <2>1, <2>2
<1>15. Kind # "rest"
  BY <1>5, <1>7
<1>16. j + 1 <= n /\ (Kind = "option" => j + 1 = Len(layout))
  BY <1>1, <1>2, <1>7, <1>14
<1>17. Kind = "option" => total = pos + Len(f)
  BY <1>14
<1>18. f \in Seq(Byte) /\ values[j + 1] \in Values(Kind)
  BY <1>8, <1>9
<1>19. offset = arrays[1].len + ElementsTo(layout, values)[j]
  BY <1>2
<1> QED BY <1>6, <1>8, <1>11, <1>12, <1>13, <1>15, <1>16, <1>17, <1>18, <1>19 DEF E, j, n

\* The next field is read; "arena" is what the step does to the arena.
TakesOne(value) ==
  /\ pc = "read" /\ Len(got) < Len(layout)
  /\ UNCHANGED <<pc, packet>>
  /\ value \in Result /\ got' = Append(got, value)

CursorOK ==
  /\ pos' \in Int /\ size' \in Int /\ pos' >= 0
  /\ "buffer" \notin negative' => size' >= 0 /\ pos' + size' = total

ArenaOK ==
  /\ offset' \in 0 .. ArenaSize
  /\ arrays' \in Seq(Extent) /\ arrays' # <<>> /\ arrays'[1] = arrays[1]
  /\ negative' \subseteq Arrays
  /\ ArenaInv'

GotOne ==
  /\ negative' = {}
  /\ InStep' \/ OutOfStep'
  /\ offset' = arrays[1].len + ElementsTo(layout, values)[Len(got) + 1]

LEMMA AtsAre ==
  ASSUME NEW as \in Seq(Extent)
  PROVE  \A i \in DOMAIN as : as[i].at \in 0 .. ArenaSize
<1> SUFFICES ASSUME NEW i \in DOMAIN as PROVE as[i].at \in 0 .. ArenaSize
  OBVIOUS
<1>1. i \in 1 .. Len(as)
  BY LenProperties
<1>2. as[i] \in Extent
  BY <1>1, ElementOfSeq
<1> QED BY <1>2 DEF Extent

LEMMA GotAppend ==
  ASSUME IInv, NEW value \in Result, got' = Append(got, value)
  PROVE  /\ got' \in Seq(Result) /\ Len(got') = Len(got) + 1 /\ Len(got) \in Nat
         /\ got'[Len(got) + 1] = value
         /\ \A i \in 1 .. Len(got) : got'[i] = got[i]
<1>1. got \in Seq(Result)
  BY DEF IInv, SequencesInv
<1>2. Len(got) \in Nat
  BY <1>1, LenProperties
<1> DEFINE g == got
           h == Append(g, value)
<1>3. /\ h \in Seq(Result) /\ Len(h) = Len(g) + 1
      /\ h[Len(g) + 1] = value
      /\ \A i \in 1 .. Len(g) : h[i] = g[i]
  <2> HIDE DEF g
  <2>1. g \in Seq(Result)
    BY <1>1 DEF g
  <2> QED BY <2>1, AppendProperties
<1> QED BY <1>2, <1>3

LEMMA TakeInv ==
  ASSUME IInv, NEW value, TakesOne(value), CursorOK, ArenaOK, origin = "peer" => GotOne
  PROVE  IInv'
<1>1. /\ pc = "read" /\ pc' = pc /\ UNCHANGED <<origin, layout, values, data, total, left>>
      /\ value \in Result /\ got' = Append(got, value) /\ Len(got) < Len(layout)
  BY DEF TakesOne, packet
<1>2. /\ got' \in Seq(Result) /\ Len(got') = Len(got) + 1
      /\ Len(got) \in Nat /\ Len(layout) \in Nat
  BY <1>1, GotAppend, Typing
<1>3. TypeOK'
  <2>1. /\ pos' \in Int /\ size' \in Int /\ offset' \in 0 .. ArenaSize /\ negative' \subseteq Arrays
    BY DEF CursorOK, ArenaOK
  <2>2. \A i \in DOMAIN arrays' : arrays'[i].at \in 0 .. ArenaSize
    BY AtsAre DEF ArenaOK
  <2>3. Len(got') <= Len(layout)
    BY <1>1, <1>2
  <2>4. /\ pc \in {"compose", "read", "accepted", "rejected",
                   "write", "varint", "elements", "sent", "full", "crashed"}
        /\ origin \in {"ours", "peer", "bytes"}
        /\ layout \in Seq(Kinds) /\ data \in Seq(Byte) /\ Len(values) <= Len(layout)
        /\ total \in Nat /\ left \in Int
    BY DEF IInv, TypeOK
  <2> QED BY <1>1, <2>1, <2>2, <2>3, <2>4 DEF TypeOK
<1>4. SequencesInv'
  BY <1>1, <1>2 DEF IInv, SequencesInv, ArenaOK
<1>5. LayoutInv' /\ PhaseInv'
  BY <1>1 DEF IInv, LayoutInv, PhaseInv
<1>6. origin # "ours"
  BY <1>1 DEF IInv, PhaseInv
<1>7. WriteInv'
  BY <1>1, <1>6 DEF WriteInv
<1>8. ReadInv'
  BY <1>1 DEF ReadInv, CursorOK
<1>9. PeerInv'
  <2> SUFFICES ASSUME origin = "peer" PROVE PeerInv'
    BY <1>1 DEF PeerInv
  <2>1. data = Encode(layout, values) /\ Len(values) = Len(layout) /\ total = Len(data)
    BY <1>1 DEF IInv, PeerInv
  <2>2. negative' = {} /\ (InStep' \/ OutOfStep')
        /\ offset' = arrays[1].len + ElementsTo(layout, values)[Len(got) + 1]
    BY DEF GotOne
  <2>3. arrays'[1] = arrays[1]
    BY DEF ArenaOK
  <2>4. offset' = arrays'[1].len + ElementsTo(layout', values')[Len(got')]
    BY <1>1, <1>2, <2>2, <2>3
  <2>5. data' = Encode(layout', values') /\ Len(values') = Len(layout') /\ total' = Len(data')
    BY <1>1, <2>1
  <2>6. pc' # "compose" /\ pc' # "rejected"
    BY <1>1
  <2> QED BY <2>2, <2>4, <2>5, <2>6 DEF PeerInv
<1>10. ArenaInv'
  BY DEF ArenaOK
<1> QED BY <1>3, <1>4, <1>5, <1>7, <1>8, <1>9, <1>10 DEF IInv

LEMMA ArenaKept ==
  ASSUME IInv, UNCHANGED arena
  PROVE  ArenaOK
<1>1. offset' = offset /\ arrays' = arrays /\ negative' = negative
  BY DEF arena
<1>2. offset \in 0 .. ArenaSize /\ negative \subseteq Arrays
  BY DEF IInv, TypeOK
<1>3. arrays \in Seq(Extent) /\ arrays # <<>>
  BY DEF IInv, SequencesInv
<1>4. ArenaInv'
  BY <1>1 DEF IInv, ArenaInv
<1> QED BY <1>1, <1>2, <1>3, <1>4 DEF ArenaOK

\* What was meant was read, and all of it.
LEMMA StepInStep ==
  ASSUME IInv, InStep, Len(got) + 1 <= Len(values),
         UNCHANGED <<layout, values>>, NEW value \in Result, got' = Append(got, value),
         value = values[Len(got) + 1],
         pos' = Len(EncodedTo(layout, values)[Len(got) + 1])
  PROVE  InStep'
<1>1. /\ Len(got') = Len(got) + 1 /\ Len(got) \in Nat
      /\ got'[Len(got) + 1] = value
      /\ \A i \in 1 .. Len(got) : got'[i] = got[i]
  BY GotAppend
<1>2. \A i \in 1 .. Len(got') : got'[i] = values'[i]
  <2> TAKE i \in 1 .. Len(got')
  <2>1. CASE i = Len(got) + 1
    BY <1>1, <2>1
  <2>2. CASE i # Len(got) + 1
    <3>1. i \in 1 .. Len(got)
      BY <1>1, <2>2
    <3> QED BY <1>1, <3>1 DEF InStep
  <2> QED BY <2>1, <2>2
<1>3. pos' = Len(EncodedTo(layout', values')[Len(got')])
  BY <1>1
<1> QED BY <1>2, <1>3 DEF InStep

LEMMA ElementsNext ==
  ASSUME IInv, origin = "peer", Len(got) + 1 <= Len(values)
  PROVE  ElementsTo(layout, values)[Len(got) + 1] =
           ElementsTo(layout, values)[Len(got)]
             + (IF Kind \in Arrays THEN Len(values[Len(got) + 1]) ELSE 0)
         /\ ElementsTo(layout, values)[Len(got)] \in Nat
<1> DEFINE j == Len(got)
           q == ElementsTo(layout, values)
           i == j + 1
<1>1. IsTyped(layout, values) /\ j \in Nat /\ Len(values) \in Nat
  BY Typing
<1>2. i \in 1 .. Len(values) /\ i - 1 = j /\ j \in 0 .. Len(values)
  BY <1>1
<1>3. q[j] \in Nat
  BY <1>1, <1>2, ElementsIs
<1>4. \A k \in 1 .. Len(values) :
        q[k] = q[k - 1] + (IF layout[k] \in Arrays THEN Len(values[k]) ELSE 0)
  BY <1>1, ElementsIs
<1>5. q[i] = q[j] + (IF layout[i] \in Arrays THEN Len(values[i]) ELSE 0)
  <2> HIDE DEF q, i, j
  <2> QED BY <1>2, <1>4
<1>6. Kind = layout[i]
  BY DEF Kind
<1> QED BY <1>3, <1>5, <1>6

\* Reading bytes that are known gives them.
LEMMA ReadsBytes ==
  ASSUME IInv, NEW p \in Nat, NEW f \in Seq(Byte), \A i \in 1 .. Len(f) : At(p + i) = f[i]
  PROVE  Bytes(p, Len(f)) = f
<1> DEFINE n == Len(f)
           g == Bytes(p, n)
<1>1. n \in Nat
  BY LenProperties
<1>2. g \in Seq(Byte) /\ Len(g) = n /\ \A i \in 1 .. n : g[i] = At(p + i)
  <2> HIDE DEF n
  <2> QED BY <1>1, BytesAre
<1> HIDE DEF g
<1>3. \A i \in 1 .. n : g[i] = f[i]
  BY <1>2
<1>4. g = f
  BY <1>1, <1>2, <1>3, SeqEqual
<1> QED BY <1>4 DEF g

\* A variable integer ends where it ends.
LEMMA ReadsVarint ==
  ASSUME IInv, NEW v \in Int32, NEW p \in Nat, NEW s \in Int, GroupsOf(v) <= s,
         \A i \in 1 .. GroupsOf(v) : At(p + i) = VarintBytes(v)[i]
  PROVE  /\ VarintLengths(p, s) = {GroupsOf(v)}
         /\ Varint(Bytes(p, GroupsOf(v))) = v
<1> DEFINE n == GroupsOf(v)
           f == VarintBytes(v)
<1>1. v \in Int
  BY SignedOfWord
<1>2. n \in 1 .. MaxGroups /\ f \in Seq(Byte) /\ Len(f) = n
  BY <1>1, VarintBytesAre
<1>3. \A i \in 1 .. n : f[i] < More <=> i = n
  BY <1>1, HighBits
<1>4. MaxGroups \in Nat /\ More \in Nat /\ Base \in Nat
  BY Widths
<1>5. \A i \in 1 .. n : f[i] \in Int
  <2> TAKE i \in 1 .. n
  <2>1. f[i] \in Byte
    BY <1>2, ElementOfSeq
  <2> QED BY <1>4, <2>1 DEF Byte
<1> HIDE DEF n, f
<1>6. \A i \in 1 .. n : At(p + i) = f[i]
  BY DEF n, f
<1>7. n <= s
  BY DEF n
<1>8. n \in VarintLengths(p, s)
  <2>1. At(p + n) < More
    BY <1>2, <1>3, <1>4, <1>6
  <2>2. \A j \in 1 .. n - 1 : At(p + j) >= More
    <3> TAKE j \in 1 .. n - 1
    <3>1. j \in 1 .. n /\ j # n
      BY <1>2, <1>4
    <3>2. ~(f[j] < More) /\ f[j] \in Int
      BY <1>3, <1>5, <3>1
    <3> QED BY <1>4, <1>6, <3>1, <3>2
  <2> QED BY <1>2, <1>7, <2>1, <2>2 DEF VarintLengths
<1>9. ASSUME NEW k \in VarintLengths(p, s) PROVE k = n
  <2>1. k \in 1 .. MaxGroups /\ At(p + k) < More /\ \A j \in 1 .. k - 1 : At(p + j) >= More
    BY DEF VarintLengths
  <2>2. CASE k < n
    <3>1. k \in 1 .. n /\ k # n
      BY <1>2, <1>4, <2>1, <2>2
    <3>2. ~(f[k] < More)
      BY <1>3, <3>1
    <3> QED BY <1>6, <2>1, <3>1, <3>2
  <2>3. CASE n < k
    <3>1. n \in 1 .. k - 1 /\ n \in 1 .. n
      BY <1>2, <1>4, <2>1, <2>3
    <3>2. f[n] < More /\ f[n] \in Int
      BY <1>3, <1>5, <3>1
    <3>3. f[n] >= More
      BY <1>6, <2>1, <3>1
    <3> QED BY <1>4, <3>2, <3>3
  <2> QED BY <1>2, <1>4, <2>1, <2>2, <2>3
<1>10. VarintLengths(p, s) = {n}
  BY <1>8, <1>9
<1>11. Bytes(p, n) = f
  <2>1. Bytes(p, Len(f)) = f
    BY <1>2, <1>6, ReadsBytes
  <2> QED BY <1>2, <2>1
<1>12. Varint(f) = v
  BY VarintRead DEF f
<1> QED BY <1>10, <1>11, <1>12 DEF n

LEMMA ReadVarintInv ==
  ASSUME IInv, ReadVarint
  PROVE  IInv'
<1>1. pc = "read" /\ Len(got) < Len(layout) /\ Kind = "varint" /\ UNCHANGED <<pc, packet, arena>>
  BY DEF ReadVarint, Reads
<1>2. PICK k \in VarintLengths(pos, size) : Take(Varint(Bytes(pos, k)), k, k)
  BY DEF ReadVarint
<1> DEFINE value == Varint(Bytes(pos, k))
<1>3. got' = Append(got, value) /\ pos' = pos + k /\ size' = size - k
  BY <1>2 DEF Take
<1>4. origin # "ours" /\ pos \in Nat /\ size \in Int /\ total \in Nat
  BY <1>1, Typing DEF IInv, PhaseInv, ReadInv
<1>5. k \in Nat /\ k >= 1 /\ k <= size
  BY <1>4, Widths DEF VarintLengths
<1>6. value \in Int32 /\ value \in Int /\ value \in Result
  <2>1. Bytes(pos, k) \in [1 .. k -> Byte]
    BY <1>4, <1>5, BytesAre
  <2>2. Varint(Bytes(pos, k)) \in Int32
    BY <1>5, <2>1, VarintIn
  <2> HIDE DEF value
  <2>3. value \in Int32
    BY <2>2 DEF value
  <2> QED BY <2>3, SignedOfWord DEF Result
<1> HIDE DEF value
<1>7. TakesOne(value)
  BY <1>1, <1>3, <1>6 DEF TakesOne
<1>8. "buffer" \notin negative => size >= 0 /\ pos + size = total
  BY <1>1, <1>4 DEF IInv, ReadInv
<1>9. CursorOK
  <2>1. negative' = negative
    BY <1>1 DEF arena
  <2> QED BY <1>3, <1>4, <1>5, <1>8, <2>1 DEF CursorOK
<1>10. ArenaOK
  BY <1>1, ArenaKept
<1>11. ASSUME origin = "peer" PROVE GotOne
  <2> DEFINE v == values[Len(got) + 1]
             f == FieldBytes(Kind, v)
  <2>1. /\ InStep /\ v \in Values(Kind) /\ Len(f) <= size
        /\ \A i \in 1 .. Len(f) : At(pos + i) = f[i]
        /\ pos + Len(f) = Len(EncodedTo(layout, values)[Len(got) + 1])
        /\ Len(got) + 1 <= Len(values)
        /\ offset = arrays[1].len + ElementsTo(layout, values)[Len(got)]
    BY <1>1, <1>11, PeerReads
  <2>2. v \in Int32 /\ v \in Int
    BY <1>1, <2>1, ValuesAssumption, SignedOfWord
  <2>3. f = VarintBytes(v)
    BY <1>1 DEF FieldBytes, Arrays
  <2>4. Len(f) = GroupsOf(v)
    BY <2>2, <2>3, VarintBytesAre
  <2> HIDE DEF v
  <2>5. VarintLengths(pos, size) = {GroupsOf(v)} /\ Varint(Bytes(pos, GroupsOf(v))) = v
    BY <1>4, <2>1, <2>2, <2>3, <2>4, ReadsVarint
  <2>6. k = Len(f) /\ value = v
    BY <1>2, <2>4, <2>5 DEF value
  <2> HIDE DEF f
  <2>7. pos' = Len(EncodedTo(layout, values)[Len(got) + 1])
    BY <1>3, <2>1, <2>6
  <2>8. InStep'
    <3>1. UNCHANGED <<layout, values>>
      BY <1>1 DEF packet
    <3> QED BY <1>3, <1>6, <2>1, <2>6, <2>7, <3>1, StepInStep DEF v
  <2>9. offset' = arrays[1].len + ElementsTo(layout, values)[Len(got) + 1]
    <3>1. ElementsTo(layout, values)[Len(got) + 1] = ElementsTo(layout, values)[Len(got)] + 0
          /\ ElementsTo(layout, values)[Len(got)] \in Nat
      BY <1>1, <1>11, <2>1, ElementsNext DEF Arrays
    <3>2. offset' = offset
      BY <1>1 DEF arena
    <3> QED BY <2>1, <3>1, <3>2
  <2>10. negative' = {}
    <3>1. negative = {}
      BY <1>11 DEF IInv, PeerInv
    <3> QED BY <1>1, <3>1 DEF arena
  <2> QED BY <2>8, <2>9, <2>10 DEF GotOne
<1> QED BY <1>7, <1>9, <1>10, <1>11, TakeInv

LEMMA ReadFixedInv ==
  ASSUME IInv, ReadFixed
  PROVE  IInv'
<1> DEFINE F == FixedLength
           bytes == Bytes(pos, F)
           value == IF Kind = "be" THEN Swapped(FromHost(bytes)) ELSE bytes
<1>1. /\ pc = "read" /\ Len(got) < Len(layout) /\ Kind \in {"be", "raw"} /\ size >= F
      /\ UNCHANGED <<pc, packet, arena>>
      /\ got' = Append(got, value) /\ pos' = pos + F /\ size' = size - F
  BY DEF ReadFixed, Reads, Take
<1>2. origin # "ours" /\ pos \in Nat /\ size \in Int /\ total \in Nat
  BY <1>1, Typing DEF IInv, PhaseInv, ReadInv
<1>3. F \in Nat /\ F >= 1
  BY Widths
<1>4. bytes \in Seq(Byte) /\ Len(bytes) = F
  BY <1>2, <1>3, BytesAre
<1>5. value \in Result
  <2>1. FromHost(bytes) \in Int
    <3> HIDE DEF bytes, F
    <3>1. FromHost(bytes) \in Nat
      BY <1>4, LoadStore DEF F
    <3> QED BY <3>1
  <2>2. Swapped(FromHost(bytes)) \in Nat
    BY <2>1, SwappedIn
  <2> QED BY <1>4, <2>2 DEF Result
<1>6. ASSUME origin = "peer"
      PROVE  LET v == values[Len(got) + 1] IN
             /\ value = v /\ pos' = Len(EncodedTo(layout, values)[Len(got) + 1])
             /\ Len(got) + 1 <= Len(values) /\ InStep
             /\ offset = arrays[1].len + ElementsTo(layout, values)[Len(got)]
  <2> DEFINE v == values[Len(got) + 1]
             f == FieldBytes(Kind, v)
  <2>1. /\ InStep /\ v \in Values(Kind) /\ f \in Seq(Byte)
        /\ \A i \in 1 .. Len(f) : At(pos + i) = f[i]
        /\ pos + Len(f) = Len(EncodedTo(layout, values)[Len(got) + 1])
        /\ Len(got) + 1 <= Len(values)
        /\ offset = arrays[1].len + ElementsTo(layout, values)[Len(got)]
    BY <1>1, <1>6, PeerReads
  <2>2. Len(f) = F /\ (Kind = "be" => f = BigEndian(v)) /\ (Kind = "raw" => f = v)
    <3>1. CASE Kind = "be"
      <4>1. f = BigEndian(v)
        BY <3>1 DEF FieldBytes, Arrays
      <4>2. Power(Base)[F] \in Nat
        BY Widths, PowerIs
      <4>3. v \in Int
        BY <2>1, <3>1, <4>2, ValuesAssumption
      <4> QED BY <3>1, <4>1, <4>3, BigEndianAre
    <3>2. CASE Kind = "raw"
      <4>1. f = v
        BY <3>2 DEF FieldBytes, Arrays
      <4>2. v \in [1 .. F -> Byte]
        BY <2>1, <3>2, ValuesAssumption
      <4>3. Len(v) = F
        BY <1>3, <4>2, FunctionIsSeq
      <4> QED BY <3>2, <4>1, <4>3
    <3> QED BY <1>1, <3>1, <3>2
  <2> HIDE DEF f, v
  <2>3. bytes = f
    <3>1. Bytes(pos, Len(f)) = f
      BY <1>2, <2>1, ReadsBytes
    <3> QED BY <2>2, <3>1
  <2>4. value = v
    <3>1. CASE Kind = "be"
      <4>1. v \in 0 .. Power(Base)[FixedLength] - 1
        BY <2>1, <3>1, ValuesAssumption
      <4>2. Swapped(FromHost(BigEndian(v))) = v
        BY <4>1, FixedRead
      <4> QED BY <2>2, <2>3, <3>1, <4>2
    <3>2. CASE Kind = "raw"
      BY <2>2, <2>3, <3>2
    <3> QED BY <1>1, <3>1, <3>2
  <2>5. pos' = Len(EncodedTo(layout, values)[Len(got) + 1])
    BY <1>1, <2>1, <2>2
  <2> HIDE DEF value
  <2> QED BY <2>1, <2>4, <2>5 DEF v
<1>7. CursorOK
  <2>1. "buffer" \notin negative => size >= 0 /\ pos + size = total
    BY <1>1, <1>2 DEF IInv, ReadInv
  <2>2. negative' = negative
    BY <1>1 DEF arena
  <2> QED BY <1>1, <1>2, <1>3, <2>1, <2>2 DEF CursorOK
<1> HIDE DEF value
<1>8. TakesOne(value)
  BY <1>1, <1>5 DEF TakesOne
<1>9. ArenaOK
  BY <1>1, ArenaKept
<1>10. ASSUME origin = "peer" PROVE GotOne
  <2>1. InStep'
    <3>1. UNCHANGED <<layout, values>>
      BY <1>1 DEF packet
    <3> QED BY <1>1, <1>5, <1>6, <1>10, <3>1, StepInStep
  <2>2. offset' = arrays[1].len + ElementsTo(layout, values)[Len(got) + 1]
    <3>1. ElementsTo(layout, values)[Len(got) + 1] = ElementsTo(layout, values)[Len(got)] + 0
          /\ ElementsTo(layout, values)[Len(got)] \in Nat
      BY <1>1, <1>6, <1>10, ElementsNext DEF Arrays
    <3>2. offset' = offset /\ offset = arrays[1].len + ElementsTo(layout, values)[Len(got)]
      BY <1>1, <1>6, <1>10 DEF arena
    <3> QED BY <3>1, <3>2
  <2>3. negative' = {}
    <3>1. negative = {}
      BY <1>10 DEF IInv, PeerInv
    <3> QED BY <1>1, <3>1 DEF arena
  <2> QED BY <2>1, <2>2, <2>3 DEF GotOne
<1> QED BY <1>7, <1>8, <1>9, <1>10, TakeInv

LEMMA ReadOptionInv ==
  ASSUME IInv, ReadOption
  PROVE  IInv'
<1> DEFINE value == Bytes(pos, 1)
<1>1. /\ pc = "read" /\ Len(got) < Len(layout) /\ Kind = "option" /\ size >= 1
      /\ UNCHANGED <<pc, packet, arena>>
      /\ got' = Append(got, value) /\ pos' = pos + 1 /\ size' = size - 1
  BY DEF ReadOption, Reads, Take
<1>2. origin # "ours" /\ pos \in Nat /\ size \in Int /\ total \in Nat
  BY <1>1, Typing DEF IInv, PhaseInv, ReadInv
<1>3. value \in Seq(Byte) /\ value \in Result
  <2> DEFINE n == 1
  <2>1. n \in Nat
    OBVIOUS
  <2> HIDE DEF n
  <2>2. Bytes(pos, n) \in Seq(Byte)
    BY <1>2, <2>1, BytesAre
  <2> QED BY <2>2 DEF n, Result
<1>4. CursorOK
  <2>1. "buffer" \notin negative => size >= 0 /\ pos + size = total
    BY <1>1, <1>2 DEF IInv, ReadInv
  <2>2. negative' = negative
    BY <1>1 DEF arena
  <2> QED BY <1>1, <1>2, <2>1, <2>2 DEF CursorOK
<1>5. TakesOne(value)
  <2> HIDE DEF value
  <2> QED BY <1>1, <1>3 DEF TakesOne
<1>6. ArenaOK
  BY <1>1, ArenaKept
<1>7. ASSUME origin = "peer" PROVE GotOne
  <2> DEFINE v == values[Len(got) + 1]
             f == FieldBytes(Kind, v)
  <2>1. /\ InStep /\ v \in Values(Kind) /\ Len(got) + 1 = Len(layout)
        /\ f \in Seq(Byte) /\ Len(f) \in Nat
        /\ \A i \in 1 .. Len(f) : At(pos + i) = f[i]
        /\ pos + Len(f) = Len(EncodedTo(layout, values)[Len(got) + 1])
        /\ Len(got) + 1 <= Len(values)
        /\ total = pos + Len(f)
        /\ offset = arrays[1].len + ElementsTo(layout, values)[Len(got)]
    BY <1>1, <1>7, PeerReads
  <2>2. f = v
    BY <1>1 DEF FieldBytes, Arrays
  <2>3. UNCHANGED <<layout, values, total>>
    BY <1>1 DEF packet
  <2>4. ASSUME Len(v) = 1 PROVE InStep'
    <3>1. Bytes(pos, Len(f)) = f
      <4> HIDE DEF f, v
      <4> QED BY <1>2, <2>1, ReadsBytes
    <3>2. value = v
      BY <2>2, <2>4, <3>1
    <3>3. pos' = Len(EncodedTo(layout, values)[Len(got) + 1])
      BY <1>1, <2>1, <2>2, <2>4
    <3> HIDE DEF value, f
    <3> QED BY <1>1, <1>3, <2>1, <2>3, <3>2, <3>3, StepInStep
  <2>5. ASSUME Len(v) # 1 PROVE OutOfStep'
    <3>1. Len(got') = Len(got) + 1 /\ Len(got) \in Nat
      <4> HIDE DEF value
      <4> QED BY <1>1, <1>3, GotAppend
    <3>2. layout[Len(got) + 1] = "option"
      BY <1>1 DEF Kind
    <3>3. layout'[Len(got')] = "option" /\ Len(values'[Len(got')]) # 1 /\ Len(got') >= 1
      BY <2>3, <2>5, <3>1, <3>2
    <3>4. pos' # total'
      <4>1. Len(f) # 1
        BY <2>2, <2>5
      <4>2. total' = pos + Len(f) /\ Len(f) \in Nat
        BY <2>1, <2>3
      <4>3. pos' = pos + 1 /\ pos \in Nat
        BY <1>1, <1>2
      <4> DEFINE m == Len(f)
      <4>4. m # 1 /\ m \in Nat /\ total' = pos + m
        BY <4>1, <4>2
      <4> HIDE DEF m
      <4>5. pos + 1 # pos + m
        BY <4>3, <4>4
      <4> QED BY ONLY <4>3, <4>4, <4>5
    <3> QED BY <3>3, <3>4 DEF OutOfStep
  <2>6. InStep' \/ OutOfStep'
    BY <2>4, <2>5
  <2>7. offset' = arrays[1].len + ElementsTo(layout, values)[Len(got) + 1]
    <3>1. ElementsTo(layout, values)[Len(got) + 1] = ElementsTo(layout, values)[Len(got)] + 0
          /\ ElementsTo(layout, values)[Len(got)] \in Nat
      BY <1>1, <1>7, <2>1, ElementsNext DEF Arrays
    <3>2. offset' = offset
      BY <1>1 DEF arena
    <3> QED BY <2>1, <3>1, <3>2
  <2>8. negative' = {}
    <3>1. negative = {}
      BY <1>7 DEF IInv, PeerInv
    <3> QED BY <1>1, <3>1 DEF arena
  <2> QED BY <2>6, <2>7, <2>8 DEF GotOne
<1> HIDE DEF value
<1> QED BY <1>4, <1>5, <1>6, <1>7, TakeInv

\* A length that is no less than zero appends an extent behind the others.
LEMMA ArenaMoves ==
  ASSUME IInv, NEW len \in Int, Room(len), Allocate(len), Kind \in Arrays,
         negative' = IF len < 0 THEN negative \cup {Kind} ELSE negative
  PROVE  ArenaOK
<1> DEFINE e == [at |-> offset, len |-> Copied(len)]
           as == arrays
           bs == Append(as, e)
           n == Len(as)
<1>1. offset \in Nat /\ offset <= ArenaSize /\ ArenaSize \in Nat
  BY Typing
<1>2. as \in Seq(Extent) /\ as # <<>> /\ negative \subseteq Arrays
  BY DEF IInv, SequencesInv, TypeOK
<1>3. Copied(len) \in Nat /\ (len >= 0 => Copied(len) = len)
  BY DEF Copied
<1>4. e \in Extent /\ e.at = offset /\ e.len = Copied(len)
  BY <1>1, <1>3 DEF Extent
<1>5. offset' = offset + len /\ offset' \in 0 .. ArenaSize /\ arrays' = bs
  BY DEF Allocate, Room
<1>6. n \in Nat /\ n >= 1
  <2>1. n \in Nat /\ n # 0
    BY <1>2, LenProperties, EmptySeq
  <2> QED BY <2>1
<1> HIDE DEF e
<1>7. /\ bs \in Seq(Extent) /\ Len(bs) = n + 1 /\ bs[n + 1] = e
      /\ \A i \in 1 .. n : bs[i] = as[i]
  <2> HIDE DEF as
  <2> QED BY <1>2, <1>4, AppendProperties
<1> HIDE DEF bs, as, n
<1>8. bs # <<>> /\ bs[1] = as[1]
  <2>1. bs[1] = as[1]
    <3>1. 1 \in 1 .. n
      BY <1>6
    <3> QED BY <1>7, <3>1
  <2>2. Len(bs) # 0
    BY <1>6, <1>7
  <2>3. Len(<<>>) = 0
    BY EmptySeq
  <2> QED BY <2>1, <2>2, <2>3
<1>9. ArenaInv'
  <2> SUFFICES ASSUME negative' = {}
      PROVE  /\ \A i \in 1 .. n + 1 : bs[i].at + bs[i].len <= offset'
             /\ \A i, j \in 1 .. n + 1 : i < j => bs[i].at + bs[i].len <= bs[j].at
    BY <1>5, <1>7 DEF ArenaInv
  <2>1. len >= 0 /\ negative = {}
    OBVIOUS
  <2>2. /\ \A i \in 1 .. n : as[i].at + as[i].len <= offset
        /\ \A i, j \in 1 .. n : i < j => as[i].at + as[i].len <= as[j].at
    BY <2>1 DEF IInv, ArenaInv, as, n
  <2>3. \A i \in 1 .. n : as[i].at \in Nat /\ as[i].len \in Nat
    <3> TAKE i \in 1 .. n
    <3>1. as[i] \in Extent
      BY <1>2, ElementOfSeq DEF n
    <3> DEFINE x == as[i]
    <3> HIDE DEF x
    <3>2. x \in Extent
      BY <3>1 DEF x
    <3>3. x.at \in 0 .. ArenaSize /\ x.len \in Nat
      BY <3>2 DEF Extent
    <3>4. x.at \in Nat
      BY <1>1, <3>3
    <3> QED BY <3>3, <3>4 DEF x
  <2>4. \A i \in 1 .. n + 1 : i \in 1 .. n \/ i = n + 1
    BY <1>6
  <2>5. e.at + e.len = offset' /\ offset <= offset' /\ offset' \in Int
    BY <1>1, <1>3, <1>4, <1>5, <2>1
  <2>6. ASSUME NEW i \in 1 .. n + 1 PROVE bs[i].at + bs[i].len <= offset'
    <3>1. CASE i \in 1 .. n
      <4> DEFINE x == as[i]
      <4>1. bs[i] = x /\ x.at + x.len <= offset /\ x.at \in Nat /\ x.len \in Nat
        BY <1>7, <2>2, <2>3, <3>1
      <4> HIDE DEF x
      <4>2. x.at + x.len <= offset'
        BY <1>1, <2>5, <4>1
      <4> QED BY <4>1, <4>2
    <3>2. CASE i = n + 1
      BY <1>7, <2>5, <3>2
    <3> QED BY <2>4, <3>1, <3>2
  <2>7. ASSUME NEW i \in 1 .. n + 1, NEW j \in 1 .. n + 1, i < j
        PROVE  bs[i].at + bs[i].len <= bs[j].at
    <3>1. i \in 1 .. n
      BY <1>6, <2>7
    <3>2. CASE j \in 1 .. n
      BY <1>7, <2>2, <2>7, <3>1, <3>2
    <3>3. CASE j = n + 1
      BY <1>4, <1>7, <2>2, <3>1, <3>3
    <3> QED BY <2>4, <3>2, <3>3
  <2> QED BY <2>6, <2>7
<1>10. negative' \subseteq Arrays
  BY <1>2
<1> QED BY <1>5, <1>7, <1>8, <1>9, <1>10 DEF ArenaOK, as

\* What a peer's array is.
LEMMA PeerArray ==
  ASSUME IInv, origin = "peer", pc = "read", Len(got) < Len(layout), Kind \in Arrays,
         NEW v, v = values[Len(got) + 1]
  PROVE  /\ v \in Seq(Byte) /\ Len(v) \in Nat
         /\ VarintLengths(pos, size) = {GroupsOf(Len(v))}
         /\ Varint(Bytes(pos, GroupsOf(Len(v)))) = Len(v)
         /\ GroupsOf(Len(v)) \in Nat /\ GroupsOf(Len(v)) >= 1
         /\ Bytes(pos + GroupsOf(Len(v)), Len(v)) = v
         /\ GroupsOf(Len(v)) + Len(v) <= size
         /\ pos + (GroupsOf(Len(v)) + Len(v)) = Len(EncodedTo(layout, values)[Len(got) + 1])
<1> DEFINE n == Len(v)
           k == GroupsOf(n)
           h == VarintBytes(n)
           f == FieldBytes(Kind, v)
<1>1. /\ v \in Values(Kind) /\ Len(f) <= size
      /\ \A i \in 1 .. Len(f) : At(pos + i) = f[i]
      /\ pos + Len(f) = Len(EncodedTo(layout, values)[Len(got) + 1])
      /\ pos \in Nat
  BY PeerReads
<1>2. size \in Int
  BY Typing
<1>3. v \in Seq(Byte) /\ n < Half
  BY <1>1, ValuesAssumption
<1>4. n \in Nat
  BY <1>3, LenProperties
<1>5. n \in Int32
  BY <1>3, <1>4, Widths DEF Int32
<1>6. f = h \o v
  BY DEF FieldBytes, Arrays
<1>7. h \in Seq(Byte) /\ Len(h) = k /\ k \in 1 .. MaxGroups
  <2>1. n \in Int
    BY <1>4
  <2> HIDE DEF n
  <2> QED BY <2>1, VarintBytesAre
<1>8. k \in Nat /\ k >= 1
  BY <1>7, Widths
<1> HIDE DEF n, k, h, f
<1>9. /\ Len(f) = k + n
      /\ \A i \in 1 .. k + n : f[i] = IF i <= k THEN h[i] ELSE v[i - k]
  <2>1. Len(v) = n
    BY DEF n
  <2> QED BY <1>3, <1>6, <1>7, <2>1, ConcatProperties
<1>10. \A i \in 1 .. k : At(pos + i) = h[i]
  <2> TAKE i \in 1 .. k
  <2>1. i \in 1 .. k + n /\ i <= k
    BY <1>4, <1>8
  <2> QED BY <1>1, <1>9, <2>1
<1>11. \A i \in 1 .. n : At((pos + k) + i) = v[i]
  <2> TAKE i \in 1 .. n
  <2> DEFINE m == k + i
  <2>1. m \in 1 .. k + n /\ ~(m <= k) /\ m - k = i /\ (pos + k) + i = pos + m
    BY <1>1, <1>4, <1>8
  <2> HIDE DEF m
  <2>2. f[m] = v[i]
    BY <1>9, <2>1
  <2>3. At(pos + m) = f[m]
    BY <1>1, <1>9, <2>1
  <2> QED BY <2>1, <2>2, <2>3
<1>12. k <= size /\ k + n <= size
  BY <1>1, <1>2, <1>4, <1>8, <1>9
<1>13. VarintLengths(pos, size) = {GroupsOf(n)} /\ Varint(Bytes(pos, GroupsOf(n))) = n
  <2>1. GroupsOf(n) <= size /\ \A i \in 1 .. GroupsOf(n) : At(pos + i) = VarintBytes(n)[i]
    BY <1>10, <1>12 DEF k, h
  <2> QED BY <1>1, <1>2, <1>5, <2>1, ReadsVarint
<1>14. Bytes(pos + k, n) = v
  <2> DEFINE p == pos + k
  <2>1. p \in Nat
    BY <1>1, <1>8
  <2>2. \A i \in 1 .. Len(v) : At(p + i) = v[i]
    BY <1>11 DEF n
  <2> HIDE DEF p
  <2>3. Bytes(p, Len(v)) = v
    BY <1>3, <2>1, <2>2, ReadsBytes
  <2> QED BY <2>3 DEF p, n
<1>15. pos + (k + n) = Len(EncodedTo(layout, values)[Len(got) + 1])
  BY <1>1, <1>9
<1> QED BY <1>3, <1>4, <1>8, <1>12, <1>13, <1>14, <1>15 DEF n, k

LEMMA ReadArrayInv ==
  ASSUME IInv, ReadArray
  PROVE  IInv'
<1>1. pc = "read" /\ Len(got) < Len(layout) /\ Kind \in Arrays /\ UNCHANGED packet
  BY DEF ReadArray, Reads
<1>2. PICK k \in VarintLengths(pos, size) :
        LET len == Varint(Bytes(pos, k)) IN
        /\ len <= size - k
        /\ Room(len)
        /\ Allocate(len)
        /\ negative' = IF len < 0 THEN negative \cup {Kind} ELSE negative
        /\ IF Kind = "string" /\ k + len < 0
           THEN pc' = "rejected" /\ UNCHANGED <<got, pos, size>>
           ELSE /\ Take(Bytes(pos + k, Copied(len)),
                        IF Kind = "string" THEN k + len ELSE k + Copied(len), LeftOfSize(k, len))
                /\ UNCHANGED pc
  BY DEF ReadArray
<1> DEFINE len == Varint(Bytes(pos, k))
           value == Bytes(pos + k, Copied(len))
           by == IF Kind = "string" THEN k + len ELSE k + Copied(len)
<1>3. /\ len <= size - k /\ Room(len) /\ Allocate(len)
      /\ negative' = IF len < 0 THEN negative \cup {Kind} ELSE negative
      /\ Kind = "string" /\ k + len < 0 => pc' = "rejected" /\ UNCHANGED <<got, pos, size>>
      /\ ~(Kind = "string" /\ k + len < 0) =>
           /\ got' = Append(got, value) /\ pos' = pos + by /\ size' = size - (k + len)
           /\ pc' = pc
  BY <1>2 DEF Take, LeftOfSize
<1>4. origin # "ours" /\ pos \in Nat /\ size \in Int /\ total \in Nat
  BY <1>1, Typing DEF IInv, PhaseInv, ReadInv
<1>5. k \in Nat /\ k >= 1 /\ k <= size
  BY <1>4, Widths DEF VarintLengths
<1>6. len \in Int
  <2>1. Bytes(pos, k) \in [1 .. k -> Byte]
    BY <1>4, <1>5, BytesAre
  <2>2. Varint(Bytes(pos, k)) \in Int32
    BY <1>5, <2>1, VarintIn
  <2> QED BY <2>2, SignedOfWord
<1> DEFINE v == values[Len(got) + 1]
<1>7. ASSUME origin = "peer"
      PROVE  /\ len = Len(v) /\ len >= 0 /\ value = v
             /\ pos + (k + len) = Len(EncodedTo(layout, values)[Len(got) + 1])
  <2> DEFINE m == GroupsOf(Len(v))
  <2>1. /\ Len(v) \in Nat
        /\ VarintLengths(pos, size) = {m}
        /\ Varint(Bytes(pos, m)) = Len(v)
        /\ Bytes(pos + m, Len(v)) = v
        /\ pos + (m + Len(v)) = Len(EncodedTo(layout, values)[Len(got) + 1])
    <3> HIDE DEF v
    <3>1. v = values[Len(got) + 1]
      BY DEF v
    <3> QED BY <1>1, <1>7, <3>1, PeerArray
  <2> HIDE DEF m
  <2>2. k = m
    BY <2>1
  <2>3. len = Len(v) /\ len >= 0
    BY <2>1, <2>2
  <2>4. Copied(len) = Len(v)
    BY <2>1, <2>3 DEF Copied
  <2>5. value = v
    BY <2>1, <2>2, <2>4
  <2> QED BY <2>1, <2>2, <2>3, <2>5
<1> HIDE DEF len
<1>8. ArenaOK
  BY <1>1, <1>3, <1>6, ArenaMoves
<1>9. Copied(len) \in Nat /\ (len >= 0 => Copied(len) = len)
  BY <1>6 DEF Copied
<1>10. CASE Kind = "string" /\ k + len < 0
  <2>1. pc' = "rejected" /\ UNCHANGED <<got, pos, size>>
        /\ UNCHANGED <<origin, layout, values, data, total, left>>
    BY <1>1, <1>3, <1>10 DEF packet
  <2>2. origin # "peer"
    BY <1>5, <1>6, <1>7, <1>10
  <2>3. "buffer" \notin negative' => "buffer" \notin negative
    BY <1>3
  <2>4. TypeOK'
    <3>1. offset' \in 0 .. ArenaSize /\ negative' \subseteq Arrays
      BY <1>8 DEF ArenaOK
    <3>2. \A i \in DOMAIN arrays' : arrays'[i].at \in 0 .. ArenaSize
      BY <1>8, AtsAre DEF ArenaOK
    <3>3. /\ origin \in {"ours", "peer", "bytes"}
          /\ layout \in Seq(Kinds) /\ data \in Seq(Byte) /\ Len(values) <= Len(layout)
          /\ Len(got) <= Len(layout) /\ total \in Nat /\ left \in Int
          /\ pos \in Int /\ size \in Int
      BY DEF IInv, TypeOK
    <3> QED BY <2>1, <3>1, <3>2, <3>3 DEF TypeOK
  <2>5. SequencesInv'
    BY <1>8, <2>1 DEF IInv, SequencesInv, ArenaOK
  <2>6. LayoutInv' /\ PhaseInv' /\ WriteInv'
    BY <1>4, <2>1 DEF IInv, LayoutInv, PhaseInv, WriteInv
  <2>7. ReadInv'
    <3>1. pos >= 0 /\ ("buffer" \notin negative => size >= 0 /\ pos + size = total)
      BY <1>1, <1>4 DEF IInv, ReadInv
    <3> QED BY <2>1, <2>3, <3>1 DEF ReadInv
  <2>8. PeerInv'
    BY <2>1, <2>2 DEF PeerInv
  <2>9. ArenaInv'
    BY <1>8 DEF ArenaOK
  <2> QED BY <2>4, <2>5, <2>6, <2>7, <2>8, <2>9 DEF IInv
<1>11. CASE ~(Kind = "string" /\ k + len < 0)
  <2>1. got' = Append(got, value) /\ pos' = pos + by /\ size' = size - (k + len) /\ pc' = pc
    BY <1>3, <1>11
  <2>2. value \in Result
    <3>1. pos + k \in Nat
      BY <1>4, <1>5
    <3>2. Bytes(pos + k, Copied(len)) \in Seq(Byte)
      BY <1>9, <3>1, BytesAre
    <3> QED BY <3>2 DEF Result
  <2>3. by \in Int /\ by >= 0 /\ (Kind = "string" \/ len >= 0 => by = k + len)
    BY <1>5, <1>6, <1>9, <1>11
  <2> HIDE DEF by, value
  <2>4. CursorOK
    <3>1. pos' \in Int /\ size' \in Int /\ pos' >= 0
      BY <1>4, <1>5, <1>6, <2>1, <2>3
    <3>2. ASSUME "buffer" \notin negative' PROVE size' >= 0 /\ pos' + size' = total
      <4>1. "buffer" \notin negative
        BY <1>3, <3>2
      <4>2. pos + size = total
        BY <1>1, <1>4, <4>1 DEF IInv, ReadInv
      <4>3. Kind = "string" \/ len >= 0
        BY <1>1, <1>3, <1>6, <3>2 DEF Arrays
      <4> QED BY <1>3, <1>4, <1>5, <1>6, <2>1, <2>3, <4>2, <4>3
    <3> QED BY <3>1, <3>2 DEF CursorOK
  <2>5. TakesOne(value)
    BY <1>1, <2>1, <2>2 DEF TakesOne
  <2>6. ASSUME origin = "peer" PROVE GotOne
    <3>1. /\ len = Len(v) /\ len >= 0 /\ value = v
          /\ pos + (k + len) = Len(EncodedTo(layout, values)[Len(got) + 1])
      BY <1>7, <2>6
    <3>2. InStep /\ Len(got) + 1 <= Len(values)
          /\ offset = arrays[1].len + ElementsTo(layout, values)[Len(got)]
      <4> DEFINE f == FieldBytes(Kind, v)
      <4> QED BY <1>1, <2>6, PeerReads
    <3>3. pos' = Len(EncodedTo(layout, values)[Len(got) + 1])
      BY <2>1, <2>3, <3>1
    <3>4. InStep'
      <4>1. UNCHANGED <<layout, values>>
        BY <1>1 DEF packet
      <4>2. value = values[Len(got) + 1]
        BY <3>1
      <4> QED BY <2>1, <2>2, <3>2, <3>3, <4>1, <4>2, StepInStep
    <3>5. offset' = arrays[1].len + ElementsTo(layout, values)[Len(got) + 1]
      <4> DEFINE y == ElementsTo(layout, values)[Len(got)]
                 z == ElementsTo(layout, values)[Len(got) + 1]
      <4>1. z = y + Len(v) /\ y \in Nat
        BY <1>1, <2>6, <3>2, ElementsNext
      <4>2. offset' = offset + len
        BY <1>3 DEF Allocate
      <4>3. arrays[1].len \in Int
        <5>1. arrays \in Seq(Extent) /\ arrays # <<>>
          BY DEF IInv, SequencesInv
        <5>2. 1 \in 1 .. Len(arrays)
          BY <5>1, LenProperties, EmptySeq
        <5>3. arrays[1] \in Extent
          BY <5>1, <5>2, ElementOfSeq
        <5> QED BY <5>3 DEF Extent
      <4>4. offset = arrays[1].len + y
        BY <3>2
      <4>5. len \in Int
        BY <1>6
      <4>6. z = y + len
        BY <3>1, <4>1
      <4> HIDE DEF y, z
      <4>7. offset' = arrays[1].len + z
        BY <4>1, <4>2, <4>3, <4>4, <4>5, <4>6
      <4> QED BY <4>7 DEF z
    <3>6. negative' = {}
      <4>1. negative = {}
        BY <2>6 DEF IInv, PeerInv
      <4> QED BY <1>3, <1>6, <3>1, <4>1
    <3> QED BY <3>4, <3>5, <3>6 DEF GotOne
  <2> QED BY <1>8, <2>4, <2>5, <2>6, TakeInv
<1> QED BY <1>10, <1>11

LEMMA ComposeInv ==
  ASSUME IInv, Compose
  PROVE  IInv'
<1> DEFINE n == Len(values)
           v(w) == FieldBytes(layout[n + 1], w)
<1>1. pc = "compose" /\ origin = "peer"
      /\ UNCHANGED <<origin, layout, left, pos, got, offset, arrays, negative>>
  BY DEF Compose, IInv, PhaseInv, arena
<1>2. /\ IsTyped(layout, values) /\ n \in Nat /\ Len(layout) \in Nat /\ n <= Len(layout)
      /\ layout \in Seq(Kinds) /\ data \in Seq(Byte) /\ Len(data) \in Nat /\ total \in Nat
      /\ size \in Int
  BY Typing
<1>3. /\ data = Encode(layout, values) /\ negative = {} /\ got = <<>> /\ pos = 0
      /\ offset = arrays[1].len
  BY <1>1 DEF IInv, PeerInv
<1>4. ASSUME IsTyped(layout, values'), data' = Encode(layout, values'), data' \in Seq(Byte),
             total' \in Nat, size' \in Int,
             pc' = "compose" \/ pc' = "read",
             pc' = "read" => Len(values') = Len(layout) /\ total' = Len(data') /\ size' = total'
      PROVE  IInv'
  <2>1. TypeOK'
    <3>1. /\ origin \in {"ours", "peer", "bytes"} /\ Len(got) <= Len(layout) /\ left \in Int
          /\ pos \in Int /\ offset \in 0 .. ArenaSize
          /\ \A i \in DOMAIN arrays : arrays[i].at \in 0 .. ArenaSize
          /\ negative \subseteq Arrays
      BY DEF IInv, TypeOK
    <3>2. Len(values') <= Len(layout)
      BY <1>4 DEF IsTyped
    <3> QED BY <1>1, <1>2, <1>4, <3>1, <3>2 DEF TypeOK
  <2>2. SequencesInv'
    BY <1>1, <1>4 DEF IInv, SequencesInv, IsTyped
  <2>3. LayoutInv'
    BY <1>1, <1>4 DEF IInv, LayoutInv, IsTyped
  <2>4. PhaseInv' /\ WriteInv'
    <3>1. origin' = "peer" /\ (pc' = "compose" \/ pc' = "read")
      BY <1>1, <1>4
    <3>2. PhaseInv'
      BY <3>1 DEF PhaseInv
    <3>3. WriteInv'
      BY <3>1 DEF WriteInv
    <3> QED BY <3>2, <3>3
  <2>5. ReadInv'
    <3>1. pos' = 0 /\ pc' # "accepted"
      BY <1>1, <1>3, <1>4
    <3>2. pc' # "compose" => size' \in Nat /\ size' = total'
      BY <1>4
    <3>3. pos' >= 0 /\ (pc' # "compose" => size' >= 0 /\ pos' + size' = total')
      BY <3>1, <3>2
    <3> QED BY <3>1, <3>3 DEF ReadInv
  <2>6. ArenaInv'
    BY <1>1 DEF IInv, ArenaInv
  <2>7. PeerInv'
    <3>1. InStep' /\ Len(got') = 0
      <4>1. got' = <<>> /\ Len(got') = 0
        BY <1>1, <1>3
      <4>2. EncodedTo(layout, values')[0] = <<>>
        BY <1>4, EncodedIs
      <4> QED BY <1>1, <1>3, <4>1, <4>2 DEF InStep
    <3>2. offset' = arrays'[1].len + ElementsTo(layout', values')[Len(got')]
      <4>1. ElementsTo(layout, values')[0] = 0
        BY <1>4, ElementsIs
      <4>2. offset' = arrays'[1].len /\ layout' = layout /\ offset' \in Int
        BY <1>1, <1>3, Typing
      <4> QED BY <3>1, <4>1, <4>2
    <3>3. data' = Encode(layout', values') /\ negative' = {} /\ got' = <<>> /\ pos' = 0
          /\ offset' = arrays'[1].len
      BY <1>1, <1>3, <1>4
    <3>4. pc' # "rejected"
      BY <1>4
    <3>5. pc' # "compose" => Len(values') = Len(layout') /\ total' = Len(data')
      BY <1>1, <1>4
    <3> QED BY <3>1, <3>2, <3>3, <3>4, <3>5 DEF PeerInv
  <2> QED BY <2>1, <2>2, <2>3, <2>4, <2>5, <2>6, <2>7 DEF IInv
<1>5. CASE n < Len(layout)
  <2>1. PICK w \in Values(layout[n + 1]) :
          /\ values' = Append(values, w) /\ data' = data \o FieldBytes(layout[n + 1], w)
    BY <1>5 DEF Compose
  <2>2. pc' = pc /\ size' = size /\ total' = total
    BY <1>5 DEF Compose
  <2>3. IsTyped(layout, Append(values, w))
    BY <1>2, <1>5, AppendTyped
  <2>4. Encode(layout, Append(values, w)) = Encode(layout, values) \o FieldBytes(layout[n + 1], w)
    BY <1>2, <1>5, EncodeAppend
  <2>5. FieldBytes(layout[n + 1], w) \in Seq(Byte)
    <3>1. n + 1 \in 1 .. Len(layout)
      BY <1>2, <1>5
    <3>2. layout[n + 1] \in Kinds
      BY <1>2, <3>1, ElementOfSeq
    <3> QED BY <3>2, FieldBytesAre
  <2>6. data \o FieldBytes(layout[n + 1], w) \in Seq(Byte)
    BY <1>2, <2>5, ConcatProperties
  <2> QED BY <1>1, <1>2, <1>3, <1>4, <2>1, <2>2, <2>3, <2>4, <2>6
<1>6. CASE ~(n < Len(layout))
  <2>1. pc' = "read" /\ size' = Len(data) /\ total' = Len(data) /\ values' = values /\ data' = data
    BY <1>6 DEF Compose
  <2>2. n = Len(layout)
    BY <1>2, <1>6
  <2> QED BY <1>2, <1>3, <1>4, <2>1, <2>2
<1> QED BY <1>5, <1>6

\* A packet for which the arena has room is not refused.
LEMMA FairIsReadable ==
  ASSUME IInv, origin = "peer", pc = "read", Len(got) < Len(layout), Fair
  PROVE  Readable
<1> DEFINE j == Len(got)
           v == values[j + 1]
           f == FieldBytes(Kind, v)
<1>1. /\ Kind \in Kinds /\ v \in Values(Kind) /\ Kind # "rest"
      /\ f \in Seq(Byte) /\ Len(f) \in Nat /\ Len(f) <= size
      /\ \A i \in 1 .. Len(f) : At(pos + i) = f[i]
      /\ j + 1 <= Len(values) /\ pos \in Nat
      /\ offset = arrays[1].len + ElementsTo(layout, values)[j]
  BY PeerReads
<1>2. /\ size \in Int /\ Len(values) \in Nat /\ j \in Nat /\ IsTyped(layout, values)
      /\ ArenaSize \in Nat /\ offset \in Nat
  BY Typing
<1>3. CASE Kind \in {"be", "raw"}
  <2>1. Len(f) = FixedLength
    <3>1. CASE Kind = "be"
      <4>1. f = BigEndian(v)
        BY <3>1 DEF FieldBytes, Arrays
      <4>2. Power(Base)[FixedLength] \in Nat
        BY Widths, PowerIs
      <4>3. v \in Int
        BY <1>1, <3>1, <4>2, ValuesAssumption
      <4> QED BY <4>1, <4>3, BigEndianAre
    <3>2. CASE Kind = "raw"
      <4>1. f = v
        BY <3>2 DEF FieldBytes, Arrays
      <4>2. v \in [1 .. FixedLength -> Byte]
        BY <1>1, <3>2, ValuesAssumption
      <4> QED BY <4>1, <4>2, Widths, FunctionIsSeq
    <3> QED BY <1>3, <3>1, <3>2
  <2>2. size >= FixedLength
    BY <1>1, <2>1
  <2>3. CASE Kind = "be"
    BY <2>2, <2>3 DEF Readable, Arrays
  <2>4. CASE Kind = "raw"
    BY <2>2, <2>4 DEF Readable, Arrays
  <2> QED BY <1>3, <2>3, <2>4
<1>4. CASE Kind = "option"
  <2>1. f = v
    BY <1>4 DEF FieldBytes, Arrays
  <2>2. j + 1 \in DOMAIN values /\ layout[j + 1] = "option"
    <3>1. j + 1 \in 1 .. Len(values)
      BY <1>1, <1>2
    <3>2. values \in Seq(AnyValue)
      BY <1>2 DEF IsTyped
    <3>3. DOMAIN values = 1 .. Len(values)
      BY <3>2, LenProperties
    <3> QED BY <1>4, <3>1, <3>3 DEF Kind
  <2>3. Len(v) = 1
    BY <2>2 DEF Fair
  <2>4. size >= 1
    BY <1>1, <1>2, <2>1, <2>3
  <2> QED BY <1>4, <2>4 DEF Readable, Arrays
<1>5. CASE Kind = "varint"
  <2>1. v \in Int32 /\ v \in Int
    BY <1>1, <1>5, ValuesAssumption, SignedOfWord
  <2>2. f = VarintBytes(v)
    BY <1>5 DEF FieldBytes, Arrays
  <2>3. Len(f) = GroupsOf(v)
    BY <2>1, <2>2, VarintBytesAre
  <2> HIDE DEF v
  <2>4. VarintLengths(pos, size) = {GroupsOf(v)}
    BY <1>1, <1>2, <2>1, <2>2, <2>3, ReadsVarint
  <2> QED BY <1>5, <2>4 DEF Readable, Arrays
<1>6. CASE Kind \in Arrays
  <2> DEFINE k == GroupsOf(Len(v))
             len == Varint(Bytes(pos, k))
  <2>1. /\ Len(v) \in Nat /\ VarintLengths(pos, size) = {k} /\ len = Len(v)
        /\ k \in Nat /\ k + Len(v) <= size
    <3> HIDE DEF v
    <3>1. v = values[Len(got) + 1]
      BY DEF v
    <3> QED BY <1>6, <3>1, PeerArray
  <2> HIDE DEF k
  <2>2. len <= size - k
    BY <1>2, <2>1
  <2>3. Room(len)
    <3> DEFINE y == ElementsTo(layout, values)[j]
               z == ElementsTo(layout, values)[j + 1]
               a == ElementsOf(layout, values)
               b == arrays[1].len
    <3>1. z = y + Len(v) /\ y \in Nat
      BY <1>1, <1>6, ElementsNext
    <3>2. z <= a /\ a \in Nat
      <4> DEFINE m == j + 1
      <4>1. m \in 0 .. Len(values)
        BY <1>1, <1>2
      <4> HIDE DEF m
      <4>2. ElementsTo(layout, values)[m] <= a /\ a \in Nat
        BY <1>2, <4>1, ElementsGrow
      <4> QED BY <4>2 DEF m
    <3>3. b + a <= ArenaSize
      BY DEF Fair
    <3>4. b \in Nat
      <4>1. arrays \in Seq(Extent) /\ arrays # <<>>
        BY DEF IInv, SequencesInv
      <4>2. 1 \in 1 .. Len(arrays)
        BY <4>1, LenProperties, EmptySeq
      <4>3. arrays[1] \in Extent
        BY <4>1, <4>2, ElementOfSeq
      <4> QED BY <4>3 DEF Extent
    <3>5. offset = b + y
      BY <1>1
    <3> DEFINE l == Len(v)
    <3>6. z = y + l /\ l \in Nat /\ len = l
      BY <2>1, <3>1
    <3> HIDE DEF y, z, a, b, l, len
    <3>7. offset + len \in 0 .. ArenaSize
      BY <1>2, <3>1, <3>2, <3>3, <3>4, <3>5, <3>6
    <3> QED BY <3>7 DEF Room
  <2>4. \E i \in VarintLengths(pos, size) :
          LET c == Varint(Bytes(pos, i)) IN c <= size - i /\ Room(c)
    <3>1. k \in VarintLengths(pos, size)
      BY <2>1
    <3> QED BY <2>2, <2>3, <3>1
  <2> QED BY <1>6, <2>4 DEF Readable, Arrays
<1> QED BY <1>1, <1>3, <1>4, <1>5, <1>6 DEF Kinds, Arrays

\* A verdict on a packet.
LEMMA EndInv ==
  ASSUME IInv, pc = "read", pc' \in {"accepted", "rejected"},
         UNCHANGED <<packet, size, pos, got, arena>>,
         pc' = "accepted" => size = 0 /\ Len(got) = Len(layout),
         origin = "peer" /\ Fair => pc' # "rejected"
  PROVE  IInv'
<1>1. UNCHANGED <<origin, layout, values, data, total, left, size, pos, got,
                  offset, arrays, negative>>
  BY DEF packet, arena
<1>2. TypeOK'
  BY <1>1 DEF IInv, TypeOK
<1>3. SequencesInv' /\ LayoutInv'
  BY <1>1 DEF IInv, SequencesInv, LayoutInv
<1>4. PhaseInv' /\ WriteInv'
  BY <1>1 DEF IInv, PhaseInv, WriteInv
<1>5. ReadInv'
  BY <1>1 DEF IInv, ReadInv
<1>6. ArenaInv'
  BY <1>1 DEF IInv, ArenaInv
<1>7. PeerInv'
  <2>1. InStep \/ OutOfStep => InStep' \/ OutOfStep'
    BY <1>1 DEF InStep, OutOfStep
  <2>2. Fair' => Fair
    BY <1>1 DEF Fair
  <2> QED BY <1>1, <2>1, <2>2 DEF IInv, PeerInv
<1> QED BY <1>2, <1>3, <1>4, <1>5, <1>6, <1>7 DEF IInv

LEMMA RejectInv ==
  ASSUME IInv, Reject
  PROVE  IInv'
<1>1. pc = "read" /\ Len(got) < Len(layout) /\ ~Readable /\ pc' = "rejected"
      /\ UNCHANGED <<packet, size, pos, got, arena>>
  BY DEF Reject, Reads
<1>2. ~(origin = "peer" /\ Fair)
  BY <1>1, FairIsReadable
<1> QED BY <1>1, <1>2, EndInv

LEMMA FinishInv ==
  ASSUME IInv, Finish
  PROVE  IInv'
<1>1. pc = "read" /\ Len(got) = Len(layout)
      /\ pc' = Verdict /\ UNCHANGED <<packet, size, pos, got, arena>>
  BY DEF Finish
<1>3. pc' \in {"accepted", "rejected"} /\ (pc' = "accepted" <=> size = 0)
  BY <1>1 DEF Verdict
<1>2. ASSUME origin = "peer", Fair PROVE size = 0
  <2>1. /\ data = Encode(layout, values) /\ negative = {}
        /\ Len(values) = Len(layout) /\ total = Len(data) /\ (InStep \/ OutOfStep)
    BY <1>1, <1>2 DEF IInv, PeerInv
  <2>2. /\ IsTyped(layout, values) /\ size \in Int /\ pos \in Int /\ total \in Nat
        /\ Len(values) \in Nat
    BY Typing
  <2>3. pos + size = total
    BY <1>1, <1>2, <2>1 DEF IInv, ReadInv
  <2>4. ~OutOfStep
    <3> SUFFICES ASSUME OutOfStep PROVE FALSE
      OBVIOUS
    <3>1. Len(got) >= 1 /\ layout[Len(got)] = "option" /\ Len(values[Len(got)]) # 1
      BY DEF OutOfStep
    <3>2. Len(got) \in DOMAIN values
      <4>1. Len(got) \in 1 .. Len(values)
        <5>1. Len(got) \in Nat /\ Len(got) = Len(values)
          BY <1>1, <2>1, Typing
        <5> QED BY <2>2, <3>1, <5>1
      <4>2. values \in Seq(AnyValue)
        BY <2>2 DEF IsTyped
      <4>3. DOMAIN values = 1 .. Len(values)
        BY <4>2, LenProperties
      <4> QED BY <4>1, <4>3
    <3> QED BY <1>2, <3>1, <3>2 DEF Fair
  <2>5. pos = Len(EncodedTo(layout, values)[Len(values)])
    BY <1>1, <2>1, <2>4 DEF InStep
  <2>6. data = EncodedTo(layout, values)[Len(values)]
    BY <2>1, <2>2, EncodedIs
  <2>7. pos = total
    BY <2>1, <2>5, <2>6
  <2> QED BY ONLY <2>2, <2>3, <2>7
<1>4. origin = "peer" /\ Fair => pc' # "rejected"
  BY <1>2, <1>3
<1> QED BY <1>1, <1>3, <1>4, EndInv

-----------------------------------------------------------------------------
LEMMA InitInv ==
  ASSUME Init
  PROVE  IInv
<1>1. /\ values = <<>> /\ pos = 0 /\ left = 0 /\ got = <<>> /\ negative = {}
      /\ offset \in 0 .. ArenaSize /\ ArenaSize \in Nat /\ Budget \in Nat /\ MaxData \in Nat
      /\ arrays = <<[at |-> 0, len |-> offset]>>
  BY CodecAssumption DEF Init
<1>2. /\ layout \in IF origin = "ours" THEN ToClient ELSE ToServer
      /\ layout \in Seq(Kinds)
  BY CodecAssumption DEF Init
<1>3. Len(values) = 0 /\ Len(got) = 0 /\ Len(layout) \in Nat
  BY <1>1, <1>2, LenProperties
<1>4. /\ data \in Seq(Byte) /\ total \in Nat /\ size \in Int
      /\ origin \in {"ours", "peer", "bytes"}
      /\ pc \in {"write", "compose", "read"}
  <2>1. CASE data = <<>>
    BY <1>1, <2>1, EmptySeq DEF Init
  <2>2. CASE data \in [1 .. MaxData -> Wire]
    <3>1. data \in [1 .. MaxData -> Byte]
      BY <2>2, CodecAssumption
    <3>2. data \in Seq(Byte)
      BY <1>1, <3>1, FunctionIsSeq
    <3> QED BY <1>1, <3>2 DEF Init
  <2> QED BY <2>1, <2>2 DEF Init
<1>5. arrays \in Seq(Extent) /\ Len(arrays) = 1 /\ arrays[1] = [at |-> 0, len |-> offset]
      /\ arrays # <<>>
  <2>1. [at |-> 0, len |-> offset] \in Extent
    BY <1>1 DEF Extent
  <2> QED BY <1>1, <2>1
<1>6. TypeOK
  <2>1. \A i \in DOMAIN arrays : arrays[i].at \in 0 .. ArenaSize
    BY <1>5, AtsAre
  <2> QED BY <1>1, <1>2, <1>3, <1>4, <2>1 DEF TypeOK
<1>7. SequencesInv
  BY <1>1, <1>5, EmptySeq DEF SequencesInv
<1>8. LayoutInv
  BY <1>2, <1>3 DEF LayoutInv
<1>9. PhaseInv
  BY DEF Init, PhaseInv
<1>10. Encode(layout, values) = <<>>
  <2>1. IsTyped(layout, values)
    <3>1. values \in Seq(AnyValue)
      BY <1>7 DEF SequencesInv
    <3>2. Len(values) <= Len(layout)
      BY <1>3
    <3>3. \A i \in 1 .. Len(values) : values[i] \in Values(layout[i])
      BY <1>3
    <3> QED BY <1>2, <3>1, <3>2, <3>3 DEF IsTyped
  <2>2. /\ Encode(layout, values) = EncodedTo(layout, values)[Len(values)]
        /\ EncodedTo(layout, values)[0] = <<>>
    BY ONLY <2>1, EncodedIs
  <2> QED BY ONLY <1>3, <2>2
<1>11. WriteInv
  <2> SUFFICES ASSUME origin = "ours" PROVE WriteInv
    BY DEF WriteInv
  <2>1. pc = "write" /\ data = <<>> /\ size = Budget
    BY DEF Init
  <2>2. Len(data) = 0
    BY <2>1
  <2> QED BY <1>1, <1>10, <2>1, <2>2 DEF WriteInv
<1>12. ReadInv
  BY <1>1 DEF Init, ReadInv
<1>13. ArenaInv
  <2>1. arrays[1].at + arrays[1].len <= offset
    BY <1>1, <1>5
  <2> QED BY <1>5, <2>1 DEF ArenaInv
<1>14. PeerInv
  <2>1. arrays[1].len = offset
    BY <1>5
  <2> QED BY <1>1, <1>10, <2>1 DEF Init, PeerInv
<1> QED BY <1>6, <1>7, <1>8, <1>9, <1>11, <1>12, <1>13, <1>14 DEF IInv

LEMMA NextInv ==
  ASSUME IInv, [Next]_vars
  PROVE  IInv'
<1>1. CASE UNCHANGED vars
  <2>1. UNCHANGED <<pc, origin, layout, values, data, total, size, pos, left, got,
                    offset, arrays, negative>>
    BY <1>1 DEF vars
  <2>2. TypeOK' /\ SequencesInv' /\ LayoutInv' /\ PhaseInv'
    BY <2>1 DEF IInv, TypeOK, SequencesInv, LayoutInv, PhaseInv
  <2>3. WriteInv'
    BY <2>1 DEF IInv, WriteInv, Meant, Before, Turns, WriteKind, Written
  <2>4. ReadInv' /\ ArenaInv'
    BY <2>1 DEF IInv, ReadInv, ArenaInv
  <2>5. PeerInv'
    BY <2>1 DEF IInv, PeerInv, InStep, OutOfStep, Fair
  <2> QED BY <2>2, <2>3, <2>4, <2>5 DEF IInv
<1> QED BY <1>1, WriteFieldInv, WriteByteInv, WriteElementsInv, ComposeInv, ReadVarintInv,
           ReadFixedInv, ReadOptionInv, ReadArrayInv, RejectInv, FinishInv DEF Next

\* The inductive invariant: what is written is the encoding of the fields up to
\* here, and what is read of a peer's packet is in step with its encoding.
THEOREM Invariance == Spec => []IInv
<1>1. Init => IInv
  BY InitInv
<1>2. IInv /\ [Next]_vars => IInv'
  BY NextInv
<1> QED BY <1>1, <1>2, PTL DEF Spec

\* A packet that was written whole is the encoding of its values, and within
\* the buffer, although the loop of a variable integer does not look at the size.
THEOREM WritesEncoding == Spec => []WrittenIsEncoding
<1>1. IInv => WrittenIsEncoding
  <2> SUFFICES ASSUME IInv, pc = "sent"
               PROVE  data = Encode(layout, values) /\ Len(data) <= Budget
    BY DEF WrittenIsEncoding
  <2>1. origin = "ours"
    BY DEF IInv, PhaseInv
  <2>2. data = Encode(layout, values) /\ size >= 0 /\ size = Budget - Len(data)
    BY <2>1 DEF IInv, WriteInv
  <2>3. Len(data) \in Nat /\ Budget \in Nat
    BY Typing
  <2> QED BY <2>2, <2>3
<1> QED BY <1>1, Invariance, PTL

\* Only a negative value is written further than one variable integer past the
\* buffer.
THEOREM RunsAwayForNegatives == Spec => []OnlyNegativesRunAway
<1>1. IInv => OnlyNegativesRunAway
  <2> SUFFICES ASSUME IInv, Len(data) > Budget + MaxGroups, origin = "ours" PROVE left < 0
    BY DEF OnlyNegativesRunAway
  <2>1. Len(data) \in Nat /\ Budget \in Nat /\ MaxGroups \in Nat /\ size \in Int
    BY Typing, Widths
  <2>2. size = Budget - Len(data)
    BY DEF IInv, WriteInv
  <2>3. pc \in {"write", "varint", "elements", "sent", "full", "crashed"}
    BY DEF IInv, PhaseInv
  <2>4. ~(pc \in {"write", "sent"}) /\ pc # "full"
    <3>1. pc \in {"write", "sent"} => size >= 0
      BY DEF IInv, WriteInv
    <3>2. pc = "full" => Len(data) <= Budget + MaxGroups
      BY DEF IInv, WriteInv
    <3> QED BY <2>1, <2>2, <3>1, <3>2
  <2>5. CASE pc = "varint"
    <3>1. Len(Before) \in Nat /\ Len(Before) <= Budget
      BY <2>5, Writing
    <3>2. Turns \in Nat /\ Turns > MaxGroups
      BY <2>1, <3>1 DEF Turns
    <3>3. left = Meant \div Power(More)[Turns] /\ left # 0
      <4>1. left = Meant \div Power(More)[Turns] /\ (Turns = 0 \/ left # 0)
        BY <2>5 DEF IInv, WriteInv
      <4> QED BY <2>1, <3>2, <4>1
    <3>4. Meant \in Int32
      BY <2>5, MeantIs
    <3>5. Turns >= MaxGroups
      BY <2>1, <3>2
    <3>6. Meant \div Power(More)[Turns] < 0
      BY <3>2, <3>3, <3>4, <3>5, NegativeIsLeft
    <3> QED BY <3>3, <3>6
  <2>6. CASE pc = "elements"
    <3>1. Before \in Seq(Byte) /\ Len(Before) \in Nat /\ Len(Before) <= Budget
          /\ Written \in Values(WriteKind)
      BY <2>6, Writing
    <3>2. WriteKind \in Arrays /\ data = Before \o VarintBytes(Len(Written))
      BY <2>6 DEF IInv, WriteInv
    <3> DEFINE n == Len(Written)
    <3>3. n \in Int
      BY <3>1, <3>2, ValuesAssumption, LenProperties
    <3> HIDE DEF n
    <3>4. VarintBytes(n) \in Seq(Byte) /\ Len(VarintBytes(n)) = GroupsOf(n)
          /\ GroupsOf(n) \in 1 .. MaxGroups
      BY <3>3, VarintBytesAre
    <3>5. Len(data) = Len(Before) + Len(VarintBytes(n))
      BY <3>1, <3>2, <3>4, ConcatProperties DEF n
    <3> QED BY <2>1, <3>1, <3>4, <3>5
  <2>7. CASE pc = "crashed"
    BY <2>7 DEF IInv, WriteInv
  <2> QED BY <2>3, <2>4, <2>5, <2>6, <2>7
<1> QED BY <1>1, Invariance, PTL

\* Cursor and size of the reader agree, and an accepted packet was read to its
\* last byte, unless a buffer came with a length below 0.
THEOREM ReadersAgree == Spec => []ReaderConsistent
<1>1. IInv => ReaderConsistent
  <2> SUFFICES ASSUME IInv PROVE ReaderConsistent
    OBVIOUS
  <2>1. TypeOK
    BY DEF IInv
  <2>2. CursorAgrees
    BY DEF IInv, ReadInv, CursorAgrees
  <2>3. NothingLeftOver
    <3> SUFFICES ASSUME pc = "accepted", "buffer" \notin negative PROVE pos = total
      BY DEF NothingLeftOver
    <3>1. origin # "ours"
      BY DEF IInv, PhaseInv
    <3>2. size = 0 /\ pos + size = total
      BY <3>1 DEF IInv, ReadInv
    <3> QED BY <3>2, Typing
  <2> QED BY <2>1, <2>2, <2>3 DEF ReaderConsistent
<1> QED BY <1>1, Invariance, PTL

\* What a peer encoded is read as what it meant, unless an option has a value
\* or the arena no room.
THEOREM ReadsWhatWasMeant == Spec => []Understood
<1>1. IInv => Understood
  <2> SUFFICES ASSUME IInv, origin = "peer"
               PROVE  (Fair => pc # "rejected") /\ (pc = "accepted" => got = values)
    BY DEF Understood
  <2>1. Fair => pc # "rejected"
    BY DEF IInv, PeerInv
  <2>2. ASSUME pc = "accepted" PROVE got = values
    <3>1. size = 0 /\ Len(got) = Len(layout)
      BY <2>2 DEF IInv, ReadInv
    <3>2. negative = {} /\ Len(values) = Len(layout) /\ (InStep \/ OutOfStep)
      BY <2>2 DEF IInv, PeerInv
    <3>3. pos + size = total /\ pos \in Int /\ total \in Nat
      BY <2>2, <3>2, Typing DEF IInv, ReadInv
    <3>4. pos = total
      BY <3>1, <3>3
    <3>5. \A i \in 1 .. Len(got) : got[i] = values[i]
      BY <3>2, <3>4 DEF InStep, OutOfStep
    <3>6. got \in Seq(Result) /\ values \in Seq(AnyValue)
      BY DEF IInv, SequencesInv
    <3>7. got \in Seq(Result \cup AnyValue) /\ values \in Seq(Result \cup AnyValue)
      <4>1. Result \subseteq Result \cup AnyValue /\ AnyValue \subseteq Result \cup AnyValue
        OBVIOUS
      <4> QED BY <3>6, <4>1, SeqMonotonic
    <3> QED BY <3>1, <3>2, <3>5, <3>7, SeqEqual
  <2> QED BY <2>1, <2>2
<1> QED BY <1>1, Invariance, PTL

\* The arrays of a packet lie behind one another in the arena as long as no
\* length is below 0.
THEOREM ArraysLieApart == Spec => []ArraysApart
<1>1. IInv => ArraysApart
  <2> SUFFICES ASSUME IInv, negative = {}
      PROVE  /\ \A i, j \in DOMAIN arrays : i < j => arrays[i].at + arrays[i].len <= arrays[j].at
             /\ \A i \in DOMAIN arrays : arrays[i].at + arrays[i].len <= ArenaSize
    BY DEF ArraysApart
  <2>1. arrays \in Seq(Extent)
    BY DEF IInv, SequencesInv
  <2>2. DOMAIN arrays = 1 .. Len(arrays)
    BY <2>1, LenProperties
  <2>3. /\ \A i \in 1 .. Len(arrays) : arrays[i].at + arrays[i].len <= offset
        /\ \A i, j \in 1 .. Len(arrays) : i < j => arrays[i].at + arrays[i].len <= arrays[j].at
    BY DEF IInv, ArenaInv
  <2>4. \A i \in 1 .. Len(arrays) : arrays[i].at + arrays[i].len <= ArenaSize
    <3> TAKE i \in 1 .. Len(arrays)
    <3> DEFINE x == arrays[i]
    <3>1. x \in Extent /\ x.at + x.len <= offset
      BY <2>1, <2>3, ElementOfSeq
    <3>2. offset <= ArenaSize /\ offset \in Nat /\ ArenaSize \in Nat
      BY Typing
    <3> HIDE DEF x
    <3>3. x.at \in Nat /\ x.len \in Nat
      BY <3>1, <3>2 DEF Extent
    <3>4. x.at + x.len <= ArenaSize
      BY <3>1, <3>2, <3>3
    <3> QED BY <3>4 DEF x
  <2> QED BY <2>2, <2>3, <2>4
<1> QED BY <1>1, Invariance, PTL
=============================================================================
