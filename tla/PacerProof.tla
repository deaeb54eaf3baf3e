----------------------------- MODULE PacerProof -----------------------------
(***************************************************************************)
(* The schedule is exact and no record goes out early, for every speed,    *)
(* stream and window, on either clock.                                     *)
(***************************************************************************)
EXTENDS Pacer, WellFoundedInduction, TLAPS

-----------------------------------------------------------------------------
(***************************************************************************)
(* Euclid's algorithm.                                                     *)
(***************************************************************************)

\* A set of numbers that is not empty has a least one.
LEMMA LeastNumber ==
  ASSUME NEW T \in SUBSET Nat, T # {}
  PROVE  \E x \in T : \A y \in T : x <= y
<1> DEFINE R == OpToRel(<, Nat)
<1>1. IsWellFoundedOn(R, Nat)
  BY NatLessThanWellFounded, Zenon
<1>2. \A x, y \in Nat : x < y => <<x, y>> \in R
  BY DEF OpToRel
<1>3. \E x \in T : \A y \in T : ~(<<y, x>> \in R)
  <2> HIDE DEF R
  <2> QED BY <1>1, WFMin
<1>4. PICK x \in T : \A y \in T : ~(<<y, x>> \in R)
  BY <1>3
<1>5. \A y \in T : ~(y < x)
  <2> HIDE DEF R
  <2> QED BY <1>2, <1>4, Zenon
<1>6. \A y \in T : y \in Int /\ x \in Int
  OBVIOUS
<1>7. \A y \in T : x <= y
  BY <1>5, <1>6
<1> QED BY <1>7

\* A set of numbers up to m that has a number whenever it has all the smaller ones
\* has them all.
LEMMA StrongInduction ==
  ASSUME NEW m \in Nat, NEW T,
         \A n \in 0..m : (\A i \in 0..n - 1 : i \in T) => n \in T
  PROVE  \A n \in 0..m : n \in T
<1> SUFFICES ASSUME NEW n \in 0..m, n \notin T PROVE FALSE
  OBVIOUS
<1> DEFINE out == {i \in 0..m : i \notin T}
<1>1. n \in out
  OBVIOUS
<1>2. PICK x \in out : \A y \in out : x <= y
  <2>1. out \in SUBSET Nat /\ out # {}
    BY <1>1
  <2> HIDE DEF out
  <2> QED BY <2>1, LeastNumber
<1>3. \A i \in 0..x - 1 : i \in 0..m /\ ~(x <= i)
  BY <1>2
<1>4. \A i \in 0..x - 1 : i \in T
  BY <1>2, <1>3
<1> QED BY <1>2, <1>4

LEMMA DivMod ==
  ASSUME NEW a \in Nat, NEW b \in Nat \ {0}
  PROVE  /\ a \div b \in Nat /\ a % b \in 0..b - 1
         /\ a % b = a - (a \div b) * b
<1>1. a \div b \in Nat
  OBVIOUS
<1>2. a % b \in 0..b - 1
  OBVIOUS
<1>3. a % b = a - (a \div b) * b
  OBVIOUS
<1> QED BY <1>1, <1>2, <1>3, Zenon

Terms64 == 0..MaxInt

\* f computes what gcdInt64 does, for second terms up to m.
Computes(f, m) ==
  f = [p \in Terms64 \X (0..m) |-> IF p[2] = 0 THEN p[1] ELSE f[<<p[2], p[1] % p[2]>>]]

LEMMA EuclidExists == \E f : Computes(f, MaxInt)
<1> DEFINE T == {m \in Terms64 : \E f : Computes(f, m)}
<1>1. MaxInt \in Nat
  BY PacerAssumption
<1>2. ASSUME NEW m \in 0..MaxInt, \A i \in 0..m - 1 : i \in T PROVE m \in T
  <2>1. m \in Nat /\ m <= MaxInt
    BY <1>1
  <2>2. CASE m = 0
    <3> DEFINE f == [p \in Terms64 \X (0..m) |-> p[1]]
    <3>1. \A p \in Terms64 \X (0..m) : p[2] = 0
      BY <2>2
    <3>2. Computes(f, m)
      BY <3>1 DEF Computes
    <3> QED BY <3>2 DEF Terms64
  <2>3. CASE m # 0
    <3>1. m - 1 \in 0..m - 1
      BY <2>1, <2>3
    <3>2. PICK f : Computes(f, m - 1)
      BY <1>2, <3>1
    <3> DEFINE g == [p \in Terms64 \X (0..m) |->
                       IF p[2] < m THEN f[p] ELSE f[<<p[2], p[1] % p[2]>>]]
    <3>3. ASSUME NEW p \in Terms64 \X (0..m)
          PROVE  g[p] = IF p[2] = 0 THEN p[1] ELSE g[<<p[2], p[1] % p[2]>>]
      <4>1. PICK a, b : p = <<a, b>> /\ a \in Terms64 /\ b \in 0..m /\ a \in Nat /\ b \in Nat
        BY <1>1, <2>1 DEF Terms64
      <4>2. CASE b = 0
        <5>1. p \in Terms64 \X (0..m - 1) /\ p[2] = 0 /\ p[2] < m
          BY <2>1, <2>3, <4>1, <4>2
        <5>2. f[p] = p[1]
          BY <3>2, <5>1 DEF Computes
        <5> QED BY <5>1, <5>2
      <4>3. CASE b # 0
        <5>1. a % b \in 0..b - 1
          BY <4>1, <4>3, DivMod
        <5>2. PICK q : q = <<b, a % b>>
          OBVIOUS
        <5>3. /\ q \in Terms64 \X (0..m - 1) /\ q \in Terms64 \X (0..m) /\ q[2] < m
          <6>1. b \in Terms64 /\ a % b \in 0..m - 1 /\ a % b \in 0..m /\ a % b < m
            BY <1>1, <2>1, <4>1, <5>1 DEF Terms64
          <6> QED BY <5>2, <6>1
        <5>4. g[q] = f[q]
          BY <5>3
        <5>5. CASE b = m
          <6>1. ~(p[2] < m) /\ q = <<p[2], p[1] % p[2]>> /\ p[2] # 0
            BY <2>1, <4>1, <4>3, <5>2, <5>5
          <6>2. g[p] = f[q]
            BY <6>1
          <6> HIDE DEF g
          <6> QED BY <5>4, <6>1, <6>2
        <5>6. CASE b # m
          <6>1. p[2] < m /\ p \in Terms64 \X (0..m - 1) /\ p[2] # 0
                /\ q = <<p[2], p[1] % p[2]>>
            BY <2>1, <4>1, <4>3, <5>2, <5>6
          <6>2. f[p] = f[q]
            BY <3>2, <6>1 DEF Computes
          <6>3. g[p] = f[p]
            BY <6>1
          <6> HIDE DEF g
          <6> QED BY <5>4, <6>1, <6>2, <6>3
        <5> QED BY <5>5, <5>6
      <4> QED BY <4>2, <4>3
    <3>4. Computes(g, m)
      <4>1. g = [p \in Terms64 \X (0..m) |-> g[p]]
        OBVIOUS
      <4> HIDE DEF g
      <4> QED BY <3>3, <4>1 DEF Computes
    <3> HIDE DEF g
    <3> QED BY <3>4 DEF Terms64
  <2> QED BY <2>2, <2>3
<1>3. \A n \in 0..MaxInt : n \in T
  <2> HIDE DEF T
  <2> QED BY <1>1, <1>2, StrongInduction
<1> QED BY <1>1, <1>3

LEMMA EuclidIs ==
  ASSUME NEW a \in Terms64, NEW b \in Terms64
  PROVE  gcd[<<a, b>>] = IF b = 0 THEN a ELSE gcd[<<b, a % b>>]
<1> DEFINE Rhs(f) == [p \in Terms64 \X Terms64 |->
                        IF p[2] = 0 THEN p[1] ELSE f[<<p[2], p[1] % p[2]>>]]
<1>1. gcd = CHOOSE f : f = Rhs(f)
  BY Zenon DEF gcd, Terms64
<1>2. \E f : f = Rhs(f)
  BY EuclidExists, Zenon DEF Computes, Terms64
<1>3. gcd = Rhs(gcd)
  <2> HIDE DEF Rhs
  <2> QED BY <1>1, <1>2, Zenon
<1>4. <<a, b>> \in Terms64 \X Terms64
  OBVIOUS
<1>5. gcd[<<a, b>>] = Rhs(gcd)[<<a, b>>]
  <2> HIDE DEF Rhs
  <2> QED BY <1>3, Zenon
<1> QED BY <1>4, <1>5

\* g divides a and b, and every common divisor of them divides g, since g is a sum of
\* multiples of both.
IsGcd(g, a, b) ==
  /\ g \in Nat \ {0}
  /\ \E p, q \in Nat : a = p * g /\ b = q * g
  /\ \E x, y \in Int : g = x * a + y * b

\* One step of the algorithm keeps the divisor.
LEMMA GcdStep ==
  ASSUME NEW a \in Nat, NEW b \in Nat \ {0}, NEW g, IsGcd(g, b, a % b)
  PROVE  IsGcd(g, a, b)
<1>1. PICK m \in Nat : m = a \div b
  BY DivMod
<1>2. PICK r \in Nat : r = a % b
  BY DivMod
<1>3. a = m * b + r
  <2>1. r = a - m * b
    BY <1>1, <1>2, DivMod
  <2> QED BY <2>1
<1>4. PICK p \in Nat, q \in Nat : b = p * g /\ r = q * g
  BY <1>2 DEF IsGcd
<1>5. PICK x \in Int, y \in Int : g = x * b + y * r
  BY <1>2 DEF IsGcd
<1>6. g \in Nat \ {0}
  BY DEF IsGcd
<1>7. a = (m * p + q) * g
  <2>1. (m * p + q) * g = m * (p * g) + q * g
    BY <1>6
  <2> QED BY <1>3, <1>4, <2>1
<1>8. g = y * a + (x - y * m) * b
  <2>1. r = a - m * b
    BY <1>3
  <2>2. x * b + y * (a - m * b) = y * a + (x - y * m) * b
    OBVIOUS
  <2> QED BY <1>5, <2>1, <2>2
<1>9. m * p + q \in Nat /\ x - y * m \in Int
  OBVIOUS
<1> QED BY <1>4, <1>6, <1>7, <1>8, <1>9 DEF IsGcd

LEMMA EuclidIsGcd ==
  \A a, b \in Terms64 : a # 0 \/ b # 0 => IsGcd(gcd[<<a, b>>], a, b)
<1> DEFINE T == {b \in Terms64 : \A a \in Terms64 : a # 0 \/ b # 0 => IsGcd(gcd[<<a, b>>], a, b)}
<1>1. MaxInt \in Nat
  BY PacerAssumption
<1>2. ASSUME NEW b \in 0..MaxInt, \A i \in 0..b - 1 : i \in T PROVE b \in T
  <2> SUFFICES ASSUME NEW a \in Terms64, a # 0 \/ b # 0 PROVE IsGcd(gcd[<<a, b>>], a, b)
    BY DEF Terms64
  <2>1. a \in Nat /\ b \in Nat /\ b \in Terms64
    BY <1>1 DEF Terms64
  <2>2. CASE b = 0
    <3>1. gcd[<<a, b>>] = a
      BY <2>1, <2>2, EuclidIs
    <3>2. a = 1 * a /\ b = 0 * a /\ a = 1 * a + 0 * b
      BY <2>1, <2>2
    <3>3. 1 \in Nat /\ 0 \in Nat /\ 1 \in Int /\ 0 \in Int
      OBVIOUS
    <3> QED BY <2>1, <2>2, <3>1, <3>2, <3>3 DEF IsGcd
  <2>3. CASE b # 0
    <3>1. gcd[<<a, b>>] = gcd[<<b, a % b>>]
      BY <2>1, <2>3, EuclidIs
    <3>2. a % b \in 0..b - 1
      BY <2>1, <2>3, DivMod
    <3>3. IsGcd(gcd[<<b, a % b>>], b, a % b)
      BY <1>2, <2>1, <2>3, <3>2
    <3> QED BY <2>1, <2>3, <3>1, <3>3, GcdStep
  <2> QED BY <2>2, <2>3
<1>3. \A b \in 0..MaxInt : b \in T
  <2> HIDE DEF T
  <2> QED BY <1>1, <1>2, StrongInduction
<1> QED BY <1>3 DEF Terms64

-----------------------------------------------------------------------------
(***************************************************************************)
(* Speeds in lowest terms.                                                 *)
(***************************************************************************)

\* p / q is n / d in lowest terms.
Reduced(g, p, q, n, d) ==
  /\ {g, p, q, n, d} \subseteq Nat \ {0}
  /\ IsGcd(g, n, d) /\ g = gcd[<<n, d>>]
  /\ n = p * g /\ d = q * g
  /\ n \div g = p /\ d \div g = q

LEMMA Reduces ==
  ASSUME NEW n \in 1..MaxInt, NEW d \in 1..MaxInt
  PROVE  \E g, p, q : Reduced(g, p, q, n, d)
<1>1. MaxInt \in Nat
  BY PacerAssumption
<1>2. n \in Nat \ {0} /\ d \in Nat \ {0} /\ n \in Terms64 /\ d \in Terms64
  BY <1>1 DEF Terms64
<1>3. PICK g : g = gcd[<<n, d>>] /\ IsGcd(g, n, d)
  BY <1>2, EuclidIsGcd
<1>4. g \in Nat \ {0}
  BY <1>3 DEF IsGcd
<1>5. PICK p \in Nat, q \in Nat : n = p * g /\ d = q * g
  BY <1>3 DEF IsGcd
<1>6. p # 0 /\ q # 0
  BY <1>2, <1>4, <1>5
<1>7. (p * g) \div g = p /\ (q * g) \div g = q
  BY <1>4
<1>8. n \div g = p /\ d \div g = q
  BY <1>5, <1>7, Zenon
<1>9. {g, p, q, n, d} \subseteq Nat \ {0}
  BY <1>2, <1>4, <1>6
<1>10. Reduced(g, p, q, n, d)
  BY <1>3, <1>5, <1>8, <1>9, Zenon DEF Reduced
<1> QED BY <1>10

LEMMA Cancels ==
  ASSUME NEW c \in Nat \ {0}, NEW a \in Int, NEW b \in Int, c * a = c * b
  PROVE  a = b
<1>1. PICK e \in Int : e = a - b
  OBVIOUS
<1>2. c * e = c * a - c * b /\ c * a \in Int
  BY <1>1
<1>3. c * e = 0
  BY <1>2
<1>4. e >= 1 => c * e >= 1
  OBVIOUS
<1>5. e <= -1 => c * e <= -1
  OBVIOUS
<1> QED BY <1>1, <1>3, <1>4, <1>5

\* Half of what follows: with n / d = n2 / d2, the reduced n divides the reduced n2.
LEMMA ReducedDivides ==
  ASSUME NEW n, NEW d, NEW g, NEW p, NEW q, Reduced(g, p, q, n, d),
         NEW n2, NEW d2, NEW g2, NEW p2, NEW q2, Reduced(g2, p2, q2, n2, d2),
         n * d2 = n2 * d
  PROVE  \E m \in Int : p2 = p * m
<1>1. /\ g \in Nat \ {0} /\ g2 \in Nat \ {0} /\ n \in Nat \ {0} /\ d \in Nat \ {0}
      /\ n2 \in Nat \ {0} /\ d2 \in Nat \ {0} /\ p \in Nat \ {0} /\ p2 \in Nat \ {0}
      /\ n = p * g /\ n2 = p2 * g2
  BY DEF Reduced
<1>2. PICK x \in Int, y \in Int : g = x * n + y * d
  BY DEF Reduced, IsGcd
<1>3. PICK u \in Nat, w \in Nat : n2 = u * g2 /\ d2 = w * g2
  BY DEF Reduced, IsGcd
<1> DEFINE m == x * u + y * w
<1>4. g * n2 = n * (g2 * m)
  <2>1. g * n2 = x * (n * n2) + y * (n2 * d)
    <3>1. (x * n + y * d) * n2 = x * (n * n2) + y * (n2 * d)
      BY <1>1
    <3> QED BY <1>2, <3>1
  <2>2. y * (n2 * d) = y * (n * d2)
    OBVIOUS
  <2>3. x * (n * n2) + y * (n * d2) = n * (x * n2 + y * d2)
    BY <1>1
  <2>4. x * n2 + y * d2 = g2 * m
    <3>1. x * (u * g2) + y * (w * g2) = g2 * (x * u + y * w)
      BY <1>1
    <3> QED BY <1>3, <3>1
  <2> HIDE DEF m
  <2> QED BY <2>1, <2>2, <2>3, <2>4
<1>5. m \in Int
  OBVIOUS
<1> HIDE DEF m
<1>6. (g * g2) * p2 = (g * g2) * (p * m)
  <2>1. g * (p2 * g2) = (p * g) * (g2 * m)
    BY <1>1, <1>4
  <2>2. g * (p2 * g2) = (g * g2) * p2 /\ (p * g) * (g2 * m) = (g * g2) * (p * m)
    BY <1>1, <1>5
  <2> QED BY <2>1, <2>2
<1>7. PICK c \in Nat \ {0} : c = g * g2
  BY <1>1
<1>8. p2 = p * m
  <2>1. PICK z \in Int : z = p * m
    BY <1>1, <1>5
  <2>2. c * p2 = c * z
    BY <1>6, <1>7, <2>1
  <2>3. p2 \in Int
    BY <1>1
  <2>4. p2 = z
    BY <2>2, <2>3, Cancels
  <2> QED BY <2>1, <2>4
<1> QED BY <1>5, <1>8

LEMMA ReducedIsUnique ==
  ASSUME NEW n, NEW d, NEW g, NEW p, NEW q, Reduced(g, p, q, n, d),
         NEW n2, NEW d2, NEW g2, NEW p2, NEW q2, Reduced(g2, p2, q2, n2, d2),
         n * d2 = n2 * d
  PROVE  p = p2 /\ q = q2
<1>1. /\ g \in Nat \ {0} /\ g2 \in Nat \ {0} /\ p \in Nat \ {0} /\ p2 \in Nat \ {0}
      /\ q \in Nat \ {0} /\ q2 \in Nat \ {0}
      /\ n = p * g /\ n2 = p2 * g2 /\ d = q * g /\ d2 = q2 * g2
  BY DEF Reduced
<1>2. n2 * d = n * d2
  OBVIOUS
<1>3. PICK m \in Int : p2 = p * m
  BY ReducedDivides
<1>4. PICK m2 \in Int : p = p2 * m2
  BY <1>2, ReducedDivides
<1>5. p = p2
  <2>1. m >= 1 /\ m2 >= 1
    BY <1>1, <1>3, <1>4
  <2>2. p * m >= p /\ p2 * m2 >= p2
    BY <1>1, <2>1
  <2> QED BY <1>1, <1>3, <1>4, <2>2
<1>6. q = q2
  <2>1. PICK c \in Nat \ {0} : c = p * (g * g2)
    BY <1>1
  <2>2. (p * g) * (q2 * g2) = c * q2 /\ (p * g2) * (q * g) = c * q
    BY <1>1, <2>1
  <2>3. c * q2 = c * q
    BY <1>1, <1>5, <2>2
  <2>4. q \in Int /\ q2 \in Int
    BY <1>1
  <2> QED BY <2>3, <2>4, Cancels
<1> QED BY <1>5, <1>6

LEMMA NewSpeedReduces ==
  ASSUME NEW n, NEW d, NEW g, NEW p, NEW q, Reduced(g, p, q, n, d)
  PROVE  NewSpeed(n, d) = IF InLimits(p, q) THEN <<p, q>> ELSE InvalidSpeed
<1>1. ~(n <= 0) /\ ~(d <= 0)
  BY DEF Reduced
<1>2. g = gcd[<<n, d>>] /\ n \div g = p /\ d \div g = q
  BY DEF Reduced
<1> QED BY <1>1, <1>2, Zenon DEF NewSpeed

\* Every way to write a speed gives the same one.
LEMMA SpeedIsUnique ==
  ASSUME NEW n \in 1..MaxInt, NEW d \in 1..MaxInt, NEW n2 \in 1..MaxInt, NEW d2 \in 1..MaxInt,
         n * d2 = n2 * d
  PROVE  NewSpeed(n, d) = NewSpeed(n2, d2)
<1>1. PICK g, p, q : Reduced(g, p, q, n, d)
  BY Reduces
<1>2. PICK g2, p2, q2 : Reduced(g2, p2, q2, n2, d2)
  BY Reduces
<1>3. p = p2 /\ q = q2
  BY <1>1, <1>2, ReducedIsUnique
<1> QED BY <1>1, <1>2, <1>3, NewSpeedReduces

\* What Start is given: a valid speed has positive terms, in the ratio asked for.
LEMMA SpeedIsPositive ==
  ASSUME NEW n \in -MaxInt - 1..MaxInt, NEW d \in -MaxInt - 1..MaxInt,
         NewSpeed(n, d) # InvalidSpeed
  PROVE  \E p, q \in 1..MaxInt : /\ NewSpeed(n, d) = <<p, q>>
                                 /\ n \in 1..MaxInt /\ d \in 1..MaxInt
                                 /\ n * q = p * d
<1>1. MaxInt \in Nat
  BY PacerAssumption
<1>2. ~(n <= 0) /\ ~(d <= 0)
  BY DEF NewSpeed
<1>3. n \in 1..MaxInt /\ d \in 1..MaxInt
  BY <1>1, <1>2
<1>4. PICK g, p, q : Reduced(g, p, q, n, d)
  BY <1>3, Reduces
<1>5. NewSpeed(n, d) = <<p, q>>
  BY <1>4, NewSpeedReduces
<1>6. /\ g \in Nat \ {0} /\ p \in Nat \ {0} /\ q \in Nat \ {0} /\ n = p * g /\ d = q * g
  BY <1>4 DEF Reduced
<1>7. (p * g) * q = p * (q * g) /\ p * g >= p /\ q * g >= q
  BY <1>6
<1>8. n * q = p * d /\ n >= p /\ d >= q
  BY <1>6, <1>7
<1>9. p \in 1..MaxInt /\ q \in 1..MaxInt
  BY <1>1, <1>3, <1>6, <1>8
<1> QED BY <1>3, <1>5, <1>8, <1>9

-----------------------------------------------------------------------------
(***************************************************************************)
(* DeliveryTime: the sum, or the largest time, whichever comes first.      *)
(***************************************************************************)

Clamped(x) == IF x > MaxInt THEN MaxInt ELSE x

LEMMA WrapKeeps ==
  ASSUME NEW x \in 0..MaxInt
  PROVE  Wrap(x) = x
<1>1. MaxInt \in Nat /\ 2 ^ Width = 2 * (MaxInt + 1)
  BY PacerAssumption
<1>2. PICK N \in Nat : N = 2 * (MaxInt + 1)
  BY <1>1
<1>3. PICK y \in Nat : y = x + MaxInt + 1 /\ y < N
  BY <1>1, <1>2
<1>4. y % N = y
  BY <1>3
<1>5. Wrap(x) = (y % N) - MaxInt - 1
  BY <1>1, <1>2, <1>3, Zenon DEF Wrap
<1> QED BY <1>1, <1>3, <1>4, <1>5

\* A quotient of 128 by 64 bits overflows exactly when the high half is not below the
\* divisor; then the exact quotient is beyond every int64.
LEMMA HighHalf ==
  ASSUME NEW a \in Nat, NEW p \in Nat \ {0}, NEW N \in Nat \ {0}, a \div N >= p
  PROVE  a \div p >= N
<1>1. PICK h \in Nat : h = a \div N
  BY DivMod
<1>2. h * N <= a
  BY <1>1
<1>3. p * N <= h * N
  BY <1>1
<1>4. PICK q \in Nat : q = a \div p
  BY DivMod
<1>5. a < q * p + p
  BY <1>4
<1>6. p * N < q * p + p
  BY <1>2, <1>3, <1>5
<1>7. q * p + p = (q + 1) * p /\ p * N = N * p
  OBVIOUS
<1>8. ~(q + 1 <= N)
  <2> SUFFICES ASSUME q + 1 <= N PROVE FALSE
    OBVIOUS
  <2>1. (q + 1) * p <= N * p
    OBVIOUS
  <2> QED BY <1>6, <1>7, <2>1
<1> QED BY <1>4, <1>8

LEMMA DeliveryIsExact ==
  ASSUME NEW start \in 0..MaxInt, NEW base \in Int, NEW ts \in Int, ts - base \in 0..MaxInt,
         NEW p \in 1..MaxInt, NEW q \in 1..MaxInt, speed = <<p, q>>
  PROVE  /\ DeliveryTime(start, base, ts) = Clamped(start + ((ts - base) * q) \div p)
         /\ DeliveryTime(start, base, ts) \in Nat
<1>1. MaxInt \in Nat /\ 2 ^ Width = 2 * (MaxInt + 1)
  BY PacerAssumption
<1>2. PICK dt \in 0..MaxInt : dt = ts - base
  OBVIOUS
<1>3. dt = Wrap(ts - base)
  BY <1>2, WrapKeeps
<1>4. PICK N \in Nat \ {0} : N = 2 ^ Width /\ N > MaxInt
  BY <1>1
<1>5. PICK a \in Nat : a = dt * q
  BY <1>1
<1>6. PICK e \in Nat : e = a \div p
  <2>1. p \in Nat \ {0}
    BY <1>1
  <2>2. a \div p \in Nat
    BY <2>1, DivMod
  <2> QED BY <2>2
<1>7. PICK hi \in Nat : hi = a \div N
  BY <1>4, <1>5, DivMod
<1>8. hi >= p => e >= N
  <2>1. p \in Nat \ {0}
    BY <1>1
  <2> QED BY <1>6, <1>7, <2>1, HighHalf
<1>9. DeliveryTime(start, base, ts) =
        CASE dt <= 0 -> start
          [] dt > 0 /\ hi >= p -> MaxInt
          [] dt > 0 /\ hi < p /\ e > MaxInt -> MaxInt
          [] dt > 0 /\ e <= MaxInt /\ start > MaxInt - e -> MaxInt
          [] OTHER -> start + e
  <2>1. p = speed[1] /\ q = speed[2]
    OBVIOUS
  <2> QED BY <1>3, <1>4, <1>5, <1>6, <1>7, <2>1, Zenon DEF DeliveryTime
<1>10. dt <= 0 => e = 0
  <2> SUFFICES ASSUME dt <= 0 PROVE e = 0
    OBVIOUS
  <2>1. a = 0
    BY <1>1, <1>2, <1>5
  <2>2. 0 \div p = 0
    BY <1>1
  <2> QED BY <1>6, <2>1, <2>2
<1>11. DeliveryTime(start, base, ts) = Clamped(start + e)
  BY <1>1, <1>4, <1>8, <1>9, <1>10 DEF Clamped
<1>12. Clamped(start + e) \in Nat
  BY <1>1 DEF Clamped
<1> QED BY <1>2, <1>5, <1>6, <1>11, <1>12, Zenon

-----------------------------------------------------------------------------
(***************************************************************************)
(* The invariant.                                                          *)
(***************************************************************************)

Waiting == wpc \in {"out", "test", "read", "arm", "recv"}

\* What the pacer was given does not change, but that Start keeps the speed reduced.
Parameters ==
  /\ stream \in Streams
  /\ window \in 0..MaxInt
  /\ \E r \in Terms \X Terms : speed = NewSpeed(r[1], r[2]) /\ request \in {r, speed}
  /\ wpc # "refused" => speed # InvalidSpeed

\* The release time is never more than a window ahead of the clock, whenever the clock
\* was last read; a Wait that has not returned is about a record of the stream.
Caught ==
  /\ now \in 0..MaxTime /\ t0 \in 0..MaxInt /\ until \in Int
  /\ wpc \notin {"new", "refused"} => until <= addClamped(now, window)
  /\ wpc \in {"new", "refused"} => k = 1
  /\ Waiting => k \in 1..Len(stream)

\* After Stop the clock is read once more at most: by a Wait that was past its test.
ReadAfterStop ==
  /\ late \in {0, 1}
  /\ late = 1 => stop = TRUE /\ wpc # "read"
  /\ stop \in BOOLEAN

PacerInv == Parameters /\ Caught /\ ReadAfterStop

LEMMA ClampRises ==
  ASSUME NEW a \in Int, NEW b \in Int, a <= b, NEW w \in 0..MaxInt
  PROVE  addClamped(a, w) <= addClamped(b, w) /\ addClamped(a, w) \in Int
         /\ (a <= MaxInt => a <= addClamped(a, w))
BY PacerAssumption DEF addClamped

\* A record that waits has its deadline where the schedule puts it.
LEMMA DeadlineIsExact ==
  ASSUME Parameters, Caught, Waiting
  PROVE  /\ Deadline = Clamped(t0 + ((stream[k] - stream[1]) * speed[2]) \div speed[1])
         /\ Deadline \in Nat
<1>1. PICK r \in Terms \X Terms : speed = NewSpeed(r[1], r[2])
  BY DEF Parameters
<1>2. PICK n, d : r = <<n, d>> /\ n \in -MaxInt - 1..MaxInt /\ d \in -MaxInt - 1..MaxInt
  <2>1. Terms \subseteq -MaxInt - 1..MaxInt
    BY PacerAssumption
  <2>2. \A x \in Terms : x \in -MaxInt - 1..MaxInt
    BY <2>1, Zenon
  <2>3. r = <<r[1], r[2]>> /\ r[1] \in Terms /\ r[2] \in Terms
    BY <1>1
  <2> QED BY <2>2, <2>3, Zenon
<1>3. NewSpeed(n, d) # InvalidSpeed
  BY <1>1, <1>2 DEF Parameters, Waiting
<1>4. PICK p \in 1..MaxInt, q \in 1..MaxInt : speed = <<p, q>>
  <2>1. \E p, q \in 1..MaxInt : NewSpeed(n, d) = <<p, q>>
    BY <1>2, <1>3, SpeedIsPositive
  <2> QED BY <1>1, <1>2, <2>1
<1>5. /\ stream \in Seq(Int) /\ 1 \in DOMAIN stream /\ k \in DOMAIN stream
      /\ stream[1] \in Int /\ stream[k] \in Int
      /\ stream[k] \in stream[1]..MaxInt /\ stream[k] - stream[1] <= MaxInt
  <2>1. stream \in Seq(Int) /\ stream # <<>>
    BY PacerAssumption DEF Parameters
  <2>2. 1 \in DOMAIN stream /\ k \in DOMAIN stream
    BY <2>1 DEF Caught
  <2>3. stream[k] \in stream[1]..MaxInt /\ stream[k] - stream[1] <= MaxInt
    BY <2>2, PacerAssumption DEF Parameters
  <2> QED BY <2>1, <2>2, <2>3
<1>6. MaxInt \in Nat
  BY PacerAssumption
<1>7. stream[k] - stream[1] \in 0..MaxInt
  BY <1>5, <1>6
<1>8. PICK base \in Int : base = stream[1]
  BY <1>5
<1>9. PICK ts \in Int : ts = stream[k]
  BY <1>5
<1>10. t0 \in 0..MaxInt
  BY DEF Caught
<1>11. PICK start \in 0..MaxInt : start = t0
  BY <1>10
<1>12. /\ DeliveryTime(start, base, ts) = Clamped(start + ((ts - base) * q) \div p)
       /\ DeliveryTime(start, base, ts) \in Nat
  <2>1. ts - base \in 0..MaxInt
    BY <1>7, <1>8, <1>9
  <2> QED BY <1>4, <2>1, DeliveryIsExact, Zenon
<1>13. p = speed[1] /\ q = speed[2]
  BY <1>4
<1> QED BY <1>8, <1>9, <1>11, <1>12, <1>13, Zenon DEF Deadline

LEMMA InitPacer == Init => PacerInv
<1> SUFFICES ASSUME Init PROVE PacerInv
  OBVIOUS
<1>1. MaxInt \in Nat /\ MaxTime \in 0..MaxInt
  BY PacerAssumption
<1>2. window \in 0..MaxInt
  <2>1. measureWindow(0) \in 0..MaxInt
    BY PacerAssumption DEF measureWindow
  <2>2. \A w \in Probes : measureWindow(w) \in 0..MaxInt
    BY PacerAssumption DEF measureWindow
  <2>3. Windows \subseteq 0..MaxInt
    BY PacerAssumption
  <2> QED BY <2>1, <2>2, <2>3 DEF Init
<1>3. /\ stream \in Streams
      /\ request \in Terms \X Terms /\ speed = NewSpeed(request[1], request[2])
      /\ wpc = IF speed = InvalidSpeed THEN "refused" ELSE "new"
  BY Zenon DEF Init
<1>4. Parameters
  BY <1>2, <1>3 DEF Parameters
<1>5. now = 0 /\ t0 = 0 /\ until = 0 /\ k = 1 /\ late = 0 /\ stop = FALSE
  BY Zenon DEF Init
<1>6. wpc \in {"refused", "new"}
  BY <1>3
<1>7. Caught
  BY <1>1, <1>5, <1>6 DEF Caught, Waiting
<1>8. ReadAfterStop
  <2>1. late \in {0, 1} /\ late # 1
    BY <1>5
  <2> QED BY <1>5, <2>1, Zenon DEF ReadAfterStop
<1> QED BY <1>4, <1>7, <1>8 DEF PacerInv

\* The steps that leave the pacer's own state alone, the clock moving forward or not.
LEMMA ClockPacer ==
  ASSUME PacerInv, UNCHANGED <<given, wpc, k, t0, until, late>>,
         now' \in now..MaxTime, stop' \in BOOLEAN, stop = TRUE => stop' = TRUE
  PROVE  PacerInv'
<1>1. Parameters'
  BY DEF PacerInv, Parameters, given
<1>2. Caught'
  <2>1. now' \in 0..MaxTime /\ now \in Int /\ now' \in Int /\ now <= now'
    BY PacerAssumption DEF PacerInv, Caught
  <2>2. addClamped(now, window) <= addClamped(now', window) /\ addClamped(now, window) \in Int
        /\ addClamped(now', window) \in Int
    BY <2>1, ClampRises DEF PacerInv, Parameters
  <2>3. wpc \notin {"new", "refused"} => until <= addClamped(now', window)
    BY <2>2 DEF PacerInv, Caught
  <2>4. window' = window /\ stream' = stream
    BY DEF given
  <2>5. addClamped(now, window)' = addClamped(now', window)
    BY <2>4 DEF addClamped
  <2> QED BY <2>1, <2>3, <2>4, <2>5 DEF PacerInv, Caught, Waiting
<1>3. ReadAfterStop'
  BY DEF PacerInv, ReadAfterStop
<1> QED BY <1>1, <1>2, <1>3 DEF PacerInv

\* The steps of Wait, but for the reading of the clock.
LEMMA WaitPacer ==
  ASSUME PacerInv, UNCHANGED <<given, now, t0, until, stop, late>>,
         wpc \notin {"new", "refused"}, wpc' \notin {"new", "refused"},
         Waiting' => k' \in 1..Len(stream),
         late = 1 => wpc' # "read"
  PROVE  PacerInv'
<1>1. Parameters'
  BY DEF PacerInv, Parameters, given
<1>2. Caught'
  BY DEF PacerInv, Caught, addClamped, given
<1>3. ReadAfterStop'
  BY DEF PacerInv, ReadAfterStop
<1> QED BY <1>1, <1>2, <1>3 DEF PacerInv

\* Release goes to a record of the stream, or ends.
LEMMA ReleasePacer ==
  ASSUME PacerInv, Waiting, Release
  PROVE  /\ wpc' \in {"out", "done"}
         /\ wpc' = "out" => k' \in 1..Len(stream)
<1>1. stream \in Seq(Int)
  BY PacerAssumption DEF PacerInv, Parameters
<1>2. Len(stream) \in Nat
  BY <1>1
<1> QED BY <1>2 DEF PacerInv, Caught, Release

LEMMA StartPacer == PacerInv /\ Start => PacerInv'
<1> SUFFICES ASSUME PacerInv, Start PROVE PacerInv'
  OBVIOUS
<1>1. /\ wpc = "new" /\ wpc' = "out" /\ request' = speed
      /\ t0' = now /\ until' = now
      /\ UNCHANGED <<speed, window, stream, now, k, stop, late>>
  BY DEF Start, clock
<1>2. Parameters'
  BY <1>1 DEF PacerInv, Parameters
<1>3. MaxInt \in Nat /\ MaxTime \in 0..MaxInt /\ now \in 0..MaxTime
  BY PacerAssumption DEF PacerInv, Caught
<1>4. now <= addClamped(now, window)
  BY <1>3, ClampRises DEF PacerInv, Parameters
<1>5. 1 \in 1..Len(stream)
  <2>1. stream \in Seq(Int) /\ stream # <<>>
    BY PacerAssumption DEF PacerInv, Parameters
  <2> QED BY <2>1
<1>6. k = 1
  BY <1>1 DEF PacerInv, Caught
<1>7. addClamped(now, window)' = addClamped(now, window)
  BY <1>1 DEF addClamped
<1>8. Caught'
  BY <1>1, <1>3, <1>4, <1>5, <1>6, <1>7 DEF Caught
<1>9. ReadAfterStop'
  BY <1>1 DEF PacerInv, ReadAfterStop
<1> QED BY <1>2, <1>8, <1>9 DEF PacerInv

LEMMA ReadClockPacer == PacerInv /\ ReadClock => PacerInv'
<1> SUFFICES ASSUME PacerInv, ReadClock PROVE PacerInv'
  OBVIOUS
<1>1. /\ wpc = "read" /\ until' = addClamped(now, window)
      /\ late' = IF stop THEN late + 1 ELSE late
      /\ UNCHANGED <<given, now, t0, stop>>
  BY DEF ReadClock, clock
<1>2. \/ Release
      \/ wpc' = "arm" /\ k' = k
  BY Zenon DEF ReadClock
<1>3. /\ wpc' \in {"out", "done", "arm"}
      /\ Waiting' => k' \in 1..Len(stream)
  <2>1. Waiting
    BY <1>1 DEF Waiting
  <2>2. CASE Release
    BY <2>1, <2>2, ReleasePacer DEF Waiting
  <2>3. CASE wpc' = "arm" /\ k' = k
    BY <2>1, <2>3 DEF PacerInv, Caught
  <2> QED BY <1>2, <2>2, <2>3
<1>4. Parameters'
  BY <1>1, <1>3 DEF PacerInv, Parameters, given
<1>5. window' = window /\ stream' = stream /\ now' = now
  BY <1>1 DEF given
<1>6. addClamped(now, window)' = addClamped(now, window)
  BY <1>5 DEF addClamped
<1>7. addClamped(now, window) \in Int
  <2>1. now \in Int
    BY PacerAssumption DEF PacerInv, Caught
  <2> QED BY <2>1, ClampRises DEF PacerInv, Parameters
<1>8. Caught'
  BY <1>1, <1>3, <1>5, <1>6, <1>7 DEF PacerInv, Caught
<1>9. ReadAfterStop'
  BY <1>1, <1>3 DEF PacerInv, ReadAfterStop
<1> QED BY <1>4, <1>8, <1>9 DEF PacerInv

LEMMA PacerStep == PacerInv /\ [Next]_vars => PacerInv'
<1> SUFFICES ASSUME PacerInv, [Next]_vars PROVE PacerInv'
  OBVIOUS
<1>1. now \in 0..MaxTime /\ stop \in BOOLEAN /\ MaxTime \in Nat
  BY PacerAssumption DEF PacerInv, Caught, ReadAfterStop
<1>2. CASE Tick \/ RealFire \/ RealSend \/ SimAdvance \/ OtherTimer \/ UNCHANGED vars
  <2>1. now' \in now..MaxTime
    <3>1. CASE Tick
      BY <1>1, <3>1 DEF Tick
    <3>2. CASE SimAdvance
      <4>1. PICK d \in 0..2 : now + d <= MaxTime /\ now' = now + d
        BY <3>2 DEF SimAdvance
      <4> QED BY <1>1, <4>1
    <3>3. CASE RealFire \/ RealSend \/ OtherTimer \/ UNCHANGED vars
      <4>1. now' = now
        BY <3>3 DEF RealFire, RealSend, OtherTimer, SimReset, vars, clock
      <4> QED BY <1>1, <4>1
    <3> QED BY <1>2, <3>1, <3>2, <3>3
  <2>2. UNCHANGED <<given, wpc, k, t0, until, late, stop>>
    BY <1>2 DEF Tick, RealFire, RealSend, SimAdvance, OtherTimer, vars
  <2> QED BY <1>1, <2>1, <2>2, ClockPacer
<1>3. CASE Stop
  <2>1. UNCHANGED <<given, wpc, k, t0, until, late, now>> /\ stop' = TRUE
    BY <1>3 DEF Stop, clock
  <2> QED BY <1>1, <2>1, ClockPacer
<1>4. CASE WaitFast
  <2>1. Waiting /\ Release
    BY <1>4 DEF WaitFast, Waiting
  <2>2. UNCHANGED <<given, now, t0, until, stop, late>> /\ wpc = "out"
    BY <1>4 DEF WaitFast, clock
  <2> QED BY <2>1, <2>2, ReleasePacer, WaitPacer DEF Waiting
<1>5. CASE WaitSlow \/ TestStop \/ Arm \/ Wake
  <2>1. /\ Waiting /\ k' = k
        /\ UNCHANGED <<given, now, t0, until, stop, late>>
        /\ wpc' \notin {"new", "refused"}
        /\ wpc' = "read" => stop # TRUE
    BY <1>5 DEF WaitSlow, TestStop, Arm, Wake, SimReset, RealReset, clock, Waiting
  <2> QED BY <2>1, WaitPacer DEF PacerInv, Caught, ReadAfterStop, Waiting
<1> QED
  BY <1>2, <1>3, <1>4, <1>5, StartPacer, ReadClockPacer DEF Next, Emit, Time

LEMMA PacerInvariant == Spec => []PacerInv
BY InitPacer, PacerStep, PTL DEF Spec

-----------------------------------------------------------------------------
(***************************************************************************)
(* The results.                                                            *)
(***************************************************************************)

(***************************************************************************)
(* For every stream, speed and start, a record's deadline is the scaled    *)
(* distance from the base rounded down, or the largest time where that     *)
(* does not fit, none of the three overflow checks of DeliveryTime missing *)
(* a case; and 2/4 is the same speed as 1/2, however it is written.        *)
(***************************************************************************)
THEOREM ScheduleExact == Spec => []ScheduleIsExact
<1>1. ASSUME PacerInv PROVE ScheduleIsExact
  <2>1. ASSUME NEW n \in Terms, NEW d \in Terms,
               \A term \in {n, d, request[1], request[2]} : term > 0,
               n * request[2] = request[1] * d
        PROVE  NewSpeed(n, d) = speed
    <3>1. PICK r \in Terms \X Terms : speed = NewSpeed(r[1], r[2]) /\ request \in {r, speed}
      BY <1>1 DEF PacerInv, Parameters
    <3>2. PICK r1 \in Terms, r2 \in Terms : r = <<r1, r2>>
      BY <3>1
    <3>3. \A x \in Terms : x \in -MaxInt - 1..MaxInt /\ x \in Int /\ (x > 0 => x \in 1..MaxInt)
      <4>1. MaxInt \in Nat /\ Terms \subseteq -MaxInt - 1..MaxInt
        BY PacerAssumption
      <4> QED BY <4>1
    <3>4. n \in 1..MaxInt /\ d \in 1..MaxInt
      BY <2>1, <3>3
    <3>5. speed = NewSpeed(r1, r2)
      BY <3>1, <3>2
    <3>6. CASE request = r
      <4>1. request[1] = r1 /\ request[2] = r2
        BY <3>2, <3>6
      <4>2. r1 > 0 /\ r2 > 0
        BY <2>1, <4>1
      <4>3. r1 \in 1..MaxInt /\ r2 \in 1..MaxInt
        BY <3>3, <4>2
      <4>4. n * r2 = r1 * d
        BY <2>1, <4>1
      <4> QED BY <3>4, <3>5, <4>3, <4>4, SpeedIsUnique
    <3>7. CASE request = speed
      <4>1. speed # InvalidSpeed
        <5>1. request[1] > 0
          BY <2>1
        <5> QED BY <3>7, <5>1 DEF InvalidSpeed
      <4>2. PICK p \in 1..MaxInt, q \in 1..MaxInt :
              NewSpeed(r1, r2) = <<p, q>> /\ r1 \in 1..MaxInt /\ r2 \in 1..MaxInt
              /\ r1 * q = p * r2
        <5>1. r1 \in -MaxInt - 1..MaxInt /\ r2 \in -MaxInt - 1..MaxInt
          BY <3>3
        <5> QED BY <3>5, <4>1, <5>1, SpeedIsPositive
      <4>3. request[1] = p /\ request[2] = q
        BY <3>5, <3>7, <4>2
      <4>4. n * q = p * d
        BY <2>1, <4>3
      <4>5. n * r2 = r1 * d
        <5>1. p \in Nat \ {0} /\ q \in Nat \ {0} /\ n \in Int /\ d \in Int /\ r1 \in Int /\ r2 \in Int
          BY PacerAssumption, <3>3, <4>2
        <5>2. q * (n * r2) = (n * q) * r2
          BY <5>1
        <5>3. (p * d) * r2 = (p * r2) * d
          BY <5>1
        <5>4. (r1 * q) * d = q * (r1 * d)
          BY <5>1
        <5>5. q * (n * r2) = q * (r1 * d)
          BY <4>2, <4>4, <5>2, <5>3, <5>4, Zenon
        <5>6. PICK x \in Int, y \in Int : x = n * r2 /\ y = r1 * d
          BY <5>1
        <5>7. q * x = q * y
          BY <5>5, <5>6, Zenon
        <5>8. x = y
          BY <5>1, <5>7, Cancels
        <5> QED BY <5>6, <5>8
      <4> QED BY <3>4, <3>5, <4>2, <4>5, SpeedIsUnique
    <3> QED BY <3>1, <3>6, <3>7
  <2>2. Waiting => Deadline = Clamped(t0 + ((stream[k] - stream[1]) * speed[2]) \div speed[1])
    BY <1>1, DeadlineIsExact DEF PacerInv
  <2> QED BY <2>1, <2>2, Zenon DEF ScheduleIsExact, Waiting, Clamped
<1> QED BY <1>1, PacerInvariant, PTL

(***************************************************************************)
(* No record is released more than one window ahead of the clock, whether  *)
(* the clock was read for it or the cached release time let it pass: the   *)
(* clock does not go back, so a cached time only gets safer.               *)
(***************************************************************************)
THEOREM ReleasesAreNeverEarly == Spec => NeverEarly
<1> DEFINE Due == k' # k => Deadline <= addClamped(now, window)
<1>1. ASSUME PacerInv, [Next]_vars, k' # k PROVE Deadline <= addClamped(now, window)
  <2>1. CASE WaitFast
    <3>1. Waiting /\ Deadline <= until /\ wpc = "out"
      BY <2>1 DEF WaitFast, Waiting
    <3>2. until <= addClamped(now, window) /\ until \in Int
      BY <1>1, <3>1 DEF PacerInv, Caught
    <3>3. addClamped(now, window) \in Int
      <4>1. now \in Int
        BY <1>1, PacerAssumption DEF PacerInv, Caught
      <4> QED BY <1>1, <4>1, ClampRises DEF PacerInv, Parameters
    <3>4. Deadline \in Int
      BY <1>1, <3>1, DeadlineIsExact DEF PacerInv
    <3> QED BY <3>1, <3>2, <3>3, <3>4
  <2>2. CASE ReadClock
    <3>1. until' = addClamped(now, window)
      BY <2>2 DEF ReadClock
    <3>2. Deadline <= until'
      BY <1>1, <2>2, Zenon DEF ReadClock
    <3> QED BY <3>1, <3>2
  <2> QED BY <1>1, <2>1, <2>2
      DEF Next, Emit, Time, Start, WaitSlow, TestStop, Arm, Wake, Tick, SimAdvance, RealFire,
          RealSend, OtherTimer, Stop, vars
<1>2. PacerInv /\ [Next]_vars => [Due]_vars
  BY <1>1
<1> QED BY <1>2, PacerInvariant, PTL DEF Spec, NeverEarly

(***************************************************************************)
(* Once Stop was called the clock is read at most once more: the records   *)
(* that still go out are those covered by one release time.                *)
(***************************************************************************)
THEOREM ReadOnceAfterStop == Spec => [](late <= 1)
<1>1. PacerInv => late <= 1
  BY DEF PacerInv, ReadAfterStop
<1> QED BY <1>1, PacerInvariant, PTL

=============================================================================
