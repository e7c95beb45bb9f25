---------------------------- MODULE NumberTheorems ----------------------------
(***************************************************************************)
(* What the proofs about messages and keys need of the natural numbers:    *)
(* induction and recursion, quotients and remainders.                      *)
(***************************************************************************)
EXTENDS Integers, FiniteSetTheorems, TLAPS

(***************************************************************************)
(* Induction, in a form without an operator for its hypothesis: a set with *)
(* 0 and every successor is Nat.  Were there a number missing, the sets of *)
(* the numbers up to a missing one would have no smallest among them.      *)
(***************************************************************************)
LEMMA Induction ==
  ASSUME NEW S, 0 \in S, \A n \in Nat : n \in S => n + 1 \in S
  PROVE  Nat \subseteq S
  <1> SUFFICES ASSUME Nat \ S # {} PROVE FALSE
    OBVIOUS
  <1> DEFINE Below == {0 .. n : n \in Nat \ S}
             R == StrictSubsetOrdering(Nat)
  <1>1. Below # {} /\ Below \subseteq FiniteSubsetsOf(Nat)
    <2>1. \A n \in Nat : IsFiniteSet(0 .. n) /\ 0 .. n \in SUBSET Nat
      BY FS_Interval
    <2>2. PICK n \in Nat \ S : TRUE
      OBVIOUS
    <2>3. 0 .. n \in Below
      OBVIOUS
    <2> QED BY <2>1, <2>3 DEF FiniteSubsetsOf
  <1>2. PICK X \in Below : \A Y \in Below : <<Y, X>> \notin R
    <2> HIDE DEF R, Below
    <2>1. IsWellFoundedOn(R, FiniteSubsetsOf(Nat))
      BY FS_StrictSubsetOrderingWellFounded DEF R
    <2> QED BY <1>1, <2>1, WFMin
  <1>3. PICK m \in Nat \ S : X = 0 .. m
    OBVIOUS
  <1>4. m # 0 /\ m - 1 \in Nat \ S
    BY <1>3
  <1>5. 0 .. m - 1 \in Below
    BY <1>4
  <1>6. /\ 0 .. m - 1 \subseteq X /\ 0 .. m - 1 # X
        /\ 0 .. m - 1 \in SUBSET Nat /\ X \in SUBSET Nat
    BY <1>3, <1>4
  <1>7. <<0 .. m - 1, X>> \in R
    BY <1>6 DEF StrictSubsetOrdering
  <1> QED BY <1>2, <1>5, <1>7

\* Recursion: functions that are right up to n, and agree, make one that is
\* right everywhere.
UpToN(n, V, a, F) ==
    {g \in [0 .. n -> V] : g[0] = a /\ \A i \in 1 .. n : g[i] = F[<<i, g[i - 1]>>]}

LEMMA Agree ==
  ASSUME NEW V, NEW a, NEW F, NEW m \in Nat, NEW n \in Nat,
         NEW g \in UpToN(m, V, a, F), NEW h \in UpToN(n, V, a, F)
  PROVE  \A i \in Nat : i <= m /\ i <= n => g[i] = h[i]
  <1> DEFINE S == {i \in Nat : i <= m /\ i <= n => g[i] = h[i]}
  <1>1. 0 \in S
    BY DEF UpToN
  <1>2. ASSUME NEW i \in Nat, i \in S PROVE i + 1 \in S
    <2> SUFFICES ASSUME i + 1 <= m, i + 1 <= n PROVE g[i + 1] = h[i + 1]
      OBVIOUS
    <2>1. g[i] = h[i] /\ (i + 1) - 1 = i
      BY <1>2
    <2>2. g[i + 1] = F[<<i + 1, g[i]>>] /\ h[i + 1] = F[<<i + 1, h[i]>>]
      BY <2>1 DEF UpToN
    <2> QED BY <2>1, <2>2
  <1> HIDE DEF S
  <1>3. Nat \subseteq S
    BY <1>1, <1>2, Induction
  <1> QED BY <1>3 DEF S

Initial(D) == \A n \in D : 0 .. n \subseteq D
Recursive(g, D, a, F) == \A n \in D : g[n] = IF n = 0 THEN a ELSE F[<<n, g[n - 1]>>]

LEMMA Recursion ==
  ASSUME NEW D \in SUBSET Nat, Initial(D),
         NEW V, NEW a \in V, NEW F \in [D \X V -> V]
  PROVE  \E g \in [D -> V] : Recursive(g, D, a, F)
  <1> USE DEF Initial
  <1> DEFINE S == {n \in Nat : n \in D => UpToN(n, V, a, F) # {}}
  <1>1. 0 \in S
    <2>1. [i \in 0 .. 0 |-> a] \in UpToN(0, V, a, F)
      BY DEF UpToN
    <2> QED BY <2>1
  <1>2. ASSUME NEW n \in Nat, n \in S PROVE n + 1 \in S
    <2> SUFFICES ASSUME n + 1 \in D PROVE UpToN(n + 1, V, a, F) # {}
      OBVIOUS
    <2>1. n \in D
      OBVIOUS
    <2>2. PICK g \in UpToN(n, V, a, F) : TRUE
      BY <1>2, <2>1
    <2> DEFINE h == [i \in 0 .. n + 1 |-> IF i = n + 1 THEN F[<<n + 1, g[n]>>] ELSE g[i]]
    <2>3. g \in [0 .. n -> V] /\ g[0] = a /\ \A i \in 1 .. n : g[i] = F[<<i, g[i - 1]>>]
      BY <2>2 DEF UpToN
    <2>4. h \in [0 .. n + 1 -> V]
      <3>1. g[n] \in V
        BY <2>3
      <3>2. F[<<n + 1, g[n]>>] \in V
        BY <3>1
      <3> QED BY <2>3, <3>2
    <2>5. \A i \in 1 .. n + 1 : h[i] = F[<<i, h[i - 1]>>]
      <3> TAKE i \in 1 .. n + 1
      <3>1. CASE i = n + 1
        <4>1. h[n + 1] = F[<<n + 1, g[n]>>] /\ h[n] = g[n] /\ i - 1 = n
          BY <3>1
        <4> QED BY <3>1, <4>1
      <3>2. CASE i # n + 1
        <4>1. i \in 1 .. n /\ i - 1 \in 0 .. n
          BY <3>2
        <4>2. h[i] = g[i] /\ h[i - 1] = g[i - 1]
          BY <4>1
        <4> QED BY <2>3, <4>1, <4>2
      <3> QED BY <3>1, <3>2
    <2>6. h[0] = a
      BY <2>3
    <2> HIDE DEF h
    <2> QED BY <2>4, <2>5, <2>6 DEF UpToN
  <1>3. \A n \in D : UpToN(n, V, a, F) # {}
    <2> HIDE DEF S
    <2>1. Nat \subseteq S
      BY <1>1, <1>2, Induction
    <2> QED BY <2>1 DEF S
  <1> DEFINE Some(n) == CHOOSE g \in UpToN(n, V, a, F) : TRUE
             G == [n \in D |-> Some(n)[n]]
  <1>4. \A n \in D : Some(n) \in UpToN(n, V, a, F)
    BY <1>3
  <1> HIDE DEF Some
  <1>5. G \in [D -> V]
    <2>1. ASSUME NEW n \in D PROVE Some(n)[n] \in V
      <3>1. Some(n) \in [0 .. n -> V] /\ n \in 0 .. n
        BY <1>4 DEF UpToN
      <3> QED BY <3>1
    <2> QED BY <2>1
  <1>6. ASSUME NEW n \in D PROVE G[n] = IF n = 0 THEN a ELSE F[<<n, G[n - 1]>>]
    <2>1. CASE n = 0
      <3>1. Some(0)[0] = a
        BY <1>4, <2>1 DEF UpToN
      <3> QED BY <2>1, <3>1
    <2>2. CASE n # 0
      <3>1. n \in Nat /\ n - 1 \in Nat /\ n - 1 \in D
        BY <2>2
      <3>2. Some(n) \in UpToN(n, V, a, F) /\ Some(n - 1) \in UpToN(n - 1, V, a, F)
        BY <1>4, <3>1
      <3>3. Some(n)[n - 1] = Some(n - 1)[n - 1]
        <4> DEFINE m == n - 1
        <4>1. m \in Nat /\ m <= n
          BY <3>1
        <4> HIDE DEF m
        <4>2. Some(m) \in UpToN(m, V, a, F)
          BY <3>2 DEF m
        <4>3. \A i \in Nat : i <= n /\ i <= m => Some(n)[i] = Some(m)[i]
          BY <3>1, <3>2, <4>1, <4>2, Agree
        <4> QED BY <4>1, <4>3 DEF m
      <3>4. Some(n)[n] = F[<<n, Some(n)[n - 1]>>]
        BY <3>1, <3>2, <2>2 DEF UpToN
      <3> QED BY <2>2, <3>1, <3>3, <3>4
    <2> QED BY <2>1, <2>2
  <1> HIDE DEF G
  <1> QED BY <1>5, <1>6 DEF Recursive

(***************************************************************************)
(* Quotient and remainder.                                                 *)
(***************************************************************************)
LEMMA Division ==
  ASSUME NEW a \in Nat, NEW b \in Nat \ {0}
  PROVE  /\ a \div b \in Nat /\ a % b \in 0 .. b - 1
         /\ a = b * (a \div b) + (a % b)
  <1>1. a % b \in 0 .. b - 1
    OBVIOUS
  <1>2. a \div b \in Int
    OBVIOUS
  <1>3. a = b * (a \div b) + (a % b)
    OBVIOUS
  <1>4. a \div b >= 0
    BY <1>1, <1>2, <1>3
  <1> QED BY <1>1, <1>2, <1>3, <1>4

LEMMA Multiples ==
  ASSUME NEW b \in Nat \ {0}, NEW q \in Nat, NEW p \in Nat, NEW r \in Int,
         b * q = b * p + r, -b < r, r < b
  PROVE  q = p /\ r = 0
  <1>1. CASE q > p
    <2>1. b * q >= b * p + b
      BY <1>1
    <2> QED BY <2>1
  <1>2. CASE q < p
    <2>1. b * p >= b * q + b
      BY <1>2
    <2> QED BY <2>1
  <1>3. CASE q = p
    BY <1>3
  <1> QED BY <1>1, <1>2, <1>3

LEMMA Quotient ==
  ASSUME NEW a \in Nat, NEW b \in Nat \ {0}, NEW q \in Nat, NEW r \in 0 .. b - 1,
         a = b * q + r
  PROVE  a \div b = q /\ a % b = r
  <1> DEFINE p == a \div b
             s == a % b
  <1>1. p \in Nat /\ s \in 0 .. b - 1 /\ a = b * p + s
    BY Division
  <1> HIDE DEF p, s
  <1>2. b * q \in Nat /\ b * p \in Nat
    BY <1>1
  <1>3. b * p = b * q + (r - s) /\ -b < r - s /\ r - s < b /\ r - s \in Int
    BY <1>1, <1>2
  <1>4. p = q /\ r - s = 0
    BY <1>1, <1>3, Multiples
  <1> QED BY <1>1, <1>4 DEF p, s

LEMMA QuotientOfQuotient ==
  ASSUME NEW a \in Nat, NEW b \in Nat \ {0}, NEW c \in Nat \ {0}
  PROVE  a \div (b * c) = (a \div b) \div c
  <1> DEFINE p == a \div b
             r == a % b
             q == p \div c
             s == p % c
  <1>1. p \in Nat /\ r \in 0 .. b - 1 /\ a = b * p + r
    BY Division
  <1>2. q \in Nat /\ s \in 0 .. c - 1 /\ p = c * q + s
    BY <1>1, Division
  <1> HIDE DEF p, r, q, s
  <1>3. a = (b * c) * q + (b * s + r)
    BY <1>1, <1>2
  <1>4. b * s + r \in 0 .. b * c - 1
    <2>1. b * s <= b * (c - 1) /\ b * (c - 1) = b * c - b
      BY <1>2
    <2>2. b * s \in Nat /\ b * c \in Nat
      BY <1>2
    <2> QED BY <1>1, <2>1, <2>2
  <1>5. b * c \in Nat \ {0}
    OBVIOUS
  <1>6. a \div (b * c) = q
    <2> DEFINE d == b * c
               t == b * s + r
    <2>1. d \in Nat \ {0} /\ t \in 0 .. d - 1 /\ a = d * q + t
      BY <1>3, <1>4, <1>5
    <2> HIDE DEF d, t
    <2>2. a \div d = q
      BY <1>2, <2>1, Quotient
    <2> QED BY <2>2 DEF d
  <1> QED BY <1>6 DEF q, p

\* The least of a set of numbers.
LEMMA Least ==
  ASSUME NEW S \in SUBSET Nat, S # {}
  PROVE  \E d \in S : \A e \in S : d <= e
  <1> SUFFICES ASSUME \A d \in S : \E e \in S : e < d PROVE FALSE
    <2>1. \A d, e \in S : ~(d <= e) => e < d
      OBVIOUS
    <2> QED BY <2>1
  <1> DEFINE T == {n \in Nat : \A k \in 0 .. n : k \notin S}
  <1>1. 0 \in T
    <2>1. \A k \in 0 .. 0 : k = 0
      OBVIOUS
    <2>2. 0 \notin S
      OBVIOUS
    <2> QED BY <2>1, <2>2
  <1>2. ASSUME NEW n \in Nat, n \in T PROVE n + 1 \in T
    <2>1. n + 1 \notin S
      <3> SUFFICES ASSUME n + 1 \in S PROVE FALSE
        OBVIOUS
      <3>1. PICK e \in S : e < n + 1
        OBVIOUS
      <3>2. e \in 0 .. n
        BY <3>1
      <3> QED BY <1>2, <3>2
    <2>2. \A k \in 0 .. n + 1 : k = n + 1 \/ k \in 0 .. n
      OBVIOUS
    <2>3. \A k \in 0 .. n + 1 : k \notin S
      BY <1>2, <2>1, <2>2
    <2> QED BY <2>3
  <1> HIDE DEF T
  <1>3. Nat \subseteq T
    BY <1>1, <1>2, Induction
  <1>4. PICK s \in S : s \in T
    BY <1>3
  <1>5. s \in 0 .. s
    OBVIOUS
  <1> QED BY <1>4, <1>5 DEF T

(***************************************************************************)
(* Remainders of sums, products and powers.                                *)
(***************************************************************************)
LEMMA RemainderOfSum ==
  ASSUME NEW m \in Nat \ {0}, NEW q \in Nat, NEW x \in Nat
  PROVE  (m * q + x) % m = x % m
  <1> DEFINE k == x \div m
             r == x % m
  <1>1. k \in Nat /\ r \in 0 .. m - 1 /\ x = m * k + r
    BY Division
  <1> HIDE DEF k, r
  <1>2. m * q + x = m * (q + k) + r
    BY <1>1
  <1>3. PICK y \in Nat : y = m * q + x
    <2>1. m * q \in Nat
      OBVIOUS
    <2> QED BY <2>1
  <1>4. q + k \in Nat /\ y = m * (q + k) + r
    BY <1>1, <1>2, <1>3
  <1>5. y % m = r
    BY <1>1, <1>4, Quotient
  <1> QED BY <1>3, <1>5 DEF r

LEMMA RemainderOfProduct ==
  ASSUME NEW m \in Nat \ {0}, NEW x \in Nat, NEW y \in Nat
  PROVE  ((x % m) * y) % m = (x * y) % m
  <1> DEFINE k == x \div m
             r == x % m
  <1>1. k \in Nat /\ r \in 0 .. m - 1 /\ x = m * k + r
    BY Division
  <1> HIDE DEF k, r
  <1>a. r \in Nat
    BY <1>1
  <1>2. x * y = m * (k * y) + r * y
    BY <1>1, <1>a
  <1>3. PICK q \in Nat : q = k * y
    BY <1>1
  <1>4. PICK z \in Nat : z = r * y
    BY <1>a
  <1>5. x * y = m * q + z
    BY <1>2, <1>3, <1>4
  <1>6. (m * q + z) % m = z % m
    BY RemainderOfSum
  <1> QED BY <1>4, <1>5, <1>6 DEF r

\* The powers of b.
PowerOf(b) == CHOOSE f : f = [n \in Nat |-> IF n = 0 THEN 1 ELSE f[n - 1] * b]

LEMMA PowerOfIs ==
  ASSUME NEW b \in Nat
  PROVE  /\ PowerOf(b)[0] = 1 /\ \A n \in Nat : PowerOf(b)[n + 1] = PowerOf(b)[n] * b
         /\ PowerOf(b) \in [Nat -> Nat]
  <1> DEFINE F == [p \in Nat \X Nat |-> p[2] * b]
  <1>1. F \in [Nat \X Nat -> Nat]
    OBVIOUS
  <1>2. \A n \in Nat, x \in Nat : F[<<n, x>>] = x * b
    OBVIOUS
  <1>3. Initial(Nat)
    BY DEF Initial
  <1> HIDE DEF F
  <1>4. PICK g \in [Nat -> Nat] : Recursive(g, Nat, 1, F)
    <2>1. 1 \in Nat
      OBVIOUS
    <2>2. Nat \in SUBSET Nat
      OBVIOUS
    <2> QED BY <1>1, <1>3, <2>1, <2>2, Recursion, Zenon
  <1>5. \A n \in Nat : g[n] = IF n = 0 THEN 1 ELSE g[n - 1] * b
    <2> TAKE n \in Nat
    <2>1. g[n] = IF n = 0 THEN 1 ELSE F[<<n, g[n - 1]>>]
      BY <1>4 DEF Recursive
    <2>2. n # 0 => g[n - 1] \in Nat
      OBVIOUS
    <2> QED BY <1>2, <2>1, <2>2
  <1>6. g = [n \in Nat |-> IF n = 0 THEN 1 ELSE g[n - 1] * b]
    BY <1>5
  <1> DEFINE h == PowerOf(b)
  <1>7. h = [n \in Nat |-> IF n = 0 THEN 1 ELSE h[n - 1] * b]
    BY <1>6 DEF PowerOf
  <1> HIDE DEF h
  <1>8. h[0] = 1
    BY <1>7
  <1>9. \A n \in Nat : h[n + 1] = h[n] * b
    <2> TAKE n \in Nat
    <2>1. n + 1 \in Nat /\ n + 1 # 0 /\ (n + 1) - 1 = n
      OBVIOUS
    <2>2. h[n + 1] = IF n + 1 = 0 THEN 1 ELSE h[(n + 1) - 1] * b
      BY <1>7, <2>1
    <2> QED BY <2>1, <2>2
  <1>10. \A n \in Nat : h[n] \in Nat
    <2> DEFINE S == {n \in Nat : h[n] \in Nat}
    <2>1. 0 \in S
      BY <1>8
    <2>2. ASSUME NEW n \in Nat, n \in S PROVE n + 1 \in S
      <3>1. h[n] * b \in Nat
        BY <2>2
      <3> QED BY <1>9, <3>1
    <2> HIDE DEF S
    <2>3. Nat \subseteq S
      BY <2>1, <2>2, Induction
    <2> QED BY <2>3 DEF S
  <1>11. h \in [Nat -> Nat]
    BY <1>7, <1>10
  <1> QED BY <1>8, <1>9, <1>11 DEF h

LEMMA PowerOfSum ==
  ASSUME NEW b \in Nat, NEW m \in Nat, NEW n \in Nat
  PROVE  PowerOf(b)[m + n] = PowerOf(b)[m] * PowerOf(b)[n]
  <1> DEFINE h == PowerOf(b)
             S == {k \in Nat : h[m + k] = h[m] * h[k]}
  <1>1. h[0] = 1 /\ (\A k \in Nat : h[k + 1] = h[k] * b) /\ h \in [Nat -> Nat]
    BY PowerOfIs
  <1> HIDE DEF h
  <1>2. 0 \in S
    <2>1. h[m] * 1 = h[m] /\ m + 0 = m
      BY <1>1
    <2> QED BY <1>1, <2>1
  <1>3. ASSUME NEW k \in Nat, k \in S PROVE k + 1 \in S
    <2>1. h[m + k] = h[m] * h[k] /\ m + k \in Nat /\ m + (k + 1) = (m + k) + 1
      BY <1>3
    <2>2. h[(m + k) + 1] = (h[m] * h[k]) * b
      BY <1>1, <2>1
    <2>3. \A x, y \in Nat : (x * y) * b = x * (y * b)
      OBVIOUS
    <2>4. h[m] \in Nat /\ h[k] \in Nat
      BY <1>1
    <2>5. h[m + (k + 1)] = h[m] * h[k + 1]
      BY <1>1, <2>1, <2>2, <2>3, <2>4
    <2> QED BY <2>5
  <1> HIDE DEF S
  <1>4. Nat \subseteq S
    BY <1>2, <1>3, Induction
  <1> QED BY <1>4 DEF S, h

LEMMA PowerOfPower ==
  ASSUME NEW b \in Nat, NEW m \in Nat, NEW n \in Nat
  PROVE  PowerOf(PowerOf(b)[m])[n] = PowerOf(b)[m * n]
  <1> DEFINE h == PowerOf(b)
             c == h[m]
             f == PowerOf(c)
             S == {k \in Nat : f[k] = h[m * k]}
  <1>1. h[0] = 1 /\ h \in [Nat -> Nat] /\ \A k \in Nat : h[k + m] = h[k] * c
    BY PowerOfIs, PowerOfSum
  <1>2. c \in Nat
    BY <1>1
  <1> HIDE DEF h, c
  <1>3. f[0] = 1 /\ \A k \in Nat : f[k + 1] = f[k] * c
    BY <1>2, PowerOfIs
  <1> HIDE DEF f
  <1>4. 0 \in S
    <2>1. m * 0 = 0
      OBVIOUS
    <2> QED BY <1>1, <1>3, <2>1
  <1>5. ASSUME NEW k \in Nat, k \in S PROVE k + 1 \in S
    <2>1. f[k] = h[m * k]
      BY <1>5
    <2>2. m * k \in Nat /\ m * (k + 1) = m * k + m
      OBVIOUS
    <2>3. h[m * k + m] = h[m * k] * c
      BY <1>1, <2>2
    <2>4. f[k + 1] = h[m * (k + 1)]
      BY <1>3, <2>1, <2>2, <2>3
    <2> QED BY <2>4
  <1> HIDE DEF S
  <1>6. Nat \subseteq S
    BY <1>4, <1>5, Induction
  <1>7. f[n] = h[m * n]
    BY <1>6 DEF S
  <1> QED BY <1>7 DEF f, c, h

LEMMA PowerOfRemainder ==
  ASSUME NEW m \in Nat \ {0}, NEW b \in Nat, NEW n \in Nat
  PROVE  PowerOf(b % m)[n] % m = PowerOf(b)[n] % m
  <1> DEFINE r == b % m
             h == PowerOf(b)
             f == PowerOf(r)
             S == {k \in Nat : f[k] % m = h[k] % m}
  <1>1. r \in Nat
    BY Division
  <1>2. h[0] = 1 /\ (\A k \in Nat : h[k + 1] = h[k] * b) /\ h \in [Nat -> Nat]
    BY PowerOfIs
  <1>3. f[0] = 1 /\ (\A k \in Nat : f[k + 1] = f[k] * r) /\ f \in [Nat -> Nat]
    BY <1>1, PowerOfIs
  <1>4. \A x \in Nat : ((b % m) * x) % m = (b * x) % m
    BY RemainderOfProduct
  <1>5. \A x \in Nat, y \in Nat : ((x % m) * y) % m = (x * y) % m
    BY RemainderOfProduct
  <1>6. \A x \in Nat : (r * x) % m = (b * x) % m
    BY <1>4
  <1> HIDE DEF r, h, f
  <1>7. 0 \in S
    BY <1>2, <1>3
  <1>8. ASSUME NEW k \in Nat, k \in S PROVE k + 1 \in S
    <2>1. PICK x \in Nat : x = f[k]
      BY <1>3
    <2>2. PICK y \in Nat : y = h[k]
      BY <1>2
    <2>3. x % m = y % m
      BY <1>8, <2>1, <2>2
    <2>4. (x * r) % m = ((x % m) * r) % m
      BY <1>1, <1>5
    <2>5. ((y % m) * r) % m = (y * r) % m
      BY <1>1, <1>5
    <2>6. y * r = r * y /\ b * y = y * b
      BY <1>1
    <2>7. (x * r) % m = (y * b) % m
      BY <1>6, <2>3, <2>4, <2>5, <2>6
    <2>8. f[k + 1] = x * r /\ h[k + 1] = y * b
      BY <1>2, <1>3, <2>1, <2>2
    <2>9. f[k + 1] % m = h[k + 1] % m
      BY <2>7, <2>8
    <2> QED BY <2>9
  <1> HIDE DEF S
  <1>9. Nat \subseteq S
    BY <1>7, <1>8, Induction
  <1>10. f[n] % m = h[n] % m
    BY <1>9 DEF S
  <1> QED BY <1>10 DEF f, r, h

(***************************************************************************)
(* A prime that divides a product divides one of the two: the least number *)
(* d whose multiple d * y it divides divides every such number, p and x    *)
(* among them.                                                             *)
(***************************************************************************)
IsPrime(n) == n > 1 /\ \A d \in 2 .. n - 1 : n % d # 0

LEMMA Euclid ==
  ASSUME NEW p \in Nat, IsPrime(p), NEW x \in Nat, NEW y \in Nat,
         (x * y) % p = 0, x % p # 0
  PROVE  y % p = 0
  <1> DEFINE S == {n \in Nat \ {0} : (n * y) % p = 0}
  <1>0. p \in Nat \ {0} /\ p > 1
    BY DEF IsPrime
  <1>1. \A n \in Nat : n % p = 0 => \E q \in Nat : n = p * q
    <2> TAKE n \in Nat
    <2>1. n \div p \in Nat /\ n = p * (n \div p) + (n % p)
      BY <1>0, Division
    <2>2. n % p = 0 => n = p * (n \div p)
      BY <1>0, <2>1
    <2> QED BY <2>1, <2>2
  <1>2. \A q \in Nat : (p * q) % p = 0
    <2> TAKE q \in Nat
    <2>1. (p * q + 0) % p = 0 % p
      BY <1>0, RemainderOfSum
    <2>2. 0 % p = 0 /\ p * q + 0 = p * q
      BY <1>0
    <2> QED BY <2>1, <2>2
  <1>3. p \in S
    BY <1>0, <1>2
  <1>4. x \in S
    <2>1. x # 0
      BY <1>0
    <2> QED BY <2>1
  <1>5. PICK d \in S : \A e \in S : d <= e
    <2> HIDE DEF S
    <2>1. S \in SUBSET Nat /\ S # {}
      BY <1>3 DEF S
    <2> QED BY <2>1, Least
  <1>6. d \in Nat \ {0} /\ (d * y) % p = 0
    OBVIOUS
  <1>7. ASSUME NEW e \in S PROVE e % d = 0
    <2> DEFINE q == e \div d
               r == e % d
    <2>1. e \in Nat /\ q \in Nat /\ r \in 0 .. d - 1 /\ e = d * q + r
      BY <1>6, Division
    <2> HIDE DEF q, r
    <2>2. PICK u \in Nat : e * y = p * u
      <3>1. e * y \in Nat /\ (e * y) % p = 0
        BY <2>1
      <3> QED BY <1>1, <3>1
    <2>3. PICK v \in Nat : d * y = p * v
      <3>1. d * y \in Nat
        BY <1>6
      <3> QED BY <1>1, <1>6, <3>1
    <2>4. r * y = p * (u - q * v)
      <3>1. e * y = q * (d * y) + r * y
        BY <1>6, <2>1
      <3>2. p * u = q * (p * v) + r * y
        BY <2>2, <2>3, <3>1
      <3>3. q * (p * v) = p * (q * v) /\ p * (u - q * v) = p * u - p * (q * v)
        BY <2>1
      <3>4. r * y \in Nat /\ q * (p * v) \in Nat /\ p * u \in Nat
        BY <2>1
      <3> QED BY <3>2, <3>3, <3>4
    <2>5. u - q * v \in Nat
      <3>1. PICK w \in Int : w = u - q * v
        BY <2>1
      <3>2. r * y \in Nat /\ r * y = p * w
        BY <2>1, <2>4, <3>1
      <3>3. w >= 0
        <4>1. CASE w < 0
          <5>1. p * w < 0
            BY <1>0, <4>1
          <5> QED BY <3>2, <5>1
        <4> QED BY <4>1
      <3> QED BY <3>1, <3>3
    <2>6. (r * y) % p = 0
      BY <1>2, <2>4, <2>5
    <2>7. CASE r # 0
      <3>1. r \in S
        BY <2>1, <2>6, <2>7
      <3>2. d <= r
        BY <1>5, <3>1
      <3> QED BY <1>6, <2>1, <3>2
    <2>8. CASE r = 0
      BY <2>8 DEF r
    <2> QED BY <2>7, <2>8
  <1> HIDE DEF S
  <1>8. p % d = 0 /\ x % d = 0 /\ d <= p
    BY <1>3, <1>4, <1>5, <1>7
  <1>9. d \in 2 .. p - 1 \/ d = 1 \/ d = p
    BY <1>6, <1>8
  <1>10. CASE d = 1
    <2>1. d * y = y
      BY <1>10
    <2> QED BY <1>6, <2>1
  <1>11. CASE d = p
    BY <1>8, <1>11
  <1>12. CASE d \in 2 .. p - 1
    BY <1>8, <1>12 DEF IsPrime
  <1> QED BY <1>9, <1>10, <1>11, <1>12

LEMMA PowerNotDivided ==
  ASSUME NEW p \in Nat, IsPrime(p), NEW b \in Nat, b % p # 0, NEW n \in Nat
  PROVE  PowerOf(b)[n] % p # 0
  <1> DEFINE h == PowerOf(b)
             S == {k \in Nat : h[k] % p # 0}
  <1>0. p \in Nat \ {0} /\ p > 1
    BY DEF IsPrime
  <1>1. h[0] = 1 /\ (\A k \in Nat : h[k + 1] = h[k] * b) /\ h \in [Nat -> Nat]
    BY PowerOfIs
  <1> HIDE DEF h
  <1>2. 0 \in S
    <2>1. 1 = p * 0 + 1 /\ 1 \in 0 .. p - 1
      BY <1>0
    <2>2. 1 % p = 1
      BY <1>0, <2>1, Quotient
    <2> QED BY <1>1, <2>2
  <1>3. ASSUME NEW k \in Nat, k \in S PROVE k + 1 \in S
    <2>1. PICK x \in Nat : x = h[k]
      BY <1>1
    <2>2. x % p # 0
      BY <1>3, <2>1
    <2>3. (x * b) % p # 0
      BY <2>2, Euclid
    <2>4. h[k + 1] = x * b
      BY <1>1, <2>1
    <2> QED BY <2>3, <2>4
  <1> HIDE DEF S
  <1>4. Nat \subseteq S
    BY <1>2, <1>3, Induction
  <1> QED BY <1>4 DEF S, h
=============================================================================
