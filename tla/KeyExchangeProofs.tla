-------------------------- MODULE KeyExchangeProofs --------------------------
(***************************************************************************)
(* The arithmetic of the key exchange stays inside its C types, whatever   *)
(* bytes the server sends and whatever secret is drawn; the loop computes  *)
(* powers, so both sides have the same key; and sound parameters give one. *)
(***************************************************************************)
EXTENDS KeyExchange, NumberTheorems, TLAPS

\* What a remainder by a byte may be.
Remainders == 0 .. 254

\* What TypeOK leaves open: while utils_mod_exp runs its modulus is not zero
\* and its variables are reduced (result begins as 1, which may be as large as
\* the modulus), so that both stay in a byte.
Reduced ==
    /\ pc \in {"B", "sent", "K"} => p > 0
    /\ pc \in {"B", "K"} => base \in Remainders /\ result \in Uint8

KInv == TypeOK /\ Reduced

\* The product of two bytes, one of them reduced, and its remainder.
LEMMA ProductMod ==
    ASSUME NEW m \in 1 .. 255, NEW x \in Uint8, NEW y \in Remainders
    PROVE  (x * y) % m \in Remainders
<1>1. x * y \in Nat
  BY DEF Uint8, Remainders
<1>2. \A n \in Nat : n % m \in 0 .. m - 1
  OBVIOUS
<1>3. \A r \in 0 .. m - 1 : r \in Remainders
  BY DEF Remainders
<1> QED BY <1>1, <1>2, <1>3, Zenon

\* A quotient of MaxInt by a byte is more than a byte.
LEMMA QuotientLarge ==
    ASSUME NEW y \in 1 .. 254
    PROVE  MaxInt \div y >= 255
<1> DEFINE q == MaxInt \div y
<1>1. q \in Int /\ MaxInt < y * (q + 1)
  BY DEF MaxInt
<1>2. SUFFICES ASSUME q < 255 PROVE FALSE
  BY <1>1
<1> HIDE DEF q
<1>3. y * (q + 1) <= 254 * 255
  <2>1. q + 1 <= 255
    BY <1>1, <1>2
  <2>2. CASE q + 1 >= 0
    BY <1>1, <2>1, <2>2
  <2>3. CASE q + 1 < 0
    BY <1>1, <2>3
  <2> QED BY <1>1, <2>2, <2>3
<1> QED BY <1>1, <1>3 DEF MaxInt

\* The server's bytes and the secrets, from the assumption, a fact a line.
LEMMA Inputs ==
    /\ \A o \in Offers : o \in Uint8 \X Uint8
    /\ \A x \in Secrets : x \in Uint16
    /\ \A x \in ServerSecrets : x \in Nat
<1>1. \A x \in Random : x \in Uint16
  BY Zenon DEF Random
<1> QED BY <1>1, KeyAssumption, Zenon

\* What a conversion to uint16_t leaves.
LEMMA Truncated == \A n \in Nat : n % 65536 \in Uint16
<1> DEFINE m == 65536
<1>1. m \in Nat \ {0} /\ 0 .. m - 1 = Uint16
  BY SMT DEF Uint16
<1> HIDE DEF m
<1>2. \A n \in Nat : n % m \in 0 .. m - 1
  BY <1>1, Division
<1>3. \A n \in Nat : n % m \in Uint16
  BY <1>1, <1>2
<1> QED BY <1>3, SMT DEF m

\* The initial state.
LEMMA InitKInv == Init => KInv
BY DEF Init, KInv, TypeOK, Reduced, Uint8, Uint16, Remainders

\* A call of utils_mod_exp begins with reduced variables.
LEMMA CallReduced ==
    ASSUME NEW b \in Uint8, NEW e \in Uint16, NEW m \in 1 .. 255,
           CallModExp(b, e, m)
    PROVE  base' \in Remainders /\ exp' \in Nat /\ result' \in Uint8
<1>1. b % m \in 0 .. m - 1
  BY DEF Uint8
<1>2. \A r \in 0 .. m - 1 : r \in Remainders
  BY DEF Remainders
<1>3. b % m \in Remainders
  BY <1>1, <1>2, Zenon
<1>4. base' = b % m /\ exp' = e /\ result' = 1
  BY Zenon DEF CallModExp
<1>5. e \in Nat /\ 1 \in Uint8
  BY DEF Uint16, Uint8
<1> QED BY <1>3, <1>4, <1>5, Zenon

\* What is true after a call is true of the whole invariant if the fields of
\* Key are bytes and the rest is left alone.
LEMMA KeepKInv ==
    ASSUME pc' \in {"waiting", "B", "sent", "K", "done", "failed"},
           offer' \in Uint8 \X Uint8, a' \in Nat, p' \in Uint8, g' \in Uint8,
           bb' \in Uint16, A' \in Uint16, B' \in Uint16, K' \in Uint16,
           base' \in Nat, exp' \in Nat, result' \in Nat,
           pc' \in {"B", "sent", "K"} => p' > 0,
           pc' \in {"B", "K"} => base' \in Remainders /\ result' \in Uint8
    PROVE  KInv'
BY Zenon DEF KInv, TypeOK, Reduced

\* Every step keeps the types and the variables reduced.
LEMMA StepKInv == KInv /\ [Next]_vars => KInv'
<1> SUFFICES ASSUME KInv, [Next]_vars PROVE KInv'
  OBVIOUS
<1>0. TypeOK /\ Reduced
  BY DEF KInv
<1>b. \A x : (x \in Remainders => x \in Nat) /\ (x \in Uint8 => x \in Nat)
  BY DEF Uint8, Remainders
<1>1. ASSUME NEW o \in Offers, ReceiveParams(o) PROVE KInv'
  <2>1. o \in Uint8 \X Uint8 /\ o[1] \in Uint8 /\ o[2] \in Uint8
    BY Inputs
  <2>2. /\ offer' = o /\ p' = o[1] /\ g' = o[2]
        /\ a' = a /\ A' = A /\ B' = B /\ K' = K
    BY <1>1, Zenon DEF ReceiveParams
  <2>3. CASE pc' = "failed" /\ UNCHANGED <<bb, loopVars>>
    BY <1>0, <2>1, <2>2, <2>3, KeepKInv DEF TypeOK, loopVars
  <2>4. CASE p' # 0 /\ pc' = "B" /\ bb' \in Secrets /\ CallModExp(g', bb', p')
    <3>0. bb' \in Uint16
      BY <2>4, Inputs, Zenon
    <3>a. p' \in Uint8 /\ g' \in Uint8 /\ p' # 0
      BY <2>1, <2>2, <2>4, Zenon
    <3>1. p' \in 1 .. 255 /\ p' > 0 /\ g' \in Uint8 /\ bb' \in Uint16
      BY <3>0, <3>a, SMT DEF Uint8
    <3>2. base' \in Remainders /\ exp' \in Nat /\ result' \in Uint8
      BY <2>4, <3>1, CallReduced, Zenon
    <3> QED BY <1>0, <1>b, <2>1, <2>2, <2>4, <3>1, <3>2, KeepKInv DEF TypeOK
  <2> QED BY <1>1, <2>3, <2>4, Zenon DEF ReceiveParams
<1>2. CASE ModExpTurn
  <2>1. /\ pc \in {"B", "K"} /\ pc' = pc /\ offer' = offer /\ a' = a
        /\ p' = p /\ g' = g /\ bb' = bb /\ A' = A /\ B' = B /\ K' = K
    BY <1>2, Zenon DEF ModExpTurn
  <2>2. p \in 1 .. 255 /\ base \in Remainders /\ result \in Uint8
    BY <1>0, <2>1 DEF TypeOK, Reduced, Uint8
  <2>3. \A x \in Uint8, y \in Remainders : (x * y) % p \in Remainders
    BY <2>2, ProductMod, Zenon
  <2>4. base \in Uint8 /\ \A x \in Remainders : x \in Uint8
    BY <2>2 DEF Uint8, Remainders
  <2>5. base' \in Remainders
    <3>1. base' = (base * base) % p
      BY <1>2, Zenon DEF ModExpTurn
    <3>2. base \in Uint8 /\ base \in Remainders
      BY <2>2, <2>4, Zenon
    <3>3. (base * base) % p \in Remainders
      BY <2>3, <3>2, Zenon
    <3> QED BY <3>1, <3>3, Zenon
  <2>6. result' \in Uint8
    <3>1. result' = (result * base) % p \/ result' = result
      BY <1>2, Zenon DEF ModExpTurn
    <3>2. (result * base) % p \in Remainders
      BY <2>2, <2>3, Zenon
    <3>3. (result * base) % p \in Uint8
      BY <2>4, <3>2, Zenon
    <3> QED BY <2>2, <3>1, <3>3, Zenon
  <2>7. exp' \in Nat
    <3>1. exp' = exp \div 2 /\ exp \in Nat
      BY <1>0, <1>2, Zenon DEF ModExpTurn, TypeOK
    <3> QED BY <3>1
  <2>8. p > 0
    BY <2>2
  <2> QED BY <1>0, <1>b, <2>1, <2>5, <2>6, <2>7, <2>8, KeepKInv DEF TypeOK
<1>3. CASE SendB
  <2>1. /\ pc = "B" /\ B' = result % 65536 /\ pc' \in {"failed", "sent"}
        /\ UNCHANGED <<offer, a, p, g, bb, A, K, base, exp, result>>
    BY <1>3 DEF SendB, loopVars
  <2>2. result \in Nat
    BY <1>0 DEF TypeOK
  <2>3. B' \in Uint16
    BY Truncated, <2>1, <2>2, SMTT(30)
  <2> QED BY <1>0, <2>1, <2>3, KeepKInv DEF TypeOK, Reduced
<1>4. ASSUME NEW s \in ServerSecrets, ReceiveA(s) PROVE KInv'
  <2>1. s \in Nat /\ A' \in Uint8 /\ A' \in Uint16
    <3>1. s \in Nat
      BY Inputs, Zenon
    <3>2. A' \in Uint8
      BY <1>4, Zenon DEF ReceiveA
    <3>3. \A x \in Uint8 : x \in Uint16
      BY DEF Uint8, Uint16
    <3> QED BY <3>1, <3>2, <3>3, Zenon
  <2>2. /\ pc = "sent" /\ a' = s
        /\ UNCHANGED <<offer, p, g, bb, B, K>>
    BY <1>4, Zenon DEF ReceiveA
  <2>3. CASE pc' = "failed" /\ UNCHANGED loopVars
    BY <1>0, <2>1, <2>2, <2>3, KeepKInv DEF TypeOK, loopVars
  <2>4. CASE pc' = "K" /\ CallModExp(A', bb, p)
    <3>1. p \in 1 .. 255 /\ p > 0 /\ bb \in Uint16
      BY <1>0, <2>2 DEF TypeOK, Reduced, Uint8
    <3>2. base' \in Remainders /\ exp' \in Nat /\ result' \in Uint8
      BY <2>1, <2>4, <3>1, CallReduced, Zenon
    <3> QED BY <1>0, <1>b, <2>1, <2>2, <2>4, <3>1, <3>2, KeepKInv DEF TypeOK
  <2> QED BY <1>4, <2>3, <2>4, Zenon DEF ReceiveA
<1>5. CASE MakeKey
  <2>1. /\ pc = "K" /\ K' = result % 65536 /\ pc' \in {"failed", "done"}
        /\ UNCHANGED <<offer, a, p, g, bb, A, B, base, exp, result>>
    BY <1>5 DEF MakeKey, loopVars
  <2>2. result \in Nat
    BY <1>0 DEF TypeOK
  <2>3. K' \in Uint16
    BY Truncated, <2>1, <2>2, SMTT(30)
  <2> QED BY <1>0, <2>1, <2>3, KeepKInv DEF TypeOK
<1>6. CASE UNCHANGED vars
  BY <1>0, <1>6 DEF vars, KInv, TypeOK, Reduced
<1> QED BY <1>1, <1>2, <1>3, <1>4, <1>5, <1>6 DEF Next

\* Every field of Key and every variable of utils_mod_exp holds a value of its
\* type in every reachable state.
THEOREM KeyTypeCorrect == Spec => []TypeOK
<1>1. KInv => TypeOK
  BY DEF KInv
<1> QED BY InitKInv, StepKInv, <1>1, PTL DEF Spec

\* No product of utils_mod_exp overflows an int, for all 65536 pairs of
\* parameters and all 65535 secrets (utils.c:56, 60).
THEOREM NoOverflow == Spec => []ProductsFit
<1>1. KInv => ProductsFit
  <2> SUFFICES ASSUME KInv, pc \in {"B", "K"}, base > 0
               PROVE  result <= MaxInt \div base /\ base <= MaxInt \div base
    BY DEF ProductsFit
  <2>1. base \in 1 .. 254 /\ result \in 0 .. 255
    BY DEF KInv, Reduced, Uint8, Remainders
  <2>2. MaxInt \div base \in Int /\ MaxInt \div base >= 255
    BY <2>1, QuotientLarge DEF MaxInt
  <2> QED BY <2>1, <2>2
<1> QED BY InitKInv, StepKInv, <1>1, PTL DEF Spec

(***************************************************************************)
(* What PowerMod computes: a power's remainder, so that the laws of powers *)
(* and of remainders hold for it.                                          *)
(***************************************************************************)
\* The powers that PowerMod(x, e, m) looks up the last of.
PowersMod(x, e, m) ==
    CHOOSE f : f = [n \in 0 .. e |-> IF n = 0 THEN 1 % m ELSE (f[n - 1] * x) % m]

LEMMA RemainderOfFactor ==
    ASSUME NEW m \in Nat \ {0}, NEW x \in Nat, NEW y \in Nat
    PROVE  (y * (x % m)) % m = (y * x) % m
<1>1. ((x % m) * y) % m = (x * y) % m
  BY RemainderOfProduct
<1>2. x % m \in 0 .. m - 1
  BY Division
<1>3. (x % m) * y = y * (x % m) /\ x * y = y * x
  <2> DEFINE r == x % m
  <2>1. r \in Nat
    BY <1>2
  <2> HIDE DEF r
  <2>2. r * y = y * r /\ x * y = y * x
    BY <2>1
  <2> QED BY <2>2 DEF r
<1> QED BY <1>1, <1>3

LEMMA PowersModIs ==
    ASSUME NEW x \in Nat, NEW e \in Nat, NEW m \in Nat \ {0}
    PROVE  /\ PowersMod(x, e, m)[0] = 1 % m
           /\ \A n \in 0 .. e - 1 :
                 PowersMod(x, e, m)[n + 1] = (PowersMod(x, e, m)[n] * x) % m
<1> DEFINE D == 0 .. e
           F == [q \in D \X Nat |-> (q[2] * x) % m]
<1>1. F \in [D \X Nat -> Nat]
  <2>1. ASSUME NEW q \in D \X Nat PROVE (q[2] * x) % m \in Nat
    <3>1. PICK z \in Nat : z = q[2] * x
      OBVIOUS
    <3>2. z % m \in 0 .. m - 1
      BY Division
    <3> QED BY <3>1, <3>2
  <2> QED BY <2>1
<1>2. \A n \in D, y \in Nat : F[<<n, y>>] = (y * x) % m
  OBVIOUS
<1>3. D \in SUBSET Nat /\ Initial(D)
  BY DEF Initial
<1>4. 1 % m \in Nat
  <2>1. 1 % m \in 0 .. m - 1
    BY Division
  <2> QED BY <2>1
<1> HIDE DEF F
<1>5. PICK f \in [D -> Nat] : Recursive(f, D, 1 % m, F)
  <2> HIDE DEF D
  <2> QED BY <1>1, <1>3, <1>4, Recursion, Zenon
<1>6. \A n \in D : f[n] = IF n = 0 THEN 1 % m ELSE (f[n - 1] * x) % m
  <2> TAKE n \in D
  <2>1. f[n] = IF n = 0 THEN 1 % m ELSE F[<<n, f[n - 1]>>]
    BY <1>5 DEF Recursive
  <2>2. n # 0 => f[n - 1] \in Nat
    OBVIOUS
  <2> QED BY <1>2, <2>1, <2>2
<1>7. f = [n \in 0 .. e |-> IF n = 0 THEN 1 % m ELSE (f[n - 1] * x) % m]
  BY <1>6
<1> DEFINE h == PowersMod(x, e, m)
<1>8. h = [n \in 0 .. e |-> IF n = 0 THEN 1 % m ELSE (h[n - 1] * x) % m]
  BY <1>7 DEF PowersMod
<1> HIDE DEF h
<1>9. h[0] = 1 % m
  BY <1>8
<1>10. ASSUME NEW n \in 0 .. e - 1 PROVE h[n + 1] = (h[n] * x) % m
  <2>1. n + 1 \in 0 .. e /\ n + 1 # 0 /\ (n + 1) - 1 = n
    OBVIOUS
  <2>2. h[n + 1] = IF n + 1 = 0 THEN 1 % m ELSE (h[(n + 1) - 1] * x) % m
    BY <1>8, <2>1
  <2> QED BY <2>1, <2>2
<1> QED BY <1>9, <1>10 DEF h

LEMMA PowerModIs ==
    ASSUME NEW x \in Nat, NEW e \in Nat, NEW m \in Nat \ {0}
    PROVE  PowerMod(x, e, m) = PowerOf(x)[e] % m
<1> DEFINE f == PowersMod(x, e, m)
           h == PowerOf(x)
           S == {n \in Nat : n <= e => f[n] = h[n] % m}
<1>1. f[0] = 1 % m /\ \A n \in 0 .. e - 1 : f[n + 1] = (f[n] * x) % m
  BY PowersModIs
<1>2. h[0] = 1 /\ (\A n \in Nat : h[n + 1] = h[n] * x) /\ h \in [Nat -> Nat]
  BY PowerOfIs
<1>3. PowerMod(x, e, m) = f[e]
  BY DEF PowerMod, PowersMod
<1> HIDE DEF f, h
<1>4. 0 \in S
  BY <1>1, <1>2
<1>5. ASSUME NEW n \in Nat, n \in S PROVE n + 1 \in S
  <2> SUFFICES ASSUME n + 1 <= e PROVE f[n + 1] = h[n + 1] % m
    OBVIOUS
  <2>1. n \in 0 .. e - 1 /\ f[n] = h[n] % m
    BY <1>5
  <2>2. PICK y \in Nat : y = h[n]
    BY <1>2
  <2>3. f[n + 1] = ((y % m) * x) % m
    BY <1>1, <2>1, <2>2
  <2>4. ((y % m) * x) % m = (y * x) % m
    BY RemainderOfProduct
  <2> QED BY <1>2, <2>2, <2>3, <2>4
<1> HIDE DEF S
<1>6. Nat \subseteq S
  BY <1>4, <1>5, Induction
<1>7. f[e] = h[e] % m
  BY <1>6 DEF S
<1> QED BY <1>3, <1>7 DEF h

LEMMA PowerModType ==
    ASSUME NEW x \in Nat, NEW e \in Nat, NEW m \in Nat \ {0}
    PROVE  PowerMod(x, e, m) \in 0 .. m - 1
<1>1. PICK y \in Nat : y = PowerOf(x)[e]
  BY PowerOfIs
<1>2. y % m \in 0 .. m - 1
  BY Division
<1> QED BY <1>1, <1>2, PowerModIs

\* The base may be reduced first.
LEMMA PowerModReduced ==
    ASSUME NEW x \in Nat, NEW e \in Nat, NEW m \in Nat \ {0}
    PROVE  PowerMod(x % m, e, m) = PowerMod(x, e, m)
<1>1. x % m \in Nat
  <2>1. x % m \in 0 .. m - 1
    BY Division
  <2> QED BY <2>1
<1>2. PowerMod(x % m, e, m) = PowerOf(x % m)[e] % m
  BY <1>1, PowerModIs
<1>3. PowerMod(x, e, m) = PowerOf(x)[e] % m
  BY PowerModIs
<1> QED BY <1>2, <1>3, PowerOfRemainder

\* The two secrets may come in either order.
LEMMA PowerModCommutes ==
    ASSUME NEW x \in Nat, NEW d \in Nat, NEW e \in Nat, NEW m \in Nat \ {0}
    PROVE  PowerMod(PowerMod(x, d, m), e, m) = PowerMod(PowerMod(x, e, m), d, m)
<1>1. ASSUME NEW i \in Nat, NEW j \in Nat
      PROVE  PowerMod(PowerMod(x, i, m), j, m) = PowerOf(x)[i * j] % m
  <2>1. PICK y \in Nat : y = PowerOf(x)[i]
    BY PowerOfIs
  <2>2. PowerMod(x, i, m) = y % m
    BY <2>1, PowerModIs
  <2>3. PowerMod(y % m, j, m) = PowerMod(y, j, m)
    BY PowerModReduced
  <2>4. PowerMod(y, j, m) = PowerOf(y)[j] % m
    BY PowerModIs
  <2>5. PowerOf(y)[j] = PowerOf(x)[i * j]
    BY <2>1, PowerOfPower
  <2> QED BY <2>2, <2>3, <2>4, <2>5
<1>2. d * e = e * d
  OBVIOUS
<1> QED BY <1>1, <1>2

\* A turn of utils_mod_exp leaves result * base^exp what it was, modulo m.
LEMMA PowerModTurn ==
    ASSUME NEW m \in Nat \ {0}, NEW x \in Nat, NEW e \in Nat, NEW r \in Nat
    PROVE  /\ e % 2 = 1 =>
                (((r * x) % m) * PowerMod((x * x) % m, e \div 2, m)) % m
                    = (r * PowerMod(x, e, m)) % m
           /\ e % 2 # 1 =>
                (r * PowerMod((x * x) % m, e \div 2, m)) % m
                    = (r * PowerMod(x, e, m)) % m
<1> DEFINE h == e \div 2
<1>1. h \in Nat /\ (e % 2 = 1 => e = 2 * h + 1) /\ (e % 2 # 1 => e = 2 * h)
  OBVIOUS
<1> HIDE DEF h
<1>2. PICK y \in Nat : y = PowerOf(x)[2 * h]
  <2>1. 2 * h \in Nat
    BY <1>1
  <2>2. PowerOf(x) \in [Nat -> Nat]
    BY PowerOfIs
  <2> QED BY <2>1, <2>2
<1>3. PICK z \in Nat : z = x * x
  OBVIOUS
<1>4. PowerOf(x)[2] = z
  <2>1. /\ PowerOf(x)[0] = 1 /\ \A n \in Nat : PowerOf(x)[n + 1] = PowerOf(x)[n] * x
    BY PowerOfIs
  <2>2. PowerOf(x)[1] = 1 * x
    BY <2>1
  <2>3. PowerOf(x)[2] = (1 * x) * x
    BY <2>1, <2>2
  <2>4. (1 * x) * x = x * x
    OBVIOUS
  <2> QED BY <1>3, <2>3, <2>4
<1>5. PowerOf(z)[h] = y
  <2>1. \A n \in Nat : PowerOf(PowerOf(x)[2])[n] = PowerOf(x)[2 * n]
    BY PowerOfPower
  <2> QED BY <1>1, <1>2, <1>4, <2>1
<1>6. PowerMod(z % m, h, m) = y % m
  <2>1. PowerMod(z % m, h, m) = PowerMod(z, h, m)
    BY <1>1, PowerModReduced
  <2>2. PowerMod(z, h, m) = PowerOf(z)[h] % m
    BY <1>1, PowerModIs
  <2> QED BY <1>5, <2>1, <2>2
<1>7. CASE e % 2 = 1
  <2>1. PowerMod(x, e, m) = (y * x) % m
    <3>1. PowerOf(x)[2 * h + 1] = y * x
      <4>1. 2 * h \in Nat
        BY <1>1
      <4> QED BY <1>2, <4>1, PowerOfIs
    <3>2. PowerMod(x, e, m) = PowerOf(x)[e] % m
      BY PowerModIs
    <3> QED BY <1>1, <1>7, <3>1, <3>2
  <2>2. PICK u \in Nat : u = r * x
    OBVIOUS
  <2>3. PICK v \in Nat : v = y * x
    OBVIOUS
  <2>4. PICK w \in 0 .. m - 1 : w = y % m
    BY Division
  <2>5. ((u % m) * w) % m = (u * w) % m
    <3>1. \A i \in Nat, j \in Nat : ((i % m) * j) % m = (i * j) % m
      BY RemainderOfProduct
    <3>2. w \in Nat
      OBVIOUS
    <3> QED BY <3>1, <3>2
  <2>6. (u * (y % m)) % m = (u * y) % m
    BY RemainderOfFactor
  <2>7. (r * (v % m)) % m = (r * v) % m
    BY RemainderOfFactor
  <2>8. u * y = r * v
    <3>1. (r * x) * y = r * (y * x)
      OBVIOUS
    <3> QED BY <2>2, <2>3, <3>1
  <2>9. ((u % m) * (y % m)) % m = (r * (v % m)) % m
    BY <2>4, <2>5, <2>6, <2>7, <2>8
  <2> QED BY <1>3, <1>6, <1>7, <2>1, <2>2, <2>3, <2>9 DEF h
<1>8. CASE e % 2 # 1
  <2>1. PowerMod(x, e, m) = y % m
    <3>1. PowerMod(x, e, m) = PowerOf(x)[e] % m
      BY PowerModIs
    <3> QED BY <1>1, <1>2, <1>8, <3>1
  <2> QED BY <1>3, <1>6, <1>8, <2>1 DEF h
<1> QED BY <1>7, <1>8

\* The last turn is done when nothing is left of the exponent.
LEMMA PowerModZero ==
    ASSUME NEW m \in Nat \ {0}, NEW x \in Nat, NEW r \in Nat
    PROVE  (r * PowerMod(x, 0, m)) % m = r % m
<1>1. PowerMod(x, 0, m) = 1 % m
  <2>1. PowerMod(x, 0, m) = PowerOf(x)[0] % m
    BY PowerModIs
  <2>2. PowerOf(x)[0] = 1
    BY PowerOfIs
  <2> QED BY <2>1, <2>2
<1>2. (r * (1 % m)) % m = (r * 1) % m
  BY RemainderOfFactor
<1>3. r * 1 = r
  OBVIOUS
<1> QED BY <1>1, <1>2, <1>3

\* The first turn begins with a reduced base and 1.
LEMMA PowerModCall ==
    ASSUME NEW m \in Nat \ {0}, NEW x \in Nat, NEW e \in Nat
    PROVE  (1 * PowerMod(x % m, e, m)) % m = PowerMod(x, e, m)
<1>1. PICK y \in 0 .. m - 1 : y = PowerMod(x, e, m)
  BY PowerModType
<1>2. PowerMod(x % m, e, m) = y
  BY <1>1, PowerModReduced
<1>3. 1 * y = y /\ y % m = y
  <2>1. y \in Nat /\ y = m * 0 + y
    OBVIOUS
  <2> QED BY <2>1, Quotient
<1> QED BY <1>1, <1>2, <1>3

\* No power is 0 modulo a prime that does not divide the base.
LEMMA PowerModPrime ==
    ASSUME NEW m \in Nat, Prime(m), NEW x \in Nat, x % m # 0, NEW e \in Nat
    PROVE  PowerMod(x, e, m) # 0
<1>1. IsPrime(m) /\ m \in Nat \ {0}
  BY DEF IsPrime, Prime
<1>2. PowerOf(x)[e] % m # 0
  BY <1>1, PowerNotDivided
<1> QED BY <1>1, <1>2, PowerModIs

(***************************************************************************)
(* The two sides compute the same key.  While utils_mod_exp runs, result   *)
(* times base to the exp is, modulo p, the power it was called for; what   *)
(* it returned is that power.                                              *)
(***************************************************************************)
Powers ==
    /\ offer = <<p, g>>
    /\ pc = "B" => (result * PowerMod(base, exp, p)) % p = PowerMod(g, bb, p)
    /\ pc \in {"sent", "K", "done"} => B % p = PowerMod(g, bb, p)
    /\ pc \in {"K", "done"} => A = PowerMod(g, a, p) /\ A \in 1 .. p - 1
    /\ pc = "K" => /\ (result * PowerMod(base, exp, p)) % p = PowerMod(A, bb, p)
                   /\ result < p
    /\ pc = "done" => K = PowerMod(A, bb, p)

\* The types that the laws above ask for.
LEMMA Numbers ==
    ASSUME KInv
    PROVE  /\ offer \in Nat \X Nat /\ p \in Nat /\ g \in Nat /\ bb \in Nat /\ A \in Nat
           /\ a \in Nat /\ B \in Nat /\ K \in Nat
           /\ base \in Nat /\ exp \in Nat /\ result \in Nat
           /\ pc \in {"B", "sent", "K"} => p \in Nat \ {0}
           /\ pc \in {"B", "K"} => result <= 255
<1>1. (\A x \in Uint8 : x \in Nat /\ x <= 255) /\ (\A x \in Uint16 : x \in Nat)
  BY SMT DEF Uint8, Uint16
<1>2. TypeOK /\ Reduced
  BY DEF KInv
<1>3. /\ p \in Nat /\ g \in Nat /\ bb \in Nat /\ A \in Nat /\ B \in Nat /\ K \in Nat
      /\ a \in Nat /\ base \in Nat /\ exp \in Nat /\ result \in Nat
  BY <1>1, <1>2, Zenon DEF TypeOK
<1>4. offer \in Nat \X Nat
  BY <1>1, <1>2 DEF TypeOK
<1>5. pc \in {"B", "sent", "K"} => p \in Nat \ {0}
  BY <1>2, <1>3 DEF Reduced
<1>6. pc \in {"B", "K"} => result <= 255
  BY <1>1, <1>2, Zenon DEF Reduced
<1> QED BY <1>3, <1>4, <1>5, <1>6, Zenon

LEMMA InitPowers == Init => Powers
BY DEF Init, Powers

\* A turn of the loop.
LEMMA TurnPowers ==
    ASSUME KInv, Powers, ModExpTurn
    PROVE  Powers'
<1>1. /\ pc \in {"B", "K"} /\ pc' = pc /\ offer' = offer /\ a' = a
      /\ p' = p /\ g' = g /\ bb' = bb /\ A' = A /\ B' = B /\ K' = K
      /\ base' = (base * base) % p /\ exp' = exp \div 2
  BY DEF ModExpTurn
<1>2. p \in Nat \ {0} /\ base \in Nat /\ exp \in Nat /\ result \in Nat
  BY <1>1, Numbers
<1>3. (result' * PowerMod(base', exp', p)) % p = (result * PowerMod(base, exp, p)) % p
  <2>1. CASE exp % 2 = 1
    <3>1. result' = (result * base) % p
      BY <2>1 DEF ModExpTurn
    <3>2. (((result * base) % p) * PowerMod((base * base) % p, exp \div 2, p)) % p
             = (result * PowerMod(base, exp, p)) % p
      BY <1>2, <2>1, PowerModTurn
    <3> QED BY <1>1, <3>1, <3>2
  <2>2. CASE exp % 2 # 1
    <3>1. result' = result
      BY <2>2 DEF ModExpTurn
    <3>2. (result * PowerMod((base * base) % p, exp \div 2, p)) % p
             = (result * PowerMod(base, exp, p)) % p
      BY <1>2, <2>2, PowerModTurn
    <3> QED BY <1>1, <3>1, <3>2
  <2> QED BY <2>1, <2>2
<1>4. result < p => result' < p
  <2>1. PICK x \in Nat : x = result * base
    BY <1>2
  <2>2. x % p \in 0 .. p - 1
    BY <1>2, Division
  <2>3. result' = x % p \/ result' = result
    BY <2>1 DEF ModExpTurn
  <2> QED BY <1>2, <2>2, <2>3
<1> QED BY <1>1, <1>3, <1>4 DEF Powers

\* utils_mod_exp returns.
LEMMA Returned ==
    ASSUME KInv, Powers, pc \in {"B", "K"}, exp = 0
    PROVE  /\ result % 65536 = result
           /\ pc = "B" => result % p = PowerMod(g, bb, p)
           /\ pc = "K" => result = PowerMod(A, bb, p)
<1>1. p \in Nat \ {0} /\ base \in Nat /\ result \in Nat /\ result <= 255
  BY Numbers
<1>2. result % 65536 = result
  BY <1>1
<1>3. (result * PowerMod(base, exp, p)) % p = result % p
  BY <1>1, PowerModZero
<1>4. pc = "K" => result % p = result
  <2> SUFFICES ASSUME pc = "K" PROVE result % p = result
    OBVIOUS
  <2>1. result < p
    BY DEF Powers
  <2>2. result = p * 0 + result /\ result \in 0 .. p - 1
    BY <1>1, <2>1
  <2> QED BY <1>1, <2>2, Quotient
<1> QED BY <1>2, <1>3, <1>4 DEF Powers

\* Every step.
LEMMA StepPowers == KInv /\ KInv' /\ Powers /\ [Next]_vars => Powers'
<1> SUFFICES ASSUME KInv, KInv', Powers, [Next]_vars PROVE Powers'
  OBVIOUS
<1>1. ASSUME NEW o \in Offers, ReceiveParams(o) PROVE Powers'
  <2>1. offer' = o /\ p' = o[1] /\ g' = o[2]
    BY <1>1 DEF ReceiveParams
  <2>2. offer' = <<p', g'>>
    <3>1. o \in Uint8 \X Uint8
      BY Inputs
    <3> QED BY <2>1, <3>1
  <2>3. CASE pc' = "failed"
    BY <2>2, <2>3 DEF Powers
  <2>4. CASE pc' = "B" /\ CallModExp(g', bb', p')
    <3>1. p' \in Nat \ {0} /\ g' \in Nat /\ bb' \in Nat
      <4>1. (\A x \in Uint8 : x \in Nat) /\ (\A x \in Uint16 : x \in Nat)
        BY SMT DEF Uint8, Uint16
      <4>2. TypeOK' /\ Reduced'
        BY DEF KInv
      <4>3. p' \in Nat /\ g' \in Nat /\ bb' \in Nat
        BY <4>1, <4>2, Zenon DEF TypeOK
      <4>4. p' > 0
        BY <2>4, <4>2 DEF Reduced
      <4> QED BY <4>3, <4>4
    <3>2. (1 * PowerMod(g' % p', bb', p')) % p' = PowerMod(g', bb', p')
      BY <3>1, PowerModCall
    <3>3. result' = 1 /\ base' = g' % p' /\ exp' = bb'
      BY <2>4 DEF CallModExp
    <3> QED BY <2>2, <2>4, <3>2, <3>3 DEF Powers
  <2> QED BY <1>1, <2>3, <2>4 DEF ReceiveParams
<1>2. CASE ModExpTurn
  BY <1>2, TurnPowers
<1>3. CASE SendB
  <2>1. /\ pc = "B" /\ exp = 0 /\ B' = result % 65536 /\ pc' \in {"failed", "sent"}
        /\ UNCHANGED <<offer, a, p, g, bb, A, K, base, exp, result>>
    BY <1>3 DEF SendB, loopVars
  <2>2. B' % p = PowerMod(g, bb, p)
    BY <2>1, Returned
  <2> QED BY <2>1, <2>2 DEF Powers
<1>4. ASSUME NEW s \in ServerSecrets, ReceiveA(s) PROVE Powers'
  <2>1. /\ pc = "sent" /\ a' = s /\ A' = PowerMod(offer[2], s, offer[1])
        /\ UNCHANGED <<offer, p, g, bb, B, K>>
    BY <1>4 DEF ReceiveA
  <2>2. CASE pc' = "failed"
    BY <2>1, <2>2 DEF Powers
  <2>3. CASE A' # 0 /\ pc' = "K" /\ CallModExp(A', bb, p)
    <3>1. p \in Nat \ {0} /\ g \in Nat /\ bb \in Nat /\ s \in Nat
      BY <2>1, Numbers, Inputs
    <3>2. A' = PowerMod(g, s, p)
      <4>1. offer[1] = p /\ offer[2] = g
        BY DEF Powers
      <4> QED BY <2>1, <4>1
    <3>3. A' \in 1 .. p - 1
      <4>1. PowerMod(g, s, p) \in 0 .. p - 1
        BY <3>1, PowerModType
      <4> QED BY <2>3, <3>1, <3>2, <4>1
    <3>4. (1 * PowerMod(A' % p, bb, p)) % p = PowerMod(A', bb, p)
      BY <3>1, <3>3, PowerModCall
    <3>5. result' = 1 /\ base' = A' % p /\ exp' = bb
      BY <2>3 DEF CallModExp
    <3>6. 1 < p
      BY <3>1, <3>3
    <3> QED BY <2>1, <2>3, <3>2, <3>3, <3>4, <3>5, <3>6 DEF Powers
  <2> QED BY <1>4, <2>2, <2>3 DEF ReceiveA
<1>5. CASE MakeKey
  <2>1. /\ pc = "K" /\ exp = 0 /\ K' = result % 65536 /\ pc' \in {"failed", "done"}
        /\ UNCHANGED <<offer, a, p, g, bb, A, B, base, exp, result>>
    BY <1>5 DEF MakeKey, loopVars
  <2>2. K' = PowerMod(A, bb, p)
    BY <2>1, Returned
  <2> QED BY <2>1, <2>2 DEF Powers
<1>6. CASE UNCHANGED vars
  BY <1>6 DEF vars, Powers
<1> QED BY <1>1, <1>2, <1>3, <1>4, <1>5, <1>6 DEF Next

\* A finished exchange gives both sides the same K, for every p, prime or not,
\* every g and all secrets (session.c:418-465).
THEOREM OneKeyForBoth == Spec => []SameKey
<1>1. KInv /\ Powers => SameKey
  <2> SUFFICES ASSUME KInv, Powers, pc = "done" PROVE K = PowerMod(B, a, offer[1])
    BY DEF SameKey
  <2>1. p \in Nat /\ g \in Nat /\ bb \in Nat /\ a \in Nat /\ B \in Nat
    BY Numbers
  <2>2. /\ offer = <<p, g>> /\ B % p = PowerMod(g, bb, p)
        /\ A = PowerMod(g, a, p) /\ A \in 1 .. p - 1 /\ K = PowerMod(A, bb, p)
    BY DEF Powers
  <2>3. p \in Nat \ {0}
    BY <2>1, <2>2
  <2>4. K = PowerMod(PowerMod(g, bb, p), a, p)
    BY <2>1, <2>2, <2>3, PowerModCommutes
  <2>5. PowerMod(B % p, a, p) = PowerMod(B, a, p)
    BY <2>1, <2>3, PowerModReduced
  <2> QED BY <2>2, <2>4, <2>5
<1> QED BY <1>1, InitKInv, StepKInv, InitPowers, StepPowers, PTL DEF Spec

\* An exchange that gave up did so over parameters that are not sound.
NotSound == pc = "failed" => ~(Prime(p) /\ g % p # 0)

LEMMA StepNotSound == KInv /\ Powers /\ NotSound /\ [Next]_vars => NotSound'
<1> SUFFICES ASSUME KInv, Powers, NotSound, [Next]_vars,
                    pc' = "failed", Prime(p'), g' % p' # 0
             PROVE  FALSE
  BY DEF NotSound, Prime
<1>1. ASSUME NEW o \in Offers, ReceiveParams(o) PROVE FALSE
  <2>1. p' = 0 \/ g' = 0
    BY <1>1 DEF ReceiveParams
  <2>2. p' # 0 /\ p' \in Nat
    <3>1. o \in Uint8 \X Uint8 /\ p' = o[1]
      BY <1>1, Inputs DEF ReceiveParams
    <3> QED BY <3>1 DEF Prime, Uint8
  <2> QED BY <2>1, <2>2
<1>2. ASSUME pc # "failed", UNCHANGED <<p, g>> PROVE p \in Nat /\ Prime(p) /\ g % p # 0
  BY <1>2, Numbers
<1>3. CASE ModExpTurn
  BY <1>3 DEF ModExpTurn
<1>4. CASE SendB
  <2>1. /\ pc = "B" /\ exp = 0 /\ B' = result % 65536 /\ B' = 0 /\ UNCHANGED <<p, g>>
    BY <1>4 DEF SendB
  <2>2. p \in Nat /\ Prime(p) /\ g % p # 0
    BY <1>2, <2>1
  <2>3. 0 % p = PowerMod(g, bb, p)
    BY <2>1, Returned
  <2>4. 0 % p = 0
    BY <2>2 DEF Prime
  <2>5. g \in Nat /\ bb \in Nat
    BY Numbers
  <2> QED BY <2>2, <2>3, <2>4, <2>5, PowerModPrime
<1>5. ASSUME NEW s \in ServerSecrets, ReceiveA(s) PROVE FALSE
  <2>1. /\ pc = "sent" /\ A' = PowerMod(offer[2], s, offer[1]) /\ A' = 0
        /\ UNCHANGED <<p, g>>
    BY <1>5 DEF ReceiveA
  <2>2. p \in Nat /\ Prime(p) /\ g % p # 0
    BY <1>2, <2>1
  <2>3. PowerMod(g, s, p) = 0
    <3>1. offer[1] = p /\ offer[2] = g
      BY DEF Powers
    <3> QED BY <2>1, <3>1
  <2>4. g \in Nat /\ s \in Nat
    BY Numbers, Inputs
  <2> QED BY <2>2, <2>3, <2>4, PowerModPrime
<1>6. CASE MakeKey
  <2>1. /\ pc = "K" /\ exp = 0 /\ K' = result % 65536 /\ K' = 0 /\ UNCHANGED <<p, g>>
    BY <1>6 DEF MakeKey
  <2>2. p \in Nat /\ Prime(p)
    BY <1>2, <2>1
  <2>3. PowerMod(A, bb, p) = 0
    BY <2>1, Returned
  <2>4. A \in 1 .. p - 1 /\ bb \in Nat
    BY <2>1, Numbers DEF Powers
  <2>5. A % p # 0
    <3>1. p \in Nat \ {0} /\ A \in Nat /\ A \in 0 .. p - 1 /\ A = p * 0 + A /\ A # 0
      BY <2>2, <2>4 DEF Prime
    <3>2. A % p = A
      BY <3>1, Quotient
    <3> QED BY <3>1, <3>2
  <2> QED BY <2>2, <2>3, <2>4, <2>5, PowerModPrime
<1>7. CASE UNCHANGED vars
  BY <1>7 DEF vars, NotSound
<1> QED BY <1>1, <1>3, <1>4, <1>5, <1>6, <1>7 DEF Next

\* With a prime p that does not divide g the exchange does not fail: none of
\* the zeros tested for comes up (session.c:424, 432, 450, 457).
THEOREM SoundNeverFails == Spec => []SoundParamsWork
<1>1. Init => NotSound
  BY DEF Init, NotSound
<1>2. Powers /\ NotSound => SoundParamsWork
  <2> SUFFICES ASSUME Powers, NotSound, Prime(offer[1]), offer[2] % offer[1] # 0
               PROVE  pc # "failed"
    BY DEF SoundParamsWork
  <2>1. offer[1] = p /\ offer[2] = g
    BY DEF Powers
  <2> QED BY <2>1 DEF NotSound
<1> QED BY <1>1, <1>2, InitKInv, StepKInv, InitPowers, StepPowers, StepNotSound,
           PTL DEF Spec
=============================================================================
