------------------------- MODULE MessageBufferProofs -------------------------
(***************************************************************************)
(* A message is read as it was written, for bytes of any base, buffers of  *)
(* any size, any fields, and any allocations that fail: first numbers as   *)
(* bytes, then the writes and their place in the buffer, then the reads.   *)
(***************************************************************************)
EXTENDS MessageBufferProperties, NumberTheorems, SequenceTheorems, TLAPS

(***************************************************************************)
(* Numbers as bytes.                                                       *)
(***************************************************************************)
LEMMA BaseType == Base \in Nat /\ Base > 1 /\ Byte = 0 .. Base - 1
  BY MessageAssumption DEF Byte

LEMMA PowerIs ==
  Power = [n \in Nat |-> IF n = 0 THEN 1 ELSE Base * Power[n - 1]]
  <1> DEFINE F == [p \in Nat \X Nat |-> Base * p[2]]
  <1>1. F \in [Nat \X Nat -> Nat]
    <2>1. \A p \in Nat \X Nat : Base * p[2] \in Nat
      BY BaseType
    <2> QED BY <2>1
  <1>2. \A n \in Nat, x \in Nat : F[<<n, x>>] = Base * x
    OBVIOUS
  <1>3. Initial(Nat)
    BY DEF Initial
  <1> HIDE DEF F
  <1>4. PICK g \in [Nat -> Nat] : Recursive(g, Nat, 1, F)
    <2>1. 1 \in Nat
      OBVIOUS
    <2>2. Nat \in SUBSET Nat
      OBVIOUS
    <2> QED BY <1>1, <1>3, <2>1, <2>2, Recursion, Zenon
  <1>5. \A n \in Nat : g[n] = IF n = 0 THEN 1 ELSE Base * g[n - 1]
    <2> TAKE n \in Nat
    <2>1. g[n] = IF n = 0 THEN 1 ELSE F[<<n, g[n - 1]>>]
      BY <1>4 DEF Recursive
    <2>2. n # 0 => g[n - 1] \in Nat
      OBVIOUS
    <2> QED BY <1>2, <2>1, <2>2
  <1>6. g = [n \in Nat |-> IF n = 0 THEN 1 ELSE Base * g[n - 1]]
    BY <1>5
  <1> QED BY <1>6 DEF Power

LEMMA PowerFacts ==
  /\ Power[0] = 1
  /\ \A n \in Nat : Power[n + 1] = Base * Power[n]
  /\ \A n \in Nat : Power[n] \in Nat \ {0}
  <1>1. Power[0] = 1
    BY PowerIs
  <1>2. \A n \in Nat : Power[n + 1] = Base * Power[n]
    <2> TAKE n \in Nat
    <2>1. Power[n + 1] = IF n + 1 = 0 THEN 1 ELSE Base * Power[(n + 1) - 1]
      BY PowerIs
    <2>2. n + 1 # 0 /\ (n + 1) - 1 = n
      OBVIOUS
    <2> QED BY <2>1, <2>2
  <1>3. \A n \in Nat : Power[n] \in Nat \ {0}
    <2> DEFINE S == {n \in Nat : Power[n] \in Nat \ {0}}
    <2>1. 0 \in S
      BY <1>1
    <2>2. ASSUME NEW n \in Nat, n \in S PROVE n + 1 \in S
      <3>1. Power[n + 1] = Base * Power[n] /\ Power[n] \in Nat \ {0}
        BY <1>2, <2>2
      <3>2. \A x, y \in Nat : x > 0 /\ y > 0 => x * y \in Nat /\ x * y > 0
        OBVIOUS
      <3>3. Power[n + 1] \in Nat /\ Power[n + 1] > 0
        BY <3>1, <3>2, BaseType
      <3> QED BY <3>3
    <2> HIDE DEF S
    <2>3. Nat \subseteq S
      BY <2>1, <2>2, Induction
    <2> QED BY <2>3 DEF S
  <1> QED BY <1>1, <1>2, <1>3

\* The digits of a number.
Digit(v, n) == (v \div Power[n]) % Base

LEMMA Digits ==
  ASSUME NEW v \in Nat, NEW n \in Nat
  PROVE  /\ v \div Power[n] \in Nat /\ Digit(v, n) \in Byte
         /\ v \div Power[n] = (v \div Power[n + 1]) * Base + Digit(v, n)
  <1>1. Power[n] \in Nat \ {0} /\ Base \in Nat \ {0} /\ Power[n + 1] = Power[n] * Base
    <2>1. Power[n] \in Nat \ {0} /\ Power[n + 1] = Base * Power[n]
      BY PowerFacts
    <2>2. \A x, y \in Nat : x * y = y * x
      OBVIOUS
    <2>3. Base \in Nat \ {0}
      BY BaseType
    <2> QED BY <2>1, <2>2, <2>3
  <1> DEFINE x == v \div Power[n]
  <1>2. x \in Nat
    BY <1>1, Division
  <1>3. v \div Power[n + 1] = x \div Base
    BY <1>1, QuotientOfQuotient
  <1> HIDE DEF x
  <1>4. x % Base \in 0 .. Base - 1 /\ x = Base * (x \div Base) + (x % Base) /\ x \div Base \in Nat
    BY <1>1, <1>2, Division
  <1>5. x = (x \div Base) * Base + (x % Base)
    BY <1>1, <1>2, <1>4
  <1>6. Digit(v, n) = x % Base
    BY DEF Digit, x
  <1>7. x = v \div Power[n]
    BY DEF x
  <1> QED BY <1>2, <1>3, <1>4, <1>5, <1>6, <1>7, BaseType

LEMMA LittleEndianIs ==
  ASSUME NEW v \in Nat, NEW w \in Nat
  PROVE  /\ LittleEndian(v, w) \in Seq(Byte) /\ Len(LittleEndian(v, w)) = w
         /\ \A i \in 1 .. w : LittleEndian(v, w)[i] = Digit(v, i - 1)
  <1>1. \A i \in 1 .. w : i - 1 \in Nat
    OBVIOUS
  <1>2. \A i \in 1 .. w : Digit(v, i - 1) \in Byte
    BY <1>1, Digits
  <1>3. LittleEndian(v, w) = [i \in 1 .. w |-> Digit(v, i - 1)]
    BY DEF LittleEndian, Digit
  <1> QED BY <1>2, <1>3

LEMMA BigEndianIs ==
  ASSUME NEW v \in Nat, NEW w \in Nat
  PROVE  /\ BigEndian(v, w) \in Seq(Byte) /\ Len(BigEndian(v, w)) = w
         /\ \A i \in 1 .. w : BigEndian(v, w)[i] = Digit(v, w - i)
  <1> DEFINE s == LittleEndian(v, w)
  <1>1. s \in Seq(Byte) /\ Len(s) = w /\ \A i \in 1 .. w : s[i] = Digit(v, i - 1)
    BY LittleEndianIs
  <1>2. BigEndian(v, w) = [i \in 1 .. Len(s) |-> s[(Len(s) - i) + 1]]
    BY DEF BigEndian, Reverse
  <1> HIDE DEF s
  <1>3. \A i \in 1 .. w : (w - i) + 1 \in 1 .. w /\ ((w - i) + 1) - 1 = w - i
    OBVIOUS
  <1>4. \A i \in 1 .. w : s[(w - i) + 1] \in Byte /\ s[(w - i) + 1] = Digit(v, w - i)
    BY <1>1, <1>3
  <1> QED BY <1>1, <1>2, <1>4

\* The number the first n bytes make up.
UpTo(b) ==
    CHOOSE f : f = [n \in 0 .. Len(b) |-> IF n = 0 THEN 0 ELSE f[n - 1] * Base + b[n]]

LEMMA FromBigIs ==
  ASSUME NEW b
  PROVE  FromBig(b) = UpTo(b)[Len(b)]
  BY DEF FromBig, UpTo

LEMMA UpToIs ==
  ASSUME NEW b \in Seq(Nat)
  PROVE  /\ UpTo(b) \in [0 .. Len(b) -> Nat] /\ UpTo(b)[0] = 0
         /\ \A n \in 0 .. Len(b) - 1 : UpTo(b)[n + 1] = UpTo(b)[n] * Base + b[n + 1]
  <1> DEFINE D == 0 .. Len(b)
             F == [p \in D \X Nat |-> IF p[1] = 0 THEN 0 ELSE p[2] * Base + b[p[1]]]
  <1>0. Len(b) \in Nat
    OBVIOUS
  <1>1. F \in [D \X Nat -> Nat]
    <2>1. ASSUME NEW p \in D \X Nat, p[1] # 0 PROVE p[2] * Base + b[p[1]] \in Nat
      <3>1. p[1] \in 1 .. Len(b) /\ p[2] \in Nat
        BY <1>0, <2>1
      <3>2. b[p[1]] \in Nat /\ p[2] * Base \in Nat
        BY <3>1, BaseType
      <3> QED BY <3>2
    <2> QED BY <2>1
  <1>2. \A n \in D, x \in Nat : n # 0 => F[<<n, x>>] = x * Base + b[n]
    OBVIOUS
  <1>3. D \in SUBSET Nat
    BY <1>0
  <1>4. Initial(D)
    BY <1>0 DEF Initial
  <1> HIDE DEF F
  <1>5. PICK g \in [D -> Nat] : Recursive(g, D, 0, F)
    <2>1. 0 \in Nat
      OBVIOUS
    <2> HIDE DEF D
    <2> QED BY <1>1, <1>3, <1>4, <2>1, Recursion, Zenon
  <1>6. \A n \in D : g[n] = IF n = 0 THEN 0 ELSE g[n - 1] * Base + b[n]
    <2> TAKE n \in D
    <2>1. g[n] = IF n = 0 THEN 0 ELSE F[<<n, g[n - 1]>>]
      BY <1>5 DEF Recursive
    <2>2. n # 0 => g[n - 1] \in Nat
      BY <1>0
    <2> QED BY <1>2, <2>1, <2>2
  <1>7. g = [n \in 0 .. Len(b) |-> IF n = 0 THEN 0 ELSE g[n - 1] * Base + b[n]]
    BY <1>6
  <1> DEFINE h == UpTo(b)
  <1>8. h = [n \in 0 .. Len(b) |-> IF n = 0 THEN 0 ELSE h[n - 1] * Base + b[n]]
    BY <1>7 DEF UpTo
  <1>9. h[0] = 0 /\ \A n \in 0 .. Len(b) - 1 : h[n + 1] = h[n] * Base + b[n + 1]
    <2> HIDE DEF h
    <2>1. h[0] = 0
      BY <1>0, <1>8
    <2>2. ASSUME NEW n \in 0 .. Len(b) - 1 PROVE h[n + 1] = h[n] * Base + b[n + 1]
      <3>1. n + 1 \in 0 .. Len(b) /\ n + 1 # 0 /\ (n + 1) - 1 = n
        BY <1>0
      <3>2. h[n + 1] = IF n + 1 = 0 THEN 0 ELSE h[(n + 1) - 1] * Base + b[n + 1]
        BY <1>8, <3>1
      <3> QED BY <3>1, <3>2
    <2> QED BY <2>1, <2>2
  <1>10. h \in [0 .. Len(b) -> Nat]
    <2> HIDE DEF h
    <2> DEFINE S == {n \in Nat : n <= Len(b) => h[n] \in Nat}
    <2>1. 0 \in S
      BY <1>9
    <2>2. ASSUME NEW n \in Nat, n \in S PROVE n + 1 \in S
      <3> SUFFICES ASSUME n + 1 <= Len(b) PROVE h[n + 1] \in Nat
        OBVIOUS
      <3>1. n \in 0 .. Len(b) - 1 /\ h[n] \in Nat
        BY <1>0, <2>2
      <3>2. b[n + 1] \in Nat
        BY <1>0
      <3>3. h[n] * Base \in Nat
        BY <3>1, BaseType
      <3> QED BY <1>9, <3>1, <3>2, <3>3
    <2> HIDE DEF S
    <2>3. Nat \subseteq S
      BY <2>1, <2>2, Induction
    <2>4. \A n \in 0 .. Len(b) : h[n] \in Nat
      BY <1>0, <2>3 DEF S
    <2> QED BY <1>8, <2>4
  <1> QED BY <1>9, <1>10

LEMMA FromBigType ==
  ASSUME NEW b \in Seq(Nat)
  PROVE  FromBig(b) \in Nat
  BY UpToIs, FromBigIs

\* The bytes of a number make up the number, if they are enough.
LEMMA FromBigOfBigEndian ==
  ASSUME NEW v \in Nat, NEW w \in Nat, v < Power[w]
  PROVE  FromBig(BigEndian(v, w)) = v
  <1> DEFINE b == BigEndian(v, w)
             h == UpTo(b)
             S == {n \in Nat : n <= w => h[n] = v \div Power[w - n]}
  <1>1. b \in Seq(Byte) /\ Len(b) = w /\ \A i \in 1 .. w : b[i] = Digit(v, w - i)
    BY BigEndianIs
  <1>2. b \in Seq(Nat)
    BY <1>1, BaseType
  <1> HIDE DEF b
  <1>3. h[0] = 0 /\ \A n \in 0 .. w - 1 : h[n + 1] = h[n] * Base + b[n + 1]
    BY <1>1, <1>2, UpToIs
  <1> HIDE DEF h
  <1>4. 0 \in S
    <2>1. Power[w] \in Nat \ {0}
      BY PowerFacts
    <2>2. v = Power[w] * 0 + v /\ v \in 0 .. Power[w] - 1
      BY <2>1
    <2>3. v \div Power[w] = 0
      BY <2>1, <2>2, Quotient
    <2>4. w - 0 = w
      OBVIOUS
    <2> QED BY <1>3, <2>3, <2>4
  <1>5. ASSUME NEW n \in Nat, n \in S PROVE n + 1 \in S
    <2> SUFFICES ASSUME n + 1 <= w PROVE h[n + 1] = v \div Power[w - (n + 1)]
      OBVIOUS
    <2> DEFINE m == w - (n + 1)
    <2>1. m \in Nat /\ w - n = m + 1 /\ n \in 0 .. w - 1 /\ n + 1 \in 1 .. w
      OBVIOUS
    <2>2. h[n + 1] = (v \div Power[w - n]) * Base + b[n + 1]
      BY <1>3, <1>5, <2>1
    <2>3. b[n + 1] = Digit(v, m)
      BY <1>1, <2>1
    <2> HIDE DEF m
    <2>4. v \div Power[m] = (v \div Power[m + 1]) * Base + Digit(v, m)
      BY <2>1, Digits
    <2>5. h[n + 1] = v \div Power[m]
      BY <2>1, <2>2, <2>3, <2>4
    <2> QED BY <2>5 DEF m
  <1> HIDE DEF S
  <1>6. Nat \subseteq S
    BY <1>4, <1>5, Induction
  <1>7. h[w] = v \div Power[0]
    <2>1. w - w = 0 /\ w <= w
      OBVIOUS
    <2> QED BY <1>6, <2>1 DEF S
  <1>8. v \div 1 = v
    OBVIOUS
  <1>9. FromBig(b) = h[w]
    BY <1>1, FromBigIs DEF h
  <1> QED BY <1>7, <1>8, <1>9, PowerFacts DEF b

LEMMA FromLittleOfLittleEndian ==
  ASSUME NEW v \in Nat, NEW w \in Nat, v < Power[w]
  PROVE  FromLittle(LittleEndian(v, w)) = v
  BY FromBigOfBigEndian DEF FromLittle, BigEndian

(***************************************************************************)
(* The calls of message_write that make up a typed write, and the bytes    *)
(* they leave in the buffer.                                               *)
(***************************************************************************)
FieldTypes == {"bool", "byte", "short", "int", "long", "string", "utf"}
IsNumber(f) == f.type \in {"bool", "byte", "short", "int"}

LEMMA FieldFacts ==
  ASSUME NEW f \in Fields
  PROVE  /\ f.type \in FieldTypes
         /\ IsNumber(f) => /\ WidthOf(f.type) \in 1 .. 4
                           /\ f.value \in Nat /\ f.value < Power[WidthOf(f.type)]
         /\ f.type = "bool" => f.value \in {0, 1}
         /\ f.type = "long" => f.value \in Nat /\ f.value < Power[8]
         /\ f.type \in {"string", "utf"} => /\ f.value \in Seq(Byte)
                                            /\ Len(f.value) < Power[8]
  <1>1. f \in Numbers \/ f \in Strings
    BY MessageAssumption
  <1>2. CASE f \in Numbers
    <2>1. f.type \in {"bool", "byte", "short", "int", "long"} /\ f.value \in Nat
      BY <1>2 DEF Numbers
    <2>2. f.value < Power[WidthOf(f.type)] /\ (f.type = "bool" => f.value \in {0, 1})
      BY <1>2, FieldAssumption
    <2>3. f.type = "long" => WidthOf(f.type) = 8
      BY DEF WidthOf
    <2>4. IsNumber(f) => WidthOf(f.type) \in 1 .. 4
      BY DEF WidthOf, IsNumber
    <2> QED BY <2>1, <2>2, <2>3, <2>4 DEF FieldTypes
  <1>3. CASE f \in Strings
    <2>1. f.type \in {"string", "utf"} /\ f.value \in Seq(Byte \ {0})
      BY <1>3 DEF Strings
    <2>2. f.value \in Seq(Byte)
      BY <2>1
    <2>3. Len(f.value) < Power[8]
      BY <1>3, FieldAssumption
    <2> QED BY <2>1, <2>2, <2>3 DEF FieldTypes, IsNumber
  <1> QED BY <1>1, <1>2, <1>3

\* The bytes of a typed write's calls, one behind the other.
Flat(parts) ==
    IF parts = << >> THEN << >>
    ELSE IF Len(parts) = 1 THEN parts[1] ELSE parts[1] \o parts[2]
Image(f) == Flat(Parts(f))
Calls == {<< >>} \cup {<<a>> : a \in Seq(Byte)}
                  \cup {<<p[1], p[2]>> : p \in Seq(Byte) \X Seq(Byte)}

LEMMA OfLengthOne ==
  ASSUME NEW T, NEW s \in Seq(T), Len(s) = 1
  PROVE  s # << >> /\ Head(s) = s[1] /\ Tail(s) = << >>
  <1>1. s # << >> /\ Head(s) = s[1]
    <2>1. Len(<< >>) # 1
      BY EmptySeq
    <2>2. s # << >>
      BY <2>1, Zenon
    <2> QED BY <2>2
  <1>2. Tail(s) \in Seq(T) /\ Len(Tail(s)) = Len(s) - 1
    BY <1>1, HeadTailProperties
  <1>3. ~(Len(Tail(s)) \in Nat \ {0})
    BY <1>2
  <1>4. Tail(s) = << >>
    BY <1>2, <1>3, EmptySeq, Zenon
  <1> QED BY <1>1, <1>4

LEMMA OfLengthTwo ==
  ASSUME NEW T, NEW s \in Seq(T), Len(s) = 2
  PROVE  /\ s # << >> /\ Head(s) = s[1]
         /\ Tail(s) \in Seq(T) /\ Len(Tail(s)) = 1 /\ Tail(s)[1] = s[2]
  OBVIOUS

LEMMA OneAndOne ==
  ASSUME NEW T, NEW s \in Seq(T), NEW t \in Seq(T), Len(s) = 1, Len(t) = 1
  PROVE  /\ s \o t \in Seq(T) /\ Len(s \o t) = 2
         /\ (s \o t)[1] = s[1] /\ (s \o t)[2] = t[1]
  <1>1. s \o t \in Seq(T) /\ Len(s \o t) = Len(s) + Len(t)
    BY ConcatProperties
  <1>2. Len(s \o t) = 2
    BY <1>1
  <1>3. (s \o t)[1] = s[1]
    OBVIOUS
  <1>4. (s \o t)[2] = t[1]
    <2>3. \A i \in 1 .. Len(s) + Len(t) :
             (s \o t)[i] = IF i <= Len(s) THEN s[i] ELSE t[i - Len(s)]
      BY ConcatProperties, Zenon
    <2>4. 2 \in 1 .. Len(s) + Len(t)
      OBVIOUS
    <2>1. (s \o t)[2] = IF 2 <= Len(s) THEN s[2] ELSE t[2 - Len(s)]
      BY <2>3, <2>4, Zenon
    <2>2. ~(2 <= Len(s)) /\ 2 - Len(s) = 1
      OBVIOUS
    <2> QED BY <2>1, <2>2, Zenon
  <1> QED BY <1>1, <1>2, <1>3, <1>4, Zenon

LEMMA SameOne ==
  ASSUME NEW T, NEW s \in Seq(T), NEW t \in Seq(T), Len(s) = 1, Len(t) = 1,
         s[1] = t[1]
  PROVE  s = t
  <1>1. \A i \in 1 .. 1 : i = 1
    OBVIOUS
  <1>2. \A i \in 1 .. Len(s) : s[i] = t[i]
    BY <1>1, Zenon
  <1>3. Len(s) = Len(t)
    BY Zenon
  <1> QED BY <1>2, <1>3, SeqEqual, Zenon

LEMMA SameTwo ==
  ASSUME NEW T, NEW s \in Seq(T), NEW t \in Seq(T), Len(s) = 2, Len(t) = 2,
         s[1] = t[1], s[2] = t[2]
  PROVE  s = t
  <1>1. \A i \in 1 .. 2 : i = 1 \/ i = 2
    OBVIOUS
  <1>2. \A i \in 1 .. Len(s) : s[i] = t[i]
    BY <1>1, Zenon
  <1>3. Len(s) = Len(t)
    BY Zenon
  <1> QED BY <1>2, <1>3, SeqEqual, Zenon

LEMMA OneOrTwo ==
  ASSUME NEW T, NEW a \in T, NEW b \in T
  PROVE  /\ Head(<<a>>) = a /\ Tail(<<a>>) = << >> /\ Len(<<a>>) = 1 /\ <<a>> \in Seq(T)
         /\ Head(<<a, b>>) = a /\ Tail(<<a, b>>) = <<b>> /\ Len(<<a, b>>) = 2
         /\ <<a, b>> \in Seq(T) /\ <<a>> \o <<b>> = <<a, b>>
         /\ <<a>> # << >> /\ <<a, b>> # << >>
  <1>1. PICK p : p = <<a, b>> /\ p \in Seq(T) /\ Len(p) = 2 /\ p[1] = a /\ p[2] = b
    <2>1. <<a, b>> \in Seq(T) /\ Len(<<a, b>>) = 2 /\ <<a, b>>[1] = a /\ <<a, b>>[2] = b
      OBVIOUS
    <2> QED BY <2>1
  <1>2. PICK c : c = <<a>> /\ c \in Seq(T) /\ Len(c) = 1 /\ c[1] = a
    <2>1. <<a>> \in Seq(T) /\ Len(<<a>>) = 1 /\ <<a>>[1] = a
      OBVIOUS
    <2> QED BY <2>1
  <1>3. PICK d : d = <<b>> /\ d \in Seq(T) /\ Len(d) = 1 /\ d[1] = b
    <2>1. <<b>> \in Seq(T) /\ Len(<<b>>) = 1 /\ <<b>>[1] = b
      OBVIOUS
    <2> QED BY <2>1
  <1>4. c # << >> /\ Head(c) = a /\ Tail(c) = << >>
    BY <1>2, OfLengthOne, Zenon
  <1>5. p # << >> /\ Head(p) = a /\ Tail(p) \in Seq(T) /\ Len(Tail(p)) = 1 /\ Tail(p)[1] = b
    BY <1>1, OfLengthTwo, Zenon
  <1>6. Tail(p) = d
    BY <1>3, <1>5, SameOne, Zenon
  <1>7. c \o d \in Seq(T) /\ Len(c \o d) = 2 /\ (c \o d)[1] = a /\ (c \o d)[2] = b
    <2>1. /\ c \in Seq(T) /\ d \in Seq(T) /\ Len(c) = 1 /\ Len(d) = 1
      BY <1>2, <1>3, Zenon
    <2>2. /\ c \o d \in Seq(T) /\ Len(c \o d) = 2
          /\ (c \o d)[1] = c[1] /\ (c \o d)[2] = d[1]
      BY <2>1, OneAndOne
    <2> QED BY <1>2, <1>3, <2>2, Zenon
  <1>8. c \o d = p
    BY <1>1, <1>7, SameTwo, Zenon
  <1> QED BY <1>1, <1>2, <1>3, <1>4, <1>5, <1>6, <1>8, Zenon

LEMMA CallsAre ==
  /\ Calls \subseteq Seq(Seq(Byte)) /\ << >> \in Calls
  /\ \A a, b \in Seq(Byte) : <<a, b>> \in Calls
  /\ \A a \in Seq(Byte) : <<a>> \in Calls
  /\ \A p \in Calls : \/ p = << >>
                      \/ \E a \in Seq(Byte) : p = <<a>>
                      \/ \E a, b \in Seq(Byte) : p = <<a, b>>
  <1> DEFINE T == Seq(Byte)
             C == {<< >>} \cup {<<a>> : a \in T} \cup {<<p[1], p[2]>> : p \in T \X T}
  <1>1. Calls = C
    BY DEF Calls
  <1> HIDE DEF T
  <1>2. \A a \in T : <<a>> \in C
    OBVIOUS
  <1>3. \A a, b \in T : <<a, b>> \in C
    <2> TAKE a \in T, b \in T
    <2>1. <<a, b>> \in T \X T /\ <<a, b>>[1] = a /\ <<a, b>>[2] = b
      OBVIOUS
    <2> QED BY <2>1
  <1>4. \A p \in C : \/ p = << >> \/ (\E a \in T : p = <<a>>)
                    \/ \E a, b \in T : p = <<a, b>>
    OBVIOUS
  <1>5. << >> \in Seq(T) /\ << >> \in C
    OBVIOUS
  <1> HIDE DEF C
  <1>6. C \subseteq Seq(T)
    BY <1>4, <1>5, OneOrTwo
  <1> QED BY <1>1, <1>2, <1>3, <1>4, <1>5, <1>6 DEF T

LEMMA OneCall ==
  ASSUME NEW a \in Seq(Byte)
  PROVE  <<a>> \in Calls /\ <<a>> # << >> /\ Flat(<<a>>) = a
  BY CallsAre, OneOrTwo DEF Flat

LEMMA TwoCalls ==
  ASSUME NEW a \in Seq(Byte), NEW b \in Seq(Byte)
  PROVE  /\ <<a>> \o <<b>> \in Calls /\ <<a>> \o <<b>> # << >>
         /\ Flat(<<a>> \o <<b>>) = a \o b
  <1> DEFINE p == <<a, b>>
  <1>1. <<a>> \o <<b>> = p /\ Len(p) = 2 /\ p # << >> /\ p[1] = a /\ p[2] = b
    BY OneOrTwo
  <1>2. p \in Calls
    BY CallsAre
  <1> HIDE DEF p
  <1>3. Flat(p) = a \o b
    BY <1>1 DEF Flat
  <1> QED BY <1>1, <1>2, <1>3

LEMMA CallAndBytes ==
  ASSUME NEW a \in Seq(Byte), NEW str \in Seq(Byte)
  PROVE  /\ <<a>> \o Bytes(str) \in Calls /\ <<a>> \o Bytes(str) # << >>
         /\ Flat(<<a>> \o Bytes(str)) = a \o str
  <1>1. CASE str = << >>
    <2>1. <<a>> \o Bytes(str) = <<a>> /\ a \o str = a
      BY <1>1 DEF Bytes
    <2> QED BY <2>1, OneCall
  <1>2. CASE str # << >>
    <2>1. Bytes(str) = <<str>>
      BY <1>2 DEF Bytes
    <2> QED BY <2>1, TwoCalls
  <1> QED BY <1>1, <1>2

LEMMA HalvesOfLong ==
  ASSUME NEW v \in Nat, v < Power[8]
  PROVE  /\ High(v) \in Nat /\ High(v) < Power[4]
         /\ Low(v) \in Nat /\ Low(v) < Power[4]
         /\ High(v) * Power[4] + Low(v) = v
  <1> DEFINE b == Power[4]
  <1>1. b \in Nat \ {0}
    BY PowerFacts
  <1>2. Power[8] = b * b
    <2>1. /\ Power[5] = Base * Power[4] /\ Power[6] = Base * Power[5]
          /\ Power[7] = Base * Power[6] /\ Power[8] = Base * Power[7]
      BY PowerFacts
    <2>2. /\ Power[0] = 1 /\ Power[1] = Base * Power[0] /\ Power[2] = Base * Power[1]
          /\ Power[3] = Base * Power[2] /\ Power[4] = Base * Power[3]
      BY PowerFacts
    <2>3. Base \in Nat
      BY BaseType
    <2>4. Power[4] = Base * (Base * (Base * Base))
      BY <2>2, <2>3
    <2>5. Power[8] = Base * (Base * (Base * (Base * Power[4])))
      BY <2>1
    <2>6. \A x, y \in Nat : x * (x * (x * (x * y))) = (x * (x * (x * x))) * y
      OBVIOUS
    <2> QED BY <2>3, <2>4, <2>5, <2>6, <1>1
  <1> HIDE DEF b
  <1>3. v \div b \in Nat /\ v % b \in 0 .. b - 1 /\ v = b * (v \div b) + (v % b)
    BY <1>1, Division
  <1>4. v \div b < b
    <2>1. CASE v \div b >= b
      <3>1. b * (v \div b) >= b * b
        BY <1>1, <1>3, <2>1
      <3> QED BY <1>1, <1>2, <1>3, <3>1
    <2> QED BY <1>1, <1>3, <2>1
  <1>5. b * (v \div b) = (v \div b) * b
    BY <1>1, <1>3
  <1> QED BY <1>1, <1>3, <1>4, <1>5 DEF High, Low, b

LEMMA ImageOfNumber ==
  ASSUME NEW f \in Fields, IsNumber(f)
  PROVE  /\ Parts(f) \in Calls /\ Parts(f) # << >>
         /\ Image(f) = BigEndian(f.value, WidthOf(f.type))
  <1>1. f.value \in Nat /\ WidthOf(f.type) \in Nat
    BY FieldFacts
  <1>2. Parts(f) = <<BigEndian(f.value, WidthOf(f.type))>>
    BY DEF Parts, IsNumber, NumberParts
  <1> QED BY <1>1, <1>2, BigEndianIs, OneCall DEF Image

LEMMA ImageOfLong ==
  ASSUME NEW f \in Fields, f.type = "long"
  PROVE  /\ Parts(f) \in Calls /\ Parts(f) # << >>
         /\ Image(f) = BigEndian(High(f.value), 4) \o BigEndian(Low(f.value), 4)
  <1> DEFINE h == BigEndian(High(f.value), 4)
             l == BigEndian(Low(f.value), 4)
  <1>1. High(f.value) \in Nat /\ Low(f.value) \in Nat
    BY FieldFacts, HalvesOfLong
  <1>2. h \in Seq(Byte) /\ l \in Seq(Byte)
    BY <1>1, BigEndianIs
  <1>3. Parts(f) = <<h>> \o <<l>>
    BY DEF Parts, LongParts, NumberParts
  <1> HIDE DEF h, l
  <1>4. Parts(f) \in Calls /\ Parts(f) # << >> /\ Image(f) = h \o l
    BY <1>2, <1>3, TwoCalls DEF Image
  <1> QED BY <1>4 DEF h, l

LEMMA ImageOfString ==
  ASSUME NEW f \in Fields, f.type = "string"
  PROVE  /\ Parts(f) \in Calls /\ Parts(f) # << >>
         /\ Image(f) = LittleEndian(Len(f.value), 8) \o f.value
  <1>1. f.value \in Seq(Byte) /\ Len(f.value) \in Nat
    BY FieldFacts
  <1>2. LittleEndian(Len(f.value), 8) \in Seq(Byte)
    BY <1>1, LittleEndianIs
  <1>3. Parts(f) = <<LittleEndian(Len(f.value), 8)>> \o Bytes(f.value)
    BY DEF Parts, StringParts
  <1> QED BY <1>1, <1>2, <1>3, CallAndBytes DEF Image

LEMMA ImageOfUtf ==
  ASSUME NEW f \in Fields, f.type = "utf"
  PROVE  /\ Parts(f) \in Calls /\ Parts(f) # << >>
         /\ Image(f) = BigEndian(Len(f.value), 2) \o f.value
  <1>1. f.value \in Seq(Byte) /\ Len(f.value) \in Nat
    BY FieldFacts
  <1>2. BigEndian(Len(f.value), 2) \in Seq(Byte)
    BY <1>1, BigEndianIs
  <1>3. Parts(f) = <<BigEndian(Len(f.value), 2)>> \o Bytes(f.value)
    BY DEF Parts, UtfParts, NumberParts
  <1> QED BY <1>1, <1>2, <1>3, CallAndBytes DEF Image

LEMMA PartsTypes ==
  ASSUME NEW f \in Fields
  PROVE  Parts(f) \in Calls /\ Parts(f) # << >>
  BY FieldFacts, ImageOfNumber, ImageOfLong, ImageOfString, ImageOfUtf
     DEF FieldTypes, IsNumber

\* The bytes of the first call, then those of the rest.
LEMMA FlatFacts ==
  ASSUME NEW p \in Calls
  PROVE  /\ Flat(p) \in Seq(Byte)
         /\ p # << >> =>
               /\ Head(p) \in Seq(Byte) /\ Tail(p) \in Calls
               /\ Len(Flat(p)) = Len(Head(p)) + Len(Flat(Tail(p)))
               /\ \A k \in 1 .. Len(Head(p)) : Flat(p)[k] = Head(p)[k]
               /\ \A k \in 1 .. Len(Flat(Tail(p))) :
                     Flat(p)[Len(Head(p)) + k] = Flat(Tail(p))[k]
  <1>1. CASE p = << >>
    BY <1>1 DEF Flat
  <1>2. ASSUME NEW a \in Seq(Byte), p = <<a>>
        PROVE  /\ p # << >> /\ Head(p) = a /\ Tail(p) \in Calls
               /\ Flat(p) = a /\ Flat(Tail(p)) = << >>
    <2>1. Head(p) = a /\ Tail(p) = << >> /\ p # << >>
      BY <1>2, OneOrTwo
    <2>2. Flat(p) = a
      BY <1>2, OneCall
    <2>3. Flat(<< >>) = << >> /\ << >> \in Calls
      BY CallsAre DEF Flat
    <2> QED BY <2>1, <2>2, <2>3
  <1>3. ASSUME NEW a \in Seq(Byte), NEW b \in Seq(Byte), p = <<a, b>>
        PROVE  /\ p # << >> /\ Head(p) = a /\ Tail(p) \in Calls
               /\ Flat(p) = a \o b /\ Flat(Tail(p)) = b
    <2>1. Head(p) = a /\ Tail(p) = <<b>> /\ p # << >> /\ <<a>> \o <<b>> = p
      BY <1>3, OneOrTwo
    <2>2. Flat(p) = a \o b
      BY <2>1, TwoCalls
    <2>3. Flat(<<b>>) = b /\ <<b>> \in Calls
      BY OneCall
    <2> QED BY <2>1, <2>2, <2>3
  <1>4. ASSUME p # << >>
        PROVE  \E a, b \in Seq(Byte) : /\ Head(p) = a /\ Tail(p) \in Calls
                                       /\ Flat(p) = a \o b /\ Flat(Tail(p)) = b
    <2>1. CASE \E a \in Seq(Byte) : p = <<a>>
      <3>1. PICK a \in Seq(Byte) : p = <<a>>
        BY <2>1
      <3>2. a = a \o << >> /\ << >> \in Seq(Byte)
        OBVIOUS
      <3>3. Head(p) = a /\ Tail(p) \in Calls /\ Flat(p) = a /\ Flat(Tail(p)) = << >>
        BY <1>2, <3>1
      <3> QED BY <3>2, <3>3
    <2>2. CASE \E a, b \in Seq(Byte) : p = <<a, b>>
      BY <1>3, <2>2
    <2> QED BY <1>4, <2>1, <2>2, CallsAre
  <1>5. CASE p # << >>
    <2>1. PICK a, b \in Seq(Byte) : /\ Head(p) = a /\ Tail(p) \in Calls
                                   /\ Flat(p) = a \o b /\ Flat(Tail(p)) = b
      BY <1>4, <1>5
    <2>2. /\ a \o b \in Seq(Byte) /\ Len(a \o b) = Len(a) + Len(b)
          /\ \A k \in 1 .. Len(a) : (a \o b)[k] = a[k]
          /\ \A k \in 1 .. Len(b) : (a \o b)[Len(a) + k] = b[k]
      OBVIOUS
    <2> QED BY <1>5, <2>1, <2>2
  <1> QED BY <1>1, <1>5

(***************************************************************************)
(* Types, and the room the writes have.                                    *)
(***************************************************************************)
Values == Nat \cup Seq(Byte)
Results == [ok : BOOLEAN, value : Values, pos : Nat, top : Nat]
Modes == {"idle", "writing", "growing", "copying", "sent", "dropped",
          "reading", "given up", "handed on"}
Cipher == [plain : Seq(Byte), len : Nat]

Types ==
    /\ mode \in Modes /\ cells \in Seq(Byte)
    /\ position \in Nat /\ position <= Len(cells) /\ newSize \in Nat
    /\ meant \in Seq(Fields) /\ todo \in Calls
    /\ failed \in BOOLEAN /\ failures \in 0 .. MaxFailures
    /\ cipher \in Cipher /\ handler \in Handlers /\ got \in Seq(Results)

\* A typed write has calls left just while it goes on; what it grows to is no
\* less than it had, and enough when it copies.
Room ==
    /\ mode \in {"writing", "growing", "copying"} => todo # << >>
    /\ mode = "idle" => todo = << >>
    /\ mode = "growing" => newSize >= Len(cells)
    /\ CopyFits

\* The cipher text is as long as its plain text at least, and nothing is read
\* before it is decrypted.
Stages ==
    /\ mode = "sent" => cipher.len >= Len(cipher.plain)
    /\ mode \notin {"reading", "given up", "handed on"} => got = << >>

BInv == Types /\ Room /\ Stages

LEMMA FreshTypes ==
  ASSUME NEW n \in Nat, NEW f \in Fresh(n)
  PROVE  f \in Seq(Byte) /\ Len(f) = n
  <1>1. PICK b \in Junk : f = [i \in 1 .. n |-> b]
    BY DEF Fresh
  <1>2. b \in Byte
    BY MessageAssumption
  <1> QED BY <1>1, <1>2

LEMMA BytesAtTypes ==
  ASSUME NEW c \in Seq(Byte), NEW pos \in Nat, NEW n \in Nat, pos + n <= Len(c)
  PROVE  /\ SubSeq(c, pos + 1, pos + n) \in Seq(Byte)
         /\ Len(SubSeq(c, pos + 1, pos + n)) = n
         /\ \A k \in 1 .. n : SubSeq(c, pos + 1, pos + n)[k] = c[pos + k]
  OBVIOUS

\* A read of any type, from anywhere in the buffer.
InBuffer(r) == r \in Results /\ r.pos <= Len(cells)

Sound(ok, v, p, t) ==
    ok \in BOOLEAN /\ v \in Values /\ p \in Nat /\ p <= Len(cells) /\ t \in Nat

LEMMA ResultTypes ==
  ASSUME NEW r, NEW ok, NEW v, NEW p, NEW t, Sound(ok, v, p, t), r = Result(ok, v, p, t)
  PROVE  InBuffer(r) /\ r.ok = ok /\ r.value = v /\ r.pos = p
  <1>1. r = [ok |-> ok, value |-> v, pos |-> p, top |-> t]
    BY DEF Result
  <1>2. r.ok = ok /\ r.value = v /\ r.pos = p
    BY <1>1
  <1>3. r \in Results /\ r.pos <= Len(cells)
    BY <1>1 DEF Results, Sound
  <1> QED BY <1>2, <1>3 DEF InBuffer

LEMMA NothingRead ==
  ASSUME NEW r, NEW ok \in BOOLEAN, NEW v \in {0, << >>}, NEW p \in Nat,
         r = Result(ok, v, p, 0), p <= Len(cells)
  PROVE  InBuffer(r) /\ r.ok = ok /\ r.value = v /\ r.pos = p
  <1>1. 0 \in Nat /\ << >> \in Seq(Byte)
    OBVIOUS
  <1>2. Sound(ok, v, p, 0)
    BY <1>1 DEF Sound, Values
  <1> QED BY <1>2, ResultTypes, Zenon

LEMMA NumberRead ==
  ASSUME cells \in Seq(Byte), NEW pos \in Nat, pos <= Len(cells), NEW w \in Nat
  PROVE  /\ InBuffer(ReadNumber(pos, w)) /\ ReadNumber(pos, w).value \in Nat
         /\ ReadNumber(pos, w).pos \in Nat
  <1>1. CASE HasBytes(pos, w)
    <2>1. pos + w <= Len(cells) /\ pos + w \in Nat
      BY <1>1 DEF HasBytes
    <2>2. BytesAt(pos, w) \in Seq(Byte)
      BY <2>1, BytesAtTypes DEF BytesAt
    <2>3. BytesAt(pos, w) \in Seq(Nat)
      BY <2>2, BaseType
    <2>4. FromBig(BytesAt(pos, w)) \in Nat
      BY <2>3, FromBigType
    <2>5. ReadNumber(pos, w) = Result(TRUE, FromBig(BytesAt(pos, w)), pos + w, w)
      BY <1>1 DEF ReadNumber
    <2>6. InBuffer(ReadNumber(pos, w)) /\ ReadNumber(pos, w).value = FromBig(BytesAt(pos, w))
          /\ ReadNumber(pos, w).pos = pos + w
      <3>1. Sound(TRUE, FromBig(BytesAt(pos, w)), pos + w, w)
        BY <2>1, <2>4 DEF Sound, Values
      <3> QED BY <2>5, <3>1, ResultTypes, Zenon
    <2> QED BY <2>1, <2>4, <2>6
  <1>2. CASE ~HasBytes(pos, w)
    <2>1. ReadNumber(pos, w) = Result(TRUE, 0, pos, 0)
      BY <1>2 DEF ReadNumber
    <2>2. InBuffer(ReadNumber(pos, w)) /\ ReadNumber(pos, w).value = 0
          /\ ReadNumber(pos, w).pos = pos
      BY <2>1, NothingRead
    <2> QED BY <2>2
  <1> QED BY <1>1, <1>2

LEMMA BoolRead ==
  ASSUME cells \in Seq(Byte), NEW pos \in Nat, pos <= Len(cells)
  PROVE  InBuffer(ReadBool(pos))
  <1> DEFINE r == ReadNumber(pos, 1)
  <1>1. r \in Results /\ r.pos <= Len(cells)
    BY NumberRead DEF InBuffer
  <1>2. ReadBool(pos) = [r EXCEPT !.value = IF r.value # 0 THEN 1 ELSE 0]
    BY DEF ReadBool
  <1> HIDE DEF r
  <1>3. 0 \in Values /\ 1 \in Values
    BY DEF Values
  <1> QED BY <1>1, <1>2, <1>3 DEF InBuffer, Results

LEMMA LongRead ==
  ASSUME cells \in Seq(Byte), NEW pos \in Nat, pos <= Len(cells)
  PROVE  InBuffer(ReadLong(pos))
  <1> DEFINE high == ReadNumber(pos, 4)
             low == ReadNumber(high.pos, 4)
  <1>1. high.value \in Nat /\ high.pos \in Nat /\ high.pos <= Len(cells)
    BY NumberRead DEF InBuffer
  <1>2. low.value \in Nat /\ low.pos \in Nat /\ low.pos <= Len(cells)
    <2> HIDE DEF high
    <2> QED BY <1>1, NumberRead DEF InBuffer
  <1>3. ReadLong(pos) = Result(TRUE, high.value * Power[4] + low.value, low.pos, 8)
    BY DEF ReadLong
  <1> HIDE DEF high, low
  <1>4. high.value * Power[4] + low.value \in Nat
    <2>1. Power[4] \in Nat
      BY PowerFacts
    <2>2. high.value * Power[4] \in Nat
      BY <1>1, <2>1
    <2> QED BY <1>2, <2>2
  <1>5. Sound(TRUE, high.value * Power[4] + low.value, low.pos, 8)
    BY <1>2, <1>4 DEF Sound, Values
  <1> QED BY <1>3, <1>5, ResultTypes, Zenon

LEMMA StringRead ==
  ASSUME cells \in Seq(Byte), NEW pos \in Nat, pos <= Len(cells)
  PROVE  InBuffer(ReadString(pos))
  <1> DEFINE length == FromLittle(BytesAt(pos, 8))
  <1>1. CASE ~HasBytes(pos, 8)
    <2>1. ReadString(pos) = Result(FALSE, << >>, pos, 0)
      BY <1>1 DEF ReadString
    <2> QED BY <2>1, NothingRead
  <1>2. CASE HasBytes(pos, 8)
    <2>1. pos + 8 <= Len(cells) /\ pos + 8 \in Nat
      BY <1>2 DEF HasBytes
    <2>2. length \in Nat
      <3>1. BytesAt(pos, 8) \in Seq(Byte)
        BY <2>1, BytesAtTypes DEF BytesAt
      <3>2. Reverse(BytesAt(pos, 8)) \in Seq(Nat)
        BY <3>1, BaseType DEF Reverse
      <3> QED BY <3>2, FromBigType DEF FromLittle
    <2>3. CASE length > StringCap \/ (length > 0 /\ ~HasBytes(pos + 8, length))
      <3>1. ReadString(pos) = Result(FALSE, << >>, pos + 8, 0)
        BY <1>2, <2>3 DEF ReadString
      <3> QED BY <2>1, <3>1, NothingRead
    <2>4. CASE ~(length > StringCap \/ (length > 0 /\ ~HasBytes(pos + 8, length)))
      <3>1. ReadString(pos)
               = Result(TRUE, BytesAt(pos + 8, length), pos + 8 + length, length + 1)
        BY <1>2, <2>4 DEF ReadString
      <3> HIDE DEF length
      <3>2. pos + 8 + length <= Len(cells)
        BY <2>1, <2>2, <2>4 DEF HasBytes
      <3>3. BytesAt(pos + 8, length) \in Seq(Byte)
        BY <2>1, <2>2, <3>2, BytesAtTypes DEF BytesAt
      <3>4. Sound(TRUE, BytesAt(pos + 8, length), pos + 8 + length, length + 1)
        BY <2>2, <3>2, <3>3 DEF Sound, Values
      <3> QED BY <3>1, <3>4, ResultTypes, Zenon
    <2> QED BY <2>3, <2>4
  <1> QED BY <1>1, <1>2

LEMMA UtfRead ==
  ASSUME cells \in Seq(Byte), NEW pos \in Nat, pos <= Len(cells)
  PROVE  InBuffer(ReadUtf(pos))
  <1> DEFINE r == ReadNumber(pos, 2)
  <1>1. r.value \in Nat /\ r.pos \in Nat /\ r.pos <= Len(cells)
    BY NumberRead DEF InBuffer
  <1>2. ReadUtf(pos) = IF r.value = 0 THEN Result(TRUE, << >>, r.pos, 0)
                       ELSE IF ~HasBytes(r.pos, r.value) THEN Result(FALSE, << >>, r.pos, 0)
                       ELSE Result(TRUE, BytesAt(r.pos, r.value), r.pos + r.value, 0)
    BY DEF ReadUtf
  <1> HIDE DEF r
  <1>3. CASE r.value = 0
    BY <1>1, <1>2, <1>3, NothingRead
  <1>4. CASE r.value # 0 /\ ~HasBytes(r.pos, r.value)
    BY <1>1, <1>2, <1>4, NothingRead
  <1>5. CASE r.value # 0 /\ HasBytes(r.pos, r.value)
    <2>1. r.pos + r.value <= Len(cells) /\ r.pos + r.value \in Nat
      BY <1>1, <1>5 DEF HasBytes
    <2>2. BytesAt(r.pos, r.value) \in Seq(Byte)
      BY <1>1, <2>1, BytesAtTypes DEF BytesAt
    <2>3. ReadUtf(pos) = Result(TRUE, BytesAt(r.pos, r.value), r.pos + r.value, 0)
      BY <1>2, <1>5
    <2>4. Sound(TRUE, BytesAt(r.pos, r.value), r.pos + r.value, 0)
      BY <2>1, <2>2 DEF Sound, Values
    <2> QED BY <2>3, <2>4, ResultTypes, Zenon
  <1> QED BY <1>3, <1>4, <1>5

LEMMA ReadTypes ==
  ASSUME cells \in Seq(Byte), NEW pos \in Nat, pos <= Len(cells), NEW type \in FieldTypes
  PROVE  InBuffer(Read(type, pos))
  <1>1. CASE type = "bool"
    BY <1>1, BoolRead DEF Read
  <1>2. CASE type \in {"byte", "short", "int"}
    <2>1. WidthOf(type) \in Nat
      BY <1>2 DEF WidthOf
    <2>2. Read(type, pos) = ReadNumber(pos, WidthOf(type))
      BY <1>2 DEF Read
    <2> QED BY <2>1, <2>2, NumberRead
  <1>3. CASE type = "long"
    BY <1>3, LongRead DEF Read
  <1>4. CASE type = "string"
    BY <1>4, StringRead DEF Read
  <1>5. CASE type = "utf"
    BY <1>5, UtfRead DEF Read
  <1> QED BY <1>1, <1>2, <1>3, <1>4, <1>5 DEF FieldTypes

LEMMA ExpectedTypes ==
  ASSUME meant \in Seq(Fields), handler \in Handlers
  PROVE  /\ Expected \in Seq(FieldTypes) /\ Len(Expected) >= Len(meant)
         /\ \A i \in DOMAIN meant : Expected[i] = meant[i].type
  <1> DEFINE s == [i \in DOMAIN meant |-> meant[i].type]
             t == IF handler.extra = "none" THEN << >> ELSE <<handler.extra>>
  <1>1. DOMAIN meant = 1 .. Len(meant) /\ Len(meant) \in Nat
    OBVIOUS
  <1>2. \A i \in 1 .. Len(meant) : meant[i].type \in FieldTypes
    <2>1. \A i \in 1 .. Len(meant) : meant[i] \in Fields
      OBVIOUS
    <2> QED BY <2>1, FieldFacts
  <1>3. s \in Seq(FieldTypes) /\ Len(s) = Len(meant)
    BY <1>1, <1>2
  <1>4. t \in Seq(FieldTypes)
    <2>1. handler.extra \in {"none", "bool", "int", "string"}
      BY DEF Handlers
    <2>2. "bool" \in FieldTypes /\ "int" \in FieldTypes /\ "string" \in FieldTypes
      BY DEF FieldTypes
    <2>3. CASE handler.extra = "none"
      BY <2>3
    <2>4. CASE handler.extra # "none"
      <3>1. handler.extra \in FieldTypes
        BY <2>1, <2>2, <2>4
      <3> QED BY <2>4, <3>1
    <2> QED BY <2>3, <2>4
  <1>5. Expected = s \o t
    BY DEF Expected
  <1>6. \A i \in 1 .. Len(meant) : s[i] = meant[i].type
    BY <1>1
  <1> HIDE DEF s, t
  <1>7. /\ s \o t \in Seq(FieldTypes) /\ Len(s \o t) = Len(s) + Len(t)
        /\ \A i \in 1 .. Len(s) : (s \o t)[i] = s[i]
    BY <1>3, <1>4
  <1>8. Len(t) \in Nat
    BY <1>4
  <1> QED BY <1>1, <1>3, <1>5, <1>6, <1>7, <1>8

LEMMA BInit == Init => BInv
  <1> SUFFICES ASSUME Init PROVE BInv
    OBVIOUS
  <1> USE DEF Init
  <1>1. cells \in Seq(Byte) /\ Len(cells) = InitialSize
    BY FreshTypes, MessageAssumption
  <1>2. << >> \in Seq(Fields) /\ << >> \in Seq(Results) /\ << >> \in Calls
    BY CallsAre
  <1>3. cipher \in Cipher
    <2>1. << >> \in Seq(Byte) /\ 0 \in Nat
      OBVIOUS
    <2> QED BY <2>1 DEF Cipher, NoCipher
  <1>4. handler \in Handlers
    BY DEF Handlers, NoHandler
  <1>5. Types
    <2>1. mode \in Modes /\ failed \in BOOLEAN /\ newSize \in Nat
      BY DEF Modes
    <2>2. failures \in 0 .. MaxFailures
      BY MessageAssumption
    <2>3. position \in Nat /\ position <= Len(cells)
      BY <1>1, MessageAssumption
    <2>4. meant \in Seq(Fields) /\ got \in Seq(Results) /\ todo \in Calls
      BY <1>2
    <2> QED BY <1>1, <1>3, <1>4, <2>1, <2>2, <2>3, <2>4 DEF Types
  <1>6. Room
    BY DEF Room, CopyFits
  <1>7. Stages
    BY DEF Stages
  <1> QED BY <1>5, <1>6, <1>7 DEF BInv

LEMMA BWrite ==
  ASSUME BInv, NEW f \in Fields, Write(f)
  PROVE  BInv'
  <1>1. mode = "idle" /\ todo = << >> /\ got = << >>
    BY DEF BInv, Room, Stages, Write
  <1>2. meant' \in Seq(Fields)
    BY DEF BInv, Types, Write
  <1>3. UNCHANGED <<cells, position, newSize, failures, cipher, handler, got>>
    BY DEF Write, readerVars
  <1>4. CASE TooLong(f)
    <2>1. failed' = TRUE /\ todo' = todo /\ mode' = mode
      BY <1>4 DEF Write
    <2>2. Types'
      BY <1>2, <1>3, <2>1 DEF BInv, Types
    <2>3. Room' /\ Stages'
      BY <1>1, <1>3, <2>1 DEF Room, Stages, CopyFits
    <2> QED BY <2>2, <2>3 DEF BInv
  <1>5. CASE ~TooLong(f)
    <2>1. failed' = failed /\ todo' = Parts(f) /\ mode' = "writing"
      BY <1>5 DEF Write
    <2>2. Types'
      BY <1>2, <1>3, <2>1, PartsTypes DEF BInv, Types, Modes
    <2>3. Room' /\ Stages'
      BY <1>1, <1>3, <2>1, PartsTypes DEF Room, Stages, CopyFits
    <2> QED BY <2>2, <2>3 DEF BInv
  <1> QED BY <1>4, <1>5

LEMMA RequiredType ==
  ASSUME BInv, mode \in {"writing", "growing", "copying"}
  PROVE  /\ Head(todo) \in Seq(Byte) /\ Tail(todo) \in Calls /\ todo # << >>
         /\ Len(Head(todo)) \in Nat /\ Required = position + Len(Head(todo))
         /\ Required \in Nat
  <1>1. todo \in Calls /\ todo # << >> /\ position \in Nat
    BY DEF BInv, Types, Room
  <1>2. Head(todo) \in Seq(Byte) /\ Tail(todo) \in Calls
    BY <1>1, FlatFacts
  <1>3. Len(Head(todo)) \in Nat
    BY <1>2
  <1> QED BY <1>1, <1>2, <1>3 DEF Required

LEMMA BEnsureCapacity ==
  ASSUME BInv, EnsureCapacity
  PROVE  BInv'
  <1>1. mode = "writing" /\ todo # << >> /\ got = << >>
    BY DEF BInv, Room, Stages, EnsureCapacity
  <1>2. UNCHANGED <<cells, position, meant, todo, failed, failures, cipher, handler, got>>
    BY DEF EnsureCapacity, readerVars
  <1>3. Len(cells) \in Nat /\ Required \in Nat
    BY <1>1, RequiredType DEF BInv, Types
  <1>4. Required' = Required
    BY <1>2 DEF Required
  <1>5. CASE Required > Len(cells)
    <2>1. mode' = "growing" /\ newSize' = Len(cells)
      BY <1>5 DEF EnsureCapacity
    <2>2. Types'
      BY <1>2, <1>3, <2>1 DEF BInv, Types, Modes
    <2>3. Room' /\ Stages'
      BY <1>1, <1>2, <1>3, <2>1 DEF Room, Stages, CopyFits
    <2> QED BY <2>2, <2>3 DEF BInv
  <1>6. CASE ~(Required > Len(cells))
    <2>1. mode' = "copying" /\ newSize' = newSize
      BY <1>6 DEF EnsureCapacity
    <2>2. Types'
      BY <1>2, <2>1 DEF BInv, Types, Modes
    <2>3. Room' /\ Stages'
      BY <1>1, <1>2, <1>3, <1>4, <1>6, <2>1 DEF Room, Stages, CopyFits
    <2> QED BY <2>2, <2>3 DEF BInv
  <1> QED BY <1>5, <1>6

LEMMA BDouble ==
  ASSUME BInv, Double
  PROVE  BInv'
  <1>1. /\ mode = "growing" /\ todo # << >> /\ got = << >>
        /\ newSize \in Nat /\ newSize >= Len(cells) /\ Len(cells) \in Nat
    BY DEF BInv, Types, Room, Stages, Double
  <1>2. /\ UNCHANGED <<mode, cells, position, meant, todo, failed, failures, cipher, handler, got>>
        /\ newSize' = 2 * newSize
    BY DEF Double, readerVars
  <1>3. newSize' \in Nat /\ newSize' >= Len(cells)
    BY <1>1, <1>2
  <1>4. Types'
    BY <1>2, <1>3 DEF BInv, Types
  <1>5. Room' /\ Stages'
    BY <1>1, <1>2, <1>3 DEF Room, Stages, CopyFits
  <1> QED BY <1>4, <1>5 DEF BInv

\* What realloc leaves: the bytes there were, then others.
LEMMA Grown ==
  ASSUME BInv, Realloc
  PROVE  /\ cells' \in Seq(Byte) /\ Len(cells') = newSize
         /\ newSize \in Nat /\ Len(cells) <= newSize /\ Required <= newSize
         /\ \A k \in 1 .. Len(cells) : cells'[k] = cells[k]
  <1>1. /\ newSize \in Nat /\ newSize >= Len(cells) /\ cells \in Seq(Byte)
        /\ newSize >= Required /\ Required \in Nat /\ Len(cells) \in Nat
    BY RequiredType DEF BInv, Types, Room, Realloc
  <1>2. newSize - Len(cells) \in Nat
    BY <1>1
  <1>3. PICK f \in Fresh(newSize - Len(cells)) : cells' = cells \o f
    BY DEF Realloc
  <1>4. f \in Seq(Byte) /\ Len(f) = newSize - Len(cells)
    BY <1>2, <1>3, FreshTypes
  <1>5. /\ cells \o f \in Seq(Byte) /\ Len(cells \o f) = Len(cells) + Len(f)
        /\ \A k \in 1 .. Len(cells) : (cells \o f)[k] = cells[k]
    BY <1>1, <1>4
  <1>6. Len(cells \o f) = newSize
    BY <1>1, <1>4, <1>5
  <1> QED BY <1>1, <1>3, <1>5, <1>6

LEMMA BRealloc ==
  ASSUME BInv, Realloc
  PROVE  BInv'
  <1>1. /\ mode = "growing" /\ todo # << >> /\ got = << >>
        /\ position \in Nat /\ position <= Len(cells) /\ Len(cells) \in Nat
    BY DEF BInv, Types, Room, Stages, Realloc
  <1>2. /\ UNCHANGED <<position, meant, todo, newSize, failed, failures, cipher, handler, got>>
        /\ mode' = "copying"
    BY DEF Realloc, readerVars
  <1>3. Required' = Required /\ Required \in Nat
    BY <1>1, <1>2, RequiredType DEF Required
  <1>4. cells' \in Seq(Byte) /\ position' <= Len(cells') /\ Required' <= Len(cells')
    BY <1>1, <1>2, <1>3, Grown
  <1>5. Types'
    BY <1>2, <1>4 DEF BInv, Types, Modes
  <1>6. Room' /\ Stages'
    BY <1>1, <1>2, <1>4 DEF Room, Stages, CopyFits
  <1> QED BY <1>5, <1>6 DEF BInv

LEMMA BReallocFails ==
  ASSUME BInv, ReallocFails
  PROVE  BInv'
  <1>1. mode = "growing" /\ got = << >>
    BY DEF BInv, Stages, ReallocFails
  <1>2. /\ UNCHANGED <<cells, position, meant, newSize, cipher, handler, got>>
        /\ failed' = TRUE /\ todo' = << >> /\ mode' = "idle"
    BY DEF ReallocFails, readerVars
  <1>3. failures' \in 0 .. MaxFailures
    BY MessageAssumption DEF ReallocFails, BInv, Types
  <1>4. Types'
    BY <1>2, <1>3, CallsAre DEF BInv, Types, Modes
  <1>5. Room' /\ Stages'
    BY <1>1, <1>2 DEF Room, Stages, CopyFits
  <1> QED BY <1>4, <1>5 DEF BInv

\* What memcpy leaves.
LEMMA Copied ==
  ASSUME BInv, Copy
  PROVE  /\ cells' \in Seq(Byte) /\ Len(cells') = Len(cells)
         /\ position' = position + Len(Head(todo))
         /\ position' \in Nat /\ position' <= Len(cells')
         /\ \A k \in 1 .. position : cells'[k] = cells[k]
         /\ \A k \in 1 .. Len(Head(todo)) : cells'[position + k] = Head(todo)[k]
  <1> DEFINE part == Head(todo)
  <1>1. /\ part \in Seq(Byte) /\ Len(part) \in Nat /\ position \in Nat
        /\ cells \in Seq(Byte) /\ position + Len(part) <= Len(cells) /\ Len(cells) \in Nat
    BY RequiredType DEF BInv, Types, Room, CopyFits, Copy
  <1>2. cells' = [i \in 1 .. Len(cells) |->
                     IF i \in position + 1 .. position + Len(part)
                     THEN part[i - position] ELSE cells[i]]
    BY DEF Copy
  <1>3. position' = position + Len(part)
    BY DEF Copy
  <1> HIDE DEF part
  <1>4. \A i \in 1 .. Len(cells) :
           (IF i \in position + 1 .. position + Len(part)
            THEN part[i - position] ELSE cells[i]) \in Byte
    BY <1>1
  <1>5. cells' \in Seq(Byte) /\ Len(cells') = Len(cells)
    BY <1>1, <1>2, <1>4
  <1>6. \A k \in 1 .. position : cells'[k] = cells[k]
    BY <1>1, <1>2
  <1>7. \A k \in 1 .. Len(part) : cells'[position + k] = part[k]
    <2>1. \A i \in position + 1 .. position + Len(part) : cells'[i] = part[i - position]
      BY <1>1, <1>2
    <2>2. ASSUME NEW k \in 1 .. Len(part) PROVE cells'[position + k] = part[k]
      <3>1. PICK i : i = position + k
        OBVIOUS
      <3>2. i \in position + 1 .. position + Len(part) /\ i - position = k
        BY <1>1, <3>1
      <3>3. cells'[i] = part[i - position]
        BY <2>1, <3>2
      <3> QED BY <3>1, <3>2, <3>3, Zenon
    <2> QED BY <2>2
  <1>8. position' \in Nat /\ position' <= Len(cells')
    BY <1>1, <1>3, <1>5
  <1> QED BY <1>3, <1>5, <1>6, <1>7, <1>8 DEF part

LEMMA BCopy ==
  ASSUME BInv, Copy
  PROVE  BInv'
  <1>1. mode = "copying" /\ got = << >>
    BY DEF BInv, Stages, Copy
  <1>2. /\ UNCHANGED <<meant, newSize, failed, failures, cipher, handler, got>>
        /\ todo' = Tail(todo) /\ mode' = IF todo' = << >> THEN "idle" ELSE "writing"
    BY DEF Copy, readerVars
  <1>3. todo' \in Calls
    BY <1>1, <1>2, RequiredType
  <1>4. Types'
    BY <1>2, <1>3, Copied DEF BInv, Types, Modes
  <1>5. Room' /\ Stages'
    BY <1>1, <1>2 DEF Room, Stages, CopyFits
  <1> QED BY <1>4, <1>5 DEF BInv

LEMMA CipherLengthIs ==
  ASSUME NEW n \in Nat
  PROVE  CipherLength(n) \in Nat /\ CipherLength(n) >= n
  <1>1. Block \in Nat \ {0}
    BY MessageAssumption
  <1> DEFINE q == n \div Block
             r == n % Block
  <1>2. q \in Nat /\ r \in 0 .. Block - 1 /\ n = Block * q + r
    BY <1>1, Division
  <1> HIDE DEF q, r
  <1>3. (q + 1) * Block = Block * q + Block /\ Block * q \in Nat
    BY <1>1, <1>2
  <1> QED BY <1>1, <1>2, <1>3 DEF CipherLength, q

\* What message_encrypt keeps of the buffer.
LEMMA Encrypted ==
  ASSUME BInv, Encrypt
  PROVE  /\ cipher'.plain \in Seq(Byte) /\ Len(cipher'.plain) = position
         /\ cipher' \in Cipher /\ cipher'.len >= position
         /\ \A k \in 1 .. position : cipher'.plain[k] = cells[k]
  <1> DEFINE p == SubSeq(cells, 1, position)
             n == CipherLength(position)
  <1>1. cells \in Seq(Byte) /\ position \in Nat /\ position <= Len(cells)
    BY DEF BInv, Types
  <1>2. /\ p \in Seq(Byte) /\ Len(p) = position
        /\ \A k \in 1 .. position : p[k] = cells[k]
    BY <1>1
  <1>3. n \in Nat /\ n >= position
    BY <1>1, CipherLengthIs
  <1>4. cipher' = [plain |-> p, len |-> n]
    BY DEF Encrypt
  <1> HIDE DEF p, n
  <1>5. cipher'.plain = p /\ cipher'.len = n
    BY <1>4
  <1>6. cipher' \in Cipher
    BY <1>2, <1>3, <1>4 DEF Cipher
  <1> QED BY <1>2, <1>3, <1>5, <1>6

LEMMA BEncrypt ==
  ASSUME BInv, Encrypt
  PROVE  BInv'
  <1>1. mode = "idle" /\ got = << >> /\ mode' \in {"dropped", "sent"}
    BY DEF BInv, Stages, Encrypt
  <1>2. UNCHANGED <<cells, position, meant, todo, newSize, failed, failures, handler, got>>
    BY DEF Encrypt
  <1>3. Types'
    BY <1>1, <1>2, Encrypted DEF BInv, Types, Modes
  <1>4. Room' /\ Stages'
    BY <1>1, <1>2, Encrypted DEF Room, Stages, CopyFits
  <1> QED BY <1>3, <1>4 DEF BInv

LEMMA BFails ==
  ASSUME BInv, EncryptFails \/ DecryptFails
  PROVE  BInv'
  <1>1. mode \in {"idle", "sent"} /\ got = << >>
    BY DEF BInv, Stages, EncryptFails, DecryptFails
  <1>2. /\ UNCHANGED <<cells, position, meant, todo, newSize, failed, cipher, handler, got>>
        /\ mode' = "dropped"
    BY DEF EncryptFails, DecryptFails, readerVars
  <1>3. failures' \in 0 .. MaxFailures
    BY MessageAssumption DEF EncryptFails, DecryptFails, BInv, Types
  <1>4. Types'
    BY <1>2, <1>3 DEF BInv, Types, Modes
  <1>5. Room' /\ Stages'
    BY <1>1, <1>2 DEF Room, Stages, CopyFits
  <1> QED BY <1>4, <1>5 DEF BInv

\* What message_decrypt leaves: the plain text, then others.
LEMMA Decrypted ==
  ASSUME BInv, Decrypt
  PROVE  /\ cells' \in Seq(Byte) /\ Len(cipher.plain) <= Len(cells')
         /\ Len(cells') \in Nat
         /\ \A k \in 1 .. Len(cipher.plain) : cells'[k] = cipher.plain[k]
  <1>1. /\ cipher.plain \in Seq(Byte) /\ cipher.len \in Nat
        /\ cipher.len >= Len(cipher.plain) /\ Len(cipher.plain) \in Nat
    BY DEF BInv, Types, Cipher, Stages, Decrypt
  <1>2. cipher.len - Len(cipher.plain) \in Nat
    BY <1>1
  <1>3. PICK f \in Fresh(cipher.len - Len(cipher.plain)) : cells' = cipher.plain \o f
    BY DEF Decrypt
  <1> DEFINE p == cipher.plain
  <1>4. f \in Seq(Byte) /\ Len(f) \in Nat
    BY <1>2, <1>3, FreshTypes
  <1>5. p \in Seq(Byte) /\ cells' = p \o f /\ Len(p) \in Nat
    BY <1>1, <1>3
  <1> HIDE DEF p
  <1>6. /\ p \o f \in Seq(Byte) /\ Len(p \o f) = Len(p) + Len(f)
        /\ \A k \in 1 .. Len(p) : (p \o f)[k] = p[k]
    BY <1>4, <1>5
  <1>7. Len(p) <= Len(p) + Len(f) /\ Len(p) + Len(f) \in Nat
    BY <1>4, <1>5
  <1> QED BY <1>5, <1>6, <1>7 DEF p

LEMMA BDecrypt ==
  ASSUME BInv, Decrypt
  PROVE  BInv'
  <1>1. mode = "sent" /\ got = << >> /\ mode' = "reading" /\ position' = 0
    BY DEF BInv, Stages, Decrypt
  <1>2. /\ UNCHANGED <<meant, todo, newSize, failed, failures, cipher, got>>
        /\ handler' \in Handlers
    BY DEF Decrypt
  <1>3. Types'
    BY <1>1, <1>2, Decrypted DEF BInv, Types, Modes
  <1>4. Room' /\ Stages'
    BY <1>1, <1>2 DEF Room, Stages, CopyFits
  <1> QED BY <1>3, <1>4 DEF BInv

\* What a handler's read leaves.
LEMMA NextRead ==
  ASSUME BInv, ReadNext
  PROVE  LET r == Read(Expected[Len(got) + 1], position) IN
         /\ InBuffer(r) /\ got' = Append(got, r) /\ position' = r.pos
         /\ mode' = IF handler.strict /\ ~r.ok THEN "given up" ELSE "reading"
         /\ Len(got) \in Nat /\ Len(got) + 1 <= Len(Expected)
  <1> DEFINE r == Read(Expected[Len(got) + 1], position)
  <1>1. /\ got' = Append(got, r) /\ position' = r.pos /\ Len(got) < Len(Expected)
        /\ mode' = IF handler.strict /\ ~r.ok THEN "given up" ELSE "reading"
    BY DEF ReadNext
  <1>2. Expected \in Seq(FieldTypes) /\ Len(got) \in Nat
    BY ExpectedTypes DEF BInv, Types
  <1>3. Expected[Len(got) + 1] \in FieldTypes /\ Len(got) + 1 <= Len(Expected)
    <2>1. Len(got) < Len(Expected)
      BY <1>1
    <2> QED BY <1>2, <2>1
  <1>4. InBuffer(r)
    BY <1>3, ReadTypes DEF BInv, Types
  <1> QED BY <1>1, <1>2, <1>3, <1>4

LEMMA BReadNext ==
  ASSUME BInv, ReadNext
  PROVE  BInv'
  <1> DEFINE r == Read(Expected[Len(got) + 1], position)
  <1>1. /\ InBuffer(r) /\ got' = Append(got, r) /\ position' = r.pos
        /\ mode' \in {"given up", "reading"} /\ mode = "reading"
    BY NextRead DEF ReadNext
  <1> HIDE DEF r
  <1>2. UNCHANGED <<cells, meant, todo, newSize, failed, failures, cipher, handler>>
    BY DEF ReadNext
  <1>3. got' \in Seq(Results) /\ position' \in Nat /\ position' <= Len(cells)
    <2>1. got \in Seq(Results) /\ r \in Results /\ r.pos <= Len(cells)
      BY <1>1 DEF InBuffer, BInv, Types
    <2>2. r.pos \in Nat
      BY <2>1 DEF Results
    <2>3. got' = Append(got, r)
      BY <1>1
    <2>4. got' \in Seq(Results)
      BY <2>1, <2>3, AppendProperties, Zenon
    <2> QED BY <1>1, <2>1, <2>2, <2>4
  <1>4. Types'
    BY <1>1, <1>2, <1>3 DEF BInv, Types, Modes
  <1>5. Room' /\ Stages'
    BY <1>1, <1>2 DEF Room, Stages, CopyFits
  <1> QED BY <1>4, <1>5 DEF BInv

\* What a read that finds no memory leaves: the result of reading only the
\* length, as a failed one.
LEMMA FailedRead ==
  ASSUME BInv, ReadUtfFails
  PROVE  LET r == Result(FALSE, << >>, ReadNumber(position, 2).pos, 0) IN
         /\ InBuffer(r) /\ r.ok = FALSE /\ got' = Append(got, r) /\ position' = r.pos
         /\ Len(got) \in Nat /\ Len(got) + 1 <= Len(Expected)
  <1> DEFINE q == ReadNumber(position, 2)
             r == Result(FALSE, << >>, q.pos, 0)
  <1>1. cells \in Seq(Byte) /\ position \in Nat /\ position <= Len(cells)
    BY DEF BInv, Types
  <1>2. q.pos \in Nat /\ q.pos <= Len(cells)
    BY <1>1, NumberRead DEF InBuffer
  <1>3. got' = Append(got, Result(FALSE, << >>, q.pos, 0)) /\ position' = q.pos
    BY DEF ReadUtfFails
  <1>4. Len(got) \in Nat /\ Len(got) + 1 <= Len(Expected)
    <2>1. Expected \in Seq(FieldTypes) /\ Len(got) \in Nat
      BY ExpectedTypes DEF BInv, Types
    <2>2. Len(got) < Len(Expected)
      BY DEF ReadUtfFails
    <2> QED BY <2>1, <2>2
  <1> HIDE DEF q
  <1>5. InBuffer(r)
    BY <1>1, <1>2, NothingRead
  <1>6. r.ok = FALSE /\ r.pos = q.pos
    BY DEF Result
  <1> QED BY <1>3, <1>4, <1>5, <1>6 DEF q

LEMMA BReadUtfFails ==
  ASSUME BInv, ReadUtfFails
  PROVE  BInv'
  <1> DEFINE r == Result(FALSE, << >>, ReadNumber(position, 2).pos, 0)
  <1>1. InBuffer(r) /\ got' = Append(got, r) /\ position' = r.pos
    BY FailedRead
  <1> HIDE DEF r
  <1>2. /\ UNCHANGED <<cells, meant, todo, newSize, failed, cipher, handler>>
        /\ mode' \in {"given up", "reading"} /\ mode = "reading"
        /\ failures < MaxFailures /\ failures' = failures + 1
    BY DEF ReadUtfFails
  <1>3. got' \in Seq(Results) /\ position' \in Nat /\ position' <= Len(cells)
    <2>1. got \in Seq(Results) /\ r \in Results /\ r.pos <= Len(cells)
      BY <1>1 DEF InBuffer, BInv, Types
    <2>2. r.pos \in Nat
      BY <2>1 DEF Results
    <2>3. got' = Append(got, r)
      BY <1>1
    <2>4. got' \in Seq(Results)
      BY <2>1, <2>3, AppendProperties, Zenon
    <2> QED BY <1>1, <2>1, <2>2, <2>4
  <1>4. failures' \in 0 .. MaxFailures
    <2>1. failures \in 0 .. MaxFailures /\ MaxFailures \in Nat
      BY MessageAssumption DEF BInv, Types
    <2>2. failures < MaxFailures /\ failures' = failures + 1
      BY <1>2
    <2> QED BY <2>1, <2>2
  <1>5. Types'
    BY <1>2, <1>3, <1>4 DEF BInv, Types, Modes
  <1>6. Room' /\ Stages'
    BY <1>1, <1>2 DEF Room, Stages, CopyFits
  <1> QED BY <1>5, <1>6 DEF BInv

LEMMA BHandOn ==
  ASSUME BInv, HandOn
  PROVE  BInv'
  <1>1. mode = "reading" /\ mode' = "handed on"
    BY DEF HandOn
  <1>2. UNCHANGED <<cells, position, meant, todo, newSize, failed, failures,
                    cipher, handler, got>>
    BY DEF HandOn
  <1>3. Types'
    BY <1>1, <1>2 DEF BInv, Types, Modes
  <1>4. Room' /\ Stages'
    BY <1>1, <1>2 DEF Room, Stages, CopyFits
  <1> QED BY <1>3, <1>4 DEF BInv

LEMMA BStep ==
  ASSUME BInv, [Next]_vars
  PROVE  BInv'
  <1>1. CASE UNCHANGED vars
    BY <1>1 DEF vars, BInv, Types, Room, Stages, CopyFits, Required
  <1>2. CASE Next
    BY <1>2, BWrite, BEnsureCapacity, BDouble, BRealloc, BReallocFails, BCopy, BEncrypt,
       BFails, BDecrypt, BReadNext, BReadUtfFails, BHandOn DEF Next
  <1> QED BY <1>1, <1>2

LEMMA BInvariant == Spec => []BInv
  <1>1. BInv /\ [Next]_vars => BInv'
    BY BStep
  <1> QED BY BInit, <1>1, PTL DEF Spec

\* The message, its buffer and what is read of it are of their types, the
\* position never past the buffer (message.c:62-116).
THEOREM MessageTypesCorrect == Spec => []TypeOK
  <1>1. BInv => TypeOK
    <2> SUFFICES ASSUME BInv PROVE TypeOK
      OBVIOUS
    <2>1. mode \in Modes /\ todo \in Seq(Seq(Byte))
      BY CallsAre DEF BInv, Types
    <2>2. cipher.plain \in Seq(Byte) /\ cipher.len \in Nat
      BY DEF BInv, Types, Cipher
    <2>3. \A i \in DOMAIN got : got[i].ok \in BOOLEAN /\ got[i].pos \in Nat
      <3>1. \A i \in DOMAIN got : got[i] \in Results
        BY DEF BInv, Types
      <3> QED BY <3>1 DEF Results
    <2> QED BY <2>1, <2>2, <2>3 DEF BInv, Types, TypeOK, Modes
  <1> QED BY <1>1, BInvariant, PTL

\* No write of any field leaves the buffer, whatever the sizes and however
\* often the buffer has had to grow (message_ensure_capacity, message_write).
THEOREM WritesFit == Spec => []CopyFits
  <1>1. BInv => CopyFits
    BY DEF BInv, Room
  <1> QED BY <1>1, BInvariant, PTL

(***************************************************************************)
(* What is read where a field's bytes lie.                                 *)
(***************************************************************************)

\* The bytes b lie in the buffer behind the first pos.
Lies(b, pos) == pos + Len(b) <= Len(cells) /\ \A k \in 1 .. Len(b) : cells[pos + k] = b[k]

\* A read that is all right gives v and leaves position at p.
Gives(r, ok, v, p) == r.ok = ok /\ r.value = v /\ r.pos = p
Reads(r, v, p) == Gives(r, TRUE, v, p)

LEMMA ReadsIs ==
  ASSUME NEW v, NEW p, NEW t
  PROVE  Reads(Result(TRUE, v, p, t), v, p)
  BY DEF Reads, Gives, Result

LEMMA BytesOf ==
  ASSUME cells \in Seq(Byte), NEW pos \in Nat, NEW b \in Seq(Byte), Lies(b, pos)
  PROVE  BytesAt(pos, Len(b)) = b
  <1> DEFINE s == BytesAt(pos, Len(b))
  <1>1. /\ s \in Seq(Byte) /\ Len(s) = Len(b)
        /\ \A k \in 1 .. Len(b) : s[k] = cells[pos + k]
    BY BytesAtTypes DEF BytesAt, Lies
  <1>2. \A k \in 1 .. Len(s) : s[k] = b[k]
    BY <1>1 DEF Lies
  <1> HIDE DEF s
  <1>3. s = b
    BY <1>1, <1>2, SeqEqual, Zenon
  <1> QED BY <1>3 DEF s

Joined(c, a, b) == a \in Seq(Byte) /\ b \in Seq(Byte) /\ c = a \o b
BothLie(c, a, b, pos) == Lies(a, pos) /\ Lies(b, pos + Len(a)) /\ Len(c) = Len(a) + Len(b)

LEMMA LiesInTwo ==
  ASSUME NEW pos \in Nat, NEW c, NEW a, NEW b, Joined(c, a, b), Lies(c, pos)
  PROVE  BothLie(c, a, b, pos)
  <1>0. /\ Len(a \o b) = Len(a) + Len(b) /\ Len(a) \in Nat /\ Len(b) \in Nat
        /\ \A k \in 1 .. Len(a) : (a \o b)[k] = a[k]
        /\ \A k \in 1 .. Len(b) : (a \o b)[Len(a) + k] = b[k]
    BY DEF Joined
  <1>1. /\ Len(c) = Len(a) + Len(b) /\ Len(a) \in Nat /\ Len(b) \in Nat
        /\ \A k \in 1 .. Len(a) : c[k] = a[k]
        /\ \A k \in 1 .. Len(b) : c[Len(a) + k] = b[k]
    BY <1>0, Zenon DEF Joined
  <1>2. /\ pos + Len(c) <= Len(cells)
        /\ \A k \in 1 .. Len(c) : cells[pos + k] = c[k]
    BY DEF Lies
  <1>3. Lies(a, pos)
    <2>1. pos + Len(a) <= Len(cells)
      BY <1>1, <1>2
    <2>2. \A k \in 1 .. Len(a) : cells[pos + k] = a[k]
      <3>1. \A k \in 1 .. Len(a) : k \in 1 .. Len(c)
        BY <1>1
      <3> QED BY <1>1, <1>2, <3>1, Zenon
    <2> QED BY <2>1, <2>2 DEF Lies
  <1>4. Lies(b, pos + Len(a))
    <2>1. (pos + Len(a)) + Len(b) <= Len(cells)
      BY <1>1, <1>2
    <2>2. ASSUME NEW k \in 1 .. Len(b) PROVE cells[(pos + Len(a)) + k] = b[k]
      <3>1. Len(a) + k \in 1 .. Len(c) /\ pos + (Len(a) + k) = (pos + Len(a)) + k
        BY <1>1
      <3>2. cells[pos + (Len(a) + k)] = c[Len(a) + k]
        BY <1>2, <3>1, Zenon
      <3>3. c[Len(a) + k] = b[k]
        BY <1>1
      <3> QED BY <3>1, <3>2, <3>3, Zenon
    <2> QED BY <2>1, <2>2 DEF Lies
  <1> QED BY <1>1, <1>3, <1>4 DEF BothLie

\* The bytes a, m of them, then those of a string.
Prefixed(c, m, a, v) ==
    m \in Nat \ {0} /\ a \in Seq(Byte) /\ Len(a) = m /\ v \in Seq(Byte) /\ c = a \o v
Found(c, m, a, v, pos) ==
    /\ Lies(a, pos) /\ HasBytes(pos, m) /\ BytesAt(pos, m) = a
    /\ Lies(v, pos + m) /\ BytesAt(pos + m, Len(v)) = v
    /\ Len(v) > 0 => HasBytes(pos + m, Len(v))
    /\ pos + m + Len(v) = pos + Len(c)

LEMMA StringBehind ==
  ASSUME cells \in Seq(Byte), NEW pos \in Nat, NEW c, NEW m, NEW a, NEW v,
         Prefixed(c, m, a, v), Lies(c, pos)
  PROVE  Found(c, m, a, v, pos)
  <1>0. m \in Nat \ {0} /\ a \in Seq(Byte) /\ Len(a) = m /\ v \in Seq(Byte) /\ c = a \o v
    BY DEF Prefixed
  <1>1. Lies(a, pos) /\ Lies(v, pos + Len(a)) /\ Len(c) = Len(a) + Len(v)
    <2>1. Joined(c, a, v)
      BY <1>0 DEF Joined
    <2>2. BothLie(c, a, v, pos)
      BY <2>1, LiesInTwo, Zenon
    <2> QED BY <2>2, Zenon DEF BothLie
  <1>2. Lies(v, pos + m) /\ pos + m \in Nat
    BY <1>0, <1>1
  <1>3. HasBytes(pos, m)
    <2>1. pos + m <= Len(cells)
      BY <1>0, <1>1 DEF Lies
    <2> QED BY <1>0, <2>1 DEF HasBytes
  <1>4. Len(v) > 0 => HasBytes(pos + m, Len(v))
    <2>1. pos + m + Len(v) <= Len(cells)
      BY <1>0, <1>2 DEF Lies
    <2> QED BY <1>0, <2>1 DEF HasBytes
  <1>5. BytesAt(pos, Len(a)) = a /\ BytesAt(pos + m, Len(v)) = v
    BY <1>0, <1>1, <1>2, BytesOf
  <1>6. pos + m + Len(v) = pos + Len(c)
    BY <1>0, <1>1
  <1> QED BY <1>0, <1>1, <1>2, <1>3, <1>4, <1>5, <1>6, Zenon DEF Found

LEMMA NumberIs ==
  ASSUME cells \in Seq(Byte), NEW pos \in Nat, NEW v \in Nat, NEW w \in Nat \ {0},
         v < Power[w], Lies(BigEndian(v, w), pos)
  PROVE  Reads(ReadNumber(pos, w), v, pos + w)
  <1>1. BigEndian(v, w) \in Seq(Byte) /\ Len(BigEndian(v, w)) = w
    BY BigEndianIs
  <1>2. BytesAt(pos, w) = BigEndian(v, w)
    BY <1>1, BytesOf
  <1>3. FromBig(BytesAt(pos, w)) = v
    BY <1>2, FromBigOfBigEndian
  <1>4. HasBytes(pos, w)
    BY <1>1 DEF HasBytes, Lies
  <1>5. ReadNumber(pos, w) = Result(TRUE, v, pos + w, w)
    BY <1>3, <1>4 DEF ReadNumber
  <1> QED BY <1>5, ReadsIs

LEMMA ChangedValue ==
  ASSUME NEW ok, NEW v, NEW x, NEW p, NEW t, NEW r, NEW s,
         r = Result(ok, v, p, t), s = [r EXCEPT !.value = x]
  PROVE  Gives(s, ok, x, p)
  BY DEF Result, Gives

LEMMA ReadNumberIs ==
  ASSUME cells \in Seq(Byte), NEW pos \in Nat, NEW f \in Fields, IsNumber(f),
         Lies(Image(f), pos)
  PROVE  Reads(Read(f.type, pos), f.value, pos + Len(Image(f)))
  <1> DEFINE w == WidthOf(f.type)
             v == f.value
  <1>1. w \in Nat \ {0} /\ v \in Nat /\ v < Power[w]
    BY FieldFacts
  <1>2. Image(f) = BigEndian(v, w) /\ Len(Image(f)) = w
    BY <1>1, ImageOfNumber, BigEndianIs
  <1>3. Reads(ReadNumber(pos, w), v, pos + w)
    BY <1>1, <1>2, NumberIs
  <1>4. CASE f.type = "bool"
    <2>1. w = 1 /\ v \in {0, 1}
      BY <1>4, FieldFacts DEF WidthOf
    <2>2. HasBytes(pos, 1)
      BY <1>2, <2>1 DEF HasBytes, Lies
    <2> DEFINE x == FromBig(BytesAt(pos, 1))
    <2>3. ReadNumber(pos, 1) = Result(TRUE, x, pos + 1, 1)
      BY <2>2 DEF ReadNumber
    <2>4. x = v
      BY <1>3, <2>1, <2>3 DEF Reads, Gives, Result
    <2> HIDE DEF x, v
    <2>5. PICK r : r = ReadNumber(pos, 1) /\ r = Result(TRUE, v, pos + 1, 1)
      BY <2>3, <2>4
    <2>6. ReadBool(pos) = [r EXCEPT !.value = IF r.value # 0 THEN 1 ELSE 0]
      BY <2>5 DEF ReadBool
    <2>7. Reads(ReadBool(pos), v, pos + 1)
      <3>1. r.value = v
        BY <2>5 DEF Result
      <3>2. (IF r.value # 0 THEN 1 ELSE 0) = v
        BY <2>1, <3>1
      <3>3. ReadBool(pos) = [r EXCEPT !.value = v]
        BY <2>6, <3>2
      <3> QED BY <2>5, <3>3, ChangedValue, Zenon DEF Reads
    <2>8. Read(f.type, pos) = ReadBool(pos)
      BY <1>4 DEF Read
    <2> QED BY <1>2, <2>1, <2>7, <2>8 DEF v
  <1>5. CASE f.type # "bool"
    <2>1. Read(f.type, pos) = ReadNumber(pos, w)
      BY <1>5 DEF Read, IsNumber
    <2> QED BY <1>2, <1>3, <2>1
  <1> QED BY <1>4, <1>5

LEMMA ReadLongIs ==
  ASSUME cells \in Seq(Byte), NEW pos \in Nat, NEW f \in Fields, f.type = "long",
         Lies(Image(f), pos)
  PROVE  Reads(Read(f.type, pos), f.value, pos + Len(Image(f)))
  <1> DEFINE h == High(f.value)
             l == Low(f.value)
  <1>1. /\ h \in Nat /\ h < Power[4] /\ l \in Nat /\ l < Power[4]
        /\ h * Power[4] + l = f.value
    BY FieldFacts, HalvesOfLong
  <1>2. Image(f) = BigEndian(h, 4) \o BigEndian(l, 4)
    BY ImageOfLong
  <1> HIDE DEF h, l
  <1>3. /\ BigEndian(h, 4) \in Seq(Byte) /\ Len(BigEndian(h, 4)) = 4
        /\ BigEndian(l, 4) \in Seq(Byte) /\ Len(BigEndian(l, 4)) = 4
    BY <1>1, BigEndianIs
  <1>4. Lies(BigEndian(h, 4), pos) /\ Lies(BigEndian(l, 4), pos + 4) /\ Len(Image(f)) = 8
    <2>1. Joined(Image(f), BigEndian(h, 4), BigEndian(l, 4))
      BY <1>2, <1>3 DEF Joined
    <2>2. BothLie(Image(f), BigEndian(h, 4), BigEndian(l, 4), pos)
      BY <2>1, LiesInTwo, Zenon
    <2>3. 4 + 4 = 8
      OBVIOUS
    <2> QED BY <1>3, <2>2, <2>3, Zenon DEF BothLie
  <1>5. Reads(ReadNumber(pos, 4), h, pos + 4)
    BY <1>1, <1>4, NumberIs
  <1>6. Reads(ReadNumber(pos + 4, 4), l, (pos + 4) + 4)
    BY <1>1, <1>4, NumberIs
  <1> DEFINE r == ReadNumber(pos, 4)
             q == ReadNumber(r.pos, 4)
  <1>7. Read(f.type, pos) = Result(TRUE, r.value * Power[4] + q.value, q.pos, 8)
    BY DEF Read, ReadLong
  <1>8. r.value = h /\ r.pos = pos + 4
    BY <1>5 DEF Reads, Gives
  <1>9. q.value = l /\ q.pos = pos + 8
    <2> HIDE DEF r
    <2>1. q = ReadNumber(pos + 4, 4)
      BY <1>8
    <2> HIDE DEF q
    <2>2. q.value = l /\ q.pos = (pos + 4) + 4
      BY <1>6, <2>1 DEF Reads, Gives
    <2>3. (pos + 4) + 4 = pos + 8
      OBVIOUS
    <2> QED BY <2>2, <2>3
  <1> HIDE DEF r, q
  <1>10. Read(f.type, pos) = Result(TRUE, f.value, pos + 8, 8)
    BY <1>1, <1>7, <1>8, <1>9
  <1> QED BY <1>4, <1>10, ReadsIs

LEMMA ReadStringIs ==
  ASSUME cells \in Seq(Byte), NEW pos \in Nat, NEW f \in Fields, f.type = "string",
         Lies(Image(f), pos)
  PROVE  /\ Fits(f) => Reads(Read(f.type, pos), f.value, pos + Len(Image(f)))
         /\ ~Fits(f) => ~Read(f.type, pos).ok
  <1>1. PICK v \in Seq(Byte) : v = f.value /\ Len(v) < Power[8]
    BY FieldFacts
  <1>2. PICK n \in Nat : n = Len(v)
    OBVIOUS
  <1>3. PICK a \in Seq(Byte) : a = LittleEndian(n, 8) /\ Len(a) = 8
    BY LittleEndianIs
  <1>4. FromLittle(a) = n
    BY <1>1, <1>2, <1>3, FromLittleOfLittleEndian
  <1>5. PICK c : c = Image(f) /\ c = a \o v
    BY <1>1, <1>2, <1>3, ImageOfString
  <1>6. /\ HasBytes(pos, 8) /\ BytesAt(pos, 8) = a /\ BytesAt(pos + 8, Len(v)) = v
        /\ Len(v) > 0 => HasBytes(pos + 8, Len(v))
        /\ pos + 8 + Len(v) = pos + Len(c)
    <2>1. Lies(c, pos)
      BY <1>5
    <2>2. Prefixed(c, 8, a, v)
      BY <1>3, <1>5 DEF Prefixed
    <2>3. Found(c, 8, a, v, pos)
      BY <2>1, <2>2, StringBehind, Zenon
    <2> QED BY <2>3, Zenon DEF Found
  <1>7. FromLittle(BytesAt(pos, 8)) = n
    BY <1>4, <1>6
  <1>8. Read(f.type, pos) = ReadString(pos)
    BY DEF Read
  <1>9. Fits(f) <=> n <= StringCap
    BY <1>1, <1>2 DEF Fits
  <1>10. CASE Fits(f)
    <2>1. ~(n > StringCap)
      BY <1>9, <1>10, MessageAssumption
    <2>2. ReadString(pos) = Result(TRUE, BytesAt(pos + 8, n), pos + 8 + n, n + 1)
      BY <1>2, <1>6, <1>7, <2>1 DEF ReadString
    <2>3. Read(f.type, pos) = Result(TRUE, f.value, pos + Len(Image(f)), n + 1)
      BY <1>1, <1>2, <1>5, <1>6, <1>8, <2>2, Zenon
    <2> QED BY <1>10, <2>3, ReadsIs
  <1>11. CASE ~Fits(f)
    <2>1. n > StringCap
      BY <1>9, <1>11, MessageAssumption
    <2>2. ReadString(pos) = Result(FALSE, << >>, pos + 8, 0)
      BY <1>6, <1>7, <2>1 DEF ReadString
    <2>3. ~ReadString(pos).ok
      BY <2>2 DEF Result
    <2> QED BY <1>8, <1>11, <2>3
  <1> QED BY <1>10, <1>11

LEMMA ReadUtfIs ==
  ASSUME cells \in Seq(Byte), NEW pos \in Nat, NEW f \in Fields, f.type = "utf",
         ~TooLong(f), Lies(Image(f), pos)
  PROVE  Reads(Read(f.type, pos), f.value, pos + Len(Image(f)))
  <1>1. PICK v \in Seq(Byte) : v = f.value
    BY FieldFacts
  <1>2. PICK n \in Nat : n = Len(v)
    OBVIOUS
  <1>3. n < Power[2]
    <2>1. Power[2] \in Nat
      BY PowerFacts
    <2>2. ~(n >= Power[2])
      BY <1>1, <1>2 DEF TooLong
    <2> QED BY <2>1, <2>2
  <1>4. PICK a \in Seq(Byte) : a = BigEndian(n, 2) /\ Len(a) = 2
    BY BigEndianIs
  <1>5. PICK c : c = Image(f) /\ c = a \o v
    BY <1>1, <1>2, <1>4, ImageOfUtf
  <1>6. /\ Lies(a, pos) /\ BytesAt(pos + 2, Len(v)) = v
        /\ Len(v) > 0 => HasBytes(pos + 2, Len(v))
        /\ pos + 2 + Len(v) = pos + Len(c)
    <2>1. Lies(c, pos)
      BY <1>5
    <2>2. Prefixed(c, 2, a, v)
      BY <1>4, <1>5 DEF Prefixed
    <2>3. Found(c, 2, a, v, pos)
      BY <2>1, <2>2, StringBehind, Zenon
    <2> QED BY <2>3, Zenon DEF Found
  <1>7. Reads(ReadNumber(pos, 2), n, pos + 2)
    BY <1>3, <1>4, <1>6, NumberIs
  <1>8. PICK r : r = ReadNumber(pos, 2) /\ r.value = n /\ r.pos = pos + 2
    BY <1>7 DEF Reads, Gives
  <1>9. Read(f.type, pos) = IF r.value = 0 THEN Result(TRUE, << >>, r.pos, 0)
                            ELSE IF ~HasBytes(r.pos, r.value) THEN Result(FALSE, << >>, r.pos, 0)
                            ELSE Result(TRUE, BytesAt(r.pos, r.value), r.pos + r.value, 0)
    BY <1>8 DEF Read, ReadUtf
  <1>10. CASE n = 0
    <2>1. v = << >>
      BY <1>2, <1>10, EmptySeq, Zenon
    <2>2. pos + 2 + 0 = pos + 2
      OBVIOUS
    <2>3. Read(f.type, pos) = Result(TRUE, f.value, pos + Len(Image(f)), 0)
      BY <1>1, <1>2, <1>5, <1>6, <1>8, <1>9, <1>10, <2>1, <2>2, Zenon
    <2> QED BY <2>3, ReadsIs
  <1>11. CASE n # 0
    <2>1. HasBytes(pos + 2, n)
      BY <1>2, <1>6, <1>11
    <2>2. Read(f.type, pos) = Result(TRUE, f.value, pos + Len(Image(f)), 0)
      BY <1>1, <1>2, <1>5, <1>6, <1>8, <1>9, <1>11, <2>1, Zenon
    <2> QED BY <2>2, ReadsIs
  <1> QED BY <1>10, <1>11

\* A field that a handler reads where its bytes lie is the one written, and is
\* reported just when it does not fit.
LEMMA ReadIs ==
  ASSUME cells \in Seq(Byte), NEW pos \in Nat, NEW f \in Fields, ~TooLong(f),
         Lies(Image(f), pos)
  PROVE  /\ Fits(f) => Reads(Read(f.type, pos), f.value, pos + Len(Image(f)))
         /\ ~Fits(f) => ~Read(f.type, pos).ok
  <1>1. CASE f.type = "string"
    BY <1>1, ReadStringIs
  <1>2. CASE f.type # "string"
    <2>1. Fits(f)
      BY <1>2 DEF Fits
    <2>2. Reads(Read(f.type, pos), f.value, pos + Len(Image(f)))
      BY <1>2, FieldFacts, ReadNumberIs, ReadLongIs, ReadUtfIs DEF FieldTypes, IsNumber
    <2> QED BY <2>1, <2>2
  <1> QED BY <1>1, <1>2

(***************************************************************************)
(* Where the fields lie in the buffer.                                     *)
(***************************************************************************)

\* Field i begins behind the at[i] bytes of the fields before it.
Offsets(at) ==
    /\ at \in Seq(Nat) /\ Len(at) = Len(meant) + 1 /\ at[1] = 0
    /\ \A i \in 1 .. Len(meant) : /\ at[i + 1] = at[i] + Len(Image(meant[i]))
                                  /\ ~TooLong(meant[i])
    /\ \A i, j \in 1 .. Len(at) : i <= j => at[i] <= at[j]

\* The bytes of all the fields are in c.
Holds(c, at) ==
    /\ at[Len(meant) + 1] <= Len(c)
    /\ \A i \in 1 .. Len(meant) :
          \A k \in 1 .. Len(Image(meant[i])) : c[at[i] + k] = Image(meant[i])[k]

\* While it is written, those up to position are, and what the last field's
\* calls have left to write are the rest of its bytes.
Rest(at) ==
    LET n == Len(meant)
    IN  \A k \in 1 .. Len(Flat(todo)) :
           /\ n > 0 /\ at[n] <= position
           /\ Flat(todo)[k] = Image(meant[n])[position - at[n] + k]
Begun(at) ==
    /\ at[Len(meant) + 1] = position + Len(Flat(todo))
    /\ \A i \in 1 .. Len(meant) : \A k \in 1 .. Len(Image(meant[i])) :
          at[i] + k <= position => cells[at[i] + k] = Image(meant[i])[k]
    /\ Rest(at)

\* When it is read, the handler is at the next field's first byte until a
\* read has failed.
AtNext(at) ==
    (Len(got) <= Len(meant) /\ \A j \in 1 .. Len(got) : got[j].ok)
        => position = at[Len(got) + 1]

Building == {"idle", "writing", "growing", "copying"}
Reading == {"reading", "given up", "handed on"}

Laid(at) ==
    /\ Offsets(at)
    /\ mode \in Building => Begun(at)
    /\ mode = "sent" => Holds(cipher.plain, at)
    /\ mode \in Reading => Holds(cells, at) /\ AtNext(at)

\* Every string that fits is read as it was written, one exactly as long as
\* the buffer included.
ReadsWhole ==
    ~failed =>
        \A i \in DOMAIN got \cap DOMAIN meant :
            (\A j \in 1 .. i - 1 : got[j].ok) =>
                IF got[i].ok THEN Fits(meant[i]) /\ got[i].value = meant[i].value
                ELSE MayFail(meant[i])

\* A handler that is strict is past no failed read.
StrictOk ==
    /\ (mode \in {"reading", "handed on"} /\ handler.strict)
          => \A i \in DOMAIN got : got[i].ok
    /\ mode = "handed on" => Len(got) >= Len(meant)

LInv ==
    /\ BInv
    /\ ~failed => \E at : Laid(at)
    /\ ReadsWhole /\ StrictOk

LEMMA OffsetFacts ==
  ASSUME BInv, NEW at, Offsets(at)
  PROVE  /\ Len(meant) \in Nat /\ at[1] = 0
         /\ \A i \in 1 .. Len(meant) + 1 : at[i] \in Nat /\ at[i] <= at[Len(meant) + 1]
         /\ \A i, j \in 1 .. Len(meant) + 1 : i <= j => at[i] <= at[j]
         /\ \A i \in 1 .. Len(meant) :
               /\ meant[i] \in Fields /\ ~TooLong(meant[i])
               /\ Image(meant[i]) \in Seq(Byte) /\ Len(Image(meant[i])) \in Nat
               /\ at[i + 1] = at[i] + Len(Image(meant[i]))
  <1>1. meant \in Seq(Fields) /\ Len(meant) \in Nat
    BY DEF BInv, Types
  <1>2. \A f \in Fields : Image(f) \in Seq(Byte) /\ Len(Image(f)) \in Nat
    <2>1. \A f \in Fields : Image(f) \in Seq(Byte)
      BY PartsTypes, FlatFacts DEF Image
    <2> QED BY <2>1
  <1>3. \A i \in 1 .. Len(meant) : meant[i] \in Fields
    BY <1>1
  <1>4. at \in Seq(Nat) /\ Len(at) = Len(meant) + 1 /\ at[1] = 0
    BY DEF Offsets
  <1>5. \A i, j \in 1 .. Len(meant) + 1 : i <= j => at[i] <= at[j]
    BY <1>4 DEF Offsets
  <1>6. \A i \in 1 .. Len(meant) + 1 : at[i] \in Nat /\ at[i] <= at[Len(meant) + 1]
    <2>1. \A i \in 1 .. Len(meant) + 1 : at[i] \in Nat
      BY <1>1, <1>4
    <2>2. Len(meant) + 1 \in 1 .. Len(meant) + 1
      BY <1>1
    <2> QED BY <1>5, <2>1, <2>2
  <1>7. \A i \in 1 .. Len(meant) : /\ at[i + 1] = at[i] + Len(Image(meant[i]))
                                   /\ ~TooLong(meant[i])
    BY DEF Offsets
  <1> QED BY <1>1, <1>2, <1>3, <1>4, <1>5, <1>6, <1>7

\* Every byte of a field is before the end.
LEMMA OffsetBound ==
  ASSUME BInv, NEW at, Offsets(at), NEW i \in 1 .. Len(meant),
         NEW k \in 1 .. Len(Image(meant[i]))
  PROVE  /\ at[i] + k \in Nat \ {0} /\ at[i] + k <= at[i + 1]
         /\ at[i + 1] <= at[Len(meant) + 1]
  <1>1. i \in 1 .. Len(meant) + 1 /\ i + 1 \in 1 .. Len(meant) + 1
    BY OffsetFacts
  <1>2. /\ at[i] \in Nat /\ at[i + 1] <= at[Len(meant) + 1]
        /\ at[i + 1] = at[i] + Len(Image(meant[i])) /\ Len(Image(meant[i])) \in Nat
    BY <1>1, OffsetFacts
  <1> QED BY <1>2

LEMMA Nothing == Flat(<< >>) = << >> /\ Len(Flat(<< >>)) = 0
  BY DEF Flat

LEMMA EmptyDomain ==
  ASSUME NEW s \in Seq(Nat), Len(s) = 0
  PROVE  \A i \in DOMAIN s : FALSE
  OBVIOUS

LEMMA NotYetRead ==
  ASSUME got' = << >>, mode' # "handed on"
  PROVE  ReadsWhole' /\ StrictOk'
  <1>1. \A i \in DOMAIN << >> : FALSE
    <2>1. << >> \in Seq(Nat) /\ Len(<< >>) = 0
      BY EmptySeq
    <2> QED BY <2>1, EmptyDomain, Zenon
  <1>2. \A i \in DOMAIN got' : FALSE
    BY <1>1
  <1>3. \A i \in DOMAIN got' \cap DOMAIN meant' : FALSE
    BY <1>2
  <1>4. ReadsWhole'
    BY <1>3, Zenon DEF ReadsWhole
  <1> QED BY <1>2, <1>4, Zenon DEF StrictOk

LEMMA LInit == Init => LInv
  <1> SUFFICES ASSUME Init PROVE LInv
    OBVIOUS
  <1> DEFINE at == <<0>>
  <1>1. meant = << >> /\ todo = << >> /\ position = 0 /\ mode = "idle" /\ got = << >>
    BY DEF Init
  <1>2. at \in Seq(Nat) /\ Len(at) = 1 /\ at[1] = 0
    OBVIOUS
  <1> HIDE DEF at
  <1>3. Offsets(at)
    BY <1>1, <1>2 DEF Offsets
  <1>4. Begun(at)
    BY <1>1, <1>2, Nothing DEF Begun, Rest
  <1>5. Laid(at)
    BY <1>1, <1>3, <1>4 DEF Laid, Building, Reading
  <1>6. ReadsWhole /\ StrictOk
    BY <1>1 DEF ReadsWhole, StrictOk
  <1> QED BY <1>5, <1>6, BInit DEF LInv

\* The new field begins where the last one ends.
Extends(to, at, f) ==
    /\ Offsets(to)' /\ Len(meant') = Len(meant) + 1 /\ meant'[Len(meant) + 1] = f
    /\ \A i \in 1 .. Len(meant) : meant'[i] = meant[i]
    /\ \A i \in 1 .. Len(meant) + 1 : to[i] = at[i]
    /\ to[Len(meant) + 2] = at[Len(meant) + 1] + Len(Image(f))

LEMMA OffsetsGrow ==
  ASSUME BInv, NEW at, Offsets(at), NEW f \in Fields, ~TooLong(f), meant' = Append(meant, f),
         NEW to, to = Append(at, at[Len(meant) + 1] + Len(Image(f)))
  PROVE  Extends(to, at, f)
  <1> DEFINE n == Len(meant)
             e == at[n + 1] + Len(Image(f))
  <1>1. /\ at \in Seq(Nat) /\ Len(at) = n + 1 /\ n \in Nat /\ meant \in Seq(Fields)
        /\ at[n + 1] \in Nat
    BY OffsetFacts DEF Offsets, BInv, Types
  <1>2. Len(Image(f)) \in Nat /\ e \in Nat /\ at[n + 1] <= e
    <2>1. Image(f) \in Seq(Byte)
      BY PartsTypes, FlatFacts DEF Image
    <2> QED BY <1>1, <2>1
  <1> HIDE DEF e
  <1>3. /\ Len(meant') = n + 1 /\ meant'[n + 1] = f
        /\ \A i \in 1 .. n : meant'[i] = meant[i]
    BY <1>1
  <1>4. to \in Seq(Nat) /\ Len(to) = Len(at) + 1 /\ to[Len(at) + 1] = e
    BY <1>1, <1>2 DEF e
  <1>5. \A i \in 1 .. Len(at) : to[i] = at[i]
    BY <1>1, <1>2 DEF e
  <1>6. Len(to) = n + 2 /\ to[n + 2] = e /\ \A i \in 1 .. n + 1 : to[i] = at[i]
    BY <1>1, <1>4, <1>5
  <1>7. \A i \in 1 .. n + 1 : /\ to[i + 1] = to[i] + Len(Image(meant'[i]))
                              /\ ~TooLong(meant'[i])
    <2> TAKE i \in 1 .. n + 1
    <2>1. CASE i = n + 1
      <3>1. to[i + 1] = e /\ to[i] = at[n + 1] /\ meant'[i] = f
        BY <1>1, <1>3, <1>6, <2>1
      <3> QED BY <3>1 DEF e
    <2>2. CASE i # n + 1
      <3>1. i \in 1 .. n /\ i + 1 \in 1 .. n + 1 /\ i \in 1 .. n + 1
        BY <1>1, <2>2
      <3>2. to[i + 1] = at[i + 1] /\ to[i] = at[i] /\ meant'[i] = meant[i]
        BY <1>3, <1>6, <3>1
      <3>3. at[i + 1] = at[i] + Len(Image(meant[i])) /\ ~TooLong(meant[i])
        BY <3>1, OffsetFacts
      <3> QED BY <3>2, <3>3
    <2> QED BY <2>1, <2>2
  <1>8. \A i, j \in 1 .. n + 2 : i <= j => to[i] <= to[j]
    <2>1. \A i, j \in 1 .. n + 1 : i <= j => at[i] <= at[j]
      BY OffsetFacts
    <2>2. \A i \in 1 .. n + 1 : at[i] \in Nat /\ at[i] <= at[n + 1]
      BY OffsetFacts
    <2>3. \A i \in 1 .. n + 1 : to[i] <= e
      BY <1>1, <1>2, <1>6, <2>2
    <2> QED BY <1>1, <1>2, <1>6, <2>1, <2>3
  <1>9. to[1] = 0
    <2>1. 1 \in 1 .. n + 1 /\ at[1] = 0
      BY <1>1, OffsetFacts
    <2> QED BY <1>6, <2>1
  <1>10. Offsets(to)'
    <2>1. Len(to) = Len(meant') + 1
      BY <1>1, <1>3, <1>6
    <2>2. \A i \in 1 .. Len(meant') : /\ to[i + 1] = to[i] + Len(Image(meant'[i]))
                                      /\ ~TooLong(meant'[i])
      BY <1>3, <1>7
    <2>3. \A i, j \in 1 .. Len(to) : i <= j => to[i] <= to[j]
      BY <1>6, <1>8
    <2> QED BY <1>4, <1>9, <2>1, <2>2, <2>3 DEF Offsets
  <1> QED BY <1>3, <1>6, <1>10 DEF e, Extends

\* Steps that leave the layout of the fields alone.
LEMMA SameOffsets ==
  ASSUME NEW at, Offsets(at), meant' = meant
  PROVE  Offsets(at)'
  BY DEF Offsets

LEMMA LaidWhileBuilding ==
  ASSUME NEW at, Laid(at), mode \in Building, mode' \in Building,
         UNCHANGED <<cells, position, meant, todo>>
  PROVE  Laid(at)'
  <1>1. Offsets(at)' /\ Begun(at)
    BY SameOffsets DEF Laid
  <1>2. Begun(at)'
    BY <1>1 DEF Begun, Rest
  <1>3. mode' # "sent" /\ mode' \notin Reading
    BY Zenon DEF Building, Reading
  <1> QED BY <1>1, <1>2, <1>3 DEF Laid

LEMMA LWrite ==
  ASSUME LInv, NEW f \in Fields, Write(f)
  PROVE  LInv'
  <1>1. /\ BInv /\ mode = "idle" /\ todo = << >> /\ got' = << >>
        /\ meant' = Append(meant, f) /\ cells' = cells /\ position' = position
    BY DEF LInv, BInv, Room, Stages, Write, readerVars
  <1>2. BInv'
    BY <1>1, BWrite
  <1>3. mode' \in {"idle", "writing"}
    BY <1>1 DEF Write
  <1>4. ReadsWhole' /\ StrictOk'
    <2>1. mode' # "handed on"
      BY <1>3, Zenon
    <2> QED BY <1>1, <2>1, NotYetRead
  <1>5. ASSUME ~failed' PROVE \E to : Laid(to)'
    <2>1. ~TooLong(f) /\ ~failed /\ todo' = Parts(f)
      BY <1>5 DEF Write
    <2>2. PICK at : Laid(at)
      BY <2>1 DEF LInv
    <2>3. Offsets(at) /\ Begun(at)
      BY <1>1, <2>2 DEF Laid, Building
    <2> DEFINE n == Len(meant)
               g == Image(f)
    <2>4. PICK to : to = Append(at, at[n + 1] + Len(g))
      OBVIOUS
    <2>5. /\ Offsets(to)' /\ Len(meant') = n + 1 /\ meant'[n + 1] = f
          /\ \A i \in 1 .. n : meant'[i] = meant[i]
          /\ \A i \in 1 .. n + 1 : to[i] = at[i]
          /\ to[n + 2] = at[n + 1] + Len(g)
      <3>1. Extends(to, at, f)
        BY <1>1, <2>1, <2>3, <2>4, OffsetsGrow, Zenon
      <3> QED BY <3>1, Zenon DEF Extends
    <2>6. g = Flat(todo') /\ Len(g) \in Nat
      <3>1. g = Flat(todo')
        BY <2>1 DEF Image
      <3>2. g \in Seq(Byte)
        BY PartsTypes, FlatFacts DEF Image
      <3> QED BY <3>1, <3>2
    <2>7. n \in Nat /\ position \in Nat
      BY <1>1 DEF BInv, Types
    <2>8. at[n + 1] = position
      <3>1. at[n + 1] = position + Len(Flat(todo))
        BY <2>3 DEF Begun
      <3>2. Len(Flat(todo)) = 0
        BY <1>1, Nothing
      <3> QED BY <2>7, <3>1, <3>2
    <2> HIDE DEF g
    <2>9. Begun(to)'
      <3>1. to[Len(meant') + 1] = position' + Len(Flat(todo'))
        <4>1. (n + 1) + 1 = n + 2
          BY <2>7
        <4> QED BY <1>1, <2>5, <2>6, <2>8, <4>1, Zenon
      <3>2. ASSUME NEW i \in 1 .. Len(meant'), NEW k \in 1 .. Len(Image(meant'[i])),
                   to[i] + k <= position'
            PROVE  cells'[to[i] + k] = Image(meant'[i])[k]
        <4>1. CASE i = n + 1
          <5>1. to[i] = position
            <6>1. n + 1 \in 1 .. n + 1
              BY <2>7
            <6> QED BY <2>5, <2>8, <4>1, <6>1
          <5>2. k >= 1 /\ k \in Nat
            OBVIOUS
          <5> QED BY <1>1, <2>7, <3>2, <5>1, <5>2
        <4>2. CASE i # n + 1
          <5>1. i \in 1 .. n /\ i \in 1 .. n + 1
            BY <2>5, <2>7, <4>2
          <5>2. to[i] = at[i] /\ meant'[i] = meant[i]
            BY <2>5, <5>1
          <5>3. k \in 1 .. Len(Image(meant[i])) /\ at[i] + k <= position
            BY <1>1, <3>2, <5>2
          <5>4. cells[at[i] + k] = Image(meant[i])[k]
            BY <2>3, <5>1, <5>3 DEF Begun
          <5> QED BY <1>1, <5>2, <5>4
        <4> QED BY <4>1, <4>2
      <3>3. Rest(to)'
        <4>1. \A k \in 1 .. Len(g) : (position - position) + k = k
          BY <2>6, <2>7
        <4>2. to[n + 1] = position
          <5>1. n + 1 \in 1 .. n + 1
            BY <2>7
          <5> QED BY <2>5, <2>8, <5>1
        <4>3. Len(meant') > 0 /\ to[Len(meant')] <= position' /\ Image(meant'[Len(meant')]) = g
          BY <1>1, <2>5, <2>7, <4>2 DEF g
        <4>4. \A k \in 1 .. Len(g) : position' - to[Len(meant')] + k = k
          BY <1>1, <2>5, <4>1, <4>2
        <4> QED BY <2>6, <4>3, <4>4 DEF Rest
      <3> QED BY <3>1, <3>2, <3>3 DEF Begun
    <2>10. mode' # "sent" /\ mode' \notin Reading
      BY <1>3, Zenon DEF Reading
    <2>11. Laid(to)'
      BY <2>5, <2>9, <2>10 DEF Laid
    <2> QED BY <2>11
  <1> QED BY <1>2, <1>4, <1>5 DEF LInv

\* A step of a message that nothing has been read of keeps the invariant if it
\* keeps a layout.
LEMMA LBefore ==
  ASSUME BInv', got' = << >>, mode' # "handed on", ~failed' => \E at : Laid(at)'
  PROVE  LInv'
  BY NotYetRead DEF LInv

LEMMA LEnsureOrDouble ==
  ASSUME LInv, EnsureCapacity \/ Double
  PROVE  LInv'
  <1>1. BInv' /\ BInv
    BY BEnsureCapacity, BDouble DEF LInv
  <1>2. /\ mode \in {"writing", "growing"} /\ mode' \in {"growing", "copying"}
        /\ UNCHANGED <<cells, position, meant, todo, failed, got>>
    BY DEF EnsureCapacity, Double, readerVars
  <1>3. mode \in Building /\ mode' \in Building /\ mode' # "handed on" /\ got' = << >>
    <2>1. mode \in Building /\ mode' \in Building /\ mode' # "handed on" /\ mode \notin Reading
      BY <1>2, Zenon DEF Building, Reading
    <2> QED BY <1>1, <1>2, <2>1 DEF BInv, Stages, Reading
  <1>4. ASSUME ~failed' PROVE \E at : Laid(at)'
    <2>1. PICK at : Laid(at)
      BY <1>2, <1>4 DEF LInv
    <2>2. Laid(at)'
      BY <1>2, <1>3, <2>1, LaidWhileBuilding
    <2> QED BY <2>2
  <1> QED BY <1>1, <1>3, <1>4, LBefore

LEMMA LRealloc ==
  ASSUME LInv, Realloc
  PROVE  LInv'
  <1>1. BInv' /\ BInv
    BY BRealloc DEF LInv
  <1>2. /\ mode = "growing" /\ mode' = "copying"
        /\ UNCHANGED <<position, meant, todo, failed, got>>
    BY DEF Realloc, readerVars
  <1>3. mode' # "handed on" /\ got' = << >>
    BY <1>1, <1>2 DEF BInv, Stages
  <1>4. ASSUME ~failed' PROVE \E at : Laid(at)'
    <2>1. PICK at : Laid(at)
      BY <1>2, <1>4 DEF LInv
    <2>2. Offsets(at) /\ Begun(at)
      BY <1>2, <2>1 DEF Laid, Building
    <2>3. Offsets(at)'
      BY <1>2, <2>2, SameOffsets
    <2>4. ASSUME NEW i \in 1 .. Len(meant), NEW k \in 1 .. Len(Image(meant[i])),
                 at[i] + k <= position
          PROVE  cells'[at[i] + k] = Image(meant[i])[k]
      <3>1. cells[at[i] + k] = Image(meant[i])[k]
        BY <2>2, <2>4 DEF Begun
      <3>2. position \in Nat /\ position <= Len(cells) /\ Len(cells) \in Nat
        BY <1>1 DEF BInv, Types
      <3>3. at[i] + k \in Nat \ {0}
        BY <1>1, <2>2, OffsetBound
      <3>4. at[i] + k \in 1 .. Len(cells)
        BY <2>4, <3>2, <3>3
      <3>5. cells'[at[i] + k] = cells[at[i] + k]
        BY <1>1, <3>4, Grown
      <3> QED BY <3>1, <3>5
    <2>5. Begun(at)'
      <3>1. Rest(at)'
        BY <1>2, <2>2 DEF Begun, Rest
      <3>2. at[Len(meant') + 1] = position' + Len(Flat(todo'))
        BY <1>2, <2>2 DEF Begun
      <3> QED BY <1>2, <2>4, <3>1, <3>2 DEF Begun
    <2>6. mode' # "sent" /\ mode' \notin Reading
      BY <1>2 DEF Reading
    <2>7. Laid(at)'
      BY <2>3, <2>5, <2>6 DEF Laid
    <2> QED BY <2>7
  <1> QED BY <1>1, <1>3, <1>4, LBefore

LEMMA LFails ==
  ASSUME LInv, ReallocFails \/ EncryptFails \/ DecryptFails
  PROVE  LInv'
  <1>1. BInv' /\ BInv
    BY BReallocFails, BFails DEF LInv
  <1>2. got' = << >> /\ mode' # "handed on"
    BY <1>1 DEF BInv, Stages, ReallocFails, EncryptFails, DecryptFails, readerVars
  <1>3. CASE ReallocFails
    <2>1. failed'
      BY <1>3 DEF ReallocFails
    <2> QED BY <1>1, <1>2, <2>1, LBefore
  <1>4. CASE EncryptFails \/ DecryptFails
    <2>1. mode' = "dropped" /\ UNCHANGED <<meant, failed>>
      BY <1>4 DEF EncryptFails, DecryptFails, readerVars
    <2>2. ASSUME ~failed' PROVE \E at : Laid(at)'
      <3>1. PICK at : Laid(at)
        BY <2>1, <2>2 DEF LInv
      <3>2. Offsets(at)'
        BY <2>1, <3>1, SameOffsets DEF Laid
      <3>3. mode' # "sent" /\ mode' \notin Reading /\ mode' \notin Building
        BY <2>1 DEF Reading, Building
      <3>4. Laid(at)'
        BY <3>2, <3>3 DEF Laid
      <3> QED BY <3>4
    <2> QED BY <1>1, <1>2, <2>2, LBefore
  <1> QED BY <1>3, <1>4

LEMMA LCopy ==
  ASSUME LInv, Copy
  PROVE  LInv'
  <1>1. BInv' /\ BInv
    BY BCopy DEF LInv
  <1>2. /\ mode = "copying" /\ mode' \in {"idle", "writing"} /\ todo' = Tail(todo)
        /\ UNCHANGED <<meant, failed, got>>
    BY DEF Copy, readerVars
  <1>3. mode' # "handed on" /\ mode' # "sent" /\ mode' \notin Reading /\ got' = << >>
    <2>1. mode' # "handed on" /\ mode' # "sent" /\ mode' \notin Reading
      BY <1>2, Zenon DEF Reading
    <2> QED BY <1>1, <1>2, <2>1 DEF BInv, Stages
  <1>4. ASSUME ~failed' PROVE \E at : Laid(at)'
    <2>1. PICK at : Laid(at)
      BY <1>2, <1>4 DEF LInv
    <2>2. Offsets(at) /\ Begun(at)
      BY <1>2, <2>1 DEF Laid, Building
    <2>3. Offsets(at)'
      BY <1>2, <2>2, SameOffsets
    <2> DEFINE n == Len(meant)
               h == Head(todo)
               a == Flat(todo)
               b == Flat(Tail(todo))
               p == position
    <2>4. /\ h \in Seq(Byte) /\ Len(h) \in Nat /\ p \in Nat /\ n \in Nat
          /\ todo \in Calls /\ todo # << >>
      BY <1>1, <1>2, RequiredType, OffsetFacts DEF BInv, Types
    <2>5. /\ Len(b) \in Nat /\ Len(a) = Len(h) + Len(b)
          /\ \A k \in 1 .. Len(h) : a[k] = h[k]
          /\ \A k \in 1 .. Len(b) : a[Len(h) + k] = b[k]
      <3>1. Tail(todo) \in Calls
        BY <2>4, FlatFacts
      <3>2. b \in Seq(Byte)
        BY <3>1, FlatFacts
      <3> QED BY <2>4, <3>2, FlatFacts
    <2>6. /\ position' = p + Len(h)
          /\ \A k \in 1 .. p : cells'[k] = cells[k]
          /\ \A k \in 1 .. Len(h) : cells'[p + k] = h[k]
      BY <1>1, Copied
    <2>7. /\ at[n + 1] = p + Len(a)
          /\ \A k \in 1 .. Len(a) : /\ n > 0 /\ at[n] <= p
                                    /\ a[k] = Image(meant[n])[p - at[n] + k]
      BY <2>2 DEF Begun, Rest
    <2>8. n > 0 => at[n] \in Nat
      BY <1>1, <2>2, <2>4, OffsetFacts
    <2> HIDE DEF h, a, b, p
    <2>9. at[n + 1] = position' + Len(b)
      BY <2>4, <2>5, <2>6, <2>7
    <2>10. ASSUME NEW i \in 1 .. n, NEW k \in 1 .. Len(Image(meant[i])),
                  at[i] + k <= position'
           PROVE  cells'[at[i] + k] = Image(meant[i])[k]
      <3>1. at[i] + k \in Nat \ {0} /\ at[i] + k <= at[i + 1]
        BY <1>1, <2>2, OffsetBound
      <3>2. CASE at[i] + k <= p
        <4>1. cells[at[i] + k] = Image(meant[i])[k]
          BY <2>2, <3>2 DEF Begun, p
        <4>2. at[i] + k \in 1 .. p
          BY <2>4, <3>1, <3>2
        <4> QED BY <2>6, <4>1, <4>2
      <3>3. CASE ~(at[i] + k <= p)
        <4>1. PICK q \in Nat : q = at[i] + k /\ q > p /\ q <= p + Len(h)
          <5>1. at[i] + k <= p + Len(h)
            BY <2>6, <2>10
          <5>2. at[i] + k > p
            BY <2>4, <3>1, <3>3
          <5> QED BY <3>1, <5>1, <5>2
        <4>2. PICK j : j = q - p
          OBVIOUS
        <4>3. j \in 1 .. Len(h) /\ j \in 1 .. Len(a) /\ p + j = at[i] + k
          <5>1. j \in 1 .. Len(h) /\ p + j = q
            BY <2>4, <4>1, <4>2, SMTT(30)
          <5>2. Len(h) <= Len(a) /\ Len(a) \in Nat
            BY <2>4, <2>5
          <5> QED BY <2>4, <4>1, <5>1, <5>2
        <4>4. n > 0 /\ at[n] <= p /\ a[j] = Image(meant[n])[p - at[n] + j]
          BY <2>7, <4>3
        <4>5. i = n
          <5>1. CASE i < n
            <6>1. i + 1 \in 1 .. n + 1 /\ n \in 1 .. n + 1 /\ i + 1 <= n
              BY <2>4, <5>1
            <6>2. at[i + 1] <= at[n] /\ at[i + 1] \in Nat
              BY <1>1, <2>2, <6>1, OffsetFacts
            <6> QED BY <2>4, <2>8, <3>1, <3>3, <4>4, <6>2
          <5> QED BY <2>4, <5>1
        <4>6. p - at[n] + j = k
          BY <2>4, <2>8, <3>1, <4>1, <4>2, <4>4, <4>5, SMTT(30)
        <4>7. cells'[p + j] = h[j] /\ a[j] = h[j]
          BY <2>5, <2>6, <4>3
        <4> QED BY <4>3, <4>4, <4>5, <4>6, <4>7, Zenon
      <3> QED BY <3>2, <3>3
    <2>11. ASSUME NEW k \in 1 .. Len(b)
           PROVE  /\ n > 0 /\ at[n] <= position'
                  /\ b[k] = Image(meant[n])[position' - at[n] + k]
      <3>1. Len(h) + k \in 1 .. Len(a)
        BY <2>4, <2>5
      <3>2. n > 0 /\ at[n] <= p /\ a[Len(h) + k] = Image(meant[n])[p - at[n] + (Len(h) + k)]
        BY <2>7, <3>1
      <3>3. p - at[n] + (Len(h) + k) = position' - at[n] + k /\ at[n] <= position'
        BY <2>4, <2>6, <2>8, <3>2
      <3>4. a[Len(h) + k] = b[k]
        BY <2>5
      <3> QED BY <3>2, <3>3, <3>4, Zenon
    <2>12. Begun(at)'
      <3>1. Len(meant') = n /\ Flat(todo') = b
        BY <1>2 DEF b
      <3>2. Rest(at)'
        BY <1>2, <2>11, <3>1 DEF Rest
      <3> QED BY <1>2, <2>9, <2>10, <3>1, <3>2 DEF Begun
    <2>13. Laid(at)'
      BY <1>3, <2>3, <2>12 DEF Laid
    <2> QED BY <2>13
  <1> QED BY <1>1, <1>3, <1>4, LBefore

LEMMA LEncrypt ==
  ASSUME LInv, Encrypt
  PROVE  LInv'
  <1>1. BInv' /\ BInv
    BY BEncrypt DEF LInv
  <1>2. /\ mode = "idle" /\ mode' \in {"dropped", "sent"} /\ todo = << >>
        /\ UNCHANGED <<meant, failed, got>>
    BY <1>1 DEF Encrypt, BInv, Room
  <1>3. mode' # "handed on" /\ got' = << >> /\ mode' \notin Building /\ mode' \notin Reading
    <2>1. mode' # "handed on" /\ mode' \notin Building /\ mode' \notin Reading
      BY <1>2, Zenon DEF Reading, Building
    <2> QED BY <1>1, <1>2, <2>1 DEF BInv, Stages
  <1>4. ASSUME ~failed' PROVE \E at : Laid(at)'
    <2>1. PICK at : Laid(at)
      BY <1>2, <1>4 DEF LInv
    <2>2. Offsets(at) /\ Begun(at)
      BY <1>2, <2>1 DEF Laid, Building
    <2>3. Offsets(at)'
      BY <1>2, <2>2, SameOffsets
    <2> DEFINE c == cipher'.plain
    <2>4. /\ Len(c) = position /\ position \in Nat
          /\ \A k \in 1 .. position : c[k] = cells[k]
      BY <1>1, Encrypted DEF BInv, Types
    <2> HIDE DEF c
    <2>5. at[Len(meant) + 1] = position
      <3>1. at[Len(meant) + 1] = position + Len(Flat(todo)) /\ Len(Flat(todo)) = 0
        BY <1>2, <2>2, Nothing DEF Begun
      <3> QED BY <2>4, <3>1
    <2>6. ASSUME NEW i \in 1 .. Len(meant), NEW k \in 1 .. Len(Image(meant[i]))
          PROVE  c[at[i] + k] = Image(meant[i])[k]
      <3>1. /\ at[i] + k \in Nat \ {0} /\ at[i] + k <= at[i + 1]
            /\ at[i + 1] <= at[Len(meant) + 1]
        BY <1>1, <2>2, OffsetBound
      <3>2. at[i + 1] \in Nat
        <4>1. i + 1 \in 1 .. Len(meant) + 1
          BY <1>1, <2>2, OffsetFacts
        <4> QED BY <1>1, <2>2, <4>1, OffsetFacts
      <3>3. at[i] + k \in 1 .. position /\ at[i] + k <= position
        BY <2>4, <2>5, <3>1, <3>2
      <3>4. cells[at[i] + k] = Image(meant[i])[k]
        BY <2>2, <3>3 DEF Begun
      <3> QED BY <2>4, <3>3, <3>4
    <2>7. Holds(cipher.plain, at)'
      <3>1. at[Len(meant) + 1] <= Len(c)
        BY <2>4, <2>5
      <3> QED BY <1>2, <2>6, <3>1 DEF Holds, c
    <2>8. Laid(at)'
      BY <1>3, <2>3, <2>7 DEF Laid
    <2> QED BY <2>8
  <1> QED BY <1>1, <1>3, <1>4, LBefore

LEMMA LDecrypt ==
  ASSUME LInv, Decrypt
  PROVE  LInv'
  <1>1. BInv' /\ BInv
    BY BDecrypt DEF LInv
  <1>2. /\ mode = "sent" /\ mode' = "reading" /\ position' = 0
        /\ UNCHANGED <<meant, failed, got>>
    BY DEF Decrypt
  <1>3. got' = << >> /\ mode' # "handed on" /\ mode' # "sent" /\ mode' \notin Building
    BY <1>1, <1>2 DEF BInv, Stages, Building
  <1>4. ASSUME ~failed' PROVE \E at : Laid(at)'
    <2>1. PICK at : Laid(at)
      BY <1>2, <1>4 DEF LInv
    <2> DEFINE c == cipher.plain
    <2>2. Offsets(at) /\ Holds(c, at)
      BY <1>2, <2>1 DEF Laid
    <2>3. Offsets(at)'
      BY <1>2, <2>2, SameOffsets
    <2>4. /\ Len(c) <= Len(cells') /\ Len(cells') \in Nat /\ Len(c) \in Nat
          /\ \A k \in 1 .. Len(c) : cells'[k] = c[k]
      BY <1>1, Decrypted DEF BInv, Types, Cipher
    <2> HIDE DEF c
    <2>5. at[Len(meant) + 1] \in Nat /\ at[Len(meant) + 1] <= Len(c)
      <3>1. Len(meant) + 1 \in 1 .. Len(meant) + 1
        BY <1>1, <2>2, OffsetFacts
      <3> QED BY <1>1, <2>2, <3>1, OffsetFacts DEF Holds
    <2>6. ASSUME NEW i \in 1 .. Len(meant), NEW k \in 1 .. Len(Image(meant[i]))
          PROVE  cells'[at[i] + k] = Image(meant[i])[k]
      <3>1. /\ at[i] + k \in Nat \ {0} /\ at[i] + k <= at[i + 1]
            /\ at[i + 1] <= at[Len(meant) + 1]
        BY <1>1, <2>2, OffsetBound
      <3>2. at[i + 1] \in Nat
        <4>1. i + 1 \in 1 .. Len(meant) + 1
          BY <1>1, <2>2, OffsetFacts
        <4> QED BY <1>1, <2>2, <4>1, OffsetFacts
      <3>3. at[i] + k \in 1 .. Len(c)
        BY <2>4, <2>5, <3>1, <3>2
      <3>4. c[at[i] + k] = Image(meant[i])[k]
        BY <2>2 DEF Holds
      <3> QED BY <2>4, <3>3, <3>4
    <2>7. Holds(cells, at)'
      <3>1. at[Len(meant) + 1] <= Len(cells')
        BY <2>4, <2>5
      <3> QED BY <1>2, <2>6, <3>1 DEF Holds
    <2>8. AtNext(at)'
      <3>1. Len(got') + 1 = 1
        <4>1. Len(got') = 0
          BY <1>3, EmptySeq, Zenon
        <4> QED BY <4>1
      <3>2. at[1] = 0
        BY <1>1, <2>2, OffsetFacts
      <3> QED BY <1>2, <3>1, <3>2 DEF AtNext
    <2>9. Laid(at)'
      BY <1>3, <2>3, <2>7, <2>8 DEF Laid
    <2> QED BY <2>9
  <1> QED BY <1>1, <1>3, <1>4, LBefore

\* The next field, if every read before it was good.
LEMMA NextField ==
  ASSUME LInv, mode = "reading", Len(got) + 1 <= Len(meant),
         \A j \in 1 .. Len(got) : got[j].ok, NEW at, Laid(at)
  PROVE  LET f == meant[Len(got) + 1]
             r == Read(Expected[Len(got) + 1], position)
         IN  /\ Fits(f) => Reads(r, f.value, at[Len(got) + 2])
             /\ ~Fits(f) => ~r.ok
  <1> DEFINE m == Len(got) + 1
             f == meant[m]
             r == Read(Expected[m], position)
  <1>1. BInv /\ Offsets(at) /\ Holds(cells, at) /\ AtNext(at)
    BY DEF LInv, Laid, Reading
  <1>2. /\ meant \in Seq(Fields) /\ got \in Seq(Results) /\ cells \in Seq(Byte)
        /\ position \in Nat /\ handler \in Handlers
    BY <1>1 DEF BInv, Types
  <1>3. m \in 1 .. Len(meant) /\ m \in Nat /\ Len(got) <= Len(meant)
    BY <1>2
  <1>4. f \in Fields /\ ~TooLong(f) /\ Image(f) \in Seq(Byte)
    BY <1>1, <1>3, OffsetFacts
  <1>5. Expected[m] = f.type
    BY <1>2, <1>3, ExpectedTypes
  <1>6. position = at[m]
    BY <1>1, <1>3 DEF AtNext
  <1>7. Lies(Image(f), position)
    <2>1. m \in 1 .. Len(meant) + 1 /\ m + 1 \in 1 .. Len(meant) + 1
          /\ Len(meant) + 1 \in 1 .. Len(meant) + 1
      BY <1>2, <1>3
    <2>2. /\ at[m + 1] = at[m] + Len(Image(f)) /\ at[m] \in Nat /\ at[m + 1] \in Nat
          /\ at[m + 1] <= at[Len(meant) + 1] /\ at[Len(meant) + 1] \in Nat
      BY <1>1, <1>3, <2>1, OffsetFacts
    <2>3. at[Len(meant) + 1] <= Len(cells) /\ Len(cells) \in Nat
      BY <1>1, <1>2 DEF Holds
    <2>4. position + Len(Image(f)) <= Len(cells)
      BY <1>6, <2>2, <2>3
    <2>5. \A k \in 1 .. Len(Image(f)) : cells[position + k] = Image(f)[k]
      BY <1>1, <1>3, <1>6 DEF Holds
    <2> QED BY <2>4, <2>5 DEF Lies
  <1>8. at[Len(got) + 2] = position + Len(Image(f))
    <2>1. at[m + 1] = at[m] + Len(Image(f))
      BY <1>1, <1>3, OffsetFacts
    <2>2. m + 1 = Len(got) + 2
      BY <1>2
    <2> QED BY <1>6, <2>1, <2>2, Zenon
  <1> HIDE DEF f
  <1>9. /\ Fits(f) => Reads(Read(f.type, position), f.value, position + Len(Image(f)))
        /\ ~Fits(f) => ~Read(f.type, position).ok
    BY <1>2, <1>4, <1>7, ReadIs
  <1> QED BY <1>5, <1>8, <1>9, Zenon DEF f

\* A read's result r as the next one of got.
LEMMA Appended ==
  ASSUME BInv, BInv', NEW r, got' = Append(got, r), UNCHANGED meant
  PROVE  /\ Len(got) \in Nat /\ Len(meant) \in Nat
         /\ Len(got') = Len(got) + 1 /\ got'[Len(got) + 1] = r
         /\ \A i \in 1 .. Len(got) : got'[i] = got[i]
         /\ DOMAIN got' = 1 .. Len(got) + 1 /\ DOMAIN got = 1 .. Len(got)
         /\ DOMAIN meant = 1 .. Len(meant)
  <1>1. /\ got \in Seq(Results) /\ got' \in Seq(Results) /\ meant \in Seq(Fields)
        /\ Len(got) \in Nat /\ Len(meant) \in Nat
    BY DEF BInv, Types
  <1>2. /\ Len(Append(got, r)) = Len(got) + 1 /\ Append(got, r)[Len(got) + 1] = r
        /\ \A i \in 1 .. Len(got) : Append(got, r)[i] = got[i]
    BY <1>1
  <1>3. /\ Len(got') = Len(got) + 1 /\ got'[Len(got) + 1] = r
        /\ \A i \in 1 .. Len(got) : got'[i] = got[i]
    BY <1>2
  <1> QED BY <1>1, <1>3

\* What a read, whatever its result, must give to keep the layout and what was
\* read: if every read before it was good, a good one gives the next field and
\* is followed by the one after it, a failed one may fail.  Only failures is
\* that of after the read.
MayFailNow(f) == ~Fits(f) \/ (f.type = "utf" /\ failures' > 0)
Answers(r, at) ==
    (Len(got) + 1 <= Len(meant) /\ \A j \in 1 .. Len(got) : got[j].ok) =>
        IF r.ok THEN /\ Fits(meant[Len(got) + 1])
                     /\ Reads(r, meant[Len(got) + 1].value, at[Len(got) + 2])
        ELSE MayFailNow(meant[Len(got) + 1])

NextResult(r) ==
    /\ mode = "reading" /\ mode' \in {"reading", "given up"}
    /\ mode' = "reading" => (handler.strict => r.ok)
    /\ UNCHANGED <<cells, meant, failed, handler>>
    /\ failures > 0 => failures' > 0
    /\ got' = Append(got, r) /\ position' = r.pos
    /\ \A at : Laid(at) /\ ~failed => Answers(r, at)

LEMMA LRead ==
  ASSUME LInv, BInv', NEW r, NextResult(r)
  PROVE  LInv'
  <1> DEFINE m == Len(got)
             n == Len(meant)
  <1>1. BInv
    BY DEF LInv
  <1>2. /\ UNCHANGED <<cells, meant, failed, handler>>
        /\ got' = Append(got, r) /\ position' = r.pos
    BY DEF NextResult
  <1>3. /\ mode = "reading" /\ mode' \in {"reading", "given up"}
        /\ mode' = "reading" => (handler.strict => r.ok)
    BY Zenon DEF NextResult
  <1>4. ASSUME ~failed, NEW at, Laid(at) PROVE Answers(r, at)
    BY <1>4 DEF NextResult
  <1>5. m \in Nat /\ n \in Nat
    BY <1>1 DEF BInv, Types
  <1>6. /\ Len(got') = m + 1 /\ got'[m + 1] = r
        /\ \A i \in 1 .. m : got'[i] = got[i]
        /\ DOMAIN got' = 1 .. m + 1 /\ DOMAIN got = 1 .. m /\ DOMAIN meant = 1 .. n
    BY <1>1, <1>2, Appended
  <1>7. ASSUME \A j \in 1 .. m + 1 : got'[j].ok
        PROVE  (\A j \in 1 .. m : got[j].ok) /\ r.ok
    <2>1. m + 1 \in 1 .. m + 1 /\ \A j \in 1 .. m : j \in 1 .. m + 1
      BY <1>5
    <2> QED BY <1>6, <1>7, <2>1, Zenon
  <1>8. ASSUME ~failed' PROVE \E at : Laid(at)'
    <2>1. PICK at : Laid(at)
      BY <1>8, <1>2 DEF LInv
    <2>2. Offsets(at) /\ Holds(cells, at)
      BY <1>3, <2>1 DEF Laid, Reading
    <2>3. Offsets(at)' /\ Holds(cells, at)'
      BY <1>2, <2>2, SameOffsets DEF Holds
    <2>4. AtNext(at)'
      <3> SUFFICES ASSUME m + 1 <= n, \A j \in 1 .. m + 1 : got'[j].ok
                   PROVE  position' = at[(m + 1) + 1]
        BY <1>6, <1>2 DEF AtNext
      <3>1. (\A j \in 1 .. m : got[j].ok) /\ r.ok
        BY <1>7
      <3>2. Answers(r, at)
        BY <1>8, <1>2, <1>4, <2>1
      <3>3. Reads(r, meant[m + 1].value, at[m + 2])
        BY <3>1, <3>2, Zenon DEF Answers
      <3>4. (m + 1) + 1 = m + 2
        BY <1>5
      <3> QED BY <1>2, <3>3, <3>4, Zenon DEF Reads, Gives
    <2>5. mode' \notin Building /\ mode' # "sent"
      BY <1>3, Zenon DEF Building
    <2>6. Laid(at)'
      BY <2>3, <2>4, <2>5 DEF Laid
    <2> QED BY <2>6
  <1>9. ReadsWhole'
    <2> SUFFICES ASSUME ~failed, NEW i \in 1 .. m + 1, i \in 1 .. n,
                        \A j \in 1 .. i - 1 : got'[j].ok
                 PROVE  IF got'[i].ok THEN Fits(meant[i]) /\ got'[i].value = meant[i].value
                        ELSE MayFail(meant[i])'
      BY <1>6, <1>2, Zenon DEF ReadsWhole, MayFail
    <2>1. CASE i \in 1 .. m
      <3>1. i \in DOMAIN got \cap DOMAIN meant /\ got'[i] = got[i]
        BY <1>6, <2>1
      <3>2. \A j \in 1 .. i - 1 : got[j].ok
        <4>1. \A j \in 1 .. i - 1 : j \in 1 .. m
          BY <1>5, <2>1
        <4>2. \A j \in 1 .. i - 1 : got'[j].ok
          OBVIOUS
        <4> QED BY <1>6, <4>1, <4>2, Zenon
      <3>3. IF got[i].ok THEN Fits(meant[i]) /\ got[i].value = meant[i].value
            ELSE MayFail(meant[i])
        <4>1. ReadsWhole
          BY DEF LInv
        <4> QED BY <3>1, <3>2, <4>1, Zenon DEF ReadsWhole
      <3>4. MayFail(meant[i]) => MayFail(meant[i])'
        <4>1. failures > 0 => failures' > 0
          BY DEF NextResult
        <4> QED BY <1>2, <4>1 DEF MayFail, Fits
      <3> QED BY <3>1, <3>3, <3>4, Zenon
    <2>2. CASE i \notin 1 .. m
      <3>1. i = m + 1 /\ m + 1 <= n /\ i - 1 = m
        BY <1>5, <2>2
      <3>2. PICK at : Laid(at)
        BY DEF LInv
      <3>3. \A j \in 1 .. m : got[j].ok
        <4>1. \A j \in 1 .. i - 1 : got'[j].ok
          OBVIOUS
        <4> QED BY <1>6, <3>1, <4>1, Zenon
      <3>4. Answers(r, at)
        BY <1>4, <3>2
      <3>5. IF r.ok THEN Fits(meant[m + 1]) /\ Reads(r, meant[m + 1].value, at[m + 2])
            ELSE MayFailNow(meant[m + 1])
        BY <3>1, <3>3, <3>4, Zenon DEF Answers
      <3>6. got'[i] = r
        BY <1>6, <3>1
      <3>7. MayFailNow(meant[i]) => MayFail(meant[i])'
        BY <1>2 DEF MayFail, MayFailNow, Fits
      <3>8. Reads(r, meant[i].value, at[m + 2]) => r.value = meant[i].value
        BY DEF Reads, Gives
      <3> QED BY <3>1, <3>5, <3>6, <3>7, <3>8, Zenon
    <2> QED BY <2>1, <2>2
  <1>10. StrictOk'
    <2>1. mode' # "handed on"
      BY <1>3, Zenon
    <2>2. ASSUME mode' = "reading", handler.strict, NEW i \in 1 .. m + 1
          PROVE  got'[i].ok
      <3>1. CASE i \in 1 .. m
        <4>1. StrictOk
          BY DEF LInv
        <4>2. got[i].ok
          BY <1>6, <1>3, <2>2, <3>1, <4>1 DEF StrictOk
        <4> QED BY <1>6, <3>1, <4>2, Zenon
      <3>2. CASE i \notin 1 .. m
        <4>1. i = m + 1
          BY <1>5, <3>2
        <4>2. r.ok
          BY <1>3, <2>2, Zenon
        <4> QED BY <1>6, <4>1, <4>2, Zenon
      <3> QED BY <3>1, <3>2
    <2> QED BY <1>6, <1>2, <2>1, <2>2, Zenon DEF StrictOk
  <1> QED BY <1>8, <1>9, <1>10 DEF LInv

LEMMA LReadNext ==
  ASSUME LInv, ReadNext
  PROVE  LInv'
  <1> DEFINE r == Read(Expected[Len(got) + 1], position)
  <1>1. BInv' /\ BInv
    BY BReadNext DEF LInv
  <1>2. mode = "reading" /\ UNCHANGED <<cells, meant, failed, failures, handler>>
    BY DEF ReadNext
  <1>3. got' = Append(got, r) /\ position' = r.pos
    BY <1>1, NextRead
  <1>4. mode' = IF handler.strict /\ ~r.ok THEN "given up" ELSE "reading"
    BY <1>1, NextRead
  <1>5. r.ok \in BOOLEAN
    BY <1>1, NextRead DEF InBuffer, Results
  <1>6. ASSUME NEW at, Laid(at), Len(got) + 1 <= Len(meant),
               \A j \in 1 .. Len(got) : got[j].ok
        PROVE  /\ Fits(meant[Len(got) + 1]) => Reads(r, meant[Len(got) + 1].value, at[Len(got) + 2])
               /\ ~Fits(meant[Len(got) + 1]) => ~r.ok
    BY <1>2, <1>6, NextField
  <1> HIDE DEF r
  <1>7. mode' \in {"reading", "given up"} /\ (mode' = "reading" => (handler.strict => r.ok))
    <2>1. "reading" # "given up"
      BY Zenon
    <2> QED BY <1>4, <2>1, Zenon
  <1>8. \A at : Laid(at) /\ ~failed => Answers(r, at)
    <2> SUFFICES ASSUME NEW at, Laid(at), Len(got) + 1 <= Len(meant),
                        \A j \in 1 .. Len(got) : got[j].ok
                 PROVE  IF r.ok THEN /\ Fits(meant[Len(got) + 1])
                                     /\ Reads(r, meant[Len(got) + 1].value, at[Len(got) + 2])
                        ELSE MayFailNow(meant[Len(got) + 1])
      BY Zenon DEF Answers
    <2> DEFINE f == meant[Len(got) + 1]
    <2>1. /\ Fits(f) => Reads(r, f.value, at[Len(got) + 2])
          /\ ~Fits(f) => ~r.ok
      BY <1>6
    <2>3. ~Fits(f) => MayFailNow(f)
      BY DEF MayFailNow
    <2>4. Fits(f) => r.ok
      <3>1. Fits(f) => r.ok = TRUE
        BY <2>1, Zenon DEF Reads, Gives
      <3> QED BY <3>1, Zenon
    <2> HIDE DEF f
    <2>5. IF r.ok THEN Fits(f) /\ Reads(r, f.value, at[Len(got) + 2]) ELSE MayFailNow(f)
      BY <2>1, <2>3, <2>4, Zenon
    <2> QED BY <2>5 DEF f
  <1>9. NextResult(r)
    BY <1>2, <1>3, <1>7, <1>8, Zenon DEF NextResult
  <1> QED BY <1>1, <1>9, LRead

LEMMA LReadUtfFails ==
  ASSUME LInv, ReadUtfFails
  PROVE  LInv'
  <1> DEFINE r == Result(FALSE, << >>, ReadNumber(position, 2).pos, 0)
             m == Len(got)
  <1>1. BInv' /\ BInv
    BY BReadUtfFails DEF LInv
  <1>2. /\ mode = "reading" /\ UNCHANGED <<cells, meant, failed, handler>>
        /\ failures' = failures + 1 /\ Expected[Len(got) + 1] = "utf"
        /\ mode' = IF handler.strict THEN "given up" ELSE "reading"
    BY DEF ReadUtfFails
  <1>3. got' = Append(got, r) /\ position' = r.pos /\ r.ok = FALSE
    BY <1>1, FailedRead
  <1> HIDE DEF r
  <1>4. mode' \in {"reading", "given up"} /\ (mode' = "reading" => (handler.strict => r.ok))
    <2>1. "reading" # "given up"
      BY Zenon
    <2> QED BY <1>2, <2>1, Zenon
  <1>5. failures' > 0
    <2>1. failures \in Nat
      BY <1>1, MessageAssumption DEF BInv, Types
    <2>2. failures' = failures + 1
      BY <1>2
    <2> QED BY <2>1, <2>2
  <1>6. ASSUME m + 1 <= Len(meant) PROVE MayFailNow(meant[m + 1])
    <2>1. meant \in Seq(Fields) /\ m \in Nat /\ handler \in Handlers
      BY <1>1 DEF BInv, Types
    <2>2. m + 1 \in 1 .. Len(meant)
      BY <1>6, <2>1
    <2>3. Expected[m + 1] = meant[m + 1].type
      BY <2>1, <2>2, ExpectedTypes
    <2>4. meant[m + 1].type = "utf"
      BY <1>2, <2>3
    <2> QED BY <1>5, <2>4, Zenon DEF MayFailNow
  <1>7. \A at : Laid(at) /\ ~failed => Answers(r, at)
    BY <1>3, <1>6, Zenon DEF Answers
  <1>8. NextResult(r)
    BY <1>2, <1>3, <1>4, <1>5, <1>7, Zenon DEF NextResult
  <1> QED BY <1>1, <1>8, LRead

LEMMA LHandOn ==
  ASSUME LInv, HandOn
  PROVE  LInv'
  <1>1. BInv' /\ BInv
    BY BHandOn DEF LInv
  <1>2. mode = "reading" /\ mode' = "handed on" /\ Len(got) = Len(Expected)
    BY DEF HandOn
  <1>3. UNCHANGED <<cells, position, meant, todo, failed, failures, cipher, handler, got>>
    BY DEF HandOn
  <1>4. Len(got) >= Len(meant)
    <2>1. Len(Expected) >= Len(meant)
      BY <1>1, ExpectedTypes DEF BInv, Types
    <2> QED BY <1>2, <2>1
  <1>5. ReadsWhole'
    BY <1>3 DEF ReadsWhole, MayFail, LInv
  <1>6. StrictOk'
    <2>1. StrictOk
      BY DEF LInv
    <2>2. mode \in {"reading", "handed on"}
      BY <1>2
    <2>3. handler.strict => \A i \in DOMAIN got : got[i].ok
      BY <2>1, <2>2 DEF StrictOk
    <2> QED BY <1>3, <1>4, <2>3 DEF StrictOk
  <1>7. ASSUME ~failed' PROVE \E at : Laid(at)'
    <2>1. PICK at : Laid(at)
      BY <1>3, <1>7 DEF LInv
    <2>2. Offsets(at) /\ Holds(cells, at) /\ AtNext(at)
      BY <1>2, <2>1 DEF Laid, Reading
    <2>3. Offsets(at)' /\ Holds(cells, at)' /\ AtNext(at)'
      BY <1>3, <2>2, SameOffsets DEF Holds, AtNext
    <2>4. mode' \notin Building /\ mode' # "sent"
      BY <1>2, Zenon DEF Building
    <2>5. Laid(at)'
      BY <2>3, <2>4 DEF Laid
    <2> QED BY <2>5
  <1> QED BY <1>1, <1>5, <1>6, <1>7 DEF LInv

LEMMA LStutter ==
  ASSUME LInv, UNCHANGED vars
  PROVE  LInv'
  <1>1. BInv' /\ ReadsWhole' /\ StrictOk'
    BY BStep DEF LInv, vars, ReadsWhole, MayFail, StrictOk
  <1>2. ASSUME ~failed' PROVE \E at : Laid(at)'
    <2>1. PICK at : Laid(at)
      BY <1>2 DEF LInv, vars
    <2>2. Laid(at)'
      BY <2>1 DEF vars, Laid, Offsets, Begun, Rest, Holds, AtNext
    <2> QED BY <2>2
  <1> QED BY <1>1, <1>2 DEF LInv

LEMMA LInvariant == Spec => []LInv
  <1>1. LInv /\ [Next]_vars => LInv'
    <2> SUFFICES ASSUME LInv, [Next]_vars PROVE LInv'
      OBVIOUS
    <2>1. CASE UNCHANGED vars
      BY <2>1, LStutter
    <2>2. CASE Next
      BY <2>2, LWrite, LEnsureOrDouble, LRealloc, LFails, LCopy, LEncrypt, LDecrypt,
         LReadNext, LReadUtfFails, LHandOn DEF Next
    <2> QED BY <2>1, <2>2
  <1> QED BY LInit, <1>1, PTL DEF Spec

\* What a handler reads is what was written, field by field, of any types and
\* values, through the growing of the buffer, the encryption and the
\* decryption, up to the first read that fails, and that one had a string
\* longer than the handler's buffer or no memory (message.c:62-205, 333-569).
\* Of a string exactly as long as the buffer nothing is said.
THEOREM ReadAsWritten == Spec => []ReadsBack
  <1>1. LInv => ReadsBack
    <2>1. ReadsWhole => ReadsBack
      BY Zenon DEF ReadsWhole, ReadsBack
    <2> QED BY <2>1 DEF LInv
  <1> QED BY <1>1, LInvariant, PTL

LEMMA AllRead ==
  ASSUME LInv, Len(got) >= Len(meant)
  PROVE  /\ \A j \in DOMAIN meant : j \in DOMAIN got
         /\ \A i \in DOMAIN meant : \A j \in 1 .. i - 1 : j \in DOMAIN meant
  <1>1. got \in Seq(Results) /\ meant \in Seq(Fields)
    BY DEF LInv, BInv, Types
  <1> QED BY <1>1

\* What a handler passes on is all that was written, unless it goes on after it
\* was told of a failed read (controller.c:532-546, 935-944).
THEOREM WholeOrReported == Spec => []HandedOnWhole
  <1>1. LInv => HandedOnWhole
    <2> SUFFICES ASSUME LInv, mode = "handed on", ~failed,
                        ~(~handler.strict /\ \E i \in DOMAIN meant : ~got[i].ok),
                        NEW i \in DOMAIN meant
                 PROVE  got[i].value = meant[i].value
      BY DEF HandedOnWhole
    <2>1. Len(got) >= Len(meant)
      BY DEF LInv, StrictOk
    <2>2. /\ \A j \in DOMAIN meant : j \in DOMAIN got
          /\ \A j \in 1 .. i - 1 : j \in DOMAIN meant
      BY <2>1, AllRead, Zenon
    <2>3. \A j \in DOMAIN meant : got[j].ok
      <3>1. handler.strict => \A j \in DOMAIN got : got[j].ok
        BY DEF LInv, StrictOk
      <3> QED BY <2>2, <3>1, Zenon
    <2>4. i \in DOMAIN got \cap DOMAIN meant
      BY <2>2, Zenon
    <2>5. \A j \in 1 .. i - 1 : got[j].ok
      BY <2>2, <2>3, Zenon
    <2>6. ReadsWhole /\ got[i].ok
      BY <2>3, Zenon DEF LInv
    <2> QED BY <2>4, <2>5, <2>6, Zenon DEF ReadsWhole
  <1> QED BY <1>1, LInvariant, PTL
=============================================================================
