------------------------- MODULE SerializationProofs -------------------------
(* What TLAPS proves of Serialization, for bytes of any even number of values *)
(* and calls nested to any depth.                                             *)
EXTENDS Serialization, SequenceLemmas

-----------------------------------------------------------------------------
(* Numbers and bytes.                                                      *)

LEMMA RadixIsLarge == Radix \in Nat /\ Radix >= 11 /\ Radix % 2 = 0
BY SerializationAssumption DEF Types

LEMMA Powers ==
    /\ Power \in [Nat -> Nat \ {0}]
    /\ Power[0] = 1
    /\ \A n \in Nat : Power[n + 1] = Radix * Power[n]
<1>1. \A x \in Nat \ {0} : Radix * x \in Nat \ {0}
  BY RadixIsLarge
<1> DEFINE double == [x \in Nat \ {0} |-> Radix * x]
<1>2. double \in [Nat \ {0} -> Nat \ {0}]
  BY <1>1
<1> DEFINE positive == Nat \ {0}
           one == 1
<1>3. PICK f \in [Nat -> Nat \ {0}] : f[0] = 1 /\ \A n \in Nat : f[n + 1] = double[f[n]]
  <2>1. one \in positive /\ double \in [positive -> positive]
    BY <1>2
  <2> HIDE DEF double, positive, one
  <2>2. Iterations(positive, double, one) # {}
    BY <2>1, Iterates
  <2>3. \E f \in [Nat -> positive] : f[0] = one /\ \A n \in Nat : f[n + 1] = double[f[n]]
    BY <2>2 DEF Iterations
  <2> QED BY <2>3 DEF positive, one
<1>4. \A n \in Nat : f[n + 1] = Radix * f[n]
  BY <1>3
<1>5. f = [n \in Nat |-> IF n = 0 THEN 1 ELSE Radix * f[n - 1]]
  <2>1. \A n \in Nat : n # 0 => f[n] = Radix * f[n - 1]
    <3> TAKE n \in Nat
    <3>1. n # 0 => n - 1 \in Nat /\ (n - 1) + 1 = n
      OBVIOUS
    <3> QED BY <1>4, <3>1
  <2> QED BY <1>3, <2>1
<1>6. Power = [n \in Nat |-> IF n = 0 THEN 1 ELSE Radix * Power[n - 1]]
  BY <1>5 DEF Power
<1> DEFINE I == {n \in Nat : Power[n] \in Nat \ {0}}
<1>7. 0 \in I
  BY <1>6
<1>8. ASSUME NEW n \in Nat, n \in I PROVE n + 1 \in I
  <2>1. Power[n + 1] = Radix * Power[(n + 1) - 1]
    BY <1>6
  <2> QED BY <1>1, <1>8, <2>1
<1>9. \A n \in Nat : Power[n] \in Nat \ {0}
  <2> HIDE DEF I
  <2>1. Nat \subseteq I
    BY <1>7, <1>8, SetInduction
  <2> QED BY <2>1 DEF I
<1>10. Power = [n \in Nat |-> Power[n]]
  BY <1>6
<1>11. Power[0] = 1 /\ \A n \in Nat : Power[n + 1] = Radix * Power[n]
  BY <1>6
<1> HIDE DEF I
<1> QED BY <1>9, <1>10, <1>11

LEMMA Division ==
    ASSUME NEW n \in Int, NEW d \in Nat \ {0}
    PROVE  /\ n \div d \in Int /\ n % d \in 0 .. d - 1
           /\ n = d * (n \div d) + (n % d)
OBVIOUS

LEMMA Quotient ==
    ASSUME NEW n \in Int, NEW d \in Nat \ {0}, NEW q \in Int,
           d * q <= n, n < d * q + d
    PROVE  n \div d = q
<1>1. n \div d \in Int /\ n % d \in 0 .. d - 1 /\ n = d * (n \div d) + (n % d)
  BY Division
<1> DEFINE p == n \div d
<1>2. d * p <= n /\ n < d * p + d /\ p \in Int
  BY <1>1
<1> HIDE DEF p
<1>3. d * (p - q) < d /\ d * (q - p) < d
  BY <1>2
<1>4. \A x \in Int : d * x < d => x <= 0
  OBVIOUS
<1>5. p - q <= 0 /\ q - p <= 0
  BY <1>2, <1>3, <1>4
<1> QED BY <1>2, <1>5 DEF p

\* Dividing twice.
LEMMA Quotients ==
    ASSUME NEW n \in Int, NEW c \in Nat \ {0}, NEW d \in Nat \ {0}
    PROVE  n \div (d * c) = (n \div c) \div d
<1> DEFINE p == n \div c
           q == p \div d
<1>1. p \in Int /\ c * p <= n /\ n < c * p + c
  BY Division
<1> HIDE DEF p
<1>2. q \in Int /\ d * q <= p /\ p < d * q + d
  BY <1>1, Division
<1> HIDE DEF q
<1>3. d * c \in Nat \ {0} /\ (d * c) * q = c * (d * q)
  BY <1>2
<1>4. \A x, y \in Int : x <= y => c * x <= c * y
  OBVIOUS
<1>5. c * (d * q) <= c * p /\ c * (p + 1) <= c * (d * q + d)
  BY <1>1, <1>2, <1>4
<1>6. c * (p + 1) = c * p + c /\ c * (d * q + d) = (d * c) * q + d * c
  BY <1>1, <1>2
<1>7. (d * c) * q <= n /\ n < (d * c) * q + d * c
  BY <1>1, <1>2, <1>3, <1>5, <1>6
<1> QED BY <1>2, <1>3, <1>7, Quotient DEF p, q

\* The byte at position k of n, and what is left of n above it.
LEMMA Bytes ==
    ASSUME NEW n \in Int, NEW k \in Nat
    PROVE  /\ n \div Power[k] \in Int
           /\ (n \div Power[k]) % Radix \in Byte
           /\ n \div Power[k] = Radix * (n \div Power[k + 1]) + ((n \div Power[k]) % Radix)
<1>1. Power[k] \in Nat \ {0} /\ Radix \in Nat \ {0} /\ Power[k + 1] = Radix * Power[k]
  BY Powers, RadixIsLarge
<1> DEFINE p == Power[k]
           q == n \div p
<1>2. q \in Int
  BY <1>1, Division
<1>3. n \div (Radix * p) = q \div Radix
  <2> HIDE DEF p
  <2> QED BY <1>1, Quotients DEF p
<1>4. q % Radix \in 0 .. Radix - 1 /\ q = Radix * (q \div Radix) + (q % Radix)
  <2> HIDE DEF q
  <2> QED BY <1>1, <1>2, Division
<1> HIDE DEF q
<1> QED BY <1>1, <1>2, <1>3, <1>4 DEF Byte, q

LEMMA InMemoryType ==
    ASSUME NEW e \in Endian, NEW n \in Int, NEW w \in Nat
    PROVE  /\ InMemory(e, n, w) \in Seq(Byte) /\ Len(InMemory(e, n, w)) = w
           /\ \A i \in 1 .. w : InMemory(e, n, w)[i] =
                 (n \div Power[IF e = "little" THEN i - 1 ELSE w - i]) % Radix
<1> DEFINE b == [i \in 1 .. w |-> (n \div Power[IF e = "little" THEN i - 1 ELSE w - i]) % Radix]
<1>1. \A i \in 1 .. w : (IF e = "little" THEN i - 1 ELSE w - i) \in Nat
  OBVIOUS
<1>2. \A i \in 1 .. w : b[i] \in Byte
  BY <1>1, Bytes
<1>3. b = [i \in 1 .. w |-> b[i]]
  OBVIOUS
<1> HIDE DEF b
<1>4. b \in Seq(Byte) /\ Len(b) = w
  BY <1>2, <1>3
<1> QED BY <1>4 DEF InMemory, b

\* How bytes are read, from the highest down.
Sums(e, w, b) ==
    {high \in [0 .. w -> Nat] :
        /\ high[0] = 0
        /\ \A k \in 1 .. w :
              high[k] = high[k - 1] * Radix + b[IF e = "little" THEN w - k + 1 ELSE k]}

LEMMA FromMemoryByBytes ==
    ASSUME NEW e \in Endian, NEW w \in Nat, NEW b \in Seq(Byte), Len(b) = w
    PROVE  \E high \in Sums(e, w, b) : FromMemory(e, b) = high[w]
<1> DEFINE at(k) == IF e = "little" THEN w - k + 1 ELSE k
           D == 0 .. w
           measure == [k \in D |-> k]
           phi == [k \in D |-> [f \in [D -> Nat] |->
                     IF k = 0 THEN 0 ELSE f[k - 1] * Radix + b[at(k)]]]
<1>1. \A k \in 1 .. w : b[at(k)] \in Nat
  <2> TAKE k \in 1 .. w
  <2>1. at(k) \in 1 .. Len(b)
    OBVIOUS
  <2> QED BY <2>1, LenProperties, RadixIsLarge DEF Byte
<1> HIDE DEF at
<1>2. measure \in [D -> Nat] /\ 0 \in Nat
  OBVIOUS
<1>3. phi \in [D -> [[D -> Nat] -> Nat]]
  <2>1. ASSUME NEW k \in D, NEW f \in [D -> Nat]
        PROVE  (IF k = 0 THEN 0 ELSE f[k - 1] * Radix + b[at(k)]) \in Nat
    <3>1. k # 0 => k \in 1 .. w /\ k - 1 \in D
      OBVIOUS
    <3>2. \A x, y, z \in Nat : x * y + z \in Nat
      OBVIOUS
    <3> QED BY <1>1, <3>1, <3>2, RadixIsLarge
  <2> QED BY <2>1
<1>4. LooksBack(D, measure, [D -> Nat], phi)
  <2> SUFFICES ASSUME NEW f \in [D -> Nat], NEW g \in [D -> Nat], NEW k \in D,
                      \A m \in D : measure[m] < measure[k] => f[m] = g[m]
               PROVE  phi[k][f] = phi[k][g]
    BY DEF LooksBack
  <2>1. k # 0 => k - 1 \in D /\ f[k - 1] = g[k - 1]
    OBVIOUS
  <2> QED BY <2>1
<1>5. Recursive(D, [D -> Nat], phi) # {}
  <2> HIDE DEF D, measure, phi
  <2> QED BY <1>2, <1>3, <1>4, RecursionInto
<1>6. PICK f \in [D -> Nat] : \A k \in D : f[k] = phi[k][f]
  <2> HIDE DEF phi
  <2> QED BY <1>5 DEF Recursive
<1> DEFINE body(g) == [k \in D |-> IF k = 0 THEN 0 ELSE g[k - 1] * Radix + b[at(k)]]
           high == CHOOSE g : g = body(g)
<1>7. f = body(f)
  BY <1>6
<1>8. high = body(high)
  <2> HIDE DEF body
  <2> QED BY <1>7
<1>9. FromMemory(e, b) = high[w]
  BY DEF FromMemory, at
<1> DEFINE I == {n \in Nat : n \in D => high[n] \in Nat}
<1> HIDE DEF high
<1>10. 0 \in I
  BY <1>8
<1>11. ASSUME NEW n \in Nat, n \in I PROVE n + 1 \in I
  <2>1. n + 1 \in D => n \in D /\ n + 1 \in 1 .. w /\ high[n + 1] = high[n] * Radix + b[at(n + 1)]
    BY <1>8
  <2>2. \A x, y, z \in Nat : x * y + z \in Nat
    OBVIOUS
  <2>3. n + 1 \in D => high[n] \in Nat /\ b[at(n + 1)] \in Nat
    <3> HIDE DEF D
    <3> QED BY <1>1, <1>11, <2>1
  <2>4. n + 1 \in D => high[n] * Radix + b[at(n + 1)] \in Nat
    <3> HIDE DEF D, I
    <3>1. Radix \in Nat
      BY RadixIsLarge
    <3> QED BY <2>2, <2>3, <3>1
  <2> QED BY <2>1, <2>4
<1>12. \A k \in D : high[k] \in Nat
  <2> HIDE DEF I
  <2>1. Nat \subseteq I
    BY <1>10, <1>11, SetInduction
  <2>2. \A k \in D : k \in Nat
    OBVIOUS
  <2> QED BY <2>1, <2>2 DEF I
<1>13. high \in [D -> Nat]
  <2>1. high = [k \in D |-> high[k]]
    BY <1>8
  <2> QED BY <1>12, <2>1
<1>14. high[0] = 0 /\ \A k \in 1 .. w : high[k] = high[k - 1] * Radix + b[at(k)]
  BY <1>8
<1> QED BY <1>9, <1>13, <1>14 DEF at, Sums

LEMMA FromMemoryType ==
    ASSUME NEW e \in Endian, NEW w \in Nat, NEW b \in Seq(Byte), Len(b) = w
    PROVE  FromMemory(e, b) \in Number(w)
<1>1. PICK high \in [0 .. w -> Nat] :
         /\ FromMemory(e, b) = high[w]
         /\ high[0] = 0
         /\ \A k \in 1 .. w :
               high[k] = high[k - 1] * Radix + b[IF e = "little" THEN w - k + 1 ELSE k]
  <2>1. \E high \in Sums(e, w, b) : FromMemory(e, b) = high[w]
    BY FromMemoryByBytes
  <2> QED BY <2>1 DEF Sums
<1> DEFINE I == {k \in Nat : k <= w => high[k] < Power[k]}
<1>2. 0 \in I
  BY <1>1, Powers
<1>3. ASSUME NEW k \in Nat, k \in I PROVE k + 1 \in I
  <2>1. SUFFICES ASSUME k + 1 <= w PROVE high[k + 1] < Power[k + 1]
    OBVIOUS
  <2> DEFINE d == b[IF e = "little" THEN w - (k + 1) + 1 ELSE k + 1]
  <2>2. high[k + 1] = high[k] * Radix + d
    <3>1. k + 1 \in 1 .. w /\ (k + 1) - 1 = k
      BY <2>1
    <3> QED BY <1>1, <3>1
  <2>3. d \in Byte
    <3>1. (IF e = "little" THEN w - (k + 1) + 1 ELSE k + 1) \in 1 .. Len(b)
      BY <2>1
    <3> QED BY <3>1, LenProperties
  <2>4. high[k] \in Nat /\ high[k] < Power[k] /\ Power[k] \in Nat
    BY <1>3, <2>1, Powers
  <2>5. Power[k + 1] = Radix * Power[k]
    BY Powers
  <2> HIDE DEF d
  <2>6. \A x, y \in Nat : x < y => x * Radix + Radix <= Radix * y
    BY RadixIsLarge
  <2>7. high[k] * Radix + Radix <= Radix * Power[k]
    BY <2>4, <2>6
  <2> QED BY <2>2, <2>3, <2>4, <2>5, <2>7, RadixIsLarge DEF Byte
<1>4. w \in I
  <2> HIDE DEF I
  <2> QED BY <1>2, <1>3, SetInduction
<1>5. high[w] \in Nat /\ high[w] < Power[w] /\ Power[w] \in Nat
  BY <1>4, Powers
<1> QED BY <1>1, <1>5 DEF Number

\* What is in memory is read from there, a negative number as the complement.
LEMMA ReadFromMemory ==
    ASSUME NEW e \in Endian, NEW w \in Nat, NEW n \in Int, -Power[w] <= n, n < Power[w]
    PROVE  FromMemory(e, InMemory(e, n, w)) = IF n < 0 THEN n + Power[w] ELSE n
<1> DEFINE b == InMemory(e, n, w)
           top == IF n < 0 THEN -1 ELSE 0
           left(k) == n \div Power[k]
<1>1. /\ b \in Seq(Byte) /\ Len(b) = w
      /\ \A i \in 1 .. w : b[i] = (n \div Power[IF e = "little" THEN i - 1 ELSE w - i]) % Radix
  BY InMemoryType
<1> HIDE DEF b
<1>2. PICK high \in [0 .. w -> Nat] :
         /\ FromMemory(e, b) = high[w]
         /\ high[0] = 0
         /\ \A k \in 1 .. w :
               high[k] = high[k - 1] * Radix + b[IF e = "little" THEN w - k + 1 ELSE k]
  <2>1. \E high \in Sums(e, w, b) : FromMemory(e, b) = high[w]
    BY <1>1, FromMemoryByBytes
  <2> QED BY <2>1 DEF Sums
<1>3. Power[w] \in Nat \ {0} /\ Power[0] = 1 /\ Radix \in Nat
  BY Powers, RadixIsLarge
<1>4. left(w) = top
  <2>1. Power[w] * top <= n /\ n < Power[w] * top + Power[w] /\ top \in Int
    BY <1>3
  <2> HIDE DEF top
  <2> QED BY <1>3, <2>1, Quotient
<1>5. left(0) = n
  BY <1>3, Quotient
<1>6. ASSUME NEW k \in 0 .. w - 1
      PROVE  /\ left(w - k) \in Int /\ left(w - (k + 1)) \in Int
             /\ left(w - (k + 1)) =
                   Radix * left(w - k) + b[IF e = "little" THEN w - (k + 1) + 1 ELSE k + 1]
  <2>1. w - (k + 1) \in Nat /\ (w - (k + 1)) + 1 = w - k /\ w - k \in Nat
    OBVIOUS
  <2>2. b[IF e = "little" THEN w - (k + 1) + 1 ELSE k + 1] = left(w - (k + 1)) % Radix
    <3>1. CASE e = "little"
      <4>1. w - (k + 1) + 1 \in 1 .. w /\ (w - (k + 1) + 1) - 1 = w - (k + 1)
        OBVIOUS
      <4> QED BY <1>1, <3>1, <4>1
    <3>2. CASE e # "little"
      <4>1. k + 1 \in 1 .. w
        OBVIOUS
      <4> QED BY <1>1, <3>2, <4>1
    <3> QED BY <3>1, <3>2
  <2>3. /\ left(w - (k + 1)) \in Int /\ left(w - k) \in Int
        /\ left(w - (k + 1)) = Radix * left(w - k) + (left(w - (k + 1)) % Radix)
    BY <2>1, Bytes
  <2> QED BY <2>2, <2>3
<1> HIDE DEF left, top
<1> DEFINE I == {k \in Nat : k <= w => high[k] = left(w - k) - top * Power[k]}
<1>7. 0 \in I
  <2>1. w - 0 = w /\ top \in Int /\ left(w) = top
    BY <1>4 DEF top
  <2> QED BY <1>2, <1>3, <2>1
<1>8. ASSUME NEW k \in Nat, k \in I PROVE k + 1 \in I
  <2>1. SUFFICES ASSUME k + 1 <= w PROVE high[k + 1] = left(w - (k + 1)) - top * Power[k + 1]
    OBVIOUS
  <2> DEFINE d == b[IF e = "little" THEN w - (k + 1) + 1 ELSE k + 1]
  <2>2. high[k + 1] = high[k] * Radix + d
    <3>1. k + 1 \in 1 .. w /\ (k + 1) - 1 = k
      BY <2>1
    <3> QED BY <1>2, <3>1
  <2>3. left(w - k) \in Int /\ left(w - (k + 1)) = Radix * left(w - k) + d
    BY <1>6, <2>1
  <2>4. high[k] = left(w - k) - top * Power[k]
    BY <1>8, <2>1
  <2>5. Power[k + 1] = Radix * Power[k] /\ Power[k] \in Nat
    BY Powers
  <2>6. d \in Int
    <3> DEFINE i == IF e = "little" THEN w - (k + 1) + 1 ELSE k + 1
    <3>1. i \in 1 .. Len(b) /\ b \in Seq(Byte)
      BY <1>1, <2>1
    <3>2. Byte \subseteq Int
      BY RadixIsLarge DEF Byte
    <3> HIDE DEF i, b
    <3>3. b[i] \in Byte
      BY <3>1, LenProperties
    <3> QED BY <3>2, <3>3 DEF i
  <2> HIDE DEF d
  <2>7. CASE top = 0
    BY <1>3, <2>2, <2>3, <2>4, <2>5, <2>6, <2>7
  <2>8. CASE top = -1
    BY SMTT(30), <1>3, <2>2, <2>3, <2>4, <2>5, <2>6, <2>8
  <2> QED BY <2>7, <2>8 DEF top
<1>9. w \in I
  <2> HIDE DEF I
  <2> QED BY <1>7, <1>8, SetInduction
<1>10. high[w] = left(0) - top * Power[w]
  <2>1. w - w = 0
    OBVIOUS
  <2> QED BY <1>9, <2>1
<1> QED BY <1>2, <1>3, <1>5, <1>10 DEF top, b

LEMMA HalfPower ==
    ASSUME NEW w \in Nat \ {0}
    PROVE  Power[w] \div 2 \in Nat \ {0} /\ Power[w] = 2 * (Power[w] \div 2)
<1>1. PICK r \in Nat : Radix = 2 * r /\ r # 0
  <2>1. Radix \div 2 \in Nat /\ Radix = 2 * (Radix \div 2) /\ Radix \div 2 # 0
    BY RadixIsLarge
  <2> QED BY <2>1
<1>2. Power[w] = Radix * Power[w - 1] /\ Power[w - 1] \in Nat \ {0} /\ Power[w] \in Nat
  <2>1. w - 1 \in Nat /\ (w - 1) + 1 = w
    OBVIOUS
  <2> QED BY <2>1, Powers
<1> DEFINE h == r * Power[w - 1]
<1>3. h \in Nat /\ h # 0
  BY <1>1, <1>2
<1>4. Power[w] = 2 * h
  BY <1>1, <1>2
<1> HIDE DEF h
<1> QED BY <1>2, <1>3, <1>4

LEMMA TwosComplements ==
    ASSUME NEW w \in Nat \ {0}
    PROVE  /\ \A n \in Number(w) : TwosComplement(n, w) \in SignedNumber(w)
           /\ \A n \in SignedNumber(w) :
                 /\ n \in Int /\ -Power[w] <= n /\ n < Power[w]
                 /\ TwosComplement(IF n < 0 THEN n + Power[w] ELSE n, w) = n
           /\ \A n \in Number(w) : n \in Nat /\ n < Power[w] /\ -Power[w] <= n
<1>1. /\ Power[w] \in Nat /\ Power[w] \div 2 \in Nat
      /\ Power[w] \div 2 # 0 /\ Power[w] = 2 * (Power[w] \div 2)
  BY HalfPower, Powers
<1> DEFINE h == Power[w] \div 2
<1> HIDE DEF h
<1>2. h \in Nat /\ h # 0 /\ Power[w] = 2 * h
  BY <1>1 DEF h
<1>3. /\ \A n : TwosComplement(n, w) = IF n >= h THEN n - Power[w] ELSE n
      /\ SignedNumber(w) = -h .. h - 1
  BY DEF TwosComplement, SignedNumber, h
<1> QED BY <1>2, <1>3 DEF Number

-----------------------------------------------------------------------------
(* Numbers in a buffer.                                                    *)

\* What reading can give that takes its value from V and leaves n bytes at most.
Results(V, n) ==
    [value : V, rest : {s \in Seq(Byte) : Len(s) <= n}, ok : {TRUE}] \cup {Aborted}

LEMMA OneByteOrder ==
    ASSUME NEW e \in Endian, NEW w \in Nat
    PROVE  /\ \A n \in Int : WriteInt(e, n, w) = InMemory("little", n, w)
           /\ \A b \in Seq(Byte) : Len(b) = w =>
                 FromMemory(e, Swapped(e, b)) = FromMemory("little", b)
<1>1. CASE e = "little"
  BY <1>1 DEF WriteInt, Swapped, communication_endian
<1>2. CASE e = "big"
  <2>1. ASSUME NEW n \in Int PROVE Reverse(InMemory("big", n, w)) = InMemory("little", n, w)
    <3> DEFINE b == InMemory("big", n, w)
               d == InMemory("little", n, w)
    <3>1. /\ Len(b) = w
          /\ \A i \in 1 .. w : b[i] = (n \div Power[w - i]) % Radix
          /\ \A i \in 1 .. w : d[i] = (n \div Power[i - 1]) % Radix
          /\ d = [i \in 1 .. w |-> d[i]]
      BY DEF InMemory
    <3>2. Reverse(b) = [i \in 1 .. w |-> b[(w - i) + 1]]
      BY <3>1 DEF Reverse
    <3>3. ASSUME NEW i \in 1 .. w PROVE b[(w - i) + 1] = d[i]
      <4>1. (w - i) + 1 \in 1 .. w /\ w - ((w - i) + 1) = i - 1
        OBVIOUS
      <4> HIDE DEF b, d
      <4> QED BY <3>1, <4>1
    <3> HIDE DEF b, d
    <3>4. Reverse(b) = d
      BY <3>1, <3>2, <3>3
    <3> QED BY <3>4 DEF b, d
  <2>2. ASSUME NEW b \in Seq(Byte), Len(b) = w
        PROVE  FromMemory("big", Reverse(b)) = FromMemory("little", b)
    <3>1. Reverse(b) \in Seq(Byte) /\ Len(Reverse(b)) = w
      <4>1. Reverse(b) = [i \in 1 .. w |-> b[(w - i) + 1]]
        BY <2>2 DEF Reverse
      <4>2. ASSUME NEW i \in 1 .. w PROVE b[(w - i) + 1] \in Byte
        <5>1. (w - i) + 1 \in 1 .. Len(b)
          BY <2>2
        <5> QED BY <5>1, LenProperties
      <4> QED BY <4>1, <4>2
    <3>2. ASSUME NEW k \in 1 .. w PROVE Reverse(b)[k] = b[w - k + 1]
      BY <2>2 DEF Reverse
    <3>3. PICK f \in [0 .. w -> Nat] :
             /\ FromMemory("big", Reverse(b)) = f[w] /\ f[0] = 0
             /\ \A k \in 1 .. w : f[k] = f[k - 1] * Radix + Reverse(b)[k]
      <4>1. "big" \in Endian /\ "big" # "little"
        BY DEF Endian
      <4>2. \E f \in Sums("big", w, Reverse(b)) : FromMemory("big", Reverse(b)) = f[w]
        BY <3>1, <4>1, FromMemoryByBytes
      <4> QED BY <4>1, <4>2 DEF Sums
    <3>4. PICK g \in [0 .. w -> Nat] :
             /\ FromMemory("little", b) = g[w] /\ g[0] = 0
             /\ \A k \in 1 .. w : g[k] = g[k - 1] * Radix + b[w - k + 1]
      <4>1. "little" \in Endian
        BY DEF Endian
      <4>2. \E g \in Sums("little", w, b) : FromMemory("little", b) = g[w]
        BY <2>2, <4>1, FromMemoryByBytes
      <4> QED BY <4>2 DEF Sums
    <3> DEFINE I == {k \in Nat : k <= w => f[k] = g[k]}
    <3>5. 0 \in I
      BY <3>3, <3>4
    <3>6. ASSUME NEW k \in Nat, k \in I PROVE k + 1 \in I
      <4>1. SUFFICES ASSUME k + 1 <= w PROVE f[k + 1] = g[k + 1]
        OBVIOUS
      <4>2. k + 1 \in 1 .. w /\ (k + 1) - 1 = k /\ f[k] = g[k]
        BY <3>6, <4>1
      <4> QED BY <3>2, <3>3, <3>4, <4>2
    <3>7. w \in I
      <4> HIDE DEF I
      <4> QED BY <3>5, <3>6, SetInduction
    <3> QED BY <3>3, <3>4, <3>7
  <2> QED BY <1>2, <2>1, <2>2 DEF WriteInt, Swapped, communication_endian
<1> QED BY <1>1, <1>2 DEF Endian

\* w bytes are taken from a buffer that has them.
LEMMA Taking ==
    ASSUME NEW w \in Nat
    PROVE  /\ \A buf \in Seq(Byte) : Take(w, buf) \in Results({b \in Seq(Byte) : Len(b) = w}, Len(buf))
           /\ \A b, rest \in Seq(Byte) : Len(b) = w => Take(w, b \o rest) = Read(b, rest)
<1>1. ASSUME NEW buf \in Seq(Byte)
      PROVE  Take(w, buf) \in Results({b \in Seq(Byte) : Len(b) = w}, Len(buf))
  <2>1. CASE Len(buf) < w
    BY <2>1 DEF Take, Results
  <2>2. CASE ~(Len(buf) < w)
    <3>1. Len(buf) \in Nat /\ \A i \in 1 .. Len(buf) : buf[i] \in Byte
      BY LenProperties
    <3>2. SubSeq(buf, 1, w) \in Seq(Byte) /\ Len(SubSeq(buf, 1, w)) = w
      <4>1. \A i \in 1 .. w : buf[i] \in Byte
        BY <2>2, <3>1
      <4>2. Len(SubSeq(buf, 1, w)) = IF 1 <= w THEN w - 1 + 1 ELSE 0
        BY <4>1, SubSeqProperties
      <4> QED BY <4>1, <4>2, SubSeqProperties
    <3>3. /\ SubSeq(buf, w + 1, Len(buf)) \in Seq(Byte)
          /\ Len(SubSeq(buf, w + 1, Len(buf))) <= Len(buf)
      <4>1. \A i \in w + 1 .. Len(buf) : buf[i] \in Byte
        BY <3>1
      <4>2. Len(SubSeq(buf, w + 1, Len(buf))) =
               IF w + 1 <= Len(buf) THEN Len(buf) - (w + 1) + 1 ELSE 0
        BY <3>1, <4>1, SubSeqProperties
      <4>3. SubSeq(buf, w + 1, Len(buf)) \in Seq(Byte)
        BY <3>1, <4>1, SubSeqProperties
      <4> QED BY <3>1, <4>2, <4>3
    <3>4. Take(w, buf) = Read(SubSeq(buf, 1, w), SubSeq(buf, w + 1, Len(buf)))
      BY <2>2 DEF Take
    <3> QED BY <3>2, <3>3, <3>4 DEF Results, Read
  <2> QED BY <2>1, <2>2
<1>2. ASSUME NEW b \in Seq(Byte), NEW rest \in Seq(Byte), Len(b) = w
      PROVE  Take(w, b \o rest) = Read(b, rest)
  <2> DEFINE all == b \o rest
  <2>1. /\ all \in Seq(Byte) /\ Len(all) = w + Len(rest) /\ Len(rest) \in Nat
        /\ \A i \in 1 .. w + Len(rest) : all[i] = IF i <= w THEN b[i] ELSE rest[i - w]
    BY <1>2, ConcatProperties, LenProperties
  <2>2. /\ \A i \in 1 .. w : b[i] \in Byte
        /\ \A i \in 1 .. Len(rest) : rest[i] \in Byte
    BY <1>2, LenProperties
  <2> HIDE DEF all
  <2>3. SubSeq(all, 1, w) = b
    <3>1. \A i \in 1 .. w : i \in 1 .. w + Len(rest) /\ all[i] \in Byte
      BY <2>1, <2>2
    <3>2. /\ SubSeq(all, 1, w) \in Seq(Byte)
          /\ Len(SubSeq(all, 1, w)) = IF 1 <= w THEN w - 1 + 1 ELSE 0
          /\ \A i \in 1 .. w - 1 + 1 : SubSeq(all, 1, w)[i] = all[1 + i - 1]
      BY <3>1, SubSeqProperties
    <3>3. Len(SubSeq(all, 1, w)) = Len(b)
      BY <1>2, <3>2
    <3>4. \A i \in 1 .. Len(SubSeq(all, 1, w)) : SubSeq(all, 1, w)[i] = b[i]
      <4> TAKE i \in 1 .. Len(SubSeq(all, 1, w))
      <4>1. i \in 1 .. w /\ i \in 1 .. w - 1 + 1 /\ 1 + i - 1 = i
        BY <1>2, <3>3
      <4> QED BY <2>1, <3>1, <3>2, <4>1
    <3> QED BY <3>2, <3>3, <3>4, SeqEqual
  <2>4. SubSeq(all, w + 1, Len(all)) = rest
    <3>1. \A i \in w + 1 .. Len(all) : all[i] \in Byte
      <4> TAKE i \in w + 1 .. Len(all)
      <4>1. i \in 1 .. w + Len(rest) /\ ~(i <= w) /\ i - w \in 1 .. Len(rest)
        BY <2>1
      <4> QED BY <2>1, <2>2, <4>1
    <3> DEFINE s == SubSeq(all, w + 1, Len(all))
    <3>2. /\ s \in Seq(Byte)
          /\ Len(s) = IF w + 1 <= Len(all) THEN Len(all) - (w + 1) + 1 ELSE 0
          /\ \A i \in 1 .. Len(all) - (w + 1) + 1 : s[i] = all[w + 1 + i - 1]
      BY <2>1, <3>1, SubSeqProperties
    <3> HIDE DEF s
    <3>3. Len(s) = Len(rest)
      BY <2>1, <3>2
    <3>4. \A i \in 1 .. Len(s) : s[i] = rest[i]
      <4> TAKE i \in 1 .. Len(s)
      <4>1. /\ i \in 1 .. Len(all) - (w + 1) + 1 /\ w + 1 + i - 1 = w + i
            /\ w + i \in 1 .. w + Len(rest) /\ ~(w + i <= w) /\ (w + i) - w = i
        BY <2>1, <3>3
      <4> QED BY <2>1, <3>2, <4>1
    <3> QED BY <3>2, <3>3, <3>4, SeqEqual DEF s
  <2>5. ~(Len(all) < w)
    BY <2>1
  <2> QED BY <2>3, <2>4, <2>5 DEF Take, all
<1> QED BY <1>1, <1>2

\* A result is Aborted or something that was read.
LEMMA OfResults ==
    ASSUME NEW V, NEW n, NEW t \in Results(V, n)
    PROVE  \/ t = Aborted /\ ~t.ok
           \/ /\ t.ok /\ t = Read(t.value, t.rest)
              /\ t.value \in V /\ t.rest \in Seq(Byte) /\ Len(t.rest) <= n
<1>1. CASE t = Aborted
  BY <1>1 DEF Aborted
<1>2. CASE t # Aborted
  <2>1. t \in [value : V, rest : {s \in Seq(Byte) : Len(s) <= n}, ok : {TRUE}]
    BY <1>2 DEF Results
  <2> QED BY <2>1 DEF Read
<1> QED BY <1>1, <1>2

LEMMA InResults ==
    ASSUME NEW V, NEW n
    PROVE  /\ Aborted \in Results(V, n)
           /\ \A v \in V, s \in Seq(Byte) : Len(s) <= n => Read(v, s) \in Results(V, n)
<1>1. ASSUME NEW v \in V, NEW s \in Seq(Byte), Len(s) <= n
      PROVE  Read(v, s) \in Results(V, n)
  <2>1. Read(v, s) \in [value : V, rest : {r \in Seq(Byte) : Len(r) <= n}, ok : {TRUE}]
    BY <1>1 DEF Read
  <2> QED BY <2>1 DEF Results
<1> QED BY <1>1 DEF Results

\* What reading a number gives.
LEMMA NumbersRead ==
    ASSUME NEW e \in Endian, NEW w \in Nat \ {0}, NEW buf \in Seq(Byte)
    PROVE  /\ ReadUnsigned(e, w, buf) \in Results(Number(w), Len(buf))
           /\ ReadSigned(e, w, buf) \in Results(SignedNumber(w), Len(buf))
           /\ ReadBits(e, w, buf) \in Results(Number(w), Len(buf))
<1> DEFINE B == {b \in Seq(Byte) : Len(b) = w}
           t == Take(w, buf)
<1>1. t \in Results(B, Len(buf)) /\ w \in Nat
  BY Taking
<1>2. ASSUME NEW b \in B
      PROVE  FromMemory(e, b) \in Number(w) /\ FromMemory(e, Swapped(e, b)) \in Number(w)
  <2>1. FromMemory(e, b) \in Number(w) /\ FromMemory("little", b) \in Number(w)
    BY FromMemoryType DEF Endian
  <2> QED BY <2>1, OneByteOrder
<1>3. /\ ReadUnsigned(e, w, buf) = IF t.ok THEN Read(FromMemory(e, Swapped(e, t.value)), t.rest) ELSE t
      /\ ReadBits(e, w, buf) = IF t.ok THEN Read(FromMemory(e, t.value), t.rest) ELSE t
  BY DEF ReadUnsigned, ReadBits, As, Then
<1>4. ReadSigned(e, w, buf) =
         IF ReadUnsigned(e, w, buf).ok
         THEN Read(TwosComplement(ReadUnsigned(e, w, buf).value, w), ReadUnsigned(e, w, buf).rest)
         ELSE ReadUnsigned(e, w, buf)
  BY DEF ReadSigned, As, Then
<1> HIDE DEF B, t
<1>5. \/ t = Aborted /\ ~t.ok
      \/ t.ok /\ t.value \in B /\ t.rest \in Seq(Byte) /\ Len(t.rest) <= Len(buf)
  BY <1>1, OfResults
<1>6. ReadUnsigned(e, w, buf) \in Results(Number(w), Len(buf))
  BY <1>2, <1>3, <1>5, InResults
<1>7. ReadBits(e, w, buf) \in Results(Number(w), Len(buf))
  BY <1>2, <1>3, <1>5, InResults
<1>8. ReadSigned(e, w, buf) \in Results(SignedNumber(w), Len(buf))
  <2> DEFINE u == ReadUnsigned(e, w, buf)
  <2> HIDE DEF u
  <2>1. \/ u = Aborted /\ ~u.ok
        \/ u.ok /\ u.value \in Number(w) /\ u.rest \in Seq(Byte) /\ Len(u.rest) <= Len(buf)
    BY <1>6, OfResults DEF u
  <2>2. ReadSigned(e, w, buf) = IF u.ok THEN Read(TwosComplement(u.value, w), u.rest) ELSE u
    BY <1>4 DEF u
  <2> QED BY <2>1, <2>2, TwosComplements, InResults
<1> QED BY <1>6, <1>7, <1>8

\* A number that was written is read on a machine of either byte order, and
\* bits on one of the same.
LEMMA NumbersReadBack ==
    ASSUME NEW e \in Endian, NEW d \in Endian, NEW w \in Nat \ {0}, NEW rest \in Seq(Byte)
    PROVE  /\ \A n \in Number(w) :
                 /\ WriteInt(e, n, w) \in Seq(Byte) /\ Len(WriteInt(e, n, w)) = w
                 /\ ReadUnsigned(d, w, WriteInt(e, n, w) \o rest) = Read(n, rest)
           /\ \A n \in SignedNumber(w) :
                 /\ WriteInt(e, n, w) \in Seq(Byte) /\ Len(WriteInt(e, n, w)) = w
                 /\ ReadSigned(d, w, WriteInt(e, n, w) \o rest) = Read(n, rest)
           /\ \A n \in Number(w) :
                 /\ InMemory(e, n, w) \in Seq(Byte) /\ Len(InMemory(e, n, w)) = w
                 /\ \E m \in Number(w) : /\ ReadBits(d, w, InMemory(e, n, w) \o rest) = Read(m, rest)
                                         /\ d = e => m = n
<1>1. "little" \in Endian /\ w \in Nat
  BY DEF Endian
<1>2. ASSUME NEW n \in Int
      PROVE  /\ WriteInt(e, n, w) \in Seq(Byte) /\ Len(WriteInt(e, n, w)) = w
             /\ -Power[w] <= n /\ n < Power[w] =>
                   ReadUnsigned(d, w, WriteInt(e, n, w) \o rest) =
                      Read(IF n < 0 THEN n + Power[w] ELSE n, rest)
  <2> DEFINE b == InMemory("little", n, w)
  <2>1. WriteInt(e, n, w) = b /\ b \in Seq(Byte) /\ Len(b) = w
    BY <1>1, OneByteOrder, InMemoryType
  <2>2. FromMemory(d, Swapped(d, b)) = FromMemory("little", b)
    <3> HIDE DEF b
    <3> QED BY <1>1, <2>1, OneByteOrder
  <2>3. -Power[w] <= n /\ n < Power[w] => FromMemory("little", b) = IF n < 0 THEN n + Power[w] ELSE n
    BY <1>1, ReadFromMemory
  <2> HIDE DEF b
  <2>4. Take(w, b \o rest) = Read(b, rest)
    BY <2>1, <1>1, Taking
  <2>5. ReadUnsigned(d, w, b \o rest) = Read(FromMemory(d, Swapped(d, b)), rest)
    BY <2>4 DEF ReadUnsigned, As, Then, Read
  <2> QED BY <2>1, <2>2, <2>3, <2>5
<1>3. ASSUME NEW n \in Number(w)
      PROVE  /\ WriteInt(e, n, w) \in Seq(Byte) /\ Len(WriteInt(e, n, w)) = w
             /\ ReadUnsigned(d, w, WriteInt(e, n, w) \o rest) = Read(n, rest)
  <2>1. n \in Nat /\ n < Power[w] /\ -Power[w] <= n
    BY TwosComplements
  <2> QED BY <1>2, <2>1
<1>4. ASSUME NEW n \in SignedNumber(w)
      PROVE  /\ WriteInt(e, n, w) \in Seq(Byte) /\ Len(WriteInt(e, n, w)) = w
             /\ ReadSigned(d, w, WriteInt(e, n, w) \o rest) = Read(n, rest)
  <2>1. /\ n \in Int /\ -Power[w] <= n /\ n < Power[w]
        /\ TwosComplement(IF n < 0 THEN n + Power[w] ELSE n, w) = n
    BY TwosComplements
  <2>2. ReadUnsigned(d, w, WriteInt(e, n, w) \o rest) = Read(IF n < 0 THEN n + Power[w] ELSE n, rest)
    BY <1>2, <2>1
  <2>3. ReadSigned(d, w, WriteInt(e, n, w) \o rest) =
           Read(TwosComplement(IF n < 0 THEN n + Power[w] ELSE n, w), rest)
    BY <2>2 DEF ReadSigned, As, Then, Read
  <2> QED BY <1>2, <2>1, <2>3
<1>5. ASSUME NEW n \in Number(w)
      PROVE  /\ InMemory(e, n, w) \in Seq(Byte) /\ Len(InMemory(e, n, w)) = w
             /\ \E m \in Number(w) : /\ ReadBits(d, w, InMemory(e, n, w) \o rest) = Read(m, rest)
                                     /\ d = e => m = n
  <2> DEFINE b == InMemory(e, n, w)
  <2>1. n \in Nat /\ n < Power[w] /\ -Power[w] <= n
    BY TwosComplements
  <2>2. b \in Seq(Byte) /\ Len(b) = w
    BY <1>1, <2>1, InMemoryType
  <2>3. FromMemory(e, b) = n
    BY <1>1, <2>1, ReadFromMemory
  <2> HIDE DEF b
  <2>4. FromMemory(d, b) \in Number(w)
    BY <1>1, <2>2, FromMemoryType
  <2>5. Take(w, b \o rest) = Read(b, rest)
    BY <1>1, <2>2, Taking
  <2>6. ReadBits(d, w, b \o rest) = Read(FromMemory(d, b), rest)
    BY <2>5 DEF ReadBits, As, Then, Read
  <2> QED BY <2>2, <2>3, <2>4, <2>6 DEF b
<1> QED BY <1>3, <1>4, <1>5

-----------------------------------------------------------------------------
(* Strings.                                                                *)

LEMMA Sizes ==
    /\ \A type \in DOMAIN SizeOf : SizeOf[type] \in Nat \ {0}
    /\ Integral \cup Floating \subseteq DOMAIN SizeOf /\ "size" \in DOMAIN SizeOf
    /\ Signed \subseteq Integral
BY DEF SizeOf, Integral, Floating, Signed

LEMMA StringsRead ==
    ASSUME NEW e \in Endian, NEW buf \in Seq(Byte)
    PROVE  ReadString(e, buf) \in Results(Sequence(Byte), Len(buf))
<1> DEFINE w == SizeOf.size
           u == ReadUnsigned(e, w, buf)
           t == Take(u.value, u.rest)
<1>1. w \in Nat \ {0}
  BY Sizes
<1> HIDE DEF w
<1>2. \/ u = Aborted /\ ~u.ok
      \/ u.ok /\ u.value \in Number(w) /\ u.rest \in Seq(Byte) /\ Len(u.rest) <= Len(buf)
  BY <1>1, NumbersRead, OfResults
<1>3. ReadString(e, buf) = IF u.ok THEN t ELSE u
  BY DEF ReadString, Then, w
<1> HIDE DEF u
<1>4. CASE ~u.ok
  BY <1>2, <1>3, <1>4, InResults
<1>5. CASE u.ok
  <2>1. u.value \in Nat /\ u.value \in Number(w) /\ u.rest \in Seq(Byte) /\ Len(u.rest) <= Len(buf)
    BY <1>1, <1>2, <1>5, TwosComplements DEF Aborted
  <2> DEFINE B == {b \in Seq(Byte) : Len(b) = u.value}
  <2>2. t \in Results(B, Len(u.rest))
    BY <2>1, Taking
  <2>3. B \subseteq Sequence(Byte)
    BY <2>1 DEF Sequence, w
  <2> HIDE DEF B, t
  <2>4. \/ t = Aborted /\ ~t.ok
        \/ /\ t.ok /\ t = Read(t.value, t.rest)
           /\ t.value \in B /\ t.rest \in Seq(Byte) /\ Len(t.rest) <= Len(u.rest)
    BY <2>2, OfResults
  <2>5. Len(buf) \in Nat /\ Len(u.rest) \in Nat /\ \A s \in Seq(Byte) : Len(s) \in Nat
    BY <2>1, LenProperties
  <2> QED BY <1>3, <1>5, <2>1, <2>3, <2>4, <2>5, InResults
<1> QED BY <1>4, <1>5

LEMMA StringsReadBack ==
    ASSUME NEW e \in Endian, NEW d \in Endian, NEW str \in Sequence(Byte), NEW rest \in Seq(Byte)
    PROVE  /\ WriteString(e, str) \in Seq(Byte)
           /\ Len(WriteString(e, str)) = SizeOf.size + Len(str)
           /\ ReadString(d, WriteString(e, str) \o rest) = Read(str, rest)
<1> DEFINE w == SizeOf.size
           b == WriteInt(e, Len(str), w)
<1>1. w \in Nat \ {0} /\ str \in Seq(Byte) /\ Len(str) \in Number(w) /\ Len(str) \in Nat
  BY Sizes, LenProperties DEF Sequence
<1>2. str \o rest \in Seq(Byte)
  BY <1>1, ConcatProperties
<1> HIDE DEF w
<1>3. b \in Seq(Byte) /\ Len(b) = w /\ ReadUnsigned(d, w, b \o (str \o rest)) = Read(Len(str), str \o rest)
  <2> DEFINE s == str \o rest
             n == Len(str)
  <2> HIDE DEF s, n
  <2>1. s \in Seq(Byte) /\ n \in Number(w)
    BY <1>1, <1>2 DEF s, n
  <2>2. /\ WriteInt(e, n, w) \in Seq(Byte) /\ Len(WriteInt(e, n, w)) = w
        /\ ReadUnsigned(d, w, WriteInt(e, n, w) \o s) = Read(n, s)
    BY <1>1, <2>1, NumbersReadBack
  <2> QED BY <2>2 DEF s, n
<1>4. WriteString(e, str) = b \o str
  BY DEF WriteString, w
<1> HIDE DEF b
<1>5. b \o str \in Seq(Byte) /\ Len(b \o str) = w + Len(str)
  BY <1>1, <1>3, ConcatProperties
<1>6. (b \o str) \o rest = b \o (str \o rest)
  BY <1>1, <1>3, ConcatAssociative
<1>7. ReadString(d, b \o (str \o rest)) = Take(Len(str), str \o rest)
  BY <1>3 DEF ReadString, Then, Read, w
<1>8. Take(Len(str), str \o rest) = Read(str, rest)
  BY <1>1, Taking
<1> QED BY <1>4, <1>5, <1>6, <1>7, <1>8 DEF w

-----------------------------------------------------------------------------
(* Tuples.                                                                 *)

\* A tuple is its fields.
LEMMA FieldsOfTuple ==
    ASSUME NEW S, NEW vs \in Seq(S)
    PROVE  /\ LindaTuple(vs).size = Len(vs)
           /\ \A i \in 1 .. Len(vs) : GetAt(LindaTuple(vs), i - 1) = vs[i]
           /\ Fields(LindaTuple(vs)) = vs
<1> DEFINE t == LindaTuple(vs)
<1>1. Len(vs) \in Nat /\ vs = [i \in 1 .. Len(vs) |-> vs[i]] /\ \A i \in 1 .. Len(vs) : vs[i] \in S
  BY LenProperties
<1>2. /\ t.size = Len(vs) /\ t.tail = TailOf(vs)
      /\ \A i \in 0 .. 2 : t.data_ref[i] = IF i < Len(vs) THEN vs[i + 1] ELSE Unset
  BY DEF LindaTuple
<1> HIDE DEF t
<1>3. ASSUME NEW i \in 1 .. Len(vs) PROVE GetAt(t, i - 1) = vs[i]
  <2>1. CASE i - 1 < 3
    <3>1. i - 1 \in 0 .. 2 /\ i - 1 < Len(vs) /\ (i - 1) + 1 = i
      BY <1>1, <2>1
    <3>2. GetAt(t, i - 1) = t.data_ref[i - 1]
      BY <2>1 DEF GetAt
    <3> QED BY <1>2, <3>1, <3>2
  <2>2. CASE i - 1 = 3 /\ Len(vs) = 4
    <3>1. i = 4 /\ ~(i - 1 < 3) /\ ~(Len(vs) <= 3)
      BY <2>2
    <3>2. GetAt(t, i - 1) = t.tail.value
      BY <1>2, <2>2, <3>1 DEF GetAt
    <3>3. t.tail = [alt |-> "value", value |-> vs[4]]
      BY <1>2, <2>2, <3>1 DEF TailOf
    <3> QED BY <3>1, <3>2, <3>3
  <2>3. CASE ~(i - 1 < 3) /\ ~(i - 1 = 3 /\ Len(vs) = 4)
    <3>1. i - 1 >= 3 /\ Len(vs) # 4 /\ ~(Len(vs) <= 3) /\ i - 3 \in 1 .. Len(vs) - 4 + 1
      BY <1>1, <2>3
    <3>2. GetAt(t, i - 1) = t.tail.values[(i - 1) - 3 + 1]
      BY <1>2, <2>3, <3>1 DEF GetAt
    <3>3. t.tail = [alt |-> "vector", values |-> SubSeq(vs, 4, Len(vs))]
      BY <1>2, <3>1 DEF TailOf
    <3>4. \A j \in 4 .. Len(vs) : vs[j] \in S
      BY <1>1
    <3>5. SubSeq(vs, 4, Len(vs))[i - 3] = vs[4 + (i - 3) - 1]
      BY <1>1, <3>1, <3>4, SubSeqProperties
    <3>6. (i - 1) - 3 + 1 = i - 3 /\ 4 + (i - 3) - 1 = i
      OBVIOUS
    <3>7. t.tail.values = SubSeq(vs, 4, Len(vs))
      BY <3>3
    <3> QED BY <3>2, <3>5, <3>6, <3>7
  <2> QED BY <2>1, <2>2, <2>3
<1>4. Fields(t) = vs
  BY <1>1, <1>2, <1>3 DEF Fields
<1> QED BY <1>2, <1>3, <1>4 DEF t

LEMMA Tuples ==
    ASSUME NEW S
    PROVE  /\ \A t \in TuplesOf(S) :
                 /\ Fields(t) \in Sequence(S) /\ t = LindaTuple(Fields(t))
                 /\ t.size = Len(Fields(t))
                 /\ \A i \in 1 .. t.size : GetAt(t, i - 1) \in S /\ GetAt(t, i - 1) = Fields(t)[i]
           /\ Unset \in S => \A vs \in Sequence(S) : LindaTuple(vs) \in TuplesOf(S)
<1>1. ASSUME NEW t \in TuplesOf(S)
      PROVE  /\ Fields(t) \in Sequence(S) /\ t = LindaTuple(Fields(t))
             /\ t.size = Len(Fields(t))
             /\ \A i \in 1 .. t.size : GetAt(t, i - 1) \in S /\ GetAt(t, i - 1) = Fields(t)[i]
  <2>1. t.size \in Number(SizeOf.size) /\ Fields(t) \in Seq(S) /\ t = LindaTuple(Fields(t))
    BY DEF TuplesOf
  <2> DEFINE vs == Fields(t)
  <2>2. vs \in Seq(S) /\ t = LindaTuple(vs)
    BY <2>1
  <2>3. t.size = Len(vs) /\ \A i \in 1 .. Len(vs) : GetAt(t, i - 1) = vs[i]
    <3> HIDE DEF vs
    <3> QED BY <2>2, FieldsOfTuple
  <2>4. \A i \in 1 .. Len(vs) : vs[i] \in S
    <3> HIDE DEF vs
    <3> QED BY <2>2, LenProperties
  <2> QED BY <2>1, <2>2, <2>3, <2>4 DEF Sequence
<1>2. ASSUME Unset \in S, NEW vs \in Sequence(S) PROVE LindaTuple(vs) \in TuplesOf(S)
  <2>1. vs \in Seq(S) /\ Len(vs) \in Number(SizeOf.size) /\ Len(vs) \in Nat
    BY LenProperties DEF Sequence
  <2>2. \A i \in 1 .. Len(vs) : vs[i] \in S
    BY <2>1, LenProperties
  <2>3. TailOf(vs) \in [alt : {"monostate"}] \cup [alt : {"value"}, value : S]
                        \cup [alt : {"vector"}, values : Seq(S)]
    <3>1. CASE Len(vs) <= 3
      BY <3>1 DEF TailOf
    <3>2. CASE Len(vs) = 4
      <4>1. ~(Len(vs) <= 3) /\ 4 \in 1 .. Len(vs)
        BY <3>2
      <4>2. TailOf(vs) = [alt |-> "value", value |-> vs[4]]
        BY <3>2, <4>1 DEF TailOf
      <4> QED BY <2>2, <4>1, <4>2
    <3>3. CASE ~(Len(vs) <= 3) /\ Len(vs) # 4
      <4>1. ~(Len(vs) <= 3) /\ Len(vs) # 4
        BY <3>3
      <4>2. TailOf(vs) = [alt |-> "vector", values |-> SubSeq(vs, 4, Len(vs))]
        BY <4>1 DEF TailOf
      <4>3. \A i \in 4 .. Len(vs) : vs[i] \in S
        BY <2>1, <2>2
      <4>4. SubSeq(vs, 4, Len(vs)) \in Seq(S)
        BY <2>1, <4>3, SubSeqProperties
      <4> QED BY <4>2, <4>4
    <3> QED BY <3>1, <3>2, <3>3
  <2>4. [i \in 0 .. 2 |-> IF i < Len(vs) THEN vs[i + 1] ELSE Unset] \in [0 .. 2 -> S]
    <3>1. ASSUME NEW i \in 0 .. 2 PROVE (IF i < Len(vs) THEN vs[i + 1] ELSE Unset) \in S
      <4>1. i < Len(vs) => i + 1 \in 1 .. Len(vs)
        BY <2>1
      <4> QED BY <1>2, <2>2, <4>1
    <3> QED BY <3>1
  <2>5. Fields(LindaTuple(vs)) = vs
    BY <2>1, FieldsOfTuple
  <2> DEFINE t == LindaTuple(vs)
             tails == [alt : {"monostate"}] \cup [alt : {"value"}, value : S]
                      \cup [alt : {"vector"}, values : Seq(S)]
  <2>6. t \in [size : Number(SizeOf.size), data_ref : [0 .. 2 -> S], tail : tails]
    BY <2>1, <2>3, <2>4 DEF LindaTuple
  <2>7. Fields(t) \in Seq(S) /\ t = LindaTuple(Fields(t))
    BY <2>1, <2>5
  <2> HIDE DEF t
  <2> QED BY <2>6, <2>7 DEF TuplesOf, t
<1> QED BY <1>1, <1>2

-----------------------------------------------------------------------------
(* Room.                                                                   *)

LEMMA RoomByFields ==
    ASSUME NEW s \in Seq(Nat)
    PROVE  \E f \in [0 .. Len(s) -> Nat] :
              /\ RoomFor(s) = f[Len(s)] /\ f[0] = SizeOf.size
              /\ \A i \in 1 .. Len(s) : f[i] = f[i - 1] + s[i]
<1> DEFINE c == SizeOf.size
           n == Len(s)
           step == [i \in 1 .. n |-> [x \in Nat |-> x + s[i]]]
           body(f) == [i \in 0 .. n |-> IF i = 0 THEN c ELSE f[i - 1] + s[i]]
           upTo == CHOOSE f : f = body(f)
<1>1. n \in Nat /\ c \in Nat /\ \A i \in 1 .. n : s[i] \in Nat
  BY LenProperties, Sizes
<1>2. RoomFor(s) = upTo[n]
  BY DEF RoomFor
<1> HIDE DEF n, c
<1>3. step \in [1 .. n -> [Nat -> Nat]]
  BY <1>1
<1>4. PICK f \in [0 .. n -> Nat] : f[0] = c /\ \A i \in 1 .. n : f[i] = f[i - 1] + s[i]
  <2> HIDE DEF step
  <2>1. Stepwise(n, Nat, c, step) # {}
    BY <1>1, <1>3, Steps
  <2>2. PICK f \in [0 .. n -> Nat] : f[0] = c /\ \A i \in 1 .. n : f[i] = step[i][f[i - 1]]
    BY <2>1 DEF Stepwise
  <2>3. \A i \in 1 .. n : i - 1 \in 0 .. n /\ f[i - 1] \in Nat
    BY <1>1, <2>2
  <2> QED BY <2>2, <2>3 DEF step
<1>5. f = body(f)
  <2>1. \A i \in 0 .. n : i # 0 => i \in 1 .. n
    BY <1>1
  <2> QED BY <1>4, <2>1
<1>6. upTo = body(upTo)
  <2> HIDE DEF body
  <2> QED BY <1>5
<1> HIDE DEF upTo
<1>7. f = upTo
  <2>1. /\ DOMAIN f = 0 .. n /\ DOMAIN upTo = 0 .. n
        /\ f = [i \in 0 .. n |-> f[i]] /\ upTo = [i \in 0 .. n |-> upTo[i]]
        /\ f[0] = upTo[0]
    BY <1>1, <1>4, <1>6
  <2>2. \A i \in 1 .. n : f[i - 1] = upTo[i - 1] => f[i] = upTo[i]
    <3>1. \A i \in 1 .. n : i \in 0 .. n /\ i # 0
      BY <1>1
    <3> QED BY <1>4, <1>6, <3>1
  <2> HIDE DEF body
  <2> QED BY <1>1, <2>1, <2>2, SameSteps
<1> QED BY <1>2, <1>4, <1>7 DEF n, c

LEMMA Rooms ==
    /\ RoomFor(<<>>) = SizeOf.size
    /\ \A s \in Seq(Nat) : RoomFor(s) \in Nat
    /\ \A s \in Seq(Nat), x \in Nat : RoomFor(Append(s, x)) = RoomFor(s) + x
<1> DEFINE c == SizeOf.size
<1> HIDE DEF c
<1>1. RoomFor(<<>>) = c
  <2> DEFINE none == <<>>
  <2>1. none \in Seq(Nat) /\ Len(none) = 0
    OBVIOUS
  <2> HIDE DEF none
  <2>2. \E f \in [0 .. Len(none) -> Nat] : RoomFor(none) = f[Len(none)] /\ f[0] = c
    BY <2>1, RoomByFields DEF c
  <2>3. RoomFor(none) = c
    BY <2>1, <2>2
  <2> QED BY <2>3 DEF none
<1>2. ASSUME NEW s \in Seq(Nat) PROVE RoomFor(s) \in Nat
  <2>1. Len(s) \in 0 .. Len(s)
    BY LenProperties
  <2> QED BY <2>1, RoomByFields DEF c
<1>3. ASSUME NEW s \in Seq(Nat), NEW x \in Nat
      PROVE  RoomFor(Append(s, x)) = RoomFor(s) + x
  <2> DEFINE t == Append(s, x)
             n == Len(s)
  <2>1. /\ t \in Seq(Nat) /\ Len(t) = n + 1 /\ n \in Nat
        /\ \A i \in 1 .. n : t[i] = s[i]
        /\ t[n + 1] = x
    BY AppendProperties, LenProperties
  <2>2. PICK f \in [0 .. n -> Nat] :
           /\ RoomFor(s) = f[n] /\ f[0] = c /\ \A i \in 1 .. n : f[i] = f[i - 1] + s[i]
    BY RoomByFields DEF c
  <2> HIDE DEF t
  <2>3. PICK g \in [0 .. n + 1 -> Nat] :
           /\ RoomFor(t) = g[n + 1] /\ g[0] = c /\ \A i \in 1 .. n + 1 : g[i] = g[i - 1] + t[i]
    <3>1. PICK g \in [0 .. Len(t) -> Nat] :
             /\ RoomFor(t) = g[Len(t)] /\ g[0] = c /\ \A i \in 1 .. Len(t) : g[i] = g[i - 1] + t[i]
      BY <2>1, RoomByFields DEF c
    <3>2. Len(t) = n + 1
      BY <2>1
    <3> QED BY <3>1, <3>2
  <2> HIDE DEF n
  <2> DEFINE I == {i \in Nat : i <= n => f[i] = g[i]}
  <2>4. 0 \in I
    BY <2>2, <2>3
  <2>5. ASSUME NEW i \in Nat, i \in I PROVE i + 1 \in I
    <3>1. SUFFICES ASSUME i + 1 <= n PROVE f[i + 1] = g[i + 1]
      OBVIOUS
    <3>2. /\ i + 1 \in 1 .. n /\ i + 1 \in 1 .. n + 1 /\ (i + 1) - 1 = i
      BY <2>1, <3>1
    <3>3. f[i] = g[i]
      BY <2>1, <2>5, <3>1
    <3> QED BY <2>1, <2>2, <2>3, <3>2, <3>3
  <2>6. n \in I
    <3> HIDE DEF I
    <3> QED BY <2>1, <2>4, <2>5, SetInduction
  <2>7. n + 1 \in 1 .. n + 1 /\ (n + 1) - 1 = n
    BY <2>1
  <2>8. g[n + 1] = g[n] + t[n + 1] /\ f[n] = g[n]
    BY <2>1, <2>3, <2>6, <2>7
  <2> QED BY <2>1, <2>2, <2>3, <2>8 DEF t
<1> QED BY <1>1, <1>2, <1>3 DEF c

-----------------------------------------------------------------------------
(* Values, by how deep calls are nested in them.                           *)

\* The values whose calls have arguments of S.
Layer(S) == Flat \cup [type : {"fncall"}, name : Sequence(Byte), args : TuplesOf(S)]

Layers(n, g) == g = [k \in 0 .. n |-> IF k = 0 THEN Flat ELSE Layer(g[k - 1])]

LEMMA Nesting ==
    /\ Nested[0] = Flat
    /\ \A n \in Nat : Nested[n + 1] = Layer(Nested[n])
<1>1. ASSUME NEW n \in Nat, NEW m \in Nat, n <= m, NEW g, NEW h, Layers(n, g), Layers(m, h)
      PROVE  \A k \in 0 .. n : g[k] = h[k]
  <2> DEFINE I == {k \in Nat : k <= n => g[k] = h[k]}
  <2>1. 0 \in I
    BY <1>1 DEF Layers
  <2>2. ASSUME NEW k \in Nat, k \in I PROVE k + 1 \in I
    <3>1. SUFFICES ASSUME k + 1 <= n PROVE g[k + 1] = h[k + 1]
      OBVIOUS
    <3>2. k + 1 \in 0 .. n /\ k + 1 \in 0 .. m /\ k + 1 # 0 /\ (k + 1) - 1 = k
      BY <1>1, <3>1
    <3>3. g[k] = h[k]
      BY <2>2, <3>1
    <3>4. g[k + 1] = Layer(g[k]) /\ h[k + 1] = Layer(h[k])
      BY <1>1, <3>2 DEF Layers
    <3> QED BY <3>3, <3>4
  <2>3. Nat \subseteq I
    <3> HIDE DEF I
    <3> QED BY <2>1, <2>2, SetInduction
  <2> QED BY <2>3
<1> DEFINE J == {n \in Nat : \E g : Layers(n, g)}
<1>2. 0 \in J
  <2> DEFINE g == [k \in 0 .. 0 |-> Flat]
  <2>1. Layers(0, g)
    BY DEF Layers
  <2> QED BY <2>1
<1>3. ASSUME NEW n \in Nat, n \in J PROVE n + 1 \in J
  <2>1. PICK g : Layers(n, g)
    BY <1>3
  <2> DEFINE h == [k \in 0 .. n + 1 |-> IF k = 0 THEN Flat ELSE Layer(g[k - 1])]
  <2>2. ASSUME NEW k \in 0 .. n PROVE h[k] = g[k]
    BY <2>1 DEF Layers
  <2>3. ASSUME NEW k \in 0 .. n + 1 PROVE h[k] = IF k = 0 THEN Flat ELSE Layer(h[k - 1])
    <3>1. k # 0 => k - 1 \in 0 .. n
      OBVIOUS
    <3> QED BY <2>2, <3>1
  <2>4. Layers(n + 1, h)
    <3>1. h = [k \in 0 .. n + 1 |-> h[k]]
      OBVIOUS
    <3> HIDE DEF h
    <3> QED BY <2>3, <3>1 DEF Layers
  <2> QED BY <2>4
<1>4. \A n \in Nat : \E g : Layers(n, g)
  <2> HIDE DEF J
  <2>1. Nat \subseteq J
    BY <1>2, <1>3, SetInduction
  <2> QED BY <2>1 DEF J
<1> DEFINE layer(n) == CHOOSE g : Layers(n, g)
           f == [n \in Nat |-> layer(n)[n]]
<1>5. \A n \in Nat : Layers(n, layer(n))
  BY <1>4
<1> HIDE DEF layer
<1>6. f[0] = Flat
  BY <1>5 DEF Layers
<1>7. ASSUME NEW n \in Nat PROVE f[n + 1] = Layer(f[n])
  <2>1. n + 1 \in 0 .. n + 1 /\ n + 1 # 0 /\ (n + 1) - 1 = n /\ n \in 0 .. n /\ n <= n + 1
    OBVIOUS
  <2>2. layer(n + 1)[n + 1] = Layer(layer(n + 1)[n])
    BY <1>5, <2>1 DEF Layers
  <2>3. layer(n + 1)[n] = layer(n)[n]
    BY <1>1, <1>5, <2>1
  <2> QED BY <2>2, <2>3
<1> DEFINE body(g) == [n \in Nat |-> IF n = 0 THEN Flat ELSE Layer(g[n - 1])]
<1>8. f = body(f)
  <2>1. ASSUME NEW n \in Nat PROVE f[n] = IF n = 0 THEN Flat ELSE Layer(f[n - 1])
    <3>1. n # 0 => n - 1 \in Nat /\ (n - 1) + 1 = n
      OBVIOUS
    <3> HIDE DEF f
    <3> QED BY <1>6, <1>7, <3>1
  <2>2. f = [n \in Nat |-> f[n]]
    OBVIOUS
  <2> HIDE DEF f
  <2> QED BY <2>1, <2>2
<1>9. Nested = CHOOSE g : g = body(g)
  BY DEF Nested, Layer
<1>10. Nested = body(Nested)
  <2> HIDE DEF f, body
  <2> QED BY <1>8, <1>9
<1>11. Nested[0] = Flat
  BY <1>10
<1>12. ASSUME NEW n \in Nat PROVE Nested[n + 1] = Layer(Nested[n])
  <2>1. n + 1 \in Nat /\ n + 1 # 0 /\ (n + 1) - 1 = n
    OBVIOUS
  <2>2. Nested[n + 1] = IF n + 1 = 0 THEN Flat ELSE Layer(Nested[(n + 1) - 1])
    BY <1>10, <2>1
  <2> QED BY <2>1, <2>2
<1> QED BY <1>11, <1>12

LEMMA LayersGrow ==
    ASSUME NEW S, NEW T, S \subseteq T, Unset \in S
    PROVE  Layer(S) \subseteq Layer(T)
<1>1. TuplesOf(S) \subseteq TuplesOf(T)
  <2>1. ASSUME NEW t \in TuplesOf(S) PROVE t \in TuplesOf(T)
    <3>1. Fields(t) \in Sequence(S) /\ t = LindaTuple(Fields(t))
      BY Tuples
    <3>2. Fields(t) \in Sequence(T)
      BY <3>1, SeqMonotonic DEF Sequence
    <3> DEFINE vs == Fields(t)
    <3> HIDE DEF vs
    <3>3. LindaTuple(vs) \in TuplesOf(T)
      BY <3>2, Tuples DEF vs
    <3> QED BY <3>1, <3>3 DEF vs
  <2> QED BY <2>1
<1> QED BY <1>1 DEF Layer

LEMMA UnsetIsFlat == Unset \in Flat
<1>1. Power[2] \in Nat /\ Power[2] \div 2 \in Nat /\ Power[2] \div 2 # 0
  BY HalfPower, Powers
<1>2. SizeOf["int16"] = 2 /\ "int16" \in Signed
  BY DEF SizeOf, Signed
<1>3. 0 \in SignedNumber(2)
  <2> DEFINE h == Power[2] \div 2
  <2> HIDE DEF h
  <2>1. h \in Nat /\ h # 0
    BY <1>1 DEF h
  <2>2. 0 \in -h .. h - 1
    BY <2>1
  <2> QED BY <2>2 DEF SignedNumber, h
<1>4. Unset \in [type : Signed, int : Int] /\ Unset.type = "int16" /\ Unset.int = 0
  BY <1>2 DEF Unset
<1> QED BY <1>2, <1>3, <1>4 DEF Flat

\* The deeper the more.
LEMMA NestedGrows ==
    /\ \A n \in Nat : Unset \in Nested[n] /\ Flat \subseteq Nested[n]
    /\ \A n, m \in Nat : n <= m => Nested[n] \subseteq Nested[m]
<1>1. ASSUME NEW n \in Nat PROVE Flat \subseteq Nested[n]
  <2>1. CASE n = 0
    BY <2>1, Nesting
  <2>2. CASE n # 0
    <3>1. n - 1 \in Nat /\ (n - 1) + 1 = n
      BY <2>2
    <3>2. Nested[n] = Layer(Nested[n - 1])
      BY <3>1, Nesting
    <3> QED BY <3>2 DEF Layer
  <2> QED BY <2>1, <2>2
<1>2. \A n \in Nat : Unset \in Nested[n]
  BY <1>1, UnsetIsFlat
<1> DEFINE I == {n \in Nat : Nested[n] \subseteq Nested[n + 1]}
<1>3. 0 \in I
  <2>1. Nested[0] = Flat /\ Nested[0 + 1] = Layer(Flat)
    BY Nesting
  <2> QED BY <2>1 DEF Layer
<1>4. ASSUME NEW n \in Nat, n \in I PROVE n + 1 \in I
  <2>1. Nested[n] \subseteq Nested[n + 1]
    BY <1>4
  <2>2. Nested[n + 1] = Layer(Nested[n]) /\ Nested[(n + 1) + 1] = Layer(Nested[n + 1])
    BY Nesting
  <2>3. Layer(Nested[n]) \subseteq Layer(Nested[n + 1])
    BY <1>2, <2>1, LayersGrow
  <2> QED BY <2>2, <2>3
<1>5. \A n \in Nat : Nested[n] \subseteq Nested[n + 1]
  <2> HIDE DEF I
  <2>1. Nat \subseteq I
    BY <1>3, <1>4, SetInduction
  <2> QED BY <2>1 DEF I
<1>6. ASSUME NEW n \in Nat, NEW m \in Nat, n <= m PROVE Nested[n] \subseteq Nested[m]
  <2> DEFINE J == {k \in Nat : Nested[n] \subseteq Nested[n + k]}
  <2>1. 0 \in J
    OBVIOUS
  <2>2. ASSUME NEW k \in Nat, k \in J PROVE k + 1 \in J
    <3>1. n + (k + 1) = (n + k) + 1 /\ n + k \in Nat
      OBVIOUS
    <3>2. Nested[n + k] \subseteq Nested[n + (k + 1)]
      BY <1>5, <3>1
    <3> QED BY <2>2, <3>2
  <2>3. m - n \in J
    <3> HIDE DEF J
    <3>1. m - n \in Nat
      BY <1>6
    <3> QED BY <2>1, <2>2, <3>1, SetInduction
  <2>4. n + (m - n) = m
    OBVIOUS
  <2> QED BY <2>3, <2>4
<1> QED BY <1>1, <1>2, <1>6

\* The kinds of values there are.
LEMMA Kinds ==
    ASSUME NEW n \in Nat, NEW v \in Nested[n]
    PROVE  \/ /\ v.type \in Signed /\ v.int \in SignedNumber(SizeOf[v.type])
              /\ v = [type |-> v.type, int |-> v.int]
           \/ /\ v.type \in Integral \ Signed /\ v.int \in Number(SizeOf[v.type])
              /\ v = [type |-> v.type, int |-> v.int]
           \/ /\ v.type \in Floating /\ v.bits \in Number(SizeOf[v.type])
              /\ v = [type |-> v.type, bits |-> v.bits]
           \/ /\ v.type = "string" /\ v.str \in Sequence(Byte)
              /\ v = [type |-> v.type, str |-> v.str]
           \/ v.type = "calltag" /\ v = [type |-> v.type]
           \/ /\ v.type = "fncall" /\ v.name \in Sequence(Byte)
              /\ n > 0 /\ v.args \in TuplesOf(Nested[n - 1])
              /\ v = [type |-> v.type, name |-> v.name, args |-> v.args]
<1>1. \/ v \in Flat
      \/ n > 0 /\ v \in [type : {"fncall"}, name : Sequence(Byte), args : TuplesOf(Nested[n - 1])]
  <2>1. CASE n = 0
    BY <2>1, Nesting
  <2>2. CASE n # 0
    <3>1. n - 1 \in Nat /\ (n - 1) + 1 = n /\ n > 0
      BY <2>2
    <3>2. Nested[n] = Layer(Nested[n - 1])
      BY <3>1, Nesting
    <3> QED BY <3>1, <3>2 DEF Layer
  <2> QED BY <2>1, <2>2
<1>2. CASE v \in {x \in [type : Signed, int : Int] : x.int \in SignedNumber(SizeOf[x.type])}
  BY <1>2
<1>3. CASE v \in {x \in [type : Integral \ Signed, int : Nat] : x.int \in Number(SizeOf[x.type])}
  BY <1>3
<1>4. CASE v \in {x \in [type : Floating, bits : Nat] : x.bits \in Number(SizeOf[x.type])}
  BY <1>4
<1>5. CASE v \in [type : {"string"}, str : Sequence(Byte)]
  BY <1>5
<1>6. CASE v \in [type : {"calltag"}]
  BY <1>6
<1>7. CASE n > 0 /\ v \in [type : {"fncall"}, name : Sequence(Byte), args : TuplesOf(Nested[n - 1])]
  BY <1>7
<1> QED BY <1>1, <1>2, <1>3, <1>4, <1>5, <1>6, <1>7 DEF Flat

\* The converse.
LEMMA OfKinds ==
    ASSUME NEW n \in Nat
    PROVE  /\ \A type \in Signed : \A i \in SignedNumber(SizeOf[type]) :
                 [type |-> type, int |-> i] \in Nested[n]
           /\ \A type \in Integral \ Signed : \A i \in Number(SizeOf[type]) :
                 [type |-> type, int |-> i] \in Nested[n]
           /\ \A type \in Floating : \A i \in Number(SizeOf[type]) :
                 [type |-> type, bits |-> i] \in Nested[n]
           /\ \A str \in Sequence(Byte) : [type |-> "string", str |-> str] \in Nested[n]
           /\ [type |-> "calltag"] \in Nested[n]
           /\ \A name \in Sequence(Byte), t \in TuplesOf(Nested[n]) :
                 [type |-> "fncall", name |-> name, args |-> t] \in Nested[n + 1]
<1>1. Flat \subseteq Nested[n] /\ Nested[n + 1] = Layer(Nested[n])
  BY Nesting, NestedGrows
<1>2. ASSUME NEW type \in Signed, NEW i \in SignedNumber(SizeOf[type])
      PROVE  [type |-> type, int |-> i] \in Nested[n]
  <2>1. SizeOf[type] \in Nat \ {0}
    BY Sizes
  <2>2. i \in Int
    BY <2>1, TwosComplements
  <2> DEFINE v == [type |-> type, int |-> i]
  <2>3. v \in [type : Signed, int : Int] /\ v.type = type /\ v.int = i
    BY <2>2
  <2> HIDE DEF v
  <2> QED BY <1>1, <2>3 DEF Flat, v
<1>3. ASSUME NEW type \in Integral \ Signed, NEW i \in Number(SizeOf[type])
      PROVE  [type |-> type, int |-> i] \in Nested[n]
  <2>1. SizeOf[type] \in Nat \ {0}
    BY Sizes
  <2>2. i \in Nat
    BY <2>1, TwosComplements
  <2> DEFINE v == [type |-> type, int |-> i]
  <2>3. v \in [type : Integral \ Signed, int : Nat] /\ v.type = type /\ v.int = i
    BY <2>2
  <2> HIDE DEF v
  <2> QED BY <1>1, <2>3 DEF Flat, v
<1>4. ASSUME NEW type \in Floating, NEW i \in Number(SizeOf[type])
      PROVE  [type |-> type, bits |-> i] \in Nested[n]
  <2>1. SizeOf[type] \in Nat \ {0}
    BY Sizes
  <2>2. i \in Nat
    BY <2>1, TwosComplements
  <2> DEFINE v == [type |-> type, bits |-> i]
  <2>3. v \in [type : Floating, bits : Nat] /\ v.type = type /\ v.bits = i
    BY <2>2
  <2> HIDE DEF v
  <2> QED BY <1>1, <2>3 DEF Flat, v
<1>5. \A str \in Sequence(Byte) : [type |-> "string", str |-> str] \in Nested[n]
  BY <1>1 DEF Flat
<1>6. [type |-> "calltag"] \in Nested[n]
  BY <1>1 DEF Flat
<1>7. \A name \in Sequence(Byte), t \in TuplesOf(Nested[n]) :
         [type |-> "fncall", name |-> name, args |-> t] \in Nested[n + 1]
  BY <1>1 DEF Layer
<1> QED BY <1>2, <1>3, <1>4, <1>5, <1>6, <1>7

\* How deep the calls of v are nested.
Depth(v) == CHOOSE n \in Nat : v \in Nested[n] /\ \A m \in Nat : v \in Nested[m] => n <= m

LEMMA Depths ==
    ASSUME NEW v \in Value
    PROVE  /\ Depth(v) \in Nat /\ Depth(v) <= MaxNesting /\ v \in Nested[Depth(v)]
           /\ v.type = "fncall" =>
                 /\ v.args \in TuplesOf(Value)
                 /\ \A i \in 1 .. v.args.size :
                       /\ GetAt(v.args, i - 1) \in Value
                       /\ Depth(GetAt(v.args, i - 1)) < Depth(v)
<1>1. MaxNesting \in Nat /\ v \in Nested[MaxNesting]
  BY SerializationAssumption DEF Value
<1>2. ASSUME NEW u, NEW k \in Nat, u \in Nested[k]
      PROVE  /\ Depth(u) \in Nat /\ u \in Nested[Depth(u)]
             /\ \A m \in Nat : u \in Nested[m] => Depth(u) <= m
  <2> DEFINE I == {n \in Nat : u \in Nested[n]}
  <2>1. I \subseteq Nat /\ I # {}
    BY <1>2
  <2>2. \E n \in I : \A m \in I : n <= m
    <3> HIDE DEF I
    <3> QED BY <2>1, LeastNatural
  <2>3. \E n \in Nat : u \in Nested[n] /\ \A m \in Nat : u \in Nested[m] => n <= m
    BY <2>2
  <2> QED BY <2>3 DEF Depth
<1> DEFINE n == Depth(v)
<1>3. n \in Nat /\ n <= MaxNesting /\ v \in Nested[n]
  BY <1>1, <1>2
<1> HIDE DEF n
<1>4. ASSUME v.type = "fncall"
      PROVE  /\ v.args \in TuplesOf(Value)
             /\ \A i \in 1 .. v.args.size :
                   GetAt(v.args, i - 1) \in Value /\ Depth(GetAt(v.args, i - 1)) < n
  <2>1. n > 0 /\ v.args \in TuplesOf(Nested[n - 1])
    BY <1>3, <1>4, Kinds DEF Signed, Integral, Floating
  <2>2. n - 1 \in Nat /\ n - 1 <= MaxNesting
    BY <1>1, <1>3, <2>1
  <2>3. Nested[n - 1] \subseteq Value /\ Unset \in Nested[n - 1] /\ Unset \in Value
    BY <1>1, <2>2, NestedGrows DEF Value
  <2>4. v.args \in TuplesOf(Value)
    <3>1. Fields(v.args) \in Sequence(Nested[n - 1]) /\ v.args = LindaTuple(Fields(v.args))
      BY <2>1, Tuples
    <3>2. Fields(v.args) \in Sequence(Value)
      BY <2>3, <3>1, SeqMonotonic DEF Sequence
    <3> QED BY <2>3, <3>1, <3>2, Tuples
  <2>5. ASSUME NEW i \in 1 .. v.args.size
        PROVE  GetAt(v.args, i - 1) \in Value /\ Depth(GetAt(v.args, i - 1)) < n
    <3> DEFINE u == GetAt(v.args, i - 1)
    <3>1. u \in Nested[n - 1]
      BY <2>1, Tuples
    <3> HIDE DEF u
    <3>2. Depth(u) \in Nat /\ Depth(u) <= n - 1
      BY <1>2, <2>2, <3>1
    <3>3. u \in Value /\ Depth(u) < n
      BY <1>3, <2>3, <3>1, <3>2
    <3> QED BY <3>3 DEF u
  <2> QED BY <2>4, <2>5
<1> QED BY <1>3, <1>4 DEF n

\* Induction over the arguments of calls.
LEMMA ValueInduction ==
    ASSUME NEW I,
           \A v \in Value :
              (v.type = "fncall" => \A i \in 1 .. v.args.size : GetAt(v.args, i - 1) \in I) => v \in I
    PROVE  Value \subseteq I
<1> DEFINE J == {n \in Nat : \A v \in Value : Depth(v) < n => v \in I}
<1>1. 0 \in J
  BY Depths
<1>2. ASSUME NEW n \in Nat, n \in J PROVE n + 1 \in J
  <2>1. SUFFICES ASSUME NEW v \in Value, Depth(v) < n + 1 PROVE v \in I
    OBVIOUS
  <2>2. ASSUME v.type = "fncall", NEW i \in 1 .. v.args.size PROVE GetAt(v.args, i - 1) \in I
    <3>1. GetAt(v.args, i - 1) \in Value /\ Depth(GetAt(v.args, i - 1)) < Depth(v) /\ Depth(v) \in Nat
      BY <2>2, Depths
    <3>2. Depth(GetAt(v.args, i - 1)) \in Nat
      BY <3>1, Depths
    <3>3. Depth(GetAt(v.args, i - 1)) < n
      BY <2>1, <3>1, <3>2
    <3> QED BY <1>2, <3>1, <3>3
  <2> QED BY <2>2
<1>3. Nat \subseteq J
  <2> HIDE DEF J
  <2> QED BY <1>1, <1>2, SetInduction
<1>4. ASSUME NEW v \in Value PROVE v \in I
  <2>1. Depth(v) + 1 \in Nat /\ Depth(v) < Depth(v) + 1
    BY Depths
  <2> QED BY <1>3, <2>1
<1> QED BY <1>4

\* What there is for each field.
LEMMA EachField ==
    ASSUME NEW S, NEW t \in TuplesOf(S), NEW R, NEW f,
           \A i \in 1 .. t.size : f[GetAt(t, i - 1)] \in R
    PROVE  /\ Each(f, t) \in Seq(R) /\ Len(Each(f, t)) = t.size
           /\ \A i \in 1 .. t.size : Each(f, t)[i] = f[GetAt(t, i - 1)]
<1> DEFINE n == t.size
           s == [i \in 1 .. n |-> f[GetAt(t, i - 1)]]
<1>1. n \in Nat
  BY Tuples, LenProperties DEF Sequence
<1>2. \A i \in 1 .. n : s[i] \in R /\ s[i] = f[GetAt(t, i - 1)]
  OBVIOUS
<1>3. s = [i \in 1 .. n |-> s[i]] /\ Each(f, t) = s
  BY DEF Each
<1> HIDE DEF n, s
<1>4. s \in Seq(R) /\ Len(s) = n
  BY <1>1, <1>2, <1>3
<1> QED BY <1>2, <1>3, <1>4 DEF n

-----------------------------------------------------------------------------
(* The size of values.                                                     *)

\* The equation for ValueSize.
SizeEquation(size) == [v \in Value |-> 1 + CalculateBy(size, v)]

LEMMA Calculated ==
    ASSUME NEW size, NEW v
    PROVE  /\ v.type \in Integral \cup Floating => CalculateBy(size, v) = SizeOf[v.type]
           /\ v.type = "string"  => CalculateBy(size, v) = SizeOf.size + Len(v.str)
           /\ v.type = "fncall"  =>
                 CalculateBy(size, v) =
                    (RoomFor(Each(size, v.args)) + SizeOf.size) + Len(v.name)
           /\ v.type = "calltag" => CalculateBy(size, v) = 0
<1>1. \A type \in Integral \cup Floating : type \notin {"string", "fncall", "calltag"}
  BY DEF Integral, Floating
<1>2. CASE v.type \in Integral \cup Floating
  BY <1>1, <1>2 DEF CalculateBy
<1>3. CASE v.type \notin Integral \cup Floating
  BY <1>3 DEF CalculateBy, CallSize
<1> QED BY <1>2, <1>3

LEMMA CalculatedType ==
    ASSUME NEW size, NEW v \in Value,
           v.type = "fncall" => \A i \in 1 .. v.args.size : size[GetAt(v.args, i - 1)] \in Nat
    PROVE  CalculateBy(size, v) \in Nat
<1>1. MaxNesting \in Nat /\ v \in Nested[MaxNesting]
  BY SerializationAssumption DEF Value
<1>2. CASE v.type \in Integral \cup Floating
  <2>1. SizeOf[v.type] \in Nat
    BY <1>2, Sizes
  <2> QED BY <1>2, <2>1, Calculated
<1>3. CASE v.type = "string"
  <2>1. v.str \in Sequence(Byte)
    BY <1>1, <1>3, Kinds DEF Integral, Floating, Signed
  <2>2. SizeOf.size \in Nat /\ Len(v.str) \in Nat
    BY <2>1, Sizes, LenProperties DEF Sequence
  <2> QED BY <1>3, <2>2, Calculated
<1>4. CASE v.type = "fncall"
  <2>1. v.name \in Sequence(Byte) /\ v.args \in TuplesOf(Value)
    BY <1>1, <1>4, Kinds, Depths DEF Integral, Floating, Signed
  <2>2. Each(size, v.args) \in Seq(Nat)
    BY <1>4, <2>1, EachField
  <2>3. SizeOf.size \in Nat /\ Len(v.name) \in Nat /\ RoomFor(Each(size, v.args)) \in Nat
    BY <2>1, <2>2, Sizes, LenProperties, Rooms DEF Sequence
  <2> QED BY <1>4, <2>3, Calculated
<1>5. CASE v.type = "calltag"
  BY <1>5, Calculated
<1>6. v.type \in Integral \cup Floating \/ v.type \in {"string", "fncall", "calltag"}
  BY <1>1, Kinds, Sizes
<1> QED BY <1>2, <1>3, <1>4, <1>5, <1>6

LEMMA CalculatedBack ==
    ASSUME NEW f, NEW g, NEW v \in Value,
           v.type = "fncall" =>
              \A i \in 1 .. v.args.size : f[GetAt(v.args, i - 1)] = g[GetAt(v.args, i - 1)]
    PROVE  CalculateBy(f, v) = CalculateBy(g, v)
<1>1. v.type = "fncall" => Each(f, v.args) = Each(g, v.args)
  BY DEF Each
<1>2. v.type \in Integral \cup Floating \/ v.type \in {"string", "fncall", "calltag"}
  BY Kinds, Sizes, SerializationAssumption DEF Value
<1> QED BY <1>1, <1>2, Calculated

LEMMA ValueSizes ==
    ValueSize \in [Value -> Nat] /\ \A v \in Value : ValueSize[v] = 1 + CalculateBy(ValueSize, v)
<1> DEFINE measure == [v \in Value |-> Depth(v)]
           F == [Value -> Nat]
           phi == [v \in Value |-> [f \in F |-> 1 + CalculateBy(f, v)]]
<1>1. measure \in [Value -> Nat] /\ 0 \in Nat
  BY Depths
<1>2. phi \in [Value -> [F -> Nat]]
  <2>1. ASSUME NEW v \in Value, NEW f \in F PROVE 1 + CalculateBy(f, v) \in Nat
    <3>1. v.type = "fncall" => \A i \in 1 .. v.args.size : f[GetAt(v.args, i - 1)] \in Nat
      BY Depths
    <3>2. CalculateBy(f, v) \in Nat
      BY <3>1, CalculatedType
    <3> QED BY <3>2
  <2> QED BY <2>1
<1>3. LooksBack(Value, measure, F, phi)
  <2> SUFFICES ASSUME NEW f \in F, NEW g \in F, NEW v \in Value,
                      \A u \in Value : measure[u] < measure[v] => f[u] = g[u]
               PROVE  phi[v][f] = phi[v][g]
    BY DEF LooksBack
  <2>1. v.type = "fncall" =>
           \A i \in 1 .. v.args.size : f[GetAt(v.args, i - 1)] = g[GetAt(v.args, i - 1)]
    BY Depths
  <2>2. CalculateBy(f, v) = CalculateBy(g, v)
    BY <2>1, CalculatedBack
  <2> QED BY <2>2
<1>4. Recursive(Value, F, phi) # {}
  <2> HIDE DEF measure, phi
  <2> QED BY <1>1, <1>2, <1>3, RecursionInto
<1>5. PICK f \in F : \A v \in Value : f[v] = phi[v][f]
  <2> HIDE DEF phi
  <2> QED BY <1>4 DEF Recursive
<1>6. f = SizeEquation(f)
  <2>1. \A v \in Value : f[v] = 1 + CalculateBy(f, v)
    BY <1>5
  <2> QED BY <2>1 DEF SizeEquation
<1>7. ValueSize = CHOOSE g : g = SizeEquation(g)
  BY DEF ValueSize, SizeEquation
<1>8. ValueSize = SizeEquation(ValueSize)
  BY <1>6, <1>7
<1> DEFINE size == ValueSize
<1>9. size = [v \in Value |-> 1 + CalculateBy(size, v)]
  BY <1>8 DEF SizeEquation
<1> HIDE DEF size
<1> DEFINE I == {v \in Value : size[v] \in Nat}
<1>10. ASSUME NEW v \in Value,
              v.type = "fncall" => \A i \in 1 .. v.args.size : GetAt(v.args, i - 1) \in I
       PROVE  v \in I
  <2>1. v.type = "fncall" => \A i \in 1 .. v.args.size : size[GetAt(v.args, i - 1)] \in Nat
    BY <1>10
  <2>2. CalculateBy(size, v) \in Nat
    BY <2>1, CalculatedType
  <2> QED BY <1>9, <2>2
<1>11. Value \subseteq I
  <2> HIDE DEF I
  <2> QED BY <1>10, ValueInduction
<1>12. size \in [Value -> Nat]
  <2>1. \A v \in Value : 1 + CalculateBy(size, v) \in Nat
    BY <1>9, <1>11
  <2> QED BY <1>9, <2>1
<1> QED BY <1>9, <1>12 DEF size

-----------------------------------------------------------------------------
(* Writing values.                                                         *)

Lengths(ss) == [i \in 1 .. Len(ss) |-> Len(ss[i])]

LEMMA LengthsType ==
    ASSUME NEW S, NEW ss \in Seq(Seq(S))
    PROVE  /\ Lengths(ss) \in Seq(Nat) /\ Len(Lengths(ss)) = Len(ss)
           /\ \A i \in 1 .. Len(ss) : Lengths(ss)[i] = Len(ss[i])
<1> DEFINE n == Len(ss)
           s == [i \in 1 .. n |-> Len(ss[i])]
<1>1. n \in Nat /\ \A i \in 1 .. n : ss[i] \in Seq(S)
  BY LenProperties
<1> DEFINE numbers == Nat
<1>2. \A i \in 1 .. n : s[i] \in numbers /\ s[i] = Len(ss[i])
  BY <1>1, LenProperties
<1>3. s = [i \in 1 .. n |-> s[i]] /\ Lengths(ss) = s
  BY DEF Lengths
<1> HIDE DEF n, s, numbers
<1>4. s \in Seq(numbers) /\ Len(s) = n
  <2>1. n \in Nat /\ \A i \in 1 .. n : s[i] \in numbers
    BY <1>1, <1>2
  <2>2. s = [i \in 1 .. n |-> s[i]]
    BY <1>3
  <2> QED BY <2>1, <2>2
<1> QED BY <1>2, <1>3, <1>4 DEF n, numbers

\* The room for fields is what is written of them.
LEMMA RoomOfWritten ==
    ASSUME NEW ss \in Seq(Seq(Byte))
    PROVE  SizeOf.size + Len(FlattenSeq(ss)) = RoomFor(Lengths(ss))
<1> DEFINE all == Seq(Byte)
           I == {tt \in Seq(all) : SizeOf.size + Len(FlattenSeq(tt)) = RoomFor(Lengths(tt))}
<1>1. <<>> \in I
  <2>1. Lengths(<<>>) = <<>>
    BY DEF Lengths
  <2>2. FlattenSeq(<<>>) = <<>> /\ Len(<<>>) = 0 /\ SizeOf.size \in Nat
    BY Flattened, Sizes
  <2>3. RoomFor(<<>>) = SizeOf.size
    BY Rooms
  <2>4. <<>> \in Seq(all)
    OBVIOUS
  <2> HIDE DEF all
  <2> QED BY <2>1, <2>2, <2>3, <2>4
<1>2. ASSUME NEW tt \in Seq(all), NEW t \in all, tt \in I PROVE Append(tt, t) \in I
  <2>1. Lengths(Append(tt, t)) = Append(Lengths(tt), Len(t))
    <3> DEFINE uu == Append(tt, t)
               k == Len(t)
               r == Append(Lengths(tt), k)
               n == Len(tt)
    <3>1. /\ uu \in Seq(all) /\ Len(uu) = n + 1 /\ n \in Nat /\ k \in Nat
          /\ \A i \in 1 .. n : uu[i] = tt[i]
          /\ uu[n + 1] = t
      BY AppendProperties, LenProperties
    <3>2. /\ Lengths(tt) \in Seq(Nat) /\ Len(Lengths(tt)) = n
          /\ \A i \in 1 .. n : Lengths(tt)[i] = Len(tt[i])
      BY LengthsType
    <3> HIDE DEF uu, n, k
    <3>3. /\ r \in Seq(Nat) /\ Len(r) = n + 1
          /\ \A i \in 1 .. n : r[i] = Lengths(tt)[i]
          /\ r[n + 1] = k
      BY <3>1, <3>2, AppendProperties
    <3>4. /\ Lengths(uu) \in Seq(Nat) /\ Len(Lengths(uu)) = n + 1
          /\ \A i \in 1 .. n + 1 : Lengths(uu)[i] = Len(uu[i])
      BY <3>1, LengthsType
    <3> HIDE DEF r
    <3>5. \A i \in 1 .. n + 1 : Lengths(uu)[i] = r[i]
      <4> TAKE i \in 1 .. n + 1
      <4>1. i \in 1 .. n \/ i = n + 1
        BY <3>1
      <4> QED BY <3>1, <3>2, <3>3, <3>4, <4>1 DEF k
    <3>6. Lengths(uu) = r
      BY <3>3, <3>4, <3>5, SeqEqual
    <3> QED BY <3>6 DEF uu, r, k
  <2>2. FlattenSeq(Append(tt, t)) = FlattenSeq(tt) \o t /\ FlattenSeq(tt) \in Seq(Byte)
    BY Flattened
  <2>3. Len(FlattenSeq(tt) \o t) = Len(FlattenSeq(tt)) + Len(t)
    BY <2>2, ConcatProperties
  <2>4. /\ Len(t) \in Nat /\ Len(FlattenSeq(tt)) \in Nat /\ SizeOf.size \in Nat
        /\ Lengths(tt) \in Seq(Nat)
    BY <2>2, LenProperties, LengthsType, Sizes
  <2>5. RoomFor(Append(Lengths(tt), Len(t))) = RoomFor(Lengths(tt)) + Len(t)
    BY <2>4, Rooms
  <2>6. SizeOf.size + Len(FlattenSeq(tt)) = RoomFor(Lengths(tt))
    BY <1>2
  <2>7. SizeOf.size + Len(FlattenSeq(Append(tt, t))) = RoomFor(Lengths(Append(tt, t)))
    BY <2>1, <2>2, <2>3, <2>4, <2>5, <2>6
  <2>8. Append(tt, t) \in Seq(all)
    BY AppendProperties
  <2> QED BY <2>7, <2>8
<1>3. Seq(all) \subseteq I
  <2> HIDE DEF I, all
  <2> QED BY <1>1, <1>2, AppendInduction
<1> QED BY <1>3

LEMMA FieldsWritten ==
    ASSUME NEW e \in Endian, NEW ss \in Seq(Seq(Byte)), Len(ss) \in Number(SizeOf.size)
    PROVE  /\ WriteFields(e, ss) \in Seq(Byte)
           /\ Len(WriteFields(e, ss)) = RoomFor(Lengths(ss))
<1> DEFINE w == SizeOf.size
           n == Len(ss)
           b == WriteInt(e, n, w)
           s == FlattenSeq(ss)
<1>1. w \in Nat \ {0} /\ n \in Number(w)
  BY Sizes
<1>2. b \in Seq(Byte) /\ Len(b) = w
  <2> HIDE DEF w, n
  <2>1. <<>> \in Seq(Byte)
    OBVIOUS
  <2> QED BY <1>1, <2>1, NumbersReadBack
<1>3. s \in Seq(Byte) /\ w + Len(s) = RoomFor(Lengths(ss))
  BY Flattened, RoomOfWritten
<1>4. WriteFields(e, ss) = b \o s
  BY DEF WriteFields
<1> HIDE DEF w, n, b, s
<1> QED BY <1>2, <1>3, <1>4, ConcatProperties

LEMMA WrittenBy ==
    ASSUME NEW e, NEW write, NEW v
    PROVE  /\ v.type \in Integral => WriteBy(e, write, v) = WriteInt(e, v.int, SizeOf[v.type])
           /\ v.type \in Floating => WriteBy(e, write, v) = InMemory(e, v.bits, SizeOf[v.type])
           /\ v.type = "string"   => WriteBy(e, write, v) = WriteString(e, v.str)
           /\ v.type = "fncall"   =>
                 WriteBy(e, write, v) = WriteFields(e, Each(write, v.args)) \o WriteString(e, v.name)
           /\ v.type = "calltag"  => WriteBy(e, write, v) = <<>>
<1>1. \A type \in Integral : type \notin Floating /\ type \notin {"string", "fncall", "calltag"}
  BY DEF Integral, Floating
<1>2. \A type \in Floating : type \notin {"string", "fncall", "calltag"}
  BY DEF Floating
<1>3. CASE v.type \in Integral
  BY <1>1, <1>3 DEF WriteBy
<1>4. CASE v.type \in Floating
  BY <1>1, <1>2, <1>4 DEF WriteBy
<1>5. CASE v.type \notin Integral /\ v.type \notin Floating
  BY <1>5 DEF WriteBy
<1> QED BY <1>3, <1>4, <1>5

\* What is written for a value is as long as calculated.
LEMMA WrittenType ==
    ASSUME NEW e \in Endian, NEW write, NEW v \in Value,
           v.type = "fncall" => \A i \in 1 .. v.args.size : write[GetAt(v.args, i - 1)] \in Seq(Byte)
    PROVE  /\ WriteBy(e, write, v) \in Seq(Byte)
           /\ \A size :
                 (v.type = "fncall" =>
                    \A i \in 1 .. v.args.size :
                       size[GetAt(v.args, i - 1)] = Len(write[GetAt(v.args, i - 1)]))
                 => Len(WriteBy(e, write, v)) = CalculateBy(size, v)
<1>1. MaxNesting \in Nat /\ v \in Nested[MaxNesting]
  BY SerializationAssumption DEF Value
<1>2. <<>> \in Seq(Byte)
  OBVIOUS
<1>3. CASE v.type \in Integral
  <2>1. v.type # "fncall" /\ v.type \notin Floating
    BY <1>3 DEF Integral, Floating
  <2>2. v.int \in Number(SizeOf[v.type]) \/ v.int \in SignedNumber(SizeOf[v.type])
    BY <1>1, <1>3, <2>1, Kinds DEF Integral
  <2>3. SizeOf[v.type] \in Nat \ {0}
    BY <1>3, Sizes
  <2>4. WriteInt(e, v.int, SizeOf[v.type]) \in Seq(Byte) /\ Len(WriteInt(e, v.int, SizeOf[v.type])) = SizeOf[v.type]
    BY ZenonT(30), <1>2, <2>2, <2>3, NumbersReadBack
  <2> QED BY <1>3, <2>4, WrittenBy, Calculated
<1>4. CASE v.type \in Floating
  <2>1. v.bits \in Number(SizeOf[v.type])
    BY <1>1, <1>4, Kinds DEF Integral, Floating, Signed
  <2>2. SizeOf[v.type] \in Nat \ {0}
    BY <1>4, Sizes
  <2>3. InMemory(e, v.bits, SizeOf[v.type]) \in Seq(Byte) /\ Len(InMemory(e, v.bits, SizeOf[v.type])) = SizeOf[v.type]
    BY <1>2, <2>1, <2>2, NumbersReadBack
  <2> QED BY <1>4, <2>3, WrittenBy, Calculated
<1>5. CASE v.type = "string"
  <2>1. v.str \in Sequence(Byte)
    BY <1>1, <1>5, Kinds DEF Integral, Floating, Signed
  <2>2. WriteString(e, v.str) \in Seq(Byte) /\ Len(WriteString(e, v.str)) = SizeOf.size + Len(v.str)
    BY <1>2, <2>1, StringsReadBack
  <2> QED BY <1>5, <2>2, WrittenBy, Calculated
<1>6. CASE v.type = "fncall"
  <2>1. v.name \in Sequence(Byte) /\ v.args \in TuplesOf(Value)
    BY <1>1, <1>6, Kinds, Depths DEF Integral, Floating, Signed
  <2> DEFINE ss == Each(write, v.args)
             s == WriteFields(e, ss)
             r == WriteString(e, v.name)
  <2>2. /\ ss \in Seq(Seq(Byte)) /\ Len(ss) = v.args.size
        /\ \A i \in 1 .. v.args.size : ss[i] = write[GetAt(v.args, i - 1)]
    <3> DEFINE all == Seq(Byte)
               t == v.args
    <3>1. t \in TuplesOf(Value) /\ \A i \in 1 .. t.size : write[GetAt(t, i - 1)] \in all
      BY <1>6, <2>1
    <3> HIDE DEF all, t
    <3>2. /\ Each(write, t) \in Seq(all) /\ Len(Each(write, t)) = t.size
          /\ \A i \in 1 .. t.size : Each(write, t)[i] = write[GetAt(t, i - 1)]
      BY <3>1, EachField
    <3> QED BY <3>2 DEF all, t
  <2>3. Len(ss) \in Number(SizeOf.size)
    BY <2>1, <2>2, Tuples DEF Sequence
  <2>4. s \in Seq(Byte) /\ Len(s) = RoomFor(Lengths(ss))
    BY <2>2, <2>3, FieldsWritten
  <2>5. r \in Seq(Byte) /\ Len(r) = SizeOf.size + Len(v.name)
    BY <1>2, <2>1, StringsReadBack
  <2>6. WriteBy(e, write, v) = s \o r
    BY <1>6, WrittenBy
  <2> HIDE DEF s, r, ss
  <2>7. s \o r \in Seq(Byte) /\ Len(s \o r) = Len(s) + Len(r)
    BY <2>4, <2>5, ConcatProperties
  <2>8. ASSUME NEW size,
               \A i \in 1 .. v.args.size :
                  size[GetAt(v.args, i - 1)] = Len(write[GetAt(v.args, i - 1)])
        PROVE  Len(WriteBy(e, write, v)) = CalculateBy(size, v)
    <3>1. /\ Lengths(ss) \in Seq(Nat) /\ Len(Lengths(ss)) = Len(ss)
          /\ \A i \in 1 .. Len(ss) : Lengths(ss)[i] = Len(ss[i])
      BY <2>2, LengthsType
    <3>2. /\ Each(size, v.args) \in Seq(Nat) /\ Len(Each(size, v.args)) = v.args.size
          /\ \A i \in 1 .. v.args.size : Each(size, v.args)[i] = size[GetAt(v.args, i - 1)]
      <4>1. \A i \in 1 .. v.args.size : size[GetAt(v.args, i - 1)] \in Nat
        BY <1>6, <2>8, LenProperties
      <4> QED BY ZenonT(30), <2>1, <4>1, EachField
    <3>3. \A i \in 1 .. Len(Lengths(ss)) : Lengths(ss)[i] = Each(size, v.args)[i]
      BY <2>2, <2>8, <3>1, <3>2
    <3>4. Lengths(ss) = Each(size, v.args)
      BY <2>2, <3>1, <3>2, <3>3, SeqEqual
    <3>5. CalculateBy(size, v) = (RoomFor(Lengths(ss)) + SizeOf.size) + Len(v.name)
      BY <1>6, <3>4, Calculated
    <3>6. RoomFor(Lengths(ss)) \in Nat /\ SizeOf.size \in Nat /\ Len(v.name) \in Nat
      BY <2>1, <3>1, Rooms, Sizes, LenProperties DEF Sequence
    <3> QED BY <2>4, <2>5, <2>6, <2>7, <3>5, <3>6
  <2> QED BY <1>6, <2>6, <2>7, <2>8
<1>7. CASE v.type = "calltag"
  <2>1. Len(<<>>) = 0
    OBVIOUS
  <2>2. WriteBy(e, write, v) = <<>> /\ \A size : CalculateBy(size, v) = 0
    BY <1>7, WrittenBy, Calculated
  <2> QED BY <1>2, <2>1, <2>2
<1> QED BY <1>1, <1>3, <1>4, <1>5, <1>6, <1>7, Kinds, Sizes

\* Every type has a tag of its own.
LEMMA Tags ==
    /\ \A type \in DOMAIN typemap : typemap[type] \in Byte
    /\ \A type, other \in DOMAIN typemap : typemap[type] = typemap[other] => type = other
    /\ DOMAIN typemap = Integral \cup Floating \cup {"string", "fncall", "calltag"}
    /\ \A n \in Nat : \A v \in Nested[n] : v.type \in DOMAIN typemap
<1>1. \A type \in DOMAIN typemap : typemap[type] \in 0 .. 10
  BY DEF typemap
<1>2. \A type \in DOMAIN typemap : typemap[type] \in Byte
  BY <1>1, RadixIsLarge DEF Byte
<1>3. \A type, other \in DOMAIN typemap : typemap[type] = typemap[other] => type = other
  BY DEF typemap
<1>4. DOMAIN typemap = Integral \cup Floating \cup {"string", "fncall", "calltag"}
  BY DEF typemap, Integral, Floating
<1>5. \A n \in Nat : \A v \in Nested[n] : v.type \in DOMAIN typemap
  BY <1>4, Kinds, Sizes
<1> QED BY <1>2, <1>3, <1>4, <1>5

LEMMA WrittenBack ==
    ASSUME NEW e, NEW f, NEW g, NEW v \in Value,
           v.type = "fncall" =>
              \A i \in 1 .. v.args.size : f[GetAt(v.args, i - 1)] = g[GetAt(v.args, i - 1)]
    PROVE  WriteBy(e, f, v) = WriteBy(e, g, v)
<1>1. v.type = "fncall" => Each(f, v.args) = Each(g, v.args)
  BY DEF Each
<1>2. v.type \in Integral \cup Floating \cup {"string", "fncall", "calltag"}
  BY Tags, SerializationAssumption DEF Value
<1> QED BY <1>1, <1>2, WrittenBy

\* The equation for Writer(e).
WriteEquation(e, write) == [v \in Value |-> <<typemap[v.type]>> \o WriteBy(e, write, v)]

LEMMA Writers ==
    ASSUME NEW e \in Endian
    PROVE  /\ Writer(e) \in [Value -> Seq(Byte)]
           /\ \A v \in Value : Writer(e)[v] = <<typemap[v.type]>> \o WriteBy(e, Writer(e), v)
<1> DEFINE measure == [v \in Value |-> Depth(v)]
           R == Seq(Byte)
           F == [Value -> R]
           phi == [v \in Value |-> [f \in F |-> <<typemap[v.type]>> \o WriteBy(e, f, v)]]
           none == <<>>
<1>1. measure \in [Value -> Nat] /\ none \in R
  BY Depths
<1>2. ASSUME NEW v \in Value, NEW f,
             v.type = "fncall" => \A i \in 1 .. v.args.size : f[GetAt(v.args, i - 1)] \in R
      PROVE  <<typemap[v.type]>> \o WriteBy(e, f, v) \in R
  <2>1. WriteBy(e, f, v) \in Seq(Byte)
    BY <1>2, WrittenType
  <2>2. typemap[v.type] \in Byte
    BY Tags, SerializationAssumption DEF Value
  <2> QED BY <2>1, <2>2, ConsProperties
<1> HIDE DEF R
<1>3. phi \in [Value -> [F -> R]]
  <2>1. ASSUME NEW v \in Value, NEW f \in F PROVE <<typemap[v.type]>> \o WriteBy(e, f, v) \in R
    <3>1. v.type = "fncall" => \A i \in 1 .. v.args.size : f[GetAt(v.args, i - 1)] \in R
      BY Depths
    <3> QED BY <1>2, <3>1
  <2> QED BY <2>1
<1>4. LooksBack(Value, measure, F, phi)
  <2> SUFFICES ASSUME NEW f \in F, NEW g \in F, NEW v \in Value,
                      \A u \in Value : measure[u] < measure[v] => f[u] = g[u]
               PROVE  phi[v][f] = phi[v][g]
    BY DEF LooksBack
  <2>1. v.type = "fncall" =>
           \A i \in 1 .. v.args.size : f[GetAt(v.args, i - 1)] = g[GetAt(v.args, i - 1)]
    BY Depths
  <2>2. WriteBy(e, f, v) = WriteBy(e, g, v)
    BY <2>1, WrittenBack
  <2> QED BY <2>2
<1>5. Recursive(Value, F, phi) # {}
  <2> HIDE DEF measure, phi, none
  <2> QED BY <1>1, <1>3, <1>4, RecursionInto
<1>6. PICK f \in F : \A v \in Value : f[v] = phi[v][f]
  <2> HIDE DEF phi
  <2> QED BY <1>5 DEF Recursive
<1>7. f = WriteEquation(e, f)
  <2>1. \A v \in Value : f[v] = <<typemap[v.type]>> \o WriteBy(e, f, v)
    BY <1>6
  <2> QED BY <2>1 DEF WriteEquation
<1>8. Writer(e) = CHOOSE g : g = WriteEquation(e, g)
  BY DEF Writer, WriteEquation
<1> DEFINE write == Writer(e)
<1>9. write = WriteEquation(e, write)
  BY <1>7, <1>8
<1> HIDE DEF write
<1>10. write = [v \in Value |-> <<typemap[v.type]>> \o WriteBy(e, write, v)]
  BY <1>9 DEF WriteEquation
<1> DEFINE I == {v \in Value : write[v] \in R}
<1>11. ASSUME NEW v \in Value,
              v.type = "fncall" => \A i \in 1 .. v.args.size : GetAt(v.args, i - 1) \in I
       PROVE  v \in I
  <2>1. v.type = "fncall" => \A i \in 1 .. v.args.size : write[GetAt(v.args, i - 1)] \in R
    BY <1>11
  <2>2. <<typemap[v.type]>> \o WriteBy(e, write, v) \in R
    BY <1>2, <2>1
  <2> QED BY <1>10, <2>2
<1>12. Value \subseteq I
  <2> HIDE DEF I
  <2> QED BY <1>11, ValueInduction
<1>13. write \in [Value -> R]
  <2>1. \A v \in Value : <<typemap[v.type]>> \o WriteBy(e, write, v) \in R
    BY <1>10, <1>12
  <2> QED BY <1>10, <2>1
<1> QED BY <1>10, <1>13 DEF write, R

\* Exactly the room for a value is written.
LEMMA RoomWritten ==
    ASSUME NEW e \in Endian
    PROVE  \A v \in Value : Len(Writer(e)[v]) = ValueSize[v]
<1> DEFINE write == Writer(e)
           size == ValueSize
           I == {v \in Value : Len(write[v]) = size[v]}
<1>1. /\ \A v \in Value : write[v] \in Seq(Byte)
      /\ \A v \in Value : write[v] = <<typemap[v.type]>> \o WriteBy(e, write, v)
      /\ \A v \in Value : size[v] = 1 + CalculateBy(size, v) /\ size[v] \in Nat
  BY Writers, ValueSizes
<1> HIDE DEF write, size
<1>2. ASSUME NEW v \in Value,
             v.type = "fncall" => \A i \in 1 .. v.args.size : GetAt(v.args, i - 1) \in I
      PROVE  v \in I
  <2>1. v.type = "fncall" =>
           \A i \in 1 .. v.args.size :
              /\ write[GetAt(v.args, i - 1)] \in Seq(Byte)
              /\ size[GetAt(v.args, i - 1)] = Len(write[GetAt(v.args, i - 1)])
    BY <1>1, <1>2
  <2>2. WriteBy(e, write, v) \in Seq(Byte) /\ Len(WriteBy(e, write, v)) = CalculateBy(size, v)
    BY <2>1, WrittenType
  <2>3. typemap[v.type] \in Byte
    BY Tags, SerializationAssumption DEF Value
  <2>4. Len(write[v]) = Len(WriteBy(e, write, v)) + 1
    <3>1. Len(<<typemap[v.type]>> \o WriteBy(e, write, v)) = Len(WriteBy(e, write, v)) + 1
      BY <2>2, <2>3, ConsProperties
    <3>2. write[v] = <<typemap[v.type]>> \o WriteBy(e, write, v)
      BY <1>1
    <3> QED BY <3>1, <3>2
  <2>5. Len(WriteBy(e, write, v)) \in Nat
    BY <2>2, LenProperties
  <2>6. Len(write[v]) = size[v]
    BY <1>1, <2>2, <2>4, <2>5
  <2> QED BY <2>6
<1>3. Value \subseteq I
  <2> HIDE DEF I
  <2> QED BY <1>2, ValueInduction
<1> QED BY <1>3 DEF write, size

\* For a tuple too.
LEMMA SizeOfWritten ==
    ASSUME NEW e \in Endian, NEW t \in TuplesOf(Value)
    PROVE  /\ Each(Writer(e), t) \in Seq(Seq(Byte)) /\ Len(Each(Writer(e), t)) = t.size
           /\ t.size \in Number(SizeOf.size)
           /\ WriteFields(e, Each(Writer(e), t)) \in Seq(Byte)
           /\ Len(WriteFields(e, Each(Writer(e), t))) = TupleSize(t)
           /\ Serialize(e, t).written \in Seq(Byte)
           /\ Len(Serialize(e, t).written) = Serialize(e, t).size
<1> DEFINE all == Seq(Byte)
           write == Writer(e)
           ss == Each(write, t)
           size == ValueSize
<1>1. /\ \A v \in Value : write[v] \in all
      /\ \A v \in Value : Len(write[v]) = size[v]
      /\ \A v \in Value : size[v] \in Nat
  BY Writers, ValueSizes, RoomWritten
<1>2. t.size \in Number(SizeOf.size) /\ \A i \in 1 .. t.size : GetAt(t, i - 1) \in Value
  BY Tuples DEF Sequence
<1> HIDE DEF write, size
<1>3. ss \in Seq(all) /\ Len(ss) = t.size /\ \A i \in 1 .. t.size : ss[i] = write[GetAt(t, i - 1)]
  <2> HIDE DEF all
  <2>1. \A i \in 1 .. t.size : write[GetAt(t, i - 1)] \in all
    BY <1>1, <1>2
  <2> QED BY <2>1, EachField
<1>4. /\ Each(size, t) \in Seq(Nat) /\ Len(Each(size, t)) = t.size
      /\ \A i \in 1 .. t.size : Each(size, t)[i] = size[GetAt(t, i - 1)]
  <2>1. \A i \in 1 .. t.size : size[GetAt(t, i - 1)] \in Nat
    BY <1>1, <1>2
  <2> QED BY <2>1, EachField
<1> HIDE DEF ss
<1>5. /\ Lengths(ss) \in Seq(Nat) /\ Len(Lengths(ss)) = Len(ss)
      /\ \A i \in 1 .. Len(ss) : Lengths(ss)[i] = Len(ss[i])
  BY <1>3, LengthsType
<1>6. \A i \in 1 .. Len(Lengths(ss)) : Lengths(ss)[i] = Each(size, t)[i]
  BY <1>1, <1>2, <1>3, <1>4, <1>5
<1>7. Lengths(ss) = Each(size, t)
  BY <1>3, <1>4, <1>5, <1>6, SeqEqual
<1>8. /\ WriteFields(e, ss) \in Seq(Byte)
      /\ Len(WriteFields(e, ss)) = TupleSize(t)
  BY <1>2, <1>3, <1>7, FieldsWritten DEF TupleSize, size
<1>9. /\ Serialize(e, t).size = TupleSize(t) + 1
      /\ Serialize(e, t).written = <<1>> \o WriteFields(e, ss)
  BY DEF Serialize, ss, write
<1>10. 1 \in Byte
  BY RadixIsLarge DEF Byte
<1>11. /\ Serialize(e, t).written \in Seq(Byte)
       /\ Len(Serialize(e, t).written) = Serialize(e, t).size
  BY <1>8, <1>9, <1>10, ConsProperties
<1> QED BY <1>2, <1>3, <1>8, <1>11 DEF ss, write

-----------------------------------------------------------------------------
(* Reading values.  Whatever bytes came, what is read is a value with calls *)
(* nested to some depth.                                                    *)

AnyValue == UNION {Nested[n] : n \in Nat}

LEMMA InAnyValue == \A n \in Nat : Nested[n] \subseteq AnyValue
BY DEF AnyValue

\* A sequence of values has a depth that is enough for all of them.
LEMMA DepthOfSequence ==
    ASSUME NEW vs \in Sequence(AnyValue)
    PROVE  \E n \in Nat : vs \in Sequence(Nested[n])
<1> DEFINE I == {s \in Seq(AnyValue) : \E n \in Nat : s \in Seq(Nested[n])}
<1>1. <<>> \in I
  <2>1. <<>> \in Seq(Nested[0]) /\ <<>> \in Seq(AnyValue) /\ 0 \in Nat
    OBVIOUS
  <2> QED BY <2>1
<1>2. ASSUME NEW s \in Seq(AnyValue), NEW v \in AnyValue, s \in I PROVE Append(s, v) \in I
  <2>1. PICK n \in Nat : s \in Seq(Nested[n])
    BY <1>2
  <2>2. PICK m \in Nat : v \in Nested[m]
    BY DEF AnyValue
  <2>3. PICK k \in Nat : n <= k /\ m <= k
    <3>1. n + m \in Nat /\ n <= n + m /\ m <= n + m
      OBVIOUS
    <3> QED BY <3>1
  <2>4. s \in Seq(Nested[k]) /\ v \in Nested[k]
    <3>1. Nested[n] \subseteq Nested[k] /\ Nested[m] \subseteq Nested[k]
      BY <2>3, NestedGrows
    <3> QED BY <2>1, <2>2, <3>1, SeqMonotonic
  <2>5. Append(s, v) \in Seq(Nested[k]) /\ Append(s, v) \in Seq(AnyValue)
    BY <2>4, AppendProperties
  <2> QED BY <2>5
<1>3. Seq(AnyValue) \subseteq I
  <2> HIDE DEF I
  <2> QED BY <1>1, <1>2, AppendInduction
<1> QED BY <1>3 DEF Sequence

LEMMA CallIsValue ==
    ASSUME NEW name \in Sequence(Byte), NEW vs \in Sequence(AnyValue)
    PROVE  [type |-> "fncall", name |-> name, args |-> LindaTuple(vs)] \in AnyValue
<1>1. PICK n \in Nat : vs \in Sequence(Nested[n])
  BY DepthOfSequence
<1>2. LindaTuple(vs) \in TuplesOf(Nested[n])
  BY <1>1, NestedGrows, Tuples
<1>3. n + 1 \in Nat /\ [type |-> "fncall", name |-> name, args |-> LindaTuple(vs)] \in Nested[n + 1]
  BY <1>2, OfKinds
<1> QED BY <1>3, InAnyValue

FieldLists(n) == {vs \in Seq(AnyValue) : Len(vs) = n}

\* fields has, for each number, that many fields that s starts with.
Reads(fields, s) == \A n \in Nat : fields[s][n] \in Results(FieldLists(n), Len(s))

LEMMA TupleRead ==
    ASSUME NEW e \in Endian, NEW buf \in Seq(Byte), NEW fields,
           \A s \in Seq(Byte) : Len(s) <= Len(buf) => Reads(fields, s)
    PROVE  ReadTupleBy(e, fields, buf) \in Results({LindaTuple(vs) : vs \in Sequence(AnyValue)}, Len(buf))
<1> DEFINE w == SizeOf.size
           u == ReadUnsigned(e, w, buf)
           t == fields[u.rest][u.value]
           V == {LindaTuple(vs) : vs \in Sequence(AnyValue)}
<1>1. ReadTupleBy(e, fields, buf) =
         IF u.ok THEN (IF t.ok THEN Read(LindaTuple(t.value), t.rest) ELSE t) ELSE u
  BY DEF ReadTupleBy, Then, As
<1>2. w \in Nat \ {0}
  BY Sizes
<1>3. \A vs \in Sequence(AnyValue) : LindaTuple(vs) \in V
  OBVIOUS
<1>4. \A vs \in Seq(AnyValue) : Len(vs) \in Number(w) => vs \in Sequence(AnyValue)
  BY DEF Sequence
<1> HIDE DEF w, V
<1>5. \/ u = Aborted /\ ~u.ok
      \/ u.ok /\ u.value \in Number(w) /\ u.rest \in Seq(Byte) /\ Len(u.rest) <= Len(buf)
  BY <1>2, NumbersRead, OfResults
<1> HIDE DEF u
<1>6. CASE ~u.ok
  BY <1>1, <1>5, <1>6, InResults DEF V
<1>7. CASE u.ok
  <2>1. u.value \in Nat /\ u.value \in Number(w) /\ u.rest \in Seq(Byte) /\ Len(u.rest) <= Len(buf)
    BY <1>2, <1>5, <1>7, TwosComplements DEF Aborted
  <2>2. t \in Results(FieldLists(u.value), Len(u.rest))
    BY <2>1 DEF Reads
  <2> HIDE DEF t
  <2>3. \/ t = Aborted /\ ~t.ok
        \/ /\ t.ok /\ t.value \in FieldLists(u.value)
           /\ t.rest \in Seq(Byte) /\ Len(t.rest) <= Len(u.rest)
    BY <2>2, OfResults
  <2>4. Len(buf) \in Nat /\ Len(u.rest) \in Nat /\ \A s \in Seq(Byte) : Len(s) \in Nat
    BY <2>1, LenProperties
  <2>5. CASE ~t.ok
    BY <1>1, <1>7, <2>3, <2>5, InResults DEF V
  <2>6. CASE t.ok
    <3>1. t.value \in Seq(AnyValue) /\ Len(t.value) = u.value
      BY <2>3, <2>6 DEF Aborted, FieldLists
    <3>2. LindaTuple(t.value) \in V
      BY <1>3, <1>4, <2>1, <3>1
    <3>3. t.rest \in Seq(Byte) /\ Len(t.rest) <= Len(buf)
      BY <2>1, <2>3, <2>4, <2>6 DEF Aborted
    <3>4. Read(LindaTuple(t.value), t.rest) \in Results(V, Len(buf))
      BY <3>2, <3>3, InResults
    <3> QED BY <1>1, <1>7, <2>6, <3>4 DEF V
  <2> QED BY <2>5, <2>6
<1> QED BY <1>6, <1>7

LEMMA TypedRead ==
    ASSUME NEW e \in Endian, NEW buf \in Seq(Byte), NEW fields, NEW type \in DOMAIN typemap,
           \A s \in Seq(Byte) : Len(s) <= Len(buf) => Reads(fields, s)
    PROVE  ReadTyped(e, fields, type, buf) \in Results(AnyValue, Len(buf))
<1>0. Nested[0] \subseteq AnyValue /\ 0 \in Nat /\ Len(buf) \in Nat /\ \A s \in Seq(Byte) : Len(s) \in Nat
  BY InAnyValue, LenProperties
<1>1. CASE type \in Signed
  <2> DEFINE t == ReadSigned(e, SizeOf[type], buf)
  <2>1. ReadTyped(e, fields, type, buf) = IF t.ok THEN Read([type |-> type, int |-> t.value], t.rest) ELSE t
    BY <1>1 DEF ReadTyped, As, Then, Signed, Integral, Floating
  <2>2. SizeOf[type] \in Nat \ {0}
    BY <1>1, Sizes
  <2>3. \/ t = Aborted /\ ~t.ok
        \/ /\ t.ok /\ t.value \in SignedNumber(SizeOf[type])
           /\ t.rest \in Seq(Byte) /\ Len(t.rest) <= Len(buf)
    BY <2>2, NumbersRead, OfResults
  <2> HIDE DEF t
  <2>4. \A i \in SignedNumber(SizeOf[type]) : [type |-> type, int |-> i] \in AnyValue
    BY <1>0, <1>1, OfKinds
  <2> QED BY <2>1, <2>3, <2>4, InResults
<1>2. CASE type \in Integral \ Signed
  <2> DEFINE t == ReadUnsigned(e, SizeOf[type], buf)
  <2>1. ReadTyped(e, fields, type, buf) = IF t.ok THEN Read([type |-> type, int |-> t.value], t.rest) ELSE t
    BY <1>2 DEF ReadTyped, As, Then, Signed, Integral, Floating
  <2>2. SizeOf[type] \in Nat \ {0}
    BY <1>2, Sizes
  <2>3. \/ t = Aborted /\ ~t.ok
        \/ /\ t.ok /\ t.value \in Number(SizeOf[type])
           /\ t.rest \in Seq(Byte) /\ Len(t.rest) <= Len(buf)
    BY <2>2, NumbersRead, OfResults
  <2> HIDE DEF t
  <2>4. \A i \in Number(SizeOf[type]) : [type |-> type, int |-> i] \in AnyValue
    BY <1>0, <1>2, OfKinds
  <2> QED BY <2>1, <2>3, <2>4, InResults
<1>3. CASE type \in Floating
  <2> DEFINE t == ReadBits(e, SizeOf[type], buf)
  <2>1. ReadTyped(e, fields, type, buf) = IF t.ok THEN Read([type |-> type, bits |-> t.value], t.rest) ELSE t
    BY <1>3 DEF ReadTyped, As, Then, Signed, Integral, Floating
  <2>2. SizeOf[type] \in Nat \ {0}
    BY <1>3, Sizes
  <2>3. \/ t = Aborted /\ ~t.ok
        \/ /\ t.ok /\ t.value \in Number(SizeOf[type])
           /\ t.rest \in Seq(Byte) /\ Len(t.rest) <= Len(buf)
    BY <2>2, NumbersRead, OfResults
  <2> HIDE DEF t
  <2>4. \A i \in Number(SizeOf[type]) : [type |-> type, bits |-> i] \in AnyValue
    BY <1>0, <1>3, OfKinds
  <2> QED BY <2>1, <2>3, <2>4, InResults
<1>4. CASE type = "string"
  <2> DEFINE t == ReadString(e, buf)
  <2>1. ReadTyped(e, fields, type, buf) = IF t.ok THEN Read([type |-> type, str |-> t.value], t.rest) ELSE t
    BY <1>4 DEF ReadTyped, As, Then, Signed, Integral, Floating
  <2>2. \/ t = Aborted /\ ~t.ok
        \/ t.ok /\ t.value \in Sequence(Byte) /\ t.rest \in Seq(Byte) /\ Len(t.rest) <= Len(buf)
    BY StringsRead, OfResults
  <2> HIDE DEF t
  <2>3. \A s \in Sequence(Byte) : [type |-> type, str |-> s] \in AnyValue
    BY <1>0, <1>4, OfKinds
  <2> QED BY <2>1, <2>2, <2>3, InResults
<1>5. CASE type = "fncall"
  <2> DEFINE args == ReadTupleBy(e, fields, buf)
             name == ReadString(e, args.rest)
             call == [type |-> type, name |-> name.value, args |-> args.value]
             V == {LindaTuple(vs) : vs \in Sequence(AnyValue)}
  <2>1. ReadTyped(e, fields, type, buf) =
           IF args.ok THEN (IF name.ok THEN Read(call, name.rest) ELSE name) ELSE args
    BY <1>5 DEF ReadTyped, As, Then, Signed, Integral, Floating
  <2>2. args \in Results(V, Len(buf))
    BY TupleRead
  <2>3. \A a \in V : \E vs \in Sequence(AnyValue) : a = LindaTuple(vs)
    OBVIOUS
  <2> HIDE DEF args, V
  <2>4. \/ args = Aborted /\ ~args.ok
        \/ args.ok /\ args.value \in V /\ args.rest \in Seq(Byte) /\ Len(args.rest) <= Len(buf)
    BY <2>2, OfResults
  <2>5. CASE ~args.ok
    BY <2>1, <2>4, <2>5, InResults
  <2>6. CASE args.ok
    <3>1. args.value \in V /\ args.rest \in Seq(Byte) /\ Len(args.rest) <= Len(buf)
      BY <2>4, <2>6 DEF Aborted
    <3>2. \/ name = Aborted /\ ~name.ok
          \/ /\ name.ok /\ name.value \in Sequence(Byte)
             /\ name.rest \in Seq(Byte) /\ Len(name.rest) <= Len(args.rest)
      BY <3>1, StringsRead, OfResults
    <3>3. name.ok => call \in AnyValue
      BY <1>5, <2>3, <3>1, <3>2, CallIsValue DEF Aborted
    <3> HIDE DEF name, call
    <3>4. CASE ~name.ok
      BY <2>1, <2>6, <3>2, <3>4, InResults
    <3>5. CASE name.ok
      <4>1. name.rest \in Seq(Byte) /\ Len(name.rest) <= Len(buf)
        BY <1>0, <3>1, <3>2, <3>5 DEF Aborted
      <4> QED BY <2>1, <2>6, <3>3, <3>5, <4>1, InResults
    <3> QED BY <3>4, <3>5
  <2> QED BY <2>5, <2>6
<1>6. CASE type = "calltag"
  <2>1. ReadTyped(e, fields, type, buf) = Read([type |-> type], buf)
    BY <1>6 DEF ReadTyped, Signed, Integral, Floating
  <2>2. [type |-> type] \in AnyValue
    BY <1>0, <1>6, OfKinds
  <2> QED BY <1>0, <2>1, <2>2, InResults
<1> QED BY <1>1, <1>2, <1>3, <1>4, <1>5, <1>6, Tags

\* What reading a value leaves is shorter than the buffer was.
LEMMA ValueRead ==
    ASSUME NEW e \in Endian, NEW buf \in Seq(Byte), NEW fields,
           \A s \in Seq(Byte) : Len(s) < Len(buf) => Reads(fields, s)
    PROVE  \/ ReadValue(e, fields, buf) = Aborted /\ ~ReadValue(e, fields, buf).ok
           \/ /\ ReadValue(e, fields, buf).ok /\ ReadValue(e, fields, buf).value \in AnyValue
              /\ ReadValue(e, fields, buf).rest \in Seq(Byte)
              /\ Len(ReadValue(e, fields, buf).rest) < Len(buf)
<1> DEFINE type == CHOOSE type \in DOMAIN typemap : typemap[type] = buf[1]
           tail == Tail(buf)
<1>1. CASE buf = <<>> \/ \A t \in DOMAIN typemap : typemap[t] # buf[1]
  BY <1>1 DEF ReadValue, Aborted
<1>2. CASE buf # <<>> /\ \E t \in DOMAIN typemap : typemap[t] = buf[1]
  <2>1. type \in DOMAIN typemap
    BY <1>2
  <2>2. ReadValue(e, fields, buf) = ReadTyped(e, fields, type, tail)
    BY <1>2 DEF ReadValue
  <2>3. tail \in Seq(Byte) /\ Len(tail) = Len(buf) - 1 /\ Len(buf) \in Nat /\ \A s \in Seq(Byte) : Len(s) \in Nat
    BY <1>2, HeadAndTail, LenProperties
  <2> HIDE DEF type, tail
  <2>4. \A s \in Seq(Byte) : Len(s) <= Len(tail) <=> Len(s) < Len(buf)
    BY <2>3
  <2> DEFINE r == ReadTyped(e, fields, type, tail)
  <2>5. r \in Results(AnyValue, Len(tail))
    BY <2>1, <2>3, <2>4, TypedRead
  <2> HIDE DEF r
  <2>6. \/ r = Aborted /\ ~r.ok
        \/ r.ok /\ r.value \in AnyValue /\ r.rest \in Seq(Byte) /\ Len(r.rest) <= Len(tail)
    BY <2>5, OfResults
  <2> QED BY <2>2, <2>4, <2>6 DEF r
<1> QED BY <1>1, <1>2

\* What is read for n fields, with fields for those after the first.
ReadBody(e, fields, buf) ==
    [n \in Nat |->
       IF n = 0 THEN Read(<<>>, buf)
       ELSE Then(ReadValue(e, fields, buf), LAMBDA first :
              As(fields[first.rest][n - 1], LAMBDA others : <<first.value>> \o others))]

LEMMA BodyOfMore ==
    ASSUME NEW e, NEW buf, NEW fields, NEW n \in Nat, NEW v, NEW vs, NEW rest, NEW left,
           ReadValue(e, fields, buf) = Read(v, rest), fields[rest][n] = Read(vs, left)
    PROVE  ReadBody(e, fields, buf)[n + 1] = Read(<<v>> \o vs, left)
<1> DEFINE first == ReadValue(e, fields, buf)
           others(m) == fields[first.rest][m]
<1>1. \A m \in Nat :
         ReadBody(e, fields, buf)[m] =
            IF m = 0 THEN Read(<<>>, buf)
            ELSE IF first.ok
            THEN (IF others(m - 1).ok
                  THEN Read(<<first.value>> \o others(m - 1).value, others(m - 1).rest)
                  ELSE others(m - 1))
            ELSE first
  BY DEF ReadBody, Then, As
<1>2. n + 1 \in Nat /\ n + 1 # 0 /\ (n + 1) - 1 = n
  OBVIOUS
<1>3. first.ok /\ first.value = v /\ first.rest = rest
  BY DEF Read
<1>4. others(n).ok /\ others(n).value = vs /\ others(n).rest = left
  BY <1>3 DEF Read
<1> HIDE DEF first, others
<1> QED BY <1>1, <1>2, <1>3, <1>4

LEMMA BodyReads ==
    ASSUME NEW e \in Endian, NEW buf \in Seq(Byte), NEW fields, NEW n \in Nat,
           \A s \in Seq(Byte) : Len(s) < Len(buf) => Reads(fields, s)
    PROVE  ReadBody(e, fields, buf)[n] \in Results(FieldLists(n), Len(buf))
<1> DEFINE first == ReadValue(e, fields, buf)
           others == fields[first.rest][n - 1]
           body == ReadBody(e, fields, buf)[n]
<1>1. body = IF n = 0 THEN Read(<<>>, buf)
             ELSE IF first.ok THEN (IF others.ok THEN Read(<<first.value>> \o others.value, others.rest) ELSE others)
             ELSE first
  BY DEF ReadBody, Then, As
<1>2. \/ first = Aborted /\ ~first.ok
      \/ /\ first.ok /\ first.value \in AnyValue /\ first.rest \in Seq(Byte)
         /\ Len(first.rest) < Len(buf)
  BY ValueRead
<1> HIDE DEF first, body
<1>3. Len(buf) \in Nat /\ \A s \in Seq(Byte) : Len(s) \in Nat
  BY LenProperties
<1>4. CASE n = 0
  <2>1. <<>> \in FieldLists(n)
    BY <1>4 DEF FieldLists
  <2>2. Len(buf) <= Len(buf)
    BY <1>3
  <2>3. Read(<<>>, buf) \in Results(FieldLists(n), Len(buf))
    BY <2>1, <2>2, InResults
  <2> QED BY <1>1, <1>4, <2>3 DEF body
<1>5. CASE n # 0 /\ ~first.ok
  BY <1>1, <1>2, <1>5, InResults DEF body
<1>6. CASE n # 0 /\ first.ok
  <2>1. /\ first.value \in AnyValue /\ first.rest \in Seq(Byte) /\ Len(first.rest) < Len(buf)
        /\ n - 1 \in Nat
    BY <1>2, <1>6 DEF Aborted
  <2>2. others \in Results(FieldLists(n - 1), Len(first.rest))
    BY <2>1 DEF Reads
  <2> HIDE DEF others
  <2>3. \/ others = Aborted /\ ~others.ok
        \/ /\ others.ok /\ others.value \in FieldLists(n - 1)
           /\ others.rest \in Seq(Byte) /\ Len(others.rest) <= Len(first.rest)
    BY <2>2, OfResults
  <2>4. CASE ~others.ok
    BY <1>1, <1>6, <2>3, <2>4, InResults DEF body
  <2>5. CASE others.ok
    <3>1. /\ others.value \in Seq(AnyValue) /\ Len(others.value) = n - 1
          /\ others.rest \in Seq(Byte) /\ Len(others.rest) <= Len(first.rest)
      BY <2>3, <2>5 DEF Aborted, FieldLists
    <3> DEFINE both == <<first.value>> \o others.value
    <3>2. both \in Seq(AnyValue) /\ Len(both) = (n - 1) + 1
      BY <2>1, <3>1, ConsProperties
    <3> HIDE DEF both
    <3>3. both \in FieldLists(n) /\ Len(others.rest) <= Len(buf)
      BY <1>3, <2>1, <3>1, <3>2 DEF FieldLists
    <3>4. Read(both, others.rest) \in Results(FieldLists(n), Len(buf))
      BY <3>1, <3>3, InResults
    <3> QED BY <1>1, <1>6, <2>5, <3>4 DEF body, both
  <2> QED BY <2>4, <2>5
<1> QED BY <1>4, <1>5, <1>6 DEF body

LEMMA TupleReadBack ==
    ASSUME NEW e \in Endian, NEW buf \in Seq(Byte), NEW f, NEW g,
           \A s \in Seq(Byte) : Len(s) <= Len(buf) => f[s] = g[s]
    PROVE  ReadTupleBy(e, f, buf) = ReadTupleBy(e, g, buf)
<1> DEFINE w == SizeOf.size
           u == ReadUnsigned(e, w, buf)
<1>1. \A h : ReadTupleBy(e, h, buf) = IF u.ok THEN As(h[u.rest][u.value], LAMBDA vs : LindaTuple(vs)) ELSE u
  BY DEF ReadTupleBy, Then
<1>2. w \in Nat \ {0}
  BY Sizes
<1> HIDE DEF w
<1>3. u.ok => u.rest \in Seq(Byte) /\ Len(u.rest) <= Len(buf)
  BY <1>2, NumbersRead, OfResults DEF Aborted
<1> HIDE DEF u
<1>4. u.ok => f[u.rest] = g[u.rest]
  BY <1>3
<1> QED BY <1>1, <1>4 DEF As, Then

LEMMA TypedReadBack ==
    ASSUME NEW e \in Endian, NEW buf \in Seq(Byte), NEW f, NEW g, NEW type \in DOMAIN typemap,
           \A s \in Seq(Byte) : Len(s) <= Len(buf) => f[s] = g[s]
    PROVE  ReadTyped(e, f, type, buf) = ReadTyped(e, g, type, buf)
<1>1. CASE type = "fncall"
  <2>1. ReadTupleBy(e, f, buf) = ReadTupleBy(e, g, buf)
    BY TupleReadBack
  <2>2. \A h : ReadTyped(e, h, type, buf) =
                 Then(ReadTupleBy(e, h, buf), LAMBDA args :
                    As(ReadString(e, args.rest), LAMBDA name :
                       [type |-> type, name |-> name, args |-> args.value]))
    BY <1>1 DEF ReadTyped, Signed, Integral, Floating
  <2> QED BY <2>1, <2>2 DEF Then, As
<1>2. CASE type \in Signed
  BY <1>2 DEF ReadTyped, As, Then, Signed, Integral, Floating
<1>3. CASE type \in Integral \ Signed
  BY <1>3 DEF ReadTyped, As, Then, Signed, Integral, Floating
<1>4. CASE type \in Floating
  BY <1>4 DEF ReadTyped, Integral, Signed, Floating
<1>5. CASE type \in {"string", "calltag"}
  BY <1>5 DEF ReadTyped, Integral, Signed, Floating
<1> QED BY <1>1, <1>2, <1>3, <1>4, <1>5, Tags

LEMMA BodyBack ==
    ASSUME NEW e \in Endian, NEW buf \in Seq(Byte), NEW f, NEW g,
           \A s \in Seq(Byte) : Len(s) < Len(buf) => Reads(f, s) /\ f[s] = g[s]
    PROVE  ReadBody(e, f, buf) = ReadBody(e, g, buf)
<1> DEFINE first == ReadValue(e, f, buf)
<1>1. first = ReadValue(e, g, buf)
  <2> DEFINE type == CHOOSE type \in DOMAIN typemap : typemap[type] = buf[1]
             tail == Tail(buf)
  <2>1. CASE buf = <<>> \/ \A t \in DOMAIN typemap : typemap[t] # buf[1]
    BY <2>1 DEF ReadValue
  <2>2. CASE buf # <<>> /\ \E t \in DOMAIN typemap : typemap[t] = buf[1]
    <3>1. type \in DOMAIN typemap
      BY <2>2
    <3>2. first = ReadTyped(e, f, type, tail) /\ ReadValue(e, g, buf) = ReadTyped(e, g, type, tail)
      BY <2>2 DEF ReadValue
    <3>3. tail \in Seq(Byte) /\ Len(tail) = Len(buf) - 1 /\ Len(buf) \in Nat /\ \A s \in Seq(Byte) : Len(s) \in Nat
      BY <2>2, HeadAndTail, LenProperties
    <3> HIDE DEF type, tail, first
    <3>4. \A s \in Seq(Byte) : Len(s) <= Len(tail) <=> Len(s) < Len(buf)
      BY <3>3
    <3> QED BY <3>1, <3>2, <3>3, <3>4, TypedReadBack
  <2> QED BY <2>1, <2>2
<1>2. first.ok => first.rest \in Seq(Byte) /\ Len(first.rest) < Len(buf)
  BY ValueRead DEF Aborted
<1> HIDE DEF first
<1>3. first.ok => f[first.rest] = g[first.rest]
  BY <1>2
<1>4. ASSUME NEW n \in Nat PROVE ReadBody(e, f, buf)[n] = ReadBody(e, g, buf)[n]
  BY <1>1, <1>3 DEF ReadBody, Then, As, first
<1>5. \A h : ReadBody(e, h, buf) = [n \in Nat |-> ReadBody(e, h, buf)[n]]
  BY DEF ReadBody
<1> QED BY <1>4, <1>5

\* Reader is what its equation says, and what it reads are fields.
LEMMA Readers ==
    ASSUME NEW e \in Endian
    PROVE  \A buf \in Seq(Byte) :
              Reader(e)[buf] = ReadBody(e, Reader(e), buf) /\ Reads(Reader(e), buf)
<1> DEFINE D == Seq(Byte)
           measure == [s \in D |-> Len(s)]
           R == [value : Seq(AnyValue), rest : Seq(Byte), ok : {TRUE}] \cup {Aborted}
           F == {f \in [D -> [Nat -> R]] : \A s \in D : Reads(f, s)}
           phi == [s \in D |-> [f \in F |-> ReadBody(e, f, s)]]
           start == [s \in D |-> [n \in Nat |-> Aborted]]
<1>1. measure \in [D -> Nat] /\ \A s \in D : Len(s) \in Nat
  BY LenProperties
<1>2. \A n, m \in Nat : Results(FieldLists(n), m) \subseteq R
  BY DEF Results, FieldLists
<1>3. start \in F
  <2>1. start \in [D -> [Nat -> R]]
    OBVIOUS
  <2>2. \A s \in D : Reads(start, s)
    BY InResults DEF Reads
  <2> QED BY <2>1, <2>2
<1>4. ASSUME NEW f, NEW s \in D, \A r \in D : Len(r) < Len(s) => Reads(f, r)
      PROVE  /\ \A n \in Nat : ReadBody(e, f, s)[n] \in Results(FieldLists(n), Len(s))
             /\ ReadBody(e, f, s) \in [Nat -> R]
  <2>1. \A n \in Nat : ReadBody(e, f, s)[n] \in Results(FieldLists(n), Len(s))
    BY <1>4, BodyReads
  <2>2. \A n \in Nat : ReadBody(e, f, s)[n] \in R
    BY <1>1, <1>2, <2>1
  <2>3. ReadBody(e, f, s) = [n \in Nat |-> ReadBody(e, f, s)[n]]
    BY DEF ReadBody
  <2> QED BY <2>1, <2>2, <2>3
<1>5. LooksBack(D, measure, F, phi)
  <2> SUFFICES ASSUME NEW f \in F, NEW g \in F, NEW s \in D,
                      \A r \in D : measure[r] < measure[s] => f[r] = g[r]
               PROVE  phi[s][f] = phi[s][g]
    BY DEF LooksBack
  <2>1. \A r \in D : Len(r) < Len(s) => Reads(f, r) /\ f[r] = g[r]
    OBVIOUS
  <2>2. ReadBody(e, f, s) = ReadBody(e, g, s)
    BY <2>1, BodyBack
  <2> QED BY <2>2
<1>6. ASSUME NEW f \in F PROVE \E h \in F : \A s \in D : h[s] = phi[s][f]
  <2> DEFINE h == [s \in D |-> ReadBody(e, f, s)]
  <2>1. \A s \in D : /\ \A n \in Nat : ReadBody(e, f, s)[n] \in Results(FieldLists(n), Len(s))
                     /\ ReadBody(e, f, s) \in [Nat -> R]
    <3> TAKE s \in D
    <3>1. \A r \in D : Len(r) < Len(s) => Reads(f, r)
      OBVIOUS
    <3> QED BY <1>4, <3>1
  <2>2. h \in [D -> [Nat -> R]]
    BY <2>1
  <2>3. \A s \in D : Reads(h, s)
    BY <2>1 DEF Reads
  <2>4. h \in F
    BY <2>2, <2>3
  <2>5. \A s \in D : h[s] = phi[s][f]
    OBVIOUS
  <2> QED BY <2>4, <2>5
<1>7. ASSUME NEW c \in [Nat -> F] PROVE \E h \in F : \A s \in D : h[s] = c[measure[s] + 1][s]
  <2> DEFINE h == [s \in D |-> c[measure[s] + 1][s]]
  <2>1. \A s \in D : measure[s] + 1 \in Nat /\ c[measure[s] + 1] \in F
    <3> HIDE DEF F, measure
    <3> QED BY <1>1
  <2>2. h \in [D -> [Nat -> R]]
    BY <2>1
  <2>3. \A s \in D : Reads(h, s)
    BY <2>1 DEF Reads
  <2>4. h \in F
    BY <2>2, <2>3
  <2> QED BY <2>4
<1>8. Recursive(D, F, phi) # {}
  <2>1. ClosedUnder(D, measure, F, phi)
    <3> HIDE DEF measure, phi, F
    <3> QED BY <1>6, <1>7 DEF ClosedUnder
  <2> HIDE DEF measure, phi, start, F, D
  <2> QED BY <1>1, <1>3, <1>5, <2>1, Recursion
<1>9. PICK f \in F : \A s \in D : f[s] = ReadBody(e, f, s)
  <2>1. PICK f \in F : \A s \in D : f[s] = phi[s][f]
    <3> HIDE DEF phi, F
    <3> QED BY <1>8 DEF Recursive
  <2> QED BY <2>1
<1> DEFINE body(g) == [s \in D |-> ReadBody(e, g, s)]
           reader == CHOOSE g : g = body(g)
<1>10. f = body(f)
  BY <1>9
<1>11. Reader(e) = reader
  BY DEF Reader, ReadBody
<1>12. reader = body(reader)
  <2> HIDE DEF body
  <2> QED BY <1>10
<1> HIDE DEF reader
<1>13. \A s \in D : reader[s] = ReadBody(e, reader, s)
  BY <1>12
<1> DEFINE I == {n \in Nat : \A s \in D : Len(s) < n => Reads(reader, s)}
<1>14. 0 \in I
  BY <1>1
<1>15. ASSUME NEW n \in Nat, n \in I PROVE n + 1 \in I
  <2>1. SUFFICES ASSUME NEW s \in D, Len(s) < n + 1 PROVE Reads(reader, s)
    OBVIOUS
  <2>2. \A r \in D : Len(r) < Len(s) => Reads(reader, r)
    BY <1>1, <1>15, <2>1
  <2>3. \A m \in Nat : ReadBody(e, reader, s)[m] \in Results(FieldLists(m), Len(s))
    BY <1>4, <2>2
  <2> QED BY <1>13, <2>3 DEF Reads
<1>16. Nat \subseteq I
  <2> HIDE DEF I
  <2> QED BY <1>14, <1>15, SetInduction
<1>17. ASSUME NEW s \in D PROVE Reads(reader, s)
  <2>1. Len(s) + 1 \in Nat /\ Len(s) < Len(s) + 1
    BY <1>1
  <2> QED BY <1>16, <2>1
<1> QED BY <1>11, <1>13, <1>17

-----------------------------------------------------------------------------
(* What was written is read.                                               *)

LEMMA TagRead ==
    ASSUME NEW e, NEW fields, NEW type \in DOMAIN typemap, NEW b \in Seq(Byte)
    PROVE  ReadValue(e, fields, <<typemap[type]>> \o b) = ReadTyped(e, fields, type, b)
<1> DEFINE tag == typemap[type]
           buf == <<tag>> \o b
<1>1. tag \in Byte /\ \A t \in DOMAIN typemap : typemap[t] = tag <=> t = type
  BY Tags
<1>2. buf # <<>> /\ buf[1] = tag /\ Tail(buf) = b
  <2> HIDE DEF tag
  <2> QED BY <1>1, ConsProperties
<1> HIDE DEF buf, tag
<1>3. (CHOOSE t \in DOMAIN typemap : typemap[t] = buf[1]) = type
  BY <1>1, <1>2
<1> QED BY <1>1, <1>2, <1>3 DEF ReadValue, buf, tag

\* A set of values without floats, that has the arguments of its calls.
WithoutFloats(P) ==
    \A v \in P \cap Value :
        v.type \notin Floating
        /\ (v.type = "fncall" => \A i \in 1 .. v.args.size : GetAt(v.args, i - 1) \in P)

\* u is what should arrive of v.
Same(e, d, P, v, u) == u.type = v.type /\ (e = d \/ v \in P => u = v)

\* Value v, nested n deep, arrives before rest.
Arrives(e, d, P, n, v, rest) ==
    \E u \in Nested[n] : ReadValue(d, Reader(d), Writer(e)[v] \o rest) = Read(u, rest)
                         /\ Same(e, d, P, v, u)

WrittenEach(e, vs) == [i \in 1 .. Len(vs) |-> Writer(e)[vs[i]]]

\* So do several.
AllArrive(e, d, P, n, vs, rest) ==
    \E us \in Seq(Nested[n]) :
        /\ Reader(d)[FlattenSeq(WrittenEach(e, vs)) \o rest][Len(vs)] = Read(us, rest)
        /\ Len(us) = Len(vs) /\ \A i \in 1 .. Len(vs) : Same(e, d, P, vs[i], us[i])

LEMMA WrittenOfCons ==
    ASSUME NEW e \in Endian, NEW v \in Value, NEW vs \in Seq(Value)
    PROVE  /\ WrittenEach(e, vs) \in Seq(Seq(Byte)) /\ Len(WrittenEach(e, vs)) = Len(vs)
           /\ WrittenEach(e, <<v>> \o vs) = <<Writer(e)[v]>> \o WrittenEach(e, vs)
<1> DEFINE all == Seq(Byte)
           write == Writer(e)
           n == Len(vs)
<1>1. \A x \in Value : write[x] \in all
  BY Writers
<1> HIDE DEF all, write
<1>2. ASSUME NEW s \in Seq(Value)
      PROVE  /\ [i \in 1 .. Len(s) |-> write[s[i]]] \in Seq(all)
             /\ Len([i \in 1 .. Len(s) |-> write[s[i]]]) = Len(s)
             /\ \A i \in 1 .. Len(s) : [j \in 1 .. Len(s) |-> write[s[j]]][i] = write[s[i]]
  <2>1. Len(s) \in Nat /\ \A i \in 1 .. Len(s) : s[i] \in Value
    BY LenProperties
  <2>2. \A i \in 1 .. Len(s) : write[s[i]] \in all
    BY <1>1, <2>1
  <2> HIDE DEF all
  <2> QED BY <2>1, <2>2
<1> DEFINE w(s) == [i \in 1 .. Len(s) |-> write[s[i]]]
           both == <<v>> \o vs
<1>3. /\ both \in Seq(Value) /\ Len(both) = n + 1 /\ both[1] = v
      /\ \A i \in 1 .. n : both[i + 1] = vs[i]
      /\ n \in Nat
  BY ConsProperties, LenProperties
<1>4. /\ w(vs) \in Seq(all) /\ Len(w(vs)) = n /\ \A i \in 1 .. n : w(vs)[i] = write[vs[i]]
      /\ w(both) \in Seq(all) /\ Len(w(both)) = n + 1
      /\ \A i \in 1 .. n + 1 : w(both)[i] = write[both[i]]
  <2> HIDE DEF both
  <2> QED BY <1>2, <1>3
<1> HIDE DEF both, n, w
<1> DEFINE l == w(both)
           r == w(vs)
           c == <<write[v]>> \o r
<1>5. c \in Seq(all) /\ Len(c) = n + 1 /\ c[1] = write[v] /\ \A i \in 1 .. n : c[i + 1] = write[vs[i]]
  <2>1. write[v] \in all /\ r \in Seq(all) /\ Len(r) = n /\ \A i \in 1 .. n : r[i] = write[vs[i]]
    BY <1>1, <1>4
  <2> HIDE DEF r
  <2> QED BY <2>1, ConsProperties
<1>6. \A i \in 1 .. n + 1 : l[i] = c[i]
  <2> HIDE DEF c
  <2> TAKE i \in 1 .. n + 1
  <2>1. CASE i = 1
    BY <1>3, <1>4, <1>5, <2>1
  <2>2. CASE i # 1
    <3>1. i - 1 \in 1 .. n /\ (i - 1) + 1 = i
      BY <1>3, <2>2
    <3> DEFINE j == i - 1
    <3>2. j \in 1 .. n /\ j + 1 = i
      BY <3>1
    <3> HIDE DEF j
    <3>3. l[i] = write[both[i]]
      BY <1>4
    <3>4. both[i] = vs[j] /\ c[i] = write[vs[j]]
      BY <1>3, <1>5, <3>2
    <3> QED BY <3>3, <3>4
  <2> QED BY <2>1, <2>2
<1>7. l = c
  <2> HIDE DEF c
  <2> QED BY <1>4, <1>5, <1>6, SeqEqual
<1>8. /\ WrittenEach(e, vs) = w(vs) /\ WrittenEach(e, <<v>> \o vs) = w(both)
  BY DEF WrittenEach, write, both, w
<1> QED BY <1>4, <1>7, <1>8 DEF all, n, write

LEMMA FieldsArrive ==
    ASSUME NEW e \in Endian, NEW d \in Endian, NEW P, NEW n \in Nat, n <= MaxNesting,
           \A v \in Nested[n], rest \in Seq(Byte) : Arrives(e, d, P, n, v, rest)
    PROVE  \A vs \in Seq(Nested[n]), rest \in Seq(Byte) : AllArrive(e, d, P, n, vs, rest)
<1> DEFINE S == Nested[n]
           I == {vs \in Seq(S) : \A rest \in Seq(Byte) : AllArrive(e, d, P, n, vs, rest)}
           reader == Reader(d)
           all == Seq(Byte)
<1>0. /\ S \subseteq Value /\ Seq(S) \subseteq Seq(Value)
      /\ \A buf \in all : reader[buf] = ReadBody(d, reader, buf)
      /\ \A v \in Value : Writer(e)[v] \in all
  <2>1. S \subseteq Value
    BY NestedGrows, SerializationAssumption DEF Value
  <2> HIDE DEF S
  <2> QED BY <2>1, Readers, Writers, SeqMonotonic
<1> HIDE DEF reader, S
<1>1. <<>> \in I
  <2>1. ASSUME NEW rest \in all PROVE AllArrive(e, d, P, n, <<>>, rest)
    <3>1. WrittenEach(e, <<>>) = <<>>
      BY DEF WrittenEach
    <3>2. FlattenSeq(<<>>) \o rest = rest
      BY Flattened, ConcatEmptySeq
    <3>3. reader[rest][0] = Read(<<>>, rest)
      BY <1>0 DEF ReadBody
    <3>4. <<>> \in Seq(S) /\ Len(<<>>) = 0 /\ 1 .. 0 = {}
      OBVIOUS
    <3> QED BY <3>1, <3>2, <3>3, <3>4 DEF AllArrive, reader, S
  <2> QED BY <2>1
<1>2. ASSUME NEW vs \in Seq(S), NEW v \in S, vs \in I PROVE <<v>> \o vs \in I
  <2> DEFINE ws == FlattenSeq(WrittenEach(e, vs))
             w == Writer(e)[v]
             both == <<v>> \o vs
             k == Len(vs)
  <2>1. ws \in all /\ w \in all /\ FlattenSeq(WrittenEach(e, both)) = w \o ws
    <3>1. v \in Value /\ vs \in Seq(Value)
      BY <1>0
    <3>2. WrittenEach(e, vs) \in Seq(all) /\ WrittenEach(e, both) = <<w>> \o WrittenEach(e, vs) /\ w \in all
      BY <1>0, <3>1, WrittenOfCons
    <3> DEFINE ss == WrittenEach(e, vs)
    <3> HIDE DEF ss, w
    <3>3. FlattenSeq(ss) \in Seq(Byte) /\ FlattenSeq(<<w>> \o ss) = w \o FlattenSeq(ss)
      BY <3>2, Flattened, FlattenedCons DEF ss
    <3> QED BY <3>2, <3>3 DEF ss
  <2>2. /\ both \in Seq(S) /\ Len(both) = k + 1 /\ both[1] = v
        /\ \A i \in 1 .. k : both[i + 1] = vs[i]
        /\ k \in Nat
    BY ConsProperties, LenProperties
  <2>3. ASSUME NEW rest \in all PROVE AllArrive(e, d, P, n, both, rest)
    <3> DEFINE r1 == ws \o rest
               buf == w \o r1
    <3>1. r1 \in all /\ buf \in all /\ (w \o ws) \o rest = buf
      <4> HIDE DEF ws, w
      <4>1. r1 \in all
        BY <2>1, ConcatProperties
      <4>2. (w \o ws) \o rest = w \o r1
        BY SMTT(30), <2>1, ConcatAssociative
      <4> HIDE DEF r1
      <4> QED BY <2>1, <4>1, <4>2, ConcatProperties
    <3>2. PICK u \in S : ReadValue(d, reader, w \o r1) = Read(u, r1) /\ Same(e, d, P, v, u)
      <4>1. Arrives(e, d, P, n, v, r1)
        BY <3>1 DEF S
      <4> HIDE DEF w, r1
      <4> QED BY <4>1 DEF Arrives, reader, w, S
    <3>3. PICK us \in Seq(S) :
             /\ reader[r1][k] = Read(us, rest)
             /\ Len(us) = k /\ \A i \in 1 .. k : Same(e, d, P, vs[i], us[i])
      <4>1. AllArrive(e, d, P, n, vs, rest)
        BY <1>2
      <4> QED BY <4>1 DEF AllArrive, reader, S
    <3> HIDE DEF r1, w, ws, buf
    <3> DEFINE gs == <<u>> \o us
    <3>4. reader[buf][k + 1] = Read(gs, rest)
      <4>1. reader[buf][k + 1] = ReadBody(d, reader, buf)[k + 1]
        BY <1>0, <3>1
      <4>2. ReadValue(d, reader, buf) = Read(u, r1)
        BY <3>2 DEF buf
      <4> HIDE DEF k
      <4> QED BY <2>2, <3>3, <4>1, <4>2, BodyOfMore
    <3>5. /\ gs \in Seq(S) /\ Len(gs) = k + 1 /\ gs[1] = u
          /\ \A i \in 1 .. k : gs[i + 1] = us[i]
      BY <3>3, ConsProperties
    <3>6. \A i \in 1 .. k + 1 : Same(e, d, P, both[i], gs[i])
      <4> HIDE DEF gs, both, k
      <4> TAKE i \in 1 .. k + 1
      <4>1. CASE i = 1
        BY <2>2, <3>2, <3>5, <4>1
      <4>2. CASE i # 1
        <5> DEFINE j == i - 1
        <5>1. j \in 1 .. k /\ j + 1 = i
          BY <2>2, <4>2
        <5> HIDE DEF j
        <5> QED BY <2>2, <3>3, <3>5, <5>1
      <4> QED BY <4>1, <4>2
    <3>7. FlattenSeq(WrittenEach(e, both)) \o rest = buf
      BY <2>1, <3>1
    <3> HIDE DEF gs, both, k, buf
    <3> QED BY <2>2, <3>4, <3>5, <3>6, <3>7 DEF AllArrive, reader, S
  <2> QED BY <2>2, <2>3
<1>3. Seq(S) \subseteq I
  <2> HIDE DEF I
  <2> QED BY <1>1, <1>2, ConsInduction
<1> QED BY <1>3 DEF S

\* Tuples with the same fields are the same.
LEMMA SameTuple ==
    ASSUME NEW S, NEW t \in TuplesOf(S), NEW u \in TuplesOf(S), u.size = t.size,
           \A i \in 1 .. t.size : GetAt(u, i - 1) = GetAt(t, i - 1)
    PROVE  u = t
<1>1. Fields(u) = Fields(t)
  BY DEF Fields
<1>2. u = LindaTuple(Fields(u)) /\ t = LindaTuple(Fields(t))
  BY Tuples
<1> QED BY <1>1, <1>2

SameFields(e, d, P, t, u) ==
    u.size = t.size /\ \A i \in 1 .. t.size : Same(e, d, P, GetAt(t, i - 1), GetAt(u, i - 1))

LEMMA TupleArrives ==
    ASSUME NEW e \in Endian, NEW d \in Endian, NEW P, NEW n \in Nat, n <= MaxNesting,
           \A v \in Nested[n], rest \in Seq(Byte) : Arrives(e, d, P, n, v, rest),
           NEW t \in TuplesOf(Nested[n]), NEW rest \in Seq(Byte)
    PROVE  \E u \in TuplesOf(Nested[n]) :
              /\ ReadTupleBy(d, Reader(d), WriteFields(e, Each(Writer(e), t)) \o rest) = Read(u, rest)
              /\ SameFields(e, d, P, t, u)
<1> DEFINE S == Nested[n]
           vs == Fields(t)
           ws == WrittenEach(e, vs)
           flat == FlattenSeq(ws)
           reader == Reader(d)
           w == SizeOf.size
           k == t.size
           b == WriteInt(e, k, w)
<1>1. /\ vs \in Sequence(S) /\ vs \in Seq(S) /\ Len(vs) = k /\ k \in Number(w) /\ k \in Nat
      /\ \A i \in 1 .. k : GetAt(t, i - 1) = vs[i]
  BY Tuples, LenProperties DEF Sequence
<1>2. ws \in Seq(Seq(Byte)) /\ Len(ws) = k /\ Each(Writer(e), t) = ws
  <2>1. S \subseteq Value /\ Unset \in S
    BY NestedGrows, SerializationAssumption DEF Value
  <2>2. vs \in Seq(Value) /\ Unset \in Value
    BY <1>1, <2>1, SeqMonotonic
  <2>3. ws \in Seq(Seq(Byte)) /\ Len(ws) = Len(vs)
    BY <2>2, WrittenOfCons
  <2>4. Each(Writer(e), t) = ws
    BY <1>1 DEF Each, WrittenEach
  <2> QED BY <1>1, <2>3, <2>4
<1> HIDE DEF ws
<1>3. flat \in Seq(Byte)
  BY <1>2, Flattened
<1>4. PICK us \in Seq(S) :
         /\ reader[flat \o rest][k] = Read(us, rest)
         /\ Len(us) = k /\ \A i \in 1 .. k : Same(e, d, P, vs[i], us[i])
  <2>1. AllArrive(e, d, P, n, vs, rest)
    BY <1>1, FieldsArrive
  <2> QED BY <1>1, <2>1 DEF AllArrive, ws
<1> HIDE DEF reader, flat, vs
<1>5. /\ b \in Seq(Byte)
      /\ ReadUnsigned(d, w, b \o (flat \o rest)) = Read(k, flat \o rest)
  <2> DEFINE left == flat \o rest
  <2>1. w \in Nat \ {0} /\ left \in Seq(Byte)
    BY <1>3, Sizes, ConcatProperties
  <2> HIDE DEF w, k, left
  <2>2. b \in Seq(Byte) /\ ReadUnsigned(d, w, b \o left) = Read(k, left)
    BY <1>1, <2>1, NumbersReadBack
  <2> QED BY <2>2 DEF left
<1>6. WriteFields(e, Each(Writer(e), t)) \o rest = b \o (flat \o rest)
  <2>1. WriteFields(e, Each(Writer(e), t)) = b \o flat
    BY <1>2 DEF WriteFields, flat
  <2> HIDE DEF b
  <2> QED BY SMTT(30), <1>3, <1>5, <2>1, ConcatAssociative
<1> DEFINE u == LindaTuple(us)
           buf == b \o (flat \o rest)
<1>7. ReadTupleBy(d, reader, buf) = Read(u, rest)
  <2>1. ReadTupleBy(d, reader, buf) =
           Then(ReadUnsigned(d, w, buf), LAMBDA length :
              As(reader[length.rest][length.value], LAMBDA x : LindaTuple(x)))
    BY DEF ReadTupleBy
  <2> HIDE DEF buf, w, k
  <2>2. ReadUnsigned(d, w, buf) = Read(k, flat \o rest)
    BY <1>5 DEF buf
  <2>3. ReadTupleBy(d, reader, buf) = As(reader[flat \o rest][k], LAMBDA x : LindaTuple(x))
    BY <2>1, <2>2 DEF Then, Read
  <2> QED BY <1>4, <2>3 DEF As, Then, Read
<1>8. u \in TuplesOf(S) /\ u.size = k /\ \A i \in 1 .. k : GetAt(u, i - 1) = us[i]
  <2>1. us \in Sequence(S) /\ Unset \in S
    BY <1>1, <1>4, NestedGrows DEF Sequence
  <2> QED BY <1>4, <2>1, Tuples, FieldsOfTuple
<1>9. SameFields(e, d, P, t, u)
  BY <1>1, <1>4, <1>8 DEF SameFields
<1> QED BY <1>6, <1>7, <1>8, <1>9 DEF reader

LEMMA ValueArrives ==
    ASSUME NEW e \in Endian, NEW d \in Endian, NEW P, WithoutFloats(P), NEW n \in Nat, n <= MaxNesting,
           n > 0 => \A v \in Nested[n - 1], rest \in Seq(Byte) : Arrives(e, d, P, n - 1, v, rest),
           NEW v \in Nested[n], NEW rest \in Seq(Byte)
    PROVE  Arrives(e, d, P, n, v, rest)
<1> DEFINE reader == Reader(d)
           by == WriteBy(e, Writer(e), v)
           b == by \o rest
           typed == ReadTyped(d, reader, v.type, b)
<1>1. /\ v.type \in DOMAIN typemap /\ v \in Value /\ by \in Seq(Byte)
      /\ Writer(e)[v] = <<typemap[v.type]>> \o by
  <2>1. v \in Value
    BY NestedGrows, SerializationAssumption DEF Value
  <2>2. \A x \in Value : Writer(e)[x] \in Seq(Byte)
    BY Writers
  <2>3. v.type = "fncall" => \A i \in 1 .. v.args.size : Writer(e)[GetAt(v.args, i - 1)] \in Seq(Byte)
    BY <2>1, <2>2, Depths
  <2>4. by \in Seq(Byte)
    BY <2>1, <2>3, WrittenType
  <2>5. v.type \in DOMAIN typemap
    BY Tags
  <2> QED BY <2>1, <2>4, <2>5, Writers
<1>2. ReadValue(d, reader, Writer(e)[v] \o rest) = typed
  <2> DEFINE tag == typemap[v.type]
  <2>1. tag \in Byte /\ <<tag>> \in Seq(Byte)
    BY <1>1, Tags
  <2> HIDE DEF tag, by
  <2>2. (<<tag>> \o by) \o rest = <<tag>> \o b /\ b \in Seq(Byte)
    BY <1>1, <2>1, ConcatAssociative, ConcatProperties
  <2> HIDE DEF b
  <2> QED BY <1>1, <2>2, TagRead DEF tag
<1>3. SUFFICES \E u \in Nested[n] : typed = Read(u, rest) /\ Same(e, d, P, v, u)
  BY <1>2 DEF Arrives, reader
<1>4. CASE v.type \in Signed
  <2> DEFINE w == SizeOf[v.type]
             r == ReadSigned(d, w, b)
  <2>1. w \in Nat \ {0} /\ v.int \in SignedNumber(w) /\ v = [type |-> v.type, int |-> v.int]
    BY <1>4, Sizes, Kinds DEF Signed, Integral, Floating
  <2>2. by = WriteInt(e, v.int, w)
    BY <1>4, WrittenBy DEF Signed, Integral
  <2> HIDE DEF w
  <2>3. r = Read(v.int, rest)
    BY <2>1, <2>2, NumbersReadBack
  <2>4. typed = IF r.ok THEN Read([type |-> v.type, int |-> r.value], r.rest) ELSE r
    BY <1>4 DEF ReadTyped, As, Then, Signed, Integral, Floating, w
  <2> HIDE DEF r, typed
  <2>5. typed = Read(v, rest)
    BY <2>1, <2>3, <2>4 DEF Read
  <2> QED BY <2>5 DEF Same
<1>5. CASE v.type \in Integral \ Signed
  <2> DEFINE w == SizeOf[v.type]
             r == ReadUnsigned(d, w, b)
  <2>1. w \in Nat \ {0} /\ v.int \in Number(w) /\ v = [type |-> v.type, int |-> v.int]
    BY <1>5, Sizes, Kinds DEF Signed, Integral, Floating
  <2>2. by = WriteInt(e, v.int, w)
    BY <1>5, WrittenBy DEF Signed, Integral
  <2> HIDE DEF w
  <2>3. r = Read(v.int, rest)
    BY <2>1, <2>2, NumbersReadBack
  <2>4. typed = IF r.ok THEN Read([type |-> v.type, int |-> r.value], r.rest) ELSE r
    BY <1>5 DEF ReadTyped, As, Then, Signed, Integral, Floating, w
  <2> HIDE DEF r, typed
  <2>5. typed = Read(v, rest)
    BY <2>1, <2>3, <2>4 DEF Read
  <2> QED BY <2>5 DEF Same
<1>6. CASE v.type \in Floating
  <2> DEFINE w == SizeOf[v.type]
             r == ReadBits(d, w, b)
  <2>1. w \in Nat \ {0} /\ v.bits \in Number(w) /\ v = [type |-> v.type, bits |-> v.bits]
    BY <1>6, Sizes, Kinds DEF Signed, Integral, Floating
  <2>2. by = InMemory(e, v.bits, w)
    BY <1>6, WrittenBy DEF Floating
  <2>3. typed = IF r.ok THEN Read([type |-> v.type, bits |-> r.value], r.rest) ELSE r
    BY <1>6 DEF ReadTyped, As, Then, Signed, Integral, Floating
  <2>4. \A i \in Number(w) : [type |-> v.type, bits |-> i] \in Nested[n]
    BY <1>6, OfKinds
  <2> HIDE DEF w
  <2>5. \E i \in Number(w) : r = Read(i, rest) /\ (e = d => i = v.bits)
    BY <2>1, <2>2, NumbersReadBack
  <2> HIDE DEF r, typed
  <2>6. PICK i \in Number(w) : r = Read(i, rest) /\ (e = d => i = v.bits)
    BY <2>5
  <2> DEFINE u == [type |-> v.type, bits |-> i]
  <2>7. typed = Read(u, rest)
    BY <2>3, <2>6 DEF Read
  <2>8. u \in Nested[n] /\ u.type = v.type /\ (e = d => u = v)
    BY <2>1, <2>4, <2>6
  <2>9. v \notin P
    BY <1>1, <1>6 DEF WithoutFloats
  <2> HIDE DEF u
  <2> QED BY <2>7, <2>8, <2>9 DEF Same
<1>7. CASE v.type = "string"
  <2> DEFINE r == ReadString(d, b)
  <2>1. v.str \in Sequence(Byte) /\ v = [type |-> v.type, str |-> v.str]
    BY <1>7, Kinds DEF Signed, Integral, Floating
  <2>2. by = WriteString(e, v.str)
    BY <1>7, WrittenBy
  <2>3. r = Read(v.str, rest)
    BY <2>1, <2>2, StringsReadBack
  <2>4. typed = IF r.ok THEN Read([type |-> v.type, str |-> r.value], r.rest) ELSE r
    BY <1>7 DEF ReadTyped, As, Then, Signed, Integral, Floating
  <2> HIDE DEF r, typed
  <2>5. typed = Read(v, rest)
    BY <2>1, <2>3, <2>4 DEF Read
  <2> QED BY <2>5 DEF Same
<1>8. CASE v.type = "fncall"
  <2> DEFINE wf == WriteFields(e, Each(Writer(e), v.args))
             wn == WriteString(e, v.name)
             t == ReadTupleBy(d, reader, b)
             m == n - 1
  <2>1. /\ v.name \in Sequence(Byte) /\ n > 0 /\ v.args \in TuplesOf(Nested[m])
        /\ v = [type |-> v.type, name |-> v.name, args |-> v.args]
        /\ m \in Nat /\ m <= MaxNesting /\ m + 1 = n
    <3>1. /\ v.name \in Sequence(Byte) /\ n > 0 /\ v.args \in TuplesOf(Nested[m])
          /\ v = [type |-> v.type, name |-> v.name, args |-> v.args]
      BY <1>8, Kinds DEF Signed, Integral, Floating
    <3>2. m \in Nat /\ m <= MaxNesting /\ m + 1 = n
      BY <3>1, SerializationAssumption
    <3> QED BY <3>1, <3>2
  <2>2. by = wf \o wn
    BY <1>8, WrittenBy
  <2>3. /\ wn \in Seq(Byte)
        /\ \A e1 \in Endian, s \in Seq(Byte) : ReadString(e1, wn \o s) = Read(v.name, s)
        /\ wf \in Seq(Byte)
    <3>1. v.args \in TuplesOf(Value)
      BY <1>1, <1>8, Depths
    <3> QED BY <2>1, <3>1, StringsReadBack, SizeOfWritten
  <2>4. \A x \in Nested[m], s \in Seq(Byte) : Arrives(e, d, P, m, x, s)
    BY <2>1
  <2> HIDE DEF m
  <2>5. PICK u \in TuplesOf(Nested[m]) :
           ReadTupleBy(d, reader, wf \o (wn \o rest)) = Read(u, wn \o rest)
           /\ SameFields(e, d, P, v.args, u)
    <3> DEFINE s == wn \o rest
    <3>1. s \in Seq(Byte)
      BY <2>3, ConcatProperties
    <3> HIDE DEF s
    <3> QED BY <2>1, <2>4, <3>1, TupleArrives DEF s
  <2>6. b = wf \o (wn \o rest)
    <3> HIDE DEF wf, wn
    <3> QED BY <2>2, <2>3, ConcatAssociative
  <2> DEFINE name == ReadString(d, t.rest)
             call == [type |-> v.type, name |-> name.value, args |-> t.value]
             got == [type |-> v.type, name |-> v.name, args |-> u]
  <2>7. typed = IF t.ok THEN (IF name.ok THEN Read(call, name.rest) ELSE name) ELSE t
    BY <1>8 DEF ReadTyped, As, Then, Signed, Integral, Floating
  <2>8. t = Read(u, wn \o rest)
    BY <2>5, <2>6
  <2> HIDE DEF t, wn, typed
  <2>9. t.ok /\ t.value = u /\ name = Read(v.name, rest)
    BY <2>3, <2>8 DEF Read
  <2> HIDE DEF name
  <2>10. typed = Read(got, rest)
    BY <2>7, <2>9 DEF Read
  <2>11. got \in Nested[n] /\ got.type = v.type
    BY <1>8, <2>1, OfKinds
  <2>12. e = d \/ v \in P => u = v.args
    <3>1. SUFFICES ASSUME e = d \/ v \in P PROVE u = v.args
      OBVIOUS
    <3>2. u.size = v.args.size
          /\ \A i \in 1 .. v.args.size : GetAt(u, i - 1) = GetAt(v.args, i - 1)
      <4>1. e = d \/ \A i \in 1 .. v.args.size : GetAt(v.args, i - 1) \in P
        BY <1>1, <1>8, <3>1 DEF WithoutFloats
      <4> QED BY <2>5, <4>1 DEF SameFields, Same
    <3> QED BY <2>1, <3>2, SameTuple
  <2>13. u = v.args => got = v
    BY <2>1
  <2> HIDE DEF got
  <2> QED BY <2>10, <2>11, <2>12, <2>13 DEF Same
<1>9. CASE v.type = "calltag"
  <2>1. v = [type |-> v.type]
    BY <1>9, Kinds DEF Signed, Integral, Floating
  <2>2. by = <<>>
    BY <1>9, WrittenBy
  <2>3. b = rest
    BY <2>2, ConcatEmptySeq
  <2>4. typed = Read([type |-> v.type], rest)
    BY <1>9, <2>3 DEF ReadTyped, Signed, Integral, Floating
  <2> QED BY <2>1, <2>4 DEF Same
<1> QED BY <1>1, <1>4, <1>5, <1>6, <1>7, <1>8, <1>9, Tags

LEMMA ValuesArrive ==
    ASSUME NEW e \in Endian, NEW d \in Endian, NEW P, WithoutFloats(P)
    PROVE  \A v \in Value, rest \in Seq(Byte) : Arrives(e, d, P, MaxNesting, v, rest)
<1> DEFINE I == {n \in Nat : n <= MaxNesting =>
                    \A v \in Nested[n], rest \in Seq(Byte) : Arrives(e, d, P, n, v, rest)}
<1>0. MaxNesting \in Nat
  BY SerializationAssumption
<1>1. 0 \in I
  <2>1. 0 \in Nat /\ ~(0 > 0) /\ 0 <= MaxNesting
    BY <1>0
  <2>2. \A v \in Nested[0], rest \in Seq(Byte) : Arrives(e, d, P, 0, v, rest)
    BY <2>1, ValueArrives
  <2> QED BY <2>1, <2>2
<1>2. ASSUME NEW n \in Nat, n \in I PROVE n + 1 \in I
  <2> DEFINE m == n + 1
  <2>1. m \in Nat /\ m - 1 = n /\ (m <= MaxNesting => n <= MaxNesting)
    BY <1>0
  <2>2. ASSUME m <= MaxNesting, NEW v \in Nested[m], NEW rest \in Seq(Byte)
        PROVE  Arrives(e, d, P, m, v, rest)
    <3>1. \A x \in Nested[m - 1], r \in Seq(Byte) : Arrives(e, d, P, m - 1, x, r)
      BY <1>2, <2>1, <2>2
    <3> HIDE DEF m
    <3> QED BY <2>1, <2>2, <3>1, ValueArrives
  <2> QED BY <2>1, <2>2
<1>3. Nat \subseteq I
  <2> HIDE DEF I
  <2> QED BY <1>1, <1>2, SetInduction
<1>4. MaxNesting \in I /\ MaxNesting <= MaxNesting
  BY <1>0, <1>3
<1> QED BY <1>4 DEF Value

\* A tuple that was sent is received, with nothing left of the buffer.
LEMMA TupleReceived ==
    ASSUME NEW e \in Endian, NEW d \in Endian, NEW P, WithoutFloats(P), NEW t \in TuplesOf(Value)
    PROVE  \E u \in TuplesOf(Value) :
              Deserialize(d, Buffer(Serialize(e, t))) = Read(u, <<>>) /\ SameFields(e, d, P, t, u)
<1> DEFINE s == Serialize(e, t)
           w == WriteFields(e, Each(Writer(e), t))
<1>1. s.written = <<1>> \o w /\ w \in Seq(Byte) /\ s.written \in Seq(Byte) /\ Len(s.written) = s.size
  BY SizeOfWritten DEF Serialize
<1>2. Buffer(s) = s.written
  <2> DEFINE c == s.written
  <2>1. c \in Seq(Byte) /\ Len(c) = s.size /\ Len(c) \in Nat
    BY <1>1, LenProperties
  <2>2. c = [i \in 1 .. s.size |-> c[i]]
    <3> HIDE DEF c
    <3> QED BY <2>1
  <2>3. Buffer(s) = [i \in 1 .. s.size |-> IF i <= Len(c) THEN c[i] ELSE 0]
    BY DEF Buffer
  <2> HIDE DEF c, s
  <2>4. \A i \in 1 .. s.size : i <= Len(c)
    BY <2>1
  <2>5. [i \in 1 .. s.size |-> IF i <= Len(c) THEN c[i] ELSE 0] = [i \in 1 .. s.size |-> c[i]]
    BY <2>4
  <2> QED BY <2>2, <2>3, <2>5 DEF c
<1> HIDE DEF s, w
<1>3. Tail(Buffer(s)) = w \o <<>>
  <2>1. 1 \in Byte
    BY RadixIsLarge DEF Byte
  <2> QED BY <1>1, <1>2, <2>1, ConsProperties, ConcatEmptySeq
<1>4. Deserialize(d, Buffer(s)) = ReadTupleBy(d, Reader(d), w \o <<>>)
  BY <1>3 DEF Deserialize
<1>5. MaxNesting \in Nat /\ MaxNesting <= MaxNesting /\ Value = Nested[MaxNesting] /\ <<>> \in Seq(Byte)
  BY SerializationAssumption DEF Value
<1>6. \A v \in Nested[MaxNesting], rest \in Seq(Byte) : Arrives(e, d, P, MaxNesting, v, rest)
  BY <1>5, ValuesArrive
<1>7. \E u \in TuplesOf(Nested[MaxNesting]) :
              /\ ReadTupleBy(d, Reader(d), w \o <<>>) = Read(u, <<>>)
              /\ SameFields(e, d, P, t, u)
  BY <1>5, <1>6, TupleArrives DEF w
<1> QED BY <1>4, <1>5, <1>7 DEF s
=============================================================================
