--------------------------- MODULE SequenceLemmas ---------------------------
(* What taking elements out of a sequence leaves of it, and what follows from *)
(* the order of the natural numbers: induction, and functions by recursion.    *)
EXTENDS Integers, Sequences, SequencesExt, SequenceTheorems, WellFoundedInduction, TLAPS

-----------------------------------------------------------------------------
(* Natural numbers.                                                        *)

\* A set of natural numbers that is not empty has a least one.
LEMMA LeastNatural ==
    ASSUME NEW I, I \subseteq Nat, I # {}
    PROVE  \E x \in I : \A y \in I : x <= y
<1> DEFINE R == {ss \in Nat \X Nat : ss[1] < ss[2]}
<1>1. IsWellFoundedOn(R, Nat)
  BY NatLessThanWellFounded DEF OpToRel
<1> HIDE DEF R
<1>2. PICK x \in I : \A y \in I : ~(<<y, x>> \in R)
  BY <1>1, WFMin
<1>3. ASSUME NEW y \in I PROVE x <= y
  <2>1. y < x => <<y, x>> \in R
    BY DEF R
  <2> QED BY <1>2, <2>1
<1> QED BY <1>3

\* One with a bound has a greatest one.
LEMMA GreatestNatural ==
    ASSUME NEW I, I \subseteq Nat, I # {}, NEW b \in Nat, \A i \in I : i <= b
    PROVE  \E x \in I : \A y \in I : y <= x
<1> DEFINE J == {b - i : i \in I}
<1>1. J \subseteq Nat /\ J # {}
  <2>1. \A i \in I : b - i \in Nat
    OBVIOUS
  <2> QED BY <2>1
<1>2. PICK j \in J : \A k \in J : j <= k
  <2> HIDE DEF J
  <2> QED BY <1>1, LeastNatural
<1>3. PICK x \in I : j = b - x
  OBVIOUS
<1>4. \A y \in I : b - x <= b - y
  BY <1>2, <1>3
<1> QED BY <1>4

\* Induction, for a set instead of a predicate.
LEMMA SetInduction ==
    ASSUME NEW I, 0 \in I, \A n \in Nat : n \in I => n + 1 \in I
    PROVE  Nat \subseteq I
<1>1. SUFFICES ASSUME Nat \ I # {} PROVE FALSE
  OBVIOUS
<1>2. PICK x \in Nat \ I : \A y \in Nat \ I : x <= y
  BY <1>1, LeastNatural
<1>3. x # 0 /\ x - 1 \in Nat /\ ~(x <= x - 1)
  BY <1>2
<1>4. x - 1 \in I
  BY <1>2, <1>3
<1> QED BY <1>2, <1>3, <1>4

\* The functions f whose value at x is what phi[x] makes of f.
Recursive(D, F, phi) == {f \in F : \A x \in D : f[x] = phi[x][f]}

\* What phi[x] makes of a function depends on its values where the measure is
\* smaller.
LooksBack(D, measure, F, phi) ==
    \A f, g \in F : \A x \in D :
       (\A y \in D : measure[y] < measure[x] => f[y] = g[y]) => phi[x][f] = phi[x][g]

\* F is a set of functions on D with what phi makes of them, and with every
\* function that is put together of some of them, by the measure.
ClosedUnder(D, measure, F, phi) ==
    /\ \A f \in F : \E h \in F : \A x \in D : h[x] = phi[x][f]
    /\ \A c \in [Nat -> F] : \E h \in F : \A x \in D : h[x] = c[measure[x] + 1][x]

LEMMA Recursion ==
    ASSUME NEW D, NEW measure \in [D -> Nat], NEW F, NEW phi, NEW start \in F,
           LooksBack(D, measure, F, phi), ClosedUnder(D, measure, F, phi)
    PROVE  Recursive(D, F, phi) # {}
<1> USE DEF LooksBack, ClosedUnder
<1> DEFINE G(n) == {f \in F : \A x \in D : measure[x] < n => f[x] = phi[x][f]}
           I == {n \in Nat : G(n) # {}}
<1>1. 0 \in I
  BY start \in G(0)
<1>2. ASSUME NEW n \in Nat, n \in I PROVE n + 1 \in I
  <2>1. PICK f \in F : \A x \in D : measure[x] < n => f[x] = phi[x][f]
    BY <1>2
  <2>2. PICK h \in F : \A x \in D : h[x] = phi[x][f]
    BY <2>1
  <2>3. ASSUME NEW x \in D, measure[x] < n + 1 PROVE h[x] = phi[x][h]
    <3>1. \A y \in D : measure[y] < measure[x] => f[y] = h[y]
      BY <2>1, <2>2, <2>3
    <3>2. phi[x][f] = phi[x][h]
      BY <2>1, <2>2, <3>1
    <3> QED BY <2>2, <3>2
  <2>4. h \in G(n + 1)
    BY <2>2, <2>3
  <2> QED BY <2>4
<1>3. \A n \in Nat : G(n) # {}
  <2> HIDE DEF I
  <2>1. Nat \subseteq I
    BY <1>1, <1>2, SetInduction
  <2> QED BY <2>1 DEF I
<1>4. ASSUME NEW n \in Nat, NEW m \in Nat, NEW f \in G(n), NEW g \in G(m), n <= m,
             NEW x \in D, measure[x] < n
      PROVE  f[x] = g[x]
  <2> DEFINE K == {l \in Nat : \A y \in D : measure[y] < l /\ l <= n => f[y] = g[y]}
  <2>1. 0 \in K
    OBVIOUS
  <2>2. ASSUME NEW l \in Nat, l \in K PROVE l + 1 \in K
    <3>1. SUFFICES ASSUME NEW y \in D, measure[y] < l + 1, l + 1 <= n PROVE f[y] = g[y]
      OBVIOUS
    <3>2. \A z \in D : measure[z] < measure[y] => f[z] = g[z]
      BY <2>2, <3>1
    <3>3. f \in F /\ g \in F /\ measure[y] < n /\ measure[y] < m
      BY <1>4, <3>1
    <3> QED BY <3>2, <3>3
  <2> HIDE DEF K
  <2>3. n \in K
    BY <2>1, <2>2, SetInduction
  <2> QED BY <1>4, <2>3 DEF K
<1> DEFINE c == [n \in Nat |-> CHOOSE f : f \in G(n)]
<1>5. \A n \in Nat : c[n] \in G(n)
  <2> HIDE DEF G
  <2> QED BY <1>3
<1>6. c \in [Nat -> F]
  <2>1. \A n \in Nat : c[n] \in F
    BY <1>5
  <2>2. c = [n \in Nat |-> c[n]]
    OBVIOUS
  <2> HIDE DEF c
  <2> QED BY <2>1, <2>2
<1> HIDE DEF c, G
<1>7. PICK h \in F : \A x \in D : h[x] = c[measure[x] + 1][x]
  BY <1>6
<1>8. ASSUME NEW x \in D PROVE h[x] = phi[x][h]
  <2> DEFINE n == measure[x] + 1
  <2>1. n \in Nat /\ c[n] \in G(n) /\ measure[x] < n
    BY <1>5
  <2>2. c[n][x] = phi[x][c[n]] /\ c[n] \in F
    BY <2>1 DEF G
  <2>3. ASSUME NEW y \in D, measure[y] < measure[x] PROVE c[n][y] = h[y]
    <3>1. /\ measure[y] + 1 \in Nat /\ measure[y] + 1 <= n /\ measure[y] < measure[y] + 1
          /\ c[measure[y] + 1] \in G(measure[y] + 1)
      BY <1>5, <2>3
    <3>2. c[measure[y] + 1][y] = c[n][y]
      <4> HIDE DEF n
      <4> QED BY <1>4, <2>1, <3>1
    <3> QED BY <1>7, <3>2
  <2>4. phi[x][c[n]] = phi[x][h]
    <3> HIDE DEF n
    <3> QED BY ZenonT(30), <1>7, <2>2, <2>3
  <2> QED BY <1>7, <2>2, <2>4
<1> QED BY <1>7, <1>8 DEF Recursive

\* The same for functions into a set.
LEMMA RecursionInto ==
    ASSUME NEW D, NEW measure \in [D -> Nat], NEW R, NEW r \in R,
           NEW phi \in [D -> [[D -> R] -> R]], LooksBack(D, measure, [D -> R], phi)
    PROVE  Recursive(D, [D -> R], phi) # {}
<1> DEFINE F == [D -> R]
           start == [x \in D |-> r]
<1>1. start \in F
  OBVIOUS
<1>2. ASSUME NEW f \in F PROVE \E h \in F : \A x \in D : h[x] = phi[x][f]
  <2>1. \A x \in D : phi[x][f] \in R
    OBVIOUS
  <2> DEFINE h == [x \in D |-> phi[x][f]]
  <2> QED BY <2>1, h \in F
<1>3. ASSUME NEW c \in [Nat -> F]
      PROVE  \E h \in F : \A x \in D : h[x] = c[measure[x] + 1][x]
  <2>1. \A x \in D : c[measure[x] + 1][x] \in R
    <3> TAKE x \in D
    <3>1. c[measure[x] + 1] \in F
      OBVIOUS
    <3> QED BY <3>1
  <2> DEFINE h == [x \in D |-> c[measure[x] + 1][x]]
  <2> QED BY <2>1, h \in F
<1> HIDE DEF F, start
<1>4. ClosedUnder(D, measure, F, phi)
  BY <1>2, <1>3 DEF ClosedUnder
<1>5. Recursive(D, F, phi) # {}
  <2>1. LooksBack(D, measure, F, phi)
    BY DEF F
  <2> QED BY <1>1, <1>4, <2>1, Recursion
<1> QED BY <1>5 DEF F

\* A function can be applied over and over.
Iterations(A, F, x) == {f \in [Nat -> A] : f[0] = x /\ \A n \in Nat : f[n + 1] = F[f[n]]}

LEMMA Iterates ==
    ASSUME NEW A, NEW F \in [A -> A], NEW x \in A
    PROVE  Iterations(A, F, x) # {}
<1> DEFINE measure == [n \in Nat |-> n]
           phi == [n \in Nat |-> [f \in [Nat -> A] |-> IF n = 0 THEN x ELSE F[f[n - 1]]]]
<1>1. measure \in [Nat -> Nat]
  OBVIOUS
<1>2. phi \in [Nat -> [[Nat -> A] -> A]]
  <2>1. ASSUME NEW n \in Nat, NEW f \in [Nat -> A]
        PROVE  (IF n = 0 THEN x ELSE F[f[n - 1]]) \in A
    <3>1. n # 0 => n - 1 \in Nat
      OBVIOUS
    <3> QED BY <3>1
  <2> QED BY <2>1
<1>3. LooksBack(Nat, measure, [Nat -> A], phi)
  <2> SUFFICES ASSUME NEW f \in [Nat -> A], NEW g \in [Nat -> A], NEW n \in Nat,
                      \A m \in Nat : measure[m] < measure[n] => f[m] = g[m]
               PROVE  phi[n][f] = phi[n][g]
    BY DEF LooksBack
  <2>1. n # 0 => n - 1 \in Nat /\ f[n - 1] = g[n - 1]
    OBVIOUS
  <2> QED BY <2>1
<1>4. Recursive(Nat, [Nat -> A], phi) # {}
  <2> HIDE DEF measure, phi
  <2> QED BY <1>1, <1>2, <1>3, RecursionInto
<1>5. PICK f \in [Nat -> A] : \A n \in Nat : f[n] = phi[n][f]
  <2> HIDE DEF phi
  <2> QED BY <1>4 DEF Recursive
<1>6. f[0] = x
  BY <1>5
<1>7. ASSUME NEW n \in Nat PROVE f[n + 1] = F[f[n]]
  <2>1. n + 1 \in Nat /\ n + 1 # 0 /\ (n + 1) - 1 = n
    OBVIOUS
  <2>2. f[n + 1] = phi[n + 1][f]
    BY <1>5, <2>1
  <2> QED BY <2>1, <2>2
<1> QED BY <1>6, <1>7 DEF Iterations

\* A function on 0 .. n that is made step by step.
Stepwise(n, A, start, step) ==
    {f \in [0 .. n -> A] : f[0] = start /\ \A i \in 1 .. n : f[i] = step[i][f[i - 1]]}

LEMMA Steps ==
    ASSUME NEW n \in Nat, NEW A, NEW start \in A, NEW step \in [1 .. n -> [A -> A]]
    PROVE  Stepwise(n, A, start, step) # {}
<1> DEFINE D == 0 .. n
           measure == [i \in D |-> i]
           phi == [i \in D |-> [f \in [D -> A] |-> IF i = 0 THEN start ELSE step[i][f[i - 1]]]]
<1>1. measure \in [D -> Nat]
  OBVIOUS
<1>2. phi \in [D -> [[D -> A] -> A]]
  <2>1. ASSUME NEW i \in D, NEW f \in [D -> A]
        PROVE  (IF i = 0 THEN start ELSE step[i][f[i - 1]]) \in A
    <3>1. i # 0 => i \in 1 .. n /\ i - 1 \in D
      OBVIOUS
    <3> QED BY <3>1
  <2> QED BY <2>1
<1>3. LooksBack(D, measure, [D -> A], phi)
  <2> SUFFICES ASSUME NEW f \in [D -> A], NEW g \in [D -> A], NEW i \in D,
                      \A m \in D : measure[m] < measure[i] => f[m] = g[m]
               PROVE  phi[i][f] = phi[i][g]
    BY DEF LooksBack
  <2>1. i # 0 => i - 1 \in D /\ f[i - 1] = g[i - 1]
    OBVIOUS
  <2> QED BY <2>1
<1>4. Recursive(D, [D -> A], phi) # {}
  <2> HIDE DEF D, measure, phi
  <2> QED BY <1>1, <1>2, <1>3, RecursionInto
<1>5. PICK f \in [D -> A] : \A i \in D : f[i] = phi[i][f]
  <2> HIDE DEF phi
  <2> QED BY <1>4 DEF Recursive
<1>6. f[0] = start
  BY <1>5
<1>7. ASSUME NEW i \in 1 .. n PROVE f[i] = step[i][f[i - 1]]
  <2>1. i \in D /\ i # 0
    OBVIOUS
  <2> QED BY <1>5, <2>1
<1> QED BY <1>6, <1>7 DEF Stepwise

\* There is only one.
LEMMA SameSteps ==
    ASSUME NEW n \in Nat, NEW f, NEW g, DOMAIN f = 0 .. n, DOMAIN g = 0 .. n,
           f = [i \in 0 .. n |-> f[i]], g = [i \in 0 .. n |-> g[i]], f[0] = g[0],
           \A i \in 1 .. n : f[i - 1] = g[i - 1] => f[i] = g[i]
    PROVE  f = g
<1> DEFINE I == {i \in Nat : i <= n => f[i] = g[i]}
<1>1. 0 \in I
  OBVIOUS
<1>2. ASSUME NEW i \in Nat, i \in I PROVE i + 1 \in I
  <2>1. SUFFICES ASSUME i + 1 <= n PROVE f[i + 1] = g[i + 1]
    OBVIOUS
  <2>2. i + 1 \in 1 .. n /\ (i + 1) - 1 = i /\ f[i] = g[i]
    BY <1>2, <2>1
  <2> QED BY <2>2
<1>3. \A i \in 0 .. n : f[i] = g[i]
  <2> HIDE DEF I
  <2>1. Nat \subseteq I
    BY <1>1, <1>2, SetInduction
  <2> QED BY <2>1 DEF I
<1> QED BY <1>3

\* Two that start alike and go on alike are the same at n.
LEMMA SameAtEnd ==
    ASSUME NEW n \in Nat, NEW f, NEW g, f[0] = g[0],
           \A i \in 1 .. n : f[i - 1] = g[i - 1] => f[i] = g[i]
    PROVE  f[n] = g[n]
<1> DEFINE I == {i \in Nat : i <= n => f[i] = g[i]}
<1>1. 0 \in I
  OBVIOUS
<1>2. ASSUME NEW i \in Nat, i \in I PROVE i + 1 \in I
  <2>1. SUFFICES ASSUME i + 1 <= n PROVE f[i + 1] = g[i + 1]
    OBVIOUS
  <2>2. i + 1 \in 1 .. n /\ (i + 1) - 1 = i /\ f[i] = g[i]
    BY <1>2, <2>1
  <2> QED BY <2>2
<1>3. n \in I
  <2> HIDE DEF I
  <2> QED BY <1>1, <1>2, SetInduction
<1> QED BY <1>3

-----------------------------------------------------------------------------
(* Sequences.                                                              *)

\* Taking the p-th element out moves those behind it up.
LEMMA RemovedAt ==
    ASSUME NEW S, NEW q \in Seq(S), NEW p \in 1 .. Len(q)
    PROVE  /\ RemoveAt(q, p) \in Seq(S)
           /\ Len(RemoveAt(q, p)) = Len(q) - 1
           /\ \A n \in 1 .. Len(q) - 1 :
                 RemoveAt(q, p)[n] = IF n < p THEN q[n] ELSE q[n + 1]
<1> DEFINE a == SubSeq(q, 1, p - 1)
           b == SubSeq(q, p + 1, Len(q))
<1>1. Len(q) \in Nat /\ \A n \in 1 .. Len(q) : q[n] \in S
  BY LenProperties
<1>2. a \in Seq(S) /\ Len(a) = p - 1 /\ \A n \in 1 .. p - 1 : a[n] = q[n]
  <2>1. \A n \in 1 .. p - 1 : q[n] \in S
    BY <1>1
  <2> QED BY <1>1, <2>1, SubSeqProperties
<1>3. b \in Seq(S) /\ Len(b) = Len(q) - p /\ \A n \in 1 .. Len(q) - p : b[n] = q[p + n]
  <2>1. \A n \in p + 1 .. Len(q) : q[n] \in S
    BY <1>1
  <2>2. /\ b \in Seq(S)
        /\ Len(b) = IF p + 1 <= Len(q) THEN Len(q) - (p + 1) + 1 ELSE 0
        /\ \A n \in 1 .. Len(q) - (p + 1) + 1 : b[n] = q[p + 1 + n - 1]
    BY <1>1, <2>1, SubSeqProperties
  <2> HIDE DEF b
  <2> QED BY <1>1, <2>2
<1>4. RemoveAt(q, p) = a \o b
  BY DEF RemoveAt
<1> HIDE DEF a, b
<1>5. /\ a \o b \in Seq(S) /\ Len(a \o b) = Len(a) + Len(b)
      /\ \A n \in 1 .. Len(a) + Len(b) :
            (a \o b)[n] = IF n <= Len(a) THEN a[n] ELSE b[n - Len(a)]
  BY <1>2, <1>3, ConcatProperties
<1>6. ASSUME NEW n \in 1 .. Len(q) - 1
      PROVE  (a \o b)[n] = IF n < p THEN q[n] ELSE q[n + 1]
  <2>1. CASE n < p
    <3>1. n \in 1 .. p - 1 /\ n \in 1 .. Len(a) + Len(b) /\ n <= Len(a)
      BY <1>1, <1>2, <1>3, <2>1
    <3> QED BY <1>2, <1>5, <2>1, <3>1
  <2>2. CASE ~(n < p)
    <3>1. /\ n \in 1 .. Len(a) + Len(b) /\ ~(n <= Len(a))
          /\ n - Len(a) \in 1 .. Len(q) - p /\ p + (n - Len(a)) = n + 1
      BY <1>1, <1>2, <1>3, <2>2
    <3> QED BY <1>3, <1>5, <2>2, <3>1
  <2> QED BY <2>1, <2>2
<1> QED BY <1>1, <1>2, <1>3, <1>4, <1>5, <1>6

\* Putting an element in at p moves those from p on down.
LEMMA InsertedAt ==
    ASSUME NEW S, NEW q \in Seq(S), NEW p \in 1 .. Len(q) + 1, NEW x \in S
    PROVE  /\ InsertAt(q, p, x) \in Seq(S)
           /\ Len(InsertAt(q, p, x)) = Len(q) + 1
           /\ InsertAt(q, p, x)[p] = x
           /\ \A n \in 1 .. Len(q) :
                 IF n < p THEN InsertAt(q, p, x)[n] = q[n] ELSE InsertAt(q, p, x)[n + 1] = q[n]
<1> DEFINE L == Len(q)
           a == SubSeq(q, 1, p - 1)
           b == SubSeq(q, p, L)
           m == <<x>>
<1>1. L \in Nat /\ p \in Nat \ {0} /\ p <= L + 1
  BY LenProperties
<1>2. a \in Seq(S) /\ Len(a) = p - 1 /\ \A n \in 1 .. p - 1 : a[n] = q[n]
  <2>1. 1 \in 1 .. L + 1 /\ p - 1 \in 0 .. L
    BY <1>1
  <2>2. /\ a \in Seq(S)
        /\ Len(a) = IF 1 <= p - 1 THEN (p - 1) - 1 + 1 ELSE 0
        /\ \A n \in 1 .. (p - 1) - 1 + 1 : a[n] = q[1 + n - 1]
    BY <1>1, <2>1, SubSeqProperties
  <2> HIDE DEF a
  <2> QED BY <1>1, <2>2
<1>3. b \in Seq(S) /\ Len(b) = L - p + 1 /\ \A n \in 1 .. L - p + 1 : b[n] = q[p + n - 1]
  <2>1. p \in 1 .. L + 1 /\ L \in p - 1 .. L
    BY <1>1
  <2>2. /\ b \in Seq(S)
        /\ Len(b) = IF p <= L THEN L - p + 1 ELSE 0
        /\ \A n \in 1 .. L - p + 1 : b[n] = q[p + n - 1]
    BY <1>1, <2>1, SubSeqProperties
  <2> HIDE DEF b
  <2> QED BY <1>1, <2>2
<1>4. m \in Seq(S) /\ Len(m) = 1 /\ m[1] = x
  OBVIOUS
<1>5. InsertAt(q, p, x) = a \o m \o b
  BY DEF InsertAt
<1> HIDE DEF a, b, m, L
<1>6. /\ a \o m \in Seq(S) /\ Len(a \o m) = p
      /\ \A n \in 1 .. p - 1 : (a \o m)[n] = q[n]
      /\ (a \o m)[p] = x
  <2>1. /\ a \o m \in Seq(S) /\ Len(a \o m) = Len(a) + Len(m)
        /\ \A n \in 1 .. Len(a) + Len(m) : (a \o m)[n] = IF n <= Len(a) THEN a[n] ELSE m[n - Len(a)]
    BY <1>2, <1>4, ConcatProperties
  <2>2. Len(a) + Len(m) = p /\ p - Len(a) = 1 /\ ~(p <= Len(a)) /\ p \in 1 .. p
    BY <1>1, <1>2, <1>4
  <2>3. \A n \in 1 .. p - 1 : n \in 1 .. p /\ n <= Len(a)
    BY <1>1, <1>2
  <2> QED BY <1>2, <1>4, <2>1, <2>2, <2>3
<1> DEFINE t == (a \o m) \o b
<1>7. /\ t \in Seq(S) /\ Len(t) = L + 1
      /\ \A n \in 1 .. L + 1 : t[n] = IF n <= p THEN (a \o m)[n] ELSE b[n - p]
  <2>1. /\ t \in Seq(S) /\ Len(t) = p + Len(b)
        /\ \A n \in 1 .. p + Len(b) : t[n] = IF n <= p THEN (a \o m)[n] ELSE b[n - p]
    <3> DEFINE c == a \o m
    <3>1. c \in Seq(S) /\ Len(c) = p
      BY <1>6
    <3> HIDE DEF c
    <3>2. /\ c \o b \in Seq(S) /\ Len(c \o b) = Len(c) + Len(b)
          /\ \A n \in 1 .. Len(c) + Len(b) : (c \o b)[n] = IF n <= Len(c) THEN c[n] ELSE b[n - Len(c)]
      BY <1>3, <3>1, ConcatProperties
    <3> QED BY <3>1, <3>2 DEF c
  <2>2. p + Len(b) = L + 1
    BY <1>1, <1>3
  <2> QED BY <2>1, <2>2
<1> HIDE DEF t
<1>8. t[p] = x
  BY <1>1, <1>6, <1>7
<1>9. ASSUME NEW n \in 1 .. L PROVE IF n < p THEN t[n] = q[n] ELSE t[n + 1] = q[n]
  <2>1. CASE n < p
    <3>1. n \in 1 .. p - 1 /\ n \in 1 .. L + 1 /\ n <= p
      BY <1>1, <2>1
    <3> QED BY <1>6, <1>7, <2>1, <3>1
  <2>2. CASE ~(n < p)
    <3>1. n + 1 \in 1 .. L + 1 /\ ~(n + 1 <= p) /\ n + 1 - p \in 1 .. L - p + 1 /\ p + (n + 1 - p) - 1 = n
      BY <1>1, <2>2
    <3> QED BY <1>3, <1>7, <2>2, <3>1
  <2> QED BY <2>1, <2>2
<1> QED BY <1>5, <1>7, <1>8, <1>9 DEF t, L

\* Sequence r still has every element of q that is not e.
KeepsAllBut(r, q, e) ==
    \A m \in 1 .. Len(q) : q[m] # e => \E l \in 1 .. Len(r) : r[l] = q[m]

LEMMA KeepingTwice ==
    ASSUME NEW p, NEW q, NEW r, NEW e, KeepsAllBut(p, q, e), KeepsAllBut(q, r, e)
    PROVE  KeepsAllBut(p, r, e)
BY DEF KeepsAllBut

\* Taking the n-th element out leaves the others.
LEMMA RemoveAtKeeps ==
    ASSUME NEW S, NEW q \in Seq(S), NEW n \in 1 .. Len(q)
    PROVE  RemoveAt(q, n) \in Seq(S) /\ KeepsAllBut(RemoveAt(q, n), q, q[n])
<1>1. /\ RemoveAt(q, n) \in Seq(S) /\ Len(RemoveAt(q, n)) = Len(q) - 1
      /\ \A l \in 1 .. Len(q) - 1 : RemoveAt(q, n)[l] = IF l < n THEN q[l] ELSE q[l + 1]
  BY RemovedAt
<1>2. ASSUME NEW m \in 1 .. Len(q), q[m] # q[n]
      PROVE  \E l \in 1 .. Len(q) - 1 : RemoveAt(q, n)[l] = q[m]
  <2>1. Len(q) \in Nat /\ m # n
    BY <1>2, LenProperties
  <2>2. CASE m < n
    BY <1>1, <2>1, <2>2
  <2>3. CASE m > n
    <3>1. m - 1 \in 1 .. Len(q) - 1 /\ ~(m - 1 < n) /\ (m - 1) + 1 = m
      BY <2>1, <2>3
    <3> QED BY <1>1, <3>1
  <2> QED BY <2>1, <2>2, <2>3
<1> QED BY <1>1, <1>2 DEF KeepsAllBut

\* A set of positions that is not empty has a first one.
LEMMA FirstPosition ==
    ASSUME NEW I, I \subseteq Nat, I # {}
    PROVE  Min(I) \in I
<1> DEFINE R == {ss \in Nat \X Nat : ss[1] < ss[2]}
<1>1. IsWellFoundedOn(R, Nat)
  BY NatLessThanWellFounded DEF OpToRel
<1> HIDE DEF R
<1>2. PICK x \in I : \A y \in I : ~(<<y, x>> \in R)
  BY <1>1, WFMin
<1>3. ASSUME NEW y \in I PROVE x <= y
  <2>1. y < x => <<y, x>> \in R
    BY DEF R
  <2> QED BY <1>2, <2>1
<1> QED BY <1>3 DEF Min

\* Taking the first e out leaves whatever is not e.
LEMMA RemoveFirstKeeps ==
    ASSUME NEW S, NEW q \in Seq(S), NEW e \in S
    PROVE  RemoveFirst(q, e) \in Seq(S) /\ KeepsAllBut(RemoveFirst(q, e), q, e)
<1> DEFINE I == {i \in 1 .. Len(q) : q[i] = e}
<1>1. CASE I # {}
  <2>1. I \subseteq Nat
    OBVIOUS
  <2>2. RemoveFirst(q, e) = RemoveAt(q, Min(I))
    BY <1>1 DEF RemoveFirst, SelectInSeq
  <2>3. \A i \in I : i \in 1 .. Len(q) /\ q[i] = e
    OBVIOUS
  <2> HIDE DEF I
  <2>4. Min(I) \in I
    BY <1>1, <2>1, FirstPosition
  <2>5. PICK n \in 1 .. Len(q) : q[n] = e /\ RemoveFirst(q, e) = RemoveAt(q, n)
    BY <2>2, <2>3, <2>4
  <2> QED BY <2>5, RemoveAtKeeps
<1>2. CASE I = {}
  <2>1. RemoveFirst(q, e) = q
    BY <1>2 DEF RemoveFirst, SelectInSeq
  <2> QED BY <2>1 DEF KeepsAllBut
<1> QED BY <1>1, <1>2

\* Taking out what is not there leaves all as it is.
LEMMA RemoveFirstAbsent ==
    ASSUME NEW q, NEW e, \A m \in 1 .. Len(q) : q[m] # e
    PROVE  RemoveFirst(q, e) = q
BY DEF RemoveFirst, SelectInSeq

\* Induction on a sequence, from its beginning.
LEMMA AppendInduction ==
    ASSUME NEW S, NEW I, <<>> \in I, \A s \in Seq(S), x \in S : s \in I => Append(s, x) \in I
    PROVE  Seq(S) \subseteq I
<1> DEFINE J == {n \in Nat : \A s \in Seq(S) : Len(s) = n => s \in I}
<1>1. 0 \in J
  BY EmptySeq
<1>2. ASSUME NEW n \in Nat, n \in J PROVE n + 1 \in J
  <2>1. SUFFICES ASSUME NEW s \in Seq(S), Len(s) = n + 1 PROVE s \in I
    OBVIOUS
  <2>2. s # <<>>
    BY <2>1, EmptySeq
  <2>3. PICK t \in Seq(S), x \in S : s = Append(t, x)
    BY <2>2, SequenceEmptyOrAppend
  <2>4. Len(t) = n
    BY <2>1, <2>3, AppendProperties, LenProperties
  <2> QED BY <1>2, <2>3, <2>4
<1>3. Nat \subseteq J
  <2> HIDE DEF J
  <2> QED BY <1>1, <1>2, SetInduction
<1> QED BY <1>3, LenProperties

\* What an element in front and a sequence are together.
LEMMA ConsProperties ==
    ASSUME NEW S, NEW s \in Seq(S), NEW x \in S
    PROVE  /\ <<x>> \o s \in Seq(S) /\ <<x>> \o s # <<>>
           /\ Len(<<x>> \o s) = Len(s) + 1
           /\ (<<x>> \o s)[1] = x
           /\ \A i \in 1 .. Len(s) : (<<x>> \o s)[i + 1] = s[i]
           /\ Head(<<x>> \o s) = x /\ Tail(<<x>> \o s) = s
<1> DEFINE t == <<x>> \o s
<1>1. <<x>> \in Seq(S) /\ Len(<<x>>) = 1 /\ <<x>>[1] = x /\ Len(s) \in Nat
  BY LenProperties
<1>2. /\ t \in Seq(S) /\ Len(t) = Len(s) + 1
      /\ \A i \in 1 .. Len(s) + 1 : t[i] = IF i <= 1 THEN x ELSE s[i - 1]
  BY <1>1, ConcatProperties
<1> HIDE DEF t
<1>3. t # <<>> /\ t[1] = x
  BY <1>1, <1>2, EmptySeq
<1>4. ASSUME NEW i \in 1 .. Len(s) PROVE t[i + 1] = s[i]
  <2>1. i + 1 \in 1 .. Len(s) + 1 /\ ~(i + 1 <= 1) /\ (i + 1) - 1 = i
    BY <1>1
  <2> QED BY <1>2, <2>1
<1>5. Head(t) = x
  BY <1>3
<1>6. Tail(t) = s
  <2>1. /\ Tail(t) \in Seq(S) /\ Len(Tail(t)) = Len(t) - 1
        /\ \A i \in 1 .. Len(Tail(t)) : Tail(t)[i] = t[i + 1]
    BY <1>2, <1>3, HeadTailProperties
  <2>2. Len(Tail(t)) = Len(s)
    BY <1>1, <1>2, <2>1
  <2>3. \A i \in 1 .. Len(Tail(t)) : Tail(t)[i] = s[i]
    BY <1>4, <2>1, <2>2
  <2> QED BY <2>1, <2>2, <2>3, SeqEqual
<1> QED BY <1>2, <1>3, <1>4, <1>5, <1>6 DEF t

LEMMA HeadAndTail ==
    ASSUME NEW S, NEW s \in Seq(S), s # <<>>
    PROVE  s[1] \in S /\ Tail(s) \in Seq(S) /\ Len(Tail(s)) = Len(s) - 1 /\ s = <<s[1]>> \o Tail(s)
           /\ \A i \in 1 .. Len(s) - 1 : Tail(s)[i] = s[i + 1]
<1>1. /\ Tail(s) \in Seq(S) /\ Len(Tail(s)) = Len(s) - 1
      /\ \A i \in 1 .. Len(Tail(s)) : Tail(s)[i] = s[i + 1]
  BY HeadTailProperties
<1>2. Len(s) \in Nat \ {0} /\ \A i \in 1 .. Len(s) : s[i] \in S
  BY EmptySeq, LenProperties
<1>3. s[1] \in S
  BY <1>2
<1> DEFINE t == <<s[1]>> \o Tail(s)
<1>4. /\ t \in Seq(S) /\ Len(t) = Len(Tail(s)) + 1 /\ t[1] = s[1]
      /\ \A i \in 1 .. Len(Tail(s)) : t[i + 1] = Tail(s)[i]
  BY <1>1, <1>3, ConsProperties
<1> HIDE DEF t
<1>5. Len(s) = Len(t)
  BY <1>1, <1>2, <1>4
<1>6. ASSUME NEW i \in 1 .. Len(s) PROVE s[i] = t[i]
  <2>1. CASE i = 1
    BY <1>4, <2>1
  <2>2. CASE i # 1
    <3>1. i - 1 \in 1 .. Len(Tail(s)) /\ (i - 1) + 1 = i
      BY <1>1, <1>2, <2>2
    <3> QED BY <1>1, <1>4, <3>1
  <2> QED BY <2>1, <2>2
<1>7. s = t
  BY <1>4, <1>5, <1>6, SeqEqual
<1> QED BY <1>1, <1>3, <1>7 DEF t

\* One sequence of all.
LEMMA Flattened ==
    ASSUME NEW S
    PROVE  /\ FlattenSeq(<<>>) = <<>>
           /\ \A ss \in Seq(Seq(S)) : FlattenSeq(ss) \in Seq(S)
           /\ \A ss \in Seq(Seq(S)), s \in Seq(S) :
                 FlattenSeq(Append(ss, s)) = FlattenSeq(ss) \o s
<1>1. FlattenSeq(<<>>) = <<>>
  BY DEF FlattenSeq
\* The n-th function stands for the sequence up to its n-th element.
<1> DEFINE body(ss, f) == [i \in 1 .. Len(ss) |-> IF i = 1 THEN ss[i] ELSE f[i - 1] \o ss[i]]
           flatten(ss) == CHOOSE f : f = body(ss, f)
<1>2. ASSUME NEW ss \in Seq(Seq(S)), ss # <<>>
      PROVE  /\ flatten(ss) \in [1 .. Len(ss) -> Seq(S)]
             /\ FlattenSeq(ss) = flatten(ss)[Len(ss)]
             /\ flatten(ss)[1] = ss[1]
             /\ \A i \in 2 .. Len(ss) : flatten(ss)[i] = flatten(ss)[i - 1] \o ss[i]
  <2> DEFINE n == Len(ss)
             step == [i \in 1 .. n |-> [s \in Seq(S) |-> s \o ss[i]]]
             none == <<>>
             all == Seq(S)
  <2>1. n \in Nat \ {0} /\ \A i \in 1 .. n : ss[i] \in Seq(S)
    BY <1>2, EmptySeq, LenProperties
  <2>2. step \in [1 .. n -> [all -> all]] /\ none \in all /\ n \in Nat
    BY <2>1, ConcatProperties
  <2>3. PICK f \in [0 .. n -> Seq(S)] :
           f[0] = <<>> /\ \A i \in 1 .. n : f[i] = f[i - 1] \o ss[i]
    <3> HIDE DEF step, none, all, n
    <3>1. Stepwise(n, all, none, step) # {}
      BY <2>2, Steps
    <3>2. PICK f \in [0 .. n -> all] : f[0] = none /\ \A i \in 1 .. n : f[i] = step[i][f[i - 1]]
      BY <3>1 DEF Stepwise
    <3>3. \A i \in 1 .. n : i - 1 \in 0 .. n /\ f[i - 1] \in Seq(S)
      BY <2>2, <3>2 DEF all
    <3> QED BY <3>2, <3>3 DEF step, none, all
  <2> DEFINE g == [i \in 1 .. n |-> f[i]]
  <2>4. f[1] = ss[1]
    <3>1. 1 \in 1 .. n /\ 1 - 1 = 0
      BY <2>1
    <3>2. f[1] = <<>> \o ss[1] /\ ss[1] \in Seq(S)
      BY <2>1, <2>3, <3>1
    <3> QED BY <3>2, ConcatEmptySeq
  <2>5. g = body(ss, g)
    <3>1. ASSUME NEW i \in 1 .. n PROVE g[i] = IF i = 1 THEN ss[i] ELSE g[i - 1] \o ss[i]
      <4>1. i # 1 => i - 1 \in 1 .. n
        BY <2>1
      <4> QED BY <2>3, <2>4, <4>1
    <3> HIDE DEF n
    <3> QED BY <3>1 DEF n
  <2> DEFINE h == flatten(ss)
  <2>6. h = body(ss, h)
    <3> HIDE DEF g, body, n
    <3> QED BY <2>5
  <2>7. FlattenSeq(ss) = h[n]
    BY <2>1 DEF FlattenSeq
  <2> HIDE DEF h, g
  <2>8. h = [i \in 1 .. n |-> IF i = 1 THEN ss[i] ELSE h[i - 1] \o ss[i]]
    BY <2>6
  <2> HIDE DEF body, flatten, n
  <2>9. h[1] = ss[1] /\ \A i \in 2 .. n : h[i] = h[i - 1] \o ss[i]
    <3>1. 1 \in 1 .. n /\ \A i \in 2 .. n : i \in 1 .. n /\ i # 1
      BY <2>1
    <3> QED BY <2>8, <3>1
  <2> DEFINE I == {i \in Nat : i + 1 <= n => h[i + 1] \in Seq(S)}
  <2>10. 0 \in I
    BY <2>1, <2>9
  <2>11. ASSUME NEW i \in Nat, i \in I PROVE i + 1 \in I
    <3>1. SUFFICES ASSUME (i + 1) + 1 <= n PROVE h[(i + 1) + 1] \in Seq(S)
      OBVIOUS
    <3>2. (i + 1) + 1 \in 2 .. n /\ (i + 1) + 1 \in 1 .. n /\ ((i + 1) + 1) - 1 = i + 1
      BY <2>1, <3>1
    <3>3. h[(i + 1) + 1] = h[i + 1] \o ss[(i + 1) + 1]
      BY <2>9, <3>2
    <3>4. h[i + 1] \in Seq(S)
      BY <2>1, <2>11, <3>1
    <3> QED BY <2>1, <3>2, <3>3, <3>4, ConcatProperties
  <2>12. \A i \in 1 .. n : h[i] \in Seq(S)
    <3> HIDE DEF I
    <3>1. Nat \subseteq I
      BY <2>10, <2>11, SetInduction
    <3>2. \A i \in 1 .. n : i - 1 \in I /\ (i - 1) + 1 = i /\ i <= n
      BY <2>1, <3>1
    <3> QED BY <3>2 DEF I
  <2>13. h \in [1 .. n -> Seq(S)]
    <3>1. h = [i \in 1 .. n |-> h[i]]
      BY <2>8
    <3> QED BY <2>12, <3>1
  <2> QED BY <2>7, <2>9, <2>13 DEF h, n
<1> HIDE DEF flatten
<1>3. ASSUME NEW ss \in Seq(Seq(S)) PROVE FlattenSeq(ss) \in Seq(S)
  <2>1. CASE ss = <<>>
    <3>1. <<>> \in Seq(S)
      OBVIOUS
    <3> QED BY <1>1, <2>1, <3>1
  <2>2. CASE ss # <<>>
    <3>1. Len(ss) \in 1 .. Len(ss)
      BY <2>2, EmptySeq
    <3> QED BY <1>2, <2>2, <3>1
  <2> QED BY <2>1, <2>2
<1>4. ASSUME NEW ss \in Seq(Seq(S)), NEW s \in Seq(S)
      PROVE  FlattenSeq(Append(ss, s)) = FlattenSeq(ss) \o s
  <2> DEFINE tt == Append(ss, s)
             n == Len(ss)
  <2>1. /\ tt \in Seq(Seq(S)) /\ tt # <<>> /\ Len(tt) = n + 1 /\ n \in Nat
        /\ \A i \in 1 .. n : tt[i] = ss[i]
        /\ tt[n + 1] = s
    BY AppendProperties, LenProperties
  <2> HIDE DEF tt
  <2>2. CASE ss = <<>>
    <3>1. n = 0
      BY <2>2
    <3>2. Len(tt) = 1 /\ tt[1] = s
      BY <2>1, <3>1
    <3>3. FlattenSeq(tt) = flatten(tt)[1] /\ flatten(tt)[1] = s
      BY <1>2, <2>1, <3>2
    <3> QED BY <1>1, <2>2, <3>3, ConcatEmptySeq DEF tt
  <2>3. CASE ss # <<>>
    <3> DEFINE f == flatten(ss)
               g == flatten(tt)
    <3>1. /\ f \in [1 .. n -> Seq(S)] /\ FlattenSeq(ss) = f[n] /\ f[1] = ss[1]
          /\ \A i \in 2 .. n : f[i] = f[i - 1] \o ss[i]
      BY <1>2, <2>3
    <3>2. /\ FlattenSeq(tt) = g[n + 1] /\ g[1] = tt[1]
          /\ \A i \in 2 .. n + 1 : g[i] = g[i - 1] \o tt[i]
      BY <1>2, <2>1
    <3>3. n \in Nat \ {0}
      BY <2>3, EmptySeq
    <3> HIDE DEF f, g, n
    <3> DEFINE I == {i \in Nat : i + 1 <= n => f[i + 1] = g[i + 1]}
    <3>4. 0 \in I
      BY <2>1, <3>1, <3>2, <3>3
    <3>5. ASSUME NEW i \in Nat, i \in I PROVE i + 1 \in I
      <4>1. SUFFICES ASSUME (i + 1) + 1 <= n PROVE f[(i + 1) + 1] = g[(i + 1) + 1]
        OBVIOUS
      <4>2. /\ (i + 1) + 1 \in 2 .. n /\ (i + 1) + 1 \in 1 .. n
            /\ (i + 1) + 1 \in 2 .. n + 1 /\ ((i + 1) + 1) - 1 = i + 1
        BY <3>3, <4>1
      <4>3. f[i + 1] = g[i + 1]
        BY <3>3, <3>5, <4>1
      <4> QED BY ZenonT(30), <2>1, <3>1, <3>2, <4>2, <4>3
    <3>6. n - 1 \in I
      <4> HIDE DEF I
      <4> QED BY <3>3, <3>4, <3>5, SetInduction
    <3>7. f[n] = g[n]
      <4>1. (n - 1) + 1 = n
        BY <3>3
      <4> QED BY <3>3, <3>6, <4>1
    <3>8. n + 1 \in 2 .. n + 1 /\ (n + 1) - 1 = n
      BY <3>3
    <3>9. g[n + 1] = g[n] \o s
      BY <2>1, <3>2, <3>8
    <3> QED BY <3>1, <3>2, <3>7, <3>9 DEF tt
  <2> QED BY <2>2, <2>3
<1> QED BY <1>1, <1>3, <1>4

\* The first of them comes first.
LEMMA FlattenedCons ==
    ASSUME NEW S, NEW ss \in Seq(Seq(S)), NEW s \in Seq(S)
    PROVE  FlattenSeq(<<s>> \o ss) = s \o FlattenSeq(ss)
<1> DEFINE all == Seq(S)
           I == {tt \in Seq(all) : FlattenSeq(<<s>> \o tt) = s \o FlattenSeq(tt)}
<1>1. s \in all /\ <<s>> \in Seq(all) /\ <<>> \in Seq(all)
  OBVIOUS
<1>2. <<>> \in I
  <2>1. <<s>> \o <<>> = <<s>>
    BY <1>1, ConcatEmptySeq
  <2>2. <<s>> = Append(<<>>, s)
    OBVIOUS
  <2>3. FlattenSeq(Append(<<>>, s)) = FlattenSeq(<<>>) \o s
    BY <1>1, Flattened
  <2>4. FlattenSeq(<<>>) = <<>> /\ <<>> \o s = s /\ s \o <<>> = s
    BY Flattened, ConcatEmptySeq
  <2> QED BY <1>1, <2>1, <2>2, <2>3, <2>4
<1>3. ASSUME NEW tt \in Seq(all), NEW t \in all, tt \in I PROVE Append(tt, t) \in I
  <2>1. /\ <<s>> \o Append(tt, t) = Append(<<s>> \o tt, t)
        /\ <<s>> \o tt \in Seq(all) /\ Append(tt, t) \in Seq(all)
    <3> HIDE DEF all
    <3>1. Append(tt, t) = tt \o <<t>> /\ <<s>> \o tt \in Seq(all) /\ <<t>> \in Seq(all)
      BY <1>1, AppendIsConcat, ConcatProperties
    <3>2. Append(<<s>> \o tt, t) = (<<s>> \o tt) \o <<t>>
      BY <3>1, AppendIsConcat
    <3>3. (<<s>> \o tt) \o <<t>> = <<s>> \o (tt \o <<t>>)
      BY <1>1, <3>1, ConcatAssociative
    <3> QED BY <3>1, <3>2, <3>3, AppendProperties
  <2>2. FlattenSeq(<<s>> \o Append(tt, t)) = FlattenSeq(<<s>> \o tt) \o t
    BY <2>1, Flattened
  <2>3. FlattenSeq(<<s>> \o tt) = s \o FlattenSeq(tt)
    BY <1>3
  <2>4. FlattenSeq(tt) \in Seq(S) /\ FlattenSeq(Append(tt, t)) = FlattenSeq(tt) \o t
    BY Flattened
  <2>5. (s \o FlattenSeq(tt)) \o t = s \o (FlattenSeq(tt) \o t)
    BY <2>4, ConcatAssociative
  <2> QED BY <2>1, <2>2, <2>3, <2>4, <2>5
<1>4. Seq(all) \subseteq I
  <2> HIDE DEF I, all
  <2> QED BY <1>2, <1>3, AppendInduction
<1> QED BY <1>4

\* Induction on a sequence, from its end.
LEMMA ConsInduction ==
    ASSUME NEW S, NEW I, <<>> \in I, \A s \in Seq(S), x \in S : s \in I => <<x>> \o s \in I
    PROVE  Seq(S) \subseteq I
<1> DEFINE J == {n \in Nat : \A s \in Seq(S) : Len(s) = n => s \in I}
<1>1. 0 \in J
  BY EmptySeq
<1>2. ASSUME NEW n \in Nat, n \in J PROVE n + 1 \in J
  <2>1. SUFFICES ASSUME NEW s \in Seq(S), Len(s) = n + 1 PROVE s \in I
    OBVIOUS
  <2>2. s # <<>>
    BY <2>1, EmptySeq
  <2>3. s[1] \in S /\ Tail(s) \in Seq(S) /\ Len(Tail(s)) = Len(s) - 1 /\ s = <<s[1]>> \o Tail(s)
    BY <2>2, HeadAndTail
  <2>4. Len(Tail(s)) = n
    BY <2>1, <2>3
  <2>5. Tail(s) \in I
    BY <1>2, <2>3, <2>4
  <2> QED BY <2>3, <2>5
<1>3. Nat \subseteq J
  <2> HIDE DEF J
  <2> QED BY <1>1, <1>2, SetInduction
<1> QED BY <1>3, LenProperties
=============================================================================
