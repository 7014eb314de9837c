------------------------------ MODULE QueryProofs ------------------------------
(* What TLAPS proves of Queries and FunctionCalls, for any values, lists,      *)
(* queries and functions.                                                      *)
EXTENDS Queries, FunctionCalls, SerializationProofs

-----------------------------------------------------------------------------
(* The order of values.                                                    *)

LEMMA Signs ==
    \A n \in Int : /\ Sign(n) \in {-1, 0, 1} /\ Sign(0 - n) = 0 - Sign(n)
                   /\ Sign(n) < 0 <=> n < 0
                   /\ Sign(n) = 0 <=> n = 0
BY DEF Sign

\* A letter of s, and after them something less than any.
Letter(s, i) == IF i <= Len(s) THEN s[i] + 1 ELSE 0

\* The letters s and t differ in first.
FirstLetter(s, t, p) ==
    /\ p \in Nat \ {0} /\ Letter(s, p) # Letter(t, p)
    /\ \A j \in 1 .. p - 1 : Letter(s, j) = Letter(t, j)

LEMMA Letters ==
    ASSUME NEW s \in Seq(Nat)
    PROVE  /\ \A p \in Nat \ {0} : Letter(s, p) \in Nat
           /\ Len(s) \in Nat
           /\ \A p \in 1 .. Len(s) : s[p] \in Nat /\ Letter(s, p) = s[p] + 1
BY LenProperties DEF Letter

LEMMA ByFirstLetter ==
    ASSUME NEW s \in Seq(Nat), NEW t \in Seq(Nat)
    PROVE  \/ Lexicographic(s, t) = 0 /\ s = t
           \/ \E p : FirstLetter(s, t, p) /\ Lexicographic(s, t) = Sign(Letter(s, p) - Letter(t, p))
<1> DEFINE differ == {i \in 1 .. Len(s) : i <= Len(t) /\ s[i] # t[i]}
<1>1. /\ Len(s) \in Nat /\ Len(t) \in Nat
      /\ \A p \in 1 .. Len(s) : s[p] \in Nat /\ Letter(s, p) = s[p] + 1
      /\ \A p \in 1 .. Len(t) : t[p] \in Nat /\ Letter(t, p) = t[p] + 1
  BY Letters
<1>2. CASE differ = {}
  <2>1. Lexicographic(s, t) = Sign(Len(s) - Len(t))
    BY <1>2 DEF Lexicographic
  <2>2. \A i \in 1 .. Len(s) : i <= Len(t) => s[i] = t[i]
    BY <1>2
  <2>3. CASE Len(s) = Len(t)
    <3>1. s = t
      BY <1>1, <2>2, <2>3, SeqEqual
    <3>2. Len(s) - Len(t) = 0
      BY <1>1, <2>3
    <3> QED BY <2>1, <3>1, <3>2 DEF Sign
  <2>4. CASE Len(s) < Len(t)
    <3> DEFINE p == Len(s) + 1
    <3>1. p \in Nat \ {0} /\ p \in 1 .. Len(t) /\ p - 1 = Len(s) /\ ~(p <= Len(s))
      BY <1>1, <2>4
    <3>2. Letter(s, p) = 0 /\ Letter(t, p) = t[p] + 1 /\ t[p] \in Nat
      BY <1>1, <3>1 DEF Letter
    <3>3. \A j \in 1 .. p - 1 : Letter(s, j) = Letter(t, j)
      <4>1. \A j \in 1 .. Len(s) : j \in 1 .. Len(s) /\ j \in 1 .. Len(t) /\ s[j] = t[j]
        BY <1>1, <2>2, <2>4
      <4> HIDE DEF p
      <4> QED BY <1>1, <3>1, <4>1
    <3>4. Sign(Len(s) - Len(t)) = -1 /\ Sign(Letter(s, p) - Letter(t, p)) = -1
      BY <1>1, <2>4, <3>2 DEF Sign
    <3> HIDE DEF p
    <3>5. FirstLetter(s, t, p)
      BY <3>1, <3>2, <3>3 DEF FirstLetter
    <3>6. Lexicographic(s, t) = Sign(Letter(s, p) - Letter(t, p))
      BY <2>1, <3>4
    <3> QED BY <3>5, <3>6
  <2>5. CASE Len(s) > Len(t)
    <3> DEFINE p == Len(t) + 1
    <3>1. p \in Nat \ {0} /\ p \in 1 .. Len(s) /\ p - 1 = Len(t) /\ ~(p <= Len(t))
      BY <1>1, <2>5
    <3>2. Letter(t, p) = 0 /\ Letter(s, p) = s[p] + 1 /\ s[p] \in Nat
      BY <1>1, <3>1 DEF Letter
    <3>3. \A j \in 1 .. p - 1 : Letter(s, j) = Letter(t, j)
      <4>1. \A j \in 1 .. Len(t) : j \in 1 .. Len(s) /\ j \in 1 .. Len(t) /\ s[j] = t[j]
        BY <1>1, <2>2, <2>5
      <4> HIDE DEF p
      <4> QED BY <1>1, <3>1, <4>1
    <3>4. Sign(Len(s) - Len(t)) = 1 /\ Sign(Letter(s, p) - Letter(t, p)) = 1
      BY <1>1, <2>5, <3>2 DEF Sign
    <3> HIDE DEF p
    <3>5. FirstLetter(s, t, p)
      BY <3>1, <3>2, <3>3 DEF FirstLetter
    <3>6. Lexicographic(s, t) = Sign(Letter(s, p) - Letter(t, p))
      BY <2>1, <3>4
    <3> QED BY <3>5, <3>6
  <2> QED BY <1>1, <2>3, <2>4, <2>5
<1>3. CASE differ # {}
  <2> DEFINE p == CHOOSE i \in differ : \A j \in differ : i <= j
  <2>1. differ \subseteq Nat
    OBVIOUS
  <2>2. \E i \in differ : \A j \in differ : i <= j
    <3> HIDE DEF differ
    <3> QED BY <1>3, <2>1, LeastNatural
  <2>3. p \in differ /\ \A j \in differ : p <= j
    <3> HIDE DEF differ
    <3> QED BY <2>2
  <2>4. Lexicographic(s, t) = Sign(s[p] - t[p])
    BY <1>3 DEF Lexicographic
  <2> HIDE DEF p
  <2>5. p \in 1 .. Len(s) /\ p \in 1 .. Len(t) /\ p \in Nat \ {0} /\ s[p] # t[p]
    BY <1>1, <2>3
  <2>6. \A j \in 1 .. p - 1 : j \in 1 .. Len(s) /\ j \in 1 .. Len(t) /\ ~(p <= j)
    BY <1>1, <2>5
  <2>7. \A j \in 1 .. p - 1 : s[j] = t[j]
    BY <1>1, <2>3, <2>6
  <2>8. Letter(s, p) - Letter(t, p) = s[p] - t[p] /\ Letter(s, p) # Letter(t, p)
    <3> DEFINE x == s[p]
               y == t[p]
    <3>1. x \in Nat /\ y \in Nat /\ Letter(s, p) = x + 1 /\ Letter(t, p) = y + 1 /\ x # y
      BY <1>1, <2>5
    <3> HIDE DEF x, y
    <3>2. (x + 1) - (y + 1) = x - y /\ x + 1 # y + 1
      BY <3>1
    <3> QED BY <3>1, <3>2 DEF x, y
  <2>9. \A j \in 1 .. p - 1 : Letter(s, j) = Letter(t, j)
    BY <1>1, <2>6, <2>7
  <2> QED BY <2>4, <2>5, <2>8, <2>9 DEF FirstLetter
<1> QED BY <1>2, <1>3

LEMMA LexicographicOrder ==
    /\ \A s, t \in Seq(Nat) :
          /\ Lexicographic(s, t) \in {-1, 0, 1}
          /\ Lexicographic(t, s) = 0 - Lexicographic(s, t)
          /\ Lexicographic(s, t) = 0 <=> s = t
    /\ \A s, t, u \in Seq(Nat) :
          Lexicographic(s, t) <= 0 /\ Lexicographic(t, u) <= 0 => Lexicographic(s, u) <= 0
<1>1. ASSUME NEW s \in Seq(Nat), NEW t \in Seq(Nat), s # t
      PROVE  /\ Lexicographic(s, t) \in {-1, 1}
             /\ \E p : /\ FirstLetter(s, t, p)
                       /\ Lexicographic(s, t) < 0 <=> Letter(s, p) < Letter(t, p)
  <2>1. PICK p : FirstLetter(s, t, p) /\ Lexicographic(s, t) = Sign(Letter(s, p) - Letter(t, p))
    BY <1>1, ByFirstLetter
  <2>2. Letter(s, p) \in Nat /\ Letter(t, p) \in Nat /\ Letter(s, p) # Letter(t, p)
    BY <2>1, Letters DEF FirstLetter
  <2>3. /\ Sign(Letter(s, p) - Letter(t, p)) \in {-1, 1}
        /\ Sign(Letter(s, p) - Letter(t, p)) < 0 <=> Letter(s, p) < Letter(t, p)
    BY <2>2 DEF Sign
  <2> QED BY <2>1, <2>3
<1>2. \A s \in Seq(Nat) : Lexicographic(s, s) = 0
  <2> TAKE s \in Seq(Nat)
  <2>1. \A p : ~FirstLetter(s, s, p)
    BY DEF FirstLetter
  <2> QED BY <2>1, ByFirstLetter
<1>3. ASSUME NEW s \in Seq(Nat), NEW t \in Seq(Nat)
      PROVE  /\ Lexicographic(s, t) \in {-1, 0, 1}
             /\ Lexicographic(t, s) = 0 - Lexicographic(s, t)
             /\ Lexicographic(s, t) = 0 <=> s = t
  <2>1. CASE s = t
    BY <1>2, <2>1
  <2>2. CASE s # t
    <3>1. PICK p : FirstLetter(s, t, p) /\ (Lexicographic(s, t) < 0 <=> Letter(s, p) < Letter(t, p))
      BY <1>1, <2>2
    <3>2. PICK q : FirstLetter(t, s, q) /\ (Lexicographic(t, s) < 0 <=> Letter(t, q) < Letter(s, q))
      BY <1>1, <2>2
    <3>3. p = q /\ Letter(s, p) \in Nat /\ Letter(t, p) \in Nat /\ Letter(s, p) # Letter(t, p)
      <4>1. p < q \/ p = q \/ q < p
        BY <3>1, <3>2 DEF FirstLetter
      <4>2. (p < q => p \in 1 .. q - 1) /\ (q < p => q \in 1 .. p - 1)
        BY <3>1, <3>2 DEF FirstLetter
      <4> QED BY <3>1, <3>2, <4>1, <4>2, Letters DEF FirstLetter
    <3>4. Lexicographic(s, t) \in {-1, 1} /\ Lexicographic(t, s) \in {-1, 1}
      BY <1>1, <2>2
    <3>5. Lexicographic(s, t) < 0 <=> ~(Lexicographic(t, s) < 0)
      BY <3>1, <3>2, <3>3
    <3> QED BY <2>2, <3>4, <3>5
  <2> QED BY <2>1, <2>2
<1>4. ASSUME NEW s \in Seq(Nat), NEW t \in Seq(Nat), NEW u \in Seq(Nat),
             Lexicographic(s, t) <= 0, Lexicographic(t, u) <= 0
      PROVE  Lexicographic(s, u) <= 0
  <2>1. CASE s = t \/ t = u \/ s = u
    BY <1>2, <1>4, <2>1
  <2>2. CASE s # t /\ t # u /\ s # u
    <3>1. PICK p : FirstLetter(s, t, p) /\ (Lexicographic(s, t) < 0 <=> Letter(s, p) < Letter(t, p))
      BY <1>1, <2>2
    <3>2. PICK q : FirstLetter(t, u, q) /\ (Lexicographic(t, u) < 0 <=> Letter(t, q) < Letter(u, q))
      BY <1>1, <2>2
    <3>3. PICK r : FirstLetter(s, u, r) /\ (Lexicographic(s, u) < 0 <=> Letter(s, r) < Letter(u, r))
      BY <1>1, <2>2
    <3>4. /\ Lexicographic(s, t) \in {-1, 1} /\ Lexicographic(t, u) \in {-1, 1}
          /\ Lexicographic(s, u) \in {-1, 1}
      BY <1>1, <2>2
    <3>5. Letter(s, p) < Letter(t, p) /\ Letter(t, q) < Letter(u, q)
      BY <1>4, <3>1, <3>2, <3>4
    <3>6. /\ p \in Nat \ {0} /\ q \in Nat \ {0} /\ r \in Nat \ {0}
          /\ \A j \in 1 .. p - 1 : Letter(s, j) = Letter(t, j)
          /\ \A j \in 1 .. q - 1 : Letter(t, j) = Letter(u, j)
          /\ \A j \in 1 .. r - 1 : Letter(s, j) = Letter(u, j)
          /\ Letter(s, r) # Letter(u, r)
      BY <3>1, <3>2, <3>3 DEF FirstLetter
    <3>7. \A j \in {p, q, r} : Letter(s, j) \in Nat /\ Letter(t, j) \in Nat /\ Letter(u, j) \in Nat
      BY <3>6, Letters
    <3>8. /\ \A i, j \in {p, q, r} : i < j => i \in 1 .. j - 1
          /\ \A i, j \in {p, q, r} : i < j \/ i = j \/ j < i
      BY <3>6
    <3>9. Letter(s, r) < Letter(u, r)
      BY <3>5, <3>6, <3>7, <3>8
    <3> QED BY <3>3, <3>4, <3>9
  <2> QED BY <2>1, <2>2
<1> QED BY <1>3, <1>4

LEMMA Alternatives ==
    /\ \A i \in 1 .. 11 : Types[i] \in ToSet(Types)
    /\ \A type \in ToSet(Types) : Alternative(type) \in 0 .. 10 /\ Types[Alternative(type) + 1] = type
    /\ Alternative("int16") = 0
<1>1. Len(Types) = 11 /\ DOMAIN Types = 1 .. 11
  BY DEF Types
<1>2. \A i \in 1 .. 11 : Types[i] \in ToSet(Types)
  BY <1>1 DEF ToSet
<1>3. ASSUME NEW type \in ToSet(Types)
      PROVE  Alternative(type) \in 0 .. 10 /\ Types[Alternative(type) + 1] = type
  <2> DEFINE I == {i \in 1 .. Len(Types) : Types[i] = type}
  <2>1. I \subseteq Nat
    OBVIOUS
  <2>2. I # {}
    BY <1>1 DEF ToSet
  <2>3. Min(I) \in I
    <3> HIDE DEF I
    <3> QED BY <2>1, <2>2, FirstPosition
  <2>4. Alternative(type) = Min(I) - 1
    BY <2>2 DEF Alternative, SelectInSeq
  <2> QED BY <1>1, <2>3, <2>4
<1>4. Alternative("int16") = 0
  <2>1. Types[1] = "int16" /\ \A i \in 2 .. 11 : Types[i] # "int16"
    BY DEF Types
  <2>2. "int16" \in ToSet(Types)
    BY <1>2, <2>1
  <2>3. Alternative("int16") + 1 \in 1 .. 11 /\ Types[Alternative("int16") + 1] = "int16" /\ Alternative("int16") \in Int
    BY <1>3, <2>2
  <2> QED BY <2>1, <2>3
<1> QED BY <1>2, <1>3, <1>4

LEMMA TypesOfValues ==
    ASSUME NEW v \in Value
    PROVE  v.type \in ToSet(Types)
<1>1. /\ Types[1] = "int16" /\ Types[2] = "uint16" /\ Types[3] = "int32" /\ Types[4] = "uint32"
      /\ Types[5] = "int64" /\ Types[6] = "uint64" /\ Types[7] = "string" /\ Types[8] = "float"
      /\ Types[9] = "double" /\ Types[10] = "fncall" /\ Types[11] = "calltag"
  BY DEF Types
<1>2. \A i \in 1 .. 11 : Types[i] \in ToSet(Types)
  BY Alternatives
<1>3. Integral \cup Floating \cup {"string", "calltag", "fncall"} \subseteq ToSet(Types)
  BY <1>1, <1>2 DEF Integral, Floating
<1>4. v.type \in Signed \cup (Integral \ Signed) \cup Floating \cup {"string", "calltag", "fncall"}
  BY Kinds, SerializationAssumption DEF Value
<1> QED BY <1>3, <1>4 DEF Signed, Integral

\* Two values of one type.
SameKind(a, b) ==
    \/ /\ a.type \in Integral /\ a.int \in Int /\ b.int \in Int
       /\ Compare(a, b) = Sign(a.int - b.int) /\ (a.int = b.int => a = b)
    \/ /\ a.type \in Floating /\ a.bits \in Int /\ b.bits \in Int
       /\ Compare(a, b) = Sign(a.bits - b.bits) /\ (a.bits = b.bits => a = b)
    \/ /\ a.type = "string" /\ a.str \in Seq(Nat) /\ b.str \in Seq(Nat)
       /\ Compare(a, b) = Lexicographic(a.str, b.str) /\ (a.str = b.str => a = b)
    \/ /\ a.type = "fncall" /\ a.name \in Seq(Nat) /\ b.name \in Seq(Nat)
       /\ Compare(a, b) = Lexicographic(a.name, b.name)
    \/ /\ a.type = "calltag" /\ Compare(a, b) = 0 /\ a = b

LEMMA OfOneType ==
    ASSUME NEW a \in Value, NEW b \in Value, a.type = b.type
    PROVE  SameKind(a, b)
<1>1. Sequence(Byte) \subseteq Seq(Nat)
  <2>1. Byte \subseteq Nat
    BY RadixIsLarge DEF Byte
  <2>2. Seq(Byte) \subseteq Seq(Nat)
    BY <2>1, SeqMonotonic
  <2> QED BY <2>2 DEF Sequence
<1>2. \A type \in Integral \cup Floating : SizeOf[type] \in Nat \ {0}
  BY Sizes
<1>3. \A w \in Nat \ {0} : SignedNumber(w) \subseteq Int /\ Number(w) \subseteq Int
  BY TwosComplements
<1> DEFINE OneOf(v) ==
      \/ v.type \in Integral /\ v.int \in Int /\ v = [type |-> v.type, int |-> v.int]
      \/ v.type \in Floating /\ v.bits \in Int /\ v = [type |-> v.type, bits |-> v.bits]
      \/ v.type = "string" /\ v.str \in Seq(Nat) /\ v = [type |-> v.type, str |-> v.str]
      \/ v.type = "calltag" /\ v = [type |-> v.type]
      \/ v.type = "fncall" /\ v.name \in Seq(Nat)
<1>4. ASSUME NEW v \in Value PROVE OneOf(v)
  <2>1. Signed \subseteq Integral
    BY DEF Signed, Integral
  <2>2. MaxNesting \in Nat /\ v \in Nested[MaxNesting]
    BY SerializationAssumption DEF Value
  <2>3. \/ /\ v.type \in Signed /\ v.int \in SignedNumber(SizeOf[v.type])
           /\ v = [type |-> v.type, int |-> v.int]
        \/ /\ v.type \in Integral \ Signed /\ v.int \in Number(SizeOf[v.type])
           /\ v = [type |-> v.type, int |-> v.int]
        \/ /\ v.type \in Floating /\ v.bits \in Number(SizeOf[v.type])
           /\ v = [type |-> v.type, bits |-> v.bits]
        \/ /\ v.type = "string" /\ v.str \in Sequence(Byte)
           /\ v = [type |-> v.type, str |-> v.str]
        \/ v.type = "calltag" /\ v = [type |-> v.type]
        \/ /\ v.type = "fncall" /\ v.name \in Sequence(Byte)
    BY <2>2, Kinds
  <2> QED BY <1>1, <1>2, <1>3, <2>1, <2>3
<1>5. OneOf(a) /\ OneOf(b)
  BY <1>4
<1>6. CASE a.type \in Integral
  <2>1. a.type \notin Floating \cup {"string", "calltag", "fncall"}
    BY <1>6 DEF Integral, Floating
  <2>2. Compare(a, b) = Sign(a.int - b.int)
    BY <1>6, <2>1 DEF Compare
  <2>3. a.int \in Int /\ b.int \in Int /\ (a.int = b.int => a = b)
    BY <1>5, <2>1
  <2> QED BY <1>6, <2>2, <2>3 DEF SameKind
<1>7. CASE a.type \in Floating
  <2>1. a.type \notin Integral \cup {"string", "calltag", "fncall"}
    BY <1>7 DEF Integral, Floating
  <2>2. Compare(a, b) = Sign(a.bits - b.bits)
    BY <1>7, <2>1 DEF Compare
  <2>3. a.bits \in Int /\ b.bits \in Int /\ (a.bits = b.bits => a = b)
    BY <1>5, <2>1
  <2> QED BY <1>7, <2>2, <2>3 DEF SameKind
<1>8. CASE a.type = "string"
  <2>1. a.type \notin Integral \cup Floating
    BY <1>8 DEF Integral, Floating
  <2>2. Compare(a, b) = Lexicographic(a.str, b.str)
    BY <1>8, <2>1 DEF Compare
  <2>3. a.str \in Seq(Nat) /\ b.str \in Seq(Nat) /\ (a.str = b.str => a = b)
    BY <1>5, <1>8, <2>1
  <2> QED BY <1>8, <2>2, <2>3 DEF SameKind
<1>9. CASE a.type = "fncall"
  <2>1. a.type \notin Integral \cup Floating
    BY <1>9 DEF Integral, Floating
  <2>2. Compare(a, b) = Lexicographic(a.name, b.name)
    BY <1>9, <2>1 DEF Compare
  <2>3. a.name \in Seq(Nat) /\ b.name \in Seq(Nat)
    BY <1>5, <1>9, <2>1
  <2> QED BY <1>9, <2>2, <2>3 DEF SameKind
<1>10. CASE a.type = "calltag"
  <2>1. a.type \notin Integral \cup Floating
    BY <1>10 DEF Integral, Floating
  <2>2. Compare(a, b) = 0
    BY <1>10, <2>1 DEF Compare
  <2>3. a = b
    BY <1>5, <1>10, <2>1
  <2> QED BY <1>10, <2>2, <2>3 DEF SameKind
<1> QED BY <1>5, <1>6, <1>7, <1>8, <1>9, <1>10

\* The order of values is total, and but for function calls only a value is
\* equal to itself.
LEMMA ValueOrder ==
    /\ \A a, b \in Value :
          /\ Compare(a, b) \in {-1, 0, 1} /\ Compare(b, a) = 0 - Compare(a, b)
          /\ b.type # "fncall" => (Compare(a, b) = 0 <=> a = b)
    /\ \A a \in Value : Compare(a, a) = 0
    /\ \A a, b, c \in Value : Compare(a, b) <= 0 /\ Compare(b, c) <= 0 => Compare(a, c) <= 0
<1> DEFINE rank(v) == Alternative(v.type)
<1>1. \A v \in Value : rank(v) \in Nat /\ Types[rank(v) + 1] = v.type
  BY TypesOfValues, Alternatives
<1>2. ASSUME NEW a \in Value, NEW b \in Value, a.type # b.type
      PROVE  Compare(a, b) = Sign(rank(a) - rank(b)) /\ rank(a) # rank(b)
  <2>1. Compare(a, b) = Sign(rank(a) - rank(b))
    BY <1>2 DEF Compare
  <2>2. rank(a) # rank(b)
    <3> HIDE DEF rank
    <3> QED BY <1>1, <1>2
  <2> QED BY <2>1, <2>2
<1> HIDE DEF rank
<1>3. ASSUME NEW a \in Value, NEW b \in Value
      PROVE  /\ Compare(a, b) \in {-1, 0, 1} /\ Compare(b, a) = 0 - Compare(a, b)
             /\ a = b => Compare(a, b) = 0
             /\ b.type # "fncall" => (Compare(a, b) = 0 <=> a = b)
  <2>1. CASE a.type # b.type
    <3>1. /\ Compare(a, b) = Sign(rank(a) - rank(b)) /\ Compare(b, a) = Sign(rank(b) - rank(a))
          /\ rank(a) # rank(b)
      BY <1>2, <2>1
    <3>2. rank(a) - rank(b) \in Int /\ rank(b) - rank(a) = 0 - (rank(a) - rank(b)) /\ rank(a) - rank(b) # 0
      <4> DEFINE m == rank(a)
                 n == rank(b)
      <4>1. m \in Nat /\ n \in Nat /\ m # n
        BY <1>1, <3>1
      <4> HIDE DEF m, n
      <4>2. m - n \in Int /\ n - m = 0 - (m - n) /\ m - n # 0
        BY <4>1
      <4> QED BY <4>2 DEF m, n
    <3>3. Compare(a, b) # 0
      BY <3>1, <3>2, Signs
    <3> QED BY <2>1, <3>1, <3>2, <3>3, Signs
  <2>2. CASE a.type = b.type
    <3>1. SameKind(a, b) /\ SameKind(b, a)
      BY <2>2, OfOneType
    <3>2. ASSUME NEW m \in Int, NEW n \in Int
          PROVE  /\ Sign(m - n) \in {-1, 0, 1} /\ Sign(n - m) = 0 - Sign(m - n)
                 /\ Sign(m - n) = 0 <=> m = n
      <4>1. m - n \in Int /\ n - m = 0 - (m - n) /\ (m - n = 0 <=> m = n)
        OBVIOUS
      <4> QED BY <4>1, Signs
    <3>3. CASE a.type \in Integral
      <4>1. a.type \notin Floating \cup {"string", "fncall", "calltag"}
        BY <3>3 DEF Integral, Floating
      <4> QED BY <2>2, <3>1, <3>2, <4>1 DEF SameKind
    <3>4. CASE a.type \in Floating
      <4>1. a.type \notin Integral \cup {"string", "fncall", "calltag"}
        BY <3>4 DEF Integral, Floating
      <4> QED BY <2>2, <3>1, <3>2, <4>1 DEF SameKind
    <3>5. CASE a.type \in {"string", "fncall", "calltag"}
      <4>1. a.type \notin Integral \cup Floating
        BY <3>5 DEF Integral, Floating
      <4> QED BY <2>2, <3>1, <3>5, <4>1, LexicographicOrder DEF SameKind
    <3> QED BY <3>1, <3>3, <3>4, <3>5 DEF SameKind
  <2> QED BY <2>1, <2>2
<1>4. ASSUME NEW a \in Value, NEW b \in Value, NEW c \in Value,
             Compare(a, b) <= 0, Compare(b, c) <= 0
      PROVE  Compare(a, c) <= 0
  <2>1. ASSUME NEW u \in Value, NEW v \in Value, u.type # v.type
        PROVE  Compare(u, v) <= 0 <=> rank(u) < rank(v)
    <3>1. Compare(u, v) = Sign(rank(u) - rank(v)) /\ rank(u) # rank(v)
      BY <1>2, <2>1
    <3> QED BY <1>1, <3>1 DEF Sign
  <2>2. \A u, v \in Value : u.type = v.type => rank(u) = rank(v)
    BY DEF rank
  <2>3. CASE a.type = b.type /\ b.type = c.type
    <3>1. SameKind(a, b) /\ SameKind(b, c) /\ SameKind(a, c)
      BY <2>3, OfOneType
    <3>2. ASSUME NEW k \in Int, NEW m \in Int, NEW n \in Int, Sign(k - m) <= 0, Sign(m - n) <= 0
          PROVE  Sign(k - n) <= 0
      BY <3>2 DEF Sign
    <3>3. CASE a.type \in Integral
      <4>1. a.type \notin Floating \cup {"string", "fncall", "calltag"}
        BY <3>3 DEF Integral, Floating
      <4> QED BY <1>4, <2>3, <3>1, <3>2, <4>1 DEF SameKind
    <3>4. CASE a.type \in Floating
      <4>1. a.type \notin Integral \cup {"string", "fncall", "calltag"}
        BY <3>4 DEF Integral, Floating
      <4> QED BY <1>4, <2>3, <3>1, <3>2, <4>1 DEF SameKind
    <3>5. CASE a.type \in {"string", "fncall", "calltag"}
      <4>1. a.type \notin Integral \cup Floating
        BY <3>5 DEF Integral, Floating
      <4> QED BY <1>4, <2>3, <3>1, <3>5, <4>1, LexicographicOrder DEF SameKind
    <3> QED BY <3>1, <3>3, <3>4, <3>5 DEF SameKind
  <2>4. CASE ~(a.type = b.type /\ b.type = c.type)
    <3>1. rank(a) <= rank(b) /\ rank(b) <= rank(c) /\ (a.type # b.type => rank(a) < rank(b))
          /\ (b.type # c.type => rank(b) < rank(c))
      BY <1>1, <1>4, <2>1, <2>2
    <3>2. rank(a) < rank(c)
      BY <1>1, <2>4, <3>1
    <3>3. a.type # c.type
      BY <1>1, <2>2, <3>2
    <3> QED BY <2>1, <3>2, <3>3
  <2> QED BY <2>3, <2>4
<1> QED BY <1>3, <1>4

-----------------------------------------------------------------------------
(* Matchers.                                                               *)

Matcher ==
    [kind : {"value"}, value : Value]
    \cup [kind : {"typed"}, value : {v \in Value : v.type \in Integral \cup {"string"}}]
    \cup [kind : {"type"}, type : ToSet(Types)]

LEMMA KindsOfMatchers ==
    ASSUME NEW m \in Matcher
    PROVE  \/ m.kind = "value" /\ m.value \in Value
           \/ m.kind = "typed" /\ m.value \in Value /\ m.value.type \in Integral \cup {"string"}
           \/ m.kind = "type" /\ m.type \in ToSet(Types)
<1> HIDE DEF Value, Types, Integral
<1> QED BY DEF Matcher

\* What the order of a value and a matcher says: they are equal iff the value
\* is what is asked for, but for plain int16 and function calls.
LEMMA FieldOrders ==
    /\ \A v \in Value, m \in Matcher : FieldOrder(v, m) \in {-1, 0, 1}
    /\ \A v, u \in Value : FieldOrder(v, [kind |-> "value", value |-> u]) = Compare(v, u)
    /\ \A v \in Value, m \in Matcher :
          /\ m.kind = "type" => (FieldOrder(v, m) = 0 <=> v.type = m.type)
          /\ /\ m.kind # "type" /\ m.value.type # "fncall"
             /\ m.kind = "typed" => m.value.type # "int16"
             => (FieldOrder(v, m) = 0 <=> v = m.value)
<1>1. \A v, u \in Value : FieldOrder(v, [kind |-> "value", value |-> u]) = Compare(v, u)
  BY DEF FieldOrder
<1>2. ASSUME NEW v \in Value, NEW m \in Matcher
      PROVE  /\ FieldOrder(v, m) \in {-1, 0, 1}
             /\ m.kind = "type" => (FieldOrder(v, m) = 0 <=> v.type = m.type)
             /\ /\ m.kind # "type" /\ m.value.type # "fncall"
                /\ m.kind = "typed" => m.value.type # "int16"
                => (FieldOrder(v, m) = 0 <=> v = m.value)
  <2>0. v.type \in ToSet(Types)
    BY TypesOfValues
  <2>1. CASE m.kind = "value" /\ m.value \in Value
    <3>1. FieldOrder(v, m) = Compare(v, m.value)
      BY <2>1 DEF FieldOrder
    <3> QED BY <2>1, <3>1, ValueOrder
  <2>2. CASE m.kind = "typed" /\ m.value \in Value
    <3>1. CASE v.type = m.value.type
      <4>1. FieldOrder(v, m) = Compare(m.value, v)
        BY <2>2, <3>1 DEF FieldOrder
      <4> QED BY <2>2, <3>1, <4>1, ValueOrder
    <3>2. CASE v.type # m.value.type
      <4> DEFINE i == Alternative(m.value.type)
      <4>1. FieldOrder(v, m) = Sign(0 - i)
        BY <2>2, <3>2 DEF FieldOrder
      <4>2. i \in 0 .. 10 /\ Types[i + 1] = m.value.type
        BY <2>2, TypesOfValues, Alternatives
      <4>3. Types[1] = "int16"
        BY DEF Types
      <4>4. m.value.type # "int16" => i # 0
        <5> HIDE DEF i
        <5> QED BY <4>2, <4>3
      <4> HIDE DEF i
      <4>5. Sign(0 - i) \in {-1, 0, 1} /\ (i # 0 => Sign(0 - i) # 0)
        BY <4>2 DEF Sign
      <4> QED BY <2>2, <3>2, <4>1, <4>4, <4>5
    <3> QED BY <3>1, <3>2
  <2>3. CASE m.kind = "type" /\ m.type \in ToSet(Types)
    <3> DEFINE i == Alternative(v.type)
               j == Alternative(m.type)
    <3>1. FieldOrder(v, m) = Sign(i - j)
      BY <2>3 DEF FieldOrder
    <3>2. i \in 0 .. 10 /\ j \in 0 .. 10 /\ Types[i + 1] = v.type /\ Types[j + 1] = m.type
      BY <2>0, <2>3, Alternatives
    <3>3. v.type = m.type => i = j
      OBVIOUS
    <3> HIDE DEF i, j
    <3>4. Sign(i - j) \in {-1, 0, 1} /\ (Sign(i - j) = 0 <=> i = j)
      BY <3>2 DEF Sign
    <3> QED BY <2>3, <3>1, <3>2, <3>3, <3>4
  <2> QED BY <2>1, <2>2, <2>3, KindsOfMatchers
<1> QED BY <1>1, <1>2

-----------------------------------------------------------------------------
(* std::lower_bound.                                                       *)

\* What it leaves to look for, of count keys from first on.
Halved(among, order, count, first) ==
    LET half == count \div 2 IN
    IF count = 0 THEN first
    ELSE IF order[first + half] < 0 THEN among[count - half - 1][first + half + 1]
         ELSE among[half][first]

\* How the keys of a node are to m.
OrderOf(node, m) == [k \in 1 .. Len(node) |-> FieldOrder(node[k].key, m)]

LEMMA Bisection ==
    ASSUME NEW node, Len(node) \in Nat, NEW m
    PROVE  \E among : /\ LowerBound(node, m) = among[Len(node)][1]
                      /\ \A count \in 0 .. Len(node), first \in Nat :
                            first + count <= Len(node) + 1 /\ first > 0 =>
                               among[count][first] = Halved(among, OrderOf(node, m), count, first)
<1> DEFINE D == 0 .. Len(node)
           R == [Nat -> Nat]
           F == [D -> R]
           zero == [n \in Nat |-> 0]
           measure == [count \in D |-> count]
           Next(f, count, first) ==
              LET half == count \div 2 IN
              IF count = 0 THEN first
              ELSE IF FieldOrder(node[first + half].key, m) < 0
                   THEN f[count - half - 1][first + half + 1]
                   ELSE f[half][first]
           phi == [count \in D |-> [f \in F |-> [first \in Nat |-> Next(f, count, first)]]]
           body(f) == [count \in D |-> [first \in Nat |-> Next(f, count, first)]]
           among == CHOOSE f : f = body(f)
<1>1. LowerBound(node, m) = among[Len(node)][1]
  BY DEF LowerBound
<1>2. \A count \in D : count # 0 =>
         /\ count \div 2 \in D /\ count - (count \div 2) - 1 \in D
         /\ count \div 2 < count /\ count - (count \div 2) - 1 < count
  <2> TAKE count \in D
  <2>1. count \div 2 \in Nat /\ 2 * (count \div 2) <= count
    OBVIOUS
  <2> QED BY <2>1
<1>3. ASSUME NEW f \in F, NEW count \in D, NEW first \in Nat PROVE Next(f, count, first) \in Nat
  <2>1. count # 0 => f[count \div 2] \in R /\ f[count - (count \div 2) - 1] \in R
    BY <1>2
  <2>2. count # 0 => first + (count \div 2) + 1 \in Nat
    BY <1>2
  <2> QED BY <2>1, <2>2
<1>4. phi \in [D -> [F -> R]]
  <2> HIDE DEF D, Next
  <2> QED BY <1>3
<1>5. measure \in [D -> Nat] /\ zero \in R
  OBVIOUS
<1>6. LooksBack(D, measure, F, phi)
  <2> SUFFICES ASSUME NEW f \in F, NEW g \in F, NEW count \in D,
                      \A y \in D : measure[y] < measure[count] => f[y] = g[y]
               PROVE  phi[count][f] = phi[count][g]
    BY DEF LooksBack
  <2>1. count # 0 => f[count \div 2] = g[count \div 2] /\ f[count - (count \div 2) - 1] = g[count - (count \div 2) - 1]
    BY <1>2
  <2>2. \A first \in Nat : Next(f, count, first) = Next(g, count, first)
    BY <2>1
  <2> HIDE DEF Next, D, R
  <2> QED BY <2>2
<1>7. PICK f \in F : \A count \in D : f[count] = phi[count][f]
  <2> HIDE DEF D, R, measure, zero, phi
  <2>1. Recursive(D, F, phi) # {}
    BY <1>4, <1>5, <1>6, RecursionInto
  <2> QED BY <2>1 DEF Recursive
<1>8. f = body(f)
  <2> HIDE DEF Next, D, R
  <2> QED BY <1>7
<1>9. among = body(among)
  <2> HIDE DEF body
  <2> QED BY <1>8
<1> HIDE DEF among
<1>10. ASSUME NEW count \in D, NEW first \in Nat, first + count <= Len(node) + 1, first > 0
       PROVE  among[count][first] = Halved(among, OrderOf(node, m), count, first)
  <2>1. among[count][first] = Next(among, count, first)
    <3> HIDE DEF Next, D
    <3>1. among[count] = [n \in Nat |-> Next(among, count, n)]
      BY <1>9
    <3> QED BY <3>1
  <2>2. count # 0 => first + (count \div 2) \in 1 .. Len(node)
    BY <1>2, <1>10
  <2>3. count # 0 => OrderOf(node, m)[first + (count \div 2)] = FieldOrder(node[first + (count \div 2)].key, m)
    BY <2>2 DEF OrderOf
  <2> QED BY <2>1, <2>3 DEF Halved
<1> QED BY <1>1, <1>10

\* Whatever is before a key that is less than m is less than m.
Downward(order, L) == \A j, k \in 1 .. L : j < k /\ order[k] < 0 => order[j] < 0

LEMMA Bisected ==
    ASSUME NEW L \in Nat, NEW order \in [1 .. L -> Int], NEW among,
           \A count \in 0 .. L, first \in Nat :
              first + count <= L + 1 /\ first > 0 =>
                 among[count][first] = Halved(among, order, count, first)
    PROVE  /\ among[L][1] \in 1 .. L + 1
           /\ Downward(order, L) => \A k \in 1 .. L : order[k] < 0 <=> k < among[L][1]
<1> DEFINE Right(count, first) ==
              /\ among[count][first] \in first .. first + count
              /\ Downward(order, L) =>
                    \A k \in first .. first + count - 1 : order[k] < 0 <=> k < among[count][first]
           I == {n \in Nat : \A count \in 0 .. L, first \in Nat :
                    count < n /\ first > 0 /\ first + count <= L + 1 => Right(count, first)}
<1>1. 0 \in I
  OBVIOUS
<1>2. ASSUME NEW n \in Nat, n \in I PROVE n + 1 \in I
  <2> SUFFICES ASSUME NEW count \in 0 .. L, NEW first \in Nat,
                      count < n + 1, first > 0, first + count <= L + 1
               PROVE  Right(count, first)
    OBVIOUS
  <2>0. \A c \in 0 .. L, f \in Nat : c < n /\ f > 0 /\ f + c <= L + 1 => Right(c, f)
    BY <1>2
  <2> HIDE DEF I
  <2> DEFINE half == count \div 2
             mid == first + half
             rest == count - half - 1
  <2>1. among[count][first] =
           IF count = 0 THEN first
           ELSE IF order[mid] < 0 THEN among[rest][mid + 1] ELSE among[half][first]
    BY DEF Halved
  <2>2. half \in Nat /\ (count > 0 => half < count)
    OBVIOUS
  <2> HIDE DEF half
  <2>3. count > 0 => /\ half \in 0 .. L /\ rest \in 0 .. L /\ half < n /\ rest < n
                     /\ mid \in first .. first + count - 1 /\ mid \in 1 .. L
                     /\ mid + 1 + rest = first + count /\ first + half <= L + 1
                     /\ mid + 1 \in Nat
    BY <2>2
  <2> DEFINE b == among[count][first]
  <2>4. CASE count = 0
    <3>1. b = first
      BY <2>1, <2>4
    <3> HIDE DEF b
    <3>2. b \in first .. first + count /\ \A k \in first .. first + count - 1 : FALSE
      BY <2>4, <3>1
    <3> QED BY <3>2 DEF b
  <2>5. CASE count > 0 /\ order[mid] < 0
    <3>1. b = among[rest][mid + 1]
      BY <2>1, <2>5
    <3>2. Right(rest, mid + 1)
      <4> HIDE DEF Right, mid, rest, b
      <4>1. rest \in 0 .. L /\ mid + 1 \in Nat /\ rest < n /\ mid + 1 > 0 /\ mid + 1 + rest <= L + 1
        BY SMTT(30), <2>3, <2>5
      <4> QED BY <2>0, <4>1
    <3>3. /\ b \in mid + 1 .. first + count
          /\ Downward(order, L) => \A k \in mid + 1 .. first + count - 1 : order[k] < 0 <=> k < b
      <4>1. (mid + 1) + rest = first + count /\ mid + 1 \in Int /\ rest \in Int
        BY <2>3, <2>5
      <4> HIDE DEF mid, rest, b
      <4>2. /\ b \in mid + 1 .. (mid + 1) + rest
            /\ Downward(order, L) =>
                 \A k \in mid + 1 .. (mid + 1) + rest - 1 : order[k] < 0 <=> k < b
        BY <3>1, <3>2
      <4> QED BY <4>1, <4>2
    <3> HIDE DEF b, mid, rest
    <3>4. b \in first .. first + count
      BY <2>3, <2>5, <3>3
    <3>5. ASSUME Downward(order, L), NEW k \in first .. first + count - 1
          PROVE  order[k] < 0 <=> k < b
      <4>1. k \in 1 .. L /\ (k <= mid \/ k \in mid + 1 .. first + count - 1)
        BY SMTT(30), <2>3, <2>5
      <4>2. k <= mid => order[k] < 0
        BY <2>3, <2>5, <3>5, <4>1 DEF Downward
      <4>3. k <= mid => k < b
        BY <2>3, <2>5, <3>3, <4>1
      <4> QED BY <3>3, <3>5, <4>1, <4>2, <4>3
    <3> QED BY <3>4, <3>5 DEF b
  <2>6. CASE count > 0 /\ ~(order[mid] < 0)
    <3>1. b = among[half][first]
      BY <2>1, <2>6
    <3>2. Right(half, first)
      BY <2>0, <2>3, <2>6
    <3>3. /\ b \in first .. first + half
          /\ Downward(order, L) => \A k \in first .. first + half - 1 : order[k] < 0 <=> k < b
      BY <2>3, <2>6, <3>1, <3>2
    <3>4. mid = first + half
      OBVIOUS
    <3> HIDE DEF b, mid, rest
    <3>5. b \in first .. first + count
      BY <2>2, <2>6, <3>3
    <3>6. ASSUME Downward(order, L), NEW k \in first .. first + count - 1
          PROVE  order[k] < 0 <=> k < b
      <4>1. k \in 1 .. L /\ (k >= mid \/ k \in first .. first + half - 1)
        BY <2>2, <2>3, <2>6, <3>4
      <4>2. k >= mid => ~(order[k] < 0)
        BY SMTT(30), <2>3, <2>6, <3>6, <4>1 DEF Downward
      <4>3. k >= mid => ~(k < b)
        BY <2>2, <2>3, <2>6, <3>3, <3>4, <4>1
      <4> QED BY <3>3, <3>6, <4>1, <4>2, <4>3
    <3> QED BY <3>5, <3>6 DEF b
  <2> QED BY <2>4, <2>5, <2>6
<1>3. L + 1 \in I
  <2> HIDE DEF I
  <2>1. Nat \subseteq I
    BY <1>1, <1>2, SetInduction
  <2> QED BY <2>1
<1>4. Right(L, 1)
  <2>1. L \in 0 .. L /\ L < L + 1 /\ 1 > 0 /\ 1 + L <= L + 1
    OBVIOUS
  <2> QED BY <1>3, <2>1
<1> QED BY <1>4

\* A binary search ends in the node or right behind it, at the first key that
\* is not less than m if the keys that are less come first.
LEMMA Bounds ==
    ASSUME NEW node, Len(node) \in Nat, NEW m,
           \A k \in 1 .. Len(node) : FieldOrder(node[k].key, m) \in Int
    PROVE  /\ LowerBound(node, m) \in 1 .. Len(node) + 1
           /\ Downward(OrderOf(node, m), Len(node)) =>
                 \A k \in 1 .. Len(node) : FieldOrder(node[k].key, m) < 0 <=> k < LowerBound(node, m)
<1> DEFINE L == Len(node)
           order == OrderOf(node, m)
<1>1. PICK among : /\ LowerBound(node, m) = among[L][1]
                   /\ \A count \in 0 .. L, first \in Nat :
                         first + count <= L + 1 /\ first > 0 =>
                            among[count][first] = Halved(among, order, count, first)
  BY SMTT(30), Bisection
<1>2. order \in [1 .. L -> Int] /\ \A k \in 1 .. L : order[k] = FieldOrder(node[k].key, m)
  BY DEF OrderOf
<1> HIDE DEF L, order
<1>3. /\ among[L][1] \in 1 .. L + 1
      /\ Downward(order, L) => \A k \in 1 .. L : order[k] < 0 <=> k < among[L][1]
  BY <1>1, <1>2, Bisected DEF L
<1> QED BY <1>1, <1>2, <1>3 DEF L, order

-----------------------------------------------------------------------------
(* Index nodes.                                                            *)

Entry == [key : Value, held : Seq(Nat)]

ByValue(v) == [kind |-> "value", value |-> v]

LEMMA BoundsOfNode ==
    ASSUME NEW node \in Seq(Entry), NEW m \in Matcher
    PROVE  /\ Len(node) \in Nat /\ \A k \in 1 .. Len(node) : node[k].key \in Value
           /\ \A k \in 1 .. Len(node) : FieldOrder(node[k].key, m) \in {-1, 0, 1}
           /\ LowerBound(node, m) \in 1 .. Len(node) + 1
           /\ Downward(OrderOf(node, m), Len(node)) =>
                 \A k \in 1 .. Len(node) : FieldOrder(node[k].key, m) < 0 <=> k < LowerBound(node, m)
<1>1. Len(node) \in Nat /\ \A k \in 1 .. Len(node) : node[k].key \in Value
  <2>1. Len(node) \in Nat /\ \A k \in 1 .. Len(node) : node[k] \in Entry
    BY LenProperties
  <2> QED BY <2>1 DEF Entry
<1>2. \A k \in 1 .. Len(node) : FieldOrder(node[k].key, m) \in {-1, 0, 1}
  BY <1>1, FieldOrders
<1>3. \A k \in 1 .. Len(node) : FieldOrder(node[k].key, m) \in Int
  BY <1>2
<1> QED BY <1>1, <1>2, <1>3, Bounds

\* Node r is node with n under v too.
FiledInto(node, v, n, at, r) ==
    \/ /\ at \in 1 .. Len(node) /\ Compare(node[at].key, v) = 0
       /\ Len(r) = Len(node)
       /\ \A k \in 1 .. Len(node) :
             /\ r[k].key = node[k].key
             /\ r[k].held = IF k = at THEN Append(node[k].held, n) ELSE node[k].held
    \/ /\ at \in 1 .. Len(node) => Compare(node[at].key, v) # 0
       /\ Len(r) = Len(node) + 1
       /\ r[at] = [key |-> v, held |-> <<n>>]
       /\ \A k \in 1 .. Len(node) : IF k < at THEN r[k] = node[k] ELSE r[k + 1] = node[k]

LEMMA Filing ==
    ASSUME NEW node \in Seq(Entry), NEW v \in Value, NEW n \in Nat
    PROVE  /\ Filed(node, v, n) \in Seq(Entry)
           /\ LowerBound(node, ByValue(v)) \in 1 .. Len(node) + 1
           /\ FiledInto(node, v, n, LowerBound(node, ByValue(v)), Filed(node, v, n))
<1> DEFINE m == ByValue(v)
           at == LowerBound(node, m)
           L == Len(node)
           e == [key |-> v, held |-> <<n>>]
           more == [node EXCEPT ![at].held = Append(@, n)]
<1>1. m \in Matcher
  BY DEF ByValue, Matcher
<1> HIDE DEF m
<1>2. at \in 1 .. L + 1 /\ L \in Nat
  BY <1>1, BoundsOfNode
<1>3. Filed(node, v, n) = IF at <= L /\ Compare(node[at].key, v) = 0 THEN more
                          ELSE InsertAt(node, at, e)
  BY DEF Filed, m, ByValue
<1> HIDE DEF at
<1>4. CASE at <= L /\ Compare(node[at].key, v) = 0
  <2>1. at \in 1 .. L /\ Filed(node, v, n) = more
    BY <1>2, <1>3, <1>4
  <2>2. node = [k \in 1 .. L |-> node[k]] /\ \A k \in 1 .. L : node[k] \in Entry
    BY LenProperties
  <2>3. \A k \in 1 .. L : more[k] = IF k = at THEN [node[k] EXCEPT !.held = Append(@, n)] ELSE node[k]
    BY <2>1, <2>2
  <2>4. \A w \in Entry : /\ [w EXCEPT !.held = Append(@, n)] \in Entry
                         /\ [w EXCEPT !.held = Append(@, n)].key = w.key
                         /\ [w EXCEPT !.held = Append(@, n)].held = Append(w.held, n)
    <3> TAKE w \in Entry
    <3>1. Append(w.held, n) \in Seq(Nat)
      BY AppendProperties DEF Entry
    <3> HIDE DEF Value
    <3> QED BY <3>1 DEF Entry
  <2>5. more = [k \in 1 .. L |-> more[k]]
    BY <2>1, <2>2
  <2> HIDE DEF more, L
  <2>6. \A k \in 1 .. L : more[k] \in Entry
    BY <2>2, <2>3, <2>4
  <2>7. more \in [1 .. L -> Entry]
    BY <2>5, <2>6
  <2>8. more \in Seq(Entry) /\ Len(more) = L
    <3>1. more \in Seq(Entry) /\ DOMAIN more = 1 .. L
      BY <1>2, <2>7, SeqDef
    <3>2. Len(more) \in Nat /\ DOMAIN more = 1 .. Len(more)
      BY <3>1, LenProperties
    <3> QED BY <1>2, <3>1, <3>2
  <2> QED BY <1>2, <1>4, <2>1, <2>2, <2>3, <2>4, <2>8 DEF FiledInto, L, at, m
<1>5. CASE ~(at <= L /\ Compare(node[at].key, v) = 0)
  <2>1. Filed(node, v, n) = InsertAt(node, at, e)
    BY <1>3, <1>5
  <2>2. e \in Entry
    <3>1. <<n>> \in Seq(Nat)
      OBVIOUS
    <3> HIDE DEF Value
    <3> QED BY <3>1 DEF Entry
  <2> HIDE DEF e
  <2>3. /\ InsertAt(node, at, e) \in Seq(Entry)
        /\ Len(InsertAt(node, at, e)) = L + 1
        /\ InsertAt(node, at, e)[at] = e
        /\ \A k \in 1 .. L :
              IF k < at THEN InsertAt(node, at, e)[k] = node[k] ELSE InsertAt(node, at, e)[k + 1] = node[k]
    BY <1>2, <2>2, InsertedAt
  <2>4. at \in 1 .. L => Compare(node[at].key, v) # 0
    BY <1>5
  <2> QED BY <1>2, <2>1, <2>3, <2>4 DEF FiledInto, at, m, e
<1> QED BY <1>4, <1>5

\* The keys are in order, and no two are equal.
Sorted(node) ==
    \A j, k \in 1 .. Len(node) : j < k => Compare(node[j].key, node[k].key) < 0

\* Position p is under value v.
Holds(node, v, p) ==
    \E k \in 1 .. Len(node) : /\ Compare(node[k].key, v) = 0
                              /\ \E h \in 1 .. Len(node[k].held) : node[k].held[h] = p

\* The positions in a node are among P.
HoldsOnly(node, P) ==
    \A k \in 1 .. Len(node) : \A h \in 1 .. Len(node[k].held) : node[k].held[h] \in P

LEMMA StrictOrder ==
    ASSUME NEW a \in Value, NEW b \in Value, NEW c \in Value
    PROVE  /\ Compare(a, b) < 0 /\ Compare(b, c) <= 0 => Compare(a, c) < 0
           /\ Compare(a, b) <= 0 /\ Compare(b, c) < 0 => Compare(a, c) < 0
           /\ Compare(a, b) = 0 => Compare(a, c) = Compare(b, c)
<1> DEFINE ab == Compare(a, b)
           bc == Compare(b, c)
           ac == Compare(a, c)
           ba == Compare(b, a)
           cb == Compare(c, b)
           ca == Compare(c, a)
<1>1. /\ ab \in {-1, 0, 1} /\ bc \in {-1, 0, 1} /\ ac \in {-1, 0, 1}
      /\ ba = 0 - ab /\ cb = 0 - bc /\ ca = 0 - ac
  BY ValueOrder
<1>2. /\ ab <= 0 /\ bc <= 0 => ac <= 0
      /\ bc <= 0 /\ ca <= 0 => ba <= 0
      /\ ca <= 0 /\ ab <= 0 => cb <= 0
      /\ ba <= 0 /\ ac <= 0 => bc <= 0
  BY ValueOrder
<1>3. /\ cb <= 0 /\ ba <= 0 => ca <= 0
      /\ ac <= 0 /\ cb <= 0 => ab <= 0
  BY ValueOrder
<1> HIDE DEF ab, bc, ac, ba, cb, ca
<1>4. /\ ab < 0 /\ bc <= 0 => ac < 0
      /\ ab <= 0 /\ bc < 0 => ac < 0
      /\ ab = 0 => ac = bc
  BY <1>1, <1>2, <1>3
<1> QED BY <1>4 DEF ab, bc, ac

LEMMA SortedDownward ==
    ASSUME NEW node \in Seq(Entry), NEW v \in Value, Sorted(node)
    PROVE  Downward(OrderOf(node, ByValue(v)), Len(node))
<1> DEFINE order == OrderOf(node, ByValue(v))
<1>1. \A k \in 1 .. Len(node) : node[k].key \in Value
  <2>1. ByValue(v) \in Matcher
    BY DEF ByValue, Matcher
  <2> QED BY <2>1, BoundsOfNode
<1>2. \A k \in 1 .. Len(node) : order[k] = Compare(node[k].key, v)
  BY <1>1, FieldOrders DEF OrderOf, ByValue
<1> HIDE DEF order
<1>3. ASSUME NEW j \in 1 .. Len(node), NEW k \in 1 .. Len(node), j < k, order[k] < 0
      PROVE  order[j] < 0
  <2>1. Compare(node[j].key, node[k].key) < 0 /\ Compare(node[k].key, v) < 0
    BY <1>2, <1>3 DEF Sorted
  <2>2. Compare(node[j].key, node[k].key) \in {-1, 0, 1}
    BY <1>1, ValueOrder
  <2>3. Compare(node[j].key, v) < 0
    BY <1>1, <2>1, <2>2, StrictOrder
  <2> QED BY <1>2, <2>3
<1> QED BY <1>3 DEF Downward, order

\* What filing does to a node that is in order.
LEMMA FiledInOrder ==
    ASSUME NEW node \in Seq(Entry), NEW v \in Value, NEW n \in Nat, NEW P, n \in P
    PROVE  /\ Filed(node, v, n) \in Seq(Entry)
           /\ HoldsOnly(node, P) => HoldsOnly(Filed(node, v, n), P)
           /\ Holds(Filed(node, v, n), v, n)
           /\ \A u \in Value, p \in Nat : Holds(node, u, p) => Holds(Filed(node, v, n), u, p)
           /\ Sorted(node) => Sorted(Filed(node, v, n))
<1> DEFINE r == Filed(node, v, n)
           at == LowerBound(node, ByValue(v))
           L == Len(node)
<1>1. r \in Seq(Entry) /\ at \in 1 .. L + 1 /\ L \in Nat /\ FiledInto(node, v, n, at, r)
  BY Filing, LenProperties
<1>2. \A k \in 1 .. L : node[k] \in Entry /\ node[k].key \in Value /\ node[k].held \in Seq(Nat)
  <2>1. \A k \in 1 .. L : node[k] \in Entry
    BY LenProperties
  <2> QED BY <2>1 DEF Entry
<1>3. Sorted(node) => \A k \in 1 .. L : Compare(node[k].key, v) < 0 <=> k < at
  <2>1. ByValue(v) \in Matcher
    BY DEF ByValue, Matcher
  <2>2. \A k \in 1 .. L : FieldOrder(node[k].key, ByValue(v)) = Compare(node[k].key, v)
    BY <1>2, FieldOrders DEF ByValue
  <2> QED BY <2>1, <2>2, BoundsOfNode, SortedDownward
<1> HIDE DEF r, at, L
<1>4. CASE /\ at \in 1 .. L /\ Compare(node[at].key, v) = 0
           /\ Len(r) = L
           /\ \A k \in 1 .. L : /\ r[k].key = node[k].key
                                /\ r[k].held = IF k = at THEN Append(node[k].held, n) ELSE node[k].held
  <2>1. ASSUME NEW k \in 1 .. L
        PROVE  /\ Len(node[k].held) \in Nat
               /\ k # at => r[k].held = node[k].held
               /\ k = at => /\ Len(r[k].held) = Len(node[k].held) + 1
                            /\ r[k].held[Len(node[k].held) + 1] = n
                            /\ \A h \in 1 .. Len(node[k].held) : r[k].held[h] = node[k].held[h]
    <3> DEFINE held == node[k].held
    <3>1. held \in Seq(Nat) /\ r[k].held = IF k = at THEN Append(held, n) ELSE held
      BY <1>2, <1>4
    <3> HIDE DEF held
    <3>2. /\ Len(held) \in Nat /\ Len(Append(held, n)) = Len(held) + 1
          /\ Append(held, n)[Len(held) + 1] = n
          /\ \A h \in 1 .. Len(held) : Append(held, n)[h] = held[h]
      BY <3>1, AppendProperties, LenProperties
    <3> QED BY <3>1, <3>2 DEF held
  <2>2. HoldsOnly(node, P) => HoldsOnly(r, P)
    <3> SUFFICES ASSUME HoldsOnly(node, P), NEW k \in 1 .. L, NEW h \in 1 .. Len(r[k].held)
                 PROVE  r[k].held[h] \in P
      BY <1>4 DEF HoldsOnly
    <3>1. \A i \in 1 .. Len(node[k].held) : node[k].held[i] \in P
      BY DEF HoldsOnly, L
    <3>2. CASE k # at
      BY <2>1, <3>1, <3>2
    <3>3. CASE k = at
      <4>1. h \in 1 .. Len(node[k].held) \/ h = Len(node[k].held) + 1
        BY <2>1, <3>3
      <4> QED BY <2>1, <3>1, <3>3, <4>1
    <3> QED BY <3>2, <3>3
  <2>3. Holds(r, v, n)
    <3>1. r[at].key = node[at].key /\ Len(r[at].held) \in 1 .. Len(r[at].held) /\ r[at].held[Len(r[at].held)] = n
      BY <1>4, <2>1
    <3> QED BY <1>4, <3>1 DEF Holds
  <2>4. ASSUME NEW u \in Value, NEW p \in Nat, Holds(node, u, p) PROVE Holds(r, u, p)
    <3>1. PICK k \in 1 .. L : /\ Compare(node[k].key, u) = 0
                              /\ \E h \in 1 .. Len(node[k].held) : node[k].held[h] = p
      BY <2>4 DEF Holds, L
    <3>2. PICK h \in 1 .. Len(node[k].held) : node[k].held[h] = p
      BY <3>1
    <3>3. h \in 1 .. Len(r[k].held) /\ r[k].held[h] = p
      <4> DEFINE l == Len(node[k].held)
      <4>1. /\ l \in Nat /\ h \in 1 .. l
            /\ k # at => Len(r[k].held) = l
            /\ k = at => Len(r[k].held) = l + 1
        BY <2>1
      <4> HIDE DEF l
      <4>2. h \in 1 .. Len(r[k].held)
        BY <4>1
      <4> QED BY <2>1, <3>2, <4>2
    <3> QED BY <1>4, <3>1, <3>3 DEF Holds
  <2>5. Sorted(node) => Sorted(r)
    BY <1>4 DEF Sorted, L
  <2> QED BY <1>1, <2>2, <2>3, <2>4, <2>5 DEF r
<1>5. CASE /\ at \in 1 .. L => Compare(node[at].key, v) # 0
           /\ Len(r) = L + 1
           /\ r[at] = [key |-> v, held |-> <<n>>]
           /\ \A k \in 1 .. L : IF k < at THEN r[k] = node[k] ELSE r[k + 1] = node[k]
  <2>1. r[at].key = v /\ r[at].held = <<n>> /\ Len(<<n>>) = 1 /\ <<n>>[1] = n
    BY <1>5
  <2>2. ASSUME NEW k \in 1 .. L + 1
        PROVE  \/ k = at
               \/ k < at /\ k \in 1 .. L /\ r[k] = node[k]
               \/ at < k /\ k - 1 \in 1 .. L /\ at <= k - 1 /\ r[k] = node[k - 1]
    <3>1. k = at \/ (k < at /\ k \in 1 .. L) \/ (at < k /\ k - 1 \in 1 .. L /\ ~(k - 1 < at) /\ (k - 1) + 1 = k)
      BY <1>1
    <3>2. at < k => at <= k - 1
      BY <1>1
    <3> QED BY <1>5, <3>1, <3>2
  <2>3. HoldsOnly(node, P) => HoldsOnly(r, P)
    <3> SUFFICES ASSUME HoldsOnly(node, P), NEW k \in 1 .. L + 1, NEW h \in 1 .. Len(r[k].held)
                 PROVE  r[k].held[h] \in P
      BY <1>5 DEF HoldsOnly
    <3>1. \A j \in 1 .. L : \A i \in 1 .. Len(node[j].held) : node[j].held[i] \in P
      BY DEF HoldsOnly, L
    <3>2. CASE k = at
      BY <2>1, <3>2
    <3> QED BY <2>2, <3>1, <3>2
  <2>4. Holds(r, v, n)
    <3>1. Compare(v, v) = 0
      BY ValueOrder
    <3>2. 1 \in 1 .. Len(r[at].held) /\ r[at].held[1] = n
      BY <2>1
    <3> QED BY <1>1, <1>5, <2>1, <3>1, <3>2 DEF Holds
  <2>5. ASSUME NEW u \in Value, NEW p \in Nat, Holds(node, u, p) PROVE Holds(r, u, p)
    <3>1. PICK k \in 1 .. L : /\ Compare(node[k].key, u) = 0
                              /\ \E h \in 1 .. Len(node[k].held) : node[k].held[h] = p
      BY <2>5 DEF Holds, L
    <3>2. \E j \in 1 .. L + 1 : r[j] = node[k]
      <4>1. k \in 1 .. L + 1 /\ k + 1 \in 1 .. L + 1
        BY <1>1
      <4> QED BY <1>5, <4>1
    <3> QED BY SMTT(30), <1>5, <3>1, <3>2 DEF Holds
  <2>6. Sorted(node) => Sorted(r)
    <3> SUFFICES ASSUME Sorted(node), NEW j \in 1 .. L + 1, NEW k \in 1 .. L + 1, j < k
                 PROVE  Compare(r[j].key, r[k].key) < 0
      BY <1>5 DEF Sorted
    <3>1. \A i \in 1 .. L : i < at => Compare(node[i].key, v) < 0
      BY <1>1, <1>3
    <3>2. \A i \in 1 .. L : at <= i => Compare(v, node[i].key) < 0
      <4> TAKE i \in 1 .. L
      <4> HAVE at <= i
      <4>1. at \in 1 .. L /\ ~(i < at) /\ (at < i \/ at = i)
        BY <1>1
      <4>2. Compare(node[at].key, v) \in {0, 1} /\ Compare(node[at].key, v) # 0
        <5>1. ~(Compare(node[at].key, v) < 0) /\ Compare(node[at].key, v) \in {-1, 0, 1}
          BY <1>2, <1>3, <4>1, ValueOrder
        <5> QED BY <1>5, <4>1, <5>1
      <4>3. Compare(v, node[at].key) = 0 - Compare(node[at].key, v)
        BY <1>2, <4>1, ValueOrder
      <4>4. Compare(v, node[at].key) < 0
        BY <4>2, <4>3
      <4>5. at < i => Compare(node[at].key, node[i].key) < 0 /\ Compare(node[at].key, node[i].key) \in {-1, 0, 1}
        BY <1>2, <4>1, ValueOrder DEF Sorted, L
      <4>6. at < i => Compare(v, node[i].key) < 0
        BY <1>2, <4>1, <4>4, <4>5, StrictOrder
      <4> QED BY <4>1, <4>4, <4>6
    <3>3. \A a, b \in 1 .. L : a < b => Compare(node[a].key, node[b].key) < 0
      BY DEF Sorted, L
    <3>4. CASE j = at
      <4>1. at < k /\ k - 1 \in 1 .. L /\ at <= k - 1 /\ r[k] = node[k - 1]
        BY <1>1, <2>2, <3>4
      <4> QED BY <2>1, <3>2, <3>4, <4>1
    <3>5. CASE k = at
      <4>1. j < at /\ j \in 1 .. L /\ r[j] = node[j]
        BY <1>1, <2>2, <3>5
      <4> QED BY <2>1, <3>1, <3>5, <4>1
    <3>6. CASE j # at /\ k # at
      <4>1. \/ j < at /\ j \in 1 .. L /\ r[j] = node[j]
            \/ at < j /\ j - 1 \in 1 .. L /\ r[j] = node[j - 1]
        BY <2>2, <3>6
      <4>2. \/ k < at /\ k \in 1 .. L /\ r[k] = node[k]
            \/ at < k /\ k - 1 \in 1 .. L /\ r[k] = node[k - 1]
        BY <2>2, <3>6
      <4>3. /\ at < k => j - 1 < k - 1
            /\ j < at /\ at < k => j < k - 1
            /\ at < j => at < k
        BY <1>1
      <4> QED BY <3>3, <4>1, <4>2, <4>3
    <3> QED BY <3>4, <3>5, <3>6
  <2> QED BY <1>1, <2>3, <2>4, <2>5, <2>6 DEF r
<1> QED BY <1>1, <1>4, <1>5 DEF FiledInto, L

\* An index is in order, has no positions but those of the list, and has each
\* of them under the field of its tuple.
LEMMA Nodes ==
    ASSUME NEW list \in Seq(TuplesOf(Value)), NEW i \in Nat \ {0}
    PROVE  /\ Node(list, i) \in Seq(Entry) /\ Sorted(Node(list, i))
           /\ HoldsOnly(Node(list, i), 1 .. Len(list))
           /\ \A p \in 1 .. Len(list) :
                 i <= list[p].size => Fields(list[p])[i] \in Value /\ Holds(Node(list, i), Fields(list[p])[i], p)
<1> DEFINE L == Len(list)
           A == Seq(Entry)
           none == <<>>
           put(n, node) == IF i <= list[n].size THEN Filed(node, Fields(list[n])[i], n) ELSE node
           step == [n \in 1 .. L |-> [node \in A |-> put(n, node)]]
           body(f) == [n \in 0 .. L |-> IF n = 0 THEN <<>>
                                        ELSE IF i <= list[n].size
                                             THEN Filed(f[n - 1], Fields(list[n])[i], n)
                                             ELSE f[n - 1]]
           node == CHOOSE f : f = body(f)
<1>1. L \in Nat /\ \A n \in 1 .. L : list[n] \in TuplesOf(Value)
  BY LenProperties
<1>2. Node(list, i) = node[L]
  BY DEF Node
<1>3. none \in A
  OBVIOUS
<1>4. \A n \in 1 .. L : i <= list[n].size => Fields(list[n])[i] \in Value
  <2> TAKE n \in 1 .. L
  <2>1. /\ list[n].size = Len(Fields(list[n])) /\ Fields(list[n]) \in Seq(Value)
    BY <1>1, Tuples DEF Sequence
  <2> DEFINE vs == Fields(list[n])
  <2>2. vs \in Seq(Value) /\ (i <= list[n].size => i <= Len(vs))
    BY <2>1
  <2> HIDE DEF vs
  <2>3. i <= Len(vs) => vs[i] \in Value
    BY <2>2, LenProperties
  <2> QED BY <2>2, <2>3 DEF vs
<1>5. \A n \in 1 .. L, s \in A : put(n, s) \in A
  BY <1>1, <1>4, Filing
<1> HIDE DEF A, put, L
<1>6. step \in [1 .. L -> [A -> A]]
  BY <1>5
<1>7. PICK f \in [0 .. L -> A] : f[0] = none /\ \A n \in 1 .. L : f[n] = put(n, f[n - 1])
  <2> HIDE DEF step, none
  <2>1. Stepwise(L, A, none, step) # {}
    BY <1>1, <1>3, <1>6, Steps
  <2>2. PICK f \in [0 .. L -> A] : f[0] = none /\ \A n \in 1 .. L : f[n] = step[n][f[n - 1]]
    BY <2>1 DEF Stepwise
  <2>3. \A n \in 1 .. L : n - 1 \in 0 .. L /\ f[n - 1] \in A
    BY <1>1, <2>2
  <2> QED BY <2>2, <2>3 DEF step
<1>8. f = body(f)
  <2>1. \A n \in 0 .. L : n # 0 => n \in 1 .. L
    BY <1>1
  <2> QED BY <1>7, <2>1 DEF put
<1>9. node = body(node)
  <2> HIDE DEF body
  <2> QED BY <1>8
<1> HIDE DEF node
<1>10. node[0] = <<>> /\ \A n \in 1 .. L : node[n] = put(n, node[n - 1])
  <2>1. 0 \in 0 .. L /\ \A n \in 1 .. L : n \in 0 .. L /\ n # 0
    BY <1>1
  <2> QED BY <1>9, <2>1 DEF put
<1> DEFINE Good(n) == /\ node[n] \in A /\ Sorted(node[n]) /\ HoldsOnly(node[n], 1 .. L)
                      /\ \A p \in 1 .. n : i <= list[p].size => Holds(node[n], Fields(list[p])[i], p)
           I == {n \in Nat : n <= L => Good(n)}
<1>11. Good(0)
  <2>1. node[0] \in A /\ Len(node[0]) = 0
    BY <1>3, <1>10
  <2>2. Sorted(node[0]) /\ HoldsOnly(node[0], 1 .. L)
    BY <2>1 DEF Sorted, HoldsOnly
  <2>3. \A p \in 1 .. 0 : FALSE
    OBVIOUS
  <2> QED BY <2>1, <2>2, <2>3
<1>12. ASSUME NEW n \in Nat, n + 1 <= L, Good(n) PROVE Good(n + 1)
  <2> DEFINE m == n + 1
             v == Fields(list[m])[i]
  <2>1. m \in Nat /\ m \in 1 .. L /\ m - 1 = n
    BY <1>1, <1>12
  <2>2. node[m] = put(m, node[n])
    BY <1>10, <2>1
  <2>3. \A p \in 1 .. m : p \in Nat /\ p \in 1 .. L /\ (p = m \/ p \in 1 .. n)
    BY <1>1, <2>1
  <2> HIDE DEF m
  <2>4. CASE i <= list[m].size
    <3>1. v \in Value /\ node[m] = Filed(node[n], v, m)
      BY <1>4, <2>1, <2>2, <2>4 DEF put
    <3> HIDE DEF v
    <3>2. node[n] \in Seq(Entry)
      BY <1>12 DEF A
    <3>3. /\ Filed(node[n], v, m) \in Seq(Entry)
          /\ HoldsOnly(node[n], 1 .. L) => HoldsOnly(Filed(node[n], v, m), 1 .. L)
          /\ Holds(Filed(node[n], v, m), v, m)
          /\ \A u \in Value, p \in Nat : Holds(node[n], u, p) => Holds(Filed(node[n], v, m), u, p)
          /\ Sorted(node[n]) => Sorted(Filed(node[n], v, m))
      BY <2>1, <3>1, <3>2, FiledInOrder
    <3>4. ASSUME NEW p \in 1 .. m, i <= list[p].size PROVE Holds(node[m], Fields(list[p])[i], p)
      <4>1. CASE p = m
        BY <3>1, <3>3, <4>1 DEF v
      <4>2. CASE p # m
        <5>1. p \in 1 .. n /\ p \in 1 .. L /\ p \in Nat
          BY <2>3, <4>2
        <5>2. Holds(node[n], Fields(list[p])[i], p) /\ Fields(list[p])[i] \in Value
          BY <1>4, <1>12, <3>4, <5>1
        <5> QED BY <3>1, <3>3, <5>1, <5>2
      <4> QED BY <4>1, <4>2
    <3>5. node[m] \in A /\ Sorted(node[m]) /\ HoldsOnly(node[m], 1 .. L)
      BY <1>12, <3>1, <3>3 DEF A
    <3>6. Good(m)
      BY <3>4, <3>5
    <3> QED BY <3>6 DEF m
  <2>5. CASE ~(i <= list[m].size)
    <3>1. node[m] = node[n]
      BY <2>2, <2>5 DEF put
    <3>2. \A p \in 1 .. m : i <= list[p].size => p \in 1 .. n
      BY <2>3, <2>5
    <3>3. Good(m)
      BY <1>12, <3>1, <3>2
    <3> QED BY <3>3 DEF m
  <2> QED BY <2>4, <2>5
<1>13. Good(L)
  <2> HIDE DEF Good
  <2>1. 0 \in I
    BY <1>11
  <2>2. ASSUME NEW n \in Nat, n \in I PROVE n + 1 \in I
    <3>1. n + 1 <= L => n <= L
      BY <1>1
    <3> QED BY <1>12, <2>2, <3>1
  <2>3. L \in I
    <3> HIDE DEF I
    <3> QED BY <1>1, <2>1, <2>2, SetInduction
  <2> QED BY <1>1, <2>3
<1> QED BY <1>2, <1>4, <1>13 DEF A, L

-----------------------------------------------------------------------------
(* Lookup.                                                                 *)

LEMMA Lookups ==
    ASSUME NEW node \in Seq(Entry), NEW m \in Matcher, NEW P, HoldsOnly(node, P)
    PROVE  /\ Looked(node, m) \in Seq(P)
           /\ \A v, u \in Value, p \in Nat :
                 Sorted(node) /\ m = ByValue(v) /\ Holds(node, u, p) /\ Compare(u, v) = 0 =>
                    p \in ToSet(Looked(node, m))
<1> DEFINE lb == LowerBound(node, m)
           L == Len(node)
<1>1. /\ L \in Nat /\ lb \in 1 .. L + 1 /\ \A k \in 1 .. L : node[k].key \in Value
      /\ Downward(OrderOf(node, m), L) => \A k \in 1 .. L : FieldOrder(node[k].key, m) < 0 <=> k < lb
  BY BoundsOfNode
<1>2. Looked(node, m) = IF ~Encloses(node, m) \/ lb > L THEN <<>> ELSE node[lb].held
  BY DEF Looked
<1>3. \A k \in 1 .. L : node[k].held \in Seq(Nat)
  <2>1. \A k \in 1 .. L : node[k] \in Entry
    BY LenProperties
  <2> QED BY <2>1 DEF Entry
<1> HIDE DEF lb
<1>4. Looked(node, m) \in Seq(P)
  <2>1. CASE ~Encloses(node, m) \/ lb > L
    BY <1>2, <2>1
  <2>2. CASE ~(~Encloses(node, m) \/ lb > L)
    <3> DEFINE held == node[lb].held
               n == Len(held)
    <3>1. Looked(node, m) = held /\ lb \in 1 .. L
      BY <1>1, <1>2, <2>2
    <3>2. held \in Seq(Nat) /\ \A h \in 1 .. n : held[h] \in P
      BY <1>3, <3>1 DEF HoldsOnly
    <3> HIDE DEF held
    <3>3. n \in Nat /\ held = [h \in 1 .. n |-> held[h]]
      BY <3>2, LenProperties
    <3> HIDE DEF n
    <3>4. held \in [1 .. n -> P]
      BY <3>2, <3>3
    <3>5. held \in Seq(P)
      BY <3>3, <3>4, SeqDef
    <3> QED BY <3>1, <3>5
  <2> QED BY <2>1, <2>2
<1>5. ASSUME NEW v \in Value, NEW u \in Value, NEW p \in Nat, Sorted(node), m = ByValue(v),
             Holds(node, u, p), Compare(u, v) = 0
      PROVE  p \in ToSet(Looked(node, m))
  <2>1. PICK k \in 1 .. L : /\ Compare(node[k].key, u) = 0
                            /\ \E h \in 1 .. Len(node[k].held) : node[k].held[h] = p
    BY <1>5 DEF Holds
  <2>2. \A j \in 1 .. L : FieldOrder(node[j].key, m) = Compare(node[j].key, v)
    BY <1>1, <1>5, FieldOrders DEF ByValue
  <2>3. \A j \in 1 .. L : Compare(node[j].key, v) < 0 <=> j < lb
    BY <1>1, <1>5, <2>2, SortedDownward
  <2>4. Compare(node[k].key, v) = 0
    BY <1>1, <1>5, <2>1, StrictOrder
  <2>5. lb = k
    <3>1. lb <= k /\ lb \in 1 .. L
      BY <1>1, <2>3, <2>4
    <3>2. lb < k => Compare(node[lb].key, v) < 0
      <4>1. lb < k => Compare(node[lb].key, node[k].key) < 0
        BY <1>5, <3>1 DEF Sorted
      <4> QED BY <1>1, <2>4, <3>1, <4>1, StrictOrder
    <3>3. ~(Compare(node[lb].key, v) < 0)
      BY <1>1, <2>3, <3>1
    <3> QED BY <1>1, <3>1, <3>2, <3>3
  <2>6. Encloses(node, m)
    <3>1. 1 \in 1 .. L /\ L \in 1 .. L /\ (1 < lb \/ 1 = k) /\ ~(L < lb)
      BY <1>1, <2>5
    <3>2. FieldOrder(node[1].key, m) <= 0
      <4>1. Compare(node[1].key, v) \in {-1, 0, 1}
        BY <1>1, <3>1, ValueOrder
      <4>2. Compare(node[1].key, v) < 0 \/ Compare(node[1].key, v) = 0
        BY <2>3, <2>4, <3>1
      <4> QED BY <2>2, <3>1, <4>1, <4>2
    <3>3. FieldOrder(node[L].key, m) >= 0
      <4>1. FieldOrder(node[L].key, m) \in {-1, 0, 1} /\ ~(FieldOrder(node[L].key, m) < 0)
        BY <1>1, <2>2, <2>3, <3>1, ValueOrder
      <4> QED BY <4>1
    <3> QED BY <3>2, <3>3 DEF Encloses
  <2>7. Looked(node, m) = node[k].held
    BY <1>1, <1>2, <2>5, <2>6
  <2>8. node[k].held \in Seq(Nat)
    BY <1>3
  <2>9. PICK h \in 1 .. Len(node[k].held) : node[k].held[h] = p
    BY <2>1
  <2>10. h \in DOMAIN node[k].held
    BY <2>8, <2>9, LenProperties
  <2> QED BY <2>7, <2>9, <2>10 DEF ToSet
<1> QED BY <1>4, <1>5

LEMMA Columns ==
    ASSUME NEW list \in Seq(TuplesOf(Value)), NEW q \in Seq(Matcher), NEW i \in Nat \ {0}
    PROVE  /\ Column(list, i, q) \in Seq(1 .. Len(list))
           /\ \A v \in Value, p \in 1 .. Len(list) :
                 /\ i <= Len(q) /\ q[i] = ByValue(v)
                 /\ i <= list[p].size /\ Compare(Fields(list[p])[i], v) = 0
                 => p \in ToSet(Column(list, i, q))
<1> DEFINE P == 1 .. Len(list)
           node == Node(list, i)
<1>1. /\ node \in Seq(Entry) /\ Sorted(node) /\ HoldsOnly(node, P)
      /\ \A p \in P : i <= list[p].size => Fields(list[p])[i] \in Value /\ Holds(node, Fields(list[p])[i], p)
  BY Nodes
<1>2. \A p \in P : p \in Nat
  OBVIOUS
<1> HIDE DEF P
<1>3. CASE ~(i <= Len(q)) \/ (i <= Len(q) /\ q[i].kind = "type")
  <2>1. Column(list, i, q) = <<>>
    BY <1>3, LenProperties DEF Column
  <2>2. Column(list, i, q) \in Seq(P)
    BY <2>1
  <2>3. \A v : ByValue(v).kind # "type"
    BY DEF ByValue
  <2> QED BY <1>3, <2>2, <2>3 DEF P
<1>4. CASE i <= Len(q) /\ q[i].kind # "type"
  <2>1. q[i] \in Matcher
    BY <1>4, LenProperties
  <2>2. Column(list, i, q) = Looked(node, q[i])
    BY <1>4, LenProperties DEF Column
  <2> HIDE DEF node
  <2>3. Column(list, i, q) \in Seq(P)
    BY <1>1, <2>1, <2>2, Lookups
  <2>4. ASSUME NEW v \in Value, NEW p \in P, q[i] = ByValue(v),
               i <= list[p].size, Compare(Fields(list[p])[i], v) = 0
        PROVE  p \in ToSet(Column(list, i, q))
    <3> DEFINE u == Fields(list[p])[i]
    <3>1. u \in Value /\ Holds(node, u, p) /\ Compare(u, v) = 0 /\ p \in Nat
      BY <1>1, <1>2, <2>4
    <3> HIDE DEF u
    <3> QED BY <1>1, <2>1, <2>2, <2>4, <3>1, Lookups
  <2> QED BY <2>3, <2>4 DEF P
<1> QED BY <1>3, <1>4

LEMMA Hits ==
    ASSUME NEW list, NEW q, NEW P, NEW path \in Seq(P)
    PROVE  /\ UpToHit(list, path, q) \in Seq(P)
           /\ \/ /\ UpToHit(list, path, q) # <<>>
                 /\ Last(UpToHit(list, path, q)) \in P
                 /\ Agrees(list[Last(UpToHit(list, path, q))], q)
              \/ /\ UpToHit(list, path, q) = path
                 /\ \A h \in 1 .. Len(path) : ~Agrees(list[path[h]], q)
<1> DEFINE I == {h \in 1 .. Len(path) : Agrees(list[path[h]], q)}
           hit == SelectInSeq(path, LAMBDA n : Agrees(list[n], q))
<1>1. hit = IF I # {} THEN Min(I) ELSE 0
  BY DEF SelectInSeq
<1>2. UpToHit(list, path, q) = IF hit = 0 THEN path ELSE SubSeq(path, 1, hit)
  BY DEF UpToHit
<1>3. Len(path) \in Nat /\ \A h \in 1 .. Len(path) : path[h] \in P
  BY LenProperties
<1> HIDE DEF hit
<1>4. CASE I = {}
  <2>1. UpToHit(list, path, q) = path
    BY <1>1, <1>2, <1>4
  <2> QED BY <1>4, <2>1
<1>5. CASE I # {}
  <2>1. I \subseteq Nat
    OBVIOUS
  <2>2. hit \in I
    <3> HIDE DEF I
    <3> QED BY <1>1, <1>5, <2>1, FirstPosition
  <2>3. hit \in 1 .. Len(path) /\ Agrees(list[path[hit]], q)
    BY <2>2
  <2> DEFINE s == SubSeq(path, 1, hit)
  <2>4. s = UpToHit(list, path, q)
    BY <1>2, <2>3
  <2>5. s \in Seq(P) /\ Len(s) = hit /\ s[hit] = path[hit]
    <3>1. 1 \in 1 .. Len(path) + 1 /\ hit \in 1 - 1 .. Len(path)
      BY <1>3, <2>3
    <3>2. /\ s \in Seq(P) /\ Len(s) = IF 1 <= hit THEN hit - 1 + 1 ELSE 0
          /\ \A n \in 1 .. hit - 1 + 1 : s[n] = path[1 + n - 1]
      BY <3>1, SubSeqProperties
    <3> HIDE DEF s
    <3>3. hit - 1 + 1 = hit /\ 1 + hit - 1 = hit /\ hit \in 1 .. hit /\ 1 <= hit
      BY <2>3
    <3> QED BY <3>2, <3>3
  <2> HIDE DEF s
  <2>6. s # <<>> /\ Last(s) = path[hit]
    BY <2>3, <2>5, EmptySeq DEF Last
  <2>7. s \in Seq(P) /\ s # <<>> /\ Last(s) \in P /\ Agrees(list[Last(s)], q)
    BY <1>3, <2>3, <2>5, <2>6
  <2> QED BY <2>4, <2>7
<1> QED BY <1>4, <1>5

\* What a query is compared with ends at a tuple that agrees, or none in the
\* list does.
LEMMA Comparisons ==
    ASSUME NEW list \in Seq(TuplesOf(Value)), NEW q \in Seq(Matcher)
    PROVE  /\ Compared(list, q) \in Seq(1 .. Len(list))
           /\ \/ /\ Compared(list, q) # <<>>
                 /\ Last(Compared(list, q)) \in 1 .. Len(list)
                 /\ Agrees(list[Last(Compared(list, q))], q)
              \/ /\ \A n \in 1 .. Len(list) : ~Agrees(list[n], q)
                 /\ Compared(list, q) # <<>> =>
                       /\ Last(Compared(list, q)) \in 1 .. Len(list)
                       /\ ~Agrees(list[Last(Compared(list, q))], q)
<1> DEFINE P == 1 .. Len(list)
           a == Column(list, 1, q)
           b == Column(list, 2, q)
           c == [n \in 1 .. Len(list) |-> n]
           path == (a \o b) \o c
           r == Compared(list, q)
<1>1. a \in Seq(P) /\ b \in Seq(P)
  BY Columns
<1>2. Len(list) \in Nat
  BY LenProperties
<1>3. c \in Seq(P) /\ Len(c) = Len(list) /\ \A n \in P : c[n] = n
  <2> DEFINE L == Len(list)
  <2>1. c \in [1 .. L -> P]
    OBVIOUS
  <2>2. c \in Seq(P)
    <3> HIDE DEF c, P, L
    <3> QED BY <1>2, <2>1, SeqDef DEF L
  <2>3. DOMAIN c = 1 .. L /\ DOMAIN c = 1 .. Len(c) /\ Len(c) \in Nat
    <3>1. DOMAIN c = 1 .. L
      OBVIOUS
    <3> HIDE DEF c
    <3> QED BY <2>2, <3>1, LenProperties
  <2>4. Len(c) = L
    <3> HIDE DEF c
    <3> QED BY <1>2, <2>3
  <2>5. \A n \in P : c[n] = n
    OBVIOUS
  <2> QED BY <2>2, <2>4, <2>5
<1>4. r = UpToHit(list, path, q)
  BY DEF Compared
<1> HIDE DEF a, b, c, P
<1>5. a \o b \in Seq(P)
  BY <1>1, ConcatProperties
<1>6. path \in Seq(P) /\ \A n \in P : \E h \in 1 .. Len(path) : path[h] = n
  <2> DEFINE ab == a \o b
  <2>1. ab \in Seq(P)
    BY <1>5
  <2> HIDE DEF ab
  <2>2. /\ ab \o c \in Seq(P) /\ Len(ab \o c) = Len(ab) + Len(c)
        /\ \A h \in 1 .. Len(ab) + Len(c) : (ab \o c)[h] = IF h <= Len(ab) THEN ab[h] ELSE c[h - Len(ab)]
    BY <1>3, <2>1, ConcatProperties
  <2>3. Len(ab) \in Nat
    BY <2>1, LenProperties
  <2>4. ASSUME NEW n \in P PROVE \E h \in 1 .. Len(ab \o c) : (ab \o c)[h] = n
    <3> DEFINE h == Len(ab) + n
    <3>1. h \in 1 .. Len(ab) + Len(c) /\ ~(h <= Len(ab)) /\ h - Len(ab) = n
      BY <1>2, <1>3, <2>3 DEF P
    <3> HIDE DEF h
    <3> QED BY <1>3, <2>2, <3>1
  <2> QED BY <2>2, <2>4 DEF ab
<1> HIDE DEF path, r
<1>7. /\ r \in Seq(P)
      /\ \/ r # <<>> /\ Last(r) \in P /\ Agrees(list[Last(r)], q)
         \/ r = path /\ \A h \in 1 .. Len(path) : ~Agrees(list[path[h]], q)
  <2>1. /\ UpToHit(list, path, q) \in Seq(P)
        /\ \/ /\ UpToHit(list, path, q) # <<>>
              /\ Last(UpToHit(list, path, q)) \in P
              /\ Agrees(list[Last(UpToHit(list, path, q))], q)
           \/ /\ UpToHit(list, path, q) = path
              /\ \A h \in 1 .. Len(path) : ~Agrees(list[path[h]], q)
    BY <1>6, Hits
  <2> QED BY <1>4, <2>1
<1>8. ASSUME r = path, \A h \in 1 .. Len(path) : ~Agrees(list[path[h]], q)
      PROVE  /\ \A n \in P : ~Agrees(list[n], q)
             /\ r # <<>> => Last(r) \in P /\ ~Agrees(list[Last(r)], q)
  <2>1. \A n \in P : ~Agrees(list[n], q)
    BY <1>6, <1>8
  <2>2. r # <<>> => Last(r) \in P
    <3>1. r # <<>> => Len(r) \in 1 .. Len(r)
      BY <1>7, EmptySeq, LenProperties
    <3> QED BY <1>7, <3>1, LenProperties DEF Last
  <2> QED BY <2>1, <2>2
<1> QED BY <1>7, <1>8 DEF r, P

-----------------------------------------------------------------------------
(* Function calls.                                                         *)

TypesOfFields(vs) == [i \in 1 .. Len(vs) |-> vs[i].type]

\* The parameters take the arguments iff the types are the same.
LEMMA Acceptance ==
    ASSUME NEW S, NEW params \in Seq(S), NEW R, NEW args \in Seq(R)
    PROVE  Accepts(params, args) <=> TypesOfFields(args) = params
<1> DEFINE L == Len(params)
           body(f) == [n \in 1 .. L + 1 |->
                         IF n > L THEN Len(args) < n
                         ELSE n <= Len(args) /\ args[n].type = params[n] /\ f[n + 1]]
           accepts == CHOOSE f : f = body(f)
           right(n) == /\ Len(args) <= L
                       /\ \A k \in n .. L : k <= Len(args) /\ args[k].type = params[k]
           g == [n \in 1 .. L + 1 |-> right(n)]
           I == {d \in Nat : d <= L => accepts[L + 1 - d] = right(L + 1 - d)}
<1>1. Accepts(params, args) = accepts[1]
  BY DEF Accepts
<1>2. L \in Nat /\ Len(args) \in Nat /\ params = [n \in 1 .. L |-> params[n]]
  BY LenProperties
<1>3. ASSUME NEW n \in 1 .. L + 1
      PROVE  right(n) = IF n > L THEN Len(args) < n
                        ELSE n <= Len(args) /\ args[n].type = params[n] /\ right(n + 1)
  <2>1. CASE n > L
    <3>1. n = L + 1 /\ \A k \in n .. L : FALSE
      BY <1>2, <2>1
    <3>2. right(n) <=> Len(args) <= L
      BY <3>1
    <3>3. Len(args) <= L <=> Len(args) < n
      BY <1>2, <3>1
    <3>4. right(n) \in BOOLEAN
      OBVIOUS
    <3> HIDE DEF right
    <3> QED BY <2>1, <3>2, <3>3, <3>4
  <2>2. CASE ~(n > L)
    <3>1. \A k \in n .. L : k = n \/ k \in n + 1 .. L
      OBVIOUS
    <3>2. n \in n .. L /\ \A k \in n + 1 .. L : k \in n .. L
      BY <1>2, <2>2
    <3> QED BY <2>2, <3>1, <3>2
  <2> QED BY <2>1, <2>2
<1> HIDE DEF L, right
<1>4. g = body(g)
  <2>1. \A n \in 1 .. L + 1 : ~(n > L) => n + 1 \in 1 .. L + 1
    BY <1>2
  <2> QED BY <1>3, <2>1
<1>5. accepts = body(accepts)
  <2> HIDE DEF body
  <2> QED BY <1>4
<1> HIDE DEF accepts
<1>6. \A n \in 1 .. L + 1 : accepts[n] = IF n > L THEN Len(args) < n
                                         ELSE n <= Len(args) /\ args[n].type = params[n] /\ accepts[n + 1]
  BY <1>5
<1>7. 0 \in I
  <2>1. L + 1 - 0 \in 1 .. L + 1 /\ L + 1 - 0 > L
    BY <1>2
  <2> QED BY <1>3, <1>6, <2>1
<1>8. ASSUME NEW d \in Nat, d \in I PROVE d + 1 \in I
  <2> SUFFICES ASSUME d + 1 <= L PROVE accepts[L + 1 - (d + 1)] = right(L + 1 - (d + 1))
    OBVIOUS
  <2> DEFINE n == L + 1 - (d + 1)
  <2>1. n \in 1 .. L + 1 /\ ~(n > L) /\ n + 1 = L + 1 - d /\ d <= L
    BY <1>2
  <2>2. accepts[n + 1] = right(n + 1)
    BY <1>8, <2>1
  <2> HIDE DEF n
  <2>3. accepts[n] = right(n)
    BY <1>3, <1>6, <2>1, <2>2
  <2> QED BY <2>3 DEF n
<1>9. accepts[1] = right(1)
  <2> HIDE DEF I
  <2>1. L \in I
    BY <1>2, <1>7, <1>8, SetInduction
  <2>2. L <= L /\ L + 1 - L = 1
    BY <1>2
  <2> QED BY <2>1, <2>2 DEF I
<1>10. right(1) <=> TypesOfFields(args) = params
  <2>1. ASSUME right(1) PROVE TypesOfFields(args) = params
    <3>1. /\ Len(args) <= L
          /\ \A k \in 1 .. L : k <= Len(args) /\ args[k].type = params[k]
      BY <2>1 DEF right
    <3>2. Len(args) = L
      <4>1. L > 0 => L \in 1 .. L
        BY <1>2
      <4>2. L > 0 => L <= Len(args)
        BY <3>1, <4>1
      <4> QED BY <1>2, <3>1, <4>2
    <3> QED BY <1>2, <3>1, <3>2 DEF TypesOfFields
  <2>2. ASSUME TypesOfFields(args) = params PROVE right(1)
    <3>1. DOMAIN TypesOfFields(args) = 1 .. Len(args) /\ DOMAIN params = 1 .. L
      BY <1>2 DEF TypesOfFields
    <3>2. Len(args) = L
      BY <1>2, <2>2, <3>1
    <3>3. \A k \in 1 .. L : args[k].type = params[k]
      BY <2>2, <3>2 DEF TypesOfFields
    <3> QED BY <1>2, <3>2, <3>3 DEF right
  <2> QED BY <2>1, <2>2
<1> QED BY <1>1, <1>9, <1>10

\* The tuple a call in vs is replaced in.
LEMMA Replaced ==
    ASSUME NEW S, NEW vs \in Seq(S), NEW j \in 1 .. Len(vs), NEW c
    PROVE  Fields(Execute(c, j - 1, LindaTuple(RemoveAt(vs, j)))) =
              [vs EXCEPT ![j] = Registered[c.name].result]
<1> DEFINE result == Registered[c.name].result
           R == S \cup {result}
           others == RemoveAt(vs, j)
           L == Len(vs)
           a == SubSeq(others, 1, j - 1)
           b == SubSeq(others, j, Len(others))
           m == <<result>>
<1>1. L \in Nat /\ vs \in Seq(R) /\ vs = [i \in 1 .. L |-> vs[i]]
  <2>1. Seq(S) \subseteq Seq(R)
    BY SeqMonotonic
  <2> QED BY <2>1, LenProperties
<1> HIDE DEF R, L
<1>2. /\ others \in Seq(R) /\ Len(others) = L - 1
      /\ \A n \in 1 .. L - 1 : others[n] = IF n < j THEN vs[n] ELSE vs[n + 1]
  BY <1>1, RemovedAt DEF L
<1> HIDE DEF others
<1>3. Fields(LindaTuple(others)) = others
  BY <1>2, FieldsOfTuple
<1>4. j \in 1 .. L
  BY DEF L
<1>5. a \in Seq(R) /\ Len(a) = j - 1 /\ \A n \in 1 .. j - 1 : a[n] = vs[n]
  <2>1. 1 \in 1 .. Len(others) + 1 /\ j - 1 \in 1 - 1 .. Len(others)
    BY <1>1, <1>2, <1>4
  <2>2. /\ a \in Seq(R) /\ Len(a) = IF 1 <= j - 1 THEN (j - 1) - 1 + 1 ELSE 0
        /\ \A n \in 1 .. (j - 1) - 1 + 1 : a[n] = others[1 + n - 1]
    BY <1>2, <2>1, SubSeqProperties
  <2> HIDE DEF a
  <2>3. \A n \in 1 .. j - 1 : 1 + n - 1 = n /\ n \in 1 .. L - 1 /\ n < j
    BY <1>1, <1>4
  <2>4. Len(a) = j - 1 /\ (j - 1) - 1 + 1 = j - 1
    BY <1>4, <2>2
  <2> QED BY <1>2, <2>2, <2>3, <2>4
<1>6. b \in Seq(R) /\ Len(b) = L - j /\ \A n \in 1 .. L - j : b[n] = vs[n + j]
  <2>1. j \in 1 .. Len(others) + 1 /\ Len(others) \in j - 1 .. Len(others)
    BY <1>1, <1>2, <1>4
  <2>2. /\ b \in Seq(R) /\ Len(b) = IF j <= Len(others) THEN Len(others) - j + 1 ELSE 0
        /\ \A n \in 1 .. Len(others) - j + 1 : b[n] = others[j + n - 1]
    BY <1>2, <2>1, SubSeqProperties
  <2> HIDE DEF b
  <2>3. \A n \in 1 .. L - j : j + n - 1 \in 1 .. L - 1 /\ ~(j + n - 1 < j) /\ (j + n - 1) + 1 = n + j
    BY <1>1, <1>4
  <2>4. Len(b) = L - j /\ Len(others) - j + 1 = L - j
    BY <1>1, <1>2, <1>4, <2>2
  <2> QED BY <1>2, <2>2, <2>3, <2>4
<1>7. m \in Seq(R) /\ Len(m) = 1 /\ m[1] = result
  BY DEF R
<1>8. Execute(c, j - 1, LindaTuple(others)) = LindaTuple((a \o m) \o b)
  <2>1. (j - 1) + 1 = j
    BY <1>4
  <2> QED BY <1>3, <2>1 DEF Execute
<1> HIDE DEF a, b, m, result
<1> DEFINE am == a \o m
           t == am \o b
           new == [vs EXCEPT ![j] = result]
<1>9. /\ am \in Seq(R) /\ Len(am) = j
      /\ \A n \in 1 .. j : am[n] = IF n < j THEN vs[n] ELSE result
  <2>1. /\ am \in Seq(R) /\ Len(am) = Len(a) + Len(m)
        /\ \A n \in 1 .. Len(a) + Len(m) : am[n] = IF n <= Len(a) THEN a[n] ELSE m[n - Len(a)]
    BY <1>5, <1>7, ConcatProperties
  <2>2. Len(a) + Len(m) = j
    BY <1>4, <1>5, <1>7
  <2> HIDE DEF am
  <2>3. \A n \in 1 .. j : /\ n < j => n <= Len(a) /\ n \in 1 .. j - 1
                          /\ ~(n < j) => ~(n <= Len(a)) /\ n - Len(a) = 1
    BY <1>4, <1>5
  <2> QED BY <1>5, <1>7, <2>1, <2>2, <2>3
<1> HIDE DEF am
<1>10. /\ t \in Seq(R) /\ Len(t) = L
       /\ \A n \in 1 .. L : t[n] = IF n = j THEN result ELSE vs[n]
  <2>1. /\ t \in Seq(R) /\ Len(t) = j + Len(b)
        /\ \A n \in 1 .. j + Len(b) : t[n] = IF n <= j THEN am[n] ELSE b[n - j]
    <3>1. /\ am \o b \in Seq(R) /\ Len(am \o b) = Len(am) + Len(b)
          /\ \A n \in 1 .. Len(am) + Len(b) : (am \o b)[n] = IF n <= Len(am) THEN am[n] ELSE b[n - Len(am)]
      <4>1. am \in Seq(R) /\ b \in Seq(R)
        BY <1>6, <1>9
      <4> QED BY <4>1, ConcatProperties
    <3> QED BY <1>9, <3>1
  <2>2. j + Len(b) = L
    BY <1>1, <1>4, <1>6
  <2>3. \A n \in 1 .. L : /\ n <= j => n \in 1 .. j
                          /\ ~(n <= j) => n - j \in 1 .. L - j /\ (n - j) + j = n /\ n # j
                          /\ n < j => n # j
                          /\ n = j \/ n < j \/ ~(n <= j)
    BY <1>1, <1>4
  <2> HIDE DEF t
  <2> QED BY <1>4, <1>6, <1>9, <2>1, <2>2, <2>3
<1> HIDE DEF t
<1>11. t = new
  <2>1. t = [n \in 1 .. L |-> t[n]]
    BY <1>10, LenProperties
  <2>2. new = [n \in 1 .. L |-> IF n = j THEN result ELSE vs[n]]
    BY <1>1, <1>4
  <2> HIDE DEF new
  <2> QED BY <1>10, <2>1, <2>2
<1>12. Fields(LindaTuple(t)) = t
  BY <1>10, FieldsOfTuple
<1> QED BY <1>8, <1>11, <1>12 DEF t, am, others, result
=============================================================================
