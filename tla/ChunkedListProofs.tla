-------------------------- MODULE ChunkedListProofs --------------------------
(* What TLAPS proves of ChunkedList, for any number and size of chunks. *)
EXTENDS ChunkedList, SequenceLemmas, FiniteSetTheorems

-----------------------------------------------------------------------------
(* The invariant, and the order of the cells.                              *)

Listed(c) == \E n \in 1 .. Len(chunks) : chunks[n] = c

\* A chunk in the vector knows its place in it and has a value; whatever has a
\* value is in the vector.
Inv ==
    /\ chunks \in Seq(Chunk)
    /\ position \in [Chunk -> Int]
    /\ cells \in [Chunk -> [Cell -> Value \cup {None}]]
    /\ \A n \in 1 .. Len(chunks) : \A c \in Chunk :
          chunks[n] = c => position[c] = n - 1 /\ Valids(c) # {}
    /\ \A c \in Chunk : Valids(c) # {} => Listed(c)

Before(a, b) ==
    \/ position[a[1]] < position[b[1]]
    \/ position[a[1]] = position[b[1]] /\ a[2] < b[2]

LEMMA LiveCells ==
    \A s : s \in Live <=> /\ s = <<s[1], s[2]>>
                          /\ s[1] \in Chunk /\ s[2] \in Cell /\ s[2] \in Valids(s[1])
<1>1. \A c : Valids(c) \subseteq Cell
  BY DEF Valids
<1> QED BY <1>1 DEF Live

\* first_valid_index is the least valid index, last_valid_index is just above
\* the greatest.
LEMMA FirstIsValid ==
    ASSUME NEW c, Valids(c) # {}
    PROVE  /\ FirstValidIndex(c) \in Valids(c)
           /\ \A j \in Valids(c) : FirstValidIndex(c) <= j
<1>1. Valids(c) \subseteq Nat
  BY ChunkedListAssumption DEF Valids, Cell
<1>2. \E i \in Valids(c) : \A j \in Valids(c) : i <= j
  BY <1>1, LeastNatural
<1> QED BY <1>2 DEF FirstValidIndex

LEMMA LastIsBeyond ==
    ASSUME NEW c
    PROVE  /\ LastValidIndex(c) \in 0 .. ChunkSize
           /\ \A j \in Valids(c) : j < LastValidIndex(c)
<1> DEFINE above == {k \in 0 .. ChunkSize : \A j \in Valids(c) : j < k}
<1>1. ChunkSize \in Nat /\ Valids(c) \subseteq 0 .. ChunkSize - 1
  BY ChunkedListAssumption DEF Valids, Cell
<1>2. ChunkSize \in above
  BY <1>1
<1>3. PICK i \in above : \A k \in above : i <= k
  <2>1. above \subseteq Nat
    BY <1>1
  <2> HIDE DEF above
  <2> QED BY <1>2, <2>1, LeastNatural
<1>4. i = 0 \/ i - 1 \in Valids(c)
  <2>1. SUFFICES ASSUME i # 0, i - 1 \notin Valids(c) PROVE i - 1 \in above
    <3>1. i \in Nat /\ ~(i <= i - 1)
      BY <1>1, <1>3
    <3> HIDE DEF above
    <3> QED BY <1>1, <1>3, <2>1, <3>1
  <2>2. \A j \in Valids(c) : j \in Int /\ j < i /\ j # i - 1
    BY <1>1, <1>3, <2>1
  <2> QED BY <1>1, <1>3, <2>1, <2>2
<1> QED BY <1>3, <1>4 DEF LastValidIndex

\* Chunks in the vector are told apart by their positions, and the last one by
\* is_final.
LEMMA Vector ==
    ASSUME Inv
    PROVE  /\ Len(chunks) \in Nat
           /\ \A n \in 1 .. Len(chunks) : /\ chunks[n] \in Chunk
                                          /\ position[chunks[n]] = n - 1
                                          /\ Valids(chunks[n]) # {}
           /\ \A c, d : Listed(c) /\ Listed(d) /\ position[c] = position[d] => c = d
           /\ \A c : Listed(c) => /\ c \in Chunk
                                  /\ position[c] \in 0 .. Len(chunks) - 1
                                  /\ chunks[position[c] + 1] = c
                                  /\ Valids(c) # {}
                                  /\ IsFinal(c) <=> c = Last(chunks)
           /\ \A n \in 1 .. Len(chunks) : Listed(chunks[n])
           /\ chunks # <<>> => 1 \in 1 .. Len(chunks) /\ Len(chunks) \in 1 .. Len(chunks)
<1>1. /\ Len(chunks) \in Nat
      /\ \A n \in 1 .. Len(chunks) : /\ chunks[n] \in Chunk
                                     /\ position[chunks[n]] = n - 1
                                     /\ Valids(chunks[n]) # {}
  <2>1. Len(chunks) \in Nat /\ \A n \in 1 .. Len(chunks) : chunks[n] \in Chunk
    BY LenProperties DEF Inv
  <2> QED BY <2>1 DEF Inv
<1>2. chunks # <<>> => 1 \in 1 .. Len(chunks) /\ Len(chunks) \in 1 .. Len(chunks)
  <2>1. chunks # <<>> => Len(chunks) # 0
    BY EmptySeq DEF Inv
  <2> QED BY <1>1, <2>1
<1>3. ASSUME NEW c, Listed(c)
      PROVE  /\ c \in Chunk
             /\ position[c] \in 0 .. Len(chunks) - 1
             /\ chunks[position[c] + 1] = c
             /\ Valids(c) # {}
             /\ IsFinal(c) <=> c = Last(chunks)
  <2>1. PICK n \in 1 .. Len(chunks) : chunks[n] = c
    BY <1>3 DEF Listed
  <2>2. position[c] = n - 1 /\ Valids(c) # {}
    BY <1>1, <2>1
  <2>3. n - 1 \in 0 .. Len(chunks) - 1 /\ (n - 1) + 1 = n /\ Len(chunks) \in 1 .. Len(chunks)
    BY <1>1
  <2>4. position[chunks[Len(chunks)]] = Len(chunks) - 1
    BY <1>1, <2>3
  <2> QED BY <1>1, <2>1, <2>2, <2>3, <2>4 DEF IsFinal, Last
<1>4. \A n \in 1 .. Len(chunks) : Listed(chunks[n])
  BY DEF Listed
<1> QED BY <1>1, <1>2, <1>3, <1>4

\* A live cell is in a listed chunk; the live cells are in order.
LEMMA Places ==
    ASSUME Inv, NEW u \in Live
    PROVE  /\ Listed(u[1]) /\ u[1] \in Chunk /\ u[2] \in Valids(u[1])
           /\ u[2] \in 0 .. ChunkSize - 1
           /\ position[u[1]] \in 0 .. Len(chunks) - 1
           /\ chunks # <<>>
<1>1. u[1] \in Chunk /\ u[2] \in Cell /\ u[2] \in Valids(u[1])
  BY LiveCells
<1>2. Listed(u[1])
  BY <1>1 DEF Inv
<1>3. chunks # <<>>
  BY <1>2, Vector, EmptySeq DEF Listed
<1> QED BY <1>1, <1>2, <1>3, Vector DEF Cell

LEMMA InOrder ==
    ASSUME Inv, NEW u \in Live, NEW w \in Live
    PROVE  u = w \/ Before(u, w) \/ Before(w, u)
<1>1. /\ u = <<u[1], u[2]>> /\ w = <<w[1], w[2]>>
      /\ Listed(u[1]) /\ Listed(w[1])
      /\ position[u[1]] \in Int /\ position[w[1]] \in Int
      /\ u[2] \in Int /\ w[2] \in Int
  BY ChunkedListAssumption, LiveCells, Places
<1>2. position[u[1]] = position[w[1]] => u[1] = w[1]
  BY <1>1, Vector
<1> QED BY <1>1, <1>2 DEF Before

-----------------------------------------------------------------------------
(* Iterators.                                                              *)

\* The end is behind every live cell, and no live cell compares equal to it,
\* though both may or may not be ends by is_end.
LEMMA EndIsBehind ==
    ASSUME Inv, NEW u \in Live
    PROVE  /\ Before(u, End) /\ ~Equal(u, End) /\ Equal(End, End)
           /\ End[1] = Last(chunks) /\ Listed(End[1]) /\ End[2] \in 0 .. ChunkSize
<1>1. /\ Listed(u[1]) /\ u[2] \in Valids(u[1]) /\ u[2] \in Int
      /\ position[u[1]] \in 0 .. Len(chunks) - 1
      /\ chunks # <<>>
  BY ChunkedListAssumption, Places
<1>2. End[1] = Last(chunks) /\ End[2] = LastValidIndex(Last(chunks))
  BY DEF End
<1>3. /\ Listed(Last(chunks)) /\ position[Last(chunks)] = Len(chunks) - 1
      /\ Len(chunks) \in Nat
  <2>1. Len(chunks) \in 1 .. Len(chunks)
    BY <1>1, Vector
  <2> QED BY <2>1, Vector DEF Last, Inv
<1>4. /\ End[2] \in 0 .. ChunkSize
      /\ \A j \in Valids(Last(chunks)) : j < End[2]
  BY <1>2, LastIsBeyond
<1>5. position[u[1]] = position[End[1]] => u[1] = End[1] /\ u[2] < End[2]
  BY <1>1, <1>2, <1>3, <1>4, Vector
<1>6. Before(u, End)
  BY <1>1, <1>2, <1>3, <1>4, <1>5 DEF Before
<1>7. ~Equal(u, End)
  <2>1. IsFinal(u[1]) => u[1] = End[1]
    BY <1>1, <1>2, Vector
  <2>2. u[1] = End[1] => u[2] # End[2]
    BY <1>1, <1>2, <1>4, <1>5, ChunkedListAssumption
  <2> QED BY <1>5, <2>1, <2>2 DEF Equal, IsEnd
<1> QED BY <1>2, <1>3, <1>4, <1>6, <1>7 DEF Equal

\* begin is the first live cell.
LEMMA BeginIsFirst ==
    ASSUME Inv, chunks # <<>>
    PROVE  Begin \in Live /\ \A w \in Live : w = Begin \/ Before(Begin, w)
<1>1. 1 \in 1 .. Len(chunks) /\ Listed(chunks[1]) /\ position[chunks[1]] = 1 - 1
  BY Vector DEF Inv
<1>2. Begin[1] = chunks[1] /\ Begin[2] = FirstValidIndex(chunks[1]) /\ Begin = <<Begin[1], Begin[2]>>
  BY DEF Begin
<1>3. /\ chunks[1] \in Chunk
      /\ FirstValidIndex(chunks[1]) \in Valids(chunks[1])
      /\ \A j \in Valids(chunks[1]) : FirstValidIndex(chunks[1]) <= j
  BY <1>1, Vector, FirstIsValid
<1>4. Begin \in Live
  BY <1>2, <1>3, LiveCells DEF Valids
<1>5. ASSUME NEW w \in Live PROVE w = Begin \/ Before(Begin, w)
  <2>1. ~Before(w, Begin)
    <3>1. /\ position[w[1]] \in 0 .. Len(chunks) - 1 /\ Len(chunks) \in Nat
          /\ Listed(w[1]) /\ w[2] \in Valids(w[1]) /\ w[2] \in Int
      BY Places, Vector, ChunkedListAssumption
    <3>2. position[w[1]] = position[Begin[1]] => w[1] = chunks[1]
      BY <1>1, <1>2, <3>1, Vector
    <3>3. Begin[2] \in Int
      BY <1>4, Places, ChunkedListAssumption
    <3>4. w[1] = chunks[1] => Begin[2] <= w[2]
      BY <1>2, <1>3, <3>1
    <3> QED BY <1>1, <1>2, <3>1, <3>2, <3>3, <3>4 DEF Before
  <2> QED BY <1>4, <2>1, InOrder
<1> QED BY <1>4, <1>5

\* operator++ goes to the next live cell, or to the end behind the last.
LEMMA IncIsNext ==
    ASSUME Inv, NEW u \in Live
    PROVE  /\ Inc(u) \in Live \cup {End}
           /\ Before(u, Inc(u))
           /\ \A w \in Live : Before(u, w) => w = Inc(u) \/ Before(Inc(u), w)
<1> DEFINE c == u[1]
           rest == {i \in Valids(c) : u[2] < i}
<1>1. /\ c \in Chunk /\ Listed(c) /\ u[2] \in Int
      /\ position[c] \in 0 .. Len(chunks) - 1 /\ chunks # <<>>
      /\ Len(chunks) \in Nat /\ Valids(c) \subseteq Nat
  BY Places, Vector, ChunkedListAssumption DEF Valids, Cell
<1>2. \A w \in Live : /\ Listed(w[1]) /\ w[1] \in Chunk /\ w[2] \in Valids(w[1])
                      /\ w[2] \in Int /\ w = <<w[1], w[2]>>
                      /\ position[w[1]] \in 0 .. Len(chunks) - 1
  BY Places, LiveCells, ChunkedListAssumption
<1>3. \A w \in Live : position[w[1]] = position[c] => w[1] = c
  BY <1>1, <1>2, Vector
<1>4. CASE rest # {}
  <2>1. rest \subseteq Nat
    BY <1>1
  <2>2. \E i \in rest : \A j \in rest : i <= j
    <3> HIDE DEF rest
    <3> QED BY <1>4, <2>1, LeastNatural
  <2>3. PICK i \in rest : Inc(u) = <<c, i>> /\ \A j \in rest : i <= j
    BY <1>4, <2>2 DEF Inc
  <2>4. i \in Valids(c) /\ u[2] < i /\ i \in Int /\ i \in Cell
    BY <2>1, <2>3 DEF Valids
  <2>5. <<c, i>>[1] = c /\ <<c, i>>[2] = i
    OBVIOUS
  <2>6. Inc(u) \in Live
    BY <1>1, <2>3, <2>4, <2>5, LiveCells
  <2>7. Before(u, Inc(u))
    BY <2>3, <2>4, <2>5 DEF Before
  <2>8. ASSUME NEW w \in Live, Before(u, w) PROVE w = Inc(u) \/ Before(Inc(u), w)
    <3>1. CASE position[c] < position[w[1]]
      BY <2>3, <2>5, <3>1 DEF Before
    <3>2. CASE position[c] = position[w[1]] /\ u[2] < w[2]
      <4>1. w[1] = c /\ w[2] \in rest /\ i <= w[2]
        BY <1>2, <1>3, <2>3, <3>2
      <4> QED BY <1>2, <2>3, <2>4, <2>5, <3>2, <4>1 DEF Before
    <3> QED BY <2>8, <3>1, <3>2 DEF Before
  <2> QED BY <2>6, <2>7, <2>8
<1>5. CASE rest = {} /\ IsFinal(c)
  <2>1. Inc(u) = End
    <3>1. c = Last(chunks)
      BY <1>1, <1>5, Vector
    <3> QED BY <1>5, <3>1 DEF Inc, End
  <2>2. Before(u, Inc(u))
    BY <2>1, EndIsBehind
  <2>3. ASSUME NEW w \in Live, Before(u, w) PROVE FALSE
    <3>1. position[c] = Len(chunks) - 1
      BY <1>5 DEF IsFinal
    <3>2. position[c] = position[w[1]] /\ u[2] < w[2]
      BY <1>1, <1>2, <2>3, <3>1 DEF Before
    <3>3. w[2] \in rest
      BY <1>2, <1>3, <3>2
    <3> QED BY <1>5, <3>3
  <2> QED BY <2>1, <2>2, <2>3
<1>6. CASE rest = {} /\ ~IsFinal(c)
  <2> DEFINE d == chunks[position[c] + 2]
  <2>1. position[c] + 2 \in 1 .. Len(chunks)
    BY <1>1, <1>6 DEF IsFinal
  <2>2. /\ d \in Chunk /\ position[d] = position[c] + 1
        /\ FirstValidIndex(d) \in Valids(d)
        /\ \A j \in Valids(d) : FirstValidIndex(d) <= j
        /\ Listed(d)
    <3>1. d \in Chunk /\ position[d] = (position[c] + 2) - 1 /\ Valids(d) # {} /\ Listed(d)
      BY <2>1, Vector
    <3> QED BY <1>1, <3>1, FirstIsValid
  <2>3. Inc(u) = <<d, FirstValidIndex(d)>>
    BY <1>6 DEF Inc
  <2> HIDE DEF d
  <2>4. /\ Inc(u)[1] = d /\ Inc(u)[2] = FirstValidIndex(d) /\ Inc(u) \in Live
        /\ FirstValidIndex(d) \in Int
    <3>1. FirstValidIndex(d) \in Cell
      BY <2>2 DEF Valids
    <3> QED BY <2>2, <2>3, <3>1, LiveCells, ChunkedListAssumption DEF Cell
  <2>5. Before(u, Inc(u))
    BY <1>1, <2>2, <2>4 DEF Before
  <2>6. ASSUME NEW w \in Live, Before(u, w) PROVE w = Inc(u) \/ Before(Inc(u), w)
    <3>1. position[c] < position[w[1]]
      <4>1. SUFFICES ASSUME position[c] = position[w[1]] /\ u[2] < w[2] PROVE FALSE
        BY <2>6 DEF Before
      <4>2. w[2] \in rest
        BY <1>2, <1>3, <4>1
      <4> QED BY <1>6, <4>2
    <3>2. position[w[1]] = position[d] => w[1] = d
      BY <1>2, <2>2, Vector
    <3>3. CASE position[w[1]] = position[d]
      <4>1. w[1] = d /\ FirstValidIndex(d) <= w[2]
        BY <1>2, <2>2, <3>2, <3>3
      <4>2. w[2] = FirstValidIndex(d) => w = Inc(u)
        BY <1>2, <2>3, <4>1
      <4> QED BY <1>2, <2>4, <3>3, <4>1, <4>2 DEF Before
    <3>4. CASE position[w[1]] # position[d]
      BY <1>1, <1>2, <2>2, <2>4, <3>1, <3>4 DEF Before
    <3> QED BY <3>3, <3>4
  <2> QED BY <2>4, <2>5, <2>6
<1> QED BY <1>4, <1>5, <1>6

\* The end stays where it is.
LEMMA IncOfEnd ==
    ASSUME Inv, chunks # <<>>
    PROVE  Inc(End) = End
<1>1. End = <<Last(chunks), LastValidIndex(Last(chunks))>>
      /\ End[1] = Last(chunks) /\ End[2] = LastValidIndex(Last(chunks))
  BY DEF End
<1>2. LastValidIndex(Last(chunks)) \in 0 .. ChunkSize
      /\ \A j \in Valids(Last(chunks)) : j < LastValidIndex(Last(chunks))
  BY LastIsBeyond
<1>3. {i \in Valids(Last(chunks)) : End[2] < i} = {}
  <2>1. Valids(Last(chunks)) \subseteq Int
    BY ChunkedListAssumption DEF Valids, Cell
  <2> QED BY <1>1, <1>2, <2>1, ChunkedListAssumption
<1>4. IsFinal(Last(chunks))
  BY Vector DEF Last
<1> QED BY <1>1, <1>3, <1>4 DEF Inc

\* The iterator of a scan: from the first live cell on.
LEMMA IteratorSteps ==
    ASSUME Inv, chunks # <<>>
    PROVE  /\ Iterator[0] = Begin
           /\ \A n \in Nat : /\ Iterator[n] \in Live \cup {End}
                             /\ Iterator[n + 1] = Inc(Iterator[n])
<1> DEFINE A == Live \cup {End}
           F == [a \in A |-> Inc(a)]
<1>1. \A a \in A : Inc(a) \in A
  BY IncIsNext, IncOfEnd
<1>2. Begin \in A
  BY BeginIsFirst
<1> HIDE DEF A
<1>3. F \in [A -> A]
  BY <1>1
<1>4. PICK f \in [Nat -> A] : f[0] = Begin /\ \A n \in Nat : f[n + 1] = F[f[n]]
  <2> HIDE DEF F
  <2>1. Iterations(A, F, Begin) # {}
    BY <1>2, <1>3, Iterates
  <2> QED BY <2>1 DEF Iterations
<1>5. f = [n \in Nat |-> IF n = 0 THEN Begin ELSE Inc(f[n - 1])]
  <2>1. ASSUME NEW n \in Nat PROVE f[n] = IF n = 0 THEN Begin ELSE Inc(f[n - 1])
    <3>1. CASE n = 0
      BY <1>4, <3>1
    <3>2. CASE n # 0
      <4>1. n - 1 \in Nat /\ (n - 1) + 1 = n
        BY <3>2
      <4>2. f[n] = F[f[n - 1]] /\ f[n - 1] \in A
        BY <1>4, <4>1
      <4> QED BY <3>2, <4>2
    <3> QED BY <3>1, <3>2
  <2> QED BY <2>1
<1>6. Iterator = [n \in Nat |-> IF n = 0 THEN Begin ELSE Inc(Iterator[n - 1])]
  BY <1>5 DEF Iterator
<1>7. Iterator[0] = Begin /\ \A n \in Nat : Iterator[n + 1] = Inc(Iterator[n])
  <2>1. \A n \in Nat : Iterator[n] = IF n = 0 THEN Begin ELSE Inc(Iterator[n - 1])
    BY <1>6
  <2>2. \A n \in Nat : n + 1 \in Nat /\ n + 1 # 0 /\ (n + 1) - 1 = n
    OBVIOUS
  <2> QED BY <2>1, <2>2
<1>8. \A n \in Nat : Iterator[n] \in A
  <2> DEFINE I == {n \in Nat : Iterator[n] \in A}
  <2>1. 0 \in I
    BY <1>2, <1>7
  <2>2. \A n \in Nat : n \in I => n + 1 \in I
    BY <1>1, <1>7
  <2> HIDE DEF I
  <2>3. Nat \subseteq I
    BY <2>1, <2>2, SetInduction
  <2> QED BY <2>3 DEF I
<1> QED BY <1>7, <1>8 DEF A

-----------------------------------------------------------------------------
(* A scan.                                                                 *)

\* After some number of steps a scan is at the end; up to there its iterators
\* are live cells, in order.
LEMMA ScanStops ==
    ASSUME Inv, chunks # <<>>
    PROVE  \E k \in 0 .. Cardinality(Slot) :
              /\ Iterator[k] = End
              /\ \A n \in 0 .. k - 1 : Iterator[n] \in Live
              /\ \A n \in 0 .. k : \A m \in 0 .. n - 1 : Before(Iterator[m], Iterator[n])
<1> DEFINE most == Cardinality(Slot)
           I == {n \in Nat : Iterator[n] = End}
<1>1. IsFiniteSet(Slot) /\ most \in Nat /\ Live \subseteq Slot
  <2>1. IsFiniteSet(Cell)
    BY FS_Interval, ChunkedListAssumption DEF Cell
  <2>2. IsFiniteSet(Slot)
    BY <2>1, FS_Product, ChunkedListAssumption DEF Slot
  <2>3. Live \subseteq Slot
    BY LiveCells DEF Slot
  <2> QED BY <2>2, <2>3, FS_CardinalityType
<1> HIDE DEF most
<1>2. ASSUME NEW k \in Nat, \A n \in 0 .. k - 1 : Iterator[n] \in Live
      PROVE  \A n \in 0 .. k : \A m \in 0 .. n - 1 : Before(Iterator[m], Iterator[n])
  <2> DEFINE J == {n \in Nat : n <= k => \A m \in 0 .. n - 1 : Before(Iterator[m], Iterator[n])}
  <2>1. 0 \in J
    OBVIOUS
  <2>2. ASSUME NEW n \in Nat, n \in J, n + 1 <= k PROVE n + 1 \in J
    <3>1. n \in 0 .. k - 1 /\ Iterator[n] \in Live /\ Iterator[n + 1] = Inc(Iterator[n])
      BY <1>2, <2>2, IteratorSteps
    <3>2. Before(Iterator[n], Iterator[n + 1])
      BY <3>1, IncIsNext
    <3>3. ASSUME NEW m \in 0 .. n - 1 PROVE Before(Iterator[m], Iterator[n + 1])
      <4>1. Before(Iterator[m], Iterator[n])
        BY <2>2, <3>1
      <4>2. m \in 0 .. k - 1 /\ Iterator[m] \in Live /\ Iterator[n + 1] \in Live \cup {End}
        BY <1>2, <2>2, IteratorSteps
      <4> HIDE DEF J
      <4>3. /\ position[Iterator[m][1]] \in Int /\ Iterator[m][2] \in Int
            /\ position[Iterator[n][1]] \in Int /\ Iterator[n][2] \in Int
        BY SMTT(30), <3>1, <4>2, Places, ChunkedListAssumption
      <4>4. position[Iterator[n + 1][1]] \in Int /\ Iterator[n + 1][2] \in Int
        <5>1. CASE Iterator[n + 1] \in Live
          BY <5>1, Places, ChunkedListAssumption
        <5>2. CASE Iterator[n + 1] = End
          BY <3>1, <5>2, EndIsBehind, Vector, ChunkedListAssumption
        <5> QED BY <4>2, <5>1, <5>2
      <4> QED BY <3>2, <4>1, <4>3, <4>4 DEF Before
    <3> QED BY <3>2, <3>3
  <2>3. \A n \in Nat : n \in J => n + 1 \in J
    <3>1. \A n \in Nat : ~(n + 1 <= k) => n + 1 \in J
      OBVIOUS
    <3> QED BY <2>2, <3>1
  <2> HIDE DEF J
  <2>4. Nat \subseteq J
    BY <2>1, <2>3, SetInduction
  <2> QED BY <2>4 DEF J
<1>3. \E n \in 0 .. most : Iterator[n] = End
  <2>1. SUFFICES ASSUME \A n \in 0 .. most : Iterator[n] # End PROVE FALSE
    OBVIOUS
  <2>2. \A n \in 0 .. most : Iterator[n] \in Live
    BY <1>1, <2>1, IteratorSteps
  <2> DEFINE f == [n \in 0 .. most |-> Iterator[n]]
  <2>3. f \in [0 .. most -> Slot]
    BY <1>1, <2>2
  <2>4. IsFiniteSet(0 .. most) /\ Cardinality(0 .. most) = most + 1
    BY <1>1, FS_Interval
  <2>5. PICK x, y \in 0 .. most : x # y /\ f[x] = f[y]
    <3> HIDE DEF f
    <3> QED BY <1>1, <2>3, <2>4, FS_PigeonHole DEF most
  <2>6. PICK m, n \in 0 .. most : m < n /\ Iterator[m] = Iterator[n]
    BY <1>1, <2>5
  <2>7. Before(Iterator[m], Iterator[n])
    <3>1. n \in Nat /\ n \in 0 .. n /\ m \in 0 .. n - 1 /\ \A l \in 0 .. n - 1 : l \in 0 .. most
      BY <1>1, <2>6
    <3> QED BY <1>2, <2>2, <3>1
  <2>8. Iterator[n] \in Live
    BY <2>2
  <2> QED BY <2>6, <2>7, <2>8, Places, ChunkedListAssumption DEF Before
<1>4. PICK k \in I : \A n \in I : k <= n
  <2>1. I \subseteq Nat /\ I # {}
    BY <1>1, <1>3
  <2> HIDE DEF I
  <2> QED BY <2>1, LeastNatural
<1>5. k \in 0 .. most /\ Iterator[k] = End
  BY <1>1, <1>3, <1>4
<1>6. \A n \in 0 .. k - 1 : Iterator[n] \in Live
  <2>1. \A n \in 0 .. k - 1 : n \in Nat /\ n \notin I
    BY <1>1, <1>4, <1>5
  <2> QED BY <2>1, IteratorSteps
<1>7. k \in Nat
  BY <1>4
<1> QED BY <1>2, <1>5, <1>6, <1>7 DEF most

\* A scan passes over no live cell.
LEMMA ScanMissesNone ==
    ASSUME Inv, chunks # <<>>, NEW k \in Nat, Iterator[k] = End,
           \A n \in 0 .. k - 1 : Iterator[n] \in Live,
           NEW u \in Live
    PROVE  \E n \in 0 .. k - 1 : Iterator[n] = u
<1>1. SUFFICES ASSUME \A n \in 0 .. k - 1 : Iterator[n] # u PROVE FALSE
  OBVIOUS
<1> DEFINE J == {n \in Nat : n <= k => u = Iterator[n] \/ Before(Iterator[n], u)}
<1>2. 0 \in J
  BY IteratorSteps, BeginIsFirst
<1>3. ASSUME NEW n \in Nat, n \in J PROVE n + 1 \in J
  <2>1. SUFFICES ASSUME n + 1 <= k PROVE u = Iterator[n + 1] \/ Before(Iterator[n + 1], u)
    OBVIOUS
  <2>2. n \in 0 .. k - 1 /\ Iterator[n] \in Live /\ Iterator[n] # u
    BY <1>1, <2>1
  <2>3. Before(Iterator[n], u)
    BY <1>3, <2>2
  <2>4. Iterator[n + 1] = Inc(Iterator[n])
    BY IteratorSteps
  <2> HIDE DEF J
  <2> QED BY <2>2, <2>3, <2>4, IncIsNext
<1> HIDE DEF J
<1>4. k \in J
  BY <1>2, <1>3, SetInduction
<1>5. u = End \/ Before(End, u)
  BY <1>4 DEF J
<1>6. Before(u, End) /\ ~Equal(u, End) /\ Equal(End, End) /\ Listed(End[1]) /\ End[2] \in 0 .. ChunkSize
  BY EndIsBehind
<1>7. /\ position[u[1]] \in Int /\ u[2] \in Int
      /\ position[End[1]] \in Int /\ End[2] \in Int
  BY <1>6, Places, Vector, ChunkedListAssumption
<1> QED BY <1>5, <1>6, <1>7 DEF Before

\* What find_if visits is each live cell once.
LEMMA VisitedIsScan ==
    ASSUME Inv, chunks # <<>>
    PROVE  \E k \in Nat :
              /\ Visited \in [1 .. k -> Live]
              /\ \A m, n \in 1 .. k : Visited[m] = Visited[n] => m = n
              /\ \A u \in Live : \E n \in 1 .. k : Visited[n] = u
<1> DEFINE most == Cardinality(Slot) + 1
           Stop(n) == /\ n = most \/ Equal(Iterator[n], End)
                      /\ \A m \in 0 .. n - 1 : ~Equal(Iterator[m], End)
<1>1. PICK k \in 0 .. Cardinality(Slot) :
              /\ Iterator[k] = End
              /\ \A n \in 0 .. k - 1 : Iterator[n] \in Live
              /\ \A n \in 0 .. k : \A m \in 0 .. n - 1 : Before(Iterator[m], Iterator[n])
  BY ScanStops
<1>2. Cardinality(Slot) \in Nat
  <2>1. IsFiniteSet(Cell)
    BY FS_Interval, ChunkedListAssumption DEF Cell
  <2> QED BY <2>1, FS_Product, FS_CardinalityType, ChunkedListAssumption DEF Slot
<1>3. Begin \in Live
  BY BeginIsFirst
<1>4. Stop(k) /\ k \in 0 .. most
  <2>1. Equal(End, End) /\ \A n \in 0 .. k - 1 : ~Equal(Iterator[n], End)
    BY <1>1, <1>3, EndIsBehind
  <2> QED BY <1>1, <1>2, <2>1
<1>5. ASSUME NEW n \in 0 .. most, Stop(n) PROVE n = k
  <2>1. CASE n < k
    <3>1. n \in 0 .. k - 1 /\ n # most
      BY <1>1, <1>2, <2>1
    <3>2. ~Equal(Iterator[n], End)
      BY <1>1, <3>1, EndIsBehind
    <3> QED BY <1>5, <3>1, <3>2
  <2>2. CASE k < n
    <3>1. k \in 0 .. n - 1 /\ Equal(Iterator[k], End)
      BY <1>1, <1>2, <1>3, <2>2, EndIsBehind
    <3> QED BY <1>5, <3>1
  <2> QED BY <1>1, <1>2, <2>1, <2>2
<1>6. Visited = [n \in 1 .. k |-> Iterator[n - 1]]
  <2>1. k = CHOOSE n \in 0 .. most : Stop(n)
    <3> HIDE DEF Stop, most
    <3> QED BY <1>4, <1>5
  <2> QED BY <2>1 DEF Visited
<1>7. k \in Nat
  BY <1>1, <1>2
<1>8. Visited \in [1 .. k -> Live]
  BY <1>1, <1>6, <1>7
<1>9. ASSUME NEW m \in 1 .. k, NEW n \in 1 .. k, Visited[m] = Visited[n] PROVE m = n
  <2>1. SUFFICES ASSUME NEW x \in 1 .. k, NEW y \in 1 .. k, x < y, Visited[x] = Visited[y]
                 PROVE  FALSE
    BY <1>7, <1>9
  <2>2. /\ y - 1 \in 0 .. k - 1 /\ y - 1 \in 0 .. k /\ x - 1 \in 0 .. (y - 1) - 1
        /\ Visited[x] = Iterator[x - 1] /\ Visited[y] = Iterator[y - 1]
    BY <1>6, <1>7, <2>1
  <2>3. Iterator[y - 1] \in Live /\ Before(Iterator[x - 1], Iterator[y - 1])
    BY <1>1, <2>2
  <2>4. Before(Iterator[y - 1], Iterator[y - 1])
    BY <2>1, <2>2, <2>3
  <2>5. position[Iterator[y - 1][1]] \in Int /\ Iterator[y - 1][2] \in Int
    BY <2>3, Places, ChunkedListAssumption
  <2> QED BY <2>4, <2>5 DEF Before
<1>10. ASSUME NEW u \in Live PROVE \E n \in 1 .. k : Visited[n] = u
  <2>1. PICK n \in 0 .. k - 1 : Iterator[n] = u
    BY <1>1, <1>7, ScanMissesNone
  <2>2. n + 1 \in 1 .. k /\ (n + 1) - 1 = n
    BY <1>7
  <2> QED BY <1>6, <2>1, <2>2
<1> QED BY <1>7, <1>8, <1>9, <1>10

LEMMA NothingVisited ==
    ASSUME Inv, chunks = <<>>
    PROVE  Live = {} /\ Visited = <<>>
BY Places DEF Visited

LEMMA ScansAreExact ==
    ASSUME Inv
    PROVE  ScanExact
<1>1. CASE chunks = <<>>
  <2>1. Live = {} /\ Visited = <<>>
    BY <1>1, NothingVisited
  <2>2. ToSet(<<>>) = {} /\ Len(<<>>) = 0
    BY DEF ToSet
  <2> QED BY <2>1, <2>2, FS_EmptySet DEF ScanExact
<1>2. CASE chunks # <<>>
  <2>1. PICK k \in Nat :
              /\ Visited \in [1 .. k -> Live]
              /\ \A m, n \in 1 .. k : Visited[m] = Visited[n] => m = n
              /\ \A u \in Live : \E n \in 1 .. k : Visited[n] = u
    BY <1>2, VisitedIsScan
  <2>2. Visited \in Seq(Live) /\ DOMAIN Visited = 1 .. k /\ Len(Visited) = k
    <3>1. Visited \in Seq(Live)
      BY <2>1, IsASeq
    <3>2. DOMAIN Visited = 1 .. k
      BY <2>1
    <3>3. Len(Visited) \in Nat /\ DOMAIN Visited = 1 .. Len(Visited)
      BY <3>1, LenProperties
    <3> QED BY <2>1, <3>1, <3>2, <3>3
  <2>3. ToSet(Visited) = Live
    BY <2>1, <2>2 DEF ToSet
  <2>4. Visited \in Bijection(1 .. k, Live)
    BY <2>1 DEF Bijection, Injection, Surjection, IsInjective
  <2>5. Cardinality(Live) = Cardinality(1 .. k) /\ Cardinality(1 .. k) = k
    <3>1. IsFiniteSet(1 .. k) /\ Cardinality(1 .. k) = k
      BY FS_Interval
    <3>2. ExistsBijection(1 .. k, Live)
      BY <2>4 DEF ExistsBijection
    <3> QED BY <3>1, <3>2, FS_Bijection
  <2> QED BY <2>2, <2>3, <2>5 DEF ScanExact
<1> QED BY <1>1, <1>2

\* A search finds a live cell with what is wanted, and none only if there is
\* none.
LEMMA SearchIsExact ==
    ASSUME Inv, NEW wanted
    PROVE  \/ FindIf(wanted) \in Live /\ At(FindIf(wanted)) \in wanted
           \/ FindIf(wanted) = None /\ \A u \in Live : At(u) \notin wanted
<1> DEFINE hits == {n \in DOMAIN Visited : At(Visited[n]) \in wanted}
<1>1. CASE chunks = <<>>
  <2>1. Live = {} /\ hits = {}
    BY <1>1, NothingVisited
  <2> QED BY <2>1 DEF FindIf
<1>2. CASE chunks # <<>>
  <2>1. PICK k \in Nat :
              /\ Visited \in [1 .. k -> Live]
              /\ \A u \in Live : \E n \in 1 .. k : Visited[n] = u
    BY <1>2, VisitedIsScan
  <2>2. DOMAIN Visited = 1 .. k
    BY <2>1
  <2>3. CASE hits = {}
    BY <2>1, <2>2, <2>3 DEF FindIf
  <2>4. CASE hits # {}
    <3>1. \E n \in hits : \A m \in hits : n <= m
      <4>1. hits \subseteq Nat
        BY <2>2
      <4> HIDE DEF hits
      <4> QED BY <2>4, <4>1, LeastNatural
    <3>2. PICK n \in hits : FindIf(wanted) = Visited[n]
      BY <2>4, <3>1 DEF FindIf
    <3> QED BY <2>1, <2>2, <3>2
  <2> QED BY <2>3, <2>4
<1> QED BY <1>1, <1>2

\* Iterators of live cells are equal only when they are the same: is_end is
\* true of at most one live cell.
LEMMA LiveIteratorsDiffer ==
    ASSUME Inv
    PROVE  IteratorsDiffer
<1>1. SUFFICES ASSUME NEW a \in Live, NEW b \in Live, Equal(a, b) PROVE a = b
  BY DEF IteratorsDiffer
<1>2. /\ a = <<a[1], a[2]>> /\ b = <<b[1], b[2]>>
      /\ Listed(a[1]) /\ Listed(b[1])
  BY LiveCells, Places
<1>3. CASE IsEnd(a) /\ IsEnd(b)
  <2>1. a[1] = b[1]
    BY <1>2, <1>3, Vector DEF IsEnd
  <2> QED BY <1>2, <1>3, <2>1 DEF IsEnd
<1>4. CASE position[a[1]] = position[b[1]] /\ a[2] = b[2]
  BY <1>2, <1>4, Vector
<1> QED BY <1>1, <1>3, <1>4 DEF Equal

\* Going back undoes going on, with the exception the operator makes.
LEMMA DecUndoesInc ==
    ASSUME Inv
    PROVE  RetreatUndoesAdvance
<1>1. SUFFICES ASSUME NEW s \in Live,
                      Inc(s)[1] = s[1] \/ s[2] <= Cardinality(Valids(s[1]))
               PROVE  Dec(Inc(s)) = s
  BY DEF RetreatUndoesAdvance
<1> DEFINE it == Inc(s)
           before == {u \in Live :
                        \/ u[1] = it[1] /\ u[2] < it[2]
                        \/ /\ position[u[1]] < position[it[1]]
                           /\ u[2] <= Cardinality(Valids(u[1]))}
<1>2. /\ it \in Live \cup {End} /\ Before(s, it)
      /\ \A w \in Live : Before(s, w) => w = it \/ Before(it, w)
  BY IncIsNext
<1>3. position[it[1]] \in Int /\ it[2] \in Int /\ Listed(it[1])
  <2>1. CASE it \in Live
    BY <2>1, Places, ChunkedListAssumption
  <2>2. CASE it = End
    BY <2>2, EndIsBehind, Vector, ChunkedListAssumption
  <2> QED BY <1>2, <2>1, <2>2
<1>4. \A u \in Live : /\ position[u[1]] \in Int /\ u[2] \in Int /\ Listed(u[1])
                      /\ u = <<u[1], u[2]>>
  BY Places, LiveCells, ChunkedListAssumption
<1>5. s \in before
  <2>1. position[s[1]] = position[it[1]] => s[1] = it[1]
    BY <1>3, <1>4, Vector
  <2>2. \/ position[s[1]] < position[it[1]] /\ it[1] # s[1]
        \/ s[1] = it[1] /\ s[2] < it[2]
    BY <1>2, <1>3, <1>4, <2>1 DEF Before
  <2>3. it[1] = s[1] \/ s[2] <= Cardinality(Valids(s[1]))
    BY <1>1
  <2> HIDE DEF it
  <2> QED BY <2>2, <2>3
<1>6. ASSUME NEW u \in before PROVE UpTo(u, s)
  <2>1. u \in Live /\ Before(u, it)
    BY DEF Before
  <2>2. ~Before(s, u)
    <3>1. SUFFICES ASSUME Before(s, u) PROVE FALSE
      OBVIOUS
    <3>2. u = it \/ Before(it, u)
      BY <1>2, <2>1, <3>1
    <3> HIDE DEF it, before
    <3> QED BY <1>3, <1>4, <2>1, <3>2 DEF Before
  <2> HIDE DEF it, before
  <2> QED BY <1>4, <2>1, <2>2 DEF Before, UpTo
<1>7. ASSUME NEW t \in before, \A u \in before : UpTo(u, t) PROVE t = s
  <2>1. UpTo(s, t) /\ UpTo(t, s) /\ t \in Live
    BY <1>5, <1>6, <1>7
  <2>2. position[s[1]] = position[t[1]] => s[1] = t[1]
    BY <1>4, <2>1, Vector
  <2> HIDE DEF it, before
  <2> QED BY <1>4, <2>1, <2>2 DEF UpTo
<1>8. Dec(it) = CHOOSE t \in before : \A u \in before : UpTo(u, t)
  BY <1>5 DEF Dec
<1> HIDE DEF before, it
<1>9. s = CHOOSE t \in before : \A u \in before : UpTo(u, t)
  BY <1>5, <1>6, <1>7
<1> QED BY <1>8, <1>9 DEF it

-----------------------------------------------------------------------------
(* Steps.                                                                  *)

\* What an abstract observer sees.
Data == [s \in Slot |-> At(s)]

\* A cell gets a value or loses it.
LEMMA OneCell ==
    ASSUME Inv, NEW c \in Chunk, NEW i \in Cell, NEW y \in Value \cup {None},
           cells' = [cells EXCEPT ![c][i] = y]
    PROVE  /\ cells' \in [Chunk -> [Cell -> Value \cup {None}]]
           /\ \A d \in Chunk : d # c => Valids(d)' = Valids(d)
           /\ Valids(c)' = IF y = None THEN Valids(c) \ {i} ELSE Valids(c) \cup {i}
           /\ Data' = [Data EXCEPT ![<<c, i>>] = y]
<1>1. cells \in [Chunk -> [Cell -> Value \cup {None}]]
  BY DEF Inv
<1>2. \A d \in Chunk : cells'[d] = IF d = c THEN [cells[c] EXCEPT ![i] = y] ELSE cells[d]
  BY <1>1
<1>3. cells' \in [Chunk -> [Cell -> Value \cup {None}]]
  BY <1>1
<1>4. ASSUME NEW d \in Chunk, NEW j \in Cell
      PROVE  cells'[d][j] = IF d = c /\ j = i THEN y ELSE cells[d][j]
  BY <1>1, <1>2
<1>5. \A d \in Chunk : d # c => Valids(d)' = Valids(d)
  BY <1>4 DEF Valids
<1>6. Valids(c)' = IF y = None THEN Valids(c) \ {i} ELSE Valids(c) \cup {i}
  BY <1>4 DEF Valids
<1>7. Data' = [Data EXCEPT ![<<c, i>>] = y]
  <2>1. ASSUME NEW s \in Slot
        PROVE  At(s)' = IF s = <<c, i>> THEN y ELSE At(s)
    <3>1. s = <<s[1], s[2]>> /\ s[1] \in Chunk /\ s[2] \in Cell
      BY DEF Slot
    <3> QED BY <1>4, <3>1 DEF At
  <2>2. [Data EXCEPT ![<<c, i>>] = y] = [s \in Slot |-> IF s = <<c, i>> THEN y ELSE At(s)]
    BY DEF Data
  <2> QED BY <2>1, <2>2 DEF Data
<1> QED BY <1>3, <1>5, <1>6, <1>7

\* A value goes into the first free cell of a chunk with room.
LEMMA FillsFreeCell ==
    ASSUME Inv, NEW c \in Chunk, NEW x \in Value, Valids(c) # Cell, Fill(c, x)
    PROVE  \E i \in Cell : /\ found' = <<c, i>> /\ cells[c][i] = None
                           /\ cells' = [cells EXCEPT ![c][i] = x]
<1> DEFINE free == {i \in Cell : cells[c][i] = None}
<1>1. free # {} /\ free \subseteq Nat
  BY ChunkedListAssumption DEF Valids, Cell
<1>2. PICK i \in free : \A j \in free : i <= j
  <2> HIDE DEF free
  <2> QED BY <1>1, LeastNatural
<1>3. \A j \in 0 .. i - 1 : cells[c][j] # None
  <2>1. \A j \in 0 .. i - 1 : j \in Cell /\ ~(i <= j)
    BY <1>2, ChunkedListAssumption DEF Cell
  <2> QED BY <1>2, <2>1
<1>4. \E l \in Cell : cells[c][l] = None /\ \A j \in 0 .. l - 1 : cells[c][j] # None
  BY <1>2, <1>3
<1> QED BY <1>4 DEF Fill

LEMMA PushBackKeeps ==
    ASSUME Inv, NEW x \in Value, PushBack(x)
    PROVE  Inv' /\ \E s \in Slot : /\ found' = s /\ Data[s] = None
                                   /\ Data' = [Data EXCEPT ![s] = x]
<1>1. x # None
  BY ChunkedListAssumption
<1>2. CASE BackHasRoom /\ Fill(Last(chunks), x) /\ UNCHANGED <<chunks, position>>
  <2>1. chunks # <<>> /\ Valids(Last(chunks)) # Cell
    BY <1>2 DEF BackHasRoom
  <2>2. PICK c \in Chunk : c = Last(chunks)
    BY <2>1, Vector DEF Last
  <2>3. PICK i \in Cell : /\ found' = <<c, i>> /\ cells[c][i] = None
                          /\ cells' = [cells EXCEPT ![c][i] = x]
    BY <1>2, <2>1, <2>2, FillsFreeCell
  <2>4. /\ cells' \in [Chunk -> [Cell -> Value \cup {None}]]
        /\ \A d \in Chunk : d # c => Valids(d)' = Valids(d)
        /\ Valids(c)' = Valids(c) \cup {i}
        /\ Data' = [Data EXCEPT ![<<c, i>>] = x]
    BY <1>1, <2>3, OneCell
  <2>5. ASSUME NEW d \in Chunk, Valids(d) # {} PROVE Valids(d)' # {}
    BY <2>4, <2>5
  <2>6. ASSUME NEW d \in Chunk, Valids(d)' # {} PROVE Listed(d)
    <3>1. Listed(c)
      BY <2>1, <2>2, Vector DEF Last
    <3> QED BY <2>4, <2>6, <3>1 DEF Inv
  <2>7. Inv'
    <3>1. chunks' = chunks /\ position' = position
      BY <1>2
    <3>2. \A d : Listed(d)' <=> Listed(d)
      BY <3>1 DEF Listed
    <3> QED BY <2>4, <2>5, <2>6, <3>1, <3>2 DEF Inv
  <2>8. <<c, i>> \in Slot /\ Data[<<c, i>>] = None
    BY <2>3 DEF Slot, Data, At
  <2> QED BY <2>3, <2>4, <2>7, <2>8
<1>3. CASE \E c \in Chunk \ ToSet(chunks) :
              /\ chunks' = Append(chunks, c)
              /\ position' = [position EXCEPT ![c] = Len(chunks)]
              /\ Fill(c, x)
  <2>1. PICK c \in Chunk \ ToSet(chunks) :
              /\ chunks' = Append(chunks, c)
              /\ position' = [position EXCEPT ![c] = Len(chunks)]
              /\ Fill(c, x)
    BY <1>3
  <2>2. Len(chunks) \in Nat /\ ~Listed(c)
    BY <2>1, LenProperties DEF Inv, Listed, ToSet
  <2>3. Valids(c) = {} /\ Valids(c) # Cell
    <3>1. 0 \in Cell
      BY ChunkedListAssumption DEF Cell
    <3>2. Valids(c) = {}
      BY <2>2 DEF Inv
    <3> QED BY <3>1, <3>2
  <2>4. PICK i \in Cell : /\ found' = <<c, i>> /\ cells[c][i] = None
                          /\ cells' = [cells EXCEPT ![c][i] = x]
    BY <2>1, <2>3, FillsFreeCell
  <2>5. /\ cells' \in [Chunk -> [Cell -> Value \cup {None}]]
        /\ \A d \in Chunk : d # c => Valids(d)' = Valids(d)
        /\ Valids(c)' = Valids(c) \cup {i}
        /\ Data' = [Data EXCEPT ![<<c, i>>] = x]
    BY <1>1, <2>1, <2>4, OneCell
  <2>6. /\ chunks' \in Seq(Chunk) /\ Len(chunks') = Len(chunks) + 1
        /\ \A n \in 1 .. Len(chunks) : chunks'[n] = chunks[n]
        /\ chunks'[Len(chunks) + 1] = c
    <3>1. chunks \in Seq(Chunk) /\ c \in Chunk
      BY DEF Inv
    <3> QED BY <2>1, <3>1, AppendProperties
  <2>7. position' \in [Chunk -> Int] /\ position'[c] = Len(chunks)
        /\ \A d \in Chunk : d # c => position'[d] = position[d]
    BY <2>1, <2>2 DEF Inv
  <2>8. ASSUME NEW n \in 1 .. Len(chunks'), NEW d \in Chunk, chunks'[n] = d
        PROVE  position'[d] = n - 1 /\ Valids(d)' # {}
    <3>1. CASE n = Len(chunks) + 1
      <4>1. d = c
        BY <2>6, <2>8, <3>1
      <4>2. n - 1 = Len(chunks)
        BY <2>2, <3>1
      <4>3. Valids(c)' # {}
        BY <2>5
      <4> QED BY <2>7, <4>1, <4>2, <4>3
    <3>2. CASE n # Len(chunks) + 1
      <4>1. n \in 1 .. Len(chunks) /\ chunks[n] = d
        BY <2>2, <2>6, <2>8, <3>2
      <4>2. d # c /\ position[d] = n - 1 /\ Valids(d) # {}
        BY <2>2, <4>1 DEF Listed, Inv
      <4> QED BY <2>5, <2>7, <4>2
    <3> QED BY <3>1, <3>2
  <2>9. ASSUME NEW d \in Chunk, Valids(d)' # {} PROVE Listed(d)'
    <3>1. CASE d = c
      <4>1. Len(chunks) + 1 \in 1 .. Len(chunks')
        BY <2>2, <2>6
      <4> QED BY <2>6, <3>1, <4>1 DEF Listed
    <3>2. CASE d # c
      <4>1. Valids(d) # {}
        BY <2>5, <2>9, <3>2
      <4>2. PICK n \in 1 .. Len(chunks) : chunks[n] = d
        BY <4>1 DEF Inv, Listed
      <4>3. n \in 1 .. Len(chunks')
        BY <2>2, <2>6
      <4> QED BY <2>6, <4>2, <4>3 DEF Listed
    <3> QED BY <3>1, <3>2
  <2>10. Inv'
    BY <2>5, <2>6, <2>7, <2>8, <2>9 DEF Inv
  <2>11. <<c, i>> \in Slot /\ Data[<<c, i>>] = None
    BY <2>4 DEF Slot, Data, At
  <2> QED BY <2>4, <2>5, <2>10, <2>11
<1> QED BY <1>2, <1>3 DEF PushBack

\* A value goes, and with the last one of a chunk the chunk: those behind it
\* learn their new places.
LEMMA EraseKeeps ==
    ASSUME Inv, NEW s \in Live, EraseAt(s)
    PROVE  /\ Inv'
           /\ Data[s] # None /\ s \in Slot
           /\ Data' = [Data EXCEPT ![s] = None]
<1>1. PICK c \in Chunk, i \in Cell : s = <<c, i>> /\ s[1] = c /\ s[2] = i /\ i \in Valids(c)
  BY LiveCells
<1>2. Listed(c) /\ cells[c][i] # None
  BY <1>1 DEF Inv, Valids
<1>3. cells' = [cells EXCEPT ![c][i] = None]
  BY <1>1 DEF EraseAt
<1>4. /\ cells' \in [Chunk -> [Cell -> Value \cup {None}]]
      /\ \A d \in Chunk : d # c => Valids(d)' = Valids(d)
      /\ Valids(c)' = Valids(c) \ {i}
      /\ Data' = [Data EXCEPT ![<<c, i>>] = None]
  BY <1>3, OneCell
<1>5. Data[s] # None /\ s \in Slot /\ Data' = [Data EXCEPT ![s] = None]
  BY <1>1, <1>2, <1>4 DEF Data, Slot, At
<1>6. CASE Valids(c) # {i} /\ UNCHANGED <<chunks, position>>
  <2>1. ASSUME NEW d \in Chunk, Valids(d) # {} PROVE Valids(d)' # {}
    <3>1. CASE d = c
      <4>1. Valids(c)' # {}
        BY <1>1, <1>4, <1>6
      <4> QED BY <3>1, <4>1
    <3>2. CASE d # c
      BY <1>4, <2>1, <3>2
    <3> QED BY <3>1, <3>2
  <2>2. ASSUME NEW d \in Chunk, Valids(d)' # {} PROVE Listed(d)
    BY <1>2, <1>4, <2>2 DEF Inv
  <2>3. chunks' = chunks /\ position' = position
    BY <1>6
  <2>4. \A d : Listed(d)' <=> Listed(d)
    BY <2>3 DEF Listed
  <2>5. Inv'
    BY <1>4, <2>1, <2>2, <2>3, <2>4 DEF Inv
  <2> QED BY <1>5, <2>5
<1>7. CASE /\ Valids(c) = {i}
           /\ chunks' = RemoveAt(chunks, position[c] + 1)
           /\ position' = [d \in Chunk |->
                 IF d \in ToSet(chunks')
                 THEN SelectInSeq(chunks', LAMBDA e : e = d) - 1 ELSE 0]
  <2> DEFINE p == position[c] + 1
  <2>1. /\ chunks \in Seq(Chunk) /\ Len(chunks) \in Nat
        /\ p \in 1 .. Len(chunks) /\ chunks[p] = c
    BY SMTT(30), <1>2, Vector DEF Inv
  <2> HIDE DEF p
  <2>2. /\ chunks' \in Seq(Chunk) /\ Len(chunks') = Len(chunks) - 1
        /\ \A n \in 1 .. Len(chunks) - 1 :
              chunks'[n] = IF n < p THEN chunks[n] ELSE chunks[n + 1]
    BY <1>7, <2>1, RemovedAt DEF p
  <2>3. ASSUME NEW m \in 1 .. Len(chunks), NEW n \in 1 .. Len(chunks), chunks[m] = chunks[n]
        PROVE  m = n
    <3>1. position[chunks[m]] = m - 1 /\ position[chunks[n]] = n - 1
      BY Vector
    <3> QED BY <2>1, <2>3, <3>1
  <2>4. ASSUME NEW n \in 1 .. Len(chunks')
        PROVE  \E l \in 1 .. Len(chunks) :
                  /\ chunks'[n] = chunks[l] /\ l # p
                  /\ l = IF n < p THEN n ELSE n + 1
    <3>1. n \in 1 .. Len(chunks) - 1
      BY <2>2
    <3>2. CASE n < p
      <4>1. n \in 1 .. Len(chunks) /\ n # p
        BY <2>1, <3>1, <3>2
      <4> QED BY <2>2, <3>1, <3>2, <4>1
    <3>3. CASE ~(n < p)
      <4>1. n + 1 \in 1 .. Len(chunks) /\ n + 1 # p
        BY <2>1, <3>1, <3>3
      <4> QED BY <2>2, <3>1, <3>3, <4>1
    <3> QED BY <3>2, <3>3
  <2>5. ASSUME NEW m \in 1 .. Len(chunks'), NEW n \in 1 .. Len(chunks'), chunks'[m] = chunks'[n]
        PROVE  m = n
    <3>1. PICK k \in 1 .. Len(chunks) :
              /\ chunks'[m] = chunks[k] /\ k = IF m < p THEN m ELSE m + 1
      BY <2>4
    <3>2. PICK l \in 1 .. Len(chunks) :
              /\ chunks'[n] = chunks[l] /\ l = IF n < p THEN n ELSE n + 1
      BY <2>4
    <3>3. k = l
      BY <2>3, <2>5, <3>1, <3>2
    <3> QED BY <2>1, <2>2, <3>1, <3>2, <3>3
  <2>6. \A n \in 1 .. Len(chunks') : chunks'[n] \in Chunk
    BY <2>2, LenProperties
  <2>7. ASSUME NEW n \in 1 .. Len(chunks')
        PROVE  position'[chunks'[n]] = n - 1
    <3> DEFINE I == {j \in 1 .. Len(chunks') : chunks'[j] = chunks'[n]}
    <3>1. I = {n}
      BY <2>5
    <3>2. chunks'[n] \in ToSet(chunks')
      <4>1. DOMAIN chunks' = 1 .. Len(chunks')
        BY <2>2, LenProperties
      <4> QED BY <4>1 DEF ToSet
    <3>3. position'[chunks'[n]] = SelectInSeq(chunks', LAMBDA e : e = chunks'[n]) - 1
      BY <1>7, <2>6, <3>2
    <3>4. SelectInSeq(chunks', LAMBDA e : e = chunks'[n]) = IF I # {} THEN Min(I) ELSE 0
      BY DEF SelectInSeq
    <3>5. Min({n}) = n
      <4>1. n \in Nat
        BY <2>1, <2>2
      <4> QED BY <4>1 DEF Min
    <3> HIDE DEF I
    <3> QED BY <3>1, <3>3, <3>4, <3>5
  <2>8. position' \in [Chunk -> Int]
    <3>1. ASSUME NEW d \in Chunk PROVE position'[d] \in Int
      <4>1. CASE d \in ToSet(chunks')
        <5>1. PICK n \in 1 .. Len(chunks') : chunks'[n] = d
          BY <2>2, <4>1, LenProperties DEF ToSet
        <5> QED BY <2>1, <2>2, <2>7, <5>1
      <4>2. CASE d \notin ToSet(chunks')
        BY <1>7, <4>2
      <4> QED BY <4>1, <4>2
    <3> QED BY <1>7, <3>1
  <2>9. ASSUME NEW n \in 1 .. Len(chunks'), NEW d \in Chunk, chunks'[n] = d
        PROVE  position'[d] = n - 1 /\ Valids(d)' # {}
    <3>1. PICK l \in 1 .. Len(chunks) : d = chunks[l] /\ l # p
      BY <2>4, <2>9
    <3>2. d # c /\ Valids(d) # {}
      BY <2>1, <2>3, <3>1 DEF Inv
    <3> QED BY <1>4, <2>7, <2>9, <3>2
  <2>10. ASSUME NEW d \in Chunk, Valids(d)' # {} PROVE Listed(d)'
    <3>1. d # c
      <4>1. Valids(c)' = {}
        BY <1>4, <1>7
      <4> QED BY <2>10, <4>1
    <3>2. Valids(d) # {}
      BY <1>4, <2>10, <3>1
    <3>3. PICK n \in 1 .. Len(chunks) : chunks[n] = d
      BY <3>2 DEF Inv, Listed
    <3>4. n # p
      BY <2>1, <3>1, <3>3
    <3>5. CASE n < p
      <4>1. n \in 1 .. Len(chunks') /\ n \in 1 .. Len(chunks) - 1
        BY <2>1, <2>2, <3>5
      <4> QED BY <2>2, <3>3, <3>5, <4>1 DEF Listed
    <3>6. CASE n > p
      <4>1. /\ n - 1 \in 1 .. Len(chunks') /\ n - 1 \in 1 .. Len(chunks) - 1
            /\ ~(n - 1 < p) /\ (n - 1) + 1 = n
        BY <2>1, <2>2, <3>6
      <4> QED BY <2>2, <3>3, <4>1 DEF Listed
    <3> QED BY <2>1, <3>4, <3>5, <3>6
  <2>11. Inv'
    BY <1>4, <2>2, <2>8, <2>9, <2>10 DEF Inv
  <2> QED BY <1>5, <2>11
<1>8. \/ /\ Valids(c) # {i} /\ UNCHANGED <<chunks, position>>
      \/ /\ Valids(c) = {i}
         /\ chunks' = RemoveAt(chunks, position[c] + 1)
         /\ position' = [d \in Chunk |->
               IF d \in ToSet(chunks')
               THEN SelectInSeq(chunks', LAMBDA e : e = d) - 1 ELSE 0]
  BY <1>1 DEF EraseAt
<1> QED BY <1>6, <1>7, <1>8

LEMMA ClearKeeps ==
    ASSUME Inv, Clear
    PROVE  Inv' /\ Data' = [s \in Slot |-> None]
<1>1. cells' = [c \in Chunk |-> EmptyCells] /\ chunks' = <<>> /\ position' = [c \in Chunk |-> 0]
  BY DEF Clear
<1>2. ASSUME NEW c \in Chunk, NEW i \in Cell PROVE cells'[c][i] = None
  BY <1>1 DEF EmptyCells
<1>3. \A c \in Chunk : Valids(c)' = {}
  BY <1>2 DEF Valids
<1>4. /\ cells' \in [Chunk -> [Cell -> Value \cup {None}]]
      /\ position' \in [Chunk -> Int]
      /\ chunks' \in Seq(Chunk) /\ Len(chunks') = 0
  BY <1>1 DEF EmptyCells
<1>5. Inv'
  BY <1>3, <1>4 DEF Inv
<1>6. \A s \in Slot : At(s)' = None
  BY <1>2 DEF At, Slot
<1> QED BY <1>5, <1>6 DEF Data

\* Cells that are not live hold no value.
LEMMA OnlyLive ==
    ASSUME Inv, NEW wanted \in Wants
    PROVE  /\ \A u \in Live : u \in Slot /\ Data[u] = At(u) /\ u # None
           /\ (\A u \in Live : At(u) \notin wanted) => \A s \in Slot : Data[s] \notin wanted
<1>1. \A u \in Live : u \in Slot /\ u # None
  BY LiveCells, ChunkedListAssumption DEF Slot, Cell
<1>2. ASSUME NEW s \in Slot, s \notin Live PROVE Data[s] \notin wanted
  <2>1. s = <<s[1], s[2]>> /\ s[1] \in Chunk /\ s[2] \in Cell
    BY DEF Slot
  <2>2. cells[s[1]][s[2]] = None
    BY <1>2, <2>1, LiveCells DEF Valids
  <2> QED BY <2>2, ChunkedListAssumption DEF Data, At
<1> QED BY <1>1, <1>2 DEF Data

Misses(wanted) == found' = None /\ \A s \in Slot : Data[s] \notin wanted

LEMMA FindKeeps ==
    ASSUME Inv, NEW wanted \in Wants, LockedFind(wanted)
    PROVE  /\ Inv' /\ Data' = Data
           /\ Misses(wanted) \/ \E s \in Slot : found' = s /\ Data[s] \in wanted
<1>1. chunks' = chunks /\ position' = position /\ cells' = cells /\ found' = FindIf(wanted)
  BY DEF LockedFind
<1>2. Inv' /\ Data' = Data
  BY <1>1 DEF Inv, Listed, Valids, Data, At
<1> QED BY <1>1, <1>2, SearchIsExact, OnlyLive DEF Misses

LEMMA DestructiveFindKeeps ==
    ASSUME Inv, NEW wanted \in Wants, LockedDestructiveFind(wanted)
    PROVE  /\ Inv'
           /\ \/ Misses(wanted) /\ Data' = Data
              \/ \E s \in Slot : /\ found' = s /\ Data[s] \in wanted
                                 /\ Data' = [Data EXCEPT ![s] = None]
<1> DEFINE hit == FindIf(wanted)
<1>1. found' = hit
  BY DEF LockedDestructiveFind
<1>2. CASE hit \in Live /\ At(hit) \in wanted
  <2>1. hit \in Slot /\ Data[hit] \in wanted /\ hit # None
    BY <1>2, OnlyLive
  <2>2. PICK s \in Live : s = hit
    BY <1>2
  <2>3. EraseAt(s)
    BY <2>1, <2>2 DEF LockedDestructiveFind
  <2>4. Inv' /\ Data' = [Data EXCEPT ![s] = None]
    BY <2>3, EraseKeeps
  <2> QED BY <1>1, <2>1, <2>2, <2>4
<1>3. CASE hit = None /\ \A u \in Live : At(u) \notin wanted
  <2>1. chunks' = chunks /\ position' = position /\ cells' = cells
    BY <1>3 DEF LockedDestructiveFind
  <2>2. Inv' /\ Data' = Data
    BY <2>1 DEF Inv, Listed, Valids, Data, At
  <2> QED BY <1>1, <1>3, <2>2, OnlyLive DEF Misses
<1> QED BY <1>2, <1>3, SearchIsExact

-----------------------------------------------------------------------------
(* Theorems.                                                               *)

LEMMA InitInv == Init => Inv /\ Data = [s \in Slot |-> None]
<1> SUFFICES ASSUME Init PROVE Inv /\ Data = [s \in Slot |-> None]
  OBVIOUS
<1>1. \A c \in Chunk : \A i \in Cell : cells[c][i] = None
  BY DEF Init, EmptyCells
<1>2. \A c \in Chunk : Valids(c) = {}
  BY <1>1 DEF Valids
<1>3. /\ cells \in [Chunk -> [Cell -> Value \cup {None}]]
      /\ position \in [Chunk -> Int]
      /\ chunks \in Seq(Chunk) /\ Len(chunks) = 0
  BY DEF Init, EmptyCells
<1>4. Inv
  BY <1>2, <1>3 DEF Inv
<1>5. \A s \in Slot : At(s) = None
  BY <1>1 DEF At, Slot
<1> QED BY <1>4, <1>5 DEF Data

\* Every step is one of the abstract list.
LEMMA StepRefines ==
    ASSUME Inv, Next
    PROVE  Inv' /\ Abstract!Next
<1> USE DEF Abstract!Next
<1>1. ASSUME NEW x \in Value, PushBack(x) PROVE Inv' /\ Abstract!PushBack(x)
  BY <1>1, PushBackKeeps DEF Abstract!PushBack, Data
<1>2. ASSUME NEW s \in Slot, Erase(s) PROVE Inv' /\ Abstract!Erase(s)
  BY <1>2, EraseKeeps DEF Erase, Abstract!Erase, Data
<1>3. ASSUME Clear PROVE Inv' /\ Abstract!Clear
  <2>1. found' = None
    BY <1>3 DEF Clear
  <2> QED BY <1>3, <2>1, ClearKeeps DEF Abstract!Clear, Data
<1>4. ASSUME NEW wanted \in Wants, LockedFind(wanted) PROVE Inv' /\ Abstract!Find(wanted)
  BY <1>4, FindKeeps DEF Misses, Abstract!Find, Abstract!Misses, Data
<1>5. ASSUME NEW wanted \in Wants, LockedDestructiveFind(wanted)
      PROVE  Inv' /\ Abstract!DestructiveFind(wanted)
  BY <1>5, DestructiveFindKeeps DEF Misses, Abstract!DestructiveFind, Abstract!Misses, Data
<1> QED BY <1>1, <1>2, <1>3, <1>4, <1>5 DEF Next

LEMMA StutterKeeps ==
    ASSUME Inv, UNCHANGED vars
    PROVE  Inv' /\ UNCHANGED Abstract!vars
BY DEF vars, Inv, Listed, Valids, Abstract!vars, At

-----------------------------------------------------------------------------
(* Counts.                                                                 *)

\* The live cells of the chunks at the places P of the vector.
LiveAt(P) == UNION {{chunks[n]} \X Valids(chunks[n]) : n \in P}

LEMMA LiveFinite == IsFiniteSet(Live) /\ \A c : IsFiniteSet(Valids(c))
<1>1. IsFiniteSet(Cell)
  BY FS_Interval, ChunkedListAssumption DEF Cell
<1>2. IsFiniteSet(Slot)
  BY <1>1, FS_Product, ChunkedListAssumption DEF Slot
<1>3. Live \subseteq Slot /\ \A c : Valids(c) \subseteq Cell
  BY DEF Live, Slot, Valids
<1> QED BY <1>1, <1>2, <1>3, FS_Subset

LEMMA PlacesAdd ==
    ASSUME Inv, NEW P \in SUBSET (1 .. Len(chunks)), NEW n \in P
    PROVE  /\ IsFiniteSet(LiveAt(P)) /\ IsFiniteSet(LiveAt(P \ {n}))
           /\ Cardinality(LiveAt(P)) =
                 Cardinality(Valids(chunks[n])) + Cardinality(LiveAt(P \ {n}))
<1>1. \A m \in P : chunks[m] \in Chunk /\ position[chunks[m]] = m - 1
  <2>1. chunks \in Seq(Chunk)
        /\ \A m \in 1 .. Len(chunks) : \A c \in Chunk :
              chunks[m] = c => position[c] = m - 1
    BY DEF Inv
  <2>2. \A m \in 1 .. Len(chunks) : chunks[m] \in Chunk
    BY <2>1, LenProperties
  <2> QED BY <2>1, <2>2
<1> DEFINE one == {chunks[n]} \X Valids(chunks[n])
<1>2. LiveAt(P) = one \cup LiveAt(P \ {n})
  BY DEF LiveAt
<1>3. one \cap LiveAt(P \ {n}) = {}
  <2>1. \A m \in P \ {n} : chunks[m] # chunks[n]
    BY <1>1
  <2> QED BY <2>1 DEF LiveAt
<1>4. LiveAt(P) \subseteq Live
  BY <1>1 DEF LiveAt, Live
<1>5. IsFiniteSet(LiveAt(P)) /\ IsFiniteSet(one) /\ IsFiniteSet(LiveAt(P \ {n}))
  <2> HIDE DEF one
  <2>1. one \subseteq LiveAt(P) /\ LiveAt(P \ {n}) \subseteq LiveAt(P)
    BY <1>2
  <2> QED BY <2>1, <1>4, LiveFinite, FS_Subset
<1>6. Cardinality(one) = Cardinality(Valids(chunks[n]))
  <2>1. IsFiniteSet(Valids(chunks[n]))
    BY LiveFinite
  <2>2. IsFiniteSet({chunks[n]}) /\ Cardinality({chunks[n]}) = 1
    BY FS_Singleton
  <2>3. Cardinality(Valids(chunks[n])) \in Nat
    BY <2>1, FS_CardinalityType
  <2> QED BY <2>1, <2>2, <2>3, FS_Product
<1>7. /\ Cardinality(one \cup LiveAt(P \ {n})) =
            Cardinality(one) + Cardinality(LiveAt(P \ {n})) - Cardinality({})
      /\ Cardinality({}) = 0
  <2> HIDE DEF one
  <2> QED BY <1>3, <1>5, FS_Union, FS_EmptySet
<1>8. Cardinality(one) \in Nat /\ Cardinality(LiveAt(P \ {n})) \in Nat
  <2> HIDE DEF one
  <2> QED BY <1>5, FS_CardinalityType
<1> QED BY <1>2, <1>5, <1>6, <1>7, <1>8

\* The fold of size adds up the chunks in some order.
LEMMA SizeIsLive ==
    ASSUME Inv PROVE Size = Cardinality(LiveAt(1 .. Len(chunks)))
<1> DEFINE D == 1 .. Len(chunks)
           first(s) == CHOOSE x \in s : TRUE
           Sum(f, s) == IF s = {} THEN 0
                        ELSE Cardinality(Valids(chunks[first(s)])) + f[s \ {first(s)}]
           count == [s \in SUBSET D |-> Cardinality(LiveAt(s))]
           iter == CHOOSE f : f = [s \in SUBSET D |-> Sum(f, s)]
<1>1. Size = iter[D]
  BY LenProperties DEF Inv, Size, FoldSeq, FoldFunction, FoldFunctionOnSet, MapThenFoldSet
<1>2. IsFiniteSet(D) /\ LiveAt({}) = {} /\ Cardinality({}) = 0
  BY FS_Interval, FS_EmptySet, LenProperties DEF Inv, LiveAt
<1>3. \A s : s # {} => first(s) \in s
  OBVIOUS
<1> HIDE DEF first
<1>4. count = [s \in SUBSET D |-> Sum(count, s)]
  <2>1. ASSUME NEW s \in SUBSET D PROVE count[s] = Sum(count, s)
    <3>1. CASE s = {}
      <4>1. count[s] = Cardinality(LiveAt(s))
        OBVIOUS
      <4>2. count[s] = 0
        BY <1>2, <3>1, <4>1
      <4> HIDE DEF count
      <4> QED BY <3>1, <4>2
    <3>2. CASE s # {}
      <4>1. first(s) \in s /\ s \ {first(s)} \in SUBSET D
        BY <1>3, <3>2
      <4>2. Cardinality(LiveAt(s)) =
              Cardinality(Valids(chunks[first(s)])) + Cardinality(LiveAt(s \ {first(s)}))
        BY <4>1, PlacesAdd
      <4>3. /\ count[s] = Cardinality(LiveAt(s))
            /\ count[s \ {first(s)}] = Cardinality(LiveAt(s \ {first(s)}))
        BY <4>1
      <4> HIDE DEF count
      <4> QED BY <3>2, <4>2, <4>3
    <3> QED BY <3>1, <3>2
  <2> HIDE DEF Sum
  <2> QED BY <2>1
<1>5. iter = [s \in SUBSET D |-> Sum(iter, s)]
  <2> HIDE DEF Sum, count
  <2> QED BY <1>4
<1> DEFINE I == {k \in Nat : \A s \in SUBSET D : Cardinality(s) = k => iter[s] = count[s]}
<1> HIDE DEF iter, count
<1>6. 0 \in I
  <2>1. ASSUME NEW s \in SUBSET D, Cardinality(s) = 0 PROVE iter[s] = count[s]
    <3>1. s = {}
      BY <1>2, <2>1, FS_Subset, FS_EmptySet
    <3> QED BY <1>4, <1>5, <3>1
  <2> QED BY <2>1
<1>7. ASSUME NEW k \in Nat, k \in I PROVE k + 1 \in I
  <2>1. ASSUME NEW s \in SUBSET D, Cardinality(s) = k + 1 PROVE iter[s] = count[s]
    <3>1. IsFiniteSet(s) /\ s # {}
      <4>1. IsFiniteSet(s)
        BY <1>2, FS_Subset
      <4>2. k + 1 # 0
        OBVIOUS
      <4> HIDE DEF D
      <4> QED BY <1>2, <2>1, <4>1, <4>2
    <3>2. first(s) \in s
      BY <1>3, <3>1
    <3>3. Cardinality(s \ {first(s)}) = k /\ s \ {first(s)} \in SUBSET D
      <4>1. Cardinality(s \ {first(s)}) = Cardinality(s) - 1
        BY <3>1, <3>2, FS_RemoveElement
      <4>2. (k + 1) - 1 = k
        OBVIOUS
      <4> QED BY <2>1, <4>1, <4>2
    <3>4. iter[s \ {first(s)}] = count[s \ {first(s)}]
      BY <1>7, <3>3
    <3>5. Sum(iter, s) = Sum(count, s)
      BY <3>4
    <3>6. iter[s] = Sum(iter, s) /\ count[s] = Sum(count, s)
      <4> HIDE DEF Sum
      <4> QED BY <1>4, <1>5
    <3> QED BY <3>5, <3>6
  <2> HIDE DEF D
  <2> QED BY <2>1
<1>8. iter[D] = count[D]
  <2>1. Cardinality(D) \in Nat
    BY <1>2, FS_CardinalityType
  <2> HIDE DEF I
  <2>2. Cardinality(D) \in I
    BY <1>6, <1>7, <2>1, SetInduction
  <2> QED BY <2>2 DEF I
<1>9. count[D] = Cardinality(LiveAt(D))
  BY DEF count
<1> QED BY <1>1, <1>8, <1>9

LEMMA CountsAreExact ==
    ASSUME Inv PROVE CountsExact
<1>1. LiveAt(1 .. Len(chunks)) = Live
  BY DEF Inv, Listed, LiveAt, Live
<1>2. /\ Len(chunks) \in Nat /\ (chunks = <<>> <=> Len(chunks) = 0)
      /\ \A n \in 1 .. Len(chunks) : Valids(chunks[n]) # {}
  BY LenProperties, EmptySeq DEF Inv
<1>3. CASE Len(chunks) = 0
  <2>1. LiveAt(1 .. Len(chunks)) = {}
    BY <1>3 DEF LiveAt
  <2> QED BY <1>1, <1>2, <1>3, <2>1, SizeIsLive DEF Empty, CountsExact
<1>4. CASE Len(chunks) # 0
  <2>1. 1 \in 1 .. Len(chunks) /\ Valids(chunks[1]) # {} /\ chunks # <<>>
    BY <1>2, <1>4
  <2>2. PICK i : i \in Valids(chunks[1])
    BY <2>1
  <2>3. <<chunks[1], i>> \in LiveAt(1 .. Len(chunks))
    BY <2>1, <2>2 DEF LiveAt
  <2> QED BY <1>1, <2>1, <2>3, SizeIsLive DEF Empty, CountsExact
<1> QED BY <1>3, <1>4

\* The invariant of every chunked list: the positions the chunks keep are the
\* right ones, no chunk in the vector is empty, and nothing is left outside.
THEOREM ChunksInPlace == Spec => []Inv
<1>1. Init => Inv
  BY InitInv
<1>2. Inv /\ [Next]_vars => Inv'
  BY StepRefines, StutterKeeps
<1> QED BY <1>1, <1>2, PTL DEF Spec

\* Whatever was inserted and erased in whatever order, a scan from begin to end
\* dereferences each live cell exactly once: holes are passed over and nothing
\* behind them is missed, for chunks of any size and any number of them.
THEOREM ScansExact == Spec => []ScanExact
BY ChunksInPlace, ScansAreExact, PTL

\* The indices may tell tuples apart by their iterators: those of different
\* live cells never compare equal, though is_end takes a count for an index.
THEOREM LiveIteratorsNeverCoincide == Spec => []IteratorsDiffer
BY ChunksInPlace, LiveIteratorsDiffer, PTL

\* Going back undoes going on wherever the value before lies no higher than the
\* count of its chunk.
THEOREM RetreatExact == Spec => []RetreatUndoesAdvance
BY ChunksInPlace, DecUndoesInc, PTL

\* size and empty tell how many values there are, though size adds up the bits
\* of each chunk and empty looks at the vector only.
THEOREM CountsAlwaysExact == Spec => []CountsExact
BY ChunksInPlace, CountsAreExact, PTL

\* The list is what the store takes it for: each operation is one of SlotList,
\* whose values keep their slots and whose searches miss nothing.
THEOREM ChunkedListImplements == Spec => Implements
<1>1. Init => Abstract!Init
  BY InitInv DEF Abstract!Init, Data, Init
<1>2. Inv /\ [Next]_vars => [Abstract!Next]_(Abstract!vars)
  BY StepRefines, StutterKeeps
<1> QED BY <1>1, <1>2, ChunksInPlace, PTL DEF Spec, Implements, Abstract!Spec
=============================================================================
