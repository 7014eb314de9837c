--------------------------- MODULE IndexTreeProofs ---------------------------
(***************************************************************************)
(* That the index tree stays balanced and filled, and implements an index. *)
(*                                                                         *)
(* Every function on trees is defined by recursion over the subtrees: that *)
(* there is such a function comes by induction over the levels, and what   *)
(* is true of its values by induction over the trees.  An operation is     *)
(* followed up the tree: what Grown and Shrunk make of a sound subtree is  *)
(* sound, as high as the flag says, and holds what it should.              *)
(***************************************************************************)
EXTENDS IndexTree, SequenceLemmas, FiniteSetTheorems, TLAPS

-----------------------------------------------------------------------------
(* Trees.                                                                  *)

\* Nodes over the trees of S.
NodesOver(S) == [bf : BalanceFactor, data : Payload, left : S, right : S]

Level(S) == {None} \cup NodesOver(S)

\* There are trees of each number of levels.
LEMMA Levels ==
    /\ Trees[0] = {None}
    /\ \A n \in Nat : Trees[n + 1] = Level(Trees[n])
<1> DEFINE Made(f, n) == f = [i \in 0 .. n |-> IF i = 0 THEN {None} ELSE Level(f[i - 1])]
           I == {n \in Nat : \E f : Made(f, n)}
<1>1. 0 \in I
  <2> DEFINE f == [i \in 0 .. 0 |-> {None}]
  <2>1. Made(f, 0)
    OBVIOUS
  <2> HIDE DEF Made, f
  <2> QED BY <2>1
<1>2. ASSUME NEW n \in Nat, n \in I PROVE n + 1 \in I
  <2>1. PICK f : Made(f, n)
    BY <1>2
  <2> DEFINE g == [i \in 0 .. n + 1 |-> IF i = 0 THEN {None} ELSE Level(f[i - 1])]
  <2>2. \A i \in 0 .. n : g[i] = f[i]
    <3> TAKE i \in 0 .. n
    <3>1. i \in 0 .. n + 1
      OBVIOUS
    <3> QED BY <2>1, <3>1
  <2>3. \A i \in 0 .. n + 1 : i # 0 => g[i - 1] = f[i - 1]
    <3> HIDE DEF g
    <3> QED BY <2>2
  <2>4. Made(g, n + 1)
    <3>1. \A i \in 0 .. n + 1 :
             (IF i = 0 THEN {None} ELSE Level(f[i - 1])) =
             IF i = 0 THEN {None} ELSE Level(g[i - 1])
      <4> HIDE DEF g
      <4> QED BY <2>3
    <3>2. g = [i \in 0 .. n + 1 |-> IF i = 0 THEN {None} ELSE Level(f[i - 1])]
      OBVIOUS
    <3> HIDE DEF g
    <3> QED BY <3>1, <3>2
  <2> HIDE DEF Made, g
  <2> QED BY <2>4
<1>3. \A n \in Nat : \E f : Made(f, n)
  <2>1. Nat \subseteq I
    <3> HIDE DEF I
    <3> QED BY <1>1, <1>2, SetInduction
  <2> QED BY <2>1
<1>4. ASSUME NEW n \in Nat, NEW m \in Nat, NEW f, NEW g, Made(f, n), Made(g, m)
      PROVE  \A i \in Nat : i <= n /\ i <= m => f[i] = g[i]
  <2> DEFINE J == {i \in Nat : i <= n /\ i <= m => f[i] = g[i]}
  <2>1. 0 \in J
    BY <1>4
  <2>2. ASSUME NEW i \in Nat, i \in J PROVE i + 1 \in J
    <3>1. SUFFICES ASSUME i + 1 <= n, i + 1 <= m PROVE f[i + 1] = g[i + 1]
      OBVIOUS
    <3>2. i + 1 \in 0 .. n /\ i + 1 \in 0 .. m /\ i + 1 # 0 /\ (i + 1) - 1 = i /\ f[i] = g[i]
      BY <2>2, <3>1
    <3>3. f[i + 1] = Level(f[i]) /\ g[i + 1] = Level(g[i])
      BY <1>4, <3>2
    <3> QED BY <3>2, <3>3
  <2>3. Nat \subseteq J
    <3> HIDE DEF J
    <3> QED BY <2>1, <2>2, SetInduction
  <2> QED BY <2>3
<1> DEFINE Choice(n) == CHOOSE f : Made(f, n)
           all == [n \in Nat |-> Choice(n)[n]]
<1>5. \A n \in Nat : Made(Choice(n), n)
  <2> HIDE DEF Made
  <2> QED BY <1>3
<1>6. \A n \in Nat : Choice(n)[n] = IF n = 0 THEN {None} ELSE Level(Choice(n - 1)[n - 1])
  <2> TAKE n \in Nat
  <2>1. Choice(n)[n] = IF n = 0 THEN {None} ELSE Level(Choice(n)[n - 1])
    <3>1. n \in 0 .. n
      OBVIOUS
    <3> HIDE DEF Choice
    <3> QED BY <1>5, <3>1
  <2>2. n # 0 => Choice(n)[n - 1] = Choice(n - 1)[n - 1]
    <3> HIDE DEF Made, Choice
    <3>1. n # 0 => n - 1 \in Nat /\ n - 1 <= n
      OBVIOUS
    <3> QED BY <1>4, <1>5, <3>1
  <2> QED BY <2>1, <2>2
<1> DEFINE Equation(g) == g = [n \in Nat |-> IF n = 0 THEN {None} ELSE Level(g[n - 1])]
<1>7. Equation(all)
  <2>1. \A n \in Nat : n # 0 => all[n - 1] = Choice(n - 1)[n - 1]
    <3> HIDE DEF Choice
    <3> QED OBVIOUS
  <2>2. \A n \in Nat : Choice(n)[n] = IF n = 0 THEN {None} ELSE Level(all[n - 1])
    <3> HIDE DEF Choice, all
    <3> QED BY <1>6, <2>1
  <2>3. all = [n \in Nat |-> Choice(n)[n]]
    OBVIOUS
  <2> HIDE DEF Choice, all
  <2> QED BY <2>2, <2>3
<1>8. Trees = CHOOSE g : Equation(g)
  BY DEF Trees, Level, NodesOver
<1>9. Equation(Trees)
  <2> HIDE DEF Equation, all
  <2> QED BY <1>7, <1>8
<1> HIDE DEF Made, Choice, all
<1>10. Trees[0] = {None}
  BY <1>9
<1>11. ASSUME NEW n \in Nat PROVE Trees[n + 1] = Level(Trees[n])
  <2>1. n + 1 \in Nat /\ n + 1 # 0 /\ (n + 1) - 1 = n
    OBVIOUS
  <2> QED BY <1>9, <2>1
<1> QED BY <1>10, <1>11

\* Trees of fewer levels are trees of more.
LEMMA LevelsGrow ==
    /\ \A n \in Nat : Trees[n] \subseteq Trees[n + 1]
    /\ \A n \in Nat : n <= MaxHeight => Trees[n] \subseteq Tree
<1> DEFINE I == {n \in Nat : Trees[n] \subseteq Trees[n + 1]}
<1>1. 0 \in I
  BY Levels DEF Level
<1>2. ASSUME NEW n \in Nat, n \in I PROVE n + 1 \in I
  <2>1. Level(Trees[n]) \subseteq Level(Trees[n + 1])
    BY <1>2 DEF Level, NodesOver
  <2>2. n + 1 \in Nat
    OBVIOUS
  <2> QED BY <2>1, <2>2, Levels
<1>3. \A n \in Nat : Trees[n] \subseteq Trees[n + 1]
  <2>1. Nat \subseteq I
    <3> HIDE DEF I
    <3> QED BY <1>1, <1>2, SetInduction
  <2> QED BY <2>1
<1> DEFINE J == {d \in Nat : \A n \in Nat : Trees[n] \subseteq Trees[n + d]}
<1>4. 0 \in J
  OBVIOUS
<1>5. ASSUME NEW d \in Nat, d \in J PROVE d + 1 \in J
  <2>1. ASSUME NEW n \in Nat PROVE Trees[n] \subseteq Trees[n + (d + 1)]
    <3>1. n + d \in Nat /\ (n + d) + 1 = n + (d + 1)
      OBVIOUS
    <3> QED BY <1>3, <1>5, <3>1
  <2> QED BY <2>1
<1>6. Nat \subseteq J
  <2> HIDE DEF J
  <2> QED BY <1>4, <1>5, SetInduction
<1>7. ASSUME NEW n \in Nat, n <= MaxHeight PROVE Trees[n] \subseteq Tree
  <2>1. MaxHeight - n \in Nat /\ n + (MaxHeight - n) = MaxHeight
    BY <1>7, TreeAssumption
  <2>2. MaxHeight - n \in J
    <3> HIDE DEF J
    <3> QED BY <1>6, <2>1
  <2> QED BY <2>1, <2>2 DEF Tree
<1> QED BY <1>3, <1>7

\* The fields of a node.
LEMMA NodeFields ==
    ASSUME NEW n \in Nat, NEW t \in Trees[n + 1], t # None
    PROVE  /\ t = [bf |-> t.bf, data |-> t.data, left |-> t.left, right |-> t.right]
           /\ t.bf \in BalanceFactor /\ t.data \in Payload
           /\ t.left \in Trees[n] /\ t.right \in Trees[n]
<1>1. t \in NodesOver(Trees[n])
  BY Levels DEF Level
<1> QED BY <1>1 DEF NodesOver

LEMMA TreeFields ==
    ASSUME NEW t \in Tree, t # None
    PROVE  /\ MaxHeight - 1 \in Nat
           /\ t = [bf |-> t.bf, data |-> t.data, left |-> t.left, right |-> t.right]
           /\ t.bf \in BalanceFactor /\ t.data \in Payload
           /\ t.left \in Tree /\ t.right \in Tree
           /\ t.left \in Trees[MaxHeight - 1] /\ t.right \in Trees[MaxHeight - 1]
<1>1. MaxHeight \in Nat /\ MaxHeight # 0
  BY Levels, TreeAssumption DEF Tree
<1>2. MaxHeight - 1 \in Nat /\ (MaxHeight - 1) + 1 = MaxHeight /\ MaxHeight - 1 <= MaxHeight
  BY <1>1
<1>3. t \in Trees[(MaxHeight - 1) + 1]
  BY <1>2 DEF Tree
<1>4. Trees[MaxHeight - 1] \subseteq Tree
  BY <1>2, LevelsGrow
<1> QED BY <1>2, <1>3, <1>4, NodeFields

\* Induction, for a set instead of a predicate.
LEMMA TreeInduction ==
    ASSUME NEW I, None \in I,
           \A t \in Tree : t # None /\ t.left \in I /\ t.right \in I => t \in I
    PROVE  Tree \subseteq I
<1> DEFINE J == {n \in Nat : n <= MaxHeight => Trees[n] \subseteq I}
<1>1. 0 \in J
  BY Levels
<1>2. ASSUME NEW n \in Nat, n \in J PROVE n + 1 \in J
  <2>1. SUFFICES ASSUME n + 1 <= MaxHeight, NEW t \in Trees[n + 1], t # None PROVE t \in I
    OBVIOUS
  <2>2. n + 1 \in Nat /\ n <= MaxHeight
    BY <2>1, TreeAssumption
  <2>3. t \in Tree /\ Trees[n] \subseteq I
    BY <1>2, <2>1, <2>2, LevelsGrow
  <2>4. t.left \in Trees[n] /\ t.right \in Trees[n]
    BY <2>1, NodeFields
  <2> QED BY <2>1, <2>3, <2>4
<1>3. Nat \subseteq J
  <2> HIDE DEF J
  <2> QED BY <1>1, <1>2, SetInduction
<1> QED BY <1>3, TreeAssumption DEF Tree

\* A tree is as high as its higher subtree, and one level more.
LEMMA HeightRecursion ==
    \A t \in Tree :
       Height[t] =
          IF t = None THEN 0
          ELSE 1 + IF Height[t.left] < Height[t.right] THEN Height[t.right] ELSE Height[t.left]
<1> DEFINE Step(s, l, r) == 1 + IF l < r THEN r ELSE l
           Made(f, S) == f = [s \in S |-> IF s = None THEN 0
                                          ELSE Step(s, f[s.left], f[s.right])]
           I == {n \in Nat : \E f : Made(f, Trees[n])}
<1> HIDE DEF Step
<1>1. 0 \in I
  <2> DEFINE f == [s \in Trees[0] |-> 0]
  <2>1. Made(f, Trees[0])
    BY Levels
  <2> HIDE DEF Made, f
  <2> QED BY <2>1
<1>2. ASSUME NEW n \in Nat, n \in I PROVE n + 1 \in I
  <2>1. PICK f : Made(f, Trees[n])
    BY <1>2
  <2> DEFINE g == [s \in Trees[n + 1] |-> IF s = None THEN 0
                                         ELSE Step(s, f[s.left], f[s.right])]
  <2>2. \A s \in Trees[n] : g[s] = f[s]
    BY <2>1, LevelsGrow
  <2>3. Made(g, Trees[n + 1])
    <3>1. \A s \in Trees[n + 1] : s # None => g[s.left] = f[s.left] /\ g[s.right] = f[s.right]
      <4> HIDE DEF g
      <4> QED BY <2>2, NodeFields
    <3>2. \A s \in Trees[n + 1] :
             (IF s = None THEN 0 ELSE Step(s, f[s.left], f[s.right])) =
             IF s = None THEN 0 ELSE Step(s, g[s.left], g[s.right])
      <4> HIDE DEF g
      <4> QED BY <3>1
    <3> QED BY <3>2
  <2> HIDE DEF Made, g
  <2> QED BY <2>3
<1>3. \E f : Made(f, Tree)
  <2>1. Nat \subseteq I
    <3> HIDE DEF I
    <3> QED BY <1>1, <1>2, SetInduction
  <2> QED BY <2>1, TreeAssumption DEF Tree
<1>4. Height = CHOOSE f : Made(f, Tree)
  BY DEF Height, Step
<1>5. Made(Height, Tree)
  <2> HIDE DEF Made
  <2> QED BY <1>3, <1>4
<1> QED BY <1>5 DEF Step

\* The nodes of a tree are its root and those of its subtrees.
LEMMA NodesRecursion ==
    \A t \in Tree :
       Nodes[t] =
          IF t = None THEN {}
          ELSE {t} \cup Nodes[t.left] \cup Nodes[t.right]
<1> DEFINE Step(s, l, r) == {s} \cup l \cup r
           Made(f, S) == f = [s \in S |-> IF s = None THEN {}
                                          ELSE Step(s, f[s.left], f[s.right])]
           I == {n \in Nat : \E f : Made(f, Trees[n])}
<1> HIDE DEF Step
<1>1. 0 \in I
  <2> DEFINE f == [s \in Trees[0] |-> {}]
  <2>1. Made(f, Trees[0])
    BY Levels
  <2> HIDE DEF Made, f
  <2> QED BY <2>1
<1>2. ASSUME NEW n \in Nat, n \in I PROVE n + 1 \in I
  <2>1. PICK f : Made(f, Trees[n])
    BY <1>2
  <2> DEFINE g == [s \in Trees[n + 1] |-> IF s = None THEN {}
                                         ELSE Step(s, f[s.left], f[s.right])]
  <2>2. \A s \in Trees[n] : g[s] = f[s]
    BY <2>1, LevelsGrow
  <2>3. Made(g, Trees[n + 1])
    <3>1. \A s \in Trees[n + 1] : s # None => g[s.left] = f[s.left] /\ g[s.right] = f[s.right]
      <4> HIDE DEF g
      <4> QED BY <2>2, NodeFields
    <3>2. \A s \in Trees[n + 1] :
             (IF s = None THEN {} ELSE Step(s, f[s.left], f[s.right])) =
             IF s = None THEN {} ELSE Step(s, g[s.left], g[s.right])
      <4> HIDE DEF g
      <4> QED BY <3>1
    <3> QED BY <3>2
  <2> HIDE DEF Made, g
  <2> QED BY <2>3
<1>3. \E f : Made(f, Tree)
  <2>1. Nat \subseteq I
    <3> HIDE DEF I
    <3> QED BY <1>1, <1>2, SetInduction
  <2> QED BY <2>1, TreeAssumption DEF Tree
<1>4. Nodes = CHOOSE f : Made(f, Tree)
  BY DEF Nodes, Step
<1>5. Made(Nodes, Tree)
  <2> HIDE DEF Made
  <2> QED BY <1>3, <1>4
<1> QED BY <1>5 DEF Step

\* What a tree holds is what its subtrees hold, and its root between them.
LEMMA HeldRecursion ==
    \A t \in Tree :
       Held[t] =
          IF t = None THEN Empty
          ELSE Joined(Held[t.left], t.data, Held[t.right])
<1> DEFINE Step(s, l, r) == Joined(l, s.data, r)
           Made(f, S) == f = [s \in S |-> IF s = None THEN Empty
                                          ELSE Step(s, f[s.left], f[s.right])]
           I == {n \in Nat : \E f : Made(f, Trees[n])}
<1> HIDE DEF Step
<1>1. 0 \in I
  <2> DEFINE f == [s \in Trees[0] |-> Empty]
  <2>1. Made(f, Trees[0])
    BY Levels
  <2> HIDE DEF Made, f
  <2> QED BY <2>1
<1>2. ASSUME NEW n \in Nat, n \in I PROVE n + 1 \in I
  <2>1. PICK f : Made(f, Trees[n])
    BY <1>2
  <2> DEFINE g == [s \in Trees[n + 1] |-> IF s = None THEN Empty
                                         ELSE Step(s, f[s.left], f[s.right])]
  <2>2. \A s \in Trees[n] : g[s] = f[s]
    BY <2>1, LevelsGrow
  <2>3. Made(g, Trees[n + 1])
    <3>1. \A s \in Trees[n + 1] : s # None => g[s.left] = f[s.left] /\ g[s.right] = f[s.right]
      <4> HIDE DEF g
      <4> QED BY <2>2, NodeFields
    <3>2. \A s \in Trees[n + 1] :
             (IF s = None THEN Empty ELSE Step(s, f[s.left], f[s.right])) =
             IF s = None THEN Empty ELSE Step(s, g[s.left], g[s.right])
      <4> HIDE DEF g
      <4> QED BY <3>1
    <3> QED BY <3>2
  <2> HIDE DEF Made, g
  <2> QED BY <2>3
<1>3. \E f : Made(f, Tree)
  <2>1. Nat \subseteq I
    <3> HIDE DEF I
    <3> QED BY <1>1, <1>2, SetInduction
  <2> QED BY <2>1, TreeAssumption DEF Tree
<1>4. Held = CHOOSE f : Made(f, Tree)
  BY DEF Held, Step
<1>5. Made(Held, Tree)
  <2> HIDE DEF Made
  <2> QED BY <1>3, <1>4
<1> QED BY <1>5 DEF Step

\* AddGreatest goes down to the right.
LEMMA AddGreatestRecursion ==
    ASSUME NEW key, NEW vs
    PROVE  \A t \in Tree :
              AddGreatest(t, key, vs) =
                 IF t = None THEN NewLeaf(key, vs)
                 ELSE IF t.right = None /\ Accepts(t.data, key) THEN Filed(t, key, vs)
                 ELSE Grown(t, "right", AddGreatest(t.right, key, vs))
<1> DEFINE Step(s, l, r) ==
               IF s.right = None /\ Accepts(s.data, key) THEN Filed(s, key, vs)
               ELSE Grown(s, "right", r)
           Made(f, S) == f = [s \in S |-> IF s = None THEN NewLeaf(key, vs)
                                          ELSE Step(s, f[s.left], f[s.right])]
           I == {n \in Nat : \E f : Made(f, Trees[n])}
<1> HIDE DEF Step
<1>1. 0 \in I
  <2> DEFINE f == [s \in Trees[0] |-> NewLeaf(key, vs)]
  <2>1. Made(f, Trees[0])
    BY Levels
  <2> HIDE DEF Made, f
  <2> QED BY <2>1
<1>2. ASSUME NEW n \in Nat, n \in I PROVE n + 1 \in I
  <2>1. PICK f : Made(f, Trees[n])
    BY <1>2
  <2> DEFINE g == [s \in Trees[n + 1] |-> IF s = None THEN NewLeaf(key, vs)
                                         ELSE Step(s, f[s.left], f[s.right])]
  <2>2. \A s \in Trees[n] : g[s] = f[s]
    BY <2>1, LevelsGrow
  <2>3. Made(g, Trees[n + 1])
    <3>1. \A s \in Trees[n + 1] : s # None => g[s.left] = f[s.left] /\ g[s.right] = f[s.right]
      <4> HIDE DEF g
      <4> QED BY <2>2, NodeFields
    <3>2. \A s \in Trees[n + 1] :
             (IF s = None THEN NewLeaf(key, vs) ELSE Step(s, f[s.left], f[s.right])) =
             IF s = None THEN NewLeaf(key, vs) ELSE Step(s, g[s.left], g[s.right])
      <4> HIDE DEF g
      <4> QED BY <3>1
    <3> QED BY <3>2
  <2> HIDE DEF Made, g
  <2> QED BY <2>3
<1>3. \E f : Made(f, Tree)
  <2>1. Nat \subseteq I
    <3> HIDE DEF I
    <3> QED BY <1>1, <1>2, SetInduction
  <2> QED BY <2>1, TreeAssumption DEF Tree
<1> DEFINE add == CHOOSE f : Made(f, Tree)
<1>4. \A t : AddGreatest(t, key, vs) = add[t]
  BY DEF AddGreatest, Step
<1>5. Made(add, Tree)
  <2> HIDE DEF Made
  <2> QED BY <1>3
<1>6. \A t \in Tree :
         add[t] = IF t = None THEN NewLeaf(key, vs)
                  ELSE Step(t, add[t.left], add[t.right])
  <2> HIDE DEF add
  <2> QED BY <1>5
<1> HIDE DEF add, Made
<1> QED BY <1>4, <1>6 DEF Step

\* Inserted goes down to the node that encloses the key.
LEMMA InsertedRecursion ==
    ASSUME NEW key, NEW v
    PROVE  \A t \in Tree :
              Inserted(t, key, v) =
                 IF t = None THEN NewLeaf(key, <<v>>)
                 ELSE IF Encloses(t.data, key) THEN
                     IF Accepts(t.data, key) THEN Filed(t, key, <<v>>)
                     ELSE LET low == Lowest(t.data) IN
                          Grown([t EXCEPT !.data = ForceSetLower(@, key, v)], "left",
                                AddGreatest(t.left, low, t.data[low]))
                 ELSE IF SideOf(t, key) = "left" THEN
                     IF t.left = None /\ Accepts(t.data, key) THEN Filed(t, key, <<v>>)
                     ELSE Grown(t, "left", Inserted(t.left, key, v))
                 ELSE
                     IF t.right = None /\ Accepts(t.data, key) THEN Filed(t, key, <<v>>)
                     ELSE Grown(t, "right", Inserted(t.right, key, v))
<1> DEFINE Step(s, l, r) ==
               IF Encloses(s.data, key) THEN
                   IF Accepts(s.data, key) THEN Filed(s, key, <<v>>)
                   ELSE LET low == Lowest(s.data) IN
                        Grown([s EXCEPT !.data = ForceSetLower(@, key, v)], "left",
                              AddGreatest(s.left, low, s.data[low]))
               ELSE IF SideOf(s, key) = "left" THEN
                   IF s.left = None /\ Accepts(s.data, key) THEN Filed(s, key, <<v>>)
                   ELSE Grown(s, "left", l)
               ELSE
                   IF s.right = None /\ Accepts(s.data, key) THEN Filed(s, key, <<v>>)
                   ELSE Grown(s, "right", r)
           Made(f, S) == f = [s \in S |-> IF s = None THEN NewLeaf(key, <<v>>)
                                          ELSE Step(s, f[s.left], f[s.right])]
           I == {n \in Nat : \E f : Made(f, Trees[n])}
<1> HIDE DEF Step
<1>1. 0 \in I
  <2> DEFINE f == [s \in Trees[0] |-> NewLeaf(key, <<v>>)]
  <2>1. Made(f, Trees[0])
    BY Levels
  <2> HIDE DEF Made, f
  <2> QED BY <2>1
<1>2. ASSUME NEW n \in Nat, n \in I PROVE n + 1 \in I
  <2>1. PICK f : Made(f, Trees[n])
    BY <1>2
  <2> DEFINE g == [s \in Trees[n + 1] |-> IF s = None THEN NewLeaf(key, <<v>>)
                                         ELSE Step(s, f[s.left], f[s.right])]
  <2>2. \A s \in Trees[n] : g[s] = f[s]
    BY <2>1, LevelsGrow
  <2>3. Made(g, Trees[n + 1])
    <3>1. \A s \in Trees[n + 1] : s # None => g[s.left] = f[s.left] /\ g[s.right] = f[s.right]
      <4> HIDE DEF g
      <4> QED BY <2>2, NodeFields
    <3>2. \A s \in Trees[n + 1] :
             (IF s = None THEN NewLeaf(key, <<v>>) ELSE Step(s, f[s.left], f[s.right])) =
             IF s = None THEN NewLeaf(key, <<v>>) ELSE Step(s, g[s.left], g[s.right])
      <4> HIDE DEF g
      <4> QED BY <3>1
    <3> QED BY <3>2
  <2> HIDE DEF Made, g
  <2> QED BY <2>3
<1>3. \E f : Made(f, Tree)
  <2>1. Nat \subseteq I
    <3> HIDE DEF I
    <3> QED BY <1>1, <1>2, SetInduction
  <2> QED BY <2>1, TreeAssumption DEF Tree
<1> DEFINE insert == CHOOSE f : Made(f, Tree)
<1>4. \A t : Inserted(t, key, v) = insert[t]
  BY DEF Inserted, SideOf, Step
<1>5. Made(insert, Tree)
  <2> HIDE DEF Made
  <2> QED BY <1>3
<1>6. \A t \in Tree :
         insert[t] = IF t = None THEN NewLeaf(key, <<v>>)
                     ELSE Step(t, insert[t.left], insert[t.right])
  <2> HIDE DEF insert
  <2> QED BY <1>5
<1> HIDE DEF insert, Made
<1> QED BY <1>4, <1>6 DEF Step

\* Traverse goes the same way.
LEMMA TraverseRecursion ==
    ASSUME NEW key
    PROVE  \A t \in Tree :
              Traverse(t, key) =
                 IF t = None THEN Empty
                 ELSE IF Encloses(t.data, key) THEN t.data
                 ELSE IF SideOf(t, key) = "left" THEN Traverse(t.left, key)
                 ELSE Traverse(t.right, key)
<1> DEFINE Step(s, l, r) ==
               IF Encloses(s.data, key) THEN s.data
               ELSE IF SideOf(s, key) = "left" THEN l ELSE r
           Made(f, S) == f = [s \in S |-> IF s = None THEN Empty
                                          ELSE Step(s, f[s.left], f[s.right])]
           I == {n \in Nat : \E f : Made(f, Trees[n])}
<1> HIDE DEF Step
<1>1. 0 \in I
  <2> DEFINE f == [s \in Trees[0] |-> Empty]
  <2>1. Made(f, Trees[0])
    BY Levels
  <2> HIDE DEF Made, f
  <2> QED BY <2>1
<1>2. ASSUME NEW n \in Nat, n \in I PROVE n + 1 \in I
  <2>1. PICK f : Made(f, Trees[n])
    BY <1>2
  <2> DEFINE g == [s \in Trees[n + 1] |-> IF s = None THEN Empty
                                         ELSE Step(s, f[s.left], f[s.right])]
  <2>2. \A s \in Trees[n] : g[s] = f[s]
    BY <2>1, LevelsGrow
  <2>3. Made(g, Trees[n + 1])
    <3>1. \A s \in Trees[n + 1] : s # None => g[s.left] = f[s.left] /\ g[s.right] = f[s.right]
      <4> HIDE DEF g
      <4> QED BY <2>2, NodeFields
    <3>2. \A s \in Trees[n + 1] :
             (IF s = None THEN Empty ELSE Step(s, f[s.left], f[s.right])) =
             IF s = None THEN Empty ELSE Step(s, g[s.left], g[s.right])
      <4> HIDE DEF g
      <4> QED BY <3>1
    <3> QED BY <3>2
  <2> HIDE DEF Made, g
  <2> QED BY <2>3
<1>3. \E f : Made(f, Tree)
  <2>1. Nat \subseteq I
    <3> HIDE DEF I
    <3> QED BY <1>1, <1>2, SetInduction
  <2> QED BY <2>1, TreeAssumption DEF Tree
<1> DEFINE traverse == CHOOSE f : Made(f, Tree)
<1>4. \A t : Traverse(t, key) = traverse[t]
  BY DEF Traverse, SideOf, Step
<1>5. Made(traverse, Tree)
  <2> HIDE DEF Made
  <2> QED BY <1>3
<1>6. \A t \in Tree :
         traverse[t] = IF t = None THEN Empty
                       ELSE Step(t, traverse[t.left], traverse[t.right])
  <2> HIDE DEF traverse
  <2> QED BY <1>5
<1> HIDE DEF traverse, Made
<1> QED BY <1>4, <1>6 DEF Step

\* And so does Removed.
LEMMA RemovedRecursion ==
    ASSUME NEW key, NEW k, NEW n
    PROVE  \A t \in Tree :
              Removed(t, key, k, n) =
                 IF t = None THEN [tree |-> None, shrank |-> FALSE]
                 ELSE IF Encloses(t.data, key) THEN Refilled([t EXCEPT !.data = Popped(@, k, n)])
                 ELSE IF SideOf(t, key) = "left"
                      THEN Shrunk(t, "left", Removed(t.left, key, k, n))
                 ELSE Shrunk(t, "right", Removed(t.right, key, k, n))
<1> DEFINE Step(s, l, r) ==
               IF Encloses(s.data, key) THEN Refilled([s EXCEPT !.data = Popped(@, k, n)])
               ELSE IF SideOf(s, key) = "left" THEN Shrunk(s, "left", l)
               ELSE Shrunk(s, "right", r)
           Made(f, S) == f = [s \in S |-> IF s = None THEN [tree |-> None, shrank |-> FALSE]
                                          ELSE Step(s, f[s.left], f[s.right])]
           I == {m \in Nat : \E f : Made(f, Trees[m])}
<1> HIDE DEF Step
<1>1. 0 \in I
  <2> DEFINE f == [s \in Trees[0] |-> [tree |-> None, shrank |-> FALSE]]
  <2>1. Made(f, Trees[0])
    BY Levels
  <2> HIDE DEF Made, f
  <2> QED BY <2>1
<1>2. ASSUME NEW m \in Nat, m \in I PROVE m + 1 \in I
  <2>1. PICK f : Made(f, Trees[m])
    BY <1>2
  <2> DEFINE g == [s \in Trees[m + 1] |-> IF s = None THEN [tree |-> None, shrank |-> FALSE]
                                         ELSE Step(s, f[s.left], f[s.right])]
  <2>2. \A s \in Trees[m] : g[s] = f[s]
    BY <2>1, LevelsGrow
  <2>3. Made(g, Trees[m + 1])
    <3>1. \A s \in Trees[m + 1] : s # None => g[s.left] = f[s.left] /\ g[s.right] = f[s.right]
      <4> HIDE DEF g
      <4> QED BY <2>2, NodeFields
    <3>2. \A s \in Trees[m + 1] :
             (IF s = None THEN [tree |-> None, shrank |-> FALSE]
              ELSE Step(s, f[s.left], f[s.right])) =
             IF s = None THEN [tree |-> None, shrank |-> FALSE]
             ELSE Step(s, g[s.left], g[s.right])
      <4> HIDE DEF g
      <4> QED BY <3>1
    <3> QED BY <3>2
  <2> HIDE DEF Made, g
  <2> QED BY <2>3
<1>3. \E f : Made(f, Tree)
  <2>1. Nat \subseteq I
    <3> HIDE DEF I
    <3> QED BY <1>1, <1>2, SetInduction
  <2> QED BY <2>1, TreeAssumption DEF Tree
<1> DEFINE remove == CHOOSE f : Made(f, Tree)
<1>4. \A t : Removed(t, key, k, n) = remove[t]
  BY DEF Removed, SideOf, Step
<1>5. Made(remove, Tree)
  <2> HIDE DEF Made
  <2> QED BY <1>3
<1>6. \A t \in Tree :
         remove[t] = IF t = None THEN [tree |-> None, shrank |-> FALSE]
                     ELSE Step(t, remove[t.left], remove[t.right])
  <2> HIDE DEF remove
  <2> QED BY <1>5
<1> HIDE DEF remove, Made
<1> QED BY <1>4, <1>6 DEF Step

\* The greatest node is the one furthest to the right.
LEMMA GreatestRecursion ==
    \A t \in Tree : t # None =>
       Greatest(t) = IF t.right = None THEN t ELSE Greatest(t.right)
<1> DEFINE Stop(s) == s
           Step(s, r) == r
           Made(f, S) == f = [s \in S \ {None} |-> IF s.right = None THEN Stop(s)
                                                   ELSE Step(s, f[s.right])]
           I == {n \in Nat : \E f : Made(f, Trees[n])}
<1> HIDE DEF Stop, Step
<1>1. 0 \in I
  <2> DEFINE f == [s \in Trees[0] \ {None} |-> Stop(s)]
  <2>1. Made(f, Trees[0])
    BY Levels
  <2> HIDE DEF Made, f
  <2> QED BY <2>1
<1>2. ASSUME NEW n \in Nat, n \in I PROVE n + 1 \in I
  <2>1. PICK f : Made(f, Trees[n])
    BY <1>2
  <2> DEFINE g == [s \in Trees[n + 1] \ {None} |-> IF s.right = None THEN Stop(s)
                                                  ELSE Step(s, f[s.right])]
  <2>2. \A s \in Trees[n] \ {None} : g[s] = f[s]
    BY <2>1, LevelsGrow
  <2>3. Made(g, Trees[n + 1])
    <3>1. \A s \in Trees[n + 1] \ {None} : s.right # None => g[s.right] = f[s.right]
      <4> HIDE DEF g
      <4> QED BY <2>2, NodeFields
    <3>2. \A s \in Trees[n + 1] \ {None} :
             (IF s.right = None THEN Stop(s) ELSE Step(s, f[s.right])) =
             IF s.right = None THEN Stop(s) ELSE Step(s, g[s.right])
      <4> HIDE DEF g
      <4> QED BY <3>1
    <3> QED BY <3>2
  <2> HIDE DEF Made, g
  <2> QED BY <2>3
<1>3. \E f : Made(f, Tree)
  <2>1. Nat \subseteq I
    <3> HIDE DEF I
    <3> QED BY <1>1, <1>2, SetInduction
  <2> QED BY <2>1, TreeAssumption DEF Tree
<1> DEFINE greatest == CHOOSE f : Made(f, Tree)
<1>4. \A t : Greatest(t) = greatest[t]
  BY DEF Greatest, Stop, Step
<1>5. Made(greatest, Tree)
  <2> HIDE DEF Made
  <2> QED BY <1>3
<1>6. \A t \in Tree : t # None =>
         greatest[t] = IF t.right = None THEN Stop(t) ELSE Step(t, greatest[t.right])
  <2> HIDE DEF greatest
  <2> QED BY <1>5
<1> HIDE DEF greatest, Made
<1> QED BY <1>4, <1>6 DEF Stop, Step

\* TakenFromGreatest goes there.
LEMMA TakenRecursion ==
    ASSUME NEW K
    PROVE  \A t \in Tree : t # None =>
              TakenFromGreatest(t, K) =
                 IF t.right = None THEN Trimmed([t EXCEPT !.data = Without(@, K)])
                 ELSE Shrunk(t, "right", TakenFromGreatest(t.right, K))
<1> DEFINE Stop(s) == Trimmed([s EXCEPT !.data = Without(@, K)])
           Step(s, r) == Shrunk(s, "right", r)
           Made(f, S) == f = [s \in S \ {None} |-> IF s.right = None THEN Stop(s)
                                                   ELSE Step(s, f[s.right])]
           I == {n \in Nat : \E f : Made(f, Trees[n])}
<1> HIDE DEF Stop, Step
<1>1. 0 \in I
  <2> DEFINE f == [s \in Trees[0] \ {None} |-> Stop(s)]
  <2>1. Made(f, Trees[0])
    BY Levels
  <2> HIDE DEF Made, f
  <2> QED BY <2>1
<1>2. ASSUME NEW n \in Nat, n \in I PROVE n + 1 \in I
  <2>1. PICK f : Made(f, Trees[n])
    BY <1>2
  <2> DEFINE g == [s \in Trees[n + 1] \ {None} |-> IF s.right = None THEN Stop(s)
                                                  ELSE Step(s, f[s.right])]
  <2>2. \A s \in Trees[n] \ {None} : g[s] = f[s]
    BY <2>1, LevelsGrow
  <2>3. Made(g, Trees[n + 1])
    <3>1. \A s \in Trees[n + 1] \ {None} : s.right # None => g[s.right] = f[s.right]
      <4> HIDE DEF g
      <4> QED BY <2>2, NodeFields
    <3>2. \A s \in Trees[n + 1] \ {None} :
             (IF s.right = None THEN Stop(s) ELSE Step(s, f[s.right])) =
             IF s.right = None THEN Stop(s) ELSE Step(s, g[s.right])
      <4> HIDE DEF g
      <4> QED BY <3>1
    <3> QED BY <3>2
  <2> HIDE DEF Made, g
  <2> QED BY <2>3
<1>3. \E f : Made(f, Tree)
  <2>1. Nat \subseteq I
    <3> HIDE DEF I
    <3> QED BY <1>1, <1>2, SetInduction
  <2> QED BY <2>1, TreeAssumption DEF Tree
<1> DEFINE take == CHOOSE f : Made(f, Tree)
<1>4. \A t : TakenFromGreatest(t, K) = take[t]
  BY DEF TakenFromGreatest, Stop, Step
<1>5. Made(take, Tree)
  <2> HIDE DEF Made
  <2> QED BY <1>3
<1>6. \A t \in Tree : t # None =>
         take[t] = IF t.right = None THEN Stop(t) ELSE Step(t, take[t.right])
  <2> HIDE DEF take
  <2> QED BY <1>5
<1> HIDE DEF take, Made
<1> QED BY <1>4, <1>6 DEF Stop, Step

-----------------------------------------------------------------------------
(* Nodes.                                                                  *)

Node(bf, p, l, r) == [bf |-> bf, data |-> p, left |-> l, right |-> r]

Higher(m, n) == IF m < n THEN n ELSE m

\* No tree that fits is higher than MaxHeight, and what is not higher than n
\* has n levels.
LEMMA HeightBound ==
    /\ \A t \in Tree : Height[t] \in Nat /\ Height[t] <= MaxHeight
    /\ \A t \in Tree : Height[t] = 0 <=> t = None
    /\ \A n \in Nat, t \in Tree : Height[t] <= n => t \in Trees[n]
<1> DEFINE I == {t \in Tree : Height[t] \in Nat}
<1>1. Tree \subseteq I
  <2>1. None \in I
    BY HeightRecursion, Levels, LevelsGrow, TreeAssumption
  <2>2. ASSUME NEW t \in Tree, t # None, t.left \in I, t.right \in I PROVE t \in I
    <3>1. Height[t.left] \in Nat /\ Height[t.right] \in Nat
      BY <2>2
    <3> QED BY <2>2, <3>1, HeightRecursion
  <2> HIDE DEF I
  <2> QED BY <2>1, <2>2, TreeInduction
<1>2. \A t \in Tree : t # None =>
         /\ Height[t.left] \in Nat /\ Height[t.right] \in Nat
         /\ Height[t] = 1 + Higher(Height[t.left], Height[t.right])
  BY <1>1, TreeFields, HeightRecursion DEF Higher
<1>3. \A t \in Tree : Height[t] = 0 <=> t = None
  <2>1. \A t \in Tree : t # None => Height[t] # 0
    BY <1>2 DEF Higher
  <2>2. \A t \in Tree : t = None => Height[t] = 0
    BY HeightRecursion
  <2> QED BY <2>1, <2>2
<1> DEFINE J == {n \in Nat : n <= MaxHeight => \A t \in Trees[n] : Height[t] <= n}
<1>4. 0 \in J
  BY <1>3, Levels, LevelsGrow, TreeAssumption
<1>5. ASSUME NEW n \in Nat, n \in J PROVE n + 1 \in J
  <2>1. SUFFICES ASSUME n + 1 <= MaxHeight, NEW t \in Trees[n + 1] PROVE Height[t] <= n + 1
    OBVIOUS
  <2>2. t \in Tree /\ n <= MaxHeight /\ n + 1 \in Nat
    BY <2>1, LevelsGrow, TreeAssumption
  <2>3. CASE t = None
    BY <1>3, <2>2, <2>3
  <2>4. CASE t # None
    <3>1. Height[t.left] <= n /\ Height[t.right] <= n
      BY <1>5, <2>2, <2>4, NodeFields
    <3> QED BY <1>2, <2>2, <2>4, <3>1 DEF Higher
  <2> QED BY <2>3, <2>4
<1>6. \A t \in Tree : Height[t] <= MaxHeight
  <2>1. Nat \subseteq J
    <3> HIDE DEF J
    <3> QED BY <1>4, <1>5, SetInduction
  <2> QED BY <2>1, TreeAssumption DEF Tree
<1> DEFINE K == {n \in Nat : \A t \in Tree : Height[t] <= n => t \in Trees[n]}
<1>7. 0 \in K
  BY <1>1, <1>3, Levels
<1>8. ASSUME NEW n \in Nat, n \in K PROVE n + 1 \in K
  <2>1. SUFFICES ASSUME NEW t \in Tree, Height[t] <= n + 1 PROVE t \in Trees[n + 1]
    OBVIOUS
  <2>2. CASE t = None
    BY <2>2, Levels DEF Level
  <2>3. CASE t # None
    <3>1. Height[t.left] <= n /\ Height[t.right] <= n
      BY <1>2, <2>1, <2>3 DEF Higher
    <3>2. t.left \in Trees[n] /\ t.right \in Trees[n]
      BY <1>8, <2>3, <3>1, TreeFields
    <3>3. t \in NodesOver(Trees[n])
      BY <2>3, <3>2, TreeFields DEF NodesOver
    <3> QED BY <3>3, Levels DEF Level
  <2> QED BY <2>2, <2>3
<1>9. Nat \subseteq K
  <2> HIDE DEF K
  <2> QED BY <1>7, <1>8, SetInduction
<1> QED BY <1>1, <1>3, <1>6, <1>9

\* A node is a tree if its subtrees leave it a level.
LEMMA NodeIsTree ==
    ASSUME NEW bf \in BalanceFactor, NEW p \in Payload, NEW l \in Tree, NEW r \in Tree,
           Height[l] < MaxHeight, Height[r] < MaxHeight
    PROVE  /\ Node(bf, p, l, r) \in Tree /\ Node(bf, p, l, r) # None
           /\ Height[Node(bf, p, l, r)] = 1 + Higher(Height[l], Height[r])
           /\ Nodes[Node(bf, p, l, r)] = {Node(bf, p, l, r)} \cup Nodes[l] \cup Nodes[r]
           /\ Held[Node(bf, p, l, r)] = Joined(Held[l], p, Held[r])
<1> DEFINE t == Node(bf, p, l, r)
<1>1. /\ Height[l] \in Nat /\ Height[r] \in Nat /\ MaxHeight \in Nat
      /\ MaxHeight - 1 \in Nat /\ (MaxHeight - 1) + 1 = MaxHeight
      /\ Height[l] <= MaxHeight - 1 /\ Height[r] <= MaxHeight - 1
  BY HeightBound, TreeAssumption
<1>2. l \in Trees[MaxHeight - 1] /\ r \in Trees[MaxHeight - 1]
  BY <1>1, HeightBound
<1>3. t \in NodesOver(Trees[MaxHeight - 1]) /\ t \in NodesOver(Tree)
  BY <1>2 DEF NodesOver, Node
<1>4. t \in Tree
  BY <1>1, <1>3, Levels DEF Level, Tree
<1>5. t # None
  BY <1>3, TreeAssumption DEF NodesOver
<1>6. t.bf = bf /\ t.data = p /\ t.left = l /\ t.right = r
  BY DEF Node
<1> HIDE DEF t
<1>7. Height[t] = 1 + Higher(Height[l], Height[r])
  BY <1>4, <1>5, <1>6, HeightRecursion DEF Higher
<1>8. Nodes[t] = {t} \cup Nodes[l] \cup Nodes[r] /\ Held[t] = Joined(Held[l], p, Held[r])
  BY <1>4, <1>5, <1>6, NodesRecursion, HeldRecursion
<1> QED BY <1>4, <1>5, <1>7, <1>8 DEF t

\* And a tree is a node of its parts.
LEMMA TreeIsNode ==
    ASSUME NEW t \in Tree, t # None
    PROVE  /\ t = Node(t.bf, t.data, t.left, t.right)
           /\ t.bf \in BalanceFactor /\ t.data \in Payload /\ t.left \in Tree /\ t.right \in Tree
           /\ Height[t.left] \in Nat /\ Height[t.right] \in Nat
           /\ Height[t.left] < MaxHeight /\ Height[t.right] < MaxHeight
           /\ Height[t] = 1 + Higher(Height[t.left], Height[t.right])
           /\ Nodes[t] = {t} \cup Nodes[t.left] \cup Nodes[t.right]
           /\ Held[t] = Joined(Held[t.left], t.data, Held[t.right])
<1>1. /\ t = Node(t.bf, t.data, t.left, t.right)
      /\ t.bf \in BalanceFactor /\ t.data \in Payload /\ t.left \in Tree /\ t.right \in Tree
  BY TreeFields DEF Node
<1>2. Height[t.left] \in Nat /\ Height[t.right] \in Nat /\ Height[t] \in Nat /\ Height[t] <= MaxHeight
  BY <1>1, HeightBound
<1>3. Height[t] = 1 + Higher(Height[t.left], Height[t.right])
  BY HeightRecursion DEF Higher
<1>4. Height[t.left] < MaxHeight /\ Height[t.right] < MaxHeight
  BY <1>2, <1>3, TreeAssumption DEF Higher
<1>5. Nodes[t] = {t} \cup Nodes[t.left] \cup Nodes[t.right]
  BY NodesRecursion
<1>6. Held[t] = Joined(Held[t.left], t.data, Held[t.right])
  BY HeldRecursion
<1> QED BY <1>1, <1>2, <1>3, <1>4, <1>5, <1>6

-----------------------------------------------------------------------------
(* What is held.                                                           *)

Keys(t) == KeysIn(Held[t])

LEMMA EmptyPayload == Empty \in Payload /\ KeysIn(Empty) = {}
<1>1. <<>> \in Seq(Value)
  BY EmptySeq
<1> QED BY <1>1 DEF Empty, Payload, KeysIn

\* A payload without keys is empty.
LEMMA NoKeys ==
    ASSUME NEW p \in Payload, KeysIn(p) = {}
    PROVE  p = Empty
BY DEF Payload, KeysIn, Empty

\* Joined holds what the three do; of a key that two of them do not have, what
\* the third has.
LEMMA JoinedHolds ==
    ASSUME NEW l \in Payload, NEW p \in Payload, NEW r \in Payload
    PROVE  /\ Joined(l, p, r) \in Payload
           /\ KeysIn(Joined(l, p, r)) = KeysIn(l) \cup KeysIn(p) \cup KeysIn(r)
           /\ \A k \in Key : k \notin KeysIn(p) /\ k \notin KeysIn(r) => Joined(l, p, r)[k] = l[k]
           /\ \A k \in Key : k \notin KeysIn(l) /\ k \notin KeysIn(r) => Joined(l, p, r)[k] = p[k]
           /\ \A k \in Key : k \notin KeysIn(l) /\ k \notin KeysIn(p) => Joined(l, p, r)[k] = r[k]
<1>1. ASSUME NEW a \in Seq(Value), NEW b \in Seq(Value), NEW c \in Seq(Value)
      PROVE  /\ a \o b \o c \in Seq(Value)
             /\ a \o b \o c = <<>> <=> a = <<>> /\ b = <<>> /\ c = <<>>
             /\ b = <<>> /\ c = <<>> => a \o b \o c = a
             /\ a = <<>> /\ c = <<>> => a \o b \o c = b
             /\ a = <<>> /\ b = <<>> => a \o b \o c = c
  <2>1. a \o b \in Seq(Value) /\ (a \o b) \o c \in Seq(Value)
    BY ConcatProperties
  <2>2. (a \o b) \o c = <<>> <=> a \o b = <<>> /\ c = <<>>
    BY <2>1, ConcatEqualIffEmpty
  <2>3. a \o b = <<>> <=> a = <<>> /\ b = <<>>
    BY ConcatEqualIffEmpty
  <2>4. /\ b = <<>> => a \o b = a
        /\ a = <<>> => a \o b = b
    BY ConcatEmptySeq
  <2>5. /\ c = <<>> => (a \o b) \o c = a \o b
        /\ a \o b = <<>> => (a \o b) \o c = c
    BY <2>1, ConcatEmptySeq
  <2> QED BY <2>1, <2>2, <2>3, <2>4, <2>5
<1>2. \A k \in Key : l[k] \in Seq(Value) /\ p[k] \in Seq(Value) /\ r[k] \in Seq(Value)
  BY DEF Payload
<1>3. \A k \in Key : Joined(l, p, r)[k] = l[k] \o p[k] \o r[k]
  BY DEF Joined
<1>4. Joined(l, p, r) \in Payload
  <2>1. \A k \in Key : l[k] \o p[k] \o r[k] \in Seq(Value)
    BY <1>1, <1>2
  <2> QED BY <2>1 DEF Payload, Joined
<1>5. ASSUME NEW k \in Key
      PROVE  /\ Joined(l, p, r)[k] = <<>> <=> l[k] = <<>> /\ p[k] = <<>> /\ r[k] = <<>>
             /\ p[k] = <<>> /\ r[k] = <<>> => Joined(l, p, r)[k] = l[k]
             /\ l[k] = <<>> /\ r[k] = <<>> => Joined(l, p, r)[k] = p[k]
             /\ l[k] = <<>> /\ p[k] = <<>> => Joined(l, p, r)[k] = r[k]
  <2> DEFINE a == l[k]
             b == p[k]
             c == r[k]
  <2>1. a \in Seq(Value) /\ b \in Seq(Value) /\ c \in Seq(Value) /\ Joined(l, p, r)[k] = a \o b \o c
    BY <1>2, <1>3
  <2> HIDE DEF a, b, c
  <2>2. /\ a \o b \o c = <<>> <=> a = <<>> /\ b = <<>> /\ c = <<>>
        /\ b = <<>> /\ c = <<>> => a \o b \o c = a
        /\ a = <<>> /\ c = <<>> => a \o b \o c = b
        /\ a = <<>> /\ b = <<>> => a \o b \o c = c
    BY <1>1, <2>1
  <2> QED BY <2>1, <2>2 DEF a, b, c
<1>6. KeysIn(Joined(l, p, r)) = KeysIn(l) \cup KeysIn(p) \cup KeysIn(r)
  BY <1>5 DEF KeysIn
<1>7. ASSUME NEW k \in Key
      PROVE  /\ k \notin KeysIn(p) /\ k \notin KeysIn(r) => Joined(l, p, r)[k] = l[k]
             /\ k \notin KeysIn(l) /\ k \notin KeysIn(r) => Joined(l, p, r)[k] = p[k]
             /\ k \notin KeysIn(l) /\ k \notin KeysIn(p) => Joined(l, p, r)[k] = r[k]
  BY <1>5 DEF KeysIn
<1> QED BY <1>4, <1>6, <1>7

\* A rotation leaves the order of what is held.
LEMMA JoinedAssociative ==
    ASSUME NEW a \in Payload, NEW p \in Payload, NEW b \in Payload, NEW q \in Payload,
           NEW c \in Payload
    PROVE  Joined(Joined(a, p, b), q, c) = Joined(a, p, Joined(b, q, c))
<1>1. ASSUME NEW k \in Key
      PROVE  (a[k] \o p[k] \o b[k]) \o q[k] \o c[k] = a[k] \o p[k] \o (b[k] \o q[k] \o c[k])
  <2> DEFINE x == a[k] \o p[k]
             y == b[k]
             z == q[k]
             u == c[k]
  <2>1. x \in Seq(Value) /\ y \in Seq(Value) /\ z \in Seq(Value) /\ u \in Seq(Value)
    <3>1. a[k] \in Seq(Value) /\ p[k] \in Seq(Value)
      BY DEF Payload
    <3> QED BY <3>1, ConcatProperties DEF Payload
  <2> HIDE DEF x, y, z, u
  <2>2. (x \o y) \o z = x \o (y \o z)
    BY SMTT(30), <2>1, ConcatAssociative
  <2> DEFINE yz == y \o z
  <2>3. yz \in Seq(Value)
    BY <2>1, ConcatProperties
  <2>4. (x \o yz) \o u = x \o (yz \o u)
    <3> HIDE DEF yz
    <3> QED BY SMTT(30), <2>1, <2>3, ConcatAssociative
  <2>5. ((x \o y) \o z) \o u = x \o ((y \o z) \o u)
    BY <2>2, <2>4
  <2> QED BY <2>5 DEF x, y, z, u
<1> QED BY <1>1 DEF Joined

\* What trees hold, in the end, is payloads.
LEMMA HeldIsPayload == \A t \in Tree : Held[t] \in Payload
<1> DEFINE I == {t \in Tree : Held[t] \in Payload}
<1>1. None \in Tree /\ Held[None] = Empty
  BY Levels, LevelsGrow, TreeAssumption, HeldRecursion
<1>2. None \in I
  BY <1>1, EmptyPayload
<1>3. ASSUME NEW t \in Tree, t # None, t.left \in I, t.right \in I PROVE t \in I
  <2>1. Held[t] = Joined(Held[t.left], t.data, Held[t.right]) /\ t.data \in Payload
    BY <1>3, TreeIsNode
  <2> QED BY <1>3, <2>1, JoinedHolds
<1>4. Tree \subseteq I
  <2> HIDE DEF I
  <2> QED BY <1>2, <1>3, TreeInduction
<1> QED BY <1>4

\* No tree has nothing.
LEMMA NoneIsTree ==
    /\ None \in Tree /\ Height[None] = 0 /\ Nodes[None] = {} /\ Held[None] = Empty
    /\ Keys(None) = {}
<1>1. None \in Tree
  BY Levels, LevelsGrow, TreeAssumption
<1> QED BY <1>1, HeightRecursion, NodesRecursion, HeldRecursion, EmptyPayload DEF Keys

Sides == {"left", "right"}

\* With l at side.
Beside(side, l, p, r) == IF side = "left" THEN Joined(l, p, r) ELSE Joined(r, p, l)

LEMMA BesideHolds ==
    ASSUME NEW side \in Sides, NEW l \in Payload, NEW p \in Payload, NEW r \in Payload
    PROVE  /\ Beside(side, l, p, r) \in Payload
           /\ KeysIn(Beside(side, l, p, r)) = KeysIn(l) \cup KeysIn(p) \cup KeysIn(r)
           /\ \A k \in Key :
                 k \notin KeysIn(p) /\ k \notin KeysIn(r) => Beside(side, l, p, r)[k] = l[k]
           /\ \A k \in Key :
                 k \notin KeysIn(l) /\ k \notin KeysIn(r) => Beside(side, l, p, r)[k] = p[k]
           /\ \A k \in Key :
                 k \notin KeysIn(l) /\ k \notin KeysIn(p) => Beside(side, l, p, r)[k] = r[k]
<1>1. CASE side = "left"
  <2>1. Beside(side, l, p, r) = Joined(l, p, r)
    BY <1>1 DEF Beside
  <2> QED BY <2>1, JoinedHolds
<1>2. CASE side = "right"
  <2>1. Beside(side, l, p, r) = Joined(r, p, l)
    BY <1>2 DEF Beside
  <2>2. KeysIn(r) \cup KeysIn(p) \cup KeysIn(l) = KeysIn(l) \cup KeysIn(p) \cup KeysIn(r)
    OBVIOUS
  <2> QED BY <2>1, <2>2, JoinedHolds
<1> QED BY <1>1, <1>2 DEF Sides

\* Of each key it holds what the three have of it.
LEMMA BesideSame ==
    ASSUME NEW side, NEW l, NEW p, NEW r, NEW m, NEW q, NEW s, NEW k \in Key,
           l[k] = m[k], p[k] = q[k], r[k] = s[k]
    PROVE  Beside(side, l, p, r)[k] = Beside(side, m, q, s)[k]
<1>1. Joined(l, p, r)[k] = Joined(m, q, s)[k] /\ Joined(r, p, l)[k] = Joined(s, q, m)[k]
  BY DEF Joined
<1> QED BY <1>1 DEF Beside

LEMMA SamePayload ==
    ASSUME NEW p \in Payload, NEW q \in Payload, \A k \in Key : p[k] = q[k]
    PROVE  p = q
BY DEF Payload

\* Filing values under a key leaves the others.
LEMMA Upserted ==
    ASSUME NEW p \in Payload, NEW key \in Key, NEW vs \in Seq(Value), vs # <<>>
    PROVE  /\ Upsert(p, key, vs) \in Payload
           /\ KeysIn(Upsert(p, key, vs)) = KeysIn(p) \cup {key}
           /\ \A k \in Key : k # key => Upsert(p, key, vs)[k] = p[k]
           /\ Upsert(p, key, vs)[key] = IF payload = "chime" THEN p[key] \o vs ELSE vs
           /\ key \notin KeysIn(p) => Upsert(p, key, vs)[key] = vs
<1> DEFINE val == IF payload = "chime" THEN p[key] \o vs ELSE vs
<1>1. p[key] \in Seq(Value)
  BY DEF Payload
<1>2. val \in Seq(Value) /\ val # <<>> /\ (p[key] = <<>> => val = vs)
  <2>1. p[key] \o vs \in Seq(Value)
    BY <1>1, ConcatProperties
  <2>2. p[key] \o vs # <<>>
    BY <1>1, ConcatEqualIffEmpty
  <2>3. p[key] = <<>> => p[key] \o vs = vs
    BY ConcatEmptySeq
  <2> QED BY <2>1, <2>2, <2>3
<1>3. Upsert(p, key, vs) = [p EXCEPT ![key] = val]
  BY DEF Upsert
<1> HIDE DEF val
<1>4. Upsert(p, key, vs) \in Payload
  BY <1>2, <1>3 DEF Payload
<1>5. \A k \in Key : Upsert(p, key, vs)[k] = IF k = key THEN val ELSE p[k]
  BY <1>3 DEF Payload
<1>6. KeysIn(Upsert(p, key, vs)) = KeysIn(p) \cup {key}
  BY <1>2, <1>5 DEF KeysIn
<1>7. Upsert(p, key, vs)[key] = val /\ (key \notin KeysIn(p) => val = vs)
  BY <1>2, <1>5 DEF KeysIn
<1> QED BY <1>4, <1>5, <1>6, <1>7 DEF val

\* It does not matter where that is done.
LEMMA UpsertBeside ==
    ASSUME NEW side \in Sides, NEW l \in Payload, NEW p \in Payload, NEW r \in Payload,
           NEW key \in Key, NEW vs \in Seq(Value), vs # <<>>
    PROVE  /\ key \notin KeysIn(p) /\ key \notin KeysIn(r) =>
                 Beside(side, Upsert(l, key, vs), p, r) = Upsert(Beside(side, l, p, r), key, vs)
           /\ key \notin KeysIn(l) /\ key \notin KeysIn(r) =>
                 Beside(side, l, Upsert(p, key, vs), r) = Upsert(Beside(side, l, p, r), key, vs)
<1> DEFINE all == Beside(side, l, p, r)
<1>1. /\ all \in Payload
      /\ key \notin KeysIn(p) /\ key \notin KeysIn(r) => all[key] = l[key]
      /\ key \notin KeysIn(l) /\ key \notin KeysIn(r) => all[key] = p[key]
  BY BesideHolds
<1>2. /\ Upsert(all, key, vs) \in Payload
      /\ \A k \in Key : k # key => Upsert(all, key, vs)[k] = all[k]
      /\ Upsert(all, key, vs)[key] = IF payload = "chime" THEN all[key] \o vs ELSE vs
  BY <1>1, Upserted
<1>3. ASSUME key \notin KeysIn(p), key \notin KeysIn(r)
      PROVE  Beside(side, Upsert(l, key, vs), p, r) = Upsert(all, key, vs)
  <2> DEFINE m == Upsert(l, key, vs)
             new == Beside(side, m, p, r)
  <2>1. /\ m \in Payload /\ \A k \in Key : k # key => m[k] = l[k]
        /\ m[key] = IF payload = "chime" THEN l[key] \o vs ELSE vs
    BY Upserted
  <2> HIDE DEF m
  <2>2. new \in Payload /\ new[key] = m[key]
    BY <1>3, <2>1, BesideHolds
  <2>3. ASSUME NEW k \in Key, k # key PROVE new[k] = all[k]
    BY <2>1, <2>3, BesideSame
  <2> HIDE DEF new, all
  <2>4. \A k \in Key : new[k] = Upsert(all, key, vs)[k]
    BY <1>1, <1>2, <1>3, <2>1, <2>2, <2>3
  <2>5. new = Upsert(all, key, vs)
    BY <1>2, <2>2, <2>4, SamePayload
  <2> QED BY <2>5 DEF new, m
<1>4. ASSUME key \notin KeysIn(l), key \notin KeysIn(r)
      PROVE  Beside(side, l, Upsert(p, key, vs), r) = Upsert(all, key, vs)
  <2> DEFINE m == Upsert(p, key, vs)
             new == Beside(side, l, m, r)
  <2>1. /\ m \in Payload /\ \A k \in Key : k # key => m[k] = p[k]
        /\ m[key] = IF payload = "chime" THEN p[key] \o vs ELSE vs
    BY Upserted
  <2> HIDE DEF m
  <2>2. new \in Payload /\ new[key] = m[key]
    BY <1>4, <2>1, BesideHolds
  <2>3. ASSUME NEW k \in Key, k # key PROVE new[k] = all[k]
    BY <2>1, <2>3, BesideSame
  <2> HIDE DEF new, all
  <2>4. \A k \in Key : new[k] = Upsert(all, key, vs)[k]
    BY <1>1, <1>2, <1>4, <2>1, <2>2, <2>3
  <2>5. new = Upsert(all, key, vs)
    BY <1>2, <2>2, <2>4, SamePayload
  <2> QED BY <2>5 DEF new, m
<1> QED BY <1>3, <1>4

\* Nor where a value is taken out.
LEMMA PoppedBeside ==
    ASSUME NEW side \in Sides, NEW l \in Payload, NEW p \in Payload, NEW r \in Payload,
           NEW k \in Key, NEW n
    PROVE  /\ n \in DOMAIN l[k] /\ k \notin KeysIn(p) /\ k \notin KeysIn(r) =>
                 Beside(side, Popped(l, k, n), p, r) = Popped(Beside(side, l, p, r), k, n)
           /\ n \in DOMAIN p[k] /\ k \notin KeysIn(l) /\ k \notin KeysIn(r) =>
                 Beside(side, l, Popped(p, k, n), r) = Popped(Beside(side, l, p, r), k, n)
           /\ n \in DOMAIN p[k] => /\ Popped(p, k, n) \in Payload
                                   /\ KeysIn(Popped(p, k, n)) \subseteq KeysIn(p)
                                   /\ KeysIn(p) \subseteq KeysIn(Popped(p, k, n)) \cup {k}
<1>1. ASSUME NEW q \in Payload, n \in DOMAIN q[k]
      PROVE  /\ Popped(q, k, n) \in Payload
             /\ Popped(q, k, n)[k] = RemoveAt(q[k], n)
             /\ \A m \in Key : m # k => Popped(q, k, n)[m] = q[m]
             /\ KeysIn(Popped(q, k, n)) \subseteq KeysIn(q)
             /\ KeysIn(q) \subseteq KeysIn(Popped(q, k, n)) \cup {k}
  <2>1. q[k] \in Seq(Value) /\ n \in 1 .. Len(q[k])
    <3>1. q[k] \in Seq(Value)
      BY DEF Payload
    <3> QED BY <1>1, <3>1, LenProperties
  <2>2. RemoveAt(q[k], n) \in Seq(Value)
    BY <2>1, RemovedAt
  <2>3. q[k] # <<>>
    BY <2>1, EmptySeq
  <2>4. Popped(q, k, n) = [q EXCEPT ![k] = RemoveAt(q[k], n)]
    BY DEF Popped
  <2>5. Popped(q, k, n) \in Payload
    BY <2>2, <2>4 DEF Payload
  <2>6. \A m \in Key : Popped(q, k, n)[m] = IF m = k THEN RemoveAt(q[k], n) ELSE q[m]
    BY <2>4 DEF Payload
  <2> QED BY <2>3, <2>5, <2>6 DEF KeysIn
<1> DEFINE all == Beside(side, l, p, r)
<1>2. /\ all \in Payload
      /\ k \notin KeysIn(p) /\ k \notin KeysIn(r) => all[k] = l[k]
      /\ k \notin KeysIn(l) /\ k \notin KeysIn(r) => all[k] = p[k]
  BY BesideHolds
<1>3. ASSUME n \in DOMAIN l[k], k \notin KeysIn(p), k \notin KeysIn(r)
      PROVE  Beside(side, Popped(l, k, n), p, r) = Popped(all, k, n)
  <2> DEFINE m == Popped(l, k, n)
             new == Beside(side, m, p, r)
  <2>1. m \in Payload /\ m[k] = RemoveAt(l[k], n) /\ \A j \in Key : j # k => m[j] = l[j]
    BY <1>1, <1>3
  <2>2. n \in DOMAIN all[k]
    BY <1>2, <1>3
  <2>3. /\ Popped(all, k, n) \in Payload /\ Popped(all, k, n)[k] = RemoveAt(all[k], n)
        /\ \A j \in Key : j # k => Popped(all, k, n)[j] = all[j]
    BY <1>1, <1>2, <2>2
  <2> HIDE DEF m
  <2>4. new \in Payload /\ new[k] = m[k]
    BY <1>3, <2>1, BesideHolds
  <2>5. ASSUME NEW j \in Key, j # k PROVE new[j] = all[j]
    BY <2>1, <2>5, BesideSame
  <2> HIDE DEF new, all
  <2>6. \A j \in Key : new[j] = Popped(all, k, n)[j]
    BY <1>2, <1>3, <2>1, <2>3, <2>4, <2>5
  <2>7. new = Popped(all, k, n)
    BY <2>3, <2>4, <2>6, SamePayload
  <2> QED BY <2>7 DEF new, m
<1>4. ASSUME n \in DOMAIN p[k], k \notin KeysIn(l), k \notin KeysIn(r)
      PROVE  Beside(side, l, Popped(p, k, n), r) = Popped(all, k, n)
  <2> DEFINE m == Popped(p, k, n)
             new == Beside(side, l, m, r)
  <2>1. m \in Payload /\ m[k] = RemoveAt(p[k], n) /\ \A j \in Key : j # k => m[j] = p[j]
    BY <1>1, <1>4
  <2>2. n \in DOMAIN all[k]
    BY <1>2, <1>4
  <2>3. /\ Popped(all, k, n) \in Payload /\ Popped(all, k, n)[k] = RemoveAt(all[k], n)
        /\ \A j \in Key : j # k => Popped(all, k, n)[j] = all[j]
    BY <1>1, <1>2, <2>2
  <2> HIDE DEF m
  <2>4. new \in Payload /\ new[k] = m[k]
    BY <1>4, <2>1, BesideHolds
  <2>5. ASSUME NEW j \in Key, j # k PROVE new[j] = all[j]
    BY <2>1, <2>5, BesideSame
  <2> HIDE DEF new, all
  <2>6. \A j \in Key : new[j] = Popped(all, k, n)[j]
    BY <1>2, <1>4, <2>1, <2>3, <2>4, <2>5
  <2>7. new = Popped(all, k, n)
    BY <2>3, <2>4, <2>6, SamePayload
  <2> QED BY <2>7 DEF new, m
<1> QED BY <1>1, <1>3, <1>4

LEMMA OtherSide ==
    ASSUME NEW side \in Sides
    PROVE  /\ Other(side) \in Sides /\ Other(side) # side /\ Other(Other(side)) = side
           /\ \A l, p, r : Beside(side, l, p, r) = Beside(Other(side), r, p, l)
<1>1. Other(side) = IF side = "left" THEN "right" ELSE "left"
  BY DEF Other
<1>2. side = "left" \/ side = "right"
  BY DEF Sides
<1> QED BY <1>1, <1>2 DEF Beside, Other, Sides

\* What is left of a payload without the keys K.
LEMMA WithoutKeys ==
    ASSUME NEW p \in Payload, NEW K
    PROVE  /\ Without(p, K) \in Payload
           /\ KeysIn(Without(p, K)) = KeysIn(p) \ K
           /\ \A k \in Key : Without(p, K)[k] = IF k \in K THEN <<>> ELSE p[k]
<1>1. <<>> \in Seq(Value)
  BY EmptySeq
<1>2. \A k \in Key : Without(p, K)[k] = IF k \in K THEN <<>> ELSE p[k]
  BY DEF Without
<1>3. Without(p, K) \in Payload
  BY <1>1 DEF Without, Payload
<1> QED BY <1>2, <1>3 DEF KeysIn

LEMMA WithoutBeside ==
    ASSUME NEW side \in Sides, NEW l \in Payload, NEW p \in Payload, NEW r \in Payload,
           NEW K
    PROVE  /\ KeysIn(p) \cap K = {} /\ KeysIn(r) \cap K = {} =>
                 Beside(side, Without(l, K), p, r) = Without(Beside(side, l, p, r), K)
           /\ KeysIn(l) \cap K = {} /\ KeysIn(r) \cap K = {} =>
                 Beside(side, l, Without(p, K), r) = Without(Beside(side, l, p, r), K)
<1> DEFINE all == Beside(side, l, p, r)
<1>1. all \in Payload
  BY BesideHolds
<1>2. /\ Without(all, K) \in Payload
      /\ \A k \in Key : Without(all, K)[k] = IF k \in K THEN <<>> ELSE all[k]
  BY <1>1, WithoutKeys
<1>3. ASSUME KeysIn(p) \cap K = {}, KeysIn(r) \cap K = {}
      PROVE  Beside(side, Without(l, K), p, r) = Without(all, K)
  <2> DEFINE m == Without(l, K)
             new == Beside(side, m, p, r)
  <2>1. /\ m \in Payload /\ KeysIn(m) = KeysIn(l) \ K
        /\ \A k \in Key : m[k] = IF k \in K THEN <<>> ELSE l[k]
    BY WithoutKeys
  <2> HIDE DEF m
  <2>2. new \in Payload /\ \A k \in Key : k \in K => new[k] = m[k]
    BY <1>3, <2>1, BesideHolds
  <2>3. ASSUME NEW k \in Key, k \notin K PROVE new[k] = all[k]
    BY <2>1, <2>3, BesideSame
  <2> HIDE DEF new, all
  <2>4. \A k \in Key : new[k] = Without(all, K)[k]
    BY <1>2, <2>1, <2>2, <2>3
  <2>5. new = Without(all, K)
    BY <1>2, <2>2, <2>4, SamePayload
  <2> QED BY <2>5 DEF new, m
<1>4. ASSUME KeysIn(l) \cap K = {}, KeysIn(r) \cap K = {}
      PROVE  Beside(side, l, Without(p, K), r) = Without(all, K)
  <2> DEFINE m == Without(p, K)
             new == Beside(side, l, m, r)
  <2>1. /\ m \in Payload /\ KeysIn(m) = KeysIn(p) \ K
        /\ \A k \in Key : m[k] = IF k \in K THEN <<>> ELSE p[k]
    BY WithoutKeys
  <2> HIDE DEF m
  <2>2. new \in Payload /\ \A k \in Key : k \in K => new[k] = m[k]
    BY <1>4, <2>1, BesideHolds
  <2>3. ASSUME NEW k \in Key, k \notin K PROVE new[k] = all[k]
    BY <2>1, <2>3, BesideSame
  <2> HIDE DEF new, all
  <2>4. \A k \in Key : new[k] = Without(all, K)[k]
    BY <1>2, <2>1, <2>2, <2>3
  <2>5. new = Without(all, K)
    BY <1>2, <2>2, <2>4, SamePayload
  <2> QED BY <2>5 DEF new, m
<1> QED BY <1>3, <1>4

\* Nor does it matter on which side of a border the keys K are.
LEMMA MergedBeside ==
    ASSUME NEW side \in Sides, NEW l \in Payload, NEW p \in Payload, NEW r \in Payload,
           NEW g \in Payload, NEW K \in SUBSET KeysIn(g), \A k \in K : g[k] = l[k],
           KeysIn(p) \cap K = {}, KeysIn(r) \cap K = {}
    PROVE  /\ Merged(p, g, K) \in Payload
           /\ KeysIn(Merged(p, g, K)) = KeysIn(p) \cup K
           /\ Beside(side, Without(l, K), Merged(p, g, K), r) = Beside(side, l, p, r)
<1> DEFINE all == Beside(side, l, p, r)
           m == Without(l, K)
           q == Merged(p, g, K)
           new == Beside(side, m, q, r)
<1>1. \A k \in Key : q[k] = IF k \in K THEN g[k] ELSE p[k]
  BY DEF Merged
<1>2. q \in Payload
  BY DEF Merged, Payload
<1>3. KeysIn(q) = KeysIn(p) \cup K
  BY <1>1 DEF KeysIn
<1>4. /\ m \in Payload /\ KeysIn(m) = KeysIn(l) \ K
      /\ \A k \in Key : m[k] = IF k \in K THEN <<>> ELSE l[k]
  BY WithoutKeys
<1> HIDE DEF m, q
<1>5. new \in Payload /\ \A k \in Key : k \in K => new[k] = q[k]
  BY <1>2, <1>4, BesideHolds
<1>6. all \in Payload /\ \A k \in Key : k \in K => all[k] = l[k]
  BY BesideHolds
<1>7. ASSUME NEW k \in Key, k \notin K PROVE new[k] = all[k]
  BY <1>1, <1>4, <1>7, BesideSame
<1> HIDE DEF new, all
<1>8. \A k \in Key : new[k] = all[k]
  BY <1>1, <1>5, <1>6, <1>7
<1>9. new = all
  BY <1>5, <1>6, <1>8, SamePayload
<1> QED BY <1>2, <1>3, <1>9 DEF new, all, m, q

-----------------------------------------------------------------------------
(* How many keys a payload has.                                            *)

\* A finite set of integers has a least and a greatest element.
LEMMA LeastAndGreatest ==
    ASSUME NEW S, S \subseteq Int, S # {}, IsFiniteSet(S)
    PROVE  /\ \E x \in S : \A y \in S : x <= y
           /\ \E x \in S : \A y \in S : y <= x
<1> DEFINE Ends(T) == /\ \E x \in T : \A y \in T : x <= y
                      /\ \E x \in T : \A y \in T : y <= x
           I == {n \in Nat : \A T \in SUBSET Int :
                               IsFiniteSet(T) /\ T # {} /\ Cardinality(T) = n => Ends(T)}
<1>1. 0 \in I
  BY FS_EmptySet
<1>2. ASSUME NEW n \in Nat, n \in I PROVE n + 1 \in I
  <2>1. SUFFICES ASSUME NEW T \in SUBSET Int, IsFiniteSet(T), T # {}, Cardinality(T) = n + 1
                 PROVE  Ends(T)
    OBVIOUS
  <2>2. PICK z \in T : TRUE
    BY <2>1
  <2> DEFINE U == T \ {z}
  <2>3. IsFiniteSet(U) /\ Cardinality(U) = n /\ U \in SUBSET Int /\ z \in Int
    BY SMTT(30), <2>1, <2>2, FS_RemoveElement
  <2>4. CASE U = {}
    <3>1. T = {z}
      BY <2>2, <2>4
    <3> QED BY <2>3, <3>1
  <2>5. CASE U # {}
    <3> HIDE DEF U
    <3>1. PICK a \in U, b \in U : \A y \in U : a <= y /\ y <= b
      BY <1>2, <2>3, <2>5
    <3>2. \A y \in T : y = z \/ y \in U
      BY DEF U
    <3>3. U \subseteq T /\ a \in Int /\ b \in Int
      BY <2>3 DEF U
    <3>4. \E x \in T : \A y \in T : x <= y
      <4>1. CASE z <= a
        BY <2>1, <2>2, <2>3, <3>1, <3>2, <3>3, <4>1
      <4>2. CASE ~(z <= a)
        BY <2>1, <2>2, <2>3, <3>1, <3>2, <3>3, <4>2
      <4> QED BY <4>1, <4>2
    <3>5. \E x \in T : \A y \in T : y <= x
      <4>1. CASE b <= z
        BY <2>1, <2>2, <2>3, <3>1, <3>2, <3>3, <4>1
      <4>2. CASE ~(b <= z)
        BY <2>1, <2>2, <2>3, <3>1, <3>2, <3>3, <4>2
      <4> QED BY <4>1, <4>2
    <3> QED BY <3>4, <3>5
  <2> QED BY <2>4, <2>5
<1>3. Nat \subseteq I
  <2> HIDE DEF I
  <2> QED BY <1>1, <1>2, SetInduction
<1> QED BY <1>3, FS_CardinalityType

\* A payload that has a key, and no more than it has room for.
Fits(p) == p \in Payload /\ IsFiniteSet(KeysIn(p)) /\ Size(p) \in Nat /\ Size(p) <= Capacity

Filled(p) == Fits(p) /\ KeysIn(p) # {}

LEMMA CapacityIsNatural ==
    ASSUME payload \in PayloadType
    PROVE  Capacity \in Nat \ {0} /\ Capacity \div 2 < Capacity
BY PayloadAssumption DEF Capacity, PayloadType

LEMMA EmptyFits ==
    ASSUME payload \in PayloadType
    PROVE  Fits(Empty)
BY EmptyPayload, CapacityIsNatural, FS_EmptySet DEF Fits, Size

\* What accepts a key has room for it.
LEMMA UpsertFits ==
    ASSUME payload \in PayloadType, NEW p, Fits(p), NEW key \in Key, Accepts(p, key),
           NEW vs \in Seq(Value), vs # <<>>
    PROVE  Filled(Upsert(p, key, vs))
<1> DEFINE q == Upsert(p, key, vs)
<1>1. p \in Payload /\ IsFiniteSet(KeysIn(p)) /\ Size(p) \in Nat /\ Size(p) <= Capacity
  BY DEF Fits
<1>2. q \in Payload /\ KeysIn(q) = KeysIn(p) \cup {key}
  BY <1>1, Upserted
<1> HIDE DEF q
<1>3. /\ IsFiniteSet(KeysIn(q))
      /\ Size(q) = IF key \in KeysIn(p) THEN Size(p) ELSE Size(p) + 1
  BY <1>1, <1>2, FS_AddElement DEF Size
<1>4. key \in KeysIn(p) \/ Size(p) < Capacity
  BY DEF Accepts
<1>5. Size(q) \in Nat /\ Size(q) <= Capacity
  BY <1>1, <1>3, <1>4, CapacityIsNatural
<1> QED BY <1>2, <1>3, <1>5 DEF Filled, Fits, q

\* Below a border.
Below(K, L) == \A k \in K : \A l \in L : k < l

\* A full payload pushes its lowest key out; l and r are what is on both sides.
LEMMA PushedOut ==
    ASSUME payload \in PayloadType, NEW p, Filled(p), NEW key \in Key, ~Accepts(p, key),
           NEW v \in Value, NEW l \in Payload, NEW r \in Payload,
           Below(KeysIn(l), KeysIn(p)), Below(KeysIn(p), KeysIn(r)),
           key \notin KeysIn(l), key \notin KeysIn(r)
    PROVE  LET low == Lowest(p)
               q == ForceSetLower(p, key, v)
           IN  /\ low \in KeysIn(p) /\ \A k \in KeysIn(p) : low <= k
               /\ p[low] \in Seq(Value) /\ p[low] # <<>>
               /\ Filled(q) /\ KeysIn(q) = (KeysIn(p) \ {low}) \cup {key}
               /\ Beside("left", Upsert(l, low, p[low]), q, r) =
                     Upsert(Beside("left", l, p, r), key, <<v>>)
<1> DEFINE low == Lowest(p)
           w == Without(p, {low})
           q == Upsert(w, key, <<v>>)
<1>1. /\ p \in Payload /\ IsFiniteSet(KeysIn(p)) /\ Size(p) \in Nat /\ Size(p) <= Capacity
      /\ KeysIn(p) # {} /\ KeysIn(p) \subseteq Key /\ key \notin KeysIn(p)
  BY DEF Filled, Fits, KeysIn, Accepts
<1>2. low \in KeysIn(p) /\ \A k \in KeysIn(p) : low <= k
  <2>1. KeysIn(p) \subseteq Int
    BY <1>1, PayloadAssumption
  <2>2. \E x \in KeysIn(p) : \A y \in KeysIn(p) : x <= y
    BY <1>1, <2>1, LeastAndGreatest
  <2> QED BY <2>2 DEF Lowest
<1>3. q = ForceSetLower(p, key, v)
  BY DEF ForceSetLower
<1> HIDE DEF low
<1>4. p[low] \in Seq(Value) /\ p[low] # <<>> /\ low \in Key /\ low # key
  BY <1>1, <1>2 DEF KeysIn, Payload
<1>5. /\ w \in Payload /\ KeysIn(w) = KeysIn(p) \ {low}
      /\ \A k \in Key : w[k] = IF k = low THEN <<>> ELSE p[k]
  BY <1>1, WithoutKeys
<1>6. <<v>> \in Seq(Value) /\ <<v>> # <<>>
  OBVIOUS
<1>7. Filled(q)
  <2>1. Size(w) = Size(p) - 1 /\ IsFiniteSet(KeysIn(w))
    <3> DEFINE S == KeysIn(p)
    <3>1. IsFiniteSet(S \ {low}) /\ Cardinality(S \ {low}) = Cardinality(S) - 1
      <4> HIDE DEF S
      <4>1. IsFiniteSet(S) /\ low \in S
        BY <1>1, <1>2 DEF S
      <4> QED BY <4>1, FS_RemoveElement
    <3> HIDE DEF w
    <3> QED BY <1>5, <3>1 DEF Size
  <2>2. Size(p) # 0
    BY <1>1, FS_EmptySet DEF Size
  <2>3. Size(w) \in Nat /\ Size(w) < Capacity
    BY <1>1, <2>1, <2>2, CapacityIsNatural
  <2>4. Fits(w) /\ Accepts(w, key)
    BY <1>5, <2>1, <2>3, CapacityIsNatural DEF Fits, Accepts
  <2> HIDE DEF w
  <2> QED BY <1>6, <2>4, UpsertFits
<1> HIDE DEF w
<1>8. /\ q \in Payload /\ KeysIn(q) = KeysIn(w) \cup {key}
      /\ \A k \in Key : k # key => q[k] = w[k]
      /\ q[key] = IF payload = "chime" THEN w[key] \o <<v>> ELSE <<v>>
      /\ q[key] = <<v>>
  BY ZenonT(30), <1>1, <1>5, <1>6, Upserted
<1> HIDE DEF q
<1> DEFINE m == Upsert(l, low, p[low])
           old == Beside("left", l, p, r)
           new == Beside("left", m, q, r)
<1>9. low \notin KeysIn(l) /\ low \notin KeysIn(r)
  BY <1>1, <1>2, PayloadAssumption DEF Below, KeysIn
<1>10. /\ m \in Payload /\ KeysIn(m) = KeysIn(l) \cup {low}
       /\ \A k \in Key : k # low => m[k] = l[k]
       /\ m[low] = p[low]
  BY <1>4, <1>9, Upserted
<1> HIDE DEF m
<1>11. old \in Payload /\ KeysIn(old) = KeysIn(l) \cup KeysIn(p) \cup KeysIn(r) /\ old[low] = p[low]
  BY <1>1, <1>4, <1>9, BesideHolds DEF Sides
<1>12. new \in Payload /\ new[low] = m[low] /\ new[key] = q[key]
  <2>1. low \notin KeysIn(q) /\ key \notin KeysIn(m)
    BY <1>4, <1>5, <1>8, <1>10
  <2> QED BY <1>4, <1>8, <1>9, <1>10, <2>1, BesideHolds DEF Sides
<1>13. ASSUME NEW k \in Key, k # low, k # key PROVE new[k] = old[k]
  <2>1. m[k] = l[k] /\ q[k] = p[k]
    BY <1>5, <1>8, <1>10, <1>13
  <2> QED BY <2>1, BesideSame
<1> HIDE DEF new, old
<1>14. /\ Upsert(old, key, <<v>>) \in Payload
       /\ \A k \in Key : k # key => Upsert(old, key, <<v>>)[k] = old[k]
       /\ Upsert(old, key, <<v>>)[key] = <<v>>
  BY ZenonT(30), <1>1, <1>6, <1>11, Upserted
<1>15. \A k \in Key : new[k] = Upsert(old, key, <<v>>)[k]
  BY <1>8, <1>10, <1>11, <1>12, <1>13, <1>14
<1>16. new = Upsert(old, key, <<v>>)
  BY <1>12, <1>14, <1>15, SamePayload
<1>17. KeysIn(q) = (KeysIn(p) \ {low}) \cup {key}
  BY <1>5, <1>8
<1> QED BY <1>2, <1>3, <1>4, <1>7, <1>16, <1>17 DEF new, m, old, low

\* What is moved up is the top of a payload, and there is room for it.
LEMMA MovedKeys ==
    ASSUME payload \in PayloadType, NEW p, Fits(p), Size(p) < Capacity, NEW g, Filled(g)
    PROVE  LET K == Moved(p, g)
           IN  /\ K \subseteq KeysIn(g) /\ K # {} /\ Below(KeysIn(g) \ K, K)
               /\ IsFiniteSet(K) /\ Cardinality(K) <= Capacity - Size(p)
<1> DEFINE room == Capacity - Size(p)
           G == KeysIn(g)
           above(k) == {l \in G : k < l}
           K == {k \in G : Cardinality(above(k)) < room}
<1>1. K = Moved(p, g)
  BY DEF Moved
<1>2. /\ room \in Nat \ {0} /\ IsFiniteSet(G) /\ G # {} /\ G \subseteq Int
  <2>1. G \subseteq Int
    BY PayloadAssumption DEF KeysIn
  <2>2. Size(p) \in Nat /\ IsFiniteSet(G) /\ G # {}
    BY DEF Filled, Fits
  <2> QED BY <2>1, <2>2, CapacityIsNatural
<1> HIDE DEF room, G
<1>3. \A k \in G : IsFiniteSet(above(k)) /\ Cardinality(above(k)) \in Nat
  <2> TAKE k \in G
  <2>1. above(k) \in SUBSET G
    OBVIOUS
  <2> HIDE DEF above
  <2> QED BY <1>2, <2>1, FS_Subset, FS_CardinalityType
<1>4. K # {}
  <2>1. PICK x \in G : \A y \in G : y <= x
    BY <1>2, LeastAndGreatest
  <2>2. above(x) = {}
    <3>1. \A y \in G : x \in Int /\ y \in Int /\ y <= x
      BY <1>2, <2>1
    <3> QED BY <3>1
  <2>3. Cardinality(above(x)) = 0
    <3> HIDE DEF above
    <3> QED BY <2>2, FS_EmptySet
  <2> HIDE DEF above
  <2> QED BY <1>2, <2>3
<1>5. Below(G \ K, K)
  <2>1. ASSUME NEW l \in G, NEW k \in K, ~(l < k) PROVE l \in K
    <3>1. above(l) \in SUBSET above(k) /\ k \in G
      <4>1. k \in G /\ l \in Int /\ k \in Int /\ \A j \in G : j \in Int
        BY <1>2, <2>1
      <4>2. \A j \in G : l < j => k < j
        BY <2>1, <4>1
      <4> QED BY <4>1, <4>2
    <3>2. Cardinality(above(l)) <= Cardinality(above(k))
      <4> HIDE DEF above
      <4> QED BY <1>3, <3>1, FS_Subset
    <3>3. Cardinality(above(l)) \in Nat /\ Cardinality(above(k)) \in Nat
          /\ Cardinality(above(k)) < room
      <4> HIDE DEF above
      <4> QED BY <1>3, <2>1, <3>1
    <3> HIDE DEF above
    <3> QED BY <1>2, <3>2, <3>3
  <2> HIDE DEF above
  <2> QED BY <2>1 DEF Below
<1>6. K \subseteq G /\ IsFiniteSet(K)
  <2>1. K \in SUBSET G
    OBVIOUS
  <2> HIDE DEF K
  <2> QED BY <1>2, <2>1, FS_Subset
<1>7. Cardinality(K) <= room
  <2>1. PICK a \in K : \A y \in K : a <= y
    <3> HIDE DEF K
    <3>1. K \subseteq Int
      BY <1>2, <1>6
    <3> QED BY <1>4, <1>6, <3>1, LeastAndGreatest
  <2>2. a \in G /\ Cardinality(above(a)) < room
    <3> HIDE DEF above
    <3> QED BY <2>1
  <2>3. K \ {a} \in SUBSET above(a)
    <3>1. ASSUME NEW y \in K, y # a PROVE y \in G /\ a < y
      <4>1. y \in G /\ y \in Int /\ a \in Int /\ a <= y
        BY <1>2, <2>1, <2>2, <3>1
      <4> QED BY <3>1, <4>1
    <3> HIDE DEF K
    <3> QED BY <3>1
  <2> HIDE DEF K, above
  <2>4. Cardinality(K \ {a}) <= Cardinality(above(a)) /\ Cardinality(above(a)) \in Nat
    BY <1>3, <2>2, <2>3, FS_Subset
  <2>5. Cardinality(K \ {a}) = Cardinality(K) - 1 /\ Cardinality(K) \in Nat
    BY <1>6, <2>1, FS_RemoveElement, FS_CardinalityType
  <2> QED BY <1>2, <2>2, <2>4, <2>5
<1> HIDE DEF K
<1> QED BY <1>1, <1>4, <1>5, <1>6, <1>7 DEF room, G

\* With K moved in it fits, if there is room for K.
LEMMA MergedFits ==
    ASSUME payload \in PayloadType, NEW p, Fits(p), NEW g, Fits(g), NEW K \in SUBSET KeysIn(g),
           K # {}, Cardinality(K) <= Capacity - Size(p), Merged(p, g, K) \in Payload,
           KeysIn(Merged(p, g, K)) = KeysIn(p) \cup K
    PROVE  Filled(Merged(p, g, K))
<1>1. /\ IsFiniteSet(KeysIn(p)) /\ Size(p) \in Nat /\ Size(p) <= Capacity
      /\ IsFiniteSet(K) /\ Cardinality(K) \in Nat
  <2>1. IsFiniteSet(KeysIn(p)) /\ Size(p) \in Nat /\ Size(p) <= Capacity /\ IsFiniteSet(KeysIn(g))
    BY DEF Fits
  <2>2. IsFiniteSet(K)
    BY <2>1, FS_Subset
  <2> QED BY <2>1, <2>2, FS_CardinalityType
<1> DEFINE both == KeysIn(p) \cup K
           common == Cardinality(KeysIn(p) \cap K)
<1>2. IsFiniteSet(both) /\ Cardinality(both) = Size(p) + Cardinality(K) - common
  BY <1>1, FS_Union DEF Size
<1>3. common \in Nat /\ Cardinality(both) \in Nat
  <2>1. IsFiniteSet(KeysIn(p) \cap K)
    BY <1>1, FS_Intersection
  <2> HIDE DEF both
  <2> QED BY <1>2, <2>1, FS_CardinalityType
<1>4. Cardinality(both) <= Capacity
  <2> HIDE DEF both, common
  <2> QED BY <1>1, <1>2, <1>3, CapacityIsNatural
<1>5. KeysIn(Merged(p, g, K)) = both /\ both # {}
  OBVIOUS
<1> HIDE DEF both
<1> QED BY <1>2, <1>3, <1>4, <1>5 DEF Filled, Fits, Size

-----------------------------------------------------------------------------
(* Sound trees.                                                            *)

\* k is on that side of l.
Before(side, k, l) == IF side = "left" THEN k < l ELSE l < k

Apart(side, K, L) == \A k \in K : \A l \in L : Before(side, k, l)

\* A node with the height of its subtrees in its balance factor, keys, and the
\* keys of its subtrees on both sides of its own.
Fine(t) ==
    /\ t.bf = Height[t.right] - Height[t.left]
    /\ Filled(t.data)
    /\ Apart("left", Keys(t.left), KeysIn(t.data))
    /\ Apart("left", KeysIn(t.data), Keys(t.right))

Sound(t) == \A s \in Nodes[t] : Fine(s)

\* A node with a at side and b at the other.
At(side, bf, p, a, b) == IF side = "left" THEN Node(bf, p, a, b) ELSE Node(bf, p, b, a)

\* What the balance factor has to be, with m levels at side and n at the other.
Lean(side, m, n) == IF side = "left" THEN n - m ELSE m - n

LEMMA Leaning ==
    ASSUME NEW side \in Sides, NEW m \in Nat, NEW n \in Nat
    PROVE  /\ Lean(side, m, n) = Heavy(side) <=> m = n + 1
           /\ Lean(side, m, n) = Heavy(Other(side)) <=> n = m + 1
           /\ Lean(side, m, n) = 0 <=> m = n
           /\ Lean(side, m, n) \in BalanceFactor => m <= n + 1 /\ n <= m + 1
<1>1. side = "left" \/ side = "right"
  BY DEF Sides
<1> QED BY <1>1 DEF Heavy, Other, BalanceFactor, Lean, Sides

LEMMA AtFields ==
    ASSUME NEW side \in Sides, NEW bf, NEW p, NEW a, NEW b
    PROVE  LET t == At(side, bf, p, a, b)
               other == Other(side)
           IN  /\ t.bf = bf /\ t.data = p /\ t[side] = a /\ t[other] = b
               /\ side = "left" => t = Node(bf, p, a, b)
               /\ side = "right" => t = Node(bf, p, b, a)
               /\ \A x : [t EXCEPT ![side] = x] = At(side, bf, p, x, b)
               /\ \A x : [t EXCEPT ![other] = x] = At(side, bf, p, a, x)
               /\ \A x : [t EXCEPT !.bf = x] = At(side, x, p, a, b)
               /\ \A x : [t EXCEPT !.data = x] = At(side, bf, x, a, b)
<1>1. CASE side = "left"
  <2>1. Other(side) = "right" /\ At(side, bf, p, a, b) = Node(bf, p, a, b)
    BY <1>1 DEF Other, At
  <2> QED BY <1>1, <2>1 DEF At, Node
<1>2. CASE side = "right"
  <2>1. Other(side) = "left" /\ At(side, bf, p, a, b) = Node(bf, p, b, a)
    BY <1>2 DEF Other, At
  <2> QED BY <1>2, <2>1 DEF At, Node
<1> QED BY <1>1, <1>2 DEF Sides

LEMMA SidesOf ==
    ASSUME NEW t \in Tree, t # None, NEW side \in Sides
    PROVE  /\ t = At(side, t.bf, t.data, t[side], t[Other(side)])
           /\ t[side] \in Tree /\ t[Other(side)] \in Tree
           /\ Height[t[side]] \in Nat /\ Height[t[Other(side)]] \in Nat
           /\ Height[t[side]] < MaxHeight /\ Height[t[Other(side)]] < MaxHeight
           /\ Height[t] = 1 + Higher(Height[t[side]], Height[t[Other(side)]])
           /\ Nodes[t] = {t} \cup Nodes[t[side]] \cup Nodes[t[Other(side)]]
           /\ Held[t] = Beside(side, Held[t[side]], t.data, Held[t[Other(side)]])
<1>1. /\ t = Node(t.bf, t.data, t.left, t.right)
      /\ t.left \in Tree /\ t.right \in Tree
      /\ Height[t.left] \in Nat /\ Height[t.right] \in Nat
      /\ Height[t.left] < MaxHeight /\ Height[t.right] < MaxHeight
      /\ Height[t] = 1 + Higher(Height[t.left], Height[t.right])
      /\ Nodes[t] = {t} \cup Nodes[t.left] \cup Nodes[t.right]
      /\ Held[t] = Joined(Held[t.left], t.data, Held[t.right])
  BY TreeIsNode
<1>2. CASE side = "left"
  <2>1. Other(side) = "right"
    BY <1>2 DEF Other
  <2> QED BY <1>1, <1>2, <2>1 DEF At, Beside
<1>3. CASE side = "right"
  <2>1. Other(side) = "left"
    BY <1>3 DEF Other
  <2>2. Higher(Height[t.left], Height[t.right]) = Higher(Height[t.right], Height[t.left])
    BY <1>1 DEF Higher
  <2>3. {t} \cup Nodes[t.left] \cup Nodes[t.right] = {t} \cup Nodes[t.right] \cup Nodes[t.left]
    OBVIOUS
  <2> QED BY <1>1, <1>3, <2>1, <2>2, <2>3 DEF At, Beside
<1> QED BY <1>2, <1>3 DEF Sides

LEMMA ApartFacts ==
    ASSUME NEW side \in Sides, NEW K \in SUBSET Key, NEW L \in SUBSET Key
    PROVE  /\ Apart(side, K, L) <=> Apart(Other(side), L, K)
           /\ Apart(side, K, L) => K \cap L = {}
           /\ \A M \in SUBSET Key :
                 Apart(side, K, L) /\ Apart(side, L, M) /\ L # {} => Apart(side, K, M)
           /\ \A M \in SUBSET Key :
                 Apart(side, K \cup M, L) <=> Apart(side, K, L) /\ Apart(side, M, L)
           /\ \A M \in SUBSET Key :
                 Apart(side, K, L \cup M) <=> Apart(side, K, L) /\ Apart(side, K, M)
           /\ \A M \in SUBSET K : Apart(side, K, L) => Apart(side, M, L)
           /\ \A M \in SUBSET L : Apart(side, K, L) => Apart(side, K, M)
<1>1. ASSUME NEW k \in Key, NEW l \in Key
      PROVE  /\ Before(side, k, l) <=> Before(Other(side), l, k)
             /\ ~Before(side, k, k)
             /\ \A m \in Key : Before(side, k, l) /\ Before(side, l, m) => Before(side, k, m)
  BY PayloadAssumption DEF Before, Other, Sides
<1>2. Apart(side, K, L) <=> Apart(Other(side), L, K)
  BY <1>1 DEF Apart
<1>3. Apart(side, K, L) => K \cap L = {}
  BY <1>1 DEF Apart
<1>4. ASSUME NEW M \in SUBSET Key, Apart(side, K, L), Apart(side, L, M), L # {}
      PROVE  Apart(side, K, M)
  <2>1. PICK l \in L : TRUE
    BY <1>4
  <2>2. ASSUME NEW k \in K, NEW m \in M PROVE Before(side, k, m)
    <3>1. Before(side, k, l) /\ Before(side, l, m)
      BY <1>4, <2>1 DEF Apart
    <3>2. k \in Key /\ l \in Key /\ m \in Key
      BY <2>1
    <3> QED BY <1>1, <3>1, <3>2
  <2> QED BY <2>2 DEF Apart
<1>5. \A M \in SUBSET Key : Apart(side, K \cup M, L) <=> Apart(side, K, L) /\ Apart(side, M, L)
  BY DEF Apart
<1>6. \A M \in SUBSET Key : Apart(side, K, L \cup M) <=> Apart(side, K, L) /\ Apart(side, K, M)
  BY DEF Apart
<1>7. \A M \in SUBSET K : Apart(side, K, L) => Apart(side, M, L)
  BY DEF Apart
<1>8. \A M \in SUBSET L : Apart(side, K, L) => Apart(side, K, M)
  BY DEF Apart
<1> QED BY <1>2, <1>3, <1>4, <1>5, <1>6, <1>7, <1>8

LEMMA ApartTransitive ==
    ASSUME NEW side \in Sides, NEW K \in SUBSET Key, NEW L \in SUBSET Key, NEW M \in SUBSET Key,
           Apart(side, K, L), Apart(side, L, M), L # {}
    PROVE  Apart(side, K, M)
BY ApartFacts

LEMMA ApartDisjoint ==
    ASSUME NEW side \in Sides, NEW K \in SUBSET Key, NEW L \in SUBSET Key, Apart(side, K, L)
    PROVE  K \cap L = {}
BY ApartFacts

LEMMA KeysOf ==
    \A t \in Tree : Held[t] \in Payload /\ Keys(t) \in SUBSET Key
BY HeldIsPayload DEF Keys, KeysIn

\* A sound tree is a fine node of sound trees, seen from either side.
LEMMA SoundSides ==
    ASSUME NEW t \in Tree, t # None, NEW side \in Sides
    PROVE  /\ Sound(t) <=> Fine(t) /\ Sound(t[side]) /\ Sound(t[Other(side)])
           /\ Fine(t) <=> /\ t.bf = Lean(side, Height[t[side]], Height[t[Other(side)]])
                          /\ Filled(t.data)
                          /\ Apart(side, Keys(t[side]), KeysIn(t.data))
                          /\ Apart(side, KeysIn(t.data), Keys(t[Other(side)]))
<1>1. Nodes[t] = {t} \cup Nodes[t[side]] \cup Nodes[t[Other(side)]]
  BY SidesOf
<1>2. Sound(t) <=> Fine(t) /\ Sound(t[side]) /\ Sound(t[Other(side)])
  BY <1>1 DEF Sound
<1>3. /\ t.left \in Tree /\ t.right \in Tree
      /\ Keys(t.left) \in SUBSET Key /\ Keys(t.right) \in SUBSET Key
      /\ KeysIn(t.data) \in SUBSET Key
  BY TreeIsNode, KeysOf DEF KeysIn
<1>4. CASE side = "left"
  <2>1. Other(side) = "right"
    BY <1>4 DEF Other
  <2> QED BY <1>2, <1>4, <2>1 DEF Fine, Lean
<1>5. CASE side = "right"
  <2>1. Other(side) = "left" /\ "left" \in Sides /\ Other("left") = "right"
    BY <1>5 DEF Other, Sides
  <2>2. /\ Apart("left", Keys(t.left), KeysIn(t.data)) <=> Apart("right", KeysIn(t.data), Keys(t.left))
        /\ Apart("left", KeysIn(t.data), Keys(t.right)) <=> Apart("right", Keys(t.right), KeysIn(t.data))
    BY <1>3, <2>1, ApartFacts
  <2> QED BY <1>2, <1>5, <2>1, <2>2 DEF Fine, Lean
<1> QED BY <1>4, <1>5 DEF Sides

\* That t may be sound: over sound trees a and b, p between them.
Supports(side, p, a, b) ==
    /\ a \in Tree /\ Sound(a) /\ Height[a] < MaxHeight
    /\ b \in Tree /\ Sound(b) /\ Height[b] < MaxHeight
    /\ Apart(side, Keys(a), KeysIn(p))
    /\ Apart(side, KeysIn(p), Keys(b))

\* Put together, they make a sound tree.
LEMMA Built ==
    ASSUME NEW side \in Sides, NEW bf \in BalanceFactor, NEW p, NEW a, NEW b,
           Filled(p), Supports(side, p, a, b), bf = Lean(side, Height[a], Height[b])
    PROVE  LET t == At(side, bf, p, a, b)
           IN  /\ t \in Tree /\ t # None /\ Sound(t)
               /\ Height[t] = 1 + Higher(Height[a], Height[b])
               /\ Held[t] = Beside(side, Held[a], p, Held[b])
               /\ Keys(t) = Keys(a) \cup KeysIn(p) \cup Keys(b)
<1> DEFINE t == At(side, bf, p, a, b)
<1>1. /\ p \in Payload /\ a \in Tree /\ b \in Tree /\ Sound(a) /\ Sound(b)
      /\ Height[a] < MaxHeight /\ Height[b] < MaxHeight
  BY DEF Filled, Fits, Supports
<1>2. t.bf = bf /\ t.data = p /\ t[side] = a /\ t[Other(side)] = b
  BY AtFields
<1>3. t \in Tree /\ t # None
  <2>1. Node(bf, p, a, b) \in Tree /\ Node(bf, p, a, b) # None
    BY <1>1, NodeIsTree
  <2>2. Node(bf, p, b, a) \in Tree /\ Node(bf, p, b, a) # None
    BY <1>1, NodeIsTree
  <2> QED BY <2>1, <2>2 DEF At
<1> HIDE DEF t
<1>4. Height[t] = 1 + Higher(Height[a], Height[b]) /\ Held[t] = Beside(side, Held[a], p, Held[b])
  BY <1>2, <1>3, SidesOf
<1>5. Sound(t)
  BY <1>1, <1>2, <1>3, SoundSides DEF Supports
<1>6. Keys(t) = Keys(a) \cup KeysIn(p) \cup Keys(b)
  <2>1. Held[a] \in Payload /\ Held[b] \in Payload
    BY <1>1, KeysOf
  <2> QED BY <1>1, <1>4, <2>1, BesideHolds DEF Keys
<1> QED BY <1>3, <1>4, <1>5, <1>6 DEF t

LEMMA BesideAssociative ==
    ASSUME NEW side \in Sides, NEW a \in Payload, NEW p \in Payload, NEW b \in Payload,
           NEW q \in Payload, NEW c \in Payload
    PROVE  Beside(side, Beside(side, a, p, b), q, c) = Beside(side, a, p, Beside(side, b, q, c))
<1>1. Joined(Joined(a, p, b), q, c) = Joined(a, p, Joined(b, q, c))
  BY JoinedAssociative
<1>2. Joined(Joined(c, q, b), p, a) = Joined(c, q, Joined(b, p, a))
  BY JoinedAssociative
<1> QED BY <1>1, <1>2 DEF Beside

\* What a rotation makes of a node and of its child at that side.
LEMMA Rotated ==
    ASSUME NEW side \in Sides, NEW f, NEW p, NEW g, NEW q, NEW x, NEW y, NEW z
    PROVE  Rotate(At(side, f, p, At(side, g, q, x, y), z), side) =
              At(side, g, q, x, At(side, f, p, y, z))
<1> DEFINE child == At(side, g, q, x, y)
           t == At(side, f, p, child, z)
<1>1. t[side] = child /\ \A w : [t EXCEPT ![side] = w] = At(side, f, p, w, z)
  BY AtFields
<1>2. child[Other(side)] = y /\ \A w : [child EXCEPT ![Other(side)] = w] = At(side, g, q, x, w)
  BY AtFields
<1>3. Rotate(t, side) = [t[side] EXCEPT ![Other(side)] = [t EXCEPT ![side] = t[side][Other(side)]]]
  BY DEF Rotate
<1> HIDE DEF t, child
<1> QED BY <1>1, <1>2, <1>3 DEF t, child

\* And of the child's other side, before that.
LEMMA RotatedAway ==
    ASSUME NEW side \in Sides, NEW f, NEW p, NEW g, NEW q, NEW x, NEW y, NEW z
    PROVE  Rotate(At(side, f, p, x, At(side, g, q, y, z)), Other(side)) =
              At(side, g, q, At(side, f, p, x, y), z)
<1> DEFINE other == Other(side)
<1>1. other \in Sides /\ Other(other) = side
  BY OtherSide
<1>2. \A h, r, u, w : At(side, h, r, u, w) = At(other, h, r, w, u)
  <2>1. side = "left" \/ side = "right"
    BY DEF Sides
  <2> QED BY <2>1 DEF At, Other
<1>3. Rotate(At(other, f, p, At(other, g, q, z, y), x), other) =
         At(other, g, q, z, At(other, f, p, y, x))
  BY <1>1, Rotated
<1> HIDE DEF other
<1> QED BY <1>2, <1>3 DEF other

\* With m and n for the balance factors of the node that came up and of the one
\* that went down.
Raised(t, side, m, n) == [t EXCEPT !.bf = m, ![Other(side)].bf = n]

LEMMA RaisedFields ==
    ASSUME NEW side \in Sides, NEW f, NEW p, NEW g, NEW q, NEW u, NEW y, NEW z, NEW m, NEW n
    PROVE  Raised(At(side, f, p, u, At(side, g, q, y, z)), side, m, n) =
              At(side, m, p, u, At(side, n, q, y, z))
<1> DEFINE low == At(side, g, q, y, z)
           above == At(side, f, p, u, low)
           top == At(side, m, p, u, low)
           low3 == [low EXCEPT !.bf = n]
<1>1. [above EXCEPT !.bf = m] = top
  <2> HIDE DEF low
  <2> QED BY AtFields
<1>2. top[Other(side)] = low /\ [top EXCEPT ![Other(side)] = low3] = At(side, m, p, u, low3)
  <2> HIDE DEF low, low3
  <2> QED BY AtFields
<1>3. low3 = At(side, n, q, y, z)
  BY AtFields
<1>4. Raised(above, side, m, n) = [top EXCEPT ![Other(side)] = [top[Other(side)] EXCEPT !.bf = n]]
  <2> HIDE DEF above, low, top
  <2> QED BY <1>1 DEF Raised
<1>5. [top[Other(side)] EXCEPT !.bf = n] = low3
  <2> HIDE DEF low, top
  <2> QED BY <1>2
<1> HIDE DEF top, low3
<1>6. Raised(above, side, m, n) = At(side, m, p, u, At(side, n, q, y, z))
  <2> HIDE DEF low, above
  <2> QED BY <1>2, <1>3, <1>4, <1>5
<1> QED BY <1>6

\* SetBalanceFactors gives both nodes below theirs.
LEMMA BalanceFactorsSet ==
    ASSUME NEW side \in Sides, NEW f, NEW p, NEW g, NEW q, NEW h, NEW r,
           NEW u, NEW x, NEW y, NEW z, NEW n \in BalanceFactor
    PROVE  SetBalanceFactors(At(side, f, p, At(side, h, r, u, x), At(side, g, q, y, z)), n) =
              At(side, 0, p,
                 At(side, IF n = Heavy(Other(side)) THEN Heavy(side) ELSE 0, r, u, x),
                 At(side, IF n = Heavy(side) THEN Heavy(Other(side)) ELSE 0, q, y, z))
<1> DEFINE low == At(side, g, q, y, z)
           low2 == At(side, h, r, u, x)
           both == At(side, f, p, low2, low)
           x1 == IF n = 1 THEN -1 ELSE 0
           x2 == IF n = -1 THEN 1 ELSE 0
<1>1. \A m : /\ [low EXCEPT !.bf = m] = At(side, m, q, y, z)
             /\ [low2 EXCEPT !.bf = m] = At(side, m, r, u, x)
  BY AtFields
<1>2. ASSUME NEW v, NEW w
      PROVE  SetBalanceFactors(Node(f, p, v, w), n) =
                Node(0, p, [v EXCEPT !.bf = x1], [w EXCEPT !.bf = x2])
  <2> DEFINE t == Node(f, p, v, w)
             v1 == [v EXCEPT !.bf = x1]
             w1 == [w EXCEPT !.bf = x2]
             t1 == [t EXCEPT !.bf = 0]
             t2 == [t1 EXCEPT !.left = v1]
             t3 == [t2 EXCEPT !.right = w1]
  <2>1. t1 = Node(0, p, v, w) /\ t1.left = v
    BY DEF Node
  <2>2. t2 = Node(0, p, v1, w) /\ t2.right = w
    <3> HIDE DEF v1, t1
    <3> QED BY <2>1 DEF Node
  <2>3. t3 = Node(0, p, v1, w1)
    <3> HIDE DEF v1, w1, t2
    <3> QED BY <2>2 DEF Node
  <2>4. SetBalanceFactors(t, n) =
           [[t1 EXCEPT !.left = [t1.left EXCEPT !.bf = x1]] EXCEPT
              !.right = [[t1 EXCEPT !.left = [t1.left EXCEPT !.bf = x1]].right EXCEPT !.bf = x2]]
    BY DEF SetBalanceFactors
  <2>5. [t1.left EXCEPT !.bf = x1] = v1
    <3> HIDE DEF t1, x1
    <3> QED BY <2>1
  <2>6. [t2.right EXCEPT !.bf = x2] = w1
    <3> HIDE DEF t2, x2
    <3> QED BY <2>2
  <2>7. SetBalanceFactors(t, n) = t3
    <3>1. SetBalanceFactors(t, n) = [t2 EXCEPT !.right = [t2.right EXCEPT !.bf = x2]]
      <4> HIDE DEF t, t1, x1, x2
      <4> QED BY <2>4, <2>5
    <3> HIDE DEF t, t2, x2
    <3> QED BY <2>6, <3>1
  <2> HIDE DEF t3, t, v1, w1
  <2> QED BY <2>3, <2>7 DEF t, v1, w1
<1>3. CASE side = "left"
  <2>1. Other(side) = "right" /\ Heavy("left") = -1 /\ Heavy("right") = 1
    BY <1>3 DEF Other, Heavy
  <2>2. both = Node(f, p, low2, low)
    BY <1>3 DEF At
  <2>3. Node(0, p, At(side, x1, r, u, x), At(side, x2, q, y, z)) =
           At(side, 0, p, At(side, x1, r, u, x), At(side, x2, q, y, z))
    BY <1>3 DEF At
  <2>4. SetBalanceFactors(both, n) = At(side, 0, p, At(side, x1, r, u, x), At(side, x2, q, y, z))
    <3> HIDE DEF low, low2, both, x1, x2
    <3> QED BY <1>1, <1>2, <2>2, <2>3
  <2> HIDE DEF both
  <2> QED BY <1>3, <2>1, <2>4 DEF both, x1, x2
<1>4. CASE side = "right"
  <2>1. Other(side) = "left" /\ Heavy("left") = -1 /\ Heavy("right") = 1
    BY <1>4 DEF Other, Heavy
  <2>2. both = Node(f, p, low, low2)
    BY <1>4 DEF At
  <2>3. Node(0, p, At(side, x1, q, y, z), At(side, x2, r, u, x)) =
           At(side, 0, p, At(side, x2, r, u, x), At(side, x1, q, y, z))
    BY <1>4 DEF At
  <2>4. SetBalanceFactors(both, n) = At(side, 0, p, At(side, x2, r, u, x), At(side, x1, q, y, z))
    <3> HIDE DEF low, low2, both, x1, x2
    <3> QED BY <1>1, <1>2, <2>2, <2>3
  <2> HIDE DEF both
  <2> QED BY <1>4, <2>1, <2>4 DEF both, x1, x2
<1> QED BY <1>3, <1>4 DEF Sides

\* A rotation keeps a tree sound if the balance factors are put right.
LEMMA RotatedSound ==
    ASSUME NEW side \in Sides, NEW p, NEW q, NEW x, NEW y, NEW b, NEW m, NEW n,
           Filled(p), Filled(q), Supports(side, q, x, y), Supports(side, p, y, b),
           Apart(side, KeysIn(q), KeysIn(p)),
           m \in BalanceFactor, m = Lean(side, Height[y], Height[b]),
           n \in BalanceFactor,
           n = Lean(side, Height[x], 1 + Higher(Height[y], Height[b])),
           1 + Higher(Height[y], Height[b]) < MaxHeight
    PROVE  LET t == At(side, n, q, x, At(side, m, p, y, b))
           IN  /\ t \in Tree /\ t # None /\ Sound(t)
               /\ Height[t] = 1 + Higher(Height[x], 1 + Higher(Height[y], Height[b]))
               /\ Held[t] = Beside(side, Beside(side, Held[x], q, Held[y]), p, Held[b])
<1> DEFINE low == At(side, m, p, y, b)
<1>1. /\ low \in Tree /\ Sound(low) /\ Height[low] = 1 + Higher(Height[y], Height[b])
      /\ Held[low] = Beside(side, Held[y], p, Held[b])
      /\ Keys(low) = Keys(y) \cup KeysIn(p) \cup Keys(b)
  BY Built
<1> HIDE DEF low
<1>2. /\ x \in Tree /\ y \in Tree /\ b \in Tree
      /\ Keys(x) \in SUBSET Key /\ Keys(y) \in SUBSET Key /\ Keys(b) \in SUBSET Key
      /\ KeysIn(p) \in SUBSET Key /\ KeysIn(q) \in SUBSET Key
      /\ Held[x] \in Payload /\ Held[y] \in Payload /\ Held[b] \in Payload
      /\ p \in Payload /\ q \in Payload /\ KeysIn(p) # {}
  BY KeysOf DEF Supports, Filled, Fits, KeysIn
<1>3. Apart(side, KeysIn(q), Keys(low))
  <2>1. Apart(side, KeysIn(q), Keys(y)) /\ Apart(side, KeysIn(p), Keys(b))
    BY DEF Supports
  <2>2. Apart(side, KeysIn(q), Keys(b))
    BY <1>2, <2>1, ApartFacts
  <2>3. Apart(side, KeysIn(q), Keys(y) \cup KeysIn(p))
    BY <1>2, <2>1, ApartFacts
  <2> DEFINE K == KeysIn(q)
             L == Keys(y) \cup KeysIn(p)
             M == Keys(b)
  <2>4. K \in SUBSET Key /\ L \in SUBSET Key /\ M \in SUBSET Key
    BY <1>2
  <2>5. Apart(side, K, L) /\ Apart(side, K, M)
    BY <2>2, <2>3
  <2>6. Keys(low) = L \cup M
    BY <1>1
  <2> HIDE DEF K, L, M
  <2>7. Apart(side, K, L \cup M)
    BY <2>4, <2>5, ApartFacts
  <2> QED BY <2>6, <2>7 DEF K
<1>4. Supports(side, q, x, low)
  BY <1>1, <1>3 DEF Supports
<1> DEFINE t == At(side, n, q, x, low)
<1>5. /\ t \in Tree /\ t # None /\ Sound(t)
      /\ Height[t] = 1 + Higher(Height[x], Height[low])
      /\ Held[t] = Beside(side, Held[x], q, Held[low])
  BY <1>1, <1>4, Built
<1>6. Held[t] = Beside(side, Beside(side, Held[x], q, Held[y]), p, Held[b])
  BY <1>1, <1>2, <1>5, BesideAssociative
<1> QED BY <1>1, <1>5, <1>6 DEF t, low

\* So do two, that bring up the child y of the child.
LEMMA RotatedTwice ==
    ASSUME NEW side \in Sides, NEW p, NEW q, NEW x, NEW y, NEW b,
           Filled(p), Filled(q), Supports(side, q, x, y), Supports(side, p, y, b),
           Apart(side, KeysIn(q), KeysIn(p)), y # None,
           Height[y] = Height[x] + 1, Height[b] = Height[x], Height[y] + 1 < MaxHeight
    PROVE  LET m == IF y.bf = Heavy(Other(side)) THEN Heavy(side) ELSE 0
               n == IF y.bf = Heavy(side) THEN Heavy(Other(side)) ELSE 0
               t == At(side, 0, y.data, At(side, m, q, x, y[side]),
                                        At(side, n, p, y[Other(side)], b))
           IN  /\ t \in Tree /\ t # None /\ Sound(t) /\ Height[t] = Height[y] + 1
               /\ Held[t] = Beside(side, Beside(side, Held[x], q, Held[y]), p, Held[b])
<1> DEFINE o == y.data
           c == y[side]
           d == y[Other(side)]
           m == IF y.bf = Heavy(Other(side)) THEN Heavy(side) ELSE 0
           n == IF y.bf = Heavy(side) THEN Heavy(Other(side)) ELSE 0
           u == At(side, m, q, x, c)
           w == At(side, n, p, d, b)
           t == At(side, 0, o, u, w)
<1>1. /\ x \in Tree /\ Sound(x) /\ y \in Tree /\ Sound(y) /\ b \in Tree /\ Sound(b)
      /\ Height[x] \in Nat /\ Height[x] < MaxHeight /\ Height[b] < MaxHeight /\ MaxHeight \in Nat
  BY HeightBound, TreeAssumption DEF Supports
<1>2. /\ c \in Tree /\ d \in Tree /\ y.bf \in BalanceFactor
      /\ Height[c] \in Nat /\ Height[d] \in Nat /\ Height[c] < MaxHeight /\ Height[d] < MaxHeight
      /\ Height[y] = 1 + Higher(Height[c], Height[d])
      /\ Held[y] = Beside(side, Held[c], o, Held[d])
  BY <1>1, SidesOf, TreeFields
<1>3. /\ Sound(c) /\ Sound(d) /\ Filled(o) /\ y.bf = Lean(side, Height[c], Height[d])
      /\ Apart(side, Keys(c), KeysIn(o)) /\ Apart(side, KeysIn(o), Keys(d))
  BY <1>1, SoundSides
<1> HIDE DEF o, c, d
<1>4. /\ Keys(x) \in SUBSET Key /\ Keys(c) \in SUBSET Key /\ Keys(d) \in SUBSET Key
      /\ Keys(b) \in SUBSET Key /\ Keys(y) \in SUBSET Key
      /\ KeysIn(p) \in SUBSET Key /\ KeysIn(q) \in SUBSET Key /\ KeysIn(o) \in SUBSET Key
      /\ Held[x] \in Payload /\ Held[c] \in Payload /\ Held[d] \in Payload /\ Held[b] \in Payload
      /\ p \in Payload /\ q \in Payload /\ o \in Payload
      /\ KeysIn(p) # {} /\ KeysIn(q) # {}
  BY <1>1, <1>2, <1>3, KeysOf DEF Filled, Fits, KeysIn
<1>5. /\ Apart(side, KeysIn(q), Keys(c)) /\ Apart(side, KeysIn(q), KeysIn(o))
      /\ Apart(side, KeysIn(o), KeysIn(p)) /\ Apart(side, Keys(d), KeysIn(p))
      /\ Apart(side, Keys(x), KeysIn(q)) /\ Apart(side, KeysIn(p), Keys(b))
  <2>1. Keys(y) = Keys(c) \cup KeysIn(o) \cup Keys(d)
    BY <1>2, <1>4, BesideHolds DEF Keys
  <2>2. /\ Apart(side, KeysIn(q), Keys(y)) /\ Apart(side, Keys(y), KeysIn(p))
        /\ Apart(side, Keys(x), KeysIn(q)) /\ Apart(side, KeysIn(p), Keys(b))
    BY DEF Supports
  <2> QED BY <2>1, <2>2 DEF Apart
<1>6. /\ Apart(side, Keys(x), KeysIn(o)) /\ Apart(side, KeysIn(o), Keys(b))
  <2>1. Apart(side, Keys(x), KeysIn(o))
    BY <1>4, <1>5, ApartTransitive
  <2>2. Apart(side, KeysIn(o), Keys(b))
    BY <1>4, <1>5, ApartTransitive
  <2> QED BY <2>1, <2>2
<1>7. Supports(side, q, x, c) /\ Supports(side, p, d, b)
  BY <1>1, <1>2, <1>3, <1>5 DEF Supports
<1> DEFINE hx == Height[x]
           hc == Height[c]
           hd == Height[d]
<1>8. /\ m \in BalanceFactor /\ m = Lean(side, hx, hc)
      /\ n \in BalanceFactor /\ n = Lean(side, hd, hx)
      /\ Higher(hx, hc) = hx /\ Higher(hd, hx) = hx
  <2>1. hx \in Nat /\ hc \in Nat /\ hd \in Nat /\ hx = Higher(hc, hd)
    <3>1. 1 + Higher(hc, hd) = hx + 1 /\ Higher(hc, hd) \in Nat
      BY <1>1, <1>2 DEF Higher
    <3> HIDE DEF hx, hc, hd
    <3> QED BY <1>1, <1>2, <3>1 DEF hx, hc, hd
  <2>2. y.bf \in BalanceFactor /\ y.bf = Lean(side, hc, hd)
    BY <1>2, <1>3
  <2> HIDE DEF hx, hc, hd
  <2>3. CASE side = "left"
    BY <2>1, <2>2, <2>3 DEF Higher, Lean, Heavy, Other, BalanceFactor
  <2>4. CASE side = "right"
    BY <2>1, <2>2, <2>4 DEF Higher, Lean, Heavy, Other, BalanceFactor
  <2> QED BY <2>3, <2>4 DEF Sides
<1> HIDE DEF m, n
<1>9. /\ u \in Tree /\ Sound(u) /\ Height[u] = 1 + hx
      /\ Held[u] = Beside(side, Held[x], q, Held[c])
      /\ Keys(u) = Keys(x) \cup KeysIn(q) \cup Keys(c)
  BY <1>7, <1>8, Built
<1>10. /\ w \in Tree /\ Sound(w) /\ Height[w] = 1 + hx
       /\ Held[w] = Beside(side, Held[d], p, Held[b])
       /\ Keys(w) = Keys(d) \cup KeysIn(p) \cup Keys(b)
  BY <1>7, <1>8, Built
<1> HIDE DEF u, w
<1>11. Supports(side, o, u, w)
  <2>1. Apart(side, Keys(u), KeysIn(o))
    BY <1>3, <1>5, <1>6, <1>9 DEF Apart
  <2>2. Apart(side, KeysIn(o), Keys(w))
    BY <1>3, <1>5, <1>6, <1>10 DEF Apart
  <2>3. 1 + hx < MaxHeight
    BY <1>1
  <2> QED BY <1>9, <1>10, <2>1, <2>2, <2>3 DEF Supports
<1>12. 0 \in BalanceFactor /\ 0 = Lean(side, Height[u], Height[w])
  BY <1>1, <1>9, <1>10 DEF BalanceFactor, Lean
<1>13. /\ t \in Tree /\ t # None /\ Sound(t)
       /\ Height[t] = 1 + Higher(Height[u], Height[w])
       /\ Held[t] = Beside(side, Held[u], o, Held[w])
  BY <1>3, <1>11, <1>12, Built
<1>14. Height[t] = Height[y] + 1
  <2> HIDE DEF t
  <2> QED BY <1>1, <1>9, <1>10, <1>13 DEF Higher
<1>15. Held[t] = Beside(side, Beside(side, Held[x], q, Held[y]), p, Held[b])
  <2> DEFINE X == Held[x]
             C == Held[c]
             D == Held[d]
             B == Held[b]
             U == Beside(side, X, q, C)
  <2>1. /\ X \in Payload /\ C \in Payload /\ D \in Payload /\ B \in Payload
        /\ U \in Payload
    BY <1>4, BesideHolds
  <2>2. Held[t] = Beside(side, U, o, Beside(side, D, p, B)) /\ Held[y] = Beside(side, C, o, D)
    BY <1>2, <1>9, <1>10, <1>13
  <2> HIDE DEF t, X, C, D, B
  <2>3. Beside(side, U, o, D) = Beside(side, X, q, Beside(side, C, o, D))
    BY <1>4, <2>1, BesideAssociative
  <2> HIDE DEF U
  <2>4. Beside(side, U, o, Beside(side, D, p, B)) = Beside(side, Beside(side, U, o, D), p, B)
    BY <1>4, <2>1, BesideAssociative
  <2> QED BY <2>2, <2>3, <2>4 DEF X, B
<1> QED BY <1>13, <1>14, <1>15 DEF t, u, w, m, n, o, c, d

\* A node that is two levels higher at one side is rebalanced to a sound tree
\* that holds the same, a level lower unless the higher child was balanced.
LEMMA Rebalancing ==
    ASSUME NEW side \in Sides, NEW f, NEW p, NEW a, NEW b,
           Filled(p), Supports(side, p, a, b), Height[a] = Height[b] + 2
    PROVE  LET r == Rebalanced(At(side, f, p, a, b), side)
           IN  /\ r \in Tree /\ r # None /\ Sound(r)
               /\ Held[r] = Beside(side, Held[a], p, Held[b])
               /\ Height[r] = IF a.bf = 0 THEN Height[a] + 1 ELSE Height[a]
               /\ r.bf = IF a.bf = 0 THEN Heavy(Other(side)) ELSE 0
<1> DEFINE t == At(side, f, p, a, b)
           q == a.data
           x == a[side]
           y == a[Other(side)]
<1>1. /\ a \in Tree /\ Sound(a) /\ b \in Tree /\ Sound(b)
      /\ Height[a] \in Nat /\ Height[b] \in Nat /\ a # None
      /\ Height[a] < MaxHeight /\ Height[b] < MaxHeight /\ MaxHeight \in Nat
  BY HeightBound, TreeAssumption DEF Supports
<1>2. /\ a = At(side, a.bf, q, x, y) /\ x \in Tree /\ y \in Tree
      /\ Height[x] \in Nat /\ Height[y] \in Nat /\ Height[x] < MaxHeight /\ Height[y] < MaxHeight
      /\ Height[a] = 1 + Higher(Height[x], Height[y])
      /\ Held[a] = Beside(side, Held[x], q, Held[y])
      /\ a.bf \in BalanceFactor
  BY <1>1, SidesOf, TreeFields
<1>3. /\ Sound(x) /\ Sound(y) /\ Filled(q) /\ a.bf = Lean(side, Height[x], Height[y])
      /\ Apart(side, Keys(x), KeysIn(q)) /\ Apart(side, KeysIn(q), Keys(y))
  BY <1>1, SoundSides
<1>4. t[side] = a
  BY AtFields
<1> HIDE DEF q, x, y
<1>5. /\ Keys(x) \in SUBSET Key /\ Keys(y) \in SUBSET Key /\ Keys(b) \in SUBSET Key
      /\ KeysIn(p) \in SUBSET Key /\ KeysIn(q) \in SUBSET Key
      /\ Held[x] \in Payload /\ Held[y] \in Payload /\ Held[b] \in Payload
      /\ p \in Payload /\ q \in Payload /\ KeysIn(p) # {}
  BY <1>1, <1>2, <1>3, KeysOf DEF Filled, Fits, KeysIn
<1>6. /\ Apart(side, Keys(y), KeysIn(p)) /\ Apart(side, KeysIn(q), KeysIn(p))
      /\ Apart(side, KeysIn(p), Keys(b))
  <2>1. Keys(a) = Keys(x) \cup KeysIn(q) \cup Keys(y) /\ Keys(a) \in SUBSET Key
    BY <1>1, <1>2, <1>5, BesideHolds, KeysOf DEF Keys
  <2>2. Apart(side, Keys(a), KeysIn(p)) /\ Apart(side, KeysIn(p), Keys(b))
    BY DEF Supports
  <2>3. Keys(y) \in SUBSET Keys(a) /\ KeysIn(q) \in SUBSET Keys(a)
    BY <2>1
  <2> QED BY <1>5, <2>1, <2>2, <2>3, ApartFacts
<1>7. Supports(side, q, x, y) /\ Supports(side, p, y, b)
  BY <1>1, <1>2, <1>3, <1>6 DEF Supports
<1> DEFINE hx == Height[x]
           hy == Height[y]
           hb == Height[b]
           low == 1 + Higher(hy, hb)
<1>H. /\ hx \in Nat /\ hy \in Nat /\ hb \in Nat
      /\ 1 + Higher(hx, hy) = hb + 2 /\ 1 + Higher(hx, hy) < MaxHeight /\ MaxHeight \in Nat
      /\ a.bf = Lean(side, hx, hy)
  BY <1>1, <1>2, <1>3
<1> DEFINE up == Rotate(t, side)
<1>8. up = At(side, a.bf, q, x, At(side, f, p, y, b))
  <2>1. t = At(side, f, p, At(side, a.bf, q, x, y), b)
    BY <1>2
  <2> HIDE DEF t
  <2> QED BY <2>1, Rotated
<1>9. /\ Heavy(side) \in BalanceFactor /\ Heavy(Other(side)) \in BalanceFactor
      /\ Heavy(side) # 0 /\ Heavy(Other(side)) # 0 /\ Heavy(side) # Heavy(Other(side))
      /\ Other(side) \in Sides /\ 0 \in BalanceFactor
      /\ \A n \in BalanceFactor : n = 0 \/ n = Heavy(side) \/ n = Heavy(Other(side))
  <2>1. side = "left" \/ side = "right"
    BY DEF Sides
  <2> QED BY <2>1 DEF Heavy, Other, BalanceFactor, Sides
<1>L. /\ a.bf = Heavy(side) <=> hx = hy + 1
      /\ a.bf = Heavy(Other(side)) <=> hy = hx + 1
      /\ a.bf = 0 <=> hx = hy
  <2> HIDE DEF hx, hy, hb
  <2>1. /\ Lean(side, hx, hy) = Heavy(side) <=> hx = hy + 1
        /\ Lean(side, hx, hy) = Heavy(Other(side)) <=> hy = hx + 1
        /\ Lean(side, hx, hy) = 0 <=> hx = hy
    BY <1>H, Leaning
  <2> QED BY <1>H, <2>1
<1> DEFINE r == Rebalanced(t, side)
<1>10. CASE a.bf = Heavy(side)
  <2>1. hx = hy + 1 /\ Higher(hx, hy) = hx /\ hb = hy
    <3> HIDE DEF hx, hy, hb
    <3>1. hx = hy + 1
      BY <1>L, <1>10
    <3> QED BY <1>H, <3>1 DEF Higher
  <2>2. r = Raised(up, side, 0, 0)
    <3> HIDE DEF t
    <3> QED BY <1>4, <1>10 DEF Rebalanced, Raised
  <2>3. r = At(side, 0, q, x, At(side, 0, p, y, b))
    <3> HIDE DEF up, r
    <3> QED BY <1>8, <2>2, RaisedFields
  <2>4. /\ 0 = Lean(side, hy, hb) /\ 0 = Lean(side, hx, low)
        /\ Higher(hx, low) = hx /\ low < MaxHeight
    <3> HIDE DEF hx, hy, hb
    <3>1. low = hx /\ low \in Nat /\ Higher(hx, low) = hx /\ low < MaxHeight
      BY <1>H, <2>1 DEF Higher
    <3> HIDE DEF low
    <3> QED BY <1>H, <2>1, <3>1, Leaning
  <2> HIDE DEF r
  <2>5. /\ r \in Tree /\ r # None /\ Sound(r) /\ Height[r] = 1 + Height[x]
        /\ Held[r] = Beside(side, Beside(side, Held[x], q, Held[y]), p, Held[b])
    BY <1>3, <1>6, <1>7, <1>9, <2>3, <2>4, RotatedSound
  <2>6. r.bf = 0
    BY <2>3, AtFields
  <2> QED BY <1>2, <1>9, <1>10, <2>1, <2>5, <2>6 DEF r
<1>11. CASE a.bf = 0
  <2>1. hx = hy /\ Higher(hx, hy) = hx /\ hy = hb + 1
    <3> HIDE DEF hx, hy, hb
    <3>1. hx = hy
      BY <1>L, <1>11
    <3> QED BY <1>H, <3>1 DEF Higher
  <2>2. r = Raised(up, side, Heavy(Other(side)), Heavy(side))
    <3> HIDE DEF t
    <3> QED BY <1>4, <1>9, <1>11 DEF Rebalanced, Raised
  <2>3. r = At(side, Heavy(Other(side)), q, x, At(side, Heavy(side), p, y, b))
    <3> HIDE DEF up, r
    <3> QED BY <1>8, <2>2, RaisedFields
  <2>4. /\ Heavy(side) = Lean(side, hy, hb) /\ Heavy(Other(side)) = Lean(side, hx, low)
        /\ Higher(hx, low) = 1 + hx /\ low < MaxHeight
    <3> HIDE DEF hx, hy, hb
    <3>1. low = hx + 1 /\ low \in Nat /\ Higher(hx, low) = 1 + hx /\ low < MaxHeight
      BY <1>H, <2>1 DEF Higher
    <3> HIDE DEF low
    <3> QED BY <1>H, <2>1, <3>1, Leaning
  <2> HIDE DEF r
  <2>5. /\ r \in Tree /\ r # None /\ Sound(r) /\ Height[r] = 1 + (1 + Height[x])
        /\ Held[r] = Beside(side, Beside(side, Held[x], q, Held[y]), p, Held[b])
    BY <1>3, <1>6, <1>7, <1>9, <2>3, <2>4, RotatedSound
  <2>6. r.bf = Heavy(Other(side))
    BY <2>3, AtFields
  <2>7. 1 + (1 + Height[x]) = Height[a] + 1
    BY <1>2, <2>1
  <2> QED BY <1>2, <1>11, <2>5, <2>6, <2>7 DEF r
<1>12. CASE a.bf = Heavy(Other(side))
  <2>1. hy = hx + 1 /\ Higher(hx, hy) = hy /\ hb = hx
    <3> HIDE DEF hx, hy, hb
    <3>1. hy = hx + 1
      BY <1>L, <1>12
    <3> QED BY <1>H, <3>1 DEF Higher
  <2>2. y # None /\ Height[y] + 1 < MaxHeight /\ Height[a] = Height[y] + 1
    BY <1>1, <1>2, <2>1, HeightBound
  <2> DEFINE c == y[side]
             d == y[Other(side)]
             o == y.data
             g == y.bf
             m == IF g = Heavy(Other(side)) THEN Heavy(side) ELSE 0
             n == IF g = Heavy(side) THEN Heavy(Other(side)) ELSE 0
  <2>3. g \in BalanceFactor /\ y = At(side, g, o, c, d)
    BY <1>2, <2>2, SidesOf, TreeFields
  <2>4. r = At(side, 0, o, At(side, m, q, x, c), At(side, n, p, d, b))
    <3> DEFINE v == At(side, g, o, At(side, a.bf, q, x, c), d)
               down == At(side, f, p, v, b)
    <3>1. r = SetBalanceFactors(Rotate([t EXCEPT ![side] = Rotate(t[side], Other(side))], side), g)
      <4> HIDE DEF t
      <4>1. a[Other(side)].bf = g /\ a.bf # Heavy(side) /\ a.bf # 0
        BY <1>9, <1>12 DEF y
      <4> QED BY <1>4, <4>1 DEF Rebalanced
    <3>2. Rotate(t[side], Other(side)) = v
      <4>1. a = At(side, a.bf, q, x, At(side, g, o, c, d))
        BY <1>2, <2>3
      <4>2. Rotate(At(side, a.bf, q, x, At(side, g, o, c, d)), Other(side)) = v
        BY RotatedAway
      <4> HIDE DEF t, v, c, d, o, g
      <4> QED BY <1>4, <4>1, <4>2
    <3>3. [t EXCEPT ![side] = v] = down
      <4> HIDE DEF v
      <4> QED BY AtFields
    <3>4. Rotate(down, side) = At(side, g, o, At(side, a.bf, q, x, c), At(side, f, p, d, b))
      BY Rotated
    <3>5. SetBalanceFactors(Rotate(down, side), g) =
             At(side, 0, o, At(side, m, q, x, c), At(side, n, p, d, b))
      <4> HIDE DEF g, o, c, d, down
      <4> QED BY <2>3, <3>4, BalanceFactorsSet
    <3> HIDE DEF r, t, v, down, g, o, c, d, m, n
    <3> QED BY <3>1, <3>2, <3>3, <3>5
  <2>5. /\ r \in Tree /\ r # None /\ Sound(r) /\ Height[r] = Height[y] + 1
        /\ Held[r] = Beside(side, Beside(side, Held[x], q, Held[y]), p, Held[b])
    <3> HIDE DEF r
    <3> QED BY <1>3, <1>6, <1>7, <2>1, <2>2, <2>4, RotatedTwice
  <2>6. r.bf = 0
    <3> HIDE DEF r, m, n, c, d, o
    <3> QED BY <2>4, AtFields
  <2> HIDE DEF r
  <2> QED BY <1>2, <1>9, <1>12, <2>2, <2>5, <2>6 DEF r
<1> QED BY <1>2, <1>9, <1>10, <1>11, <1>12

-----------------------------------------------------------------------------
(* Up the tree.                                                            *)

\* What an insertion makes of a tree of height h: it has grown by a level if it
\* says so, and is out of balance then unless it is a new leaf.
GrewFrom(h, res) ==
    /\ res.tree \in Tree /\ res.tree # None /\ Sound(res.tree)
    /\ res.grew \in BOOLEAN
    /\ Height[res.tree] = IF res.grew THEN h + 1 ELSE h
    /\ res.grew /\ h # 0 => res.tree.bf # 0

\* What a removal makes of it.
ShrankFrom(h, res) ==
    /\ res.tree \in Tree /\ Sound(res.tree)
    /\ res.shrank \in BOOLEAN
    /\ Height[res.tree] = IF res.shrank THEN h - 1 ELSE h

\* Sides in the other order.
LEMMA AtOther ==
    ASSUME NEW side \in Sides, NEW f, NEW p, NEW a, NEW b
    PROVE  /\ At(side, f, p, a, b) = At(Other(side), f, p, b, a)
           /\ Supports(side, p, a, b) /\ KeysIn(p) \subseteq Key => Supports(Other(side), p, b, a)
           /\ Beside(side, a, p, b) = Beside(Other(side), b, p, a)
<1>1. At(side, f, p, a, b) = At(Other(side), f, p, b, a)
  BY DEF Sides, At, Other
<1>2. ASSUME Supports(side, p, a, b), KeysIn(p) \subseteq Key
      PROVE  Supports(Other(side), p, b, a)
  <2>1. Keys(a) \in SUBSET Key /\ Keys(b) \in SUBSET Key /\ KeysIn(p) \in SUBSET Key
    BY <1>2, KeysOf DEF Supports
  <2>2. Apart(side, Keys(a), KeysIn(p)) /\ Apart(side, KeysIn(p), Keys(b))
    BY <1>2 DEF Supports
  <2>3. Apart(Other(side), KeysIn(p), Keys(a)) /\ Apart(Other(side), Keys(b), KeysIn(p))
    BY <2>1, <2>2, ApartFacts
  <2> QED BY <1>2, <2>3 DEF Supports
<1>3. Beside(side, a, p, b) = Beside(Other(side), b, p, a)
  BY OtherSide
<1> QED BY <1>1, <1>2, <1>3

\* Heavy and balanced.
LEMMA HeavySides ==
    ASSUME NEW side \in Sides
    PROVE  /\ Heavy(side) \in BalanceFactor /\ Heavy(Other(side)) \in BalanceFactor
           /\ 0 \in BalanceFactor /\ Heavy(side) # 0 /\ Heavy(Other(side)) # 0
           /\ Heavy(side) # Heavy(Other(side)) /\ Heavy(Other(Other(side))) = Heavy(side)
           /\ \A n \in BalanceFactor : n = 0 \/ n = Heavy(side) \/ n = Heavy(Other(side))
<1>1. side = "left" \/ side = "right"
  BY DEF Sides
<1> QED BY <1>1 DEF Heavy, Other, BalanceFactor

\* Above a subtree that has grown, or not, Grown makes a tree that has, or not.
LEMMA GrownSound ==
    ASSUME NEW side \in Sides, NEW bf \in BalanceFactor, NEW p, NEW a \in Tree, NEW b, NEW sub,
           Filled(p), Supports(side, p, sub.tree, b), bf = Lean(side, Height[a], Height[b]),
           GrewFrom(Height[a], sub)
    PROVE  LET res == Grown(At(side, bf, p, a, b), side, sub)
           IN  /\ GrewFrom(1 + Higher(Height[a], Height[b]), res)
               /\ Held[res.tree] = Beside(side, Held[sub.tree], p, Held[b])
<1> DEFINE t == At(side, bf, p, a, b)
           s == sub.tree
           u == [t EXCEPT ![side] = s]
           ha == Height[a]
           hb == Height[b]
           h == 1 + Higher(ha, hb)
           res == Grown(t, side, sub)
<1>1. t.bf = bf /\ u = At(side, bf, p, s, b)
  BY AtFields
<1>2. \A n : [At(side, bf, p, s, b) EXCEPT !.bf = n] = At(side, n, p, s, b)
  BY AtFields
<1>3. /\ s \in Tree /\ s # None /\ Sound(s) /\ sub.grew \in BOOLEAN
      /\ Height[s] = (IF sub.grew THEN ha + 1 ELSE ha)
      /\ sub.grew /\ ha # 0 => s.bf # 0
  BY DEF GrewFrom
<1>4. b \in Tree /\ ha \in Nat /\ hb \in Nat
  BY HeightBound DEF Supports
<1>5. /\ bf = Heavy(side) <=> ha = hb + 1
      /\ bf = Heavy(Other(side)) <=> hb = ha + 1
      /\ bf = 0 <=> ha = hb
  <2> HIDE DEF ha, hb
  <2>1. /\ Lean(side, ha, hb) = Heavy(side) <=> ha = hb + 1
        /\ Lean(side, ha, hb) = Heavy(Other(side)) <=> hb = ha + 1
        /\ Lean(side, ha, hb) = 0 <=> ha = hb
    BY <1>4, Leaning
  <2> QED BY <2>1 DEF ha, hb
<1> HIDE DEF ha, hb
<1>6. CASE ~sub.grew
  <2>1. res = [tree |-> At(side, bf, p, s, b), grew |-> FALSE]
    <3> HIDE DEF t
    <3> QED BY <1>1, <1>6 DEF Grown
  <2> DEFINE r == At(side, bf, p, s, b)
  <2>2. bf = Lean(side, Height[s], Height[b])
    BY <1>3, <1>6 DEF ha, hb
  <2>3. /\ r \in Tree /\ r # None /\ Sound(r) /\ Height[r] = 1 + Higher(Height[s], Height[b])
        /\ Held[r] = Beside(side, Held[s], p, Held[b])
    BY <2>2, Built
  <2> HIDE DEF r, res
  <2>4. res.tree = r /\ res.grew = FALSE /\ Height[r] = h
    BY <1>3, <1>6, <2>1, <2>3 DEF ha, hb, r
  <2> QED BY <2>3, <2>4 DEF GrewFrom, ha, hb, res
<1>7. CASE sub.grew /\ bf = Heavy(Other(side))
  <2>1. res = [tree |-> At(side, 0, p, s, b), grew |-> FALSE]
    <3> HIDE DEF t
    <3> QED BY <1>1, <1>2, <1>7 DEF Grown
  <2> DEFINE r == At(side, 0, p, s, b)
  <2>2. Height[s] = hb /\ 0 = Lean(side, Height[s], hb) /\ 1 + Higher(Height[s], hb) = h
    <3>1. Height[s] = hb /\ hb = ha + 1
      BY <1>3, <1>4, <1>5, <1>7
    <3> QED BY <1>4, <3>1 DEF Lean, Higher
  <2>3. /\ r \in Tree /\ r # None /\ Sound(r) /\ Height[r] = h
        /\ Held[r] = Beside(side, Held[s], p, Held[b])
    BY <2>2, HeavySides, Built DEF hb
  <2> HIDE DEF r, res
  <2>4. res.tree = r /\ res.grew = FALSE
    BY <2>1 DEF r
  <2> QED BY <2>3, <2>4 DEF GrewFrom, ha, hb, res
<1>8. CASE sub.grew /\ bf = 0
  <2>1. res = [tree |-> At(side, Heavy(side), p, s, b), grew |-> TRUE]
    <3> HIDE DEF t
    <3> QED BY <1>1, <1>2, <1>8, HeavySides DEF Grown
  <2> DEFINE r == At(side, Heavy(side), p, s, b)
  <2>2. Heavy(side) = Lean(side, Height[s], hb) /\ 1 + Higher(Height[s], hb) = h + 1
    <3> DEFINE hs == Height[s]
    <3>1. hs = hb + 1 /\ hb = ha /\ hs \in Nat
      BY <1>3, <1>4, <1>5, <1>8
    <3> HIDE DEF hs
    <3>2. 1 + Higher(hs, hb) = h + 1
      BY <1>4, <3>1 DEF Higher
    <3>3. Heavy(side) = Lean(side, hs, hb)
      BY <1>4, <3>1, Leaning
    <3> QED BY <3>2, <3>3 DEF hs
  <2>3. /\ r \in Tree /\ r # None /\ Sound(r) /\ Height[r] = h + 1
        /\ Held[r] = Beside(side, Held[s], p, Held[b])
    BY <2>2, HeavySides, Built DEF hb
  <2>4. r.bf # 0
    BY AtFields, HeavySides
  <2> HIDE DEF r, res
  <2>5. res.tree = r /\ res.grew = TRUE
    BY <2>1 DEF r
  <2> QED BY <2>3, <2>4, <2>5 DEF GrewFrom, ha, hb, res
<1>9. CASE sub.grew /\ bf = Heavy(side)
  <2> DEFINE r == Rebalanced(At(side, bf, p, s, b), side)
  <2>1. res = [tree |-> r, grew |-> FALSE]
    <3> HIDE DEF t
    <3> QED BY <1>1, <1>9, HeavySides DEF Grown
  <2>2. ha = hb + 1 /\ Height[s] = hb + 2 /\ h = hb + 2 /\ s.bf # 0
    <3>1. ha = hb + 1
      BY <1>5, <1>9
    <3> QED BY <1>3, <1>4, <1>9, <3>1 DEF Higher
  <2>3. /\ r \in Tree /\ r # None /\ Sound(r)
        /\ Held[r] = Beside(side, Held[s], p, Held[b])
        /\ Height[r] = IF s.bf = 0 THEN Height[s] + 1 ELSE Height[s]
    BY <2>2, Rebalancing DEF hb
  <2> HIDE DEF r, res
  <2>4. res.tree = r /\ res.grew = FALSE /\ Height[r] = h
    BY <2>1, <2>2, <2>3
  <2> QED BY <2>3, <2>4 DEF GrewFrom, ha, hb, res
<1>10. \/ ~sub.grew
       \/ sub.grew /\ bf = Heavy(Other(side))
       \/ sub.grew /\ bf = 0
       \/ sub.grew /\ bf = Heavy(side)
  BY HeavySides
<1> QED BY <1>6, <1>7, <1>8, <1>9, <1>10

\* Above a subtree that has shrunk, or not, Shrunk makes a tree that has, or
\* not.
LEMMA ShrunkSound ==
    ASSUME NEW side \in Sides, NEW bf \in BalanceFactor, NEW p, NEW a \in Tree, NEW b, NEW sub,
           Filled(p), Supports(side, p, sub.tree, b), bf = Lean(side, Height[a], Height[b]),
           ShrankFrom(Height[a], sub), Height[a] < MaxHeight
    PROVE  LET res == Shrunk(At(side, bf, p, a, b), side, sub)
           IN  /\ ShrankFrom(1 + Higher(Height[a], Height[b]), res) /\ res.tree # None
               /\ Held[res.tree] = Beside(side, Held[sub.tree], p, Held[b])
<1> DEFINE t == At(side, bf, p, a, b)
           s == sub.tree
           u == [t EXCEPT ![side] = s]
           ha == Height[a]
           hb == Height[b]
           hs == Height[s]
           h == 1 + Higher(ha, hb)
           res == Shrunk(t, side, sub)
<1>1. t.bf = bf /\ u = At(side, bf, p, s, b)
  BY AtFields
<1>2. \A n : [At(side, bf, p, s, b) EXCEPT !.bf = n] = At(side, n, p, s, b)
  BY AtFields
<1>3. /\ s \in Tree /\ Sound(s) /\ sub.shrank \in BOOLEAN
      /\ hs = (IF sub.shrank THEN ha - 1 ELSE ha)
  BY DEF ShrankFrom
<1>4. /\ b \in Tree /\ ha \in Nat /\ hb \in Nat /\ hs \in Nat
      /\ ha < MaxHeight /\ hb < MaxHeight /\ MaxHeight \in Nat
  BY HeightBound, TreeAssumption DEF Supports
<1>5. /\ bf = Heavy(side) <=> ha = hb + 1
      /\ bf = Heavy(Other(side)) <=> hb = ha + 1
      /\ bf = 0 <=> ha = hb
  <2> HIDE DEF ha, hb
  <2>1. /\ Lean(side, ha, hb) = Heavy(side) <=> ha = hb + 1
        /\ Lean(side, ha, hb) = Heavy(Other(side)) <=> hb = ha + 1
        /\ Lean(side, ha, hb) = 0 <=> ha = hb
    BY <1>4, Leaning
  <2> QED BY <2>1 DEF ha, hb
<1> HIDE DEF ha, hb, hs
<1>6. CASE ~sub.shrank
  <2>1. res = [tree |-> At(side, bf, p, s, b), shrank |-> FALSE]
    <3> HIDE DEF t
    <3> QED BY <1>1, <1>6 DEF Shrunk
  <2> DEFINE r == At(side, bf, p, s, b)
  <2>2. bf = Lean(side, hs, hb) /\ 1 + Higher(hs, hb) = h
    BY <1>3, <1>6 DEF ha, hb
  <2>3. /\ r \in Tree /\ r # None /\ Sound(r) /\ Height[r] = h
        /\ Held[r] = Beside(side, Held[s], p, Held[b])
    BY <2>2, Built DEF hb, hs
  <2> HIDE DEF r, res
  <2>4. res.tree = r /\ res.shrank = FALSE
    BY <2>1 DEF r
  <2> QED BY <2>3, <2>4 DEF ShrankFrom, ha, hb, res
<1>7. CASE sub.shrank /\ bf = Heavy(side)
  <2>1. res = [tree |-> At(side, 0, p, s, b), shrank |-> TRUE]
    <3> HIDE DEF t
    <3> QED BY <1>1, <1>2, <1>7 DEF Shrunk
  <2> DEFINE r == At(side, 0, p, s, b)
  <2>2. 0 = Lean(side, hs, hb) /\ 1 + Higher(hs, hb) = h - 1
    <3>1. hs = hb /\ ha = hb + 1
      BY <1>3, <1>4, <1>5, <1>7
    <3> QED BY <1>4, <3>1 DEF Lean, Higher
  <2>3. /\ r \in Tree /\ r # None /\ Sound(r) /\ Height[r] = h - 1
        /\ Held[r] = Beside(side, Held[s], p, Held[b])
    BY <2>2, HeavySides, Built DEF hb, hs
  <2> HIDE DEF r, res
  <2>4. res.tree = r /\ res.shrank = TRUE
    BY <2>1 DEF r
  <2> QED BY <2>3, <2>4 DEF ShrankFrom, ha, hb, res
<1>8. CASE sub.shrank /\ bf = 0
  <2> DEFINE n == Heavy(Other(side))
             r == At(side, n, p, s, b)
  <2>1. res = [tree |-> r, shrank |-> FALSE]
    <3>1. bf # Heavy(side)
      BY <1>8, HeavySides
    <3> HIDE DEF t
    <3> QED BY <1>1, <1>2, <1>8, <3>1 DEF Shrunk
  <2>2. n = Lean(side, hs, hb) /\ 1 + Higher(hs, hb) = h
    <3>1. hs = ha - 1 /\ hb = ha /\ hb = hs + 1
      BY <1>3, <1>4, <1>5, <1>8
    <3>2. 1 + Higher(hs, hb) = h
      BY <1>4, <3>1 DEF Higher
    <3>3. n = Lean(side, hs, hb)
      BY <1>4, <3>1, Leaning
    <3> QED BY <3>2, <3>3
  <2>3. /\ r \in Tree /\ r # None /\ Sound(r) /\ Height[r] = h
        /\ Held[r] = Beside(side, Held[s], p, Held[b])
    BY <2>2, HeavySides, Built DEF hb, hs
  <2> HIDE DEF r, res
  <2>4. res.tree = r /\ res.shrank = FALSE
    BY <2>1 DEF r
  <2> QED BY <2>3, <2>4 DEF ShrankFrom, ha, hb, res
<1>9. CASE sub.shrank /\ bf = Heavy(Other(side))
  <2> DEFINE r == Rebalanced(At(side, bf, p, s, b), Other(side))
             low == r.bf # Heavy(side)
  <2>1. res = [tree |-> r, shrank |-> low]
    <3>1. bf # Heavy(side) /\ bf # 0
      BY <1>9, HeavySides
    <3> HIDE DEF t
    <3> QED BY <1>1, <1>9, <3>1 DEF Shrunk
  <2>2. hb = hs + 2 /\ h = hb + 1
    <3>1. hs = ha - 1 /\ hb = ha + 1
      BY <1>3, <1>4, <1>5, <1>9
    <3> QED BY <1>4, <3>1 DEF Higher
  <2>3. /\ r \in Tree /\ r # None /\ Sound(r)
        /\ Held[r] = Beside(Other(side), Held[b], p, Held[s])
        /\ Height[r] = (IF b.bf = 0 THEN Height[b] + 1 ELSE Height[b])
        /\ r.bf = (IF b.bf = 0 THEN Heavy(side) ELSE 0)
    <3>1. At(side, bf, p, s, b) = At(Other(side), bf, p, b, s) /\ Supports(Other(side), p, b, s)
      <4>1. KeysIn(p) \subseteq Key
        BY DEF KeysIn
      <4> QED BY <4>1, AtOther
    <3>2. Height[b] = Height[s] + 2 /\ Other(side) \in Sides /\ Heavy(Other(Other(side))) = Heavy(side)
      BY <2>2, OtherSide, HeavySides DEF hb, hs
    <3> DEFINE q == Rebalanced(At(Other(side), bf, p, b, s), Other(side))
    <3>3. /\ q \in Tree /\ q # None /\ Sound(q)
          /\ Held[q] = Beside(Other(side), Held[b], p, Held[s])
          /\ Height[q] = (IF b.bf = 0 THEN Height[b] + 1 ELSE Height[b])
          /\ q.bf = (IF b.bf = 0 THEN Heavy(Other(Other(side))) ELSE 0)
      BY <3>1, <3>2, Rebalancing
    <3>4. r = q
      BY <3>1
    <3> HIDE DEF r, q
    <3> QED BY <3>2, <3>3, <3>4
  <2>4. Held[r] = Beside(side, Held[s], p, Held[b])
    BY <2>3, AtOther
  <2> HIDE DEF r
  <2>5. low \in BOOLEAN /\ Height[r] = IF low THEN h - 1 ELSE h
    BY <1>4, <2>2, <2>3, HeavySides DEF hb
  <2> HIDE DEF low, res
  <2>6. res.tree = r /\ res.shrank = low
    BY <2>1
  <2> QED BY <2>3, <2>4, <2>5, <2>6 DEF ShrankFrom, ha, hb, res
<1>10. \/ ~sub.shrank
       \/ sub.shrank /\ bf = Heavy(side)
       \/ sub.shrank /\ bf = 0
       \/ sub.shrank /\ bf = Heavy(Other(side))
  BY HeavySides
<1> QED BY <1>6, <1>7, <1>8, <1>9, <1>10

-----------------------------------------------------------------------------
(* Insertion.                                                              *)

\* What a sound tree is made of, seen from either side.
LEMMA Opened ==
    ASSUME NEW side \in Sides, NEW t \in Tree, t # None, Sound(t)
    PROVE  /\ t.bf \in BalanceFactor /\ Filled(t.data)
           /\ t.bf = Lean(side, Height[t[side]], Height[t[Other(side)]])
           /\ Supports(side, t.data, t[side], t[Other(side)])
           /\ t[side] \in Tree /\ t[Other(side)] \in Tree
           /\ Held[t[side]] \in Payload /\ t.data \in Payload /\ Held[t[Other(side)]] \in Payload
           /\ Keys(t[side]) \in SUBSET Key /\ KeysIn(t.data) \in SUBSET Key /\ KeysIn(t.data) # {}
           /\ Keys(t[Other(side)]) \in SUBSET Key
           /\ Height[t] = 1 + Higher(Height[t[side]], Height[t[Other(side)]])
           /\ Held[t] = Beside(side, Held[t[side]], t.data, Held[t[Other(side)]])
           /\ Keys(t) = Keys(t[side]) \cup KeysIn(t.data) \cup Keys(t[Other(side)])
           /\ \A q : [t EXCEPT !.data = q] = At(side, t.bf, q, t[side], t[Other(side)])
           /\ [t EXCEPT !.data = t.data] = t
<1> DEFINE bf == t.bf
           p == t.data
           a == t[side]
           b == t[Other(side)]
<1>1. /\ t = At(side, bf, p, a, b) /\ a \in Tree /\ b \in Tree
      /\ Height[a] < MaxHeight /\ Height[b] < MaxHeight
      /\ Height[t] = 1 + Higher(Height[a], Height[b])
      /\ Held[t] = Beside(side, Held[a], p, Held[b])
  BY SidesOf
<1>2. /\ Sound(a) /\ Sound(b) /\ bf = Lean(side, Height[a], Height[b]) /\ Filled(p)
      /\ Apart(side, Keys(a), KeysIn(p)) /\ Apart(side, KeysIn(p), Keys(b))
  BY SoundSides
<1>3. bf \in BalanceFactor
  BY TreeFields
<1>4. /\ Held[a] \in Payload /\ Held[b] \in Payload
      /\ Keys(a) \in SUBSET Key /\ Keys(b) \in SUBSET Key
      /\ p \in Payload /\ KeysIn(p) \in SUBSET Key /\ KeysIn(p) # {}
  BY <1>1, <1>2, KeysOf DEF Filled, Fits, KeysIn
<1>5. Keys(t) = Keys(a) \cup KeysIn(p) \cup Keys(b)
  BY <1>1, <1>4, BesideHolds DEF Keys
<1>6. \A q : [t EXCEPT !.data = q] = At(side, bf, q, a, b)
  <2> HIDE DEF bf, p, a, b
  <2> QED BY <1>1, AtFields
<1>7. Supports(side, p, a, b)
  BY <1>1, <1>2 DEF Supports
<1>8. [t EXCEPT !.data = p] = t
  BY <1>1, <1>6
<1> HIDE DEF bf, p, a, b
<1>9. bf = t.bf /\ p = t.data /\ a = t[side] /\ b = t[Other(side)]
  BY DEF bf, p, a, b
<1> QED BY <1>1, <1>2, <1>3, <1>4, <1>5, <1>6, <1>7, <1>8, <1>9

LEMMA OpenedAtLeft ==
    ASSUME NEW t \in Tree, t # None, Sound(t)
    PROVE  /\ t.bf \in BalanceFactor /\ Filled(t.data)
           /\ t.bf = Lean("left", Height[t.left], Height[t.right])
           /\ Supports("left", t.data, t.left, t.right)
           /\ t.left \in Tree /\ t.right \in Tree
           /\ Held[t.left] \in Payload /\ t.data \in Payload /\ Held[t.right] \in Payload
           /\ Keys(t.left) \in SUBSET Key /\ KeysIn(t.data) \in SUBSET Key /\ KeysIn(t.data) # {}
           /\ Keys(t.right) \in SUBSET Key
           /\ Height[t] = 1 + Higher(Height[t.left], Height[t.right])
           /\ Held[t] = Beside("left", Held[t.left], t.data, Held[t.right])
           /\ Keys(t) = Keys(t.left) \cup KeysIn(t.data) \cup Keys(t.right)
           /\ \A q : [t EXCEPT !.data = q] = At("left", t.bf, q, t.left, t.right)
<1> DEFINE side == "left"
           a == t.left
           b == t.right
           p == t.data
           bf == t.bf
<1>1. side \in Sides /\ t[side] = a /\ t[Other(side)] = b
  BY DEF Sides, Other
<1> HIDE DEF side, a, b
<1>2. /\ bf \in BalanceFactor /\ Filled(p)
      /\ bf = Lean(side, Height[a], Height[b]) /\ Supports(side, p, a, b)
      /\ a \in Tree /\ b \in Tree
      /\ Held[a] \in Payload /\ p \in Payload /\ Held[b] \in Payload
      /\ Keys(a) \in SUBSET Key /\ KeysIn(p) \in SUBSET Key /\ KeysIn(p) # {}
      /\ Keys(b) \in SUBSET Key
      /\ Height[t] = 1 + Higher(Height[a], Height[b])
      /\ Held[t] = Beside(side, Held[a], p, Held[b])
      /\ Keys(t) = Keys(a) \cup KeysIn(p) \cup Keys(b)
  BY <1>1, Opened
<1>3. \A q : [t EXCEPT !.data = q] = At(side, bf, q, a, b)
  BY <1>1, Opened
<1> QED BY <1>2, <1>3 DEF side, a, b

\* Grown, with q for what the node holds.
LEMMA GrownUp ==
    ASSUME NEW side \in Sides, NEW t \in Tree, t # None, Sound(t), NEW q, Filled(q), NEW sub,
           GrewFrom(Height[t[side]], sub), Height[t] < MaxHeight,
           Apart(side, Keys(sub.tree), KeysIn(q)),
           Apart(side, KeysIn(q), Keys(t[Other(side)]))
    PROVE  LET res == Grown([t EXCEPT !.data = q], side, sub)
           IN  /\ GrewFrom(Height[t], res)
               /\ Held[res.tree] = Beside(side, Held[sub.tree], q, Held[t[Other(side)]])
<1> DEFINE bf == t.bf
           a == t[side]
           b == t[Other(side)]
<1>1. /\ bf \in BalanceFactor /\ bf = Lean(side, Height[a], Height[b])
      /\ Supports(side, t.data, a, b) /\ a \in Tree
      /\ Height[t] = 1 + Higher(Height[a], Height[b])
      /\ [t EXCEPT !.data = q] = At(side, bf, q, a, b)
  BY Opened
<1> HIDE DEF bf, a, b
<1>2. Height[a] \in Nat /\ Height[b] \in Nat /\ Height[sub.tree] <= Height[a] + 1
  BY <1>1, HeightBound DEF Supports, GrewFrom, a
<1>3. Height[sub.tree] < MaxHeight
  <2>1. Height[sub.tree] \in Nat /\ MaxHeight \in Nat
    BY HeightBound, TreeAssumption DEF GrewFrom
  <2> QED BY <1>1, <1>2, <2>1 DEF Higher
<1>4. Supports(side, q, sub.tree, b)
  BY <1>1, <1>3 DEF Supports, GrewFrom, b
<1>5. GrewFrom(Height[a], sub)
  BY DEF a
<1> DEFINE res == Grown(At(side, bf, q, a, b), side, sub)
<1>6. /\ GrewFrom(1 + Higher(Height[a], Height[b]), res)
      /\ Held[res.tree] = Beside(side, Held[sub.tree], q, Held[b])
  BY <1>1, <1>4, <1>5, GrownSound
<1> QED BY <1>1, <1>6 DEF b

\* res is t with the values filed under the key.
Files(t, key, vs, res) ==
    GrewFrom(Height[t], res) /\ Held[res.tree] = Upsert(Held[t], key, vs)

\* A key on one side of a node's is filed on that side of it.
LEMMA GrownAbove ==
    ASSUME NEW side \in Sides, NEW t \in Tree, t # None, Sound(t), NEW sub,
           NEW key \in Key, NEW vs \in Seq(Value), vs # <<>>,
           Files(t[side], key, vs, sub),
           Height[t] < MaxHeight, Apart(side, {key}, KeysIn(t.data))
    PROVE  Files(t, key, vs, Grown(t, side, sub))
<1> DEFINE p == t.data
           a == t[side]
           b == t[Other(side)]
<1>1. /\ Filled(p) /\ Supports(side, p, a, b) /\ [t EXCEPT !.data = p] = t
      /\ Held[a] \in Payload /\ p \in Payload /\ Held[b] \in Payload
      /\ Keys(a) \in SUBSET Key /\ KeysIn(p) \in SUBSET Key /\ KeysIn(p) # {}
      /\ Keys(b) \in SUBSET Key
      /\ Held[t] = Beside(side, Held[a], p, Held[b])
  BY Opened
<1>2. Apart(side, Keys(a), KeysIn(p)) /\ Apart(side, KeysIn(p), Keys(b))
  BY <1>1 DEF Supports
<1>0. GrewFrom(Height[a], sub) /\ Held[sub.tree] = Upsert(Held[a], key, vs)
  BY DEF Files
<1>3. Keys(sub.tree) = Keys(a) \cup {key}
  BY <1>0, <1>1, Upserted DEF Keys
<1>4. Apart(side, Keys(sub.tree), KeysIn(p))
  BY <1>2, <1>3 DEF Apart
<1>5. {key} \in SUBSET Key /\ Apart(side, {key}, KeysIn(p))
  OBVIOUS
<1>6. Apart(side, {key}, Keys(b))
  BY <1>1, <1>2, <1>5, ApartTransitive
<1>7. key \notin KeysIn(p) /\ key \notin KeysIn(Held[b])
  <2>1. {key} \cap KeysIn(p) = {} /\ {key} \cap Keys(b) = {}
    BY <1>1, <1>5, <1>6, ApartDisjoint
  <2> QED BY <2>1 DEF Keys
<1>8. Beside(side, Upsert(Held[a], key, vs), p, Held[b]) = Upsert(Held[t], key, vs)
  BY <1>1, <1>7, UpsertBeside
<1> DEFINE res == Grown([t EXCEPT !.data = p], side, sub)
<1>9. /\ GrewFrom(Height[t], res)
      /\ Held[res.tree] = Beside(side, Held[sub.tree], p, Held[b])
  BY <1>0, <1>1, <1>2, <1>4, GrownUp
<1> QED BY <1>0, <1>1, <1>8, <1>9 DEF Files

\* A key is filed in a node that accepts it if it is between the subtrees'.
LEMMA FiledSound ==
    ASSUME payload \in PayloadType, NEW t \in Tree, t # None, Sound(t),
           NEW key \in Key, NEW vs \in Seq(Value), vs # <<>>, Accepts(t.data, key),
           Apart("left", Keys(t.left), {key}), Apart("left", {key}, Keys(t.right))
    PROVE  Files(t, key, vs, Filed(t, key, vs))
<1> DEFINE p == t.data
           q == Upsert(p, key, vs)
           bf == t.bf
           a == t.left
           b == t.right
           r == At("left", bf, q, a, b)
           res == Filed(t, key, vs)
<1>0. "left" \in Sides /\ Other("left") = "right"
  BY DEF Sides, Other
<1>1. /\ bf \in BalanceFactor /\ bf = Lean("left", Height[a], Height[b])
      /\ Filled(p) /\ Supports("left", p, a, b) /\ Height[t] = 1 + Higher(Height[a], Height[b])
      /\ Held[a] \in Payload /\ p \in Payload /\ Held[b] \in Payload
      /\ Keys(a) \in SUBSET Key /\ KeysIn(p) \in SUBSET Key /\ Keys(b) \in SUBSET Key
      /\ Held[t] = Beside("left", Held[a], p, Held[b])
      /\ [t EXCEPT !.data = q] = r
  BY OpenedAtLeft
<1>2. Filled(q) /\ KeysIn(q) = KeysIn(p) \cup {key}
  BY <1>1, UpsertFits, Upserted DEF Filled
<1>3. res = [tree |-> r, grew |-> FALSE]
  BY <1>1 DEF Filed
<1>4. Supports("left", q, a, b)
  <2>1. Apart("left", Keys(a), KeysIn(q)) /\ Apart("left", KeysIn(q), Keys(b))
    BY <1>1, <1>2 DEF Supports, Apart
  <2> QED BY <1>1, <2>1 DEF Supports
<1>5. key \notin KeysIn(Held[a]) /\ key \notin KeysIn(Held[b])
  <2>1. Keys(a) \cap {key} = {} /\ {key} \cap Keys(b) = {}
    <3>1. {key} \in SUBSET Key
      OBVIOUS
    <3> QED BY <1>0, <1>1, <3>1, ApartDisjoint
  <2> QED BY <2>1 DEF Keys
<1>6. Beside("left", Held[a], q, Held[b]) = Upsert(Held[t], key, vs)
  BY <1>0, <1>1, <1>5, UpsertBeside
<1> HIDE DEF q, bf, a, b
<1>7. /\ r \in Tree /\ r # None /\ Sound(r) /\ Height[r] = 1 + Higher(Height[a], Height[b])
      /\ Held[r] = Beside("left", Held[a], q, Held[b])
  BY <1>0, <1>1, <1>2, <1>4, Built
<1> HIDE DEF r, res
<1>8. res.tree = r /\ res.grew = FALSE
  BY <1>3
<1> QED BY <1>1, <1>6, <1>7, <1>8 DEF Files, GrewFrom, res

\* Where there was no node there is a leaf.
LEMMA NewLeafSound ==
    ASSUME payload \in PayloadType, MaxHeight > 0, NEW key \in Key, NEW vs \in Seq(Value), vs # <<>>
    PROVE  Files(None, key, vs, NewLeaf(key, vs))
<1> DEFINE q == Upsert(Empty, key, vs)
           r == At("left", 0, q, None, None)
           res == NewLeaf(key, vs)
<1>1. Filled(q)
  <2>1. Accepts(Empty, key)
    BY EmptyPayload, CapacityIsNatural, FS_EmptySet DEF Accepts, Size
  <2> QED BY <2>1, EmptyFits, UpsertFits
<1>2. Sound(None)
  BY NoneIsTree DEF Sound
<1>3. /\ Supports("left", q, None, None) /\ "left" \in Sides /\ 0 \in BalanceFactor
      /\ 0 = Lean("left", Height[None], Height[None])
  BY <1>2, NoneIsTree DEF Supports, Apart, Sides, BalanceFactor, Lean
<1>4. q \in Payload
  BY <1>1 DEF Filled, Fits
<1> HIDE DEF q
<1>5. /\ r \in Tree /\ r # None /\ Sound(r) /\ Height[r] = 1 + Higher(Height[None], Height[None])
      /\ Held[r] = Beside("left", Held[None], q, Held[None])
  BY <1>1, <1>3, Built
<1>6. res = [tree |-> r, grew |-> TRUE]
  BY DEF NewLeaf, Leaf, At, Node, q
<1>7. Held[r] = q
  <2>1. Held[r] = Beside("left", Empty, q, Empty) /\ Held[r] \in Payload
    BY <1>5, NoneIsTree, KeysOf
  <2>2. \A k \in Key : Held[r][k] = q[k]
    BY <1>3, <1>4, <2>1, EmptyPayload, BesideHolds
  <2> QED BY <1>4, <2>1, <2>2, SamePayload
<1>8. Height[r] = 0 + 1
  BY <1>5, NoneIsTree DEF Higher
<1> HIDE DEF r, res
<1>9. res.tree = r /\ res.grew = TRUE
  BY <1>6
<1>10. Height[None] = 0 /\ Held[None] = Empty
  BY NoneIsTree
<1> QED BY <1>5, <1>7, <1>8, <1>9, <1>10 DEF Files, GrewFrom, res, q

\* What is greater than all keys is filed in the greatest node.
LEMMA GreatestAdded ==
    ASSUME payload \in PayloadType, NEW key \in Key, NEW vs \in Seq(Value), vs # <<>>
    PROVE  \A t \in Tree :
              Sound(t) /\ Height[t] < MaxHeight /\ Apart("left", Keys(t), {key}) =>
                 Files(t, key, vs, AddGreatest(t, key, vs))
<1> DEFINE I == {t \in Tree : Sound(t) /\ Height[t] < MaxHeight /\ Apart("left", Keys(t), {key}) =>
                                 Files(t, key, vs, AddGreatest(t, key, vs))}
<1>1. None \in I
  <2>1. None \in Tree /\ AddGreatest(None, key, vs) = NewLeaf(key, vs)
    BY NoneIsTree, AddGreatestRecursion
  <2>2. Height[None] < MaxHeight => MaxHeight > 0
    BY NoneIsTree, TreeAssumption
  <2> QED BY <2>1, <2>2, NewLeafSound
<1>2. ASSUME NEW t \in Tree, t # None, t.left \in I, t.right \in I PROVE t \in I
  <2>1. SUFFICES ASSUME Sound(t), Height[t] < MaxHeight, Apart("left", Keys(t), {key})
                 PROVE  Files(t, key, vs, AddGreatest(t, key, vs))
    BY <1>2
  <2>2. /\ Supports("left", t.data, t.left, t.right) /\ t.right \in Tree
        /\ Keys(t) = Keys(t.left) \cup KeysIn(t.data) \cup Keys(t.right)
    BY <1>2, <2>1, OpenedAtLeft
  <2>3. /\ Apart("left", Keys(t.left), {key}) /\ Apart("left", KeysIn(t.data), {key})
        /\ Apart("left", Keys(t.right), {key})
    BY <2>1, <2>2 DEF Apart
  <2>4. CASE t.right = None /\ Accepts(t.data, key)
    <3>1. Apart("left", {key}, Keys(t.right))
      BY <2>4, NoneIsTree DEF Apart
    <3>2. AddGreatest(t, key, vs) = Filed(t, key, vs)
      BY <1>2, <2>4, AddGreatestRecursion
    <3>3. Files(t, key, vs, Filed(t, key, vs))
      BY <1>2, <2>1, <2>3, <2>4, <3>1, FiledSound
    <3> QED BY <3>2, <3>3
  <2>5. CASE ~(t.right = None /\ Accepts(t.data, key))
    <3> DEFINE sub == AddGreatest(t.right, key, vs)
               side == "right"
    <3>1. AddGreatest(t, key, vs) = Grown(t, side, sub)
      BY <1>2, <2>5, AddGreatestRecursion
    <3>2. Height[t.right] < MaxHeight /\ Sound(t.right)
      BY <2>2 DEF Supports
    <3>3. Files(t.right, key, vs, sub)
      BY <1>2, <2>3, <3>2
    <3>4. Apart(side, {key}, KeysIn(t.data)) /\ side \in Sides /\ Files(t[side], key, vs, sub)
      BY <2>3, <3>3 DEF Apart, Before, Sides
    <3> HIDE DEF side, sub, I
    <3>5. Files(t, key, vs, Grown(t, side, sub))
      BY <1>2, <2>1, <3>4, GrownAbove
    <3> QED BY <3>1, <3>5
  <2> QED BY <2>4, <2>5
<1>3. Tree \subseteq I
  <2> HIDE DEF I
  <2> QED BY <1>1, <1>2, TreeInduction
<1> QED BY <1>3

\* A key is not on the side of one that it is between.
LEMMA EnclosedKey ==
    ASSUME NEW t \in Tree, t # None, Sound(t), NEW key \in Key, Encloses(t.data, key)
    PROVE  Apart("left", Keys(t.left), {key}) /\ Apart("left", {key}, Keys(t.right))
<1>1. /\ Supports("left", t.data, t.left, t.right) /\ KeysIn(t.data) # {}
      /\ Keys(t.left) \in SUBSET Key /\ Keys(t.right) \in SUBSET Key /\ KeysIn(t.data) \in SUBSET Key
  BY OpenedAtLeft
<1>2. PICK k \in KeysIn(t.data), l \in KeysIn(t.data) : k <= key /\ key <= l
  BY <1>1 DEF Encloses
<1>3. ASSUME NEW j \in Keys(t.left) PROVE j < key
  <2>1. j < k
    BY <1>1 DEF Supports, Apart, Before
  <2>2. j \in Int /\ k \in Int /\ key \in Int
    BY <1>1, PayloadAssumption
  <2> QED BY <1>2, <2>1, <2>2
<1>4. ASSUME NEW j \in Keys(t.right) PROVE key < j
  <2>1. l < j
    BY <1>1 DEF Supports, Apart, Before
  <2>2. j \in Int /\ l \in Int /\ key \in Int
    BY <1>1, PayloadAssumption
  <2> QED BY <1>2, <2>1, <2>2
<1> QED BY <1>3, <1>4 DEF Apart, Before

\* One that is not is on the side SideOf says.
LEMMA SideOfKey ==
    ASSUME NEW t \in Tree, t # None, Sound(t), NEW key \in Key, ~Encloses(t.data, key)
    PROVE  SideOf(t, key) \in Sides /\ Apart(SideOf(t, key), {key}, KeysIn(t.data))
<1>1. KeysIn(t.data) # {} /\ key \in Int /\ \A k \in KeysIn(t.data) : k \in Int
  BY OpenedAtLeft, PayloadAssumption
<1>2. CASE \A k \in KeysIn(t.data) : key < k
  <2>1. SideOf(t, key) = "left"
    BY <1>2 DEF SideOf
  <2> QED BY <1>2, <2>1 DEF Sides, Apart, Before
<1>3. CASE ~(\A k \in KeysIn(t.data) : key < k)
  <2>1. SideOf(t, key) = "right"
    BY <1>3 DEF SideOf
  <2>2. PICK k \in KeysIn(t.data) : k <= key
    BY <1>1, <1>3
  <2>3. \A l \in KeysIn(t.data) : ~(key <= l)
    BY <2>2 DEF Encloses
  <2>4. \A l \in KeysIn(t.data) : l < key
    BY <1>1, <2>3
  <2> QED BY <2>1, <2>4 DEF Sides, Apart, Before
<1> QED BY <1>2, <1>3

\* A key is filed where SideOf leads, or where it is enclosed, if need be by
\* pushing the lowest key there out.
LEMMA InsertedSound ==
    ASSUME payload \in PayloadType, NEW key \in Key, NEW v \in Value
    PROVE  \A t \in Tree :
              Sound(t) /\ Height[t] < MaxHeight => Files(t, key, <<v>>, Inserted(t, key, v))
<1> DEFINE vs == <<v>>
           I == {t \in Tree : Sound(t) /\ Height[t] < MaxHeight =>
                                 Files(t, key, vs, Inserted(t, key, v))}
<1>0. vs \in Seq(Value) /\ vs # <<>>
  OBVIOUS
<1> HIDE DEF vs
<1>1. None \in I
  <2>1. None \in Tree /\ Inserted(None, key, v) = NewLeaf(key, vs)
    BY NoneIsTree, InsertedRecursion DEF vs
  <2>2. Height[None] < MaxHeight => MaxHeight > 0
    BY NoneIsTree, TreeAssumption
  <2> QED BY <1>0, <2>1, <2>2, NewLeafSound
<1>2. ASSUME NEW t \in Tree, t # None, t.left \in I, t.right \in I PROVE t \in I
  <2>1. SUFFICES ASSUME Sound(t), Height[t] < MaxHeight
                 PROVE  Files(t, key, vs, Inserted(t, key, v))
    BY <1>2
  <2> DEFINE p == t.data
             a == t.left
             b == t.right
  <2>2. /\ Supports("left", p, a, b) /\ a \in Tree /\ b \in Tree
        /\ Filled(p) /\ p \in Payload /\ KeysIn(p) \in SUBSET Key /\ KeysIn(p) # {}
        /\ Held[a] \in Payload /\ Held[b] \in Payload
        /\ Keys(a) \in SUBSET Key /\ Keys(b) \in SUBSET Key
        /\ Held[t] = Beside("left", Held[a], p, Held[b])
    BY <1>2, <2>1, OpenedAtLeft
  <2>3. /\ Sound(a) /\ Height[a] < MaxHeight /\ Sound(b) /\ Height[b] < MaxHeight
        /\ Apart("left", Keys(a), KeysIn(p)) /\ Apart("left", KeysIn(p), Keys(b))
    BY <2>2 DEF Supports
  <2>4. CASE Encloses(p, key) /\ Accepts(p, key)
    <3>1. Inserted(t, key, v) = Filed(t, key, vs)
      BY <1>2, <2>4, InsertedRecursion DEF vs
    <3>2. Apart("left", Keys(a), {key}) /\ Apart("left", {key}, Keys(b))
      BY <1>2, <2>1, <2>4, EnclosedKey
    <3> HIDE DEF I
    <3>3. Files(t, key, vs, Filed(t, key, vs))
      BY <1>0, <1>2, <2>1, <2>4, <3>2, FiledSound
    <3> QED BY <3>1, <3>3
  <2>5. CASE Encloses(p, key) /\ ~Accepts(p, key)
    <3> DEFINE low == Lowest(p)
               q == ForceSetLower(p, key, v)
               sub == AddGreatest(a, low, p[low])
               res == Grown([t EXCEPT !.data = q], "left", sub)
    <3>1. Inserted(t, key, v) = res
      BY <1>2, <2>5, InsertedRecursion
    <3>2. Apart("left", Keys(a), {key}) /\ Apart("left", {key}, Keys(b))
      BY <1>2, <2>1, <2>5, EnclosedKey
    <3> HIDE DEF I
    <3>3. key \notin KeysIn(Held[a]) /\ key \notin KeysIn(Held[b])
      <4>1. "left" \in Sides /\ {key} \in SUBSET Key
        BY DEF Sides
      <4>2. Keys(a) \cap {key} = {}
        BY <2>2, <3>2, <4>1, ApartDisjoint
      <4>3. {key} \cap Keys(b) = {}
        BY <2>2, <3>2, <4>1, ApartDisjoint
      <4> QED BY <4>2, <4>3 DEF Keys
    <3>4. Below(KeysIn(Held[a]), KeysIn(p)) /\ Below(KeysIn(p), KeysIn(Held[b]))
      BY <2>3 DEF Apart, Before, Below, Keys
    <3>5. /\ low \in KeysIn(p) /\ \A k \in KeysIn(p) : low <= k
          /\ p[low] \in Seq(Value) /\ p[low] # <<>>
          /\ Filled(q) /\ KeysIn(q) = (KeysIn(p) \ {low}) \cup {key}
          /\ Beside("left", Upsert(Held[a], low, p[low]), q, Held[b]) = Upsert(Held[t], key, vs)
      <4> HIDE DEF a, b, p
      <4>1. /\ low \in KeysIn(p) /\ \A k \in KeysIn(p) : low <= k
            /\ p[low] \in Seq(Value) /\ p[low] # <<>>
            /\ Filled(q) /\ KeysIn(q) = (KeysIn(p) \ {low}) \cup {key}
            /\ Beside("left", Upsert(Held[a], low, p[low]), q, Held[b]) =
                  Upsert(Beside("left", Held[a], p, Held[b]), key, <<v>>)
        BY <2>2, <2>5, <3>3, <3>4, PushedOut
      <4> QED BY <2>2, <4>1 DEF vs
    <3>6. Apart("left", Keys(a), {low})
      BY <2>3, <3>5 DEF Apart
    <3> DEFINE vl == p[low]
    <3>7. Files(a, low, vl, sub)
      <4>1. low \in Key
        BY <2>2, <3>5
      <4>2. Files(a, low, vl, AddGreatest(a, low, vl))
        <5> HIDE DEF a, low, vl
        <5>1. vl \in Seq(Value) /\ vl # <<>>
          BY <3>5 DEF vl
        <5> QED BY <2>2, <2>3, <3>6, <4>1, <5>1, GreatestAdded
      <4> QED BY <4>2
    <3>8. GrewFrom(Height[a], sub) /\ Held[sub.tree] = Upsert(Held[a], low, vl)
      BY <3>7 DEF Files
    <3>9. Keys(sub.tree) = Keys(a) \cup {low}
      <4>1. low \in Key
        BY <2>2, <3>5
      <4> HIDE DEF low, sub, a
      <4> QED BY <2>2, <3>5, <3>8, <4>1, Upserted DEF Keys
    <3> HIDE DEF low, q, sub
    <3>10. Apart("left", Keys(sub.tree), KeysIn(q))
      <4>1. key \in Int /\ low \in Int /\ \A k \in KeysIn(p) : k \in Int
        BY <2>2, <3>5, PayloadAssumption
      <4>2. low < key
        <5>1. PICK k \in KeysIn(p) : k <= key
          BY <2>2, <2>5 DEF Encloses
        <5>2. key # low
          BY <2>5, <3>5 DEF Accepts
        <5> QED BY <3>5, <4>1, <5>1, <5>2
      <4>3. \A k \in KeysIn(p) : k # low => low < k
        BY <3>5, <4>1
      <4>4. Apart("left", {low}, KeysIn(q))
        BY <3>5, <4>2, <4>3 DEF Apart, Before
      <4>5. Apart("left", Keys(a), KeysIn(q))
        BY <2>3, <3>2, <3>5 DEF Apart
      <4> QED BY <3>9, <4>4, <4>5 DEF Apart
    <3>11. Apart("left", KeysIn(q), Keys(b))
      BY <2>3, <3>2, <3>5 DEF Apart
    <3>12. /\ GrewFrom(Height[t], res)
           /\ Held[res.tree] = Beside("left", Held[sub.tree], q, Held[b])
      <4> DEFINE side == "left"
      <4>1. /\ side \in Sides /\ t[side] = a /\ t[Other(side)] = b
        BY DEF Sides, Other
      <4>2. GrewFrom(Height[t[side]], sub) /\ Apart(side, Keys(sub.tree), KeysIn(q))
            /\ Apart(side, KeysIn(q), Keys(t[Other(side)]))
        BY <3>8, <3>10, <3>11, <4>1
      <4> HIDE DEF side, a, b
      <4> DEFINE new == Grown([t EXCEPT !.data = q], side, sub)
      <4>3. /\ GrewFrom(Height[t], new)
            /\ Held[new.tree] = Beside(side, Held[sub.tree], q, Held[t[Other(side)]])
        BY <1>2, <2>1, <3>5, <4>1, <4>2, GrownUp
      <4> QED BY <4>1, <4>3 DEF side
    <3> QED BY <3>1, <3>5, <3>8, <3>12 DEF Files
  <2>6. CASE ~Encloses(p, key)
    <3> DEFINE side == SideOf(t, key)
               sub == Inserted(t[side], key, v)
    <3>1. side \in Sides /\ Apart(side, {key}, KeysIn(p))
      BY <1>2, <2>1, <2>6, SideOfKey
    <3>2. Inserted(t, key, v) = IF t[side] = None /\ Accepts(p, key) THEN Filed(t, key, vs)
                                ELSE Grown(t, side, sub)
      <4>1. side = "left" \/ side = "right"
        BY <3>1 DEF Sides
      <4> HIDE DEF I, side
      <4> QED BY <1>2, <2>6, <4>1, InsertedRecursion DEF side, vs
    <3>3. Files(t[side], key, vs, sub)
      <4>1. side = "left" \/ side = "right"
        BY <3>1 DEF Sides
      <4> HIDE DEF side
      <4> QED BY <1>2, <2>3, <4>1
    <3> HIDE DEF sub, side, I
    <3>4. CASE t[side] = None /\ Accepts(p, key)
      <4>1. Apart("left", Keys(a), {key}) /\ Apart("left", {key}, Keys(b))
        <5>0. "left" \in Sides /\ {key} \in SUBSET Key
          BY DEF Sides
        <5>1. CASE side = "left"
          <6>1. Keys(a) = {} /\ Apart("left", {key}, KeysIn(p))
            BY <3>1, <3>4, <5>1, NoneIsTree
          <6>2. Apart("left", {key}, Keys(b))
            BY <2>2, <2>3, <5>0, <6>1, ApartTransitive
          <6> QED BY <6>1, <6>2 DEF Apart
        <5>2. CASE side = "right"
          <6>1. Keys(b) = {} /\ Apart("left", KeysIn(p), {key})
            BY <3>1, <3>4, <5>2, NoneIsTree DEF Apart, Before
          <6>2. Apart("left", Keys(a), {key})
            BY <2>2, <2>3, <5>0, <6>1, ApartTransitive
          <6> QED BY <6>1, <6>2 DEF Apart
        <5> QED BY <3>1, <5>1, <5>2 DEF Sides
      <4>2. Files(t, key, vs, Filed(t, key, vs))
        BY <1>0, <1>2, <2>1, <3>4, <4>1, FiledSound
      <4> QED BY <3>2, <3>4, <4>2
    <3>5. CASE ~(t[side] = None /\ Accepts(p, key))
      <4>1. Files(t, key, vs, Grown(t, side, sub))
        BY <1>0, <1>2, <2>1, <3>1, <3>3, GrownAbove
      <4> QED BY <3>2, <3>5, <4>1
    <3> QED BY <3>4, <3>5
  <2> QED BY <2>4, <2>5, <2>6
<1>3. Tree \subseteq I
  <2> HIDE DEF I
  <2> QED BY <1>1, <1>2, TreeInduction
<1> QED BY <1>3 DEF vs

-----------------------------------------------------------------------------
(* Removal.                                                                *)

\* res is what is left of a tree of height h: it holds p.
Leaves(h, res, p) == ShrankFrom(h, res) /\ Held[res.tree] = p

\* A sound tree, but that its root may have become empty.
Nearly(t) ==
    /\ t \in Tree /\ t # None
    /\ t.bf = Height[t.right] - Height[t.left]
    /\ Sound(t.left) /\ Sound(t.right) /\ Fits(t.data)
    /\ Apart("left", Keys(t.left), KeysIn(t.data))
    /\ Apart("left", KeysIn(t.data), Keys(t.right))
    /\ Apart("left", Keys(t.left), Keys(t.right))

\* What such a tree is made of, seen from either side.
LEMMA NearlyOpened ==
    ASSUME NEW side \in Sides, NEW t, Nearly(t)
    PROVE  /\ t \in Tree /\ t # None /\ t.bf \in BalanceFactor /\ Fits(t.data)
           /\ t.bf = Lean(side, Height[t[side]], Height[t[Other(side)]])
           /\ Supports(side, t.data, t[side], t[Other(side)])
           /\ Apart(side, Keys(t[side]), Keys(t[Other(side)]))
           /\ t[side] \in Tree /\ t[Other(side)] \in Tree
           /\ Held[t[side]] \in Payload /\ t.data \in Payload /\ Held[t[Other(side)]] \in Payload
           /\ Keys(t[side]) \in SUBSET Key /\ KeysIn(t.data) \in SUBSET Key
           /\ Keys(t[Other(side)]) \in SUBSET Key
           /\ Height[t] = 1 + Higher(Height[t[side]], Height[t[Other(side)]])
           /\ Held[t] = Beside(side, Held[t[side]], t.data, Held[t[Other(side)]])
           /\ \A q : [t EXCEPT !.data = q] = At(side, t.bf, q, t[side], t[Other(side)])
<1> DEFINE bf == t.bf
           p == t.data
           a == t[side]
           b == t[Other(side)]
<1>1. /\ t \in Tree /\ t # None
      /\ t = At(side, bf, p, a, b) /\ a \in Tree /\ b \in Tree
      /\ Height[a] < MaxHeight /\ Height[b] < MaxHeight
      /\ Height[t] = 1 + Higher(Height[a], Height[b])
      /\ Held[t] = Beside(side, Held[a], p, Held[b])
      /\ bf \in BalanceFactor
  <2>1. t \in Tree /\ t # None
    BY DEF Nearly
  <2> QED BY <2>1, SidesOf, TreeFields
<1>2. /\ t.left \in Tree /\ t.right \in Tree
      /\ Keys(t.left) \in SUBSET Key /\ Keys(t.right) \in SUBSET Key /\ KeysIn(p) \in SUBSET Key
  BY <1>1, TreeFields, KeysOf DEF KeysIn
<1>3. /\ Sound(a) /\ Sound(b) /\ bf = Lean(side, Height[a], Height[b]) /\ Fits(p)
      /\ Apart(side, Keys(a), KeysIn(p)) /\ Apart(side, KeysIn(p), Keys(b))
      /\ Apart(side, Keys(a), Keys(b))
  <2>1. CASE side = "left"
    <3>1. Other(side) = "right"
      BY <2>1 DEF Other
    <3> QED BY <2>1, <3>1 DEF Nearly, Lean
  <2>2. CASE side = "right"
    <3>1. Other(side) = "left" /\ "left" \in Sides /\ Other("left") = "right"
      BY <2>2 DEF Other, Sides
    <3> DEFINE K == Keys(t.left)
               L == KeysIn(p)
               M == Keys(t.right)
    <3>2. K \in SUBSET Key /\ L \in SUBSET Key /\ M \in SUBSET Key
      BY <1>2
    <3>3. Apart("left", K, L) /\ Apart("left", L, M) /\ Apart("left", K, M)
      BY DEF Nearly
    <3>4. Apart("right", L, K) /\ Apart("right", M, L) /\ Apart("right", M, K)
      <4> HIDE DEF K, L, M
      <4> QED BY <3>1, <3>2, <3>3, ApartFacts
    <3> QED BY <2>2, <3>1, <3>4 DEF Nearly, Lean
  <2> QED BY <2>1, <2>2 DEF Sides
<1>4. /\ Held[a] \in Payload /\ Held[b] \in Payload
      /\ Keys(a) \in SUBSET Key /\ Keys(b) \in SUBSET Key
      /\ p \in Payload
  BY <1>1, <1>3, KeysOf DEF Fits
<1>5. \A q : [t EXCEPT !.data = q] = At(side, bf, q, a, b)
  <2> HIDE DEF bf, p, a, b
  <2> QED BY <1>1, AtFields
<1>6. Supports(side, p, a, b)
  BY <1>1, <1>3 DEF Supports
<1> HIDE DEF bf, p, a, b
<1>7. bf = t.bf /\ p = t.data /\ a = t[side] /\ b = t[Other(side)]
  BY DEF bf, p, a, b
<1> QED BY <1>1, <1>2, <1>3, <1>4, <1>5, <1>6, <1>7

\* It is sound unless its root is empty, and what is sound is nearly so.
LEMMA NearlySound ==
    ASSUME NEW t
    PROVE  /\ Nearly(t) /\ KeysIn(t.data) # {} => Sound(t)
           /\ t \in Tree /\ t # None /\ Sound(t) => Nearly(t)
<1>1. ASSUME Nearly(t), KeysIn(t.data) # {} PROVE Sound(t)
  <2>1. Nodes[t] = {t} \cup Nodes[t.left] \cup Nodes[t.right]
    BY <1>1, TreeIsNode DEF Nearly
  <2>2. Fine(t)
    BY <1>1 DEF Nearly, Fine, Filled
  <2> QED BY <1>1, <2>1, <2>2 DEF Nearly, Sound
<1>2. ASSUME t \in Tree, t # None, Sound(t) PROVE Nearly(t)
  <2>1. /\ Supports("left", t.data, t.left, t.right)
        /\ Keys(t.left) \in SUBSET Key /\ KeysIn(t.data) \in SUBSET Key /\ KeysIn(t.data) # {}
        /\ Keys(t.right) \in SUBSET Key
    BY <1>2, OpenedAtLeft
  <2>2. Nodes[t] = {t} \cup Nodes[t.left] \cup Nodes[t.right]
    BY <1>2, TreeIsNode
  <2>3. Fine(t)
    BY <1>2, <2>2 DEF Sound
  <2>4. Apart("left", Keys(t.left), KeysIn(t.data)) /\ Apart("left", KeysIn(t.data), Keys(t.right))
    BY <2>1 DEF Supports
  <2>5. Apart("left", Keys(t.left), Keys(t.right))
    <3>1. "left" \in Sides
      BY DEF Sides
    <3> QED BY <2>1, <2>4, <3>1, ApartTransitive
  <2> QED BY <1>2, <2>1, <2>3, <2>4, <2>5 DEF Nearly, Supports, Fine, Filled
<1> QED BY <1>1, <1>2

\* Other values, of some of its keys, leave a tree nearly sound.
LEMMA NearlyWith ==
    ASSUME NEW t, Nearly(t), NEW q, Fits(q), KeysIn(q) \subseteq KeysIn(t.data)
    PROVE  LET u == [t EXCEPT !.data = q]
           IN  /\ Nearly(u) /\ Height[u] = Height[t] /\ u.data = q
               /\ u.left = t.left /\ u.right = t.right
               /\ Held[u] = Beside("left", Held[t.left], q, Held[t.right])
<1> DEFINE u == [t EXCEPT !.data = q]
           a == t.left
           b == t.right
<1>1. /\ t \in Tree /\ t # None /\ t = Node(t.bf, t.data, a, b)
      /\ t.bf \in BalanceFactor /\ a \in Tree /\ b \in Tree
      /\ Height[a] < MaxHeight /\ Height[b] < MaxHeight
      /\ Height[t] = 1 + Higher(Height[a], Height[b])
  BY TreeIsNode DEF Nearly
<1>2. u = Node(t.bf, q, a, b)
  BY <1>1 DEF Node
<1> HIDE DEF u
<1>3. u.bf = t.bf /\ u.data = q /\ u.left = a /\ u.right = b
  BY <1>2 DEF Node
<1>4. /\ u \in Tree /\ u # None /\ Height[u] = 1 + Higher(Height[a], Height[b])
      /\ Held[u] = Joined(Held[a], q, Held[b])
  BY <1>1, <1>2, NodeIsTree DEF Fits
<1>5. Nearly(u)
  <2>1. Apart("left", Keys(a), KeysIn(q)) /\ Apart("left", KeysIn(q), Keys(b))
    BY DEF Nearly, Apart
  <2> QED BY <1>3, <1>4, <2>1 DEF Nearly
<1> QED BY <1>1, <1>3, <1>4, <1>5 DEF u, Beside

\* Shrunk, with q for what the node holds.
LEMMA ShrunkUp ==
    ASSUME NEW side \in Sides, NEW t, Nearly(t), NEW q, Filled(q), NEW sub, NEW p,
           Leaves(Height[t[side]], sub, p),
           Apart(side, KeysIn(p), KeysIn(q)),
           Apart(side, KeysIn(q), Keys(t[Other(side)]))
    PROVE  /\ Leaves(Height[t], Shrunk([t EXCEPT !.data = q], side, sub),
                     Beside(side, p, q, Held[t[Other(side)]]))
           /\ Shrunk([t EXCEPT !.data = q], side, sub).tree # None
<1> DEFINE bf == t.bf
           a == t[side]
           b == t[Other(side)]
<1>1. /\ bf \in BalanceFactor /\ bf = Lean(side, Height[a], Height[b])
      /\ Supports(side, t.data, a, b) /\ a \in Tree
      /\ Height[t] = 1 + Higher(Height[a], Height[b])
      /\ [t EXCEPT !.data = q] = At(side, bf, q, a, b)
  BY NearlyOpened
<1>2. ShrankFrom(Height[a], sub) /\ Held[sub.tree] = p
  BY DEF Leaves
<1>3. Height[a] \in Nat /\ Height[sub.tree] \in Nat
  BY <1>1, <1>2, HeightBound DEF ShrankFrom
<1>4. Height[sub.tree] < MaxHeight /\ Height[a] < MaxHeight
  <2>1. Height[a] < MaxHeight /\ MaxHeight \in Nat
    BY <1>1, TreeAssumption DEF Supports
  <2>2. Height[sub.tree] <= Height[a]
    BY <1>2, <1>3 DEF ShrankFrom
  <2> HIDE DEF a
  <2> QED BY <1>3, <2>1, <2>2
<1>5. Supports(side, q, sub.tree, b)
  BY <1>1, <1>2, <1>4 DEF Supports, ShrankFrom, Keys
<1> HIDE DEF bf, a, b
<1> DEFINE res == Shrunk(At(side, bf, q, a, b), side, sub)
<1>6. /\ ShrankFrom(1 + Higher(Height[a], Height[b]), res) /\ res.tree # None
      /\ Held[res.tree] = Beside(side, Held[sub.tree], q, Held[b])
  BY <1>1, <1>2, <1>4, <1>5, ShrunkSound
<1>7. Leaves(Height[t], res, Beside(side, p, q, Held[b]))
  <2> HIDE DEF res
  <2> QED BY <1>1, <1>2, <1>6 DEF Leaves
<1> QED BY <1>1, <1>6, <1>7 DEF b

\* With fewer keys a payload fits the more.
LEMMA FitsLess ==
    ASSUME NEW p, Fits(p), NEW q \in Payload, KeysIn(q) \subseteq KeysIn(p)
    PROVE  Fits(q)
<1>1. IsFiniteSet(KeysIn(p)) /\ Cardinality(KeysIn(p)) \in Nat /\ Cardinality(KeysIn(p)) <= Capacity
  BY DEF Fits, Size
<1>2. /\ IsFiniteSet(KeysIn(q)) /\ Cardinality(KeysIn(q)) <= Cardinality(KeysIn(p))
      /\ Cardinality(KeysIn(q)) \in Nat
  <2>1. KeysIn(q) \in SUBSET KeysIn(p)
    OBVIOUS
  <2> QED BY <1>1, <2>1, FS_Subset, FS_CardinalityType
<1>3. Capacity \in Int
  BY PayloadAssumption DEF Capacity
<1>4. Cardinality(KeysIn(q)) <= Capacity
  <2> DEFINE m == Cardinality(KeysIn(q))
             n == Cardinality(KeysIn(p))
             c == Capacity
  <2>1. m \in Nat /\ n \in Nat /\ c \in Int /\ m <= n /\ n <= c
    BY <1>1, <1>2, <1>3
  <2> HIDE DEF m, n, c
  <2>2. m <= c
    BY <2>1
  <2> QED BY <2>2 DEF m, c
<1> QED BY <1>2, <1>4 DEF Fits, Size

\* A leaf that goes leaves no tree.
LEMMA GoneLeaves == Leaves(1, Gone, Empty)
<1>1. Gone.tree = None /\ Gone.shrank = TRUE
  BY DEF Gone
<1>2. None \in Tree /\ Sound(None) /\ Height[None] = 0 /\ Held[None] = Empty
  BY NoneIsTree DEF Sound
<1>3. Height[Gone.tree] = 1 - 1
  BY <1>1, <1>2
<1> QED BY <1>1, <1>2, <1>3 DEF Leaves, ShrankFrom

\* Between nothing there is only what the node holds.
LEMMA BesideNothing ==
    ASSUME NEW side \in Sides, NEW p \in Payload
    PROVE  Beside(side, Empty, p, Empty) = p
<1> DEFINE all == Beside(side, Empty, p, Empty)
<1>1. all \in Payload /\ \A k \in Key : all[k] = p[k]
  BY EmptyPayload, BesideHolds
<1> HIDE DEF all
<1>2. all = p
  BY <1>1, SamePayload
<1> QED BY <1>2 DEF all

\* An empty leaf goes, a leaf that a half-leaf takes in too, and what is held
\* stays.
LEMMA TrimmedSound ==
    ASSUME payload \in PayloadType, NEW t, Nearly(t), t.left = None \/ t.right = None
    PROVE  Leaves(Height[t], Trimmed(t), Held[t])
<1> DEFINE p == t.data
           stays == [tree |-> t, shrank |-> FALSE]
<1>0. t \in Tree /\ t # None /\ Fits(p) /\ p \in Payload
  BY DEF Nearly, Fits
<1>1. KeysIn(p) # {} => Leaves(Height[t], stays, Held[t])
  <2>1. stays.tree = t /\ stays.shrank = FALSE
    OBVIOUS
  <2>2. KeysIn(p) # {} => Sound(t)
    BY NearlySound
  <2> HIDE DEF stays
  <2> QED BY <1>0, <2>1, <2>2 DEF Leaves, ShrankFrom
<1>2. Size(p) = 0 <=> KeysIn(p) = {}
  <2>1. IsFiniteSet(KeysIn(p))
    BY <1>0 DEF Fits
  <2> QED BY <2>1, FS_EmptySet DEF Size
<1>3. CASE t.left = None /\ t.right = None
  <2>1. Trimmed(t) = IF Size(p) = 0 THEN Gone ELSE stays
    BY <1>3 DEF Trimmed
  <2>2. CASE KeysIn(p) = {}
    <3>1. Height[t] = 1
      BY <1>0, <1>3, TreeIsNode, NoneIsTree DEF Higher
    <3>2. Held[t] = Beside("left", Empty, Empty, Empty) /\ "left" \in Sides
      BY <1>0, <1>3, <2>2, TreeIsNode, NoneIsTree, NoKeys DEF Beside, Sides
    <3>3. Held[t] = Empty
      BY <3>2, EmptyPayload, BesideNothing
    <3> QED BY <1>2, <2>1, <2>2, <3>1, <3>3, GoneLeaves
  <2>3. CASE KeysIn(p) # {}
    BY <1>1, <1>2, <2>1, <2>3
  <2> QED BY <2>2, <2>3
<1>4. CASE ~(t.left = None /\ t.right = None)
  <2> DEFINE side == IF t.left = None THEN "right" ELSE "left"
             c == t[side]
             leaf == c.data
             K == KeysIn(leaf)
             q == Merged(p, leaf, K)
             b == t[Other(side)]
  <2>1. Trimmed(t) = IF Mergeable(p, leaf) THEN Shrunk([t EXCEPT !.data = q], side, Gone) ELSE stays
    BY <1>4 DEF Trimmed
  <2>2. side \in Sides /\ c # None /\ b = None
    BY <1>4 DEF Sides, Other
  <2> HIDE DEF side
  <2>3. /\ t.bf \in BalanceFactor /\ t.bf = Lean(side, Height[c], Height[b])
        /\ Supports(side, p, c, b) /\ c \in Tree
        /\ Held[c] \in Payload /\ KeysIn(p) \in SUBSET Key /\ Keys(c) \in SUBSET Key
        /\ Held[t] = Beside(side, Held[c], p, Held[b])
    BY <2>2, NearlyOpened
  <2> HIDE DEF c, b
  <2>4. Sound(c) /\ Apart(side, Keys(c), KeysIn(p))
    BY <2>3 DEF Supports
  <2>5. Height[c] = 1 /\ Height[b] = 0 /\ Held[b] = Empty /\ Keys(b) = {}
    <3>1. Height[b] = 0 /\ Held[b] = Empty /\ Keys(b) = {}
      BY <2>2, NoneIsTree
    <3>2. Height[c] \in Nat /\ Height[c] # 0
      BY <2>2, <2>3, HeightBound
    <3>3. Height[c] <= 0 + 1
      <4> DEFINE n == Height[c]
      <4>1. n \in Nat /\ 0 \in Nat /\ Lean(side, n, 0) \in BalanceFactor
        BY <2>3, <3>1, <3>2
      <4> HIDE DEF n
      <4>2. n <= 0 + 1
        BY <2>2, <4>1, Leaning
      <4> QED BY <4>2 DEF n
    <3> QED BY <3>1, <3>2, <3>3
  <2>6. c.left = None /\ c.right = None /\ Filled(leaf) /\ Held[c] = Beside(side, Empty, leaf, Empty)
    <3>1. /\ c.left \in Tree /\ c.right \in Tree
          /\ Height[c.left] \in Nat /\ Height[c.right] \in Nat
          /\ Height[c] = 1 + Higher(Height[c.left], Height[c.right])
          /\ Held[c] = Joined(Held[c.left], leaf, Held[c.right])
      BY <2>2, <2>3, TreeIsNode
    <3>2. Height[c.left] = 0 /\ Height[c.right] = 0
      BY <2>5, <3>1 DEF Higher
    <3>3. c.left = None /\ c.right = None
      BY <3>1, <3>2, HeightBound
    <3>4. Filled(leaf)
      BY <2>2, <2>3, <2>4, OpenedAtLeft
    <3> QED BY <3>1, <3>3, <3>4, NoneIsTree DEF Beside
  <2>7. leaf \in Payload /\ Held[c] = leaf /\ Keys(c) = K /\ K # {}
    <3>1. leaf \in Payload /\ K # {}
      BY <2>6 DEF Filled, Fits
    <3>2. Held[c] = leaf
      BY <2>2, <2>6, <3>1, BesideNothing
    <3> QED BY <3>1, <3>2 DEF Keys
  <2>8. CASE Mergeable(p, leaf)
    <3>1. KeysIn(p) \cap K = {}
      <4>1. Keys(c) \cap KeysIn(p) = {}
        BY <2>2, <2>3, <2>4, ApartDisjoint
      <4> QED BY <2>7, <4>1
    <3>2. /\ q \in Payload /\ KeysIn(q) = KeysIn(p) \cup K
          /\ Beside(side, Without(leaf, K), q, Empty) = Beside(side, leaf, p, Empty)
      <4> HIDE DEF leaf
      <4>1. KeysIn(Empty) \cap K = {} /\ Empty \in Payload
        BY EmptyPayload
      <4>2. K \in SUBSET KeysIn(leaf) /\ \A k \in K : leaf[k] = leaf[k]
        OBVIOUS
      <4> HIDE DEF K
      <4> QED BY <1>0, <2>2, <2>7, <3>1, <4>1, <4>2, MergedBeside
    <3>3. Without(leaf, K) = Empty
      <4> HIDE DEF leaf
      <4>1. Without(leaf, K) \in Payload /\ KeysIn(Without(leaf, K)) = KeysIn(leaf) \ K
        BY <2>7, WithoutKeys
      <4>2. KeysIn(Without(leaf, K)) = {}
        BY <4>1
      <4> QED BY <4>1, <4>2, NoKeys
    <3>4. Filled(q)
      <4>1. Fits(leaf) /\ K \in SUBSET KeysIn(leaf) /\ Cardinality(K) <= Capacity - Size(p)
        BY <2>6, <2>8 DEF Filled, Mergeable, Size
      <4> HIDE DEF leaf, K, p
      <4> QED BY <1>0, <2>7, <3>2, <4>1, MergedFits
    <3>5. Beside(side, Empty, q, Empty) = Held[t]
      BY <2>3, <2>5, <2>7, <3>2, <3>3
    <3> HIDE DEF q
    <3>6. Leaves(Height[c], Gone, Empty)
      BY <2>5, GoneLeaves
    <3>7. Apart(side, KeysIn(Empty), KeysIn(q)) /\ Apart(side, KeysIn(q), Keys(b))
      BY <2>5, EmptyPayload DEF Apart
    <3>8. Leaves(Height[t], Shrunk([t EXCEPT !.data = q], side, Gone),
                 Beside(side, Empty, q, Held[b]))
      BY <2>2, <3>4, <3>6, <3>7, ShrunkUp DEF c, b
    <3> QED BY <2>1, <2>5, <2>8, <3>5, <3>8 DEF q
  <2>9. CASE ~Mergeable(p, leaf)
    <3>1. KeysIn(p) # {}
      <4>1. SUFFICES ASSUME KeysIn(p) = {} PROVE Mergeable(p, leaf)
        BY <2>9
      <4>2. Size(p) = 0 /\ Size(leaf) \in Nat /\ Size(leaf) <= Capacity
        BY <1>2, <2>6, <4>1 DEF Filled, Fits
      <4> QED BY <4>2, CapacityIsNatural DEF Mergeable
    <3> QED BY <1>1, <2>1, <2>9, <3>1
  <2> QED BY <2>8, <2>9
<1> QED BY <1>3, <1>4

\* g is what a sound tree's greatest node holds.
LEMMA GreatestHolds ==
    \A t \in Tree : Sound(t) /\ t # None =>
       LET g == Greatest(t).data
       IN  /\ Filled(g) /\ KeysIn(g) \subseteq Keys(t)
           /\ \A k \in KeysIn(g) : g[k] = Held[t][k]
           /\ Apart("left", Keys(t) \ KeysIn(g), KeysIn(g))
<1> DEFINE Greatest1(t, g) == /\ Filled(g) /\ KeysIn(g) \subseteq Keys(t)
                              /\ \A k \in KeysIn(g) : g[k] = Held[t][k]
                              /\ Apart("left", Keys(t) \ KeysIn(g), KeysIn(g))
           I == {t \in Tree : Sound(t) /\ t # None => Greatest1(t, Greatest(t).data)}
<1>0. "left" \in Sides
  BY DEF Sides
<1>1. None \in I
  BY NoneIsTree
<1>2. ASSUME NEW t \in Tree, t # None, t.left \in I, t.right \in I PROVE t \in I
  <2>1. SUFFICES ASSUME Sound(t) PROVE Greatest1(t, Greatest(t).data)
    BY <1>2
  <2> DEFINE p == t.data
             a == t.left
             b == t.right
  <2>2. /\ Supports("left", p, a, b) /\ a \in Tree /\ b \in Tree
        /\ Filled(p) /\ p \in Payload /\ KeysIn(p) \in SUBSET Key /\ KeysIn(p) # {}
        /\ Held[a] \in Payload /\ Held[b] \in Payload
        /\ Keys(a) \in SUBSET Key /\ Keys(b) \in SUBSET Key
        /\ Held[t] = Beside("left", Held[a], p, Held[b])
        /\ Keys(t) = Keys(a) \cup KeysIn(p) \cup Keys(b)
    BY <1>2, <2>1, OpenedAtLeft
  <2>3. Sound(b) /\ Apart("left", Keys(a), KeysIn(p)) /\ Apart("left", KeysIn(p), Keys(b))
    BY <2>2 DEF Supports
  <2>4. Keys(a) \cap KeysIn(p) = {} /\ KeysIn(p) \cap Keys(b) = {}
    <3>1. Keys(a) \cap KeysIn(p) = {}
      BY <1>0, <2>2, <2>3, ApartDisjoint
    <3>2. KeysIn(p) \cap Keys(b) = {}
      BY <1>0, <2>2, <2>3, ApartDisjoint
    <3> QED BY <3>1, <3>2
  <2>5. CASE b = None
    <3>1. Greatest(t) = t
      BY <1>2, <2>5, GreatestRecursion
    <3>2. Keys(b) = {}
      BY <2>5, NoneIsTree
    <3>3. \A k \in Key : k \notin KeysIn(Held[a]) /\ k \notin KeysIn(Held[b]) => Held[t][k] = p[k]
      BY <1>0, <2>2, BesideHolds
    <3>4. \A k \in KeysIn(p) : p[k] = Held[t][k]
      BY <2>2, <2>4, <3>3 DEF Keys
    <3>5. Apart("left", Keys(t) \ KeysIn(p), KeysIn(p))
      BY <2>2, <2>3, <3>2 DEF Apart
    <3> HIDE DEF I
    <3>6. Greatest1(t, p)
      BY <2>2, <3>4, <3>5
    <3> QED BY <3>1, <3>6
  <2>6. CASE b # None
    <3> DEFINE g == Greatest(b).data
    <3>1. Greatest(t) = Greatest(b)
      BY <1>2, <2>6, GreatestRecursion
    <3>2. Greatest1(b, g)
      BY <1>2, <2>3, <2>6
    <3> HIDE DEF g, I
    <3>3. Apart("left", Keys(a), Keys(b))
      BY <1>0, <2>2, <2>3, ApartTransitive
    <3>4. Keys(a) \cap Keys(b) = {}
      BY <1>0, <2>2, <3>3, ApartDisjoint
    <3>5. \A k \in Key : k \notin KeysIn(Held[a]) /\ k \notin KeysIn(p) => Held[t][k] = Held[b][k]
      BY <1>0, <2>2, BesideHolds
    <3>6. \A k \in KeysIn(g) : g[k] = Held[t][k]
      BY <2>2, <2>4, <3>2, <3>4, <3>5 DEF Keys
    <3>7. Apart("left", Keys(t) \ KeysIn(g), KeysIn(g))
      BY <2>2, <2>3, <3>2, <3>3 DEF Apart
    <3>8. Greatest1(t, g)
      BY <2>2, <3>2, <3>6, <3>7
    <3> QED BY <3>1, <3>8 DEF g
  <2> QED BY <2>5, <2>6
<1>3. Tree \subseteq I
  <2> HIDE DEF I
  <2> QED BY <1>1, <1>2, TreeInduction
<1> QED BY <1>3

\* Shrunk, when the node holds what it held and the subtree less.
LEMMA ShrunkAbove ==
    ASSUME NEW side \in Sides, NEW t \in Tree, t # None, Sound(t), NEW sub, NEW p,
           Leaves(Height[t[side]], sub, p), KeysIn(p) \subseteq Keys(t[side])
    PROVE  Leaves(Height[t], Shrunk(t, side, sub), Beside(side, p, t.data, Held[t[Other(side)]]))
<1>1. Nearly(t)
  BY NearlySound
<1>2. /\ Supports(side, t.data, t[side], t[Other(side)])
      /\ \A q : [t EXCEPT !.data = q] = At(side, t.bf, q, t[side], t[Other(side)])
  BY <1>1, NearlyOpened
<1>3. /\ t = At(side, t.bf, t.data, t[side], t[Other(side)]) /\ Filled(t.data)
  BY SidesOf, OpenedAtLeft
<1> DEFINE q == t.data
<1>4. [t EXCEPT !.data = q] = t
  BY <1>2, <1>3
<1>5. /\ Apart(side, Keys(t[side]), KeysIn(q)) /\ Apart(side, KeysIn(q), Keys(t[Other(side)]))
  BY <1>2 DEF Supports
<1>6. Apart(side, KeysIn(p), KeysIn(q))
  BY <1>5 DEF Apart
<1>7. Filled(q)
  BY <1>3
<1> HIDE DEF q
<1>8. Leaves(Height[t], Shrunk([t EXCEPT !.data = q], side, sub),
             Beside(side, p, q, Held[t[Other(side)]]))
  BY <1>1, <1>5, <1>6, <1>7, ShrunkUp
<1> QED BY <1>4, <1>8 DEF q

\* The keys K go from a sound tree's greatest node, and from the tree.
LEMMA TakenSound ==
    ASSUME payload \in PayloadType, NEW K
    PROVE  \A t \in Tree :
              Sound(t) /\ t # None /\ K \subseteq KeysIn(Greatest(t).data) =>
                 Leaves(Height[t], TakenFromGreatest(t, K), Without(Held[t], K))
<1> DEFINE I == {t \in Tree :
                    Sound(t) /\ t # None /\ K \subseteq KeysIn(Greatest(t).data) =>
                       Leaves(Height[t], TakenFromGreatest(t, K), Without(Held[t], K))}
<1>0. "left" \in Sides /\ "right" \in Sides /\ Other("right") = "left"
  BY DEF Sides, Other
<1>1. None \in I
  BY NoneIsTree
<1>2. ASSUME NEW t \in Tree, t # None, t.left \in I, t.right \in I PROVE t \in I
  <2>1. SUFFICES ASSUME Sound(t), K \subseteq KeysIn(Greatest(t).data)
                 PROVE  Leaves(Height[t], TakenFromGreatest(t, K), Without(Held[t], K))
    BY <1>2
  <2> DEFINE p == t.data
             a == t.left
             b == t.right
  <2>2. /\ Supports("left", p, a, b) /\ a \in Tree /\ b \in Tree
        /\ Filled(p) /\ p \in Payload /\ KeysIn(p) \in SUBSET Key
        /\ Held[a] \in Payload /\ Held[b] \in Payload
        /\ Keys(a) \in SUBSET Key /\ Keys(b) \in SUBSET Key
        /\ Held[t] = Beside("left", Held[a], p, Held[b])
    BY <1>2, <2>1, OpenedAtLeft
  <2>3. /\ Sound(b) /\ Apart("left", Keys(a), KeysIn(p)) /\ Apart("left", KeysIn(p), Keys(b))
        /\ KeysIn(p) # {}
    BY <2>2 DEF Supports, Filled
  <2>4. Keys(a) \cap KeysIn(p) = {} /\ KeysIn(p) \cap Keys(b) = {} /\ Keys(a) \cap Keys(b) = {}
    <3>1. Apart("left", Keys(a), Keys(b))
      BY <1>0, <2>2, <2>3, ApartTransitive
    <3>2. Keys(a) \cap KeysIn(p) = {}
      BY <1>0, <2>2, <2>3, ApartDisjoint
    <3>3. KeysIn(p) \cap Keys(b) = {}
      BY <1>0, <2>2, <2>3, ApartDisjoint
    <3>4. Keys(a) \cap Keys(b) = {}
      BY <1>0, <2>2, <3>1, ApartDisjoint
    <3> QED BY <3>2, <3>3, <3>4
  <2> HIDE DEF I
  <2>5. CASE b = None
    <3> DEFINE q == Without(p, K)
               u == [t EXCEPT !.data = q]
    <3>1. TakenFromGreatest(t, K) = Trimmed(u)
      BY <1>2, <2>5, TakenRecursion
    <3>2. K \subseteq KeysIn(p)
      BY <1>2, <2>1, <2>5, GreatestRecursion
    <3>3. q \in Payload /\ KeysIn(q) \subseteq KeysIn(p)
      BY <2>2, WithoutKeys
    <3>4. Fits(q)
      BY <2>2, <3>3, FitsLess DEF Filled
    <3>5. Nearly(t)
      BY <1>2, <2>1, NearlySound
    <3> HIDE DEF q
    <3>6. /\ Nearly(u) /\ Height[u] = Height[t] /\ u.right = b
          /\ Held[u] = Beside("left", Held[a], q, Held[b])
      BY <3>3, <3>4, <3>5, NearlyWith
    <3> HIDE DEF u
    <3>7. Leaves(Height[u], Trimmed(u), Held[u])
      BY <2>5, <3>6, TrimmedSound
    <3>8. Held[u] = Without(Held[t], K)
      <4>1. Keys(a) \cap K = {} /\ Keys(b) \cap K = {}
        BY <2>4, <3>2
      <4>2. Beside("left", Held[a], q, Held[b]) = Without(Beside("left", Held[a], p, Held[b]), K)
        BY <1>0, <2>2, <4>1, WithoutBeside DEF q, Keys
      <4> QED BY <2>2, <3>6, <4>2
    <3> QED BY <3>1, <3>6, <3>7, <3>8
  <2>6. CASE b # None
    <3> DEFINE sub == TakenFromGreatest(b, K)
               r == Without(Held[b], K)
    <3>1. TakenFromGreatest(t, K) = Shrunk(t, "right", sub) /\ Greatest(t) = Greatest(b)
      BY <1>2, <2>6, TakenRecursion, GreatestRecursion
    <3>2. Leaves(Height[b], sub, r)
      BY <1>2, <2>1, <2>3, <2>6, <3>1 DEF I
    <3>3. KeysIn(r) \subseteq Keys(b)
      BY <2>2, WithoutKeys DEF Keys
    <3>4. K \subseteq Keys(b)
      BY <2>1, <2>2, <2>3, <2>6, <3>1, GreatestHolds
    <3>5. Beside("right", r, p, Held[a]) = Without(Held[t], K)
      <4>1. KeysIn(p) \cap K = {} /\ KeysIn(Held[a]) \cap K = {}
        BY <2>4, <3>4 DEF Keys
      <4>2. Beside("right", r, p, Held[a]) = Without(Beside("right", Held[b], p, Held[a]), K)
        BY <1>0, <2>2, <4>1, WithoutBeside
      <4>3. Held[t] = Beside("right", Held[b], p, Held[a])
        BY <2>2 DEF Beside
      <4> QED BY <4>2, <4>3
    <3> HIDE DEF sub, r
    <3> DEFINE side == "right"
    <3>6. side \in Sides /\ t[side] = b /\ t[Other(side)] = a
      BY <1>0
    <3>7. Beside(side, r, p, Held[a]) = Without(Held[t], K)
      BY <3>5
    <3>8. TakenFromGreatest(t, K) = Shrunk(t, side, sub)
      BY <3>1
    <3> HIDE DEF side
    <3>9. Leaves(Height[t], Shrunk(t, side, sub), Beside(side, r, p, Held[t[Other(side)]]))
      BY <1>2, <2>1, <3>2, <3>3, <3>6, ShrunkAbove
    <3> QED BY <3>6, <3>7, <3>8, <3>9
  <2> QED BY <2>5, <2>6
<1>3. Tree \subseteq I
  <2> HIDE DEF I
  <2> QED BY <1>1, <1>2, TreeInduction
<1> QED BY <1>3

\* A node half empty is filled from the greatest one below it, and what is held
\* stays.
LEMMA RefilledSound ==
    ASSUME payload \in PayloadType, NEW t, Nearly(t)
    PROVE  Leaves(Height[t], Refilled(t), Held[t])
<1> DEFINE p == t.data
           a == t.left
           b == t.right
           stays == [tree |-> t, shrank |-> FALSE]
           side == "left"
<1>0. side \in Sides /\ t[side] = a /\ t[Other(side)] = b
  BY DEF Sides, Other
<1>1. /\ t \in Tree /\ t # None /\ Fits(p) /\ p \in Payload /\ Sound(a)
      /\ Size(p) \in Nat /\ IsFiniteSet(KeysIn(p))
  BY DEF Nearly, Fits
<1>2. Capacity \in Nat /\ Capacity \div 2 < Capacity /\ Capacity \div 2 >= 0
  BY CapacityIsNatural
<1>3. CASE a = None \/ b = None
  <2>1. Refilled(t) = Trimmed(t)
    BY <1>3 DEF Refilled
  <2> QED BY <1>3, <2>1, TrimmedSound
<1>4. CASE ~(a = None \/ b = None) /\ Size(p) > Capacity \div 2
  <2>1. Refilled(t) = stays
    BY <1>4 DEF Refilled
  <2>2. KeysIn(p) # {}
    <3>1. SUFFICES ASSUME KeysIn(p) = {} PROVE FALSE
      OBVIOUS
    <3>2. Size(p) = 0
      BY <3>1, FS_EmptySet DEF Size
    <3> QED BY <1>2, <1>4, <3>2
  <2>3. Sound(t) /\ stays.tree = t /\ stays.shrank = FALSE
    BY <2>2, NearlySound
  <2> HIDE DEF stays
  <2> QED BY <1>1, <2>1, <2>3 DEF Leaves, ShrankFrom
<1>5. CASE ~(a = None \/ b = None) /\ ~(Size(p) > Capacity \div 2)
  <2> DEFINE g == Greatest(a).data
             K == Moved(p, g)
             q == Merged(p, g, K)
             sub == TakenFromGreatest(a, K)
             l == Without(Held[a], K)
             r == Held[b]
  <2>1. Refilled(t) = Shrunk([t EXCEPT !.data = q], side, sub)
    BY <1>5 DEF Refilled
  <2>2. Size(p) < Capacity
    <3> DEFINE n == Size(p)
               m == Capacity \div 2
               c == Capacity
    <3>1. n \in Nat /\ c \in Nat /\ m < c /\ m >= 0 /\ ~(n > m)
      BY <1>1, <1>2, <1>5
    <3>2. m \in Int
      BY <1>2
    <3> HIDE DEF n, m, c
    <3>3. n < c
      BY <3>1, <3>2
    <3> QED BY <3>3 DEF n, c
  <2>3. /\ Supports(side, p, a, b) /\ Apart(side, Keys(a), Keys(b))
        /\ a \in Tree /\ b \in Tree /\ Held[a] \in Payload /\ r \in Payload
        /\ Keys(a) \in SUBSET Key /\ KeysIn(p) \in SUBSET Key /\ Keys(b) \in SUBSET Key
        /\ Held[t] = Beside(side, Held[a], p, r)
    <3> HIDE DEF side, a, b
    <3> QED BY <1>0, NearlyOpened
  <2>4. Apart(side, Keys(a), KeysIn(p)) /\ Apart(side, KeysIn(p), Keys(b))
    BY <2>3 DEF Supports
  <2>5. /\ Filled(g) /\ KeysIn(g) \subseteq Keys(a)
        /\ \A k \in KeysIn(g) : g[k] = Held[a][k]
        /\ Apart(side, Keys(a) \ KeysIn(g), KeysIn(g))
    BY <1>1, <1>5, <2>3, GreatestHolds
  <2> HIDE DEF g, r, side, a, b
  <2>6. /\ K \subseteq KeysIn(g) /\ K # {} /\ Below(KeysIn(g) \ K, K)
        /\ Cardinality(K) <= Capacity - Size(p)
    BY <1>1, <2>2, <2>5, MovedKeys
  <2> HIDE DEF K
  <2>7. Keys(a) \cap KeysIn(p) = {} /\ Keys(a) \cap Keys(b) = {}
    <3>1. Keys(a) \cap KeysIn(p) = {}
      BY <1>0, <2>3, <2>4, ApartDisjoint
    <3>2. Keys(a) \cap Keys(b) = {}
      BY <1>0, <2>3, ApartDisjoint
    <3> QED BY <3>1, <3>2
  <2>8. q \in Payload /\ KeysIn(q) = KeysIn(p) \cup K /\ Beside(side, l, q, r) = Held[t]
    <3>1. KeysIn(p) \cap K = {} /\ KeysIn(r) \cap K = {}
      BY <2>5, <2>6, <2>7 DEF Keys, r
    <3>2. \A k \in K : g[k] = Held[a][k]
      BY <2>5, <2>6
    <3>3. g \in Payload
      BY <2>5 DEF Filled, Fits
    <3> DEFINE h == Held[a]
    <3>4. K \in SUBSET KeysIn(g) /\ \A k \in K : g[k] = h[k]
      BY <2>6, <3>2
    <3>6. h \in Payload /\ p \in Payload /\ r \in Payload /\ side \in Sides
      BY <1>0, <1>1, <2>3
    <3> HIDE DEF h, p
    <3>5. Beside(side, Without(h, K), Merged(p, g, K), r) = Beside(side, h, p, r)
      BY SMTT(30), <3>1, <3>3, <3>4, <3>6, MergedBeside
    <3>7. Merged(p, g, K) \in Payload /\ KeysIn(Merged(p, g, K)) = KeysIn(p) \cup K
      BY <3>1, <3>3, <3>4, <3>6, MergedBeside
    <3> QED BY <2>3, <3>5, <3>7 DEF h
  <2>9. Filled(q)
    <3>1. Fits(g) /\ K \in SUBSET KeysIn(g)
      BY <2>5, <2>6 DEF Filled
    <3> QED BY <1>1, <2>6, <2>8, <3>1, MergedFits
  <2>10. Leaves(Height[a], sub, l)
    BY <1>1, <1>5, <2>3, <2>6, TakenSound DEF g
  <2>11. KeysIn(l) = Keys(a) \ K
    BY <2>3, WithoutKeys DEF Keys
  <2>12. Apart(side, KeysIn(l), KeysIn(q))
    <3>1. \A k \in Keys(a) \ K, j \in K : Before(side, k, j)
      <4>1. ASSUME NEW k \in Keys(a) \ K, NEW j \in K PROVE Before(side, k, j)
        <5>1. CASE k \in KeysIn(g)
          BY <2>6, <5>1 DEF Below, Before, side
        <5>2. CASE k \notin KeysIn(g)
          BY <2>5, <2>6, <5>2 DEF Apart
        <5> QED BY <5>1, <5>2
      <4> QED BY <4>1
    <3> QED BY <2>4, <2>8, <2>11, <3>1 DEF Apart
  <2>13. Apart(side, KeysIn(q), Keys(b))
    BY <2>3, <2>4, <2>5, <2>6, <2>8 DEF Apart
  <2> HIDE DEF q, sub, l
  <2>14. Leaves(Height[t], Shrunk([t EXCEPT !.data = q], side, sub), Beside(side, l, q, r))
    BY <1>0, <2>9, <2>10, <2>12, <2>13, ShrunkUp DEF r
  <2> QED BY <2>1, <2>8, <2>14
<1> QED BY <1>3, <1>4, <1>5

-----------------------------------------------------------------------------
(* Lookups.                                                                *)

\* A sound tree's keys are those of its root and, apart from them, those of its
\* subtrees.
LEMMA KeysApart ==
    ASSUME NEW side \in Sides, NEW t \in Tree, t # None, Sound(t)
    PROVE  /\ Keys(t) = Keys(t[side]) \cup KeysIn(t.data) \cup Keys(t[Other(side)])
           /\ Apart(side, Keys(t[side]), KeysIn(t.data))
           /\ Apart(side, KeysIn(t.data), Keys(t[Other(side)]))
           /\ Apart(side, Keys(t[side]), Keys(t[Other(side)]))
           /\ Keys(t[side]) \cap KeysIn(t.data) = {}
           /\ Keys(t[side]) \cap Keys(t[Other(side)]) = {}
           /\ KeysIn(t.data) \cap Keys(t[Other(side)]) = {}
           /\ \A k \in Keys(t[side]) : Held[t][k] = Held[t[side]][k]
           /\ \A k \in KeysIn(t.data) : Held[t][k] = t.data[k]
<1> DEFINE a == t[side]
           p == t.data
           b == t[Other(side)]
<1>1. /\ Supports(side, p, a, b) /\ Apart(side, Keys(a), Keys(b))
      /\ Held[a] \in Payload /\ p \in Payload /\ Held[b] \in Payload
      /\ Keys(a) \in SUBSET Key /\ KeysIn(p) \in SUBSET Key /\ Keys(b) \in SUBSET Key
      /\ Held[t] = Beside(side, Held[a], p, Held[b])
  BY NearlySound, NearlyOpened
<1> HIDE DEF a, p, b
<1>2. Apart(side, Keys(a), KeysIn(p)) /\ Apart(side, KeysIn(p), Keys(b))
  BY <1>1 DEF Supports
<1>3. Keys(a) \cap KeysIn(p) = {}
  BY <1>1, <1>2, ApartDisjoint
<1>4. Keys(a) \cap Keys(b) = {}
  BY <1>1, ApartDisjoint
<1>5. KeysIn(p) \cap Keys(b) = {}
  BY <1>1, <1>2, ApartDisjoint
<1> DEFINE all == Beside(side, Held[a], p, Held[b])
<1>6. /\ KeysIn(all) = Keys(a) \cup KeysIn(p) \cup Keys(b)
      /\ \A k \in Key : k \notin KeysIn(p) /\ k \notin Keys(b) => all[k] = Held[a][k]
      /\ \A k \in Key : k \notin Keys(a) /\ k \notin Keys(b) => all[k] = p[k]
  BY <1>1, BesideHolds DEF Keys
<1> HIDE DEF all
<1>7. /\ \A k \in Keys(a) : all[k] = Held[a][k]
      /\ \A k \in KeysIn(p) : all[k] = p[k]
  BY <1>1, <1>3, <1>4, <1>5, <1>6
<1>8. Held[t] = all
  BY <1>1 DEF all
<1> QED BY <1>1, <1>2, <1>3, <1>4, <1>5, <1>6, <1>7, <1>8 DEF a, p, b, Keys

\* p is what a lookup for key finds in t: of a key that t holds, a stretch of
\* keys around it.
Finds(t, key, p) ==
    /\ p \in Payload /\ KeysIn(p) \subseteq Keys(t)
    /\ \A k \in KeysIn(p) : p[k] = Held[t][k]
    /\ KeysIn(p) = {} => key \notin Keys(t)
    /\ Encloses(p, key)
    /\ \A j \in Keys(t) : \A k, l \in KeysIn(p) : k <= j /\ j <= l => j \in KeysIn(p)

LEMMA TraverseFinds ==
    ASSUME NEW key \in Key
    PROVE  \A t \in Tree : Sound(t) => Finds(t, key, Traverse(t, key))
<1> DEFINE I == {t \in Tree : Sound(t) => Finds(t, key, Traverse(t, key))}
<1>1. None \in I
  <2>1. Traverse(None, key) = Empty /\ Keys(None) = {} /\ None \in Tree
    BY NoneIsTree, TraverseRecursion
  <2>2. Finds(None, key, Empty)
    BY <2>1, EmptyPayload DEF Finds, Encloses
  <2> QED BY <2>1, <2>2
<1>2. ASSUME NEW t \in Tree, t # None, t.left \in I, t.right \in I PROVE t \in I
  <2>1. SUFFICES ASSUME Sound(t) PROVE Finds(t, key, Traverse(t, key))
    BY <1>2
  <2>2. /\ t.data \in Payload /\ KeysIn(t.data) # {}
        /\ Sound(t.left) /\ Sound(t.right)
    BY <1>2, <2>1, OpenedAtLeft DEF Supports
  <2>3. Finds(t.left, key, Traverse(t.left, key)) /\ Finds(t.right, key, Traverse(t.right, key))
    BY <1>2, <2>2
  <2>4. key \in Int /\ \A k \in Keys(t) : k \in Int
    <3>1. Keys(t) \in SUBSET Key
      BY KeysOf
    <3> QED BY <3>1, PayloadAssumption
  <2> HIDE DEF I
  <2>5. CASE Encloses(t.data, key)
    <3> DEFINE p == t.data
               side == "left"
               a == t[side]
               b == t[Other(side)]
    <3>1. side \in Sides
      BY DEF Sides
    <3>2. Traverse(t, key) = p
      BY <1>2, <2>5, TraverseRecursion
    <3> HIDE DEF side
    <3>3. /\ Keys(t) = Keys(a) \cup KeysIn(p) \cup Keys(b)
          /\ Apart(side, Keys(a), KeysIn(p)) /\ Apart(side, KeysIn(p), Keys(b))
          /\ \A k \in KeysIn(p) : Held[t][k] = p[k]
      BY <1>2, <2>1, <3>1, KeysApart
    <3> HIDE DEF a, b
    <3>4. ASSUME NEW j \in Keys(t), NEW k \in KeysIn(p), NEW l \in KeysIn(p), k <= j, j <= l
          PROVE  j \in KeysIn(p)
      <4>1. j \in Int /\ k \in Int /\ l \in Int
        BY <2>4, <3>3
      <4>2. ~(j < k) /\ ~(l < j)
        BY <3>4, <4>1
      <4> QED BY <3>3, <4>2 DEF Apart, Before, side
    <3> QED BY <2>2, <2>5, <3>2, <3>3, <3>4 DEF Finds
  <2>6. CASE ~Encloses(t.data, key)
    <3> DEFINE side == SideOf(t, key)
               a == t[side]
               b == t[Other(side)]
               L == KeysIn(t.data)
               p == Traverse(a, key)
    <3>1. side \in Sides /\ Apart(side, {key}, L)
      BY <1>2, <2>1, <2>6, SideOfKey
    <3>2. Traverse(t, key) = p /\ Finds(a, key, p)
      BY <1>2, <2>3, <2>6, <3>1, TraverseRecursion DEF Sides
    <3> HIDE DEF side
    <3>3. /\ Keys(t) = Keys(a) \cup L \cup Keys(b)
          /\ Apart(side, Keys(a), L) /\ Apart(side, L, Keys(b)) /\ Apart(side, Keys(a), Keys(b))
          /\ L \cap Keys(b) = {}
          /\ \A k \in Keys(a) : Held[t][k] = Held[a][k]
      BY <1>2, <2>1, <3>1, KeysApart
    <3> HIDE DEF a, b, L, p
    <3>4. L # {} /\ {key} \in SUBSET Key /\ L \in SUBSET Key /\ Keys(b) \in SUBSET Key
      <4>1. Keys(t) \in SUBSET Key
        BY KeysOf
      <4> QED BY <2>2, <3>3, <4>1 DEF L
    <3>5. key \notin L /\ key \notin Keys(b)
      <4>1. Apart(side, {key}, Keys(b))
        BY <3>1, <3>3, <3>4, ApartTransitive
      <4>2. {key} \cap L = {}
        BY <3>1, <3>4, ApartDisjoint
      <4>3. {key} \cap Keys(b) = {}
        BY <3>1, <3>4, <4>1, ApartDisjoint
      <4> QED BY <4>2, <4>3
    <3>6. ASSUME NEW j \in Keys(t), NEW k \in KeysIn(p), NEW l \in KeysIn(p), k <= j, j <= l
          PROVE  j \in KeysIn(p)
      <4>1. k \in Keys(a) /\ l \in Keys(a)
        BY <3>2 DEF Finds
      <4>2. j \in Int /\ k \in Int /\ l \in Int
        BY <2>4, <3>3, <4>1
      <4>3. ~(j < k) /\ ~(l < j)
        BY <3>6, <4>2
      <4>4. ~Before(side, k, j) \/ ~Before(side, l, j)
        BY <4>3 DEF Before
      <4>5. j \in Keys(a)
        BY <3>3, <4>1, <4>4 DEF Apart
      <4> QED BY <3>2, <3>6, <4>5 DEF Finds
    <3> QED BY <3>2, <3>3, <3>5, <3>6 DEF Finds
  <2> QED BY <2>5, <2>6
<1>3. Tree \subseteq I
  <2> HIDE DEF I
  <2> QED BY <1>1, <1>2, TreeInduction
<1> QED BY <1>3

\* The n-th value under k, a key that a lookup for key finds, is taken out, and
\* nothing else is.
LEMMA RemovedSound ==
    ASSUME payload \in PayloadType, NEW key \in Key, NEW k \in Key, NEW n
    PROVE  \A t \in Tree :
              Sound(t) /\ k \in KeysIn(Traverse(t, key)) /\ n \in DOMAIN Held[t][k] =>
                 Leaves(Height[t], Removed(t, key, k, n), Popped(Held[t], k, n))
<1> DEFINE I == {t \in Tree :
                    Sound(t) /\ k \in KeysIn(Traverse(t, key)) /\ n \in DOMAIN Held[t][k] =>
                       Leaves(Height[t], Removed(t, key, k, n), Popped(Held[t], k, n))}
<1>1. None \in I
  <2>1. None \in Tree /\ Traverse(None, key) = Empty
    BY NoneIsTree, TraverseRecursion
  <2> QED BY <2>1, EmptyPayload
<1>2. ASSUME NEW t \in Tree, t # None, t.left \in I, t.right \in I PROVE t \in I
  <2>1. SUFFICES ASSUME Sound(t), k \in KeysIn(Traverse(t, key)), n \in DOMAIN Held[t][k]
                 PROVE  Leaves(Height[t], Removed(t, key, k, n), Popped(Held[t], k, n))
    BY <1>2
  <2>2. Sound(t.left) /\ Sound(t.right) /\ t.left \in Tree /\ t.right \in Tree
    BY <1>2, <2>1, OpenedAtLeft DEF Supports
  <2>3. Nearly(t)
    BY <1>2, <2>1, NearlySound
  <2>4. CASE Encloses(t.data, key)
    <3> DEFINE p == t.data
               q == Popped(p, k, n)
               u == [t EXCEPT !.data = q]
               side == "left"
               a == t[side]
               b == t[Other(side)]
    <3>1. side \in Sides
      BY DEF Sides
    <3>2. /\ Traverse(t, key) = p
          /\ Removed(t, key, k, n) = Refilled(u)
      BY <1>2, <2>4, TraverseRecursion, RemovedRecursion
    <3>3. t[side] = t.left /\ t[Other(side)] = t.right
      BY DEF Other
    <3> HIDE DEF side
    <3>4. /\ Keys(a) \cap KeysIn(p) = {} /\ KeysIn(p) \cap Keys(b) = {}
          /\ \A j \in KeysIn(p) : Held[t][j] = p[j]
      BY <1>2, <2>1, <3>1, KeysApart
    <3>5. /\ Held[a] \in Payload /\ p \in Payload /\ Held[b] \in Payload
          /\ Held[t] = Beside(side, Held[a], p, Held[b]) /\ Fits(p)
      BY <2>3, <3>1, NearlyOpened
    <3>6. n \in DOMAIN p[k] /\ k \notin KeysIn(Held[a]) /\ k \notin KeysIn(Held[b])
      BY <2>1, <3>2, <3>4 DEF Keys
    <3> HIDE DEF a, b, p
    <3>7. /\ q \in Payload /\ KeysIn(q) \subseteq KeysIn(p)
          /\ Beside(side, Held[a], q, Held[b]) = Popped(Beside(side, Held[a], p, Held[b]), k, n)
      BY <3>1, <3>5, <3>6, PoppedBeside
    <3>8. Fits(q)
      BY <3>5, <3>7, FitsLess
    <3> HIDE DEF q
    <3>9. /\ Nearly(u) /\ Height[u] = Height[t]
          /\ Held[u] = Beside("left", Held[t.left], q, Held[t.right])
      BY <2>3, <3>7, <3>8, NearlyWith DEF p
    <3>10. Held[u] = Popped(Held[t], k, n)
      BY <3>3, <3>5, <3>7, <3>9 DEF side, a, b
    <3> HIDE DEF u
    <3>11. Leaves(Height[u], Refilled(u), Held[u])
      BY <3>9, RefilledSound
    <3> QED BY <3>2, <3>9, <3>10, <3>11
  <2>5. CASE ~Encloses(t.data, key)
    <3> DEFINE side == SideOf(t, key)
               p == t.data
               a == t[side]
               b == t[Other(side)]
               sub == Removed(a, key, k, n)
               l == Popped(Held[a], k, n)
    <3>1. side \in Sides
      BY <1>2, <2>1, <2>5, SideOfKey
    <3>2. Traverse(t, key) = Traverse(a, key) /\ Sound(a) /\ a \in Tree
      BY <1>2, <2>2, <2>5, <3>1, TraverseRecursion DEF Sides
    <3>3. Removed(t, key, k, n) = Shrunk(t, side, sub)
      BY ZenonT(30), <1>2, <2>5, <3>1, RemovedRecursion DEF Sides
    <3>4. a \in I
      BY <1>2, <3>1 DEF Sides
    <3> HIDE DEF side
    <3>5. /\ Keys(a) \cap KeysIn(p) = {} /\ Keys(a) \cap Keys(b) = {}
          /\ \A j \in Keys(a) : Held[t][j] = Held[a][j]
      BY <1>2, <2>1, <3>1, KeysApart
    <3>6. /\ Held[a] \in Payload /\ p \in Payload /\ Held[b] \in Payload
          /\ Held[t] = Beside(side, Held[a], p, Held[b])
      BY <2>3, <3>1, NearlyOpened
    <3>7. k \in Keys(a)
      BY <2>1, <3>2, TraverseFinds DEF Finds
    <3>8. n \in DOMAIN Held[a][k] /\ k \notin KeysIn(p) /\ k \notin KeysIn(Held[b])
      BY <2>1, <3>5, <3>7 DEF Keys
    <3>9. Leaves(Height[a], sub, l)
      <4> HIDE DEF a
      <4> QED BY <2>1, <3>2, <3>4, <3>8
    <3> HIDE DEF I, a, b, p
    <3>10. Beside(side, l, p, Held[b]) = Popped(Beside(side, Held[a], p, Held[b]), k, n)
      BY <3>1, <3>6, <3>8, PoppedBeside
    <3>11. KeysIn(l) \subseteq Keys(a)
      BY <3>1, <3>6, <3>8, PoppedBeside DEF Keys
    <3> HIDE DEF l, sub
    <3>12. Leaves(Height[t], Shrunk(t, side, sub), Beside(side, l, p, Held[b]))
      BY <1>2, <2>1, <3>1, <3>9, <3>11, ShrunkAbove DEF a, b, p
    <3> QED BY <3>3, <3>6, <3>10, <3>12
  <2> QED BY <2>4, <2>5
<1>3. Tree \subseteq I
  <2> HIDE DEF I
  <2> QED BY <1>1, <1>2, TreeInduction
<1> QED BY <1>3

-----------------------------------------------------------------------------
(* The invariant.                                                          *)

\* The tree is sound, but for the empty leaf that is left of an emptied one.
Inv ==
    /\ payload \in PayloadType
    /\ root \in Tree
    /\ Sound(root) \/ root = Leaf(Empty)

LEMMA NodesAreTrees ==
    \A t \in Tree : \A s \in Nodes[t] : s \in Tree /\ s # None
<1> DEFINE I == {t \in Tree : \A s \in Nodes[t] : s \in Tree /\ s # None}
<1>1. None \in I
  BY NoneIsTree
<1>2. ASSUME NEW t \in Tree, t # None, t.left \in I, t.right \in I PROVE t \in I
  <2>1. Nodes[t] = {t} \cup Nodes[t.left] \cup Nodes[t.right]
    BY <1>2, TreeIsNode
  <2> QED BY <1>2, <2>1
<1>3. Tree \subseteq I
  <2> HIDE DEF I
  <2> QED BY <1>1, <1>2, TreeInduction
<1> QED BY <1>3

\* The empty leaf holds nothing.
LEMMA EmptyLeaf ==
    ASSUME MaxHeight > 0
    PROVE  /\ Leaf(Empty) \in Tree /\ Leaf(Empty) # None
           /\ Height[Leaf(Empty)] = 1 /\ Nodes[Leaf(Empty)] = {Leaf(Empty)}
           /\ Held[Leaf(Empty)] = Empty
<1> DEFINE bf == 0
<1>1. Leaf(Empty) = Node(bf, Empty, None, None) /\ bf \in BalanceFactor
  BY DEF Leaf, Node, BalanceFactor
<1>2. /\ None \in Tree /\ Height[None] = 0 /\ Nodes[None] = {} /\ Held[None] = Empty
      /\ Empty \in Payload
  BY NoneIsTree, EmptyPayload
<1> HIDE DEF bf
<1> DEFINE leaf == Node(bf, Empty, None, None)
<1>3. /\ leaf \in Tree /\ leaf # None
      /\ Height[leaf] = 1 + Higher(Height[None], Height[None])
      /\ Nodes[leaf] = {leaf} \cup Nodes[None] \cup Nodes[None]
      /\ Held[leaf] = Joined(Held[None], Empty, Held[None])
  <2>1. Height[None] < MaxHeight
    BY <1>2, TreeAssumption
  <2> QED BY <1>1, <1>2, <2>1, NodeIsTree
<1> HIDE DEF leaf
<1>4. Joined(Empty, Empty, Empty) = Empty
  <2>1. "left" \in Sides /\ Beside("left", Empty, Empty, Empty) = Joined(Empty, Empty, Empty)
    BY DEF Sides, Beside
  <2> QED BY <1>2, <2>1, BesideNothing
<1>5. Height[leaf] = 1 /\ Nodes[leaf] = {leaf} /\ Held[leaf] = Empty
  BY <1>2, <1>3, <1>4 DEF Higher
<1> QED BY <1>1, <1>3, <1>5 DEF leaf

\* A root that is there has room for a level.
LEMMA RootHeight ==
    ASSUME Inv, root # None
    PROVE  MaxHeight > 0
<1>1. Height[root] \in Nat /\ Height[root] <= MaxHeight /\ Height[root] # 0
  BY HeightBound DEF Inv
<1> QED BY <1>1, TreeAssumption

LEMMA RootFinds ==
    ASSUME Inv, NEW key \in Key
    PROVE  /\ Finds(root, key, Traverse(root, key))
           /\ KeysIn(Traverse(root, key)) # {} => Sound(root) /\ root # None
<1>1. CASE Sound(root)
  <2>1. Finds(root, key, Traverse(root, key))
    BY <1>1, TraverseFinds DEF Inv
  <2>2. root = None => KeysIn(Traverse(root, key)) = {}
    BY NoneIsTree, TraverseRecursion, EmptyPayload
  <2> QED BY <1>1, <2>1, <2>2
<1>2. CASE root = Leaf(Empty) /\ root # None
  <2>1. Held[root] = Empty /\ root \in Tree
    BY <1>2, RootHeight, EmptyLeaf
  <2>2. root.data = Empty
    BY <1>2 DEF Leaf
  <2>3. Encloses(Empty, key)
    BY EmptyPayload DEF Encloses
  <2>4. Traverse(root, key) = Empty
    BY <1>2, <2>1, <2>2, <2>3, TraverseRecursion
  <2>5. Finds(root, key, Empty)
    BY <2>1, <2>3, EmptyPayload DEF Finds, Keys
  <2> QED BY <2>4, <2>5, EmptyPayload
<1>3. root = None => Sound(root)
  BY NoneIsTree DEF Sound
<1> QED BY <1>1, <1>2, <1>3 DEF Inv

LEMMA RootInserted ==
    ASSUME Inv, NEW key \in Key, NEW v \in Value, Height[root] < MaxHeight
    PROVE  LET t == Inserted(root, key, v).tree
           IN  t \in Tree /\ Sound(t) /\ Held[t] = Upsert(Held[root], key, <<v>>)
<1> DEFINE vs == <<v>>
           res == Inserted(root, key, v)
           t == res.tree
<1>0. payload \in PayloadType /\ root \in Tree
  BY DEF Inv
<1>1. CASE Sound(root)
  <2>1. Files(root, key, vs, res)
    BY <1>0, <1>1, InsertedSound
  <2> HIDE DEF res
  <2>2. t \in Tree /\ Sound(t) /\ Held[t] = Upsert(Held[root], key, vs)
    BY <2>1 DEF Files, GrewFrom
  <2> HIDE DEF t, vs
  <2> QED BY <2>2 DEF t, res, vs
<1>2. CASE root = Leaf(Empty) /\ root # None
  <2> DEFINE leaf == NewLeaf(key, vs)
  <2>1. MaxHeight > 0 /\ Held[root] = Empty /\ root.data = Empty
    BY <1>2, RootHeight, EmptyLeaf DEF Leaf
  <2>2. Encloses(Empty, key)
    BY EmptyPayload DEF Encloses
  <2>3. Accepts(Empty, key)
    <3>1. Size(Empty) = 0
      BY EmptyPayload, FS_EmptySet DEF Size
    <3> QED BY <1>0, <3>1, CapacityIsNatural DEF Accepts
  <2>4. res = Filed(root, key, vs)
    BY <1>0, <1>2, <2>1, <2>2, <2>3, InsertedRecursion
  <2>5. t = leaf.tree
    BY <1>2, <2>4 DEF Filed, NewLeaf, Leaf
  <2>6. Files(None, key, vs, leaf)
    <3>1. vs \in Seq(Value) /\ vs # <<>>
      OBVIOUS
    <3> HIDE DEF vs
    <3> QED BY <1>0, <2>1, <3>1, NewLeafSound
  <2>7. Held[None] = Empty
    BY NoneIsTree
  <2> HIDE DEF t, res, leaf, vs
  <2>8. t \in Tree /\ Sound(t) /\ Held[t] = Upsert(Held[root], key, vs)
    BY <2>1, <2>5, <2>6, <2>7 DEF Files, GrewFrom
  <2> QED BY <2>8 DEF t, res, vs
<1>3. root = None => Sound(root)
  BY NoneIsTree DEF Sound
<1> QED BY <1>1, <1>2, <1>3 DEF Inv

\* What becomes of the root when the n-th value under k is removed.
RootWithout(key, k, n) ==
    LET t == Removed(root, key, k, n).tree IN IF t = None THEN Leaf(Empty) ELSE t

LEMMA RootRemoved ==
    ASSUME Inv, NEW key \in Key, NEW k \in KeysIn(Traverse(root, key)),
           NEW n \in DOMAIN Traverse(root, key)[k]
    PROVE  LET t == RootWithout(key, k, n)
           IN  /\ t \in Tree /\ (Sound(t) \/ t = Leaf(Empty))
               /\ Held[t] = Popped(Held[root], k, n)
<1> DEFINE res == Removed(root, key, k, n)
           t == RootWithout(key, k, n)
           p == Popped(Held[root], k, n)
<1>1. /\ root \in Tree /\ root # None /\ Sound(root) /\ k \in Key
      /\ n \in DOMAIN Held[root][k]
  <2>1. KeysIn(Traverse(root, key)) # {}
    OBVIOUS
  <2>2. Traverse(root, key)[k] = Held[root][k]
    BY RootFinds DEF Finds
  <2> QED BY <2>1, <2>2, RootFinds DEF Inv, KeysIn
<1>2. Leaves(Height[root], res, p)
  BY <1>1, RemovedSound DEF Inv
<1>3. t = IF res.tree = None THEN Leaf(Empty) ELSE res.tree
  BY DEF RootWithout
<1>4. MaxHeight > 0
  BY <1>1, RootHeight
<1> HIDE DEF t, p, res
<1>5. res.tree \in Tree /\ Sound(res.tree) /\ Held[res.tree] = p
  BY <1>2 DEF Leaves, ShrankFrom
<1>6. t \in Tree /\ (Sound(t) \/ t = Leaf(Empty)) /\ Held[t] = p
  BY <1>3, <1>4, <1>5, EmptyLeaf, NoneIsTree
<1> QED BY <1>6 DEF t, p

LEMMA InvInit == Init => Inv
BY NoneIsTree DEF Init, Inv, Sound

LEMMA InvStep == Inv /\ [Next]_vars => Inv'
<1> SUFFICES ASSUME Inv, [Next]_vars PROVE Inv'
  OBVIOUS
<1>1. payload' = payload
  BY DEF Next, Insert, Search, RemoveBy, vars
<1>2. \A t : Sound(t) => (Sound(t))'
  BY <1>1 DEF Sound, Fine, Filled, Fits, Capacity
<1>3. (root' \in Tree /\ (Sound(root') \/ root' = Leaf(Empty))) => Inv'
  BY <1>1, <1>2 DEF Inv
<1>4. ASSUME NEW key \in Key, NEW v \in Value, Insert(key, v) PROVE Inv'
  <2>1. Height[root] < MaxHeight /\ root' = Inserted(root, key, v).tree
    BY <1>4 DEF Insert
  <2> QED BY <1>3, <2>1, RootInserted
<1>5. ASSUME NEW key \in Key, NEW wanted, RemoveBy(key, wanted) PROVE Inv'
  <2>1. CASE UNCHANGED root
    BY <1>3, <2>1 DEF Inv
  <2>2. CASE \E k \in KeysIn(Traverse(root, key)) : \E n \in DOMAIN Traverse(root, key)[k] :
                root' = RootWithout(key, k, n)
    BY <1>3, <2>2, RootRemoved
  <2> QED BY <1>5, <2>1, <2>2 DEF RemoveBy, RootWithout
<1>6. UNCHANGED root => Inv'
  BY <1>3 DEF Inv
<1>7. \A e \in Entries : e[1] \in Key /\ e[2] \in Value
  BY TreeAssumption
<1> QED BY <1>4, <1>5, <1>6, <1>7 DEF Next, Search, vars

-----------------------------------------------------------------------------
(* The refinement.                                                         *)

LEMMA InsertRefines ==
    ASSUME Inv, NEW key \in Key, NEW v \in Value, Insert(key, v)
    PROVE  Abstract!Insert(key, v)
<1> DEFINE h == Held[root]
           next == [h EXCEPT ![key] = IF Abstract!Single THEN <<v>> ELSE Append(@, v)]
<1>1. Height[root] < MaxHeight /\ root' = Inserted(root, key, v).tree
  BY DEF Insert
<1>2. Held[root'] = Upsert(h, key, <<v>>)
  BY <1>1, RootInserted
<1>3. h[key] \in Seq(Value)
  BY HeldIsPayload DEF Inv, Payload
<1>4. Append(h[key], v) = h[key] \o <<v>>
  BY <1>3, AppendIsConcat
<1>5. Abstract!Single <=> payload # "chime"
  BY DEF Abstract!Single, Inv, PayloadType
<1> HIDE DEF h
<1>6. Upsert(h, key, <<v>>) = next
  BY <1>4, <1>5 DEF Upsert
<1>7. Held[root'] = next
  BY <1>2, <1>6
<1>8. Abstract!Insert(key, v)
  BY <1>7 DEF Insert, Abstract!Insert, h
<1> QED BY <1>8

\* What a lookup goes by in the payload it found, it may go by in the index.
LEMMA SoughtCovers ==
    ASSUME Inv, NEW key \in Key, NEW k, Seeks(Traverse(root, key), key, k)
    PROVE  k \in Key /\ k \in KeysIn(Traverse(root, key)) /\ Abstract!Covers(Held[root], key, k)
<1> DEFINE p == Traverse(root, key)
           h == Held[root]
<1>1. Finds(root, key, p)
  BY RootFinds
<1> HIDE DEF p
<1>2. k \in KeysIn(p) /\ k \in Key
  BY DEF Seeks, LowerBound, KeysIn, p
<1>3. CASE payload = "scalar"
  BY <1>2, <1>3 DEF Seeks, Abstract!Covers, p
<1>4. CASE payload # "scalar" /\ k # key
  <2>1. key <= k /\ \A l \in KeysIn(p) : key <= l => k <= l
    BY <1>4 DEF Seeks, LowerBound, p
  <2>2. key < k /\ key \in Int /\ k \in Int
    BY <1>2, <1>4, <2>1, PayloadAssumption
  <2>3. PICK g \in KeysIn(p) : g <= key
    BY <1>1, <1>2 DEF Finds, Encloses
  <2>4. ASSUME NEW m \in Key, key <= m, m < k PROVE h[m] = <<>>
    <3>1. SUFFICES ASSUME h[m] # <<>> PROVE FALSE
      OBVIOUS
    <3>2. m \in Keys(root)
      BY <3>1 DEF Keys, KeysIn
    <3>3. g \in Int /\ m \in Int
      BY <2>3, PayloadAssumption DEF KeysIn
    <3>4. g <= m /\ m <= k
      BY <2>2, <2>3, <2>4, <3>3
    <3>5. m \in KeysIn(p)
      BY <1>1, <1>2, <2>3, <3>2, <3>4 DEF Finds
    <3>6. k <= m
      BY <2>1, <2>4, <3>5
    <3> QED BY <2>2, <2>4, <3>3, <3>6
  <2>5. h[key] = <<>>
    BY <2>2, <2>4
  <2>6. \A m \in Key : key < m /\ m < k => h[m] = <<>>
    <3>1. \A m \in Key : key < m => key <= m
      BY PayloadAssumption
    <3> QED BY <2>4, <3>1
  <2> QED BY <1>2, <1>4, <2>2, <2>5, <2>6 DEF Abstract!Covers, Abstract!Exact, p
<1>5. CASE k = key
  BY <1>2, <1>5 DEF Abstract!Covers, p
<1> QED BY <1>3, <1>4, <1>5

\* The value a lookup answers is one the index may answer.
LEMMA GotHits ==
    ASSUME Inv, NEW key \in Key, NEW wanted, NEW k, NEW n,
           Gets(Traverse(root, key), key, wanted, k, n)
    PROVE  /\ k \in Key /\ k \in KeysIn(Traverse(root, key))
           /\ n \in DOMAIN Held[root][k] /\ Traverse(root, key)[k] = Held[root][k]
           /\ Abstract!Hits(Held[root], key, wanted, k, n)
<1> DEFINE p == Traverse(root, key)
           h == Held[root]
<1>1. k \in Key /\ k \in KeysIn(p) /\ Abstract!Covers(h, key, k)
  BY SoughtCovers DEF Gets
<1>2. p[k] = h[k]
  BY <1>1, RootFinds DEF Finds
<1> HIDE DEF p, h
<1>3. n \in DOMAIN h[k] /\ h[k][n] \in wanted /\ \A m \in 1 .. n - 1 : h[k][m] \notin wanted
  BY <1>2 DEF Gets, p
<1>4. Abstract!Hits(h, key, wanted, k, n)
  BY <1>1, <1>3 DEF Abstract!Hits, Abstract!IsFirst
<1> QED BY <1>1, <1>2, <1>3, <1>4 DEF p, h

\* A lookup that finds nothing wanted where it comes to looked where it had to.
LEMMA MissedMisses ==
    ASSUME Inv, NEW key \in Key, NEW wanted, Misses(Traverse(root, key), key, wanted)
    PROVE  Abstract!Misses(Held[root], key, wanted)
<1> DEFINE p == Traverse(root, key)
           h == Held[root]
           W == {n \in DOMAIN h[key] : h[key][n] \in wanted}
<1> SUFFICES ASSUME W # {} PROVE FALSE
  BY DEF Abstract!Misses
<1>1. Finds(root, key, p)
  BY RootFinds
<1>2. h[key] \in Seq(Value) /\ DOMAIN h[key] = 1 .. Len(h[key]) /\ Len(h[key]) \in Nat
  <2>1. h[key] \in Seq(Value)
    BY HeldIsPayload DEF Inv, Payload
  <2> HIDE DEF h
  <2> QED BY <2>1, LenProperties
<1> HIDE DEF p, h
<1>3. key \in Keys(root)
  <2>1. h[key] # <<>>
    BY <1>2
  <2> QED BY <2>1 DEF h, Keys, KeysIn
<1>4. key \in KeysIn(p)
  <2>1. KeysIn(p) # {}
    BY <1>1, <1>3 DEF Finds
  <2>2. PICK k \in KeysIn(p), l \in KeysIn(p) : k <= key /\ key <= l
    BY <1>1, <2>1 DEF Finds, Encloses
  <2> QED BY <1>1, <1>3, <2>2 DEF Finds
<1>5. p[key] = h[key]
  BY <1>1, <1>4 DEF Finds, h
<1>6. W \subseteq Nat
  BY <1>2
<1>7. PICK n \in W : \A m \in W : n <= m
  <2> HIDE DEF W
  <2> QED BY <1>6, LeastNatural
<1>8. Seeks(p, key, key)
  BY <1>4, PayloadAssumption DEF Seeks, LowerBound
<1>9. \A m \in 1 .. n - 1 : h[key][m] \notin wanted
  <2>1. SUFFICES ASSUME NEW m \in 1 .. n - 1, h[key][m] \in wanted PROVE FALSE
    OBVIOUS
  <2>2. n \in 1 .. Len(h[key])
    BY <1>2
  <2>3. m \in DOMAIN h[key] /\ m < n
    BY <1>2, <2>2
  <2>4. m \in W
    BY <2>1, <2>3
  <2> QED BY <1>7, <2>2, <2>3, <2>4
<1>10. Gets(p, key, wanted, key, n)
  BY <1>5, <1>8, <1>9 DEF Gets
<1> QED BY <1>4, <1>5, <1>10 DEF Misses, p

LEMMA StepRefines == Inv /\ [Next]_vars => [Abstract!Next]_Abstract!vars
<1> SUFFICES ASSUME Inv, [Next]_vars PROVE [Abstract!Next]_Abstract!vars
  OBVIOUS
<1>1. ASSUME NEW e \in Entries, Insert(e[1], e[2]) PROVE Abstract!Next
  <2>1. e[1] \in Key /\ e[2] \in Value
    BY TreeAssumption
  <2>2. Abstract!Insert(e[1], e[2])
    BY <1>1, <2>1, InsertRefines
  <2> QED BY <2>2 DEF Abstract!Next
<1>2. ASSUME NEW key \in Key, NEW wanted \in Wants, UNCHANGED <<root, payload>>,
             Misses(Traverse(root, key), key, wanted), answer' = None
      PROVE  Abstract!Next
  <2>1. Abstract!Misses(Held[root], key, wanted)
    BY <1>2, MissedMisses
  <2>2. Abstract!Search
    BY <1>2, <2>1 DEF Abstract!Search
  <2> QED BY <2>2 DEF Abstract!Next
<1>3. ASSUME NEW key \in Key, NEW wanted \in Wants, Search(key, wanted) PROVE Abstract!Next
  <2>1. CASE \E k \in KeysIn(Traverse(root, key)) : \E n \in DOMAIN Traverse(root, key)[k] :
                /\ Gets(Traverse(root, key), key, wanted, k, n)
                /\ answer' = Traverse(root, key)[k][n]
    <3>1. PICK k, n : /\ Gets(Traverse(root, key), key, wanted, k, n)
                      /\ answer' = Traverse(root, key)[k][n]
      BY <2>1
    <3>2. /\ k \in Key /\ n \in DOMAIN Held[root][k] /\ answer' = Held[root][k][n]
          /\ Abstract!Hits(Held[root], key, wanted, k, n)
      BY <3>1, GotHits
    <3>3. UNCHANGED <<root, payload>>
      BY <1>3 DEF Search
    <3>4. Abstract!Search
      BY <3>2, <3>3 DEF Abstract!Search
    <3> QED BY <3>4 DEF Abstract!Next
  <2> QED BY <1>2, <1>3, <2>1 DEF Search
<1>4. ASSUME NEW key \in Key, NEW wanted \in Wants, RemoveBy(key, wanted) PROVE Abstract!Next
  <2>1. ASSUME NEW k \in KeysIn(Traverse(root, key)), NEW n \in DOMAIN Traverse(root, key)[k],
               Gets(Traverse(root, key), key, wanted, k, n),
               answer' = Traverse(root, key)[k][n], root' = RootWithout(key, k, n)
        PROVE  Abstract!Next
    <3>1. /\ k \in Key /\ n \in DOMAIN Held[root][k] /\ answer' = Held[root][k][n]
          /\ Abstract!Hits(Held[root], key, wanted, k, n)
      BY <2>1, GotHits
    <3>2. Held[root'] = Popped(Held[root], k, n)
      BY <2>1, RootRemoved
    <3>3. payload' = payload
      BY <1>4 DEF RemoveBy
    <3>4. Held[root'] = [Held[root] EXCEPT ![k] = Abstract!RemoveAt(@, n)]
      BY <3>2 DEF Popped, RemoveAt, Abstract!RemoveAt
    <3>5. Abstract!RemoveBy
      BY <3>1, <3>3, <3>4 DEF Abstract!RemoveBy
    <3> QED BY <3>5 DEF Abstract!Next
  <2> QED BY <1>2, <1>4, <2>1 DEF RemoveBy, RootWithout
<1>5. UNCHANGED vars => UNCHANGED Abstract!vars
  BY DEF vars, Abstract!vars
<1> QED BY <1>1, <1>3, <1>4, <1>5 DEF Next

-----------------------------------------------------------------------------
(* The theorems.                                                           *)

LEMMA InvBalanced == Inv => HeightsBalanced
<1> SUFFICES ASSUME Inv, NEW t \in Nodes[root]
             PROVE  t.bf = Height[t.right] - Height[t.left] /\ t.bf \in BalanceFactor
  BY DEF HeightsBalanced
<1>1. t \in Tree /\ t # None
  BY NodesAreTrees DEF Inv
<1>2. t.bf \in BalanceFactor
  BY <1>1, TreeFields
<1>3. CASE Sound(root)
  BY <1>2, <1>3 DEF Sound, Fine
<1>4. CASE root = Leaf(Empty) /\ root # None
  <2>1. t = Leaf(Empty)
    BY <1>4, RootHeight, EmptyLeaf
  <2>2. t.bf = 0 /\ t.left = None /\ t.right = None
    BY <2>1 DEF Leaf
  <2> QED BY <1>2, <2>2, NoneIsTree
<1>5. root # None
  BY NoneIsTree
<1> QED BY <1>3, <1>4, <1>5 DEF Inv

LEMMA InvFilled == Inv => NodesFilled
<1> SUFFICES ASSUME Inv, NEW t \in Nodes[root]
             PROVE  /\ Size(t.data) <= Capacity
                    /\ Size(t.data) = 0 => t = root /\ t.left = None /\ t.right = None
  BY DEF NodesFilled
<1>1. CASE Sound(root)
  <2>1. Filled(t.data)
    BY <1>1 DEF Sound, Fine
  <2>2. Size(t.data) # 0
    BY <2>1, FS_EmptySet DEF Filled, Fits, Size
  <2> QED BY <2>1, <2>2 DEF Filled, Fits
<1>2. CASE root = Leaf(Empty) /\ root # None
  <2>1. t = root
    BY <1>2, RootHeight, EmptyLeaf
  <2>2. t.data = Empty /\ t.left = None /\ t.right = None
    BY <1>2, <2>1 DEF Leaf
  <2>3. Fits(t.data)
    BY <2>2, EmptyFits DEF Inv
  <2> QED BY <2>1, <2>2, <2>3 DEF Fits
<1>3. root # None
  BY NoneIsTree
<1> QED BY <1>1, <1>2, <1>3 DEF Inv

\* The tree is sound in every reachable state.
THEOREM TreeSound == Spec => []Inv
BY InvInit, InvStep, PTL DEF Spec

\* The balance factors of avl2_tree are the differences of the heights, and
\* none is past one: no insertion or removal stops too early on its way up.
THEOREM TreeBalanced == Spec => []HeightsBalanced
BY TreeSound, InvBalanced, PTL

\* No node is overfull, and none is empty but a lone root.
THEOREM TreeFilled == Spec => []NodesFilled
BY TreeSound, InvFilled, PTL

\* The tree implements an index: whatever is pushed out of nodes, moved between
\* them or rotated, each value stays under its key, in order and once, and a
\* lookup comes by the node that has to have it.
THEOREM TreeImplements == Spec => Implements
<1>1. Init => Abstract!Init
  BY NoneIsTree DEF Init, Abstract!Init, Empty, PayloadType
<1> QED BY <1>1, StepRefines, TreeSound, PTL DEF Spec, Implements, Abstract!Spec
=============================================================================
