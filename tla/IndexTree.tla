------------------------------ MODULE IndexTree ------------------------------
(***************************************************************************)
(* index::tree::avl2_tree over each of the payloads: a T-tree, that is an  *)
(* AVL tree whose nodes hold several keys each.  A lookup ends at the      *)
(* first node whose keys enclose the one it looks for.                     *)
(*                                                                         *)
(* A tree is a record of its root and its subtrees; the code's loops up    *)
(* the parent pointers are returns of the recursion here, and what they    *)
(* break off on is the flag that goes with a subtree: whether it grew, or  *)
(* shrank, by a level.  Each operation holds the tree's mutex throughout.  *)
(***************************************************************************)
EXTENDS Payloads

CONSTANTS
    Entries,    \* the key and value pairs that are inserted
    Wants,      \* what lookups want: sets of values
    None,       \* no node, no answer
    MaxHeight   \* Bound: how high the tree may grow

VARIABLES
    root,       \* the tree
    answer      \* what the last search or remove answered

vars == <<root, answer, payload>>

-----------------------------------------------------------------------------
(* Trees.                                                                  *)

BalanceFactor == {-1, 0, 1}

\* Trees of at most n levels.
Trees[n \in Nat] ==
    IF n = 0 THEN {None}
    ELSE {None} \cup [bf : BalanceFactor, data : Payload,
                      left : Trees[n - 1], right : Trees[n - 1]]

Tree == Trees[MaxHeight]

ASSUME TreeAssumption ==
    /\ Entries \subseteq Key \X Value
    /\ MaxHeight \in Nat
    /\ None \notin [bf : BalanceFactor, data : Payload, left : Tree, right : Tree]

Height[t \in Tree] ==
    IF t = None THEN 0
    ELSE LET l == Height[t.left]
             r == Height[t.right]
         IN  1 + IF l < r THEN r ELSE l

Nodes[t \in Tree] ==
    IF t = None THEN {} ELSE {t} \cup Nodes[t.left] \cup Nodes[t.right]

Joined(l, p, r) == [k \in Key |-> l[k] \o p[k] \o r[k]]

\* What the nodes hold, from left to right.
Held[t \in Tree] ==
    IF t = None THEN Empty ELSE Joined(Held[t.left], t.data, Held[t.right])

Leaf(p) == [bf |-> 0, data |-> p, left |-> None, right |-> None]

Other(side) == IF side = "left" THEN "right" ELSE "left"
Heavy(side) == IF side = "left" THEN -1 ELSE 1

-----------------------------------------------------------------------------
(* Rotations.                                                              *)

\* rotate_right (side = "left") and rotate_left: the child at side comes up.
Rotate(t, side) ==
    [t[side] EXCEPT ![Other(side)] = [t EXCEPT ![side] = t[side][Other(side)]]]

\* Mutant: the balance factors the wrong way around.
SwapBalanceFactors(t, bf) ==
    [t EXCEPT !.bf = 0,
              !.left.bf = IF bf = -1 THEN 1 ELSE 0,
              !.right.bf = IF bf = 1 THEN -1 ELSE 0]

SetBalanceFactors(t, bf) ==
    [t EXCEPT !.bf = 0,
              !.left.bf = IF bf = 1 THEN -1 ELSE 0,
              !.right.bf = IF bf = -1 THEN 1 ELSE 0]

\* insert_*_imbalance and delete_*_imbalance: t is two levels higher at side.
\* After an insert the child there is never balanced.
Rebalanced(t, side) ==
    LET child == t[side]
        up == Rotate(t, side)
    IN  IF child.bf = Heavy(side) THEN
            [up EXCEPT !.bf = 0, ![Other(side)].bf = 0]
        ELSE IF child.bf = 0 THEN
            [up EXCEPT !.bf = Heavy(Other(side)), ![Other(side)].bf = Heavy(side)]
        ELSE
            SetBalanceFactors(Rotate([t EXCEPT ![side] = Rotate(@, Other(side))], side),
                              child[Other(side)].bf)

-----------------------------------------------------------------------------
(* Insertion.  An operand and a result is a tree and whether it grew.      *)

Grown(t, side, sub) ==
    LET u == [t EXCEPT ![side] = sub.tree] IN
    IF ~sub.grew THEN [tree |-> u, grew |-> FALSE]
    ELSE IF t.bf = Heavy(Other(side)) THEN [tree |-> [u EXCEPT !.bf = 0], grew |-> FALSE]
    ELSE IF t.bf = 0 THEN [tree |-> [u EXCEPT !.bf = Heavy(side)], grew |-> TRUE]
    ELSE [tree |-> Rebalanced(u, side), grew |-> FALSE]

Filed(t, key, vs) ==
    [tree |-> [t EXCEPT !.data = Upsert(@, key, vs)], grew |-> FALSE]

NewLeaf(key, vs) == [tree |-> Leaf(Upsert(Empty, key, vs)), grew |-> TRUE]

\* What was pushed out of a node goes to the greatest one below it.
AddGreatest(t, key, vs) ==
    LET add[s \in Tree] ==
            IF s = None THEN NewLeaf(key, vs)
            ELSE IF s.right = None /\ Accepts(s.data, key) THEN Filed(s, key, vs)
            ELSE Grown(s, "right", add[s.right])
    IN  add[t]

SideOf(t, key) == IF \A k \in KeysIn(t.data) : key < k THEN "left" ELSE "right"

Inserted(t, key, v) ==
    LET insert[s \in Tree] ==
            IF s = None THEN NewLeaf(key, <<v>>)
            ELSE IF Encloses(s.data, key) THEN
                IF Accepts(s.data, key) THEN Filed(s, key, <<v>>)
                ELSE LET low == Lowest(s.data) IN
                     Grown([s EXCEPT !.data = ForceSetLower(@, key, v)], "left",
                           AddGreatest(s.left, low, s.data[low]))
            ELSE LET side == SideOf(s, key) IN
                 IF s[side] = None /\ Accepts(s.data, key) THEN Filed(s, key, <<v>>)
                 ELSE Grown(s, side, insert[s[side]])
    IN  insert[t]

-----------------------------------------------------------------------------
(* Removal.  An operand and a result is a tree and whether it shrank.      *)

Shrunk(t, side, sub) ==
    LET u == [t EXCEPT ![side] = sub.tree] IN
    IF ~sub.shrank THEN [tree |-> u, shrank |-> FALSE]
    ELSE IF t.bf = Heavy(side) THEN [tree |-> [u EXCEPT !.bf = 0], shrank |-> TRUE]
    ELSE IF t.bf = 0 THEN
        [tree |-> [u EXCEPT !.bf = Heavy(Other(side))], shrank |-> FALSE]
    ELSE LET r == Rebalanced(u, Other(side)) IN
         [tree |-> r, shrank |-> r.bf # Heavy(side)]

Gone == [tree |-> None, shrank |-> TRUE]

\* A leaf that has become empty goes; a half-leaf takes its leaf in if it can.
Trimmed(t) ==
    IF t.left = None /\ t.right = None THEN
        IF Size(t.data) = 0 THEN Gone ELSE [tree |-> t, shrank |-> FALSE]
    ELSE LET side == IF t.left = None THEN "right" ELSE "left"
             leaf == t[side].data
         IN  IF Mergeable(t.data, leaf)
             THEN Shrunk([t EXCEPT !.data = Merged(@, leaf, KeysIn(leaf))], side, Gone)
             ELSE [tree |-> t, shrank |-> FALSE]

Greatest(t) ==
    LET greatest[s \in Tree \ {None}] ==
            IF s.right = None THEN s ELSE greatest[s.right]
    IN  greatest[t]

\* The keys K leave the greatest node of t.
TakenFromGreatest(t, K) ==
    LET take[s \in Tree \ {None}] ==
            IF s.right = None THEN Trimmed([s EXCEPT !.data = Without(@, K)])
            ELSE Shrunk(s, "right", take[s.right])
    IN  take[t]

\* An inner node that is half empty is filled from the greatest one below it.
Refilled(t) ==
    IF t.left = None \/ t.right = None THEN Trimmed(t)
    ELSE IF Size(t.data) > Capacity \div 2 THEN [tree |-> t, shrank |-> FALSE]
    ELSE LET glb == Greatest(t.left).data
             K == Moved(t.data, glb)
         IN  Shrunk([t EXCEPT !.data = Merged(@, glb, K)], "left",
                    TakenFromGreatest(t.left, K))

Removed(t, key, k, n) ==
    LET remove[s \in Tree] ==
            IF s = None THEN [tree |-> None, shrank |-> FALSE]
            ELSE IF Encloses(s.data, key) THEN Refilled([s EXCEPT !.data = Popped(@, k, n)])
            ELSE LET side == SideOf(s, key) IN Shrunk(s, side, remove[s[side]])
    IN  remove[t]

-----------------------------------------------------------------------------
(* The operations.                                                         *)

\* traverse_tree: the payload of the node that encloses key, if there is one.
Traverse(t, key) ==
    LET traverse[s \in Tree] ==
            IF s = None THEN Empty
            ELSE IF Encloses(s.data, key) THEN s.data
            ELSE traverse[s[SideOf(s, key)]]
    IN  traverse[t]

Init == root = None /\ answer = None /\ payload \in PayloadType

\* Bound: a value is inserted under a key that does not have it.
Insert(key, v) ==
    /\ Height[root] < MaxHeight
    /\ v \notin ToSet(Held[root][key])
    /\ root' = Inserted(root, key, v).tree
    /\ answer' = None
    /\ UNCHANGED payload

Misses(p, key, wanted) ==
    \A k \in KeysIn(p) : \A n \in DOMAIN p[k] : ~Gets(p, key, wanted, k, n)

Search(key, wanted) ==
    LET p == Traverse(root, key) IN
    /\ \/ \E k \in KeysIn(p) : \E n \in DOMAIN p[k] :
            Gets(p, key, wanted, k, n) /\ answer' = p[k][n]
       \/ Misses(p, key, wanted) /\ answer' = None
    /\ UNCHANGED <<root, payload>>

\* A root that is a leaf stays when it becomes empty: delete_node only cuts a
\* node off its parent.  vector_payload has no remove that compiles.
RemoveBy(key, wanted) ==
    LET p == Traverse(root, key) IN
    /\ payload # "vector"
    /\ \/ \E k \in KeysIn(p) : \E n \in DOMAIN p[k] :
            LET t == Removed(root, key, k, n).tree IN
            /\ Gets(p, key, wanted, k, n)
            /\ answer' = p[k][n]
            /\ root' = IF t = None THEN Leaf(Empty) ELSE t
       \/ Misses(p, key, wanted) /\ answer' = None /\ UNCHANGED root
    /\ UNCHANGED payload

Next ==
    \/ \E e \in Entries : Insert(e[1], e[2])
    \/ \E key \in Key, wanted \in Wants : Search(key, wanted) \/ RemoveBy(key, wanted)

Spec == Init /\ [][Next]_vars

-----------------------------------------------------------------------------
(* Properties.                                                             *)

\* The tree implements an index: nothing that is pushed out of a node, moved
\* into another or rotated is lost, doubled, or put where a lookup does not
\* come by.
Abstract == INSTANCE Index WITH held <- Held[root]

Implements == Abstract!Spec

\* Each node's balance factor is the difference of its subtrees' heights, and
\* no node is out of balance: the loops up the tree stop where they should.
HeightsBalanced ==
    \A t \in Nodes[root] :
        t.bf = Height[t.right] - Height[t.left] /\ t.bf \in BalanceFactor

\* No node but a lone root is empty, which every lookup would end at, and
\* none is overfull.
NodesFilled ==
    \A t \in Nodes[root] :
        /\ Size(t.data) <= Capacity
        /\ Size(t.data) = 0 => t = root /\ t.left = None /\ t.right = None
=============================================================================
