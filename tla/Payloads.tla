------------------------------ MODULE Payloads ------------------------------
(***************************************************************************)
(* payloads::chime_payload, vector_payload and scalar_payload: what one    *)
(* node of an index tree holds, its keys, each with its values.  Sorted    *)
(* arrays of keys and of values are a function from keys to values.  Only  *)
(* chime_payload, the one of the store's indices, holds several values     *)
(* under a key; the two others replace the one that is there.  A key that  *)
(* has lost its last value is rotated out: a payload has the keys with     *)
(* values.                                                                 *)
(***************************************************************************)
EXTENDS Integers, Sequences, FiniteSets, SequencesExt

CONSTANTS
    Key, Value,
    Clustering   \* how many keys a node has room for, but for scalar_payload

ASSUME PayloadAssumption ==
    /\ Key \subseteq Int
    /\ Clustering \in Nat \ {0, 1}

VARIABLE payload   \* the payload type of the tree, a template argument

PayloadType == {"chime", "vector", "scalar"}

Capacity == IF payload = "scalar" THEN 1 ELSE Clustering

Payload == [Key -> Seq(Value)]

Empty == [k \in Key |-> <<>>]

KeysIn(p) == {k \in Key : p[k] # <<>>}

Size(p) == Cardinality(KeysIn(p))

\* p <=> key is equivalent: an empty payload takes any key.
Encloses(p, key) ==
    \/ KeysIn(p) = {}
    \/ (\E k \in KeysIn(p) : k <= key) /\ (\E k \in KeysIn(p) : key <= k)

\* try_set succeeds ...
Accepts(p, key) == key \in KeysIn(p) \/ Size(p) < Capacity

\* ... and files the values under the key.
Upsert(p, key, vs) == [p EXCEPT ![key] = IF payload = "chime" THEN @ \o vs ELSE vs]

Without(p, K) == [k \in Key |-> IF k \in K THEN <<>> ELSE p[k]]

\* The key force_set_lower pushes out of a full payload.
Lowest(p) == CHOOSE k \in KeysIn(p) : \A l \in KeysIn(p) : k <= l

ForceSetLower(p, key, v) ==
    Upsert(IF Accepts(p, key) THEN p ELSE Without(p, {Lowest(p)}), key, <<v>>)

LowerBound(p, key, k) ==
    /\ k \in KeysIn(p) /\ key <= k
    /\ \A l \in KeysIn(p) : key <= l => k <= l

\* The key a lookup for key goes to, if there is one: only scalar_payload asks
\* whether it is the same.
Seeks(p, key, k) ==
    IF payload = "scalar" THEN k \in KeysIn(p) /\ k = key ELSE LowerBound(p, key, k)

\* try_get answers the n-th value under k.
Gets(p, key, wanted, k, n) ==
    /\ Seeks(p, key, k)
    /\ n \in DOMAIN p[k] /\ p[k][n] \in wanted
    /\ \A m \in 1 .. n - 1 : p[k][m] \notin wanted

\* remove takes it out.
Popped(p, k, n) == [p EXCEPT ![k] = RemoveAt(@, n)]

\* Mutant: there has to be room left over.
MergeableWithRoom(p, other) == Size(other) < Capacity - Size(p)

\* try_merge succeeds.
Mergeable(p, other) == Size(other) <= Capacity - Size(p)

\* Mutant: the lowest keys of other.
MovedFromBelow(p, other) ==
    {k \in KeysIn(other) :
        Cardinality({l \in KeysIn(other) : l < k}) < Capacity - Size(p)}

\* The keys merge_until_full moves from other to p: the highest.
Moved(p, other) ==
    {k \in KeysIn(other) :
        Cardinality({l \in KeysIn(other) : k < l}) < Capacity - Size(p)}

\* p with the keys K of other moved in.
Merged(p, other, K) == [k \in Key |-> IF k \in K THEN other[k] ELSE p[k]]
=============================================================================
