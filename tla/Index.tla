-------------------------------- MODULE Index --------------------------------
(***************************************************************************)
(* What an index promises: under each key it holds values in the order     *)
(* they were inserted, or just the last one, and a lookup for a key        *)
(* answers the first value there that is wanted.  Of a key it does not     *)
(* hold it may take the next higher one instead, unless it is exact; who   *)
(* asks has to look at what he gets.                                       *)
(***************************************************************************)
EXTENDS Integers, Sequences, SequencesExt

CONSTANTS
    Key, Value,
    Entries,    \* the key and value pairs that are inserted
    Wants,      \* what lookups want: sets of values
    None        \* no answer

VARIABLES
    held,       \* held[k]: the values under k
    answer,     \* what the last lookup answered
    payload     \* the payload the index is built from

vars == <<held, answer, payload>>

Single == payload \in {"scalar", "vector"}
Exact == payload = "scalar"

Init ==
    /\ held = [k \in Key |-> <<>>]
    /\ answer = None
    /\ payload \in {"scalar", "vector", "chime"}

Insert(k, v) ==
    /\ answer' = None
    /\ held' = [held EXCEPT ![k] = IF Single THEN <<v>> ELSE Append(@, v)]
    /\ UNCHANGED payload

IsFirst(s, w, n) == n \in DOMAIN s /\ s[n] \in w /\ \A m \in 1 .. n - 1 : s[m] \notin w

\* With h held, a lookup for k may go by the values under l.
Covers(h, k, l) ==
    \/ l = k
    \/ ~Exact /\ h[k] = <<>> /\ k < l /\ \A m \in Key : k < m /\ m < l => h[m] = <<>>

Hits(h, k, w, l, n) == Covers(h, k, l) /\ IsFirst(h[l], w, n)

Misses(h, k, w) == \A n \in DOMAIN h[k] : h[k][n] \notin w

\* A lookup that leaves what it finds there, or finds nothing.
Search ==
    LET h == held IN
    /\ UNCHANGED <<held, payload>>
    /\ \E k \in Key, w \in Wants :
        \/ \E l \in Key : \E n \in DOMAIN h[l] : answer' = h[l][n] /\ Hits(h, k, w, l, n)
        \/ answer' = None /\ Misses(h, k, w)

\* One that takes out what it finds.
RemoveBy ==
    LET h == held IN
    /\ \E l \in Key : \E n \in DOMAIN h[l] :
        /\ answer' = h[l][n]
        /\ \E k \in Key, w \in Wants : Hits(h, k, w, l, n)
        /\ held' = [h EXCEPT ![l] = RemoveAt(@, n)]
    /\ UNCHANGED payload

Next ==
    \/ Search
    \/ RemoveBy
    \/ \E e \in Entries : Insert(e[1], e[2])

Spec == Init /\ [][Next]_vars
=============================================================================
