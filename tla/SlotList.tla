------------------------------ MODULE SlotList ------------------------------
(***************************************************************************)
(* What the store relies on in its list of tuples: a value keeps its slot  *)
(* from its insertion to its removal, no slot holds two, and a search      *)
(* finds a value that matches if there is one.                             *)
(***************************************************************************)
CONSTANTS
    Slot, Value,
    Wants,     \* what searches want: sets of values
    None

VARIABLES
    data,      \* data[s]: the value in slot s, or None
    found      \* the slot of the last insertion or search, or None

vars == <<data, found>>

Init == data = [s \in Slot |-> None] /\ found = None

PushBack(x) ==
    \E s \in Slot :
        /\ found' = s
        /\ data[s] = None
        /\ data' = [data EXCEPT ![s] = x]

Erase(s) ==
    /\ found' = None
    /\ data[s] # None
    /\ data' = [data EXCEPT ![s] = None]

Clear == data' = [s \in Slot |-> None] /\ found' = None

Misses(wanted) ==
    /\ found' = None
    /\ \A s \in Slot : data[s] \notin wanted
    /\ UNCHANGED data

Find(wanted) ==
    \/ \E s \in Slot : found' = s /\ data[s] \in wanted /\ UNCHANGED data
    \/ Misses(wanted)

DestructiveFind(wanted) ==
    \/ \E s \in Slot :
         /\ found' = s
         /\ data[s] \in wanted
         /\ data' = [data EXCEPT ![s] = None]
    \/ Misses(wanted)

Next ==
    \/ \E x \in Value : PushBack(x)
    \/ \E s \in Slot : Erase(s)
    \/ Clear
    \/ \E wanted \in Wants : Find(wanted) \/ DestructiveFind(wanted)

Spec == Init /\ [][Next]_vars
=============================================================================
