------------------------------- MODULE Tuples -------------------------------
(***************************************************************************)
(* The values LindaDB moves about: tuples, the queries that select them,   *)
(* and the calls a thread makes on a store.                                *)
(*                                                                         *)
(* A tuple is a sequence of field values.  The fields of one model are     *)
(* taken to be of one type, so a value is just a key: a natural number     *)
(* whose order is the order linda_value's operator<=> gives it.            *)
(***************************************************************************)
EXTENDS Integers, Sequences

CONSTANTS
    Key,      \* the field values
    Formal       \* a formal field of a query: it takes every value of its type

ASSUME KeyAssumption == Key \subseteq Nat /\ Formal \notin Key

Tuple == Seq(Key)

\* What a query asks for, field by field, and what its actual fields are made
\* of, which decides how the index orders them:
\*   "typed"     plain C++ values (match_value<T>)
\*   "value"     linda_values (match_value<variant>)
\*   "concrete"  a whole tuple (concrete_tuple_query)
Query == [kind : {"typed", "value", "concrete"}, pat : Seq(Key \cup {Formal})]

Matches(q, t) ==
    /\ Len(q.pat) = Len(t)
    /\ \A f \in 1 .. Len(t) : q.pat[f] = Formal \/ q.pat[f] = t[f]

TupleOps == {"out", "out_nosignal", "remove_nosignal"}
QueryOps == {"in", "inp", "rd", "rdp"}

Call == [op : TupleOps, tuple : Tuple] \cup [op : QueryOps, query : Query]

IsOut(c)   == c.op \in {"out", "out_nosignal"}
Removes(c) == c.op \in {"in", "inp", "remove_nosignal"}
Waits(c)   == c.op \in {"in", "rd"}

\* The query with which a call that is no out looks for its tuple.
QueryOf(c) == IF c.op = "remove_nosignal"
              THEN [kind |-> "concrete", pat |-> c.tuple]
              ELSE c.query
=============================================================================
