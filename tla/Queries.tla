------------------------------- MODULE Queries -------------------------------
(***************************************************************************)
(* manual_fields_query: a matcher for each field, put to the tuples of a   *)
(* list through two indices and a scan.                                    *)
(*                                                                         *)
(* A matcher is made of a plain C++ value ("typed", match_value<T>), of a  *)
(* linda_value ("value", match_value<variant>), or of a variable that      *)
(* takes what it finds there ("type", match_type<T>).  Plain floats do not *)
(* compile.                                                                *)
(***************************************************************************)
EXTENDS Values

\* What linda_value <=> matcher gives.  match_value<T> has its operands the
\* other way around, and of a value of another type it takes the alternative
\* to be the first one.
FieldOrder(v, m) ==
    CASE m.kind = "value" -> Compare(v, m.value)
      [] m.kind = "typed" -> IF v.type = m.value.type THEN Compare(m.value, v)
                             ELSE Sign(0 - Alternative(m.value.type))
      [] m.kind = "type"  -> Sign(Alternative(v.type) - Alternative(m.type))

\* linda_tuple == query: the sizes, then field by field.
Agrees(t, q) ==
    t.size = Len(q) /\ \A i \in 1 .. Len(q) : FieldOrder(Fields(t)[i], q[i]) = 0

\* Mutant: a variable that has been written keeps what it has.
WrittenOnce(vars, t, q) ==
    [i \in DOMAIN vars |->
        IF /\ t.size = Len(q) /\ q[i].kind = "type" /\ vars[i] = Unset
           /\ \A j \in 1 .. i : FieldOrder(Fields(t)[j], q[j]) = 0
        THEN Fields(t)[i] ELSE vars[i]]

\* The variables of q after it has been compared with t: a comparison ends at
\* the first field that differs, and those before it have written.
Written(vars, t, q) ==
    [i \in DOMAIN vars |->
        IF /\ t.size = Len(q) /\ q[i].kind = "type"
           /\ \A j \in 1 .. i : FieldOrder(Fields(t)[j], q[j]) = 0
        THEN Fields(t)[i] ELSE vars[i]]

-----------------------------------------------------------------------------
(* Lookup.  The list is a sequence of tuples; the indices of the first two *)
(* fields hold positions in it, and are one node of a tree each: a         *)
(* sequence of keys with the positions under them.                         *)

\* std::lower_bound, whatever the order of m does to the keys.
LowerBound(node, m) ==
    LET among[count \in 0 .. Len(node)] ==
          [first \in Nat |->
             LET half == count \div 2 IN
             IF count = 0 THEN first
             ELSE IF FieldOrder(node[first + half].key, m) < 0
                  THEN among[count - half - 1][first + half + 1]
                  ELSE among[half][first]]
    IN  among[Len(node)][1]

\* A node with position n under value v too.
Filed(node, v, n) ==
    LET at == LowerBound(node, [kind |-> "value", value |-> v])
    IN  IF at <= Len(node) /\ Compare(node[at].key, v) = 0
        THEN [node EXCEPT ![at].held = Append(@, n)]
        ELSE InsertAt(node, at, [key |-> v, held |-> <<n>>])

\* Index i: field i of each tuple that has one was put into it, in turn.
Node(list, i) ==
    LET node[n \in 0 .. Len(list)] ==
          IF n = 0 THEN <<>>
          ELSE IF i <= list[n].size THEN Filed(node[n - 1], Fields(list[n])[i], n)
               ELSE node[n - 1]
    IN  node[Len(list)]

\* The payload <=> m is equivalent.
Encloses(node, m) ==
    \/ node = <<>>
    \/ FieldOrder(node[1].key, m) <= 0 /\ FieldOrder(node[Len(node)].key, m) >= 0

\* The positions a lookup in node goes through, if nothing there matches.
Looked(node, m) ==
    IF ~Encloses(node, m) \/ LowerBound(node, m) > Len(node) THEN <<>>
    ELSE node[LowerBound(node, m)].held

\* The same in index i.  A variable is not looked up.
Column(list, i, q) ==
    IF i > Len(q) THEN <<>>
    ELSE IF q[i].kind = "type" THEN <<>>
    ELSE Looked(Node(list, i), q[i])

\* A path up to the first tuple that agrees.
UpToHit(list, path, q) ==
    LET hit == SelectInSeq(path, LAMBDA n : Agrees(list[n], q))
    IN  IF hit = 0 THEN path ELSE SubSeq(path, 1, hit)

\* Mutant: what the indices do not find is not there.
ComparedByIndex(list, q) ==
    UpToHit(list, Column(list, 1, q) \o Column(list, 2, q), q)

\* The positions a query is compared with: through both indices, and then the
\* list, until a tuple agrees.
Compared(list, q) ==
    UpToHit(list, Column(list, 1, q) \o Column(list, 2, q) \o [n \in 1 .. Len(list) |-> n], q)

-----------------------------------------------------------------------------
(* concrete_tuple_query: a query for a whole tuple.                        *)

ConcreteQuery(t) == [i \in 1 .. t.size |-> [kind |-> "value", value |-> Fields(t)[i]]]

\* It is put to each index in turn, and an assertion fails at the first that
\* is of a field it has not got.
Asserts(list, q) ==
    /\ Len(q) < 2
    /\ \A i \in 1 .. Len(q) : \A n \in ToSet(Column(list, i, q)) : ~Agrees(list[n], q)
=============================================================================
