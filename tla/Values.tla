------------------------------- MODULE Values -------------------------------
(***************************************************************************)
(* lv::linda_value and lv::linda_tuple as the code has them: values of     *)
(* eleven types with an order, and tuples that keep three fields in an     *)
(* array and the others in a tail.                                         *)
(*                                                                         *)
(* A value is a record of its type and of what it holds: int for the       *)
(* integers, bits for the bit pattern of a float (of which only those      *)
(* appear whose order is that of the patterns), str for the bytes of a     *)
(* string, name and args for a function call, and nothing for a call tag.  *)
(***************************************************************************)
EXTENDS Integers, Sequences, SequencesExt

\* The alternatives of the variant, in order.
Types == <<"int16", "uint16", "int32", "uint32", "int64", "uint64",
           "string", "float", "double", "fncall", "calltag">>

Integral == {"int16", "uint16", "int32", "uint32", "int64", "uint64"}
Signed   == {"int16", "int32", "int64"}
Floating == {"float", "double"}

Alternative(type) == SelectInSeq(Types, LAMBDA t : t = type) - 1

Sign(n) == IF n < 0 THEN -1 ELSE IF n = 0 THEN 0 ELSE 1

\* The order of two strings.
Lexicographic(s, t) ==
    LET differ == {i \in 1 .. Len(s) : i <= Len(t) /\ s[i] # t[i]}
    IN  IF differ = {} THEN Sign(Len(s) - Len(t))
        ELSE LET i == CHOOSE i \in differ : \A j \in differ : i <= j IN Sign(s[i] - t[i])

\* operator<=> of two values: by type first; of function calls only the names
\* are looked at.
Compare(a, b) ==
    IF a.type # b.type THEN Sign(Alternative(a.type) - Alternative(b.type))
    ELSE CASE a.type \in Integral -> Sign(a.int - b.int)
           [] a.type \in Floating -> Sign(a.bits - b.bits)
           [] a.type = "string"   -> Lexicographic(a.str, b.str)
           [] a.type = "fncall"   -> Lexicographic(a.name, b.name)
           [] OTHER               -> 0

-----------------------------------------------------------------------------
(* Tuples.                                                                 *)

\* A linda_value that was not given a value.
Unset == [type |-> "int16", int |-> 0]

\* _tail: the fields from the fourth on, which are none, one, or a vector.
TailOf(vs) ==
    CASE Len(vs) <= 3 -> [alt |-> "monostate"]
      [] Len(vs) = 4  -> [alt |-> "value", value |-> vs[4]]
      [] OTHER        -> [alt |-> "vector", values |-> SubSeq(vs, 4, Len(vs))]

\* The constructors: from fields, and from a span of values.
LindaTuple(vs) ==
    [size     |-> Len(vs),
     data_ref |-> [i \in 0 .. 2 |-> IF i < Len(vs) THEN vs[i + 1] ELSE Unset],
     tail     |-> TailOf(vs)]

\* get_at, whose indices start at 0.
GetAt(t, idx) ==
    CASE idx < 3                 -> t.data_ref[idx]
      [] idx = 3 /\ t.size = 4   -> t.tail.value
      [] idx >= 3 /\ t.size # 4  -> t.tail.values[idx - 3 + 1]

\* What an iterator sees from begin() to end().
Fields(t) == [i \in 1 .. t.size |-> GetAt(t, i - 1)]

\* A function call with its arguments, which are a tuple.
FnCall(name, vs) == [type |-> "fncall", name |-> name, args |-> LindaTuple(vs)]
=============================================================================
