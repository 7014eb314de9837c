----------------------------- MODULE MCExchange -----------------------------
(* What TLC lets programs build, send and ask for. *)
EXTENDS Exchange, TLC

IntOf(type, n) == [type |-> type, int |-> n]
Bits(type, n) == [type |-> type, bits |-> n]
Str(s) == [type |-> "string", str |-> s]

f == <<7>>
g == <<7, 8>>

\* An argument list that has every other type and needs the tail's vector.
Others ==
    <<IntOf("int64", 4), IntOf("int16", -1), IntOf("uint16", 9), IntOf("int32", -14), IntOf("uint32", 5),
      IntOf("uint64", 13), Bits("float", 17), [type |-> "calltag"]>>

SomeCalls ==
    {[kind |-> "value", value |-> IntOf("int64", -3)],
     [kind |-> "value", value |-> Str(<<1, 2>>)],
     [kind |-> "value", value |-> Bits("double", 13)],
     [kind |-> "value", value |-> FnCall(g, <<FnCall(f, <<IntOf("int16", 1)>>), Str(<<>>)>>)],
     [kind |-> "function", name |-> f],
     [kind |-> "arguments", args |-> <<>>],
     [kind |-> "arguments", args |-> Others]}

SomeRegistered == f :> [params |-> <<"int64">>, result |-> IntOf("int32", 45)]

\* Tuples that agree with others in some fields, or but for a type.
SomeStored ==
    <<LindaTuple(<<IntOf("int64", 4), Str(<<1, 2>>)>>),
      LindaTuple(<<IntOf("int64", -3), Str(<<1>>)>>),
      LindaTuple(<<IntOf("int16", -3)>>)>>

\* One that is there, and one that is not.
SomeSought == {SomeStored[3], LindaTuple(<<IntOf("uint64", 4), Str(<<1, 2>>)>>)}

AllShapes == [first : {"value", "typed", "type"}, others : {"value", "typed", "type"}]
=============================================================================
