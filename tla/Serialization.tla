---------------------------- MODULE Serialization ----------------------------
(***************************************************************************)
(* lrt::serialize and lrt::deserialize: how a tuple goes over the wire.    *)
(*                                                                         *)
(* A byte has Radix values instead of 256, which must be as many as there  *)
(* are type tags; integers and bit patterns have the code's widths in      *)
(* these bytes.  e is the byte order of the machine the code runs on.      *)
(***************************************************************************)
EXTENDS Values

CONSTANTS
    Radix,        \* how many values a byte has
    MaxNesting    \* bound: how deep calls are nested in a value

ASSUME SerializationAssumption ==
    /\ Radix \in Nat /\ Radix >= Len(Types) /\ Radix % 2 = 0
    /\ MaxNesting \in Nat

Endian == {"little", "big"}

\* No build has another: with LINDA_RT_BIG_ENDIAN set the name is misspelt.
communication_endian == "little"

SizeOf == [int16 |-> 2, uint16 |-> 2, int32 |-> 4, uint32 |-> 4, int64 |-> 8,
           uint64 |-> 8, float |-> 4, double |-> 8, size |-> 8]

typemap == [int16 |-> 0, int32 |-> 1, int64 |-> 2, uint16 |-> 3, uint32 |-> 4,
            uint64 |-> 5, string |-> 6, float |-> 7, double |-> 8, fncall |-> 9,
            calltag |-> 10]

-----------------------------------------------------------------------------
(* What there is to send.                                                  *)

Byte == 0 .. Radix - 1

Power[n \in Nat] == IF n = 0 THEN 1 ELSE Radix * Power[n - 1]

\* What w bytes can hold.
Number(w) == 0 .. Power[w] - 1
SignedNumber(w) == -(Power[w] \div 2) .. Power[w] \div 2 - 1

\* What fits into memory: its length is a size_t.
Sequence(S) == {s \in Seq(S) : Len(s) \in Number(SizeOf.size)}

\* The values that are not calls.
Flat ==
    {v \in [type : Signed, int : Int] : v.int \in SignedNumber(SizeOf[v.type])}
    \cup {v \in [type : Integral \ Signed, int : Nat] : v.int \in Number(SizeOf[v.type])}
    \cup {v \in [type : Floating, bits : Nat] : v.bits \in Number(SizeOf[v.type])}
    \cup [type : {"string"}, str : Sequence(Byte)]
    \cup [type : {"calltag"}]

\* The tuples of values of S.
TuplesOf(S) ==
    {t \in [size     : Number(SizeOf.size),
            data_ref : [0 .. 2 -> S],
            tail     : [alt : {"monostate"}] \cup [alt : {"value"}, value : S]
                       \cup [alt : {"vector"}, values : Seq(S)]] :
        Fields(t) \in Seq(S) /\ t = LindaTuple(Fields(t))}

\* The values whose calls are nested n deep at most.
Nested[n \in Nat] ==
    IF n = 0 THEN Flat
    ELSE Flat \cup [type : {"fncall"}, name : Sequence(Byte), args : TuplesOf(Nested[n - 1])]

Value == Nested[MaxNesting]

\* f of each field of t.
Each(f, t) == [i \in 1 .. t.size |-> f[GetAt(t, i - 1)]]

-----------------------------------------------------------------------------
(* How much room a tuple takes.                                            *)

\* tuple_size: the room for the number of fields, and what each field takes.
RoomFor(rooms) ==
    LET upTo[i \in 0 .. Len(rooms)] ==
          IF i = 0 THEN SizeOf.size ELSE upTo[i - 1] + rooms[i]
    IN  upTo[Len(rooms)]

\* Mutant: the length before a function's name is forgotten.
CallSizeWithoutLength(args, name) == args + Len(name)

\* Of a function call whose arguments take args.
CallSize(args, name) == args + SizeOf.size + Len(name)

\* value_size_calculator, with size[u] for an argument u of a call.
CalculateBy(size, v) ==
    CASE v.type \in Integral \cup Floating -> SizeOf[v.type]
      [] v.type = "string"  -> SizeOf.size + Len(v.str)
      [] v.type = "fncall"  -> CallSize(RoomFor(Each(size, v.args)), v.name)
      [] v.type = "calltag" -> 0

\* calculate_value_serial_size: the tag and what value_size_calculator says.
ValueSize[v \in Value] == 1 + CalculateBy(ValueSize, v)

TupleSize(t) == RoomFor(Each(ValueSize, t))

-----------------------------------------------------------------------------
(* Writing.                                                                *)

\* The w bytes of n in the memory of a machine.
InMemory(e, n, w) ==
    [i \in 1 .. w |-> (n \div Power[IF e = "little" THEN i - 1 ELSE w - i]) % Radix]

\* swap_unless_comm_endian, of the bytes of an integer.
Swapped(e, bytes) == IF e = communication_endian THEN bytes ELSE Reverse(bytes)

WriteInt(e, n, w) == Swapped(e, InMemory(e, n, w))

WriteString(e, str) == WriteInt(e, Len(str), SizeOf.size) \o str

\* tuple_serialize_into: the number of fields, and the bytes of each field.
WriteFields(e, written) == WriteInt(e, Len(written), SizeOf.size) \o FlattenSeq(written)

\* value_serializator, with write[u] for an argument u of a call.  The bytes of
\* a float are written as they are.
WriteBy(e, write, v) ==
    CASE v.type \in Integral  -> WriteInt(e, v.int, SizeOf[v.type])
      [] v.type \in Floating  -> InMemory(e, v.bits, SizeOf[v.type])
      [] v.type = "string"    -> WriteString(e, v.str)
      [] v.type = "fncall"    -> WriteFields(e, Each(write, v.args)) \o WriteString(e, v.name)
      [] v.type = "calltag"   -> <<>>

\* The tag comes first.
Writer(e) ==
    LET write[v \in Value] == <<typemap[v.type]>> \o WriteBy(e, write, v) IN write

\* tuple_serialize: the size of the buffer, and what is written to it.
Serialize(e, t) ==
    [size |-> TupleSize(t) + 1, written |-> <<1>> \o WriteFields(e, Each(Writer(e), t))]

\* The buffer: it was all zeros before.
Buffer(s) == [i \in 1 .. s.size |-> IF i <= Len(s.written) THEN s.written[i] ELSE 0]

-----------------------------------------------------------------------------
(* Reading.  A result is what was read, the bytes that are left, and       *)
(* whether the assertions held: with ok false the process is gone.         *)

Read(value, rest) == [value |-> value, rest |-> rest, ok |-> TRUE]
Aborted == [value |-> Unset, rest |-> <<>>, ok |-> FALSE]

\* What comes after r was read.
Then(r, Next(_)) == IF r.ok THEN Next(r) ELSE r

\* The result r as something else.
As(r, Kind(_)) == Then(r, LAMBDA s : Read(Kind(s.value), s.rest))

\* w bytes of a buffer, if it has them.
Take(w, buf) ==
    IF Len(buf) < w THEN Aborted
    ELSE Read(SubSeq(buf, 1, w), SubSeq(buf, w + 1, Len(buf)))

\* The number that bytes are on a machine, from the highest byte down.
FromMemory(e, bytes) ==
    LET w == Len(bytes)
        high[k \in 0 .. w] ==
          IF k = 0 THEN 0
          ELSE high[k - 1] * Radix + bytes[IF e = "little" THEN w - k + 1 ELSE k]
    IN  high[w]

TwosComplement(n, w) == IF n >= Power[w] \div 2 THEN n - Power[w] ELSE n

\* Mutant: the bytes are taken as they come.
ReadUnswapped(e, w, buf) == As(Take(w, buf), LAMBDA bytes : FromMemory(e, bytes))

\* deserialize_numeric, of integers and of floating-point numbers.
ReadUnsigned(e, w, buf) ==
    As(Take(w, buf), LAMBDA bytes : FromMemory(e, Swapped(e, bytes)))

ReadSigned(e, w, buf) ==
    As(ReadUnsigned(e, w, buf), LAMBDA n : TwosComplement(n, w))

ReadBits(e, w, buf) == As(Take(w, buf), LAMBDA bytes : FromMemory(e, bytes))

\* deserialize_string
ReadString(e, buf) ==
    Then(ReadUnsigned(e, SizeOf.size, buf), LAMBDA length : Take(length.value, length.rest))

\* tuple_deserialize, with fields[buf][n] for the n fields that buf starts with.
ReadTupleBy(e, fields, buf) ==
    Then(ReadUnsigned(e, SizeOf.size, buf), LAMBDA length :
        As(fields[length.rest][length.value], LAMBDA vs : LindaTuple(vs)))

\* value_deserialize, by the type that the tag stands for.
ReadTyped(e, fields, type, buf) ==
    CASE type \in Signed ->
            As(ReadSigned(e, SizeOf[type], buf), LAMBDA n : [type |-> type, int |-> n])
      [] type \in Integral \ Signed ->
            As(ReadUnsigned(e, SizeOf[type], buf), LAMBDA n : [type |-> type, int |-> n])
      [] type \in Floating ->
            As(ReadBits(e, SizeOf[type], buf), LAMBDA n : [type |-> type, bits |-> n])
      [] type = "string" ->
            As(ReadString(e, buf), LAMBDA str : [type |-> type, str |-> str])
      [] type = "fncall" ->
            Then(ReadTupleBy(e, fields, buf), LAMBDA args :
                As(ReadString(e, args.rest), LAMBDA name :
                    [type |-> type, name |-> name, args |-> args.value]))
      [] type = "calltag" -> Read([type |-> type], buf)

\* An unknown tag is LDB_UNREACHABLE.
ReadValue(e, fields, buf) ==
    IF buf = <<>> \/ \A type \in DOMAIN typemap : typemap[type] # buf[1] THEN Aborted
    ELSE ReadTyped(e, fields, CHOOSE type \in DOMAIN typemap : typemap[type] = buf[1], Tail(buf))

\* The fields of a tuple, one after the other.
Reader(e) ==
    LET fields[buf \in Seq(Byte)] ==
          [n \in Nat |->
             IF n = 0 THEN Read(<<>>, buf)
             ELSE Then(ReadValue(e, fields, buf), LAMBDA first :
                    As(fields[first.rest][n - 1], LAMBDA others : <<first.value>> \o others))]
    IN  fields

Deserialize(e, buf) == ReadTupleBy(e, Reader(e), Tail(buf))
=============================================================================
