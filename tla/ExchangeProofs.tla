--------------------------- MODULE ExchangeProofs ---------------------------
(* What TLAPS proves of Exchange, for every set of calls a program may make,   *)
(* any list at the receiver, any functions there and any queries.              *)
EXTENDS Exchange, QueryProofs

-----------------------------------------------------------------------------
(* Values without floats.                                                  *)

\* What v needs for that, if portable has it for the arguments of a call.
NoFloat(portable, v) ==
    /\ v.type \notin Floating
    /\ v.type = "fncall" => \A i \in 1 .. v.args.size : portable[GetAt(v.args, i - 1)]

LEMMA Portables ==
    \A v \in Value : Portable[v] = NoFloat(Portable, v)
<1> DEFINE measure == [v \in Value |-> Depth(v)]
           F == [Value -> BOOLEAN]
           phi == [v \in Value |-> [f \in F |-> NoFloat(f, v)]]
           no == FALSE
<1>1. measure \in [Value -> Nat] /\ no \in BOOLEAN
  BY Depths
<1>2. phi \in [Value -> [F -> BOOLEAN]]
  BY DEF NoFloat
<1>3. LooksBack(Value, measure, F, phi)
  <2> SUFFICES ASSUME NEW f \in F, NEW g \in F, NEW v \in Value,
                      \A u \in Value : measure[u] < measure[v] => f[u] = g[u]
               PROVE  phi[v][f] = phi[v][g]
    BY DEF LooksBack
  <2>1. v.type = "fncall" =>
           \A i \in 1 .. v.args.size : f[GetAt(v.args, i - 1)] = g[GetAt(v.args, i - 1)]
    BY Depths
  <2>2. NoFloat(f, v) = NoFloat(g, v)
    BY <2>1 DEF NoFloat
  <2> QED BY <2>2
<1>4. Recursive(Value, F, phi) # {}
  <2> HIDE DEF measure, phi, no
  <2> QED BY <1>1, <1>2, <1>3, RecursionInto
<1>5. PICK f \in F : \A v \in Value : f[v] = phi[v][f]
  <2> HIDE DEF phi
  <2> QED BY <1>4 DEF Recursive
<1> DEFINE body(g) == [v \in Value |-> NoFloat(g, v)]
<1>6. f = body(f)
  <2>1. \A v \in Value : f[v] = NoFloat(f, v)
    BY <1>5
  <2> QED BY <2>1
<1>7. Portable = CHOOSE g : g = body(g)
  BY DEF Portable, NoFloat
<1>8. Portable = body(Portable)
  <2> HIDE DEF body
  <2> QED BY <1>6, <1>7
<1> QED BY <1>8

LEMMA PortableValues ==
    WithoutFloats({v \in Value : Portable[v]})
<1> DEFINE P == {v \in Value : Portable[v]}
<1>1. ASSUME NEW v \in P PROVE v.type \notin Floating
  BY Portables DEF NoFloat
<1>2. ASSUME NEW v \in P, v.type = "fncall", NEW i \in 1 .. v.args.size PROVE GetAt(v.args, i - 1) \in P
  <2>1. GetAt(v.args, i - 1) \in Value
    BY <1>2, Depths
  <2>2. Portable[GetAt(v.args, i - 1)]
    BY <1>2, Portables DEF NoFloat
  <2> QED BY <2>1, <2>2
<1> QED BY <1>1, <1>2 DEF WithoutFloats

-----------------------------------------------------------------------------
(* Types.                                                                  *)

Names == Sequence(Byte)
Tuple == TuplesOf(Value)

LEMMA Assumed ==
    /\ MaxNesting \in Nat /\ MaxNesting > 0 /\ MaxNesting - 1 \in Nat
    /\ Nested[MaxNesting - 1] \subseteq Value /\ Unset \in Value
    /\ MaxCalls \in Nat /\ MaxCalls \in Number(SizeOf.size)
    /\ \A c \in Calls :
          \/ c.kind = "value" /\ c.value \in Nested[MaxNesting - 1]
          \/ c.kind = "function" /\ c.name \in Names
          \/ c.kind = "arguments" /\ c.args \in Sequence(Nested[MaxNesting - 1])
    /\ Stored \in Seq(Tuple) /\ Sought \subseteq Tuple
<1> DEFINE Argument == Nested[MaxNesting - 1]
<1>1. /\ MaxNesting \in Nat /\ MaxNesting > 0
      /\ MaxCalls \in Number(SizeOf.size)
      /\ Calls \subseteq [kind : {"value"}, value : Argument]
                        \cup [kind : {"function"}, name : Names]
                        \cup [kind : {"arguments"}, args : Sequence(Argument)]
      /\ Stored \in Seq(Tuple) /\ Sought \subseteq Tuple
  BY ExchangeAssumption, SerializationAssumption DEF ExchangeAssumption, Names, Tuple
<1>2. MaxNesting - 1 \in Nat /\ MaxNesting - 1 <= MaxNesting
  BY <1>1
<1>3. Argument \subseteq Value /\ Unset \in Value
  BY <1>1, <1>2, NestedGrows DEF Value
<1>4. MaxCalls \in Nat
  <2> DEFINE w == SizeOf.size
  <2>1. w \in Nat \ {0} /\ MaxCalls \in Number(w)
    BY <1>1, Sizes
  <2> HIDE DEF w
  <2> QED BY <2>1, TwosComplements
<1>5. ASSUME NEW c \in Calls
      PROVE  \/ c.kind = "value" /\ c.value \in Argument
             \/ c.kind = "function" /\ c.name \in Names
             \/ c.kind = "arguments" /\ c.args \in Sequence(Argument)
  <2> HIDE DEF Argument
  <2> QED BY <1>1
<1> QED BY <1>1, <1>2, <1>3, <1>4, <1>5

LEMMA CountsFit ==
    /\ 0 \in Number(SizeOf.size) /\ 1 \in Number(SizeOf.size)
    /\ \A k \in Nat : k <= MaxCalls => k \in Number(SizeOf.size)
<1> DEFINE w == SizeOf.size
<1>1. w \in Nat \ {0} /\ MaxCalls \in Number(w) /\ MaxCalls \in Nat
  BY Sizes, Assumed
<1> HIDE DEF w
<1>2. Power[w] \in Nat /\ Power[w] \div 2 \in Nat \ {0} /\ Power[w] = 2 * (Power[w] \div 2)
  BY <1>1, HalfPower, Powers
<1>3. Power[w] > 1
  <2> DEFINE h == Power[w] \div 2
  <2>1. h \in Nat \ {0} /\ Power[w] = 2 * h
    BY <1>2
  <2> HIDE DEF h
  <2> QED BY <2>1
<1>4. 0 \in Number(w) /\ 1 \in Number(w)
  BY <1>2, <1>3 DEF Number
<1>5. \A k \in Nat : k <= MaxCalls => k \in Number(w)
  BY <1>1, <1>2 DEF Number
<1> QED BY <1>4, <1>5 DEF w

\* What the calls of a builder make.
LEMMA Made ==
    /\ NoTuple \in Tuple
    /\ \A vs \in Seq(Value) : Len(vs) <= MaxCalls => LindaTuple(vs) \in Tuple
    /\ \A c \in Calls :
          /\ c.kind = "value" =>
                c.value \in Value /\ \A name \in Names : FnCall(name, <<c.value>>) \in Value
          /\ c.kind = "arguments" => \A name \in Names : FnCall(name, c.args) \in Value
<1> DEFINE n == MaxNesting - 1
           Argument == Nested[n]
<1>1. n \in Nat /\ n + 1 = MaxNesting /\ Argument \subseteq Value /\ Unset \in Value /\ Unset \in Argument
  BY Assumed, NestedGrows
<1> HIDE DEF n
<1>2. ASSUME NEW vs \in Seq(Value), Len(vs) <= MaxCalls PROVE LindaTuple(vs) \in Tuple
  <2>1. vs \in Sequence(Value)
    BY <1>2, CountsFit, LenProperties DEF Sequence
  <2> QED BY <1>1, <2>1, Tuples DEF Tuple
<1>3. NoTuple \in Tuple
  <2>1. <<>> \in Seq(Value) /\ Len(<<>>) <= MaxCalls
    BY Assumed
  <2> QED BY <1>2, <2>1 DEF NoTuple
<1>4. ASSUME NEW name \in Names, NEW vs \in Sequence(Argument) PROVE FnCall(name, vs) \in Value
  <2>1. LindaTuple(vs) \in TuplesOf(Argument)
    BY <1>1, Tuples
  <2>2. [type |-> "fncall", name |-> name, args |-> LindaTuple(vs)] \in Nested[n + 1]
    BY <1>1, <2>1, OfKinds DEF Names
  <2> QED BY <1>1, <2>2 DEF FnCall, Value
<1>5. ASSUME NEW v \in Argument PROVE <<v>> \in Sequence(Argument)
  <2> HIDE DEF Argument
  <2>1. <<v>> \in Seq(Argument) /\ Len(<<v>>) = 1
    OBVIOUS
  <2> QED BY <2>1, CountsFit DEF Sequence
<1>6. ASSUME NEW c \in Calls, c.kind = "value"
      PROVE  c.value \in Value /\ \A name \in Names : FnCall(name, <<c.value>>) \in Value
  <2>1. c.value \in Argument
    BY <1>6, Assumed DEF n
  <2> QED BY <1>1, <1>4, <1>5, <2>1
<1>7. ASSUME NEW name \in Names, NEW c \in Calls, c.kind = "arguments"
      PROVE  FnCall(name, c.args) \in Value
  <2>1. c.args \in Sequence(Argument)
    BY <1>7, Assumed DEF n
  <2> QED BY <1>4, <2>1
<1> QED BY <1>2, <1>3, <1>6, <1>7

TypeOK ==
    /\ machine \in [{"sender", "receiver"} -> Endian]
    /\ script \in Seq(Calls) /\ Len(script) <= MaxCalls
    /\ lastFn = <<>> \/ \E name \in Names : lastFn = <<name>>
    /\ values \in Seq(Value) /\ Len(values) <= Len(script)
    /\ tuple \in Tuple
    /\ list \in Seq(Tuple)

\* What is sent is the tuple.
BufferIsTuple == pc = "sent" => buffer = Serialize(machine.sender, tuple)

WireInv == TypeOK /\ BufferIsTuple /\ RoundTrip

LEMMA InitWire == Init => WireInv
<1> SUFFICES ASSUME Init PROVE WireInv
  OBVIOUS
<1>1. TypeOK
  <2>1. script \in Seq(Calls) /\ Len(script) = 0 /\ values \in Seq(Value) /\ Len(values) = 0
    BY DEF Init
  <2>2. 0 <= MaxCalls
    BY Assumed
  <2> QED BY <2>1, <2>2, Made, Assumed DEF Init, TypeOK
<1>2. BufferIsTuple /\ RoundTrip
  BY DEF Init, BufferIsTuple, RoundTrip
<1> QED BY <1>1, <1>2 DEF WireInv

\* A call of the builder.
LEMMA CallWire ==
    ASSUME WireInv, NEW c \in Calls, Called(c)
    PROVE  /\ script' = Append(script, c) /\ script' \in Seq(Calls)
           /\ Len(script') = Len(script) + 1 /\ Len(script') <= MaxCalls
           /\ values' = values \/ (\E v \in Value : values' = Append(values, v)) =>
                 values' \in Seq(Value) /\ Len(values') <= Len(script')
<1>1. /\ script \in Seq(Calls) /\ Len(script) <= MaxCalls
      /\ values \in Seq(Value) /\ Len(values) <= Len(script)
      /\ script' = Append(script, c) /\ Len(script) < MaxCalls
  BY DEF WireInv, TypeOK, Called
<1>2. MaxCalls \in Nat /\ Len(script) \in Nat /\ Len(values) \in Nat
  BY <1>1, Assumed, LenProperties
<1>3. script' \in Seq(Calls) /\ Len(script') = Len(script) + 1
  BY <1>1, AppendProperties
<1>4. \A v \in Value : Append(values, v) \in Seq(Value) /\ Len(Append(values, v)) = Len(values) + 1
  BY <1>1, AppendProperties
<1>5. Len(script') <= MaxCalls
  BY <1>1, <1>2, <1>3
<1>6. ASSUME values' = values \/ (\E v \in Value : values' = Append(values, v))
      PROVE  values' \in Seq(Value) /\ Len(values') <= Len(script')
  <2>1. values' \in Seq(Value) /\ (Len(values') = Len(values) \/ Len(values') = Len(values) + 1)
    BY <1>1, <1>4, <1>6
  <2> QED BY <1>1, <1>2, <1>3, <2>1
<1> QED BY <1>1, <1>3, <1>5, <1>6

LEMMA StepWire == WireInv /\ [Next]_vars => WireInv'
<1> SUFFICES ASSUME WireInv, [Next]_vars PROVE WireInv'
  OBVIOUS
<1>0. TypeOK /\ BufferIsTuple /\ RoundTrip
  BY DEF WireInv
<1>10. lastFn # <<>> => lastFn[1] \in Names
  BY <1>0 DEF TypeOK
<1>1. ASSUME NEW c \in Calls, AddValue(c) PROVE WireInv'
  <2>1. \E v \in Value : values' = Append(values, v)
    <3> DEFINE v == IF lastFn = <<>> THEN c.value ELSE FnCall(lastFn[1], <<c.value>>)
    <3>1. c.value \in Value /\ \A name \in Names : FnCall(name, <<c.value>>) \in Value
      BY <1>1, Made DEF AddValue
    <3>2. lastFn # <<>> => FnCall(lastFn[1], <<c.value>>) \in Value
      BY <1>10, <3>1
    <3>3. v \in Value
      BY <3>1, <3>2
    <3>4. values' = Append(values, v)
      BY <1>1 DEF AddValue
    <3> HIDE DEF v
    <3> QED BY <3>3, <3>4
  <2>2. TypeOK'
    BY <1>0, <1>1, <2>1, CallWire DEF AddValue, Called, TypeOK
  <2>3. BufferIsTuple' /\ RoundTrip'
    BY <1>1 DEF AddValue, Called, BufferIsTuple, RoundTrip
  <2> QED BY <2>2, <2>3 DEF WireInv
<1>2. ASSUME NEW c \in Calls, AddFunction(c) PROVE WireInv'
  <2>1. c.name \in Names
    BY <1>2, Assumed DEF AddFunction
  <2>2. TypeOK'
    BY <1>0, <1>2, <2>1, CallWire DEF AddFunction, Called, TypeOK
  <2>3. BufferIsTuple' /\ RoundTrip'
    BY <1>2 DEF AddFunction, Called, BufferIsTuple, RoundTrip
  <2> QED BY <2>2, <2>3 DEF WireInv
<1>3. ASSUME NEW c \in Calls, AddArguments(c) PROVE WireInv'
  <2>1. values' = values \/ \E v \in Value : values' = Append(values, v)
    BY <1>0, <1>10, <1>3, Made DEF AddArguments
  <2>2. TypeOK'
    BY <1>0, <1>3, <2>1, CallWire DEF AddArguments, Called, TypeOK
  <2>3. BufferIsTuple' /\ RoundTrip'
    BY <1>3 DEF AddArguments, Called, BufferIsTuple, RoundTrip
  <2> QED BY <2>2, <2>3 DEF WireInv
<1>4. ASSUME Build PROVE WireInv'
  <2>1. LindaTuple(values) \in Tuple
    <3>1. /\ values \in Seq(Value) /\ Len(values) <= Len(script) /\ Len(script) <= MaxCalls
          /\ script \in Seq(Calls)
      BY <1>0 DEF TypeOK
    <3>2. Len(values) \in Nat /\ Len(script) \in Nat /\ MaxCalls \in Nat
      BY <3>1, Assumed, LenProperties
    <3> QED BY <3>1, <3>2, Made
  <2>2. TypeOK'
    BY <1>0, <1>4, <2>1 DEF Build, TypeOK
  <2>3. BufferIsTuple' /\ RoundTrip'
    BY <1>4 DEF Build, BufferIsTuple, RoundTrip
  <2> QED BY <2>2, <2>3 DEF WireInv
<1>5. ASSUME Send PROVE WireInv'
  <2>1. TypeOK'
    BY <1>0, <1>5 DEF Send, TypeOK
  <2>2. BufferIsTuple' /\ RoundTrip'
    BY <1>5 DEF Send, BufferIsTuple, RoundTrip
  <2> QED BY <2>1, <2>2 DEF WireInv
<1>6. ASSUME Receive PROVE WireInv'
  <2> DEFINE e == machine.sender
             d == machine.receiver
             P == {v \in Value : Portable[v]}
             got == Deserialize(d, Buffer(buffer))
  <2>1. e \in Endian /\ d \in Endian /\ tuple \in Tuple /\ buffer = Serialize(e, tuple)
    BY <1>0, <1>6 DEF TypeOK, BufferIsTuple, Receive
  <2>2. PICK u \in Tuple : got = Read(u, <<>>) /\ SameFields(e, d, P, tuple, u)
    <3> HIDE DEF e, d, P
    <3>1. WithoutFloats(P)
      BY PortableValues DEF P
    <3>2. \E u \in Tuple : Deserialize(d, Buffer(Serialize(e, tuple))) = Read(u, <<>>) /\ SameFields(e, d, P, tuple, u)
      BY <2>1, <3>1, TupleReceived DEF Tuple
    <3> QED BY <2>1, <3>2
  <2> HIDE DEF got
  <2>3. got.ok /\ got.value = u
    BY <2>2 DEF Read
  <2>4. list' = Append(list, u) /\ pc' = "received"
    BY <1>6, <2>3 DEF Receive, Received, got
  <2>5. list \in Seq(Tuple)
    BY <1>0 DEF TypeOK
  <2>6. list' \in Seq(Tuple) /\ Last(list') = u
    BY <2>4, <2>5, AppendProperties DEF Last
  <2>7. TypeOK'
    BY <1>0, <1>6, <2>6 DEF Receive, TypeOK
  <2>8. /\ Len(Fields(u)) = Len(Fields(tuple))
        /\ \A i \in 1 .. Len(Fields(tuple)) :
              Same(e, d, P, Fields(tuple)[i], Fields(u)[i]) /\ Fields(tuple)[i] \in Value
    <3>1. /\ u.size = tuple.size
          /\ \A i \in 1 .. tuple.size : Same(e, d, P, GetAt(tuple, i - 1), GetAt(u, i - 1))
      BY <2>2 DEF SameFields
    <3>2. \A t \in Tuple : /\ t.size = Len(Fields(t))
                           /\ \A i \in 1 .. t.size : GetAt(t, i - 1) = Fields(t)[i] /\ GetAt(t, i - 1) \in Value
      BY Tuples DEF Tuple
    <3> HIDE DEF e, d, P
    <3> QED BY <2>1, <3>1, <3>2
  <2>9. RoundTrip'
    <3>1. tuple' = tuple /\ machine' = machine
      BY <1>6 DEF Receive
    <3>2. \A i \in 1 .. Len(Fields(tuple)) :
             /\ Fields(u)[i].type = Fields(tuple)[i].type
             /\ e = d \/ Portable[Fields(tuple)[i]] => Fields(u)[i] = Fields(tuple)[i]
      BY <2>8 DEF Same
    <3> QED BY <2>4, <2>6, <2>8, <3>1, <3>2 DEF RoundTrip
  <2>10. BufferIsTuple'
    BY <2>4 DEF BufferIsTuple
  <2> QED BY <2>7, <2>9, <2>10 DEF WireInv
<1>7. ASSUME Look PROVE WireInv'
  <2>1. TypeOK'
    BY <1>0, <1>7 DEF Look, TypeOK
  <2>2. BufferIsTuple' /\ RoundTrip'
    BY <1>7 DEF Look, BufferIsTuple, RoundTrip
  <2> QED BY <2>1, <2>2 DEF WireInv
<1>8. ASSUME LookForTuple PROVE WireInv'
  <2>1. TypeOK'
    BY <1>0, <1>8 DEF LookForTuple, TypeOK
  <2>2. pc' \in {"looked", "aborted"}
    BY <1>8 DEF LookForTuple
  <2>3. BufferIsTuple' /\ RoundTrip'
    BY <2>2 DEF BufferIsTuple, RoundTrip
  <2> QED BY <2>1, <2>3 DEF WireInv
<1>9. ASSUME ExecuteCall PROVE WireInv'
  <2>1. TypeOK'
    BY <1>0, <1>9 DEF ExecuteCall, TypeOK
  <2>2. pc' \in {"executed", "aborted"}
    BY <1>9 DEF ExecuteCall, Executed
  <2>3. BufferIsTuple' /\ RoundTrip'
    BY <2>2 DEF BufferIsTuple, RoundTrip
  <2> QED BY <2>1, <2>3 DEF WireInv
<1>11. CASE UNCHANGED vars
  BY <1>0, <1>11 DEF vars, WireInv, TypeOK, BufferIsTuple, RoundTrip
<1> QED BY <1>1, <1>2, <1>3, <1>4, <1>5, <1>6, <1>7, <1>8, <1>9, <1>11 DEF Next

LEMMA WireInvariant == Spec => []WireInv
<1>1. Init => WireInv
  BY InitWire
<1>2. WireInv /\ [Next]_vars => WireInv'
  BY StepWire
<1> QED BY <1>1, <1>2, PTL DEF Spec

\* A tuple that is sent arrives with every field, on a machine of either byte
\* order, floats on one of the same; nothing that deserialize asserts fails.
THEOREM SentArrives == Spec => []RoundTrip
<1>1. WireInv => RoundTrip
  BY DEF WireInv
<1> QED BY <1>1, WireInvariant, PTL

\* The buffer of a tuple is as long as what is written to it, for calls nested
\* to any depth.
THEOREM BufferFilled == Spec => []SizeExact
<1>1. WireInv => SizeExact
  <2> SUFFICES ASSUME WireInv, pc = "sent" PROVE Len(buffer.written) = buffer.size
    BY DEF SizeExact
  <2>1. machine.sender \in Endian /\ tuple \in TuplesOf(Value) /\ buffer = Serialize(machine.sender, tuple)
    BY DEF WireInv, TypeOK, BufferIsTuple, Tuple
  <2> QED BY <2>1, SizeOfWritten
<1> QED BY <1>1, WireInvariant, PTL

-----------------------------------------------------------------------------
(* The builder.                                                            *)

ArgsOf(c) == IF c.kind = "value" THEN <<c.value>> ELSE c.args

\* The field that the n-th call of s is the last for.
FieldCalledFor(s, n) ==
    IF n > 1 /\ s[n - 1].kind = "function" THEN FnCall(s[n - 1].name, ArgsOf(s[n]))
    ELSE s[n].value

\* FieldsCalledFor, of any script.
FieldsFor(s) ==
    LET fields[n \in 0 .. Len(s)] ==
          IF n = 0 THEN <<>>
          ELSE IF s[n].kind = "function" THEN fields[n - 1]
          ELSE Append(fields[n - 1], FieldCalledFor(s, n))
    IN  fields[Len(s)]

LEMMA FieldsByCalls ==
    ASSUME NEW S, NEW s \in Seq(S)
    PROVE  \E f : /\ FieldsFor(s) = f[Len(s)] /\ f[0] = <<>>
                  /\ \A i \in 1 .. Len(s) :
                        f[i] = IF s[i].kind = "function" THEN f[i - 1]
                               ELSE Append(f[i - 1], FieldCalledFor(s, i))
<1> DEFINE n == Len(s)
           X == {FieldCalledFor(s, i) : i \in 1 .. n}
           A == Seq(X)
           none == <<>>
           add(i, q) == IF s[i].kind = "function" THEN q ELSE Append(q, FieldCalledFor(s, i))
           step == [i \in 1 .. n |-> [q \in A |-> add(i, q)]]
           body(f) == [i \in 0 .. n |-> IF i = 0 THEN <<>>
                                        ELSE IF s[i].kind = "function" THEN f[i - 1]
                                        ELSE Append(f[i - 1], FieldCalledFor(s, i))]
           fields == CHOOSE f : f = body(f)
<1>1. n \in Nat
  BY LenProperties
<1>2. FieldsFor(s) = fields[n]
  BY DEF FieldsFor
<1>3. none \in A
  OBVIOUS
<1>4. \A i \in 1 .. n, q \in A : add(i, q) \in A
  <2> TAKE i \in 1 .. n, q \in A
  <2>1. FieldCalledFor(s, i) \in X
    OBVIOUS
  <2> HIDE DEF X
  <2> QED BY <2>1, AppendProperties
<1> HIDE DEF n, A, add
<1>5. step \in [1 .. n -> [A -> A]]
  BY <1>4
<1>6. PICK f \in [0 .. n -> A] : f[0] = none /\ \A i \in 1 .. n : f[i] = add(i, f[i - 1])
  <2> HIDE DEF step, none
  <2>1. Stepwise(n, A, none, step) # {}
    BY <1>1, <1>3, <1>5, Steps
  <2>2. PICK f \in [0 .. n -> A] : f[0] = none /\ \A i \in 1 .. n : f[i] = step[i][f[i - 1]]
    BY <2>1 DEF Stepwise
  <2>3. \A i \in 1 .. n : i - 1 \in 0 .. n /\ f[i - 1] \in A
    BY <1>1, <2>2
  <2> QED BY <2>2, <2>3 DEF step
<1>7. f = body(f)
  <2>1. \A i \in 0 .. n : i # 0 => i \in 1 .. n
    BY <1>1
  <2> QED BY <1>6, <2>1 DEF add
<1>8. fields = body(fields)
  <2> HIDE DEF body
  <2> QED BY <1>7
<1> HIDE DEF fields
<1>9. fields[0] = <<>> /\ \A i \in 1 .. n : fields[i] =
         IF s[i].kind = "function" THEN fields[i - 1] ELSE Append(fields[i - 1], FieldCalledFor(s, i))
  <2>1. 0 \in 0 .. n /\ \A i \in 1 .. n : i \in 0 .. n /\ i # 0
    BY <1>1
  <2> QED BY <1>8, <2>1
<1> QED BY <1>2, <1>9 DEF n

\* What one more call does to them.
LEMMA FieldsForMore ==
    ASSUME NEW S
    PROVE  /\ FieldsFor(<<>>) = <<>>
           /\ \A s \in Seq(S), c \in S :
                 FieldsFor(Append(s, c)) =
                    IF c.kind = "function" THEN FieldsFor(s)
                    ELSE Append(FieldsFor(s),
                           IF s # <<>> /\ Last(s).kind = "function"
                           THEN FnCall(Last(s).name, ArgsOf(c)) ELSE c.value)
<1>1. FieldsFor(<<>>) = <<>>
  <2> DEFINE none == <<>>
  <2>1. none \in Seq(S) /\ Len(none) = 0
    OBVIOUS
  <2> HIDE DEF none
  <2>2. FieldsFor(none) = <<>>
    BY <2>1, FieldsByCalls
  <2> QED BY <2>2 DEF none
<1>2. ASSUME NEW s \in Seq(S), NEW c \in S
      PROVE  FieldsFor(Append(s, c)) =
                IF c.kind = "function" THEN FieldsFor(s)
                ELSE Append(FieldsFor(s),
                       IF s # <<>> /\ Last(s).kind = "function"
                       THEN FnCall(Last(s).name, ArgsOf(c)) ELSE c.value)
  <2> DEFINE t == Append(s, c)
             n == Len(s)
  <2>1. /\ t \in Seq(S) /\ Len(t) = n + 1 /\ n \in Nat
        /\ \A i \in 1 .. n : t[i] = s[i]
        /\ t[n + 1] = c
    BY AppendProperties, LenProperties
  <2>2. PICK f : /\ FieldsFor(s) = f[n] /\ f[0] = <<>>
                 /\ \A i \in 1 .. n : f[i] = IF s[i].kind = "function" THEN f[i - 1]
                                             ELSE Append(f[i - 1], FieldCalledFor(s, i))
    BY FieldsByCalls
  <2>3. s # <<>> <=> n > 0
    BY EmptySeq, LenProperties
  <2>4. Last(s) = s[n]
    BY DEF Last
  <2> HIDE DEF t
  <2>5. PICK g : /\ FieldsFor(t) = g[n + 1] /\ g[0] = <<>>
                 /\ \A i \in 1 .. n + 1 : g[i] = IF t[i].kind = "function" THEN g[i - 1]
                                                 ELSE Append(g[i - 1], FieldCalledFor(t, i))
    <3>1. \E g : /\ FieldsFor(t) = g[Len(t)] /\ g[0] = <<>>
                 /\ \A i \in 1 .. Len(t) : g[i] = IF t[i].kind = "function" THEN g[i - 1]
                                                  ELSE Append(g[i - 1], FieldCalledFor(t, i))
      BY <2>1, FieldsByCalls
    <3>2. Len(t) = n + 1
      BY <2>1
    <3> HIDE DEF n
    <3> QED BY <3>1, <3>2
  <2> HIDE DEF n
  <2>6. \A i \in 1 .. n : FieldCalledFor(t, i) = FieldCalledFor(s, i)
    <3> TAKE i \in 1 .. n
    <3>1. t[i] = s[i] /\ (i > 1 => i - 1 \in 1 .. n)
      BY <2>1
    <3>2. i > 1 => t[i - 1] = s[i - 1]
      BY <2>1, <3>1
    <3> QED BY <3>1, <3>2 DEF FieldCalledFor
  <2>7. f[n] = g[n]
    <3>1. \A i \in 1 .. n : f[i - 1] = g[i - 1] => f[i] = g[i]
      <4>1. \A i \in 1 .. n : i \in 1 .. n + 1
        BY <2>1
      <4> QED BY <2>1, <2>2, <2>5, <2>6, <4>1
    <3>2. f[0] = g[0] /\ n \in Nat
      BY <2>1, <2>2, <2>5
    <3> QED BY <3>1, <3>2, SameAtEnd
  <2>8. FieldsFor(t) = IF c.kind = "function" THEN g[n] ELSE Append(g[n], FieldCalledFor(t, n + 1))
    <3>1. n + 1 \in 1 .. n + 1 /\ (n + 1) - 1 = n
      BY <2>1
    <3> QED BY <2>1, <2>5, <3>1
  <2>9. FieldCalledFor(t, n + 1) =
           IF s # <<>> /\ Last(s).kind = "function" THEN FnCall(Last(s).name, ArgsOf(c)) ELSE c.value
    <3>1. (n + 1) - 1 = n /\ (n + 1 > 1 <=> n > 0) /\ (n > 0 => n \in 1 .. n)
      BY <2>1
    <3>2. n > 0 => t[n] = s[n]
      BY <2>1, <3>1
    <3> QED BY <2>1, <2>3, <2>4, <3>1, <3>2 DEF FieldCalledFor
  <2> QED BY <2>2, <2>7, <2>8, <2>9 DEF t
<1> QED BY <1>1, <1>2

\* No call so far was wrong, but the last may be a function yet to be followed.
NothingWrong ==
    \A i \in 1 .. Len(script) :
        /\ script[i].kind = "function" => i = Len(script) \/ script[i + 1].kind # "function"
        /\ script[i].kind = "arguments" => i > 1 /\ script[i - 1].kind = "function"

AwaitsArguments == script # <<>> /\ Last(script).kind = "function"

\* The builder has the fields of the calls, and the function of the last one.
Building ==
    pc = "build" =>
        /\ NothingWrong
        /\ values = FieldsFor(script)
        /\ lastFn = IF AwaitsArguments THEN <<Last(script).name>> ELSE <<>>

BuildInv == WireInv /\ Building /\ BuiltAsCalled

LEMMA FieldsForScript == FieldsCalledFor = FieldsFor(script) /\ FieldsCalledFor' = FieldsFor(script')
BY DEF FieldsCalledFor, FieldsFor, FieldCalledFor, ArgsOf

LEMMA LastCall ==
    ASSUME WireInv
    PROVE  /\ Len(script) \in Nat /\ (script # <<>> <=> Len(script) > 0)
           /\ Last(script) = script[Len(script)]
BY EmptySeq, LenProperties DEF WireInv, TypeOK, Last

\* The function that waits for arguments is the last call.
LEMMA LastFunction ==
    ASSUME lastFn = IF AwaitsArguments THEN <<Last(script).name>> ELSE <<>>
    PROVE  (lastFn = <<>> <=> ~AwaitsArguments) /\ (AwaitsArguments => lastFn[1] = Last(script).name)
<1>1. \A x : <<x>> # <<>> /\ <<x>>[1] = x
  OBVIOUS
<1>2. CASE AwaitsArguments
  BY <1>1, <1>2
<1>3. CASE ~AwaitsArguments
  BY <1>3
<1> QED BY <1>2, <1>3

\* One more call that follows rightly on the last.
LEMMA RightCall ==
    ASSUME WireInv, NEW c \in Calls, Called(c), NothingWrong,
           c.kind = "function" => ~AwaitsArguments,
           c.kind = "arguments" => AwaitsArguments
    PROVE  NothingWrong' /\ script' # <<>> /\ Last(script') = c
<1> DEFINE n == Len(script)
           s == script'
<1>1. /\ script \in Seq(Calls) /\ s = Append(script, c) /\ Len(s) = n + 1
      /\ \A i \in 1 .. n : s[i] = script[i]
      /\ s[n + 1] = c /\ n \in Nat
  <2>1. script \in Seq(Calls) /\ s = Append(script, c)
    BY CallWire DEF WireInv, TypeOK
  <2> HIDE DEF s
  <2>2. n \in Nat /\ DOMAIN script = 1 .. n
    BY <2>1, LenProperties
  <2>3. /\ Len(Append(script, c)) = n + 1
        /\ \A i \in 1 .. n : Append(script, c)[i] = script[i]
        /\ Append(script, c)[n + 1] = c
    BY <2>1, AppendProperties
  <2> QED BY <2>1, <2>2, <2>3
<1>2. AwaitsArguments <=> n > 0 /\ script[n].kind = "function"
  BY LastCall DEF AwaitsArguments
<1>3. s # <<>> /\ Last(s) = c
  <2>1. s \in Seq(Calls)
    BY CallWire
  <2> QED BY <1>1, <2>1, EmptySeq DEF Last
<1>4. ASSUME NEW i \in 1 .. n + 1
      PROVE  /\ s[i].kind = "function" => i = n + 1 \/ s[i + 1].kind # "function"
             /\ s[i].kind = "arguments" => i > 1 /\ s[i - 1].kind = "function"
  <2> HIDE DEF n, s
  <2>1. CASE i = n + 1
    <3>1. s[i] = c /\ i - 1 = n /\ (n > 0 => n \in 1 .. n)
      BY <1>1, <2>1
    <3>2. n > 0 => s[i - 1] = script[n]
      BY <1>1, <3>1
    <3> QED BY <1>1, <1>2, <2>1, <3>1, <3>2
  <2>2. CASE i # n + 1
    <3>1. i \in 1 .. n /\ i + 1 \in 1 .. n + 1 /\ (i > 1 => i - 1 \in 1 .. n) /\ (i # n => i + 1 \in 1 .. n)
      BY <1>1, <2>2
    <3>2. /\ script[i].kind = "function" => i = n \/ script[i + 1].kind # "function"
          /\ script[i].kind = "arguments" => i > 1 /\ script[i - 1].kind = "function"
      BY <3>1 DEF NothingWrong, n
    <3>3. s[i] = script[i] /\ (i # n => s[i + 1] = script[i + 1]) /\ (i > 1 => s[i - 1] = script[i - 1])
      BY <1>1, <3>1
    <3>4. i = n => s[i + 1] = c /\ (script[i].kind = "function" => AwaitsArguments)
      BY <1>1, <1>2, <3>1
    <3> QED BY <3>1, <3>2, <3>3, <3>4
  <2> QED BY <2>1, <2>2
<1> QED BY <1>1, <1>3, <1>4 DEF NothingWrong

LEMMA StepBuild == BuildInv /\ [Next]_vars => BuildInv'
<1> SUFFICES ASSUME BuildInv, [Next]_vars PROVE BuildInv'
  OBVIOUS
<1>0. WireInv /\ Building /\ BuiltAsCalled /\ WireInv'
  BY StepWire DEF BuildInv
<1>1. ASSUME NEW c \in Calls, Called(c)
      PROVE  /\ FieldsFor(script') =
                   IF c.kind = "function" THEN FieldsFor(script)
                   ELSE Append(FieldsFor(script),
                          IF AwaitsArguments THEN FnCall(Last(script).name, ArgsOf(c)) ELSE c.value)
             /\ NothingWrong /\ values = FieldsFor(script)
             /\ lastFn = <<>> <=> ~AwaitsArguments
             /\ AwaitsArguments => lastFn[1] = Last(script).name
             /\ Len(script') = Len(script) + 1 /\ script'[Len(script) + 1] = c
             /\ Len(script) > 0 => script'[Len(script)] = script[Len(script)]
  <2>1. script \in Seq(Calls) /\ script' = Append(script, c) /\ pc = "build"
    BY <1>0, <1>1 DEF WireInv, TypeOK, Called
  <2>2. FieldsFor(script') =
           IF c.kind = "function" THEN FieldsFor(script)
           ELSE Append(FieldsFor(script),
                  IF AwaitsArguments THEN FnCall(Last(script).name, ArgsOf(c)) ELSE c.value)
    BY <2>1, FieldsForMore DEF AwaitsArguments
  <2>3. /\ Len(script') = Len(script) + 1 /\ script'[Len(script) + 1] = c
        /\ Len(script) > 0 => script'[Len(script)] = script[Len(script)]
    BY <2>1, AppendProperties, LenProperties
  <2>4. /\ NothingWrong /\ values = FieldsFor(script)
        /\ lastFn = IF AwaitsArguments THEN <<Last(script).name>> ELSE <<>>
    BY <1>0, <2>1 DEF Building
  <2> QED BY <2>2, <2>3, <2>4, LastFunction
<1>2. ASSUME NEW c \in Calls, AddValue(c) PROVE Building' /\ BuiltAsCalled'
  <2>1. Called(c) /\ c.kind = "value" /\ pc' = "build" /\ lastFn' = <<>>
    BY <1>2 DEF AddValue, Called
  <2>2. NothingWrong' /\ script' # <<>> /\ Last(script') = c
    BY <1>0, <1>1, <2>1, RightCall
  <2>3. lastFn = <<>> <=> ~AwaitsArguments
    BY <1>1, <2>1
  <2>4. AwaitsArguments => lastFn[1] = Last(script).name
    BY <1>1, <2>1
  <2>5. values' = FieldsFor(script')
    BY <1>1, <1>2, <2>1, <2>3, <2>4 DEF AddValue, ArgsOf
  <2>6. ~AwaitsArguments'
    BY <2>1, <2>2 DEF AwaitsArguments
  <2> QED BY <2>1, <2>2, <2>5, <2>6 DEF Building, BuiltAsCalled
<1>3. ASSUME NEW c \in Calls, AddFunction(c) PROVE Building' /\ BuiltAsCalled'
  <2>1. Called(c) /\ c.kind = "function" /\ pc = "build" /\ values' = values
    BY <1>3 DEF AddFunction, Called
  <2>2. lastFn = <<>> <=> ~AwaitsArguments
    BY <1>1, <2>1
  <2>3. CASE lastFn = <<>>
    <3>1. lastFn' = <<c.name>> /\ pc' = "build"
      BY <1>3, <2>1, <2>3 DEF AddFunction
    <3>2. NothingWrong' /\ script' # <<>> /\ Last(script') = c
      BY <1>0, <1>1, <2>1, <2>2, <2>3, RightCall
    <3>3. values' = FieldsFor(script') /\ AwaitsArguments'
      BY <1>1, <2>1, <3>2 DEF AwaitsArguments
    <3> QED BY <3>1, <3>2, <3>3 DEF Building, BuiltAsCalled
  <2>4. CASE lastFn # <<>>
    <3>1. pc' = "threw"
      BY <1>3, <2>4 DEF AddFunction
    <3>2. Len(script) > 0 /\ script[Len(script)].kind = "function" /\ Len(script) \in Nat
      BY <1>0, <2>2, <2>4, LastCall DEF AwaitsArguments
    <3> DEFINE n == Len(script)
    <3>3. /\ n \in 1 .. Len(script') /\ script'[n].kind = "function" /\ script'[n + 1].kind = "function"
      BY <1>1, <2>1, <3>2
    <3>4. ~WellFormed'
      <4> HIDE DEF n
      <4> QED BY <3>3 DEF WellFormed
    <3> QED BY <3>1, <3>4 DEF Building, BuiltAsCalled
  <2> QED BY <2>3, <2>4
<1>4. ASSUME NEW c \in Calls, AddArguments(c) PROVE Building' /\ BuiltAsCalled'
  <2>1. Called(c) /\ c.kind = "arguments" /\ pc = "build"
    BY <1>4 DEF AddArguments, Called
  <2>2. lastFn = <<>> <=> ~AwaitsArguments
    BY <1>1, <2>1
  <2>3. CASE lastFn # <<>>
    <3>1. lastFn' = <<>> /\ pc' = "build" /\ values' = Append(values, FnCall(lastFn[1], c.args))
      BY <1>4, <2>1, <2>3 DEF AddArguments
    <3>2. NothingWrong' /\ script' # <<>> /\ Last(script') = c
      BY <1>0, <1>1, <2>1, <2>2, <2>3, RightCall
    <3>3. lastFn[1] = Last(script).name
      BY <1>1, <2>1, <2>2, <2>3
    <3>4. values' = FieldsFor(script') /\ ~AwaitsArguments'
      BY <1>1, <2>1, <2>2, <2>3, <3>1, <3>2, <3>3 DEF AwaitsArguments, ArgsOf
    <3> QED BY <3>1, <3>2, <3>4 DEF Building, BuiltAsCalled
  <2>4. CASE lastFn = <<>>
    <3>1. pc' = "threw"
      BY <1>4, <2>4 DEF AddArguments
    <3>2. Len(script) \in Nat /\ (Len(script) > 0 => script[Len(script)].kind # "function")
      BY <1>0, <2>2, <2>4, LastCall DEF AwaitsArguments
    <3> DEFINE m == Len(script) + 1
    <3>3. /\ m \in 1 .. Len(script') /\ script'[m].kind = "arguments"
          /\ m > 1 => script'[m - 1].kind # "function"
      <4>1. m - 1 = Len(script) /\ (m > 1 <=> Len(script) > 0) /\ m \in 1 .. m
        BY <3>2
      <4> QED BY <1>1, <2>1, <3>2, <4>1
    <3>4. ~WellFormed'
      <4> HIDE DEF m
      <4> QED BY <3>3 DEF WellFormed
    <3> QED BY <3>1, <3>4 DEF Building, BuiltAsCalled
  <2> QED BY <2>3, <2>4
<1>5. ASSUME Build PROVE Building' /\ BuiltAsCalled'
  <2>1. /\ NothingWrong /\ values = FieldsFor(script) /\ script' = script
        /\ lastFn = IF AwaitsArguments THEN <<Last(script).name>> ELSE <<>>
    BY <1>0, <1>5 DEF Build, Building
  <2>2. lastFn = <<>> <=> ~AwaitsArguments
    BY <2>1, LastFunction
  <2>3. CASE lastFn = <<>>
    <3>1. tuple' = LindaTuple(values) /\ pc' = "built"
      BY <1>5, <2>3 DEF Build
    <3>2. values \in Seq(Value)
      BY <1>0 DEF WireInv, TypeOK
    <3>3. Fields(tuple') = values
      BY <3>1, <3>2, FieldsOfTuple
    <3>4. WellFormed
      <4>1. Len(script) \in Nat /\ (Len(script) > 0 => script[Len(script)].kind # "function")
        BY <1>0, <2>2, <2>3, LastCall DEF AwaitsArguments
      <4> SUFFICES ASSUME NEW i \in 1 .. Len(script)
                   PROVE  /\ script[i].kind = "function" =>
                                i < Len(script) /\ script[i + 1].kind # "function"
                          /\ script[i].kind = "arguments" => i > 1 /\ script[i - 1].kind = "function"
        BY DEF WellFormed
      <4>2. i < Len(script) \/ (i = Len(script) /\ Len(script) > 0)
        BY <4>1
      <4> QED BY <2>1, <4>1, <4>2 DEF NothingWrong
    <3>5. WellFormed' /\ FieldsCalledFor' = FieldsFor(script)
      BY <2>1, <3>4, FieldsForScript DEF WellFormed
    <3> QED BY <2>1, <3>1, <3>3, <3>5 DEF Building, BuiltAsCalled
  <2>4. CASE lastFn # <<>>
    <3>1. pc' = "threw"
      BY <1>5, <2>4 DEF Build
    <3>2. Len(script) > 0 /\ script[Len(script)].kind = "function" /\ Len(script) \in Nat
      BY <1>0, <2>2, <2>4, LastCall DEF AwaitsArguments
    <3>3. ~WellFormed'
      <4> DEFINE n == Len(script)
      <4>1. n \in 1 .. n /\ ~(n < n) /\ script[n].kind = "function"
        BY <3>2
      <4> QED BY <2>1, <4>1 DEF WellFormed
    <3> QED BY <3>1, <3>3 DEF Building, BuiltAsCalled
  <2> QED BY <2>3, <2>4
<1>6. ASSUME UNCHANGED <<script, tuple>>,
             \/ pc' = pc /\ UNCHANGED <<lastFn, values>>
             \/ pc \notin {"build", "threw"} /\ pc' \notin {"build", "threw"}
      PROVE  Building' /\ BuiltAsCalled'
  <2>1. /\ WellFormed' <=> WellFormed
        /\ NothingWrong' <=> NothingWrong
        /\ AwaitsArguments' <=> AwaitsArguments
        /\ FieldsCalledFor' = FieldsFor(script)
    BY <1>6, FieldsForScript DEF WellFormed, NothingWrong, AwaitsArguments
  <2> QED BY <1>0, <1>6, <2>1, FieldsForScript DEF Building, BuiltAsCalled
<1>7. CASE Send \/ Receive \/ Look \/ LookForTuple \/ ExecuteCall
  <2>1. UNCHANGED <<script, tuple>> /\ pc \notin {"build", "threw"} /\ pc' \notin {"build", "threw"}
    BY <1>7 DEF Send, Receive, Received, Look, LookForTuple, ExecuteCall, Executed
  <2>2. Building' /\ BuiltAsCalled'
    BY <1>6, <2>1
  <2> QED BY <1>0, <2>2 DEF BuildInv
<1>8. CASE UNCHANGED vars
  <2>1. Building' /\ BuiltAsCalled'
    BY <1>6, <1>8 DEF vars
  <2> QED BY <1>0, <2>1 DEF BuildInv
<1> QED BY <1>0, <1>2, <1>3, <1>4, <1>5, <1>7, <1>8 DEF Next, BuildInv

\* tuple_builder throws for the scripts that are not well formed, and makes of
\* the others the fields they call for.
THEOREM BuildersBuild == Spec => []BuiltAsCalled
<1>1. Init => BuildInv
  <2> SUFFICES ASSUME Init PROVE BuildInv
    OBVIOUS
  <2>1. script = <<>> /\ values = <<>> /\ lastFn = <<>> /\ pc = "build"
    BY DEF Init
  <2>2. WireInv /\ FieldsFor(<<>>) = <<>>
    BY InitWire, FieldsForMore
  <2>3. NothingWrong /\ ~AwaitsArguments
    BY <2>1 DEF NothingWrong, AwaitsArguments
  <2> QED BY <2>1, <2>2, <2>3 DEF BuildInv, Building, BuiltAsCalled
<1>2. BuildInv /\ [Next]_vars => BuildInv'
  BY StepBuild
<1>3. BuildInv => BuiltAsCalled
  BY DEF BuildInv
<1> QED BY <1>1, <1>2, <1>3, PTL DEF Spec

-----------------------------------------------------------------------------
(* Answers.                                                                *)

\* The variables of q after all that is in path.
FormalsAfter(tuples, q, path) ==
    LET after[n \in 0 .. Len(path)] ==
          IF n = 0 THEN [i \in 1 .. Len(q) |-> Unset]
          ELSE Written(after[n - 1], tuples[path[n]], q)
    IN  after[Len(path)]

LEMMA LastWritten ==
    ASSUME NEW tuples, NEW q, NEW S, NEW path \in Seq(S), path # <<>>,
           Agrees(tuples[Last(path)], q), NEW i \in 1 .. Len(q), q[i].kind = "type"
    PROVE  FormalsAfter(tuples, q, path)[i] = Fields(tuples[Last(path)])[i]
<1> DEFINE L == Len(path)
           D == 1 .. Len(q)
           X == {Unset} \cup {Fields(tuples[path[n]])[k] : n \in 1 .. L, k \in D}
           A == [D -> X]
           unset == [k \in D |-> Unset]
           write(n, vs) == Written(vs, tuples[path[n]], q)
           step == [n \in 1 .. L |-> [vs \in A |-> write(n, vs)]]
           body(f) == [n \in 0 .. L |-> IF n = 0 THEN [k \in 1 .. Len(q) |-> Unset]
                                        ELSE Written(f[n - 1], tuples[path[n]], q)]
           after == CHOOSE f : f = body(f)
<1>1. FormalsAfter(tuples, q, path) = after[L]
  BY DEF FormalsAfter
<1>2. L \in Nat /\ L > 0
  BY EmptySeq, LenProperties
<1>3. unset \in A
  OBVIOUS
<1>4. \A n \in 1 .. L, vs \in A : write(n, vs) \in A
  <2> TAKE n \in 1 .. L, vs \in A
  <2>1. \A k \in D : Fields(tuples[path[n]])[k] \in X /\ vs[k] \in X
    OBVIOUS
  <2> HIDE DEF X, D
  <2> QED BY <2>1 DEF Written
<1> HIDE DEF L, A, D, write
<1>5. step \in [1 .. L -> [A -> A]]
  BY <1>4
<1>6. PICK f \in [0 .. L -> A] : f[0] = unset /\ \A n \in 1 .. L : f[n] = write(n, f[n - 1])
  <2> HIDE DEF step, unset
  <2>1. Stepwise(L, A, unset, step) # {}
    BY <1>2, <1>3, <1>5, Steps
  <2>2. PICK f \in [0 .. L -> A] : f[0] = unset /\ \A n \in 1 .. L : f[n] = step[n][f[n - 1]]
    BY <2>1 DEF Stepwise
  <2>3. \A n \in 1 .. L : n - 1 \in 0 .. L /\ f[n - 1] \in A
    BY <1>2, <2>2
  <2> QED BY <2>2, <2>3 DEF step
<1>7. f = body(f)
  <2>1. \A n \in 0 .. L : n # 0 => n \in 1 .. L
    BY <1>2
  <2> QED BY <1>6, <2>1 DEF write, D
<1>8. after = body(after)
  <2> HIDE DEF body
  <2> QED BY <1>7
<1> HIDE DEF after
<1>9. \A n \in 0 .. L : after[n] = IF n = 0 THEN [k \in 1 .. Len(q) |-> Unset]
                                   ELSE Written(after[n - 1], tuples[path[n]], q)
  BY <1>8
<1>10. DOMAIN after[L - 1] = 1 .. Len(q)
  <2>1. L - 1 \in 0 .. L
    BY <1>2
  <2> DEFINE I == {n \in Nat : n <= L => DOMAIN after[n] = 1 .. Len(q)}
  <2>2. 0 \in I
    BY <1>2, <1>9
  <2>3. ASSUME NEW n \in Nat, n \in I PROVE n + 1 \in I
    <3> SUFFICES ASSUME n + 1 <= L PROVE DOMAIN after[n + 1] = 1 .. Len(q)
      OBVIOUS
    <3>1. n + 1 \in 0 .. L /\ n + 1 # 0 /\ (n + 1) - 1 = n /\ n <= L
      BY <1>2
    <3>2. after[n + 1] = Written(after[n], tuples[path[n + 1]], q) /\ DOMAIN after[n] = 1 .. Len(q)
      BY <1>9, <2>3, <3>1
    <3> QED BY <3>2 DEF Written
  <2>4. L - 1 \in I
    <3> HIDE DEF I
    <3>1. L - 1 \in Nat
      BY <1>2
    <3> QED BY <2>2, <2>3, <3>1, SetInduction
  <2> QED BY <1>2, <2>1, <2>4
<1>11. after[L] = Written(after[L - 1], tuples[Last(path)], q)
  <2>1. L \in 0 .. L /\ L # 0
    BY <1>2
  <2> QED BY <1>9, <2>1 DEF Last, L
<1> QED BY <1>1, <1>10, <1>11 DEF Written, Agrees

\* What an answer is.
LEMMA AnswerGiven ==
    ASSUME list \in Seq(Tuple), NEW q \in Seq(Matcher), Answered(q, Compared(list, q))
    PROVE  /\ query' = q
           /\ \/ /\ answer' \in 1 .. Len(list) /\ Agrees(list[answer'], q)
                 /\ \A i \in 1 .. Len(q) :
                       q[i].kind = "type" => formals'[i] = Fields(list[answer'])[i]
              \/ answer' = 0 /\ \A n \in 1 .. Len(list) : ~Agrees(list[n], q)
<1> DEFINE path == Compared(list, q)
<1>1. /\ query' = q /\ formals' = FormalsAfter(list, q, path)
      /\ answer' = IF path # <<>> /\ Agrees(list[Last(path)], q) THEN Last(path) ELSE 0
  BY DEF Answered, FormalsAfter
<1>2. /\ path \in Seq(1 .. Len(list))
      /\ \/ path # <<>> /\ Last(path) \in 1 .. Len(list) /\ Agrees(list[Last(path)], q)
         \/ /\ \A n \in 1 .. Len(list) : ~Agrees(list[n], q)
            /\ path # <<>> => Last(path) \in 1 .. Len(list) /\ ~Agrees(list[Last(path)], q)
  BY Comparisons DEF Tuple
<1> HIDE DEF path
<1>3. CASE path # <<>> /\ Agrees(list[Last(path)], q)
  <2>1. answer' = Last(path) /\ answer' \in 1 .. Len(list)
    BY <1>1, <1>2, <1>3
  <2>2. \A i \in 1 .. Len(q) : q[i].kind = "type" => formals'[i] = Fields(list[Last(path)])[i]
    BY <1>1, <1>2, <1>3, LastWritten
  <2> QED BY <1>1, <1>3, <2>1, <2>2
<1>4. CASE ~(path # <<>> /\ Agrees(list[Last(path)], q))
  BY <1>1, <1>2, <1>4
<1> QED BY <1>3, <1>4

\* A tuple agrees with a query iff it is what is asked for.
LEMMA Agreement ==
    ASSUME NEW t \in Tuple, NEW q \in Seq(Matcher), \A i \in 1 .. Len(q) : Distinguishes(q[i])
    PROVE  Agrees(t, q) <=> Meets(t, q)
<1>1. ASSUME t.size = Len(q), NEW i \in 1 .. Len(q)
      PROVE  FieldOrder(Fields(t)[i], q[i]) = 0 <=>
                IF q[i].kind = "type" THEN Fields(t)[i].type = q[i].type ELSE Fields(t)[i] = q[i].value
  <2>1. Fields(t)[i] \in Value
    BY <1>1, Tuples DEF Tuple
  <2>2. q[i] \in Matcher
    BY LenProperties
  <2>3. Distinguishes(q[i])
    OBVIOUS
  <2> QED BY <2>1, <2>2, <2>3, FieldOrders DEF Distinguishes
<1> QED BY <1>1 DEF Agrees, Meets

LEMMA Queried ==
    /\ \A t \in Tuple, shape \in Shapes : QueryFor(Fields(t), shape) \in Seq(Matcher)
    /\ \A t \in Tuple : /\ ConcreteQuery(t) \in Seq(Matcher) /\ Len(ConcreteQuery(t)) = t.size
                        /\ \A i \in 1 .. t.size :
                              ConcreteQuery(t)[i] = ByValue(Fields(t)[i]) /\ Fields(t)[i] \in Value
<1>1. ASSUME NEW kind, NEW v \in Value PROVE MatcherOf(kind, v) \in Matcher
  <2>1. CASE kind = "type"
    <3>1. MatcherOf(kind, v) = [kind |-> "type", type |-> v.type]
      BY <2>1 DEF MatcherOf
    <3>2. v.type \in ToSet(Types)
      BY TypesOfValues
    <3> QED BY <3>1, <3>2 DEF Matcher
  <2>2. CASE kind = "typed" /\ v.type \in Integral \cup {"string"}
    <3>1. MatcherOf(kind, v) = [kind |-> "typed", value |-> v]
      BY <2>2 DEF MatcherOf
    <3>2. v \in {u \in Value : u.type \in Integral \cup {"string"}}
      BY <2>2
    <3> QED BY <3>1, <3>2 DEF Matcher
  <2>3. CASE kind # "type" /\ ~(kind = "typed" /\ v.type \in Integral \cup {"string"})
    <3>1. MatcherOf(kind, v) = [kind |-> "value", value |-> v]
      BY <2>3 DEF MatcherOf
    <3> QED BY <3>1 DEF Matcher
  <2> QED BY <2>1, <2>2, <2>3
<1>2. ASSUME NEW t \in Tuple
      PROVE  /\ t.size \in Nat /\ t.size = Len(Fields(t))
             /\ \A i \in 1 .. t.size : Fields(t)[i] \in Value
  <2> DEFINE vs == Fields(t)
  <2>1. vs \in Seq(Value) /\ t.size = Len(vs)
    BY Tuples DEF Tuple, Sequence
  <2> HIDE DEF vs
  <2>2. Len(vs) \in Nat /\ \A i \in 1 .. Len(vs) : vs[i] \in Value
    BY <2>1, LenProperties
  <2> QED BY <2>1, <2>2 DEF vs
<1>3. ASSUME NEW n \in Nat, NEW s \in [1 .. n -> Matcher] PROVE s \in Seq(Matcher) /\ Len(s) = n
  <2>1. s \in Seq(Matcher) /\ DOMAIN s = 1 .. n
    BY <1>3, SeqDef
  <2>2. Len(s) \in Nat /\ DOMAIN s = 1 .. Len(s)
    BY <2>1, LenProperties
  <2> QED BY <1>3, <2>1, <2>2
<1>4. ASSUME NEW t \in Tuple, NEW shape \in Shapes PROVE QueryFor(Fields(t), shape) \in Seq(Matcher)
  <2> DEFINE n == t.size
  <2>1. n \in Nat /\ QueryFor(Fields(t), shape) \in [1 .. n -> Matcher]
    BY <1>1, <1>2 DEF QueryFor
  <2> HIDE DEF n
  <2> QED BY <1>3, <2>1
<1>5. ASSUME NEW t \in Tuple
      PROVE  /\ ConcreteQuery(t) \in Seq(Matcher) /\ Len(ConcreteQuery(t)) = t.size
             /\ \A i \in 1 .. t.size :
                   ConcreteQuery(t)[i] = ByValue(Fields(t)[i]) /\ Fields(t)[i] \in Value
  <2> DEFINE n == t.size
  <2>1. n \in Nat /\ \A i \in 1 .. n : Fields(t)[i] \in Value
    BY <1>2
  <2>2. \A v \in Value : ByValue(v) \in Matcher
    BY DEF ByValue, Matcher
  <2>3. ConcreteQuery(t) = [i \in 1 .. n |-> ByValue(Fields(t)[i])]
    BY DEF ConcreteQuery, ByValue
  <2> HIDE DEF n
  <2>4. ConcreteQuery(t) \in [1 .. n -> Matcher]
    BY <2>1, <2>2, <2>3
  <2>5. ConcreteQuery(t) \in Seq(Matcher) /\ Len(ConcreteQuery(t)) = n
    BY <1>3, <2>1, <2>4
  <2> QED BY <2>1, <2>3, <2>5 DEF n
<1> QED BY <1>4, <1>5

\* A call is executed iff it fits the function.
LEMMA Fitting ==
    ASSUME NEW c \in Value, c.type = "fncall"
    PROVE  Returns(c) <=> Fits(c)
<1> DEFINE vs == Fields(c.args)
<1>1. vs \in Seq(Value) /\ c.args.size = Len(vs)
  BY Depths, Tuples DEF Sequence
<1>2. TypesOfFields(vs) = [i \in 1 .. c.args.size |-> vs[i].type]
  BY <1>1 DEF TypesOfFields
<1>3. ASSUME c.name \in DOMAIN Registered
      PROVE  Accepts(Registered[c.name].params, vs) <=> TypesOfFields(vs) = Registered[c.name].params
  <2> DEFINE params == Registered[c.name].params
  <2>1. params \in Seq(ToSet(Types))
    BY <1>3, FunctionCallsAssumption
  <2> HIDE DEF params, vs
  <2>2. Accepts(params, vs) <=> TypesOfFields(vs) = params
    BY <1>1, <2>1, Acceptance
  <2> QED BY <2>2 DEF params
<1> QED BY <1>2, <1>3 DEF Returns, Fits

\* Nothing was executed before there is something to execute.
Unanswered ==
    /\ pc \notin {"executed", "aborted"} => call = 0
    /\ pc = "received" => list # <<>>

AnswerInv == WireInv /\ Unanswered /\ AnswersRight /\ FormalsHold /\ EvaluatedInPlace

LEMMA LookAnswers == AnswerInv /\ Look => AnswerInv'
<1> SUFFICES ASSUME AnswerInv, Look PROVE AnswerInv'
  OBVIOUS
<1>1. WireInv'
  BY StepWire DEF AnswerInv, Next
<1>2. /\ list \in Seq(Tuple) /\ tuple \in Tuple /\ pc = "received" /\ call = 0
      /\ pc' = "looked" /\ list' = list /\ call' = call
  BY DEF AnswerInv, WireInv, TypeOK, Unanswered, Look
<1>3. PICK q \in Seq(Matcher) : Answered(q, Compared(list, q))
  <2>1. PICK t \in Sought \cup {tuple}, shape \in Shapes :
           Answered(QueryFor(Fields(t), shape), Compared(list, QueryFor(Fields(t), shape)))
    BY DEF Look
  <2>2. t \in Tuple
    BY <1>2, <2>1, Assumed
  <2> QED BY <2>1, <2>2, Queried
<1>4. /\ query' = q
      /\ \/ /\ answer' \in 1 .. Len(list) /\ Agrees(list[answer'], q)
            /\ \A i \in 1 .. Len(q) : q[i].kind = "type" => formals'[i] = Fields(list[answer'])[i]
         \/ answer' = 0 /\ \A n \in 1 .. Len(list) : ~Agrees(list[n], q)
  BY <1>2, <1>3, AnswerGiven
<1>5. DOMAIN list = 1 .. Len(list) /\ \A n \in 1 .. Len(list) : list[n] \in Tuple
  BY <1>2, LenProperties
<1>6. AnswersRight'
  <2>1. ASSUME \A i \in 1 .. Len(q) : Distinguishes(q[i]), NEW n \in 1 .. Len(list)
        PROVE  Agrees(list[n], q) <=> Meets(list[n], q)
    BY <1>5, <2>1, Agreement
  <2>2. (\A i \in 1 .. Len(q) : Distinguishes(q[i])) =>
            IF answer' # 0 THEN Meets(list[answer'], q) ELSE \A n \in DOMAIN list : ~Meets(list[n], q)
    <3>1. \A n \in 1 .. Len(list) : n # 0
      OBVIOUS
    <3> QED BY <1>4, <1>5, <2>1, <3>1
  <2> QED BY <1>2, <1>4, <2>2 DEF AnswersRight
<1>7. FormalsHold'
  BY <1>2, <1>4 DEF FormalsHold
<1>8. Unanswered' /\ EvaluatedInPlace'
  BY <1>2 DEF Unanswered, EvaluatedInPlace
<1> QED BY <1>1, <1>6, <1>7, <1>8 DEF AnswerInv

LEMMA LookForTupleAnswers == AnswerInv /\ LookForTuple => AnswerInv'
<1> SUFFICES ASSUME AnswerInv, LookForTuple PROVE AnswerInv'
  OBVIOUS
<1>1. WireInv'
  BY StepWire DEF AnswerInv, Next
<1>2. /\ list \in Seq(Tuple) /\ tuple \in Tuple /\ pc = "received" /\ call = 0
      /\ list' = list /\ call' = call
  BY DEF AnswerInv, WireInv, TypeOK, Unanswered, LookForTuple
<1>3. PICK t \in Sought \cup {tuple} :
         IF Asserts(list, ConcreteQuery(t))
         THEN query' = ConcreteQuery(t) /\ pc' = "aborted" /\ UNCHANGED <<formals, answer>>
         ELSE Answered(ConcreteQuery(t), Compared(list, ConcreteQuery(t))) /\ pc' = "looked"
  BY DEF LookForTuple
<1> DEFINE q == ConcreteQuery(t)
<1>4. t \in Tuple
  BY <1>2, <1>3, Assumed
<1>5. /\ q \in Seq(Matcher) /\ Len(q) = t.size
      /\ \A i \in 1 .. Len(q) : q[i] = ByValue(Fields(t)[i]) /\ Fields(t)[i] \in Value
  BY <1>4, Queried
<1> HIDE DEF q
<1>6. DOMAIN list = 1 .. Len(list) /\ \A n \in 1 .. Len(list) : list[n] \in Tuple
  BY <1>2, LenProperties
<1>7. Unanswered' /\ EvaluatedInPlace'
  BY <1>2, <1>3 DEF Unanswered, EvaluatedInPlace
<1>8. CASE Asserts(list, q)
  <2>1. query' = q /\ pc' = "aborted"
    BY <1>3, <1>8 DEF q
  <2>2. Len(q) < 2 /\ \A i \in 1 .. Len(q) : \A n \in ToSet(Column(list, i, q)) : ~Agrees(list[n], q)
    BY <1>8 DEF Asserts
  <2>3. ASSUME NEW n \in 1 .. Len(list), Len(q) = 1, Meets(list[n], q) PROVE FALSE
    <3> DEFINE v == Fields(t)[1]
    <3>1. 1 \in 1 .. Len(q) /\ q[1] = ByValue(v) /\ v \in Value
      BY <1>5, <2>3
    <3>2. list[n].size = 1 /\ Fields(list[n])[1] = v
      BY <2>3, <3>1 DEF Meets, ByValue
    <3> HIDE DEF v
    <3>3. Compare(v, v) = 0
      BY <3>1, ValueOrder
    <3>4. list \in Seq(TuplesOf(Value))
      BY <1>2 DEF Tuple
    <3>5. n \in ToSet(Column(list, 1, q))
      <4>1. 1 <= Len(q) /\ 1 <= list[n].size /\ Compare(Fields(list[n])[1], v) = 0 /\ 1 \in Nat \ {0}
        BY <2>3, <3>2, <3>3
      <4> QED BY <1>5, <3>1, <3>4, <4>1, Columns
    <3>6. Agrees(list[n], q)
      <4>1. \A i \in 1 .. Len(q) : i = 1
        BY <2>3
      <4>2. FieldOrder(Fields(list[n])[1], q[1]) = 0
        BY <3>1, <3>2, <3>3, FieldOrders DEF ByValue
      <4> QED BY <2>3, <3>2, <4>1, <4>2 DEF Agrees
    <3> QED BY <2>2, <3>1, <3>5, <3>6
  <2>4. AnswersRight'
    BY <1>2, <1>6, <2>1, <2>2, <2>3 DEF AnswersRight
  <2>5. FormalsHold'
    BY <2>1 DEF FormalsHold
  <2> QED BY <1>1, <1>7, <2>4, <2>5 DEF AnswerInv
<1>9. CASE ~Asserts(list, q)
  <2>1. Answered(q, Compared(list, q)) /\ pc' = "looked"
    BY <1>3, <1>9 DEF q
  <2>2. /\ query' = q
        /\ \/ /\ answer' \in 1 .. Len(list) /\ Agrees(list[answer'], q)
              /\ \A i \in 1 .. Len(q) : q[i].kind = "type" => formals'[i] = Fields(list[answer'])[i]
           \/ answer' = 0 /\ \A n \in 1 .. Len(list) : ~Agrees(list[n], q)
    BY <1>2, <1>5, <2>1, AnswerGiven
  <2>3. ASSUME \A i \in 1 .. Len(q) : Distinguishes(q[i]), NEW n \in 1 .. Len(list)
        PROVE  Agrees(list[n], q) <=> Meets(list[n], q)
    BY <1>5, <1>6, <2>3, Agreement
  <2>4. (\A i \in 1 .. Len(q) : Distinguishes(q[i])) =>
            IF answer' # 0 THEN Meets(list[answer'], q) ELSE \A n \in DOMAIN list : ~Meets(list[n], q)
    <3>1. \A n \in 1 .. Len(list) : n # 0
      OBVIOUS
    <3> QED BY <1>6, <2>2, <2>3, <3>1
  <2>5. AnswersRight'
    BY <1>2, <2>1, <2>2, <2>4 DEF AnswersRight
  <2>6. FormalsHold'
    BY <1>2, <2>1, <2>2 DEF FormalsHold
  <2> QED BY <1>1, <1>7, <2>5, <2>6 DEF AnswerInv
<1> QED BY <1>8, <1>9

LEMMA ExecuteCallAnswers == AnswerInv /\ ExecuteCall => AnswerInv'
<1> SUFFICES ASSUME AnswerInv, ExecuteCall PROVE AnswerInv'
  OBVIOUS
<1>1. WireInv'
  BY StepWire DEF AnswerInv, Next
<1>2. /\ list \in Seq(Tuple) /\ pc = "received" /\ list # <<>> /\ list' = list
      /\ query' = query /\ formals' = formals /\ answer' = answer
  BY DEF AnswerInv, WireInv, TypeOK, Unanswered, ExecuteCall
<1> DEFINE t == Last(list)
           fields == Fields(t)
<1>3. PICK j \in 1 .. t.size : Executed(fields, j)
  BY DEF ExecuteCall
<1>4. t \in Tuple
  <2>1. Len(list) \in 1 .. Len(list)
    BY <1>2, EmptySeq, LenProperties
  <2> QED BY <1>2, <2>1, LenProperties DEF Last
<1>5. fields \in Seq(Value) /\ t.size = Len(fields)
  BY <1>4, Tuples DEF Tuple, Sequence
<1> HIDE DEF t, fields
<1>6. j \in 1 .. Len(fields) /\ fields[j] \in Value /\ fields[j].type = "fncall" /\ call' = j /\ j # 0
  <2>1. j \in 1 .. Len(fields) /\ j # 0
    BY <1>3, <1>5
  <2> QED BY <1>3, <1>5, <2>1, LenProperties DEF Executed
<1>7. fields = Fields(Last(list'))
  BY <1>2 DEF fields, t
<1>8. Returns(fields[j]) <=> Fits(fields[j])
  BY <1>6, Fitting
<1>9. CASE Returns(fields[j])
  <2>1. pc' = "executed" /\ result' = Execute(fields[j], j - 1, LindaTuple(RemoveAt(fields, j)))
    BY <1>3, <1>9 DEF Executed
  <2>2. Fields(result') = [fields EXCEPT ![j] = Registered[fields[j].name].result]
    BY ZenonT(30), <1>5, <1>6, <2>1, Replaced
  <2>3. EvaluatedInPlace'
    BY <1>6, <1>7, <1>8, <1>9, <2>2 DEF EvaluatedInPlace
  <2> QED BY <1>1, <2>1, <2>3 DEF AnswerInv, Unanswered, AnswersRight, FormalsHold
<1>10. CASE ~Returns(fields[j])
  <2>1. pc' = "aborted"
    BY <1>3, <1>10 DEF Executed
  <2>2. EvaluatedInPlace'
    BY <1>6, <1>7, <1>8, <1>10, <2>1 DEF EvaluatedInPlace
  <2> QED BY <1>1, <1>6, <2>1, <2>2 DEF AnswerInv, Unanswered, AnswersRight, FormalsHold
<1> QED BY <1>9, <1>10

LEMMA AnswerInvariant == Spec => []AnswerInv
<1>1. Init => AnswerInv
  BY InitWire DEF Init, AnswerInv, Unanswered, AnswersRight, FormalsHold, EvaluatedInPlace
<1>2. AnswerInv /\ [Next]_vars => AnswerInv'
  <2> SUFFICES ASSUME AnswerInv, [Next]_vars PROVE AnswerInv'
    OBVIOUS
  <2>1. WireInv /\ WireInv' /\ Unanswered
    BY StepWire DEF AnswerInv
  <2>2. ASSUME call' = call, pc \notin {"executed", "aborted"},
               pc' \notin {"looked", "aborted", "received"}
        PROVE  AnswerInv'
    BY <2>1, <2>2 DEF AnswerInv, Unanswered, AnswersRight, FormalsHold, EvaluatedInPlace
  <2>3. ASSUME NEW c \in Calls, AddValue(c) \/ AddFunction(c) \/ AddArguments(c) PROVE AnswerInv'
    BY <2>2, <2>3 DEF AddValue, AddFunction, AddArguments, Called
  <2>4. CASE Build \/ Send
    BY <2>2, <2>4 DEF Build, Send
  <2>5. CASE Receive
    <3>1. call' = 0 /\ (pc' = "received" \/ pc' = "garbled")
      BY <2>1, <2>5 DEF Receive, Received, Unanswered
    <3>2. pc' = "received" => list' # <<>>
      <4>1. list \in Seq(Tuple) /\ list' \in Seq(Tuple)
        BY <2>1 DEF WireInv, TypeOK
      <4>2. pc' = "received" => \E u : list' = Append(list, u)
        BY <2>5 DEF Receive, Received
      <4>3. \A u : Append(list, u) # <<>>
        <5> TAKE u
        <5>1. Seq(Tuple) \subseteq Seq(Tuple \cup {u})
          BY SeqMonotonic
        <5>2. list \in Seq(Tuple \cup {u})
          BY <4>1, <5>1
        <5> QED BY <5>2, AppendProperties
      <4> QED BY <4>2, <4>3
    <3> QED BY <2>1, <3>1, <3>2 DEF AnswerInv, Unanswered, AnswersRight, FormalsHold, EvaluatedInPlace
  <2>6. CASE UNCHANGED vars
    BY <2>1, <2>6 DEF vars, AnswerInv, Unanswered, AnswersRight, FormalsHold, EvaluatedInPlace, Fits
  <2> QED BY <2>3, <2>4, <2>5, <2>6, LookAnswers, LookForTupleAnswers, ExecuteCallAnswers DEF Next
<1> QED BY <1>1, <1>2, PTL DEF Spec

\* A query is answered with a tuple that meets it, and not only if the list has
\* none; one that aborts asks for a tuple of one field or none that is not there.
THEOREM QueriesAnswered == Spec => []AnswersRight
<1>1. AnswerInv => AnswersRight
  BY DEF AnswerInv
<1> QED BY <1>1, AnswerInvariant, PTL

\* The variables of a query hold the fields of the tuple it was answered with.
THEOREM VariablesHold == Spec => []FormalsHold
<1>1. AnswerInv => FormalsHold
  BY DEF AnswerInv
<1> QED BY <1>1, AnswerInvariant, PTL

\* A call that came over the wire is executed iff its arguments fit, and what
\* it returns takes its place among the other fields.
THEOREM CallsInPlace == Spec => []EvaluatedInPlace
<1>1. AnswerInv => EvaluatedInPlace
  BY DEF AnswerInv
<1> QED BY <1>1, AnswerInvariant, PTL
=============================================================================
