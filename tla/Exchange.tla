------------------------------ MODULE Exchange ------------------------------
(***************************************************************************)
(* One tuple's way from a program to another rank: tuple_builder collects  *)
(* its fields, broadcast_insert serializes it, the receiver thread of the  *)
(* other rank deserializes it and puts it into its store, where queries    *)
(* look for it, or a function call in it is executed.                      *)
(*                                                                         *)
(* Messages, locks and the life of entries in the indices are the matter   *)
(* of Runtime and Store; here it is what happens to the data.              *)
(***************************************************************************)
EXTENDS Serialization, Queries, FunctionCalls

CONSTANTS
    Calls,       \* what tuple_builder may be called with
    MaxCalls,    \* bound: calls of a builder
    Stored,      \* the tuples that are in the receiver's list before
    Sought,      \* tuples that queries are made of, beside the sent one
    Shapes       \* which matchers a query uses: of the first field, of the others

\* There is no more to send than size_t can count.
ExchangeAssumption ==
    LET Argument == Nested[MaxNesting - 1] IN
    /\ MaxNesting > 0
    /\ MaxCalls \in Number(SizeOf.size)
    /\ Calls \subseteq [kind : {"value"}, value : Argument]
                        \cup [kind : {"function"}, name : Sequence(Byte)]
                        \cup [kind : {"arguments"}, args : Sequence(Argument)]
    /\ Stored \in Seq(TuplesOf(Value))
    /\ Sought \subseteq TuplesOf(Value)

ASSUME ExchangeAssumption

VARIABLES
    machine,     \* the byte orders of the two ranks
    script,      \* the calls so far (a history of what the program wrote)
    lastFn,      \* _last_fn: <<>>, or <<the name of the function>>
    values,      \* _values
    tuple,       \* what build returned
    buffer,      \* what is sent
    list,        \* the receiver's tuples
    query,       \* the query that was asked
    formals,     \* its variables
    answer,      \* the position of the tuple it was answered with, 0 if none
    call,        \* the position of the field that was executed, 0 if none
    result,      \* the tuple that gave
    pc           \* "build", "threw", "built", "sent", "received", "garbled",
                 \* "looked", "executed", "aborted"

vars == <<machine, script, lastFn, values, tuple, buffer, list, query, formals,
          answer, call, result, pc>>

NoTuple == LindaTuple(<<>>)

Init ==
    /\ machine \in [{"sender", "receiver"} -> Endian]
    /\ script = <<>>
    /\ lastFn = <<>>
    /\ values = <<>>
    /\ tuple = NoTuple
    /\ buffer = [size |-> 0, written |-> <<>>]
    /\ list = Stored
    /\ query = <<>>
    /\ formals = <<>>
    /\ answer = 0
    /\ call = 0
    /\ result = NoTuple
    /\ pc = "build"

-----------------------------------------------------------------------------
(* tuple_builder.  A call with a value, with a function, or with several   *)
(* arguments or none.                                                      *)

Called(c) ==
    /\ pc = "build"
    /\ Len(script) < MaxCalls
    /\ script' = Append(script, c)
    /\ UNCHANGED <<machine, tuple, buffer, list, query, formals, answer, call, result>>

\* Mutant: the function waits for arguments still.
AddValueAndWait(c) ==
    /\ c.kind = "value"
    /\ Called(c)
    /\ values' = Append(values, IF lastFn = <<>> THEN c.value
                                ELSE FnCall(lastFn[1], <<c.value>>))
    /\ UNCHANGED <<lastFn, pc>>

\* add_value: a field, or the one argument of the function before it.
AddValue(c) ==
    /\ c.kind = "value"
    /\ Called(c)
    /\ values' = Append(values, IF lastFn = <<>> THEN c.value
                                ELSE FnCall(lastFn[1], <<c.value>>))
    /\ lastFn' = <<>>
    /\ UNCHANGED pc

\* add_function: a second function before the arguments throws.
AddFunction(c) ==
    /\ c.kind = "function"
    /\ Called(c)
    /\ IF lastFn = <<>>
       THEN lastFn' = <<c.name>> /\ UNCHANGED pc
       ELSE pc' = "threw" /\ UNCHANGED lastFn
    /\ UNCHANGED values

\* add_arguments: arguments without a function throw.
AddArguments(c) ==
    /\ c.kind = "arguments"
    /\ Called(c)
    /\ IF lastFn = <<>>
       THEN pc' = "threw" /\ UNCHANGED <<lastFn, values>>
       ELSE /\ values' = Append(values, FnCall(lastFn[1], c.args))
            /\ lastFn' = <<>>
            /\ UNCHANGED pc

\* build
Build ==
    /\ pc = "build"
    /\ IF lastFn = <<>>
       THEN tuple' = LindaTuple(values) /\ pc' = "built"
       ELSE pc' = "threw" /\ UNCHANGED tuple
    /\ UNCHANGED <<machine, script, lastFn, values, buffer, list, query, formals,
                   answer, call, result>>

-----------------------------------------------------------------------------
(* The way to the other rank.                                              *)

\* broadcast_with_tag
Send ==
    /\ pc = "built"
    /\ buffer' = Serialize(machine.sender, tuple)
    /\ pc' = "sent"
    /\ UNCHANGED <<machine, script, lastFn, values, tuple, list, query, formals,
                   answer, call, result>>

\* recv_thread_worker: what came is deserialized and put into the store.
Received(got) ==
    IF got.ok
    THEN list' = Append(list, got.value) /\ pc' = "received"
    ELSE pc' = "garbled" /\ UNCHANGED list

Receive ==
    /\ pc = "sent"
    /\ Received(Deserialize(machine.receiver, Buffer(buffer)))
    /\ UNCHANGED <<machine, script, lastFn, values, tuple, buffer, query, formals,
                   answer, call, result>>

-----------------------------------------------------------------------------
(* What is done with it there.                                             *)

\* The matcher of kind for a value; of floats and calls there are none of
\* plain C++ values.
MatcherOf(kind, v) ==
    CASE kind = "type" -> [kind |-> "type", type |-> v.type]
      [] kind = "typed" /\ v.type \in Integral \cup {"string"} ->
            [kind |-> "typed", value |-> v]
      [] OTHER -> [kind |-> "value", value |-> v]

QueryFor(vs, shape) ==
    [i \in 1 .. Len(vs) |-> MatcherOf(IF i = 1 THEN shape.first ELSE shape.others, vs[i])]

\* rdp: the query goes through the indices and the list, and its variables are
\* written on the way.
Answered(q, path) ==
    /\ query' = q
    /\ formals' = LET after[n \in 0 .. Len(path)] ==
                        IF n = 0 THEN [i \in 1 .. Len(q) |-> Unset]
                        ELSE Written(after[n - 1], list[path[n]], q)
                  IN  after[Len(path)]
    /\ answer' = IF path # <<>> /\ Agrees(list[Last(path)], q) THEN Last(path) ELSE 0

Look ==
    /\ pc = "received"
    /\ \E t \in Sought \cup {tuple}, shape \in Shapes :
         Answered(QueryFor(Fields(t), shape), Compared(list, QueryFor(Fields(t), shape)))
    /\ pc' = "looked"
    /\ UNCHANGED <<machine, script, lastFn, values, tuple, buffer, list, call, result>>

\* The same for a whole tuple, as remove_nosignal looks for it.
LookForTuple ==
    /\ pc = "received"
    /\ \E t \in Sought \cup {tuple} :
         IF Asserts(list, ConcreteQuery(t))
         THEN query' = ConcreteQuery(t) /\ pc' = "aborted" /\ UNCHANGED <<formals, answer>>
         ELSE Answered(ConcreteQuery(t), Compared(list, ConcreteQuery(t))) /\ pc' = "looked"
    /\ UNCHANGED <<machine, script, lastFn, values, tuple, buffer, list, call, result>>

\* A function call in the tuple is executed, with the other fields around it.
Executed(fields, j) ==
    /\ fields[j].type = "fncall"
    /\ call' = j
    /\ IF Returns(fields[j])
       THEN /\ result' = Execute(fields[j], j - 1, LindaTuple(RemoveAt(fields, j)))
            /\ pc' = "executed"
       ELSE pc' = "aborted" /\ UNCHANGED result

ExecuteCall ==
    /\ pc = "received"
    /\ \E j \in 1 .. Last(list).size : Executed(Fields(Last(list)), j)
    /\ UNCHANGED <<machine, script, lastFn, values, tuple, buffer, list, query, formals,
                   answer>>

Next ==
    \/ \E c \in Calls : AddValue(c) \/ AddFunction(c) \/ AddArguments(c)
    \/ Build \/ Send \/ Receive \/ Look \/ LookForTuple \/ ExecuteCall

Spec == Init /\ [][Next]_vars

-----------------------------------------------------------------------------
(* Properties.                                                             *)

\* Each function is followed by a value or by arguments, and arguments follow
\* a function.
WellFormed ==
    \A i \in 1 .. Len(script) :
        /\ script[i].kind = "function" =>
              i < Len(script) /\ script[i + 1].kind # "function"
        /\ script[i].kind = "arguments" => i > 1 /\ script[i - 1].kind = "function"

\* The fields that the first n calls of the script are for, if it is well
\* formed: one for each value and each function, with what comes after it.
FieldsCalledFor ==
    LET ArgsOf(c) == IF c.kind = "value" THEN <<c.value>> ELSE c.args
        fields[n \in 0 .. Len(script)] ==
          IF n = 0 THEN <<>>
          ELSE IF script[n].kind = "function" THEN fields[n - 1]
          ELSE Append(fields[n - 1],
                      IF n > 1 /\ script[n - 1].kind = "function"
                      THEN FnCall(script[n - 1].name, ArgsOf(script[n]))
                      ELSE script[n].value)
    IN  fields[Len(script)]

\* tuple_builder throws for exactly the scripts that are not well formed, at
\* whichever call it finds out, and of the others it makes one field for each
\* value and each function with what follows it; wherever linda_tuple keeps a
\* field, at and around the end of its array, an iterator finds it in place.
BuiltAsCalled ==
    /\ pc = "threw" => ~WellFormed
    /\ pc \notin {"build", "threw"} => WellFormed /\ Fields(tuple) = FieldsCalledFor

\* The buffer, whose size is computed before anything is written, is filled
\* to its last byte and not written past it, also by calls within calls.
SizeExact == pc = "sent" => Len(buffer.written) = buffer.size

\* A value without floats.
Portable[v \in Value] ==
    /\ v.type \notin Floating
    /\ v.type = "fncall" => \A i \in 1 .. v.args.size : Portable[GetAt(v.args, i - 1)]

\* What was sent arrives: no assertion of deserialize fails, and each field,
\* with the arguments of a call and their arguments, has its type and its
\* value on a machine of either byte order.  Floats arrive only on a machine
\* of the sender's byte order, because their bytes are not swapped.
RoundTrip ==
    /\ pc # "garbled"
    /\ pc = "received" =>
         LET sent == Fields(tuple)
             got  == Fields(Last(list))
         IN  /\ Len(got) = Len(sent)
             /\ \A i \in 1 .. Len(sent) :
                  /\ got[i].type = sent[i].type
                  /\ machine.sender = machine.receiver \/ Portable[sent[i]] =>
                        got[i] = sent[i]

\* What a query asks for.
Meets(t, q) ==
    /\ t.size = Len(q)
    /\ \A i \in 1 .. Len(q) :
         IF q[i].kind = "type" THEN Fields(t)[i].type = q[i].type
         ELSE Fields(t)[i] = q[i].value

\* Not so a plain int16, which is taken to equal the values of all other types,
\* and a function call, which equals those of the same function.
Distinguishes(m) ==
    /\ m.kind = "typed" => m.value.type # "int16"
    /\ m.kind # "type"  => m.value.type # "fncall"

\* A query is answered with a tuple of its size, types and values, and not at
\* all only if the list has none: that plain values are compared the wrong way
\* around, and looked up in an index by that order, costs no answer.  Only the
\* query for a tuple of one field or none, and that is not in an index, aborts.
AnswersRight ==
    /\ pc = "aborted" /\ call = 0 =>
          Len(query) < 2 /\ \A n \in DOMAIN list : Len(query) = 1 => ~Meets(list[n], query)
    /\ pc = "looked" /\ (\A i \in 1 .. Len(query) : Distinguishes(query[i])) =>
          IF answer # 0 THEN Meets(list[answer], query)
          ELSE \A n \in DOMAIN list : ~Meets(list[n], query)

\* After an answer each variable has the field of the tuple that was the
\* answer, though the tuples that were looked at before have written to it.
FormalsHold ==
    pc = "looked" /\ answer # 0 =>
        \A i \in 1 .. Len(query) :
            query[i].kind = "type" => formals[i] = Fields(list[answer])[i]

Fits(c) ==
    /\ c.name \in DOMAIN Registered
    /\ [i \in 1 .. c.args.size |-> Fields(c.args)[i].type] = Registered[c.name].params

\* A call that came over the wire is executed iff its arguments have the number
\* and the types of the function's parameters, and its result takes its place.
EvaluatedInPlace ==
    call # 0 =>
        LET fields == Fields(Last(list)) IN
        IF Fits(fields[call])
        THEN Fields(result) =
                [fields EXCEPT ![call] = Registered[fields[call].name].result]
        ELSE pc = "aborted"
=============================================================================
