---------------------------- MODULE FunctionCalls ----------------------------
(***************************************************************************)
(* Function calls that tuples carry: fn_call_holder::execute and the       *)
(* adapter that hands a tuple of arguments to a C++ function.              *)
(***************************************************************************)
EXTENDS Values

CONSTANT Registered   \* gLdb_Dynamic_Function_Map: by a name, the types of the
                      \* parameters and what a call returns

ASSUME FunctionCallsAssumption ==
    \A name \in DOMAIN Registered : Registered[name].params \in Seq(ToSet(Types))

\* Mutant: arguments the function does not take are passed over.
AcceptsAndMore(params, args) ==
    LET accepts[n \in 1 .. Len(params) + 1] ==
          \/ n > Len(params)
          \/ n <= Len(args) /\ args[n].type = params[n] /\ accepts[n + 1]
    IN  accepts[1]

\* typed_tuple_builder: from the n-th on, a parameter takes the next argument
\* if it is of its type, and the last one leaves none.
Accepts(params, args) ==
    LET accepts[n \in 1 .. Len(params) + 1] ==
          IF n > Len(params) THEN Len(args) < n
          ELSE n <= Len(args) /\ args[n].type = params[n] /\ accepts[n + 1]
    IN  accepts[1]

\* Whether the call returns: an assertion fails if not.
Returns(call) ==
    call.name \in DOMAIN Registered /\ Accepts(Registered[call.name].params, Fields(call.args))

\* fn_call_holder::execute, of a call that returns: its result among elements.
Execute(call, after_prefix, elements) ==
    LET fields == Fields(elements)
    IN  LindaTuple(SubSeq(fields, 1, after_prefix)
                   \o <<Registered[call.name].result>>
                   \o SubSeq(fields, after_prefix + 1, Len(fields)))
=============================================================================
