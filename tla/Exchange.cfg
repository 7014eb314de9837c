SPECIFICATION Spec
CONSTANTS
    Radix = 12
    MaxNesting = 3
    Registered <- SomeRegistered
    Calls <- SomeCalls
    MaxCalls = 5
    Stored <- SomeStored
    Sought <- SomeSought
    Shapes <- AllShapes
INVARIANTS BuiltAsCalled SizeExact RoundTrip AnswersRight FormalsHold EvaluatedInPlace
CHECK_DEADLOCK FALSE
