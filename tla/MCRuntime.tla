------------------------------ MODULE MCRuntime ------------------------------
(* Programs with which TLC checks Runtime. *)
EXTENDS Runtime, TLC

CONSTANTS a, b, c, r0, r1, r2    \* tuples, ranks

Out(t) == [op |-> "out", tuple |-> t]
Ask(op, ts) == [op |-> op, wanted |-> ts]

\* test/lindart.cxx on three ranks: the others put a tuple each, rank 0 takes
\* one after the other.
Lindart ==
    {r0 :> <<Ask("in", {a}), Ask("in", {b})>> @@ r1 :> <<Out(a)>> @@ r2 :> <<Out(b)>>}

\* That program; one in which rank 1 puts two equal tuples and rank 2 takes
\* one, and the other if it is there; and one in which rank 1 puts, takes and
\* puts its own tuple while rank 0 looks for it.
Handovers ==
    Lindart \cup
    {r0 :> <<>> @@ r1 :> <<Out(b), Out(b)>> @@ r2 :> <<Ask("in", {b}), Ask("inp", {b})>>,
     r0 :> <<Ask("rd", {c})>> @@ r1 :> <<Out(c), Ask("in", {c}), Out(c)>> @@ r2 :> <<>>}

\* Put here, taken here and there.
TwoTakers ==
    {r0 :> <<Ask("in", {a})>> @@ r1 :> <<Out(a), Ask("inp", {a})>>}
=============================================================================
