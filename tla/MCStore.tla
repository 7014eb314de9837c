------------------------------- MODULE MCStore -------------------------------
(* Threads and calls with which TLC checks Store. *)
EXTENDS Store

CONSTANTS t1, t2, t3      \* threads

Once  == [th \in Thread |-> 1]
Twice == [th \in Thread |-> 2]
Thrice == [th \in Thread |-> 3]
Often == [th \in Thread |-> 5]
OneOfThemOnce == [th \in Thread |-> IF th = t1 THEN 1 ELSE 2]

SlotSymmetry == Permutations(Slot)

Put(op, t) == [op |-> op, tuple |-> t]
Ask(op, kind, pat) == [op |-> op, query |-> [kind |-> kind, pat |-> pat]]

\* Outs of tuples that share keys, the one thread that waits, which looks for
\* them through both indices, by value and by scan, and the receiver thread's
\* two operations.
MixedCalls ==
    t1 :> {Put("out", <<1, 1>>), Put("out", <<1, 2>>)} @@
    t2 :> {Ask("inp", "typed", <<1, Formal>>), Ask("in", "value", <<Formal, 1>>),
           Ask("rd", "value", <<2, 1>>)} @@
    t3 :> {Put("remove_nosignal", <<1, 1>>), Put("out_nosignal", <<2, 1>>)}

\* One thread, tuples of one field, queries by linda_value.
OneFieldCalls ==
    t1 :> {Put("out", <<1>>), Put("out", <<2>>), Put("out_nosignal", <<3>>),
           Ask("inp", "value", <<1>>), Ask("inp", "value", <<2>>),
           Ask("rdp", "value", <<3>>)}

\* Put a tuple, take it by its first field, look for its second.
StaleCalls ==
    t1 :> {Put("out", <<1, 2>>), Ask("inp", "typed", <<1, Formal>>),
           Ask("rdp", "typed", <<Formal, 2>>)}

\* Put and take tuples of one field, in two threads.
RaceCalls ==
    t1 :> {Put("out", <<1>>)} @@
    t2 :> {Ask("inp", "value", <<1>>)}

\* Wait for a tuple that another thread puts.
HandoverCalls ==
    t1 :> {Ask("in", "typed", <<1, Formal>>)} @@
    t2 :> {Put("out", <<1, 2>>)}

\* Two threads wait for two tuples.
TwoWaitCalls ==
    t1 :> {Ask("in", "typed", <<1, Formal>>)} @@
    t2 :> {Put("out", <<1, 2>>)} @@
    t3 :> {Ask("rd", "typed", <<2, Formal>>)}
=============================================================================
