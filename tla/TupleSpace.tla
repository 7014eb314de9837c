----------------------------- MODULE TupleSpace -----------------------------
(***************************************************************************)
(* What a store promises to the threads that use it, whatever its indices, *)
(* locks and condition variable do: every call takes effect in one step    *)
(* between its start and its return, an out adds one occurrence of its     *)
(* tuple (or pays one owed removal), a removing call takes one matching    *)
(* occurrence away and answers it, a reading call answers one that is      *)
(* there, and a call that may fail fails only when nothing matches.        *)
(*                                                                         *)
(* A place stands for one occurrence of a tuple, so the space is a bag.    *)
(***************************************************************************)
EXTENDS Tuples

CONSTANTS
    Thread,   \* the threads that call the store
    Place,    \* the occurrences the space has room for
    Calls,    \* Calls[th]: the calls thread th may make
    None      \* no tuple: an empty place, no answer, no call

VARIABLES
    space,    \* space[p]: the tuple at place p, or None
    owed,     \* the tuples whose removal was asked for before they came
    phase,    \* phase[th]: how far the call of th has got
    call,     \* call[th]: the call th made last
    ans,      \* ans[th]: what that call answered
    failed    \* the process has gone wrong: it takes no further step

vars == <<space, owed, phase, call, ans, failed>>

Init ==
    /\ space = [p \in Place |-> None]
    /\ owed = {}
    /\ phase = [th \in Thread |-> "idle"]
    /\ call = [th \in Thread |-> None]
    /\ ans = [th \in Thread |-> None]
    /\ failed = FALSE

Invoke(th) ==
    /\ phase[th] = "idle"
    /\ \E c \in Calls[th] : call' = [call EXCEPT ![th] = c]
    /\ phase' = [phase EXCEPT ![th] = "called"]
    /\ ans' = [ans EXCEPT ![th] = None]
    /\ UNCHANGED <<space, owed, failed>>

\* An out whose tuple is owed pays the debt: the tuple never appears.
Cancel(th) ==
    /\ phase[th] = "called" /\ IsOut(call[th])
    /\ call[th].tuple \in owed
    /\ owed' = owed \ {call[th].tuple}
    /\ phase' = [phase EXCEPT ![th] = "idle"]
    /\ UNCHANGED <<space, call, ans, failed>>

\* Any other out is let in ...
Admit(th) ==
    /\ phase[th] = "called" /\ IsOut(call[th])
    /\ call[th].tuple \notin owed
    /\ phase' = [phase EXCEPT ![th] = "admitted"]
    /\ UNCHANGED <<space, owed, call, ans, failed>>

\* ... and its tuple appears, once, ...
Add(th) ==
    /\ phase[th] = "admitted"
    /\ \E p \in Place : /\ space[p] = None
                        /\ space' = [space EXCEPT ![p] = call[th].tuple]
    /\ phase' = [phase EXCEPT ![th] = "added"]
    /\ UNCHANGED <<owed, call, ans, failed>>

\* ... before it returns.
Return(th) ==
    /\ phase[th] = "added"
    /\ phase' = [phase EXCEPT ![th] = "idle"]
    /\ UNCHANGED <<space, owed, call, ans, failed>>

\* in, inp, rd, rdp and remove_nosignal answer a tuple that is there and that
\* matches; the removing ones take that occurrence away.
Answer(th) ==
    /\ phase[th] = "called" /\ ~IsOut(call[th])
    /\ \E p \in Place :
         /\ space[p] # None /\ Matches(QueryOf(call[th]), space[p])
         /\ ans' = [ans EXCEPT ![th] = space[p]]
         /\ space' = IF Removes(call[th])
                     THEN [space EXCEPT ![p] = None] ELSE space
    /\ phase' = [phase EXCEPT ![th] = "idle"]
    /\ UNCHANGED <<owed, call, failed>>

NothingMatches(th) ==
    \A p \in Place : space[p] # None => ~Matches(QueryOf(call[th]), space[p])

\* inp and rdp answer nothing only at a moment when nothing matches.
Miss(th) ==
    /\ phase[th] = "called" /\ call[th].op \in {"inp", "rdp"}
    /\ NothingMatches(th)
    /\ phase' = [phase EXCEPT ![th] = "idle"]
    /\ UNCHANGED <<space, owed, call, ans, failed>>

\* remove_nosignal of a tuple that is not there ...
MissRemoval(th) ==
    /\ phase[th] = "called" /\ call[th].op = "remove_nosignal"
    /\ NothingMatches(th)
    /\ phase' = [phase EXCEPT ![th] = "missed"]
    /\ UNCHANGED <<space, owed, call, ans, failed>>

\* ... leaves a debt for the out that is still to come.
Owe(th) ==
    /\ phase[th] = "missed"
    /\ owed' = owed \cup {call[th].tuple}
    /\ phase' = [phase EXCEPT ![th] = "idle"]
    /\ UNCHANGED <<space, call, ans, failed>>

\* The process aborts, or does what C++ leaves undefined.
Fail ==
    /\ failed' = TRUE
    /\ UNCHANGED <<space, owed, phase, call, ans>>

Step(th) ==
    \/ Invoke(th) \/ Cancel(th) \/ Admit(th) \/ Add(th) \/ Return(th)
    \/ Answer(th) \/ Miss(th) \/ MissRemoval(th) \/ Owe(th)

Next == ~failed /\ (Fail \/ \E th \in Thread : Step(th))

Spec == Init /\ [][Next]_vars
=============================================================================
