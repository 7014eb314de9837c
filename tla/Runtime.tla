------------------------------- MODULE Runtime -------------------------------
(***************************************************************************)
(* lrt::runtime: the ranks of an MPI program, each with a replica of the   *)
(* tuple space.  A rank's main thread runs the program's Linda calls and   *)
(* broadcasts what they insert and delete; its receiver thread applies     *)
(* what the other ranks broadcast.                                         *)
(*                                                                         *)
(* A rank's store is taken at the level of TupleSpace, which Store         *)
(* implements, and as a bag: how many of each tuple there are.  What       *)
(* Store leaves out is here: the broadcasts, the waits for their sends,    *)
(* and _header_mtx when it is held through such a wait.  Only the main     *)
(* thread does that, so only the receiver ever waits for it.               *)
(***************************************************************************)
EXTENDS Integers, Sequences, FiniteSets, SequencesExt

CONSTANTS
    Rank,      \* the ranks of MPI_COMM_WORLD
    Tuple,     \* the tuples of the program
    Programs,  \* the programs: what calls each rank makes, in order
    Eager,     \* whether MPI completes a send that nobody has received yet
    None       \* no message

\* A call; what a query asks for is the set of the tuples it matches.
Call == [op : {"out"}, tuple : Tuple]
        \cup [op : {"in", "inp", "rd", "rdp"}, wanted : SUBSET Tuple]

ASSUME RuntimeAssumption ==
    /\ Programs \subseteq [Rank -> Seq(Call)]
    /\ Eager \in BOOLEAN

VARIABLES
    space,    \* space[r][t]: how many t the store of r holds
    owed,     \* owed[r]: its _removed_later
    header,   \* header[r]: the main thread waits with _header_mtx held
    net,      \* net[q][r]: what q has sent to r and r has not received
    main,     \* main[r]: where the main thread of r is
    script,   \* script[r]: the calls it has still to finish
    recv,     \* recv[r]: where the receiver thread of r is
    hand,     \* hand[r]: the message it has received and not applied yet
    put,      \* put[t]: how often an out of t was broadcast (history)
    taken     \* taken[t]: how often an in or inp took t (history)

vars == <<space, owed, header, net, main, script, recv, hand, put, taken>>

Message == [tag : {"INSERT", "DELETE"}, tuple : Tuple] \cup [tag : {"TERMINATE"}]

TypeOK ==
    /\ space \in [Rank -> [Tuple -> Nat]]
    /\ owed \in [Rank -> SUBSET Tuple]
    /\ header \in [Rank -> BOOLEAN]
    /\ net \in [Rank -> [Rank -> Seq(Message)]]
    /\ main \in [Rank -> {"ready", "push", "outAwait", "waiting", "takeAwait",
                          "join", "barrier", "final"}]
    /\ script \in [Rank -> Seq(Call)]
    /\ recv \in [Rank -> {"probe", "insert", "push", "index", "delete", "owe", "ended"}]
    /\ hand \in [Rank -> Message \cup {None}]
    /\ put \in [Tuple -> Nat] /\ taken \in [Tuple -> Nat]

Init ==
    /\ space = [r \in Rank |-> [t \in Tuple |-> 0]]
    /\ owed = [r \in Rank |-> {}]
    /\ header = [r \in Rank |-> FALSE]
    /\ net = [q \in Rank |-> [r \in Rank |-> <<>>]]
    /\ main = [r \in Rank |-> "ready"]
    /\ script \in Programs
    /\ recv = [r \in Rank |-> "probe"]
    /\ hand = [r \in Rank |-> None]
    /\ put = [t \in Tuple |-> 0]
    /\ taken = [t \in Tuple |-> 0]

-----------------------------------------------------------------------------
(* Sending.                                                                *)

\* Mutant: a message overtakes those that were sent before it.
BroadcastOvertakes(r, tag, t) ==
    net' = [net EXCEPT ![r] = [q \in Rank |->
              IF q = r THEN @[q] ELSE <<[tag |-> tag, tuple |-> t]>> \o @[q]]]

\* broadcast_insert and broadcast_delete: one MPI_Isend to each other rank.
Broadcast(r, tag, t) ==
    net' = [net EXCEPT ![r] = [q \in Rank |->
              IF q = r THEN @[q] ELSE Append(@[q], [tag |-> tag, tuple |-> t])]]

\* MPI_Waitall returns: each send of the broadcast is complete.  A rank's main
\* thread has one broadcast under way at a time.
SendsComplete(r) == Eager \/ \A q \in Rank \ {r} : net[r][q] = <<>>

-----------------------------------------------------------------------------
(* The main thread.                                                        *)

Calls(r, ops) ==
    main[r] = "ready" /\ script[r] # <<>> /\ Head(script[r]).op \in ops

Return(r) ==
    /\ main' = [main EXCEPT ![r] = "ready"]
    /\ script' = [script EXCEPT ![r] = Tail(@)]

\* out of a tuple that is owed: it is dropped here, and nobody is told.
OutDropped(r) ==
    /\ Calls(r, {"out"})
    /\ Head(script[r]).tuple \in owed[r]
    /\ owed' = [owed EXCEPT ![r] = @ \ {Head(script[r]).tuple}]
    /\ Return(r)
    /\ UNCHANGED <<space, header, net, recv, hand, put, taken>>

\* Any other out first sends its tuple ...
OutBroadcast(r) ==
    /\ Calls(r, {"out"})
    /\ LET t == Head(script[r]).tuple IN
         /\ t \notin owed[r]
         /\ Broadcast(r, "INSERT", t)
         /\ put' = [put EXCEPT ![t] = @ + 1]
    /\ main' = [main EXCEPT ![r] = "push"]
    /\ UNCHANGED <<space, owed, header, script, recv, hand, taken>>

\* ... then puts it into the rank's own store ...
OutPush(r) ==
    /\ main[r] = "push"
    /\ space' = [space EXCEPT ![r][Head(script[r]).tuple] = @ + 1]
    /\ main' = [main EXCEPT ![r] = "outAwait"]
    /\ UNCHANGED <<owed, header, net, script, recv, hand, put, taken>>

\* ... and returns once it is sent.
OutReturn(r) ==
    /\ main[r] = "outAwait" /\ SendsComplete(r)
    /\ Return(r)
    /\ UNCHANGED <<space, owed, header, net, recv, hand, put, taken>>

Present(r) == {t \in Head(script[r]).wanted : space[r][t] > 0}

\* in and inp take a tuple and tell the others, with the lock held until the
\* message is sent.
Take(r) ==
    /\ Calls(r, {"in", "inp"})
    /\ \E t \in Present(r) :
         /\ space' = [space EXCEPT ![r][t] = @ - 1]
         /\ Broadcast(r, "DELETE", t)
         /\ taken' = [taken EXCEPT ![t] = @ + 1]
    /\ header' = [header EXCEPT ![r] = TRUE]
    /\ main' = [main EXCEPT ![r] = "takeAwait"]
    /\ UNCHANGED <<owed, script, recv, hand, put>>

TakeReturn(r) ==
    /\ main[r] = "takeAwait" /\ SendsComplete(r)
    /\ header' = [header EXCEPT ![r] = FALSE]
    /\ Return(r)
    /\ UNCHANGED <<space, owed, net, recv, hand, put, taken>>

\* rd and rdp that find a tuple, inp and rdp that find none.
Look(r) ==
    /\ \/ Calls(r, {"rd", "rdp"}) /\ Present(r) # {}
       \/ Calls(r, {"inp", "rdp"}) /\ Present(r) = {}
    /\ Return(r)
    /\ UNCHANGED <<space, owed, header, net, recv, hand, put, taken>>

\* in and rd that find none go to sleep ...
Sleep(r) ==
    /\ Calls(r, {"in", "rd"}) /\ Present(r) = {}
    /\ main' = [main EXCEPT ![r] = "waiting"]
    /\ UNCHANGED <<space, owed, header, net, script, recv, hand, put, taken>>

\* ... and look again when they are woken.
Wake(r) ==
    /\ main[r] = "waiting"
    /\ main' = [main EXCEPT ![r] = "ready"]
    /\ UNCHANGED <<space, owed, header, net, script, recv, hand, put, taken>>

\* Mutant: the receiver is not told to end.
TerminateSilently(r) ==
    /\ main[r] = "ready" /\ script[r] = <<>>
    /\ main' = [main EXCEPT ![r] = "join"]
    /\ UNCHANGED <<space, owed, header, net, script, recv, hand, put, taken>>

\* ~runtime: TERMINATE to the rank itself, the end of the receiver thread,
\* MPI_Barrier, MPI_Finalize.
Terminate(r) ==
    /\ main[r] = "ready" /\ script[r] = <<>>
    /\ net' = [net EXCEPT ![r][r] = Append(@, [tag |-> "TERMINATE"])]
    /\ main' = [main EXCEPT ![r] = "join"]
    /\ UNCHANGED <<space, owed, header, script, recv, hand, put, taken>>

Join(r) ==
    /\ main[r] = "join" /\ recv[r] = "ended"
    /\ main' = [main EXCEPT ![r] = "barrier"]
    /\ UNCHANGED <<space, owed, header, net, script, recv, hand, put, taken>>

Finalize(r) ==
    /\ main[r] = "barrier"
    /\ \A q \in Rank : main[q] \in {"barrier", "final"}
    /\ main' = [main EXCEPT ![r] = "final"]
    /\ UNCHANGED <<space, owed, header, net, script, recv, hand, put, taken>>

-----------------------------------------------------------------------------
(* The receiver thread.                                                    *)

Go(r, there) == recv' = [recv EXCEPT ![r] = there] /\ UNCHANGED hand

Done(r) ==
    /\ recv' = [recv EXCEPT ![r] = "probe"]
    /\ hand' = [hand EXCEPT ![r] = None]

\* MPI_Probe takes a message of any rank; those of one rank come in order.
Receive(r) ==
    /\ recv[r] = "probe"
    /\ \E q \in Rank :
         /\ net[q][r] # <<>>
         /\ LET m == Head(net[q][r])
                there == [INSERT |-> "insert", DELETE |-> "delete", TERMINATE |-> "ended"]
            IN  /\ recv' = [recv EXCEPT ![r] = there[m.tag]]
                /\ hand' = [hand EXCEPT ![r] = m]
         /\ net' = [net EXCEPT ![q][r] = Tail(@)]
    /\ UNCHANGED <<space, owed, header, main, script, put, taken>>

\* out_nosignal: the debt is paid, or the tuple goes in, in three steps.
InsertDropped(r) ==
    /\ recv[r] = "insert" /\ ~header[r]
    /\ hand[r].tuple \in owed[r]
    /\ owed' = [owed EXCEPT ![r] = @ \ {hand[r].tuple}]
    /\ Done(r)
    /\ UNCHANGED <<space, header, net, main, script, put, taken>>

InsertAdmitted(r) ==
    /\ recv[r] = "insert" /\ ~header[r]
    /\ hand[r].tuple \notin owed[r]
    /\ Go(r, "push")
    /\ UNCHANGED <<space, owed, header, net, main, script, put, taken>>

InsertPush(r) ==
    /\ recv[r] = "push"
    /\ space' = [space EXCEPT ![r][hand[r].tuple] = @ + 1]
    /\ Go(r, "index")
    /\ UNCHANGED <<owed, header, net, main, script, put, taken>>

InsertIndexed(r) ==
    /\ recv[r] = "index" /\ ~header[r]
    /\ Done(r)
    /\ UNCHANGED <<space, owed, header, net, main, script, put, taken>>

\* Mutant: a tuple is removed whether it is there or not.
DeleteBlindly(r) ==
    /\ recv[r] = "delete" /\ ~header[r]
    /\ space' = [space EXCEPT ![r][hand[r].tuple] = @ - 1]
    /\ Done(r)
    /\ UNCHANGED <<owed, header, net, main, script, put, taken>>

\* remove_nosignal: the tuple goes, or a debt is noted, without the lock.
Delete(r) ==
    /\ recv[r] = "delete" /\ ~header[r]
    /\ \/ /\ space[r][hand[r].tuple] > 0
          /\ space' = [space EXCEPT ![r][hand[r].tuple] = @ - 1]
          /\ Done(r)
       \/ /\ space[r][hand[r].tuple] = 0
          /\ UNCHANGED space
          /\ Go(r, "owe")
    /\ UNCHANGED <<owed, header, net, main, script, put, taken>>

\* Mutant: the debt is forgotten.
OweNothing(r) ==
    /\ recv[r] = "owe"
    /\ Done(r)
    /\ UNCHANGED <<space, owed, header, net, main, script, put, taken>>

Owe(r) ==
    /\ recv[r] = "owe"
    /\ owed' = [owed EXCEPT ![r] = @ \cup {hand[r].tuple}]
    /\ Done(r)
    /\ UNCHANGED <<space, header, net, main, script, put, taken>>

-----------------------------------------------------------------------------
Main(r) ==
    \/ OutDropped(r) \/ OutBroadcast(r) \/ OutPush(r) \/ OutReturn(r)
    \/ Take(r) \/ TakeReturn(r) \/ Look(r) \/ Sleep(r)
    \/ Terminate(r) \/ Join(r) \/ Finalize(r)

Receiver(r) ==
    \/ Receive(r) \/ InsertDropped(r) \/ InsertAdmitted(r) \/ InsertPush(r)
    \/ InsertIndexed(r) \/ Delete(r) \/ Owe(r)

Next == \E r \in Rank : Main(r) \/ Wake(r) \/ Receiver(r)

Spec == Init /\ [][Next]_vars

\* Threads that can run do.  A thread asleep in a store need not be woken:
\* Store says when it is.
FairSpec ==
    Spec /\ \A r \in Rank : WF_vars(Main(r)) /\ WF_vars(Receiver(r))

-----------------------------------------------------------------------------
(* Properties.                                                             *)

\* The ranks that put t, and those that may take it.
Makes(r, ops) == {c \in UNION {ToSet(p[r]) : p \in Programs} : c.op \in ops}
Puts(r, t)    == \E c \in Makes(r, {"out"}) : c.tuple = t
Takes(r, t)   == \E c \in Makes(r, {"in", "inp"}) : t \in c.wanted
Bystander(r, t) == ~Puts(r, t) /\ ~Takes(r, t)
OneOwner(t) == \A q, r \in Rank : ~Bystander(q, t) /\ ~Bystander(r, t) => q = r

\* Where there are messages of this kind about t that r has not received.
Sent(r, tag, t) ==
    UNION {{q} \X {n \in DOMAIN net[q][r] : net[q][r][n].tag = tag /\ net[q][r][n].tuple = t}
           : q \in Rank}

Underway(r, tag, places, t) ==
    Cardinality(Sent(r, tag, t)) + IF recv[r] \in places /\ hand[r].tuple = t THEN 1 ELSE 0

Due(r, t) == Underway(r, "DELETE", {"delete", "owe"}, t) + IF t \in owed[r] THEN 1 ELSE 0

\* A rank that only looks at t holds what has been put and not taken, up to
\* the inserts and deletes it has not applied yet: a delete that overtakes its
\* insert (they come from different ranks) is made good by the debt.  The debts
\* are a set, so two at a time count for one and leave it too many, never too
\* few.
Balanced ==
    \A r \in Rank : \A t \in Tuple : Bystander(r, t) =>
        LET held == space[r][t] + Underway(r, "INSERT", {"insert", "push"}, t) + taken[t]
            due  == put[t] + Due(r, t)
        IN  held >= due /\ (taken[t] <= 1 \/ OneOwner(t) => held = due)

\* A tuple that only one rank puts and takes never leaves a debt anywhere: its
\* messages come in order, the delete after the insert.
OwnersOweNothing ==
    \A t \in Tuple : OneOwner(t) => \A r \in Rank : t \notin owed[r]

\* Each rank gets to the end of ~runtime, unless some in or rd sleeps for good.
Finishes ==
    \/ \A r \in Rank : <>(main[r] = "final")
    \/ \E r \in Rank : <>[](main[r] = "waiting")

\* A tuple that was put once is taken once.
TakenOnce == \A t \in Tuple : taken[t] <= put[t]
=============================================================================
