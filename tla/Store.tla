-------------------------------- MODULE Store --------------------------------
(***************************************************************************)
(* ldb::store: the tuple store of one process and the threads that call    *)
(* it.  The tuples live in slots of a chunked list; two indices, one for   *)
(* each of the first two fields, hold iterators (slots) into it.           *)
(*                                                                         *)
(* A step is what a thread does between two lock operations:               *)
(*  - a section under _header_mtx is one step.  Inside it only another     *)
(*    out's push_back can run, which takes a free slot, so the index       *)
(*    lookups and the scan of such a section see the same tuples;          *)
(*  - push_back, the exchange and the increment of _sync_needed, and       *)
(*    notify_one are each a step of their own: no lock joins them.         *)
(*                                                                         *)
(* An index is one AVL node here: a node holds as many keys as its         *)
(* clustering allows (17 in the store), and the models use fewer.          *)
(***************************************************************************)
EXTENDS Tuples, SequencesExt

CONSTANTS
    Thread,     \* the threads that call the store
    Slot,       \* the places of the chunked list
    Calls,      \* Calls[th]: the calls thread th may make
    MaxCalls,   \* MaxCalls[th]: how many calls thread th makes at most
    None,       \* an empty slot, no answer, no call
    Spurious    \* whether a condition variable may wake without a notify

ASSUME StoreAssumption ==
    /\ None \notin Tuple \cup Slot \cup Call
    /\ Calls \in [Thread -> SUBSET Call]
    /\ MaxCalls \in [Thread -> Nat]
    /\ Spurious \in BOOLEAN

VARIABLES
    data,           \* _data: the tuple in each slot, or None
    index,          \* _header_indices: field -> key -> slots, oldest first
    removedLater,   \* _removed_later
    syncNeeded,     \* _sync_needed
    pc,             \* where each thread is
    call,           \* the call it is in, or made last
    slot,           \* the iterator push_back gave it, until it is indexed
    ans,            \* what its call answered
    calls,          \* how many calls it has made
    fault           \* a dead slot was dereferenced or an assertion failed

vars == <<data, index, removedLater, syncNeeded, pc, call, slot, ans, calls, fault>>

Field == 1 .. 2

OutPC  == {"outCheck", "outPush", "outIndex", "outMark", "outNotify"}
WaitPC == {"reset", "wait", "parking", "parked"}
PC == {"idle", "try", "owe"} \cup OutPC \cup WaitPC

\* What a thread is doing fits the call it is in.
CallFits(th) ==
    /\ pc[th] # "idle" => call[th] \in Call
    /\ pc[th] \in OutPC => IsOut(call[th])
    /\ pc[th] \in WaitPC \cup {"try", "owe"} => ~IsOut(call[th])
    /\ pc[th] \in WaitPC => Waits(call[th])
    /\ pc[th] = "owe" => call[th].op = "remove_nosignal"
    /\ pc[th] = "outIndex" => slot[th] # None

TypeOK ==
    /\ data \in [Slot -> Tuple \cup {None}]
    /\ index \in [Field -> [Key -> Seq(Slot)]]
    /\ removedLater \subseteq Tuple
    /\ syncNeeded \in Nat
    /\ pc \in [Thread -> PC]
    /\ call \in [Thread -> Call \cup {None}]
    /\ slot \in [Thread -> Slot \cup {None}]
    /\ ans \in [Thread -> Tuple \cup {None}]
    /\ calls \in [Thread -> Nat] /\ \A th \in Thread : calls[th] <= MaxCalls[th]
    /\ fault \in BOOLEAN
    /\ \A th \in Thread : CallFits(th)

Init ==
    /\ data = [s \in Slot |-> None]
    /\ index = [i \in Field |-> [k \in Key |-> <<>>]]
    /\ removedLater = {}
    /\ syncNeeded = 0
    /\ pc = [th \in Thread |-> "idle"]
    /\ call = [th \in Thread |-> None]
    /\ slot = [th \in Thread |-> None]
    /\ ans = [th \in Thread |-> None]
    /\ calls = [th \in Thread |-> 0]
    /\ fault = FALSE

At(th, here) == ~fault /\ pc[th] = here
Goto(th, there) == pc' = [pc EXCEPT ![th] = there]

Invoke(th) ==
    /\ At(th, "idle")
    /\ calls[th] < MaxCalls[th]
    /\ \E c \in Calls[th] :
         /\ call' = [call EXCEPT ![th] = c]
         /\ Goto(th, IF IsOut(c) THEN "outCheck" ELSE "try")
    /\ ans' = [ans EXCEPT ![th] = None]
    /\ calls' = [calls EXCEPT ![th] = @ + 1]
    /\ UNCHANGED <<data, index, removedLater, syncNeeded, slot, fault>>

-----------------------------------------------------------------------------
(* out and out_nosignal.                                                   *)

\* Under _header_mtx: a tuple that was removed before it came is dropped.
OutCheck(th) ==
    /\ At(th, "outCheck")
    /\ LET t == call[th].tuple IN
         \/ /\ t \in removedLater
            /\ removedLater' = removedLater \ {t}
            /\ Goto(th, "idle")
         \/ /\ t \notin removedLater
            /\ UNCHANGED removedLater
            /\ Goto(th, "outPush")
    /\ UNCHANGED <<data, index, syncNeeded, call, slot, ans, calls, fault>>

\* _data.push_back, under the list's own lock.  Which free slot it takes
\* depends on the chunks that are left and on the allocator.
OutPush(th) ==
    /\ At(th, "outPush")
    /\ \E s \in Slot : /\ data[s] = None
                       /\ data' = [data EXCEPT ![s] = call[th].tuple]
                       /\ slot' = [slot EXCEPT ![th] = s]
    /\ Goto(th, "outIndex")
    /\ UNCHANGED <<index, removedLater, syncNeeded, call, ans, calls, fault>>

\* Under _header_mtx: the slot goes into the index of each field there is.
OutIndex(th) ==
    /\ At(th, "outIndex")
    /\ LET t == call[th].tuple IN
         index' = [i \in Field |->
                     IF i <= Len(t)
                     THEN [index[i] EXCEPT ![t[i]] = Append(@, slot[th])]
                     ELSE index[i]]
    /\ slot' = [slot EXCEPT ![th] = None]
    /\ Goto(th, "outMark")
    /\ UNCHANGED <<data, removedLater, syncNeeded, call, ans, calls, fault>>

\* notify_readers: mark_sync_need, then notify_sync_start; neither takes
\* _read_mtx.
OutMark(th) ==
    /\ At(th, "outMark")
    /\ syncNeeded' = syncNeeded + 1
    /\ Goto(th, "outNotify")
    /\ UNCHANGED <<data, index, removedLater, call, slot, ans, calls, fault>>

\* Mutant: nobody is notified.
OutNotifyNobody(th) ==
    /\ At(th, "outNotify")
    /\ Goto(th, "idle")
    /\ UNCHANGED <<data, index, removedLater, syncNeeded, call, slot, ans, calls, fault>>

OutNotify(th) ==
    /\ At(th, "outNotify")
    /\ \/ /\ \A w \in Thread : pc[w] # "parked"
          /\ Goto(th, "idle")
       \/ \E w \in Thread :
            /\ pc[w] = "parked"
            /\ pc' = [pc EXCEPT ![th] = "idle", ![w] = "wait"]
    /\ UNCHANGED <<data, index, removedLater, syncNeeded, call, slot, ans, calls, fault>>

-----------------------------------------------------------------------------
(* Index lookup.                                                           *)

KeysOf(idx) == {k \in Key : idx[k] # <<>>}

\* Mutant: the upper bound of key, which passes over key itself.
UpperBound(idx, key, k) ==
    /\ k \in KeysOf(idx) /\ key < k
    /\ \E l \in KeysOf(idx) : l <= key
    /\ \A l \in KeysOf(idx) : key < l => k <= l

\* The key set a payload looks into for key: the first one not below it,
\* provided key lies within the node's keys.  That the two keys are equal is
\* not asked.
LowerBound(idx, key, k) ==
    /\ k \in KeysOf(idx) /\ key <= k
    /\ \E l \in KeysOf(idx) : l <= key
    /\ \A l \in KeysOf(idx) : key <= l => k <= l

\* match_value<T> compares the wrong way around, so a plain value finds its
\* key only if that is the one key there is; a formal is not looked up.
Probes(i, q, k) ==
    /\ i <= Len(q.pat) /\ q.pat[i] # Formal
    /\ IF q.kind = "typed"
       THEN k = q.pat[i] /\ KeysOf(index[i]) = {k}
       ELSE LowerBound(index[i], q.pat[i], k)

\* Mutant: what the index holds for the key is taken without a look at it.
StopsAtFirst(q, s) == TRUE

\* The scan of a key set ends at the first slot that is dead (dereferencing
\* it faults) or whose tuple matches.
Stops(q, s) == data[s] # None => Matches(q, data[s])

StopsAt(i, q, k, n) ==
    /\ Probes(i, q, k)
    /\ n \in 1 .. Len(index[i][k])
    /\ Stops(q, index[i][k][n])
    /\ \A m \in 1 .. n - 1 : ~Stops(q, index[i][k][m])

Passes(i, q) ==
    \A k \in Key : Probes(i, q, k) =>
        \A n \in 1 .. Len(index[i][k]) : ~Stops(q, index[i][k][n])

\* A concrete query asserts that the index it is put to is one of its fields.
Asserts(i, q) == q.kind = "concrete" /\ i > Len(q.pat)

Reaches(i, q) == \A j \in 1 .. i - 1 : Passes(j, q) /\ ~Asserts(j, q)

\* Mutant: the key goes away with all its slots.
PoppedKey(idx, k, n) == [idx EXCEPT ![k] = <<>>]

\* Index idx with the n-th slot of key k taken out.
Popped(idx, k, n) == [idx EXCEPT ![k] = RemoveAt(@, n)]

\* Index idx after a second removal, of the slot s itself, under key.
Relooked(idx, key, s) ==
    [k \in Key |-> IF LowerBound(idx, key, k) THEN RemoveFirst(idx[k], s) ELSE idx[k]]

-----------------------------------------------------------------------------
(* read, read_and_remove and read_and_remove_nosignal, under _header_mtx.  *)

Found(th, t) ==
    /\ ans' = [ans EXCEPT ![th] = t]
    /\ Goto(th, "idle")

\* The lookup in index i finds slot s.  A removal takes s out of that index,
\* and where it means to take it out of the other one it goes to index i
\* once more: the other index keeps s.
TryIndex(th) ==
    /\ At(th, "try")
    /\ \E i \in Field, k \in Key : \E n \in 1 .. Len(index[i][k]) :
         LET q == QueryOf(call[th])
             s == index[i][k][n]
         IN  /\ Reaches(i, q) /\ StopsAt(i, q, k, n) /\ data[s] # None
             /\ Found(th, data[s])
             /\ IF Removes(call[th])
                THEN /\ index' = [index EXCEPT ![i] =
                                    Relooked(Popped(@, k, n), data[s][i], s)]
                     /\ data' = [data EXCEPT ![s] = None]
                ELSE UNCHANGED <<index, data>>
    /\ UNCHANGED <<removedLater, syncNeeded, call, slot, calls, fault>>

\* No index has it, but the scan of the list does: locked_find, or
\* locked_destructive_find, which leaves the indices as they are.
TryScan(th) ==
    /\ At(th, "try")
    /\ LET q == QueryOf(call[th]) IN
         /\ Reaches(3, q)
         /\ \E s \in Slot :
              /\ data[s] # None /\ Matches(q, data[s])
              /\ Found(th, data[s])
              /\ data' = IF Removes(call[th])
                         THEN [data EXCEPT ![s] = None] ELSE data
    /\ UNCHANGED <<index, removedLater, syncNeeded, call, slot, calls, fault>>

\* Mutant: retrieve_weak waits too.
TryMissAndWait(th) ==
    /\ At(th, "try")
    /\ LET q == QueryOf(call[th]) IN
         /\ Reaches(3, q)
         /\ \A s \in Slot : data[s] # None => ~Matches(q, data[s])
    /\ \/ call[th].op = "remove_nosignal" /\ Goto(th, "owe")
       \/ call[th].op # "remove_nosignal" /\ Goto(th, "reset")
    /\ UNCHANGED <<data, index, removedLater, syncNeeded, call, slot, ans, calls, fault>>

\* Nothing matches: retrieve_strong goes on to its flag, retrieve_weak
\* returns, and remove_nosignal goes on to note the debt.
TryMiss(th) ==
    /\ At(th, "try")
    /\ LET q == QueryOf(call[th]) IN
         /\ Reaches(3, q)
         /\ \A s \in Slot : data[s] # None => ~Matches(q, data[s])
    /\ \/ Waits(call[th]) /\ Goto(th, "reset")
       \/ call[th].op = "remove_nosignal" /\ Goto(th, "owe")
       \/ call[th].op \in {"inp", "rdp"} /\ Goto(th, "idle")
    /\ UNCHANGED <<data, index, removedLater, syncNeeded, call, slot, ans, calls, fault>>

\* The second removal compares iterators, which reads the chunk of each slot
\* it passes: with the slot's chunk freed, that too is undefined.
RelookupPassesDead(idx, key, s) ==
    \E k \in Key : \E n \in 1 .. Len(idx[k]) :
        /\ LowerBound(idx, key, k)
        /\ data[idx[k][n]] = None
        /\ \A m \in 1 .. n : idx[k][m] # s

\* The lookup dereferences a dead slot (assert_that aborts, or the chunk is
\* freed memory), or a concrete query is put to an index it has no field for.
TryFault(th) ==
    /\ At(th, "try")
    /\ \E i \in Field :
         LET q == QueryOf(call[th]) IN
         /\ Reaches(i, q)
         /\ \/ Asserts(i, q)
            \/ \E k \in Key : \E n \in 1 .. Len(index[i][k]) :
                 LET s == index[i][k][n] IN
                 /\ StopsAt(i, q, k, n)
                 /\ data[s] # None =>
                      /\ Removes(call[th])
                      /\ RelookupPassesDead(Popped(index[i], k, n), data[s][i], s)
    /\ fault' = TRUE
    /\ UNCHANGED <<data, index, removedLater, syncNeeded, pc, call, slot, ans, calls>>

\* remove_nosignal notes the debt, without the lock.
Owe(th) ==
    /\ At(th, "owe")
    /\ removedLater' = removedLater \cup {call[th].tuple}
    /\ Goto(th, "idle")
    /\ UNCHANGED <<data, index, syncNeeded, call, slot, ans, calls, fault>>

-----------------------------------------------------------------------------
(* Waiting: the loop of retrieve_strong and wait_for_sync.                 *)

\* Mutant: the flag is reset without a look at what it was.
ResetBlindly(th) ==
    /\ At(th, "reset")
    /\ syncNeeded' = 0
    /\ Goto(th, "wait")
    /\ UNCHANGED <<data, index, removedLater, call, slot, ans, calls, fault>>

\* check_and_reset_sync_need: an exchange with 0.
Reset(th) ==
    /\ At(th, "reset")
    /\ syncNeeded' = 0
    /\ Goto(th, IF syncNeeded > 0 THEN "try" ELSE "wait")
    /\ UNCHANGED <<data, index, removedLater, call, slot, ans, calls, fault>>

\* With _read_mtx held, the predicate of the wait; if it is false the thread
\* keeps the mutex ...
CheckSync(th) ==
    /\ At(th, "wait")
    /\ \A w \in Thread : pc[w] # "parking"
    /\ Goto(th, IF syncNeeded > 0 THEN "try" ELSE "parking")
    /\ UNCHANGED <<data, index, removedLater, syncNeeded, call, slot, ans, calls, fault>>

\* ... until the condition variable has taken it in.
Park(th) ==
    /\ At(th, "parking")
    /\ Goto(th, "parked")
    /\ UNCHANGED <<data, index, removedLater, syncNeeded, call, slot, ans, calls, fault>>

WakeSpuriously(th) ==
    /\ Spurious
    /\ At(th, "parked")
    /\ Goto(th, "wait")
    /\ UNCHANGED <<data, index, removedLater, syncNeeded, call, slot, ans, calls, fault>>

-----------------------------------------------------------------------------
\* What a thread that is in a call does next, if it can.
Continue(th) ==
    \/ OutCheck(th) \/ OutPush(th) \/ OutIndex(th) \/ OutMark(th) \/ OutNotify(th)
    \/ TryIndex(th) \/ TryScan(th) \/ TryMiss(th) \/ TryFault(th) \/ Owe(th)
    \/ Reset(th) \/ CheckSync(th) \/ Park(th)

Next ==
    \E th \in Thread : Invoke(th) \/ Continue(th) \/ WakeSpuriously(th)

Spec == Init /\ [][Next]_vars

\* The scheduler runs a thread that can run.  It need not make calls, and a
\* condition variable need not wake anyone spuriously.
FairSpec == Spec /\ \A th \in Thread : WF_vars(Continue(th))

-----------------------------------------------------------------------------
(* Properties.                                                             *)

\* Store implements TupleSpace.  A call of a removing or reading operation
\* takes effect when its lookup ends, an out when its tuple is pushed.  So
\* stale index entries, the scan racing an out that has not indexed its tuple
\* yet, and debts noted outside the lock never make a call answer a tuple
\* twice, a tuple that does not match, or nothing while something matches.
Phase(here) ==
    IF here = "idle" THEN "idle"
    ELSE IF here = "outPush" THEN "admitted"
    ELSE IF here \in {"outIndex", "outMark", "outNotify"} THEN "added"
    ELSE IF here = "owe" THEN "missed"
    ELSE "called"

phase == [th \in Thread |-> Phase(pc[th])]

Abstract == INSTANCE TupleSpace WITH
    Place <- Slot, space <- data, owed <- removedLater, failed <- fault

Implements == Abstract!Spec

InIndex(s) ==
    \A i \in Field : i <= Len(data[s]) =>
        \E n \in 1 .. Len(index[i][data[s][i]]) : index[i][data[s][i]][n] = s

Arriving(s) ==
    \E th \in Thread : pc[th] = "outIndex" /\ slot[th] = s /\ call[th].tuple = data[s]

\* Every tuple in the list is in the index of each of its first two fields,
\* under the value it has there, unless the out that pushed it is about to
\* insert it: whatever lookups take out of an index by key and by iterator,
\* and however often a slot is reused, no other tuple's entry is lost.
IndexComplete == \A s \in Slot : data[s] # None => InIndex(s) \/ Arriving(s)

MatchLive(th) ==
    /\ call[th] # None /\ ~IsOut(call[th])
    /\ \E s \in Slot : data[s] # None /\ Matches(QueryOf(call[th]), data[s])

Relieved(th) == pc[th] = "idle" \/ ~MatchLive(th) \/ fault

Waiting(th) == pc[th] \in WaitPC

\* A thread that has looked and found nothing, and for which a tuple has come
\* since, finds the sync flag set when it looks at it next, or an out is about
\* to set it: the exchange that resets the flag never eats the mark of a tuple
\* the thread has not seen.  (With one waiting thread.)
MarkNotLost ==
    \A th \in Thread : Waiting(th) /\ MatchLive(th) =>
        \/ syncNeeded > 0
        \/ \E w \in Thread : pc[w] \in {"outIndex", "outMark"}

\* A thread whose tuple is there gets it if the flag is set when it looks at
\* it next, or if it sleeps with the flag set and some out has still to notify:
\* that notify wakes it and the flag lets it out of the wait.  (With one
\* waiting thread; a flag that is set only after the thread has looked is what
\* BlockedServed is about.)
MarkedServed ==
    \A th \in Thread :
        (/\ MatchLive(th) /\ syncNeeded > 0
         /\ \/ pc[th] \in {"reset", "wait"}
            \/ pc[th] = "parked" /\ \E w \in Thread : pc[w] = "outNotify")
        ~> Relieved(th)

\* in and rd return once a matching tuple is there, unless it goes away again:
\* no notify is lost between the predicate of wait_for_sync and the sleep.
BlockedServed ==
    \A th \in Thread :
        (Waiting(th) /\ MatchLive(th)) ~> Relieved(th)

\* The indices hold the tuples that are in the list and nothing else: each
\* entry is a live slot, under the value of its field, once.
IndexExact ==
    \A i \in Field : \A k \in Key : \A n \in 1 .. Len(index[i][k]) :
        /\ data[index[i][k][n]] # None
        /\ data[index[i][k][n]][i] = k
        /\ \A m \in 1 .. n - 1 : index[i][k][m] # index[i][k][n]

\* No lookup dereferences a dead slot, and no assertion fails.
NoFault == ~fault
=============================================================================
