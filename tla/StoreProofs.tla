----------------------------- MODULE StoreProofs -----------------------------
(* What TLAPS proves of Store, for any threads, calls, slots and keys. *)
EXTENDS Store, SequenceLemmas

-----------------------------------------------------------------------------
(* Calls and their queries.                                                *)

LEMMA CallTypes ==
    ASSUME NEW c \in Call
    PROVE  /\ IsOut(c) => c.tuple \in Tuple
           /\ c.op = "remove_nosignal" => c.tuple \in Tuple
           /\ ~IsOut(c) => QueryOf(c).pat \in Seq(Key \cup {Formal})
           /\ ~IsOut(c) => \/ Waits(c)
                           \/ c.op \in {"inp", "rdp"}
                           \/ c.op = "remove_nosignal"
<1>1. CASE c \in [op : TupleOps, tuple : Tuple]
  <2>1. c.tuple \in Seq(Key \cup {Formal})
    BY <1>1 DEF Tuple
  <2> QED BY <1>1, <2>1 DEF IsOut, QueryOf, Waits, TupleOps
<1>2. CASE c \in [op : QueryOps, query : Query]
  BY <1>2 DEF IsOut, QueryOf, Waits, QueryOps, Query
<1> QED BY <1>1, <1>2 DEF Call

-----------------------------------------------------------------------------
(* Taking entries out of an index.                                         *)

\* What a removal through an index leaves of that index: it is still one, and
\* under every key each slot but the one removed is still there.
LEMMA RemovalKeeps ==
    ASSUME NEW idx \in [Key -> Seq(Slot)], NEW k \in Key, NEW key,
           NEW n \in 1 .. Len(idx[k])
    PROVE  LET new == Relooked(Popped(idx, k, n), key, idx[k][n])
           IN  /\ new \in [Key -> Seq(Slot)]
               /\ \A l \in Key : KeepsAllBut(new[l], idx[l], idx[k][n])
<1> DEFINE s == idx[k][n]
           mid == Popped(idx, k, n)
           new == Relooked(mid, key, s)
<1>1. s \in Slot /\ \A l \in Key : idx[l] \in Seq(Slot)
  BY LenProperties
<1>2. mid \in [Key -> Seq(Slot)] /\ \A l \in Key : KeepsAllBut(mid[l], idx[l], s)
  <2>1. RemoveAt(idx[k], n) \in Seq(Slot) /\ KeepsAllBut(RemoveAt(idx[k], n), idx[k], s)
    BY <1>1, RemoveAtKeeps
  <2>2. \A l \in Key : KeepsAllBut(idx[l], idx[l], s)
    BY DEF KeepsAllBut
  <2> QED BY <2>1, <2>2 DEF Popped
<1> HIDE DEF mid, s
<1>3. ASSUME NEW l \in Key
      PROVE  new[l] \in Seq(Slot) /\ KeepsAllBut(new[l], mid[l], s)
  <2>1. mid[l] \in Seq(Slot)
    BY <1>2
  <2>2. RemoveFirst(mid[l], s) \in Seq(Slot) /\ KeepsAllBut(RemoveFirst(mid[l], s), mid[l], s)
    BY <1>1, <2>1, RemoveFirstKeeps
  <2>3. KeepsAllBut(mid[l], mid[l], s)
    BY DEF KeepsAllBut
  <2>4. new[l] = IF LowerBound(mid, key, l) THEN RemoveFirst(mid[l], s) ELSE mid[l]
    BY DEF Relooked
  <2> QED BY <2>1, <2>2, <2>3, <2>4
<1>4. new \in [Key -> Seq(Slot)]
  BY <1>3 DEF Relooked
<1> HIDE DEF new
<1>5. \A l \in Key : KeepsAllBut(new[l], idx[l], s)
  BY <1>2, <1>3, KeepingTwice
<1> QED BY <1>4, <1>5 DEF new, mid, s

-----------------------------------------------------------------------------
(* Type correctness.                                                       *)

\* A thread whose call, place and slot do not change still fits its call.
LEMMA OthersFit ==
    ASSUME \A th \in Thread : CallFits(th), NEW th \in Thread,
           \A w \in Thread : w # th =>
               pc'[w] = pc[w] /\ call'[w] = call[w] /\ slot'[w] = slot[w],
           CallFits(th)'
    PROVE  \A w \in Thread : CallFits(w)'
BY DEF CallFits

\* Every call a thread may make is one, and a thread starts it at the step its
\* kind of call starts with.
LEMMA InvokeTypes ==
    ASSUME TypeOK, NEW th \in Thread, Invoke(th)
    PROVE  TypeOK'
<1>1. PICK c \in Calls[th] :
        /\ call' = [call EXCEPT ![th] = c]
        /\ pc' = [pc EXCEPT ![th] = IF IsOut(c) THEN "outCheck" ELSE "try"]
  BY DEF Invoke, Goto
<1>2. c \in Call
  BY StoreAssumption
<1>3. CallFits(th)'
  <2>1. call'[th] = c /\ pc'[th] = IF IsOut(c) THEN "outCheck" ELSE "try"
    BY <1>1 DEF TypeOK
  <2>2. CASE IsOut(c)
    BY <1>2, <2>1, <2>2 DEF CallFits, OutPC, WaitPC
  <2>3. CASE ~IsOut(c)
    BY <1>2, <2>1, <2>3 DEF CallFits, OutPC, WaitPC
  <2> QED BY <2>2, <2>3
<1>4. \A w \in Thread : CallFits(w)'
  BY <1>1, <1>3, OthersFit DEF TypeOK, Invoke
<1>5. pc' \in [Thread -> PC] /\ call' \in [Thread -> Call \cup {None}]
  BY <1>1, <1>2 DEF TypeOK, PC, OutPC
<1>6. calls' \in [Thread -> Nat] /\ \A w \in Thread : calls'[w] <= MaxCalls[w]
  <2>1. /\ calls \in [Thread -> Nat] /\ \A w \in Thread : calls[w] <= MaxCalls[w]
        /\ calls[th] < MaxCalls[th]
        /\ calls' = [calls EXCEPT ![th] = calls[th] + 1]
    BY DEF TypeOK, Invoke
  <2>2. ASSUME NEW w \in Thread PROVE calls'[w] \in Nat /\ calls'[w] <= MaxCalls[w]
    <3>1. calls[w] \in Nat /\ MaxCalls[w] \in Nat
      BY <2>1, StoreAssumption
    <3>2. calls'[w] = IF w = th THEN calls[w] + 1 ELSE calls[w]
      BY <2>1
    <3> QED BY <2>1, <3>1, <3>2
  <2> QED BY <2>1, <2>2
<1> QED BY <1>4, <1>5, <1>6 DEF TypeOK, Invoke

\* An out moves along its steps; its push fills a slot and its indexing
\* appends that slot.
LEMMA OutTypes ==
    ASSUME TypeOK, NEW th \in Thread,
           OutCheck(th) \/ OutPush(th) \/ OutIndex(th) \/ OutMark(th) \/ OutNotify(th)
    PROVE  TypeOK'
<1> USE DEF At, Goto, OutPC, WaitPC
<1>1. call[th] \in Call /\ IsOut(call[th]) /\ call[th].tuple \in Tuple
  BY CallTypes DEF TypeOK, CallFits, OutCheck, OutPush, OutIndex, OutMark, OutNotify
<1>2. CASE OutCheck(th)
  <2>1. CallFits(th)' /\ pc' \in [Thread -> PC] /\ removedLater' \subseteq Tuple
    BY <1>1, <1>2 DEF OutCheck, TypeOK, CallFits, PC
  <2>2. \A w \in Thread : CallFits(w)'
    BY <1>2, <2>1, OthersFit DEF OutCheck, TypeOK
  <2> QED BY <1>2, <2>1, <2>2 DEF OutCheck, TypeOK
<1>3. CASE OutPush(th)
  <2>1. PICK s \in Slot : /\ data' = [data EXCEPT ![s] = call[th].tuple]
                          /\ slot' = [slot EXCEPT ![th] = s]
    BY <1>3 DEF OutPush
  <2>2. s # None
    BY StoreAssumption
  <2>3. CallFits(th)' /\ pc' \in [Thread -> PC]
    BY <1>1, <1>3, <2>1, <2>2 DEF OutPush, TypeOK, CallFits, PC
  <2>4. \A w \in Thread : CallFits(w)'
    BY <1>3, <2>1, <2>3, OthersFit DEF OutPush, TypeOK
  <2>5. data' \in [Slot -> Tuple \cup {None}] /\ slot' \in [Thread -> Slot \cup {None}]
    BY <1>1, <2>1 DEF TypeOK
  <2> QED BY <1>3, <2>3, <2>4, <2>5 DEF OutPush, TypeOK
<1>4. CASE OutIndex(th)
  <2>1. slot[th] \in Slot
    BY <1>4 DEF OutIndex, TypeOK, CallFits
  <2>2. index' \in [Field -> [Key -> Seq(Slot)]]
    <3>1. ASSUME NEW i \in Field, i <= Len(call[th].tuple)
          PROVE  call[th].tuple[i] \in Key
      BY <1>1, <3>1, LenProperties DEF Tuple, Field
    <3>2. ASSUME NEW i \in Field, NEW k \in Key
          PROVE  Append(index[i][k], slot[th]) \in Seq(Slot)
      <4>1. index[i][k] \in Seq(Slot)
        BY DEF TypeOK
      <4> QED BY <2>1, <4>1, AppendProperties
    <3> QED BY <1>4, <3>1, <3>2 DEF OutIndex, TypeOK
  <2>3. CallFits(th)' /\ pc' \in [Thread -> PC] /\ slot' \in [Thread -> Slot \cup {None}]
    BY <1>1, <1>4 DEF OutIndex, TypeOK, CallFits, PC
  <2>4. \A w \in Thread : CallFits(w)'
    BY <1>4, <2>3, OthersFit DEF OutIndex, TypeOK
  <2> QED BY <1>4, <2>2, <2>3, <2>4 DEF OutIndex, TypeOK
<1>5. CASE OutMark(th)
  <2>1. CallFits(th)' /\ pc' \in [Thread -> PC] /\ syncNeeded' \in Nat
    BY <1>1, <1>5 DEF OutMark, TypeOK, CallFits, PC
  <2>2. \A w \in Thread : CallFits(w)'
    BY <1>5, <2>1, OthersFit DEF OutMark, TypeOK
  <2> QED BY <1>5, <2>1, <2>2 DEF OutMark, TypeOK
<1>6. CASE OutNotify(th)
  <2>1. \A w \in Thread : CallFits(w)'
    BY <1>6 DEF OutNotify, TypeOK, CallFits
  <2>2. pc' \in [Thread -> PC]
    BY <1>6 DEF OutNotify, TypeOK, PC
  <2> QED BY <1>6, <2>1, <2>2 DEF OutNotify, TypeOK
<1> QED BY <1>2, <1>3, <1>4, <1>5, <1>6

\* A lookup leaves indices and list well-formed, and a miss sends each kind of
\* call to the step that is its own.
LEMMA TryTypes ==
    ASSUME TypeOK, NEW th \in Thread,
           TryIndex(th) \/ TryScan(th) \/ TryMiss(th) \/ TryFault(th) \/ Owe(th)
    PROVE  TypeOK'
<1> USE DEF At, Goto, OutPC, WaitPC
<1>1. call[th] \in Call /\ ~IsOut(call[th])
  BY DEF TypeOK, CallFits, TryIndex, TryScan, TryMiss, TryFault, Owe
<1>2. CASE TryIndex(th)
  <2>1. PICK i \in Field, k \in Key : \E n \in 1 .. Len(index[i][k]) :
          /\ data[index[i][k][n]] # None
          /\ Found(th, data[index[i][k][n]])
          /\ IF Removes(call[th])
             THEN /\ index' = [index EXCEPT ![i] = Relooked(Popped(@, k, n),
                                  data[index[i][k][n]][i], index[i][k][n])]
                  /\ data' = [data EXCEPT ![index[i][k][n]] = None]
             ELSE UNCHANGED <<index, data>>
    BY <1>2 DEF TryIndex
  <2>2. PICK n \in 1 .. Len(index[i][k]) :
          /\ data[index[i][k][n]] # None
          /\ Found(th, data[index[i][k][n]])
          /\ IF Removes(call[th])
             THEN /\ index' = [index EXCEPT ![i] = Relooked(Popped(@, k, n),
                                  data[index[i][k][n]][i], index[i][k][n])]
                  /\ data' = [data EXCEPT ![index[i][k][n]] = None]
             ELSE UNCHANGED <<index, data>>
    BY <2>1
  <2> DEFINE s == index[i][k][n]
  <2>3. index[i] \in [Key -> Seq(Slot)] /\ s \in Slot /\ data[s] \in Tuple
    <3>1. index[i][k] \in Seq(Slot)
      BY DEF TypeOK
    <3>2. s \in Slot
      BY <3>1, LenProperties
    <3> QED BY <2>2, <3>2 DEF TypeOK
  <2>4. Relooked(Popped(index[i], k, n), data[s][i], s) \in [Key -> Seq(Slot)]
    BY <2>3, RemovalKeeps
  <2>5. /\ index' \in [Field -> [Key -> Seq(Slot)]]
        /\ data' \in [Slot -> Tuple \cup {None}]
        /\ ans' \in [Thread -> Tuple \cup {None}]
    BY <2>2, <2>3, <2>4 DEF TypeOK, Found
  <2>6. CallFits(th)' /\ pc' \in [Thread -> PC]
    BY <1>1, <1>2, <2>2 DEF TryIndex, Found, TypeOK, CallFits, PC
  <2>7. \A w \in Thread : CallFits(w)'
    BY <1>2, <2>2, <2>6, OthersFit DEF TryIndex, Found, TypeOK
  <2> QED BY <1>2, <2>5, <2>6, <2>7 DEF TryIndex, TypeOK
<1>3. CASE TryScan(th)
  <2>1. /\ data' \in [Slot -> Tuple \cup {None}]
        /\ ans' \in [Thread -> Tuple \cup {None}]
    BY <1>3 DEF TryScan, TypeOK, Found
  <2>2. CallFits(th)' /\ pc' \in [Thread -> PC]
    BY <1>1, <1>3 DEF TryScan, Found, TypeOK, CallFits, PC
  <2>3. \A w \in Thread : CallFits(w)'
    BY <1>3, <2>2, OthersFit DEF TryScan, Found, TypeOK
  <2> QED BY <1>3, <2>1, <2>2, <2>3 DEF TryScan, TypeOK
<1>4. CASE TryMiss(th)
  <2>1. CallFits(th)' /\ pc' \in [Thread -> PC]
    BY <1>1, <1>4 DEF TryMiss, TypeOK, CallFits, PC
  <2>2. \A w \in Thread : CallFits(w)'
    BY <1>4, <2>1, OthersFit DEF TryMiss, TypeOK
  <2> QED BY <1>4, <2>1, <2>2 DEF TryMiss, TypeOK
<1>5. CASE TryFault(th)
  BY <1>5 DEF TryFault, TypeOK, CallFits
<1>6. CASE Owe(th)
  <2>1. CallFits(th)' /\ pc' \in [Thread -> PC] /\ removedLater' \subseteq Tuple
    BY <1>1, <1>6, CallTypes DEF Owe, TypeOK, CallFits, PC
  <2>2. \A w \in Thread : CallFits(w)'
    BY <1>6, <2>1, OthersFit DEF Owe, TypeOK
  <2> QED BY <1>6, <2>1, <2>2 DEF Owe, TypeOK
<1> QED BY <1>2, <1>3, <1>4, <1>5, <1>6

\* Waiting moves a thread about between looking, its flag and its sleep.
LEMMA WaitTypes ==
    ASSUME TypeOK, NEW th \in Thread,
           Reset(th) \/ CheckSync(th) \/ Park(th) \/ WakeSpuriously(th)
    PROVE  TypeOK'
<1> USE DEF At, Goto, Reset, CheckSync, Park, WakeSpuriously
<1>1. /\ call[th] \in Call /\ ~IsOut(call[th]) /\ Waits(call[th])
      /\ UNCHANGED <<call, slot>>
  BY DEF TypeOK, CallFits, WaitPC
<1>2. PICK there \in WaitPC \cup {"try"} : pc' = [pc EXCEPT ![th] = there]
  BY DEF WaitPC
<1>3. CallFits(th)' /\ pc' \in [Thread -> PC]
  BY <1>1, <1>2 DEF TypeOK, CallFits, PC, OutPC, WaitPC
<1>4. \A w \in Thread : CallFits(w)'
  BY <1>1, <1>2, <1>3, OthersFit DEF TypeOK
<1> QED BY <1>3, <1>4 DEF TypeOK

LEMMA TypesKept ==
    TypeOK /\ [Next]_vars => TypeOK'
<1> SUFFICES ASSUME TypeOK, [Next]_vars PROVE TypeOK'
  OBVIOUS
<1>1. CASE Next
  <2>1. PICK th \in Thread : Invoke(th) \/ Continue(th) \/ WakeSpuriously(th)
    BY <1>1 DEF Next
  <2> QED BY <2>1, InvokeTypes, OutTypes, TryTypes, WaitTypes DEF Continue
<1>2. CASE UNCHANGED vars
  BY <1>2 DEF vars, TypeOK, CallFits
<1> QED BY <1>1, <1>2

\* In every run each variable has its type, and what a thread is doing fits
\* the call it is in: only an out pushes and indexes, only in and rd wait,
\* only remove_nosignal notes a debt.
THEOREM TypeCorrect == Spec => []TypeOK
<1>1. Init => TypeOK
  <2> SUFFICES ASSUME Init PROVE TypeOK
    OBVIOUS
  <2>1. index \in [Field -> [Key -> Seq(Slot)]]
    BY EmptySeq DEF Init
  <2>2. calls \in [Thread -> Nat] /\ \A th \in Thread : calls[th] <= MaxCalls[th]
    BY StoreAssumption DEF Init
  <2>3. \A th \in Thread : CallFits(th)
    BY DEF Init, CallFits, OutPC, WaitPC
  <2> QED BY <2>1, <2>2, <2>3 DEF Init, TypeOK, PC
<1> QED BY <1>1, TypesKept, PTL DEF Spec

-----------------------------------------------------------------------------
(* The indices are complete.                                               *)

\* A step that leaves slot s and the indices as they are, and whose thread is
\* not about to index, leaves s where it was.
LEMMA StillThere ==
    ASSUME NEW s \in Slot, NEW th \in Thread, pc[th] # "outIndex",
           data'[s] = data[s], index' = index, InIndex(s) \/ Arriving(s),
           \A w \in Thread : pc[w] = "outIndex" =>
               w # th /\ pc'[w] = pc[w] /\ call'[w] = call[w] /\ slot'[w] = slot[w]
    PROVE  InIndex(s)' \/ Arriving(s)'
BY DEF InIndex, Arriving

\* A push makes its tuple one that is arriving.
LEMMA PushCompletes ==
    ASSUME TypeOK, IndexComplete, NEW th \in Thread, OutPush(th)
    PROVE  IndexComplete'
<1> USE DEF At, Goto
<1>1. PICK s \in Slot : /\ data[s] = None
                        /\ data' = [data EXCEPT ![s] = call[th].tuple]
                        /\ slot' = [slot EXCEPT ![th] = s]
  BY DEF OutPush
<1>2. Arriving(s)'
  BY <1>1 DEF OutPush, Arriving, TypeOK
<1>3. ASSUME NEW r \in Slot, r # s, data'[r] # None
      PROVE  InIndex(r)' \/ Arriving(r)'
  <2>1. InIndex(r) \/ Arriving(r)
    BY <1>1, <1>3 DEF IndexComplete, TypeOK
  <2> QED BY <1>1, <1>3, <2>1, StillThere DEF OutPush, TypeOK
<1> QED BY <1>2, <1>3 DEF IndexComplete

\* Indexing appends the slot under each field of its tuple and takes nothing
\* out.
LEMMA IndexingCompletes ==
    ASSUME TypeOK, IndexComplete, NEW th \in Thread, OutIndex(th)
    PROVE  IndexComplete'
<1> DEFINE t == call[th].tuple
<1>1. /\ data' = data /\ call' = call /\ slot[th] \in Slot /\ t \in Tuple
      /\ pc' = [pc EXCEPT ![th] = "outMark"] /\ slot' = [slot EXCEPT ![th] = None]
      /\ pc[th] = "outIndex"
  BY CallTypes DEF OutIndex, At, Goto, TypeOK, CallFits, OutPC
<1>2. ASSUME NEW i \in Field, NEW k \in Key
      PROVE  /\ index[i][k] \in Seq(Slot)
             /\ index'[i][k] = IF i <= Len(t) /\ t[i] = k
                               THEN Append(index[i][k], slot[th]) ELSE index[i][k]
  BY DEF OutIndex, TypeOK
<1>3. ASSUME NEW i \in Field, NEW k \in Key, NEW n \in 1 .. Len(index[i][k])
      PROVE  n \in 1 .. Len(index'[i][k]) /\ index'[i][k][n] = index[i][k][n]
  <2> DEFINE q == index[i][k]
             after == index'[i][k]
  <2>1. /\ Len(Append(q, slot[th])) = Len(q) + 1
        /\ Append(q, slot[th])[n] = q[n]
        /\ Len(q) \in Nat /\ n \in 1 .. Len(q)
    BY <1>1, <1>2, AppendProperties, LenProperties
  <2>2. after = Append(q, slot[th]) \/ after = q
    BY <1>2
  <2>3. n \in 1 .. Len(after) /\ after[n] = q[n]
    <3> HIDE DEF q, after
    <3> QED BY <2>1, <2>2
  <2> QED BY <2>3
<1>4. ASSUME NEW i \in Field, i <= Len(t)
      PROVE  \E n \in 1 .. Len(index'[i][t[i]]) : index'[i][t[i]][n] = slot[th]
  <2>1. t[i] \in Key
    BY <1>1, <1>4, LenProperties DEF Tuple, Field
  <2> DEFINE q == index[i][t[i]]
  <2>2. /\ Append(q, slot[th])[Len(q) + 1] = slot[th]
        /\ Len(Append(q, slot[th])) = Len(q) + 1
        /\ Len(q) \in Nat
    BY SMTT(30), <1>1, <1>2, <2>1, AppendProperties, LenProperties
  <2>3. index'[i][t[i]] = Append(q, slot[th])
    BY <1>2, <1>4, <2>1
  <2> HIDE DEF q
  <2> QED BY <2>2, <2>3
<1>5. ASSUME NEW s \in Slot, data'[s] # None
      PROVE  InIndex(s)' \/ Arriving(s)'
  <2>1. data[s] \in Tuple /\ (InIndex(s) \/ Arriving(s))
    BY <1>1, <1>5 DEF IndexComplete, TypeOK
  <2>2. ASSUME NEW i \in Field, i <= Len(data[s]) PROVE data[s][i] \in Key
    BY <2>1, <2>2, LenProperties DEF Tuple, Field
  <2>3. CASE InIndex(s)
    <3>1. InIndex(s)'
      BY ZenonT(30), <1>1, <1>3, <2>2, <2>3 DEF InIndex
    <3> QED BY <3>1
  <2>4. CASE slot[th] = s /\ t = data[s]
    <3>1. InIndex(s)'
      BY <1>1, <1>4, <2>4 DEF InIndex
    <3> QED BY <3>1
  <2>5. CASE \E w \in Thread \ {th} :
               pc[w] = "outIndex" /\ slot[w] = s /\ call[w].tuple = data[s]
    <3>1. Arriving(s)'
      BY <1>1, <2>5 DEF Arriving, TypeOK
    <3> QED BY <3>1
  <2> QED BY <2>1, <2>3, <2>4, <2>5 DEF Arriving
<1> QED BY <1>5 DEF IndexComplete

\* A removal through an index empties a slot and takes out of that index
\* entries of that slot only.
LEMMA LookupCompletes ==
    ASSUME TypeOK, IndexComplete, NEW th \in Thread, TryIndex(th)
    PROVE  IndexComplete'
<1>1. PICK i \in Field, k \in Key : \E n \in 1 .. Len(index[i][k]) :
        /\ Found(th, data[index[i][k][n]])
        /\ IF Removes(call[th])
           THEN /\ index' = [index EXCEPT ![i] = Relooked(Popped(@, k, n),
                                data[index[i][k][n]][i], index[i][k][n])]
                /\ data' = [data EXCEPT ![index[i][k][n]] = None]
           ELSE UNCHANGED <<index, data>>
  BY DEF TryIndex
<1>2. PICK n \in 1 .. Len(index[i][k]) :
        /\ Found(th, data[index[i][k][n]])
        /\ IF Removes(call[th])
           THEN /\ index' = [index EXCEPT ![i] = Relooked(Popped(@, k, n),
                                data[index[i][k][n]][i], index[i][k][n])]
                /\ data' = [data EXCEPT ![index[i][k][n]] = None]
           ELSE UNCHANGED <<index, data>>
  BY <1>1
<1> DEFINE s == index[i][k][n]
           new == Relooked(Popped(index[i], k, n), data[s][i], s)
<1>3. /\ pc[th] = "try" /\ pc' = [pc EXCEPT ![th] = "idle"] /\ UNCHANGED <<call, slot>>
  BY <1>2 DEF TryIndex, At, Found, Goto
<1>4. index \in [Field -> [Key -> Seq(Slot)]] /\ s \in Slot
  BY LenProperties DEF TypeOK
<1>5. CASE UNCHANGED <<index, data>>
  BY <1>3, <1>5, StillThere DEF IndexComplete, TypeOK
<1>6. CASE /\ index' = [index EXCEPT ![i] = new]
           /\ data' = [data EXCEPT ![s] = None]
  <2>1. \A l \in Key : KeepsAllBut(new[l], index[i][l], s)
    BY <1>4, RemovalKeeps
  <2> HIDE DEF new, s
  <2>2. ASSUME NEW r \in Slot, data'[r] # None
        PROVE  InIndex(r)' \/ Arriving(r)'
    <3>1. r # s /\ data'[r] = data[r] /\ data[r] \in Tuple /\ (InIndex(r) \/ Arriving(r))
      BY <1>6, <2>2 DEF IndexComplete, TypeOK
    <3>2. CASE InIndex(r)
      <4>1. ASSUME NEW j \in Field, j <= Len(data[r])
            PROVE  \E m \in 1 .. Len(index'[j][data[r][j]]) : index'[j][data[r][j]][m] = r
        <5>1. data[r][j] \in Key
          BY <3>1, <4>1, LenProperties DEF Tuple, Field
        <5>2. PICK m \in 1 .. Len(index[j][data[r][j]]) : index[j][data[r][j]][m] = r
          BY <3>2, <4>1 DEF InIndex
        <5>3. CASE j = i
          <6>1. index'[j][data[r][j]] = new[data[r][j]]
            BY <1>4, <1>6, <5>3
          <6> QED BY <2>1, <3>1, <5>1, <5>2, <5>3, <6>1 DEF KeepsAllBut
        <5>4. CASE j # i
          BY <1>4, <1>6, <5>2, <5>4
        <5> QED BY <5>3, <5>4
      <4>2. InIndex(r)'
        BY <3>1, <4>1 DEF InIndex
      <4> QED BY <4>2
    <3>3. CASE Arriving(r)
      <4>1. Arriving(r)'
        BY <1>3, <3>1, <3>3 DEF Arriving, TypeOK
      <4> QED BY <4>1
    <3> QED BY <3>1, <3>2, <3>3
  <2> QED BY <2>2 DEF IndexComplete
<1> QED BY <1>2, <1>5, <1>6

LEMMA IndexCompleteKept ==
    TypeOK /\ IndexComplete /\ [Next]_vars => IndexComplete'
<1> SUFFICES ASSUME TypeOK, IndexComplete, [Next]_vars PROVE IndexComplete'
  OBVIOUS
<1>1. ASSUME NEW th \in Thread, pc[th] # "outIndex", index' = index,
             \A s \in Slot : data'[s] # None => data'[s] = data[s],
             \A w \in Thread : pc[w] = "outIndex" =>
                 w # th /\ pc'[w] = pc[w] /\ call'[w] = call[w] /\ slot'[w] = slot[w]
      PROVE  IndexComplete'
  <2>1. ASSUME NEW s \in Slot, data'[s] # None PROVE InIndex(s)' \/ Arriving(s)'
    <3>1. data'[s] = data[s] /\ (InIndex(s) \/ Arriving(s))
      BY <1>1, <2>1 DEF IndexComplete
    <3> QED BY <1>1, <3>1, StillThere
  <2> QED BY <2>1 DEF IndexComplete
<1>2. CASE Next
  <2>1. PICK th \in Thread : Invoke(th) \/ Continue(th) \/ WakeSpuriously(th)
    BY <1>2 DEF Next
  <2> USE DEF At, Goto, TypeOK
  <2>2. CASE Invoke(th)
    BY <1>1, <2>2 DEF Invoke
  <2>3. CASE OutCheck(th)
    BY <1>1, <2>3 DEF OutCheck
  <2>4. CASE OutMark(th)
    BY <1>1, <2>4 DEF OutMark
  <2>5. CASE OutNotify(th)
    BY <1>1, <2>5 DEF OutNotify
  <2>6. CASE TryScan(th)
    BY <1>1, <2>6 DEF TryScan, Found
  <2>7. CASE TryMiss(th)
    BY <1>1, <2>7 DEF TryMiss
  <2>8. CASE TryFault(th)
    BY <1>1, <2>8 DEF TryFault
  <2>9. CASE Owe(th)
    BY <1>1, <2>9 DEF Owe
  <2>10. CASE Reset(th) \/ CheckSync(th) \/ Park(th) \/ WakeSpuriously(th)
    BY <1>1, <2>10 DEF Reset, CheckSync, Park, WakeSpuriously
  <2> QED BY <2>1, <2>2, <2>3, <2>4, <2>5, <2>6, <2>7, <2>8, <2>9, <2>10,
             PushCompletes, IndexingCompletes, LookupCompletes DEF Continue
<1>3. CASE UNCHANGED vars
  BY <1>3 DEF vars, IndexComplete, InIndex, Arriving
<1> QED BY <1>2, <1>3

\* In every run, each tuple in the list can be reached through the index of
\* each field it has, or is about to be.
THEOREM IndexCompleteAlways == Spec => []IndexComplete
<1>1. Init => IndexComplete
  BY DEF Init, IndexComplete
<1> QED BY <1>1, IndexCompleteKept, TypeCorrect, PTL DEF Spec
-----------------------------------------------------------------------------
(* The sync flag when one thread waits.                                    *)

\* At most one thread makes calls that wait, as in a program whose ranks have
\* one thread each besides the receiver.
OneWaiter ==
    \A v, w \in Thread :
        (\E c \in Calls[v] : Waits(c)) /\ (\E c \in Calls[w] : Waits(c)) => v = w

\* The call a thread is in is one of its calls.
OwnCall == \A th \in Thread : pc[th] # "idle" => call[th] \in Calls[th]

LEMMA OwnCallKept ==
    TypeOK /\ OwnCall /\ [Next]_vars => OwnCall'
<1> SUFFICES ASSUME TypeOK, OwnCall, [Next]_vars PROVE OwnCall'
  OBVIOUS
<1> USE DEF At, Goto, OwnCall, TypeOK
<1>1. CASE Next
  <2>1. PICK th \in Thread : Invoke(th) \/ Continue(th) \/ WakeSpuriously(th)
    BY <1>1 DEF Next
  <2>2. CASE Invoke(th)
    BY <2>2 DEF Invoke
  <2>3. CASE OutNotify(th)
    BY <2>3 DEF OutNotify
  <2>4. CASE OutCheck(th) \/ OutPush(th) \/ OutIndex(th) \/ OutMark(th)
    BY <2>4 DEF OutCheck, OutPush, OutIndex, OutMark
  <2>5. CASE TryIndex(th) \/ TryScan(th)
    BY <2>5 DEF TryIndex, TryScan, Found
  <2>6. CASE TryMiss(th) \/ TryFault(th) \/ Owe(th)
    BY <2>6 DEF TryMiss, TryFault, Owe
  <2>7. CASE Reset(th) \/ CheckSync(th) \/ Park(th) \/ WakeSpuriously(th)
    BY <2>7 DEF Reset, CheckSync, Park, WakeSpuriously
  <2> QED BY <2>1, <2>2, <2>3, <2>4, <2>5, <2>6, <2>7 DEF Continue
<1>2. CASE UNCHANGED vars
  BY <1>2 DEF vars
<1> QED BY <1>1, <1>2

\* A step that pushes nothing, leaves the flag no lower and takes no out past
\* its mark loses no mark, if the threads that wait after it waited before.
LEMMA MarkStays ==
    ASSUME TypeOK, MarkNotLost, NEW th \in Thread,
           \A s \in Slot : data'[s] # None => data'[s] = data[s],
           call' = call, syncNeeded' = syncNeeded,
           \A w \in Thread : w # th => (Waiting(w)' => Waiting(w)),
           \A w \in Thread : w # th /\ pc[w] \in {"outIndex", "outMark"} => pc'[w] = pc[w],
           Waiting(th)' => Waiting(th) \/ ~MatchLive(th),
           pc[th] \in {"outIndex", "outMark"} => pc'[th] \in {"outIndex", "outMark"}
    PROVE  MarkNotLost'
<1> SUFFICES ASSUME NEW w \in Thread, Waiting(w)', MatchLive(w)'
             PROVE  \/ syncNeeded' > 0
                    \/ \E v \in Thread : pc'[v] \in {"outIndex", "outMark"}
  BY DEF MarkNotLost
<1>1. MatchLive(w)
  BY DEF MatchLive
<1>2. Waiting(w)
  BY <1>1
<1>3. \/ syncNeeded > 0
      \/ \E v \in Thread : pc[v] \in {"outIndex", "outMark"}
  BY <1>1, <1>2 DEF MarkNotLost
<1> QED BY <1>3

LEMMA MarkKept ==
    ASSUME OneWaiter, TypeOK, OwnCall, MarkNotLost, [Next]_vars
    PROVE  MarkNotLost'
<1> USE DEF At, Goto
<1>1. CASE Next
  <2>1. PICK th \in Thread : Invoke(th) \/ Continue(th) \/ WakeSpuriously(th)
    BY <1>1 DEF Next
  \* An out that has pushed and not marked yet is what keeps the promise.
  <2>2. CASE Invoke(th)
    <3> SUFFICES ASSUME NEW w \in Thread, Waiting(w)', MatchLive(w)'
                 PROVE  \/ syncNeeded' > 0
                        \/ \E v \in Thread : pc'[v] \in {"outIndex", "outMark"}
      BY DEF MarkNotLost
    <3>1. w # th /\ pc'[w] = pc[w] /\ call'[w] = call[w]
      BY <2>2 DEF Invoke, Waiting, WaitPC, TypeOK
    <3>2. Waiting(w) /\ MatchLive(w)
      BY <2>2, <3>1 DEF Invoke, Waiting, MatchLive
    <3>3. \/ syncNeeded > 0
          \/ \E v \in Thread : pc[v] \in {"outIndex", "outMark"}
      BY <3>2 DEF MarkNotLost
    <3>4. \A v \in Thread : pc[v] \in {"outIndex", "outMark"} => pc'[v] = pc[v]
      BY <2>2 DEF Invoke, TypeOK
    <3> QED BY <2>2, <3>3, <3>4 DEF Invoke
  <2>3. CASE OutPush(th)
    <3>1. pc'[th] = "outIndex"
      BY <2>3 DEF OutPush, TypeOK
    <3> QED BY <3>1 DEF MarkNotLost
  <2>4. CASE OutMark(th)
    <3>1. syncNeeded' > 0
      BY <2>4 DEF OutMark, TypeOK
    <3> QED BY <3>1 DEF MarkNotLost
  <2>5. CASE Reset(th)
    <3>1. CASE syncNeeded = 0
      BY <2>5, <3>1, MarkStays DEF Reset, Waiting, WaitPC, TypeOK
    <3>2. CASE syncNeeded > 0
      <4>1. Waits(call[th]) /\ call[th] \in Calls[th]
        BY <2>5 DEF Reset, TypeOK, CallFits, WaitPC, OwnCall
      <4>2. ASSUME NEW w \in Thread, Waiting(w)' PROVE FALSE
        <5>1. w # th /\ Waiting(w)
          BY <2>5, <3>2, <4>2 DEF Reset, Waiting, WaitPC, TypeOK
        <5>2. Waits(call[w]) /\ call[w] \in Calls[w]
          BY <5>1 DEF Waiting, TypeOK, CallFits, WaitPC, OwnCall
        <5> QED BY <4>1, <5>1, <5>2 DEF OneWaiter
      <4> QED BY <4>2 DEF MarkNotLost
    <3> QED BY <3>1, <3>2 DEF TypeOK
  <2>6. CASE OutCheck(th) \/ OutIndex(th)
    BY <2>6, MarkStays DEF OutCheck, OutIndex, Waiting, WaitPC, TypeOK
  <2>7. CASE OutNotify(th)
    BY <2>7, MarkStays DEF OutNotify, Waiting, WaitPC, TypeOK
  <2>8. CASE TryIndex(th)
    BY <2>8, MarkStays DEF TryIndex, Found, Waiting, WaitPC, TypeOK
  <2>9. CASE TryScan(th)
    BY <2>9, MarkStays DEF TryScan, Found, Waiting, WaitPC, TypeOK
  <2>10. CASE TryMiss(th)
    <3>1. ~MatchLive(th)
      BY <2>10 DEF TryMiss, MatchLive
    <3> QED BY <2>10, <3>1, MarkStays DEF TryMiss, Waiting, WaitPC, TypeOK
  <2>11. CASE TryFault(th) \/ Owe(th)
    BY <2>11, MarkStays DEF TryFault, Owe, Waiting, WaitPC, TypeOK
  <2>12. CASE CheckSync(th) \/ Park(th) \/ WakeSpuriously(th)
    BY <2>12, MarkStays DEF CheckSync, Park, WakeSpuriously, Waiting, WaitPC, TypeOK
  <2> QED BY <2>1, <2>2, <2>3, <2>4, <2>5, <2>6, <2>7, <2>8, <2>9, <2>10, <2>11,
             <2>12 DEF Continue
<1>2. CASE UNCHANGED vars
  BY <1>2 DEF vars, MarkNotLost, MatchLive, Waiting
<1> QED BY <1>1, <1>2

\* When one thread at most waits, the exchange that resets the sync flag never
\* eats the mark of a tuple that thread has not looked for yet: while it waits
\* and its tuple is there, the flag is set or the out is about to set it.
THEOREM OneWaiterKeepsItsMark == OneWaiter /\ Spec => []MarkNotLost
<1>1. Init => OwnCall /\ MarkNotLost
  BY DEF Init, OwnCall, MarkNotLost, Waiting, WaitPC
<1>2. Spec => []OwnCall
  BY <1>1, OwnCallKept, TypeCorrect, PTL DEF Spec
<1>3. ASSUME OneWaiter PROVE Spec => []MarkNotLost
  <2>1. TypeOK /\ OwnCall /\ MarkNotLost /\ [Next]_vars => MarkNotLost'
    BY <1>3, MarkKept
  <2> QED BY <1>1, <1>2, <2>1, TypeCorrect, PTL DEF Spec
<1> QED BY <1>3
-----------------------------------------------------------------------------
(* Where the store cleans up behind itself: one thread, tuples of one      *)
(* field, queries by a linda_value.  Its first index is then exact, and no *)
(* lookup faults.                                                          *)

\* The use of the store in which no removal leaves an entry behind: there is
\* one index to clean, the key finds it, and no scan comes between the push
\* of a tuple and its insertion into the index.
OneFieldUse ==
    /\ \A v, w \in Thread : v = w
    /\ \A th \in Thread : \A c \in Calls[th] :
          IF IsOut(c) THEN Len(c.tuple) = 1
          ELSE /\ c.op # "remove_nosignal" /\ c.query.kind = "value"
               /\ Len(c.query.pat) = 1 /\ c.query.pat[1] # Formal

Holds(idx, s) == \E k \in Key : \E n \in 1 .. Len(idx[k]) : idx[k][n] = s

\* An index of the first field holds live slots, each under its key, once.
Exact(idx) ==
    \A k \in Key : \A n \in 1 .. Len(idx[k]) :
        /\ data[idx[k][n]] # None
        /\ data[idx[k][n]][1] = k
        /\ \A m \in 1 .. n - 1 : idx[k][m] # idx[k][n]

ExactInv ==
    /\ ~fault
    /\ Exact(index[1])
    /\ \A k \in Key : index[2][k] = <<>>
    /\ \A s \in Slot : data[s] # None => Len(data[s]) = 1
    /\ \A th \in Thread : pc[th] = "outIndex" =>
          data[slot[th]] = call[th].tuple /\ ~Holds(index[1], slot[th])

LEMMA QueriesByValue ==
    ASSUME OneFieldUse, TypeOK, OwnCall, NEW th \in Thread, pc[th] = "try"
    PROVE  LET q == QueryOf(call[th]) IN
           q.kind = "value" /\ Len(q.pat) = 1 /\ q.pat[1] # Formal
<1>1. call[th] \in Calls[th] /\ ~IsOut(call[th])
  BY DEF OwnCall, TypeOK, CallFits
<1> QED BY <1>1 DEF OneFieldUse, QueryOf

\* What a removal through the index takes out is the one entry of the slot,
\* and the second removal of the same slot finds nothing.
LEMMA RemovalExact ==
    ASSUME NEW idx \in [Key -> Seq(Slot)], Exact(idx), NEW k \in Key,
           NEW n \in 1 .. Len(idx[k])
    PROVE  /\ Relooked(Popped(idx, k, n), k, idx[k][n]) = Popped(idx, k, n)
           /\ \A l \in Key : \A m \in 1 .. Len(Popped(idx, k, n)[l]) :
                 /\ Popped(idx, k, n)[l][m] # idx[k][n]
                 /\ \E j \in 1 .. Len(idx[l]) : Popped(idx, k, n)[l][m] = idx[l][j]
                 /\ \A i \in 1 .. m - 1 : Popped(idx, k, n)[l][i] # Popped(idx, k, n)[l][m]
<1> DEFINE s == idx[k][n]
           mid == Popped(idx, k, n)
<1>1. \A l \in Key : idx[l] \in Seq(Slot) /\ Len(idx[l]) \in Nat
  BY LenProperties
<1>2. /\ RemoveAt(idx[k], n) \in Seq(Slot) /\ Len(RemoveAt(idx[k], n)) = Len(idx[k]) - 1
      /\ \A m \in 1 .. Len(idx[k]) - 1 :
            RemoveAt(idx[k], n)[m] = IF m < n THEN idx[k][m] ELSE idx[k][m + 1]
  BY <1>1, RemovedAt
<1>3. \A l \in Key : mid[l] = IF l = k THEN RemoveAt(idx[k], n) ELSE idx[l]
  BY DEF Popped
<1>4. mid \in [Key -> Seq(Slot)]
  BY <1>2 DEF Popped
<1>5. \A l \in Key : \A i, j \in 1 .. Len(idx[l]) : i # j => idx[l][i] # idx[l][j]
  <2> SUFFICES ASSUME NEW l \in Key, NEW i \in 1 .. Len(idx[l]), NEW j \in 1 .. Len(idx[l]), i # j
               PROVE  idx[l][i] # idx[l][j]
    OBVIOUS
  <2>1. i \in 1 .. j - 1 \/ j \in 1 .. i - 1
    BY <1>1
  <2> QED BY <2>1 DEF Exact
<1> HIDE DEF mid
<1>6. ASSUME NEW l \in Key, NEW m \in 1 .. Len(mid[l])
      PROVE  /\ mid[l][m] # s
             /\ \E j \in 1 .. Len(idx[l]) : mid[l][m] = idx[l][j]
             /\ \A i \in 1 .. m - 1 : mid[l][i] # mid[l][m]
  <2>1. CASE l = k
    <3> DEFINE At0(i) == IF i < n THEN i ELSE i + 1
    <3>1. Len(mid[l]) = Len(idx[k]) - 1
      BY <1>2, <1>3, <2>1
    <3>2. \A i \in 1 .. Len(idx[k]) - 1 :
            mid[l][i] = idx[k][At0(i)] /\ At0(i) \in 1 .. Len(idx[k]) /\ At0(i) # n
      BY <1>1, <1>2, <1>3, <2>1
    <3>3. \A i \in 1 .. m - 1 : i \in 1 .. Len(idx[k]) - 1 /\ At0(i) # At0(m)
      BY <1>1, <3>1
    <3>4. m \in 1 .. Len(idx[k]) - 1
      BY <3>1
    <3> HIDE DEF At0
    <3>5. /\ mid[l][m] = idx[l][At0(m)] /\ At0(m) \in 1 .. Len(idx[l]) /\ At0(m) # n
          /\ \A i \in 1 .. m - 1 : /\ mid[l][i] = idx[l][At0(i)]
                                  /\ At0(i) \in 1 .. Len(idx[l]) /\ At0(i) # At0(m)
      BY <2>1, <3>2, <3>3, <3>4
    <3>6. n \in 1 .. Len(idx[l]) /\ s = idx[l][n]
      BY <2>1
    <3> HIDE DEF s
    <3> QED BY SMTT(30), <1>5, <3>5, <3>6
  <2>2. CASE l # k
    <3>1. mid[l] = idx[l]
      BY <1>3, <2>2
    <3>2. data[idx[l][m]][1] = l /\ data[s][1] = k
      BY <3>1 DEF Exact
    <3>3. \A i \in 1 .. m - 1 : mid[l][i] # mid[l][m]
      BY <3>1 DEF Exact
    <3> QED BY <2>2, <3>1, <3>2, <3>3
  <2> QED BY <2>1, <2>2
<1>7. \A l \in Key : RemoveFirst(mid[l], s) = mid[l]
  <2> SUFFICES ASSUME NEW l \in Key PROVE RemoveFirst(mid[l], s) = mid[l]
    OBVIOUS
  <2>1. mid[l] \in Seq(Slot) /\ \A m \in 1 .. Len(mid[l]) : mid[l][m] # s
    BY <1>4, <1>6
  <2> HIDE DEF s
  <2> QED BY <2>1, RemoveFirstAbsent
<1>8. Relooked(mid, k, s) = mid
  BY <1>4, <1>7 DEF Relooked
<1> QED BY <1>6, <1>8 DEF mid

LEMMA ExactRemoval ==
    ASSUME OneFieldUse, TypeOK, OwnCall, ExactInv, NEW th \in Thread, TryIndex(th)
    PROVE  ExactInv'
<1>1. PICK i \in Field, k \in Key : \E n \in 1 .. Len(index[i][k]) :
        /\ data[index[i][k][n]] # None
        /\ Found(th, data[index[i][k][n]])
        /\ IF Removes(call[th])
           THEN /\ index' = [index EXCEPT ![i] = Relooked(Popped(@, k, n),
                                data[index[i][k][n]][i], index[i][k][n])]
                /\ data' = [data EXCEPT ![index[i][k][n]] = None]
           ELSE UNCHANGED <<index, data>>
  BY DEF TryIndex
<1>2. PICK n \in 1 .. Len(index[i][k]) :
        /\ Found(th, data[index[i][k][n]])
        /\ IF Removes(call[th])
           THEN /\ index' = [index EXCEPT ![i] = Relooked(Popped(@, k, n),
                                data[index[i][k][n]][i], index[i][k][n])]
                /\ data' = [data EXCEPT ![index[i][k][n]] = None]
           ELSE UNCHANGED <<index, data>>
  BY <1>1
<1>3. i = 1
  <2>1. i = 2 => index[i][k] = <<>>
    BY DEF ExactInv
  <2> QED BY <2>1 DEF Field
<1>4. /\ UNCHANGED <<fault, call, slot>> /\ pc' = [pc EXCEPT ![th] = "idle"]
  BY <1>2 DEF TryIndex, Found, Goto
<1>5. \A w \in Thread : pc'[w] # "outIndex"
  BY <1>4 DEF TypeOK, OneFieldUse
<1> DEFINE idx == index[1]
           s == idx[k][n]
<1>6. idx \in [Key -> Seq(Slot)] /\ s \in Slot /\ Exact(idx)
  <2>1. idx \in [Key -> Seq(Slot)]
    BY DEF TypeOK, Field
  <2> QED BY <1>3, <2>1, LenProperties DEF ExactInv
<1>7. CASE UNCHANGED <<index, data>>
  BY <1>4, <1>5, <1>7 DEF ExactInv, Exact, Holds
<1>8. CASE /\ index' = [index EXCEPT ![1] = Relooked(Popped(idx, k, n), data[s][1], s)]
           /\ data' = [data EXCEPT ![s] = None]
  <2>1. data[s][1] = k
    BY <1>3, <1>6 DEF Exact
  <2>2. /\ Relooked(Popped(idx, k, n), k, s) = Popped(idx, k, n)
        /\ \A l \in Key : \A m \in 1 .. Len(Popped(idx, k, n)[l]) :
              /\ Popped(idx, k, n)[l][m] # s
              /\ \E j \in 1 .. Len(idx[l]) : Popped(idx, k, n)[l][m] = idx[l][j]
              /\ \A j \in 1 .. m - 1 : Popped(idx, k, n)[l][j] # Popped(idx, k, n)[l][m]
    BY SMTT(30), <1>3, <1>6, RemovalExact
  <2>3. index'[1] = Popped(idx, k, n) /\ index'[2] = index[2]
    BY <1>8, <2>1, <2>2 DEF TypeOK, Field
  <2>4. \A r \in Slot : data'[r] = IF r = s THEN None ELSE data[r]
    BY <1>6, <1>8 DEF TypeOK
  <2>5. \A l \in Key : \A j \in 1 .. Len(idx[l]) :
          idx[l][j] \in Slot /\ data[idx[l][j]] # None /\ data[idx[l][j]][1] = l
    BY <1>6, LenProperties DEF Exact
  <2> HIDE DEF idx, s
  <2>6. Exact(index[1])'
    <3> SUFFICES ASSUME NEW l \in Key, NEW m \in 1 .. Len(index'[1][l])
                 PROVE  /\ data'[index'[1][l][m]] # None
                        /\ data'[index'[1][l][m]][1] = l
                        /\ \A j \in 1 .. m - 1 : index'[1][l][j] # index'[1][l][m]
      BY DEF Exact
    <3>1. PICK j \in 1 .. Len(idx[l]) : index'[1][l][m] = idx[l][j] /\ idx[l][j] # s
      BY <2>2, <2>3
    <3>2. \A j2 \in 1 .. m - 1 : index'[1][l][j2] # index'[1][l][m]
      BY <2>2, <2>3
    <3> QED BY <2>4, <2>5, <3>1, <3>2
  <2>7. \A r \in Slot : data'[r] # None => Len(data'[r]) = 1
    BY <2>4 DEF ExactInv
  <2>8. ~fault' /\ \A l \in Key : index'[2][l] = <<>>
    BY <1>4, <2>3 DEF ExactInv
  <2> QED BY <1>5, <2>6, <2>7, <2>8 DEF ExactInv
<1> QED BY <1>2, <1>3, <1>7, <1>8

\* The scan finds nothing that the index does not.
LEMMA NoScan ==
    ASSUME OneFieldUse, TypeOK, OwnCall, ExactInv, IndexComplete, NEW th \in Thread
    PROVE  ~TryScan(th)
<1> SUFFICES ASSUME TryScan(th) PROVE FALSE
  OBVIOUS
<1> DEFINE q == QueryOf(call[th])
<1>1. pc[th] = "try" /\ q.kind = "value" /\ Len(q.pat) = 1 /\ q.pat[1] # Formal
  BY QueriesByValue DEF TryScan, At
<1>2. PICK s \in Slot : data[s] # None /\ Matches(q, data[s])
  BY DEF TryScan
<1>3. Passes(1, q)
  BY DEF TryScan, Reaches
<1> HIDE DEF q
<1>4. data[s] \in Tuple /\ Len(data[s]) = 1 /\ data[s][1] = q.pat[1]
  BY <1>1, <1>2 DEF TypeOK, ExactInv, Matches
<1>5. data[s][1] \in Key
  BY <1>4, LenProperties DEF Tuple
<1>6. ~Arriving(s)
  BY <1>1 DEF Arriving, OneFieldUse
<1>7. PICK m \in 1 .. Len(index[1][data[s][1]]) : index[1][data[s][1]][m] = s
  BY <1>2, <1>4, <1>6 DEF IndexComplete, InIndex, Field
<1>8. Probes(1, q, data[s][1])
  <2>1. index[1][data[s][1]] # <<>>
    BY <1>7
  <2>2. data[s][1] \in Nat /\ \A l \in Key : l \in Nat
    BY <1>5, KeyAssumption
  <2> QED BY <1>1, <1>4, <1>5, <2>1, <2>2 DEF Probes, LowerBound, KeysOf
<1>9. ~Stops(q, s)
  BY <1>3, <1>5, <1>7, <1>8 DEF Passes
<1> QED BY <1>2, <1>9 DEF Stops

\* No lookup comes to a dead slot.
LEMMA NoLookupFaults ==
    ASSUME OneFieldUse, TypeOK, OwnCall, ExactInv, NEW th \in Thread
    PROVE  ~TryFault(th)
<1> SUFFICES ASSUME TryFault(th) PROVE FALSE
  OBVIOUS
<1> DEFINE q == QueryOf(call[th])
<1>1. pc[th] = "try" /\ q.kind = "value"
  BY QueriesByValue DEF TryFault, At
<1>2. PICK i \in Field :
        \/ Asserts(i, q)
        \/ \E k \in Key : \E n \in 1 .. Len(index[i][k]) :
             LET s == index[i][k][n] IN
             data[s] # None => RelookupPassesDead(Popped(index[i], k, n), data[s][i], s)
  BY DEF TryFault
<1>3. PICK k \in Key : \E n \in 1 .. Len(index[i][k]) :
        LET s == index[i][k][n] IN
        data[s] # None => RelookupPassesDead(Popped(index[i], k, n), data[s][i], s)
  BY <1>1, <1>2 DEF Asserts
<1>4. i = 1
  <2>1. i = 2 => index[i][k] = <<>>
    BY DEF ExactInv
  <2> QED BY <1>3, <2>1 DEF Field
<1> DEFINE idx == index[1]
<1>5. PICK n \in 1 .. Len(idx[k]) :
        data[idx[k][n]] # None => RelookupPassesDead(Popped(idx, k, n), data[idx[k][n]][1], idx[k][n])
  BY <1>3, <1>4
<1>6. idx \in [Key -> Seq(Slot)] /\ Exact(idx)
  BY DEF TypeOK, Field, ExactInv
<1> HIDE DEF idx
<1>7. RelookupPassesDead(Popped(idx, k, n), data[idx[k][n]][1], idx[k][n])
  BY <1>5, <1>6 DEF Exact
<1>8. PICK l \in Key : \E m \in 1 .. Len(Popped(idx, k, n)[l]) :
        data[Popped(idx, k, n)[l][m]] = None
  BY <1>7 DEF RelookupPassesDead
<1>9. \A m \in 1 .. Len(Popped(idx, k, n)[l]) :
        \E j \in 1 .. Len(idx[l]) : Popped(idx, k, n)[l][m] = idx[l][j]
  <2>1. /\ Relooked(Popped(idx, k, n), k, idx[k][n]) = Popped(idx, k, n)
        /\ \A j \in Key : \A m \in 1 .. Len(Popped(idx, k, n)[j]) :
              /\ Popped(idx, k, n)[j][m] # idx[k][n]
              /\ \E p \in 1 .. Len(idx[j]) : Popped(idx, k, n)[j][m] = idx[j][p]
              /\ \A p \in 1 .. m - 1 : Popped(idx, k, n)[j][p] # Popped(idx, k, n)[j][m]
    BY <1>6, RemovalExact
  <2> QED BY <2>1
<1> QED BY <1>6, <1>8, <1>9 DEF Exact

\* A push takes a free slot, which no entry has.
LEMMA ExactPush ==
    ASSUME OneFieldUse, TypeOK, OwnCall, ExactInv, NEW th \in Thread, OutPush(th)
    PROVE  ExactInv'
<1>1. PICK s \in Slot : /\ data[s] = None
                        /\ data' = [data EXCEPT ![s] = call[th].tuple]
                        /\ slot' = [slot EXCEPT ![th] = s]
  BY DEF OutPush
<1>2. UNCHANGED <<index, call, fault>> /\ pc[th] = "outPush"
  BY DEF OutPush, At
<1>3. Len(call[th].tuple) = 1
  BY <1>2 DEF OwnCall, TypeOK, CallFits, OutPC, OneFieldUse
<1>4. \A r \in Slot : data'[r] = IF r = s THEN call[th].tuple ELSE data[r]
  BY <1>1 DEF TypeOK
<1>5. \A k \in Key : \A n \in 1 .. Len(index[1][k]) :
        /\ index[1][k][n] \in Slot /\ index[1][k][n] # s
        /\ data[index[1][k][n]] # None /\ data[index[1][k][n]][1] = k
        /\ \A m \in 1 .. n - 1 : index[1][k][m] # index[1][k][n]
  <2>1. \A k \in Key : index[1][k] \in Seq(Slot)
    BY DEF TypeOK, Field
  <2> QED BY <1>1, <2>1, LenProperties DEF ExactInv, Exact
<1>6. Exact(index[1])'
  BY <1>2, <1>4, <1>5 DEF Exact
<1>7. \A r \in Slot : data'[r] # None => Len(data'[r]) = 1
  BY <1>3, <1>4 DEF ExactInv
<1>8. ASSUME NEW w \in Thread
      PROVE  data'[slot'[w]] = call'[w].tuple /\ ~Holds(index[1], slot[w])'
  <2>1. w = th /\ slot'[w] = s
    BY <1>1 DEF OneFieldUse, TypeOK
  <2>2. data'[s] = call[th].tuple
    BY <1>4
  <2> QED BY <1>2, <1>5, <2>1, <2>2 DEF Holds
<1> QED BY <1>2, <1>6, <1>7, <1>8 DEF ExactInv

\* The slot that goes into the index is live and is not there yet.
LEMMA ExactIndexing ==
    ASSUME OneFieldUse, TypeOK, OwnCall, ExactInv, NEW th \in Thread, OutIndex(th)
    PROVE  ExactInv'
<1> DEFINE t == call[th].tuple
           s == slot[th]
<1>1. /\ pc[th] = "outIndex" /\ pc' = [pc EXCEPT ![th] = "outMark"]
      /\ UNCHANGED <<data, fault, call>>
  BY DEF OutIndex, At, Goto
<1>2. /\ Len(t) = 1 /\ t \in Tuple /\ s \in Slot /\ data[s] = t /\ ~Holds(index[1], s)
      /\ t # None
  <2>1. call[th] \in Calls[th] /\ IsOut(call[th]) /\ call[th] \in Call /\ s # None
    BY <1>1 DEF OwnCall, TypeOK, CallFits, OutPC
  <2>2. t \in Tuple /\ Len(t) = 1
    BY <2>1, CallTypes DEF OneFieldUse
  <2> QED BY <1>1, <2>1, <2>2, StoreAssumption DEF ExactInv, TypeOK
<1>3. t[1] \in Key
  BY <1>2, LenProperties DEF Tuple
<1>4. \A k \in Key : index[1][k] \in Seq(Slot) /\ Len(index[1][k]) \in Nat
  BY LenProperties DEF TypeOK, Field
<1>5. /\ index'[2] = index[2]
      /\ \A k \in Key : index'[1][k] = IF k = t[1] THEN Append(index[1][k], s) ELSE index[1][k]
  BY <1>2, <1>3 DEF OutIndex, TypeOK, Field
<1>6. \A k \in Key : \A n \in 1 .. Len(index[1][k]) :
        /\ index[1][k][n] # s
        /\ data[index[1][k][n]] # None /\ data[index[1][k][n]][1] = k
        /\ \A m \in 1 .. n - 1 : index[1][k][m] # index[1][k][n]
  BY <1>2 DEF ExactInv, Exact, Holds
<1> HIDE DEF t, s
<1>7. ASSUME NEW k \in Key, NEW n \in 1 .. Len(index'[1][k])
      PROVE  /\ data[index'[1][k][n]] # None /\ data[index'[1][k][n]][1] = k
             /\ \A m \in 1 .. n - 1 : index'[1][k][m] # index'[1][k][n]
  <2>1. CASE k # t[1]
    BY <1>5, <1>6, <2>1
  <2>2. CASE k = t[1]
    <3> DEFINE p == index[1][k]
    <3>1. index'[1][k] = Append(p, s) /\ p \in Seq(Slot) /\ Len(p) \in Nat
      BY <1>4, <1>5, <2>2
    <3>2. /\ Len(Append(p, s)) = Len(p) + 1 /\ Append(p, s)[Len(p) + 1] = s
          /\ \A m \in 1 .. Len(p) : Append(p, s)[m] = p[m]
      BY <1>2, <3>1, AppendProperties
    <3>3. CASE n \in 1 .. Len(p)
      <4>1. \A m \in 1 .. n : m \in 1 .. Len(p)
        BY <3>1, <3>3
      <4> QED BY <1>6, <3>1, <3>2, <3>3, <4>1
    <3>4. CASE n = Len(p) + 1
      <4>1. \A m \in 1 .. n - 1 : m \in 1 .. Len(p)
        BY <3>1, <3>4
      <4>2. index'[1][k][n] = s
        BY <3>1, <3>2, <3>4
      <4>3. \A m \in 1 .. n - 1 : index'[1][k][m] # s
        BY <1>6, <3>1, <3>2, <4>1
      <4> QED BY <1>2, <2>2, <4>2, <4>3
    <3> QED BY <3>1, <3>2, <3>3, <3>4
  <2> QED BY <2>1, <2>2
<1>8. Exact(index[1])'
  BY <1>1, <1>7 DEF Exact
<1>9. \A w \in Thread : pc'[w] # "outIndex"
  BY <1>1 DEF TypeOK, OneFieldUse
<1> QED BY <1>1, <1>5, <1>8, <1>9 DEF ExactInv

LEMMA ExactKept ==
    ASSUME OneFieldUse, TypeOK, OwnCall, IndexComplete, ExactInv, [Next]_vars
    PROVE  ExactInv'
<1>1. ASSUME UNCHANGED <<data, index, fault, slot>>,
             \A w \in Thread : pc'[w] = "outIndex" => pc[w] = "outIndex" /\ call'[w] = call[w]
      PROVE  ExactInv'
  BY <1>1 DEF ExactInv, Exact, Holds
<1>2. CASE Next
  <2>1. PICK th \in Thread : Invoke(th) \/ Continue(th) \/ WakeSpuriously(th)
    BY <1>2 DEF Next
  <2> USE DEF At, Goto, TypeOK
  <2>2. CASE Invoke(th)
    BY <1>1, <2>2 DEF Invoke
  <2>3. CASE OutCheck(th) \/ OutMark(th)
    BY <1>1, <2>3 DEF OutCheck, OutMark
  <2>4. CASE OutNotify(th)
    BY <1>1, <2>4 DEF OutNotify
  <2>5. CASE TryMiss(th) \/ Owe(th)
    BY <1>1, <2>5 DEF TryMiss, Owe
  <2>6. CASE Reset(th) \/ CheckSync(th) \/ Park(th) \/ WakeSpuriously(th)
    BY <1>1, <2>6 DEF Reset, CheckSync, Park, WakeSpuriously
  <2> QED BY <2>1, <2>2, <2>3, <2>4, <2>5, <2>6, ExactPush, ExactIndexing, ExactRemoval,
             NoScan, NoLookupFaults DEF Continue
<1>3. CASE UNCHANGED vars
  BY <1>1, <1>3 DEF vars
<1> QED BY <1>2, <1>3

LEMMA ExactAlways == OneFieldUse /\ Spec => []ExactInv
<1>1. Init => OwnCall /\ ExactInv
  BY DEF Init, OwnCall, ExactInv, Exact, Holds, Field
<1>2. Spec => []OwnCall
  BY <1>1, OwnCallKept, TypeCorrect, PTL DEF Spec
<1>3. ASSUME OneFieldUse PROVE Spec => []ExactInv
  <2>1. TypeOK /\ OwnCall /\ IndexComplete /\ ExactInv /\ [Next]_vars => ExactInv'
    BY <1>3, ExactKept
  <2> QED BY <1>1, <1>2, <2>1, TypeCorrect, IndexCompleteAlways, PTL DEF Spec
<1> QED BY <1>3

\* Used by one thread, for tuples of one field and by queries for a value, the
\* store keeps its indices exact: every entry is a live slot, under the key of
\* its tuple, once, after any number of outs and removals and however often a
\* slot is used again.
THEOREM ExactWithOneField == OneFieldUse /\ Spec => []IndexExact
<1>1. ExactInv => IndexExact
  BY DEF ExactInv, Exact, IndexExact, Field
<1> QED BY <1>1, ExactAlways, PTL

\* In that use no call comes to a dead slot, and no assertion of the store and
\* its list fails.
THEOREM NeverFaultsWithOneField == OneFieldUse /\ Spec => []NoFault
<1>1. ExactInv => NoFault
  BY DEF ExactInv, NoFault
<1> QED BY <1>1, ExactAlways, PTL

-----------------------------------------------------------------------------
(* Store implements TupleSpace.  The occurrences of tuples are the slots   *)
(* of the list, the debts are _removed_later, and Phase says how far a     *)
(* call has got from where its thread is.  Of the invariants only TypeOK   *)
(* is needed: the answer of a call never depends on what the indices hold, *)
(* because each lookup that ends looks at the tuple itself, and the scan   *)
(* of the list comes after the indices.                                    *)

\* The phases of the places a thread can be at.
LEMMA Phases ==
    /\ Phase("idle") = "idle" /\ Phase("outPush") = "admitted" /\ Phase("owe") = "missed"
    /\ \A here \in {"outIndex", "outMark", "outNotify"} : Phase(here) = "added"
    /\ \A here \in {"outCheck", "try"} \cup WaitPC : Phase(here) = "called"
BY DEF Phase, WaitPC

\* A thread that moves takes its phase along and leaves the others theirs.
LEMMA PhaseMoves ==
    ASSUME TypeOK, NEW th \in Thread, NEW there, pc' = [pc EXCEPT ![th] = there]
    PROVE  phase' = [phase EXCEPT ![th] = Phase(there)]
BY DEF TypeOK, phase

\* A step that moves a thread within its phase, and changes nothing the
\* abstract specification knows of, is no step of it.
LEMMA Stutters ==
    ASSUME TypeOK, NEW th \in Thread, NEW there,
           pc' = [pc EXCEPT ![th] = there], Phase(there) = Phase(pc[th]),
           UNCHANGED <<data, removedLater, call, ans, fault>>
    PROVE  UNCHANGED Abstract!vars
BY DEF Abstract!vars, TypeOK, phase

LEMMA InvokeRefines ==
    ASSUME TypeOK, NEW th \in Thread, Invoke(th)
    PROVE  Abstract!Invoke(th)
<1>1. PICK c \in Calls[th] :
        /\ call' = [call EXCEPT ![th] = c]
        /\ pc' = [pc EXCEPT ![th] = IF IsOut(c) THEN "outCheck" ELSE "try"]
  BY DEF Invoke, Goto
<1>2. phase[th] = "idle"
  BY DEF Invoke, At, phase, Phase
<1>3. phase' = [phase EXCEPT ![th] = "called"]
  <2>1. CASE pc' = [pc EXCEPT ![th] = "outCheck"]
    BY <2>1, Phases DEF phase, TypeOK
  <2>2. CASE pc' = [pc EXCEPT ![th] = "try"]
    BY <2>2, Phases DEF phase, TypeOK
  <2> QED BY <1>1, <2>1, <2>2
<1> QED BY <1>1, <1>2, <1>3 DEF Invoke, Abstract!Invoke

LEMMA OutRefines ==
    ASSUME TypeOK, NEW th \in Thread,
           OutCheck(th) \/ OutPush(th) \/ OutIndex(th) \/ OutMark(th)
    PROVE  Abstract!Step(th) \/ UNCHANGED Abstract!vars
<1> USE DEF At, Goto, OutPC
<1>1. CASE OutCheck(th)
  <2>1. phase[th] = "called" /\ IsOut(call[th])
    BY <1>1 DEF OutCheck, TypeOK, CallFits, phase, Phase
  <2>2. CASE pc' = [pc EXCEPT ![th] = "idle"] /\ call[th].tuple \in removedLater
    <3>1. phase' = [phase EXCEPT ![th] = "idle"]
      BY <2>2, Phases DEF phase, TypeOK
    <3>2. Abstract!Cancel(th)
      BY <1>1, <2>1, <2>2, <3>1 DEF OutCheck, IsOut, Abstract!IsOut, Abstract!Cancel
    <3> QED BY <3>2 DEF Abstract!Step
  <2>3. CASE pc' = [pc EXCEPT ![th] = "outPush"] /\ call[th].tuple \notin removedLater
    <3>1. phase' = [phase EXCEPT ![th] = "admitted"]
      BY <2>3, PhaseMoves DEF Phase
    <3>2. Abstract!Admit(th)
      BY <1>1, <2>1, <2>3, <3>1 DEF OutCheck, IsOut, Abstract!IsOut, Abstract!Admit
    <3> QED BY <3>2 DEF Abstract!Step
  <2> QED BY <1>1, <2>2, <2>3 DEF OutCheck
<1>2. CASE OutPush(th)
  <2>1. phase[th] = "admitted" /\ phase' = [phase EXCEPT ![th] = "added"]
    BY <1>2, PhaseMoves DEF OutPush, phase, Phase
  <2>2. Abstract!Add(th)
    BY <1>2, <2>1 DEF OutPush, Abstract!Add
  <2> QED BY <2>2 DEF Abstract!Step
<1>3. CASE OutIndex(th)
  BY <1>3, Stutters DEF OutIndex, Phase
<1>4. CASE OutMark(th)
  BY <1>4, Stutters DEF OutMark, Phase
<1> QED BY <1>1, <1>2, <1>3, <1>4

\* The thread that is notified was called and stays so; the out returns.
LEMMA NotifyRefines ==
    ASSUME TypeOK, NEW th \in Thread, OutNotify(th)
    PROVE  Abstract!Return(th)
<1>1. phase[th] = "added"
  BY DEF OutNotify, At, phase, Phase
<1>2. phase' = [phase EXCEPT ![th] = "idle"]
  <2>1. CASE pc' = [pc EXCEPT ![th] = "idle"]
    BY <2>1, Phases DEF phase, TypeOK
  <2>2. CASE \E w \in Thread : pc[w] = "parked" /\ pc' = [pc EXCEPT ![th] = "idle", ![w] = "wait"]
    BY <2>2 DEF OutNotify, At, TypeOK, phase, Phase
  <2> QED BY <2>1, <2>2 DEF OutNotify, Goto
<1> QED BY <1>1, <1>2 DEF OutNotify, Abstract!Return

LEMMA TryRefines ==
    ASSUME TypeOK, NEW th \in Thread,
           TryIndex(th) \/ TryScan(th) \/ TryMiss(th) \/ TryFault(th) \/ Owe(th)
    PROVE  Abstract!Next \/ UNCHANGED Abstract!vars
<1> USE DEF At, Goto
<1>1. pc[th] \in {"try", "owe"} /\ ~IsOut(call[th])
  BY DEF TryIndex, TryScan, TryMiss, TryFault, Owe, TypeOK, CallFits
<1>2. CASE TryIndex(th)
  <2>1. PICK i \in Field, k \in Key : \E n \in 1 .. Len(index[i][k]) :
          /\ StopsAt(i, QueryOf(call[th]), k, n)
          /\ data[index[i][k][n]] # None
          /\ Found(th, data[index[i][k][n]])
          /\ data' = IF Removes(call[th])
                     THEN [data EXCEPT ![index[i][k][n]] = None] ELSE data
    BY <1>2 DEF TryIndex
  <2>2. PICK n \in 1 .. Len(index[i][k]) :
          /\ StopsAt(i, QueryOf(call[th]), k, n)
          /\ data[index[i][k][n]] # None
          /\ Found(th, data[index[i][k][n]])
          /\ data' = IF Removes(call[th])
                     THEN [data EXCEPT ![index[i][k][n]] = None] ELSE data
    BY <2>1
  <2> DEFINE s == index[i][k][n]
  <2>3. s \in Slot
    BY LenProperties DEF TypeOK
  <2>4. Matches(QueryOf(call[th]), data[s])
    BY <2>2 DEF StopsAt, Stops
  <2>5. phase[th] = "called" /\ phase' = [phase EXCEPT ![th] = "idle"]
    BY <1>2, <2>2, PhaseMoves DEF TryIndex, Found, phase, Phase
  <2>6. Abstract!Answer(th)
    <3> HIDE DEF s
    <3>1. /\ ans' = [ans EXCEPT ![th] = data[s]] /\ data[s] # None
          /\ data' = IF Removes(call[th]) THEN [data EXCEPT ![s] = None] ELSE data
      BY <2>2 DEF Found, s
    <3> QED BY <1>1, <1>2, <2>3, <2>4, <2>5, <3>1
         DEF TryIndex, IsOut, Removes, QueryOf, Matches,
         Abstract!IsOut, Abstract!Removes, Abstract!QueryOf, Abstract!Matches, Abstract!Answer
  <2> QED BY <1>2, <2>6 DEF TryIndex, Abstract!Next, Abstract!Step
<1>3. CASE TryScan(th)
  <2>1. phase[th] = "called" /\ phase' = [phase EXCEPT ![th] = "idle"]
    BY <1>3, PhaseMoves DEF TryScan, Found, phase, Phase
  <2>2. Abstract!Answer(th)
    BY <1>1, <1>3, <2>1
         DEF TryScan, IsOut, Removes, QueryOf, Matches,
         Abstract!IsOut, Abstract!Removes, Abstract!QueryOf, Abstract!Matches, Found, Abstract!Answer
  <2> QED BY <1>3, <2>2 DEF TryScan, Abstract!Next, Abstract!Step
<1>4. CASE TryMiss(th)
  <2>1. phase[th] = "called" /\ Abstract!NothingMatches(th)
    BY <1>4 DEF TryMiss, phase, Phase, QueryOf, Matches,
         Abstract!QueryOf, Abstract!Matches, Abstract!NothingMatches
  <2>2. CASE pc' = [pc EXCEPT ![th] = "reset"]
    BY <1>4, <2>2, Stutters DEF TryMiss, Phase
  <2>3. CASE call[th].op = "remove_nosignal" /\ pc' = [pc EXCEPT ![th] = "owe"]
    <3>1. phase' = [phase EXCEPT ![th] = "missed"]
      BY <2>3, PhaseMoves DEF Phase
    <3>2. Abstract!MissRemoval(th)
      BY <1>4, <2>1, <2>3, <3>1 DEF TryMiss, Abstract!MissRemoval
    <3> QED BY <1>4, <3>2 DEF TryMiss, Abstract!Next, Abstract!Step
  <2>4. CASE call[th].op \in {"inp", "rdp"} /\ pc' = [pc EXCEPT ![th] = "idle"]
    <3>1. phase' = [phase EXCEPT ![th] = "idle"]
      BY <2>4, PhaseMoves DEF Phase
    <3>2. Abstract!Miss(th)
      BY <1>4, <2>1, <2>4, <3>1 DEF TryMiss, Abstract!Miss
    <3> QED BY <1>4, <3>2 DEF TryMiss, Abstract!Next, Abstract!Step
  <2> QED BY <1>4, <2>2, <2>3, <2>4 DEF TryMiss
<1>5. CASE TryFault(th)
  BY <1>5 DEF TryFault, Abstract!Next, Abstract!Fail, phase
<1>6. CASE Owe(th)
  <2>1. phase[th] = "missed" /\ phase' = [phase EXCEPT ![th] = "idle"]
    BY <1>6, PhaseMoves DEF Owe, phase, Phase
  <2>2. Abstract!Owe(th)
    BY <1>6, <2>1 DEF Owe, Abstract!Owe
  <2> QED BY <1>6, <2>2 DEF Owe, Abstract!Next, Abstract!Step
<1> QED BY <1>2, <1>3, <1>4, <1>5, <1>6

LEMMA WaitRefines ==
    ASSUME TypeOK, NEW th \in Thread,
           Reset(th) \/ CheckSync(th) \/ Park(th) \/ WakeSpuriously(th)
    PROVE  UNCHANGED Abstract!vars
BY Stutters DEF Reset, CheckSync, Park, WakeSpuriously, At, Goto, Phase

LEMMA StepRefines ==
    TypeOK /\ [Next]_vars => [Abstract!Next]_Abstract!vars
<1> SUFFICES ASSUME TypeOK, [Next]_vars
             PROVE  Abstract!Next \/ UNCHANGED Abstract!vars
  OBVIOUS
<1>1. CASE Next
  <2>1. PICK th \in Thread : Invoke(th) \/ Continue(th) \/ WakeSpuriously(th)
    BY <1>1 DEF Next
  <2>2. ~fault
    BY <2>1 DEF Invoke, Continue, WakeSpuriously, OutCheck, OutPush, OutIndex,
       OutMark, OutNotify, TryIndex, TryScan, TryMiss, TryFault, Owe, Reset,
       CheckSync, Park, At
  <2>3. Abstract!Step(th) => Abstract!Next
    BY <2>2 DEF Abstract!Next
  <2>4. CASE Invoke(th)
    BY <2>3, <2>4, InvokeRefines DEF Abstract!Step
  <2>5. CASE OutNotify(th)
    BY <2>3, <2>5, NotifyRefines DEF Abstract!Step
  <2> QED BY <2>1, <2>3, <2>4, <2>5, OutRefines, TryRefines, WaitRefines DEF Continue
<1>2. CASE UNCHANGED vars
  BY <1>2 DEF vars, Abstract!vars, phase
<1> QED BY <1>1, <1>2

\* A store does what a tuple space promises: each in, inp, rd and rdp answers
\* a tuple that is there and matches, a tuple is taken once, inp and rdp find
\* nothing only when nothing matches, and an out puts its tuple once unless it
\* was removed before it came, however the threads interleave.
THEOREM StoreImplements == Spec => Implements
<1>1. Init => Abstract!Init
  BY DEF Init, Abstract!Init, phase, Phase
<1> QED BY <1>1, StepRefines, TypeCorrect, PTL DEF Spec, Implements, Abstract!Spec
=============================================================================
