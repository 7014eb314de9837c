---------------------------- MODULE RuntimeProofs ----------------------------
(* What TLAPS proves of Runtime, for any ranks, tuples and programs. *)
EXTENDS Runtime, SequenceTheorems, FiniteSetTheorems, FunctionTheorems, TLAPS

-----------------------------------------------------------------------------
(* Type correctness.                                                       *)

Tupled == [tag : {"INSERT", "DELETE"}, tuple : Tuple]

\* Where the receiver has a tuple in its hand.
Holding == {"insert", "push", "index", "delete", "owe"}

\* A rank in the middle of a call has that call still to finish, and a receiver
\* in the middle of applying a message has it in its hand.
Fits ==
    \A r \in Rank :
        /\ main[r] \in {"push", "outAwait", "takeAwait"} => script[r] # <<>>
        /\ main[r] = "push" => Head(script[r]).op = "out"
        /\ recv[r] \in Holding => hand[r] \in Tupled

TypeInv == TypeOK /\ Fits

LEMMA CallTypes ==
    ASSUME NEW c \in Call
    PROVE  /\ c.op = "out" => c.tuple \in Tuple
           /\ c.op \in {"in", "inp", "rd", "rdp"} => c.wanted \subseteq Tuple
BY DEF Call

LEMMA HeadCall ==
    ASSUME TypeOK, NEW r \in Rank, script[r] # <<>>
    PROVE  /\ Head(script[r]) \in Call /\ Tail(script[r]) \in Seq(Call)
           /\ Head(script[r]) = script[r][1] /\ 1 \in 1 .. Len(script[r])
           /\ Len(Tail(script[r])) = Len(script[r]) - 1
           /\ \A i \in 1 .. Len(script[r]) - 1 : Tail(script[r])[i] = script[r][i + 1]
<1>1. script[r] \in Seq(Call)
  BY DEF TypeOK
<1> QED BY <1>1, HeadTailProperties, LenProperties

\* A store gains or loses a tuple.
LEMMA SpaceChanges ==
    ASSUME TypeOK, NEW r \in Rank, NEW t \in Tuple, NEW n \in Nat,
           space' = [space EXCEPT ![r][t] = n]
    PROVE  /\ space' \in [Rank -> [Tuple -> Nat]]
           /\ \A q \in Rank : \A u \in Tuple :
                 space'[q][u] = IF q = r /\ u = t THEN n ELSE space[q][u]
<1>1. space \in [Rank -> [Tuple -> Nat]]
  BY DEF TypeOK
<1> QED BY <1>1

LEMMA BroadcastTypes ==
    ASSUME TypeOK, NEW r \in Rank, NEW tag \in {"INSERT", "DELETE"}, NEW t \in Tuple,
           Broadcast(r, tag, t)
    PROVE  net' \in [Rank -> [Rank -> Seq(Message)]]
<1>1. [tag |-> tag, tuple |-> t] \in Message
  BY DEF Message
<1>2. net \in [Rank -> [Rank -> Seq(Message)]]
  BY DEF TypeOK
<1>3. \A q \in Rank : Append(net[r][q], [tag |-> tag, tuple |-> t]) \in Seq(Message)
  BY <1>1, <1>2, AppendProperties
<1> QED BY <1>2, <1>3 DEF Broadcast

LEMMA TypeInit == Init => TypeInv
<1> SUFFICES ASSUME Init PROVE TypeInv
  OBVIOUS
<1>1. script \in [Rank -> Seq(Call)]
  BY RuntimeAssumption DEF Init
<1>2. <<>> \in Seq(Message)
  BY EmptySeq
<1> QED BY <1>1, <1>2 DEF Init, TypeInv, TypeOK, Fits, Holding

LEMMA MainTypes ==
    ASSUME TypeInv, NEW r \in Rank, Main(r) \/ Wake(r)
    PROVE  TypeInv'
<1> USE DEF TypeInv
<1>1. ASSUME NEW rest \in Seq(Call), script' = [script EXCEPT ![r] = rest],
             main' = [main EXCEPT ![r] = "ready"], UNCHANGED <<recv, hand>>
      PROVE  /\ main' \in [Rank -> {"ready", "push", "outAwait", "waiting", "takeAwait",
                                    "join", "barrier", "final"}]
             /\ script' \in [Rank -> Seq(Call)]
             /\ Fits'
  BY <1>1 DEF TypeOK, Fits
<1>2. ASSUME script[r] # <<>>, Return(r)
      PROVE  \E rest \in Seq(Call) : /\ script' = [script EXCEPT ![r] = rest]
                                     /\ main' = [main EXCEPT ![r] = "ready"]
  BY <1>2, HeadCall DEF Return
<1>3. CASE OutDropped(r)
  BY <1>1, <1>2, <1>3 DEF OutDropped, Calls, TypeOK
<1>4. CASE OutBroadcast(r)
  <2>1. Head(script[r]).tuple \in Tuple /\ script[r] # <<>> /\ Head(script[r]).op = "out"
    BY <1>4, HeadCall, CallTypes DEF OutBroadcast, Calls
  <2>2. net' \in [Rank -> [Rank -> Seq(Message)]]
    BY <1>4, <2>1, BroadcastTypes DEF OutBroadcast
  <2>3. put' \in [Tuple -> Nat]
    BY <1>4, <2>1 DEF OutBroadcast, TypeOK
  <2> QED BY <1>4, <2>1, <2>2, <2>3 DEF OutBroadcast, TypeOK, Fits
<1>5. CASE OutPush(r)
  <2>1. PICK t \in Tuple : t = Head(script[r]).tuple
    BY <1>5, HeadCall, CallTypes DEF OutPush, Fits
  <2>2. space[r][t] + 1 \in Nat
    BY DEF TypeOK
  <2>3. space' = [space EXCEPT ![r][t] = space[r][t] + 1]
    BY <1>5, <2>1 DEF OutPush
  <2>4. space' \in [Rank -> [Tuple -> Nat]]
    BY <2>2, <2>3, SpaceChanges
  <2> QED BY <1>5, <2>4 DEF OutPush, TypeOK, Fits
<1>6. CASE OutReturn(r)
  <2>1. script[r] # <<>>
    BY <1>6 DEF OutReturn, Fits
  <2> QED BY <1>1, <1>2, <1>6, <2>1 DEF OutReturn, TypeOK
<1>7. CASE Take(r)
  <2>1. PICK t \in Present(r) :
          /\ space' = [space EXCEPT ![r][t] = @ - 1]
          /\ Broadcast(r, "DELETE", t)
          /\ taken' = [taken EXCEPT ![t] = @ + 1]
    BY <1>7 DEF Take
  <2>2. t \in Tuple /\ space[r][t] > 0 /\ script[r] # <<>>
    BY <1>7, HeadCall, CallTypes DEF Take, Calls, Present
  <2>3. net' \in [Rank -> [Rank -> Seq(Message)]]
    BY <2>1, <2>2, BroadcastTypes
  <2>4. space' \in [Rank -> [Tuple -> Nat]] /\ taken' \in [Tuple -> Nat]
    BY <2>1, <2>2 DEF TypeOK
  <2> QED BY <1>7, <2>2, <2>3, <2>4 DEF Take, TypeOK, Fits
<1>8. CASE TakeReturn(r)
  <2>1. script[r] # <<>>
    BY <1>8 DEF TakeReturn, Fits
  <2> QED BY <1>1, <1>2, <1>8, <2>1 DEF TakeReturn, TypeOK
<1>9. CASE Look(r)
  BY <1>1, <1>2, <1>9 DEF Look, Calls, TypeOK
<1>10. CASE Terminate(r)
  <2>1. [tag |-> "TERMINATE"] \in Message
    BY DEF Message
  <2>2. Append(net[r][r], [tag |-> "TERMINATE"]) \in Seq(Message)
    BY <2>1, AppendProperties DEF TypeOK
  <2>3. net' \in [Rank -> [Rank -> Seq(Message)]]
    BY <1>10, <2>2 DEF Terminate, TypeOK
  <2> QED BY <1>10, <2>3 DEF Terminate, TypeOK, Fits
<1>11. CASE Sleep(r) \/ Wake(r) \/ Join(r) \/ Finalize(r)
  BY <1>11 DEF Sleep, Wake, Join, Finalize, TypeOK, Fits
<1> QED BY <1>3, <1>4, <1>5, <1>6, <1>7, <1>8, <1>9, <1>10, <1>11 DEF Main

LEMMA ReceiverTypes ==
    ASSUME TypeInv, NEW r \in Rank, Receiver(r)
    PROVE  TypeInv'
<1> USE DEF TypeInv
<1>1. CASE Receive(r)
  <2> DEFINE there == [INSERT |-> "insert", DELETE |-> "delete", TERMINATE |-> "ended"]
  <2>1. PICK q \in Rank :
          /\ net[q][r] # <<>>
          /\ recv' = [recv EXCEPT ![r] = there[Head(net[q][r]).tag]]
          /\ hand' = [hand EXCEPT ![r] = Head(net[q][r])]
          /\ net' = [net EXCEPT ![q][r] = Tail(@)]
    BY <1>1 DEF Receive
  <2>2. Head(net[q][r]) \in Message /\ Tail(net[q][r]) \in Seq(Message)
    BY <2>1, HeadTailProperties DEF TypeOK
  <2>3. \/ Head(net[q][r]) \in Tupled /\ there[Head(net[q][r]).tag] \in {"insert", "delete"}
        \/ there[Head(net[q][r]).tag] = "ended"
    BY <2>2 DEF Message, Tupled
  <2>4. net' \in [Rank -> [Rank -> Seq(Message)]]
    BY <2>1, <2>2 DEF TypeOK
  <2> HIDE DEF there
  <2>5. recv' \in [Rank -> {"probe", "insert", "push", "index", "delete", "owe", "ended"}]
    BY <2>1, <2>3 DEF TypeOK
  <2>6. Fits'
    BY <1>1, <2>1, <2>3 DEF Receive, TypeOK, Fits, Holding
  <2> QED BY <1>1, <2>1, <2>2, <2>4, <2>5, <2>6 DEF Receive, TypeOK
<1>2. ASSUME recv[r] \in Holding PROVE hand[r] \in Tupled /\ hand[r].tuple \in Tuple
  BY <1>2 DEF Fits, Tupled
<1>3. CASE InsertDropped(r)
  BY <1>3 DEF InsertDropped, Done, TypeOK, Fits, Holding
<1>4. CASE InsertAdmitted(r)
  BY <1>4 DEF InsertAdmitted, Go, TypeOK, Fits, Holding
<1>5. CASE InsertPush(r)
  <2>1. PICK t \in Tuple : t = hand[r].tuple
    BY <1>2, <1>5 DEF InsertPush, Holding
  <2>2. space[r][t] + 1 \in Nat
    BY DEF TypeOK
  <2>3. space' = [space EXCEPT ![r][t] = space[r][t] + 1]
    BY <1>5, <2>1 DEF InsertPush
  <2>4. space' \in [Rank -> [Tuple -> Nat]]
    BY <2>2, <2>3, SpaceChanges
  <2> QED BY <1>5, <2>4 DEF InsertPush, Go, TypeOK, Fits, Holding
<1>6. CASE InsertIndexed(r)
  BY <1>6 DEF InsertIndexed, Done, TypeOK, Fits, Holding
<1>7. CASE Delete(r)
  <2>1. PICK t \in Tuple : t = hand[r].tuple
    BY <1>2, <1>7 DEF Delete, Holding
  <2>2. space' \in [Rank -> [Tuple -> Nat]]
    <3>1. CASE UNCHANGED space
      BY <3>1 DEF TypeOK
    <3>2. CASE space[r][t] > 0 /\ space' = [space EXCEPT ![r][t] = space[r][t] - 1]
      <4>1. space[r][t] - 1 \in Nat
        BY <3>2 DEF TypeOK
      <4> QED BY <3>2, <4>1, SpaceChanges
    <3> QED BY <1>7, <2>1, <3>1, <3>2 DEF Delete
  <2>3. CASE Done(r)
    BY <1>7, <2>2, <2>3 DEF Delete, Done, TypeOK, Fits, Holding
  <2>4. CASE Go(r, "owe")
    BY <1>7, <2>2, <2>4 DEF Delete, Go, TypeOK, Fits, Holding
  <2> QED BY <1>7, <2>3, <2>4 DEF Delete
<1>8. CASE Owe(r)
  <2>1. hand[r].tuple \in Tuple
    BY <1>2, <1>8 DEF Owe, Holding
  <2> QED BY <1>8, <2>1 DEF Owe, Done, TypeOK, Fits, Holding
<1> QED BY <1>1, <1>3, <1>4, <1>5, <1>6, <1>7, <1>8 DEF Receiver

LEMMA TypeStep == TypeInv /\ [Next]_vars => TypeInv'
<1>1. ASSUME TypeInv, UNCHANGED vars PROVE TypeInv'
  BY <1>1 DEF vars, TypeInv, TypeOK, Fits
<1> QED BY <1>1, MainTypes, ReceiverTypes DEF Next

\* Whatever the ranks run, every variable keeps its type: no count of tuples
\* goes below nothing, and no receiver applies a message it does not hold.
THEOREM TypeCorrect == Spec => []TypeOK
<1>1. Spec => []TypeInv
  BY TypeInit, TypeStep, PTL DEF Spec
<1> QED BY <1>1, PTL DEF TypeInv

-----------------------------------------------------------------------------
(* Where messages come from.                                               *)

About(m, t) == m.tag # "TERMINATE" /\ m.tuple = t

\* What a rank has still to call is in one of the programs.
Scripted ==
    \A r \in Rank : \A i \in 1 .. Len(script[r]) :
        \E p \in Programs : script[r][i] \in ToSet(p[r])

\* A message about a tuple was sent by another rank that puts or takes it.
Sourced ==
    \A r \in Rank : \A t \in Tuple :
        /\ \A q \in Rank : \A i \in 1 .. Len(net[q][r]) :
              About(net[q][r][i], t) => q # r /\ ~Bystander(q, t)
        /\ recv[r] \in Holding /\ hand[r].tuple = t =>
              \E q \in Rank : q # r /\ ~Bystander(q, t)

SourceInv == TypeInv /\ Scripted /\ Sourced

\* A call that is under way makes its rank no bystander.
LEMMA CallersAct ==
    ASSUME TypeInv, Scripted, NEW r \in Rank, script[r] # <<>>, NEW t \in Tuple
    PROVE  /\ Head(script[r]).op = "out" /\ Head(script[r]).tuple = t => ~Bystander(r, t)
           /\ Head(script[r]).op \in {"in", "inp"} /\ t \in Head(script[r]).wanted
                => ~Bystander(r, t)
<1>1. PICK p \in Programs : Head(script[r]) \in ToSet(p[r])
  BY HeadCall DEF TypeInv, Scripted
<1>2. \A S : Head(script[r]).op \in S => Head(script[r]) \in Makes(r, S)
  BY <1>1 DEF Makes
<1> QED BY <1>2 DEF Bystander, Puts, Takes

LEMMA ReturnScripted ==
    ASSUME TypeOK, Scripted, NEW r \in Rank, script[r] # <<>>, Return(r)
    PROVE  Scripted'
<1>1. script' = [script EXCEPT ![r] = Tail(script[r])]
  BY DEF Return
<1>2. ASSUME NEW q \in Rank, NEW i \in 1 .. Len(script'[q])
      PROVE  \E p \in Programs : script'[q][i] \in ToSet(p[q])
  <2>1. CASE q = r
    <3>1. script'[r] = Tail(script[r]) /\ Len(script[r]) \in Nat
      BY <1>1, LenProperties DEF TypeOK
    <3>2. i \in 1 .. Len(script[r]) - 1 /\ i + 1 \in 1 .. Len(script[r])
      BY <2>1, <3>1, HeadCall
    <3> QED BY <2>1, <3>1, <3>2, HeadCall DEF Scripted
  <2>2. CASE q # r
    BY <1>1, <2>2 DEF TypeOK, Scripted
  <2> QED BY <2>1, <2>2
<1> QED BY <1>2 DEF Scripted

LEMMA ScriptedStep ==
    ASSUME TypeInv, Scripted, [Next]_vars
    PROVE  Scripted'
<1>1. CASE UNCHANGED script
  BY <1>1 DEF Scripted
<1>2. CASE \E r \in Rank : script[r] # <<>> /\ Return(r)
  BY <1>2, ReturnScripted DEF TypeInv
<1>3. UNCHANGED script \/ \E r \in Rank : script[r] # <<>> /\ Return(r)
  BY DEF Next, vars, Main, Receiver, OutDropped, OutBroadcast, OutPush, OutReturn,
         Take, TakeReturn, Look, Sleep, Wake, Terminate, Join, Finalize, Receive,
         InsertDropped, InsertAdmitted, InsertPush, InsertIndexed, Delete, Owe,
         Calls, TypeInv, Fits
<1> QED BY <1>1, <1>2, <1>3

\* What a broadcast does to the channels.
LEMMA Broadcasted ==
    ASSUME TypeOK, NEW a \in Rank, NEW tag \in {"INSERT", "DELETE"}, NEW u \in Tuple,
           Broadcast(a, tag, u)
    PROVE  \E m \in Message :
              /\ m = [tag |-> tag, tuple |-> u]
              /\ \A q, r \in Rank :
                    net'[q][r] = IF q = a /\ r # a THEN Append(net[q][r], m) ELSE net[q][r]
<1>1. [tag |-> tag, tuple |-> u] \in Message
  BY DEF Message
<1>2. PICK m \in Message : m = [tag |-> tag, tuple |-> u]
  BY <1>1
<1>3. net' = [net EXCEPT ![a] = [q \in Rank |->
                IF q = a THEN @[q] ELSE Append(@[q], m)]]
  BY <1>2 DEF Broadcast
<1>4. net \in [Rank -> [Rank -> Seq(Message)]]
  BY DEF TypeOK
<1> QED BY <1>2, <1>3, <1>4

\* One message more in a channel.
LEMMA Appended ==
    ASSUME NEW q \in Seq(Message), NEW m \in Message
    PROVE  /\ Len(q) \in Nat /\ Len(Append(q, m)) = Len(q) + 1
           /\ \A i \in 1 .. Len(q) : Append(q, m)[i] = q[i]
           /\ Append(q, m)[Len(q) + 1] = m
BY AppendProperties, LenProperties

\* One message less.
LEMMA Shifted ==
    ASSUME NEW q \in Seq(Message), q # <<>>
    PROVE  /\ Len(q) \in Nat /\ Len(Tail(q)) = Len(q) - 1 /\ 1 \in 1 .. Len(q)
           /\ Head(q) = q[1] /\ Head(q) \in Message
           /\ \A i \in 1 .. Len(q) - 1 : i + 1 \in 1 .. Len(q) /\ Tail(q)[i] = q[i + 1]
BY HeadTailProperties, LenProperties

LEMMA BroadcastSourced ==
    ASSUME TypeInv, Sourced, NEW a \in Rank, NEW tag \in {"INSERT", "DELETE"}, NEW u \in Tuple,
           Broadcast(a, tag, u), ~Bystander(a, u), UNCHANGED <<recv, hand>>
    PROVE  Sourced'
<1>1. PICK m \in Message :
        /\ m = [tag |-> tag, tuple |-> u]
        /\ \A q, r \in Rank :
              net'[q][r] = IF q = a /\ r # a THEN Append(net[q][r], m) ELSE net[q][r]
  BY Broadcasted DEF TypeInv
<1>2. ASSUME NEW q \in Rank, NEW r \in Rank, NEW t \in Tuple, NEW i \in 1 .. Len(net'[q][r]),
             About(net'[q][r][i], t)
      PROVE  q # r /\ ~Bystander(q, t)
  <2>1. CASE q = a /\ r # a
    <3>1. net'[q][r] = Append(net[q][r], m) /\ net[q][r] \in Seq(Message)
      BY <1>1, <2>1 DEF TypeInv, TypeOK
    <3>2. /\ Len(net[q][r]) \in Nat /\ Len(net'[q][r]) = Len(net[q][r]) + 1
          /\ \A j \in 1 .. Len(net[q][r]) : net'[q][r][j] = net[q][r][j]
          /\ net'[q][r][Len(net[q][r]) + 1] = m
      BY <3>1, Appended
    <3>3. CASE i \in 1 .. Len(net[q][r])
      BY <1>2, <3>2, <3>3 DEF Sourced
    <3>4. CASE i = Len(net[q][r]) + 1
      BY <1>1, <1>2, <2>1, <3>2, <3>4 DEF About
    <3> QED BY SMTT(30), <3>2, <3>3, <3>4
  <2>2. CASE ~(q = a /\ r # a)
    <3>1. net'[q][r] = net[q][r]
      BY <1>1, <2>2
    <3> QED BY <1>2, <3>1 DEF Sourced
  <2> QED BY <2>1, <2>2
<1> QED BY <1>2 DEF Sourced

LEMMA ReceiveSourced ==
    ASSUME TypeInv, Sourced, NEW a \in Rank, Receive(a)
    PROVE  Sourced'
<1> DEFINE there == [INSERT |-> "insert", DELETE |-> "delete", TERMINATE |-> "ended"]
<1>1. PICK s \in Rank :
        /\ net[s][a] # <<>>
        /\ recv' = [recv EXCEPT ![a] = there[Head(net[s][a]).tag]]
        /\ hand' = [hand EXCEPT ![a] = Head(net[s][a])]
        /\ net' = [net EXCEPT ![s][a] = Tail(@)]
  BY DEF Receive
<1>2. /\ net[s][a] \in Seq(Message)
      /\ Len(net[s][a]) \in Nat /\ Len(Tail(net[s][a])) = Len(net[s][a]) - 1
      /\ 1 \in 1 .. Len(net[s][a])
      /\ Head(net[s][a]) = net[s][a][1] /\ Head(net[s][a]) \in Message
      /\ \A i \in 1 .. Len(net[s][a]) - 1 :
            i + 1 \in 1 .. Len(net[s][a]) /\ Tail(net[s][a])[i] = net[s][a][i + 1]
  <2>1. net[s][a] \in Seq(Message)
    BY DEF TypeInv, TypeOK
  <2> QED BY <1>1, <2>1, Shifted
<1>3. \A q, r \in Rank : net'[q][r] = IF q = s /\ r = a THEN Tail(net[q][r]) ELSE net[q][r]
  BY <1>1 DEF TypeInv, TypeOK
<1>4. ASSUME NEW q \in Rank, NEW r \in Rank, NEW t \in Tuple, NEW i \in 1 .. Len(net'[q][r]),
             About(net'[q][r][i], t)
      PROVE  q # r /\ ~Bystander(q, t)
  <2>1. CASE q = s /\ r = a
    <3>1. net'[q][r] = Tail(net[s][a]) /\ net[q][r] = net[s][a]
      BY <1>3, <2>1
    <3>2. i \in 1 .. Len(net[s][a]) - 1
      BY <1>2, <3>1
    <3>3. i + 1 \in 1 .. Len(net[q][r]) /\ net'[q][r][i] = net[q][r][i + 1]
      BY <1>2, <3>1, <3>2
    <3> QED BY <1>4, <3>3 DEF Sourced
  <2>2. CASE ~(q = s /\ r = a)
    BY <1>3, <1>4, <2>2 DEF Sourced
  <2> QED BY <2>1, <2>2
<1>5. ASSUME NEW r \in Rank, NEW t \in Tuple, recv'[r] \in Holding, hand'[r].tuple = t
      PROVE  \E q \in Rank : q # r /\ ~Bystander(q, t)
  <2>1. CASE r = a
    <3>1. recv'[a] = there[Head(net[s][a]).tag] /\ hand'[a] = Head(net[s][a])
      BY <1>1 DEF TypeInv, TypeOK
    <3>2. Head(net[s][a]).tag # "TERMINATE"
      BY <1>5, <2>1, <3>1 DEF Holding
    <3>3. About(net[s][a][1], t)
      BY <1>2, <1>5, <2>1, <3>1, <3>2 DEF About
    <3> QED BY <1>2, <2>1, <3>3 DEF Sourced
  <2>2. CASE r # a
    BY <1>1, <1>5, <2>2 DEF Sourced, TypeInv, TypeOK
  <2> QED BY <2>1, <2>2
<1> QED BY <1>4, <1>5 DEF Sourced

LEMMA SourceStep == SourceInv /\ [Next]_vars => SourceInv'
<1> SUFFICES ASSUME SourceInv, [Next]_vars PROVE SourceInv'
  OBVIOUS
<1> USE DEF SourceInv
<1>1. TypeInv' /\ Scripted'
  BY TypeStep, ScriptedStep
<1>2. ASSUME UNCHANGED <<net, recv, hand>> PROVE Sourced'
  BY <1>2 DEF Sourced
<1>3. ASSUME NEW r \in Rank, Main(r) \/ Wake(r) PROVE Sourced'
  <2>1. CASE OutBroadcast(r)
    <3>1. PICK t \in Tuple : t = Head(script[r]).tuple /\ Broadcast(r, "INSERT", t)
      BY <2>1, HeadCall, CallTypes DEF OutBroadcast, Calls, TypeInv
    <3>2. ~Bystander(r, t)
      BY <2>1, <3>1, CallersAct DEF OutBroadcast, Calls
    <3> QED BY <2>1, <3>1, <3>2, BroadcastSourced DEF OutBroadcast
  <2>2. CASE Take(r)
    <3>1. PICK t \in Present(r) : Broadcast(r, "DELETE", t)
      BY <2>2 DEF Take
    <3>2. t \in Tuple /\ ~Bystander(r, t)
      BY <2>2, <3>1, HeadCall, CallTypes, CallersAct DEF Take, Calls, Present, TypeInv
    <3> QED BY <2>2, <3>1, <3>2, BroadcastSourced DEF Take
  <2>3. CASE Terminate(r)
    <3>0. PICK m \in Message : m = [tag |-> "TERMINATE"]
      BY DEF Message
    <3>1. /\ net[r][r] \in Seq(Message)
          /\ \A q, s \in Rank : net'[q][s] = IF q = r /\ s = r THEN Append(net[q][s], m)
                                             ELSE net[q][s]
      BY <2>3, <3>0 DEF Terminate, TypeInv, TypeOK
    <3>2. /\ Len(net[r][r]) \in Nat /\ Len(net'[r][r]) = Len(net[r][r]) + 1
          /\ \A j \in 1 .. Len(net[r][r]) : net'[r][r][j] = net[r][r][j]
          /\ net'[r][r][Len(net[r][r]) + 1] = m
      <4>1. net'[r][r] = Append(net[r][r], m)
        BY <3>1
      <4> QED BY <3>1, <4>1, Appended
    <3>3. ASSUME NEW q \in Rank, NEW s \in Rank, NEW t \in Tuple,
                 NEW i \in 1 .. Len(net'[q][s]), About(net'[q][s][i], t)
          PROVE  q # s /\ ~Bystander(q, t)
      <4>1. CASE q = r /\ s = r
        <5>1. i \in 1 .. Len(net[r][r])
          BY <3>0, <3>2, <3>3, <4>1 DEF About
        <5> QED BY <3>2, <3>3, <4>1, <5>1 DEF Sourced
      <4>2. CASE ~(q = r /\ s = r)
        BY <3>1, <3>3, <4>2 DEF Sourced
      <4> QED BY <4>1, <4>2
    <3>4. UNCHANGED <<recv, hand>>
      BY <2>3 DEF Terminate
    <3> QED BY <3>3, <3>4 DEF Sourced
  <2>4. CASE \/ OutDropped(r) \/ OutPush(r) \/ OutReturn(r) \/ TakeReturn(r) \/ Look(r)
             \/ Sleep(r) \/ Join(r) \/ Finalize(r) \/ Wake(r)
    BY <1>2, <2>4 DEF OutDropped, OutPush, OutReturn, TakeReturn, Look, Sleep, Join,
                      Finalize, Wake
  <2> QED BY <1>3, <2>1, <2>2, <2>3, <2>4 DEF Main
<1>4. ASSUME NEW r \in Rank, Receiver(r) PROVE Sourced'
  <2>1. CASE Receive(r)
    BY <2>1, ReceiveSourced
  <2>2. ASSUME UNCHANGED net,
               \A q \in Rank : recv'[q] \in Holding =>
                                  recv[q] \in Holding /\ hand'[q] = hand[q]
        PROVE  Sourced'
    BY <2>2 DEF Sourced
  <2>3. CASE \/ InsertDropped(r) \/ InsertAdmitted(r) \/ InsertPush(r)
             \/ InsertIndexed(r) \/ Delete(r) \/ Owe(r)
    <3>1. UNCHANGED net /\ recv[r] \in Holding
      BY <2>3 DEF InsertDropped, InsertAdmitted, InsertPush, InsertIndexed, Delete, Owe, Holding
    <3>2. Done(r) \/ Go(r, "push") \/ Go(r, "index") \/ Go(r, "owe")
      BY <2>3 DEF InsertDropped, InsertAdmitted, InsertPush, InsertIndexed, Delete, Owe
    <3>3. \A q \in Rank : recv'[q] \in Holding => recv[q] \in Holding /\ hand'[q] = hand[q]
      BY <3>1, <3>2 DEF Done, Go, Holding, TypeInv, TypeOK
    <3> QED BY <2>2, <3>1, <3>3
  <2> QED BY <1>4, <2>1, <2>3 DEF Receiver
<1>5. ASSUME UNCHANGED vars PROVE Sourced'
  BY <1>2, <1>5 DEF vars
<1>6. Sourced'
  BY <1>3, <1>4, <1>5 DEF Next
<1> QED BY <1>1, <1>6

-----------------------------------------------------------------------------
(* A tuple with one owner.                                                 *)

Ins(m, t) == IF m.tag = "INSERT" /\ m.tuple = t THEN 1 ELSE 0
Del(m, t) == IF m.tag = "DELETE" /\ m.tuple = t THEN 1 ELSE 0

Pushing(o, t)  == IF main[o] = "push" /\ Head(script[o]).tuple = t THEN 1 ELSE 0
Arriving(r, t) == IF recv[r] \in {"insert", "push"} /\ hand[r].tuple = t THEN 1 ELSE 0
Leaving(r, t)  == IF recv[r] = "delete" /\ hand[r].tuple = t THEN 1 ELSE 0

\* How many t the owner has, what it puts counted from the broadcast on, and
\* how many r has, the message in its receiver's hand counted as applied.
Far(o, t)  == space[o][t] + Pushing(o, t)
Near(r, t) == space[r][t] + Arriving(r, t) - Leaving(r, t)

\* Message by message, the channel leads from what r has to what o has, and at
\* no message below none.
Follows(r, o, t) ==
    \E f \in [0 .. Len(net[o][r]) -> Nat] :
        /\ f[0] = Near(r, t)
        /\ f[Len(net[o][r])] = Far(o, t)
        /\ \A i \in 1 .. Len(net[o][r]) :
              f[i] + Del(net[o][r][i], t) = f[i - 1] + Ins(net[o][r][i], t)

Tracked(t) ==
    \A r \in Rank :
        /\ t \notin owed[r]
        /\ ~(recv[r] = "owe" /\ hand[r].tuple = t)
        /\ \A o \in Rank : o # r /\ ~Bystander(o, t) => Follows(r, o, t)

OwnerInv == \A t \in Tuple : OneOwner(t) => Tracked(t)

LEMMA CountTypes ==
    ASSUME TypeOK, NEW r \in Rank, NEW t \in Tuple
    PROVE  /\ space[r][t] \in Nat /\ Near(r, t) \in Int /\ Far(r, t) \in Nat
           /\ Pushing(r, t) \in {0, 1} /\ Arriving(r, t) \in {0, 1} /\ Leaving(r, t) \in {0, 1}
<1>1. space[r][t] \in Nat
  BY DEF TypeOK
<1>2. Pushing(r, t) \in {0, 1} /\ Arriving(r, t) \in {0, 1} /\ Leaving(r, t) \in {0, 1}
  BY DEF Pushing, Arriving, Leaving
<1> QED BY <1>1, <1>2 DEF Near, Far

\* Nothing that concerns the pair happens.
LEMMA FollowsStill ==
    ASSUME NEW r \in Rank, NEW o \in Rank, NEW t \in Tuple, Follows(r, o, t),
           net'[o][r] = net[o][r],
           Near(r, t)' = Near(r, t), Far(o, t)' = Far(o, t)
    PROVE  Follows(r, o, t)'
BY DEF Follows

\* The owner sends a message.
LEMMA FollowsSent ==
    ASSUME TypeOK, NEW r \in Rank, NEW o \in Rank, NEW t \in Tuple, Follows(r, o, t),
           NEW m \in Message, net'[o][r] = Append(net[o][r], m),
           Near(r, t)' = Near(r, t), Far(o, t)' \in Nat,
           Far(o, t)' + Del(m, t) = Far(o, t) + Ins(m, t)
    PROVE  Follows(r, o, t)'
<1> DEFINE n == Len(net[o][r])
<1>1. /\ n \in Nat /\ Len(net'[o][r]) = n + 1
      /\ \A i \in 1 .. n : net'[o][r][i] = net[o][r][i]
      /\ net'[o][r][n + 1] = m
  <2>1. net[o][r] \in Seq(Message)
    BY DEF TypeOK
  <2> QED BY <2>1, Appended
<1>2. PICK f \in [0 .. n -> Nat] :
        /\ f[0] = Near(r, t) /\ f[n] = Far(o, t)
        /\ \A i \in 1 .. n : f[i] + Del(net[o][r][i], t) = f[i - 1] + Ins(net[o][r][i], t)
  BY DEF Follows
<1> HIDE DEF n
<1>3. PICK far \in Nat : far = Far(o, t)' /\ far + Del(m, t) = f[n] + Ins(m, t)
  BY <1>2
<1> DEFINE g == [i \in 0 .. n + 1 |-> IF i <= n THEN f[i] ELSE far]
<1>4. g \in [0 .. n + 1 -> Nat]
  BY <1>1
<1>5. g[0] = Near(r, t)' /\ g[n + 1] = Far(o, t)'
  BY <1>1, <1>2, <1>3
<1>6. ASSUME NEW i \in 1 .. n + 1
      PROVE  g[i] + Del(net'[o][r][i], t) = g[i - 1] + Ins(net'[o][r][i], t)
  <2>1. CASE i = n + 1
    <3>1. g[i] = far /\ g[i - 1] = f[n] /\ net'[o][r][i] = m
      BY <1>1, <2>1
    <3> QED BY <1>3, <3>1
  <2>2. CASE i # n + 1
    <3>1. i \in 1 .. n /\ g[i] = f[i] /\ g[i - 1] = f[i - 1] /\ net'[o][r][i] = net[o][r][i]
      BY <1>1, <2>2
    <3> QED BY <1>2, <3>1
  <2> QED BY <2>1, <2>2
<1> HIDE DEF g
<1>7. \E h \in [0 .. n + 1 -> Nat] :
        /\ h[0] = Near(r, t)' /\ h[n + 1] = Far(o, t)'
        /\ \A i \in 1 .. n + 1 : h[i] + Del(net'[o][r][i], t) = h[i - 1] + Ins(net'[o][r][i], t)
  BY <1>4, <1>5, <1>6
<1> QED BY <1>1, <1>7 DEF Follows, Del, Ins

\* The receiver takes a message in its hand.
LEMMA FollowsReceived ==
    ASSUME TypeOK, NEW r \in Rank, NEW o \in Rank, NEW t \in Tuple, Follows(r, o, t),
           net[o][r] # <<>>, net'[o][r] = Tail(net[o][r]),
           Near(r, t)' = Near(r, t) + Ins(Head(net[o][r]), t) - Del(Head(net[o][r]), t),
           Far(o, t)' = Far(o, t)
    PROVE  Follows(r, o, t)'
<1> DEFINE n == Len(net[o][r])
<1>1. /\ n \in Nat /\ Len(net'[o][r]) = n - 1 /\ 1 \in 1 .. n
      /\ Head(net[o][r]) = net[o][r][1]
      /\ \A i \in 1 .. n - 1 : i + 1 \in 1 .. n /\ net'[o][r][i] = net[o][r][i + 1]
  <2>1. net[o][r] \in Seq(Message)
    BY DEF TypeOK
  <2> QED BY <2>1, Shifted
<1>2. PICK f \in [0 .. n -> Nat] :
        /\ f[0] = Near(r, t) /\ f[n] = Far(o, t)
        /\ \A i \in 1 .. n : f[i] + Del(net[o][r][i], t) = f[i - 1] + Ins(net[o][r][i], t)
  BY DEF Follows
<1> HIDE DEF n
<1> DEFINE g == [i \in 0 .. n - 1 |-> f[i + 1]]
<1>3. g \in [0 .. n - 1 -> Nat] /\ g[0] = f[1] /\ g[n - 1] = f[n]
  BY <1>1
<1>4. f[1] = Near(r, t)'
  <2>1. f[1] + Del(net[o][r][1], t) = f[0] + Ins(net[o][r][1], t)
    BY <1>1, <1>2
  <2>2. f[0] \in Int /\ f[1] \in Int
    BY <1>1
  <2>3. PICK m : m = net[o][r][1] /\ m = Head(net[o][r])
    BY <1>1
  <2>4. Ins(m, t) \in Int /\ Del(m, t) \in Int
    BY DEF Ins, Del
  <2>5. f[1] + Del(m, t) = f[0] + Ins(m, t)
    BY <2>1, <2>3
  <2>6. Near(r, t)' = f[0] + Ins(m, t) - Del(m, t)
    BY <1>2, <2>3
  <2> QED BY <2>2, <2>4, <2>5, <2>6
<1>5. ASSUME NEW i \in 1 .. n - 1
      PROVE  g[i] + Del(net'[o][r][i], t) = g[i - 1] + Ins(net'[o][r][i], t)
  <2>1. i \in 0 .. n - 1 /\ i - 1 \in 0 .. n - 1 /\ (i - 1) + 1 = i /\ (i + 1) - 1 = i
    BY SMTT(30), <1>1
  <2>2. g[i] = f[i + 1] /\ g[i - 1] = f[i]
    BY <2>1
  <2>3. i + 1 \in 1 .. n /\ net'[o][r][i] = net[o][r][i + 1]
    BY <1>1
  <2>4. f[i + 1] + Del(net[o][r][i + 1], t) = f[i] + Ins(net[o][r][i + 1], t)
    BY <1>2, <2>1, <2>3
  <2> QED BY <2>2, <2>3, <2>4
<1> HIDE DEF g
<1>6. \E h \in [0 .. n - 1 -> Nat] :
        /\ h[0] = Near(r, t)' /\ h[n - 1] = Far(o, t)'
        /\ \A i \in 1 .. n - 1 : h[i] + Del(net'[o][r][i], t) = h[i - 1] + Ins(net'[o][r][i], t)
  BY <1>2, <1>3, <1>4, <1>5
<1> QED BY <1>1, <1>6 DEF Follows, Del, Ins

\* A step of a main thread that sends nothing to another rank: it may move a
\* tuple from the broadcast to the store, and drop a debt.
LEMMA MainQuiet ==
    ASSUME NEW t \in Tuple, Tracked(t), UNCHANGED <<recv, hand>>,
           \A r \in Rank : owed'[r] \subseteq owed[r],
           \A q, r \in Rank : q # r => net'[q][r] = net[q][r],
           \A r \in Rank : Far(r, t)' = Far(r, t),
           \A r, o \in Rank : o # r /\ ~Bystander(o, t) => space'[r][t] = space[r][t]
    PROVE  Tracked(t)'
<1>1. ASSUME NEW r \in Rank, NEW o \in Rank, o # r, ~Bystander(o, t)
      PROVE  Follows(r, o, t)'
  <2>1. Follows(r, o, t)
    BY <1>1 DEF Tracked
  <2>2. Near(r, t)' = Near(r, t)
    BY <1>1 DEF Near, Arriving, Leaving
  <2> QED BY <1>1, <2>1, <2>2, FollowsStill
<1> QED BY <1>1 DEF Tracked

\* A step of a receiver thread that takes no message: it may move a tuple from
\* its hand to the store.
LEMMA ReceiverQuiet ==
    ASSUME NEW t \in Tuple, Tracked(t), UNCHANGED <<net, main, script>>,
           \A r \in Rank : t \in owed'[r] => t \in owed[r],
           \A r \in Rank : ~(recv'[r] = "owe" /\ hand'[r].tuple = t),
           \A r \in Rank : ~Bystander(r, t) => space'[r][t] = space[r][t],
           \A r, o \in Rank : o # r /\ ~Bystander(o, t) => Near(r, t)' = Near(r, t)
    PROVE  Tracked(t)'
<1>1. ASSUME NEW r \in Rank, NEW o \in Rank, o # r, ~Bystander(o, t)
      PROVE  Follows(r, o, t)'
  <2>1. Follows(r, o, t)
    BY <1>1 DEF Tracked
  <2>2. Far(o, t)' = Far(o, t)
    BY <1>1 DEF Far, Pushing
  <2> QED BY <1>1, <2>1, <2>2, FollowsStill
<1> QED BY <1>1 DEF Tracked

\* A rank sends a message: if it is about t, the rank is the one owner.
LEMMA SendTracks ==
    ASSUME TypeInv, NEW t \in Tuple, OneOwner(t), Tracked(t), NEW a \in Rank,
           NEW tag \in {"INSERT", "DELETE"}, NEW u \in Tuple, Broadcast(a, tag, u),
           ~Bystander(a, u), UNCHANGED <<owed, recv, hand>>,
           \A r \in Rank : r # a => Far(r, t)' = Far(r, t) /\ space'[r][t] = space[r][t],
           u # t => Far(a, t)' = Far(a, t) /\ space'[a][t] = space[a][t],
           Far(a, t)' \in Nat, Far(a, t) \in Nat,
           u = t /\ tag = "INSERT" => Far(a, t)' = Far(a, t) + 1,
           u = t /\ tag = "DELETE" => Far(a, t)' + 1 = Far(a, t)
    PROVE  Tracked(t)'
<1>1. PICK m \in Message :
        /\ m = [tag |-> tag, tuple |-> u]
        /\ \A q, r \in Rank :
              net'[q][r] = IF q = a /\ r # a THEN Append(net[q][r], m) ELSE net[q][r]
  BY Broadcasted DEF TypeInv
<1>2. ASSUME NEW r \in Rank, NEW o \in Rank, o # r, ~Bystander(o, t)
      PROVE  Follows(r, o, t)'
  <2>1. Follows(r, o, t)
    BY <1>2 DEF Tracked
  <2>2. u = t => o = a
    BY <1>2 DEF OneOwner
  <2>3. space'[r][t] = space[r][t]
    BY <1>2, <2>2
  <2>4. Near(r, t)' = Near(r, t)
    BY <2>3 DEF Near, Arriving, Leaving
  <2>5. CASE o = a
    <3>1. net'[o][r] = Append(net[o][r], m)
      BY <1>1, <1>2, <2>5
    <3>2. Far(o, t)' \in Nat
      BY <2>5
    <3>3. Far(o, t)' + Del(m, t) = Far(o, t) + Ins(m, t)
      <4>1. CASE u = t /\ tag = "INSERT"
        <5>1. Del(m, t) = 0 /\ Ins(m, t) = 1
          BY <1>1, <4>1 DEF Del, Ins
        <5> QED BY <2>5, <4>1, <5>1
      <4>2. CASE u = t /\ tag = "DELETE"
        <5>1. Del(m, t) = 1 /\ Ins(m, t) = 0
          BY <1>1, <4>2 DEF Del, Ins
        <5> QED BY <2>5, <4>2, <5>1
      <4>3. CASE u # t
        <5>1. Del(m, t) = 0 /\ Ins(m, t) = 0
          BY <1>1, <4>3 DEF Del, Ins
        <5> QED BY <2>5, <4>3, <5>1
      <4> QED BY <4>1, <4>2, <4>3
    <3> QED BY <2>1, <2>4, <3>1, <3>2, <3>3, FollowsSent DEF TypeInv
  <2>6. CASE o # a
    <3>1. net'[o][r] = net[o][r] /\ Far(o, t)' = Far(o, t)
      BY <1>1, <1>2, <2>6
    <3> QED BY <2>1, <2>4, <3>1, FollowsStill
  <2> QED BY <2>5, <2>6
<1> QED BY <1>2 DEF Tracked

\* A receiver takes a message: if it is about t, it comes from the owner.
LEMMA ReceiveTracks ==
    ASSUME SourceInv, NEW t \in Tuple, OneOwner(t), Tracked(t), NEW a \in Rank, Receive(a)
    PROVE  Tracked(t)'
<1> DEFINE there == [INSERT |-> "insert", DELETE |-> "delete", TERMINATE |-> "ended"]
<1> USE DEF SourceInv
<1>1. PICK s \in Rank :
        /\ net[s][a] # <<>>
        /\ recv' = [recv EXCEPT ![a] = there[Head(net[s][a]).tag]]
        /\ hand' = [hand EXCEPT ![a] = Head(net[s][a])]
        /\ net' = [net EXCEPT ![s][a] = Tail(@)]
  BY DEF Receive
<1>2. PICK m \in Message : m = Head(net[s][a]) /\ m = net[s][a][1] /\ 1 \in 1 .. Len(net[s][a])
  <2>1. net[s][a] \in Seq(Message)
    BY DEF TypeInv, TypeOK
  <2> QED BY <1>1, <2>1, Shifted
<1>3. /\ \A q, r \in Rank : net'[q][r] = IF q = s /\ r = a THEN Tail(net[q][r]) ELSE net[q][r]
      /\ \A r \in Rank : r # a => recv'[r] = recv[r] /\ hand'[r] = hand[r]
      /\ recv'[a] = there[m.tag] /\ hand'[a] = m /\ recv[a] = "probe"
      /\ UNCHANGED <<space, main, script, owed>>
  BY <1>1, <1>2 DEF Receive, TypeInv, TypeOK
<1>4. \/ m.tag = "INSERT" /\ recv'[a] = "insert"
      \/ m.tag = "DELETE" /\ recv'[a] = "delete"
      \/ m.tag = "TERMINATE" /\ recv'[a] = "ended"
  BY <1>3 DEF Message
<1>5. Near(a, t)' = Near(a, t) + Ins(m, t) - Del(m, t)
  <2>1. space'[a][t] = space[a][t] /\ space[a][t] \in Nat
    BY <1>3 DEF TypeInv, TypeOK
  <2>2. Arriving(a, t) = 0 /\ Leaving(a, t) = 0
    BY <1>3 DEF Arriving, Leaving
  <2>3. Arriving(a, t)' = Ins(m, t) /\ Leaving(a, t)' = Del(m, t)
    BY <1>3, <1>4 DEF Arriving, Leaving, Ins, Del
  <2>4. Ins(m, t) \in Int /\ Del(m, t) \in Int
    BY DEF Ins, Del
  <2> QED BY <2>1, <2>2, <2>3, <2>4 DEF Near
<1>6. ASSUME NEW r \in Rank, NEW o \in Rank, o # r, ~Bystander(o, t)
      PROVE  Follows(r, o, t)'
  <2>1. Follows(r, o, t) /\ Far(o, t)' = Far(o, t)
    BY <1>3, <1>6 DEF Tracked, Far, Pushing
  <2>2. CASE r = a /\ o = s
    <3>1. /\ net[o][r] # <<>> /\ net'[o][r] = Tail(net[o][r])
          /\ Near(r, t)' = Near(r, t) + Ins(Head(net[o][r]), t) - Del(Head(net[o][r]), t)
      BY <1>1, <1>2, <1>3, <1>5, <2>2
    <3> QED BY <2>1, <3>1, FollowsReceived DEF TypeInv
  <2>3. CASE r = a /\ o # s
    <3>1. ~About(m, t)
      <4>1. About(m, t) => ~Bystander(s, t)
        BY <1>2 DEF Sourced
      <4> QED BY <1>6, <2>3, <4>1 DEF OneOwner
    <3>2. Ins(m, t) = 0 /\ Del(m, t) = 0
      BY <3>1 DEF About, Ins, Del
    <3>3. Near(a, t) \in Int
      BY CountTypes DEF TypeInv
    <3>4. Near(r, t)' = Near(r, t) /\ net'[o][r] = net[o][r]
      BY <1>3, <1>5, <2>3, <3>2, <3>3
    <3> QED BY <2>1, <3>4, FollowsStill
  <2>4. CASE r # a
    <3>1. Near(r, t)' = Near(r, t) /\ net'[o][r] = net[o][r]
      BY <1>3, <2>4 DEF Near, Arriving, Leaving
    <3> QED BY <2>1, <3>1, FollowsStill
  <2> QED BY <2>2, <2>3, <2>4
<1>7. ASSUME NEW r \in Rank
      PROVE  t \notin owed'[r] /\ ~(recv'[r] = "owe" /\ hand'[r].tuple = t)
  BY <1>3, <1>4 DEF Tracked
<1> QED BY <1>6, <1>7 DEF Tracked

\* Only an out's broadcast leads to its push.
LEMMA NoPush ==
    ASSUME TypeOK, NEW a \in Rank,
           \/ OutDropped(a) \/ OutReturn(a) \/ TakeReturn(a) \/ Look(a) \/ Sleep(a)
           \/ Wake(a) \/ Terminate(a) \/ Join(a) \/ Finalize(a)
    PROVE  /\ main[a] # "push" /\ main'[a] # "push"
           /\ \A r \in Rank : r # a => main'[r] = main[r] /\ script'[r] = script[r]
<1>1. CASE Return(a) /\ main[a] \in {"ready", "outAwait", "takeAwait"}
  BY <1>1 DEF Return, TypeOK
<1>2. ASSUME UNCHANGED script, main[a] # "push",
             NEW there \in {"waiting", "ready", "join", "barrier", "final"},
             main' = [main EXCEPT ![a] = there]
      PROVE  /\ main[a] # "push" /\ main'[a] # "push"
             /\ \A r \in Rank : r # a => main'[r] = main[r] /\ script'[r] = script[r]
  BY <1>2 DEF TypeOK
<1>3. CASE OutDropped(a) \/ OutReturn(a) \/ TakeReturn(a) \/ Look(a)
  <2>1. Return(a) /\ main[a] \in {"ready", "outAwait", "takeAwait"}
    BY <1>3 DEF OutDropped, OutReturn, TakeReturn, Look, Calls
  <2> QED BY <1>1, <2>1
<1>4. CASE Sleep(a)
  BY <1>2, <1>4 DEF Sleep, Calls
<1>5. CASE Wake(a)
  BY <1>2, <1>5 DEF Wake
<1>6. CASE Terminate(a)
  BY <1>2, <1>6 DEF Terminate
<1>7. CASE Join(a)
  BY <1>2, <1>7 DEF Join
<1>8. CASE Finalize(a)
  BY <1>2, <1>8 DEF Finalize
<1> QED BY <1>3, <1>4, <1>5, <1>6, <1>7, <1>8

LEMMA MainTracks ==
    ASSUME SourceInv, NEW t \in Tuple, OneOwner(t), Tracked(t), NEW a \in Rank,
           Main(a) \/ Wake(a)
    PROVE  Tracked(t)'
<1> USE DEF SourceInv, TypeInv
<1>1. CASE OutBroadcast(a)
  <2>1. PICK u \in Tuple : /\ u = Head(script[a]).tuple /\ Broadcast(a, "INSERT", u)
                           /\ ~Bystander(a, u)
    BY <1>1, HeadCall, CallTypes, CallersAct DEF OutBroadcast, Calls
  <2>2. /\ UNCHANGED <<space, owed, script, recv, hand>> /\ main[a] = "ready"
        /\ main' = [main EXCEPT ![a] = "push"]
    BY <1>1 DEF OutBroadcast, Calls
  <2>3. \A r \in Rank : r # a => Far(r, t)' = Far(r, t) /\ space'[r][t] = space[r][t]
    BY <2>2 DEF Far, Pushing, TypeOK
  <2>4. Pushing(a, t) = 0 /\ Pushing(a, t)' = IF u = t THEN 1 ELSE 0
    BY <2>1, <2>2 DEF Pushing, TypeOK
  <2>5. Far(a, t) = space[a][t] /\ Far(a, t)' = IF u = t THEN space[a][t] + 1 ELSE space[a][t]
    BY <2>2, <2>4, CountTypes DEF Far
  <2>6. Far(a, t) \in Nat /\ Far(a, t)' \in Nat /\ space[a][t] \in Nat
    BY <2>5, CountTypes
  <2>7. "INSERT" # "DELETE" /\ space'[a][t] = space[a][t] /\ UNCHANGED <<owed, recv, hand>>
    BY <2>2
  <2> QED BY <2>1, <2>3, <2>5, <2>6, <2>7, SendTracks
<1>2. CASE Take(a)
  <2>1. PICK u \in Present(a) : /\ space' = [space EXCEPT ![a][u] = @ - 1]
                                /\ Broadcast(a, "DELETE", u)
    BY <1>2 DEF Take
  <2>2. u \in Tuple /\ ~Bystander(a, u) /\ space[a][u] > 0
    BY <1>2, HeadCall, CallTypes, CallersAct DEF Take, Calls, Present
  <2>3. /\ UNCHANGED <<owed, script, recv, hand>> /\ main[a] = "ready"
        /\ main' = [main EXCEPT ![a] = "takeAwait"]
    BY <1>2 DEF Take, Calls
  <2>4. space[a][u] \in Nat /\ space[a][u] - 1 \in Nat /\ space[a][t] \in Nat
    BY <2>2, CountTypes
  <2>5. \A q \in Rank : \A v \in Tuple :
          space'[q][v] = IF q = a /\ v = u THEN space[a][u] - 1 ELSE space[q][v]
    BY <2>1, <2>2, <2>4, SpaceChanges
  <2>6. \A r \in Rank : r # a => Far(r, t)' = Far(r, t) /\ space'[r][t] = space[r][t]
    BY <2>3, <2>5 DEF Far, Pushing, TypeOK
  <2>7. Pushing(a, t) = 0 /\ Pushing(a, t)' = 0
    BY <2>3 DEF Pushing, TypeOK
  <2>8. Far(a, t) = space[a][t] /\ Far(a, t)' = IF u = t THEN space[a][t] - 1 ELSE space[a][t]
    BY <2>4, <2>5, <2>7 DEF Far
  <2>9. Far(a, t) \in Nat /\ Far(a, t)' \in Nat /\ (u = t => Far(a, t)' + 1 = Far(a, t))
    BY <2>4, <2>8
  <2>10. "INSERT" # "DELETE" /\ (u # t => space'[a][t] = space[a][t])
         /\ UNCHANGED <<owed, recv, hand>>
    BY <2>3, <2>5
  <2> QED BY <2>1, <2>2, <2>6, <2>8, <2>9, <2>10, SendTracks
<1>3. CASE OutPush(a)
  <2>1. PICK u \in Tuple : u = Head(script[a]).tuple /\ ~Bystander(a, u)
    BY <1>3, HeadCall, CallTypes, CallersAct DEF OutPush, Fits
  <2>2. /\ UNCHANGED <<owed, net, script, recv, hand>> /\ main[a] = "push"
        /\ main' = [main EXCEPT ![a] = "outAwait"]
        /\ space' = [space EXCEPT ![a][u] = space[a][u] + 1]
    BY <1>3, <2>1 DEF OutPush
  <2>3. space[a][u] + 1 \in Nat /\ space[a][t] \in Nat
    BY CountTypes
  <2>4. \A q \in Rank : \A v \in Tuple :
          space'[q][v] = IF q = a /\ v = u THEN space[a][u] + 1 ELSE space[q][v]
    BY <2>2, <2>3, SpaceChanges
  <2>5. Pushing(a, t)' = 0 /\ Pushing(a, t) = IF u = t THEN 1 ELSE 0
    BY <2>1, <2>2 DEF Pushing, TypeOK
  <2>6. ASSUME NEW r \in Rank PROVE Far(r, t)' = Far(r, t)
    <3>1. CASE r = a
      BY <2>3, <2>4, <2>5, <3>1 DEF Far
    <3>2. CASE r # a
      BY <2>2, <2>4, <3>2 DEF Far, Pushing, TypeOK
    <3> QED BY <3>1, <3>2
  <2>7. ASSUME NEW r \in Rank, NEW o \in Rank, o # r, ~Bystander(o, t)
        PROVE  space'[r][t] = space[r][t]
    <3>1. ~(r = a /\ t = u)
      BY <2>1, <2>7 DEF OneOwner
    <3> QED BY <2>4, <3>1
  <2> QED BY <2>2, <2>6, <2>7, MainQuiet
<1>4. CASE \/ OutDropped(a) \/ OutReturn(a) \/ TakeReturn(a) \/ Look(a) \/ Sleep(a)
           \/ Wake(a) \/ Terminate(a) \/ Join(a) \/ Finalize(a)
  <2>1. UNCHANGED <<space, recv, hand>>
    BY <1>4 DEF OutDropped, OutReturn, TakeReturn, Look, Sleep, Wake, Terminate, Join, Finalize
  <2>2. \A r \in Rank : owed'[r] \subseteq owed[r]
    BY <1>4 DEF OutDropped, OutReturn, TakeReturn, Look, Sleep, Wake, Terminate, Join,
                Finalize, TypeOK
  <2>3. \A q, r \in Rank : q # r => net'[q][r] = net[q][r]
    <3>1. CASE Terminate(a)
      <4>1. net' = [net EXCEPT ![a][a] = Append(@, [tag |-> "TERMINATE"])]
        BY <3>1 DEF Terminate
      <4> QED BY <4>1 DEF TypeOK
    <3>2. CASE UNCHANGED net
      BY <3>2
    <3> QED BY <1>4, <3>1, <3>2 DEF OutDropped, OutReturn, TakeReturn, Look, Sleep, Wake,
                                    Join, Finalize
  <2>4. /\ main[a] # "push" /\ main'[a] # "push"
        /\ \A r \in Rank : r # a => main'[r] = main[r] /\ script'[r] = script[r]
    BY <1>4, NoPush
  <2>5. \A r \in Rank : Far(r, t)' = Far(r, t)
    BY <2>1, <2>4 DEF Far, Pushing
  <2>6. \A r \in Rank : space'[r][t] = space[r][t]
    BY <2>1
  <2> QED BY <2>1, <2>2, <2>3, <2>5, <2>6, MainQuiet
<1> QED BY <1>1, <1>2, <1>3, <1>4 DEF Main

LEMMA ReceiverTracks ==
    ASSUME SourceInv, NEW t \in Tuple, OneOwner(t), Tracked(t), NEW a \in Rank, Receiver(a)
    PROVE  Tracked(t)'
<1> USE DEF SourceInv, TypeInv
<1>1. CASE Receive(a)
  BY <1>1, ReceiveTracks
<1>2. ASSUME recv[a] \in Holding PROVE \E u \in Tuple : u = hand[a].tuple
  BY <1>2 DEF Fits, Tupled
\* The rank that has t in its hand is not the owner, which is another one.
<1>3. ASSUME recv[a] \in Holding, hand[a].tuple = t
      PROVE  Bystander(a, t) /\ \E o \in Rank : o # a /\ ~Bystander(o, t)
  <2>1. PICK o \in Rank : o # a /\ ~Bystander(o, t)
    BY <1>3 DEF Sourced
  <2> QED BY <2>1 DEF OneOwner
<1>4. CASE InsertDropped(a) \/ InsertIndexed(a) \/ InsertAdmitted(a)
  <2>1. UNCHANGED <<net, main, script, space>> /\ recv[a] \in {"insert", "index"}
    BY <1>4 DEF InsertDropped, InsertIndexed, InsertAdmitted
  <2>2. \A r \in Rank : t \in owed'[r] => t \in owed[r]
    BY <1>4 DEF InsertDropped, InsertIndexed, InsertAdmitted, TypeOK
  <2>3. \A r \in Rank : r # a => recv'[r] = recv[r] /\ hand'[r] = hand[r]
    BY <1>4 DEF InsertDropped, InsertIndexed, InsertAdmitted, Done, Go, TypeOK
  <2>4. recv'[a] # "owe" /\ (hand[a].tuple = t /\ InsertDropped(a) => FALSE)
    BY <1>4 DEF InsertDropped, InsertIndexed, InsertAdmitted, Done, Go, TypeOK, Tracked
  <2>5. Arriving(a, t)' = Arriving(a, t) /\ Leaving(a, t)' = 0 /\ Leaving(a, t) = 0
    <3>1. CASE InsertDropped(a)
      BY <2>4, <3>1 DEF InsertDropped, Done, Arriving, Leaving, TypeOK
    <3>2. CASE InsertIndexed(a)
      BY <3>2 DEF InsertIndexed, Done, Arriving, Leaving, TypeOK
    <3>3. CASE InsertAdmitted(a)
      BY <3>3 DEF InsertAdmitted, Go, Arriving, Leaving, TypeOK
    <3> QED BY <1>4, <3>1, <3>2, <3>3
  <2>6. \A r \in Rank : ~(recv'[r] = "owe" /\ hand'[r].tuple = t)
    BY <2>3, <2>4 DEF Tracked
  <2>7. \A r \in Rank : Near(r, t)' = Near(r, t)
    BY <2>1, <2>3, <2>5 DEF Near, Arriving, Leaving
  <2> QED BY <2>1, <2>2, <2>6, <2>7, ReceiverQuiet
<1>5. CASE InsertPush(a)
  <2>1. PICK u \in Tuple : u = hand[a].tuple
    BY <1>2, <1>5 DEF InsertPush, Holding
  <2>2. /\ UNCHANGED <<net, main, script, owed, hand>> /\ recv[a] = "push"
        /\ recv' = [recv EXCEPT ![a] = "index"]
        /\ space' = [space EXCEPT ![a][u] = space[a][u] + 1]
    BY <1>5, <2>1 DEF InsertPush, Go
  <2>3. space[a][u] + 1 \in Nat /\ space[a][u] \in Nat /\ space[a][t] \in Nat
    BY CountTypes
  <2>4. \A q \in Rank : \A v \in Tuple :
          space'[q][v] = IF q = a /\ v = u THEN space[a][u] + 1 ELSE space[q][v]
    BY <2>2, <2>3, SpaceChanges
  <2>5. recv'[a] = "index" /\ \A r \in Rank : r # a => recv'[r] = recv[r]
    BY <2>2 DEF TypeOK
  <2>6. \A r \in Rank : ~(recv'[r] = "owe" /\ hand'[r].tuple = t)
    BY <2>2, <2>5 DEF Tracked
  <2>7. \A r \in Rank : ~Bystander(r, t) => space'[r][t] = space[r][t]
    BY <1>3, <2>1, <2>2, <2>4 DEF Holding
  <2>8. Near(a, t)' = Near(a, t)
    <3>1. /\ Arriving(a, t) = (IF u = t THEN 1 ELSE 0) /\ Arriving(a, t)' = 0
          /\ Leaving(a, t) = 0 /\ Leaving(a, t)' = 0
      BY <2>1, <2>2, <2>5 DEF Arriving, Leaving
    <3>2. space'[a][t] = IF u = t THEN space[a][t] + 1 ELSE space[a][t]
      BY <2>4
    <3> QED BY <2>3, <3>1, <3>2 DEF Near
  <2>9. ASSUME NEW r \in Rank, r # a PROVE Near(r, t)' = Near(r, t)
    BY <2>2, <2>4, <2>5, <2>9 DEF Near, Arriving, Leaving
  <2>10. \A r \in Rank : (t \in owed'[r] => t \in owed[r]) /\ Near(r, t)' = Near(r, t)
    BY <2>2, <2>8, <2>9
  <2> QED BY <2>2, <2>6, <2>7, <2>10, ReceiverQuiet
<1>6. CASE Delete(a)
  <2>1. PICK u \in Tuple : u = hand[a].tuple
    BY <1>2, <1>6 DEF Delete, Holding
  <2>2. UNCHANGED <<net, main, script, owed>> /\ recv[a] = "delete"
    BY <1>6 DEF Delete
  <2>3. space[a][u] \in Nat /\ space[a][t] \in Nat
    BY CountTypes
  \* The owner's channel leads up from no t below none: there is one to delete.
  <2>4. u = t => space[a][t] > 0
    <3> SUFFICES ASSUME u = t PROVE space[a][t] > 0
      OBVIOUS
    <3>1. PICK o \in Rank : o # a /\ ~Bystander(o, t)
      BY <1>3, <2>1, <2>2 DEF Holding
    <3>2. Near(a, t) \in Nat
      <4>1. Follows(a, o, t)
        BY <3>1 DEF Tracked
      <4>2. Len(net[o][a]) \in Nat
        BY LenProperties DEF TypeOK
      <4> QED BY <4>1, <4>2 DEF Follows
    <3>3. Arriving(a, t) = 0 /\ Leaving(a, t) = 1
      BY <2>1, <2>2 DEF Arriving, Leaving
    <3> QED BY <2>3, <3>2, <3>3 DEF Near
  <2>5. CASE space[a][u] > 0 /\ space' = [space EXCEPT ![a][u] = space[a][u] - 1] /\ Done(a)
    <3>1. space[a][u] - 1 \in Nat
      BY <2>3, <2>5
    <3>2. \A q \in Rank : \A v \in Tuple :
            space'[q][v] = IF q = a /\ v = u THEN space[a][u] - 1 ELSE space[q][v]
      BY <2>5, <3>1, SpaceChanges
    <3>3. /\ recv'[a] = "probe"
          /\ \A r \in Rank : r # a => recv'[r] = recv[r] /\ hand'[r] = hand[r]
      BY <2>5 DEF Done, TypeOK
    <3>4. \A r \in Rank : ~(recv'[r] = "owe" /\ hand'[r].tuple = t)
      BY <3>3 DEF Tracked
    <3>5. \A r \in Rank : ~Bystander(r, t) => space'[r][t] = space[r][t]
      BY <1>3, <2>1, <2>2, <3>2 DEF Holding
    <3>6. Near(a, t)' = Near(a, t)
      <4>1. /\ Arriving(a, t) = 0 /\ Arriving(a, t)' = 0
            /\ Leaving(a, t) = (IF u = t THEN 1 ELSE 0) /\ Leaving(a, t)' = 0
        BY <2>1, <2>2, <3>3 DEF Arriving, Leaving
      <4>2. space'[a][t] = IF u = t THEN space[a][t] - 1 ELSE space[a][t]
        BY <3>2
      <4> QED BY <2>3, <4>1, <4>2 DEF Near
    <3>7. ASSUME NEW r \in Rank, r # a PROVE Near(r, t)' = Near(r, t)
      BY <3>2, <3>3, <3>7 DEF Near, Arriving, Leaving
    <3>8. \A r \in Rank : (t \in owed'[r] => t \in owed[r]) /\ Near(r, t)' = Near(r, t)
      BY <2>2, <3>6, <3>7
    <3> QED BY <2>2, <3>4, <3>5, <3>8, ReceiverQuiet
  <2>6. CASE space[a][u] = 0 /\ UNCHANGED space /\ Go(a, "owe")
    <3>1. u # t
      BY <2>3, <2>4, <2>6
    <3>2. /\ recv'[a] = "owe" /\ UNCHANGED hand
          /\ \A r \in Rank : r # a => recv'[r] = recv[r]
      BY <2>6 DEF Go, TypeOK
    <3>3. \A r \in Rank : ~(recv'[r] = "owe" /\ hand'[r].tuple = t)
      BY <2>1, <3>1, <3>2 DEF Tracked
    <3>4. ASSUME NEW r \in Rank PROVE Near(r, t)' = Near(r, t)
      <4>1. CASE r = a
        BY <2>1, <2>2, <2>6, <3>1, <3>2, <4>1 DEF Near, Arriving, Leaving
      <4>2. CASE r # a
        BY <2>6, <3>2, <4>2 DEF Near, Arriving, Leaving
      <4> QED BY <4>1, <4>2
    <3>5. \A r \in Rank : space'[r][t] = space[r][t] /\ (t \in owed'[r] => t \in owed[r])
      BY <2>2, <2>6
    <3> QED BY <2>2, <3>3, <3>4, <3>5, ReceiverQuiet
  <2> QED BY <1>6, <2>1, <2>5, <2>6 DEF Delete
<1>7. CASE Owe(a)
  <2>1. UNCHANGED <<net, main, script, space>> /\ recv[a] = "owe" /\ hand[a].tuple # t
    BY <1>7 DEF Owe, Tracked
  <2>2. \A r \in Rank : t \in owed'[r] => t \in owed[r]
    BY <1>7, <2>1 DEF Owe, TypeOK
  <2>3. /\ recv'[a] = "probe"
        /\ \A r \in Rank : r # a => recv'[r] = recv[r] /\ hand'[r] = hand[r]
    BY <1>7 DEF Owe, Done, TypeOK
  <2>4. \A r \in Rank : ~(recv'[r] = "owe" /\ hand'[r].tuple = t)
    BY <2>3 DEF Tracked
  <2>5. ASSUME NEW r \in Rank PROVE Near(r, t)' = Near(r, t)
    BY <2>1, <2>3 DEF Near, Arriving, Leaving
  <2> QED BY <2>1, <2>2, <2>4, <2>5, ReceiverQuiet
<1> QED BY <1>1, <1>4, <1>5, <1>6, <1>7 DEF Receiver

LEMMA OwnerInit == Init => SourceInv /\ OwnerInv
<1> SUFFICES ASSUME Init PROVE SourceInv /\ OwnerInv
  OBVIOUS
<1>1. TypeInv
  BY TypeInit
<1>2. \A q, r \in Rank : net[q][r] = <<>> /\ Len(net[q][r]) = 0
  BY DEF Init
<1>3. Scripted
  <2>1. ASSUME NEW r \in Rank, NEW i \in 1 .. Len(script[r])
        PROVE  script[r][i] \in ToSet(script[r])
    BY DEF ToSet
  <2>2. script \in Programs
    BY DEF Init
  <2> QED BY <2>1, <2>2 DEF Scripted
<1>4. Sourced
  BY <1>2 DEF Init, Sourced, Holding
<1>5. ASSUME NEW t \in Tuple PROVE Tracked(t)
  <2>1. ASSUME NEW r \in Rank, NEW o \in Rank PROVE Follows(r, o, t)
    <3>1. Near(r, t) = 0 /\ Far(o, t) = 0
      BY DEF Init, Near, Far, Arriving, Leaving, Pushing
    <3> DEFINE f == [i \in 0 .. 0 |-> 0]
    <3>2. f \in [0 .. 0 -> Nat] /\ f[0] = 0
      OBVIOUS
    <3> HIDE DEF f
    <3> QED BY SMTT(30), <1>2, <3>1, <3>2 DEF Follows
  <2> QED BY <2>1 DEF Init, Tracked
<1> QED BY <1>1, <1>3, <1>4, <1>5 DEF SourceInv, OwnerInv

LEMMA OwnerStep == SourceInv /\ OwnerInv /\ [Next]_vars => OwnerInv'
<1> SUFFICES ASSUME SourceInv, OwnerInv, [Next]_vars, NEW t \in Tuple, OneOwner(t)
             PROVE  Tracked(t)'
  BY DEF OwnerInv, OneOwner, Bystander, Puts, Takes, Makes
<1>1. Tracked(t)
  BY DEF OwnerInv
<1>2. CASE UNCHANGED vars
  BY <1>1, <1>2 DEF vars, Tracked, Follows, Near, Far, Pushing, Arriving, Leaving, Ins, Del
<1>3. CASE Next
  BY <1>1, <1>3, MainTracks, ReceiverTracks DEF Next
<1> QED BY <1>2, <1>3

\* A tuple that only one rank puts and takes leaves no debt in any replica,
\* however many ranks there are and however late they receive: the owner's
\* messages about it reach each replica in the order the owner sent them.
THEOREM OwnersNeverOwe == Spec => []OwnersOweNothing
<1>1. Spec => [](SourceInv /\ OwnerInv)
  BY OwnerInit, SourceStep, OwnerStep, PTL DEF Spec
<1>2. SourceInv /\ OwnerInv => OwnersOweNothing
  BY DEF OwnerInv, Tracked, OwnersOweNothing
<1> QED BY <1>1, <1>2, PTL

-----------------------------------------------------------------------------
(* What its owner puts and takes.                                          *)

\* The owner has what it has put and not taken.
Ledger(t) ==
    /\ taken[t] <= put[t]
    /\ \A o \in Rank : ~Bystander(o, t) => Far(o, t) + taken[t] = put[t]

LEMMA LedgerTypes ==
    ASSUME TypeOK, NEW t \in Tuple
    PROVE  put[t] \in Nat /\ taken[t] \in Nat
BY DEF TypeOK

\* What a main thread's step does to the ledger.
LEMMA MainLedger ==
    ASSUME SourceInv, NEW t \in Tuple, NEW a \in Rank, Main(a) \/ Wake(a)
    PROVE  /\ \A r \in Rank : r # a => Far(r, t)' = Far(r, t)
           /\ \/ UNCHANGED <<put[t], taken[t], Far(a, t)>>
              \/ /\ ~Bystander(a, t) /\ taken'[t] = taken[t]
                 /\ put'[t] = put[t] + 1 /\ Far(a, t)' = Far(a, t) + 1
              \/ /\ ~Bystander(a, t) /\ put'[t] = put[t]
                 /\ taken'[t] = taken[t] + 1 /\ Far(a, t) = Far(a, t)' + 1
                 /\ Far(a, t)' \in Nat
<1> USE DEF SourceInv, TypeInv
<1>0. space[a][t] \in Nat /\ put[t] \in Nat /\ taken[t] \in Nat
  BY CountTypes, LedgerTypes
<1>1. CASE OutBroadcast(a)
  <2>1. PICK u \in Tuple : /\ u = Head(script[a]).tuple /\ ~Bystander(a, u)
                           /\ put' = [put EXCEPT ![u] = @ + 1]
    BY <1>1, HeadCall, CallTypes, CallersAct DEF OutBroadcast, Calls
  <2>2. /\ UNCHANGED <<space, script, taken>> /\ main[a] = "ready"
        /\ main' = [main EXCEPT ![a] = "push"]
    BY <1>1 DEF OutBroadcast, Calls
  <2>3. \A r \in Rank : r # a => Far(r, t)' = Far(r, t)
    BY <2>2 DEF Far, Pushing, TypeOK
  <2>4. Pushing(a, t) = 0 /\ Pushing(a, t)' = IF u = t THEN 1 ELSE 0
    BY <2>1, <2>2 DEF Pushing, TypeOK
  <2>5. Far(a, t) = space[a][t] /\ Far(a, t)' = IF u = t THEN space[a][t] + 1 ELSE space[a][t]
    BY <1>0, <2>2, <2>4 DEF Far
  <2>6. put'[t] = IF u = t THEN put[t] + 1 ELSE put[t]
    BY <2>1 DEF TypeOK
  <2> QED BY <1>0, <2>1, <2>2, <2>3, <2>5, <2>6
<1>2. CASE Take(a)
  <2>1. PICK u \in Present(a) : /\ space' = [space EXCEPT ![a][u] = @ - 1]
                                /\ taken' = [taken EXCEPT ![u] = @ + 1]
    BY <1>2 DEF Take
  <2>2. u \in Tuple /\ ~Bystander(a, u) /\ space[a][u] > 0
    BY <1>2, HeadCall, CallTypes, CallersAct DEF Take, Calls, Present
  <2>3. UNCHANGED <<script, put>> /\ main[a] = "ready" /\ main' = [main EXCEPT ![a] = "takeAwait"]
    BY <1>2 DEF Take, Calls
  <2>4. space[a][u] - 1 \in Nat
    BY <2>2, CountTypes
  <2>5. \A q \in Rank : \A v \in Tuple :
          space'[q][v] = IF q = a /\ v = u THEN space[a][u] - 1 ELSE space[q][v]
    BY <2>1, <2>2, <2>4, SpaceChanges
  <2>6. \A r \in Rank : r # a => Far(r, t)' = Far(r, t)
    BY <2>3, <2>5 DEF Far, Pushing, TypeOK
  <2>7. Pushing(a, t) = 0 /\ Pushing(a, t)' = 0
    BY <2>3 DEF Pushing, TypeOK
  <2>8. Far(a, t) = space[a][t] /\ Far(a, t)' = IF u = t THEN space[a][t] - 1 ELSE space[a][t]
    BY <1>0, <2>4, <2>5, <2>7 DEF Far
  <2>9. taken'[t] = IF u = t THEN taken[t] + 1 ELSE taken[t]
    BY <2>1, <2>2 DEF TypeOK
  <2> QED BY <1>0, <2>2, <2>3, <2>4, <2>6, <2>8, <2>9
<1>3. CASE OutPush(a)
  <2>1. PICK u \in Tuple : u = Head(script[a]).tuple
    BY <1>3, HeadCall, CallTypes DEF OutPush, Fits
  <2>2. /\ UNCHANGED <<put, taken, script>> /\ main[a] = "push"
        /\ main' = [main EXCEPT ![a] = "outAwait"]
        /\ space' = [space EXCEPT ![a][u] = space[a][u] + 1]
    BY <1>3, <2>1 DEF OutPush
  <2>3. space[a][u] + 1 \in Nat
    BY CountTypes
  <2>4. \A q \in Rank : \A v \in Tuple :
          space'[q][v] = IF q = a /\ v = u THEN space[a][u] + 1 ELSE space[q][v]
    BY <2>2, <2>3, SpaceChanges
  <2>5. Pushing(a, t)' = 0 /\ Pushing(a, t) = IF u = t THEN 1 ELSE 0
    BY <2>1, <2>2 DEF Pushing, TypeOK
  <2>6. Far(a, t)' = Far(a, t)
    BY <1>0, <2>3, <2>4, <2>5 DEF Far
  <2>7. \A r \in Rank : r # a => Far(r, t)' = Far(r, t)
    BY <2>2, <2>4 DEF Far, Pushing, TypeOK
  <2> QED BY <2>2, <2>6, <2>7
<1>4. CASE \/ OutDropped(a) \/ OutReturn(a) \/ TakeReturn(a) \/ Look(a) \/ Sleep(a)
           \/ Wake(a) \/ Terminate(a) \/ Join(a) \/ Finalize(a)
  <2>1. UNCHANGED <<space, put, taken>>
    BY <1>4 DEF OutDropped, OutReturn, TakeReturn, Look, Sleep, Wake, Terminate, Join, Finalize
  <2>2. /\ main[a] # "push" /\ main'[a] # "push"
        /\ \A r \in Rank : r # a => main'[r] = main[r] /\ script'[r] = script[r]
    BY <1>4, NoPush
  <2> QED BY <2>1, <2>2 DEF Far, Pushing
<1> QED BY <1>1, <1>2, <1>3, <1>4 DEF Main

\* A receiver touches no tuple of its own rank's.
LEMMA ReceiverLedger ==
    ASSUME SourceInv, NEW t \in Tuple, OneOwner(t), NEW a \in Rank, Receiver(a)
    PROVE  /\ UNCHANGED <<put, taken>>
           /\ \A o \in Rank : ~Bystander(o, t) => Far(o, t)' = Far(o, t)
<1> USE DEF SourceInv, TypeInv
<1>1. UNCHANGED <<put, taken, main, script>>
  BY DEF Receiver, Receive, InsertDropped, InsertAdmitted, InsertPush, InsertIndexed, Delete, Owe
<1>2. ASSUME NEW o \in Rank, ~Bystander(o, t) PROVE space'[o][t] = space[o][t]
  <2>1. CASE UNCHANGED space
    BY <2>1
  <2>2. CASE InsertPush(a) \/ (Delete(a) /\ ~UNCHANGED space)
    <3>1. recv[a] \in Holding
      BY <2>2 DEF InsertPush, Delete, Holding
    <3>2. PICK u \in Tuple : u = hand[a].tuple
      BY <3>1 DEF Fits, Tupled
    <3>3. ~(o = a /\ u = t)
      BY <1>2, <3>1, <3>2 DEF Sourced, OneOwner
    <3>4. \E n \in Nat : space' = [space EXCEPT ![a][u] = n]
      <4>1. CASE InsertPush(a)
        <5>1. space[a][u] + 1 \in Nat /\ space' = [space EXCEPT ![a][u] = space[a][u] + 1]
          BY <3>2, <4>1, CountTypes DEF InsertPush
        <5> QED BY <5>1
      <4>2. CASE Delete(a) /\ ~UNCHANGED space
        <5>1. space[a][u] > 0 /\ space' = [space EXCEPT ![a][u] = space[a][u] - 1]
          BY <3>2, <4>2 DEF Delete
        <5>2. space[a][u] - 1 \in Nat
          BY <5>1, CountTypes
        <5> QED BY <5>1, <5>2
      <4> QED BY <2>2, <4>1, <4>2
    <3> QED BY <3>3, <3>4, SpaceChanges
  <2>3. \/ UNCHANGED space \/ InsertPush(a) \/ (Delete(a) /\ ~UNCHANGED space)
    BY DEF Receiver, Receive, InsertDropped, InsertAdmitted, InsertIndexed, Owe
  <2> QED BY <2>1, <2>2, <2>3
<1> QED BY <1>1, <1>2 DEF Far, Pushing

LEMMA LedgerStep ==
    ASSUME SourceInv, NEW t \in Tuple, OneOwner(t), Ledger(t), [Next]_vars
    PROVE  Ledger(t)'
<1>1. ASSUME UNCHANGED <<put[t], taken[t]>>,
             \A o \in Rank : ~Bystander(o, t) => Far(o, t)' = Far(o, t)
      PROVE  Ledger(t)'
  BY <1>1 DEF Ledger, Bystander, Puts, Takes, Makes
<1>2. ASSUME NEW a \in Rank, Main(a) \/ Wake(a) PROVE Ledger(t)'
  <2>1. CASE UNCHANGED <<put[t], taken[t], Far(a, t)>>
    BY <1>1, <1>2, <2>1, MainLedger
  <2>2. CASE ~Bystander(a, t)
    <3>1. \A o \in Rank : ~Bystander(o, t) => o = a
      BY <2>2 DEF OneOwner
    <3>2. put[t] \in Nat /\ taken[t] \in Nat /\ Far(a, t) \in Nat
      BY LedgerTypes, CountTypes DEF SourceInv, TypeInv
    <3>3. Far(a, t)' + taken'[t] = put'[t] /\ taken'[t] <= put'[t]
      <4>1. Far(a, t) + taken[t] = put[t]
        BY <2>2 DEF Ledger
      <4>2. \/ UNCHANGED <<put[t], taken[t], Far(a, t)>>
            \/ /\ taken'[t] = taken[t]
               /\ put'[t] = put[t] + 1 /\ Far(a, t)' = Far(a, t) + 1
            \/ /\ put'[t] = put[t]
               /\ taken'[t] = taken[t] + 1 /\ Far(a, t) = Far(a, t)' + 1
               /\ Far(a, t)' \in Nat
        BY <1>2, MainLedger
      <4>3. CASE taken'[t] = taken[t] /\ put'[t] = put[t] + 1 /\ Far(a, t)' = Far(a, t) + 1
        BY <3>2, <4>1, <4>3
      <4>4. CASE /\ put'[t] = put[t] /\ taken'[t] = taken[t] + 1
                 /\ Far(a, t) = Far(a, t)' + 1 /\ Far(a, t)' \in Nat
        BY <3>2, <4>1, <4>4
      <4>5. CASE UNCHANGED <<put[t], taken[t], Far(a, t)>>
        BY <3>2, <4>1, <4>5
      <4> QED BY <4>2, <4>3, <4>4, <4>5
    <3> QED BY <3>1, <3>3 DEF Ledger, Bystander, Puts, Takes, Makes
  <2> QED BY <1>2, <2>1, <2>2, MainLedger
<1>3. ASSUME NEW a \in Rank, Receiver(a) PROVE Ledger(t)'
  BY <1>1, <1>3, ReceiverLedger
<1>4. CASE UNCHANGED vars
  BY <1>1, <1>4 DEF vars, Far, Pushing
<1> QED BY <1>2, <1>3, <1>4 DEF Next

LEMMA LedgerInit == Init => \A t \in Tuple : Ledger(t)
BY DEF Init, Ledger, Far, Pushing

LEMMA LedgerAlways ==
    (\A t \in Tuple : OneOwner(t)) /\ Spec => [](\A t \in Tuple : Ledger(t))
<1>1. ASSUME \A t \in Tuple : OneOwner(t)
      PROVE  Spec => [](\A t \in Tuple : Ledger(t))
  <2>1. SourceInv /\ (\A t \in Tuple : Ledger(t)) /\ [Next]_vars
          => (\A t \in Tuple : Ledger(t))'
    BY <1>1, LedgerStep
  <2>2. Spec => []SourceInv
    BY OwnerInit, SourceStep, PTL DEF Spec
  <2> QED BY <2>1, <2>2, LedgerInit, PTL DEF Spec
<1> QED BY <1>1

\* Where each tuple is put and taken by one rank alone, it is taken no more
\* often than it was put, in whatever states the replicas are: the double take
\* takes a second rank.
THEOREM OwnersTakeOnce == (\A t \in Tuple : OneOwner(t)) /\ Spec => []TakenOnce
<1>1. (\A t \in Tuple : Ledger(t)) => TakenOnce
  BY DEF Ledger, TakenOnce
<1> QED BY <1>1, LedgerAlways, PTL

-----------------------------------------------------------------------------
(* What a bystander holds.                                                 *)

Is(m, tag, t) == m.tag = tag /\ m.tuple = t
One(m, tag, t) == IF Is(m, tag, t) THEN 1 ELSE 0

\* The messages of this kind about t in the channels c to one rank.
Places(c, tag, t) ==
    {p \in Rank \X Nat : p[2] \in 1 .. Len(c[p[1]]) /\ Is(c[p[1]][p[2]], tag, t)}

Channels(r) == [q \in Rank |-> net[q][r]]

LEMMA SentPlaces ==
    ASSUME TypeOK, TypeOK', NEW r \in Rank, NEW tag, NEW t
    PROVE  /\ Channels(r) \in [Rank -> Seq(Message)] /\ Channels(r)' \in [Rank -> Seq(Message)]
           /\ Sent(r, tag, t) = Places(Channels(r), tag, t)
           /\ Sent(r, tag, t)' = Places(Channels(r)', tag, t)
<1>1. \A q \in Rank : net[q][r] \in Seq(Message) /\ net'[q][r] \in Seq(Message)
  BY DEF TypeOK
<1>2. \A q \in Rank : /\ DOMAIN net[q][r] = 1 .. Len(net[q][r])
                      /\ DOMAIN net'[q][r] = 1 .. Len(net'[q][r])
                      /\ Len(net[q][r]) \in Nat /\ Len(net'[q][r]) \in Nat
  BY <1>1, LenProperties
<1>3. Sent(r, tag, t) = Places(Channels(r), tag, t)
  BY <1>2 DEF Sent, Places, Channels, Is
<1>4. Sent(r, tag, t)' = Places(Channels(r)', tag, t)
  BY <1>2 DEF Sent, Places, Channels, Is
<1> QED BY <1>1, <1>3, <1>4 DEF Channels

\* A message more, or less, in the channel of a.
Longer(c, d, a, m) == d[a] = Append(c[a], m) /\ \A q \in Rank \ {a} : d[q] = c[q]
Shorter(c, d, a) == c[a] # <<>> /\ d[a] = Tail(c[a]) /\ \A q \in Rank \ {a} : d[q] = c[q]

LEMMA PlacesMore ==
    ASSUME NEW c \in [Rank -> Seq(Message)], NEW a \in Rank, NEW m \in Message,
           NEW d, Longer(c, d, a, m), NEW tag, NEW t,
           IsFiniteSet(Places(c, tag, t))
    PROVE  /\ IsFiniteSet(Places(d, tag, t))
           /\ Cardinality(Places(d, tag, t)) = Cardinality(Places(c, tag, t)) + One(m, tag, t)
<1> DEFINE n == Len(c[a])
           new == <<a, n + 1>>
<1>1. /\ n \in Nat /\ Len(d[a]) = n + 1
      /\ \A i \in 1 .. n : d[a][i] = c[a][i]
      /\ d[a][n + 1] = m
  <2>1. c[a] \in Seq(Message) /\ d[a] = Append(c[a], m)
    BY DEF Longer
  <2> QED BY <2>1, Appended
<1>2. \A q \in Rank \ {a} : d[q] = c[q]
  BY DEF Longer
<1> HIDE DEF n
<1>3. new \notin Places(c, tag, t)
  BY <1>1 DEF Places, n
<1>4. ASSUME NEW p \in Rank \X Nat
      PROVE  p \in Places(d, tag, t) <=> p \in Places(c, tag, t) \/ (p = new /\ Is(m, tag, t))
  <2>1. CASE p[1] = a
    BY <1>1, <2>1 DEF Places, n
  <2>2. CASE p[1] # a
    BY <1>2, <2>2 DEF Places
  <2> QED BY <2>1, <2>2
<1>5. new \in Rank \X Nat /\ Places(c, tag, t) \subseteq Rank \X Nat
      /\ Places(d, tag, t) \subseteq Rank \X Nat
  BY <1>1 DEF Places
<1> HIDE DEF new
<1>6. Places(d, tag, t) =
        IF Is(m, tag, t) THEN Places(c, tag, t) \cup {new} ELSE Places(c, tag, t)
  BY <1>4, <1>5
<1>7. Cardinality(Places(c, tag, t)) \in Nat
  BY FS_CardinalityType
<1>8. /\ IsFiniteSet(Places(c, tag, t) \cup {new})
      /\ Cardinality(Places(c, tag, t) \cup {new}) = Cardinality(Places(c, tag, t)) + 1
  BY <1>3, FS_AddElement
<1> QED BY <1>6, <1>7, <1>8 DEF One

LEMMA PlacesLess ==
    ASSUME NEW c \in [Rank -> Seq(Message)], NEW a \in Rank,
           NEW d, Shorter(c, d, a), NEW tag, NEW t,
           IsFiniteSet(Places(c, tag, t))
    PROVE  /\ IsFiniteSet(Places(d, tag, t))
           /\ Cardinality(Places(c, tag, t)) =
                 Cardinality(Places(d, tag, t)) + One(Head(c[a]), tag, t)
<1> DEFINE n == Len(c[a])
           old == <<a, 1>>
           rest == Places(c, tag, t) \ {old}
           f == [p \in rest |-> IF p[1] = a THEN <<a, p[2] - 1>> ELSE p]
<1>0. c[a] # <<>>
  BY DEF Shorter
<1>1. /\ n \in Nat /\ Len(d[a]) = n - 1 /\ 1 \in 1 .. n
      /\ Head(c[a]) = c[a][1]
      /\ \A i \in 1 .. n - 1 : i + 1 \in 1 .. n /\ d[a][i] = c[a][i + 1]
  <2>1. c[a] \in Seq(Message) /\ d[a] = Tail(c[a])
    BY DEF Shorter
  <2> QED BY <1>0, <2>1, Shifted
<1>2. \A q \in Rank \ {a} : d[q] = c[q]
  BY DEF Shorter
<1> HIDE DEF n
<1>3. old \in Places(c, tag, t) <=> Is(Head(c[a]), tag, t)
  BY <1>1 DEF Places, n
<1>4. IsFiniteSet(rest) /\ Cardinality(Places(c, tag, t)) \in Nat
      /\ Cardinality(Places(c, tag, t)) = Cardinality(rest) + One(Head(c[a]), tag, t)
  <2>1. /\ IsFiniteSet(rest)
        /\ Cardinality(rest) = IF old \in Places(c, tag, t)
                               THEN Cardinality(Places(c, tag, t)) - 1
                               ELSE Cardinality(Places(c, tag, t))
    BY FS_RemoveElement
  <2>2. Cardinality(Places(c, tag, t)) \in Nat
    BY FS_CardinalityType
  <2> QED BY <1>3, <2>1, <2>2 DEF One
<1>5. ASSUME NEW p \in rest PROVE f[p] \in Places(d, tag, t)
  <2>1. p \in Rank \X Nat /\ p[2] \in 1 .. Len(c[p[1]]) /\ Is(c[p[1]][p[2]], tag, t) /\ p # old
    BY DEF Places
  <2>2. CASE p[1] = a
    <3>1. p[2] \in 1 .. n /\ p[2] # 1
      BY <2>1, <2>2 DEF n
    <3>2. p[2] - 1 \in 1 .. n - 1 /\ (p[2] - 1) + 1 = p[2]
      BY <1>1, <3>1
    <3>3. d[a][p[2] - 1] = c[a][p[2]] /\ p[2] - 1 \in 1 .. Len(d[a]) /\ p[2] - 1 \in Nat
      BY <1>1, <3>2
    <3>4. f[p] = <<a, p[2] - 1>>
      BY <2>2
    <3> HIDE DEF f
    <3> QED BY <2>1, <2>2, <3>3, <3>4 DEF Places
  <2>3. CASE p[1] # a
    <3>1. f[p] = p
      BY <2>3
    <3> HIDE DEF f
    <3> QED BY <1>2, <2>1, <2>3, <3>1 DEF Places
  <2> QED BY <2>2, <2>3
<1>6. ASSUME NEW p \in rest, NEW q \in rest, f[p] = f[q] PROVE p = q
  <2>1. p \in Rank \X Nat /\ q \in Rank \X Nat
    BY DEF Places
  <2> QED BY <1>6, <2>1
<1>7. ASSUME NEW q \in Places(d, tag, t) PROVE \E p \in rest : f[p] = q
  <2>1. q \in Rank \X Nat /\ q[2] \in 1 .. Len(d[q[1]]) /\ Is(d[q[1]][q[2]], tag, t)
    BY DEF Places
  <2>2. CASE q[1] = a
    <3>1. q[2] \in 1 .. n - 1
      BY <1>1, <2>1, <2>2
    <3>2. q[2] + 1 \in 1 .. n /\ d[a][q[2]] = c[a][q[2] + 1] /\ q[2] + 1 # 1
          /\ q[2] + 1 \in Nat /\ (q[2] + 1) - 1 = q[2]
      BY <1>1, <3>1
    <3>3. <<a, q[2] + 1>> \in rest
      BY <2>1, <2>2, <3>2 DEF Places, n
    <3>4. f[<<a, q[2] + 1>>] = <<a, q[2]>> /\ q = <<a, q[2]>>
      BY <2>1, <2>2, <3>2, <3>3
    <3> QED BY <3>3, <3>4
  <2>3. CASE q[1] # a
    <3>1. q \in rest
      BY <1>2, <2>1, <2>3 DEF Places
    <3>2. f[q] = q
      BY <2>3, <3>1
    <3> QED BY <3>1, <3>2
  <2> QED BY <2>2, <2>3
<1>8. f \in Bijection(rest, Places(d, tag, t))
  <2>1. f \in [rest -> Places(d, tag, t)]
    <3> HIDE DEF rest
    <3> QED BY <1>5
  <2> HIDE DEF f, rest
  <2> QED BY <1>6, <1>7, <2>1, Fun_IsBij
<1>9. IsFiniteSet(Places(d, tag, t)) /\ Cardinality(Places(d, tag, t)) = Cardinality(rest)
  <2> HIDE DEF f, rest
  <2>1. ExistsBijection(rest, Places(d, tag, t))
    BY <1>8, Fun_ExistsBij
  <2> QED BY <1>4, <2>1, FS_Bijection
<1> QED BY <1>4, <1>9

\* What a step does to the messages on their way to r.
LEMMA SentStill ==
    ASSUME TypeOK, TypeOK', NEW r \in Rank, NEW tag, NEW t,
           \A q \in Rank : net'[q][r] = net[q][r]
    PROVE  Sent(r, tag, t)' = Sent(r, tag, t)
<1>1. Channels(r)' = Channels(r)
  BY DEF Channels
<1> QED BY <1>1, SentPlaces

LEMMA SentAppended ==
    ASSUME TypeOK, TypeOK', NEW r \in Rank, NEW tag, NEW t, NEW a \in Rank, NEW m \in Message,
           \A q \in Rank : net'[q][r] = IF q = a THEN Append(net[q][r], m) ELSE net[q][r],
           IsFiniteSet(Sent(r, tag, t))
    PROVE  /\ IsFiniteSet(Sent(r, tag, t)')
           /\ Cardinality(Sent(r, tag, t)') = Cardinality(Sent(r, tag, t)) + One(m, tag, t)
<1>1. Channels(r)'[a] = Append(Channels(r)[a], m) /\ \A q \in Rank \ {a} : Channels(r)'[q] = Channels(r)[q]
  BY DEF Channels
<1>2. PICK c \in [Rank -> Seq(Message)] :
        c = Channels(r) /\ Sent(r, tag, t) = Places(c, tag, t)
  BY SentPlaces
<1>3. PICK d : d = Channels(r)' /\ Sent(r, tag, t)' = Places(d, tag, t)
  BY SentPlaces
<1>4. Longer(c, d, a, m) /\ IsFiniteSet(Places(c, tag, t))
  BY <1>1, <1>2, <1>3 DEF Longer
<1>5. /\ IsFiniteSet(Places(d, tag, t))
      /\ Cardinality(Places(d, tag, t)) = Cardinality(Places(c, tag, t)) + One(m, tag, t)
  BY <1>4, PlacesMore
<1> QED BY <1>2, <1>3, <1>5

LEMMA SentReceived ==
    ASSUME TypeOK, TypeOK', NEW r \in Rank, NEW tag, NEW t, NEW a \in Rank, net[a][r] # <<>>,
           \A q \in Rank : net'[q][r] = IF q = a THEN Tail(net[q][r]) ELSE net[q][r],
           IsFiniteSet(Sent(r, tag, t))
    PROVE  /\ IsFiniteSet(Sent(r, tag, t)')
           /\ Cardinality(Sent(r, tag, t)) =
                 Cardinality(Sent(r, tag, t)') + One(Head(net[a][r]), tag, t)
<1>1. /\ Channels(r)'[a] = Tail(Channels(r)[a]) /\ Channels(r)[a] = net[a][r]
      /\ \A q \in Rank \ {a} : Channels(r)'[q] = Channels(r)[q]
  BY DEF Channels
<1>2. PICK c \in [Rank -> Seq(Message)] :
        c = Channels(r) /\ Sent(r, tag, t) = Places(c, tag, t)
  BY SentPlaces
<1>3. PICK d : d = Channels(r)' /\ Sent(r, tag, t)' = Places(d, tag, t)
  BY SentPlaces
<1>4. Shorter(c, d, a) /\ c[a] = net[a][r] /\ IsFiniteSet(Places(c, tag, t))
  BY <1>1, <1>2, <1>3 DEF Shorter
<1>5. /\ IsFiniteSet(Places(d, tag, t))
      /\ Cardinality(Places(c, tag, t)) =
            Cardinality(Places(d, tag, t)) + One(Head(c[a]), tag, t)
  BY <1>4, PlacesLess
<1> QED BY <1>2, <1>3, <1>4, <1>5

Inserts(r, t) == Underway(r, "INSERT", {"insert", "push"}, t)
Deletes(r, t) == Underway(r, "DELETE", {"delete", "owe"}, t)
Debt(r, t) == IF t \in owed[r] THEN 1 ELSE 0

\* No more is due than has been taken; and what r holds, with what is on its
\* way, is what has been put and not taken, or more if there were debts enough.
Books(r, t) ==
    /\ Deletes(r, t) + Debt(r, t) <= taken[t]
    /\ put[t] + Deletes(r, t) + Debt(r, t) <= space[r][t] + Inserts(r, t) + taken[t]
    /\ taken[t] <= 1 \/ OneOwner(t) =>
          space[r][t] + Inserts(r, t) + taken[t] = put[t] + Deletes(r, t) + Debt(r, t)

AllFinite(r, t) == \A tag \in {"INSERT", "DELETE"} : IsFiniteSet(Sent(r, tag, t))

LEMMA BooksTypes ==
    ASSUME TypeOK, NEW r \in Rank, NEW t \in Tuple, AllFinite(r, t)
    PROVE  /\ space[r][t] \in Nat /\ put[t] \in Nat /\ taken[t] \in Nat
           /\ Inserts(r, t) \in Nat /\ Deletes(r, t) \in Nat /\ Debt(r, t) \in {0, 1}
<1>1. \A tag \in {"INSERT", "DELETE"} : Cardinality(Sent(r, tag, t)) \in Nat
  BY FS_CardinalityType DEF AllFinite
<1> QED BY <1>1 DEF TypeOK, Inserts, Deletes, Debt, Underway

\* What a step may do to the counts of r and t: nothing; an out or a take
\* elsewhere; the receiver of r drops an insert against a debt, applies an
\* insert, applies a delete, notes a debt, or notes it where there is one.
Moves(r, t) ==
    LET s == space[r][t]    i == Inserts(r, t)   d == Deletes(r, t)   o == Debt(r, t)
    IN  \/ UNCHANGED <<s, i, d, o, put[t], taken[t]>>
        \/ UNCHANGED <<s, d, o, taken[t]>> /\ i' = i + 1 /\ put'[t] = put[t] + 1
        \/ UNCHANGED <<s, i, o, put[t]>> /\ d' = d + 1 /\ taken'[t] = taken[t] + 1
        \/ UNCHANGED <<s, d, put[t], taken[t]>> /\ i = i' + 1 /\ o = o' + 1
        \/ UNCHANGED <<d, o, put[t], taken[t]>> /\ i = i' + 1 /\ s' = s + 1
        \/ UNCHANGED <<i, o, put[t], taken[t]>> /\ d = d' + 1 /\ s = s' + 1
        \/ UNCHANGED <<s, i, put[t], taken[t]>> /\ d = d' + 1 /\ o' = o + 1
        \/ UNCHANGED <<s, i, o, put[t], taken[t]>> /\ d = d' + 1 /\ o = 1 /\ ~OneOwner(t)

LEMMA MovesKeepBooks ==
    ASSUME TypeOK, TypeOK', NEW r \in Rank, NEW t \in Tuple, AllFinite(r, t), AllFinite(r, t)',
           Books(r, t), Moves(r, t)
    PROVE  Books(r, t)'
<1>1. /\ space[r][t] \in Nat /\ put[t] \in Nat /\ taken[t] \in Nat
      /\ Inserts(r, t) \in Nat /\ Deletes(r, t) \in Nat /\ Debt(r, t) \in {0, 1}
  BY BooksTypes
<1>2. /\ space'[r][t] \in Nat /\ put'[t] \in Nat /\ taken'[t] \in Nat
      /\ Inserts(r, t)' \in Nat /\ Deletes(r, t)' \in Nat /\ Debt(r, t)' \in {0, 1}
  <2>1. \A tag \in {"INSERT", "DELETE"} : Cardinality(Sent(r, tag, t)') \in Nat
    BY FS_CardinalityType DEF AllFinite
  <2> QED BY <2>1 DEF TypeOK, Inserts, Deletes, Debt, Underway
<1>3. OneOwner(t)' <=> OneOwner(t)
  BY DEF OneOwner, Bystander, Puts, Takes, Makes
<1> QED BY <1>1, <1>2, <1>3 DEF Books, Moves

\* Nothing that concerns r and t happens.
LEMMA StillMoves ==
    ASSUME TypeOK, TypeOK', NEW r \in Rank, NEW t \in Tuple, AllFinite(r, t),
           \A q \in Rank : net'[q][r] = net[q][r],
           recv'[r] = recv[r], hand'[r] = hand[r], space'[r][t] = space[r][t],
           t \in owed'[r] <=> t \in owed[r], put'[t] = put[t], taken'[t] = taken[t]
    PROVE  AllFinite(r, t)' /\ Moves(r, t)
<1>1. \A tag \in {"INSERT", "DELETE"} : Sent(r, tag, t)' = Sent(r, tag, t)
  BY SentStill
<1>2. AllFinite(r, t)'
  BY <1>1 DEF AllFinite
<1>3. Inserts(r, t)' = Inserts(r, t) /\ Deletes(r, t)' = Deletes(r, t)
  BY <1>1 DEF Inserts, Deletes, Underway
<1>4. Debt(r, t)' = Debt(r, t)
  BY DEF Debt
<1> QED BY <1>2, <1>3, <1>4 DEF Moves

\* Another rank sends a message.
LEMMA SendMoves ==
    ASSUME TypeOK, TypeOK', NEW r \in Rank, NEW t \in Tuple, AllFinite(r, t), Bystander(r, t),
           NEW a \in Rank, NEW tag \in {"INSERT", "DELETE"}, NEW u \in Tuple, ~Bystander(a, u),
           Broadcast(a, tag, u), UNCHANGED <<recv, hand, owed>>,
           space'[r][t] = space[r][t],
           put'[t] = IF tag = "INSERT" /\ u = t THEN put[t] + 1 ELSE put[t],
           taken'[t] = IF tag = "DELETE" /\ u = t THEN taken[t] + 1 ELSE taken[t]
    PROVE  AllFinite(r, t)' /\ Moves(r, t)
<1>1. PICK m \in Message :
        /\ m = [tag |-> tag, tuple |-> u]
        /\ \A q, s \in Rank :
              net'[q][s] = IF q = a /\ s # a THEN Append(net[q][s], m) ELSE net[q][s]
  BY Broadcasted
<1>2. CASE r = a
  <2>1. \A q \in Rank : net'[q][r] = net[q][r]
    BY <1>1, <1>2
  <2>2. u # t
    BY <1>2
  <2> QED BY <2>1, <2>2, StillMoves
<1>3. CASE r # a
  <2>1. \A q \in Rank : net'[q][r] = IF q = a THEN Append(net[q][r], m) ELSE net[q][r]
    BY <1>1, <1>3
  <2>2. \A k \in {"INSERT", "DELETE"} :
          /\ IsFiniteSet(Sent(r, k, t)')
          /\ Cardinality(Sent(r, k, t)') = Cardinality(Sent(r, k, t)) + One(m, k, t)
    BY <2>1, SentAppended DEF AllFinite
  <2>3. \A k : One(m, k, t) = IF k = tag /\ u = t THEN 1 ELSE 0
    BY <1>1 DEF One, Is
  <2>4. \A k \in {"INSERT", "DELETE"} : Cardinality(Sent(r, k, t)) \in Nat
    BY FS_CardinalityType DEF AllFinite
  <2>5. /\ Inserts(r, t)' = IF tag = "INSERT" /\ u = t THEN Inserts(r, t) + 1 ELSE Inserts(r, t)
        /\ Deletes(r, t)' = IF tag = "DELETE" /\ u = t THEN Deletes(r, t) + 1 ELSE Deletes(r, t)
    BY <2>2, <2>3, <2>4 DEF Inserts, Deletes, Underway
  <2>6. Debt(r, t)' = Debt(r, t)
    BY DEF Debt
  <2> QED BY <2>2, <2>5, <2>6 DEF AllFinite, Moves
<1> QED BY <1>2, <1>3

LEMMA MainMoves ==
    ASSUME SourceInv, SourceInv', NEW r \in Rank, NEW t \in Tuple, AllFinite(r, t),
           Bystander(r, t), NEW a \in Rank, Main(a) \/ Wake(a)
    PROVE  AllFinite(r, t)' /\ Moves(r, t)
<1> USE DEF SourceInv, TypeInv
<1>1. CASE OutBroadcast(a)
  <2>1. PICK u \in Tuple : /\ u = Head(script[a]).tuple /\ ~Bystander(a, u)
                           /\ Broadcast(a, "INSERT", u) /\ put' = [put EXCEPT ![u] = @ + 1]
    BY <1>1, HeadCall, CallTypes, CallersAct DEF OutBroadcast, Calls
  <2>2. UNCHANGED <<space, owed, recv, hand, taken>>
    BY <1>1 DEF OutBroadcast
  <2>3. put'[t] = IF u = t THEN put[t] + 1 ELSE put[t]
    BY <2>1 DEF TypeOK
  <2> QED BY <2>1, <2>2, <2>3, SendMoves
<1>2. CASE Take(a)
  <2>1. PICK u \in Present(a) : /\ space' = [space EXCEPT ![a][u] = @ - 1]
                                /\ taken' = [taken EXCEPT ![u] = @ + 1]
                                /\ Broadcast(a, "DELETE", u)
    BY <1>2 DEF Take
  <2>2. u \in Tuple /\ ~Bystander(a, u) /\ space[a][u] > 0
    BY <1>2, <2>1, HeadCall, CallTypes, CallersAct DEF Take, Calls, Present
  <2>3. UNCHANGED <<owed, recv, hand, put>>
    BY <1>2 DEF Take
  <2>4. space[a][u] - 1 \in Nat
    BY <2>2, CountTypes
  <2>5. space'[r][t] = space[r][t]
    <3>1. ~(r = a /\ t = u)
      BY <2>2
    <3> QED BY <2>1, <2>2, <2>4, <3>1, SpaceChanges
  <2>6. taken'[t] = IF u = t THEN taken[t] + 1 ELSE taken[t]
    BY <2>1, <2>2 DEF TypeOK
  <2> QED BY <2>1, <2>2, <2>3, <2>5, <2>6, SendMoves
<1>3. CASE OutPush(a)
  <2>1. PICK u \in Tuple : u = Head(script[a]).tuple /\ ~Bystander(a, u)
    BY <1>3, HeadCall, CallTypes, CallersAct DEF OutPush, Fits
  <2>2. /\ UNCHANGED <<owed, net, recv, hand, put, taken>>
        /\ space' = [space EXCEPT ![a][u] = space[a][u] + 1]
    BY <1>3, <2>1 DEF OutPush
  <2>3. space[a][u] + 1 \in Nat
    BY CountTypes
  <2>4. space'[r][t] = space[r][t]
    <3>1. ~(r = a /\ t = u)
      BY <2>1
    <3> QED BY <2>2, <2>3, <3>1, SpaceChanges
  <2> QED BY <2>2, <2>4, StillMoves
<1>4. CASE OutDropped(a)
  <2>1. PICK u \in Tuple : u = Head(script[a]).tuple /\ ~Bystander(a, u)
    BY <1>4, HeadCall, CallTypes, CallersAct DEF OutDropped, Calls
  <2>2. /\ UNCHANGED <<space, net, recv, hand, put, taken>>
        /\ owed' = [owed EXCEPT ![a] = @ \ {u}]
    BY <1>4, <2>1 DEF OutDropped
  <2>3. t \in owed'[r] <=> t \in owed[r]
    BY <2>1, <2>2 DEF TypeOK
  <2> QED BY <2>2, <2>3, StillMoves
<1>5. CASE Terminate(a)
  <2>1. PICK m \in Message : m = [tag |-> "TERMINATE"]
    BY DEF Message
  <2>2. /\ UNCHANGED <<space, owed, recv, hand, put, taken>>
        /\ net' = [net EXCEPT ![a][a] = Append(@, m)]
    BY <1>5, <2>1 DEF Terminate
  <2>3. CASE r = a
    <3>1. \A q \in Rank : net'[q][r] = IF q = a THEN Append(net[q][r], m) ELSE net[q][r]
      BY <2>2, <2>3 DEF TypeOK
    <3>2. \A k \in {"INSERT", "DELETE"} : One(m, k, t) = 0
      BY <2>1 DEF One, Is
    <3>3. \A k \in {"INSERT", "DELETE"} :
            /\ IsFiniteSet(Sent(r, k, t)')
            /\ Cardinality(Sent(r, k, t)') = Cardinality(Sent(r, k, t)) + One(m, k, t)
      BY <3>1, SentAppended DEF AllFinite
    <3>4. \A k \in {"INSERT", "DELETE"} : Cardinality(Sent(r, k, t)) \in Nat
      BY FS_CardinalityType DEF AllFinite
    <3>5. Inserts(r, t)' = Inserts(r, t) /\ Deletes(r, t)' = Deletes(r, t)
      BY <2>2, <3>2, <3>3, <3>4 DEF Inserts, Deletes, Underway
    <3>6. Debt(r, t)' = Debt(r, t)
      BY <2>2 DEF Debt
    <3> QED BY <2>2, <3>3, <3>5, <3>6 DEF AllFinite, Moves
  <2>4. CASE r # a
    <3>1. \A q \in Rank : net'[q][r] = net[q][r]
      BY <2>2, <2>4 DEF TypeOK
    <3> QED BY <2>2, <3>1, StillMoves
  <2> QED BY <2>3, <2>4
<1>6. CASE \/ OutReturn(a) \/ TakeReturn(a) \/ Look(a) \/ Sleep(a) \/ Wake(a)
           \/ Join(a) \/ Finalize(a)
  <2>1. UNCHANGED <<space, owed, net, recv, hand, put, taken>>
    BY <1>6 DEF OutReturn, TakeReturn, Look, Sleep, Wake, Join, Finalize
  <2> QED BY <2>1, StillMoves
<1> QED BY <1>1, <1>2, <1>3, <1>4, <1>5, <1>6 DEF Main

Going(r, t) == IF recv[r] \in {"delete", "owe"} /\ hand[r].tuple = t THEN 1 ELSE 0

\* The receiver goes on with the message in its hand.
LEMMA HandMoves ==
    ASSUME TypeOK, TypeOK', NEW r \in Rank, NEW t \in Tuple, AllFinite(r, t),
           \A q \in Rank : net'[q][r] = net[q][r]
    PROVE  /\ AllFinite(r, t)'
           /\ Inserts(r, t) \in Nat /\ Inserts(r, t)' = Inserts(r, t) - Arriving(r, t) + Arriving(r, t)'
           /\ Deletes(r, t) \in Nat /\ Deletes(r, t)' = Deletes(r, t) - Going(r, t) + Going(r, t)'
           /\ Arriving(r, t) \in {0, 1} /\ Arriving(r, t)' \in {0, 1}
           /\ Going(r, t) \in {0, 1} /\ Going(r, t)' \in {0, 1}
<1>1. \A tag \in {"INSERT", "DELETE"} :
        Sent(r, tag, t)' = Sent(r, tag, t) /\ Cardinality(Sent(r, tag, t)) \in Nat
  BY SentStill, FS_CardinalityType DEF AllFinite
<1>2. AllFinite(r, t)'
  BY <1>1 DEF AllFinite
<1> QED BY <1>1, <1>2 DEF Inserts, Deletes, Underway, Arriving, Going

LEMMA ReceiveMoves ==
    ASSUME SourceInv, SourceInv', NEW r \in Rank, NEW t \in Tuple, AllFinite(r, t), Receive(r)
    PROVE  AllFinite(r, t)' /\ Moves(r, t)
<1> USE DEF SourceInv, TypeInv
<1> DEFINE there == [INSERT |-> "insert", DELETE |-> "delete", TERMINATE |-> "ended"]
<1>1. PICK s \in Rank :
        /\ net[s][r] # <<>>
        /\ recv' = [recv EXCEPT ![r] = there[Head(net[s][r]).tag]]
        /\ hand' = [hand EXCEPT ![r] = Head(net[s][r])]
        /\ net' = [net EXCEPT ![s][r] = Tail(@)]
  BY DEF Receive
<1>2. PICK m \in Message : m = Head(net[s][r])
  <2>1. net[s][r] \in Seq(Message)
    BY DEF TypeOK
  <2> QED BY <1>1, <2>1, Shifted
<1>3. \A q \in Rank : net'[q][r] = IF q = s THEN Tail(net[q][r]) ELSE net[q][r]
  BY <1>1 DEF TypeOK
<1>4. \A k \in {"INSERT", "DELETE"} :
        /\ IsFiniteSet(Sent(r, k, t)')
        /\ Cardinality(Sent(r, k, t)) = Cardinality(Sent(r, k, t)') + One(m, k, t)
  BY <1>1, <1>2, <1>3, SentReceived DEF AllFinite
<1>5. \A k \in {"INSERT", "DELETE"} : Cardinality(Sent(r, k, t)') \in Nat
  BY <1>4, FS_CardinalityType
<1>6. recv[r] = "probe" /\ recv'[r] = there[m.tag] /\ hand'[r] = m
  <2>1. r \in DOMAIN recv /\ r \in DOMAIN hand
    BY DEF TypeOK
  <2>2. recv'[r] = there[Head(net[s][r]).tag] /\ hand'[r] = Head(net[s][r])
    <3> HIDE DEF there, SourceInv
    <3> QED BY <1>1, <2>1
  <2>3. recv[r] = "probe"
    BY DEF Receive
  <2> HIDE DEF there, SourceInv
  <2> QED BY <1>2, <2>2, <2>3
<1>7. Arriving(r, t) = 0 /\ Going(r, t) = 0
  BY <1>6 DEF Arriving, Going
<1>8. Arriving(r, t)' = One(m, "INSERT", t) /\ Going(r, t)' = One(m, "DELETE", t)
  <2>1. m.tag \in {"INSERT", "DELETE", "TERMINATE"}
    BY DEF Message
  <2>2. /\ m.tag = "INSERT" => recv'[r] = "insert"
        /\ m.tag = "DELETE" => recv'[r] = "delete"
        /\ m.tag = "TERMINATE" => recv'[r] = "ended"
    BY <1>6
  <2> QED BY <1>6, <2>1, <2>2 DEF Arriving, Going, One, Is
<1>9. Inserts(r, t)' = Inserts(r, t) /\ Deletes(r, t)' = Deletes(r, t)
  <2>1. /\ Inserts(r, t) = Cardinality(Sent(r, "INSERT", t)) + Arriving(r, t)
        /\ Deletes(r, t) = Cardinality(Sent(r, "DELETE", t)) + Going(r, t)
    BY DEF Inserts, Deletes, Underway, Arriving, Going
  <2>2. /\ Inserts(r, t)' = Cardinality(Sent(r, "INSERT", t)') + Arriving(r, t)'
        /\ Deletes(r, t)' = Cardinality(Sent(r, "DELETE", t)') + Going(r, t)'
    BY DEF Inserts, Deletes, Underway, Arriving, Going
  <2>3. One(m, "INSERT", t) \in {0, 1} /\ One(m, "DELETE", t) \in {0, 1}
    BY DEF One
  <2> QED BY <1>4, <1>5, <1>7, <1>8, <2>1, <2>2, <2>3
<1>10. UNCHANGED <<space, owed, put, taken>>
  BY DEF Receive
<1>11. Debt(r, t)' = Debt(r, t)
  BY <1>10 DEF Debt
<1> QED BY <1>4, <1>9, <1>10, <1>11 DEF AllFinite, Moves

LEMMA ReceiverMoves ==
    ASSUME SourceInv, SourceInv', OwnerInv, NEW r \in Rank, NEW t \in Tuple, AllFinite(r, t),
           Receiver(r)
    PROVE  AllFinite(r, t)' /\ Moves(r, t)
<1> USE DEF SourceInv, TypeInv
<1>0. CASE Receive(r)
  BY <1>0, ReceiveMoves
<1>1. ASSUME ~Receive(r) PROVE UNCHANGED <<net, put, taken>>
  BY <1>1 DEF Receiver, InsertDropped, InsertAdmitted, InsertPush, InsertIndexed, Delete, Owe
<1>2. ASSUME ~Receive(r)
      PROVE  /\ AllFinite(r, t)'
             /\ Inserts(r, t) \in Nat /\ Inserts(r, t)' = Inserts(r, t) - Arriving(r, t) + Arriving(r, t)'
             /\ Deletes(r, t) \in Nat /\ Deletes(r, t)' = Deletes(r, t) - Going(r, t) + Going(r, t)'
             /\ Arriving(r, t) \in {0, 1} /\ Arriving(r, t)' \in {0, 1}
             /\ Going(r, t) \in {0, 1} /\ Going(r, t)' \in {0, 1}
  <2>1. \A q \in Rank : net'[q][r] = net[q][r]
    BY <1>1, <1>2
  <2>2. TypeOK /\ TypeOK'
    OBVIOUS
  <2> QED BY <2>1, <2>2, HandMoves
<1>3. recv'[r] = "probe" => Arriving(r, t)' = 0 /\ Going(r, t)' = 0
  BY DEF Arriving, Going
<1>4. Done(r) => recv'[r] = "probe"
  BY DEF Done, TypeOK
<1>5. ASSUME NEW there, Go(r, there) PROVE recv'[r] = there /\ hand'[r] = hand[r]
  BY <1>5 DEF Go, TypeOK
<1>6. UNCHANGED owed => Debt(r, t)' = Debt(r, t)
  BY DEF Debt
<1>7. UNCHANGED space => space'[r][t] = space[r][t]
  OBVIOUS
<1>8. CASE InsertDropped(r)
  <2>1. ~Receive(r) /\ UNCHANGED space /\ recv[r] = "insert" /\ recv'[r] = "probe"
    BY <1>4, <1>8 DEF InsertDropped, Receive
  <2>2. Going(r, t) = 0 /\ Arriving(r, t) = IF hand[r].tuple = t THEN 1 ELSE 0
    BY <2>1 DEF Arriving, Going
  <2>3. /\ Debt(r, t) \in {0, 1} /\ Debt(r, t)' \in {0, 1}
        /\ hand[r].tuple = t => Debt(r, t) = 1 /\ Debt(r, t)' = 0
        /\ hand[r].tuple # t => Debt(r, t) = Debt(r, t)'
    BY <1>8 DEF InsertDropped, Debt, TypeOK
  <2> QED BY <1>1, <1>2, <1>3, <1>7, <2>1, <2>2, <2>3 DEF Moves
<1>9. CASE InsertAdmitted(r)
  <2>1. /\ ~Receive(r) /\ UNCHANGED <<space, owed>> /\ recv[r] = "insert"
        /\ recv'[r] = "push" /\ hand'[r] = hand[r]
    BY <1>5, <1>9 DEF InsertAdmitted, Receive
  <2>2. Going(r, t) = Going(r, t)' /\ Arriving(r, t)' = Arriving(r, t)
    BY <2>1 DEF Arriving, Going
  <2> QED BY <1>1, <1>2, <1>6, <1>7, <2>1, <2>2 DEF Moves
<1>10. CASE InsertPush(r)
  <2>1. /\ ~Receive(r) /\ UNCHANGED owed /\ recv[r] = "push"
        /\ recv'[r] = "index" /\ hand'[r] = hand[r]
    BY <1>5, <1>10 DEF InsertPush, Receive
  <2>2. PICK u \in Tuple : u = hand[r].tuple
    BY <2>1 DEF Fits, Holding, Tupled
  <2>3. /\ Going(r, t) = 0 /\ Going(r, t)' = 0 /\ Arriving(r, t)' = 0
        /\ Arriving(r, t) = IF u = t THEN 1 ELSE 0
    BY <2>1, <2>2 DEF Arriving, Going
  <2>4. space[r][u] + 1 \in Nat
    BY CountTypes
  <2>5. space'[r][t] = IF u = t THEN space[r][t] + 1 ELSE space[r][t]
    BY <1>10, <2>2, <2>4, SpaceChanges DEF InsertPush
  <2> QED BY <1>1, <1>2, <1>6, <2>1, <2>3, <2>5 DEF Moves
<1>11. CASE InsertIndexed(r)
  <2>1. ~Receive(r) /\ UNCHANGED <<space, owed>> /\ recv[r] = "index" /\ recv'[r] = "probe"
    BY <1>4, <1>11 DEF InsertIndexed, Receive
  <2>2. Going(r, t) = 0 /\ Arriving(r, t) = 0
    BY <2>1 DEF Arriving, Going
  <2> QED BY <1>1, <1>2, <1>3, <1>6, <1>7, <2>1, <2>2 DEF Moves
<1>12. CASE Delete(r)
  <2>1. ~Receive(r) /\ UNCHANGED owed /\ recv[r] = "delete"
    BY <1>12 DEF Delete, Receive
  <2>2. PICK u \in Tuple : u = hand[r].tuple
    BY <2>1 DEF Fits, Holding, Tupled
  <2>3. Arriving(r, t) = 0 /\ Going(r, t) = IF u = t THEN 1 ELSE 0
    BY <2>1, <2>2 DEF Arriving, Going
  <2>4. CASE space[r][u] > 0 /\ space' = [space EXCEPT ![r][u] = @ - 1] /\ Done(r)
    <3>1. space[r][u] - 1 \in Nat /\ space[r][u] \in Nat
      BY <2>4, CountTypes
    <3>2. space'[r][t] = IF u = t THEN space[r][t] - 1 ELSE space[r][t]
      BY <2>4, <3>1, SpaceChanges
    <3>3. Arriving(r, t)' = 0 /\ Going(r, t)' = 0
      BY <1>3, <1>4, <2>4
    <3> QED BY <1>1, <1>2, <1>6, <2>1, <2>3, <3>1, <3>2, <3>3 DEF Moves
  <2>5. CASE UNCHANGED space /\ Go(r, "owe")
    <3>1. recv'[r] = "owe" /\ hand'[r] = hand[r]
      BY <1>5, <2>5
    <3>2. Arriving(r, t)' = 0 /\ Going(r, t)' = Going(r, t)
      BY <2>1, <3>1 DEF Arriving, Going
    <3> QED BY <1>1, <1>2, <1>6, <1>7, <2>1, <2>3, <2>5, <3>2 DEF Moves
  <2> QED BY <1>12, <2>2, <2>4, <2>5 DEF Delete
<1>13. CASE Owe(r)
  <2>1. ~Receive(r) /\ UNCHANGED space /\ recv[r] = "owe" /\ recv'[r] = "probe"
    BY <1>4, <1>13 DEF Owe, Receive
  <2>2. PICK u \in Tuple : u = hand[r].tuple
    BY <2>1 DEF Fits, Holding, Tupled
  <2>3. Arriving(r, t) = 0 /\ Going(r, t) = IF u = t THEN 1 ELSE 0
    BY <2>1, <2>2 DEF Arriving, Going
  <2>4. /\ Debt(r, t) \in {0, 1}
        /\ u = t => Debt(r, t)' = 1
        /\ u # t => Debt(r, t)' = Debt(r, t)
    BY <1>13, <2>2 DEF Owe, Debt, TypeOK
  <2>5. u = t => ~OneOwner(t)
    BY <2>1, <2>2 DEF OwnerInv, Tracked
  <2> QED BY <1>1, <1>2, <1>3, <1>7, <2>1, <2>3, <2>4, <2>5 DEF Moves
<1> QED BY <1>0, <1>8, <1>9, <1>10, <1>11, <1>12, <1>13 DEF Receiver

\* The receivers of the other ranks.
LEMMA ElsewhereMoves ==
    ASSUME SourceInv, SourceInv', NEW r \in Rank, NEW t \in Tuple, AllFinite(r, t),
           NEW a \in Rank, a # r, Receiver(a)
    PROVE  AllFinite(r, t)' /\ Moves(r, t)
<1> USE DEF SourceInv, TypeInv
<1>1. \A q \in Rank : net'[q][r] = net[q][r]
  <2>1. CASE UNCHANGED net
    BY <2>1
  <2>2. CASE Receive(a)
    BY <2>2 DEF Receive, TypeOK
  <2> QED BY <2>1, <2>2 DEF Receiver, InsertDropped, InsertAdmitted, InsertPush, InsertIndexed,
                            Delete, Owe
<1>2. recv'[r] = recv[r] /\ hand'[r] = hand[r]
  <2>1. CASE Receive(a)
    BY <2>1 DEF Receive, TypeOK
  <2>2. CASE Done(a) \/ Go(a, "push") \/ Go(a, "index") \/ Go(a, "owe")
    BY <2>2 DEF Done, Go, TypeOK
  <2> QED BY <2>1, <2>2 DEF Receiver, InsertDropped, InsertAdmitted, InsertPush, InsertIndexed,
                            Delete, Owe
<1>3. space'[r] = space[r]
  <2>1. CASE UNCHANGED space
    BY <2>1
  <2>2. CASE \E v : space' = [space EXCEPT ![a] = v]
    BY <2>2 DEF TypeOK
  <2> QED BY <2>1, <2>2 DEF Receiver, Receive, InsertDropped, InsertAdmitted, InsertPush,
                            InsertIndexed, Delete, Owe
<1>4. owed'[r] = owed[r]
  BY DEF Receiver, Receive, InsertDropped, InsertAdmitted, InsertPush, InsertIndexed, Delete,
         Owe, TypeOK
<1>5. UNCHANGED <<put, taken>>
  BY DEF Receiver, Receive, InsertDropped, InsertAdmitted, InsertPush, InsertIndexed, Delete, Owe
<1> QED BY <1>1, <1>2, <1>3, <1>4, <1>5, StillMoves

BooksInv == \A r \in Rank : \A t \in Tuple : Bystander(r, t) => AllFinite(r, t) /\ Books(r, t)

LEMMA BooksInit == Init => BooksInv
<1> SUFFICES ASSUME Init, NEW r \in Rank, NEW t \in Tuple PROVE AllFinite(r, t) /\ Books(r, t)
  BY DEF BooksInv
<1>1. \A tag \in {"INSERT", "DELETE"} : Sent(r, tag, t) = {}
  <2>1. \A q \in Rank : net[q][r] = <<>>
    BY DEF Init
  <2> QED BY <2>1 DEF Sent
<1>2. IsFiniteSet({}) /\ Cardinality({}) = 0
  BY FS_EmptySet
<1>3. Inserts(r, t) = 0 /\ Deletes(r, t) = 0 /\ Debt(r, t) = 0
  <2>1. recv[r] = "probe" /\ t \notin owed[r]
    BY DEF Init
  <2>2. Sent(r, "INSERT", t) = {} /\ Sent(r, "DELETE", t) = {}
    BY <1>1
  <2> QED BY <1>2, <2>1, <2>2 DEF Inserts, Deletes, Debt, Underway
<1>4. space[r][t] = 0 /\ put[t] = 0 /\ taken[t] = 0
  BY DEF Init
<1> QED BY <1>1, <1>2, <1>3, <1>4 DEF AllFinite, Books

LEMMA BooksStep == SourceInv /\ SourceInv' /\ OwnerInv /\ BooksInv /\ [Next]_vars => BooksInv'
<1> SUFFICES ASSUME SourceInv, SourceInv', OwnerInv, BooksInv, [Next]_vars,
                    NEW r \in Rank, NEW t \in Tuple, Bystander(r, t)
             PROVE  AllFinite(r, t)' /\ Books(r, t)'
  BY DEF BooksInv, Bystander, Puts, Takes, Makes
<1>1. AllFinite(r, t) /\ Books(r, t) /\ TypeOK /\ TypeOK'
  BY DEF BooksInv, SourceInv, TypeInv
<1>2. AllFinite(r, t)' /\ Moves(r, t)
  <2>1. CASE UNCHANGED vars
    BY <1>1, <2>1, StillMoves DEF vars
  <2>2. ASSUME NEW a \in Rank, Main(a) \/ Wake(a) PROVE AllFinite(r, t)' /\ Moves(r, t)
    BY <1>1, <2>2, MainMoves
  <2>3. ASSUME NEW a \in Rank, Receiver(a) PROVE AllFinite(r, t)' /\ Moves(r, t)
    BY <1>1, <2>3, ReceiverMoves, ElsewhereMoves
  <2> QED BY <2>1, <2>2, <2>3 DEF Next
<1> QED BY <1>1, <1>2, MovesKeepBooks

\* A rank that only looks at a tuple holds what has been put and not taken, up
\* to what it has not applied yet, in whatever order the messages of the others
\* come: never too few, and exactly as many while no two debts can meet.
THEOREM BystandersBalanced == Spec => []Balanced
<1>1. Spec => [](SourceInv /\ OwnerInv)
  BY OwnerInit, SourceStep, OwnerStep, PTL DEF Spec
<1>2. Spec => []BooksInv
  BY <1>1, BooksInit, BooksStep, PTL DEF Spec
<1>3. SourceInv /\ BooksInv => Balanced
  <2> SUFFICES ASSUME SourceInv, BooksInv, NEW r \in Rank, NEW t \in Tuple, Bystander(r, t)
               PROVE  LET held == space[r][t] + Inserts(r, t) + taken[t]
                          due  == put[t] + Due(r, t)
                      IN  held >= due /\ (taken[t] <= 1 \/ OneOwner(t) => held = due)
    BY DEF Balanced, Inserts
  <2>1. AllFinite(r, t) /\ Books(r, t) /\ TypeOK
    BY DEF BooksInv, SourceInv, TypeInv
  <2>2. /\ space[r][t] \in Nat /\ put[t] \in Nat /\ taken[t] \in Nat
        /\ Inserts(r, t) \in Nat /\ Deletes(r, t) \in Nat /\ Debt(r, t) \in {0, 1}
    BY <2>1, BooksTypes
  <2>3. Due(r, t) = Deletes(r, t) + Debt(r, t)
    BY DEF Due, Deletes, Debt
  <2> QED BY <2>1, <2>2, <2>3 DEF Books
<1> QED BY <1>1, <1>2, <1>3, PTL
=============================================================================
