----------------------------- MODULE ChunkedList -----------------------------
(***************************************************************************)
(* data::chunked_list: a vector of chunks of ChunkSize cells each.  A      *)
(* value goes into the first free cell of the last chunk; cells that are   *)
(* freed in other chunks stay holes until their chunk is empty and goes.   *)
(* Each operation holds the list's mutex throughout.                       *)
(*                                                                         *)
(* An iterator is a chunk and an index.  Chunks are on the heap, so an     *)
(* iterator outlives changes of the vector, and each chunk keeps its       *)
(* position in it, by which iterators are compared.                        *)
(***************************************************************************)
EXTENDS Integers, Sequences, FiniteSets, SequencesExt

CONSTANTS
    Chunk,      \* the places on the heap where a chunk may be
    ChunkSize,
    Value,
    Wants,      \* what searches want: sets of values
    MaxLive,    \* bound: how many values the list holds at most
    None

ASSUME ChunkedListAssumption ==
    /\ IsFiniteSet(Chunk)
    /\ ChunkSize \in Nat \ {0}
    /\ Wants \subseteq SUBSET Value
    /\ MaxLive \in Nat
    /\ None \notin Value \cup (Chunk \X (0 .. ChunkSize - 1))

VARIABLES
    chunks,     \* _chunks
    position,   \* position[c]: the _chunk_index of c
    cells,      \* cells[c][i]: the value in cell i, or None where _valids has no bit
    found       \* the slot of the last insertion or search, or None

vars == <<chunks, position, cells, found>>

Cell == 0 .. ChunkSize - 1
Slot == Chunk \X Cell

Valids(c) == {i \in Cell : cells[c][i] # None}
Live == UNION {{c} \X Valids(c) : c \in Chunk}

FirstValidIndex(c) == CHOOSE i \in Valids(c) : \A j \in Valids(c) : i <= j

\* One past the last valid index.
LastValidIndex(c) ==
    CHOOSE i \in 0 .. ChunkSize :
        (\A j \in Valids(c) : j < i) /\ (i = 0 \/ i - 1 \in Valids(c))

-----------------------------------------------------------------------------
(* Iterators.                                                              *)

IsFinal(c) == position[c] = Len(chunks) - 1

\* Mutant: each chunk has an end.
IsEndOfChunk(it) == it[2] = Cardinality(Valids(it[1]))

IsEnd(it) == IsFinal(it[1]) /\ it[2] = Cardinality(Valids(it[1]))

\* operator==: ends equal each other, others go by chunk position and index.
Equal(a, b) ==
    \/ IsEnd(a) /\ IsEnd(b)
    \/ ~IsEnd(a) /\ ~IsEnd(b) /\ position[a[1]] = position[b[1]] /\ a[2] = b[2]

\* operator<=>, of iterators that are not ends.
UpTo(a, b) ==
    \/ position[a[1]] < position[b[1]]
    \/ position[a[1]] = position[b[1]] /\ a[2] <= b[2]

Begin == <<chunks[1], FirstValidIndex(chunks[1])>>

\* Mutant: the end is the number of values, whatever the holes.
EndBySize == <<Last(chunks), Cardinality(Valids(Last(chunks)))>>

End == <<Last(chunks), LastValidIndex(Last(chunks))>>

\* Mutant: a chunk is done with after as many cells as it has values.
IncToSize(it) ==
    LET c == it[1]
        rest == {i \in Valids(c) : it[2] < i}
    IN  IF rest # {} THEN <<c, CHOOSE i \in rest : \A j \in rest : i <= j>>
        ELSE IF IsFinal(c) THEN <<c, Cardinality(Valids(c))>>
        ELSE LET d == chunks[position[c] + 2] IN <<d, FirstValidIndex(d)>>

\* operator++: the next valid cell of the chunk, or of the next one (which is
\* not empty), or the end of the last chunk.
Inc(it) ==
    LET c == it[1]
        rest == {i \in Valids(c) : it[2] < i}
    IN  IF rest # {} THEN <<c, CHOOSE i \in rest : \A j \in rest : i <= j>>
        ELSE IF IsFinal(c) THEN <<c, LastValidIndex(c)>>
        ELSE LET d == chunks[position[c] + 2] IN <<d, FirstValidIndex(d)>>

\* Mutant: a chunk before is entered at its first cell.
DecFromFirst(it) ==
    LET before == {s \in Live : \/ s[1] = it[1] /\ s[2] < it[2]
                                \/ position[s[1]] < position[it[1]] /\ s[2] = 0}
    IN  IF before = {} THEN <<chunks[1], -1>> ELSE CHOOSE s \in before : \A u \in before : UpTo(u, s)

\* operator--: the valid cell before it in its chunk, or in the nearest chunk
\* before that has one; but a chunk is entered at the number of its values, and
\* the cells above are passed over.
Dec(it) ==
    LET before == {s \in Live :
                     \/ s[1] = it[1] /\ s[2] < it[2]
                     \/ /\ position[s[1]] < position[it[1]]
                        /\ s[2] <= Cardinality(Valids(s[1]))}
    IN  IF before = {} THEN <<chunks[1], -1>> ELSE CHOOSE s \in before : \A u \in before : UpTo(u, s)

\* The iterator of a scan after n steps.
Iterator[n \in Nat] == IF n = 0 THEN Begin ELSE Inc(Iterator[n - 1])

\* The cells find_if dereferences before it meets the end.  It visits a live
\* cell once, so it stops for good after as many steps as there are cells.
Visited ==
    LET most == Cardinality(Slot) + 1
        stop == CHOOSE n \in 0 .. most :
                   /\ n = most \/ Equal(Iterator[n], End)
                   /\ \A m \in 0 .. n - 1 : ~Equal(Iterator[m], End)
    IN  IF chunks = <<>> THEN <<>> ELSE [n \in 1 .. stop |-> Iterator[n - 1]]

At(s) == cells[s[1]][s[2]]

\* std::ranges::find_if from begin to end.
FindIf(wanted) ==
    LET path == Visited
        hits == {n \in DOMAIN path : At(path[n]) \in wanted}
    IN  IF hits = {} THEN None ELSE path[CHOOSE n \in hits : \A m \in hits : n <= m]

Empty == chunks = <<>> \/ (Len(chunks) = 1 /\ Valids(chunks[1]) = {})

\* Mutant: all chunks but the last are taken for full.
SizeOfFull ==
    IF chunks = <<>> THEN 0
    ELSE (Len(chunks) - 1) * ChunkSize + Cardinality(Valids(Last(chunks)))

Size == FoldSeq(LAMBDA c, n : Cardinality(Valids(c)) + n, 0, chunks)

-----------------------------------------------------------------------------
(* Operations.                                                             *)

EmptyCells == [i \in Cell |-> None]

Init ==
    /\ chunks = <<>>
    /\ position = [c \in Chunk |-> 0]
    /\ cells = [c \in Chunk |-> EmptyCells]
    /\ found = None

Fill(c, x) ==
    LET i == CHOOSE i \in Cell : cells[c][i] = None /\ \A j \in 0 .. i - 1 : cells[c][j] # None
    IN  /\ cells' = [cells EXCEPT ![c][i] = x]
        /\ found' = <<c, i>>

BackHasRoom == chunks # <<>> /\ Valids(Last(chunks)) # Cell

PushBack(x) ==
    /\ Cardinality(Live) < MaxLive
    /\ \/ /\ BackHasRoom
          /\ Fill(Last(chunks), x)
          /\ UNCHANGED <<chunks, position>>
       \/ /\ ~BackHasRoom
          /\ \E c \in Chunk \ ToSet(chunks) :
               /\ chunks' = Append(chunks, c)
               /\ position' = [position EXCEPT ![c] = Len(chunks)]
               /\ Fill(c, x)

\* erase_unguarded: a chunk that becomes empty goes, and those behind it move
\* up.
EraseAt(s) ==
    /\ cells' = [cells EXCEPT ![s[1]][s[2]] = None]
    /\ \/ /\ Valids(s[1]) # {s[2]}
          /\ UNCHANGED <<chunks, position>>
       \/ /\ Valids(s[1]) = {s[2]}
          /\ chunks' = RemoveAt(chunks, position[s[1]] + 1)
          /\ position' = [c \in Chunk |->
                IF c \in ToSet(chunks')
                THEN SelectInSeq(chunks', LAMBDA d : d = c) - 1 ELSE 0]

Erase(s) == s \in Live /\ EraseAt(s) /\ found' = None

Clear ==
    /\ chunks' = <<>>
    /\ position' = [c \in Chunk |-> 0]
    /\ cells' = [c \in Chunk |-> EmptyCells]
    /\ found' = None

LockedFind(wanted) ==
    /\ found' = FindIf(wanted)
    /\ UNCHANGED <<chunks, position, cells>>

LockedDestructiveFind(wanted) ==
    LET hit == FindIf(wanted) IN
    /\ found' = hit
    /\ \/ hit # None /\ EraseAt(hit)
       \/ hit = None /\ UNCHANGED <<chunks, position, cells>>

Next ==
    \/ \E x \in Value : PushBack(x)
    \/ \E s \in Slot : Erase(s)
    \/ Clear
    \/ \E wanted \in Wants : LockedFind(wanted) \/ LockedDestructiveFind(wanted)

Spec == Init /\ [][Next]_vars

-----------------------------------------------------------------------------
(* Properties.                                                             *)

\* The list is what the store takes it for: values keep their slots, and a
\* search misses none, whatever holes there are and chunks have gone.
Abstract == INSTANCE SlotList WITH data <- [s \in Slot |-> At(s)]

Implements == Abstract!Spec

\* A scan dereferences each live cell once and no other cell.
ScanExact ==
    LET path == Visited IN
    Len(path) = Cardinality(Live) /\ ToSet(path) = Live

\* Iterators of different live cells differ: the indices tell the tuples they
\* hold apart by them, though ends are told by a count that holes distort.
IteratorsDiffer == \A a, b \in Live : Equal(a, b) => a = b

\* size and empty tell how many live cells there are, in whatever chunks.
CountsExact == Size = Cardinality(Live) /\ (Empty <=> Live = {})

\* Going back undoes going on, but from a chunk to the last value of the one
\* before it only where that value lies no higher than that chunk's count.
RetreatUndoesAdvance ==
    \A s \in Live :
        (Inc(s)[1] = s[1] \/ s[2] <= Cardinality(Valids(s[1]))) => Dec(Inc(s)) = s
=============================================================================
