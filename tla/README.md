# LindaDB in TLA+

LindaDB is a distributed tuple space: each rank of an MPI program keeps a
replica of the space in a `ldb::store`, its main thread calls `out`, `in`,
`inp`, `rd` and `rdp` on it, and its receiver thread applies what the other
ranks put and took. This directory holds TLA+ modules of the store, of the
tree and the list it is made of, of the runtime, and of the way a tuple's data
take from a program to a query on another rank; the TLC configurations that
check them; and TLAPS proofs of every safety property the passing runs check. Paths
below are relative to the repository's root; module and definition names are those of
the `.tla` files beside this one.

## 1. Inventory

### 1.1 Components

| component | source | state it keeps | operations |
|---|---|---|---|
| tuple store | `src/LindaDB/public/ldb/store.hxx` | `_data` (list of tuples), `_header_indices` (two indices), `_removed_later` (set), `_sync_needed` (counter), `_header_mtx`, `_read_mtx`, a condition variable | `out`, `out_nosignal`, `in`, `inp`, `rd`, `rdp`, `remove_nosignal` |
| queries | `ldb/query/*.hxx` | a matcher for each field; variables of the caller | comparing with a tuple, which writes the variables; searching and removing by an index |
| index tree | `ldb/index/tree/impl/avl2/avl2_tree.hxx`, `index_query.hxx` | AVL nodes, each with a payload | insert, search, remove (by key, by key and value), rotations |
| tree payloads | `ldb/index/tree/payload/*.hxx` | the sorted keys of one node, each with its iterators | try_get, try_set, remove, merge, split |
| chunked list | `ldb/data/chunked_list.hxx` | chunks of 16 slots with a bitmap of the live ones | push_back, erase, clear, size, empty, locked_find, locked_destructive_find, iteration both ways |
| runtime | `src/LindaRT/src/runtime.cxx` | the receiver thread, the store | constructor, destructor, broadcast_insert, broadcast_delete, recv_thread_worker |
| broadcast interface | `ldb/bcast/*.hxx` | a type-erased handle | broadcast, await |
| tuple serialization | `src/LindaRT/src/serialize/tuple.cxx` | none | serialize, deserialize |
| tuples and values | `ldb/lv/*.hxx` | values of eleven types; three fields in an array, the rest in a tail | comparison, construction, access |
| eval, function calls | `lrt/eval.hxx`, `ldb/lv/tuple_builder.hxx`, `ldb/lv/fn_call_*`, `ldb/lv/dyn_function_adapter.hxx` | what a builder has collected; the map of registered functions | building a tuple call by call, executing a call |
| assertions, allocation | `src/LindaDB/src/common.cxx`, `malloc_overrider.cxx` | none | `assert_that` aborts |

### 1.2 How they interact

- A call of the store looks for its tuple under `_header_mtx`: first in the
  index of the first field, then in that of the second, then by a scan of the
  list under the list's own lock. A removal takes the tuple from the index it
  was found in, from the list, and means to take it from the other index.
- `out` does not hold `_header_mtx` from end to end: it checks `_removed_later`
  under it, lets go, broadcasts, pushes into the list, takes the lock again for
  the indices, and then, under no lock, increments `_sync_needed` and notifies
  one waiting thread.
- `in` and `rd` that find nothing exchange `_sync_needed` with 0; if it was set
  they look again, else they wait on the condition variable until it is.
- `out` and the removing calls tell the other ranks through the broadcast
  interface, which the runtime implements with one `MPI_Isend` to each of them
  and one `MPI_Waitall`. A removal waits with `_header_mtx` held.
- The receiver thread probes for a message of any rank and calls `out_nosignal`
  or `remove_nosignal`. A removal that finds nothing leaves its tuple in
  `_removed_later`, and the tuple's `out` is dropped when it comes.
- What goes over the wire is a tuple serialized into a buffer whose size is
  computed first. The receiver deserializes it, puts it into its store, and queries
  made of plain values, `linda_value`s and variables are compared with it there.
- `~runtime` sends its own receiver a TERMINATE, joins it, waits in
  `MPI_Barrier` and finalizes MPI.

### 1.3 What is hard

- **Steps with no lock across them**: push and indexing in `out`; the miss and
  the debt in `remove_nosignal`; mark, notify and the predicate of the wait.
- **Iterators that outlive their element**: the indices hold iterators; a slot
  of the list is freed and used again.
- **Order of messages**: INSERT and DELETE of one tuple come from different
  ranks, in either order. Messages of one rank do not overtake each other.
- **Replicas**: each rank takes tuples from its own replica and tells the others
  afterwards.
- **Termination**: a rank that ends its receiver no longer completes what others
  send it.
- **Data that pass through many forms**: a tuple is built, laid out, serialized,
  read on a machine of perhaps another byte order, ordered by its fields in an
  index and compared by matchers; size and contents of the buffer, and the orders
  of index and matchers, are in different places of the code and have to agree.
- **Sorted structures under any sequence of calls**: payload bounds, merges and
  balance factors of the tree; holes and chunks of the list.

`PROJECT.json` lists each hazard at its line with the properties that watch it.

### 1.4 What makes each component correct

- store: each call takes effect atomically (`Implements`); the indices miss
  nothing (`IndexComplete`) and hold nothing else (`IndexExact`); nothing dead is
  dereferenced (`NoFault`); no wakeup is lost (`MarkNotLost`, `MarkedServed`,
  `BlockedServed`).
- runtime: replicas agree once the messages are in (`Balanced`), debts do not
  stay (`OwnersOweNothing`), a tuple is taken once (`TakenOnce`), the program ends
  (`Finishes`).
- index tree and payloads: a lookup finds what was inserted and not removed, in
  whatever node it is by now (`IndexTree!Implements`); the tree stays balanced
  (`HeightsBalanced`) and no node hides those below it (`NodesFilled`).
- chunked list: values keep their slots and searches miss none
  (`ChunkedList!Implements`); a scan visits each live cell once (`ScanExact`);
  iterators of different cells differ (`IteratorsDiffer`), counts are right
  (`CountsExact`), and `--` undoes `++` where it can (`RetreatUndoesAdvance`).
- queries: an answer meets the query and is missed only if there is none
  (`AnswersRight`), and the variables hold the answer's fields (`FormalsHold`).
- serialization: the buffer is filled and not overrun (`SizeExact`), and what
  is read is what was written (`RoundTrip`).
- function calls: `tuple_builder` makes the fields it was called for or throws
  (`BuiltAsCalled`); a call is executed iff its arguments fit (`EvaluatedInPlace`).

## 2. Modules

| module | what it is | builds on |
|---|---|---|
| `Tuples` | tuples, queries, matching, calls, as far as `Store` tells them apart | |
| `TupleSpace` | what a store promises, with atomic calls | `Tuples` |
| `Store` | `ldb::store` and the threads that call it | `Tuples`, instantiates `TupleSpace` |
| `SequenceLemmas` | removals, insertions and concatenations of sequences; induction and recursion without operators as parameters | |
| `StoreProofs` | types, index completeness and the refinement of `TupleSpace`, for all parameters; the sync mark, if one thread waits; the index exact and no fault, in the use where removals clean up | `Store`, `SequenceLemmas` |
| `Runtime` | ranks, receiver threads and messages | a store at the level of `TupleSpace` |
| `RuntimeProofs` | type correctness; a tuple of one owner leaves no debt and is taken once | `Runtime` |
| `Index` | what an index promises: values under keys, lookups by key | |
| `Payloads` | the keys and values of one tree node, as functions, for the three payload types | |
| `IndexTree` | `avl2_tree` over each of the payloads | `Payloads`, instantiates `Index` |
| `IndexTreeProofs` | the tree is balanced, filled and an index, for all parameters | `IndexTree`, `SequenceLemmas` |
| `SlotList` | what the store takes its list for: values in slots | |
| `ChunkedList` | `chunked_list` and its iterators | instantiates `SlotList` |
| `ChunkedListProofs` | scans, iterators and the refinement, for all parameters | `ChunkedList`, `SequenceLemmas` |
| `Values` | `linda_value` and `linda_tuple` with all their types | |
| `Serialization` | `lrt::serialize` and `lrt::deserialize` | `Values` |
| `Queries` | matchers, and their way through indices and list | `Values` |
| `FunctionCalls` | the execution of a call in a tuple | `Values` |
| `Exchange` | one tuple built, sent, received, and sought or executed | the three before |
| `SerializationProofs` | what is written fills the room computed for it and is read back, for all values and both byte orders | `Serialization`, `SequenceLemmas` |
| `QueryProofs` | values are totally ordered, an index is sorted and complete, a lookup by a value misses nothing | `Queries`, `FunctionCalls`, `SerializationProofs` |
| `ExchangeProofs` | every property of `Exchange`, for all parameters | `Exchange`, `QueryProofs` |
| `MCStore`, `MCRuntime`, `MCIndexTree`, `MCChunkedList`, `MCExchange` | calls, programs, entries, wants and values for TLC | |

### 2.1 Store

State, against the members of `store` (`store.hxx:365-373`): `data` is `_data`
(a slot holds a tuple or `None`), `index[i][k]` the iterators the index of field
`i` has under key `k`, oldest first, `removedLater`, `syncNeeded`. The two
mutexes have no variable: a section under `_header_mtx` is one step, and
`_read_mtx` is held exactly by a thread at "parking". Per thread, `pc`, `call`,
`ans` and `slot` (the iterator `push_back` returned) are its stack. `fault`
stands for an abort or undefined behaviour; nothing steps after it.

| action | code |
|---|---|
| `Invoke` | a thread enters a call |
| `OutCheck` | the check of `_removed_later`, `store.hxx:76-83`, `184-190` |
| `OutPush` | `_data.push_back`; any free slot may be taken |
| `OutIndex` | the insertion into the indices, `87-95` |
| `OutMark`, `OutNotify` | `notify_readers`: the increment, then `notify_one` |
| `TryIndex` | a lookup that finds its tuple in an index, and for a removal what it takes out of index and list |
| `TryScan` | a lookup that only the scan of the list ends |
| `TryMiss` | a lookup that finds nothing, and what the call does then |
| `TryFault` | a lookup that dereferences a dead slot or fails an assertion |
| `Owe` | `_removed_later.insert`, `213`, after the lock is gone |
| `Reset` | `check_and_reset_sync_need` |
| `CheckSync`, `Park`, `WakeSpuriously` | the predicate of `wait_for_sync`, the sleep, and a return nobody asked for |

Two details of lookups matter and are as in the code. `match_value<T>` compares
its operands the wrong way around (`match_value.hxx:58-82`), so a lookup by plain
values finds its key only where the descent never has to choose (`Probes`).
`chime_payload` looks into the first key not below the one it is asked for, and
does not ask whether they are equal (`LowerBound`); a match is decided by the
tuple itself, so the answer is right, but a removal by iterator may pass the
wrong key set (`Relooked`).

Left out of `Store`: the AVL tree above one node (the runs use at most three keys,
which fit into one), values of several types, which are in `Queries`, and where the broadcast of
`out` and of a removal falls, which is in `Runtime`. The trees and the list are
steps of their own in the code, each under its mutex; `IndexTree` and
`ChunkedList` say what those steps do inside.

### 2.2 Runtime

A rank's store is a bag, `space[r]`, and a set of debts, `owed[r]`: the state of
`TupleSpace`, which `StoreImplements` says `Store` implements. What the store's
model leaves out is here. `header[r]` says that the main thread waits for its sends
with `_header_mtx` held; `net[q][r]` is the channel from `q` to `r`; `main`,
`script`, `recv` and `hand` are where the two threads of a rank are and what they
have in hand. `put` and `taken` are history: they count and guard nothing.

| action | code |
|---|---|
| `OutDropped`, `OutBroadcast`, `OutPush`, `OutReturn` | `store::out`, with its broadcast and its await |
| `Take`, `TakeReturn` | `read_and_remove`, the lock held across the await |
| `Look` | a call that removes nothing |
| `Sleep`, `Wake` | `wait_for_sync` |
| `Terminate`, `Join`, `Finalize` | `~runtime`, `runtime.cxx:193-199` |
| `Receive` | `MPI_Probe` and `MPI_Recv` in `recv_thread_worker` |
| `InsertDropped`, `InsertAdmitted`, `InsertPush`, `InsertIndexed` | `out_nosignal` |
| `Delete`, `Owe` | `remove_nosignal` |

`Eager` says which MPI is meant: with it a send completes by itself (buffered),
without it a send completes when it has been received; the standard lets
`MPI_Isend` do either. In `OutBroadcast` the check of `_removed_later` and the
sends are one step, and so are erasure and sends in `Take`: in the first case
nothing the other threads can see happens in between, in the second the lock is
held. A rank has one main thread, as in `test/lindart.cxx`.

### 2.3 IndexTree and Payloads

`root` is the tree: a record of a payload, a balance factor and two subtrees, or
`None`. The code goes down by pointers to owning pointers and comes back up over
parent pointers until a loop breaks off; here both are one recursion, and what a
loop breaks off on is the flag `grew` or `shrank` that a subtree's result
carries. The parent pointers themselves are not modelled. The recursions are functions
on `Tree`, the trees of at most `MaxHeight` levels. A payload is a function from keys
to the sequences of their values, none for a key the node does not have (`KeysIn`); that
the code keeps the keys in a sorted array is in the operators that ask for the lowest,
the highest or a lower bound.

`payload` is the tree's payload type, a template argument that a behaviour
chooses at its start. `chime_payload`, the one of the store's indices, keeps all
values of a key; `vector_payload` and `scalar_payload`, which tests use, replace
the value that is there (`Upsert`), and `scalar_payload` has room for one key
(`Capacity`) and asks whether it is the one looked for (`Seeks`).
`vector_payload::remove` does not compile, so that a tree of vectors is only
inserted into and searched.

| action | code |
|---|---|
| `Insert` | `avl2_tree::insert`: `Inserted` descends; a full node that encloses the key pushes out its lowest (`ForceSetLower`), which goes to the greatest node below (`AddGreatest`); `Grown` is the loop up, `Rebalanced` the two `insert_*_imbalance` |
| `Search` | `traverse_tree` (`Traverse`), then `try_get` (`Gets`) |
| `RemoveBy` | `avl2_tree::remove`: `Popped` in the node, then by its type an empty leaf goes (`Gone`), a half-leaf takes its leaf in (`Trimmed`), an inner node is filled from the greatest one below (`Refilled`, `Moved`); `Shrunk` is the loop of `delete_node`, with the two `delete_*_imbalance` |

`Index`, the abstract specification, knows keys and sequences of values: the
last one only, for payloads that replace. It has the one liberty `Store` has to
live with: a lookup for a key that is not held may go by the next higher one
(`Covers`, asked of what the index held before), since neither `chime_payload` nor `vector_payload` asks whether its lower bound
is equal; over `scalar_payload` it has to be exact. It may not miss a key that is held.

### 2.4 ChunkedList

`chunks` is `_chunks`; each chunk has its `position` (`_chunk_index`) and its
`cells` (`_data` and `_valids` together). `found` is the answer of the last call. A
slot is a chunk and an index, as an iterator is. A chunk that erase frees may be
allocated again, by whatever place the heap gives.

| action | code |
|---|---|
| `PushBack` | `push_back` and `emplace_back`: the first free cell of the last chunk, or of a new one |
| `Erase` | `erase`: the cell, and the chunk when it was its last, with the new positions of the others |
| `Clear` | `clear` |
| `LockedFind`, `LockedDestructiveFind` | the searches, cell by cell as `std::ranges::find_if` goes with the list's own `operator++` and `operator==` (`Visited`: the cells up to the end; `Iterator[n]`: the iterator after n times `Inc`; `Equal`) |

`Size`, `Empty`, `Dec` (`operator--`) and `UpTo` (`operator<=>`) change nothing and are
operators that properties look at in every state.

The end is where holes could matter: `end()` has the last valid index of the last
chunk, `is_end` asks for its number of values, and the two are the same only
without holes. A live cell can thus be taken for the end, and the end not be one;
`ScanExact` and `IteratorsDiffer` say that this does no harm. `operator--` enters
the chunk before at its number of values, too, and passes over those that lie
higher; `RetreatUndoesAdvance` says exactly where going back undoes going on. The
list's other constructors make chunks without an owner, or would copy atomics and
do not compile when used; nothing uses them.

### 2.5 Values, Serialization, Queries, FunctionCalls, Exchange

`Exchange` follows the data of one tuple. A program calls `tuple_builder`, the tuple
is serialized, another rank reads it and appends it to the tuples it has, and
then one query is asked there, or one function call in the tuple is executed. How
messages travel and how calls interleave is in `Runtime` and `Store`.

| action | code |
|---|---|
| `AddValue`, `AddFunction`, `AddArguments`, `Build` | `tuple_builder`'s call operators and `build` |
| `Send` | the serialization in `broadcast_with_tag` |
| `Receive` | the deserialization in `recv_thread_worker`, and the tuple's arrival in the list |
| `Look` | a query of matchers, put to both indices and to the list |
| `LookForTuple` | the query for a whole tuple, as `remove_nosignal` makes it |
| `ExecuteCall` | `fn_call_holder::execute` through the `dyn_function_adapter` |

The modules below it are pure operators:

- `Values`: the eleven alternatives of `linda_value` and their order, and
  `linda_tuple` as it keeps its fields (`TailOf`: no tail, a value, or a vector).
- `Serialization`: a byte has `Radix` values, as many as type tags need and even, so
  that two's complement works; integers and floating-point patterns have the
  code's widths in these bytes. What is written is a sequence and its computed size is a
  number beside it, so that they can differ. Reading aborts where the code asserts.
  `Value` is all there is to send: numbers that fit their width, strings and tuples
  whose length fits a `size_t`, and calls nested `MaxNesting` deep at most. The code's
  mutual recursions (value and tuple) are recursive functions on these values, and the reader's is
  one on the bytes that are left and the number of fields still to read; what one
  recursion does with a value is an operator that takes the recursion as a function
  (`CalculateBy`, `WriteBy`, `ReadTyped`).
- `Queries`: comparing a query with a tuple, and with the keys of an index; each index
  is one node (`Node`), into which the fields were put one by one (`Filed`) and which is
  searched by halves, as `std::lower_bound` does it, whatever the matcher's order
  does to the keys (`LowerBound`).
- `FunctionCalls`: a call returns iff its function is registered and each
  parameter takes an argument of its type.

What the code does here that is not evident from its interface:

- `match_value<T>` compares the value with the field where the field should be compared
  with the value, and takes the field's alternative to be the first one if
  the types differ (`match_value.hxx:65-76`). An index is then searched in the wrong
  direction, and a plain `int16_t`, the first alternative, equals every value of
  another type. `Distinguishes` leaves such queries out of `AnswersRight`.
- Function calls are equal if their names are (`fn_call_holder.hxx:97`), whatever their
  arguments; `Distinguishes` leaves these out too.
- `match_type` writes its variable before later fields are compared. Tuples that
  are passed over write to the query's variables; the answer is compared last, so
  its fields stay (`FormalsHold`).
- A query for a whole tuple asserts that each index it is put to is of one of its
  fields: with fewer than two fields it aborts unless the first index answers it.
- The bytes of floats are not swapped, those of integers are. The wire's byte order is
  always little-endian: the branch for `LINDA_RT_BIG_ENDIAN` declares
  `communicaiton_endian` (`tuple.cxx:83`), so that no such build compiles.

## 3. Runs

Every run stops at a bound named in its configuration: `Slot` (room in the
list), `MaxCalls` (calls of a thread, or of a builder), `Programs` (calls of a rank),
`Entries` (what may be in a tree; a value is under a key once), `MaxHeight` (levels of a tree), `MaxLive` (values in the
list), `MaxNesting` (calls within calls), and `Stored`, `Sought` and `Shapes` (the tuples a query meets, the tuples it is made
of, and the kinds of its matchers). A
slot is needed for each `out` that may be in flight or unmatched; a run with fewer
slots than that would block an `out`, which the code never does, so the number of
slots is at least the number of outs the calls allow, except in `store_mixed`,
`store_stale` and `store_one_field`, where threads may run out of them late in a
behaviour; only safety is asked there. Deadlock is not checked in the runs of `Store`,
`Runtime` and `Exchange`: an `in` nobody serves waits for good, programs end, and a tuple's
way ends with its answer.

| run | shows |
|---|---|
| `store_mixed` | three threads, one of them for one call and the others for two, out of seven: both out forms, plain and `linda_value` queries, both indices, the scan, the receiver's removal, and an `in` and a `rd` that may wait. `Implements`, `IndexComplete` and `TypeOK` hold, over stale index entries, reused slots and debts; the mark stays until the one waiting thread has seen it (`MarkNotLost`), and a waiter that sees the mark is served (`MarkedServed`), with spurious wakeups. |
| `store_one_field` | one thread, one-field tuples, queries by `linda_value`, five calls in any order: here the code cleans up behind itself, the index is exact and no lookup faults. |
| `store_stale` | violation: `out`, `inp`, `rdp` in one thread fault, because a removal leaves the other index's entry. |
| `store_race` | violation: a scan takes a tuple before its `out` has indexed it. |
| `store_lost_wakeup` | violation: mark and notify fall between predicate and sleep. |
| `store_two_wait` | violation: one waiter eats the other's mark. |
| `runtime_programs` | three programs on three ranks, buffered sends: `test/lindart.cxx`; a rank that puts two equal tuples, of which another takes one and then the other if it is there; one that puts, takes and puts its tuple again while another reads it. Bystanders are balanced, owners owe nothing, every rank ends. |
| `runtime_two_takers` | violation: two ranks take one tuple. |
| `runtime_rendezvous` | violation: with sends that wait for their receiver, `test/lindart.cxx` does not end. |
| `index_tree` | nine entries under eight keys, two keys a node (one with `scalar_payload`), over each of the three payloads, in any order of insertions, lookups and, but for `vector_payload`, removals: `Implements`, `HeightsBalanced`, `NodesFilled`. |
| `chunked_list` | six values at most in three chunks of four cells, two values to search for: `Implements`, `ScanExact`, `IteratorsDiffer`, `CountsExact`, `RetreatUndoesAdvance`. |
| `exchange` | every script of up to five builder calls, with values of all types and a call within a call, both byte orders on either side, every mix of matchers, for the sent tuple, one that is there and one that differs by a type: `BuiltAsCalled`, `SizeExact`, `RoundTrip`, `AnswersRight`, `FormalsHold`, `EvaluatedInPlace`. |

The six violations are findings in `PROJECT.json`, with the line of a test, an
assertion or the README each goes against.

Why the bounds are enough: two slots and two keys suffice for a reused slot and
for a lower bound that is not the key asked for; three threads for a scan that
races an out while a third party waits; three ranks for a DELETE that comes before
its INSERT (taker, putter, bystander). Eight keys with two a node make trees of
height four, so that double rotations are about unbalanced middle nodes too and a
removal can shorten the tree through several levels; each kind of node is
refilled, merged and cut off; five levels, which nine entries do not fill, leave no
insertion out. Six values
in chunks of four make three chunks with holes in each, so that chunks go from
the front, the middle and the back; `_valids` has as many bits as a chunk has
cells, as in the code, whose chunks have 16. Five builder calls make tuples of none to
five fields, so that each form of the tail occurs, and every wrong order of function,
value and arguments; the argument list of eight values has each type the fields lack. The
three tuples that are there before share fields with what is sent, and one differs
from a tuple sought only by a type. Twelve values of a byte keep negative numbers, numbers
of two bytes and both byte orders apart. Slots are symmetric and the symmetry is
used in the runs without a liveness property. The configurations do not make the
interesting cases rare: for each property of a passing run, `PROJECT.json` names a
small change of the model that breaks it under the same configuration.

What the properties say no more than:

- `Balanced` speaks of ranks that neither put nor take the tuple. Such a rank never holds
  less than is due; that it holds no more is said while at most one has been taken, or
  one rank alone puts and takes it. `_removed_later` is a set: two equal debts collapse
  into one, and the replica keeps a tuple that is gone everywhere else.
- `MarkNotLost` and `MarkedServed` are for one waiting thread; `store_two_wait`
  shows that they need it.
- `Finishes` allows a rank that sleeps in `in` or `rd` for good.
- `RoundTrip` speaks of floats only between machines of one byte order.
- `AnswersRight` leaves out queries by a plain `int16_t` and by a function call, for
  which it is false (2.5), and is about indices of one node.
- `RetreatUndoesAdvance` leaves out the cells that `operator--` passes over.

## 4. Fairness

- `Store!FairSpec`: weak fairness of each thread's `Continue`, that is, a thread
  that can take a step of its call takes one in the end. The operating system's
  scheduler gives that; the mutexes are held for one step, or from `CheckSync` to
  `Park`, so a waiting thread is not shut out for good by one that never lets go,
  and in the runs calls are finite in number, so weak fairness is as good as
  strong. `Invoke` and `WakeSpuriously` are not fair: nobody has to call, and a
  condition variable need not wake anyone.
- `Runtime!FairSpec`: weak fairness of each main thread and each receiver.
  `Wake` is not fair, since `store_lost_wakeup` shows that a sleeping thread may
  miss its notify; hence the second disjunct of `Finishes`.

## 5. Proofs

Each theorem is for every value of the constants of its module, under that module's
assumptions and no others: for the store, `KeyAssumption` (keys are naturals, the
formal is none of them) and `StoreAssumption` (`None` is no tuple, slot or call; the
constants have their types); for the tree, `PayloadAssumption` (keys are integers, a node
has room for two at least) and `TreeAssumption` (entries are keys with values, `MaxHeight`
is a natural, `None` is no node); for the list, `ChunkedListAssumption` (finitely many
places for chunks, chunks of at least one cell, `None` is no value or slot); for the
runtime, `RuntimeAssumption` (programs give each rank a sequence of calls); for the
exchange, `SerializationAssumption` (a byte has an even number of values, enough for the
tags), `FunctionCallsAssumption` (parameters have types), and `ExchangeAssumption` (what
programs pass, what is stored and what is sought are values and tuples; no more builder calls
than a `size_t` counts). The last is what the machine gives: a string or a tuple
longer than that fits in no memory.

**Store** (`StoreProofs`)

- `TypeCorrect`: `Spec => []TypeOK`. `TypeOK` is inductive because
  it carries `CallFits`: where a thread is fits the call it is in, and an `out`
  about to index holds a slot. Each action has a step of its own.
- `IndexCompleteAlways`: `Spec => []IndexComplete`. The invariant
  is inductive together with `TypeOK`. The step that matters is a removal: what
  `Popped` and `Relooked` take out of an index are entries for the removed slot
  only, so every other slot keeps its entry, even when a lower bound lands
  on a neighbouring key or the slot is one that has been used before.
  `SequenceLemmas` has what a removal by position and by value leaves of a sequence.
- `StoreImplements`: `Spec => Implements`. The mapping takes
  `data`, `removedLater` and `fault` as they are and `pc` to the abstract `phase`.
  Indexing, marking, notifying and waiting are stutters; the lookup that ends a
  call is its one effect. The case that needs an argument is a miss:
  `TryMiss` goes through both indices and then the whole list, so it misses only
  when no tuple matches.
- `OneWaiterKeepsItsMark`: under `OneWaiter` (one thread at most
  makes waiting calls), `Spec => []MarkNotLost`. The strengthening is `OwnCall`: a
  thread in a call makes one of its `Calls`, so a thread that resets the flag is
  the waiter itself; it resets the flag only on its way to another look.
- `ExactWithOneField`, `NeverFaultsWithOneField`: under `OneFieldUse` (one thread, tuples of
  one field, queries by a `linda_value`, no `remove_nosignal`), `Spec => []IndexExact` and
  `Spec => []NoFault`. `store_stale` and `store_race` show that two fields or two
  threads are enough to break either. The invariant, `ExactInv`, says that the entries of
  the first index are live, lie under their tuple's field and are there once. With it the
  entry that a removal takes out is the only one, so that the second removal
  of the same slot finds nothing; with `IndexComplete` the scan never finds what the
  index did not, so that no tuple leaves behind the index's back.

**Index tree** (`IndexTreeProofs`), for nodes of any size, any keys and values, and each kind
of payload:

- `TreeSound`: `Spec => []Inv`. `Inv` is that the tree is `Sound`, or else the empty leaf that is
  left of an emptied one. A tree is sound if each node is `Fine`: its balance factor
  is the difference of its subtrees' heights, it has keys and room for them, and the keys
  on its left are less than its own and those on its right greater. Neither property
  of the run is inductive without the order of the keys and the heights together:
  a rotation that keeps the heights right may put keys on the wrong side, and a
  lookup then goes past them.
- `TreeBalanced`, `TreeFilled`: `[]HeightsBalanced`, `[]NodesFilled`, both from `Inv`.
- `TreeImplements`: `Spec => Implements`. That a lookup comes to the node that has the
  key is `TraverseFinds`: the keys of the node it ends at are an unbroken stretch of all
  those in the tree, which is also why the lower bound there is the next higher key of
  the whole tree.

  The steps are about subtrees. `GrewFrom` and `ShrankFrom` say what the flag beside
  a subtree promises: sound, as high as before or one level different, and, if it grew and
  is no new leaf, not balanced at its root, which is what `insert_*_imbalance` relies on.
  `GrownSound` and
  `ShrunkSound` carry that over one turn of the loop up the tree, by
  `RotatedSound` and `RotatedTwice`. `InsertedSound` and `RemovedSound` are
  inductions over the tree (`TreeInduction`), where also what is held is followed: `Held` of
  the result is `Upsert`, or `Popped`, of `Held` before. The difficult cases are the ones in
  which keys leave their node: the lowest key of a full node is filed as the greatest of its
  left subtree (`PushedOut`, `GreatestAdded`), a node half empty takes in the highest keys of the
  greatest node below it (`MovedKeys`, `RefilledSound`), and that node gives them
  up (`TakenSound`), while the one in between is empty for a moment (`Nearly`).

**Chunked list** (`ChunkedListProofs`)

- `ChunksInPlace`: `Spec => []Inv`, where `Inv` is that each chunk of the vector knows its
  position and has a value, and that a chunk with a value is in the vector.
- `ScansExact`, `LiveIteratorsNeverCoincide`, `RetreatExact`: `[]ScanExact`, `[]IteratorsDiffer`
  and `[]RetreatUndoesAdvance`. The live cells are ordered by chunk position and index;
  `++` goes to the next one in that order, and the end lies behind all of them. That
  `end()` is an end by its count means that the last chunk has no holes, and then no
  live cell is one, so a live cell never equals the end. A scan thus climbs through the
  cells one by one and stops behind the last.
- `CountsAlwaysExact`: `Spec => []CountsExact`: the list's size, each chunk's count and its bitmap
  agree with the live cells. The sum over the chunks is a fold, of which the proof needs what
  one chunk contributes when its count changes, or when it comes or goes; the steps of the
  fold are taken by an induction on the number of chunks.
- `ChunkedListImplements`: `Spec => Implements`, with the mapping of a slot to what its cell
  holds. A search is right because a scan is exact.

**Runtime** (`RuntimeProofs`)

- `TypeCorrect`: `Spec => []TypeOK`; it takes `Fits`, that a receiver which applies a
  message holds one, and that a main thread in a call has it still to finish.
- `OwnersNeverOwe`: `Spec => []OwnersOweNothing`, for any ranks, programs and delays and with
  either kind of send. The invariant has two layers. `SourceInv`: what is in a
  channel, or in a receiver's hand, was sent by a rank whose program puts or takes that
  tuple. `Tracked`: for the owner and each other rank there is a level along the
  channel between them, a natural number before the first message and after each of
  them, which an INSERT raises and a DELETE lowers, and which starts with what the
  replica has and ends with what the owner has. A DELETE that arrives therefore
  finds its tuple. If messages overtook each other the level could not be kept from
  falling below nothing.
- `BystandersBalanced`: `Spec => []Balanced`. `Books` follows each tuple t and bystander r:
  the places (a channel and a position in it, or a receiver's hand) from which an INSERT of t
  is on its way to r, those from which a DELETE is, and r's debt. What r holds, with the
  INSERTs under way, covers what is due with the DELETEs under way; and where debts cannot
  collapse, the difference is the debt alone. A send adds a place to every channel, a
  receipt takes the first one away and moves the rest up by one, so that the cardinality of
  the set of places changes by one or not at all.
- `OwnersTakeOnce`: `Spec => []TakenOnce` if each tuple has one owner: `Ledger`, by which the owner
  has what it put and has not taken. `runtime_two_takers` shows that a second rank
  that takes breaks it.

**Exchange** (`SerializationProofs`, `QueryProofs`, `ExchangeProofs`): all six invariants of the
run, for any builder calls, any tuples there before and any queries, and calls nested
`MaxNesting` deep, whatever that is.

- `SentArrives`: `Spec => []RoundTrip`. Its invariant, `WireInv`, is the types and that the buffer
  of a sent tuple is what `Serialize` makes of it. Below it are: a number is found again in
  its bytes on a machine of the same byte order, and in the reversed ones on the other
  (`ReadFromMemory`, `NumbersReadBack`), which needs division with remainder by powers
  of `Radix`; a value that was written and is followed by anything is read, and what follows
  is left (`ValueArrives`, by induction on how deep its calls are nested);
  fields one after the other likewise (`FieldsArrive`, by induction on their number).
- `BufferFilled`: `Spec => []SizeExact`. The size computed for a value is the number
  of bytes written for it (`SizeOfWritten`), by the same induction.
- `BuildersBuild`: `Spec => []BuiltAsCalled`. The invariant, `BuildInv`, is that a builder that
  has not thrown has had nothing wrong yet, has one value for each field called for so far,
  and remembers a function exactly if the last call was one. Where
  `linda_tuple` puts its fields is `FieldsOfTuple`: what is put in comes out, at each size.
- `QueriesAnswered`, `VariablesHold`, `CallsInPlace`: `[]AnswersRight`, `[]FormalsHold`,
  `[]EvaluatedInPlace`, from `AnswerInv`. That an answer meets its query needs that comparisons
  of values are a total order up to the names of calls (`ValueOrder`, `StrictOrder`). That
  there is no answer only if no tuple meets the query follows from the scan, which comes
  after the indices. Only the assertion of a query for a one-field tuple, which comes
  before it, hangs on the index: it fails although the tuple is there
  unless the index finds it. So `Nodes` says that filing keeps an index sorted, with
  each tuple under its field, and `Lookups` that a lookup by a value goes through
  every tuple that has it, which is the correctness of `LowerBound` on a sorted node (`Bisected`).

The library's induction theorems take an operator as their parameter and cannot be used
here. `SetInduction` and `Recursion` in `SequenceLemmas` take a set and a function
instead: with them one can show what recursive functions compute, as long as each
step of the recursion is itself a function. `Power`, `RoomFor`, `FlattenSeq`, `ValueSize`, `Writer`,
`Reader`, `LowerBound`, `Node` and `Accepts` are treated in this way, and the functions on trees
with an induction over their levels (`HeightRecursion` and the lemmas after it).

Model-checked only: liveness (`MarkedServed`, `Finishes`, and the violated `BlockedServed`),
which is out of the prover's reach.

## 6. What is not modelled, and what is next

Not modelled:

- of the payloads, `force_set_upper`, which nothing calls, and `remove` and the merges
  of `vector_payload`: the first does not compile, and only a removal calls the others.
  Nor is a `vector_payload` ever empty in a tree, where `upsert_kv` would compare the
  new key with one that is not there (`vector_payload.hxx:290`).
- the macros of `eval`, which register functions before `main` runs and drop the
  tuple they build; iterator arithmetic, hashes and printing of tuples.
- the allocator hooks and the type erasure of the broadcast interface, which only
  forward.
- data races inside `std::unordered_set` and in the growth of the list's chunk vector,
  and the overflow of `_sync_needed` after 2^31 outs.
- MPI itself, which is taken as the code uses it: ordered per pair of ranks, reliable.
  The code has no way to meet a rank that dies, and so neither have the models.

Next, in this order:

1. `Queries` over a tree of several nodes: the descent by a comparison that is the wrong
   way around, beyond one node, which `Probes` and `AnswersRight` stop at.
2. `Store` over `Index`: its lookups by what an index promises, so that the
   refinement covers indices of any number of keys.
3. A property for replicas that differ after a debt has swallowed a later `out`.
