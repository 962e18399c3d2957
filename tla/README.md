# A formal model of mykvs

mykvs is an in-memory key-value server with a memcached-like protocol. A main
thread accepts connections and gives them to a fixed number of worker threads;
each worker runs an epoll loop, parses the commands of its connections and runs
them on one hash table that all workers share; a timer thread removes expired
items. This directory models the parts of it where the order of steps matters,
checks them with TLC and proves the most important facts with TLAPS.

Paths below are relative to the repository; `hashtable.c` is
`src/src/myclib/hashtable.c`, and so on.

## 1. Inventory

| Component | Code | State | Operations |
|---|---|---|---|
| item store | `hashtable.c`, `dictionaryitem.c` | chains of items, one lock for every `lockSize`-th slot, `usedMemory`, `evictionPosition`; per item: key, value, expiry, reference count | get, return, set, remove, evict, remove expired |
| KVS | `kvs.c` | the store, the connection list, the threads, the memory limit | store commands, evict if needed, vacuum, add connection, clean up, observe, control, new, delete |
| connection | `connection.c` | receive buffer, state, the "set" being read | handler (receive, parse, run, reply), close, delete |
| timer thread | `timerthread.c` | thread, condition, deadline | start, loop, delete |
| worker thread | `kvsthread.c` | event loop, control socket | main, control, add connection, delete |
| event loop | `pal/pal_linux.c` | epoll set, batch of events | register, run, delete |
| control sockets | `utils.c` | - | send SHUTDOWN |
| server process | `main.c` | listening socket, signal handlers | accept, main loop, start, shut down |
| linked list | `linkedlist.c` | doubly linked entries, cursor, size | next, prev, add, remove, delete |
| character list, trie | `chlist.c`, `trie.c` | base/check arrays | used by no other part |
| string utilities | `stringutil.c` | - | hash, tokenize |

How they interact:

* Workers and the timer meet in the item store, under per-slot locks, except
  for `usedMemory` (atomic) and `evictionPosition` (plain, unlocked). An item
  that a worker sends to a client is kept by its reference count, outside of
  any lock.
* The main thread and a worker meet in the `Connection`: the worker sets it
  `CLOSED`, the main thread frees closed connections when its list is full.
* Main thread, workers and the timer meet at shutdown: `SIGTERM` makes the
  handler connect to the control socket; the main loop then tells each worker
  through its own socket, ends, and `KVS_Delete` takes everything apart.

What makes each part correct:

* item store: no key twice; the reference count is the number of owners; memory
  accounting is exact; over the limit somebody evicts; locks are given back; what
  a client sees is a cache, whatever the interleaving.
* connection: commands are run in the client's order, exactly once, however the
  stream is cut; the worker never leaves the loop with work it could do.
* timer: never early, called again and again, deleted without a leak or a hang.
* connection pool: a connection is freed once, after its worker is done with it;
  no two connections share a descriptor; closed ones make room.
* server process: a SIGTERM is heeded, everybody ends, what was made is freed once,
  whatever call of the start has failed.
* trie: to its users a map, whatever its nodes have to move.

`PROJECT.json` lists the hazards with their lines and the properties that cover
them; those without a property say why.

## 2. Modules

**`Cache`** is the abstract store: a partial map from keys to values, and the
entry each client is reading. `Store`, `Drop`, `Hit` and `Release` are all that
can happen.

**`HashTable`** is the item store with the KVS operations that drive it.
`table[s]` is the chain of slot `s`, head first, as a sequence of heap addresses;
`heap`, `refCnt` describe each address, which is used again after a free; `locks`
says who holds which slot lock. A thread's place is `pc`, its locals `item`, `arg`
and `walk`. A step is what a thread does between two points where another thread
could see or change what it uses. A critical section is one step when nothing
in it can be seen in between; two are split and hold their lock from step to
step:

* `HashTable_Set`, which lowers `usedMemory` and then raises it, so that an
  evictor can read it in between (`HashTable_Set`, `SetUnlinkOld`, `SetLinkNew`);
* the sweep of `EvictFromSlot` (`SweepLock`, `SweepKeep`, `SweepRemove`,
  `SweepUnlock`), one item at a time, because its `prevItem` may be an item it has
  just removed. `stale` in `walk` says so; an unlink through such an item
  (`StaleUnchain`) leaves the item in the chain, and sets `broken`. What later
  steps do then depends on freed memory, so the model goes no further. `Spaced`
  says that of any two neighbours in a chain one has not expired: while it holds
  no sweep goes wrong, whatever else shares the chain.

`HashTable_Evict` reads `evictionPosition`, then the time, sweeps a slot, scans
for the item that expires first (and, on request, any item), slot by slot, and
publishes its position, each as a step of its own; `KVS_Vacuum` does the same on
the timer thread. Values are told apart by length, keys by a hash given as
a constant.

**`Connection`** is one connection: the stream the client sends, as messages of
bytes, the bytes not yet received, and the buffer. `Receive` takes any part of
what is on the way that fits; after that each command, and each return to the
event loop, is a step. The client may go away at any moment, from when on sends
may fail. The answers of the store are open: other clients change it.
The words of a command line are one byte in the model; the counts of
newline, CR, data and limits are those of the code, scaled down.

`strtol` takes the end of a line for white space and is told neither where the line ends nor
what has been received. So a number that a "set" line lacks (`missing`) is read from what
follows in the buffer (`Beyond`), or from the bytes left there by what was in it before
(`Stale`, any of which may be there), also when digits that were received last go on in
stale ones; `Sizes` are the sizes this may come to, and `MayFail` says when the line may be
refused instead. `misread` records that such a line was taken for complete: what is run from
then on are not the client's messages, but the model goes on.

**`TimerThread`** is the timer: the clock, the deadline in seconds and
nanoseconds, the thread and its owner. `pthread_cond_timedwait` may time out, be
signalled, wake up without a reason, or refuse a time that is not normal. The code
waits with a mutex it has not locked, which POSIX leaves undefined; the model
takes the outcome of the usual implementation, where this wait behaves like any.

**`LinkedList`** is the list with its cells, `next`, `prev` and cursor;
`LinkedList_AddFails` is the addition without memory, which overwrites `tail`
(`damaged`). It refines **`List`**, a sequence with a cursor.

**`ConnectionPool`** extends `LinkedList` with its user: the main thread in
`accept_handler` and `KVS_AddConnection`, with the clean-up one connection at a
time, and the workers, which close connections in the two halves of
`Connection_Close` (`MarkClosed`, `CloseSock`). Descriptors are numbers, the lowest free
one is used again at once; `epoll` says which worker and connection an open
descriptor is registered with. Each call of `KVS_AddConnection` may fail; if it
is the registration, the connection stays in the list for ever. Nothing keeps
the main thread from freeing a connection between the two halves of its close;
`raced` records that, and as the worker then reads freed memory the model goes
no further. The same holds after the addition that has lost the list's tail. The
clean-up's own list is a sequence, whose additions succeed.

**`Server`** is the life of the process: `main`, `mainloop`, `KVS_New`, `KVS_Observe`, the
two kinds of event loop with the batches `epoll_wait` returns, the control sockets and
what comes in through them, and `KVS_Delete` in its order. `main` and `worker` say where
each thread is; `nth` is the counter of the main thread's loops; `obj` says of everything
the process allocates whether it is live or freed. A worker's handler is called in one
step and returns in another, so the main thread may do anything in between; what the
handler does is in the other modules. The timer is `TimerThread` itself, by INSTANCE,
without its clock. Each call of the start may fail, and so may each step of
`SendShutdownCmd`; other processes may connect to a control socket and say something
else or nothing. `KVS_Delete` frees the store, the connections and a worker's event loop
before it joins the threads that use them. When one of them gets there first the
model sets `fault` and stops: this happens when the main loop ends without a SHUTDOWN,
and also after one, when a worker or the timer is still busy or about to wake up.

**`Trie`** is the double-array trie, with the character lists as sequences; **`Map`** is what it
refines. `trie` is the struct, `call` the `Trie_Set` that goes on, one character at a
step, so that between any two steps each search must find what it would have found
before. Keys have any characters from 0 to `CharMax`. `Signed` is the conversion of
`CharList_Next`, which returns a `char`: characters in the upper half come back negative, in the
search for a base, where they look at other slots (or before the arrays, which may then look
free or not: `Fits`), and in a move. A move whose characters all come back as they are takes the
slots at once (`MoveAtOnce`); otherwise slots that are not the children's are moved and told, one
after the other, which may be one another's (`MoveInTurn`), and what is done to memory before the
arrays is left out. `strayed` records such a move, and a new node in the root's own slot, which
looks free and which character 0 can reach. The model goes no further then.

**`MCHashTable`, `MCConnection`, `MCConnectionPool`, `MCTrie`** give TLC its instances.
The proofs are in **`HashTableProofs`** (the invariant) and **`HashTablePromises`** (what follows
for the users of the store), **`ConnectionProofs`**, **`ConnectionPoolProofs`** (the list and its
user), **`ServerProofs`**, **`TimerThreadProofs`** and **`TrieProofs`**; **`Induction`** holds the
lemmas about naturals, finite sets and sums that several of them rest on.

## 3. Runs

| Run | Shows |
|---|---|
| `ht_chains` | keys sharing one chain and one lock, evictions of either kind, expiry, failing replies: `KeysUnique`, `RefCountExact`, `MemoryAccounted`, and `CacheUntilBroken`, the step-by-step refinement of `Cache` up to the first broken chain; `OnlyNeighboursBreak` says when a chain can be broken |
| `ht_evict` | two keys in two of three slots that share a lock, under fairness: `IInv` (the invariant of the proofs), `HeapBounded`, `ImplementsCache`, the whole refinement, `LocksReleased` and `HeapRecovers` |
| `conn_frames` | every script of up to three messages of fourteen kinds, cut in every way: `RepliesMatch` (until a line is misread), `StallsOnlyAfterReturn`, `Answered`, `AllRead` |
| `pool_cleanup` | connections made, closed and freed while others are: `WellFormed` and `ImplementsList` of the list, `RegisteredAlive`, `ListedOnce`, `RefusedOnlyWhenFull` |
| `timer_calls` | deadlines across the end of a second: `NeverEarly`, `CalledAgain` |
| `server_life` | start, service, SIGTERM and exit, with one call that fails anywhere: `FreedOnce`, `CleanExit`, `TermHeeded`, `ShutdownCompletes` |
| `trie_map` | keys that share prefixes, set in any order, with moves, expansions and failed ones: `DoubleArraySound`, `DoublingMakesRoom`, and `MapUntilStrayed`, the refinement of `Map` up to the first node that strays |

Five runs show where the code does not do what the repository says:

| Run | Disagreement |
|---|---|
| `ht_sweep` | two expired neighbours in a chain: the second is freed but stays linked (`hashtable.c:127`) |
| `ht_lapsed` | a reader of an expired item removes the fresh one stored since (`hashtable.c:275`) |
| `ht_lasting` | an item stored with exptime 0 is removed by an eviction that may not take any item: 0 becomes the time of now (`dictionaryitem.c:37`), although `hashtable.c` tests `expires > 0` as if 0 meant "never" and `test_hashtable.h` expects the item to stay |
| `conn_stall` | a command behind a `delete` or a wrong line in one segment is not run (`connection.c:160`) |
| `timer_join` | the signal of `TimerThread_Delete` is lost and the join never returns (`timerthread.c:80`) |

Three more have no run. A "set" line that lacks a number may take it from what follows it, and be
stored, or wait for data, where `connection.c:119` says "wrong command. ignore this line.":
`Connection` has it, and `RepliesMatch` is stated up to the first line that is `misread`. A key with
a byte above 127 is lost when one of its nodes moves (`chlist.c:33`), although `test_trie.h` stores
such a key and expects to find it: `Trie` has it, and `MapUntilStrayed` holds until it happens, as it
does until a byte 0 takes the root's own slot. A SIGTERM before the control socket listens is lost,
or kills the process.

### Bounds

* Two workers and the timer: every race in the store is between two operations
  that meet in a slot, or between two evictors.
* Two keys and three items (two in `ht_evict`): a chain of two, a third item being
  built or still read. The sweep needs two expired neighbours, no more.
* One slot in `ht_chains` puts everything in one chain. The keys of `ht_evict` are in two slots of
  three under one lock, so that evictors meet an empty slot and the wrap-around, overtake one another
  between slots, and take the same lock again and again. A hash that reaches the number of
  slots makes the reduction matter.
* `ht_chains` takes workers, items and keys as interchangeable, which all its properties do.
  `OnlyNeighboursBreak` is the only one that is not about single steps; it is made of two state predicates
  that no permutation changes, and its specification has no fairness, so that a behaviour
  of the reduced graph refutes it exactly when one of the whole graph does.
* `MaxHeapSize` 3: one item of either length fits and two never do, so every second
  item takes the store over its limit.
* The clock has two or three values: before and after an expiry. Items expire a second after
  they are stored (`ExpTime` 1), or also at once (0, in `ht_chains`, `ht_lapsed`). `HeapBounded` and
  `HeapRecovers` have 1 only: they would say little with 0, whose items the code evicts
  and its tests expect to stay (`ht_lasting`).
* A buffer of 8 bytes, lines of 2 to 4: a "set" fills it exactly, one is a
  byte too large, and three short messages fit at once. Two kinds of "set" line lack one and two
  numbers, and one line is a number; the stale bytes of the buffer may be one (`Stale`), or not be one.
* Three connections, three list entries and `MaxConnections` 3: a full list, with the
  first, a middle, the last and the only entry to remove. Four descriptors are those
  of a full list and the one to be refused. Two workers close at the same time.
* `Server`: two workers and two clients, one of each worker. One SIGTERM (`MaxTerm`) and one
  mishap (`MaxMishaps`): a failed call, a stray control connection or a spurious wakeup,
  at any point. Failures are independent: each ends in the one place that deletes.
* `Trie`: characters up to `CharMax` 7, of which those from 4 on come back as others, and arrays
  of 13 elements, which leave room for 4 bases and can be doubled once (`MaxSize` 26), so that
  an expansion comes early, in a search for the root or a deeper node. The keys are prefixes of one another and branch at two depths, so that a node
  moves with its grandchildren; one has a character that comes back as another, one the
  character 0. Two records tell a lost one from another's. The model stops when a node has
  strayed (`CHECK_DEADLOCK FALSE`).
* `NSPerSec` 4 and `Interval` 3: deadlines with and without a carry. The origin of
  time moves along (`MaxSec`), so the clock never ends; `MaxLate` bounds how late
  the timer thread is scheduled.

### Fairness

* Store: a worker inside an operation, and the timer inside a vacuum, keep running
  (`WF_vars(~broken /\ Continue(t))`, `WF_vars(~broken /\ Vacuum)`). They block only
  on a slot lock, whose critical sections are finite; the kernel schedules
  runnable threads. Nobody has to start an operation, and the clock may stand still.
  Weak fairness says nothing for a thread whose lock is taken again and again by
  others; no property is about such a thread alone. A worker that keeps taking
  locks by storing past the limit has to evict, and so brings the store back itself.
* Connection: the worker handles a readable connection, and what was sent arrives.
* Server: the main thread, each worker and the timer thread go on when they can, which
  is when what `epoll_wait` waits for is at a control socket, and handlers return.
  Nobody has to connect, send or signal. `recv` on a control connection that stays
  mute (a `SendShutdownCmd` whose `send` failed) blocks for ever, as do joins of threads
  that do not end.
* Timer: time passes, the thread is scheduled, `func` returns, the owner goes on
  once it can. A spurious wakeup is allowed and never forced.

`HeapRecovers` and `HeapBounded` are checked with replies that can be sent
(`SendMayFail = FALSE`): when the reply to a "set" fails, `connection.c:184` skips
the eviction, and the store stays over its limit until the next "set".

## 4. Proofs

Each theorem holds for every value of the constants that the named assumptions of its
module allow; the runs above show the same properties on small instances.

### The item store

From the assumptions of `HashTable` (the timer is no worker, there is a lock, lengths are
positive, and so on), for every number of threads, keys, items, slots and locks:

* `Invariance`: `Spec => []IInv`. `IInv` is `TypeOK` and, until a chain is broken,
  four parts. `ChainsSound` and `CountsSound` are the properties themselves; they are
  not inductive alone. `ThreadsSound` says what a thread may rely on between its
  steps: an item being built is its builder's alone and not linked, or linking it
  would put it in two places. `LocksSound` says that a split critical section holds
  its lock throughout, and that no item has the key which is about to be linked.
* `TypeCorrect`, `UniqueKeys`, `ExactCounts` follow.
* `MemoryIsAccounted` and `HeapStaysBounded` (`HashTablePromises`). `usedMemory` is the sum
  of the sizes of the linked items at every step until a chain is broken, between the two
  halves of a "set" too. Each step changes that set by one item at most, and the lemmas of `Induction` say what this
  does to a sum. The bound needs a second invariant (`EvictInv`): over the limit some worker
  is about to check, sweep or scan, and one that scans has every slot with an item still
  ahead of it (`WillEvict`). It is proved where replies can be sent
  (`SendMayFail = FALSE`): otherwise it does not hold (`connection.c:184`, see the hazards).
* `TableIsCache`: every step of the store is a step of `Cache`, or
  none, until a chain is broken; the step proof has one case per action.
* `SweepsBreakOnlyNeighbours`: a sweep breaks a chain only where two neighbours in it have expired
  together. `SweepSound` is the invariant it rests on while they have not: the time a sweep goes
  by is no later than the clock's, and the item it has come to after one it removed has not
  expired at that time, which stays so because nobody else changes a chain whose lock a sweep
  holds (`SweptChainKept`). `SpacedIsCache` follows: in a behaviour in which no two neighbours
  have expired together the whole refinement holds, with chains of any length.

### The connection

`ConnectionInvariance` is about any script of messages of which `MessageAssumption` holds.
Its `Framed` says what a client's message is: a line with the data its own length
announces, or a line without, of which a "set" line that lacks numbers is one to be answered as
wrong. The inductive invariant says that, until such a line has been misread, what is unread, what
is buffered and what is on the way are together the rest of the script (`InStep`), that the
length of a "set" which waits for its data is that of the line it came with (`DataSound`),
that replies and commands so far are those of the messages so far, and, misread or not, what the
worker has seen when it goes back to the event loop. Four theorems follow. `BufferSafe` is the type
invariant, with the bound of the buffer; `CommandsAreMessages` says that no cut of the stream
adds, loses or swaps a command, until a line is misread; `StallsAreReturns`, that the
only commands left in the buffer are those behind a handler's early return; and
`CompleteLinesAreRead`, that a client whose "set" lines lack no number is never misread.

### The connection list and its user

`PoolInvariance` is about any number of connections, descriptors, workers and cells.
`Chained(ch)` says that the cells of the sequence `ch` are linked to one another in both
directions, from `head` to `tail`, and that `size` is its length; there is such a `ch` at
every step while the list is not damaged. What it is follows for each operation
from where the cell is in it (`Pos`): first, last, in the middle, alone. On it rest the parts
about the pool: an allocated connection is listed once, except for one on its way
into the list or out of it (`Listed`); a worker's events are about connections that are still
there (`Alive`) unless `raced`; the workers at a close are at different connections (`Closers`);
and the clean-up's list holds each closed connection once, and none that it has passed
(`Found`, `Cleaned`). `ListWellFormed`, `RegisteredStayAlive`, `ConnectionsListedOnce` and
`RefusalsAreJustified` (an action property) follow, and so does `ListIsSequence`: the cells
implement the sequence with a cursor of `List`.

### Server and timer

* `ServerInvariance`, and from it `ServerFreesOnce` and `ServerExitsClean`: whatever has failed, no
  object is freed twice, and at the exit none is left, unless freed memory has been used on
  the way (`fault`). The invariant follows the order of `main`, `KVS_New` and `KVS_Delete`:
  where the main thread is says which objects are live and which threads may run.
* `TimerNeverEarly`: a whole interval passes between two calls of `func`, for every interval
  and every length of a second. The invariant relates what is left until the deadline to what
  has passed since the last call; its arithmetic rests on `DeadlineExact` (the carry is
  right), `BeforeTicks` and `TickTime`.
* `TimerTypes` is the type invariant.

### The trie

`TrieInvariance` is about keys of any characters, records and sizes of the arrays that
`TrieAssumption` allows (twice `DASize` is more than three times the number of characters, for a
search that also looks below the base), until a node strays. `Sound` says that `check` and the lists
of children are a double array, that all four arrays have one length, and that no child falls
outside; `CallSound` says where the `Trie_Set` that goes on stands. `MoveSound`, `BaseSet`,
`LeafAdded` and `ExpandSound` show that each change of the arrays keeps them sound: a move in
which slots are left, slots are taken, and grandchildren learn the new names of their parents.
`Embeds` says what it does to the nodes, by a map of their names, and `EmbeddedPath` that
paths follow that map, so every search finds what it found before. With `PathsApart` (no two keys
lead to one node) this gives:

* `ArraysStaySound`: `check` and `children` agree, and free slots are blank, until a node strays.
* `DoublingIsEnough`: arrays that have just been doubled always have room, whichever characters
  come back as others.
* `TrieIsMap`: every step is one of `Map`, until a node strays (`MapUntilStrayed`).
* `PlainKeysAreMapped`: where keys have only characters that come back as they are, and not 0, no
  node strays, and the whole refinement holds without condition.

### How recursion is reasoned about

The installed provers cannot instantiate a theorem that takes an operator as its parameter,
such as that of induction over the naturals. `Induction` says the same with a set: the
naturals that are not in it have a least one (`NatLessThanWellFounded`), which contradicts
the step. From this come that the recursive functions of the models exist and unfold (`Path`,
the cells of the list, the folds behind a sum), and what a sum over a set gains or loses
with one element.

### Only model-checked

All liveness properties (`LocksReleased`, `HeapRecovers`, `Answered`, `AllRead`, `CalledAgain`,
`TermHeeded`, `ShutdownCompletes`): their proofs would need ENABLED, which is out of the prover's
reach. The five disagreements that runs show in section 3 are counterexamples, which TLC finds. Every
invariant, action property and refinement that a passing run checks is also a theorem.

## 5. Not modelled, and the plan

Left aside for good: logging, the wording of replies, key and value bytes, negative
and overlong numbers in a "set" line, allocation failure in the store, in `Trie_New` and
in a character list, what a `Trie_Move` does to memory before its arrays, and what nothing calls: `StringUtil_Tokenize` (which keeps no state),
`LinkedList_Prev` and `CharList_Remove`. The hash is a constant. In `Server` a client's
connection is refused or made in one step (`ConnectionPool` has the steps), descriptors
have no numbers, and `epoll_wait` fails with EINTR only.

What is left is beyond the provers (liveness) or needs a model of freed memory: what the
store, a worker or the clean-up does after `broken`, `raced`, `damaged` or `fault`, and a trie after
`strayed`.
