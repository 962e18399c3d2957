----------------------------- MODULE HashTable -----------------------------
(***************************************************************************)
(* The shared item store: src/src/myclib/hashtable.c over                  *)
(* src/src/myclib/dictionaryitem.c, with the three ways kvs.c drives it:   *)
(* commands of the worker threads, KVS_EvictIfNeeeded after each "set",    *)
(* and KVS_Vacuum on the timer thread.                                     *)
(*                                                                         *)
(* A step is what one thread does between two points where another thread  *)
(* can see or change what it uses.  A critical section of a slot lock is   *)
(* one step when usedMemory, which is read without a lock, moves at most   *)
(* once or one way inside it; HashTable_Set lowers and then raises it, and *)
(* the ALL_EXPIRED sweep walks a chain it is cutting, so these two are     *)
(* split and hold the lock from step to step.  A chain is a sequence of    *)
(* items, head first; Item is the set of heap addresses, reused after a    *)
(* free.  A value is told apart by its length.                             *)
(***************************************************************************)
EXTENDS Integers, Sequences, FiniteSets, SequencesExt, FiniteSetsExt

CONSTANTS
  Worker,        \* the KVSThreads that run commands
  Timer,         \* the TimerThread, which runs KVS_Vacuum
  NoThread,
  Key, NoKey,
  Item, NoItem,  \* heap addresses
  Freed,         \* what an address holds while it is not allocated
  Size,          \* number of slots (INIT_CAPACITY in kvs.c)
  LockShift,     \* lockSize is capacity >> LockShift, 5 in the code
  Hash,          \* StringUtil_Hash on the keys of the instance
  ValueLen,      \* lengths of the values clients store
  Overhead,      \* what DictionaryItem_New adds to valuelen
  ExpTime,       \* exptimes clients send
  MaxHeapSize,
  SendMayFail,   \* may a reply to "set" fail, which skips the eviction?
  AnyCalls,      \* does a library client also call HashTable_Evict(.., true)?
  MaxTime        \* bound on the clock

Thread == Worker \cup {Timer}
Slot == 0 .. (Size - 1)
LockSize == Max({1, Size \div 2 ^ LockShift})
Lock == 0 .. (LockSize - 1)

ASSUME ThreadAssumption ==
  IsFiniteSet(Worker) /\ Timer \notin Worker /\ NoThread \notin Thread
ASSUME ItemAssumption ==
  /\ NoItem \notin Item /\ NoKey \notin Key
  /\ NoItem \notin [len : Nat, expires : Nat]
  /\ NoItem \notin [key : Key, value : [len : Nat, expires : Nat]]
  /\ Freed \notin [key : Key, len : Nat, expires : Nat]
ASSUME SizeAssumption ==
  Size \in Nat \ {0} /\ LockSize \in Nat \ {0} /\ Hash \in [Key -> Nat]
ASSUME DataAssumption ==
  /\ ValueLen \subseteq Nat \ {0} /\ Overhead \in Nat /\ ExpTime \subseteq Nat
  /\ MaxHeapSize \in Nat /\ MaxTime \in Nat \ {0}
  /\ SendMayFail \in BOOLEAN /\ AnyCalls \in BOOLEAN

VARIABLES
  table,         \* the chain of each slot
  locks,         \* who holds each slot lock
  usedMemory,
  evictionPosition,
  heap,          \* the contents of each allocated item
  refCnt,        \* the reference count of each item, 0 once freed
  now,           \* what my_time(NULL) returns, in seconds
  broken,        \* was a removal made through an item already removed?
  pc,            \* where each thread is
  arg,           \* the key a thread goes on to remove, after HashTable_Get
  item,          \* the item a thread is creating or reading
  walk           \* the locals of the eviction and expiry loops

shared == <<table, locks, usedMemory, evictionPosition, heap, refCnt, broken>>
locals == <<pc, arg, item, walk>>
vars == <<shared, now, locals>>

Content == [key : Key, len : ValueLen, expires : Nat]
NoWalk == [pos |-> 0, start |-> 0, time |-> 0, cursor |-> 0,
           stale |-> FALSE, evicted |-> FALSE, any |-> FALSE]
Walk == [pos : Slot, start : Slot, time : Nat, cursor : Nat,
         stale : BOOLEAN, evicted : BOOLEAN, any : BOOLEAN]
Evicting == {"evict", "clock", "lock", "sweep", "scan", "any", "return"}
PC == {"idle", "lapsed", "hold", "new", "link", "check", "timer", "expire"}
        \cup Evicting

Init ==
  /\ table = [s \in Slot |-> <<>>]
  /\ locks = [l \in Lock |-> NoThread]
  /\ usedMemory = 0
  /\ evictionPosition = 0
  /\ heap = [i \in Item |-> Freed]
  /\ refCnt = [i \in Item |-> 0]
  /\ now = 1
  /\ broken = FALSE
  /\ pc = [t \in Thread |-> "idle"]
  /\ arg = [t \in Thread |-> NoKey]
  /\ item = [t \in Thread |-> NoItem]
  /\ walk = [t \in Thread |-> NoWalk]

-----------------------------------------------------------------------------
(* Slots, chains and items *)

SlotOf(k) == Hash[k] % Size
LockOf(s) == s % LockSize
Unlocked(s) == locks[LockOf(s)] = NoThread

ItemSize(i) == Overhead + heap[i].len
Expired(i, time) == heap[i].expires > 0 /\ heap[i].expires < time

\* Faulty variants of HashTable_Search: one looks at the head only, one takes
\* any item of the slot for the key.
HeadOnlySearch(k) ==
  LET chain == table[SlotOf(k)] IN {n \in DOMAIN chain : n = 1 /\ heap[chain[n]].key = k}
SlotOnlySearch(k) == {n \in DOMAIN table[SlotOf(k)] : n = 1}

\* The position of the first item of its chain with key k, if there is one.
HashTable_Search(k) ==
  LET chain == table[SlotOf(k)] IN
  {n \in DOMAIN chain : /\ heap[chain[n]].key = k
                        /\ \A m \in 1 .. (n - 1) : heap[chain[m]].key # k}

\* An item starts life with one reference, owned by its creator and then by
\* the table.  exptime is relative, whatever it is.
DictionaryItem_New(i, k, len, exptime) ==
  /\ heap[i] = Freed
  /\ heap' = [heap EXCEPT ![i] = [key |-> k, len |-> len,
                                  expires |-> now + exptime]]
  /\ refCnt' = [refCnt EXCEPT ![i] = 1]

\* Faulty variant: the reader takes no reference.
ForgottenRef(i) == UNCHANGED <<heap, refCnt>>

DictionaryItem_Ref(i) ==
  /\ refCnt' = [refCnt EXCEPT ![i] = @ + 1]
  /\ UNCHANGED heap

DictionaryItem_Deref(i) ==
  /\ refCnt' = [refCnt EXCEPT ![i] = @ - 1]
  /\ heap' = IF refCnt[i] <= 1 THEN [heap EXCEPT ![i] = Freed] ELSE heap

\* Faulty variant: the accounting is forgotten.
UncountedRemove(s, n) ==
  /\ table' = [table EXCEPT ![s] = RemoveAt(@, n)]
  /\ UNCHANGED usedMemory
  /\ DictionaryItem_Deref(table[s][n])

\* Unlinks the n-th item of slot s, given the item's real predecessor.
HashTable_DoRemove(s, n) ==
  /\ table' = [table EXCEPT ![s] = RemoveAt(@, n)]
  /\ usedMemory' = usedMemory - ItemSize(table[s][n])
  /\ DictionaryItem_Deref(table[s][n])

\* Unlinks the n-th item of slot s through a predecessor that is no longer
\* in the chain: the real predecessor keeps pointing at the item, the item's
\* next becomes NULL, and the removed predecessor is written to.
StaleUnchain(s, n) ==
  /\ table' = [table EXCEPT ![s] = SubSeq(@, 1, n)]
  /\ usedMemory' = usedMemory - ItemSize(table[s][n])
  /\ DictionaryItem_Deref(table[s][n])
  /\ broken' = TRUE

KeepItems == UNCHANGED <<table, usedMemory, heap, refCnt>>

\* A whole critical section that removes one of the candidates, if any.
RemoveOneOf(s, candidates) ==
  /\ Unlocked(s)
  /\ \/ \E n \in candidates : HashTable_DoRemove(s, n)
     \/ candidates = {} /\ KeepItems

Goto(t, label) == pc' = [pc EXCEPT ![t] = label]

\* After the reply to a "set": KVS_EvictIfNeeeded is skipped if it fails.
Replied(t) == Goto(t, "check") \/ (SendMayFail /\ Goto(t, "idle"))

-----------------------------------------------------------------------------
(* Commands of a worker thread *)

\* "get": a key not found changes nothing and is not a step.  An expired item
\* is not removed here but after the lock is given up.
HashTable_Get(t, k) ==
  /\ pc[t] = "idle"
  /\ Unlocked(SlotOf(k))
  /\ \E n \in HashTable_Search(k) :
       LET i == table[SlotOf(k)][n] IN
       \/ /\ Expired(i, now)
          /\ Goto(t, "lapsed")
          /\ arg' = [arg EXCEPT ![t] = k]
          /\ UNCHANGED <<heap, refCnt, item>>
       \/ /\ ~Expired(i, now)
          /\ DictionaryItem_Ref(i)
          /\ Goto(t, "hold")
          /\ item' = [item EXCEPT ![t] = i]
          /\ UNCHANGED arg
  /\ UNCHANGED <<table, locks, usedMemory, evictionPosition, broken, now, walk>>

\* The HashTable_Remove that HashTable_Get calls for an expired item.
HashTable_RemoveLapsed(t) ==
  /\ pc[t] = "lapsed"
  /\ RemoveOneOf(SlotOf(arg[t]), HashTable_Search(arg[t]))
  /\ arg' = [arg EXCEPT ![t] = NoKey]
  /\ Goto(t, "idle")
  /\ UNCHANGED <<locks, evictionPosition, broken, now, item, walk>>

\* The item has been sent to the client; its references are given back.
HashTable_Return(t) ==
  /\ pc[t] = "hold"
  /\ Unlocked(SlotOf(heap[item[t]].key))
  /\ DictionaryItem_Deref(item[t])
  /\ item' = [item EXCEPT ![t] = NoItem]
  /\ Goto(t, "idle")
  /\ UNCHANGED <<table, locks, usedMemory, evictionPosition, broken, now,
                 arg, walk>>

\* "delete", and "set" with 0 bytes; a key not found changes nothing.
HashTable_Remove(t, k) ==
  /\ pc[t] = "idle"
  /\ HashTable_Search(k) # {}
  /\ RemoveOneOf(SlotOf(k), HashTable_Search(k))
  /\ Goto(t, "idle") \/ Replied(t)
  /\ UNCHANGED <<locks, evictionPosition, broken, now, arg, item, walk>>

\* "set", in three steps: the new item is built without a lock, ...
HashTable_Set(t, k, len, exptime) ==
  /\ pc[t] = "idle"
  /\ \E i \in Item : /\ DictionaryItem_New(i, k, len, exptime)
                     /\ item' = [item EXCEPT ![t] = i]
  /\ Goto(t, "new")
  /\ UNCHANGED <<table, locks, usedMemory, evictionPosition, broken, now,
                 arg, walk>>

\* Faulty variant: "set" leaves the old item under its key.
SetKeepsOld(t) ==
  LET k == heap[item[t]].key IN
  /\ pc[t] = "new"
  /\ Unlocked(SlotOf(k)) /\ KeepItems
  /\ locks' = [locks EXCEPT ![LockOf(SlotOf(k))] = t]
  /\ Goto(t, "link")
  /\ UNCHANGED <<evictionPosition, broken, now, arg, item, walk>>

\* Faulty variant: the lock is given up as soon as the old item is gone.
SetLetsGo(t) ==
  LET k == heap[item[t]].key IN
  /\ pc[t] = "new"
  /\ RemoveOneOf(SlotOf(k), HashTable_Search(k))
  /\ Goto(t, "link")
  /\ UNCHANGED <<locks, evictionPosition, broken, now, arg, item, walk>>

\* ... then the lock is taken and an item with the same key removed, ...
SetUnlinkOld(t) ==
  LET k == heap[item[t]].key IN
  /\ pc[t] = "new"
  /\ RemoveOneOf(SlotOf(k), HashTable_Search(k))
  /\ locks' = [locks EXCEPT ![LockOf(SlotOf(k))] = t]
  /\ Goto(t, "link")
  /\ UNCHANGED <<evictionPosition, broken, now, arg, item, walk>>

\* ... and the new item is counted, linked in front, and the lock released.
SetLinkNew(t) ==
  LET s == SlotOf(heap[item[t]].key) IN
  /\ pc[t] = "link"
  /\ usedMemory' = usedMemory + ItemSize(item[t])
  /\ table' = [table EXCEPT ![s] = <<item[t]>> \o @]
  /\ locks' = [locks EXCEPT ![LockOf(s)] = NoThread]
  /\ item' = [item EXCEPT ![t] = NoItem]
  /\ Replied(t)
  /\ UNCHANGED <<evictionPosition, heap, refCnt, broken, now, arg, walk>>

-----------------------------------------------------------------------------
(* Eviction, by a worker that has just stored something *)

NextPos(p) == IF p + 1 >= Size THEN p + 1 - Size ELSE p + 1

\* The item EvictFromSlot removes in each of its one-item modes.
FirstExpired(s, time) ==
  {n \in DOMAIN table[s] : /\ Expired(table[s][n], time)
                           /\ \A m \in 1 .. (n - 1) : ~Expired(table[s][m], time)}

SoonestExpiring(s) ==
  LET Expires(n) == heap[table[s][n]].expires
      candidates == {n \in DOMAIN table[s] : Expires(n) > 0}
  IN {n \in candidates : \A m \in candidates :
        Expires(m) >= Expires(n) /\ (m > n => Expires(m) > Expires(n))}
HeadOf(s) == {n \in DOMAIN table[s] : n = 1}

KVS_EvictIfNeeeded(t) ==
  /\ pc[t] = "check"
  /\ Goto(t, IF usedMemory > MaxHeapSize THEN "evict" ELSE "idle")
  /\ UNCHANGED <<shared, now, arg, item, walk>>

\* A client of the library that is not kvs.c.
EvictAny(t) ==
  /\ AnyCalls /\ pc[t] = "idle"
  /\ walk' = [walk EXCEPT ![t].any = TRUE]
  /\ Goto(t, "evict")
  /\ UNCHANGED <<shared, now, arg, item>>

HashTable_Evict(t) ==
  /\ pc[t] = "evict"
  /\ walk' = [walk EXCEPT ![t].pos = evictionPosition,
                          ![t].start = evictionPosition]
  /\ Goto(t, "clock")
  /\ UNCHANGED <<shared, now, arg, item>>

EvictReadClock(t) ==
  /\ pc[t] = "clock"
  /\ walk' = [walk EXCEPT ![t].time = now]
  /\ Goto(t, "lock")
  /\ UNCHANGED <<shared, now, arg, item>>

\* EvictFromSlot with ALL_EXPIRED: takes the lock, ...
SweepLock(t) ==
  /\ pc[t] = "lock"
  /\ Unlocked(walk[t].pos)
  /\ locks' = [locks EXCEPT ![LockOf(walk[t].pos)] = t]
  /\ walk' = [walk EXCEPT ![t].cursor = 1]
  /\ Goto(t, "sweep")
  /\ UNCHANGED <<table, usedMemory, evictionPosition, heap, refCnt, broken,
                 now, arg, item>>

\* ... passes an item that has not expired, which becomes prevItem, ...
SweepKeep(t) ==
  LET w == walk[t] IN
  /\ pc[t] = "sweep"
  /\ w.cursor \in DOMAIN table[w.pos]
  /\ ~Expired(table[w.pos][w.cursor], w.time)
  /\ walk' = [walk EXCEPT ![t].cursor = @ + 1, ![t].stale = FALSE]
  /\ UNCHANGED <<shared, now, pc, arg, item>>

\* Faulty variant: removes whatever is there.
SweepAll(t) ==
  LET w == walk[t] IN
  /\ pc[t] = "sweep"
  /\ w.cursor \in DOMAIN table[w.pos]
  /\ \/ ~w.stale /\ HashTable_DoRemove(w.pos, w.cursor) /\ UNCHANGED broken
     \/ w.stale /\ StaleUnchain(w.pos, w.cursor)
  /\ walk' = [walk EXCEPT ![t].stale = TRUE, ![t].evicted = TRUE]
  /\ UNCHANGED <<locks, evictionPosition, now, pc, arg, item>>

\* ... removes an expired item, which becomes prevItem too, although it is no
\* longer in the chain ...
SweepRemove(t) ==
  LET w == walk[t] IN
  /\ pc[t] = "sweep"
  /\ w.cursor \in DOMAIN table[w.pos]
  /\ Expired(table[w.pos][w.cursor], w.time)
  /\ \/ ~w.stale /\ HashTable_DoRemove(w.pos, w.cursor) /\ UNCHANGED broken
     \/ w.stale /\ StaleUnchain(w.pos, w.cursor)
  /\ walk' = [walk EXCEPT ![t].stale = TRUE, ![t].evicted = TRUE]
  /\ UNCHANGED <<locks, evictionPosition, now, pc, arg, item>>

\* Faulty variant: returns early, with the lock, when nothing has expired.
SweepKeepsLock(t) ==
  LET w == walk[t] IN
  /\ pc[t] = "sweep"
  /\ w.cursor \notin DOMAIN table[w.pos]
  /\ locks' = IF w.evicted THEN [locks EXCEPT ![LockOf(w.pos)] = NoThread] ELSE locks
  /\ walk' = [walk EXCEPT ![t].cursor = 0, ![t].stale = FALSE, ![t].time = 0]
  /\ Goto(t, IF w.evicted THEN "return" ELSE "scan")
  /\ UNCHANGED <<table, usedMemory, evictionPosition, heap, refCnt, broken,
                 now, arg, item>>

\* ... and releases the lock at the end of the chain.
SweepUnlock(t) ==
  LET w == walk[t] IN
  /\ pc[t] = "sweep"
  /\ w.cursor \notin DOMAIN table[w.pos]
  /\ locks' = [locks EXCEPT ![LockOf(w.pos)] = NoThread]
  /\ walk' = [walk EXCEPT ![t].cursor = 0, ![t].stale = FALSE, ![t].time = 0]
  /\ Goto(t, IF w.evicted THEN "return" ELSE "scan")
  /\ UNCHANGED <<table, usedMemory, evictionPosition, heap, refCnt, broken,
                 now, arg, item>>

\* Faulty variant: the loop gives up after its first slot.
SingleTurn(t, candidates, onEmptyRound) ==
  LET w == walk[t] IN
  /\ RemoveOneOf(w.pos, candidates)
  /\ walk' = [walk EXCEPT ![t].pos = NextPos(w.pos), ![t].evicted = candidates # {}]
  /\ Goto(t, "return")
  /\ UNCHANGED <<locks, evictionPosition, broken, now, arg, item>>

\* One turn of a one-item loop over the slots: the position moves on even
\* when something was removed, and the loop ends then or back at its start.
Turn(t, candidates, onEmptyRound) ==
  LET w == walk[t]
      evicted == candidates # {}
      next == NextPos(w.pos)
  IN
  /\ RemoveOneOf(w.pos, candidates)
  /\ walk' = [walk EXCEPT ![t].pos = next, ![t].evicted = evicted]
  /\ Goto(t, IF evicted THEN "return"
             ELSE IF next = w.start THEN onEmptyRound ELSE pc[t])
  /\ UNCHANGED <<locks, evictionPosition, broken, now, arg, item>>

EvictWithExpires(t) ==
  /\ pc[t] = "scan"
  /\ Turn(t, SoonestExpiring(walk[t].pos), IF walk[t].any THEN "any" ELSE "return")

EvictAnyItem(t) ==
  /\ pc[t] = "any"
  /\ Turn(t, HeadOf(walk[t].pos), "return")

\* The new position is published; kvs.c asks again while it makes progress.
EvictReturn(t) ==
  LET w == walk[t] IN
  /\ pc[t] = "return"
  /\ evictionPosition' = w.pos
  /\ walk' = [walk EXCEPT ![t] = NoWalk]
  /\ Goto(t, IF w.evicted /\ ~w.any THEN "check" ELSE "idle")
  /\ UNCHANGED <<table, locks, usedMemory, heap, refCnt, broken, now, arg, item>>

-----------------------------------------------------------------------------
(* Expiry, on the timer thread *)

KVS_Vacuum ==
  /\ pc[Timer] = "idle"
  /\ walk' = [walk EXCEPT ![Timer].time = now]
  /\ Goto(Timer, "timer")
  /\ UNCHANGED <<shared, now, arg, item>>

HashTable_RemoveExpired ==
  /\ pc[Timer] = "timer"
  /\ walk' = [walk EXCEPT ![Timer].pos = evictionPosition,
                          ![Timer].start = evictionPosition]
  /\ Goto(Timer, "expire")
  /\ UNCHANGED <<shared, now, arg, item>>

\* One slot; at most one item goes, and evictionPosition stays as it is.
RemoveExpiredTurn ==
  LET w == walk[Timer]
      candidates == FirstExpired(w.pos, w.time)
      next == NextPos(w.pos)
      over == candidates # {} \/ next = w.start
  IN
  /\ pc[Timer] = "expire"
  /\ RemoveOneOf(w.pos, candidates)
  /\ walk' = [walk EXCEPT ![Timer] = IF over THEN NoWalk ELSE [w EXCEPT !.pos = next]]
  /\ Goto(Timer, IF over THEN "idle" ELSE "expire")
  /\ UNCHANGED <<locks, evictionPosition, broken, now, arg, item>>

-----------------------------------------------------------------------------
Tick ==
  /\ now < MaxTime
  /\ now' = now + 1
  /\ UNCHANGED <<shared, locals>>

\* A command arrives.
Start(t) ==
  \/ \E k \in Key : HashTable_Get(t, k) \/ HashTable_Remove(t, k)
  \/ \E k \in Key, len \in ValueLen, e \in ExpTime : HashTable_Set(t, k, len, e)
  \/ EvictAny(t)

\* A command goes on.
Continue(t) ==
  \/ HashTable_RemoveLapsed(t) \/ HashTable_Return(t)
  \/ SetUnlinkOld(t) \/ SetLinkNew(t)
  \/ KVS_EvictIfNeeeded(t) \/ HashTable_Evict(t) \/ EvictReadClock(t)
  \/ SweepLock(t) \/ SweepKeep(t) \/ SweepRemove(t) \/ SweepUnlock(t)
  \/ EvictWithExpires(t) \/ EvictAnyItem(t) \/ EvictReturn(t)

Vacuum == HashTable_RemoveExpired \/ RemoveExpiredTurn

\* Once a chain keeps an item the table has given up, later steps read freed
\* memory: their outcome is not defined and the model stops there.
Next ==
  \/ ~broken /\ (Tick \/ KVS_Vacuum \/ Vacuum \/ \E t \in Worker : Start(t) \/ Continue(t))
  \/ broken /\ UNCHANGED vars

Spec == Init /\ [][Next]_vars

\* A thread inside an operation keeps running; nobody has to start one, and
\* the clock may stand still.
FairSpec ==
  /\ Spec
  /\ \A t \in Worker : WF_vars(~broken /\ Continue(t))
  /\ WF_vars(~broken /\ Vacuum)

-----------------------------------------------------------------------------
(* Properties *)

Linked == UNION {Range(table[s]) : s \in Slot}
Holders(i) == {t \in Thread : pc[t] = "hold" /\ item[t] = i}
Building(t) == pc[t] \in {"new", "link"}
Built(i) == \E t \in Thread : Building(t) /\ item[t] = i

\* Every variable has its type.
TypeOK ==
  /\ table \in [Slot -> Seq(Item)]
  /\ locks \in [Lock -> Thread \cup {NoThread}]
  /\ usedMemory \in Int
  /\ evictionPosition \in Slot
  /\ heap \in [Item -> Content \cup {Freed}]
  /\ refCnt \in [Item -> Nat]
  /\ now \in Nat
  /\ broken \in BOOLEAN
  /\ pc \in [Thread -> PC]
  /\ arg \in [Thread -> Key \cup {NoKey}]
  /\ item \in [Thread -> Item \cup {NoItem}]
  /\ walk \in [Thread -> Walk]

ChainsSound ==
  \A s \in Slot : \A n \in DOMAIN table[s] :
    /\ heap[table[s][n]] # Freed
    /\ SlotOf(heap[table[s][n]].key) = s
    /\ \A m \in DOMAIN table[s] :
         heap[table[s][m]].key = heap[table[s][n]].key => m = n

CountsSound ==
  \A i \in Item :
    /\ refCnt[i] = (IF i \in Linked \/ Built(i) THEN 1 ELSE 0) + Cardinality(Holders(i))
    /\ heap[i] = Freed <=> refCnt[i] = 0

\* As long as no chain is broken, every linked item sits once, in the slot of
\* its key, and no key twice.
KeysUnique == ~broken => ChainsSound

\* As long as no chain is broken, an item's reference count is one for the
\* table (or for the "set" still building it) plus one per client reading it,
\* and an item is freed exactly when that is 0: nobody reads freed memory,
\* nothing leaks, nothing is freed twice.
RefCountExact == ~broken => CountsSound

\* usedMemory, updated by every path that links or unlinks, is the size of what
\* is linked.
MemoryAccounted ==
  ~broken => usedMemory = MapThenSumSet(ItemSize, Linked)

\* What a thread relies on where it stands; an item being built is its
\* builder's alone, and not linked.
ThreadsSound ==
  \A t \in Thread :
    /\ t = Timer => pc[t] \in {"idle", "timer", "expire"}
    /\ pc[t] = "lapsed" => arg[t] \in Key
    /\ pc[t] = "hold" \/ Building(t) => item[t] \in Item
    /\ Building(t) => /\ item[t] \notin Linked
                      /\ \A u \in Thread : Building(u) /\ item[u] = item[t] => u = t

\* A split critical section owns its lock throughout, so the chain it works on
\* is still as it left it.
LocksSound ==
  \A t \in Thread :
    /\ pc[t] = "link" =>
         LET k == heap[item[t]].key IN
         locks[LockOf(SlotOf(k))] = t /\ HashTable_Search(k) = {}
    /\ pc[t] = "sweep" =>
         /\ locks[LockOf(walk[t].pos)] = t
         /\ walk[t].cursor > 0

\* The inductive invariant behind KeysUnique and RefCountExact: neither could
\* be kept without what the threads between two steps are entitled to.
IInv ==
  /\ TypeOK
  /\ ~broken => ChainsSound /\ CountsSound /\ ThreadsSound /\ LocksSound

\* Whenever the store is over its limit, some thread has yet to evict: two
\* workers may pass each other's items in their scans, but not both give up.
HeapBounded ==
  ~broken /\ usedMemory > MaxHeapSize =>
    \E t \in Worker : pc[t] \in {"check"} \cup Evicting

\* Of any two neighbours in a chain, one at least has not expired.
Spaced ==
  \A s \in Slot : \A n \in 2 .. Len(table[s]) :
    ~Expired(table[s][n - 1], now) \/ ~Expired(table[s][n], now)

\* A sweep goes wrong only where two neighbours in a chain have expired: what
\* else happens to the chain before its lock is taken, and however old the time
\* is that the sweep goes by, it finds the real predecessor of what it removes.
OnlyNeighboursBreak == []Spaced => []~broken

\* What the sweep frees has left its chain: "removed an item successfuly", says
\* hashtable.c of what HashTable_Evict returns true for.
SweepUnlinks ==
  [][\A t \in Worker : SweepRemove(t) =>
       table[walk[t].pos][walk[t].cursor] \notin UNION {Range(table'[s]) : s \in Slot}]_vars

\* "@param any if true it might remove item that expires is zero" (hashtable.c,
\* of HashTable_Evict): an eviction that may not take any item leaves those
\* that were stored with exptime 0.
EvictSparesLasting ==
  [][\A t \in Worker :
       ExpTime = {0} /\ ~walk[t].any /\ (SweepRemove(t) \/ EvictWithExpires(t)) =>
         KeepItems]_vars

\* A reader that found an expired item, and removes it after giving up the
\* lock, removes that item and not one stored under the key in between.
ReaderDropsOnlyExpired ==
  [][\A t \in Worker : HashTable_RemoveLapsed(t) =>
       \A n \in HashTable_Search(arg[t]) :
         Expired(table[SlotOf(arg[t])][n], now)]_vars

\* A lock that a thread takes is given back.
LocksReleased ==
  \A l \in Lock, t \in Worker : locks[l] = t ~> (locks[l] # t \/ broken)

\* A store over its limit comes back under it.
HeapRecovers == (usedMemory > MaxHeapSize) ~> (usedMemory <= MaxHeapSize \/ broken)

\* What a client of the store can observe.
Observed(i) == [len |-> heap[i].len, expires |-> heap[i].expires]
StoreView ==
  [k \in Key |-> LET found == HashTable_Search(k) IN
     IF found = {} THEN NoItem ELSE Observed(table[SlotOf(k)][Min(found)])]
HeldView ==
  [t \in Worker |-> IF pc[t] # "hold" THEN NoItem
                    ELSE [key |-> heap[item[t]].key, value |-> Observed(item[t])]]

Expiry == {time + e : time \in 1 .. MaxTime, e \in ExpTime}
Promise == INSTANCE Cache WITH
  Value <- [len : ValueLen, expires : Expiry], Client <- Worker,
  Absent <- NoItem, store <- StoreView, held <- HeldView

\* The table with its chains, locks and counts implements Cache, where no sweep
\* can go wrong ...
ImplementsCache == Promise!Spec

\* ... and up to the first sweep that does go wrong elsewhere.
CacheUntilBroken ==
  Promise!Init /\ [][broken' \/ [Promise!Next]_(Promise!vars)]_vars
=============================================================================
