------------------------- MODULE HashTablePromises -------------------------
(***************************************************************************)
(* What HashTable promises to those that use it, proved from its           *)
(* invariant: usedMemory is the size of what is linked; a store over its   *)
(* limit has a worker that will see to it; and the store implements Cache. *)
(***************************************************************************)
EXTENDS HashTableProofs, Induction

-----------------------------------------------------------------------------
(* The size of a set of items *)

\* The sizes of the items of L, when the heap is h.
Total(h, L) ==
  LET iter[s \in SUBSET L] ==
        IF s = {} THEN 0
        ELSE LET x == CHOOSE x \in s : TRUE IN Overhead + h[x].len + iter[s \ {x}]
  IN  iter[L]

\* It is what usedMemory is compared with, before and after a step.
LEMMA AccountedTotal ==
  /\ MapThenSumSet(ItemSize, Linked) = Total(heap, Linked)
  /\ MapThenSumSet(ItemSize, Linked)' = Total(heap', Linked')
  BY DEF MapThenSumSet, MapThenFoldSet, ItemSize, Total

\* A total is a sum of weights.
LEMMA TotalSums ==
  ASSUME NEW h, NEW L, IsFiniteSet(L)
  PROVE  \E f : Sums(f, [i \in L |-> Overhead + h[i].len], L) /\ Total(h, L) = f[L]
<1> DEFINE w == [i \in L |-> Overhead + h[i].len]
           Rec(f) == [s \in SUBSET L |->
                        IF s = {} THEN 0
                        ELSE Overhead + h[First(s)].len + f[s \ {First(s)}]]
           iter == CHOOSE f : f = Rec(f)
<1>1. ASSUME NEW f
      PROVE  Sums(f, w, L) <=> f = Rec(f)
  BY FirstIn DEF Sums
<1>2. \E f : f = Rec(f)
  BY <1>1, SumsExist
<1>3. iter = Rec(iter)
  BY <1>2, Zenon
<1>4. Sums(iter, w, L)
  BY <1>1, <1>3
<1>5. Total(h, L) = iter[L]
  BY DEF Total, First
<1> HIDE DEF iter
<1> QED
  BY <1>4, <1>5

\* Nothing is linked, nothing is used.
LEMMA TotalEmpty == ASSUME NEW h PROVE Total(h, {}) = 0
<1>1. PICK f : Sums(f, [i \in {} |-> Overhead + h[i].len], {}) /\ Total(h, {}) = f[{}]
  BY TotalSums, FS_EmptySet
<1> QED
  BY <1>1, SumsUnfold

\* An item more or less changes the total by its size.
LEMMA TotalLess ==
  ASSUME NEW h, NEW L, IsFiniteSet(L), \A i \in L : h[i].len \in Nat, NEW x \in L
  PROVE  /\ Total(h, L) = Overhead + h[x].len + Total(h, L \ {x})
         /\ Total(h, L) \in Nat /\ Total(h, L \ {x}) \in Nat
<1> DEFINE w == [i \in L |-> Overhead + h[i].len]
           v == [i \in L \ {x} |-> Overhead + h[i].len]
<1>1. PICK f : Sums(f, w, L) /\ Total(h, L) = f[L]
  BY TotalSums
<1>2. IsFiniteSet(L \ {x})
  BY FS_RemoveElement
<1>3. PICK g : Sums(g, v, L \ {x}) /\ Total(h, L \ {x}) = g[L \ {x}]
  BY <1>2, TotalSums
<1>4. \A i \in L : w[i] \in Nat /\ w[i] = Overhead + h[i].len
  BY DataAssumption
<1>5. \A i \in L \ {x} : w[i] = v[i]
  OBVIOUS
<1> HIDE DEF w, v
<1>6. f[L \ {x}] = g[L \ {x}]
  <2>1. L \ {x} \in SUBSET (L \cap (L \ {x}))
    OBVIOUS
  <2> QED
    BY <1>1, <1>2, <1>3, <1>5, <2>1, SumsAgree
<1>7. f[L] = w[x] + f[L \ {x}]
  <2>1. \A i \in L : w[i] \in Nat
    BY <1>4
  <2>2. \A i \in L : f[L] = w[i] + f[L \ {i}]
    BY <1>1, <2>1, SumsTakeAny
  <2> QED
    BY <2>2
<1>8. f[L] \in Nat /\ f[L \ {x}] \in Nat
  BY <1>1, <1>4, SumsType
<1> QED
  BY <1>1, <1>3, <1>4, <1>6, <1>7, <1>8

\* Only the items in the set matter.
LEMMA TotalAgree ==
  ASSUME NEW h, NEW g, NEW L, IsFiniteSet(L), \A i \in L : h[i] = g[i]
  PROVE  Total(h, L) = Total(g, L)
<1>1. PICK f : Sums(f, [i \in L |-> Overhead + h[i].len], L) /\ Total(h, L) = f[L]
  BY TotalSums
<1>2. [i \in L |-> Overhead + h[i].len] = [i \in L |-> Overhead + g[i].len]
  OBVIOUS
<1>3. PICK e : Sums(e, [i \in L |-> Overhead + g[i].len], L) /\ Total(g, L) = e[L]
  BY TotalSums
<1> DEFINE w == [i \in L |-> Overhead + g[i].len]
<1>4. Sums(f, w, L) /\ Sums(e, w, L)
  BY <1>1, <1>2, <1>3
<1> HIDE DEF w
<1>5. f[L] = e[L]
  BY <1>4, SumsAgree
<1> QED
  BY <1>1, <1>3, <1>5

-----------------------------------------------------------------------------
(* What a step can do to the chains, the heap and the memory in use *)

\* An address gets a new content only while it has none, and this expires some
\* client's exptime from now.
HeapKept ==
  \A i \in Item :
    \/ heap'[i] = heap[i] \/ heap'[i] = Freed
    \/ heap[i] = Freed /\ \E e \in ExpTime : heap'[i].expires = now + e

LEMMA HeapStep ==
  ASSUME TypeOK, Sound, ~broken, [Next]_vars
  PROVE  HeapKept
<1>1. ASSUME NEW x, heap' = [heap EXCEPT ![x] = Freed]
      PROVE  HeapKept
  BY <1>1 DEF HeapKept, TypeOK
<1>2. ASSUME heap' = heap
      PROVE  HeapKept
  BY <1>2 DEF HeapKept
<1>3. ASSUME NEW x, DictionaryItem_Deref(x)
      PROVE  HeapKept
  BY <1>1, <1>2, <1>3 DEF DictionaryItem_Deref
<1>4. ASSUME NEW s, NEW C, RemoveOneOf(s, C)
      PROVE  HeapKept
  BY <1>2, <1>3, <1>4 DEF RemoveOneOf, HashTable_DoRemove, KeepItems
<1>5. CASE UNCHANGED vars \/ Tick \/ KVS_Vacuum \/ HashTable_RemoveExpired
  BY <1>2, <1>5 DEF vars, shared, Tick, KVS_Vacuum, HashTable_RemoveExpired
<1>6. CASE RemoveExpiredTurn
  BY <1>4, <1>6 DEF RemoveExpiredTurn
<1>7. ASSUME NEW t \in Worker, Start(t)
      PROVE  HeapKept
  <2>1. ASSUME NEW k \in Key, HashTable_Get(t, k)
        PROVE  HeapKept
    BY <1>2, <2>1 DEF HashTable_Get, DictionaryItem_Ref
  <2>2. ASSUME NEW k \in Key, HashTable_Remove(t, k)
        PROVE  HeapKept
    BY <1>4, <2>2 DEF HashTable_Remove
  <2>3. ASSUME NEW k \in Key, NEW len \in ValueLen, NEW e \in ExpTime, HashTable_Set(t, k, len, e)
        PROVE  HeapKept
    <3>1. PICK x \in Item : DictionaryItem_New(x, k, len, e)
      BY <2>3 DEF HashTable_Set
    <3> QED
      BY <3>1 DEF DictionaryItem_New, TypeOK, HeapKept
  <2>4. CASE EvictAny(t)
    BY <1>2, <2>4 DEF EvictAny, shared
  <2> QED
    BY <1>7, <2>1, <2>2, <2>3, <2>4 DEF Start
<1>8. ASSUME NEW t \in Worker, Continue(t)
      PROVE  HeapKept
  <2>1. CASE HashTable_Return(t)
    BY <1>3, <2>1 DEF HashTable_Return
  <2>2. CASE SweepRemove(t)
    BY <1>3, <2>2 DEF SweepRemove, HashTable_DoRemove, StaleUnchain
  <2>3. CASE \/ HashTable_RemoveLapsed(t) \/ SetUnlinkOld(t)
             \/ EvictWithExpires(t) \/ EvictAnyItem(t)
    BY <1>4, <2>3 DEF HashTable_RemoveLapsed, SetUnlinkOld, EvictWithExpires, EvictAnyItem, Turn
  <2>4. CASE \/ SetLinkNew(t) \/ KVS_EvictIfNeeeded(t) \/ HashTable_Evict(t) \/ EvictReadClock(t)
             \/ SweepLock(t) \/ SweepKeep(t) \/ SweepUnlock(t) \/ EvictReturn(t)
    BY <1>2, <2>4 DEF SetLinkNew, KVS_EvictIfNeeeded, HashTable_Evict, EvictReadClock,
       SweepLock, SweepKeep, SweepUnlock, EvictReturn, shared
  <2> QED
    BY <1>8, <2>1, <2>2, <2>3, <2>4 DEF Continue
<1> QED
  BY <1>5, <1>6, <1>7, <1>8 DEF Next, Vacuum

\* A step leaves the chains and the memory in use alone, removes one item, or
\* links one.
Untouched == UNCHANGED <<table, usedMemory>>
Removes == \E s \in Slot : \E n \in DOMAIN table[s] : HashTable_DoRemove(s, n)

LEMMA TableStep ==
  ASSUME TypeOK, Sound, ~broken, [Next]_vars, ~broken'
  PROVE  Untouched \/ Removes \/ \E t \in Worker : SetLinkNew(t)
<1>1. ASSUME NEW s \in Slot, NEW C \in SUBSET DOMAIN table[s], RemoveOneOf(s, C)
      PROVE  Untouched \/ Removes
  BY <1>1 DEF RemoveOneOf, KeepItems, Untouched, Removes
<1>2. CASE UNCHANGED vars \/ Tick \/ KVS_Vacuum \/ HashTable_RemoveExpired
  BY <1>2 DEF vars, shared, Tick, KVS_Vacuum, HashTable_RemoveExpired, Untouched
<1>3. CASE RemoveExpiredTurn
  <2>1. walk[Timer].pos \in Slot
    BY WalkType DEF Thread
  <2>2. PICK C \in SUBSET DOMAIN table[walk[Timer].pos] : RemoveOneOf(walk[Timer].pos, C)
    BY <1>3 DEF RemoveExpiredTurn, FirstExpired
  <2> QED
    BY <1>1, <2>1, <2>2
<1>4. ASSUME NEW t \in Worker, Start(t)
      PROVE  Untouched \/ Removes
  <2>1. ASSUME NEW k \in Key, HashTable_Remove(t, k)
        PROVE  Untouched \/ Removes
    <3>1. HashTable_Search(k) \in SUBSET DOMAIN table[SlotOf(k)] /\ SlotOf(k) \in Slot
      BY SlotLock DEF HashTable_Search
    <3> QED
      BY <1>1, <2>1, <3>1 DEF HashTable_Remove
  <2> QED
    BY <1>4, <2>1 DEF Start, HashTable_Get, HashTable_Set, EvictAny, shared, Untouched
<1>5. ASSUME NEW t \in Worker, Continue(t), ~SetLinkNew(t)
      PROVE  Untouched \/ Removes
  <2>1. t \in Thread /\ walk[t].pos \in Slot
    BY WalkType DEF Thread
  <2>2. CASE HashTable_RemoveLapsed(t)
    <3>1. SlotOf(arg[t]) \in Slot
      BY <2>1, <2>2, SlotLock DEF HashTable_RemoveLapsed, Sound, ThreadsSound
    <3>2. HashTable_Search(arg[t]) \in SUBSET DOMAIN table[SlotOf(arg[t])]
      BY DEF HashTable_Search
    <3> QED
      BY <1>1, <2>2, <3>1, <3>2 DEF HashTable_RemoveLapsed
  <2>3. CASE SetUnlinkOld(t)
    <3> DEFINE k == ThreadKey(t)
    <3>1. k \in Key /\ SlotOf(k) \in Slot
      BY <2>1, <2>3, SlotLock, BuilderKey DEF Sound, SetUnlinkOld, Building
    <3>2. HashTable_Search(k) \in SUBSET DOMAIN table[SlotOf(k)]
      BY DEF HashTable_Search
    <3>3. RemoveOneOf(SlotOf(k), HashTable_Search(k))
      BY <2>3 DEF SetUnlinkOld, ThreadKey
    <3> QED
      BY <1>1, <3>1, <3>2, <3>3
  <2>4. CASE SweepRemove(t)
    BY <2>1, <2>4 DEF SweepRemove, StaleUnchain, Removes
  <2>5. CASE EvictWithExpires(t) \/ EvictAnyItem(t)
    <3>1. \E C \in SUBSET DOMAIN table[walk[t].pos] : RemoveOneOf(walk[t].pos, C)
      BY <2>5 DEF EvictWithExpires, EvictAnyItem, Turn, SoonestExpiring, HeadOf
    <3> QED
      BY <1>1, <2>1, <3>1
  <2>6. CASE \/ HashTable_Return(t) \/ KVS_EvictIfNeeeded(t) \/ HashTable_Evict(t)
             \/ EvictReadClock(t) \/ SweepLock(t) \/ SweepKeep(t) \/ SweepUnlock(t)
             \/ EvictReturn(t)
    BY <2>6 DEF HashTable_Return, KVS_EvictIfNeeeded, HashTable_Evict, EvictReadClock,
       SweepLock, SweepKeep, SweepUnlock, EvictReturn, shared, Untouched
  <2> QED
    BY <1>5, <2>2, <2>3, <2>4, <2>5, <2>6 DEF Continue
<1> QED
  BY <1>2, <1>3, <1>4, <1>5 DEF Next, Vacuum

\* What is linked before and after a step has kept its content.
LEMMA LinkedKept ==
  ASSUME IInv, ~broken, [Next]_vars, ~broken'
  PROVE  \A i \in Linked \cap Linked' : heap'[i] = heap[i]
<1>1. TypeOK /\ Sound /\ TypeOK' /\ Sound'
  BY NextSound DEF IInv, Sound
<1>2. ASSUME NEW i \in Linked
      PROVE  i \in Item /\ heap[i] # Freed
  <2>1. i \in UNION {Range(table[s]) : s \in Slot}
    BY DEF Linked
  <2>2. PICK s \in Slot : \E n \in DOMAIN table[s] : i = table[s][n]
    BY <2>1 DEF Range
  <2> QED
    BY <1>1, <2>2, OnePlace DEF Sound, ChainsSound
<1>3. ASSUME NEW i \in Linked'
      PROVE  heap'[i] # Freed
  <2>1. i \in UNION {Range(table'[s]) : s \in Slot}
    BY DEF Linked
  <2>2. PICK s \in Slot : \E n \in DOMAIN table'[s] : i = table'[s][n]
    BY <2>1 DEF Range
  <2> QED
    BY <1>1, <2>2 DEF Sound, ChainsSound
<1> QED
  BY <1>1, <1>2, <1>3, HeapStep DEF HeapKept

-----------------------------------------------------------------------------
(* usedMemory *)

\* The memory in use is the total of what is linked, which is finite.
MemSound == IsFiniteSet(Linked) /\ usedMemory = Total(heap, Linked)
MemInv == ~broken => MemSound

\* A linked item has a size.
LEMMA LinkedSize ==
  ASSUME TypeOK, Sound
  PROVE  \A i \in Linked : /\ i \in Item /\ heap[i] \in Content
                           /\ heap[i].len \in Nat /\ ItemSize(i) \in Nat
<1> SUFFICES ASSUME NEW i \in Linked
             PROVE  /\ i \in Item /\ heap[i] \in Content
                    /\ heap[i].len \in Nat /\ ItemSize(i) \in Nat
  OBVIOUS
<1>1. i \in UNION {Range(table[s]) : s \in Slot}
  BY DEF Linked
<1>2. PICK s \in Slot : \E n \in DOMAIN table[s] : i = table[s][n]
  BY <1>1 DEF Range
<1>3. i \in Item /\ heap[i] \in Content
  BY <1>2, OnePlace DEF Sound
<1>4. heap[i].len \in Nat
  BY <1>3, DataAssumption DEF Content
<1> QED
  BY <1>3, <1>4, DataAssumption DEF ItemSize

\* No step miscounts.
LEMMA MemNext ==
  ASSUME IInv, MemInv, [Next]_vars
  PROVE  MemInv'
<1> SUFFICES ASSUME ~broken'
             PROVE  MemSound'
  BY DEF MemInv
<1>1. ~broken
  BY DEF Next, vars, shared
<1>2. TypeOK /\ Sound /\ MemSound
  BY <1>1 DEF IInv, Sound, MemInv
<1>3. \A i \in Linked \cap Linked' : heap'[i] = heap[i]
  BY <1>1, LinkedKept
<1>4. CASE Untouched
  <2>1. Linked' = Linked /\ usedMemory' = usedMemory
    BY <1>4 DEF Untouched, Linked
  <2>2. Total(heap', Linked) = Total(heap, Linked)
    BY <1>2, <1>3, <2>1, TotalAgree DEF MemSound
  <2> QED
    BY <1>2, <2>1, <2>2 DEF MemSound
<1>5. ASSUME NEW s \in Slot, NEW n \in DOMAIN table[s], HashTable_DoRemove(s, n)
      PROVE  MemSound'
  <2> DEFINE x == table[s][n]
  <2>1. Linked' = Linked \ {x} /\ x \in Linked /\ usedMemory' = usedMemory - ItemSize(x)
    BY <1>2, <1>5, RemovePlaces, OnePlace DEF Sound, HashTable_DoRemove
  <2> HIDE DEF x
  <2>2. IsFiniteSet(Linked')
    BY <1>2, <2>1, FS_RemoveElement DEF MemSound
  <2>3. \A i \in Linked : heap[i].len \in Nat
    BY <1>2, LinkedSize
  <2>4. /\ Total(heap, Linked) = ItemSize(x) + Total(heap, Linked')
        /\ Total(heap, Linked') \in Nat
    BY <1>2, <2>1, <2>3, TotalLess DEF MemSound, ItemSize
  <2>5. Total(heap', Linked') = Total(heap, Linked')
    BY <1>3, <2>1, <2>2, TotalAgree
  <2>6. ItemSize(x) \in Nat
    BY <1>2, <2>1, LinkedSize
  <2> QED
    BY <1>2, <2>1, <2>2, <2>4, <2>5, <2>6 DEF MemSound
<1>6. ASSUME NEW t \in Worker, SetLinkNew(t)
      PROVE  MemSound'
  <2> DEFINE x == item[t]
  <2>1. /\ Linked' = Linked \cup {x} /\ x \notin Linked /\ heap[x] \in Content
        /\ usedMemory' = usedMemory + ItemSize(x) /\ heap' = heap
    BY <1>2, <1>6, LinkPlaces DEF SetLinkNew
  <2> HIDE DEF x
  <2>2. IsFiniteSet(Linked') /\ Linked' \ {x} = Linked
    BY <1>2, <2>1, FS_AddElement DEF MemSound
  <2>3. \A i \in Linked' : heap[i].len \in Nat
    BY <1>2, <2>1, LinkedSize, DataAssumption DEF Content
  <2>4. /\ Total(heap, Linked') = ItemSize(x) + Total(heap, Linked)
        /\ Total(heap, Linked) \in Nat
    <3> DEFINE L == Linked'
    <3>1. IsFiniteSet(L) /\ x \in L /\ L \ {x} = Linked /\ \A i \in L : heap[i].len \in Nat
      BY <2>1, <2>2, <2>3
    <3> HIDE DEF L
    <3>2. Total(heap, L) = ItemSize(x) + Total(heap, L \ {x}) /\ Total(heap, L \ {x}) \in Nat
      BY <3>1, TotalLess DEF ItemSize
    <3> QED
      BY <3>1, <3>2 DEF L
  <2>5. ItemSize(x) \in Nat
    BY <2>1, <2>3, DataAssumption DEF ItemSize
  <2> QED
    BY <1>2, <2>1, <2>2, <2>4, <2>5 DEF MemSound
<1> QED
  BY <1>1, <1>2, <1>4, <1>5, <1>6, TableStep DEF Removes

\* The empty table uses no memory.
LEMMA MemInit == Init => MemInv
<1> SUFFICES ASSUME Init
             PROVE  MemSound
  BY DEF MemInv
<1>1. Linked = {}
  <2>1. \A s \in Slot : DOMAIN table[s] = {}
    BY DEF Init
  <2> QED
    BY <2>1 DEF Linked, Range
<1> QED
  BY <1>1, TotalEmpty, FS_EmptySet DEF MemSound, Init

\* usedMemory, which every path that links or unlinks keeps up without looking
\* at the table, is the size of what is linked.
THEOREM MemoryIsAccounted == Spec => []MemoryAccounted
<1>1. Init => IInv /\ MemInv
  BY InitSound, MemInit
<1>2. IInv /\ MemInv /\ [Next]_vars => (IInv /\ MemInv)'
  BY NextSound, MemNext
<1>3. MemInv => MemoryAccounted
  BY AccountedTotal DEF MemInv, MemSound, MemoryAccounted
<1> QED
  BY <1>1, <1>2, <1>3, PTL DEF Spec

-----------------------------------------------------------------------------
(* Dates *)

\* Every item expires some exptime after a moment of the clock.
Dated ==
  /\ now \in 1 .. MaxTime
  /\ \A i \in Item : heap[i] # Freed => heap[i].expires \in Expiry

\* The clock is set by nobody but itself.
LEMMA ClockStep == ASSUME [Next]_vars PROVE now' = now \/ (now < MaxTime /\ now' = now + 1)
<1>1. CASE UNCHANGED vars \/ Tick
  BY <1>1 DEF vars, Tick
<1>2. CASE KVS_Vacuum \/ Vacuum
  BY <1>2 DEF KVS_Vacuum, Vacuum, HashTable_RemoveExpired, RemoveExpiredTurn
<1>3. ASSUME NEW t \in Worker, Start(t)
      PROVE  now' = now
  BY <1>3 DEF Start, HashTable_Get, HashTable_Remove, HashTable_Set, EvictAny
<1>4. ASSUME NEW t \in Worker, Continue(t)
      PROVE  now' = now
  BY <1>4 DEF Continue, HashTable_RemoveLapsed, HashTable_Return, SetUnlinkOld, SetLinkNew,
     KVS_EvictIfNeeeded, HashTable_Evict, EvictReadClock, SweepLock, SweepKeep, SweepRemove,
     SweepUnlock, EvictWithExpires, EvictAnyItem, Turn, EvictReturn
<1> QED
  BY <1>1, <1>2, <1>3, <1>4 DEF Next

\* An item's date is fixed when it is made.
LEMMA DatedNext ==
  ASSUME IInv, ~broken, Dated, [Next]_vars
  PROVE  Dated'
<1>1. TypeOK /\ Sound
  BY DEF IInv, Sound
<1>2. now' \in 1 .. MaxTime
  BY ClockStep, DataAssumption DEF Dated
<1>3. ASSUME NEW e \in ExpTime
      PROVE  now + e \in Expiry
  BY DEF Dated, Expiry
<1>4. ASSUME NEW i \in Item, heap'[i] # Freed
      PROVE  heap'[i].expires \in Expiry
  BY <1>1, <1>3, <1>4, HeapStep DEF HeapKept, Dated
<1> QED
  BY <1>2, <1>4 DEF Dated, Expiry

-----------------------------------------------------------------------------
(* Eviction *)

\* An empty chain stays empty through a removal.
LEMMA EmptyStays ==
  ASSUME TypeOK, NEW s \in Slot, table[s] = <<>>, NEW r \in Slot,
         NEW n \in DOMAIN table[r], HashTable_DoRemove(r, n)
  PROVE  table'[s] = <<>>
<1>1. r # s
  OBVIOUS
<1> QED
  BY <1>1 DEF HashTable_DoRemove, TypeOK

\* The slots a one-item loop has still to visit: all of them at its start.
Ahead(w) ==
  {s \in Slot : IF w.start <= w.pos THEN s >= w.pos \/ s < w.start
                                    ELSE w.pos <= s /\ s < w.start}

\* Worker t will evict something, or give up only when there is nothing left:
\* every slot that has an item is still ahead of it.
WillEvict(t) ==
  /\ ~walk[t].any
  /\ \/ pc[t] \in {"check", "evict", "clock", "lock", "sweep"}
     \/ pc[t] = "return" /\ walk[t].evicted
     \/ pc[t] = "scan" /\ \A s \in Slot : table[s] # <<>> => s \in Ahead(walk[t])

\* A loop starts where it entered the table, with fresh locals.
LoopsSound ==
  \A t \in Worker :
    /\ pc[t] \notin Evicting => walk[t] = NoWalk
    /\ pc[t] \in {"clock", "lock", "sweep"} => walk[t].pos = walk[t].start

\* The inductive invariant behind HeapBounded.  Some worker reading or about to
\* read usedMemory would not be enough: it is the last one to have stored
\* something that has every item ahead of it.
Attended == usedMemory > MaxHeapSize => \E t \in Worker : WillEvict(t)
EvictInv == ~broken => Dated /\ LoopsSound /\ Attended

\* Every item has an expiry time, so a slot with an item has one to evict.
LEMMA SlotHasCandidate ==
  ASSUME TypeOK, Sound, Dated, NEW s \in Slot, table[s] # <<>>
  PROVE  SoonestExpiring(s) # {}
<1> DEFINE D == DOMAIN table[s]
           Expires(n) == heap[table[s][n]].expires
           E == {Expires(n) : n \in D}
<1>1. table[s] \in Seq(Item) /\ D = 1 .. Len(table[s]) /\ Len(table[s]) \in Nat /\ D # {}
  <2>1. table[s] \in Seq(Item)
    BY DEF TypeOK
  <2>2. Len(table[s]) # 0
    BY <2>1, EmptySeq
  <2>3. D = 1 .. Len(table[s]) /\ Len(table[s]) \in Nat
    BY <2>1
  <2>4. 1 \in D
    BY <2>2, <2>3
  <2> QED
    BY <2>1, <2>3, <2>4
<1>2. ASSUME NEW n \in D
      PROVE  Expires(n) \in Nat /\ Expires(n) > 0
  <2>1. heap[table[s][n]] # Freed /\ table[s][n] \in Item
    BY <1>1 DEF Sound, ChainsSound, TypeOK
  <2>2. Expires(n) \in Expiry
    BY <2>1 DEF Dated
  <2> QED
    BY <2>2, DataAssumption, SMTT(30) DEF Expiry
<1> HIDE DEF Expires
<1>3. E \in SUBSET Nat /\ E # {}
  BY <1>1, <1>2
<1>4. PICK e \in E : \A f \in E : e <= f
  BY <1>3, LeastNat
<1> DEFINE P == {n \in D : Expires(n) = e}
<1>5. P # {} /\ P \in SUBSET (0 .. Len(table[s]))
  BY <1>1, <1>4
<1>6. PICK n \in P : \A m \in P : m <= n
  BY <1>1, <1>5, GreatestNat
<1>7. ASSUME NEW m \in D
      PROVE  Expires(m) >= Expires(n) /\ (m > n => Expires(m) > Expires(n))
  <2>1. Expires(m) \in Nat /\ Expires(n) \in Nat /\ Expires(n) = e /\ e <= Expires(m)
    BY <1>2, <1>4, <1>6
  <2>2. m > n => Expires(m) # e
    <3>1. m \in Nat /\ n \in Nat
      BY <1>1
    <3> QED
      BY <1>6, <3>1
  <2> QED
    BY <2>1, <2>2
<1>8. n \in {m \in D : Expires(m) > 0}
  BY <1>2
<1> QED
  BY <1>7, <1>8 DEF SoonestExpiring, Expires

\* The position a loop reaches next takes one slot from those ahead of it.
LEMMA AheadNext ==
  ASSUME NEW w \in Walk, NEW s \in Ahead(w), s # w.pos
  PROVE  /\ NextPos(w.pos) # w.start
         /\ \A v \in Walk : v.pos = NextPos(w.pos) /\ v.start = w.start => s \in Ahead(v)
<1>1. /\ w.pos \in Int /\ 0 <= w.pos /\ w.pos < Size /\ w.start \in Int /\ 0 <= w.start
      /\ w.start < Size /\ s \in Int /\ 0 <= s /\ s < Size /\ Size \in Nat
  BY SizeAssumption DEF Walk, Slot, Ahead
<1>2. /\ w.start <= w.pos => s >= w.pos \/ s < w.start
      /\ w.start > w.pos => w.pos <= s /\ s < w.start
  BY <1>1 DEF Ahead
<1> DEFINE p == NextPos(w.pos)
<1>3. \/ w.pos + 1 >= Size /\ p = 0
      \/ w.pos + 1 < Size /\ p = w.pos + 1
  BY <1>1 DEF NextPos
<1> HIDE DEF p
<1>4. p # w.start
  BY <1>1, <1>2, <1>3
<1>5. /\ w.start <= p => s >= p \/ s < w.start
      /\ w.start > p => p <= s /\ s < w.start
  BY <1>1, <1>2, <1>3
<1>6. s \in Slot /\ p \in Int
  BY <1>1, <1>3 DEF Ahead
<1>7. ASSUME NEW v \in Walk, v.pos = p, v.start = w.start
      PROVE  s \in Ahead(v)
  BY <1>1, <1>5, <1>6, <1>7 DEF Ahead
<1> QED
  BY <1>4, <1>7 DEF p

\* A worker's step is its own.
LEMMA OthersStay ==
  ASSUME TypeOK, NEW t \in Worker, Start(t) \/ Continue(t)
  PROVE  \A u \in Thread \ {t} : pc'[u] = pc[u] /\ walk'[u] = walk[u]
<1>1. CASE Start(t)
  BY <1>1 DEF Start, HashTable_Get, HashTable_Remove, HashTable_Set, EvictAny,
     Replied, Goto, shared, TypeOK
<1>2. CASE Continue(t)
  BY <1>2 DEF Continue, HashTable_RemoveLapsed, HashTable_Return, SetUnlinkOld, SetLinkNew,
     Replied, KVS_EvictIfNeeeded, HashTable_Evict, EvictReadClock, SweepLock, SweepKeep,
     SweepRemove, SweepUnlock, EvictWithExpires, EvictAnyItem, EvictReturn, Turn, Goto,
     shared, TypeOK
<1> QED
  BY <1>1, <1>2

\* So is the timer's.
LEMMA TimerAlone ==
  ASSUME TypeOK, UNCHANGED vars \/ Tick \/ KVS_Vacuum \/ Vacuum
  PROVE  \A u \in Worker : pc'[u] = pc[u] /\ walk'[u] = walk[u]
<1>1. \A u \in Worker : u \in Thread \ {Timer}
  BY ThreadAssumption DEF Thread
<1> QED
  BY <1>1 DEF vars, locals, shared, Tick, KVS_Vacuum, Vacuum, HashTable_RemoveExpired,
     RemoveExpiredTurn, Goto, TypeOK

\* A loop enters the table where evictionPosition points.
LEMMA LoopEntered ==
  ASSUME TypeOK, NEW t \in Thread
  PROVE  /\ HashTable_Evict(t) =>
              /\ pc[t] = "evict" /\ pc'[t] = "clock" /\ walk'[t].any = walk[t].any
              /\ walk'[t].pos = walk'[t].start
         /\ EvictReadClock(t) =>
              /\ pc[t] = "clock" /\ pc'[t] = "lock" /\ walk'[t].any = walk[t].any
              /\ walk'[t].pos = walk[t].pos /\ walk'[t].start = walk[t].start
<1>1. walk[t] \in Walk
  BY WalkType
<1>2. ASSUME HashTable_Evict(t)
      PROVE  walk'[t] = [walk[t] EXCEPT !.pos = evictionPosition, !.start = evictionPosition]
  BY <1>1, <1>2 DEF HashTable_Evict, TypeOK
<1>3. ASSUME EvictReadClock(t)
      PROVE  walk'[t] = [walk[t] EXCEPT !.time = now]
  BY <1>3 DEF EvictReadClock, TypeOK
<1>4. HashTable_Evict(t) => pc[t] = "evict" /\ pc'[t] = "clock"
  BY DEF HashTable_Evict, Goto, TypeOK
<1>5. EvictReadClock(t) => pc[t] = "clock" /\ pc'[t] = "lock"
  BY DEF EvictReadClock, Goto, TypeOK
<1> QED
  BY <1>1, <1>2, <1>3, <1>4, <1>5 DEF Walk

\* No step leaves the locals of a loop behind.
LEMMA LoopsNext ==
  ASSUME TypeOK, Sound, ~broken, LoopsSound, [Next]_vars
  PROVE  LoopsSound'
<1> DEFINE Ok(t) == /\ pc'[t] \notin Evicting => walk'[t] = NoWalk
                    /\ pc'[t] \in {"clock", "lock", "sweep"} => walk'[t].pos = walk'[t].start
<1>1. ASSUME NEW u \in Worker, pc'[u] = pc[u], walk'[u] = walk[u]
      PROVE  Ok(u)
  BY <1>1 DEF LoopsSound
<1>2. ASSUME NEW t \in Worker, Start(t) \/ Continue(t)
      PROVE  Ok(t)
  <2>1. t \in Thread /\ walk[t] \in Walk /\ walk[t].pos \in Slot
    BY WalkType DEF Thread
  <2>2. CASE Start(t)
    <3>1. pc[t] = "idle"
      BY <2>2 DEF Start, HashTable_Get, HashTable_Remove, HashTable_Set, EvictAny
    <3>2. walk[t] = NoWalk
      BY <3>1 DEF LoopsSound, Evicting
    <3>3. CASE EvictAny(t)
      BY <2>1, <3>3 DEF EvictAny, Goto, TypeOK, Evicting
    <3>4. CASE ~EvictAny(t)
      BY <2>1, <2>2, <3>2, <3>4 DEF Start, HashTable_Get, HashTable_Remove, HashTable_Set,
         Replied, Goto, TypeOK
    <3> QED
      BY <3>3, <3>4
  <2>3. CASE \/ HashTable_RemoveLapsed(t) \/ HashTable_Return(t)
             \/ SetUnlinkOld(t) \/ SetLinkNew(t) \/ KVS_EvictIfNeeeded(t)
    <3>1. pc[t] \notin Evicting /\ walk' = walk
      BY <2>3 DEF HashTable_RemoveLapsed, HashTable_Return, SetUnlinkOld, SetLinkNew,
         KVS_EvictIfNeeeded, Evicting
    <3>2. pc'[t] \notin {"clock", "lock", "sweep"}
      BY <2>1, <2>3 DEF HashTable_RemoveLapsed, HashTable_Return, SetUnlinkOld, SetLinkNew,
         KVS_EvictIfNeeeded, Replied, Goto, TypeOK
    <3> QED
      BY <3>1, <3>2 DEF LoopsSound
  <2>4. CASE HashTable_Evict(t) \/ EvictReadClock(t)
    BY <2>1, <2>4, LoopEntered DEF LoopsSound, Evicting
  <2>5. CASE SweepLock(t) \/ SweepKeep(t) \/ SweepRemove(t)
    <3>1. /\ pc[t] \in {"lock", "sweep"} /\ pc'[t] = "sweep"
          /\ walk'[t].pos = walk[t].pos /\ walk'[t].start = walk[t].start
      <4>1. CASE SweepLock(t)
        BY <2>1, <4>1 DEF SweepLock, Goto, TypeOK, Walk
      <4>2. CASE SweepKeep(t)
        BY <2>1, <4>2 DEF SweepKeep, TypeOK, Walk
      <4>3. CASE SweepRemove(t)
        BY <2>1, <4>3 DEF SweepRemove, TypeOK, Walk
      <4> QED
        BY <2>5, <4>1, <4>2, <4>3
    <3> QED
      BY <3>1 DEF LoopsSound, Evicting
  <2>6. CASE SweepUnlock(t) \/ EvictWithExpires(t) \/ EvictAnyItem(t)
    <3>1. pc'[t] \in {"return", "scan", "any"}
      <4>1. CASE SweepUnlock(t)
        BY <2>1, <4>1 DEF SweepUnlock, Goto, TypeOK
      <4>2. CASE EvictWithExpires(t) \/ EvictAnyItem(t)
        BY <2>1, <4>2 DEF EvictWithExpires, EvictAnyItem, Turn, Goto, TypeOK
      <4> QED
        BY <2>6, <4>1, <4>2
    <3> QED
      BY <3>1 DEF Evicting
  <2>7. CASE EvictReturn(t)
    BY <2>1, <2>7 DEF EvictReturn, Goto, TypeOK
  <2> QED
    BY <1>2, <2>2, <2>3, <2>4, <2>5, <2>6, <2>7 DEF Continue
<1> HIDE DEF Ok
<1>3. ASSUME NEW t \in Worker, Start(t) \/ Continue(t), NEW u \in Worker
      PROVE  Ok(u)
  <2>1. CASE u = t
    BY <1>2, <1>3, <2>1
  <2>2. CASE u # t
    BY <1>1, <1>3, <2>2, OthersStay DEF Thread
  <2> QED
    BY <2>1, <2>2
<1>4. ASSUME UNCHANGED vars \/ Tick \/ KVS_Vacuum \/ Vacuum, NEW u \in Worker
      PROVE  Ok(u)
  BY <1>1, <1>4, TimerAlone
<1>5. \A u \in Worker : Ok(u)
  BY <1>3, <1>4 DEF Next
<1> QED
  BY <1>5 DEF LoopsSound, Ok

\* One turn of the one-item loop: it evicts, or it was at an empty slot, and
\* what is left is ahead of it still.
LEMMA ScanAttends ==
  ASSUME IInv, MemInv, Dated, ~broken, usedMemory > MaxHeapSize,
         NEW t \in Worker, EvictWithExpires(t), WillEvict(t),
         \A s \in Slot : table'[s] # <<>> => table[s] # <<>>
  PROVE  WillEvict(t)'
<1> DEFINE w == walk[t]
           C == SoonestExpiring(w.pos)
           v == [w EXCEPT !.pos = NextPos(w.pos), !.evicted = C # {}]
<1>1. /\ TypeOK /\ Sound /\ MemSound /\ t \in Thread
      /\ w \in Walk /\ w.pos \in Slot
  BY WalkType DEF IInv, Sound, MemInv, Thread
<1>2. /\ pc[t] = "scan" /\ ~w.any
      /\ \A s \in Slot : table[s] # <<>> => s \in Ahead(w)
  BY DEF EvictWithExpires, WillEvict
<1>3. /\ walk'[t] = v
      /\ pc'[t] = IF C # {} THEN "return" ELSE IF NextPos(w.pos) = w.start THEN "return" ELSE "scan"
  BY <1>1, <1>2 DEF EvictWithExpires, Turn, Goto, TypeOK
<1>4. /\ v \in Walk /\ v.pos = NextPos(w.pos) /\ v.start = w.start
      /\ v.any = w.any /\ v.evicted = (C # {})
  BY <1>1, NextSlot DEF Walk
<1>5. CASE C # {}
  BY <1>2, <1>3, <1>4, <1>5 DEF WillEvict
<1>6. CASE C = {}
  <2>1. table[w.pos] = <<>>
    BY <1>1, <1>6, SlotHasCandidate
  <2>2. PICK s \in Slot : table[s] # <<>>
    <3> SUFFICES ASSUME \A s \in Slot : table[s] = <<>>
                 PROVE  FALSE
      OBVIOUS
    <3>1. \A s \in Slot : Range(table[s]) = {}
      BY DEF Range
    <3>2. Linked = {}
      BY <3>1 DEF Linked
    <3>3. usedMemory = 0
      BY <1>1, <3>2, TotalEmpty DEF MemSound
    <3> QED
      BY <3>3, DataAssumption
  <2>3. s \in Ahead(w) /\ s # w.pos
    BY <1>2, <2>1, <2>2
  <2>4. NextPos(w.pos) # w.start
    BY <1>1, <2>3, AheadNext
  <2>5. ASSUME NEW r \in Slot, table'[r] # <<>>
        PROVE  r \in Ahead(v)
    <3>1. r \in Ahead(w) /\ r # w.pos
      BY <1>2, <2>1, <2>5
    <3> HIDE DEF v, w
    <3> QED
      BY <1>1, <1>4, <3>1, AheadNext
  <2> HIDE DEF v, w, C
  <2> QED
    BY <1>2, <1>3, <1>4, <1>6, <2>4, <2>5 DEF WillEvict
<1> QED
  BY <1>5, <1>6

\* Whoever was going to evict still is, as long as the store is over its limit.
LEMMA WillEvictStays ==
  ASSUME IInv, MemInv, Dated, LoopsSound, ~broken, ~broken',
         usedMemory > MaxHeapSize, NEW t \in Worker, Continue(t), ~SetLinkNew(t), WillEvict(t),
         \A s \in Slot : table'[s] # <<>> => table[s] # <<>>
  PROVE  WillEvict(t)'
<1>1. TypeOK /\ t \in Thread /\ walk[t] \in Walk /\ walk[t].pos \in Slot
  BY WalkType DEF IInv, Thread
<1>2. CASE KVS_EvictIfNeeeded(t)
  BY <1>1, <1>2 DEF KVS_EvictIfNeeeded, Goto, TypeOK, WillEvict
<1>3. CASE HashTable_Evict(t) \/ EvictReadClock(t)
  BY <1>1, <1>3, LoopEntered DEF WillEvict
<1>4. CASE SweepLock(t)
  BY <1>1, <1>4 DEF SweepLock, Goto, TypeOK, Walk, WillEvict
<1>5. CASE SweepKeep(t) \/ SweepRemove(t)
  <2>1. pc[t] = "sweep" /\ pc'[t] = "sweep" /\ walk'[t].any = walk[t].any
    <3>1. CASE SweepKeep(t)
      BY <1>1, <3>1 DEF SweepKeep, TypeOK, Walk
    <3>2. CASE SweepRemove(t)
      BY <1>1, <3>2 DEF SweepRemove, TypeOK, Walk
    <3> QED
      BY <1>5, <3>1, <3>2
  <2> QED
    BY <2>1 DEF WillEvict
<1>6. CASE SweepUnlock(t)
  <2> DEFINE v == [walk[t] EXCEPT !.cursor = 0, !.stale = FALSE, !.time = 0]
  <2>1. /\ pc[t] = "sweep" /\ walk'[t] = v
        /\ pc'[t] = IF walk[t].evicted THEN "return" ELSE "scan"
    BY <1>1, <1>6 DEF SweepUnlock, Goto, TypeOK
  <2>2. v.pos = v.start /\ v.evicted = walk[t].evicted /\ ~v.any /\ v.pos \in Slot
    BY <1>1, <2>1 DEF LoopsSound, WillEvict, Walk
  <2>3. Ahead(v) = Slot
    BY <2>2 DEF Ahead, Slot
  <2> HIDE DEF v
  <2> QED
    BY <2>1, <2>2, <2>3 DEF WillEvict
<1>7. CASE EvictWithExpires(t)
  BY <1>7, ScanAttends
<1>8. CASE EvictReturn(t)
  BY <1>1, <1>8 DEF EvictReturn, Goto, TypeOK, WillEvict, NoWalk
<1> QED
  BY <1>2, <1>3, <1>4, <1>5, <1>6, <1>7, <1>8
  DEF Continue, WillEvict, HashTable_RemoveLapsed, HashTable_Return, SetUnlinkOld, EvictAnyItem

\* Only "set" can push the store over its limit, and its worker goes on to
\* evict when the reply has been sent.
LEMMA EvictNext ==
  ASSUME SendMayFail = FALSE, IInv, MemInv, EvictInv, [Next]_vars
  PROVE  EvictInv'
<1> SUFFICES ASSUME ~broken'
             PROVE  Dated' /\ LoopsSound' /\ Attended'
  BY DEF EvictInv
<1>1. ~broken
  BY DEF Next, vars, shared
<1>2. TypeOK /\ Sound /\ MemSound /\ Dated /\ LoopsSound /\ Attended
  BY <1>1 DEF IInv, Sound, MemInv, EvictInv
<1>3. Dated' /\ LoopsSound'
  BY <1>1, <1>2, DatedNext, LoopsNext
<1>4. ASSUME NEW t \in Worker, SetLinkNew(t)
      PROVE  WillEvict(t)'
  <2>1. t \in Thread /\ pc[t] = "link" /\ walk' = walk /\ pc'[t] = "check"
    BY <1>2, <1>4 DEF Thread, SetLinkNew, Replied, Goto, TypeOK
  <2>2. walk[t] = NoWalk
    BY <1>2, <2>1 DEF LoopsSound, Evicting
  <2> QED
    BY <2>1, <2>2 DEF WillEvict, NoWalk
<1>5. ASSUME usedMemory' > MaxHeapSize, Untouched \/ Removes
      PROVE  \E t \in Worker : WillEvict(t)'
  <2>1. /\ usedMemory > MaxHeapSize
        /\ \A s \in Slot : table'[s] # <<>> => table[s] # <<>>
    <3>1. CASE Untouched
      BY <1>5, <3>1 DEF Untouched
    <3>2. ASSUME NEW s \in Slot, NEW n \in DOMAIN table[s], HashTable_DoRemove(s, n)
          PROVE  /\ usedMemory > MaxHeapSize
                 /\ \A r \in Slot : table'[r] # <<>> => table[r] # <<>>
      <4>1. ItemSize(table[s][n]) \in Nat /\ usedMemory' = usedMemory - ItemSize(table[s][n])
        BY <1>2, <3>2, OnePlace, LinkedSize DEF Sound, HashTable_DoRemove
      <4>2. usedMemory \in Int /\ MaxHeapSize \in Nat
        BY <1>2, DataAssumption DEF TypeOK
      <4> QED
        BY <1>2, <1>5, <3>2, <4>1, <4>2, EmptyStays
    <3> QED
      BY <1>5, <3>1, <3>2 DEF Removes
  <2>2. PICK t \in Worker : WillEvict(t)
    BY <1>2, <2>1 DEF Attended
  <2>3. ASSUME pc'[t] = pc[t], walk'[t] = walk[t]
        PROVE  WillEvict(t)'
    BY <2>1, <2>2, <2>3 DEF WillEvict, Ahead
  <2>4. CASE UNCHANGED vars \/ Tick \/ KVS_Vacuum \/ Vacuum
    BY <1>2, <2>3, <2>4, TimerAlone
  <2>5. ASSUME NEW u \in Worker, u # t, Start(u) \/ Continue(u)
        PROVE  WillEvict(t)'
    BY <1>2, <2>3, <2>5, OthersStay DEF Thread
  <2>6. CASE Start(t)
    BY <2>2, <2>6 DEF WillEvict, Start, HashTable_Get, HashTable_Remove, HashTable_Set, EvictAny
  <2>7. CASE Continue(t)
    <3>1. ~SetLinkNew(t)
      BY <2>2 DEF WillEvict, SetLinkNew
    <3> QED
      BY <1>1, <1>2, <2>1, <2>2, <2>7, <3>1, WillEvictStays
  <2> QED
    BY <1>1, <2>4, <2>5, <2>6, <2>7 DEF Next
<1>6. Attended'
  BY <1>1, <1>2, <1>4, <1>5, TableStep DEF Attended
<1> QED
  BY <1>3, <1>6

\* If the reply to a "set" is always sent, the store is never over its limit
\* without a worker that has yet to look at it or is evicting.
THEOREM HeapStaysBounded ==
  ASSUME SendMayFail = FALSE
  PROVE  Spec => []HeapBounded
<1>1. Init => IInv /\ MemInv /\ EvictInv
  <2>1. ASSUME Init
        PROVE  Dated /\ LoopsSound /\ Attended
    <3>1. Dated
      <4>1. now \in 1 .. MaxTime
        BY <2>1, DataAssumption DEF Init
      <4>2. \A i \in Item : heap[i] = Freed
        BY <2>1 DEF Init
      <4> QED
        BY <4>1, <4>2 DEF Dated
    <3>2. \A t \in Thread : pc[t] = "idle" /\ walk[t] = NoWalk
      BY <2>1 DEF Init
    <3>3. LoopsSound
      BY <3>2 DEF LoopsSound, Evicting, Thread
    <3>4. ~(usedMemory > MaxHeapSize)
      BY <2>1, DataAssumption DEF Init
    <3>5. Attended
      BY <3>4 DEF Attended
    <3> QED
      BY <3>1, <3>3, <3>5
  <2> QED
    BY <2>1, InitSound, MemInit DEF EvictInv
<1>2. IInv /\ MemInv /\ EvictInv /\ [Next]_vars => (IInv /\ MemInv /\ EvictInv)'
  BY NextSound, MemNext, EvictNext
<1>3. EvictInv => HeapBounded
  BY DEF EvictInv, Attended, WillEvict, HeapBounded, Evicting
<1> QED
  BY <1>1, <1>2, <1>3, PTL DEF Spec

-----------------------------------------------------------------------------
(* The refinement of Cache: what a client finds under a key is what the one *)
(* linked item with that key holds, and every step changes that view as one *)
(* step of Cache does, or not at all.                                       *)

(* The view of the store *)

LEMMA InChain == \A i \in Linked : \E s \in Slot : \E n \in DOMAIN table[s] : i = table[s][n]
<1> TAKE i \in Linked
<1>1. i \in UNION {Range(table[s]) : s \in Slot}
  BY DEF Linked
<1> QED
  BY <1>1 DEF Range

\* What a client observes of an item is a value, and an entry is not NoItem.
LEMMA ValuesObserved ==
  ASSUME TypeOK, NEW i \in Item, heap[i] # Freed
  PROVE  /\ heap[i].key \in Key /\ heap[i].len \in ValueLen
         /\ Observed(i) # NoItem
         /\ [key |-> heap[i].key, value |-> Observed(i)] # NoItem
<1>1. heap[i] \in Content
  BY DEF TypeOK
<1>2. Observed(i) \in [len : Nat, expires : Nat]
  BY <1>1, DataAssumption DEF Content, Observed
<1>3. [key |-> heap[i].key, value |-> Observed(i)]
        \in [key : Key, value : [len : Nat, expires : Nat]]
  BY <1>1, <1>2 DEF Content
<1> QED
  BY <1>1, <1>2, <1>3, ItemAssumption DEF Content

\* An item that is linked, being built or held has not been freed.
LEMMA Alive ==
  ASSUME TypeOK, CountsSound, NEW i \in Item, i \in Linked \/ Built(i) \/ Holders(i) # {}
  PROVE  heap[i] # Freed
<1>1. IsFiniteSet(Holders(i))
  BY ThreadAssumption, FS_Subset, FS_AddElement DEF Holders, Thread
<1>2. Cardinality(Holders(i)) \in Nat /\ (Holders(i) # {} => Cardinality(Holders(i)) # 0)
  BY <1>1, FS_CardinalityType, FS_EmptySet
<1>3. refCnt[i] # 0
  BY <1>2 DEF CountsSound
<1> QED
  BY <1>3 DEF CountsSound

LEMMA MinOfOne == ASSUME NEW n \in Nat PROVE Min({n}) = n
<1>1. \E x \in {n} : \A y \in {n} : x <= y
  OBVIOUS
<1> QED
  BY <1>1 DEF Min

\* The view of a key is its linked item.
Views ==
  \A k \in Key :
    /\ \A i \in Linked : heap[i].key = k => StoreView[k] = Observed(i)
    /\ (\A i \in Linked : heap[i].key # k) => StoreView[k] = NoItem

LEMMA ViewSound == TypeOK /\ ChainsSound => Views
<1> SUFFICES ASSUME TypeOK, ChainsSound, NEW k \in Key
             PROVE  /\ \A i \in Linked : heap[i].key = k => StoreView[k] = Observed(i)
                    /\ (\A i \in Linked : heap[i].key # k) => StoreView[k] = NoItem
  BY DEF Views
<1> DEFINE s == SlotOf(k)
           found == HashTable_Search(k)
<1>1. s \in Slot /\ table[s] \in Seq(Item)
  BY SlotLock DEF TypeOK
<1>2. found = {n \in DOMAIN table[s] : heap[table[s][n]].key = k}
  BY SearchFinds
<1>3. StoreView[k] = IF found = {} THEN NoItem ELSE Observed(table[s][Min(found)])
  BY DEF StoreView
<1> HIDE DEF s, found
<1>4. ASSUME NEW i \in Linked, heap[i].key = k
      PROVE  StoreView[k] = Observed(i)
  <2>1. PICK r \in Slot : \E n \in DOMAIN table[r] : i = table[r][n]
    BY <1>4, InChain
  <2>2. PICK n \in DOMAIN table[r] : i = table[r][n]
    BY <2>1
  <2>3. r = s
    BY <1>4, <2>2 DEF ChainsSound, s
  <2>4. \A m \in DOMAIN table[s] : heap[table[s][m]].key = k => m = n
    BY <1>1, <1>4, <2>2, <2>3 DEF ChainsSound
  <2>5. found = {n}
    BY <1>2, <1>4, <2>2, <2>3, <2>4
  <2>6. Min(found) = n
    <3>1. n \in Nat
      BY <1>1, <2>2, <2>3
    <3> QED
      BY <2>5, <3>1, MinOfOne
  <2> QED
    BY <1>3, <2>2, <2>3, <2>5, <2>6
<1>5. ASSUME \A i \in Linked : heap[i].key # k
      PROVE  StoreView[k] = NoItem
  <2>1. \A n \in DOMAIN table[s] : table[s][n] \in Linked
    BY <1>1, LinkedPlace, ZenonT(40) DEF Linked
  <2>2. found = {}
    BY <1>2, <1>5, <2>1
  <2> QED
    BY <1>3, <2>2
<1> QED
  BY <1>4, <1>5

LEMMA ViewSoundNext == (TypeOK /\ ChainsSound => Views)'
  BY ViewSound, PTL

\* A key has at most one linked item.
LEMMA OneUnderKey ==
  ASSUME TypeOK, ChainsSound, NEW i \in Linked, NEW j \in Linked, heap[i].key = heap[j].key
  PROVE  i = j
<1>1. PICK r \in Slot : \E n \in DOMAIN table[r] : i = table[r][n]
  BY InChain
<1>2. PICK s \in Slot : \E n \in DOMAIN table[s] : j = table[s][n]
  BY InChain
<1>3. r = s
  BY <1>1, <1>2 DEF ChainsSound
<1> QED
  BY <1>1, <1>2, <1>3 DEF ChainsSound

\* A step that leaves the item of a key alone leaves the view of that key.
LEMMA ViewAgrees ==
  ASSUME TypeOK, ChainsSound, TypeOK', ChainsSound', NEW k \in Key,
         \A i \in Linked : heap[i].key = k => i \in Linked' /\ heap'[i] = heap[i],
         \A i \in Linked' : heap'[i].key = k => i \in Linked /\ heap'[i] = heap[i]
  PROVE  StoreView'[k] = StoreView[k]
<1>1. Views /\ Views'
  BY ViewSound, ViewSoundNext
<1>2. CASE \E i \in Linked : heap[i].key = k
  <2>1. PICK i \in Linked : heap[i].key = k
    BY <1>2
  <2>2. StoreView[k] = Observed(i)
    BY <1>1, <2>1 DEF Views
  <2>3. StoreView'[k] = Observed(i)'
    BY <1>1, <2>1 DEF Views
  <2>4. Observed(i)' = Observed(i)
    BY <2>1 DEF Observed
  <2> QED
    BY <2>2, <2>3, <2>4
<1>3. CASE \A i \in Linked : heap[i].key # k
  <2>1. ASSUME NEW i \in Linked'
        PROVE  heap'[i].key # k
    BY <1>3, <2>1, Zenon
  <2>2. StoreView[k] = NoItem
    BY <1>1, <1>3 DEF Views
  <2>3. StoreView'[k] = NoItem
    BY <1>1, <2>1 DEF Views
  <2> QED
    BY <2>2, <2>3
<1> QED
  BY <1>2, <1>3

-----------------------------------------------------------------------------
(* What a step does to the view of the store *)

StoreKept == StoreView' = StoreView
StoreDrops ==
  \E k \in Key : StoreView[k] # NoItem /\ StoreView' = [StoreView EXCEPT ![k] = NoItem]
StoreStores ==
  \E k \in Key, v \in [len : ValueLen, expires : Expiry] :
    StoreView[k] = NoItem /\ StoreView' = [StoreView EXCEPT ![k] = v]

LEMMA StoreViewShape ==
  /\ StoreView = [k \in Key |-> StoreView[k]]
  /\ StoreView' = [k \in Key |-> StoreView'[k]]
  BY DEF StoreView

\* A chain touched by nobody looks as it did.
LEMMA UntouchedView ==
  ASSUME IInv, IInv', ~broken, ~broken', [Next]_vars, Untouched
  PROVE  StoreKept
<1>1. Linked' = Linked
  BY DEF Untouched, Linked
<1>2. \A i \in Linked : heap'[i] = heap[i]
  BY <1>1, LinkedKept
<1>3. ASSUME NEW k \in Key
      PROVE  StoreView'[k] = StoreView[k]
  BY <1>1, <1>2, ViewAgrees DEF IInv
<1> QED
  BY <1>3, StoreViewShape DEF StoreKept

\* Removing an item empties the view of its key.
LEMMA RemovedView ==
  ASSUME IInv, IInv', ~broken, ~broken', [Next]_vars, Removes
  PROVE  StoreDrops
<1>1. PICK s \in Slot : \E n \in DOMAIN table[s] : HashTable_DoRemove(s, n)
  BY DEF Removes
<1>2. PICK n \in DOMAIN table[s] : HashTable_DoRemove(s, n)
  BY <1>1
<1> DEFINE x == table[s][n]
           key == heap[x].key
<1>3. TypeOK /\ ChainsSound /\ CountsSound /\ TypeOK' /\ ChainsSound'
  BY DEF IInv
<1>4. Linked' = Linked \ {x}
  BY <1>2, <1>3, RemovePlaces
<1>5. x \in Linked /\ x \in Item /\ heap[x] \in Content
  BY <1>3, OnePlace
<1>6. heap[x] # Freed
  BY <1>1, <1>3 DEF ChainsSound
<1>7. \A i \in Linked' : heap'[i] = heap[i]
  BY <1>4, LinkedKept
<1> HIDE DEF x
<1>8. key \in Key /\ Observed(x) # NoItem
  BY <1>3, <1>5, <1>6, ValuesObserved
<1>9. StoreView[key] # NoItem
  BY <1>3, <1>5, <1>8, ViewSound DEF Views
<1>10. StoreView'[key] = NoItem
  <2>1. ASSUME NEW i \in Linked'
        PROVE  heap'[i].key # key
    BY <1>3, <1>4, <1>5, <1>7, <2>1, OneUnderKey
  <2> QED
    BY <1>3, <1>8, <2>1, ViewSoundNext DEF Views
<1>11. ASSUME NEW k \in Key, k # key
       PROVE  StoreView'[k] = StoreView[k]
  BY <1>3, <1>4, <1>7, <1>11, ViewAgrees
<1> HIDE DEF key
<1>12. StoreView' = [StoreView EXCEPT ![key] = NoItem]
  BY <1>8, <1>10, <1>11, StoreViewShape
<1> QED
  BY <1>8, <1>9, <1>12 DEF StoreDrops

\* Linking an item fills the view of its key, which was empty.
LEMMA LinkedView ==
  ASSUME IInv, IInv', Dated, ~broken, ~broken', [Next]_vars, NEW t \in Worker, SetLinkNew(t)
  PROVE  StoreStores
<1>0. PICK x : x = item[t]
  OBVIOUS
<1> DEFINE key == heap[x].key
           s == SlotOf(key)
<1>1. TypeOK /\ ChainsSound /\ Sound /\ TypeOK' /\ ChainsSound'
  BY DEF IInv, Sound
<1>2. /\ x \in Item \ Linked /\ heap[x] \in Content /\ key \in Key /\ s \in Slot
      /\ \A m \in DOMAIN table[s] : heap[table[s][m]].key # key
      /\ Linked' = Linked \cup {x}
  BY <1>0, <1>1, LinkPlaces
<1>3. heap' = heap
  BY DEF SetLinkNew
<1>4. heap[x] # Freed
  <2>1. pc[t] = "link" /\ t \in Thread
    BY DEF SetLinkNew, Thread
  <2>2. Built(x)
    BY <1>0, <2>1 DEF Built, Building
  <2> QED
    BY <1>1, <1>2, <2>2, Alive DEF Sound
<1>5. ASSUME NEW i \in Linked
      PROVE  heap[i].key # key
  <2>1. PICK r \in Slot : \E n \in DOMAIN table[r] : i = table[r][n]
    BY InChain
  <2> QED
    BY <1>1, <1>2, <2>1 DEF ChainsSound
<1> HIDE DEF s
<1>6. StoreView[key] = NoItem
  BY <1>1, <1>2, <1>5, ViewSound DEF Views
<1>7. StoreView'[key] = Observed(x)
  <2>1. StoreView'[key] = Observed(x)'
    BY <1>1, <1>2, <1>3, ViewSoundNext DEF Views
  <2>2. x \in Item /\ heap'[x].len = heap[x].len /\ heap'[x].expires = heap[x].expires
    BY <1>2, <1>3
  <2> QED
    BY <2>1, <2>2 DEF Observed
<1>8. Observed(x) \in [len : ValueLen, expires : Expiry]
  BY <1>2, <1>4 DEF Observed, Content, Dated
<1>9. ASSUME NEW k \in Key, k # key
      PROVE  StoreView'[k] = StoreView[k]
  BY <1>1, <1>2, <1>3, <1>9, ViewAgrees
<1> HIDE DEF key
<1>10. StoreView' = [StoreView EXCEPT ![key] = Observed(x)]
  BY <1>2, <1>7, <1>9, StoreViewShape
<1> QED
  BY <1>2, <1>6, <1>8, <1>10 DEF StoreStores

-----------------------------------------------------------------------------
(* What a step does to what the clients hold *)

HeldAlive ==
  \A c \in Worker : pc[c] = "hold" => item[c] \in Item /\ heap[item[c]] # Freed

LEMMA HeldSound == TypeOK /\ Sound => HeldAlive
<1> SUFFICES ASSUME TypeOK, Sound, NEW c \in Worker, pc[c] = "hold"
             PROVE  item[c] \in Item /\ heap[item[c]] # Freed
  BY DEF HeldAlive
<1>1. c \in Thread /\ item[c] \in Item
  BY DEF Thread, Sound, ThreadsSound
<1>2. c \in Holders(item[c])
  BY <1>1 DEF Holders
<1> QED
  BY <1>1, <1>2, Alive DEF Sound

LEMMA HeldSoundNext == (TypeOK /\ Sound => HeldAlive)'
  BY HeldSound, PTL

SameHold(c) ==
  /\ pc'[c] = "hold" <=> pc[c] = "hold"
  /\ pc[c] = "hold" => item'[c] = item[c]

LEMMA HeldViewShape ==
  /\ HeldView = [c \in Worker |-> HeldView[c]]
  /\ HeldView' = [c \in Worker |-> HeldView'[c]]
  BY DEF HeldView

\* What a client holds stays what it is, whatever happens to its key.
LEMMA HoldKept ==
  ASSUME TypeOK, Sound, TypeOK', Sound', ~broken, [Next]_vars, NEW c \in Worker, SameHold(c)
  PROVE  HeldView'[c] = HeldView[c]
<1>1. CASE pc[c] # "hold"
  BY <1>1 DEF SameHold, HeldView
<1>2. CASE pc[c] = "hold"
  <2>1. pc'[c] = "hold" /\ item'[c] = item[c]
    BY <1>2 DEF SameHold
  <2>2. item[c] \in Item /\ heap[item[c]] # Freed
    BY <1>2, HeldSound DEF HeldAlive
  <2>3. heap'[item[c]] # Freed
    BY <2>1, HeldSoundNext DEF HeldAlive
  <2>4. heap'[item[c]] = heap[item[c]]
    BY <2>2, <2>3, HeapStep DEF HeapKept
  <2> QED
    BY <1>2, <2>1, <2>4 DEF HeldView, Observed
<1> QED
  BY <1>1, <1>2

\* Only a "get" that hits, and the return of its item, change who holds what.
LEMMA HoldStep ==
  ASSUME TypeOK, ~broken, [Next]_vars
  PROVE  \/ \A c \in Worker : SameHold(c)
         \/ \E t \in Worker :
              /\ HashTable_Return(t) \/ \E k \in Key : HashTable_Get(t, k)
              /\ \A c \in Worker \ {t} : SameHold(c)
<1>1. CASE UNCHANGED vars \/ Tick
  BY <1>1 DEF vars, locals, Tick, SameHold
<1>2. CASE KVS_Vacuum \/ Vacuum
  <2>1. item' = item
    BY <1>2 DEF KVS_Vacuum, Vacuum, HashTable_RemoveExpired, RemoveExpiredTurn
  <2>2. \A c \in Worker : pc'[c] = pc[c]
    BY <1>2, TimerAlone
  <2> QED
    BY <2>1, <2>2 DEF SameHold
<1>3. ASSUME NEW t \in Worker, Start(t) \/ Continue(t)
      PROVE  \A c \in Worker \ {t} : SameHold(c)
  <2>1. \A c \in Worker \ {t} : pc'[c] = pc[c]
    BY <1>3, OthersStay DEF Thread
  <2>2. \A c \in Worker \ {t} : item'[c] = item[c]
    <3>1. CASE Start(t)
      BY <3>1 DEF Start, HashTable_Get, HashTable_Remove, HashTable_Set, EvictAny, shared,
         TypeOK, Thread
    <3>2. CASE Continue(t)
      BY <3>2 DEF Continue, HashTable_RemoveLapsed, HashTable_Return, SetUnlinkOld, SetLinkNew,
         KVS_EvictIfNeeeded, HashTable_Evict, EvictReadClock, SweepLock, SweepKeep, SweepRemove,
         SweepUnlock, EvictWithExpires, EvictAnyItem, Turn, EvictReturn, shared, TypeOK,
         Thread
    <3> QED
      BY <1>3, <3>1, <3>2
  <2> QED
    BY <2>1, <2>2 DEF SameHold
<1>4. ASSUME NEW t \in Worker, Start(t)
      PROVE  SameHold(t) \/ \E k \in Key : HashTable_Get(t, k)
  BY <1>4 DEF Start, HashTable_Remove, Replied, HashTable_Set, EvictAny, Goto, SameHold, TypeOK,
     Thread
<1>5. ASSUME NEW t \in Worker, Continue(t)
      PROVE  SameHold(t) \/ HashTable_Return(t)
  BY <1>5 DEF Continue, HashTable_RemoveLapsed, SetUnlinkOld, SetLinkNew, Replied,
     KVS_EvictIfNeeeded, HashTable_Evict, EvictReadClock, SweepLock, SweepKeep, SweepRemove,
     SweepUnlock, EvictWithExpires, EvictAnyItem, Turn, EvictReturn, Goto, SameHold, TypeOK,
     Thread
<1> QED
  BY <1>1, <1>2, <1>3, <1>4, <1>5 DEF Next

-----------------------------------------------------------------------------
(* Every step is a step of Cache *)

\* A "get" is a hit of Cache, unless the item has expired: then nothing happens
\* that a client could observe.
LEMMA GetHits ==
  ASSUME IInv, IInv', ~broken, ~broken', [Next]_vars, NEW t \in Worker, NEW k \in Key,
         HashTable_Get(t, k), \A c \in Worker \ {t} : SameHold(c)
  PROVE  Promise!Next \/ UNCHANGED Promise!vars
<1>1. TypeOK /\ Sound /\ TypeOK' /\ Sound' /\ Views /\ t \in Thread
  BY ViewSound DEF IInv, Sound, Thread
<1>2. StoreKept
  BY UntouchedView DEF HashTable_Get, Untouched
<1>3. \A c \in Worker \ {t} : HeldView'[c] = HeldView[c]
  BY <1>1, HoldKept
<1>4. CASE SameHold(t)
  <2>1. HeldView'[t] = HeldView[t]
    BY <1>1, <1>4, HoldKept
  <2>2. HeldView' = HeldView
    BY <1>3, <2>1, HeldViewShape
  <2> QED
    BY <1>2, <2>2 DEF Promise!vars, StoreKept
<1>5. CASE ~SameHold(t)
  <2>1. pc[t] = "idle"
    BY DEF HashTable_Get
  <2>2. PICK n \in HashTable_Search(k) :
          LET i == table[SlotOf(k)][n] IN
          \/ Goto(t, "lapsed")
          \/ DictionaryItem_Ref(i) /\ Goto(t, "hold") /\ item' = [item EXCEPT ![t] = i]
    BY DEF HashTable_Get
  <2>3. PICK i : i = table[SlotOf(k)][n]
    OBVIOUS
  <2>4. pc'[t] = "hold"
    BY <1>1, <1>5, <2>1, <2>2 DEF SameHold, Goto, TypeOK
  <2>5. heap' = heap /\ item'[t] = i
    BY <1>1, <2>2, <2>3, <2>4 DEF Goto, DictionaryItem_Ref, TypeOK
  <2>6. n \in DOMAIN table[SlotOf(k)] /\ heap[i].key = k
    BY <2>3 DEF HashTable_Search
  <2>7. i \in Linked /\ i \in Item /\ heap[i] # Freed
    BY <1>1, <2>3, <2>6, SlotLock, OnePlace DEF Sound, ChainsSound
  <2>8. StoreView[k] = Observed(i) /\ StoreView[k] # NoItem
    BY <1>1, <2>6, <2>7, ValuesObserved DEF Views
  <2>9. HeldView[t] = NoItem
    BY <2>1 DEF HeldView
  <2>10. HeldView'[t] = [key |-> k, value |-> StoreView[k]]
    <3>1. HeldView'[t] = [key |-> heap'[i].key, value |-> Observed(i)']
      BY <2>4, <2>5 DEF HeldView, Observed
    <3> QED
      BY <2>5, <2>6, <2>8, <3>1 DEF Observed
  <2>11. HeldView' = [HeldView EXCEPT ![t] = [key |-> k, value |-> StoreView[k]]]
    BY <1>3, <2>10, HeldViewShape
  <2>12. Promise!Hit(t, k)
    BY <1>2, <2>8, <2>9, <2>11 DEF Promise!Hit, StoreKept
  <2> QED
    BY <2>12 DEF Promise!Next
<1> QED
  BY <1>4, <1>5

\* Giving an item back is Cache's Release.
LEMMA ReturnReleases ==
  ASSUME IInv, IInv', ~broken, ~broken', [Next]_vars, NEW t \in Worker,
         HashTable_Return(t), \A c \in Worker \ {t} : SameHold(c)
  PROVE  Promise!Next
<1>1. TypeOK /\ Sound /\ TypeOK' /\ Sound' /\ t \in Thread
  BY DEF IInv, Sound, Thread
<1>2. StoreKept
  BY UntouchedView DEF HashTable_Return, Untouched
<1>3. \A c \in Worker \ {t} : HeldView'[c] = HeldView[c]
  BY <1>1, HoldKept
<1>4. pc[t] = "hold" /\ pc'[t] = "idle"
  BY <1>1 DEF HashTable_Return, Goto, TypeOK
<1>5. HeldView[t] # NoItem
  <2>1. item[t] \in Item /\ heap[item[t]] # Freed
    BY <1>1, <1>4, HeldSound DEF HeldAlive
  <2>2. [key |-> heap[item[t]].key, value |-> Observed(item[t])] # NoItem
    BY <1>1, <2>1, ValuesObserved
  <2> QED
    BY <1>4, <2>2 DEF HeldView
<1>6. HeldView'[t] = NoItem
  BY <1>4 DEF HeldView
<1>7. HeldView' = [HeldView EXCEPT ![t] = NoItem]
  BY <1>3, <1>6, HeldViewShape
<1>8. Promise!Release(t)
  BY <1>2, <1>5, <1>7 DEF Promise!Release, StoreKept
<1> QED
  BY <1>8 DEF Promise!Next

\* All other steps change the store at most, an entry at a time.
LEMMA StoreStep ==
  ASSUME IInv, IInv', Dated, ~broken, ~broken', [Next]_vars, \A c \in Worker : SameHold(c)
  PROVE  Promise!Next \/ UNCHANGED Promise!vars
<1>1. TypeOK /\ Sound /\ TypeOK' /\ Sound'
  BY DEF IInv, Sound
<1>2. \A c \in Worker : HeldView'[c] = HeldView[c]
  BY <1>1, HoldKept
<1>3. HeldView' = HeldView
  BY <1>2, HeldViewShape
<1>4. CASE Untouched
  BY <1>3, <1>4, UntouchedView DEF StoreKept, Promise!vars
<1>5. CASE Removes
  <2>1. StoreDrops
    BY <1>5, RemovedView
  <2>2. \E k \in Key : Promise!Drop(k)
    BY <1>3, <2>1 DEF StoreDrops, Promise!Drop
  <2> QED
    BY <2>2 DEF Promise!Next
<1>6. CASE \E t \in Worker : SetLinkNew(t)
  <2>1. StoreStores
    BY <1>6, LinkedView
  <2>2. \E k \in Key, v \in [len : ValueLen, expires : Expiry] : Promise!Store(k, v)
    BY <1>3, <2>1 DEF StoreStores, Promise!Store
  <2> QED
    BY <2>2 DEF Promise!Next
<1> QED
  BY <1>1, <1>4, <1>5, <1>6, TableStep

LEMMA CacheStep ==
  ASSUME IInv, IInv', Dated, ~broken, ~broken', [Next]_vars
  PROVE  [Promise!Next]_(Promise!vars)
<1>1. TypeOK
  BY DEF IInv
<1>2. CASE \A c \in Worker : SameHold(c)
  BY <1>2, StoreStep
<1>3. ASSUME NEW t \in Worker, HashTable_Return(t), \A c \in Worker \ {t} : SameHold(c)
      PROVE  Promise!Next
  BY <1>3, ReturnReleases
<1>4. ASSUME NEW t \in Worker, NEW k \in Key, HashTable_Get(t, k),
             \A c \in Worker \ {t} : SameHold(c)
      PROVE  Promise!Next \/ UNCHANGED Promise!vars
  BY <1>4, GetHits
<1> QED
  BY <1>1, <1>2, <1>3, <1>4, HoldStep

LEMMA CacheInit == Init => Promise!Init
<1> SUFFICES ASSUME Init PROVE Promise!Init
  OBVIOUS
<1>1. \A k \in Key : HashTable_Search(k) = {}
  BY SlotLock DEF Init, HashTable_Search
<1>2. StoreView = [k \in Key |-> NoItem]
  BY <1>1 DEF StoreView
<1>3. HeldView = [c \in Worker |-> NoItem]
  BY DEF HeldView, Init, Thread
<1> QED
  BY <1>2, <1>3 DEF Promise!Init

DatedInv == ~broken => Dated

LEMMA DatedInvariance == Spec => []DatedInv
<1>1. Init => DatedInv
  <2> SUFFICES ASSUME Init PROVE Dated
    BY DEF DatedInv
  <2>1. now \in 1 .. MaxTime
    BY DataAssumption DEF Init
  <2>2. \A i \in Item : heap[i] = Freed
    BY DEF Init
  <2> QED
    BY <2>1, <2>2 DEF Dated
<1>2. IInv /\ DatedInv /\ [Next]_vars => DatedInv'
  <2> SUFFICES ASSUME IInv, DatedInv, [Next]_vars, ~broken'
               PROVE  Dated'
    BY DEF DatedInv
  <2>1. ~broken
    BY DEF Next, vars, shared
  <2> QED
    BY <2>1, DatedNext DEF DatedInv
<1> QED
  BY <1>1, <1>2, Invariance, PTL DEF Spec

\* The chains, locks, counts and loops of the table implement Cache: a client
\* finds under a key only what was stored under it, the newest value replaces
\* the older, and what it is given stays as it was until it gives it back.  The
\* one way out is a sweep that unlinks through an item it has already removed.
THEOREM TableIsCache == Spec => CacheUntilBroken
<1>1. Spec => Promise!Init
  BY CacheInit DEF Spec
<1>2. IInv /\ IInv' /\ DatedInv /\ [Next]_vars
        => [broken' \/ [Promise!Next]_(Promise!vars)]_vars
  <2> SUFFICES ASSUME IInv, IInv', DatedInv, [Next]_vars, ~broken', vars' # vars
               PROVE  [Promise!Next]_(Promise!vars)
    OBVIOUS
  <2>1. ~broken
    BY DEF Next, vars, shared
  <2> QED
    BY <2>1, CacheStep DEF DatedInv
<1> QED
  BY <1>1, <1>2, Invariance, DatedInvariance, PTL DEF Spec, CacheUntilBroken

-----------------------------------------------------------------------------
(* Where no sweep goes wrong *)

\* The item that a sweep has come to after one that it removed has not expired
\* at the time it goes by, which is no later than the clock's.
PastNeighbour(t) ==
  LET w == walk[t] IN
  w.cursor \in DOMAIN table[w.pos] => ~Expired(table[w.pos][w.cursor], w.time)
SweepSound ==
  \A t \in Worker : /\ walk[t].time <= now
                    /\ walk[t].stale => pc[t] = "sweep" /\ PastNeighbour(t)

\* Nobody but the sweep that holds its lock changes a chain.
LEMMA SweptChainKept ==
  ASSUME IInv, ~broken, [Next]_vars, NEW u \in Worker, pc[u] = "sweep", ~SweepRemove(u)
  PROVE  table'[walk[u].pos] = table[walk[u].pos]
<1> DEFINE p == walk[u].pos
<1>1. TypeOK /\ Sound /\ u \in Thread /\ p \in Slot
  BY WalkType DEF IInv, Sound, Thread
<1>2. locks[LockOf(p)] = u /\ u # NoThread
  BY <1>1, ThreadAssumption DEF Sound, LocksSound
<1> HIDE DEF p
<1>3. ASSUME NEW s, NEW n, s # p, table' = [table EXCEPT ![s] = n]
      PROVE  table'[p] = table[p]
  BY <1>1, <1>3 DEF TypeOK
<1>4. ASSUME NEW s, NEW C, RemoveOneOf(s, C)
      PROVE  table'[p] = table[p]
  <2>1. s # p
    BY <1>2, <1>4 DEF RemoveOneOf, Unlocked
  <2> QED
    BY <1>3, <1>4, <2>1 DEF RemoveOneOf, HashTable_DoRemove, KeepItems
<1>5. CASE UNCHANGED vars \/ Tick \/ KVS_Vacuum \/ HashTable_RemoveExpired
  BY <1>5 DEF vars, shared, Tick, KVS_Vacuum, HashTable_RemoveExpired
<1>8. CASE RemoveExpiredTurn
  BY <1>4, <1>8 DEF RemoveExpiredTurn, p
<1>6. ASSUME NEW t \in Worker, Start(t)
      PROVE  table'[p] = table[p]
  BY <1>4, <1>6 DEF Start, HashTable_Get, HashTable_Remove, HashTable_Set, EvictAny, shared
<1>7. ASSUME NEW t \in Worker, Continue(t)
      PROVE  table'[p] = table[p]
  <2>1. CASE SetLinkNew(t)
    <3> DEFINE s == SlotOf(heap[item[t]].key)
    <3>1. t \in Thread /\ t # u /\ pc[t] = "link" /\ table' = [table EXCEPT ![s] = <<item[t]>> \o @]
      BY <1>1, <2>1 DEF SetLinkNew, Thread
    <3>2. locks[LockOf(s)] = t
      BY <1>1, <3>1 DEF Sound, LocksSound
    <3>3. s # p
      BY <1>2, <3>1, <3>2
    <3> QED
      BY <1>3, <3>1, <3>3
  <2>2. CASE SweepRemove(t)
    <3>1. t \in Thread /\ t # u /\ pc[t] = "sweep"
      BY <2>2 DEF SweepRemove, Thread
    <3>2. locks[LockOf(walk[t].pos)] = t
      BY <1>1, <3>1 DEF Sound, LocksSound
    <3>3. walk[t].pos # p
      BY <1>2, <3>1, <3>2
    <3> QED
      BY <1>3, <2>2, <3>3 DEF SweepRemove, HashTable_DoRemove, StaleUnchain
  <2>3. CASE \/ HashTable_RemoveLapsed(t) \/ SetUnlinkOld(t)
             \/ EvictWithExpires(t) \/ EvictAnyItem(t)
    BY <1>4, <2>3 DEF HashTable_RemoveLapsed, SetUnlinkOld, EvictWithExpires, EvictAnyItem, Turn
  <2>4. CASE \/ HashTable_Return(t) \/ KVS_EvictIfNeeeded(t) \/ HashTable_Evict(t)
             \/ EvictReadClock(t) \/ SweepLock(t) \/ SweepKeep(t) \/ SweepUnlock(t)
             \/ EvictReturn(t)
    BY <2>4 DEF HashTable_Return, KVS_EvictIfNeeeded, HashTable_Evict, EvictReadClock,
       SweepLock, SweepKeep, SweepUnlock, EvictReturn, shared
  <2> QED
    BY <1>7, <2>1, <2>2, <2>3, <2>4 DEF Continue
<1> QED
  BY <1>5, <1>6, <1>7, <1>8 DEF Next, Vacuum, p

\* A sweep does not remove the item next to one it removed.
LEMMA SweepsRemoveApart ==
  ASSUME SweepSound, ~broken, [Next]_vars
  PROVE  /\ ~broken'
         /\ \A t \in Worker : SweepRemove(t) =>
              ~walk[t].stale /\ HashTable_DoRemove(walk[t].pos, walk[t].cursor)
<1>1. ASSUME NEW t \in Worker, SweepRemove(t)
      PROVE  /\ ~walk[t].stale /\ HashTable_DoRemove(walk[t].pos, walk[t].cursor)
             /\ broken' = broken
  BY <1>1 DEF SweepRemove, SweepSound, PastNeighbour
<1>2. ASSUME UNCHANGED vars \/ Tick \/ KVS_Vacuum \/ Vacuum
      PROVE  broken' = broken
  BY <1>2 DEF vars, shared, Tick, KVS_Vacuum, Vacuum, HashTable_RemoveExpired, RemoveExpiredTurn
<1>3. ASSUME NEW t \in Worker, Start(t)
      PROVE  broken' = broken
  BY <1>3 DEF Start, HashTable_Get, HashTable_Remove, HashTable_Set, EvictAny, shared
<1>4. ASSUME NEW t \in Worker, Continue(t)
      PROVE  broken' = broken
  BY <1>1, <1>4 DEF Continue, HashTable_RemoveLapsed, HashTable_Return, SetUnlinkOld, SetLinkNew,
     KVS_EvictIfNeeeded, HashTable_Evict, EvictReadClock, SweepLock, SweepKeep,
     SweepUnlock, EvictWithExpires, EvictAnyItem, Turn, EvictReturn, shared
<1> QED
  BY <1>1, <1>2, <1>3, <1>4 DEF Next

\* What a step can do to the locals of a sweep.
LEMMA SweepStep ==
  ASSUME TypeOK, ~broken, [Next]_vars, NEW t \in Worker
  PROVE  \/ pc'[t] = pc[t] /\ walk'[t] = walk[t] /\ ~SweepRemove(t)
         \/ SweepRemove(t)
         \/ /\ walk'[t].stale => walk[t].stale /\ pc[t] # "sweep"
            /\ walk'[t].time \in {0, walk[t].time, now}
<1>1. /\ t \in Thread /\ walk[t] \in Walk /\ NoWalk.time = 0 /\ ~NoWalk.stale
      /\ DOMAIN walk = Thread
  BY WalkType DEF Thread, NoWalk, TypeOK
<1> DEFINE Still == pc'[t] = pc[t] /\ walk'[t] = walk[t]
           Moves == /\ walk'[t].stale => walk[t].stale /\ pc[t] # "sweep"
                    /\ walk'[t].time \in {0, walk[t].time, now}
<1>2. CASE UNCHANGED vars \/ Tick \/ KVS_Vacuum \/ Vacuum
  BY <1>2, TimerAlone
<1>3. ASSUME NEW u \in Worker, u # t, Start(u) \/ Continue(u)
      PROVE  Still
  BY <1>1, <1>3, OthersStay DEF Thread
<1>4. CASE Start(t)
  <2>1. pc[t] = "idle" /\ (walk' = walk \/ walk' = [walk EXCEPT ![t].any = TRUE])
    BY <1>4 DEF Start, HashTable_Get, HashTable_Remove, HashTable_Set, EvictAny
  <2>2. CASE walk' = walk
    BY <2>1, <2>2
  <2>3. CASE walk' = [walk EXCEPT ![t].any = TRUE]
    BY <1>1, <2>1, <2>3 DEF Walk
  <2> QED
    BY <2>1, <2>2, <2>3
<1>5. CASE \/ HashTable_RemoveLapsed(t) \/ HashTable_Return(t) \/ SetUnlinkOld(t) \/ SetLinkNew(t)
           \/ KVS_EvictIfNeeeded(t)
  <2>1. walk' = walk /\ pc[t] # "sweep"
    BY <1>5 DEF HashTable_RemoveLapsed, HashTable_Return, SetUnlinkOld, SetLinkNew,
       KVS_EvictIfNeeeded
  <2> QED
    BY <2>1
<1>6. CASE HashTable_Evict(t) \/ EvictReadClock(t) \/ SweepLock(t) \/ EvictReturn(t)
  <2>1. /\ pc[t] # "sweep"
        /\ \/ walk' = [walk EXCEPT ![t].pos = evictionPosition, ![t].start = evictionPosition]
           \/ walk' = [walk EXCEPT ![t].time = now]
           \/ walk' = [walk EXCEPT ![t].cursor = 1]
           \/ walk' = [walk EXCEPT ![t] = NoWalk]
    BY <1>6 DEF HashTable_Evict, EvictReadClock, SweepLock, EvictReturn
  <2>2. CASE walk' = [walk EXCEPT ![t].pos = evictionPosition, ![t].start = evictionPosition]
    BY <1>1, <2>1, <2>2 DEF Walk
  <2>3. CASE walk' = [walk EXCEPT ![t].time = now] \/ walk' = [walk EXCEPT ![t].cursor = 1]
    BY <1>1, <2>1, <2>3 DEF Walk
  <2>4. CASE walk' = [walk EXCEPT ![t] = NoWalk]
    BY <1>1, <2>1, <2>4
  <2> QED
    BY <2>1, <2>2, <2>3, <2>4
<1>7. CASE SweepKeep(t) \/ SweepUnlock(t)
  <2>1. \/ walk' = [walk EXCEPT ![t].cursor = @ + 1, ![t].stale = FALSE]
        \/ walk' = [walk EXCEPT ![t].cursor = 0, ![t].stale = FALSE, ![t].time = 0]
    BY <1>7 DEF SweepKeep, SweepUnlock
  <2>2. walk'[t].stale = FALSE /\ walk'[t].time \in {0, walk[t].time}
    BY <1>1, <2>1 DEF Walk
  <2> QED
    BY <2>2
<1>8. CASE EvictWithExpires(t) \/ EvictAnyItem(t)
  <2>1. pc[t] # "sweep" /\ \E p, e : walk' = [walk EXCEPT ![t].pos = p, ![t].evicted = e]
    BY <1>8 DEF EvictWithExpires, EvictAnyItem, Turn
  <2> QED
    BY <1>1, <2>1 DEF TypeOK, Walk
<1> QED
  BY <1>2, <1>3, <1>4, <1>5, <1>6, <1>7, <1>8 DEF Next, Continue

\* A sweep that has removed an item where no two neighbours have expired comes
\* to one that has not.
LEMMA SweepRemoveSpaced ==
  ASSUME IInv, SweepSound, Spaced, ~broken, [Next]_vars, NEW t \in Worker, SweepRemove(t)
  PROVE  pc'[t] = "sweep" /\ PastNeighbour(t)' /\ walk'[t].time = walk[t].time
<1> DEFINE w == walk[t]
           chain == table[w.pos]
           n == w.cursor
<1>1. TypeOK /\ Sound /\ t \in Thread /\ w \in Walk /\ w.pos \in Slot /\ w.time \in Nat
  BY WalkType DEF IInv, Sound, Thread
<1>2. /\ n \in DOMAIN chain /\ Expired(chain[n], w.time) /\ pc'[t] = "sweep"
      /\ walk' = [walk EXCEPT ![t].stale = TRUE, ![t].evicted = TRUE]
  BY DEF SweepRemove
<1>3. walk'[t].pos = w.pos /\ walk'[t].cursor = n /\ walk'[t].time = w.time
  BY <1>1, <1>2 DEF TypeOK, Walk
<1>4. HashTable_DoRemove(w.pos, n) /\ ~broken'
  BY SweepsRemoveApart
<1>5. chain \in Seq(Item) /\ n \in 1 .. Len(chain)
  BY <1>1, <1>2, OnePlace DEF Sound
<1>6. table'[w.pos] = RemoveAt(chain, n)
  BY <1>1, <1>4 DEF HashTable_DoRemove, TypeOK
<1>7. ASSUME n \in DOMAIN table'[w.pos]
      PROVE  ~(heap'[table'[w.pos][n]].expires > 0 /\ heap'[table'[w.pos][n]].expires < w.time)
  <2>1. n + 1 \in 2 .. Len(chain) /\ (n + 1) - 1 = n /\ table'[w.pos][n] = chain[n + 1]
    <3>1. PICK q \in Seq(Item) : q = RemoveAt(chain, n)
      BY <1>5, RemoveAtElements
    <3>2. /\ Len(q) = Len(chain) - 1
          /\ \A m \in 1 .. (Len(chain) - 1) : q[m] = IF m < n THEN chain[m] ELSE chain[m + 1]
      BY <1>5, <3>1, RemoveAtElements
    <3>3. table'[w.pos] = q
      BY <1>6, <3>1
    <3>4. n \in 1 .. Len(q)
      BY <1>7, <3>1, <3>3
    <3>5. PICK l \in Nat : l = Len(chain)
      BY <1>5
    <3>6. n \in 1 .. l /\ n \in 1 .. (l - 1) /\ q[n] = chain[n + 1]
      BY <1>5, <3>2, <3>4, <3>5
    <3>7. n + 1 \in 2 .. l /\ (n + 1) - 1 = n
      BY <3>6
    <3> QED
      BY <3>3, <3>5, <3>6, <3>7
  <2> DEFINE i == chain[n + 1]
  <2>2. i \in Linked /\ i \in Item /\ heap[i] \in Content
    BY <1>1, <1>5, <2>1, OnePlace DEF Sound
  <2>3. i \in Linked'
    BY <1>1, <1>7, <2>1, LinkedPlace DEF Linked
  <2>4. heap'[i] = heap[i]
    BY <1>4, <2>2, <2>3, LinkedKept
  <2>5. heap[chain[n]] \in Content
    BY <1>1, <1>2, OnePlace DEF Sound
  <2>6. w.time <= now /\ now \in Nat
    BY <1>1 DEF SweepSound, TypeOK
  <2>7. Expired(chain[n], now)
    <3>1. PICK x \in Nat : x = heap[chain[n]].expires
      BY <2>5 DEF Content
    <3>2. x > 0 /\ x < w.time
      BY <1>2, <3>1 DEF Expired
    <3>3. x > 0 /\ x < now
      <4>1. PICK y \in Nat : y = w.time
        BY <1>1
      <4>2. x < y /\ y <= now
        BY <2>6, <3>2, <4>1
      <4> QED
        BY <2>6, <3>2, <4>2
    <3> QED
      BY <3>1, <3>3 DEF Expired
  <2>8. ~Expired(chain[n + 1], now)
    BY <1>1, <2>1, <2>7 DEF Spaced
  <2>9. ~(heap[i].expires > 0 /\ heap[i].expires < w.time)
    BY <1>1, <2>2, <2>6, <2>8 DEF Expired, Content
  <2> QED
    BY <2>1, <2>4, <2>9
<1> QED
  BY <1>2, <1>3, <1>7 DEF PastNeighbour, Expired, SweepRemove

\* One step where no two neighbours have expired.
LEMMA SweepSoundNext ==
  ASSUME IInv, SweepSound, Spaced, ~broken, [Next]_vars
  PROVE  SweepSound'
<1>1. TypeOK /\ Sound /\ ~broken'
  BY SweepsRemoveApart DEF IInv, Sound
<1>2. now \in Nat /\ now' \in Nat /\ now <= now'
  BY <1>1, ClockStep DEF TypeOK
<1> SUFFICES ASSUME NEW t \in Worker
             PROVE  /\ walk'[t].time <= now'
                    /\ walk'[t].stale => pc'[t] = "sweep" /\ PastNeighbour(t)'
  BY DEF SweepSound
<1>3. walk[t].time \in Nat /\ walk[t].time <= now /\ walk[t].pos \in Slot
  BY <1>1, WalkType DEF SweepSound, Thread
<1>4. walk[t].stale => pc[t] = "sweep" /\ PastNeighbour(t)
  BY DEF SweepSound
<1>5. CASE SweepRemove(t)
  BY <1>2, <1>3, <1>5, SweepRemoveSpaced
<1>6. CASE pc'[t] = pc[t] /\ walk'[t] = walk[t] /\ ~SweepRemove(t)
  <2>1. ASSUME walk[t].stale
        PROVE  PastNeighbour(t)'
    <3> DEFINE w == walk[t]
               i == table[w.pos][w.cursor]
    <3>1. table'[w.pos] = table[w.pos]
      BY <1>4, <1>6, <2>1, SweptChainKept
    <3>2. ASSUME w.cursor \in DOMAIN table[w.pos]
          PROVE  ~(heap'[i].expires > 0 /\ heap'[i].expires < w.time)
      <4>1. i \in Linked
        BY <1>1, <1>3, <3>2, LinkedPlace DEF Linked
      <4>2. i \in Linked'
        BY <1>3, <3>1, <3>2, LinkedPlace DEF Linked
      <4>3. heap'[i] = heap[i]
        BY <1>1, <4>1, <4>2, LinkedKept
      <4> QED
        BY <1>4, <2>1, <3>2, <4>3 DEF PastNeighbour, Expired
    <3> QED
      BY <1>6, <3>1, <3>2 DEF PastNeighbour, Expired
  <2> QED
    BY <1>2, <1>3, <1>4, <1>6, <2>1
<1>7. CASE /\ walk'[t].stale => walk[t].stale /\ pc[t] # "sweep"
           /\ walk'[t].time \in {0, walk[t].time, now}
  BY <1>2, <1>3, <1>4, <1>7
<1> QED
  BY <1>1, <1>5, <1>6, <1>7, SweepStep

\* However many workers sweep, store, read and delete, and however they share
\* slots and locks: a sweep breaks a chain only where two neighbours in it have
\* expired, at some moment, together.
THEOREM SweepsBreakOnlyNeighbours == Spec => OnlyNeighboursBreak
<1>1. Init => SweepSound /\ ~broken
  <2>1. ASSUME Init, NEW t \in Worker
        PROVE  walk[t] = NoWalk /\ now = 1
    BY <2>1 DEF Init, Thread
  <2>2. NoWalk.time = 0 /\ ~NoWalk.stale
    BY DEF NoWalk
  <2>3. Init => ~broken
    BY DEF Init
  <2> QED
    BY <2>1, <2>2, <2>3 DEF SweepSound
<1>2. IInv /\ SweepSound /\ ~broken /\ Spaced /\ [Next]_vars => (SweepSound /\ ~broken)'
  BY SweepSoundNext, SweepsRemoveApart
<1> QED
  BY <1>1, <1>2, Invariance, PTL DEF Spec, OnlyNeighboursBreak

\* So there is no other way out: while no two neighbours have expired together
\* the table, whoever shares its slots, implements Cache.
THEOREM SpacedIsCache == Spec => ([]Spaced => ImplementsCache)
<1>1. Spec => Promise!Init
  BY CacheInit DEF Spec
<1>2. IInv /\ IInv' /\ DatedInv /\ ~broken /\ ~broken' /\ [Next]_vars
        => [Promise!Next]_(Promise!vars)
  BY CacheStep DEF DatedInv
<1>3. Spec => ([]Spaced => []~broken)
  BY SweepsBreakOnlyNeighbours DEF OnlyNeighboursBreak
<1> QED
  BY <1>1, <1>2, <1>3, Invariance, DatedInvariance, PTL DEF Spec, ImplementsCache, Promise!Spec
=============================================================================
