-------------------------- MODULE HashTableProofs --------------------------
(***************************************************************************)
(* Proofs about HashTable for any number of workers, keys, addresses,      *)
(* slots and locks, any hash function and any sizes and times.             *)
(***************************************************************************)
EXTENDS HashTable, TLAPS, FiniteSetTheorems, SequenceTheorems

-----------------------------------------------------------------------------
(* Slots, locks and sequences *)

\* Keys have slots and slots have locks.
LEMMA SlotLock ==
  /\ \A k \in Key : SlotOf(k) \in Slot
  /\ \A s \in Slot : LockOf(s) \in Lock
  BY SizeAssumption DEF SlotOf, LockOf, Slot, Lock

\* Walking on from a slot leads to a slot.
LEMMA NextSlot == \A s \in Slot : NextPos(s) \in Slot
  BY SizeAssumption DEF NextPos, Slot

\* What RemoveAt leaves of a chain.
LEMMA RemoveAtElements ==
  ASSUME NEW S, NEW q \in Seq(S), NEW n \in 1 .. Len(q)
  PROVE  /\ RemoveAt(q, n) \in Seq(S)
         /\ Len(RemoveAt(q, n)) = Len(q) - 1
         /\ \A m \in 1 .. (Len(q) - 1) :
              RemoveAt(q, n)[m] = IF m < n THEN q[m] ELSE q[m + 1]
<1> DEFINE before == SubSeq(q, 1, n - 1)
           after == SubSeq(q, n + 1, Len(q))
<1>1. /\ before \in Seq(S) /\ Len(before) = n - 1
      /\ \A m \in 1 .. (n - 1) : before[m] = q[m]
  OBVIOUS
<1>2. /\ after \in Seq(S) /\ Len(after) = Len(q) - n
      /\ \A m \in 1 .. (Len(q) - n) : after[m] = q[n + m]
  OBVIOUS
<1>3. RemoveAt(q, n) = before \o after
  BY DEF RemoveAt
<1> HIDE DEF before, after
<1>4. /\ before \o after \in Seq(S)
      /\ Len(before \o after) = Len(before) + Len(after)
      /\ \A m \in 1 .. Len(before) + Len(after) : (before \o after)[m] =
           IF m <= Len(before) THEN before[m] ELSE after[m - Len(before)]
  BY <1>1, <1>2, ConcatProperties
<1>5. ASSUME NEW m \in 1 .. (Len(q) - 1)
      PROVE  (before \o after)[m] = IF m < n THEN q[m] ELSE q[m + 1]
  <2>1. CASE m < n
    BY <1>1, <1>2, <1>4, <2>1
  <2>2. CASE m >= n
    <3>1. m - (n - 1) \in 1 .. (Len(q) - n) /\ n + (m - (n - 1)) = m + 1
      BY <2>2
    <3>2. after[m - (n - 1)] = q[m + 1]
      BY <1>2, <3>1
    <3> QED
      BY <1>1, <1>2, <1>4, <2>2, <3>2
  <2>3. m < n \/ m >= n
    OBVIOUS
  <2> QED
    BY <2>1, <2>2, <2>3, Zenon
<1> QED
  BY <1>1, <1>2, <1>3, <1>4, <1>5

\* What a new head does to a chain.
LEMMA ConsElements ==
  ASSUME NEW S, NEW q \in Seq(S), NEW x \in S
  PROVE  /\ <<x>> \o q \in Seq(S)
         /\ Len(<<x>> \o q) = Len(q) + 1
         /\ (<<x>> \o q)[1] = x
         /\ \A m \in 2 .. (Len(q) + 1) : (<<x>> \o q)[m] = q[m - 1]
  OBVIOUS

\* Being linked is having a place in some chain.
LEMMA LinkedPlace ==
  ASSUME NEW T, NEW i
  PROVE  i \in UNION {Range(T[s]) : s \in Slot}
           <=> \E s \in Slot : \E n \in DOMAIN T[s] : i = T[s][n]
  BY DEF Range

-----------------------------------------------------------------------------
(* Removing an item from its chain *)

\* The first match HashTable_Search stops at is the only one.
LEMMA SearchFinds ==
  ASSUME TypeOK, ChainsSound, NEW k \in Key
  PROVE  HashTable_Search(k) =
           {n \in DOMAIN table[SlotOf(k)] : heap[table[SlotOf(k)][n]].key = k}
<1>1. SlotOf(k) \in Slot /\ table[SlotOf(k)] \in Seq(Item)
  BY SlotLock DEF TypeOK
<1>2. ASSUME NEW n \in DOMAIN table[SlotOf(k)], heap[table[SlotOf(k)][n]].key = k,
             NEW m \in 1 .. (n - 1)
      PROVE  heap[table[SlotOf(k)][m]].key # k
  <2>1. n \in 1 .. Len(table[SlotOf(k)]) /\ m \in DOMAIN table[SlotOf(k)] /\ m # n
    BY <1>1
  <2> QED
    BY <1>1, <1>2, <2>1 DEF ChainsSound
<1> QED
  BY <1>2 DEF HashTable_Search

\* A linked item is alive, and has one place.
LEMMA OnePlace ==
  ASSUME TypeOK, ChainsSound, CountsSound,
         NEW s \in Slot, NEW n \in DOMAIN table[s]
  PROVE  /\ table[s] \in Seq(Item) /\ n \in 1 .. Len(table[s])
         /\ table[s][n] \in Item
         /\ table[s][n] \in Linked
         /\ heap[table[s][n]] \in Content
         /\ refCnt[table[s][n]] \in Nat \ {0}
         /\ \A r \in Slot : \A m \in DOMAIN table[r] :
              table[r][m] = table[s][n] => r = s /\ m = n
<1>1. table[s] \in Seq(Item) /\ n \in 1 .. Len(table[s]) /\ table[s][n] \in Item
  BY DEF TypeOK
<1>2. table[s][n] \in Linked
  BY LinkedPlace DEF Linked
<1>3. heap[table[s][n]] # Freed
  BY DEF ChainsSound
<1>4. heap[table[s][n]] \in Content /\ refCnt[table[s][n]] \in Nat \ {0}
  BY <1>1, <1>3 DEF TypeOK, CountsSound
<1>5. ASSUME NEW r \in Slot, NEW m \in DOMAIN table[r], table[r][m] = table[s][n]
      PROVE  r = s /\ m = n
  BY <1>5 DEF ChainsSound
<1> QED
  BY <1>1, <1>2, <1>4, <1>5

\* Types survive a removal.
LEMMA RemoveType ==
  ASSUME TypeOK, ChainsSound, CountsSound,
         NEW s \in Slot, NEW n \in DOMAIN table[s], HashTable_DoRemove(s, n)
  PROVE  /\ table' \in [Slot -> Seq(Item)]
         /\ usedMemory' \in Int
         /\ heap' \in [Item -> Content \cup {Freed}]
         /\ refCnt' \in [Item -> Nat]
<1> DEFINE x == table[s][n]
<1>1. /\ x \in Item /\ heap[x] \in Content /\ refCnt[x] \in Nat \ {0}
      /\ table[s] \in Seq(Item) /\ n \in 1 .. Len(table[s])
  BY OnePlace
<1>2. table' \in [Slot -> Seq(Item)]
  BY <1>1, RemoveAtElements DEF TypeOK, HashTable_DoRemove
<1>3. usedMemory' \in Int
  BY <1>1, DataAssumption DEF TypeOK, HashTable_DoRemove, ItemSize, Content
<1>4. heap' \in [Item -> Content \cup {Freed}] /\ refCnt' \in [Item -> Nat]
  BY <1>1 DEF TypeOK, HashTable_DoRemove, DictionaryItem_Deref
<1> QED
  BY <1>2, <1>3, <1>4

\* After a removal the chains hold what they held, less the removed item.
LEMMA RemovePlaces ==
  ASSUME TypeOK, ChainsSound, CountsSound,
         NEW s \in Slot, NEW n \in DOMAIN table[s], HashTable_DoRemove(s, n)
  PROVE  /\ \A r \in Slot : \A m \in DOMAIN table'[r] :
              /\ table'[r][m] # table[s][n]
              /\ \E p \in DOMAIN table[r] :
                   /\ table'[r][m] = table[r][p]
                   /\ p = IF r = s /\ m >= n THEN m + 1 ELSE m
         /\ Linked' = Linked \ {table[s][n]}
<1> DEFINE x == table[s][n]
           chain == table[s]
<1>1. /\ chain \in Seq(Item) /\ n \in 1 .. Len(chain)
      /\ \A r \in Slot : \A m \in DOMAIN table[r] : table[r][m] = x => r = s /\ m = n
  BY OnePlace
<1>2. table' = [table EXCEPT ![s] = RemoveAt(chain, n)] /\ DOMAIN table = Slot
  BY DEF HashTable_DoRemove, TypeOK
<1>3. /\ table'[s] \in Seq(Item) /\ Len(table'[s]) = Len(chain) - 1
      /\ \A m \in 1 .. (Len(chain) - 1) :
           table'[s][m] = IF m < n THEN chain[m] ELSE chain[m + 1]
  BY <1>1, <1>2, RemoveAtElements
<1>4. ASSUME NEW m \in DOMAIN table'[s]
      PROVE  LET p == IF m >= n THEN m + 1 ELSE m IN
             p \in DOMAIN chain /\ table'[s][m] = chain[p] /\ p # n
  <2>1. m \in 1 .. (Len(chain) - 1) /\ DOMAIN chain = 1 .. Len(chain)
    BY <1>1, <1>3
  <2>2. CASE m < n
    BY <1>1, <1>3, <2>1, <2>2
  <2>3. CASE m >= n
    BY <1>1, <1>3, <2>1, <2>3
  <2>4. m < n \/ m >= n
    BY <1>1, <2>1
  <2> QED
    BY <2>2, <2>3, <2>4
<1>5. ASSUME NEW r \in Slot, NEW m \in DOMAIN table'[r]
      PROVE  /\ table'[r][m] # x
             /\ \E p \in DOMAIN table[r] :
                  /\ table'[r][m] = table[r][p]
                  /\ p = IF r = s /\ m >= n THEN m + 1 ELSE m
  <2>1. CASE r = s
    BY <1>1, <1>4, <2>1
  <2>2. CASE r # s
    BY <1>1, <1>2, <2>2
  <2> QED
    BY <2>1, <2>2
<1>6. ASSUME NEW i \in Linked, i # x
      PROVE  i \in Linked'
  <2>0. PICK r \in Slot : \E m \in DOMAIN table[r] : i = table[r][m]
    BY LinkedPlace DEF Linked
  <2>1. PICK m \in DOMAIN table[r] : i = table[r][m]
    BY <2>0
  <2>2. CASE r # s
    <3>1. m \in DOMAIN table'[r] /\ table'[r][m] = i
      BY <1>2, <2>1, <2>2
    <3> QED
      BY <3>1, LinkedPlace DEF Linked
  <2>3. CASE r = s
    <3> DEFINE q == IF m < n THEN m ELSE m - 1
    <3>1. m # n /\ m \in 1 .. Len(chain)
      BY <1>1, <1>6, <2>1, <2>3
    <3>2. q \in 1 .. (Len(chain) - 1) /\ (IF q < n THEN q ELSE q + 1) = m
      BY <1>1, <3>1
    <3> HIDE DEF q
    <3>3. q \in DOMAIN table'[s] /\ table'[s][q] = chain[m]
      BY <1>1, <1>3, <3>2
    <3>4. chain[m] = i
      BY <2>1, <2>3
    <3> QED
      BY <3>3, <3>4, LinkedPlace DEF Linked
  <2> QED
    BY <2>2, <2>3
<1>7. ASSUME NEW i \in Linked'
      PROVE  i \in Linked /\ i # x
  <2>1. PICK r \in Slot : \E m \in DOMAIN table'[r] : i = table'[r][m]
    BY LinkedPlace DEF Linked
  <2>2. PICK m \in DOMAIN table'[r] : i = table'[r][m]
    BY <2>1
  <2>3. i # x /\ \E p \in DOMAIN table[r] : i = table[r][p]
    BY <1>5, <2>2
  <2>4. i \in Linked
    BY <2>3, LinkedPlace, SMTT(30) DEF Linked
  <2> QED
    BY <2>3, <2>4
<1> QED
  BY <1>5, <1>6, <1>7

\* Who holds and builds what is the same before and after.
SameRefs ==
  /\ item' = item
  /\ \A t \in Thread : /\ pc'[t] = "hold" <=> pc[t] = "hold"
                       /\ Building(t)' <=> Building(t)

\* What a critical section of RemoveOneOf may do to the items.
ItemsMove ==
  \/ KeepItems
  \/ \E s \in Slot : \E n \in DOMAIN table[s] : HashTable_DoRemove(s, n)

\* Chains and counts stay sound, nothing becomes linked, and unlinked items
\* that nobody reads are left alone.
LEMMA ItemsMoveSound ==
  ASSUME TypeOK, ChainsSound, CountsSound, ThreadsSound, ItemsMove, SameRefs
  PROVE  /\ ChainsSound' /\ CountsSound'
         /\ \A s \in Slot : \A m \in DOMAIN table'[s] : \E p \in DOMAIN table[s] :
              table'[s][m] = table[s][p]
         /\ Linked' \subseteq Linked
         /\ \A i \in Item \ Linked : heap'[i] = heap[i]
         /\ \A i \in Linked' : heap'[i] = heap[i]
<1>1. ASSUME NEW i \in Item
      PROVE  Holders(i)' = Holders(i) /\ (Built(i)' <=> Built(i))
  BY DEF SameRefs, Holders, Built
<1>2. CASE KeepItems
  <2>1. Linked' = Linked /\ UNCHANGED <<table, heap, refCnt>>
    BY <1>2 DEF KeepItems, Linked
  <2>2. ChainsSound'
    BY <2>1 DEF ChainsSound, SlotOf
  <2>3. CountsSound'
    BY <1>1, <2>1 DEF CountsSound
  <2> QED
    BY <2>1, <2>2, <2>3
<1>3. ASSUME NEW s \in Slot, NEW n \in DOMAIN table[s], HashTable_DoRemove(s, n)
      PROVE  /\ ChainsSound' /\ CountsSound'
             /\ \A r \in Slot : \A m \in DOMAIN table'[r] : \E p \in DOMAIN table[r] :
                  table'[r][m] = table[r][p]
             /\ Linked' \subseteq Linked
             /\ \A i \in Item \ Linked : heap'[i] = heap[i]
             /\ \A i \in Linked' : heap'[i] = heap[i]
  <2> DEFINE x == table[s][n]
  <2>1. /\ x \in Item /\ x \in Linked /\ heap[x] # Freed /\ refCnt[x] \in Nat \ {0}
    BY <1>3, OnePlace DEF ChainsSound
  <2>2. /\ \A r \in Slot : \A m \in DOMAIN table'[r] :
             /\ table'[r][m] # x
             /\ \E p \in DOMAIN table[r] :
                  /\ table'[r][m] = table[r][p]
                  /\ p = IF r = s /\ m >= n THEN m + 1 ELSE m
        /\ Linked' = Linked \ {x}
    BY <1>3, RemovePlaces
  <2>3. /\ refCnt' = [refCnt EXCEPT ![x] = @ - 1]
        /\ heap' = IF refCnt[x] <= 1 THEN [heap EXCEPT ![x] = Freed] ELSE heap
    BY <1>3 DEF HashTable_DoRemove, DictionaryItem_Deref
  <2>4. ASSUME NEW i, i # x
        PROVE  heap'[i] = heap[i] /\ refCnt'[i] = refCnt[i]
    BY <2>1, <2>3, <2>4 DEF TypeOK
  <2> HIDE DEF x
  <2>5. ChainsSound'
    <3> SUFFICES ASSUME NEW r \in Slot, NEW m \in DOMAIN table'[r]
                 PROVE  /\ heap'[table'[r][m]] # Freed
                        /\ SlotOf(heap'[table'[r][m]].key) = r
                        /\ \A l \in DOMAIN table'[r] :
                             heap'[table'[r][l]].key = heap'[table'[r][m]].key => l = m
      BY DEF ChainsSound, SlotOf
    <3>1. PICK p \in DOMAIN table[r] :
            /\ table'[r][m] = table[r][p]
            /\ p = IF r = s /\ m >= n THEN m + 1 ELSE m
      BY <2>2
    <3>2. heap'[table'[r][m]] = heap[table[r][p]]
      BY <2>2, <2>4, <3>1
    <3>3. ASSUME NEW l \in DOMAIN table'[r],
                 heap'[table'[r][l]].key = heap'[table'[r][m]].key
          PROVE  l = m
      <4>1. PICK q \in DOMAIN table[r] :
              /\ table'[r][l] = table[r][q]
              /\ q = IF r = s /\ l >= n THEN l + 1 ELSE l
        BY <2>2
      <4>2. heap'[table'[r][l]] = heap[table[r][q]]
        BY <2>2, <2>4, <4>1
      <4>3. q = p
        BY <3>2, <3>3, <4>2 DEF ChainsSound
      <4>4. l \in Int /\ m \in Int /\ n \in Int
        <5>1. table'[r] \in Seq(Item) /\ table[s] \in Seq(Item)
          BY <1>3, RemoveType DEF TypeOK
        <5> QED
          BY <1>3, <5>1
      <4> QED
        BY <3>1, <4>1, <4>3, <4>4
    <3> QED
      BY <3>1, <3>2, <3>3 DEF ChainsSound
  <2>6. CountsSound'
    <3> SUFFICES ASSUME NEW i \in Item
                 PROVE  /\ refCnt'[i] = (IF i \in Linked' \/ Built(i)' THEN 1 ELSE 0)
                                          + Cardinality(Holders(i)')
                        /\ heap'[i] = Freed <=> refCnt'[i] = 0
      BY DEF CountsSound
    <3>1. CASE i = x
      <4>1. ~Built(i) /\ i \notin Linked'
        BY <2>1, <2>2, <3>1 DEF ThreadsSound, Built
      <4>2. refCnt[i] = 1 + Cardinality(Holders(i)) /\ heap[i] # Freed
        BY <2>1, <3>1 DEF CountsSound
      <4>3. refCnt[i] \in Nat \ {0}
        BY <2>1, <3>1
      <4>4. refCnt'[i] = refCnt[i] - 1
        BY <2>3, <3>1 DEF TypeOK
      <4>5. Cardinality(Holders(i)) \in Int => refCnt'[i] = Cardinality(Holders(i))
        BY <4>2, <4>4
      <4>6. IsFiniteSet(Holders(i))
        BY ThreadAssumption, FS_Subset, FS_AddElement DEF Holders, Thread
      <4>7. Cardinality(Holders(i)) \in Nat
        BY <4>6, FS_CardinalityType
      <4>8. heap'[i] = Freed <=> refCnt'[i] = 0
        BY <2>3, <3>1, <4>2, <4>3, <4>4 DEF TypeOK
      <4> QED
        BY <1>1, <4>1, <4>5, <4>7, <4>8
    <3>2. CASE i # x
      BY <1>1, <2>2, <2>4, <3>2 DEF CountsSound
    <3> QED
      BY <3>1, <3>2
  <2> QED
    BY <2>1, <2>2, <2>4, <2>5, <2>6
<1> QED
  BY <1>2, <1>3 DEF ItemsMove

-----------------------------------------------------------------------------
(* Steps that leave alone who holds and builds what *)

\* The key of the item a thread is building.
ThreadKey(u) == heap[item[u]].key

\* An item being built is alive.
LEMMA BuilderKey ==
  ASSUME TypeOK, CountsSound, ThreadsSound, NEW u \in Thread, Building(u)
  PROVE  /\ item[u] \in Item \ Linked /\ heap[item[u]] \in Content
         /\ ThreadKey(u) \in Key
<1>1. item[u] \in Item \ Linked /\ Built(item[u])
  BY DEF ThreadsSound, Built
<1>2. IsFiniteSet(Holders(item[u]))
  BY ThreadAssumption, FS_Subset, FS_AddElement DEF Holders, Thread
<1>3. Cardinality(Holders(item[u])) \in Nat
  BY <1>2, FS_CardinalityType
<1>4. refCnt[item[u]] = 1 + Cardinality(Holders(item[u]))
  BY <1>1 DEF CountsSound
<1>5. refCnt[item[u]] # 0
  BY <1>3, <1>4
<1> QED
  BY <1>1, <1>5 DEF CountsSound, TypeOK, Content, ThreadKey

\* A thread about to link has the lock of a slot without its key.
LEMMA LinkerAlone ==
  ASSUME TypeOK, ChainsSound, CountsSound, ThreadsSound, LocksSound,
         NEW u \in Thread, pc[u] = "link"
  PROVE  LET k == heap[item[u]].key IN
         /\ k \in Key
         /\ locks[LockOf(SlotOf(k))] = u
         /\ \A m \in DOMAIN table[SlotOf(k)] : heap[table[SlotOf(k)][m]].key # k
<1>1. ThreadKey(u) \in Key
  BY BuilderKey DEF Building
<1>2. locks[LockOf(SlotOf(ThreadKey(u)))] = u /\ HashTable_Search(ThreadKey(u)) = {}
  BY DEF LocksSound, ThreadKey
<1>3. \A m \in DOMAIN table[SlotOf(ThreadKey(u))] :
        heap[table[SlotOf(ThreadKey(u))][m]].key # ThreadKey(u)
  BY <1>1, <1>2, SearchFinds
<1> QED
  BY <1>1, <1>2, <1>3 DEF ThreadKey

\* No item under key k, in the state the table is about to reach.
NoneAfter(k) ==
  \A m \in DOMAIN table'[SlotOf(k)] : heap'[table'[SlotOf(k)][m]].key # k

\* One thread t moves.  It may remove one item, or change locks that are not
\* another thread's; what it relies on where it arrives is left to show.
LEMMA MoveSound ==
  ASSUME TypeOK, ChainsSound, CountsSound, ThreadsSound, LocksSound,
         ItemsMove, SameRefs, NEW t \in Thread,
         \A u \in Thread \ {t} : /\ pc'[u] = pc[u] /\ arg'[u] = arg[u]
                                 /\ walk'[u] = walk[u],
         \A u \in Thread \ {t} : \A l \in Lock : locks[l] = u => locks'[l] = u,
         t = Timer => pc'[t] \in {"idle", "timer", "expire"},
         pc'[t] = "lapsed" => arg'[t] \in Key,
         pc'[t] = "link" =>
           LET k == heap[item[t]].key IN
           locks'[LockOf(SlotOf(k))] = t /\ NoneAfter(k),
         pc'[t] = "sweep" =>
           locks'[LockOf(walk'[t].pos)] = t /\ walk'[t].cursor > 0
  PROVE  ChainsSound' /\ CountsSound' /\ ThreadsSound' /\ LocksSound'
<1>1. /\ ChainsSound' /\ CountsSound'
      /\ \A s \in Slot : \A m \in DOMAIN table'[s] : \E p \in DOMAIN table[s] :
           table'[s][m] = table[s][p]
      /\ Linked' \subseteq Linked
      /\ \A i \in Item \ Linked : heap'[i] = heap[i]
      /\ \A i \in Linked' : heap'[i] = heap[i]
  BY ItemsMoveSound
<1>2. ThreadsSound'
  <2> SUFFICES ASSUME NEW u \in Thread
               PROVE  /\ u = Timer => pc'[u] \in {"idle", "timer", "expire"}
                      /\ pc'[u] = "lapsed" => arg'[u] \in Key
                      /\ pc'[u] = "hold" \/ Building(u)' => item'[u] \in Item
                      /\ Building(u)' =>
                           /\ item'[u] \notin Linked'
                           /\ \A v \in Thread : Building(v)' /\ item'[v] = item'[u] => v = u
    BY DEF ThreadsSound
  <2>1. u = Timer => pc'[u] \in {"idle", "timer", "expire"}
    BY DEF ThreadsSound
  <2>2. pc'[u] = "lapsed" => arg'[u] \in Key
    BY DEF ThreadsSound
  <2>3. pc'[u] = "hold" \/ Building(u)' => item'[u] \in Item
    BY DEF ThreadsSound, SameRefs
  <2>4. Building(u)' =>
          /\ item'[u] \notin Linked'
          /\ \A v \in Thread : Building(v)' /\ item'[v] = item'[u] => v = u
    BY <1>1 DEF ThreadsSound, SameRefs
  <2> QED
    BY <2>1, <2>2, <2>3, <2>4
<1>3. ASSUME NEW u \in Thread, Building(u)
      PROVE  item'[u] = item[u] /\ heap'[item[u]] = heap[item[u]] /\ heap[item[u]].key \in Key
  BY <1>1, <1>3, BuilderKey DEF ThreadsSound, SameRefs, ThreadKey
<1>4. ASSUME NEW u \in Thread, pc'[u] = "link"
      PROVE  LET k == heap[item[u]].key IN
             heap'[item'[u]].key = k /\ locks'[LockOf(SlotOf(k))] = u /\ NoneAfter(k)
  <2> DEFINE k == heap[item[u]].key
  <2>1. Building(u)
    BY <1>4 DEF SameRefs, Building
  <2>2. heap'[item'[u]].key = k /\ k \in Key /\ SlotOf(k) \in Slot /\ LockOf(SlotOf(k)) \in Lock
    BY <1>3, <2>1, SlotLock
  <2>3. CASE u = t
    BY <1>4, <2>2, <2>3
  <2>4. CASE u # t
    <3>1. pc[u] = "link"
      BY <1>4, <2>4
    <3>2. locks[LockOf(SlotOf(k))] = u /\ HashTable_Search(k) = {}
      BY <3>1 DEF LocksSound
    <3>3. locks'[LockOf(SlotOf(k))] = u
      BY <2>2, <2>4, <3>2
    <3> HIDE DEF k
    <3>4. ASSUME NEW m \in DOMAIN table'[SlotOf(k)]
          PROVE  heap'[table'[SlotOf(k)][m]].key # k
      <4>1. PICK p \in DOMAIN table[SlotOf(k)] : table'[SlotOf(k)][m] = table[SlotOf(k)][p]
        BY <1>1, <2>2
      <4>2. table'[SlotOf(k)][m] \in Linked'
        BY <2>2, LinkedPlace DEF Linked
      <4>3. heap'[table'[SlotOf(k)][m]] = heap[table[SlotOf(k)][p]]
        BY <1>1, <4>1, <4>2
      <4>4. heap[table[SlotOf(k)][p]].key # k
        BY <2>2, <3>2, SearchFinds
      <4> QED
        BY <4>3, <4>4
    <3>5. NoneAfter(k)
      BY <3>4 DEF NoneAfter
    <3> QED
      BY <2>2, <3>3, <3>5 DEF k
  <2> QED
    BY <2>3, <2>4
<1>5. ASSUME NEW u \in Thread, pc'[u] = "sweep"
      PROVE  locks'[LockOf(walk'[u].pos)] = u /\ walk'[u].cursor > 0
  <2>1. CASE u = t
    BY <1>5, <2>1
  <2>2. CASE u # t
    <3>1. /\ pc[u] = "sweep" /\ walk'[u] = walk[u]
          /\ locks[LockOf(walk[u].pos)] = u /\ walk[u].cursor > 0
      BY <1>5, <2>2 DEF LocksSound
    <3>2. LockOf(walk[u].pos) \in Lock
      BY SlotLock DEF TypeOK, Walk
    <3> QED
      BY <2>2, <3>1, <3>2
  <2> QED
    BY <2>1, <2>2
<1>6. LocksSound'
  <2>1. ASSUME NEW u \in Thread, pc'[u] = "link"
        PROVE  /\ locks'[LockOf(SlotOf(heap'[item'[u]].key))] = u
               /\ HashTable_Search(heap[item[u]].key)' = {}
    <3> DEFINE k == heap'[item'[u]].key
    <3>1. locks'[LockOf(SlotOf(k))] = u /\ NoneAfter(k)
      BY <1>4, <2>1
    <3>2. \A m \in DOMAIN table'[SlotOf(k)] : heap'[table'[SlotOf(k)][m]].key # k
      BY <3>1 DEF NoneAfter
    <3> QED
      BY <3>1, <3>2 DEF HashTable_Search, SlotOf
  <2> QED
    BY <1>5, <2>1 DEF LocksSound, SlotOf, LockOf
<1> QED
  BY <1>1, <1>2, <1>6

\* A critical section that removes one of some items of a slot.
LEMMA RemoveOneOfMove ==
  ASSUME TypeOK, ChainsSound, CountsSound,
         NEW s \in Slot, NEW C \in SUBSET DOMAIN table[s], RemoveOneOf(s, C)
  PROVE  /\ ItemsMove
         /\ table' \in [Slot -> Seq(Item)]
         /\ usedMemory' \in Int
         /\ heap' \in [Item -> Content \cup {Freed}]
         /\ refCnt' \in [Item -> Nat]
<1>1. CASE KeepItems
  BY <1>1 DEF KeepItems, ItemsMove, TypeOK
<1>2. ASSUME NEW n \in C, HashTable_DoRemove(s, n)
      PROVE  /\ ItemsMove
             /\ table' \in [Slot -> Seq(Item)]
             /\ usedMemory' \in Int
             /\ heap' \in [Item -> Content \cup {Freed}]
             /\ refCnt' \in [Item -> Nat]
  BY <1>2, RemoveType DEF ItemsMove
<1> QED
  BY <1>1, <1>2 DEF RemoveOneOf

\* Inside an operation the positions of its loops are slots.
LEMMA WalkType ==
  ASSUME TypeOK, NEW t \in Thread
  PROVE  /\ walk[t] \in Walk /\ walk[t].pos \in Slot /\ walk[t].start \in Slot
         /\ walk[t].time \in Nat /\ walk[t].cursor \in Nat
         /\ NoWalk \in Walk
  BY SizeAssumption DEF TypeOK, Walk, NoWalk, Slot

\* When thread t has no lock any more, only the others' locks matter.
LEMMA OthersLocks ==
  ASSUME LocksSound, NEW t \in Thread, pc'[t] \notin {"link", "sweep"},
         \A u \in Thread \ {t} :
           pc'[u] = pc[u] /\ item'[u] = item[u] /\ walk'[u] = walk[u],
         \A u \in Thread \ {t} : pc[u] = "link" =>
           LET k == heap[item[u]].key IN
           heap'[item[u]].key = k /\ locks'[LockOf(SlotOf(k))] = u /\ NoneAfter(k),
         \A u \in Thread \ {t} : pc[u] = "sweep" => locks'[LockOf(walk[u].pos)] = u
  PROVE  LocksSound'
<1>1. ASSUME NEW u \in Thread, pc'[u] = "link"
      PROVE  /\ locks'[LockOf(SlotOf(heap'[item'[u]].key))] = u
             /\ HashTable_Search(heap[item[u]].key)' = {}
  <2> DEFINE k == heap'[item'[u]].key
  <2>1. locks'[LockOf(SlotOf(k))] = u /\ NoneAfter(k)
    BY <1>1
  <2>2. \A m \in DOMAIN table'[SlotOf(k)] : heap'[table'[SlotOf(k)][m]].key # k
    BY <2>1 DEF NoneAfter
  <2> QED
    BY <2>1, <2>2 DEF HashTable_Search, SlotOf
<1>2. ASSUME NEW u \in Thread, pc'[u] = "sweep"
      PROVE  locks'[LockOf(walk'[u].pos)] = u /\ walk'[u].cursor > 0
  BY <1>2 DEF LocksSound
<1> QED
  BY <1>1, <1>2 DEF LocksSound, SlotOf, LockOf

-----------------------------------------------------------------------------
(* The commands *)

\* The conclusion of each of the following lemmas.
Sound == ChainsSound /\ CountsSound /\ ThreadsSound /\ LocksSound

\* An item found and handed out has one more reference and one more reader.
LEMMA GetSound ==
  ASSUME TypeOK, Sound, NEW t \in Worker, NEW k \in Key, HashTable_Get(t, k)
  PROVE  TypeOK' /\ Sound'
<1> DEFINE s == SlotOf(k)
<1>1. t \in Thread /\ t # Timer /\ pc[t] = "idle" /\ s \in Slot
  BY SlotLock, ThreadAssumption DEF Thread, HashTable_Get
<1>2. PICK n \in HashTable_Search(k) :
        \/ /\ Expired(table[s][n], now)
           /\ Goto(t, "lapsed")
           /\ arg' = [arg EXCEPT ![t] = k]
           /\ UNCHANGED <<heap, refCnt, item>>
        \/ /\ ~Expired(table[s][n], now)
           /\ DictionaryItem_Ref(table[s][n])
           /\ Goto(t, "hold")
           /\ item' = [item EXCEPT ![t] = table[s][n]]
           /\ UNCHANGED arg
  BY DEF HashTable_Get
<1>3. n \in DOMAIN table[s]
  BY <1>2 DEF HashTable_Search
<1> DEFINE x == table[s][n]
<1>4. x \in Item /\ x \in Linked /\ heap[x] \in Content /\ refCnt[x] \in Nat \ {0}
  BY <1>1, <1>3, OnePlace DEF Sound
<1>5. UNCHANGED <<table, locks, usedMemory, evictionPosition, broken, now, walk>>
  BY DEF HashTable_Get
<1> HIDE DEF x, s
<1>6. CASE /\ Goto(t, "lapsed")
           /\ arg' = [arg EXCEPT ![t] = k]
           /\ UNCHANGED <<heap, refCnt, item>>
  <2>1. TypeOK'
    BY <1>1, <1>5, <1>6 DEF TypeOK, Goto, PC
  <2>2. ItemsMove /\ SameRefs
    BY <1>1, <1>5, <1>6 DEF ItemsMove, KeepItems, SameRefs, Goto, Building, TypeOK
  <2>3. Sound'
    BY <1>1, <1>5, <1>6, <2>2, MoveSound DEF Sound, Goto, TypeOK
  <2> QED
    BY <2>1, <2>3
<1>7. CASE /\ DictionaryItem_Ref(x)
           /\ Goto(t, "hold")
           /\ item' = [item EXCEPT ![t] = x]
           /\ UNCHANGED arg
  <2>1. /\ pc' = [pc EXCEPT ![t] = "hold"] /\ UNCHANGED <<table, heap, locks, walk, arg>>
        /\ refCnt' = [refCnt EXCEPT ![x] = @ + 1]
        /\ item' = [item EXCEPT ![t] = x]
    BY <1>5, <1>7 DEF Goto, DictionaryItem_Ref
  <2>2. TypeOK'
    BY <1>1, <1>4, <1>5, <2>1 DEF TypeOK, PC
  <2>3. ChainsSound' /\ Linked' = Linked
    BY <2>1 DEF Sound, ChainsSound, SlotOf, Linked
  <2>4. ASSUME NEW u \in Thread, u # t
        PROVE  pc'[u] = pc[u] /\ item'[u] = item[u]
    BY <2>1, <2>4 DEF TypeOK
  <2>5. pc'[t] = "hold" /\ item'[t] = x /\ ~Building(t) /\ ~Building(t)'
    BY <1>1, <2>1 DEF TypeOK, Building
  <2>6. CountsSound'
    <3> SUFFICES ASSUME NEW i \in Item
                 PROVE  /\ refCnt'[i] = (IF i \in Linked \/ Built(i)' THEN 1 ELSE 0)
                                          + Cardinality(Holders(i)')
                        /\ heap[i] = Freed <=> refCnt'[i] = 0
      BY <2>1, <2>3 DEF CountsSound
    <3>1. Built(i)' <=> Built(i)
      BY <2>4, <2>5 DEF Built, Building
    <3>2. /\ refCnt[i] = (IF i \in Linked \/ Built(i) THEN 1 ELSE 0)
                           + Cardinality(Holders(i))
          /\ heap[i] = Freed <=> refCnt[i] = 0
      BY DEF Sound, CountsSound
    <3>3. CASE i = x
      <4>1. Holders(i)' = Holders(i) \cup {t}
        BY <1>1, <2>4, <2>5, <3>3 DEF Holders
      <4>2. t \notin Holders(i) /\ IsFiniteSet(Holders(i))
        BY <1>1, ThreadAssumption, FS_Subset, FS_AddElement DEF Holders, Thread
      <4>3. Cardinality(Holders(i)') = Cardinality(Holders(i)) + 1
        BY <4>1, <4>2, FS_AddElement
      <4>4. Cardinality(Holders(i)) \in Nat
        BY <4>2, FS_CardinalityType
      <4>5. refCnt'[i] = refCnt[i] + 1 /\ refCnt[i] \in Nat \ {0}
        BY <1>4, <2>1, <3>3 DEF TypeOK
      <4> QED
        BY <3>1, <3>2, <4>3, <4>4, <4>5
    <3>4. CASE i # x
      <4>1. Holders(i)' = Holders(i)
        BY <1>1, <2>4, <2>5, <3>4 DEF Holders
      <4>2. refCnt'[i] = refCnt[i]
        BY <2>1, <3>4 DEF TypeOK
      <4> QED
        BY <3>1, <3>2, <4>1, <4>2
    <3> QED
      BY <3>3, <3>4
  <2>7. ThreadsSound'
    BY <1>1, <1>4, <2>1, <2>3, <2>4, <2>5 DEF Sound, ThreadsSound, Building
  <2>8. LocksSound'
    <3>1. ASSUME NEW u \in Thread \ {t}, pc[u] = "link"
          PROVE  LET l == heap[item[u]].key IN
                 /\ heap'[item[u]].key = l
                 /\ locks'[LockOf(SlotOf(l))] = u
                 /\ NoneAfter(l)
      BY <2>1, <3>1, LinkerAlone DEF Sound, NoneAfter
    <3>2. \A u \in Thread \ {t} : pc[u] = "sweep" => locks'[LockOf(walk[u].pos)] = u
      BY <2>1 DEF Sound, LocksSound
    <3> QED
      BY <1>1, <2>1, <2>4, <2>5, <3>1, <3>2, OthersLocks DEF Sound
  <2> QED
    BY <2>2, <2>3, <2>6, <2>7, <2>8 DEF Sound
<1> QED
  BY <1>2, <1>6, <1>7 DEF x

\* A reader that is done gives its reference back, and frees the item if it
\* was the last.
LEMMA ReturnSound ==
  ASSUME TypeOK, Sound, NEW t \in Worker, HashTable_Return(t)
  PROVE  TypeOK' /\ Sound'
<1> DEFINE x == item[t]
<1>1. /\ t \in Thread /\ t # Timer /\ pc[t] = "hold" /\ x \in Item
      /\ pc' = [pc EXCEPT ![t] = "idle"]
      /\ item' = [item EXCEPT ![t] = NoItem]
      /\ UNCHANGED <<table, locks, usedMemory, evictionPosition, broken, now, arg, walk>>
  BY ThreadAssumption DEF Thread, HashTable_Return, Goto, Sound, ThreadsSound
<1> HIDE DEF x
<1>2. /\ refCnt' = [refCnt EXCEPT ![x] = @ - 1]
      /\ heap' = IF refCnt[x] <= 1 THEN [heap EXCEPT ![x] = Freed] ELSE heap
  BY DEF x, HashTable_Return, DictionaryItem_Deref
<1>3. \A i \in Item : IsFiniteSet(Holders(i)) /\ Cardinality(Holders(i)) \in Nat
  <2>1. \A i \in Item : IsFiniteSet(Holders(i))
    BY ThreadAssumption, FS_Subset, FS_AddElement DEF Holders, Thread
  <2> QED
    BY <2>1, FS_CardinalityType
<1>4. t \in Holders(x)
  BY <1>1 DEF Holders, x
<1>5. Cardinality(Holders(x) \ {t}) = Cardinality(Holders(x)) - 1
      /\ Cardinality(Holders(x) \ {t}) \in Nat
  <2>1. IsFiniteSet(Holders(x) \ {t})
    BY <1>1, <1>3, FS_Subset
  <2> QED
    BY <1>1, <1>3, <1>4, <2>1, FS_RemoveElement, FS_CardinalityType
<1>6. refCnt[x] = (IF x \in Linked \/ Built(x) THEN 1 ELSE 0) + Cardinality(Holders(x))
  BY <1>1 DEF Sound, CountsSound
<1>7. refCnt[x] \in Nat \ {0} /\ heap[x] \in Content
  BY <1>1, <1>3, <1>5, <1>6 DEF Sound, CountsSound, TypeOK
<1>8. TypeOK'
  BY <1>1, <1>2, <1>7 DEF TypeOK, PC
<1>9. ASSUME NEW u \in Thread, u # t
      PROVE  pc'[u] = pc[u] /\ item'[u] = item[u]
  BY <1>1, <1>9 DEF TypeOK
<1>10. pc'[t] = "idle" /\ ~Building(t) /\ ~Building(t)'
  BY <1>1 DEF TypeOK, Building
<1>11. ASSUME NEW i \in Item
       PROVE  Built(i)' <=> Built(i)
  BY <1>9, <1>10 DEF Built, Building
<1>12. Linked' = Linked /\ table' = table
  BY <1>1 DEF Linked
<1>13. ASSUME NEW i \in Item, i \in Linked \/ Built(i)
       PROVE  heap'[i] = heap[i]
  <2>1. CASE i = x
    <3>1. refCnt[x] > 1
      BY <1>3, <1>5, <1>6, <1>13, <2>1
    <3> QED
      BY <1>2, <1>7, <3>1
  <2>2. CASE i # x
    BY <1>2, <2>2 DEF TypeOK
  <2> QED
    BY <2>1, <2>2
<1>14. ChainsSound'
  <2>1. ASSUME NEW s \in Slot, NEW n \in DOMAIN table[s]
        PROVE  heap'[table[s][n]] = heap[table[s][n]]
    BY <1>13, OnePlace DEF Sound
  <2> QED
    BY <1>12, <2>1 DEF Sound, ChainsSound, SlotOf
<1>15. CountsSound'
  <2> SUFFICES ASSUME NEW i \in Item
               PROVE  /\ refCnt'[i] = (IF i \in Linked \/ Built(i) THEN 1 ELSE 0)
                                        + Cardinality(Holders(i)')
                      /\ heap'[i] = Freed <=> refCnt'[i] = 0
    BY <1>11, <1>12 DEF CountsSound
  <2>1. CASE i = x
    <3>1. Holders(i)' = Holders(i) \ {t}
      BY <1>1, <1>9, <1>10, <2>1 DEF Holders
    <3>2. refCnt'[i] = refCnt[i] - 1
      BY <1>1, <1>2, <2>1 DEF TypeOK
    <3>3. heap'[i] = Freed <=> refCnt'[i] = 0
      <4>1. heap[i] # Freed
        BY <1>1, <1>7, <2>1 DEF Sound, CountsSound
      <4> QED
        BY <1>1, <1>2, <1>7, <2>1, <3>2, <4>1 DEF TypeOK
    <3> QED
      BY <1>3, <1>5, <1>6, <2>1, <3>1, <3>2, <3>3
  <2>2. CASE i # x
    <3>1. Holders(i)' = Holders(i)
      BY <1>1, <1>9, <1>10, <2>2 DEF Holders, x
    <3>2. refCnt'[i] = refCnt[i] /\ heap'[i] = heap[i]
      BY <1>2, <2>2 DEF TypeOK
    <3> QED
      BY <3>1, <3>2 DEF Sound, CountsSound
  <2> QED
    BY <2>1, <2>2
<1>16. ThreadsSound'
  BY <1>1, <1>9, <1>10, <1>12 DEF Sound, ThreadsSound, Building
<1>17. LocksSound'
  <2>1. ASSUME NEW u \in Thread \ {t}, pc[u] = "link"
        PROVE  LET k == heap[item[u]].key IN
               heap'[item[u]].key = k /\ locks'[LockOf(SlotOf(k))] = u /\ NoneAfter(k)
    <3>1. heap'[item[u]] = heap[item[u]]
      BY <1>13, <2>1 DEF Sound, ThreadsSound, Built, Building
    <3>2. \A m \in DOMAIN table[SlotOf(ThreadKey(u))] :
            heap'[table[SlotOf(ThreadKey(u))][m]] = heap[table[SlotOf(ThreadKey(u))][m]]
      <4>1. SlotOf(ThreadKey(u)) \in Slot
        BY <2>1, SlotLock, LinkerAlone DEF Sound, ThreadKey
      <4> QED
        BY <1>13, <4>1, OnePlace DEF Sound
    <3> QED
      <4>1. /\ locks[LockOf(SlotOf(ThreadKey(u)))] = u
            /\ \A m \in DOMAIN table[SlotOf(ThreadKey(u))] :
                 heap[table[SlotOf(ThreadKey(u))][m]].key # ThreadKey(u)
        BY <2>1, LinkerAlone DEF Sound, ThreadKey
      <4>2. locks'[LockOf(SlotOf(ThreadKey(u)))] = u /\ NoneAfter(ThreadKey(u))
        BY <1>1, <3>2, <4>1 DEF NoneAfter
      <4> QED
        BY <3>1, <4>2 DEF ThreadKey
  <2>2. \A u \in Thread \ {t} : pc[u] = "sweep" => locks'[LockOf(walk[u].pos)] = u
    BY <1>1 DEF Sound, LocksSound
  <2> QED
    BY <1>1, <1>9, <1>10, <2>1, <2>2, OthersLocks DEF Sound
<1> QED
  BY <1>8, <1>14, <1>15, <1>16, <1>17 DEF Sound

\* A "set" begins with an item of its own, at an address nobody refers to.
LEMMA SetSound ==
  ASSUME TypeOK, Sound, NEW t \in Worker,
         NEW k \in Key, NEW len \in ValueLen, NEW e \in ExpTime, HashTable_Set(t, k, len, e)
  PROVE  TypeOK' /\ Sound'
<1>1. PICK x \in Item : /\ DictionaryItem_New(x, k, len, e)
                        /\ item' = [item EXCEPT ![t] = x]
  BY DEF HashTable_Set
<1>2. /\ t \in Thread /\ t # Timer /\ pc[t] = "idle" /\ pc' = [pc EXCEPT ![t] = "new"]
      /\ UNCHANGED <<table, locks, usedMemory, evictionPosition, broken, now, arg, walk>>
  BY ThreadAssumption DEF Thread, HashTable_Set, Goto
<1>3. /\ heap[x] = Freed
      /\ heap' = [heap EXCEPT ![x] = [key |-> k, len |-> len, expires |-> now + e]]
      /\ refCnt' = [refCnt EXCEPT ![x] = 1]
  BY <1>1 DEF DictionaryItem_New
<1>4. [key |-> k, len |-> len, expires |-> now + e] \in Content
  BY DataAssumption DEF Content, TypeOK
<1>5. [key |-> k, len |-> len, expires |-> now + e] # Freed
  <2>1. [key |-> k, len |-> len, expires |-> now + e] \in [key : Key, len : Nat, expires : Nat]
    BY <1>4, DataAssumption DEF Content
  <2> QED
    BY <2>1, ItemAssumption
<1>6. TypeOK'
  BY <1>1, <1>2, <1>3, <1>4 DEF TypeOK, PC
<1>7. \A i \in Item : IsFiniteSet(Holders(i)) /\ Cardinality(Holders(i)) \in Nat
  <2>1. \A i \in Item : IsFiniteSet(Holders(i))
    BY ThreadAssumption, FS_Subset, FS_AddElement DEF Holders, Thread
  <2> QED
    BY <2>1, FS_CardinalityType
<1>8. x \notin Linked /\ ~Built(x) /\ Holders(x) = {} /\ refCnt[x] = 0
  <2>1. /\ refCnt[x] = 0
        /\ refCnt[x] = (IF x \in Linked \/ Built(x) THEN 1 ELSE 0) + Cardinality(Holders(x))
    BY <1>3 DEF Sound, CountsSound
  <2>2. ~(x \in Linked \/ Built(x)) /\ Cardinality(Holders(x)) = 0
    BY <1>7, <2>1
  <2>3. Holders(x) = {}
    BY <1>7, <2>2, FS_EmptySet
  <2> QED
    BY <2>1, <2>2, <2>3
<1>9. ASSUME NEW u \in Thread, u # t
      PROVE  pc'[u] = pc[u] /\ item'[u] = item[u]
  BY <1>1, <1>2, <1>9 DEF TypeOK
<1>10. pc'[t] = "new" /\ item'[t] = x /\ ~Building(t) /\ Building(t)'
  BY <1>1, <1>2 DEF TypeOK, Building
<1>11. Linked' = Linked /\ table' = table
  BY <1>2 DEF Linked
<1>12. ASSUME NEW i \in Item, i # x
       PROVE  /\ heap'[i] = heap[i] /\ refCnt'[i] = refCnt[i]
              /\ Holders(i)' = Holders(i) /\ (Built(i)' <=> Built(i))
  <2>1. heap'[i] = heap[i] /\ refCnt'[i] = refCnt[i]
    BY <1>3, <1>12 DEF TypeOK
  <2>2. Holders(i)' = Holders(i)
    BY <1>2, <1>9, <1>10 DEF Holders
  <2>3. Built(i)' <=> Built(i)
    BY <1>9, <1>10, <1>12 DEF Built, Building
  <2> QED
    BY <2>1, <2>2, <2>3
<1>13. ChainsSound'
  <2>1. ASSUME NEW s \in Slot, NEW n \in DOMAIN table[s]
        PROVE  heap'[table[s][n]] = heap[table[s][n]]
    BY <1>8, <1>12, OnePlace DEF Sound
  <2> QED
    BY <1>11, <2>1 DEF Sound, ChainsSound, SlotOf
<1>14. CountsSound'
  <2> SUFFICES ASSUME NEW i \in Item
               PROVE  /\ refCnt'[i] = (IF i \in Linked \/ Built(i)' THEN 1 ELSE 0)
                                        + Cardinality(Holders(i)')
                      /\ heap'[i] = Freed <=> refCnt'[i] = 0
    BY <1>11 DEF CountsSound
  <2>1. CASE i = x
    <3>1. Holders(i)' = {} /\ Built(i)'
      BY <1>2, <1>8, <1>9, <1>10, <2>1 DEF Holders, Built
    <3>2. Cardinality(Holders(i)') = 0
      BY <3>1, FS_EmptySet
    <3>3. refCnt'[i] = 1 /\ heap'[i] # Freed
      BY <1>3, <1>5, <2>1 DEF TypeOK
    <3> QED
      BY <3>1, <3>2, <3>3
  <2>2. CASE i # x
    BY <1>12, <2>2 DEF Sound, CountsSound
  <2> QED
    BY <2>1, <2>2
<1>15. ThreadsSound'
  <2>1. \A u \in Thread \ {t} : Building(u) => item[u] # x
    BY <1>8 DEF Built
  <2> QED
    BY <1>2, <1>8, <1>9, <1>10, <1>11, <2>1 DEF Sound, ThreadsSound, Building
<1>16. LocksSound'
  <2>1. ASSUME NEW u \in Thread \ {t}, pc[u] = "link"
        PROVE  LET k1 == heap[item[u]].key IN
               heap'[item[u]].key = k1 /\ locks'[LockOf(SlotOf(k1))] = u /\ NoneAfter(k1)
    <3>1. heap'[item[u]] = heap[item[u]]
      BY <1>8, <1>12, <2>1 DEF Sound, ThreadsSound, Built, Building
    <3>2. \A m \in DOMAIN table[SlotOf(ThreadKey(u))] :
            heap'[table[SlotOf(ThreadKey(u))][m]] = heap[table[SlotOf(ThreadKey(u))][m]]
      <4>1. SlotOf(ThreadKey(u)) \in Slot
        BY <2>1, SlotLock, LinkerAlone DEF Sound, ThreadKey
      <4> QED
        BY <1>8, <1>12, <4>1, OnePlace DEF Sound
    <3> QED
      <4>1. /\ locks[LockOf(SlotOf(ThreadKey(u)))] = u
            /\ \A m \in DOMAIN table[SlotOf(ThreadKey(u))] :
                 heap[table[SlotOf(ThreadKey(u))][m]].key # ThreadKey(u)
        BY <2>1, LinkerAlone DEF Sound, ThreadKey
      <4>2. locks'[LockOf(SlotOf(ThreadKey(u)))] = u /\ NoneAfter(ThreadKey(u))
        BY <1>2, <3>2, <4>1 DEF NoneAfter
      <4> QED
        BY <3>1, <4>2 DEF ThreadKey
  <2>2. \A u \in Thread \ {t} : pc[u] = "sweep" => locks'[LockOf(walk[u].pos)] = u
    BY <1>2 DEF Sound, LocksSound
  <2> QED
    BY <1>2, <1>9, <1>10, <2>1, <2>2, OthersLocks DEF Sound
<1> QED
  BY <1>6, <1>13, <1>14, <1>15, <1>16 DEF Sound

\* The head that a finished "set" gives a chain, under a key the chain lacks.
LEMMA LinkPlaces ==
  ASSUME TypeOK, Sound, NEW t \in Worker, SetLinkNew(t)
  PROVE  LET x == item[t]
             k == heap[x].key
             s == SlotOf(k)
         IN
         /\ x \in Item \ Linked /\ heap[x] \in Content /\ k \in Key
         /\ s \in Slot /\ LockOf(s) \in Lock /\ table[s] \in Seq(Item)
         /\ locks[LockOf(s)] = t
         /\ \A m \in DOMAIN table[s] : heap[table[s][m]].key # k
         /\ table'[s] \in Seq(Item) /\ Len(table'[s]) = Len(table[s]) + 1
         /\ table'[s][1] = x
         /\ \A r \in Slot \ {s} : table'[r] = table[r]
         /\ \A m \in DOMAIN table'[s] :
              \/ m = 1 /\ table'[s][m] = x
              \/ m - 1 \in DOMAIN table[s] /\ table'[s][m] = table[s][m - 1] /\ m \in Int
         /\ Linked' = Linked \cup {x}
<1> DEFINE x == item[t]
           k == heap[x].key
           s == SlotOf(k)
<1>1. /\ t \in Thread /\ t # Timer /\ pc[t] = "link" /\ Building(t)
      /\ table' = [table EXCEPT ![s] = <<x>> \o @]
      /\ locks' = [locks EXCEPT ![LockOf(s)] = NoThread]
      /\ item' = [item EXCEPT ![t] = NoItem]
      /\ usedMemory' = usedMemory + ItemSize(x)
      /\ pc' = [pc EXCEPT ![t] = "check"] \/ pc' = [pc EXCEPT ![t] = "idle"]
      /\ UNCHANGED <<evictionPosition, heap, refCnt, broken, now, arg, walk>>
  BY ThreadAssumption DEF Thread, SetLinkNew, Replied, Goto, Building
<1>2. /\ x \in Item \ Linked /\ heap[x] \in Content /\ k \in Key
      /\ locks[LockOf(s)] = t
      /\ \A m \in DOMAIN table[s] : heap[table[s][m]].key # k
  BY <1>1, BuilderKey, LinkerAlone DEF Sound, ThreadKey
<1>3. s \in Slot /\ LockOf(s) \in Lock /\ table[s] \in Seq(Item)
  BY <1>2, SlotLock DEF TypeOK
<1> HIDE DEF x, s, k
<1>4. /\ table'[s] \in Seq(Item) /\ Len(table'[s]) = Len(table[s]) + 1
      /\ table'[s][1] = x
      /\ \A m \in 2 .. (Len(table[s]) + 1) : table'[s][m] = table[s][m - 1]
      /\ \A r \in Slot \ {s} : table'[r] = table[r]
  <2>1. table'[s] = <<x>> \o table[s] /\ \A r \in Slot \ {s} : table'[r] = table[r]
    BY <1>1, <1>3 DEF TypeOK
  <2> QED
    BY <1>2, <1>3, <2>1, ConsElements
<1>5. ASSUME NEW m \in DOMAIN table'[s]
      PROVE  \/ m = 1 /\ table'[s][m] = x
             \/ m - 1 \in DOMAIN table[s] /\ table'[s][m] = table[s][m - 1] /\ m \in Int
  <2>1. m \in 1 .. (Len(table[s]) + 1) /\ DOMAIN table[s] = 1 .. Len(table[s])
    BY <1>3, <1>4
  <2>2. CASE m = 1
    BY <1>4, <2>2
  <2>3. CASE m # 1
    <3>1. m \in 2 .. (Len(table[s]) + 1) /\ m - 1 \in 1 .. Len(table[s])
      BY <1>3, <2>1, <2>3
    <3> QED
      BY <1>4, <2>1, <3>1
  <2> QED
    BY <2>2, <2>3
<1>6. Linked' = Linked \cup {x}
  <2>1. ASSUME NEW i \in Linked
        PROVE  i \in Linked'
    <3>0. PICK r \in Slot : \E m \in DOMAIN table[r] : i = table[r][m]
      BY LinkedPlace DEF Linked
    <3>1. PICK m \in DOMAIN table[r] : i = table[r][m]
      BY <3>0
    <3>2. CASE r = s
      <4>1. m \in 1 .. Len(table[s]) /\ Len(table[s]) \in Nat
        BY <1>3, <3>2
      <4>2. m + 1 \in DOMAIN table'[s] /\ m + 1 \in 2 .. (Len(table[s]) + 1) /\ (m + 1) - 1 = m
        BY <1>3, <1>4, <4>1
      <4>3. table'[s][m + 1] = i
        BY <1>4, <3>1, <3>2, <4>2
      <4> QED
        BY <1>3, <4>2, <4>3, LinkedPlace DEF Linked
    <3>3. CASE r # s
      <4>1. m \in DOMAIN table'[r] /\ table'[r][m] = i
        BY <1>4, <3>1, <3>3
      <4> QED
        BY <4>1, LinkedPlace DEF Linked
    <3> QED
      BY <3>2, <3>3
  <2>2. x \in Linked'
    <3>1. 1 \in DOMAIN table'[s]
      BY <1>3, <1>4
    <3>2. s \in Slot /\ x = table'[s][1]
      BY <1>3, <1>4
    <3> QED
      BY <3>1, <3>2, LinkedPlace DEF Linked
  <2>3. ASSUME NEW i \in Linked'
        PROVE  i \in Linked \/ i = x
    <3>1. i \in UNION {Range(table'[r]) : r \in Slot}
      BY <2>3 DEF Linked
    <3>2. PICK r \in Slot : \E m \in DOMAIN table'[r] : i = table'[r][m]
      BY <3>1 DEF Range
    <3>3. PICK m \in DOMAIN table'[r] : i = table'[r][m]
      BY <3>2
    <3>4. CASE i = x
      BY <3>4
    <3>5. CASE i # x
      <4>1. \E p \in DOMAIN table[r] : i = table[r][p]
        BY <1>4, <1>5, <3>3, <3>5
      <4>2. i \in UNION {Range(table[q]) : q \in Slot}
        BY <4>1, LinkedPlace
      <4> QED
        BY <4>2 DEF Linked
    <3> QED
      BY <3>4, <3>5
  <2> QED
    BY <2>1, <2>2, <2>3
<1> QED
  BY <1>2, <1>3, <1>4, <1>5, <1>6 DEF x, s, k

\* The lock held since the old item went keeps the key absent until the new
\* one is linked; the builder's reference becomes the table's.
LEMMA LinkSound ==
  ASSUME TypeOK, Sound, NEW t \in Worker, SetLinkNew(t)
  PROVE  TypeOK' /\ Sound'
<1> DEFINE x == item[t]
           k == heap[x].key
           s == SlotOf(k)
<1>1. /\ t \in Thread /\ t # Timer /\ pc[t] = "link" /\ Building(t)
      /\ table' = [table EXCEPT ![s] = <<x>> \o @]
      /\ locks' = [locks EXCEPT ![LockOf(s)] = NoThread]
      /\ item' = [item EXCEPT ![t] = NoItem]
      /\ usedMemory' = usedMemory + ItemSize(x)
      /\ pc' = [pc EXCEPT ![t] = "check"] \/ pc' = [pc EXCEPT ![t] = "idle"]
      /\ UNCHANGED <<evictionPosition, heap, refCnt, broken, now, arg, walk>>
  BY ThreadAssumption DEF Thread, SetLinkNew, Replied, Goto, Building
<1>2. /\ x \in Item \ Linked /\ heap[x] \in Content /\ k \in Key
      /\ locks[LockOf(s)] = t
      /\ \A m \in DOMAIN table[s] : heap[table[s][m]].key # k
  BY LinkPlaces
<1>3. s \in Slot /\ LockOf(s) \in Lock /\ table[s] \in Seq(Item)
  BY LinkPlaces
<1>4. /\ table'[s] \in Seq(Item) /\ Len(table'[s]) = Len(table[s]) + 1
      /\ \A r \in Slot \ {s} : table'[r] = table[r]
  BY LinkPlaces
<1>8. ASSUME NEW m \in DOMAIN table'[s]
      PROVE  \/ m = 1 /\ table'[s][m] = x
             \/ m - 1 \in DOMAIN table[s] /\ table'[s][m] = table[s][m - 1] /\ m \in Int
  BY LinkPlaces
<1>9. Linked' = Linked \cup {x}
  BY LinkPlaces
<1> HIDE DEF x, s, k
<1>5. TypeOK'
  <2>1. table' \in [Slot -> Seq(Item)]
    BY <1>1, <1>2, <1>3, <1>4 DEF TypeOK
  <2>2. ItemSize(x) \in Int
    <3>1. heap[x].len \in Nat
      BY <1>2, DataAssumption DEF Content
    <3> QED
      BY <3>1, DataAssumption DEF ItemSize
  <2>3. /\ usedMemory' \in Int
        /\ locks' \in [Lock -> Thread \cup {NoThread}]
        /\ item' \in [Thread -> Item \cup {NoItem}]
    BY <1>1, <1>3, <2>2 DEF TypeOK
  <2>4. pc' \in [Thread -> PC]
    BY <1>1 DEF TypeOK, PC
  <2> QED
    BY <1>1, <2>1, <2>3, <2>4 DEF TypeOK
<1>6. ASSUME NEW u \in Thread, u # t
      PROVE  pc'[u] = pc[u] /\ item'[u] = item[u]
  BY <1>1, <1>6 DEF TypeOK
<1>7. pc'[t] \in {"check", "idle"} /\ ~Building(t)' /\ item[t] = x
  BY <1>1 DEF TypeOK, Building, x
<1>10. ChainsSound'
  <2>0. heap' = heap
    BY <1>1
  <2> SUFFICES ASSUME NEW r \in Slot, NEW n \in DOMAIN table'[r]
               PROVE  /\ heap[table'[r][n]] # Freed
                      /\ SlotOf(heap[table'[r][n]].key) = r
                      /\ \A m \in DOMAIN table'[r] :
                           heap[table'[r][m]].key = heap[table'[r][n]].key => m = n
    BY <2>0 DEF ChainsSound, SlotOf
  <2>1. CASE r # s
    BY <1>4, <2>1 DEF Sound, ChainsSound
  <2>2. CASE r = s
    <3>1. heap[x] # Freed /\ heap[x].key = k /\ SlotOf(k) = s
      <4>1. heap[x] \in [key : Key, len : Nat, expires : Nat]
        BY <1>2, DataAssumption DEF Content
      <4> QED
        BY <4>1, ItemAssumption DEF k, s
    <3>2. heap[table'[r][n]] # Freed /\ SlotOf(heap[table'[r][n]].key) = r
      BY <1>8, <2>2, <3>1 DEF Sound, ChainsSound
    <3>3. ASSUME NEW m \in DOMAIN table'[r],
                 heap[table'[r][m]].key = heap[table'[r][n]].key
          PROVE  m = n
      <4>1. CASE table'[s][m] = x /\ m = 1
        BY <1>2, <1>8, <2>2, <3>1, <3>3, <4>1
      <4>2. CASE m - 1 \in DOMAIN table[s] /\ table'[s][m] = table[s][m - 1] /\ m \in Int
        <5>1. CASE n = 1 /\ table'[s][n] = x
          BY <1>2, <2>2, <3>1, <3>3, <4>2, <5>1
        <5>2. CASE n - 1 \in DOMAIN table[s] /\ table'[s][n] = table[s][n - 1] /\ n \in Int
          <6>1. m - 1 = n - 1
            BY <1>3, <2>2, <3>3, <4>2, <5>2 DEF Sound, ChainsSound
          <6> QED
            BY <4>2, <5>2, <6>1
        <5> QED
          BY <1>8, <2>2, <5>1, <5>2
      <4> QED
        BY <1>8, <2>2, <4>1, <4>2
    <3> QED
      BY <3>2, <3>3
  <2> QED
    BY <2>1, <2>2
<1>11. CountsSound'
  <2> SUFFICES ASSUME NEW i \in Item
               PROVE  refCnt[i] = (IF i \in Linked' \/ Built(i)' THEN 1 ELSE 0)
                                    + Cardinality(Holders(i)')
    BY <1>1 DEF Sound, CountsSound
  <2>1. Holders(i)' = Holders(i)
    BY <1>1, <1>6, <1>7 DEF Holders
  <2>2. (i \in Linked' \/ Built(i)') <=> (i \in Linked \/ Built(i))
    BY <1>1, <1>6, <1>7, <1>9 DEF Built, Building
  <2> QED
    BY <2>1, <2>2 DEF Sound, CountsSound
<1>12. ThreadsSound'
  <2>1. \A u \in Thread \ {t} : Building(u) => item[u] # x
    BY <1>1, <1>7 DEF Sound, ThreadsSound
  <2> QED
    BY <1>1, <1>6, <1>7, <1>9, <2>1 DEF Sound, ThreadsSound, Building
<1>13. LocksSound'
  <2>1. ASSUME NEW u \in Thread \ {t}, pc[u] = "link"
        PROVE  LET l == heap[item[u]].key IN
               heap'[item[u]].key = l /\ locks'[LockOf(SlotOf(l))] = u /\ NoneAfter(l)
    <3> DEFINE l == heap[item[u]].key
    <3>1. /\ l \in Key /\ locks[LockOf(SlotOf(l))] = u
          /\ \A m \in DOMAIN table[SlotOf(l)] : heap[table[SlotOf(l)][m]].key # l
      BY <2>1, LinkerAlone DEF Sound
    <3> HIDE DEF l
    <3>2. LockOf(SlotOf(l)) # LockOf(s) /\ SlotOf(l) # s
      BY <1>2, <2>1, <3>1
    <3>3. locks'[LockOf(SlotOf(l))] = u
      BY <1>1, <3>1, <3>2, SlotLock DEF TypeOK
    <3>4. NoneAfter(l)
      BY <1>1, <1>4, <3>1, <3>2, SlotLock DEF NoneAfter
    <3> QED
      BY <1>1, <3>3, <3>4 DEF l
  <2>2. ASSUME NEW u \in Thread \ {t}, pc[u] = "sweep"
        PROVE  locks'[LockOf(walk[u].pos)] = u
    <3>1. locks[LockOf(walk[u].pos)] = u /\ LockOf(walk[u].pos) \in Lock
      BY <2>2, SlotLock, WalkType DEF Sound, LocksSound
    <3> QED
      BY <1>1, <1>2, <2>2, <3>1 DEF TypeOK
  <2> QED
    BY <1>1, <1>6, <1>7, <2>1, <2>2, OthersLocks DEF Sound
<1> QED
  BY <1>5, <1>10, <1>11, <1>12, <1>13 DEF Sound

\* The new item's builder takes the lock and clears the key it is about to link.
LEMMA UnlinkSound ==
  ASSUME TypeOK, Sound, NEW t \in Worker, SetUnlinkOld(t)
  PROVE  TypeOK' /\ Sound'
<1> DEFINE k == heap[item[t]].key
           s == SlotOf(k)
           found == HashTable_Search(k)
<1>1. /\ t \in Thread /\ t # Timer /\ pc[t] = "new" /\ Building(t)
      /\ pc' = [pc EXCEPT ![t] = "link"]
      /\ locks' = [locks EXCEPT ![LockOf(s)] = t]
      /\ locks[LockOf(s)] = NoThread
      /\ RemoveOneOf(s, found)
      /\ UNCHANGED <<evictionPosition, broken, now, arg, item, walk>>
  BY ThreadAssumption
  DEF Thread, SetUnlinkOld, Goto, Building, RemoveOneOf, Unlocked
<1>2. k \in Key /\ s \in Slot /\ LockOf(s) \in Lock /\ item[t] \in Item \ Linked
  BY <1>1, SlotLock, BuilderKey DEF Sound, ThreadKey
<1>3. found = {n \in DOMAIN table[s] : heap[table[s][n]].key = k}
  BY <1>2, SearchFinds DEF Sound
<1> HIDE DEF k, s, found
<1>4. /\ ItemsMove
      /\ table' \in [Slot -> Seq(Item)] /\ usedMemory' \in Int
      /\ heap' \in [Item -> Content \cup {Freed}] /\ refCnt' \in [Item -> Nat]
  BY <1>1, <1>2, <1>3, RemoveOneOfMove DEF Sound
<1>5. TypeOK'
  BY <1>1, <1>2, <1>4 DEF TypeOK, PC
<1>6. SameRefs
  BY <1>1 DEF SameRefs, Building, TypeOK
<1>7. /\ \A r \in Slot : \A m \in DOMAIN table'[r] : \E p \in DOMAIN table[r] :
           table'[r][m] = table[r][p]
      /\ \A i \in Linked' : heap'[i] = heap[i]
  BY <1>4, <1>6, ItemsMoveSound DEF Sound
<1>8. NoneAfter(k)
  <2> SUFFICES ASSUME NEW m \in DOMAIN table'[s]
               PROVE  heap'[table'[s][m]].key # k
    BY DEF NoneAfter, s
  <2>1. table'[s][m] \in Linked'
    <3>1. table'[s][m] \in UNION {Range(table'[r]) : r \in Slot}
      BY <1>2, LinkedPlace
    <3> QED
      BY <3>1 DEF Linked
  <2>2. heap'[table'[s][m]] = heap[table'[s][m]]
    BY <1>7, <2>1
  <2>3. CASE found = {}
    BY <1>2, <1>3, <1>7, <2>2, <2>3
  <2>4. ASSUME NEW n \in found, HashTable_DoRemove(s, n)
        PROVE  heap'[table'[s][m]].key # k
    <3>1. n \in DOMAIN table[s] /\ heap[table[s][n]].key = k
      BY <1>3
    <3>2. PICK p \in DOMAIN table[s] : table'[s][m] = table[s][p] /\ table'[s][m] # table[s][n]
      BY <1>2, <2>4, <3>1, RemovePlaces DEF Sound
    <3> QED
      BY <1>2, <2>2, <3>1, <3>2 DEF Sound, ChainsSound
  <2> QED
    BY <1>1, <2>3, <2>4 DEF RemoveOneOf
<1>9. \A u \in Thread \ {t} : /\ pc'[u] = pc[u] /\ arg'[u] = arg[u] /\ walk'[u] = walk[u]
                              /\ \A l \in Lock : locks[l] = u => locks'[l] = u
  BY <1>1, ThreadAssumption DEF TypeOK
<1>10. pc'[t] = "link" /\ locks'[LockOf(s)] = t
  BY <1>1, <1>2 DEF TypeOK
<1>11. Sound'
  BY <1>1, <1>4, <1>6, <1>8, <1>9, <1>10, MoveSound DEF Sound, k, s
<1> QED
  BY <1>5, <1>11

\* Steps that remove at most one item and take or keep no lock.
LEMMA QuietSound ==
  ASSUME TypeOK, Sound, NEW t \in Thread, ItemsMove,
         pc' = [pc EXCEPT ![t] = pc'[t]],
         pc[t] \notin {"hold", "new", "link"},
         pc'[t] \notin {"lapsed", "hold", "new", "link", "sweep"},
         t = Timer => pc'[t] \in {"idle", "timer", "expire"},
         \A u \in Thread \ {t} : walk'[u] = walk[u] /\ arg'[u] = arg[u],
         UNCHANGED <<locks, item>>
  PROVE  Sound'
<1>1. SameRefs
  BY DEF SameRefs, Building, TypeOK
<1>2. \A u \in Thread \ {t} : pc'[u] = pc[u]
  BY DEF TypeOK
<1> QED
  BY <1>1, <1>2, MoveSound DEF Sound

\* The removal HashTable_Get makes after giving up the lock, of whatever item
\* now has the key, keeps the invariant.
LEMMA RemoveLapsedSound ==
  ASSUME TypeOK, Sound, NEW t \in Worker, HashTable_RemoveLapsed(t)
  PROVE  TypeOK' /\ Sound'
<1>1. /\ t \in Thread /\ t # Timer /\ pc[t] = "lapsed"
      /\ pc' = [pc EXCEPT ![t] = "idle"] /\ arg' = [arg EXCEPT ![t] = NoKey]
      /\ UNCHANGED <<locks, evictionPosition, broken, now, item, walk>>
  BY ThreadAssumption DEF Thread, HashTable_RemoveLapsed, Goto
<1>2. SlotOf(arg[t]) \in Slot
  BY <1>1, SlotLock DEF Sound, ThreadsSound
<1>3. HashTable_Search(arg[t]) \in SUBSET DOMAIN table[SlotOf(arg[t])]
  BY DEF HashTable_Search
<1>4. /\ ItemsMove
      /\ table' \in [Slot -> Seq(Item)] /\ usedMemory' \in Int
      /\ heap' \in [Item -> Content \cup {Freed}] /\ refCnt' \in [Item -> Nat]
  BY <1>2, <1>3, RemoveOneOfMove DEF Sound, HashTable_RemoveLapsed
<1>5. TypeOK'
  BY <1>1, <1>4 DEF TypeOK, PC
<1>6. Sound'
  BY <1>1, <1>4, QuietSound DEF TypeOK
<1> QED
  BY <1>5, <1>6

\* A "delete", or a "set" of 0 bytes, keeps the invariant.
LEMMA RemoveSound ==
  ASSUME TypeOK, Sound, NEW t \in Worker, NEW k \in Key, HashTable_Remove(t, k)
  PROVE  TypeOK' /\ Sound'
<1>1. /\ t \in Thread /\ t # Timer /\ pc[t] = "idle"
      /\ pc' = [pc EXCEPT ![t] = "idle"] \/ pc' = [pc EXCEPT ![t] = "check"]
      /\ UNCHANGED <<locks, evictionPosition, broken, now, arg, item, walk>>
  BY ThreadAssumption DEF Thread, HashTable_Remove, Replied, Goto
<1>2. HashTable_Search(k) \in SUBSET DOMAIN table[SlotOf(k)]
  BY DEF HashTable_Search
<1>3. /\ ItemsMove
      /\ table' \in [Slot -> Seq(Item)] /\ usedMemory' \in Int
      /\ heap' \in [Item -> Content \cup {Freed}] /\ refCnt' \in [Item -> Nat]
  BY <1>2, SlotLock, RemoveOneOfMove DEF Sound, HashTable_Remove
<1>4. TypeOK'
  BY <1>1, <1>3 DEF TypeOK, PC
<1>5. Sound'
  BY <1>1, <1>3, QuietSound DEF TypeOK
<1> QED
  BY <1>4, <1>5

-----------------------------------------------------------------------------
(* The eviction and expiry loops *)

\* Steps of the loops that only move their own locals.
LEMMA WalkStep ==
  ASSUME TypeOK, Sound, NEW t \in Thread, NEW label,
         pc' = [pc EXCEPT ![t] = label],
         pc[t] \notin {"hold", "new", "link"},
         label \in PC \ {"lapsed", "hold", "new", "link", "sweep"},
         t = Timer => label \in {"idle", "timer", "expire"},
         NEW w \in Walk, walk' = [walk EXCEPT ![t] = w],
         evictionPosition' \in Slot,
         UNCHANGED <<table, locks, usedMemory, heap, refCnt, broken, now, arg, item>>
  PROVE  TypeOK' /\ Sound'
<1>1. pc'[t] = label /\ \A u \in Thread \ {t} : walk'[u] = walk[u]
  BY DEF TypeOK
<1>2. TypeOK'
  BY DEF TypeOK
<1>3. ItemsMove
  BY DEF ItemsMove, KeepItems
<1>4. Sound'
  BY <1>1, <1>3, QuietSound DEF TypeOK
<1> QED
  BY <1>2, <1>4

\* The steps of an eviction that touch no chain keep the invariant.
LEMMA EvictStepsSound ==
  ASSUME TypeOK, Sound, NEW t \in Worker,
         \/ KVS_EvictIfNeeeded(t) \/ EvictAny(t) \/ HashTable_Evict(t)
         \/ EvictReadClock(t) \/ EvictReturn(t)
  PROVE  TypeOK' /\ Sound'
<1> DEFINE w == walk[t]
<1>1. t \in Thread /\ t # Timer /\ w \in Walk /\ NoWalk \in Walk
  BY ThreadAssumption, WalkType DEF Thread
<1>2. walk = [walk EXCEPT ![t] = w]
  BY DEF TypeOK
<1>3. CASE KVS_EvictIfNeeeded(t)
  <2>1. \/ pc' = [pc EXCEPT ![t] = "evict"]
        \/ pc' = [pc EXCEPT ![t] = "idle"]
    BY <1>3 DEF KVS_EvictIfNeeeded, Goto
  <2> QED
    BY <1>1, <1>2, <1>3, <2>1, WalkStep DEF KVS_EvictIfNeeeded, shared, PC, Evicting, TypeOK
<1>4. CASE EvictAny(t)
  <2>1. walk' = [walk EXCEPT ![t] = [w EXCEPT !.any = TRUE]]
    BY <1>1, <1>4 DEF EvictAny, TypeOK
  <2>2. [w EXCEPT !.any = TRUE] \in Walk
    BY <1>1 DEF Walk
  <2> QED
    BY <1>1, <1>4, <2>1, <2>2, WalkStep DEF EvictAny, Goto, shared, PC, Evicting, TypeOK
<1>5. CASE HashTable_Evict(t)
  <2> DEFINE v == [w EXCEPT !.pos = evictionPosition, !.start = evictionPosition]
  <2>1. walk' = [walk EXCEPT ![t] = v] /\ v \in Walk
    BY <1>1, <1>5 DEF HashTable_Evict, TypeOK, Walk
  <2> QED
    BY <1>1, <1>5, <2>1, WalkStep DEF HashTable_Evict, Goto, shared, PC, Evicting, TypeOK
<1>6. CASE EvictReadClock(t)
  <2>1. walk' = [walk EXCEPT ![t] = [w EXCEPT !.time = now]]
    BY <1>1, <1>6 DEF EvictReadClock, TypeOK
  <2>2. [w EXCEPT !.time = now] \in Walk
    BY <1>1 DEF TypeOK, Walk
  <2> QED
    BY <1>1, <1>6, <2>1, <2>2, WalkStep DEF EvictReadClock, Goto, shared, PC, Evicting, TypeOK
<1>7. CASE EvictReturn(t)
  <2>1. /\ pc[t] = "return" /\ evictionPosition' \in Slot
        /\ \/ pc' = [pc EXCEPT ![t] = "check"]
           \/ pc' = [pc EXCEPT ![t] = "idle"]
        /\ walk' = [walk EXCEPT ![t] = NoWalk]
        /\ UNCHANGED <<table, locks, usedMemory, heap, refCnt, broken, now, arg, item>>
    BY <1>1, <1>7, WalkType DEF EvictReturn, Goto
  <2> QED
    BY <1>1, <2>1, WalkStep DEF PC, Evicting
<1> QED
  BY <1>3, <1>4, <1>5, <1>6, <1>7

\* One turn of a loop over the slots.
LEMMA TurnSound ==
  ASSUME TypeOK, Sound, NEW t \in Worker,
         NEW C \in SUBSET DOMAIN table[walk[t].pos],
         NEW round \in {"any", "return"},
         pc[t] \in {"scan", "any"}, Turn(t, C, round)
  PROVE  TypeOK' /\ Sound'
<1> DEFINE w == walk[t]
           v == [w EXCEPT !.pos = NextPos(w.pos), !.evicted = C # {}]
<1>1. t \in Thread /\ t # Timer /\ w \in Walk /\ w.pos \in Slot
  BY ThreadAssumption, WalkType DEF Thread
<1>2. v \in Walk /\ walk' = [walk EXCEPT ![t] = v]
  BY <1>1, NextSlot DEF Turn, Walk, TypeOK
<1>3. /\ ItemsMove
      /\ table' \in [Slot -> Seq(Item)] /\ usedMemory' \in Int
      /\ heap' \in [Item -> Content \cup {Freed}] /\ refCnt' \in [Item -> Nat]
  BY <1>1, RemoveOneOfMove DEF Sound, Turn
<1>4. \E label \in {"return", "any", "scan"} : pc' = [pc EXCEPT ![t] = label]
  BY DEF Turn, Goto
<1>5. UNCHANGED <<locks, evictionPosition, broken, now, arg, item>>
  BY DEF Turn
<1>6. TypeOK'
  BY <1>1, <1>2, <1>3, <1>4, <1>5 DEF TypeOK, PC, Evicting
<1>7. Sound'
  BY <1>1, <1>2, <1>3, <1>4, <1>5, QuietSound DEF TypeOK
<1> QED
  BY <1>6, <1>7

\* A turn of either one-item loop of HashTable_Evict keeps the invariant.
LEMMA EvictTurnsSound ==
  ASSUME TypeOK, Sound, NEW t \in Worker, EvictWithExpires(t) \/ EvictAnyItem(t)
  PROVE  TypeOK' /\ Sound'
<1>1. CASE EvictWithExpires(t)
  <2>1. SoonestExpiring(walk[t].pos) \in SUBSET DOMAIN table[walk[t].pos]
    BY DEF SoonestExpiring
  <2> DEFINE round == IF walk[t].any THEN "any" ELSE "return"
  <2>2. /\ pc[t] = "scan" /\ round \in {"any", "return"}
        /\ Turn(t, SoonestExpiring(walk[t].pos), round)
    BY <1>1 DEF EvictWithExpires
  <2> HIDE DEF round
  <2> QED
    BY <2>1, <2>2, TurnSound
<1>2. CASE EvictAnyItem(t)
  <2>1. HeadOf(walk[t].pos) \in SUBSET DOMAIN table[walk[t].pos]
    BY DEF HeadOf
  <2>2. pc[t] = "any" /\ Turn(t, HeadOf(walk[t].pos), "return")
    BY <1>2 DEF EvictAnyItem
  <2> QED
    BY <2>1, <2>2, TurnSound
<1> QED
  BY <1>1, <1>2

\* The sweep takes the lock of its slot, keeps it while it cuts the chain and
\* gives it back.
LEMMA SweepLocksSound ==
  ASSUME TypeOK, Sound, NEW t \in Worker, SweepLock(t) \/ SweepKeep(t) \/ SweepUnlock(t)
  PROVE  TypeOK' /\ Sound'
<1> DEFINE w == walk[t]
           l == LockOf(w.pos)
<1>1. t \in Thread /\ t # Timer /\ w \in Walk /\ w.pos \in Slot /\ w.cursor \in Nat /\ l \in Lock
  BY ThreadAssumption, WalkType, SlotLock DEF Thread
<1> HIDE DEF l
<1>2. CASE SweepLock(t)
  <2> DEFINE v == [w EXCEPT !.cursor = 1]
  <2>1. /\ pc[t] = "lock" /\ pc' = [pc EXCEPT ![t] = "sweep"]
        /\ locks[l] = NoThread /\ locks' = [locks EXCEPT ![l] = t]
        /\ walk' = [walk EXCEPT ![t] = v]
        /\ UNCHANGED <<table, usedMemory, evictionPosition, heap, refCnt, broken, now, arg, item>>
    BY <1>1, <1>2 DEF SweepLock, Unlocked, Goto, TypeOK, l
  <2>2. v \in Walk /\ v.pos = w.pos /\ v.cursor = 1
    BY <1>1 DEF Walk
  <2>3. TypeOK'
    BY <1>1, <2>1, <2>2 DEF TypeOK, PC, Evicting
  <2>4. ItemsMove /\ SameRefs
    BY <2>1 DEF ItemsMove, KeepItems, SameRefs, Building, TypeOK
  <2>5. \A u \in Thread \ {t} : /\ pc'[u] = pc[u] /\ arg'[u] = arg[u] /\ walk'[u] = walk[u]
                                /\ \A m \in Lock : locks[m] = u => locks'[m] = u
    BY <2>1, ThreadAssumption DEF TypeOK
  <2>6. pc'[t] = "sweep" /\ walk'[t] = v /\ locks'[LockOf(w.pos)] = t
    BY <1>1, <2>1 DEF TypeOK, l
  <2>7. locks'[LockOf(walk'[t].pos)] = t /\ walk'[t].cursor > 0
    BY <2>2, <2>6
  <2>8. Sound'
    BY <1>1, <2>4, <2>5, <2>6, <2>7, MoveSound DEF Sound
  <2> QED
    BY <2>3, <2>8
<1>3. CASE SweepKeep(t)
  <2> DEFINE v == [w EXCEPT !.cursor = w.cursor + 1, !.stale = FALSE]
  <2>1. /\ pc[t] = "sweep" /\ walk' = [walk EXCEPT ![t] = v]
        /\ UNCHANGED <<shared, now, pc, arg, item>>
    BY <1>1, <1>3 DEF SweepKeep, TypeOK
  <2>2. v \in Walk /\ v.pos = w.pos /\ v.cursor > 0
    <3>1. w.cursor + 1 \in Nat /\ w.cursor + 1 > 0
      BY <1>1
    <3>2. v.cursor = w.cursor + 1 /\ v.pos = w.pos
      BY <1>1 DEF Walk
    <3>3. v \in Walk
      BY <1>1, <3>1 DEF Walk
    <3> QED
      BY <3>1, <3>2, <3>3
  <2>3. TypeOK'
    BY <1>1, <2>1, <2>2 DEF TypeOK, shared
  <2>4. ItemsMove /\ SameRefs
    BY <2>1 DEF ItemsMove, KeepItems, SameRefs, Building, shared
  <2>5. /\ pc' = pc /\ arg' = arg /\ locks' = locks
        /\ \A u \in Thread \ {t} : walk'[u] = walk[u]
    BY <2>1 DEF TypeOK, shared
  <2>6. walk'[t] = v /\ locks[LockOf(w.pos)] = t
    BY <1>1, <2>1 DEF Sound, LocksSound, TypeOK
  <2> HIDE DEF v
  <2>7. Sound'
    BY <1>1, <2>1, <2>2, <2>4, <2>5, <2>6, MoveSound DEF Sound
  <2> QED
    BY <2>3, <2>7
<1>4. CASE SweepUnlock(t)
  <2> DEFINE v == [w EXCEPT !.cursor = 0, !.stale = FALSE, !.time = 0]
  <2>1. /\ pc[t] = "sweep"
        /\ \/ pc' = [pc EXCEPT ![t] = "return"]
           \/ pc' = [pc EXCEPT ![t] = "scan"]
        /\ locks' = [locks EXCEPT ![l] = NoThread]
        /\ walk' = [walk EXCEPT ![t] = v]
        /\ UNCHANGED <<table, usedMemory, evictionPosition, heap, refCnt, broken, now, arg, item>>
    BY <1>1, <1>4 DEF SweepUnlock, Goto, TypeOK, l
  <2>2. v \in Walk
    BY <1>1 DEF Walk
  <2>3. TypeOK'
    BY <1>1, <2>1, <2>2 DEF TypeOK, PC, Evicting
  <2>4. ItemsMove /\ SameRefs
    BY <2>1 DEF ItemsMove, KeepItems, SameRefs, Building, TypeOK
  <2>5. locks[l] = t
    BY <1>1, <2>1 DEF Sound, LocksSound, l
  <2>6. \A u \in Thread \ {t} : /\ pc'[u] = pc[u] /\ arg'[u] = arg[u] /\ walk'[u] = walk[u]
                                /\ \A m \in Lock : locks[m] = u => locks'[m] = u
    BY <2>1, <2>5 DEF TypeOK
  <2>7. pc'[t] \in {"return", "scan"}
    BY <1>1, <2>1 DEF TypeOK
  <2>8. Sound'
    BY <1>1, <2>4, <2>6, <2>7, MoveSound DEF Sound
  <2> QED
    BY <2>3, <2>8
<1> QED
  BY <1>2, <1>3, <1>4

\* A removal in the sweep is sound when the predecessor is still in the chain;
\* otherwise it is the step that breaks the chain.
LEMMA SweepRemoveSound ==
  ASSUME TypeOK, Sound, ~broken, NEW t \in Worker, SweepRemove(t)
  PROVE  TypeOK' /\ (~broken' => Sound')
<1> DEFINE w == walk[t]
           n == w.cursor
           v == [w EXCEPT !.stale = TRUE, !.evicted = TRUE]
<1>1. /\ t \in Thread /\ t # Timer /\ w \in Walk /\ w.pos \in Slot /\ n \in DOMAIN table[w.pos]
      /\ pc[t] = "sweep" /\ v \in Walk /\ walk' = [walk EXCEPT ![t] = v]
      /\ v.pos = w.pos /\ v.cursor = n
      /\ UNCHANGED <<locks, evictionPosition, now, pc, arg, item>>
  BY ThreadAssumption, WalkType, ZenonT(40) DEF Thread, SweepRemove, TypeOK, Walk
<1>2. CASE HashTable_DoRemove(w.pos, n) /\ UNCHANGED broken
  <2>1. /\ table' \in [Slot -> Seq(Item)] /\ usedMemory' \in Int
        /\ heap' \in [Item -> Content \cup {Freed}] /\ refCnt' \in [Item -> Nat]
    BY <1>1, <1>2, RemoveType DEF Sound
  <2>2. TypeOK'
    BY <1>1, <1>2, <2>1 DEF TypeOK
  <2>3. ItemsMove /\ SameRefs
    BY <1>1, <1>2 DEF ItemsMove, SameRefs, Building
  <2>4. walk'[t] = v /\ locks[LockOf(w.pos)] = t /\ n > 0
    BY <1>1 DEF Sound, LocksSound, TypeOK
  <2>5. \A u \in Thread \ {t} : walk'[u] = walk[u]
    BY <1>1 DEF TypeOK
  <2>6. Sound'
    BY <1>1, <2>3, <2>4, <2>5, MoveSound DEF Sound
  <2> QED
    BY <2>2, <2>6
<1>3. CASE StaleUnchain(w.pos, n)
  <2> DEFINE x == table[w.pos][n]
  <2>1. /\ x \in Item /\ heap[x] \in Content /\ refCnt[x] \in Nat \ {0}
        /\ table[w.pos] \in Seq(Item) /\ n \in 1 .. Len(table[w.pos])
    BY <1>1, OnePlace DEF Sound
  <2>2. SubSeq(table[w.pos], 1, n) \in Seq(Item)
    BY <2>1
  <2>3. ItemSize(x) \in Int
    <3>1. heap[x].len \in Nat
      BY <2>1, DataAssumption DEF Content
    <3> QED
      BY <3>1, DataAssumption DEF ItemSize
  <2>4. /\ table' \in [Slot -> Seq(Item)] /\ usedMemory' \in Int /\ broken' = TRUE
        /\ heap' \in [Item -> Content \cup {Freed}] /\ refCnt' \in [Item -> Nat]
    <3>1. /\ table' = [table EXCEPT ![w.pos] = SubSeq(table[w.pos], 1, n)]
          /\ usedMemory' = usedMemory - ItemSize(x) /\ broken' = TRUE
          /\ refCnt' = [refCnt EXCEPT ![x] = @ - 1]
          /\ heap' = [heap EXCEPT ![x] = Freed] \/ heap' = heap
      BY <1>3 DEF StaleUnchain, DictionaryItem_Deref
    <3>2. table' \in [Slot -> Seq(Item)] /\ usedMemory' \in Int
      <4>1. w.pos \in Slot /\ table[w.pos] \in Seq(Item)
        BY <1>1, <2>1
      <4>2. table \in [Slot -> Seq(Item)] /\ usedMemory \in Int
        BY DEF TypeOK
      <4> HIDE DEF x, w, n
      <4> QED
        BY <2>2, <2>3, <3>1, <4>1, <4>2
    <3> HIDE DEF x
    <3>3. heap' \in [Item -> Content \cup {Freed}]
      BY <3>1 DEF TypeOK
    <3>4. refCnt' \in [Item -> Nat]
      BY <2>1, <3>1 DEF TypeOK
    <3> QED
      BY <3>1, <3>2, <3>3, <3>4
  <2>5. TypeOK'
    BY <1>1, <2>4 DEF TypeOK
  <2> QED
    BY <2>4, <2>5
<1> QED
  BY <1>2, <1>3 DEF SweepRemove

\* The steps of the timer thread keep the invariant.
LEMMA VacuumSound ==
  ASSUME TypeOK, Sound, KVS_Vacuum \/ HashTable_RemoveExpired \/ RemoveExpiredTurn
  PROVE  TypeOK' /\ Sound'
<1> DEFINE w == walk[Timer]
<1>1. Timer \in Thread /\ w \in Walk /\ NoWalk \in Walk /\ w.pos \in Slot
  BY WalkType DEF Thread
<1>2. CASE KVS_Vacuum
  <2>1. walk' = [walk EXCEPT ![Timer] = [w EXCEPT !.time = now]]
    BY <1>1, <1>2 DEF KVS_Vacuum, TypeOK
  <2>2. [w EXCEPT !.time = now] \in Walk
    BY <1>1 DEF TypeOK, Walk
  <2> QED
    BY <1>1, <1>2, <2>1, <2>2, WalkStep DEF KVS_Vacuum, Goto, shared, PC, TypeOK
<1>3. CASE HashTable_RemoveExpired
  <2> DEFINE v == [w EXCEPT !.pos = evictionPosition, !.start = evictionPosition]
  <2>1. walk' = [walk EXCEPT ![Timer] = v] /\ v \in Walk
    BY <1>1, <1>3 DEF HashTable_RemoveExpired, TypeOK, Walk
  <2> QED
    BY <1>1, <1>3, <2>1, WalkStep DEF HashTable_RemoveExpired, Goto, shared, PC, TypeOK
<1>4. CASE RemoveExpiredTurn
  <2>1. PICK C \in SUBSET DOMAIN table[w.pos] : RemoveOneOf(w.pos, C)
    BY <1>4 DEF RemoveExpiredTurn, FirstExpired
  <2>2. /\ ItemsMove
        /\ table' \in [Slot -> Seq(Item)] /\ usedMemory' \in Int
        /\ heap' \in [Item -> Content \cup {Freed}] /\ refCnt' \in [Item -> Nat]
    BY <1>1, <2>1, RemoveOneOfMove DEF Sound
  <2>3. [w EXCEPT !.pos = NextPos(w.pos)] \in Walk
    BY <1>1, NextSlot DEF Walk
  <2>4. \E v \in Walk : walk' = [walk EXCEPT ![Timer] = v]
    BY <1>1, <1>4, <2>3 DEF RemoveExpiredTurn
  <2>5. /\ pc[Timer] = "expire"
        /\ \E label \in {"idle", "expire"} : pc' = [pc EXCEPT ![Timer] = label]
        /\ UNCHANGED <<locks, evictionPosition, broken, now, arg, item>>
    BY <1>4 DEF RemoveExpiredTurn, Goto
  <2>6. TypeOK'
    BY <1>1, <2>2, <2>4, <2>5 DEF TypeOK, PC
  <2>7. Sound'
    BY <1>1, <2>2, <2>4, <2>5, QuietSound DEF TypeOK
  <2> QED
    BY <2>6, <2>7
<1> QED
  BY <1>2, <1>3, <1>4

\* The clock and stuttering touch nothing the invariant speaks of.
LEMMA StutterSound ==
  ASSUME TypeOK, ~broken => Sound, UNCHANGED <<shared, locals>>, now' = now \/ now' = now + 1
  PROVE  TypeOK' /\ (~broken' => Sound')
<1>1. TypeOK'
  BY DEF TypeOK, shared, locals
<1>2. /\ ChainsSound' = ChainsSound /\ ThreadsSound' = ThreadsSound
      /\ CountsSound' = CountsSound /\ LocksSound' = LocksSound /\ broken' = broken
  BY DEF ChainsSound, CountsSound, ThreadsSound, LocksSound, Building, Built, Holders,
         Linked, HashTable_Search, SlotOf, LockOf, shared, locals
<1> QED
  BY <1>1, <1>2 DEF Sound

-----------------------------------------------------------------------------
(* The inductive invariant and what follows from it *)

\* The invariant holds in the table HashTable_New makes.
LEMMA InitSound == Init => IInv
<1> SUFFICES ASSUME Init
             PROVE  IInv
  OBVIOUS
<1>1. TypeOK
  <2>1. 0 \in Slot /\ NoWalk \in Walk
    BY SizeAssumption DEF Slot, Walk, NoWalk
  <2>2. table \in [Slot -> Seq(Item)]
    BY DEF Init
  <2>3. "idle" \in PC
    BY DEF PC
  <2>4. /\ locks \in [Lock -> Thread \cup {NoThread}]
        /\ heap \in [Item -> Content \cup {Freed}] /\ refCnt \in [Item -> Nat]
    BY DEF Init
  <2>5. /\ pc \in [Thread -> PC] /\ arg \in [Thread -> Key \cup {NoKey}]
        /\ item \in [Thread -> Item \cup {NoItem}] /\ walk \in [Thread -> Walk]
    BY <2>1, <2>3 DEF Init
  <2>6. usedMemory \in Int /\ evictionPosition \in Slot /\ now \in Nat
    BY <2>1 DEF Init
  <2>7. broken \in BOOLEAN
    BY Zenon DEF Init
  <2> QED
    BY <2>2, <2>4, <2>5, <2>6, <2>7 DEF TypeOK
<1>2. \A s \in Slot : table[s] = <<>> /\ DOMAIN table[s] = {}
  BY DEF Init
<1>3. Linked = {}
  BY <1>2, LinkedPlace DEF Linked
<1>4. \A i \in Item : ~Built(i) /\ Holders(i) = {}
  BY DEF Init, Built, Building, Holders
<1>5. ChainsSound
  BY <1>2 DEF ChainsSound
<1>6. CountsSound
  <2> SUFFICES ASSUME NEW i \in Item
               PROVE  /\ refCnt[i] = (IF i \in Linked \/ Built(i) THEN 1 ELSE 0)
                                       + Cardinality(Holders(i))
                      /\ heap[i] = Freed <=> refCnt[i] = 0
    BY DEF CountsSound
  <2>1. refCnt[i] = 0 /\ heap[i] = Freed
    BY DEF Init
  <2>2. Cardinality(Holders(i)) = 0
    BY <1>4, FS_EmptySet
  <2> QED
    BY <1>3, <1>4, <2>1, <2>2
<1>7. ThreadsSound /\ LocksSound
  BY DEF Init, ThreadsSound, LocksSound, Building
<1> QED
  BY <1>1, <1>5, <1>6, <1>7 DEF IInv

\* The invariant is inductive: one step per action of the table.
LEMMA NextSound == IInv /\ [Next]_vars => IInv'
<1> SUFFICES ASSUME TypeOK, ~broken => Sound, [Next]_vars
             PROVE  TypeOK' /\ (~broken' => Sound')
  BY DEF IInv, Sound
<1>1. CASE UNCHANGED vars
  BY <1>1, StutterSound DEF vars
<1>2. CASE ~broken /\ Tick
  BY <1>2, StutterSound DEF Tick
<1>3. CASE ~broken /\ (KVS_Vacuum \/ Vacuum)
  BY <1>3, VacuumSound DEF Vacuum
<1>4. ASSUME ~broken, NEW t \in Worker, Start(t)
      PROVE  TypeOK' /\ Sound'
  <2>1. CASE \E k \in Key : HashTable_Get(t, k) \/ HashTable_Remove(t, k)
    BY <1>4, <2>1, GetSound, RemoveSound
  <2>2. CASE \E k \in Key, len \in ValueLen, e \in ExpTime : HashTable_Set(t, k, len, e)
    BY <1>4, <2>2, SetSound
  <2>3. CASE EvictAny(t)
    BY <1>4, <2>3, EvictStepsSound
  <2> QED
    BY <1>4, <2>1, <2>2, <2>3 DEF Start
<1>5. ASSUME ~broken, NEW t \in Worker, Continue(t)
      PROVE  TypeOK' /\ (~broken' => Sound')
  <2>1. CASE HashTable_RemoveLapsed(t)
    BY <1>5, <2>1, RemoveLapsedSound
  <2>2. CASE HashTable_Return(t)
    BY <1>5, <2>2, ReturnSound
  <2>3. CASE SetUnlinkOld(t)
    BY <1>5, <2>3, UnlinkSound
  <2>4. CASE SetLinkNew(t)
    BY <1>5, <2>4, LinkSound
  <2>5. CASE \/ KVS_EvictIfNeeeded(t) \/ HashTable_Evict(t)
             \/ EvictReadClock(t) \/ EvictReturn(t)
    BY <1>5, <2>5, EvictStepsSound
  <2>6. CASE SweepLock(t) \/ SweepKeep(t) \/ SweepUnlock(t)
    BY <1>5, <2>6, SweepLocksSound
  <2>7. CASE SweepRemove(t)
    BY <1>5, <2>7, SweepRemoveSound
  <2>8. CASE EvictWithExpires(t) \/ EvictAnyItem(t)
    BY <1>5, <2>8, EvictTurnsSound
  <2> QED
    BY <1>5, <2>1, <2>2, <2>3, <2>4, <2>5, <2>6, <2>7, <2>8 DEF Continue
<1> QED
  BY <1>1, <1>2, <1>3, <1>4, <1>5 DEF Next

\* Every reachable state satisfies the inductive invariant.
THEOREM Invariance == Spec => []IInv
<1>1. Init => IInv
  BY InitSound
<1>2. IInv /\ [Next]_vars => IInv'
  BY NextSound
<1> QED
  BY <1>1, <1>2, PTL DEF Spec

\* The variables keep their types: in particular no reference count goes below
\* zero and no loop of EvictFromSlot leaves the table.
THEOREM TypeCorrect == Spec => []TypeOK
<1>1. IInv => TypeOK
  BY DEF IInv
<1> QED
  BY <1>1, Invariance, PTL

\* Concurrent "set"s, "get"s, deletes, evictions and expiries never leave two
\* items under a key, or an item in a slot that is not its key's.
THEOREM UniqueKeys == Spec => []KeysUnique
<1>1. IInv => KeysUnique
  BY DEF IInv, KeysUnique
<1> QED
  BY <1>1, Invariance, PTL

\* Every reference count is exact: what a client reads is not freed under it,
\* and what nobody refers to has been freed.
THEOREM ExactCounts == Spec => []RefCountExact
<1>1. IInv => RefCountExact
  BY DEF IInv, RefCountExact
<1> QED
  BY <1>1, Invariance, PTL
=============================================================================
