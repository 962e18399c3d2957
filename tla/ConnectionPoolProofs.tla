------------------------ MODULE ConnectionPoolProofs ------------------------
(***************************************************************************)
(* Proofs about the connections of the server (module ConnectionPool) and  *)
(* the list that holds them (module LinkedList).                           *)
(*                                                                         *)
(* The first half is about the list alone.  Chained(ch) says that the      *)
(* pointers spell the sequence ch in both directions; a list is always     *)
(* Chained for one ch, its Chain, and each operation is shown to turn ch   *)
(* into the sequence a reader expects.  From there on Items and Pos, the   *)
(* entries and the place of the cursor, are all that is said of the list.  *)
(*                                                                         *)
(* The second half is the pool.  PoolInv ties the list, the registrations  *)
(* of epoll, the connections workers are closing and what the clean-up has *)
(* found so far; its parts are named for what they say.                    *)
(***************************************************************************)
EXTENDS ConnectionPool, Induction, SequenceTheorems

-----------------------------------------------------------------------------
(* The list *)

\* ch is the cells of the list, from head to tail: their pointers say so, in
\* both directions, and no other cell is allocated.
Chained(ch) ==
  /\ ch \in Seq(Cell)
  /\ \A m, n \in 1 .. Len(ch) : ch[m] = ch[n] => m = n
  /\ cell \in [Cell -> ListEntry \cup {Null}]
  /\ head = IF Len(ch) = 0 THEN Null ELSE ch[1]
  /\ \A n \in 1 .. Len(ch) :
       /\ cell[ch[n]] \in ListEntry
       /\ cell[ch[n]].next = IF n = Len(ch) THEN Null ELSE ch[n + 1]
       /\ cell[ch[n]].prev = IF n = 1 THEN Null ELSE ch[n - 1]
  /\ \A c \in Cell : cell[c] # Null => \E n \in 1 .. Len(ch) : c = ch[n]
  /\ size = Len(ch)
  /\ ptr # Null => \E n \in 1 .. Len(ch) : ptr = ch[n]
  /\ damaged \in BOOLEAN
  /\ ~damaged => tail = IF Len(ch) = 0 THEN Null ELSE ch[Len(ch)]

\* A sequence without repetitions has no more places than there are elements.
LEMMA InjectiveLen ==
  ASSUME NEW ch \in Seq(Cell), \A m, n \in 1 .. Len(ch) : ch[m] = ch[n] => m = n
  PROVE  Len(ch) <= Cardinality(Cell) /\ Cardinality(Cell) \in Nat
<1>1. IsFiniteSet(Cell)
  BY CellAssumption
<1>2. ch \in Injection(1 .. Len(ch), Cell)
  BY DEF Injection, IsInjective
<1>3. Cardinality(1 .. Len(ch)) = Len(ch)
  <2>1. Len(ch) \in Int /\ 1 \in Int /\ (1 > Len(ch) <=> Len(ch) = 0) /\ Len(ch) - 1 + 1 = Len(ch)
    OBVIOUS
  <2> QED
    BY <2>1, FS_Interval
<1>4. Cardinality(1 .. Len(ch)) <= Cardinality(Cell)
  BY <1>1, <1>2, FS_Injection
<1> QED
  BY <1>1, <1>3, <1>4, FS_CardinalityType

\* Following the pointers from the head reads the list.
LEMMA NthIs ==
  ASSUME NEW ch, Chained(ch)
  PROVE  Nth = [n \in 1 .. Cardinality(Cell) |-> IF n <= Len(ch) THEN ch[n] ELSE Null]
<1> DEFINE C == Cardinality(Cell)
           Step(f, n) == IF n = 1 THEN head
                         ELSE IF f[n - 1] = Null THEN Null ELSE cell[f[n - 1]].next
           g == [n \in 1 .. C |-> IF n <= Len(ch) THEN ch[n] ELSE Null]
<1>1. Len(ch) \in Nat /\ C \in Nat /\ Len(ch) <= C
  BY InjectiveLen DEF Chained
<1>2. \A n \in 1 .. Len(ch) : ch[n] \in Cell /\ ch[n] # Null
  BY NullAssumption DEF Chained
<1> HIDE DEF C
<1>3. ASSUME NEW n \in 1 .. C
      PROVE  g[n] = Step(g, n)
  <2>1. CASE n = 1
    BY <1>1, <2>1 DEF Chained
  <2>2. CASE n # 1
    <3>1. n - 1 \in 1 .. C /\ n - 1 + 1 = n
      BY <1>1, <2>2
    <3>2. CASE n - 1 <= Len(ch)
      <4>1. n - 1 \in 1 .. Len(ch) /\ g[n - 1] = ch[n - 1]
        BY <1>1, <3>1, <3>2
      <4>2. g[n - 1] # Null /\ cell[g[n - 1]].next = IF n - 1 = Len(ch) THEN Null ELSE ch[n]
        BY <1>2, <3>1, <4>1 DEF Chained
      <4>3. g[n] = IF n - 1 = Len(ch) THEN Null ELSE ch[n]
        BY <1>1, <3>2
      <4> QED
        BY <2>2, <4>2, <4>3
    <3>3. CASE ~(n - 1 <= Len(ch))
      <4>1. g[n - 1] = Null /\ g[n] = Null
        BY <1>1, <3>1, <3>3
      <4> QED
        BY <2>2, <4>1
    <3> QED
      BY <3>2, <3>3
  <2> QED
    BY <2>1, <2>2
<1>4. g = [n \in 1 .. C |-> Step(g, n)]
  <2>1. g = [n \in 1 .. C |-> g[n]]
    OBVIOUS
  <2> HIDE DEF g, Step
  <2> QED
    BY <1>3, <2>1
<1>5. Nth = [n \in 1 .. C |-> Step(Nth, n)]
  <2>1. Nth = CHOOSE f : f = [n \in 1 .. C |-> Step(f, n)]
    BY DEF Nth, C
  <2> HIDE DEF g, Step
  <2> QED
    BY <1>4, <2>1
<1> DEFINE T == {n \in Nat : n + 1 \in 1 .. C => Nth[n + 1] = g[n + 1]}
<1>6. \A n \in 1 .. C : Nth[n] = Step(Nth, n)
  <2> HIDE DEF Step
  <2> QED
    BY <1>5
<1> HIDE DEF g
<1>7. 0 \in T
  <2> SUFFICES ASSUME 1 \in 1 .. C
               PROVE  Nth[1] = g[1]
    OBVIOUS
  <2> QED
    BY <1>3, <1>6
<1>8. ASSUME NEW n \in Nat, n \in T
      PROVE  n + 1 \in T
  <2> SUFFICES ASSUME n + 1 + 1 \in 1 .. C
               PROVE  Nth[n + 1 + 1] = g[n + 1 + 1]
    OBVIOUS
  <2>1. PICK k \in 1 .. C : k = n + 1 + 1 /\ k # 1 /\ k - 1 = n + 1 /\ k - 1 \in 1 .. C
    BY <1>1
  <2>2. Nth[k - 1] = g[k - 1]
    BY <1>8, <2>1
  <2>3. Nth[k] = Step(Nth, k) /\ g[k] = Step(g, k)
    BY <1>3, <1>6
  <2>4. Nth[k] = g[k]
    BY <2>1, <2>2, <2>3
  <2> QED
    BY <2>1, <2>4
<1>9. \A n \in Nat : n \in T
  <2> HIDE DEF T
  <2> QED
    BY <1>7, <1>8, NatSetInduction
<1>10. \A n \in 1 .. C : Nth[n] = g[n]
  <2> SUFFICES ASSUME NEW n \in 1 .. C PROVE Nth[n] = g[n]
    OBVIOUS
  <2>1. n - 1 \in T /\ n - 1 + 1 = n
    BY <1>1, <1>9
  <2> QED
    BY <2>1
<1> QED
  <2> HIDE DEF Step, T
  <2>1. Nth = [n \in 1 .. C |-> Nth[n]]
    BY <1>5
  <2>2. Nth = [n \in 1 .. C |-> g[n]]
    BY <1>10, <2>1
  <2>3. g = [n \in 1 .. C |-> g[n]]
    BY DEF g
  <2> QED
    BY <2>2, <2>3 DEF g, C

LEMMA ChainIs == \A ch : Chained(ch) => Chain = ch
<1> SUFFICES ASSUME NEW ch, Chained(ch)
             PROVE  Chain = ch
  OBVIOUS
<1> DEFINE C == Cardinality(Cell)
<1>1. Len(ch) \in Nat /\ C \in Nat /\ Len(ch) <= C /\ ch \in Seq(Cell)
  BY InjectiveLen DEF Chained
<1>2. \A n \in 1 .. Len(ch) : ch[n] \in Cell /\ ch[n] # Null
  BY NullAssumption DEF Chained
<1>3. Nth = [n \in 1 .. C |-> IF n <= Len(ch) THEN ch[n] ELSE Null]
  BY NthIs
<1> HIDE DEF C
<1>4. {m \in DOMAIN Nth : Nth[m] # Null} = 1 .. Len(ch)
  <2>1. DOMAIN Nth = 1 .. C
    BY <1>3
  <2>2. \A m \in 1 .. C : Nth[m] = IF m <= Len(ch) THEN ch[m] ELSE Null
    BY <1>3
  <2> QED
    BY <1>1, <1>2, <2>1, <2>2
<1>5. Cardinality(1 .. Len(ch)) = Len(ch)
  <2>1. Len(ch) \in Int /\ 1 \in Int /\ (1 > Len(ch) <=> Len(ch) = 0) /\ Len(ch) - 1 + 1 = Len(ch)
    BY <1>1
  <2> QED
    BY <2>1, FS_Interval
<1>6. Chain = [n \in 1 .. Len(ch) |-> Nth[n]]
  BY <1>4, <1>5 DEF Chain
<1>7. \A n \in 1 .. Len(ch) : Nth[n] = ch[n]
  BY <1>1, <1>3
<1>8. ch = [n \in 1 .. Len(ch) |-> ch[n]]
  BY <1>1
<1> QED
  BY <1>6, <1>7, <1>8

LEMMA ChainIsNext == (\A ch : Chained(ch) => Chain = ch)'
  BY ChainIs, PTL

\* The entries, read along the list.
LEMMA ItemsAre ==
  \A ch : Chained(ch) =>
    /\ Items = [n \in 1 .. Len(ch) |-> cell[ch[n]].entry]
    /\ Items \in Seq(Entry) /\ Len(Items) = Len(ch)
    /\ \A n \in 1 .. Len(ch) : Items[n] = cell[ch[n]].entry
<1> SUFFICES ASSUME NEW ch, Chained(ch)
             PROVE  /\ Items = [n \in 1 .. Len(ch) |-> cell[ch[n]].entry]
                    /\ Items \in Seq(Entry) /\ Len(Items) = Len(ch)
                    /\ \A n \in 1 .. Len(ch) : Items[n] = cell[ch[n]].entry
  OBVIOUS
<1>1. Chain = ch /\ ch \in Seq(Cell) /\ Len(ch) \in Nat /\ DOMAIN ch = 1 .. Len(ch)
  BY ChainIs DEF Chained
<1>2. Items = [n \in 1 .. Len(ch) |-> cell[ch[n]].entry]
  BY <1>1 DEF Items
<1>3. \A n \in 1 .. Len(ch) : cell[ch[n]].entry \in Entry
  BY DEF Chained, ListEntry
<1> QED
  BY <1>1, <1>2, <1>3

LEMMA ItemsAreNext ==
  (\A ch : Chained(ch) =>
    /\ Items = [n \in 1 .. Len(ch) |-> cell[ch[n]].entry]
    /\ Items \in Seq(Entry) /\ Len(Items) = Len(ch)
    /\ \A n \in 1 .. Len(ch) : Items[n] = cell[ch[n]].entry)'
  BY ItemsAre, PTL

\* A new list is empty.
LEMMA NewChained == LinkedList_New => Chained(<<>>)
<1> SUFFICES ASSUME LinkedList_New PROVE Chained(<<>>)
  OBVIOUS
<1>1. <<>> \in Seq(Cell) /\ Len(<<>>) = 0 /\ 1 .. 0 = {}
  OBVIOUS
<1>2. cell \in [Cell -> ListEntry \cup {Null}] /\ \A c \in Cell : cell[c] = Null
  BY DEF LinkedList_New
<1> QED
  BY <1>1, <1>2 DEF LinkedList_New, Chained

\* A step of the cursor changes nothing else.
LEMMA NextChained ==
  ASSUME NEW ch, Chained(ch), LinkedList_Next
  PROVE  /\ Chained(ch)'
         /\ ptr = Null => ptr' = IF Len(ch) = 0 THEN Null ELSE ch[1]
         /\ \A n \in 1 .. Len(ch) :
              ptr = ch[n] => ptr' = IF n = Len(ch) THEN Null ELSE ch[n + 1]
<1>1. /\ ptr' = Following /\ UNCHANGED <<cell, head, tail, size, damaged>>
      /\ ch \in Seq(Cell) /\ Len(ch) \in Nat
      /\ \A n \in 1 .. Len(ch) : ch[n] # Null
  BY NullAssumption DEF LinkedList_Next, Chained
<1>2. ptr = Null => ptr' = IF Len(ch) = 0 THEN Null ELSE ch[1]
  BY <1>1 DEF Following, Chained
<1>3. ASSUME NEW n \in 1 .. Len(ch), ptr = ch[n]
      PROVE  ptr' = IF n = Len(ch) THEN Null ELSE ch[n + 1]
  BY <1>1, <1>3 DEF Following, Chained
<1>4. ptr' # Null => \E n \in 1 .. Len(ch) : ptr' = ch[n]
  <2>1. CASE ptr = Null
    BY <1>1, <1>2, <2>1
  <2>2. CASE ptr # Null
    <3>1. PICK n \in 1 .. Len(ch) : ptr = ch[n]
      BY <2>2 DEF Chained
    <3>2. n # Len(ch) => n + 1 \in 1 .. Len(ch)
      BY <1>1
    <3> QED
      BY <1>3, <3>1, <3>2
  <2> QED
    BY <2>1, <2>2
<1>5. Chained(ch)'
  BY <1>1, <1>4 DEF Chained
<1> QED
  BY <1>2, <1>3, <1>5

\* An entry is added behind the last one.
LEMMA AddChained ==
  ASSUME NEW ch, Chained(ch), ~damaged, NEW e \in Entry, LinkedList_Add(e)
  PROVE  \E c \in Cell :
           /\ Chained(Append(ch, c))' /\ cell'[c].entry = e
           /\ \A n \in 1 .. Len(ch) : cell'[ch[n]].entry = cell[ch[n]].entry
<1>1. PICK c \in Cell :
        /\ cell[c] = Null
        /\ head' = (IF head = Null THEN c ELSE head)
        /\ tail' = c
        /\ cell' = IF head = Null
                   THEN [cell EXCEPT ![c] = [entry |-> e, next |-> Null, prev |-> Null]]
                   ELSE [cell EXCEPT ![tail].next = c,
                                     ![c] = [entry |-> e, next |-> Null, prev |-> tail]]
        /\ size' = size + 1
        /\ UNCHANGED <<ptr, damaged>>
  BY DEF LinkedList_Add
<1> DEFINE L == Len(ch)
           new == Append(ch, c)
<1>2. /\ ch \in Seq(Cell) /\ L \in Nat /\ c # Null
      /\ \A n \in 1 .. L : ch[n] \in Cell /\ ch[n] # Null /\ ch[n] # c
  BY <1>1, NullAssumption DEF Chained
<1>3. /\ new \in Seq(Cell) /\ Len(new) = L + 1 /\ new[L + 1] = c
      /\ \A n \in 1 .. L : new[n] = ch[n]
  BY <1>2
<1>4. head = Null <=> L = 0
  <2>1. L # 0 => 1 \in 1 .. L
    BY <1>2
  <2> QED
    BY <1>2, <2>1 DEF Chained
<1>5. L # 0 => tail = ch[L] /\ L \in 1 .. L
  BY <1>2 DEF Chained
<1> HIDE DEF new
<1>6. ASSUME NEW n \in 1 .. L
      PROVE  /\ cell'[ch[n]] \in ListEntry
             /\ cell'[ch[n]].entry = cell[ch[n]].entry
             /\ cell'[ch[n]].prev = cell[ch[n]].prev
             /\ cell'[ch[n]].next = IF n = L THEN c ELSE cell[ch[n]].next
  <2>1. L # 0 /\ head # Null /\ tail = ch[L] /\ L \in 1 .. L
    BY <1>2, <1>4, <1>5
  <2>2. cell[ch[n]] \in ListEntry /\ cell \in [Cell -> ListEntry \cup {Null}]
    BY DEF Chained
  <2>3. CASE n = L
    <3>1. cell'[ch[n]] = [cell[ch[n]] EXCEPT !.next = c]
      BY <1>1, <1>2, <2>1, <2>2, <2>3
    <3> QED
      BY <2>2, <2>3, <3>1 DEF ListEntry
  <2>4. CASE n # L
    <3>1. ch[n] # ch[L]
      BY <2>1, <2>4 DEF Chained
    <3>2. cell'[ch[n]] = cell[ch[n]]
      BY <1>1, <1>2, <2>1, <2>2, <3>1
    <3> QED
      BY <2>2, <2>4, <3>2
  <2> QED
    BY <2>3, <2>4
<1>7. /\ cell'[c] \in ListEntry /\ cell'[c].entry = e /\ cell'[c].next = Null
      /\ cell'[c].prev = IF L = 0 THEN Null ELSE ch[L]
  <2>1. cell \in [Cell -> ListEntry \cup {Null}]
    BY DEF Chained
  <2>2. cell'[c] = [entry |-> e, next |-> Null, prev |-> IF L = 0 THEN Null ELSE ch[L]]
    BY <1>1, <1>4, <1>5, <2>1
  <2>3. L # 0 => ch[L] \in Cell
    BY <1>2, <1>5
  <2> QED
    BY <2>2, <2>3 DEF ListEntry
<1>8. /\ cell' \in [Cell -> ListEntry \cup {Null}]
      /\ \A d \in Cell : d # c /\ cell'[d] # Null => \E n \in 1 .. L : d = ch[n]
  <2>1. DOMAIN cell' = Cell /\ cell' = [d \in Cell |-> cell'[d]]
    BY <1>1 DEF Chained
  <2>2. ASSUME NEW d \in Cell, d # c, \A n \in 1 .. L : d # ch[n]
        PROVE  cell'[d] = Null
    <3>1. cell[d] = Null
      BY <2>2 DEF Chained
    <3>2. L # 0 => d # tail
      BY <1>5, <2>2
    <3>3. cell'[d] = cell[d]
      BY <1>1, <1>4, <2>2, <3>2 DEF Chained
    <3> QED
      BY <3>1, <3>3
  <2>3. \A d \in Cell : cell'[d] \in ListEntry \cup {Null}
    BY <1>6, <1>7, <2>2
  <2> QED
    BY <2>1, <2>2, <2>3
<1>9. Chained(new)'
  <2>1. \A m, n \in 1 .. L + 1 : new[m] = new[n] => m = n
    <3> SUFFICES ASSUME NEW m \in 1 .. L + 1, NEW n \in 1 .. L + 1, new[m] = new[n]
                 PROVE  m = n
      OBVIOUS
    <3>1. (m \in 1 .. L \/ m = L + 1) /\ (n \in 1 .. L \/ n = L + 1)
      BY <1>2
    <3> QED
      BY <1>2, <1>3, <3>1 DEF Chained
  <2>2. head' = new[1] /\ L + 1 # 0 /\ 1 \in 1 .. L + 1
    <3>1. CASE L = 0
      BY <1>1, <1>3, <1>4, <3>1
    <3>2. CASE L # 0
      <4>1. 1 \in 1 .. L /\ head = ch[1]
        BY <1>2, <3>2 DEF Chained
      <4> QED
        BY <1>1, <1>2, <1>3, <1>4, <3>2, <4>1
    <3> QED
      BY <3>1, <3>2
  <2>3. ASSUME NEW n \in 1 .. L + 1
        PROVE  /\ cell'[new[n]] \in ListEntry
               /\ cell'[new[n]].next = IF n = L + 1 THEN Null ELSE new[n + 1]
               /\ cell'[new[n]].prev = IF n = 1 THEN Null ELSE new[n - 1]
    <3>1. CASE n = L + 1
      <4>1. n - 1 = L /\ (n = 1 <=> L = 0)
        BY <1>2, <3>1
      <4>2. L # 0 => new[L] = ch[L]
        BY <1>3, <1>5
      <4> QED
        BY <1>3, <1>7, <3>1, <4>1, <4>2
    <3>2. CASE n # L + 1
      <4>1. n \in 1 .. L /\ new[n] = ch[n]
        BY <1>2, <1>3, <3>2
      <4>2. n # 1 => n - 1 \in 1 .. L /\ new[n - 1] = ch[n - 1]
        BY <1>2, <1>3, <4>1
      <4>3. n = L => new[n + 1] = c
        BY <1>3
      <4>4. n # L => n + 1 \in 1 .. L /\ new[n + 1] = ch[n + 1]
        BY <1>2, <1>3, <4>1
      <4>5. /\ cell[ch[n]].next = IF n = L THEN Null ELSE ch[n + 1]
            /\ cell[ch[n]].prev = IF n = 1 THEN Null ELSE ch[n - 1]
        BY <4>1 DEF Chained
      <4> QED
        BY <1>6, <3>2, <4>1, <4>2, <4>3, <4>4, <4>5
    <3> QED
      BY <3>1, <3>2
  <2>4. \A d \in Cell : cell'[d] # Null => \E n \in 1 .. L + 1 : d = new[n]
    <3> SUFFICES ASSUME NEW d \in Cell, cell'[d] # Null
                 PROVE  \E n \in 1 .. L + 1 : d = new[n]
      OBVIOUS
    <3>1. CASE d = c
      BY <1>2, <1>3, <3>1
    <3>2. CASE d # c
      <4>1. PICK n \in 1 .. L : d = ch[n]
        BY <1>8, <3>2
      <4>2. n \in 1 .. L + 1
        BY <1>2
      <4> QED
        BY <1>3, <4>1, <4>2
    <3> QED
      BY <3>1, <3>2
  <2>5. size' = L + 1 /\ ptr' = ptr /\ damaged' = damaged /\ tail' = new[L + 1]
    BY <1>1, <1>3 DEF Chained
  <2>6. ptr # Null => \E n \in 1 .. L + 1 : ptr = new[n]
    <3> SUFFICES ASSUME ptr # Null PROVE \E n \in 1 .. L + 1 : ptr = new[n]
      OBVIOUS
    <3>1. PICK n \in 1 .. L : ptr = ch[n]
      BY DEF Chained
    <3>2. n \in 1 .. L + 1
      BY <1>2
    <3> QED
      BY <1>3, <3>1, <3>2
  <2>7. damaged' \in BOOLEAN
    BY <2>5 DEF Chained
  <2> HIDE DEF L
  <2> QED
    BY <1>3, <1>8, <2>1, <2>2, <2>3, <2>4, <2>5, <2>6, <2>7 DEF Chained
<1> QED
  BY <1>6, <1>7, <1>9 DEF new

\* When the allocation of an entry fails, only the tail is lost.
LEMMA AddFailsChained ==
  ASSUME NEW ch, Chained(ch), LinkedList_AddFails
  PROVE  Chained(ch)' /\ cell' = cell /\ damaged' = (Len(ch) # 0)
<1>1. /\ tail' = Null /\ damaged' = (head # Null) /\ UNCHANGED <<cell, head, ptr, size>>
  BY DEF LinkedList_AddFails
<1>2. head # Null <=> Len(ch) # 0
  <2>1. Len(ch) # 0 => 1 \in 1 .. Len(ch) /\ ch[1] \in Cell
    BY DEF Chained
  <2> QED
    BY <2>1, NullAssumption DEF Chained
<1> QED
  BY <1>1, <1>2 DEF Chained

\* The list without its k-th cell.
Without(ch, k) == [n \in 1 .. Len(ch) - 1 |-> IF n < k THEN ch[n] ELSE ch[n + 1]]

LEMMA RemoveAtIs ==
  ASSUME NEW S, NEW ch \in Seq(S), NEW k \in 1 .. Len(ch)
  PROVE  /\ RemoveAt(ch, k) = Without(ch, k)
         /\ Without(ch, k) \in Seq(S) /\ Len(Without(ch, k)) = Len(ch) - 1
<1> DEFINE L == Len(ch)
           a == SubSeq(ch, 1, k - 1)
           b == SubSeq(ch, k + 1, L)
           w == Without(ch, k)
<1>1. L \in Nat /\ k \in 1 .. L /\ \A n \in 1 .. L : ch[n] \in S
  OBVIOUS
<1>2. a \in Seq(S) /\ Len(a) = k - 1 /\ \A n \in 1 .. k - 1 : a[n] = ch[n]
  OBVIOUS
<1>3. b \in Seq(S) /\ Len(b) = L - k /\ \A n \in 1 .. L - k : b[n] = ch[k + n]
  OBVIOUS
<1>4. /\ w \in Seq(S) /\ Len(w) = L - 1
      /\ \A n \in 1 .. L - 1 : w[n] = IF n < k THEN ch[n] ELSE ch[n + 1]
  BY <1>1 DEF Without
<1>5. RemoveAt(ch, k) = a \o b
  BY DEF RemoveAt
<1> HIDE DEF a, b, w, L
<1>6. /\ a \o b \in Seq(S) /\ Len(a \o b) = Len(a) + Len(b)
      /\ \A n \in 1 .. Len(a) + Len(b) :
           (a \o b)[n] = IF n <= Len(a) THEN a[n] ELSE b[n - Len(a)]
  <2>1. PICK p \in Seq(S), q \in Seq(S) : p = a /\ q = b
    BY <1>2, <1>3
  <2>2. /\ p \o q \in Seq(S) /\ Len(p \o q) = Len(p) + Len(q)
        /\ \A n \in 1 .. Len(p) + Len(q) :
             (p \o q)[n] = IF n <= Len(p) THEN p[n] ELSE q[n - Len(p)]
    OBVIOUS
  <2> QED
    BY <2>1, <2>2
<1>7. Len(a) + Len(b) = L - 1
  BY <1>1, <1>2, <1>3
<1>8. ASSUME NEW n \in 1 .. L - 1
      PROVE  (a \o b)[n] = w[n]
  <2>1. (a \o b)[n] = IF n <= k - 1 THEN a[n] ELSE b[n - (k - 1)]
    BY <1>2, <1>6, <1>7
  <2>2. CASE n < k
    <3>1. n \in 1 .. k - 1 /\ n <= k - 1
      BY <1>1, <2>2
    <3> QED
      BY <1>2, <1>4, <2>1, <2>2, <3>1
  <2>3. CASE ~(n < k)
    <3>1. n - (k - 1) \in 1 .. L - k /\ k + (n - (k - 1)) = n + 1 /\ ~(n <= k - 1)
      BY <1>1, <2>3
    <3> QED
      BY <1>3, <1>4, <2>1, <2>3, <3>1
  <2> QED
    BY <2>2, <2>3
<1>9. a \o b = w
  BY <1>4, <1>6, <1>7, <1>8, SeqEqual
<1> QED
  BY <1>4, <1>5, <1>9 DEF w, L

\* What the removal of the k-th cell does to the others: its neighbours point
\* past it.
Unlinked(ch, k) ==
  /\ cell' = [d \in Cell |-> cell'[d]]
  /\ cell'[ch[k]] = Null
  /\ \A n \in 1 .. Len(ch) : n # k =>
       /\ cell'[ch[n]] \in ListEntry
       /\ cell'[ch[n]].entry = cell[ch[n]].entry
       /\ cell'[ch[n]].next = IF n + 1 = k THEN cell[ch[k]].next ELSE cell[ch[n]].next
       /\ cell'[ch[n]].prev = IF n = k + 1 THEN cell[ch[k]].prev ELSE cell[ch[n]].prev
  /\ \A d \in Cell : (\A n \in 1 .. Len(ch) : d # ch[n]) => cell'[d] = Null
  /\ head' = IF k = 1 THEN cell[ch[k]].next ELSE head
  /\ tail' = IF k = Len(ch) THEN cell[ch[k]].prev ELSE tail

LEMMA UnlinkIs ==
  ASSUME NEW ch, Chained(ch), ~damaged, NEW k \in 1 .. Len(ch), Unlink(ch[k])
  PROVE  Unlinked(ch, k)
<1> DEFINE L == Len(ch)
           t == ch[k]
           before == cell[t].prev
           after == cell[t].next
<1>1. /\ ch \in Seq(Cell) /\ L \in Nat /\ k \in 1 .. L
      /\ \A n \in 1 .. L : ch[n] \in Cell /\ ch[n] # Null /\ cell[ch[n]] \in ListEntry
      /\ \A m, n \in 1 .. L : ch[m] = ch[n] => m = n
      /\ cell \in [Cell -> ListEntry \cup {Null}]
  BY NullAssumption DEF Chained
<1>2. /\ after = IF k = L THEN Null ELSE ch[k + 1]
      /\ before = IF k = 1 THEN Null ELSE ch[k - 1]
      /\ head = ch[1] /\ tail = ch[L] /\ size = L
  BY <1>1 DEF Chained
<1>3. (t = head <=> k = 1) /\ (t = tail <=> k = L) /\ 1 \in 1 .. L /\ L \in 1 .. L
  BY <1>1, <1>2
<1>4. /\ k # L => k + 1 \in 1 .. L /\ after = ch[k + 1]
      /\ k # 1 => k - 1 \in 1 .. L /\ before = ch[k - 1]
      /\ k = L => after = Null
      /\ k = 1 => before = Null
  BY <1>1, <1>2
<1>5. \A d \in Cell : (\A n \in 1 .. L : d # ch[n]) => cell[d] = Null
  BY DEF Chained
<1>6. \A n \in 1 .. L : ch[n] = t => n = k
  BY <1>1
<1>7. /\ k # L => after # t /\ after \in Cell /\ after # Null
      /\ k # 1 => before # t /\ before \in Cell /\ before # Null
      /\ k # L /\ k # 1 => after # before
  BY <1>1, <1>4
<1>8. \/ k = 1 /\ L = 1 /\ head' = Null /\ tail' = Null /\ cell' = [cell EXCEPT ![t] = Null]
      \/ /\ k = 1 /\ L # 1 /\ head' = after /\ tail' = tail
         /\ cell' = [cell EXCEPT ![after].prev = Null, ![t] = Null]
      \/ /\ k # 1 /\ k = L /\ tail' = before /\ head' = head
         /\ cell' = [cell EXCEPT ![before].next = Null, ![t] = Null]
      \/ /\ k # 1 /\ k # L /\ head' = head /\ tail' = tail
         /\ cell' = [cell EXCEPT ![before].next = after, ![after].prev = before, ![t] = Null]
  BY <1>2, <1>3 DEF Unlink
<1> HIDE DEF t, before, after, L
<1>9. /\ cell' = [d \in Cell |-> cell'[d]] /\ cell'[t] = Null
      /\ head' = IF k = 1 THEN after ELSE head
      /\ tail' = IF k = L THEN before ELSE tail
  <2>1. t \in Cell
    BY <1>1 DEF t
  <2>2. cell' = [d \in Cell |-> cell'[d]]
    BY <1>1, <1>8
  <2>3. cell'[t] = Null
    BY <1>1, <1>8, <2>1
  <2> QED
    BY <1>4, <1>8, <2>2, <2>3
<1>10. \A d \in Cell \ {t} :
         /\ (k # L /\ d = after) => cell'[d] = [cell[d] EXCEPT !.prev = before]
         /\ (k # 1 /\ d = before) => cell'[d] = [cell[d] EXCEPT !.next = after]
         /\ (k # L => d # after) /\ (k # 1 => d # before) => cell'[d] = cell[d]
  <2> SUFFICES ASSUME NEW d \in Cell \ {t}
               PROVE  /\ (k # L /\ d = after) => cell'[d] = [cell[d] EXCEPT !.prev = before]
                      /\ (k # 1 /\ d = before) => cell'[d] = [cell[d] EXCEPT !.next = after]
                      /\ (k # L => d # after) /\ (k # 1 => d # before) => cell'[d] = cell[d]
    OBVIOUS
  <2>1. CASE k = 1 /\ L = 1
    BY <1>1, <1>8, <2>1
  <2>2. CASE k = 1 /\ L # 1
    BY <1>1, <1>4, <1>7, <1>8, <2>2
  <2>3. CASE k # 1 /\ k = L
    BY <1>1, <1>4, <1>7, <1>8, <2>3
  <2>4. CASE k # 1 /\ k # L
    <3>1. /\ cell' = [cell EXCEPT ![before].next = after, ![after].prev = before, ![t] = Null]
          /\ before \in Cell /\ after \in Cell /\ after # before /\ DOMAIN cell = Cell
      BY <1>1, <1>7, <1>8, <2>4
    <3>2. CASE d = after
      BY <2>4, <3>1, <3>2
    <3>3. CASE d = before
      BY <2>4, <3>1, <3>3
    <3>4. CASE d # after /\ d # before
      BY <2>4, <3>1, <3>4
    <3> QED
      BY <3>2, <3>3, <3>4
  <2> QED
    BY <2>1, <2>2, <2>3, <2>4
<1>11. ASSUME NEW n \in 1 .. L, n # k
       PROVE  /\ cell'[ch[n]] \in ListEntry
              /\ cell'[ch[n]].entry = cell[ch[n]].entry
              /\ cell'[ch[n]].next = IF n + 1 = k THEN after ELSE cell[ch[n]].next
              /\ cell'[ch[n]].prev = IF n = k + 1 THEN before ELSE cell[ch[n]].prev
  <2>1. ch[n] \in Cell \ {t} /\ cell[ch[n]] \in ListEntry
    BY <1>1, <1>6, <1>11
  <2>2. /\ k # L => (ch[n] = after <=> n = k + 1)
        /\ k # 1 => (ch[n] = before <=> n + 1 = k)
    BY <1>1, <1>4
  <2>3. after \in Cell \cup {Null} /\ before \in Cell \cup {Null}
    BY <1>1, <1>4
  <2>4. CASE n = k + 1
    <3>1. k # L /\ ch[n] = after /\ n + 1 # k
      BY <1>1, <2>2, <2>4
    <3>2. cell'[ch[n]] = [cell[ch[n]] EXCEPT !.prev = before]
      BY <1>10, <2>1, <3>1
    <3> QED
      BY <2>1, <2>3, <2>4, <3>1, <3>2 DEF ListEntry
  <2>5. CASE n + 1 = k
    <3>1. k # 1 /\ ch[n] = before /\ n # k + 1
      BY <1>1, <2>2, <2>5
    <3>2. cell'[ch[n]] = [cell[ch[n]] EXCEPT !.next = after]
      BY <1>10, <2>1, <3>1
    <3> QED
      BY <2>1, <2>3, <2>5, <3>1, <3>2 DEF ListEntry
  <2>6. CASE n # k + 1 /\ n + 1 # k
    <3>1. cell'[ch[n]] = cell[ch[n]]
      BY <1>10, <2>1, <2>2, <2>6
    <3> QED
      BY <2>1, <2>6, <3>1
  <2> QED
    BY <2>4, <2>5, <2>6
<1>12. ASSUME NEW d \in Cell, \A n \in 1 .. L : d # ch[n]
       PROVE  cell'[d] = Null
  <2>1. d # t /\ (k # L => d # after) /\ (k # 1 => d # before)
    BY <1>1, <1>4, <1>12 DEF t
  <2> QED
    BY <1>5, <1>10, <1>12, <2>1
<1> QED
  BY <1>9, <1>11, <1>12 DEF Unlinked, t, after, before, L

\* A cell leaves the list, and the others stay as they were.
LEMMA UnlinkChained ==
  ASSUME NEW ch, Chained(ch), ~damaged, NEW k \in 1 .. Len(ch), Unlinked(ch, k),
         size' = size - 1, ptr' = Null, UNCHANGED damaged
  PROVE  /\ Chained(Without(ch, k))'
         /\ \A n \in 1 .. Len(ch) : n # k => cell'[ch[n]].entry = cell[ch[n]].entry
<1> DEFINE L == Len(ch)
           w == Without(ch, k)
<1>1. /\ ch \in Seq(Cell) /\ L \in Nat /\ k \in 1 .. L
      /\ \A n \in 1 .. L : ch[n] \in Cell /\ ch[n] # Null /\ cell[ch[n]] \in ListEntry
      /\ \A m, n \in 1 .. L : ch[m] = ch[n] => m = n
  BY NullAssumption DEF Chained
<1>2. \A n \in 1 .. L :
        /\ cell[ch[n]].next = IF n = L THEN Null ELSE ch[n + 1]
        /\ cell[ch[n]].prev = IF n = 1 THEN Null ELSE ch[n - 1]
  BY DEF Chained
<1>3. /\ w \in Seq(Cell) /\ Len(w) = L - 1
      /\ \A n \in 1 .. L - 1 : w[n] = IF n < k THEN ch[n] ELSE ch[n + 1]
  BY <1>1, RemoveAtIs DEF Without
<1> HIDE DEF w, L
<1>4. ASSUME NEW n \in 1 .. L - 1
      PROVE  \E o \in 1 .. L : /\ o # k /\ w[n] = ch[o]
                               /\ o = IF n < k THEN n ELSE n + 1
  <2>1. CASE n < k
    BY <1>1, <1>3, <2>1
  <2>2. CASE ~(n < k)
    <3>1. n + 1 \in 1 .. L /\ n + 1 # k
      BY <1>1, <2>2
    <3> QED
      BY <1>3, <2>2, <3>1
  <2> QED
    BY <2>1, <2>2
<1>5. ASSUME NEW m \in 1 .. L - 1, NEW n \in 1 .. L - 1, w[m] = w[n]
      PROVE  m = n
  <2>1. PICK o \in 1 .. L : o # k /\ w[m] = ch[o] /\ o = IF m < k THEN m ELSE m + 1
    BY <1>4
  <2>2. PICK p \in 1 .. L : p # k /\ w[n] = ch[p] /\ p = IF n < k THEN n ELSE n + 1
    BY <1>4
  <2>3. o = p
    BY <1>1, <1>5, <2>1, <2>2
  <2> QED
    BY <1>1, <2>1, <2>2, <2>3
<1>6. ASSUME NEW o \in 1 .. L, o # k
      PROVE  \E n \in 1 .. L - 1 : w[n] = ch[o]
  <2>1. CASE o < k
    <3>1. o \in 1 .. L - 1
      BY <1>1, <2>1
    <3> QED
      BY <1>3, <2>1, <3>1
  <2>2. CASE ~(o < k)
    <3>1. o - 1 \in 1 .. L - 1 /\ ~(o - 1 < k) /\ o - 1 + 1 = o
      BY <1>1, <1>6, <2>2
    <3> QED
      BY <1>3, <3>1
  <2> QED
    BY <2>1, <2>2
<1>7. ASSUME NEW n \in 1 .. L - 1
      PROVE  /\ cell'[w[n]] \in ListEntry
             /\ cell'[w[n]].next = IF n = L - 1 THEN Null ELSE w[n + 1]
             /\ cell'[w[n]].prev = IF n = 1 THEN Null ELSE w[n - 1]
  <2>1. PICK o \in 1 .. L : o # k /\ w[n] = ch[o] /\ o = IF n < k THEN n ELSE n + 1
    BY <1>4
  <2>2. /\ cell'[ch[o]] \in ListEntry
        /\ cell'[ch[o]].next = IF o + 1 = k THEN cell[ch[k]].next ELSE cell[ch[o]].next
        /\ cell'[ch[o]].prev = IF o = k + 1 THEN cell[ch[k]].prev ELSE cell[ch[o]].prev
    BY <2>1 DEF Unlinked, L
  <2> DEFINE nx == cell[ch[o]].next
             pv == cell[ch[o]].prev
             kn == cell[ch[k]].next
             kp == cell[ch[k]].prev
  <2>3. /\ nx = IF o = L THEN Null ELSE ch[o + 1]
        /\ pv = IF o = 1 THEN Null ELSE ch[o - 1]
        /\ kn = IF k = L THEN Null ELSE ch[k + 1]
        /\ kp = IF k = 1 THEN Null ELSE ch[k - 1]
    BY <1>1, <1>2
  <2>4. /\ cell'[ch[o]].next = IF o + 1 = k THEN kn ELSE nx
        /\ cell'[ch[o]].prev = IF o = k + 1 THEN kp ELSE pv
    BY <2>2
  <2> HIDE DEF nx, pv, kn, kp
  <2>5. cell'[ch[o]].next = IF n = L - 1 THEN Null ELSE w[n + 1]
    <3>1. CASE n = L - 1
      <4>1. (o + 1 = k /\ k = L) \/ (o + 1 # k /\ o = L)
        BY <1>1, <2>1, <3>1
      <4> QED
        BY <2>3, <2>4, <3>1, <4>1
    <3>2. CASE n # L - 1
      <4>1. n + 1 \in 1 .. L - 1
        BY <1>1, <3>2
      <4>2. w[n + 1] = IF n + 1 < k THEN ch[n + 1] ELSE ch[n + 1 + 1]
        BY <1>3, <4>1
      <4>3. CASE n + 1 = k
        <5>1. o = n /\ o + 1 = k /\ k # L /\ w[n + 1] = ch[k + 1]
          BY <1>1, <2>1, <3>2, <4>2, <4>3
        <5> QED
          BY <2>3, <2>4, <3>2, <5>1
      <4>4. CASE n + 1 # k
        <5>1. o + 1 # k /\ o # L /\ w[n + 1] = ch[o + 1]
          BY <1>1, <2>1, <3>2, <4>1, <4>2, <4>4
        <5> QED
          BY <2>3, <2>4, <3>2, <5>1
      <4> QED
        BY <4>3, <4>4
    <3> QED
      BY <3>1, <3>2
  <2>6. cell'[ch[o]].prev = IF n = 1 THEN Null ELSE w[n - 1]
    <3>1. CASE n = 1
      <4>1. (o = k + 1 /\ k = 1) \/ (o # k + 1 /\ o = 1)
        BY <1>1, <2>1, <3>1
      <4> QED
        BY <2>3, <2>4, <3>1, <4>1
    <3>2. CASE n # 1
      <4>1. n - 1 \in 1 .. L - 1
        BY <1>1, <3>2
      <4>2. w[n - 1] = IF n - 1 < k THEN ch[n - 1] ELSE ch[n - 1 + 1]
        BY <1>3, <4>1
      <4>3. CASE n = k
        <5>1. o = k + 1 /\ k # 1 /\ w[n - 1] = ch[k - 1]
          BY <1>1, <2>1, <3>2, <4>2, <4>3
        <5> QED
          BY <2>3, <2>4, <3>2, <5>1
      <4>4. CASE n # k
        <5>1. o # k + 1 /\ o # 1 /\ w[n - 1] = ch[o - 1]
          BY <1>1, <2>1, <3>2, <4>1, <4>2, <4>4
        <5> QED
          BY <2>3, <2>4, <3>2, <5>1
      <4> QED
        BY <4>3, <4>4
    <3> QED
      BY <3>1, <3>2
  <2> QED
    BY <2>1, <2>2, <2>5, <2>6
<1>8. ASSUME NEW d \in Cell, cell'[d] # Null
      PROVE  \E n \in 1 .. L - 1 : d = w[n]
  <2>1. PICK o \in 1 .. L : d = ch[o]
    BY <1>8 DEF Unlinked, L
  <2>2. o # k
    BY <1>8, <2>1 DEF Unlinked
  <2> QED
    BY <1>6, <2>1, <2>2
<1>9. cell' \in [Cell -> ListEntry \cup {Null}]
  <2>1. ASSUME NEW d \in Cell
        PROVE  cell'[d] \in ListEntry \cup {Null}
    <3>1. CASE cell'[d] = Null
      BY <3>1
    <3>2. CASE cell'[d] # Null
      BY <1>7, <1>8, <3>2
    <3> QED
      BY <3>1, <3>2
  <2>2. cell' = [d \in Cell |-> cell'[d]]
    BY DEF Unlinked
  <2> QED
    BY <2>1, <2>2
<1>10. head' = IF L - 1 = 0 THEN Null ELSE w[1]
  <2>1. head = ch[1] /\ head' = IF k = 1 THEN cell[ch[k]].next ELSE head
    BY <1>1 DEF Chained, Unlinked, L
  <2>2. CASE L - 1 = 0
    <3>1. k = 1 /\ k = L
      BY <1>1, <2>2
    <3> QED
      BY <1>2, <2>1, <2>2, <3>1
  <2>3. CASE L - 1 # 0
    <3>1. 1 \in 1 .. L - 1
      BY <1>1, <2>3
    <3>2. w[1] = IF 1 < k THEN ch[1] ELSE ch[1 + 1]
      BY <1>3, <3>1
    <3>3. k = 1 => k # L /\ cell[ch[k]].next = ch[1 + 1]
      BY <1>1, <1>2, <2>3
    <3>4. 1 < k <=> k # 1
      BY <1>1
    <3> QED
      BY <2>1, <2>3, <3>2, <3>3, <3>4
  <2> QED
    BY <2>2, <2>3
<1>11. tail' = IF L - 1 = 0 THEN Null ELSE w[L - 1]
  <2>1. tail = ch[L] /\ tail' = IF k = L THEN cell[ch[k]].prev ELSE tail
    BY <1>1 DEF Chained, Unlinked, L
  <2>2. CASE L - 1 = 0
    <3>1. k = 1 /\ k = L
      BY <1>1, <2>2
    <3> QED
      BY <1>2, <2>1, <2>2, <3>1
  <2>3. CASE L - 1 # 0
    <3>1. L - 1 \in 1 .. L - 1 /\ L - 1 + 1 = L
      BY <1>1, <2>3
    <3>2. w[L - 1] = IF L - 1 < k THEN ch[L - 1] ELSE ch[L]
      BY <1>3, <3>1
    <3>3. k = L => k # 1 /\ cell[ch[k]].prev = ch[L - 1]
      BY <1>1, <1>2, <2>3
    <3>4. L - 1 < k <=> k = L
      BY <1>1
    <3> QED
      BY <2>1, <2>3, <3>2, <3>3, <3>4
  <2> QED
    BY <2>2, <2>3
<1>12. size' = L - 1 /\ damaged' = damaged /\ damaged \in BOOLEAN /\ ptr' = Null
  BY DEF Chained, L
<1>13. Chained(w)'
  BY <1>3, <1>5, <1>7, <1>8, <1>9, <1>10, <1>11, <1>12 DEF Chained
<1>14. \A n \in 1 .. Len(ch) : n # k => cell'[ch[n]].entry = cell[ch[n]].entry
  BY DEF Unlinked
<1> QED
  BY <1>13, <1>14 DEF w

\* A removal takes out a cell with the entry, or the entry is not listed.
LEMMA RemoveChained ==
  ASSUME NEW ch, Chained(ch), ~damaged, NEW e, LinkedList_Remove(e)
  PROVE  \/ UNCHANGED list /\ \A n \in 1 .. Len(ch) : cell[ch[n]].entry # e
         \/ /\ ptr' = Null
            /\ \E k \in 1 .. Len(ch) :
                 /\ cell[ch[k]].entry = e /\ Chained(Without(ch, k))'
                 /\ \A n \in 1 .. Len(ch) : n # k => cell'[ch[n]].entry = cell[ch[n]].entry
<1>1. Chain = ch /\ ch \in Seq(Cell) /\ Len(ch) \in Nat /\ DOMAIN ch = 1 .. Len(ch)
  BY ChainIs DEF Chained
<1>2. Len(Items) = Len(ch) /\ \A n \in 1 .. Len(ch) : Items[n] = cell[ch[n]].entry
  BY ItemsAre
<1>3. CASE Target(e) = {} /\ UNCHANGED list
  <2>1. ~(ptr # Null /\ cell[ptr].entry = e)
    BY <1>3 DEF Target
  <2> DEFINE I == {m \in DOMAIN Chain : Items[m] = e}
  <2>2. \A m \in I : \E l \in I : l < m
    <3> SUFFICES ASSUME NEW m \in I, \A l \in I : ~(l < m)
                 PROVE  Chain[m] \in Target(e)
      BY <1>3
    <3>1. \A l \in 1 .. (m - 1) : Items[l] # e
      BY <1>1
    <3> QED
      BY <2>1, <3>1 DEF Target
  <2>3. I \in SUBSET Nat
    BY <1>1
  <2>4. I = {}
    <3> HIDE DEF I
    <3> SUFFICES ASSUME I # {} PROVE FALSE
      OBVIOUS
    <3>1. PICK x \in I : \A y \in I : x <= y
      BY <2>3, LeastNat
    <3>2. PICK l \in I : l < x
      BY <2>2
    <3>3. l \in Nat /\ x \in Nat /\ x <= l
      BY <2>3, <3>1
    <3> QED
      BY <3>2, <3>3
  <2>5. \A n \in 1 .. Len(ch) : cell[ch[n]].entry # e
    BY <1>1, <1>2, <2>4
  <2> QED
    BY <1>3, <2>5
<1>4. ASSUME NEW t \in Target(e), Unlink(t), size' = size - 1, ptr' = Null, UNCHANGED damaged
      PROVE  \E k \in 1 .. Len(ch) :
               /\ cell[ch[k]].entry = e /\ Chained(Without(ch, k))'
               /\ \A n \in 1 .. Len(ch) : n # k => cell'[ch[n]].entry = cell[ch[n]].entry
  <2>1. PICK k \in 1 .. Len(ch) : t = ch[k] /\ cell[ch[k]].entry = e
    <3>1. CASE ptr # Null /\ cell[ptr].entry = e
      <4>1. t = ptr
        BY <1>4, <3>1 DEF Target
      <4> QED
        BY <3>1, <4>1 DEF Chained
    <3>2. CASE ~(ptr # Null /\ cell[ptr].entry = e)
      <4>1. PICK m \in DOMAIN Chain : t = Chain[m] /\ Items[m] = e
        BY <1>4, <3>2 DEF Target
      <4> QED
        BY <1>1, <1>2, <4>1
    <3> QED
      BY <3>1, <3>2
  <2>2. Unlinked(ch, k)
    BY <1>4, <2>1, UnlinkIs
  <2> QED
    BY <1>4, <2>1, <2>2, UnlinkChained
<1> QED
  BY <1>3, <1>4 DEF LinkedList_Remove

-----------------------------------------------------------------------------
(* The list as its users see it *)

ListInv == Chained(Chain)

LEMMA PosIs ==
  \A ch : Chained(ch) =>
    (ptr = Null => Pos = 0) /\ \A n \in 1 .. Len(ch) : ptr = ch[n] => Pos = n
<1> SUFFICES ASSUME NEW ch, Chained(ch), NEW n \in 1 .. Len(ch), ptr = ch[n]
             PROVE  Pos = n
  BY DEF Pos
<1> DEFINE I == {i \in 1 .. Len(Chain) : Chain[i] = ptr}
<1>1. Chain = ch /\ n \in Nat /\ ptr # Null /\ ch[n] = ptr
  BY ChainIs, NullAssumption DEF Chained
<1>2. I = {n}
  BY <1>1 DEF Chained
<1>3. Pos = IF I # {} THEN CHOOSE x \in I : \A y \in I : x <= y ELSE 0
  BY <1>1 DEF Pos, SelectInSeq, Min
<1> HIDE DEF I
<1>4. (CHOOSE x \in I : \A y \in I : x <= y) \in I
  BY <1>1, <1>2
<1> QED
  BY <1>2, <1>3, <1>4

LEMMA PosIsNext ==
  (\A ch : Chained(ch) =>
    (ptr = Null => Pos = 0) /\ \A n \in 1 .. Len(ch) : ptr = ch[n] => Pos = n)'
  BY PosIs, PTL

\* The cursor stays where it is when the list in front of it does.
LEMMA PosSame ==
  ASSUME NEW ch, Chained(ch), NEW new, Chained(new)', ptr' = ptr, Len(ch) <= Len(new),
         \A n \in 1 .. Len(ch) : new[n] = ch[n]
  PROVE  Pos' = Pos
<1>1. CASE ptr = Null
  <2>1. Pos = 0
    BY <1>1, PosIs
  <2>2. Pos' = 0
    BY <1>1, PosIsNext
  <2> QED
    BY <2>1, <2>2
<1>2. CASE ptr # Null
  <2>1. PICK n \in 1 .. Len(ch) : ptr = ch[n]
    BY <1>2 DEF Chained
  <2>2. Len(ch) \in Nat /\ Len(new) \in Nat
    <3>1. Len(ch) \in Nat
      BY DEF Chained
    <3>2. new \in Seq(Cell)
      BY DEF Chained
    <3> QED
      BY <3>1, <3>2
  <2>3. n \in 1 .. Len(new) /\ ptr' = new[n]
    BY <2>1, <2>2
  <2>4. Pos = n
    BY <2>1, PosIs
  <2>5. Pos' = n
    BY <2>3, PosIsNext
  <2> QED
    BY <2>4, <2>5
<1> QED
  BY <1>1, <1>2

LEMMA ListFacts ==
  ASSUME ListInv
  PROVE  /\ Items \in Seq(Entry) /\ Len(Items) = size /\ size \in Nat
         /\ DOMAIN Items = 1 .. size
         /\ Pos \in 0 .. size /\ (ptr = Null <=> Pos = 0)
<1>1. PICK ch : ch = Chain
  OBVIOUS
<1>2. Chained(ch)
  BY <1>1 DEF ListInv
<1>3. Items \in Seq(Entry) /\ Len(Items) = size /\ size \in Nat
  BY <1>2, ItemsAre DEF Chained
<1>4. Pos \in 0 .. size /\ (ptr = Null <=> Pos = 0)
  <2>1. CASE ptr = Null
    BY <1>2, <1>3, <2>1, PosIs
  <2>2. CASE ptr # Null
    <3>1. PICK n \in 1 .. Len(ch) : ptr = ch[n]
      BY <1>2, <2>2 DEF Chained
    <3>2. Pos = n
      BY <1>2, <3>1, PosIs
    <3>3. n # 0 /\ Len(ch) = size
      BY <1>2, <3>1 DEF Chained
    <3> QED
      BY <1>3, <2>2, <3>1, <3>2, <3>3
  <2> QED
    BY <2>1, <2>2
<1> QED
  BY <1>3, <1>4

\* A list that is not touched.
LEMMA ListSame ==
  ASSUME ListInv, UNCHANGED list
  PROVE  ListInv' /\ Items' = Items /\ Pos' = Pos
<1>1. cell' = cell /\ head' = head /\ tail' = tail /\ ptr' = ptr /\ size' = size
      /\ damaged' = damaged
  BY DEF list
<1>2. Nth' = Nth
  BY <1>1 DEF Nth
<1>3. Chain' = Chain
  BY <1>2 DEF Chain
<1>4. PICK ch : ch = Chain
  OBVIOUS
<1>5. Chained(ch)
  BY <1>4 DEF ListInv
<1>6. Chained(ch)'
  BY <1>1, <1>5 DEF Chained
<1>7. Chain' = ch
  BY <1>3, <1>4
<1>8. ListInv'
  BY <1>6, <1>7 DEF ListInv
<1>9. Items' = Items
  BY <1>1, <1>3 DEF Items
<1>10. Pos' = Pos
  <2>1. Len(ch) \in Nat
    BY <1>5 DEF Chained
  <2> QED
    BY <1>1, <1>5, <1>6, <2>1, PosSame
<1> QED
  BY <1>8, <1>9, <1>10

LEMMA ListStart ==
  ASSUME LinkedList_New
  PROVE  ListInv /\ Items = <<>> /\ Pos = 0
<1>1. Chained(<<>>) /\ Chain = <<>>
  BY NewChained, ChainIs
<1>2. Items \in Seq(Entry) /\ Len(Items) = 0
  BY <1>1, ItemsAre
<1>3. Items = <<>>
  BY <1>2
<1>4. Pos = 0
  BY DEF Pos, LinkedList_New
<1> QED
  BY <1>1, <1>3, <1>4 DEF ListInv

\* LinkedList_Add appends.
LEMMA ListAdd ==
  ASSUME ListInv, ~damaged, NEW e \in Entry, LinkedList_Add(e)
  PROVE  ListInv' /\ Items' = Append(Items, e) /\ size' = size + 1 /\ ptr' = ptr /\ Pos' = Pos
<1>1. PICK ch : ch = Chain
  OBVIOUS
<1>2. Chained(ch)
  BY <1>1 DEF ListInv
<1>3. PICK c \in Cell :
        /\ Chained(Append(ch, c))' /\ cell'[c].entry = e
        /\ \A n \in 1 .. Len(ch) : cell'[ch[n]].entry = cell[ch[n]].entry
  BY <1>2, AddChained
<1>4. PICK new : new = Append(ch, c)
  OBVIOUS
<1>5. /\ ch \in Seq(Cell) /\ Len(ch) \in Nat /\ Len(new) = Len(ch) + 1
      /\ new[Len(ch) + 1] = c /\ \A n \in 1 .. Len(ch) : new[n] = ch[n]
  BY <1>2, <1>4 DEF Chained
<1>6. Chained(new)' /\ ListInv'
  BY <1>3, <1>4, ChainIsNext DEF ListInv
<1>7. /\ Items' \in Seq(Entry) /\ Len(Items') = Len(ch) + 1
      /\ \A n \in 1 .. Len(ch) + 1 : Items'[n] = cell'[new[n]].entry
  BY <1>5, <1>6, ItemsAreNext
<1>8. /\ Items \in Seq(Entry) /\ Len(Items) = Len(ch)
      /\ \A n \in 1 .. Len(ch) : Items[n] = cell[ch[n]].entry
  BY <1>2, ItemsAre
<1>9. Items' = Append(Items, e)
  <2>0. PICK it \in Seq(Entry) : it = Items
    BY <1>8
  <2>1. PICK u \in Seq(Entry) : u = Append(it, e)
    BY AppendProperties
  <2>2. /\ Len(u) = Len(ch) + 1 /\ u[Len(ch) + 1] = e
        /\ \A n \in 1 .. Len(ch) : u[n] = Items[n]
    BY <1>5, <1>8, <2>0, <2>1
  <2>3. ASSUME NEW n \in 1 .. Len(ch) + 1
        PROVE  Items'[n] = u[n]
    <3>1. CASE n = Len(ch) + 1
      BY <1>3, <1>5, <1>7, <2>2, <3>1
    <3>2. CASE n # Len(ch) + 1
      <4>1. n \in 1 .. Len(ch)
        BY <1>5, <3>2
      <4> QED
        <5>1. n \in 1 .. Len(ch) + 1
          OBVIOUS
        <5>2. Items'[n] = cell'[ch[n]].entry
          BY <1>5, <1>7, <4>1, <5>1
        <5>3. u[n] = cell[ch[n]].entry
          BY <1>8, <2>2, <4>1
        <5> QED
          BY <1>3, <4>1, <5>2, <5>3
    <3> QED
      BY <3>1, <3>2
  <2>4. Items' = u
    BY <1>7, <2>2, <2>3, SeqEqual
  <2> QED
    BY <2>0, <2>1, <2>4
<1>10. size' = size + 1 /\ ptr' = ptr
  BY DEF LinkedList_Add
<1>11. Pos' = Pos
  BY <1>2, <1>5, <1>6, <1>10, PosSame
<1> QED
  BY <1>6, <1>9, <1>10, <1>11

LEMMA ListAddFails ==
  ASSUME ListInv, LinkedList_AddFails
  PROVE  /\ ListInv' /\ Items' = Items /\ size' = size /\ ptr' = ptr /\ Pos' = Pos
         /\ damaged' = (size # 0)
<1>1. PICK ch : ch = Chain
  OBVIOUS
<1>2. Chained(ch) /\ size = Len(ch)
  BY <1>1 DEF ListInv, Chained
<1>3. /\ Chained(ch)' /\ cell' = cell /\ damaged' = (Len(ch) # 0)
      /\ UNCHANGED <<head, ptr, size>>
  BY <1>2, AddFailsChained DEF LinkedList_AddFails
<1>4. Chain' = ch
  BY <1>3, ChainIsNext
<1>5. ListInv'
  BY <1>3, <1>4 DEF ListInv
<1>6. Items' = Items
  BY <1>1, <1>3, <1>4 DEF Items
<1>7. Pos' = Pos
  <2>1. Len(ch) \in Nat
    BY <1>2 DEF Chained
  <2> QED
    BY <1>2, <1>3, <2>1, PosSame
<1> QED
  BY <1>2, <1>3, <1>5, <1>6, <1>7

\* LinkedList_Next goes to the next entry, or before the first.
LEMMA ListNext ==
  ASSUME ListInv, LinkedList_Next
  PROVE  /\ ListInv' /\ Items' = Items /\ size' = size
         /\ Following = Null <=> Pos = size
         /\ Following # Null => cell[Following].entry = Items[Pos + 1]
         /\ Pos' = IF Pos = size THEN 0 ELSE Pos + 1
<1>1. PICK ch : ch = Chain
  OBVIOUS
<1>2. /\ Chained(ch) /\ size = Len(ch) /\ ch \in Seq(Cell) /\ Len(ch) \in Nat
      /\ \A n \in 1 .. Len(ch) : ch[n] # Null
  BY <1>1, NullAssumption DEF ListInv, Chained
<1>3. /\ Chained(ch)' /\ ptr' = Following /\ UNCHANGED <<cell, head, tail, size, damaged>>
      /\ ptr = Null => ptr' = IF Len(ch) = 0 THEN Null ELSE ch[1]
      /\ \A n \in 1 .. Len(ch) : ptr = ch[n] => ptr' = IF n = Len(ch) THEN Null ELSE ch[n + 1]
  BY <1>2, NextChained DEF LinkedList_Next
<1>4. Chain' = ch /\ ListInv'
  BY <1>3, ChainIsNext DEF ListInv
<1>5. Items' = Items
  BY <1>1, <1>3, <1>4 DEF Items
<1>6. \A n \in 1 .. Len(ch) : Items[n] = cell[ch[n]].entry
  BY <1>2, ItemsAre
<1>7. /\ Pos \in 0 .. size
      /\ ptr' = IF Pos = size THEN Null ELSE ch[Pos + 1]
  <2>1. CASE ptr = Null
    <3>1. Pos = 0
      BY <1>2, <2>1, PosIs
    <3> QED
      BY <1>2, <1>3, <2>1, <3>1
  <2>2. CASE ptr # Null
    <3>1. PICK n \in 1 .. Len(ch) : ptr = ch[n]
      BY <1>2, <2>2 DEF Chained
    <3>2. Pos = n
      BY <1>2, <3>1, PosIs
    <3> QED
      BY <1>2, <1>3, <3>1, <3>2
  <2> QED
    BY <2>1, <2>2
<1>8. CASE Pos = size
  <2>1. Pos' = 0
    BY <1>3, <1>7, <1>8, PosIsNext
  <2> QED
    BY <1>3, <1>4, <1>5, <1>7, <1>8, <2>1
<1>9. CASE Pos # size
  <2>1. Pos + 1 \in 1 .. Len(ch)
    BY <1>2, <1>7, <1>9
  <2>2. PICK n \in 1 .. Len(ch) : n = Pos + 1
    BY <2>1
  <2>3. ptr' = ch[n]
    BY <1>7, <1>9, <2>2
  <2>4. Pos' = n
    BY <1>3, <2>3, PosIsNext
  <2> QED
    BY <1>2, <1>3, <1>4, <1>5, <1>6, <1>9, <2>2, <2>3, <2>4
<1> QED
  BY <1>8, <1>9

\* LinkedList_Remove takes out a place that holds the entry, if there is one.
LEMMA ListRemove ==
  ASSUME ListInv, ~damaged, NEW e, LinkedList_Remove(e)
  PROVE  \/ UNCHANGED list /\ \A n \in DOMAIN Items : Items[n] # e
         \/ /\ ListInv' /\ size' = size - 1 /\ ptr' = Null /\ Pos' = 0
            /\ \E k \in DOMAIN Items : Items[k] = e /\ Items' = RemoveAt(Items, k)
<1>1. PICK ch : ch = Chain
  OBVIOUS
<1>2. Chained(ch) /\ size = Len(ch) /\ ch \in Seq(Cell) /\ Len(ch) \in Nat
  BY <1>1 DEF ListInv, Chained
<1>3. /\ Items \in Seq(Entry) /\ Len(Items) = Len(ch) /\ DOMAIN Items = 1 .. Len(ch)
      /\ \A n \in 1 .. Len(ch) : Items[n] = cell[ch[n]].entry
  BY <1>2, ItemsAre
<1>4. CASE UNCHANGED list /\ \A n \in 1 .. Len(ch) : cell[ch[n]].entry # e
  BY <1>3, <1>4
<1>5. ASSUME ptr' = Null,
             NEW k \in 1 .. Len(ch), cell[ch[k]].entry = e, Chained(Without(ch, k))',
             \A n \in 1 .. Len(ch) : n # k => cell'[ch[n]].entry = cell[ch[n]].entry
      PROVE  /\ ListInv' /\ size' = size - 1 /\ ptr' = Null /\ Pos' = 0
             /\ k \in DOMAIN Items /\ Items[k] = e /\ Items' = RemoveAt(Items, k)
  <2>1. PICK w : w = Without(ch, k)
    OBVIOUS
  <2>2. /\ Chained(w)' /\ Len(w) = Len(ch) - 1
        /\ \A n \in 1 .. Len(ch) - 1 : w[n] = IF n < k THEN ch[n] ELSE ch[n + 1]
    BY <1>2, <1>5, <2>1, RemoveAtIs DEF Without
  <2>3. ListInv' /\ size' = size - 1 /\ Pos' = 0
    <3>1. Chain' = w
      BY <2>2, ChainIsNext
    <3>2. ListInv'
      BY <2>2, <3>1 DEF ListInv
    <3>3. size' = Len(w)
      BY <2>2 DEF Chained
    <3>4. Pos' = 0
      BY <1>5, <2>2, PosIsNext
    <3> QED
      BY <1>2, <2>2, <3>2, <3>3, <3>4
  <2>4. /\ Items' \in Seq(Entry) /\ Len(Items') = Len(ch) - 1
        /\ \A n \in 1 .. Len(ch) - 1 : Items'[n] = cell'[w[n]].entry
    BY <2>2, ItemsAreNext
  <2>5. PICK v \in Seq(Entry) :
          /\ v = RemoveAt(Items, k) /\ Len(v) = Len(ch) - 1
          /\ \A n \in 1 .. Len(ch) - 1 : v[n] = IF n < k THEN Items[n] ELSE Items[n + 1]
    <3>1. /\ RemoveAt(Items, k) = Without(Items, k) /\ Without(Items, k) \in Seq(Entry)
          /\ Len(Without(Items, k)) = Len(ch) - 1
      BY <1>3, RemoveAtIs
    <3> QED
      BY <1>3, <3>1 DEF Without
  <2>6. ASSUME NEW n \in 1 .. Len(ch) - 1
        PROVE  Items'[n] = v[n]
    <3>1. CASE n < k
      <4>1. n \in 1 .. Len(ch) /\ n # k
        BY <1>2, <3>1
      <4>2. Items'[n] = cell'[ch[n]].entry
        BY <2>2, <2>4, <3>1
      <4>3. v[n] = cell[ch[n]].entry
        BY <1>3, <2>5, <3>1, <4>1
      <4> QED
        BY <1>5, <4>1, <4>2, <4>3
    <3>2. CASE ~(n < k)
      <4>1. PICK m \in 1 .. Len(ch) : m = n + 1 /\ m # k
        BY <1>2, <3>2
      <4> QED
        <5>1. Items'[n] = cell'[ch[m]].entry
          BY <2>2, <2>4, <3>2, <4>1
        <5>2. v[n] = cell[ch[m]].entry
          BY <1>3, <2>5, <3>2, <4>1
        <5> QED
          BY <1>5, <4>1, <5>1, <5>2
    <3> QED
      BY <3>1, <3>2
  <2>7. Items' = v
    BY <2>4, <2>5, <2>6, SeqEqual
  <2> QED
    BY <1>3, <1>5, <2>3, <2>5, <2>7
<1> QED
  BY <1>2, <1>4, <1>5, RemoveChained

LEMMA ListFactsNow ==
  ListInv => /\ Items \in Seq(Entry) /\ Len(Items) = size /\ size \in Nat
             /\ DOMAIN Items = 1 .. size
             /\ Pos \in 0 .. size /\ (ptr = Null <=> Pos = 0)
  BY ListFacts

LEMMA ListFactsNext ==
  (ListInv => /\ Items \in Seq(Entry) /\ Len(Items) = size /\ size \in Nat
              /\ DOMAIN Items = 1 .. size
              /\ Pos \in 0 .. size /\ (ptr = Null <=> Pos = 0))'
  BY ListFactsNow, PTL

-----------------------------------------------------------------------------
(* The invariant of the pool *)

Types ==
  /\ conn \in [Conn -> Connection \cup {Null}]
  /\ open \subseteq Fd
  /\ epoll \in [Fd -> Registration \cup {Null}]
  /\ nextThread \in Worker
  /\ pc \in {"idle", "scan", "free", "create", "refuse"}
  /\ newsock \in Fd \cup {Null}
  /\ tobeClosed \in Seq(Conn)
  /\ closing \in [Worker -> Conn \cup {Null}]
  /\ raced \in BOOLEAN
  /\ damaged \in BOOLEAN

\* The list holds allocated connections, each of them once.
Listed ==
  /\ size <= MaxConnections
  /\ \A n \in 1 .. size : conn[Items[n]] # Null
  /\ \A m, n \in 1 .. size : Items[m] = Items[n] => m = n

\* What is registered is open, allocated and listed, and is CLOSED only while
\* its worker is closing it.
Alive ==
  ~raced => \A f \in Fd : epoll[f] # Null =>
    /\ f \in open /\ f # newsock
    /\ conn[epoll[f].conn] # Null /\ conn[epoll[f].conn].sock = f
    /\ \E n \in 1 .. size : Items[n] = epoll[f].conn
    /\ conn[epoll[f].conn].state = "CLOSED" => closing[epoll[f].worker] = epoll[f].conn

\* A worker closes a connection that is still registered with it.
Closers ==
  ~raced => \A w \in Worker : closing[w] # Null =>
    \E f \in Fd : /\ epoll[f] = [worker |-> w, conn |-> closing[w]]
                  /\ conn[closing[w]].state = "CLOSED"

\* Where the main thread is, and what it has accepted.
Accepted ==
  /\ pc = "idle" <=> newsock = Null
  /\ newsock # Null => newsock \in open
  /\ pc # "scan" => ptr = Null
  /\ pc = "create" => ~Full

\* What the scan has found is CLOSED, listed behind the cursor, and found once.
Found ==
  /\ pc \in {"scan", "free"} \/ tobeClosed = <<>>
  /\ \A i, j \in 1 .. Len(tobeClosed) : tobeClosed[i] = tobeClosed[j] => i = j
  /\ \A i \in 1 .. Len(tobeClosed) :
       /\ conn[tobeClosed[i]].state = "CLOSED"
       /\ \E m \in 1 .. size : Items[m] = tobeClosed[i] /\ (pc = "scan" => m <= Pos)

\* What was CLOSED when the clean-up began is found, and makes room.
Cleaned ==
  /\ pc = "scan" => \A c \in wasClosed :
       /\ conn[c].state = "CLOSED"
       /\ \E m \in 1 .. size :
            Items[m] = c /\ (m <= Pos => \E i \in 1 .. Len(tobeClosed) : tobeClosed[i] = c)
  /\ pc = "free" => wasClosed = {} \/ tobeClosed # <<>> \/ ~Full
  /\ pc = "refuse" => wasClosed = {}

PoolInv ==
  Types /\ ListInv /\ Listed /\ Alive /\ Closers /\ Accepted /\ Found /\ Cleaned

LEMMA PoolStart == Init => PoolInv
<1> SUFFICES ASSUME Init
             PROVE  PoolInv
  OBVIOUS
<1>1. ListInv /\ Items = <<>> /\ Pos = 0 /\ size = 0
  BY ListStart DEF Init, LinkedList_New
<1>2. Types
  <2>1. nextThread \in Worker
    BY PoolAssumption DEF Init, Worker
  <2>2. conn \in [Conn -> Connection \cup {Null}] /\ epoll \in [Fd -> Registration \cup {Null}]
    BY DEF Init
  <2>3. tobeClosed \in Seq(Conn) /\ closing \in [Worker -> Conn \cup {Null}]
    BY DEF Init
  <2> QED
    BY <2>1, <2>2, <2>3 DEF Init, Types, LinkedList_New
<1>3. Listed
  BY <1>1, PoolAssumption DEF Listed
<1>4. Alive /\ Closers
  BY DEF Init, Alive, Closers
<1>5. Accepted
  BY DEF Init, Accepted, LinkedList_New
<1>6. Found /\ Cleaned
  BY DEF Init, Found, Cleaned
<1> QED
  BY <1>1, <1>2, <1>3, <1>4, <1>5, <1>6 DEF PoolInv

\* A step that leaves the main thread and the list alone, frees nothing and
\* reopens nothing.
LEMMA MainSame ==
  ASSUME PoolInv, UNCHANGED <<list, main>>,
         \A c \in Conn : conn[c] # Null => conn'[c] # Null,
         \A c \in Conn : conn[c].state = "CLOSED" => conn'[c].state = "CLOSED",
         newsock # Null => newsock \in open'
  PROVE  ListInv' /\ Listed' /\ Accepted' /\ Found' /\ Cleaned'
<1>1. /\ ListInv' /\ Items' = Items /\ Pos' = Pos /\ size' = size /\ ptr' = ptr
      /\ pc' = pc /\ newsock' = newsock /\ tobeClosed' = tobeClosed /\ wasClosed' = wasClosed
  BY ListSame DEF PoolInv, list, main
<1>2. /\ \A n \in 1 .. size : Items[n] \in Conn
      /\ \A i \in 1 .. Len(tobeClosed) : tobeClosed[i] \in Conn
  <2>1. /\ Items \in Seq(Entry) /\ Len(Items) = size
        /\ tobeClosed \in Seq(Conn)
    BY ListFacts DEF PoolInv, Types
  <2> QED
    BY <2>1 DEF Conn
<1>3. Listed'
  BY <1>1, <1>2 DEF PoolInv, Listed
<1>4. Accepted'
  BY <1>1 DEF PoolInv, Accepted, Full
<1>5. Found'
  BY <1>1, <1>2 DEF PoolInv, Found
<1>6. Cleaned'
  <2>1. Full' = Full
    BY <1>1 DEF Full
  <2>2. ASSUME pc = "scan", NEW c \in wasClosed
        PROVE  conn'[c].state = "CLOSED"
    <3>1. PICK m \in 1 .. size : Items[m] = c
      BY <2>2 DEF PoolInv, Cleaned
    <3> QED
      BY <1>2, <2>2, <3>1 DEF PoolInv, Cleaned
  <2> QED
    BY <1>1, <2>1, <2>2 DEF PoolInv, Cleaned
<1> QED
  BY <1>1, <1>3, <1>4, <1>5, <1>6

-----------------------------------------------------------------------------
(* The workers *)

LEMMA MarkClosedStep ==
  ASSUME PoolInv, ~raced, NEW w \in Worker, MarkClosed(w)
  PROVE  PoolInv'
<1>1. PICK f \in open :
        /\ epoll[f] # Null /\ epoll[f].worker = w
        /\ closing' = [closing EXCEPT ![w] = epoll[f].conn]
        /\ conn' = [conn EXCEPT ![epoll[f].conn].state = "CLOSED"]
  BY DEF MarkClosed
<1>2. PICK c \in Conn : c = epoll[f].conn
  BY <1>1 DEF PoolInv, Types, Registration
<1>3. /\ f \in Fd /\ epoll[f] = [worker |-> w, conn |-> c]
      /\ conn[c] \in Connection /\ conn[c].sock = f /\ c # Null
  <2>1. f \in Fd /\ epoll[f] \in Registration
    BY <1>1 DEF PoolInv, Types
  <2>2. conn[c] \in Connection /\ conn[c].sock = f
    BY <1>1, <1>2, <2>1 DEF PoolInv, Types, Alive
  <2> QED
    BY <1>1, <1>2, <2>1, <2>2, NullAssumption DEF Registration, Conn
<1>4. /\ UNCHANGED <<list, main>> /\ open' = open /\ epoll' = epoll /\ raced' = raced
      /\ closing[w] = Null
  BY DEF MarkClosed
<1>5. /\ \A d \in Conn \ {c} : conn'[d] = conn[d]
      /\ conn'[c] \in Connection /\ conn'[c].sock = f /\ conn'[c].state = "CLOSED"
      /\ conn' \in [Conn -> Connection \cup {Null}]
      /\ conn'[c] # Null
  <2>1. conn' = [conn EXCEPT ![c] = [conn[c] EXCEPT !.state = "CLOSED"]]
    BY <1>1, <1>2
  <2>2. PICK r : r = [conn[c] EXCEPT !.state = "CLOSED"]
    OBVIOUS
  <2>3. r \in Connection /\ r.sock = f /\ r.state = "CLOSED"
    BY <1>3, <2>2 DEF Connection
  <2>4. conn' = [conn EXCEPT ![c] = r] /\ r # Null
    BY <2>1, <2>2, <2>3, PoolAssumption
  <2> QED
    BY <2>3, <2>4 DEF PoolInv, Types
<1>6. /\ closing'[w] = c /\ \A v \in Worker \ {w} : closing'[v] = closing[v]
      /\ closing' \in [Worker -> Conn \cup {Null}]
  BY <1>1, <1>2 DEF PoolInv, Types
<1>7. Types'
  BY <1>4, <1>5, <1>6 DEF PoolInv, Types, main, list
<1>8. ListInv' /\ Listed' /\ Accepted' /\ Found' /\ Cleaned'
  <2>1. newsock # Null => newsock \in open'
    BY <1>4 DEF PoolInv, Accepted
  <2>2. \A d \in Conn : conn[d] # Null => conn'[d] # Null
    BY <1>5
  <2>3. \A d \in Conn : conn[d].state = "CLOSED" => conn'[d].state = "CLOSED"
    BY <1>5
  <2> QED
    BY <1>4, <2>1, <2>2, <2>3, MainSame
<1>9. /\ newsock' = newsock /\ size' = size /\ Items' = Items
  BY <1>4, ListSame DEF PoolInv, main, list
<1>10. Alive'
  <2>1. SUFFICES ASSUME NEW g \in Fd, epoll[g] # Null
                 PROVE  /\ g \in open /\ g # newsock
                        /\ conn'[epoll[g].conn] # Null /\ conn'[epoll[g].conn].sock = g
                        /\ \E n \in 1 .. size : Items[n] = epoll[g].conn
                        /\ conn'[epoll[g].conn].state = "CLOSED" =>
                             closing'[epoll[g].worker] = epoll[g].conn
    BY <1>4, <1>9 DEF Alive
  <2>2. /\ g \in open /\ g # newsock
        /\ conn[epoll[g].conn] # Null /\ conn[epoll[g].conn].sock = g
        /\ \E n \in 1 .. size : Items[n] = epoll[g].conn
        /\ conn[epoll[g].conn].state = "CLOSED" => closing[epoll[g].worker] = epoll[g].conn
    BY <2>1 DEF PoolInv, Alive
  <2>3. epoll[g].worker \in Worker /\ epoll[g].conn \in Conn
    BY <2>1 DEF PoolInv, Types, Registration
  <2>4. CASE g = f
    BY <1>1, <1>2, <1>5, <1>6, <2>2, <2>4
  <2>5. CASE g # f
    <3>1. epoll[g].conn # c
      BY <1>3, <2>2, <2>5
    <3>2. conn'[epoll[g].conn] = conn[epoll[g].conn]
      BY <1>5, <2>3, <3>1
    <3>3. closing[epoll[g].worker] = epoll[g].conn => closing'[epoll[g].worker] = epoll[g].conn
      <4>1. epoll[g].conn # Null
        BY <2>3, NullAssumption DEF Conn
      <4> QED
        BY <1>4, <1>6, <2>3, <4>1
    <3> QED
      BY <2>2, <3>2, <3>3
  <2> QED
    BY <2>4, <2>5
<1>11. Closers'
  <2>1. SUFFICES ASSUME NEW v \in Worker, closing'[v] # Null
                 PROVE  \E g \in Fd : /\ epoll[g] = [worker |-> v, conn |-> closing'[v]]
                                      /\ conn'[closing'[v]].state = "CLOSED"
    BY <1>4 DEF Closers
  <2>2. CASE v = w
    BY <1>3, <1>5, <1>6, <2>2
  <2>3. CASE v # w
    <3>1. closing'[v] = closing[v] /\ closing[v] \in Conn
      BY <1>6, <2>1, <2>3 DEF PoolInv, Types
    <3>2. PICK g \in Fd : /\ epoll[g] = [worker |-> v, conn |-> closing[v]]
                          /\ conn[closing[v]].state = "CLOSED"
      BY <2>1, <3>1 DEF PoolInv, Closers
    <3>3. conn'[closing[v]].state = "CLOSED"
      BY <1>5, <3>1, <3>2
    <3> QED
      BY <3>1, <3>2, <3>3
  <2> QED
    BY <2>2, <2>3
<1> QED
  BY <1>7, <1>8, <1>10, <1>11 DEF PoolInv

LEMMA CloseSockStep ==
  ASSUME PoolInv, ~raced, NEW w \in Worker, CloseSock(w)
  PROVE  PoolInv'
<1>1. PICK c \in Conn : c = closing[w] /\ c # Null
  BY DEF CloseSock, PoolInv, Types
<1>2. PICK f \in Fd : epoll[f] = [worker |-> w, conn |-> c]
  BY <1>1 DEF PoolInv, Closers
<1>3. epoll[f] # Null /\ f \in open /\ f # newsock /\ conn[c].sock = f
  <2>1. epoll[f] # Null
    <3>1. epoll[f] \in Registration
      BY <1>2 DEF Registration
    <3> QED
      BY <3>1, PoolAssumption
  <2>2. epoll[f].conn = c
    BY <1>2
  <2> QED
    BY <2>1, <2>2 DEF PoolInv, Alive
<1>4. /\ UNCHANGED <<list, main>> /\ conn' = conn /\ raced' = raced
      /\ open' = open \ {f} /\ epoll' = [epoll EXCEPT ![f] = Null]
      /\ closing' = [closing EXCEPT ![w] = Null]
  BY <1>1, <1>3 DEF CloseSock, Close
<1>5. /\ epoll'[f] = Null /\ \A g \in Fd \ {f} : epoll'[g] = epoll[g]
      /\ closing'[w] = Null /\ \A v \in Worker \ {w} : closing'[v] = closing[v]
  BY <1>4 DEF PoolInv, Types
<1>6. Types'
  BY <1>4 DEF PoolInv, Types, main, list
<1>7. ListInv' /\ Listed' /\ Accepted' /\ Found' /\ Cleaned'
  <2>1. newsock # Null => newsock \in open'
    BY <1>3, <1>4 DEF PoolInv, Accepted
  <2> QED
    BY <1>4, <2>1, MainSame
<1>8. newsock' = newsock /\ size' = size /\ Items' = Items
  BY <1>4, ListSame DEF PoolInv, main, list
<1>9. Alive'
  <2>1. SUFFICES ASSUME NEW g \in Fd, epoll'[g] # Null
                 PROVE  /\ g \in open' /\ g # newsock
                        /\ conn[epoll'[g].conn] # Null /\ conn[epoll'[g].conn].sock = g
                        /\ \E n \in 1 .. size : Items[n] = epoll'[g].conn
                        /\ conn[epoll'[g].conn].state = "CLOSED" =>
                             closing'[epoll'[g].worker] = epoll'[g].conn
    BY <1>4, <1>8 DEF Alive
  <2>2. g # f /\ epoll'[g] = epoll[g]
    BY <1>5, <2>1
  <2>3. /\ g \in open /\ g # newsock
        /\ conn[epoll[g].conn] # Null /\ conn[epoll[g].conn].sock = g
        /\ \E n \in 1 .. size : Items[n] = epoll[g].conn
        /\ conn[epoll[g].conn].state = "CLOSED" => closing[epoll[g].worker] = epoll[g].conn
    BY <2>1, <2>2 DEF PoolInv, Alive
  <2>4. epoll[g].worker \in Worker
    BY <2>1, <2>2 DEF PoolInv, Types, Registration
  <2>5. epoll[g].conn # c
    BY <1>3, <2>2, <2>3
  <2>6. closing[epoll[g].worker] = epoll[g].conn => closing'[epoll[g].worker] = epoll[g].conn
    BY <1>1, <1>5, <2>4, <2>5
  <2> QED
    BY <1>4, <2>2, <2>3, <2>6
<1>10. Closers'
  <2>1. SUFFICES ASSUME NEW v \in Worker, closing'[v] # Null
                 PROVE  \E g \in Fd : /\ epoll'[g] = [worker |-> v, conn |-> closing'[v]]
                                      /\ conn[closing'[v]].state = "CLOSED"
    BY <1>4 DEF Closers
  <2>2. v # w /\ closing'[v] = closing[v]
    BY <1>5, <2>1
  <2>3. PICK g \in Fd : /\ epoll[g] = [worker |-> v, conn |-> closing[v]]
                        /\ conn[closing[v]].state = "CLOSED"
    BY <2>1, <2>2 DEF PoolInv, Closers
  <2>4. g # f
    <3>1. epoll[g].worker = v /\ epoll[f].worker = w
      BY <1>2, <2>3
    <3> QED
      BY <2>2, <3>1
  <2>5. epoll'[g] = epoll[g]
    BY <1>5, <2>4
  <2> QED
    BY <2>2, <2>3, <2>5
<1> QED
  BY <1>6, <1>7, <1>9, <1>10 DEF PoolInv

-----------------------------------------------------------------------------
(* The main thread *)

LEMMA AcceptStep ==
  ASSUME PoolInv, ~raced, accept_handler
  PROVE  PoolInv'
<1>1. /\ pc = "idle" /\ Fd \ open # {}
      /\ newsock' = Min(Fd \ open) /\ open' = open \cup {newsock'}
      /\ pc' = (IF Full THEN "scan" ELSE "create")
      /\ wasClosed' = (IF Full THEN {c \in Range(Items) : Connection_IsClosed(c)} ELSE {})
      /\ UNCHANGED <<list, conn, epoll, nextThread, tobeClosed, closing, raced>>
  BY DEF accept_handler
<1>2. newsock' \in Fd \ open /\ newsock' # Null
  <2>1. Fd \ open \in SUBSET Nat
    BY PoolAssumption
  <2>2. PICK x \in Fd \ open : \A y \in Fd \ open : x <= y
    BY <1>1, <2>1, LeastNat
  <2>3. Min(Fd \ open) \in Fd \ open
    BY <2>2 DEF Min
  <2> QED
    BY <1>1, <2>3, PoolAssumption
<1>3. /\ ListInv' /\ Items' = Items /\ Pos' = Pos /\ size' = size /\ ptr' = ptr
      /\ damaged' = damaged
  BY <1>1, ListSame DEF PoolInv, list
<1>4. DOMAIN Items = 1 .. size /\ Full' = Full /\ ptr = Null /\ Pos = 0 /\ tobeClosed = <<>>
  <2>1. DOMAIN Items = 1 .. size /\ (ptr = Null <=> Pos = 0)
    BY ListFactsNow DEF PoolInv
  <2>2. ptr = Null /\ tobeClosed = <<>>
    BY <1>1 DEF PoolInv, Accepted, Found
  <2> QED
    BY <1>3, <2>1, <2>2 DEF Full
<1>5. Types'
  BY <1>1, <1>2, <1>3 DEF PoolInv, Types
<1>6. Listed'
  BY <1>1, <1>3 DEF PoolInv, Listed
<1>7. Alive' /\ Closers'
  <2>1. \A f \in Fd : f \in open => f # newsock'
    BY <1>2
  <2>2. Alive'
    BY <1>1, <1>3, <2>1 DEF PoolInv, Alive
  <2>3. Closers'
    BY <1>1 DEF PoolInv, Closers
  <2> QED
    BY <2>2, <2>3
<1>8. Accepted'
  BY <1>1, <1>2, <1>3, <1>4 DEF Accepted
<1>9. Found'
  BY <1>1, <1>4 DEF Found
<1>10. Cleaned'
  <2>1. ASSUME NEW c \in wasClosed'
        PROVE  conn[c].state = "CLOSED" /\ \E m \in 1 .. size : Items[m] = c
    <3>1. c \in Range(Items) /\ conn[c].state = "CLOSED"
      BY <1>1, <2>1 DEF Connection_IsClosed
    <3> QED
      BY <1>4, <3>1 DEF Range
  <2>2. \A m \in 1 .. size : ~(m <= Pos)
    BY <1>4
  <2> QED
    BY <1>1, <1>3, <1>4, <2>1, <2>2 DEF Cleaned
<1> QED
  BY <1>3, <1>5, <1>6, <1>7, <1>8, <1>9, <1>10 DEF PoolInv

LEMMA ScanConnectionStep ==
  ASSUME PoolInv, ~raced, ScanConnection
  PROVE  PoolInv'
<1>1. /\ pc = "scan" /\ LinkedList_Next /\ Following # Null
      /\ UNCHANGED <<conn, open, epoll, nextThread, pc, newsock, wasClosed, closing, raced>>
  BY DEF ScanConnection
<1>2. /\ ListInv' /\ Items' = Items /\ size' = size /\ damaged' = damaged
      /\ Pos # size /\ Pos' = Pos + 1
      /\ cell[Following].entry = Items[Pos + 1]
  BY <1>1, ListNext DEF PoolInv, LinkedList_Next
<1>3. /\ size \in Nat /\ Pos \in 0 .. size /\ Pos + 1 \in 1 .. size /\ Items \in Seq(Entry)
      /\ Len(Items) = size
  BY <1>2, ListFactsNow DEF PoolInv
<1>4. PICK c \in Conn : c = Items[Pos + 1]
  <2>1. \A i \in 1 .. Len(Items) : Items[i] \in Entry
    BY <1>3
  <2> QED
    BY <1>3, <2>1 DEF Conn
<1>5. tobeClosed' = IF conn[c].state = "CLOSED" THEN Append(tobeClosed, c) ELSE tobeClosed
  BY <1>2, <1>4 DEF ScanConnection, Connection_IsClosed
<1>6. PICK q \in Seq(Conn) : q = tobeClosed'
  BY <1>5, AppendProperties DEF PoolInv, Types
<1>7. PICK p \in Seq(Conn) : p = tobeClosed
  BY DEF PoolInv, Types
<1>8. /\ Len(p) \in Nat /\ Len(q) \in Nat /\ Len(p) <= Len(q)
      /\ \A i \in 1 .. Len(p) : q[i] = p[i]
      /\ \A i \in 1 .. Len(q) :
           \/ i \in 1 .. Len(p)
           \/ i = Len(p) + 1 /\ q[i] = c /\ conn[c].state = "CLOSED"
      /\ conn[c].state = "CLOSED" => Len(p) + 1 \in 1 .. Len(q) /\ q[Len(p) + 1] = c
  <2>1. CASE conn[c].state = "CLOSED"
    <3>1. q = Append(p, c)
      BY <1>5, <1>6, <1>7, <2>1
    <3> QED
      BY <2>1, <3>1
  <2>2. CASE conn[c].state # "CLOSED"
    BY <1>5, <1>6, <1>7, <2>2
  <2> QED
    BY <2>1, <2>2
<1>9. /\ \A i, j \in 1 .. Len(p) : p[i] = p[j] => i = j
      /\ \A i \in 1 .. Len(p) :
           /\ conn[p[i]].state = "CLOSED"
           /\ \E m \in 1 .. size : Items[m] = p[i] /\ m <= Pos
  BY <1>1, <1>7 DEF PoolInv, Found
<1>10. \A i \in 1 .. Len(p) : p[i] # c
  <2> SUFFICES ASSUME NEW i \in 1 .. Len(p), p[i] = c
               PROVE  FALSE
    OBVIOUS
  <2>1. PICK m \in 1 .. size : Items[m] = c /\ m <= Pos
    BY <1>9
  <2>2. m = Pos + 1
    BY <1>3, <1>4, <2>1 DEF PoolInv, Listed
  <2> QED
    BY <1>3, <2>1, <2>2
<1>11. Types'
  BY <1>1, <1>2, <1>6 DEF PoolInv, Types
<1>12. Listed' /\ Alive' /\ Closers'
  <2>1. Listed'
    BY <1>1, <1>2 DEF PoolInv, Listed
  <2>2. Alive'
    BY <1>1, <1>2 DEF PoolInv, Alive
  <2>3. Closers'
    BY <1>1 DEF PoolInv, Closers
  <2> QED
    BY <2>1, <2>2, <2>3
<1>13. Accepted'
  BY <1>1 DEF PoolInv, Accepted
<1>14. Found'
  <2>1. ASSUME NEW i \in 1 .. Len(q), NEW j \in 1 .. Len(q), q[i] = q[j]
        PROVE  i = j
    <3>1. CASE i \in 1 .. Len(p) /\ j \in 1 .. Len(p)
      BY <1>8, <1>9, <2>1, <3>1
    <3>2. CASE i \in 1 .. Len(p) /\ j \notin 1 .. Len(p)
      <4>1. q[j] = c /\ q[i] = p[i]
        BY <1>8, <3>2
      <4> QED
        BY <1>10, <2>1, <3>2, <4>1
    <3>3. CASE i \notin 1 .. Len(p) /\ j \in 1 .. Len(p)
      <4>1. q[i] = c /\ q[j] = p[j]
        BY <1>8, <3>3
      <4> QED
        BY <1>10, <2>1, <3>3, <4>1
    <3>4. CASE i \notin 1 .. Len(p) /\ j \notin 1 .. Len(p)
      <4>1. i = Len(p) + 1 /\ j = Len(p) + 1
        BY <1>8, <3>4
      <4> QED
        BY <4>1
    <3> QED
      BY <3>1, <3>2, <3>3, <3>4
  <2>2. ASSUME NEW i \in 1 .. Len(q)
        PROVE  /\ conn[q[i]].state = "CLOSED"
               /\ \E m \in 1 .. size : Items[m] = q[i] /\ m <= Pos + 1
    <3>1. CASE i \in 1 .. Len(p)
      <4>1. PICK m \in 1 .. size : Items[m] = p[i] /\ m <= Pos
        BY <1>9, <3>1
      <4>2. m <= Pos + 1
        BY <1>3, <4>1
      <4> QED
        BY <1>8, <1>9, <3>1, <4>1, <4>2
    <3>2. CASE i \notin 1 .. Len(p)
      <4>1. q[i] = c /\ conn[c].state = "CLOSED"
        BY <1>8, <3>2
      <4>2. Pos + 1 <= Pos + 1
        BY <1>3
      <4> QED
        BY <1>3, <1>4, <4>1, <4>2
    <3> QED
      BY <3>1, <3>2
  <2> QED
    BY <1>1, <1>2, <1>6, <2>1, <2>2 DEF Found
<1>15. Cleaned'
  <2>1. ASSUME NEW d \in wasClosed
        PROVE  /\ conn[d].state = "CLOSED"
               /\ \E m \in 1 .. size :
                    Items[m] = d /\ (m <= Pos + 1 => \E i \in 1 .. Len(q) : q[i] = d)
    <3>1. PICK m \in 1 .. size :
            /\ conn[d].state = "CLOSED" /\ Items[m] = d
            /\ m <= Pos => \E i \in 1 .. Len(p) : p[i] = d
      BY <1>1, <1>7, <2>1 DEF PoolInv, Cleaned
    <3>2. CASE m <= Pos
      <4>1. PICK i \in 1 .. Len(p) : p[i] = d
        BY <3>1, <3>2
      <4>2. i \in 1 .. Len(q) /\ q[i] = d
        BY <1>8, <4>1
      <4> QED
        BY <3>1, <4>2
    <3>3. CASE m = Pos + 1
      <4>1. d = c
        BY <1>4, <3>1, <3>3
      <4> QED
        BY <1>8, <3>1, <4>1
    <3>4. CASE ~(m <= Pos) /\ m # Pos + 1
      <4>1. ~(m <= Pos + 1)
        BY <1>3, <3>4
      <4> QED
        BY <3>1, <4>1
    <3> QED
      BY <3>2, <3>3, <3>4
  <2> QED
    BY <1>1, <1>2, <1>6, <2>1 DEF Cleaned
<1> QED
  BY <1>2, <1>11, <1>12, <1>13, <1>14, <1>15 DEF PoolInv

LEMMA ScanEndsStep ==
  ASSUME PoolInv, ~raced, ScanEnds
  PROVE  PoolInv'
<1>1. /\ pc = "scan" /\ LinkedList_Next /\ Following = Null /\ pc' = "free" /\ ptr' = Null
      /\ UNCHANGED <<conn, open, epoll, nextThread, newsock, tobeClosed, wasClosed,
                     closing, raced>>
  BY DEF ScanEnds, LinkedList_Next
<1>2. /\ ListInv' /\ Items' = Items /\ size' = size /\ damaged' = damaged /\ Pos = size
  BY <1>1, ListNext DEF PoolInv, LinkedList_Next
<1>3. Types'
  BY <1>1, <1>2 DEF PoolInv, Types
<1>4. Listed' /\ Alive' /\ Closers'
  <2>1. Listed'
    BY <1>1, <1>2 DEF PoolInv, Listed
  <2>2. Alive'
    BY <1>1, <1>2 DEF PoolInv, Alive
  <2>3. Closers'
    BY <1>1 DEF PoolInv, Closers
  <2> QED
    BY <2>1, <2>2, <2>3
<1>5. Accepted'
  BY <1>1 DEF PoolInv, Accepted
<1>6. Found'
  BY <1>1, <1>2 DEF PoolInv, Found
<1>7. Cleaned'
  <2>1. ASSUME NEW c \in wasClosed
        PROVE  tobeClosed # <<>>
    <3>1. PICK m \in 1 .. size : m <= Pos => \E i \in 1 .. Len(tobeClosed) : tobeClosed[i] = c
      BY <1>1, <2>1 DEF PoolInv, Cleaned
    <3>2. size \in Nat
      BY ListFactsNow DEF PoolInv
    <3>3. PICK i \in 1 .. Len(tobeClosed) : tobeClosed[i] = c
      BY <1>2, <3>1, <3>2
    <3> QED
      BY <3>3
  <2> QED
    BY <1>1, <2>1 DEF Cleaned
<1> QED
  BY <1>2, <1>3, <1>4, <1>5, <1>6, <1>7 DEF PoolInv

LEMMA CleanupEndsStep ==
  ASSUME PoolInv, ~raced, CleanupEnds
  PROVE  PoolInv'
<1>1. /\ pc = "free" /\ tobeClosed = <<>> /\ pc' = (IF Full THEN "refuse" ELSE "create")
      /\ UNCHANGED <<list, conn, open, epoll, nextThread, newsock, tobeClosed, wasClosed,
                     closing, raced>>
  BY DEF CleanupEnds
<1>2. /\ ListInv' /\ Items' = Items /\ Pos' = Pos /\ size' = size /\ ptr' = ptr
      /\ damaged' = damaged
  BY <1>1, ListSame DEF PoolInv, list
<1>3. Types'
  BY <1>1, <1>2 DEF PoolInv, Types
<1>4. Listed' /\ Alive' /\ Closers'
  <2>1. Listed'
    BY <1>1, <1>2 DEF PoolInv, Listed
  <2>2. Alive'
    BY <1>1, <1>2 DEF PoolInv, Alive
  <2>3. Closers'
    BY <1>1 DEF PoolInv, Closers
  <2> QED
    BY <2>1, <2>2, <2>3
<1>5. Accepted'
  BY <1>1, <1>2 DEF PoolInv, Accepted, Full
<1>6. Found'
  BY <1>1 DEF Found
<1>7. Cleaned'
  BY <1>1, <1>2 DEF PoolInv, Cleaned, Full
<1> QED
  BY <1>2, <1>3, <1>4, <1>5, <1>6, <1>7 DEF PoolInv

LEMMA RefuseStep ==
  ASSUME PoolInv, ~raced, Refuse
  PROVE  PoolInv'
<1>1. /\ pc = "refuse" /\ newsock' = Null /\ pc' = "idle"
      /\ open' = open \ {newsock} /\ epoll' = [epoll EXCEPT ![newsock] = Null]
      /\ UNCHANGED <<list, conn, nextThread, tobeClosed, wasClosed, closing, raced>>
  BY DEF Refuse, Close
<1>2. /\ ListInv' /\ Items' = Items /\ size' = size /\ ptr' = ptr /\ damaged' = damaged
  BY <1>1, ListSame DEF PoolInv, list
<1>3. newsock \in Fd /\ epoll[newsock] = Null /\ epoll' = epoll
  <2>1. newsock \in Fd
    BY <1>1 DEF PoolInv, Types, Accepted
  <2>2. epoll[newsock] = Null
    BY <2>1 DEF PoolInv, Alive
  <2> QED
    BY <1>1, <2>1, <2>2 DEF PoolInv, Types
<1>4. Types'
  BY <1>1, <1>2, <1>3 DEF PoolInv, Types
<1>5. Listed' /\ Alive' /\ Closers'
  <2>1. Listed'
    BY <1>1, <1>2 DEF PoolInv, Listed
  <2>2. \A f \in Fd : f # Null
    BY PoolAssumption
  <2>3. Alive'
    BY <1>1, <1>2, <1>3, <2>2 DEF PoolInv, Alive
  <2>4. Closers'
    BY <1>1, <1>3 DEF PoolInv, Closers
  <2> QED
    BY <2>1, <2>3, <2>4
<1>6. Accepted'
  BY <1>1, <1>2 DEF PoolInv, Accepted
<1>7. Found' /\ Cleaned'
  <2>1. tobeClosed = <<>>
    BY <1>1 DEF PoolInv, Found
  <2> QED
    BY <1>1, <2>1 DEF Found, Cleaned
<1> QED
  BY <1>2, <1>4, <1>5, <1>6, <1>7 DEF PoolInv

LEMMA FreeConnectionStep ==
  ASSUME PoolInv, ~raced, ~damaged, FreeConnection
  PROVE  PoolInv'
<1>1. PICK p \in Seq(Conn) : p = tobeClosed /\ p # <<>>
  BY DEF PoolInv, Types, FreeConnection
<1>2. PICK q \in Seq(Conn) : q = Tail(p)
  BY <1>1, HeadTailProperties
<1>3. PICK c \in Conn : c = Head(p) /\ c = p[1]
  BY <1>1
<1>4. /\ Len(p) \in Nat /\ 1 \in 1 .. Len(p) /\ Len(q) = Len(p) - 1
      /\ \A i \in 1 .. Len(q) : i + 1 \in 1 .. Len(p) /\ q[i] = p[i + 1]
  BY <1>1, <1>2
<1>5. /\ pc = "free" /\ LinkedList_Remove(c) /\ conn' = [conn EXCEPT ![c] = Null]
      /\ IF Connection_IsClosed(c) THEN UNCHANGED <<open, epoll>> ELSE Close(conn[c].sock)
      /\ raced' = (\E w \in Worker : closing[w] = c)
      /\ tobeClosed' = q
      /\ UNCHANGED <<nextThread, pc, newsock, wasClosed, closing>>
  BY <1>1, <1>2, <1>3 DEF FreeConnection
<1>6. /\ \A i, j \in 1 .. Len(p) : p[i] = p[j] => i = j
      /\ \A i \in 1 .. Len(p) :
           conn[p[i]].state = "CLOSED" /\ \E m \in 1 .. size : Items[m] = p[i]
  BY <1>1 DEF PoolInv, Found
<1>7. /\ open' = open /\ epoll' = epoll /\ conn[c].state = "CLOSED"
  BY <1>3, <1>4, <1>5, <1>6 DEF Connection_IsClosed
<1>8. PICK it \in Seq(Conn) : it = Items /\ Len(it) = size /\ DOMAIN it = 1 .. size
  BY ListFactsNow DEF PoolInv, Conn
<1>9. PICK k \in 1 .. size :
        /\ it[k] = c /\ Items' = RemoveAt(it, k)
        /\ ListInv' /\ size' = size - 1 /\ ptr' = Null
  <2>1. PICK m \in 1 .. size : Items[m] = c
    BY <1>3, <1>4, <1>6
  <2>2. ~(\A n \in DOMAIN Items : Items[n] # c)
    BY <1>8, <2>1
  <2>3. /\ ListInv' /\ size' = size - 1 /\ ptr' = Null
        /\ \E n \in DOMAIN Items : Items[n] = c /\ Items' = RemoveAt(Items, n)
    BY <1>5, <2>2, ListRemove DEF PoolInv
  <2> QED
    BY <1>8, <2>3
<1>10. PICK new \in Seq(Conn) :
         /\ new = Items' /\ Len(new) = size - 1
         /\ \A n \in 1 .. size - 1 : new[n] = IF n < k THEN it[n] ELSE it[n + 1]
  <2>1. /\ RemoveAt(it, k) = Without(it, k) /\ Without(it, k) \in Seq(Conn)
        /\ Len(Without(it, k)) = Len(it) - 1
    BY <1>8, RemoveAtIs
  <2> QED
    BY <1>8, <1>9, <2>1 DEF Without
<1>11. /\ size \in Nat /\ size <= MaxConnections /\ MaxConnections \in Nat
       /\ \A n \in 1 .. size : it[n] \in Conn /\ conn[it[n]] # Null
       /\ \A m, n \in 1 .. size : it[m] = it[n] => m = n
  BY <1>8, PoolAssumption DEF PoolInv, Listed
<1>12. /\ \A d \in Conn \ {c} : conn'[d] = conn[d]
       /\ conn' \in [Conn -> Connection \cup {Null}]
  BY <1>5 DEF PoolInv, Types
<1>13. damaged' = damaged
  <2>1. Target(c) # {} => damaged' = damaged
    BY <1>5 DEF LinkedList_Remove, list
  <2>2. Target(c) = {} => damaged' = damaged
    BY <1>5 DEF LinkedList_Remove, list
  <2> QED
    BY <2>1, <2>2
\* What is listed and is not c is still listed.
<1>14. ASSUME NEW d, d # c, NEW m \in 1 .. size, it[m] = d
       PROVE  \E n \in 1 .. size - 1 : new[n] = d
  <2>1. m # k
    BY <1>9, <1>14
  <2>2. CASE m < k
    <3>1. m \in 1 .. size - 1
      BY <1>11, <2>2
    <3> QED
      BY <1>10, <1>14, <2>2, <3>1
  <2>3. CASE ~(m < k)
    <3>1. m - 1 \in 1 .. size - 1 /\ ~(m - 1 < k) /\ m - 1 + 1 = m
      BY <1>11, <2>1, <2>3
    <3>2. new[m - 1] = it[m]
      BY <1>10, <3>1
    <3> QED
      BY <1>14, <3>1, <3>2
  <2> QED
    BY <2>2, <2>3
<1>15. \A n \in 1 .. size - 1 :
         \E m \in 1 .. size : m # k /\ new[n] = it[m] /\ m = IF n < k THEN n ELSE n + 1
  <2> TAKE n \in 1 .. size - 1
  <2>1. CASE n < k
    <3>1. n \in 1 .. size /\ n # k
      BY <1>11, <2>1
    <3> QED
      BY <1>10, <2>1, <3>1
  <2>2. CASE ~(n < k)
    <3>1. n + 1 \in 1 .. size /\ n + 1 # k
      BY <1>11, <2>2
    <3> QED
      BY <1>10, <2>2, <3>1
  <2> QED
    BY <2>1, <2>2
<1>16. Types'
  <2>1. raced' \in BOOLEAN
    BY <1>5
  <2> QED
    BY <1>5, <1>7, <1>12, <1>13, <2>1 DEF PoolInv, Types
<1>17. Listed'
  <2>1. \A n \in 1 .. size - 1 : conn'[new[n]] # Null
    <3> TAKE n \in 1 .. size - 1
    <3>1. PICK m \in 1 .. size : m # k /\ new[n] = it[m]
      BY <1>15
    <3>2. it[m] # c /\ it[m] \in Conn
      BY <1>9, <1>11, <3>1
    <3> QED
      BY <1>11, <1>12, <3>1, <3>2
  <2>2. ASSUME NEW i \in 1 .. size - 1, NEW j \in 1 .. size - 1, new[i] = new[j]
        PROVE  i = j
    <3>1. PICK m \in 1 .. size : new[i] = it[m] /\ m = IF i < k THEN i ELSE i + 1
      BY <1>15
    <3>2. PICK n \in 1 .. size : new[j] = it[n] /\ n = IF j < k THEN j ELSE j + 1
      BY <1>15
    <3>3. m = n
      BY <1>11, <2>2, <3>1, <3>2
    <3> QED
      BY <1>11, <3>1, <3>2, <3>3
  <2>3. size - 1 <= MaxConnections
    BY <1>11
  <2> QED
    BY <1>9, <1>10, <2>1, <2>2, <2>3 DEF Listed
<1>18. ASSUME ~raced'
       PROVE  Alive' /\ Closers'
  <2>1. \A w \in Worker : closing[w] # c
    BY <1>5, <1>18
  <2>2. ASSUME NEW f \in Fd, epoll[f] # Null
        PROVE  /\ f \in open /\ f # newsock
               /\ conn'[epoll[f].conn] # Null /\ conn'[epoll[f].conn].sock = f
               /\ \E n \in 1 .. size - 1 : new[n] = epoll[f].conn
               /\ conn'[epoll[f].conn].state = "CLOSED" =>
                    closing[epoll[f].worker] = epoll[f].conn
    <3>1. /\ f \in open /\ f # newsock
          /\ conn[epoll[f].conn] # Null /\ conn[epoll[f].conn].sock = f
          /\ \E n \in 1 .. size : Items[n] = epoll[f].conn
          /\ conn[epoll[f].conn].state = "CLOSED" => closing[epoll[f].worker] = epoll[f].conn
      BY <2>2 DEF PoolInv, Alive
    <3>2. epoll[f].worker \in Worker /\ epoll[f].conn \in Conn
      BY <2>2 DEF PoolInv, Types, Registration
    <3>3. epoll[f].conn # c
      BY <1>7, <2>1, <3>1, <3>2
    <3>4. conn'[epoll[f].conn] = conn[epoll[f].conn]
      BY <1>12, <3>2, <3>3
    <3>5. \E n \in 1 .. size - 1 : new[n] = epoll[f].conn
      BY <1>8, <1>14, <3>1, <3>3
    <3> QED
      BY <3>1, <3>4, <3>5
  <2>3. Alive'
    BY <1>5, <1>7, <1>9, <1>10, <2>2 DEF Alive
  <2>4. ASSUME NEW w \in Worker, closing[w] # Null
        PROVE  \E f \in Fd : /\ epoll[f] = [worker |-> w, conn |-> closing[w]]
                             /\ conn'[closing[w]].state = "CLOSED"
    <3>1. PICK f \in Fd : /\ epoll[f] = [worker |-> w, conn |-> closing[w]]
                          /\ conn[closing[w]].state = "CLOSED"
      BY <2>4 DEF PoolInv, Closers
    <3>2. closing[w] \in Conn \ {c}
      BY <2>1, <2>4 DEF PoolInv, Types
    <3> QED
      BY <1>12, <3>1, <3>2
  <2>5. Closers'
    BY <1>5, <1>7, <2>4 DEF Closers
  <2> QED
    BY <2>3, <2>5
<1>19. Alive' /\ Closers'
  BY <1>18 DEF Alive, Closers
<1>20. Accepted'
  BY <1>5, <1>7, <1>9 DEF PoolInv, Accepted
<1>21. Found'
  <2>1. ASSUME NEW i \in 1 .. Len(q)
        PROVE  conn'[q[i]].state = "CLOSED" /\ \E n \in 1 .. size - 1 : new[n] = q[i]
    <3>1. i + 1 \in 1 .. Len(p) /\ q[i] = p[i + 1] /\ i + 1 # 1 /\ q[i] \in Conn
      BY <1>4
    <3>2. q[i] # c
      BY <1>3, <1>4, <1>6, <3>1
    <3>3. conn'[q[i]].state = "CLOSED"
      BY <1>6, <1>12, <3>1, <3>2
    <3>4. PICK m \in 1 .. size : it[m] = q[i]
      BY <1>6, <1>8, <3>1
    <3> QED
      BY <1>14, <3>2, <3>3, <3>4
  <2>2. ASSUME NEW i \in 1 .. Len(q), NEW j \in 1 .. Len(q), q[i] = q[j]
        PROVE  i = j
    <3>1. PICK m \in 1 .. Len(p) : m = i + 1 /\ q[i] = p[m]
      BY <1>4
    <3>2. PICK n \in 1 .. Len(p) : n = j + 1 /\ q[j] = p[n]
      BY <1>4
    <3>3. m = n
      BY <1>6, <2>2, <3>1, <3>2
    <3> QED
      BY <3>1, <3>2, <3>3
  <2> QED
    BY <1>5, <1>9, <1>10, <2>1, <2>2 DEF Found
<1>22. Cleaned'
  <2>1. ~Full'
    BY <1>9, <1>11 DEF Full
  <2> QED
    BY <1>5, <2>1 DEF Cleaned
<1> QED
  BY <1>9, <1>16, <1>17, <1>19, <1>20, <1>21, <1>22 DEF PoolInv

\* What stays of the invariant when the new socket is closed again.
LEMMA NewSockClosed ==
  ASSUME PoolInv, ~raced, pc = "create", Close(newsock)
  PROVE  newsock \in Fd /\ open' = open \ {newsock} /\ epoll' = epoll
<1>1. newsock \in Fd
  BY DEF PoolInv, Types, Accepted
<1>2. epoll[newsock] = Null
  BY <1>1 DEF PoolInv, Alive
<1> QED
  BY <1>1, <1>2 DEF PoolInv, Types, Close

LEMMA NewConnectionStep ==
  ASSUME PoolInv, ~raced, ~damaged, NewConnection
  PROVE  PoolInv'
<1>1. /\ pc = "create" /\ newsock' = Null /\ pc' = "idle"
      /\ UNCHANGED <<tobeClosed, wasClosed, closing, raced>>
  BY DEF NewConnection
<1>2. /\ newsock \in Fd /\ newsock \in open /\ tobeClosed = <<>> /\ ptr = Null
      /\ ~(size >= MaxConnections) /\ size \in Nat /\ MaxConnections \in Nat
      /\ \A f \in Fd : f # Null
  <2>1. size \in Nat
    BY ListFactsNow DEF PoolInv
  <2> QED
    BY <1>1, <2>1, PoolAssumption DEF PoolInv, Types, Accepted, Found, Full
<1>3. Found' /\ Cleaned'
  BY <1>1, <1>2 DEF Found, Cleaned
<1>4. ASSUME ptr' = ptr
      PROVE  Accepted'
  BY <1>1, <1>2, <1>4 DEF Accepted
\* Nothing of the connections that are registered changes.
<1>5. ASSUME epoll' = epoll, open' = open \ {newsock},
             \A d \in Conn : conn[d] # Null => conn'[d] = conn[d],
             \A n \in 1 .. size : n \in 1 .. size' /\ Items'[n] = Items[n]
      PROVE  Alive' /\ Closers'
  <2>1. ASSUME NEW f \in Fd, epoll[f] # Null
        PROVE  /\ f \in open' /\ f # newsock'
               /\ conn'[epoll[f].conn] # Null /\ conn'[epoll[f].conn].sock = f
               /\ \E n \in 1 .. size' : Items'[n] = epoll[f].conn
               /\ conn'[epoll[f].conn].state = "CLOSED" =>
                    closing[epoll[f].worker] = epoll[f].conn
    <3>1. /\ f \in open /\ f # newsock
          /\ conn[epoll[f].conn] # Null /\ conn[epoll[f].conn].sock = f
          /\ conn[epoll[f].conn].state = "CLOSED" => closing[epoll[f].worker] = epoll[f].conn
      BY <2>1 DEF PoolInv, Alive
    <3>2. PICK n \in 1 .. size : Items[n] = epoll[f].conn
      BY <2>1 DEF PoolInv, Alive
    <3>3. epoll[f].conn \in Conn
      BY <2>1 DEF PoolInv, Types, Registration
    <3>4. conn'[epoll[f].conn] = conn[epoll[f].conn]
      BY <1>5, <3>1, <3>3
    <3> QED
      BY <1>1, <1>2, <1>5, <3>1, <3>2, <3>4
  <2>2. Alive'
    BY <1>5, <2>1, <1>1 DEF Alive
  <2>3. ASSUME NEW w \in Worker, closing[w] # Null
        PROVE  \E f \in Fd : /\ epoll[f] = [worker |-> w, conn |-> closing[w]]
                             /\ conn'[closing[w]].state = "CLOSED"
    <3>1. PICK f \in Fd : /\ epoll[f] = [worker |-> w, conn |-> closing[w]]
                          /\ conn[closing[w]].state = "CLOSED"
      BY <2>3 DEF PoolInv, Closers
    <3>2. /\ epoll[f] # Null /\ epoll[f].conn = closing[w] /\ closing[w] \in Conn
      <4>1. closing[w] \in Conn
        BY <2>3 DEF PoolInv, Types
      <4>2. epoll[f] \in Registration
        BY <3>1, <4>1 DEF Registration
      <4> QED
        BY <3>1, <4>1, <4>2, PoolAssumption
    <3>3. conn[closing[w]] # Null
      BY <3>2 DEF PoolInv, Alive
    <3> QED
      BY <1>5, <3>1, <3>2, <3>3
  <2>4. Closers'
    BY <1>1, <1>5, <2>3 DEF Closers
  <2> QED
    BY <2>2, <2>4
<1>6. CASE Close(newsock) /\ UNCHANGED <<list, conn, nextThread>>
  <2>1. /\ ListInv' /\ Items' = Items /\ size' = size /\ ptr' = ptr /\ damaged' = damaged
    BY <1>6, ListSame DEF PoolInv, list
  <2>2. open' = open \ {newsock} /\ epoll' = epoll
    BY <1>1, <1>6, NewSockClosed
  <2>3. Types'
    BY <1>1, <1>6, <2>1, <2>2 DEF PoolInv, Types
  <2>4. Listed'
    BY <1>6, <2>1 DEF PoolInv, Listed
  <2>5. Alive' /\ Closers'
    BY <1>5, <1>6, <2>1, <2>2
  <2>6. Accepted'
    BY <1>4, <2>1
  <2> QED
    BY <1>3, <2>1, <2>3, <2>4, <2>5, <2>6 DEF PoolInv
<1>7. ASSUME NEW c \in Conn, conn[c] = Null,
             conn' = [conn EXCEPT ![c] = [sock |-> newsock, state |-> "READINGCMD"]],
             \/ LinkedList_AddFails /\ Close(newsock) /\ UNCHANGED nextThread
             \/ /\ LinkedList_Add(c)
                /\ nextThread' = IF nextThread + 1 >= ThreadsNum THEN 0 ELSE nextThread + 1
                /\ \/ /\ epoll' = [epoll EXCEPT ![newsock] = [worker |-> nextThread, conn |-> c]]
                      /\ UNCHANGED open
                   \/ Close(newsock)
      PROVE  PoolInv'
  <2>1. PICK r : r = [sock |-> newsock, state |-> "READINGCMD"]
    OBVIOUS
  <2>2. r \in Connection /\ r.sock = newsock /\ r.state = "READINGCMD" /\ r # Null
    <3>1. r \in Connection /\ r.sock = newsock /\ r.state = "READINGCMD"
      BY <1>2, <2>1 DEF Connection
    <3> QED
      BY <3>1, PoolAssumption
  <2>3. /\ conn'[c] = r /\ \A d \in Conn : conn[d] # Null => conn'[d] = conn[d]
        /\ \A d \in Conn : conn[d] # Null => conn'[d] # Null
        /\ conn' \in [Conn -> Connection \cup {Null}]
    <3>1. conn' = [conn EXCEPT ![c] = r]
      BY <1>7, <2>1
    <3> QED
      BY <1>7, <2>2, <3>1 DEF PoolInv, Types
  <2>4. \A n \in 1 .. size : Items[n] \in Conn /\ Items[n] # c
    <3>1. Items \in Seq(Conn) /\ Len(Items) = size
      BY ListFactsNow DEF PoolInv, Conn
    <3> QED
      BY <1>7, <3>1 DEF PoolInv, Listed
  <2>5. CASE LinkedList_AddFails /\ Close(newsock) /\ UNCHANGED nextThread
    <3>1. /\ ListInv' /\ Items' = Items /\ size' = size /\ ptr' = ptr
          /\ damaged' = (size # 0)
      BY <2>5, ListAddFails DEF PoolInv
    <3>2. open' = open \ {newsock} /\ epoll' = epoll
      BY <1>1, <2>5, NewSockClosed
    <3>3. Types'
      BY <1>1, <2>3, <2>5, <3>1, <3>2 DEF PoolInv, Types
    <3>4. Listed'
      BY <2>3, <2>4, <3>1 DEF PoolInv, Listed
    <3>5. Alive' /\ Closers'
      BY <1>5, <2>3, <3>1, <3>2
    <3>6. Accepted'
      BY <1>4, <3>1
    <3> QED
      BY <1>3, <3>1, <3>3, <3>4, <3>5, <3>6 DEF PoolInv
  <2>6. CASE /\ LinkedList_Add(c)
             /\ nextThread' = IF nextThread + 1 >= ThreadsNum THEN 0 ELSE nextThread + 1
             /\ \/ /\ epoll' = [epoll EXCEPT ![newsock] = [worker |-> nextThread, conn |-> c]]
                   /\ UNCHANGED open
                \/ Close(newsock)
    <3>1. /\ ListInv' /\ Items' = Append(Items, c) /\ size' = size + 1 /\ ptr' = ptr
          /\ damaged' = damaged
      <4>1. c \in Entry
        BY DEF Conn
      <4>2. damaged' = damaged
        BY <2>6 DEF LinkedList_Add
      <4> QED
        BY <2>6, <4>1, <4>2, ListAdd DEF PoolInv
    <3>2. /\ \A n \in 1 .. size : n \in 1 .. size' /\ Items'[n] = Items[n]
          /\ size + 1 \in 1 .. size' /\ Items'[size + 1] = c
      <4>1. PICK it \in Seq(Conn) : it = Items /\ Len(it) = size
        BY ListFactsNow DEF PoolInv, Conn
      <4>2. /\ \A n \in 1 .. size : Append(it, c)[n] = it[n]
            /\ Append(it, c)[size + 1] = c
        BY <1>2, <4>1
      <4> QED
        BY <1>2, <3>1, <4>1, <4>2
    <3>3. nextThread' \in Worker
      BY <2>6, PoolAssumption DEF PoolInv, Types, Worker
    <3>4. Listed'
      <4>1. size' <= MaxConnections
        BY <1>2, <3>1
      <4>2. \A n \in 1 .. size' : n \in 1 .. size \/ n = size + 1
        BY <1>2, <3>1
      <4>3. \A n \in 1 .. size' : conn'[Items'[n]] # Null
        BY <2>2, <2>3, <2>4, <3>2, <4>2 DEF PoolInv, Listed
      <4>4. \A m, n \in 1 .. size' : Items'[m] = Items'[n] => m = n
        BY <2>4, <3>2, <4>2 DEF PoolInv, Listed
      <4> QED
        BY <4>1, <4>3, <4>4 DEF Listed
    <3>5. Accepted'
      BY <1>4, <3>1
    <3>6. CASE Close(newsock)
      <4>1. open' = open \ {newsock} /\ epoll' = epoll
        BY <1>1, <3>6, NewSockClosed
      <4>2. Types'
        BY <1>1, <2>3, <3>1, <3>3, <4>1 DEF PoolInv, Types
      <4>3. Alive' /\ Closers'
        BY <1>5, <2>3, <3>2, <4>1
      <4> QED
        BY <1>3, <3>1, <3>4, <3>5, <4>2, <4>3 DEF PoolInv
    <3>7. CASE /\ epoll' = [epoll EXCEPT ![newsock] = [worker |-> nextThread, conn |-> c]]
               /\ UNCHANGED open
      <4>1. PICK g : g = [worker |-> nextThread, conn |-> c]
        OBVIOUS
      <4>2. g \in Registration /\ g.worker = nextThread /\ g.conn = c
        BY <4>1 DEF PoolInv, Types, Registration
      <4>3. /\ epoll'[newsock] = g /\ \A f \in Fd \ {newsock} : epoll'[f] = epoll[f]
            /\ epoll' \in [Fd -> Registration \cup {Null}]
            /\ epoll[newsock] = Null
        <5>1. epoll' = [epoll EXCEPT ![newsock] = g]
          BY <3>7, <4>1
        <5>2. epoll[newsock] = Null
          BY <1>2 DEF PoolInv, Alive
        <5> QED
          BY <1>2, <4>2, <5>1, <5>2 DEF PoolInv, Types
      <4>4. Types'
        BY <1>1, <2>3, <3>1, <3>3, <3>7, <4>3 DEF PoolInv, Types
      <4>5. ASSUME NEW f \in Fd, epoll'[f] # Null
            PROVE  /\ f \in open /\ f # newsock'
                   /\ conn'[epoll'[f].conn] # Null /\ conn'[epoll'[f].conn].sock = f
                   /\ \E n \in 1 .. size' : Items'[n] = epoll'[f].conn
                   /\ conn'[epoll'[f].conn].state = "CLOSED" =>
                        closing[epoll'[f].worker] = epoll'[f].conn
        <5>1. CASE f = newsock
          BY <1>1, <1>2, <2>2, <2>3, <3>2, <4>2, <4>3, <5>1
        <5>2. CASE f # newsock
          <6>1. epoll'[f] = epoll[f]
            BY <4>3, <5>2
          <6>2. /\ f \in open /\ conn[epoll[f].conn] # Null /\ conn[epoll[f].conn].sock = f
                /\ conn[epoll[f].conn].state = "CLOSED" =>
                     closing[epoll[f].worker] = epoll[f].conn
            BY <4>5, <6>1 DEF PoolInv, Alive
          <6>3. PICK n \in 1 .. size : Items[n] = epoll[f].conn
            BY <4>5, <6>1 DEF PoolInv, Alive
          <6>4. epoll[f].conn \in Conn
            BY <4>5, <6>1 DEF PoolInv, Types, Registration
          <6>5. conn'[epoll[f].conn] = conn[epoll[f].conn]
            BY <2>3, <6>2, <6>4
          <6> QED
            BY <1>1, <1>2, <3>2, <6>1, <6>2, <6>3, <6>5
        <5> QED
          BY <5>1, <5>2
      <4>6. Alive'
        BY <1>1, <3>7, <4>5 DEF Alive
      <4>7. ASSUME NEW w \in Worker, closing[w] # Null
            PROVE  \E f \in Fd : /\ epoll'[f] = [worker |-> w, conn |-> closing[w]]
                                 /\ conn'[closing[w]].state = "CLOSED"
        <5>1. PICK f \in Fd : /\ epoll[f] = [worker |-> w, conn |-> closing[w]]
                              /\ conn[closing[w]].state = "CLOSED"
          BY <4>7 DEF PoolInv, Closers
        <5>2. closing[w] \in Conn
          BY <4>7 DEF PoolInv, Types
        <5>3. epoll[f] # Null /\ epoll[f].conn = closing[w]
          <6>1. epoll[f] \in Registration
            BY <5>1, <5>2 DEF Registration
          <6> QED
            BY <5>1, <6>1, PoolAssumption
        <5>4. conn'[closing[w]] = conn[closing[w]] /\ epoll'[f] = epoll[f]
          <6>1. conn[closing[w]] # Null
            BY <5>3 DEF PoolInv, Alive
          <6> QED
            BY <2>3, <4>3, <5>2, <5>3, <6>1
        <5> QED
          BY <5>1, <5>4
      <4>8. Closers'
        BY <1>1, <4>7 DEF Closers
      <4> QED
        BY <1>3, <3>1, <3>4, <3>5, <4>4, <4>6, <4>8 DEF PoolInv
    <3> QED
      BY <2>6, <3>6, <3>7
  <2> QED
    BY <1>7, <2>5, <2>6
<1> QED
  BY <1>6, <1>7 DEF NewConnection

-----------------------------------------------------------------------------
(* The invariant holds *)

LEMMA IdleStep ==
  ASSUME PoolInv, UNCHANGED vars
  PROVE  PoolInv'
<1>1. /\ UNCHANGED <<list, main>> /\ conn' = conn /\ open' = open /\ epoll' = epoll
      /\ nextThread' = nextThread /\ pc' = pc /\ newsock' = newsock
      /\ tobeClosed' = tobeClosed /\ closing' = closing /\ raced' = raced
      /\ damaged' = damaged
  BY DEF vars, main, list
<1>2. ListInv' /\ Items' = Items /\ size' = size
  BY <1>1, ListSame DEF PoolInv, list
<1>3. ListInv' /\ Listed' /\ Accepted' /\ Found' /\ Cleaned'
  <2>1. newsock # Null => newsock \in open'
    BY <1>1 DEF PoolInv, Accepted
  <2> QED
    BY <1>1, <2>1, MainSame
<1>4. Types'
  BY <1>1 DEF PoolInv, Types
<1>5. Alive'
  BY <1>1, <1>2 DEF PoolInv, Alive
<1>6. Closers'
  BY <1>1 DEF PoolInv, Closers
<1> QED
  BY <1>3, <1>4, <1>5, <1>6 DEF PoolInv

LEMMA PoolStep ==
  ASSUME PoolInv, [Next]_vars
  PROVE  PoolInv'
<1>1. CASE UNCHANGED vars
  BY <1>1, IdleStep
<1>2. CASE ~raced /\ ~damaged /\ MainStep
  BY <1>2, AcceptStep, ScanConnectionStep, ScanEndsStep, FreeConnectionStep,
     CleanupEndsStep, RefuseStep, NewConnectionStep DEF MainStep
<1>3. CASE ~raced /\ ~damaged /\ \E w \in Worker : MarkClosed(w) \/ CloseSock(w)
  BY <1>3, MarkClosedStep, CloseSockStep
<1> QED
  BY <1>1, <1>2, <1>3 DEF Next

\* Every reachable state satisfies the invariant, with any number of workers,
\* any limit on the connections and any descriptors.
THEOREM PoolInvariance == Spec => []PoolInv
<1>1. Init => PoolInv
  BY PoolStart
<1>2. PoolInv /\ [Next]_vars => PoolInv'
  BY PoolStep
<1> QED
  BY <1>1, <1>2, PTL DEF Spec

-----------------------------------------------------------------------------
(* What follows from it *)

\* The pointers of the list are consistent in both directions, its size and its
\* tail are right, and no other cell is allocated, in every state before an
\* allocation fails.
THEOREM ListWellFormed == Spec => []WellFormed
<1>1. PoolInv => WellFormed
  <2> SUFFICES ASSUME PoolInv, ~damaged
               PROVE  /\ size = Len(Chain)
                      /\ tail = (IF Chain = <<>> THEN Null ELSE Last(Chain))
                      /\ \A n \in DOMAIN Chain :
                           cell[Chain[n]].prev = (IF n = 1 THEN Null ELSE Chain[n - 1])
                      /\ {c \in Cell : cell[c] # Null} = Range(Chain)
                      /\ ptr \in Range(Chain) \cup {Null}
    BY DEF WellFormed
  <2>1. PICK ch : ch = Chain
    OBVIOUS
  <2>2. Chained(ch)
    BY <2>1 DEF PoolInv, ListInv
  <2>3. /\ ch \in Seq(Cell) /\ Len(ch) \in Nat /\ DOMAIN ch = 1 .. Len(ch)
        /\ (ch = <<>> <=> Len(ch) = 0) /\ Last(ch) = ch[Len(ch)]
    BY <2>2 DEF Chained, Last
  <2>4. size = Len(ch) /\ tail = (IF ch = <<>> THEN Null ELSE Last(ch))
    BY <2>2, <2>3 DEF Chained
  <2>5. \A n \in DOMAIN ch : cell[ch[n]].prev = (IF n = 1 THEN Null ELSE ch[n - 1])
    BY <2>2, <2>3 DEF Chained
  <2>6. Range(ch) = {ch[n] : n \in 1 .. Len(ch)}
    BY <2>3 DEF Range
  <2>7. \A c \in Cell : cell[c] # Null <=> \E n \in 1 .. Len(ch) : c = ch[n]
    BY <2>2, NullAssumption DEF Chained
  <2>8. {c \in Cell : cell[c] # Null} = Range(ch)
    <3>1. \A n \in 1 .. Len(ch) : ch[n] \in Cell
      BY <2>3
    <3> QED
      BY <2>6, <2>7, <3>1
  <2>9. ptr \in Range(ch) \cup {Null}
    BY <2>2, <2>6 DEF Chained
  <2> QED
    BY <2>1, <2>4, <2>5, <2>8, <2>9
<1> QED
  BY <1>1, PoolInvariance, PTL

\* What epoll hands to a worker is allocated, listed and open, and CLOSED only
\* in the hands of that worker, until a connection is freed under its worker.
THEOREM RegisteredStayAlive == Spec => []RegisteredAlive
<1>1. PoolInv => RegisteredAlive
  <2>1. ASSUME PoolInv
        PROVE  DOMAIN Items = 1 .. size
    BY <2>1, ListFactsNow DEF PoolInv
  <2> QED
    BY <2>1 DEF PoolInv, Alive, RegisteredAlive, Range
<1> QED
  BY <1>1, PoolInvariance, PTL

\* The list is never over its limit and holds allocated connections, each once,
\* whatever fails and in whatever order workers and main thread run.
THEOREM ConnectionsListedOnce == Spec => []ListedOnce
<1>1. PoolInv => ListedOnce
  <2>1. ASSUME PoolInv
        PROVE  DOMAIN Items = 1 .. size /\ Len(Items) = size
    BY <2>1, ListFactsNow DEF PoolInv
  <2> QED
    BY <2>1 DEF PoolInv, Listed, ListedOnce
<1> QED
  BY <1>1, PoolInvariance, PTL

\* No client is refused when a listed connection was CLOSED as the clean-up
\* began, however the workers run during the clean-up.
THEOREM RefusalsAreJustified == Spec => RefusedOnlyWhenFull
<1>1. PoolInv' /\ [Next]_vars => [pc' = "refuse" => wasClosed = {}]_vars
  <2> SUFFICES ASSUME PoolInv', [Next]_vars, pc' = "refuse", ~UNCHANGED vars
               PROVE  wasClosed = {}
    OBVIOUS
  <2>1. wasClosed' = {}
    BY DEF PoolInv, Cleaned
  <2>2. wasClosed' = wasClosed
    BY DEF Next, MainStep, accept_handler, ScanConnection, ScanEnds, FreeConnection,
           CleanupEnds, Refuse, NewConnection, MarkClosed, CloseSock, main
  <2> QED
    BY <2>1, <2>2
<1> QED
  BY <1>1, PoolInvariance, PTL DEF Spec, RefusedOnlyWhenFull

-----------------------------------------------------------------------------
(* The cells implement the list that users see *)

LEMMA ListStep ==
  ASSUME PoolInv, [Next]_vars
  PROVE  damaged' \/ [Sequence!Next]_(Sequence!vars)
<1> SUFFICES ASSUME ~damaged'
             PROVE  [Sequence!Next]_(Sequence!vars)
  OBVIOUS
<1>1. CASE UNCHANGED list
  <2>1. Items' = Items /\ Pos' = Pos
    BY <1>1, ListSame DEF PoolInv
  <2> QED
    BY <2>1 DEF Sequence!vars
<1>2. CASE LinkedList_Next
  <2>1. Items' = Items /\ Pos' = (IF Pos = Len(Items) THEN 0 ELSE Pos + 1)
    BY <1>2, ListNext, ListFactsNow DEF PoolInv
  <2> QED
    BY <2>1 DEF Sequence!Next, Sequence!Step
<1>3. ASSUME ~damaged, NEW c \in Conn, LinkedList_Remove(c)
      PROVE  [Sequence!Next]_(Sequence!vars)
  <2>1. CASE UNCHANGED list
    BY <1>1, <2>1
  <2>2. CASE Pos' = 0 /\ \E k \in DOMAIN Items : Items' = RemoveAt(Items, k)
    BY <2>2 DEF RemoveAt, Sequence!RemoveAt, Sequence!Next, Sequence!RemoveNth
  <2>3. \/ UNCHANGED list
        \/ Pos' = 0 /\ \E k \in DOMAIN Items : Items' = RemoveAt(Items, k)
    <3>1. ListInv
      BY DEF PoolInv
    <3>2. \/ UNCHANGED list /\ \A n \in DOMAIN Items : Items[n] # c
          \/ /\ ListInv' /\ size' = size - 1 /\ ptr' = Null /\ Pos' = 0
             /\ \E k \in DOMAIN Items : Items[k] = c /\ Items' = RemoveAt(Items, k)
      BY <1>3, <3>1, ListRemove
    <3> QED
      BY <3>2, Zenon
  <2> QED
    BY <2>1, <2>2, <2>3
<1>4. ASSUME ~damaged, NEW c \in Conn, LinkedList_Add(c)
      PROVE  [Sequence!Next]_(Sequence!vars)
  <2>1. c \in Entry /\ Items' = Append(Items, c) /\ Pos' = Pos
    BY <1>4, ListAdd DEF PoolInv, Conn
  <2> QED
    BY <2>1 DEF Sequence!Next, Sequence!Add
<1>5. CASE LinkedList_AddFails
  <2>1. Items' = Items /\ Pos' = Pos
    BY <1>5, ListAddFails DEF PoolInv
  <2> QED
    BY <2>1 DEF Sequence!vars
<1>6. CASE UNCHANGED vars
  BY <1>1, <1>6 DEF vars
<1>7. CASE ~raced /\ ~damaged /\ MainStep
  <2>1. CASE FreeConnection
    <3>1. Head(tobeClosed) \in Conn /\ LinkedList_Remove(Head(tobeClosed))
      <4>1. PICK p \in Seq(Conn) : p = tobeClosed /\ p # <<>>
        BY <2>1 DEF PoolInv, Types, FreeConnection
      <4>2. Head(p) \in Conn
        BY <4>1
      <4> QED
        BY <2>1, <4>1, <4>2 DEF FreeConnection
    <3> QED
      BY <1>3, <1>7, <3>1
  <2>2. CASE NewConnection
    BY <1>1, <1>4, <1>5, <1>7, <2>2 DEF NewConnection
  <2>3. CASE accept_handler \/ CleanupEnds \/ Refuse
    BY <1>1, <2>3 DEF accept_handler, CleanupEnds, Refuse
  <2>4. CASE ScanConnection \/ ScanEnds
    BY <1>2, <2>4 DEF ScanConnection, ScanEnds
  <2> QED
    BY <1>7, <2>1, <2>2, <2>3, <2>4 DEF MainStep
<1>8. CASE ~raced /\ ~damaged /\ \E w \in Worker : MarkClosed(w) \/ CloseSock(w)
  BY <1>1, <1>8 DEF MarkClosed, CloseSock
<1> QED
  BY <1>6, <1>7, <1>8 DEF Next

\* Every operation on the cells is an operation on the list with one cursor,
\* or none, until a failed allocation loses the tail.
THEOREM ListIsSequence == Spec => ImplementsList
<1>1. Init => Sequence!Init
  <2> SUFFICES ASSUME Init
               PROVE  Items = <<>> /\ Pos = 0
    BY DEF Sequence!Init
  <2> QED
    BY ListStart DEF Init
<1>2. PoolInv /\ [Next]_vars => [damaged' \/ [Sequence!Next]_(Sequence!vars)]_list
  BY ListStep
<1> QED
  BY <1>1, <1>2, PoolInvariance, PTL DEF Spec, ImplementsList
=============================================================================
