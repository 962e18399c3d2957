----------------------------- MODULE LinkedList -----------------------------
(***************************************************************************)
(* The doubly linked list of src/src/myclib/linkedlist.c, with the cursor  *)
(* of LinkedList_Next inside it.  It has no thread of its own: the module  *)
(* gives the operations, which ConnectionPool uses as the code does.       *)
(***************************************************************************)
EXTENDS Integers, Sequences, FiniteSets, SequencesExt

CONSTANTS
  Entry,      \* what the list holds
  Cell,       \* addresses of list entries
  Null        \* NULL, and what an address holds that is not allocated

ListEntry == [entry : Entry, next : Cell \cup {Null}, prev : Cell \cup {Null}]

ASSUME NullAssumption == Null \notin Entry \cup Cell \cup ListEntry
ASSUME CellAssumption == IsFiniteSet(Cell)

VARIABLES
  cell,       \* the contents of each list entry
  head, tail, ptr, size,
  damaged     \* has a failed allocation lost the tail?

list == <<cell, head, tail, ptr, size, damaged>>

LinkedList_New ==
  /\ cell = [c \in Cell |-> Null]
  /\ head = Null /\ tail = Null /\ ptr = Null
  /\ size = 0
  /\ damaged = FALSE

\* The n-th cell from the head, Null behind the last one.
Nth[n \in 1 .. Cardinality(Cell)] ==
  IF n = 1 THEN head
  ELSE IF Nth[n - 1] = Null THEN Null ELSE cell[Nth[n - 1]].next
Chain == [n \in 1 .. Cardinality({m \in DOMAIN Nth : Nth[m] # Null}) |-> Nth[n]]
Items == [n \in DOMAIN Chain |-> cell[Chain[n]].entry]

\* The cell LinkedList_Next goes to.
Following == IF ptr = Null THEN head ELSE cell[ptr].next

LinkedList_Next ==
  /\ ptr' = Following
  /\ UNCHANGED <<cell, head, tail, size, damaged>>

\* The cursor if it is at the entry, or else the first cell that has it.
Target(e) ==
  IF ptr # Null /\ cell[ptr].entry = e THEN {ptr}
  ELSE {Chain[n] : n \in {m \in DOMAIN Chain :
          Items[m] = e /\ \A l \in 1 .. (m - 1) : Items[l] # e}}

\* Faulty variant: the new head still has a predecessor.
UnlinkKeepsPrev(t) ==
  LET before == cell[t].prev
      after == cell[t].next
  IN
  \/ /\ t = head /\ size = 1
     /\ head' = Null /\ tail' = Null
     /\ cell' = [cell EXCEPT ![t] = Null]
  \/ /\ t = head /\ size # 1
     /\ head' = after /\ tail' = tail
     /\ cell' = [cell EXCEPT ![t] = Null]
  \/ /\ t # head /\ t = tail
     /\ tail' = before /\ head' = head
     /\ cell' = [cell EXCEPT ![before].next = Null, ![t] = Null]
  \/ /\ t # head /\ t # tail
     /\ cell' = [cell EXCEPT ![before].next = after, ![after].prev = before, ![t] = Null]
     /\ UNCHANGED <<head, tail>>

\* A cell leaves the list and is freed: the only one, the first, the last, or
\* one in between.
Unlink(t) ==
  LET before == cell[t].prev
      after == cell[t].next
  IN
  \/ /\ t = head /\ size = 1
     /\ head' = Null /\ tail' = Null
     /\ cell' = [cell EXCEPT ![t] = Null]
  \/ /\ t = head /\ size # 1
     /\ head' = after /\ tail' = tail
     /\ cell' = [cell EXCEPT ![after].prev = Null, ![t] = Null]
  \/ /\ t # head /\ t = tail
     /\ tail' = before /\ head' = head
     /\ cell' = [cell EXCEPT ![before].next = Null, ![t] = Null]
  \/ /\ t # head /\ t # tail
     /\ cell' = [cell EXCEPT ![before].next = after, ![after].prev = before, ![t] = Null]
     /\ UNCHANGED <<head, tail>>

LinkedList_Remove(e) ==
  \/ Target(e) = {} /\ UNCHANGED list
  \/ \E t \in Target(e) :
       /\ Unlink(t)
       /\ size' = size - 1
       /\ ptr' = Null
       /\ UNCHANGED damaged

\* Faulty variant: the tail stays where it is.
AddKeepsTail(e) ==
  \E c \in Cell :
    /\ cell[c] = Null
    /\ head' = (IF head = Null THEN c ELSE head)
    /\ tail' = (IF head = Null THEN c ELSE tail)
    /\ cell' = IF head = Null
               THEN [cell EXCEPT ![c] = [entry |-> e, next |-> Null, prev |-> Null]]
               ELSE [cell EXCEPT ![tail].next = c,
                                 ![c] = [entry |-> e, next |-> Null, prev |-> tail]]
    /\ size' = size + 1
    /\ UNCHANGED <<ptr, damaged>>

\* An entry is added behind the last one.
LinkedList_Add(e) ==
  \E c \in Cell :
    /\ cell[c] = Null
    /\ head' = (IF head = Null THEN c ELSE head)
    /\ tail' = c
    /\ cell' = IF head = Null
               THEN [cell EXCEPT ![c] = [entry |-> e, next |-> Null, prev |-> Null]]
               ELSE [cell EXCEPT ![tail].next = c,
                                 ![c] = [entry |-> e, next |-> Null, prev |-> tail]]
    /\ size' = size + 1
    /\ UNCHANGED <<ptr, damaged>>

\* No memory for the new entry: tail has been overwritten with NULL by then,
\* and a list that is not empty is not usable any more.
LinkedList_AddFails ==
  /\ tail' = Null
  /\ damaged' = (head # Null)
  /\ UNCHANGED <<cell, head, ptr, size>>

-----------------------------------------------------------------------------
(* Properties *)

\* Until an allocation fails, the list read backwards is the list, the tail
\* is its end, size counts it, the cursor is in it, and nothing else is
\* allocated: no cell leaks and none is freed that the list still reaches.
WellFormed ==
  ~damaged =>
    /\ size = Len(Chain)
    /\ tail = (IF Chain = <<>> THEN Null ELSE Last(Chain))
    /\ \A n \in DOMAIN Chain :
         cell[Chain[n]].prev = (IF n = 1 THEN Null ELSE Chain[n - 1])
    /\ {c \in Cell : cell[c] # Null} = Range(Chain)
    /\ ptr \in Range(Chain) \cup {Null}

\* The place of the cursor, 0 before the first entry.
Pos == IF ptr = Null THEN 0 ELSE SelectInSeq(Chain, LAMBDA c : c = ptr)

Sequence == INSTANCE List WITH items <- Items, at <- Pos

\* The cells with their pointers implement a list with a cursor.
ImplementsList ==
  Sequence!Init /\ [][damaged' \/ [Sequence!Next]_(Sequence!vars)]_list
=============================================================================
