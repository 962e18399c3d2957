---------------------------- MODULE MCHashTable ----------------------------
(* Small instances of HashTable for TLC. *)
EXTENDS HashTable, TLC

CONSTANTS k1, k2

\* All keys in one chain; two keys in two slots of three.  Hashes that reach
\* Size make the reduction to a slot matter.
OneChain == [k \in Key |-> 3]
OwnSlots == [k \in Key |-> IF k = k1 THEN 2 ELSE 3]

Interchangeable == Permutations(Worker) \cup Permutations(Item)
\* In one chain keys are interchangeable, too.
AllInterchangeable == Interchangeable \cup Permutations(Key)
=============================================================================
