-------------------------------- MODULE List --------------------------------
(***************************************************************************)
(* A list with one cursor, as its users see it: entries are added at the   *)
(* end, a step of the cursor goes to the next entry or, after the last, to *)
(* the place before the first, and a removal takes the cursor back there.  *)
(***************************************************************************)
EXTENDS Naturals, Sequences, SequencesExt

CONSTANT Entry

VARIABLES items, at

vars == <<items, at>>

Init == items = <<>> /\ at = 0

Add(e) == items' = Append(items, e) /\ UNCHANGED at

Step ==
  /\ at' = IF at = Len(items) THEN 0 ELSE at + 1
  /\ UNCHANGED items

RemoveNth(n) == items' = RemoveAt(items, n) /\ at' = 0

Next ==
  \/ \E e \in Entry : Add(e)
  \/ Step
  \/ \E n \in DOMAIN items : RemoveNth(n)

Spec == Init /\ [][Next]_vars
=============================================================================
