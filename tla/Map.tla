-------------------------------- MODULE Map --------------------------------
(***************************************************************************)
(* A map from keys to records, as its users see it: a key is set, and the  *)
(* record it had before is handed back.                                    *)
(***************************************************************************)
CONSTANTS Key, Record, Null

VARIABLES
  store,   \* what a search would find under each key
  old      \* the record the last Set has replaced

vars == <<store, old>>

Init == store = [k \in Key |-> Null] /\ old = Null

Set(k, r) ==
  /\ store' = [store EXCEPT ![k] = r]
  /\ old' = store[k]

Spec == Init /\ [][\E k \in Key, r \in Record : Set(k, r)]_vars
=============================================================================
