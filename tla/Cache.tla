------------------------------- MODULE Cache -------------------------------
(***************************************************************************)
(* What the store promises its clients, without slots, chains, locks or    *)
(* reference counts.  A key maps to at most one value.  A client that hits *)
(* gets the value stored under exactly that key, and keeps a stable copy   *)
(* until it gives it back, whatever happens to the key meanwhile.  The     *)
(* store is a cache: an entry may go at any moment (delete, expiry,        *)
(* eviction, or the replaced value just before the new one appears).       *)
(***************************************************************************)
CONSTANTS Key, Value, Client, Absent

VARIABLES
  store,   \* what a client would find under each key
  held     \* the entry each client is reading, if any

vars == <<store, held>>

Entry == [key : Key, value : Value]

Init ==
  /\ store = [k \in Key |-> Absent]
  /\ held = [c \in Client |-> Absent]

Store(k, v) ==
  /\ store[k] = Absent
  /\ store' = [store EXCEPT ![k] = v]
  /\ UNCHANGED held

Drop(k) ==
  /\ store[k] # Absent
  /\ store' = [store EXCEPT ![k] = Absent]
  /\ UNCHANGED held

Hit(c, k) ==
  /\ held[c] = Absent
  /\ store[k] # Absent
  /\ held' = [held EXCEPT ![c] = [key |-> k, value |-> store[k]]]
  /\ UNCHANGED store

Release(c) ==
  /\ held[c] # Absent
  /\ held' = [held EXCEPT ![c] = Absent]
  /\ UNCHANGED store

Next ==
  \/ \E k \in Key : Drop(k) \/ \E v \in Value : Store(k, v)
  \/ \E c \in Client : Release(c) \/ \E k \in Key : Hit(c, k)

Spec == Init /\ [][Next]_vars
=============================================================================
