-------------------------- MODULE MCConnectionPool --------------------------
(* A small server for TLC: one more connection than the list may hold. *)
EXTENDS ConnectionPool

Interchangeable == Permutations(Entry) \cup Permutations(Cell)
=============================================================================
