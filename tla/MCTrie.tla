------------------------------- MODULE MCTrie -------------------------------
(* Keys for TLC: prefixes of one another, and nodes with several children at *)
(* two depths, so that nodes move with their grandchildren.  Of characters   *)
(* up to 7, those from 4 on come back as others.                             *)
EXTENDS Trie

Keys == {<<1, 2>>, <<1, 2, 1>>, <<1, 1>>, <<2, 6>>, <<0>>}
=============================================================================
