----------------------------- MODULE MCHashTable -----------------------------
(* Instance of HashTable for TLC: one-byte pointers, whose rotation mixes   *)
(* both halves, and a table that starts with two buckets, so that six keys  *)
(* make it grow twice; most of them collide before it grows.                *)
EXTENDS HashTable

MCKeys == {16, 48, 144, 17, 80, 49}
=============================================================================
