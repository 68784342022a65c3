------------------------------ MODULE MCCdsHeap ------------------------------
(* Instance of CdsHeap for TLC: a file of two pages, and sizes that are     *)
(* zero, not a multiple of 8, a large part of a page, and one with which    *)
(* two objects fill the file to its last byte.                              *)
EXTENDS CdsHeap

MCSizes == {0, 9, 2001, 4048}
=============================================================================
