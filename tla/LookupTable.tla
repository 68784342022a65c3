------------------------------ MODULE LookupTable ------------------------------
(***************************************************************************)
(* What PyCDS_MoveInRec needs of a lookup table: a map from pointers to    *)
(* pointers that answers NULL for a key it does not hold.  A key is only   *)
(* inserted after a lookup did not find it, and an insertion that runs out *)
(* of memory goes unnoticed.                                               *)
(***************************************************************************)
CONSTANTS Keys, Values, NULL        \* NULL is not a value

VARIABLES map, ret

vars == <<map, ret>>

Init == /\ map = [k \in Keys |-> NULL]
        /\ ret = NULL

Insert(k, v) == /\ map[k] = NULL
                /\ map' \in {map, [map EXCEPT ![k] = v]}
                /\ ret' = NULL

Get(k) == /\ ret' = map[k]
          /\ UNCHANGED map

\* The next move-in has a table of its own.
Clear == /\ map' = [k \in Keys |-> NULL]
         /\ ret' = NULL

Next == \/ \E k \in Keys : Get(k) \/ \E v \in Values : Insert(k, v)
        \/ Clear

Spec == Init /\ [][Next]_vars
=============================================================================
