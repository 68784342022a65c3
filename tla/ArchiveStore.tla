----------------------------- MODULE ArchiveStore -----------------------------
(***************************************************************************)
(* What an archive promises: a store that is written at most once, in one  *)
(* step, with the object that was moved in, and handed out unchanged to    *)
(* every process that loads it.  No address, no copy and no string list    *)
(* appears here; RoundTrip implements this specification.                  *)
(***************************************************************************)
CONSTANTS
    Values,         \* what an object may stand for
    Nothing         \* no object: an empty archive, or none loaded

VARIABLES
    input,          \* the object passed to _move_in
    store,          \* the object in the file, or Nothing
    outcome,        \* of the dump: "pending", "ok", "error" or "dead"
    loaded          \* the object a loading process holds, or Nothing

vars == <<input, store, outcome, loaded>>

Init == /\ input \in Values
        /\ store = Nothing
        /\ outcome = "pending"
        /\ loaded = Nothing

\* The object appears in the archive all at once.
Publish == /\ outcome = "pending"
           /\ store = Nothing
           /\ store' = input
           /\ UNCHANGED <<input, outcome, loaded>>

\* _move_in returns: without an exception when the object is there, and with
\* one when nothing is.
Return == /\ outcome = "pending"
          /\ outcome' = IF store = Nothing THEN "error" ELSE "ok"
          /\ UNCHANGED <<input, store, loaded>>

\* The dumping process ends before that.
Die == /\ outcome = "pending"
       /\ outcome' = "dead"
       /\ UNCHANGED <<input, store, loaded>>

Load == /\ outcome # "pending"
        /\ loaded = Nothing
        /\ loaded' = store
        /\ UNCHANGED <<input, store, outcome>>

Exit == /\ loaded' = Nothing
        /\ UNCHANGED <<input, store, outcome>>

Next == Publish \/ Return \/ Die \/ Load \/ Exit

Spec == Init /\ [][Next]_vars
=============================================================================
