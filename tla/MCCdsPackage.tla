----------------------------- MODULE MCCdsPackage -----------------------------
(* Instance of CdsPackage for TLC: each mode with and without the path that  *)
(* it needs, and verbosities that are set, malformed or out of range.        *)
EXTENDS CdsPackage

Env(parse, verbose, optimized, mode, list, archive) ==
    [parse |-> parse, verbose |-> verbose, optimized |-> optimized,
     mode |-> mode, list |-> list, archive |-> archive]

MCEnvironments ==
    {Env("unset", 0, FALSE, m, p, p) :
         m \in {"unset", "TRACE", "DUMP", "SHARE", "MANUALLY"}, p \in BOOLEAN}
    \cup {Env("malformed", 0, FALSE, "SHARE", TRUE, TRUE)}
    \cup {Env("number", v, o, "TRACE", TRUE, FALSE) : v \in {1, 5}, o \in BOOLEAN}

MCModeArgs    == Modes
MCVerboseArgs == {0, 1, 5}
=============================================================================
