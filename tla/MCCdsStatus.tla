----------------------------- MODULE MCCdsStatus -----------------------------
(* Instance of CdsStatus for TLC: every mode the code knows and one it does *)
(* not, verbosities on both sides of the range, and two descriptors beyond  *)
(* stdin, stdout and stderr.                                                *)
EXTENDS CdsStatus

MCModeArgs    == Modes \cup {4}
MCVerboseArgs == {-1, 0, 2, 3}
=============================================================================
