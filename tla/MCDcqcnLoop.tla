----------------------------- MODULE MCDcqcnLoop -----------------------------
(***************************************************************************)
(* Small instances of DcqcnLoop for TLC.                                   *)
(***************************************************************************)
EXTENDS DcqcnLoop

\* The constructor may read any value; one below and one above the counter.
SomeGarbage == {-100, 100}
=============================================================================
