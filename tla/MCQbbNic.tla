------------------------------- MODULE MCQbbNic -------------------------------
(***************************************************************************)
(* Classes of the flows for the runs of QbbNic.                            *)
(***************************************************************************)
EXTENDS QbbNic

Class2 == <<3, 4>>
=============================================================================
