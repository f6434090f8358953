------------------------------ MODULE MCGoBackN ------------------------------
(***************************************************************************)
(* Attribute settings for the runs of GoBackN.                             *)
(***************************************************************************)
EXTENDS GoBackN

Mode(chunk, interval, wait, back, read) ==
    [L2ChunkSize |-> chunk, L2AckInterval |-> interval, L2WaitForAck |-> wait,
     L2BackToZero |-> back, L2TestRead |-> read]

\* Go-back-to-0 and go-back-N, waiting for each message or streaming; and the
\* settings documented as "disable": no ACK interval, no chunks.
AllModes ==
    {Mode(3, 1, TRUE, TRUE, FALSE), Mode(3, 2, TRUE, FALSE, FALSE),
     Mode(3, 2, FALSE, TRUE, TRUE), Mode(3, 2, FALSE, FALSE, FALSE),
     Mode(3, 0, FALSE, FALSE, FALSE), Mode(0, 2, FALSE, FALSE, FALSE)}

\* Messages of two packets, waiting for each or streaming.
ShortMessages == {Mode(2, 3, TRUE, FALSE, FALSE), Mode(2, 3, FALSE, FALSE, FALSE)}
=============================================================================
