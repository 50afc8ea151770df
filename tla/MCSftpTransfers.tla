--------------------------- MODULE MCSftpTransfers ---------------------------
(* A small instance of SftpTransfers for TLC: a job of any kind beside one *)
(* that holds up the command loop while it moves its file.                 *)
EXTENDS SftpTransfers

CONSTANTS j1, j2

TwoJobs == {j1, j2}
AnyBesideOne == [j \in TwoJobs |-> IF j = j1 THEN AllKinds ELSE {"open"}]
=============================================================================
