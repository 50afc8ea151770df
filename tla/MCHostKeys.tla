----------------------------- MODULE MCHostKeys -----------------------------
(* Small instances of HostKeys for TLC: the shell and the file connection  *)
(* of one tab, and a connection to a second host.                          *)
EXTENDS HostKeys

CONSTANTS shell1, sftp1, shell2, h1, h2, k1, k2

Three == {shell1, sftp1, shell2}
SftpOnly == {sftp1}
TwoHosts == {h1, h2}
TwoKeys == {k1, k2}
OneKey == {k1}
KeysOfHosts == [h \in TwoHosts |-> IF h = h1 THEN TwoKeys ELSE OneKey]
HostOfThree == [c \in Three |-> IF c = shell2 THEN h2 ELSE h1]
=============================================================================
