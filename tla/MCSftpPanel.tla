----------------------------- MODULE MCSftpPanel -----------------------------
(* A small instance of SftpPanel for TLC: "/" and the login's home.        *)
EXTENDS SftpPanel

CONSTANTS root, home, q1

TwoDirs == {root, home}
NoneEmpty == {}
OneSearch == {q1}
=============================================================================
