---------------------------- MODULE MCTabSession ----------------------------
(* Small instances of TabSession for TLC.                                  *)
EXTENDS TabSession

CONSTANT t1

OneTab == {t1}
AllKinds == {"ssh", "telnet", "serial", "local"}
=============================================================================
