---------------------------- MODULE MCPaneLayout ----------------------------
(* Small instances of PaneLayout for TLC.                                  *)
EXTENDS PaneLayout

CONSTANTS s1, s2

TwoSessions == {s1, s2}
TwoSizes == {<<900, 500>>, <<600, 400>>}
SomePositions == {0, 700}
SessionSymmetry == Permutations(Sessions)
=============================================================================
