------------------------------ MODULE MCDirTree -----------------------------
(* Two directories, one with room for another, so that a rename can carry it from
   one to the other's parent and a name can come back. *)
EXTENDS DirTree

MCPath == {<<>>, <<"a">>, <<"b">>, <<"a", "c">>}
MCHome == <<"a">>
=============================================================================
