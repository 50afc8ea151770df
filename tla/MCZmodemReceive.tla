-------------------------- MODULE MCZmodemReceive ---------------------------
(* Two files, the first in two subpackets. *)
EXTENDS ZmodemReceive

MCSize == <<2, 1>>
=============================================================================
