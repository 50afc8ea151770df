--------------------------- MODULE MCLoginPrompts ---------------------------
(* Two terminals of one session; the file worker of a tab of another, which may be
   aborted and started again. *)
EXTENDS LoginPrompts

MCSession == {"s", "k"}
MCConn == {"t1", "t2", "f"}
MCSessionOf == [c \in MCConn |-> IF c = "f" THEN "k" ELSE "s"]
MCShell == {"t1", "t2"}
MCMaxStarts == [c \in MCConn |-> IF c = "f" THEN 2 ELSE 1]
MCKeyAuth == {"k"}
MCSaved == {[s \in MCSession |-> [user |-> IF s = "k" THEN "" ELSE "root", password |-> ""]]}
MCRequest == {<<"password", "code">>}
=============================================================================
