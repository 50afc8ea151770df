--------------------------- MODULE MCConfigStore ----------------------------
(* One host and a second user, two group names beside "default", files of two
   entries and a configuration of an older version. *)
EXTENDS ConfigStore

MCSession(id, auth, value, layers) ==
  [id |-> id, name |-> "n", host |-> "h", user |-> 2, auth |-> auth, group |-> 0,
   secret |-> [value |-> value, layers |-> layers]]
MCSshHost == <<[alias |-> "a", host |-> "h", user |-> 0, key |-> TRUE],
                [alias |-> "b", host |-> "h", user |-> 2, key |-> FALSE]>>
MCPasted == <<MCSession(0, "password", "q", <<>>), MCSession(0, "password", "", <<>>)>>
MCStarter == <<[no |-> 1, group |-> 2], [no |-> 2, group |-> 0]>>
(* One version kept passwords in the clear, the next with key 1. *)
MCConfig(layers, rev) ==
  [sessions |-> <<MCSession(1, "password", "p", layers)>>, groups |-> <<2>>, quick |-> <<>>,
   quickGroups |-> <<>>, history |-> <<1, 2, 1>>, dirs |-> <<>>, sidebar |-> "unset", rev |-> rev]
MCLegacy == {MCConfig(<<>>, 0), MCConfig(<<1>>, 1)}
(* Exports of an installation that could read its passwords and of one that
   could not; the second holds a session that is there already. *)
MCExport == {Exported(<<[MCSession(5, "password", "q", <<>>) EXCEPT !.user = 1]>>),
             Exported(<<MCSession(1, "password", "p", <<1>>),
                        [MCSession(2, "key", "q", <<1>>) EXCEPT !.user = 3]>>)}
=============================================================================
