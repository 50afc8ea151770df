----------------------------- MODULE PromptLine -----------------------------
(***************************************************************************)
(* What the prompt queues of the user interface promise, those for host    *)
(* keys, credentials and verification codes alike: one dialog at a time,   *)
(* for the topic (a host, a session) that was asked about first; a place   *)
(* in line for each topic, however many connections ask about it; and an   *)
(* answer that ends the wait of all who ask about its topic and of nobody  *)
(* else.                                                                   *)
(***************************************************************************)
EXTENDS Sequences

CONSTANTS
  Asker,         (* connections                                            *)
  TopicOf        (* what each of them asks about                           *)

VARIABLES
  line,          (* the topics that await an answer                        *)
  waiting,       (* who waits for one                                      *)
  shown          (* the topic of the open dialog, if there is one          *)

vars == <<line, waiting, shown>>

Init ==
  /\ line = <<>>
  /\ waiting = {}
  /\ shown = <<>>

InLine(t) == \E i \in DOMAIN line : line[i] = t
ShowsFront == shown' = IF line' = <<>> THEN <<>> ELSE <<Head(line')>>

(* A question reaches the UI.  Who asked may have been aborted meanwhile.  *)
Asks(a) ==
  /\ a \notin waiting
  /\ line' = IF InLine(TopicOf[a]) THEN line ELSE Append(line, TopicOf[a])
  /\ waiting' \in {waiting, waiting \cup {a}}
  /\ ShowsFront

(* The user answers the dialog.                                            *)
Answer ==
  /\ line # <<>>
  /\ line' = Tail(line)
  /\ waiting' = {a \in waiting : TopicOf[a] # Head(line)}
  /\ ShowsFront

(* A connection is aborted while it waits; its question stays.             *)
Leaves(a) ==
  /\ a \in waiting
  /\ waiting' = waiting \ {a}
  /\ UNCHANGED <<line, shown>>

(* The program is started again.                                           *)
Restart ==
  /\ line' = <<>>
  /\ waiting' = {}
  /\ shown' = <<>>

Next ==
  \/ \E a \in Asker : Asks(a) \/ Leaves(a)
  \/ Answer
  \/ Restart

Spec == Init /\ [][Next]_vars
=============================================================================
