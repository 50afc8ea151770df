------------------------------ MODULE HostKeys ------------------------------
(***************************************************************************)
(* Host-key verification.  Every SSH connection (a tab's shell and its     *)
(* file browser are two) checks the key the server presents against the    *)
(* known_hosts file.  A key that does not match is put to the user in a    *)
(* dialog, through the event pump and the UI thread's queue of prompts,    *)
(* while the connection waits; after an accept the connection's own thread *)
(* rewrites the file.  Connections run concurrently, and the file has no   *)
(* lock.                                                                   *)
(***************************************************************************)
EXTENDS Naturals, Sequences, FiniteSets

CONSTANTS
  Connections,   (* connection attempts that can be under way at once      *)
  Abortable,     (* those of file workers, which SftpHandle::close aborts   *)
  Hosts,         (* host:port pairs                                        *)
  Keys,          (* public keys a server may present                       *)
  HostOf,        (* the host a connection goes to                          *)
  KeysOf,        (* the keys a host's servers present                      *)
  NoKey          (* the file has no line for a host                        *)

ASSUME AbortableAssumption == Abortable \subseteq Connections
ASSUME HostOfAssumption == HostOf \in [Connections -> Hosts]
ASSUME KeysOfAssumption == KeysOf \in [Hosts -> SUBSET Keys]
ASSUME NoKeyAssumption == NoKey \notin Keys

VARIABLES
  file,          (* known_hosts: the stored key of each host               *)
  torn,          (* a writer has truncated the file and not yet filled it  *)
  phase,         (* where each connection is                               *)
  key,           (* the key its server presented, while it matters          *)
  seenChanged,   (* verify found another key stored (HostKeyStatus)        *)
  snap,          (* what a connection in remember() read from the file     *)
  inFlight,      (* prompts between the worker and the UI thread           *)
  queue,         (* HOSTKEY_QUEUE; the front one is shown                   *)
  dialog,        (* what the dialog shows, <<>> while it is closed          *)
  decided        (* HOSTKEY_DECIDED: the answers remembered for this run   *)

vars == <<file, torn, phase, key, seenChanged, snap, inFlight, queue, dialog,
          decided>>

connVars == <<phase, key, seenChanged, snap>>
fileVars == <<file, torn>>
uiVars == <<queue, dialog, decided>>

Store == [Hosts -> Keys \cup {NoKey}]
EmptyStore == [h \in Hosts |-> NoKey]
Undecided == [h \in Hosts |-> "undecided"]
Phases == {"idle", "asking", "accepted", "loaded", "writing", "trusted",
           "refused", "aborted"}
Prompt == [host : Hosts, key : Keys, changed : BOOLEAN]
Pending == [prompt : Prompt, responders : SUBSET Connections]

TypeOK ==
  /\ file \in Store
  /\ torn \in BOOLEAN
  /\ phase \in [Connections -> Phases]
  /\ key \in [Connections -> Keys \cup {NoKey}]
  /\ seenChanged \in [Connections -> BOOLEAN]
  /\ snap \in [Connections -> Store]
  /\ inFlight \subseteq Connections
  /\ queue \in Seq(Pending)
  /\ dialog \in Seq(Prompt)
  /\ decided \in [Hosts -> {"undecided", "accepted", "refused"}]

Init ==
  /\ file \in {f \in Store : \A h \in Hosts : f[h] \in KeysOf[h] \cup {NoKey}}
  /\ torn = FALSE
  /\ phase = [c \in Connections |-> "idle"]
  /\ key = [c \in Connections |-> NoKey]
  /\ seenChanged = [c \in Connections |-> FALSE]
  /\ snap = [c \in Connections |-> EmptyStore]
  /\ inFlight = {}
  /\ queue = <<>>
  /\ dialog = <<>>
  /\ decided = Undecided

-----------------------------------------------------------------------------
(* The connection's task.                                                  *)

(* load(): an empty file, as between truncation and write, has no entries. *)
Loaded == IF torn THEN EmptyStore ELSE file

(* known_hosts::verify.                                                    *)
Verify(h, k) ==
  CASE Loaded[h] = k     -> "match"
    [] Loaded[h] = NoKey -> "unknown"
    [] OTHER             -> "changed"

(* verify_host_key up to its await: a match is trusted silently, anything  *)
(* else is sent to the UI.                                                 *)
TrustsSilently(c, k) ==
  /\ Verify(HostOf[c], k) = "match"
  /\ phase' = [phase EXCEPT ![c] = "trusted"]
  /\ UNCHANGED <<key, seenChanged, inFlight>>

AsksUser(c, k) ==
  /\ Verify(HostOf[c], k) # "match"
  /\ key' = [key EXCEPT ![c] = k]
  /\ seenChanged' = [seenChanged EXCEPT ![c] = (Verify(HostOf[c], k) = "changed")]
  /\ phase' = [phase EXCEPT ![c] = "asking"]
  /\ inFlight' = inFlight \cup {c}

VerifyHostKey(c, k) ==
  /\ phase[c] = "idle"
  /\ TrustsSilently(c, k) \/ AsksUser(c, k)
  /\ UNCHANGED <<fileVars, snap, uiVars>>

(* verify_host_key returns: its locals are gone.                           *)
Forgets(c) ==
  /\ key' = [key EXCEPT ![c] = NoKey]
  /\ seenChanged' = [seenChanged EXCEPT ![c] = FALSE]
  /\ snap' = [snap EXCEPT ![c] = EmptyStore]

(* remember(): read the whole file ...                                     *)
RememberLoads(c) ==
  /\ phase[c] = "accepted"
  /\ phase' = [phase EXCEPT ![c] = "loaded"]
  /\ snap' = [snap EXCEPT ![c] = Loaded]
  /\ UNCHANGED <<fileVars, key, seenChanged, inFlight, uiVars>>

(* ... truncate it ...                                                     *)
RememberTruncates(c) ==
  /\ phase[c] = "loaded"
  /\ phase' = [phase EXCEPT ![c] = "writing"]
  /\ torn' = TRUE
  /\ UNCHANGED <<file, key, seenChanged, snap, inFlight, uiVars>>

(* ... and write it with this host's line replaced.                        *)
RememberWrites(c) ==
  /\ phase[c] = "writing"
  /\ phase' = [phase EXCEPT ![c] = "trusted"]
  /\ file' = [snap[c] EXCEPT ![HostOf[c]] = key[c]]
  /\ torn' = FALSE
  /\ Forgets(c)
  /\ UNCHANGED <<inFlight, uiVars>>

(* A file that cannot be opened, or not written to its end, is logged and   *)
(* the connection goes on; its own line, the last one, is not in the file. *)
CutOff(store, kept) == [h \in Hosts |-> IF h \in kept THEN store[h] ELSE NoKey]
RememberFails(c) ==
  /\ \/ phase[c] = "loaded" /\ UNCHANGED fileVars
     \/ /\ phase[c] = "writing" /\ torn' = FALSE
        /\ \E kept \in SUBSET (Hosts \ {HostOf[c]}) : file' = CutOff(snap[c], kept)
  /\ phase' = [phase EXCEPT ![c] = "trusted"]
  /\ Forgets(c)
  /\ UNCHANGED <<inFlight, uiVars>>

(* A later attempt of the tab, once this one has ended.                    *)
ConnectsAgain(c) ==
  /\ phase[c] \in {"trusted", "refused"}
  /\ phase' = [phase EXCEPT ![c] = "idle"]
  /\ Forgets(c)
  /\ UNCHANGED <<fileVars, inFlight, uiVars>>

(* The file worker's task is aborted at an await; its prompt stays.        *)
Aborts(c) ==
  /\ c \in Abortable
  /\ phase[c] \in {"asking", "accepted"}
  /\ phase' = [phase EXCEPT ![c] = "aborted"]
  /\ UNCHANGED <<fileVars, key, seenChanged, snap, inFlight, uiVars>>

-----------------------------------------------------------------------------
(* The UI thread.                                                          *)

(* Mutant: the answer goes to everyone who waits, whatever the host.       *)
Respond_Everyone(cs, answer) ==
  phase' = [c \in Connections |->
              IF phase[c] = "asking" THEN answer ELSE phase[c]]

(* HostKeyResponder::respond to a set of waiting connections; one whose    *)
(* task is gone does not hear it.                                          *)
Respond(cs, answer) ==
  phase' = [c \in Connections |->
              IF c \in cs /\ phase[c] = "asking" THEN answer ELSE phase[c]]

PromptOf(c) == [host |-> HostOf[c], key |-> key[c], changed |-> seenChanged[c]]

(* show_front_hostkey, or closing the dialog when nothing is queued.       *)
ShowFront(q) == dialog' = IF q = <<>> THEN <<>> ELSE <<Head(q).prompt>>

QueuedFor(h) == {i \in DOMAIN queue : queue[i].prompt.host = h}

(* A prompt is answered from this run's accepts, merged into the entry of  *)
(* the same host, or queued, and shown if it is the only one.              *)
AnswersFromThisRun(c, h) ==
  /\ decided[h] # "undecided"
  /\ Respond({c}, decided[h])
  /\ UNCHANGED <<queue, dialog>>

(* Mutant: the merged connection's responder is dropped.                   *)
MergesInto_DropsResponder(c, h) ==
  /\ decided[h] = "undecided" /\ QueuedFor(h) # {}
  /\ UNCHANGED <<queue, phase, dialog>>

MergesInto(c, h) ==
  /\ decided[h] = "undecided"
  /\ \E i \in QueuedFor(h) :
       queue' = [queue EXCEPT ![i].responders = @ \cup {c}]
  /\ UNCHANGED <<phase, dialog>>

(* Mutant: the newest prompt is shown over the one already open.           *)
Queues_ShowsNewest(c, h) ==
  /\ decided[h] = "undecided" /\ QueuedFor(h) = {}
  /\ queue' = Append(queue, [prompt |-> PromptOf(c), responders |-> {c}])
  /\ dialog' = <<PromptOf(c)>>
  /\ UNCHANGED phase

Queues(c, h) ==
  /\ decided[h] = "undecided" /\ QueuedFor(h) = {}
  /\ queue' = Append(queue, [prompt |-> PromptOf(c), responders |-> {c}])
  /\ IF queue = <<>> THEN ShowFront(queue') ELSE UNCHANGED dialog
  /\ UNCHANGED phase

(* enqueue_hostkey_prompt.                                                 *)
EnqueueHostkeyPrompt(c) ==
  /\ c \in inFlight
  /\ inFlight' = inFlight \ {c}
  /\ \/ AnswersFromThisRun(c, HostOf[c])
     \/ MergesInto(c, HostOf[c])
     \/ Queues(c, HostOf[c])
  /\ UNCHANGED <<fileVars, key, seenChanged, snap, decided>>

(* Mutant: rejects are remembered too, as before #152.                     *)
RemembersAnswer_Rejects(h, answer) == decided' = [decided EXCEPT ![h] = answer]

(* resolve_front_hostkey, from the two buttons of the dialog: an accept is *)
(* remembered for the run, a reject is not (#152).                         *)
RemembersAnswer(h, answer) ==
  decided' = IF answer = "accepted" THEN [decided EXCEPT ![h] = answer]
                                    ELSE decided

(* Mutant: the dialog is closed without a look at the queue.               *)
ResolveFrontHostkey_Closes(answer) ==
  /\ dialog # <<>>
  /\ RemembersAnswer(Head(queue).prompt.host, answer)
  /\ Respond(Head(queue).responders, answer)
  /\ queue' = Tail(queue)
  /\ dialog' = <<>>
  /\ UNCHANGED <<fileVars, key, seenChanged, snap, inFlight>>

ResolveFrontHostkey(answer) ==
  /\ dialog # <<>>
  /\ RemembersAnswer(Head(queue).prompt.host, answer)
  /\ Respond(Head(queue).responders, answer)
  /\ queue' = Tail(queue)
  /\ ShowFront(queue')
  /\ UNCHANGED <<fileVars, key, seenChanged, snap, inFlight>>

-----------------------------------------------------------------------------
(* The program ends, at any point, and is started again: only the file is  *)
(* left, as it is on the disk.                                             *)
Restart ==
  /\ file' = Loaded
  /\ torn' = FALSE
  /\ phase' = [c \in Connections |-> "idle"]
  /\ key' = [c \in Connections |-> NoKey]
  /\ seenChanged' = [c \in Connections |-> FALSE]
  /\ snap' = [c \in Connections |-> EmptyStore]
  /\ inFlight' = {}
  /\ queue' = <<>>
  /\ dialog' = <<>>
  /\ decided' = Undecided

ConnectionStep(c) ==
  \/ \E k \in KeysOf[HostOf[c]] : VerifyHostKey(c, k)
  \/ RememberLoads(c)  \/ RememberTruncates(c)
  \/ RememberWrites(c) \/ RememberFails(c)
  \/ ConnectsAgain(c)  \/ Aborts(c)

UserStep == \E answer \in {"accepted", "refused"} : ResolveFrontHostkey(answer)

Next ==
  \/ \E c \in Connections : ConnectionStep(c) \/ EnqueueHostkeyPrompt(c)
  \/ UserStep
  \/ Restart

(* The pump and the event loop deliver prompts; the user answers the       *)
(* dialog that is open.  Nothing is asked of the connections.              *)
Fairness ==
  /\ \A c \in Connections : WF_vars(EnqueueHostkeyPrompt(c))
  /\ WF_vars(UserStep)

Spec == Init /\ [][Next]_vars
FairSpec == Spec /\ Fairness

-----------------------------------------------------------------------------
(* Safety.                                                                 *)

(* The dialog is open exactly while a prompt is queued, and shows the      *)
(* front one: the answer goes to the prompt the user read.  An entry that  *)
(* is never shown blocks its connections, and all later prompts, for good. *)
DialogShowsFront ==
  dialog = IF queue = <<>> THEN <<>> ELSE <<Head(queue).prompt>>

(* At most one dialog per host: concurrent connections to a host share it, *)
(* and a host accepted in this run is not asked about again.               *)
OneDialogPerHost ==
  /\ \A i, j \in DOMAIN queue :
       queue[i].prompt.host = queue[j].prompt.host => i = j
  /\ \A i \in DOMAIN queue : decided[queue[i].prompt.host] = "undecided"

(* The state is one the code knows, and what is asked, shown and answered  *)
(* is the same prompt.                                                     *)
PromptsAreSound == TypeOK /\ DialogShowsFront /\ OneDialogPerHost

(* The places a connection's responder can be in.                          *)
Holders(c) == {i \in DOMAIN queue : c \in queue[i].responders}

(* No connection waits for an answer nobody owes it, or is owed two: its   *)
(* responder is on its way to the UI or in one entry, that of its host.    *)
WaitersAreOwedOne ==
  \A c \in Connections :
    /\ phase[c] = "asking" => (c \in inFlight) # (Holders(c) # {})
    /\ \A i, j \in Holders(c) : i = j
    /\ \A i \in Holders(c) : queue[i].prompt.host = HostOf[c]

(* A connection is refused only by the user rejecting a dialog it waits    *)
(* for: one dismissal does not poison later attempts (#152).               *)
RefusedOnlyByUser ==
  [][\A c \in Connections :
       phase[c] = "asking" /\ phase'[c] = "refused" =>
         /\ queue # <<>> /\ dialog = <<Head(queue).prompt>>
         /\ c \in Head(queue).responders
         /\ queue' = Tail(queue)]_vars

(* A connection only writes the key of a host the user accepted in this    *)
(* run, and the key is the one that connection was shown by its server: an *)
(* answer about one host lets no key of another in.  A write that fails    *)
(* leaves no key of that host.                                             *)
StoredOnlyAccepted ==
  [][\A c \in Connections :
       phase[c] = "writing" /\ phase'[c] = "trusted" =>
         decided[HostOf[c]] = "accepted" /\ file'[HostOf[c]] \in {key[c], NoKey}]_vars

(* Prompts are put in line and answered as PromptLine promises: the host   *)
(* asked about first comes first, and its answer reaches every connection  *)
(* that waits about it, none that waits about another.                     *)
Line == INSTANCE PromptLine WITH
  Asker <- Connections,
  TopicOf <- HostOf,
  line <- [i \in DOMAIN queue |-> queue[i].prompt.host],
  waiting <- {c \in Connections : phase[c] = "asking" /\ c \notin inFlight},
  shown <- [i \in DOMAIN dialog |-> dialog[i].host]

KeepsLine == Line!Spec

(* known_hosts.rs: for a changed key the user must re-confirm before the   *)
(* new key replaces the stored one.                                        *)
ReconfirmedBeforeReplaced ==
  [][\A c \in Connections :
       phase[c] = "asking" /\ phase'[c] = "accepted" /\ seenChanged[c]
       => \E i \in DOMAIN dialog :
            dialog[i].host = HostOf[c] /\ dialog[i].key = key[c]]_vars

-----------------------------------------------------------------------------
(* Liveness.                                                               *)

(* If the user answers every dialog, every connection that asked gets an   *)
(* answer (or its task ended).                                             *)
WaiterIsAnswered ==
  \A c \in Connections : phase[c] = "asking" ~> phase[c] # "asking"
=============================================================================
