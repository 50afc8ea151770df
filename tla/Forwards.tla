------------------------------ MODULE Forwards ------------------------------
(***************************************************************************)
(* The port forwards of one SSH session (src/forward.rs, and the parts of  *)
(* run_session and of its handler in src/ssh.rs that set them up and take  *)
(* them down): a listener task per -L and -D forward, a task per connection*)
(* made through a forward, and the pump that starts and aborts the         *)
(* listeners.  The clients, the local targets and the server are external. *)
(***************************************************************************)
EXTENDS Naturals, Sequences

CONSTANTS Forward,   \* the profile's forwards, in order: kind, port, target and the
                     \* addresses a listener of it takes, all for a wildcard
          Conn,      \* connections that come in while the session is there
          NoTarget   \* what a SOCKS client did not ask for, or nobody mapped

F == DOMAIN Forward
Remote(p) == {f \in F : Forward[f].kind = "remote" /\ Forward[f].port = p}

ASSUME ForwardAssumption ==
  /\ F \subseteq Nat
  /\ \A f \in F : Forward[f].kind \in {"local", "dynamic", "remote"}
  /\ \A f \in F : Forward[f].kind # "remote" => Forward[f].at # {}
  /\ \A f, g \in F : Forward[f].kind = "remote" /\ g \in Remote(Forward[f].port) => f = g

VARIABLES
  pump,      \* run_session: remote, run, stopping, ended
  next,      \* the forward that the setup is at
  link,      \* the connection to the server is up
  listen,    \* per forward: none, binding, listening, gone; asked for a remote one
  aborted,   \* the pump aborted the listener tasks
  conn       \* per connection: the forward it came in by, its state, where it
             \* leads, and which of its two ends may still send

fwdVars == <<pump, next, link, listen, aborted, conn>>

Idle == [fwd |-> 0, state |-> "none", target |-> NoTarget, near |-> FALSE, far |-> FALSE]
Came(f, state, target) ==
  [fwd |-> f, state |-> state, target |-> target, near |-> TRUE, far |-> TRUE]

FwdInit ==
  /\ pump = "remote" /\ next = 1 /\ link = TRUE
  /\ listen = [f \in F |-> "none"] /\ aborted = FALSE
  /\ conn = [c \in Conn |-> Idle]

Kind(f) == Forward[f].kind
State(c, state) == conn' = [conn EXCEPT ![c].state = state]

(* The handler's map holds one target per port.
   Mutant: it is made of all forwards, whatever their kind. *)
RemoteTarget_AllKinds(p) ==
  LET same == {f \in F : Forward[f].port = p}
  IN IF same = {} THEN NoTarget ELSE Forward[CHOOSE f \in same : \A g \in same : g <= f].target
RemoteTarget(p) ==
  IF Remote(p) = {} THEN NoTarget
  ELSE Forward[CHOOSE f \in Remote(p) : \A g \in Remote(p) : g <= f].target

-----------------------------------------------------------------------------
(* The pump *)

(* The server is asked for one remote port after the other and may refuse. *)
AskRemote ==
  /\ pump = "remote" /\ next \in F
  /\ next' = next + 1
  /\ IF Kind(next) # "remote" THEN UNCHANGED listen
     ELSE \E answer \in {"gone"} \cup (IF link THEN {"asked"} ELSE {}) :
            listen' = [listen EXCEPT ![next] = answer]
  /\ UNCHANGED <<pump, link, aborted, conn>>

SpawnListeners ==
  /\ pump = "remote" /\ next \notin F
  /\ pump' = "run"
  /\ listen' = [f \in F |-> IF Kind(f) = "remote" THEN listen[f] ELSE "binding"]
  /\ UNCHANGED <<next, link, aborted, conn>>

(* Closed by the user, by the shell's end or because the link is lost.
   Mutant: the handles of the listeners are only dropped, which detaches them. *)
AbortListeners_Dropped == aborted' = FALSE
AbortListeners == aborted' = TRUE
LeavePump ==
  /\ pump = "run" /\ pump' = "stopping"
  /\ AbortListeners
  /\ UNCHANGED <<next, link, listen, conn>>
LinkLostEndsPump == ~link /\ LeavePump

DisconnectServer ==
  /\ pump = "stopping" /\ pump' = "ended" /\ link' = FALSE
  /\ UNCHANGED <<next, listen, aborted, conn>>
LoseLink ==
  /\ link /\ link' = FALSE
  /\ UNCHANGED <<pump, next, listen, aborted, conn>>

-----------------------------------------------------------------------------
(* A listener task *)

Overlap(f, g) == Forward[f].port = Forward[g].port /\ Forward[f].at \cap Forward[g].at # {}
Free(f) == \A g \in F : Overlap(f, g) => listen[g] # "listening"
Bind(f) ==
  /\ listen[f] = "binding"
  /\ \E result \in {"gone"} \cup (IF Free(f) THEN {"listening"} ELSE {}) :
       listen' = [listen EXCEPT ![f] = result]
  /\ UNCHANGED <<pump, next, link, aborted, conn>>

Accept(f, c) ==
  /\ listen[f] = "listening" /\ conn[c].state = "none"
  /\ conn' = [conn EXCEPT ![c] =
       IF Kind(f) = "local" THEN Came(f, "opening", Forward[f].target)
                            ELSE Came(f, "greeting", NoTarget)]
  /\ UNCHANGED <<pump, next, link, listen, aborted>>
AcceptFails(f) ==
  /\ listen[f] = "listening" /\ listen' = [listen EXCEPT ![f] = "gone"]
  /\ UNCHANGED <<pump, next, link, aborted, conn>>

(* An aborted task ends where it waits, so it may be in the middle of an accept. *)
ListenerEnds(f) ==
  /\ aborted /\ listen[f] \in {"binding", "listening"}
  /\ listen' = [listen EXCEPT ![f] = "gone"]
  /\ UNCHANGED <<pump, next, link, aborted, conn>>

-----------------------------------------------------------------------------
(* A connection *)

(* server_channel_open_forwarded_tcpip *)
RemoteChannel(f, c) ==
  /\ link /\ listen[f] = "asked" /\ conn[c].state = "none"
  /\ LET target == RemoteTarget(Forward[f].port) IN
     conn' = [conn EXCEPT ![c] =
       Came(f, IF target = NoTarget THEN "done" ELSE "opening", target)]
  /\ UNCHANGED <<pump, next, link, listen, aborted>>

(* The SOCKS5 request: a destination, or something that is refused. *)
ClientAsks(c) ==
  /\ conn[c].state = "greeting"
  /\ State(c, "opening") \/ State(c, "done")
  /\ UNCHANGED <<pump, next, link, listen, aborted>>

(* open_direct needs the server; a remote connection needs its local target. *)
TargetAnswers(c) ==
  /\ conn[c].state = "opening"
  /\ \/ /\ link \/ Kind(conn[c].fwd) = "remote"
        /\ State(c, "spliced")
     \/ State(c, "done")
  /\ UNCHANGED <<pump, next, link, listen, aborted>>

(* copy_bidirectional passes the end of one direction on and ends with both, or
   with an error of either. *)
NearEnds(c) ==
  /\ conn[c].state = "spliced" /\ conn[c].near
  /\ conn' = [conn EXCEPT ![c].near = FALSE]
  /\ UNCHANGED <<pump, next, link, listen, aborted>>
FarEnds(c) ==
  /\ conn[c].state = "spliced" /\ conn[c].far
  /\ conn' = [conn EXCEPT ![c].far = FALSE]
  /\ UNCHANGED <<pump, next, link, listen, aborted>>
ChannelEnds(c) == ~link /\ FarEnds(c)
SpliceBreaks(c) ==
  /\ conn[c].state = "spliced"
  /\ State(c, "done")
  /\ UNCHANGED <<pump, next, link, listen, aborted>>
SpliceEnds(c) ==
  /\ conn[c].state = "spliced" /\ ~conn[c].near /\ ~conn[c].far
  /\ State(c, "done")
  /\ UNCHANGED <<pump, next, link, listen, aborted>>

-----------------------------------------------------------------------------
FwdNext ==
  \/ AskRemote \/ SpawnListeners \/ LeavePump \/ DisconnectServer \/ LoseLink
  \/ \E f \in F : Bind(f) \/ AcceptFails(f) \/ ListenerEnds(f)
  \/ \E f \in F, c \in Conn : Accept(f, c) \/ RemoteChannel(f, c)
  \/ \E c \in Conn : ClientAsks(c) \/ TargetAnswers(c) \/ NearEnds(c) \/ FarEnds(c)
                     \/ SpliceBreaks(c) \/ SpliceEnds(c)

(* Tasks run, an address that is connected to answers or times out, a channel of a
   lost link ends.  No client has to come, to ask, to send or to hang up. *)
FwdFairness ==
  /\ WF_fwdVars(AskRemote) /\ WF_fwdVars(SpawnListeners) /\ WF_fwdVars(LinkLostEndsPump)
  /\ WF_fwdVars(DisconnectServer)
  /\ \A f \in F : WF_fwdVars(Bind(f)) /\ WF_fwdVars(ListenerEnds(f))
  /\ \A c \in Conn : WF_fwdVars(TargetAnswers(c)) /\ WF_fwdVars(ChannelEnds(c)) /\ WF_fwdVars(SpliceEnds(c))
FwdSpec == FwdInit /\ [][FwdNext]_fwdVars /\ FwdFairness

-----------------------------------------------------------------------------
Targets == {Forward[f].target : f \in F} \cup {NoTarget}
Connection ==
  [fwd : F \cup {0}, target : Targets, near : BOOLEAN, far : BOOLEAN,
   state : {"none", "greeting", "opening", "spliced", "done"}]
Types ==
  /\ pump \in {"remote", "run", "stopping", "ended"}
  /\ next \in Nat /\ link \in BOOLEAN /\ aborted \in BOOLEAN
  /\ listen \in [F -> {"none", "binding", "listening", "asked", "gone"}]
  /\ conn \in [Conn -> Connection]

(* A connection that is made through a local or a remote forward leads to that
   forward's own target, also when a local and a remote forward use one port number. *)
RightTarget ==
  \A c \in Conn :
    /\ conn[c].state # "none" => conn[c].fwd \in F
    /\ conn[c].state # "none" /\ Kind(conn[c].fwd) # "dynamic" =>
         conn[c].target = Forward[conn[c].fwd].target

(* Nothing but a client that keeps quiet holds a connection. *)
OnlyItsClientHolds(c) ==
  \/ conn[c].state \in {"none", "done", "greeting"}
  \/ conn[c].state = "spliced" /\ conn[c].near /\ ~conn[c].far

(* When a session has ended its ports are given back, also one whose listener was
   still binding or accepting, and every connection through them ends unless its own
   client keeps it open without sending. *)
TunnelsEnd ==
  (pump = "ended") ~> /\ \A f \in F : listen[f] \notin {"binding", "listening"}
                      /\ \A c \in Conn : OnlyItsClientHolds(c)
=============================================================================
