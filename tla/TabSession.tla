----------------------------- MODULE TabSession -----------------------------
(***************************************************************************)
(* The life of a terminal tab: the worker that holds the connection, the   *)
(* second worker that holds the file-browser connection of an SSH tab, the *)
(* threads that pump their events, the UI event loop that applies them,    *)
(* and the user who opens, reconnects and closes tabs.                     *)
(*                                                                         *)
(* Every start of a tab (opening it, and each reconnect in place) spawns   *)
(* a new generation of workers.  The program has no such number: its maps, *)
(* channels and UI tasks are keyed by the tab alone.  The model names      *)
(* workers by tab and generation so that the properties can say which      *)
(* worker an event came from; no guard of a program step reads the         *)
(* generation of a queued event.                                           *)
(***************************************************************************)
EXTENDS Naturals, Sequences

CONSTANTS
  Tabs,      (* tab ids                                                    *)
  Kinds,     (* the session kinds the user opens                           *)
  MaxGen,    (* bound: how many times one tab is started                   *)
  QueueCap   (* bound: samples are only produced while fewer events than   *)
             (* this wait in their channel and at the UI                   *)

SessionKind == {"ssh", "telnet", "serial", "local"}

ASSUME KindsAssumption == Kinds \subseteq SessionKind
ASSUME MaxGenAssumption == MaxGen \in Nat \ {0}
ASSUME QueueCapAssumption == QueueCap \in Nat \ {0}

Gens == 1..MaxGen
Workers == Tabs \X Gens
NoGen == 0

VARIABLES
  openTabs,      (* tabs with a row in the tab and terminal models         *)
  kind,          (* kind of the session the tab was opened for             *)
  status,        (* TabStatus.state; an entry survives the closing of its  *)
                 (* tab, "none" is a tab id not used yet                   *)
  starts,        (* how many generations of workers the tab has had        *)
  handles,       (* generation whose command sender the UI holds           *)
  sftpHandles,   (* generation whose file connection is registered         *)
  shell,         (* where each shell worker is in its run                  *)
  readers,       (* workers whose separate reader thread runs              *)
  shellQ,        (* event channel from a shell worker to its pump          *)
  sftpW,         (* where each file worker is in its run                   *)
  sftpClosing,   (* file workers SftpHandle::close was called for; what    *)
                 (* they send to the file panel is in module SftpPanel     *)
  uiQ            (* tasks posted to the UI event loop, per tab             *)

vars == <<openTabs, kind, status, starts, handles, sftpHandles, shell,
          readers, shellQ, sftpW, sftpClosing, uiQ>>

uiVars == <<openTabs, kind, status, starts, handles>>
fileVars == <<sftpHandles, sftpW, sftpClosing>>
shellVars == <<shell, readers, shellQ>>

(* "settingUp" is what follows Connected before the loop reads commands,   *)
(* "awaiting" a branch of the loop that waits for the peer: a write to a   *)
(* peer that does not read, a ZMODEM receive.                              *)
ShellPhase == {"idle", "connecting", "opening", "settingUp", "running", "awaiting",
               "stopping", "done"}
SftpPhase == {"idle", "connecting", "serving", "done"}
ShellEvent == {"Connected", "Stats", "Closed"}
UiTask == [evt : ShellEvent, gen : Gens]

TypeOK ==
  /\ openTabs \in SUBSET Tabs
  /\ kind \in [Tabs -> SessionKind]
  /\ status \in [Tabs -> {"none", "connecting", "connected", "disconnected"}]
  /\ starts \in [Tabs -> Gens \cup {NoGen}]
  /\ handles \in [Tabs -> Gens \cup {NoGen}]
  /\ sftpHandles \in [Tabs -> Gens \cup {NoGen}]
  /\ shell \in [Workers -> ShellPhase]
  /\ readers \in SUBSET Workers
  /\ shellQ \in [Workers -> Seq(ShellEvent)]
  /\ sftpW \in [Workers -> SftpPhase]
  /\ sftpClosing \in SUBSET Workers
  /\ uiQ \in [Tabs -> Seq(UiTask)]

Init ==
  /\ openTabs = {}
  /\ kind \in [Tabs -> Kinds]
  /\ status = [t \in Tabs |-> "none"]
  /\ starts = [t \in Tabs |-> NoGen]
  /\ handles = [t \in Tabs |-> NoGen]
  /\ sftpHandles = [t \in Tabs |-> NoGen]
  /\ shell = [w \in Workers |-> "idle"]
  /\ readers = {}
  /\ shellQ = [w \in Workers |-> <<>>]
  /\ sftpW = [w \in Workers |-> "idle"]
  /\ sftpClosing = {}
  /\ uiQ = [t \in Tabs |-> <<>>]

-----------------------------------------------------------------------------
(* The user, on the UI thread.  A handler runs to its end before the event *)
(* loop takes another task, so each is one step.                           *)

(* SftpHandle::close on whatever is registered for the tab: the shutdown   *)
(* flag, the Close command and the timer that aborts the worker.           *)
Registered(t) == {w \in Workers : w = <<t, sftpHandles[t]>>}

(* The map entry of the tab removed and, if there was one, closed: what    *)
(* closing a tab and the end of a shell connection do.                     *)
ClosesFileSide_Unclosed(t) == (* mutant: the removed handle is only dropped *)
  /\ sftpHandles' = [sftpHandles EXCEPT ![t] = NoGen]
  /\ UNCHANGED sftpClosing

ClosesFileSide_Kept(t) == (* mutant: get instead of remove                  *)
  /\ sftpClosing' = sftpClosing \cup Registered(t)
  /\ UNCHANGED sftpHandles

ClosesFileSide(t) ==
  /\ sftpClosing' = sftpClosing \cup Registered(t)
  /\ sftpHandles' = [sftpHandles EXCEPT ![t] = NoGen]

(* start_session_in_tab: spawn the workers, register their handles.  The   *)
(* old entries of the two maps are overwritten, not closed.                *)
StartSession_KeepsHandle(t) == (* mutant: insert only when absent           *)
  LET g == starts[t] + 1 IN
  /\ starts[t] < MaxGen
  /\ starts' = [starts EXCEPT ![t] = g]
  /\ handles' = IF handles[t] = NoGen THEN [handles EXCEPT ![t] = g] ELSE handles
  /\ shell' = [shell EXCEPT ![<<t, g>>] = "connecting"]
  /\ UNCHANGED <<sftpHandles, sftpW>>

StartSession(t) ==
  LET g == starts[t] + 1 IN
  /\ starts[t] < MaxGen
  /\ starts' = [starts EXCEPT ![t] = g]
  /\ handles' = [handles EXCEPT ![t] = g]
  /\ shell' = [shell EXCEPT ![<<t, g>>] = "connecting"]
  /\ IF kind[t] = "ssh"
     THEN /\ sftpHandles' = [sftpHandles EXCEPT ![t] = g]
          /\ sftpW' = [sftpW EXCEPT ![<<t, g>>] = "connecting"]
     ELSE \* nothing inserted: a reconnect took the old entry out
          /\ sftpHandles' = [sftpHandles EXCEPT ![t] = NoGen]
          /\ UNCHANGED sftpW

(* open_saved_session past its early returns: a fresh tab id.              *)
OpenTab(t) ==
  /\ status[t] = "none"
  /\ openTabs' = openTabs \cup {t}
  /\ status' = [status EXCEPT ![t] = "connecting"]
  /\ StartSession(t)
  /\ UNCHANGED <<kind, readers, shellQ, sftpClosing, uiQ>>

(* Enter on a disconnected tab.                                            *)
Reconnect_NewState(t) == (* mutant: a state the sidebar does not know       *)
  /\ t \in openTabs
  /\ status[t] = "disconnected"
  /\ sftpClosing' = sftpClosing \cup Registered(t)
  /\ status' = [status EXCEPT ![t] = "reconnecting"]
  /\ StartSession(t)
  /\ UNCHANGED <<openTabs, kind, readers, shellQ, uiQ>>

Reconnect(t) ==
  /\ t \in openTabs
  /\ status[t] = "disconnected"
  /\ sftpClosing' = sftpClosing \cup Registered(t)
  /\ status' = [status EXCEPT ![t] = "connecting"]
  /\ StartSession(t)
  /\ UNCHANGED <<openTabs, kind, readers, shellQ, uiQ>>

(* on_pane_tab_closed.  The entry of tab_statuses stays behind.            *)
CloseTab(t) ==
  /\ t \in openTabs
  /\ openTabs' = openTabs \ {t}
  /\ handles' = [handles EXCEPT ![t] = NoGen]
  /\ ClosesFileSide(t)
  /\ UNCHANGED <<kind, status, starts, shell, readers, shellQ, sftpW,
                 uiQ>>

-----------------------------------------------------------------------------
(* The shell worker of generation g of tab t.                              *)

Emit(w, e) == shellQ' = [shellQ EXCEPT ![w] = Append(@, e)]
Goto(w, from, to) == shell[w] = from /\ shell' = [shell EXCEPT ![w] = to]

(* The command channel has a Close in it or lost its only sender: the      *)
(* handle left the map.                                                    *)
ToldToStop(t, g) == handles[t] # g

(* No connection: refused, wrong credentials, a cancelled prompt.          *)
ConnectFails_Silent(t, g) == (* mutant: the error is only logged            *)
  /\ Goto(<<t, g>>, "connecting", "done")
  /\ UNCHANGED <<uiVars, fileVars, readers, shellQ, uiQ>>

ConnectFails(t, g) ==
  /\ Goto(<<t, g>>, "connecting", "done")
  /\ Emit(<<t, g>>, "Closed")
  /\ UNCHANGED <<uiVars, fileVars, readers, uiQ>>

(* A serial worker starts its reader thread after announcing the           *)
(* connection; SSH and Telnet read in the command loop itself, and first   *)
(* open the monitor channel and ask for the remote forwards, or write      *)
(* their options.                                                          *)
Connects(t, g) ==
  /\ kind[t] \in {"ssh", "telnet", "serial"}
  /\ Goto(<<t, g>>, "connecting", IF kind[t] = "serial" THEN "running" ELSE "settingUp")
  /\ Emit(<<t, g>>, "Connected")
  /\ readers' = IF kind[t] = "serial" THEN readers \cup {<<t, g>>} ELSE readers
  /\ UNCHANGED <<uiVars, fileVars, uiQ>>

(* The peer answered each request, or refused it: only a warning.          *)
SetsUp(t, g) ==
  /\ Goto(<<t, g>>, "settingUp", "running")
  /\ UNCHANGED <<uiVars, fileVars, readers, shellQ, uiQ>>

(* The options of a Telnet connection could not be written.                *)
SetupFails(t, g) ==
  /\ kind[t] = "telnet"
  /\ Goto(<<t, g>>, "settingUp", "done")
  /\ Emit(<<t, g>>, "Closed")
  /\ UNCHANGED <<uiVars, fileVars, readers, uiQ>>

(* A local worker starts the child and its reader thread first ...         *)
SpawnsChild(t, g) ==
  /\ kind[t] = "local"
  /\ Goto(<<t, g>>, "connecting", "opening")
  /\ readers' = readers \cup {<<t, g>>}
  /\ UNCHANGED <<uiVars, fileVars, shellQ, uiQ>>

(* ... and announces the connection and starts its sampler afterwards.     *)
AnnouncesChild(t, g) ==
  /\ Goto(<<t, g>>, "opening", "running")
  /\ Emit(<<t, g>>, "Connected")
  /\ UNCHANGED <<uiVars, fileVars, readers, uiQ>>

(* The resource monitor: a second SSH channel read by the same loop, or    *)
(* the local sampler task that lives until the command loop ends.          *)
SamplesResources(t, g) ==
  /\ kind[t] \in {"ssh", "local"}
  /\ shell[<<t, g>>] \in {"running"} \cup (IF kind[t] = "local" THEN {"awaiting"} ELSE {})
  /\ Len(shellQ[<<t, g>>]) + Len(uiQ[t]) < QueueCap
  /\ Emit(<<t, g>>, "Stats")
  /\ UNCHANGED <<uiVars, fileVars, shell, readers, uiQ>>

(* A branch of the loop writes the user's input, a window size or an       *)
(* option, or receives a file, and awaits that: no command is read.        *)
Awaits(t, g) ==
  /\ Goto(<<t, g>>, "running", "awaiting")
  /\ UNCHANGED <<uiVars, fileVars, readers, shellQ, uiQ>>

AwaitReturns(t, g) ==
  /\ Goto(<<t, g>>, "awaiting", "running")
  /\ UNCHANGED <<uiVars, fileVars, readers, shellQ, uiQ>>

(* The peer ends the connection: the loop breaks.                          *)
PeerCloses(t, g) ==
  /\ kind[t] \in {"ssh", "telnet"}
  /\ Goto(<<t, g>>, "running", "stopping")
  /\ UNCHANGED <<uiVars, fileVars, readers, shellQ, uiQ>>

(* Writing the user's input fails, or reading from a Telnet stream does:   *)
(* a Closed of its own, then the loop breaks.                              *)
WriteFails(t, g) ==
  /\ kind[t] \in {"ssh", "telnet", "serial"}
  /\ Goto(<<t, g>>, "running", "stopping") \/ Goto(<<t, g>>, "awaiting", "stopping")
  /\ Emit(<<t, g>>, "Closed")
  /\ UNCHANGED <<uiVars, fileVars, readers, uiQ>>

(* The reader thread meets the end of its stream or an error, says Closed  *)
(* and ends.  The command loop of the worker does not notice.              *)
ReaderEnds(t, g) ==
  /\ <<t, g>> \in readers
  /\ readers' = readers \ {<<t, g>>}
  /\ Emit(<<t, g>>, "Closed")
  /\ UNCHANGED <<uiVars, fileVars, shell, uiQ>>

(* The command loop takes Close, or finds its channel closed.              *)
StopsOnCommand_OnlyClose(t, g) == (* mutant: a dropped sender is not noticed *)
  /\ handles[t] = NoGen
  /\ kind[t] \in {"ssh", "telnet", "serial"}
  /\ Goto(<<t, g>>, "running", "stopping")
  /\ UNCHANGED <<uiVars, fileVars, readers, shellQ, uiQ>>

StopsOnCommand(t, g) ==
  /\ ToldToStop(t, g)
  /\ kind[t] \in {"ssh", "telnet", "serial"}
  /\ Goto(<<t, g>>, "running", "stopping")
  /\ UNCHANGED <<uiVars, fileVars, readers, shellQ, uiQ>>

(* A local command loop ends on Close, on a closed channel or on a failed  *)
(* write; it kills the child and says nothing itself.                      *)
LocalLoopEnds(t, g) ==
  /\ kind[t] = "local"
  /\ Goto(<<t, g>>, "running", "done")
  /\ UNCHANGED <<uiVars, fileVars, readers, shellQ, uiQ>>

(* The tail of run_session, run_telnet and run_serial: forwards aborted,   *)
(* the reader joined, the transport disconnected, and Closed.              *)
Finishes_Silent(t, g) == (* mutant: no Closed after a loop that broke       *)
  /\ Goto(<<t, g>>, "stopping", "done")
  /\ readers' = readers \ {<<t, g>>}
  /\ UNCHANGED <<uiVars, fileVars, shellQ, uiQ>>

Finishes(t, g) ==
  /\ Goto(<<t, g>>, "stopping", "done")
  /\ readers' = readers \ {<<t, g>>}
  /\ Emit(<<t, g>>, "Closed")
  /\ UNCHANGED <<uiVars, fileVars, uiQ>>

ShellStep(t, g) ==
  \/ ConnectFails(t, g)    \/ Connects(t, g)
  \/ SetsUp(t, g)          \/ SetupFails(t, g)
  \/ SpawnsChild(t, g)     \/ AnnouncesChild(t, g)
  \/ SamplesResources(t, g)
  \/ Awaits(t, g)          \/ AwaitReturns(t, g)
  \/ PeerCloses(t, g)      \/ WriteFails(t, g)   \/ ReaderEnds(t, g)
  \/ StopsOnCommand(t, g)  \/ LocalLoopEnds(t, g)
  \/ Finishes(t, g)

-----------------------------------------------------------------------------
(* The file worker of generation g of tab t.                               *)

SftpGoto(w, from, to) == sftpW[w] = from /\ sftpW' = [sftpW EXCEPT ![w] = to]

(* Connected and authenticated.                                            *)
SftpConnects(t, g) ==
  /\ SftpGoto(<<t, g>>, "connecting", "serving")
  /\ UNCHANGED <<uiVars, shellVars, sftpHandles, sftpClosing, uiQ>>

SftpConnectFails(t, g) ==
  /\ SftpGoto(<<t, g>>, "connecting", "done")
  /\ UNCHANGED <<uiVars, shellVars, sftpHandles, sftpClosing, uiQ>>

(* The Close command reached the command loop.                             *)
SftpStops(t, g) ==
  /\ <<t, g>> \in sftpClosing
  /\ SftpGoto(<<t, g>>, "serving", "done")
  /\ UNCHANGED <<uiVars, shellVars, sftpHandles, sftpClosing, uiQ>>

(* The thread SftpHandle::close started aborts the worker wherever it is.  *)
SftpAborted(t, g) ==
  /\ <<t, g>> \in sftpClosing
  /\ sftpW[<<t, g>>] \in {"connecting", "serving"}
  /\ sftpW' = [sftpW EXCEPT ![<<t, g>>] = "done"]
  /\ UNCHANGED <<uiVars, shellVars, sftpHandles, sftpClosing, uiQ>>

SftpStep(t, g) ==
  \/ SftpConnects(t, g) \/ SftpConnectFails(t, g)
  \/ SftpStops(t, g) \/ SftpAborted(t, g)

-----------------------------------------------------------------------------
(* The pump threads.  The shell pump sweeps up to 2048 events and posts    *)
(* them as one task; a sweep of one event is a legal sweep, and the larger *)
(* ones only leave out interleavings.  A Closed first takes the file       *)
(* connection registered for the tab out of the map and closes it.         *)

Post(t, g, e) == uiQ' = [uiQ EXCEPT ![t] = Append(@, [evt |-> e, gen |-> g])]

ShellPump(t, g) ==
  /\ shellQ[<<t, g>>] # <<>>
  /\ LET e == Head(shellQ[<<t, g>>]) IN
       /\ Post(t, g, e)
       /\ IF e = "Closed"
          THEN ClosesFileSide(t)
          ELSE UNCHANGED <<sftpClosing, sftpHandles>>
  /\ shellQ' = [shellQ EXCEPT ![<<t, g>>] = Tail(@)]
  /\ UNCHANGED <<uiVars, shell, readers, sftpW>>

-----------------------------------------------------------------------------
(* apply_session_event_to_window, on the UI thread: one task of tab t.     *)

ApplyConnected(t) == (* Connected, or a resource sample *)
  status' = [status EXCEPT ![t] = "connected"]

ApplyClosed(t) ==
  status' = [status EXCEPT ![t] = "disconnected"]

ApplyEvent(t) ==
  /\ uiQ[t] # <<>>
  /\ LET task == Head(uiQ[t]) IN
       \/ task.evt \in {"Connected", "Stats"} /\ ApplyConnected(t)
       \/ task.evt = "Closed" /\ ApplyClosed(t)
  /\ uiQ' = [uiQ EXCEPT ![t] = Tail(@)]
  /\ UNCHANGED <<openTabs, kind, starts, handles, fileVars, shellVars>>

-----------------------------------------------------------------------------
UserStep(t) == OpenTab(t) \/ Reconnect(t) \/ CloseTab(t)

WorkerStep(t, g) ==
  ShellStep(t, g) \/ SftpStep(t, g) \/ ShellPump(t, g)

Next ==
  \E t \in Tabs :
    \/ UserStep(t)
    \/ ApplyEvent(t)
    \/ \E g \in Gens : WorkerStep(t, g)

(* What the scheduler owes: pump threads and the event loop run, a loop    *)
(* that comes back to its select again and again takes a waiting command   *)
(* in the end (tokio picks among ready branches at random, hence strong    *)
(* fairness), a loop that broke reaches its end, the abort timer fires.    *)
(* The network, the peer and the user owe nothing: no setup has to end, no *)
(* await to return, and an SSH worker that stops still awaits its peer     *)
(* for the eof and the disconnect.                                         *)
Fairness ==
  \A t \in Tabs :
    /\ WF_vars(ApplyEvent(t))
    /\ \A g \in Gens :
         /\ WF_vars(ShellPump(t, g))
         /\ WF_vars(AnnouncesChild(t, g))
         /\ SF_vars(StopsOnCommand(t, g))
         /\ SF_vars(ToldToStop(t, g) /\ LocalLoopEnds(t, g))
         /\ WF_vars(kind[t] # "ssh" /\ Finishes(t, g))
         /\ WF_vars(SftpAborted(t, g))

Spec == Init /\ [][Next]_vars
FairSpec == Spec /\ Fairness

-----------------------------------------------------------------------------
(* Safety.                                                                 *)

(* A file connection is never leaked: a file worker that has not ended and *)
(* was not told to close is the one registered for its tab.  Reconnects,   *)
(* closed tabs and the shell pump (which closes whatever is registered,    *)
(* whichever generation's Closed it handles) all move that entry.          *)
NoOrphanSftp ==
  \A t \in Tabs, g \in Gens :
    /\ sftpW[<<t, g>>] \in {"connecting", "serving"}
    /\ <<t, g>> \notin sftpClosing
    => sftpHandles[t] = g

(* A tab that is closed holds no connection, and nothing that still runs   *)
(* for it (pumps, posted tasks, late events) brings one back.              *)
ClosedTabReleased ==
  \A t \in Tabs \ openTabs : handles[t] = NoGen /\ sftpHandles[t] = NoGen

(* Keys and file commands reach the newest workers of a tab or nothing.    *)
RegistryIsNewest ==
  \A t \in Tabs :
    /\ handles[t] \in {NoGen, starts[t]}
    /\ sftpHandles[t] \in {NoGen, starts[t]}
    /\ kind[t] # "ssh" => sftpHandles[t] = NoGen

(* Whatever still runs for a tab, its handles lead to its newest workers   *)
(* and a closed tab has none.                                              *)
HandlesAreCurrent == ClosedTabReleased /\ RegistryIsNewest

(* By the time the UI marks a tab disconnected for the end of its newest   *)
(* connection, the file connection is out of the map: the pump took it out *)
(* before it posted the task, on another thread.                           *)
FileSideClosesFirst ==
  [][\A t \in Tabs :
       /\ uiQ[t] # <<>> /\ uiQ'[t] = Tail(uiQ[t])
       /\ Head(uiQ[t]) = [evt |-> "Closed", gen |-> starts[t]]
       => sftpHandles'[t] = NoGen]_vars

(* What the worker's end still owes the UI: a Closed queued somewhere.     *)
ClosedPending(t) ==
  \/ \E g \in Gens : \E i \in DOMAIN shellQ[<<t, g>>] :
       shellQ[<<t, g>>][i] = "Closed"
  \/ \E i \in DOMAIN uiQ[t] : uiQ[t][i].evt = "Closed"

(* The peer of the worker is still there, as far as the worker knows.      *)
Attached(t, g) ==
  IF kind[t] \in {"serial", "local"} THEN <<t, g>> \in readers
  ELSE shell[<<t, g>>] \in {"settingUp", "running", "awaiting"}

(* The tab has a connection, or the news of its end is on the way.         *)
AliveOrEnding(t) ==
  \/ \E g \in Gens : Attached(t, g) \/ shell[<<t, g>>] = "stopping"
  \/ ClosedPending(t)

(* A tab shown as connected has a connection, or the news of its end is on *)
(* the way.  Otherwise the tab is a zombie: it looks alive, takes keys     *)
(* that go nowhere, and Enter does not reconnect it.  Local tabs are left  *)
(* out: their sampler outlives the shell and marks the tab connected.      *)
RemoteConnectedMeansAlive ==
  \A t \in openTabs :
    status[t] = "connected" /\ kind[t] # "local" => AliveOrEnding(t)

-----------------------------------------------------------------------------
(* Liveness.                                                               *)

(* The awaits without a timeout between Connected and the end of a worker. *)
AwaitsPeer(t, g) ==
  \/ shell[<<t, g>>] \in {"settingUp", "awaiting"}
  \/ shell[<<t, g>>] = "stopping" /\ kind[t] = "ssh"

(* The reader of a serial worker is joined.  The one of a local worker     *)
(* ends when the last process that holds the terminal does.                *)
WorkerGone(t, g) ==
  /\ shell[<<t, g>>] = "done"
  /\ kind[t] = "serial" => <<t, g>> \notin readers

(* A connected shell worker whose handle is gone ends, a serial one with   *)
(* its reader thread, unless from some point on it awaits its peer for     *)
(* ever: it reads its commands only between awaits, and none of these has  *)
(* a limit.  A worker still connecting is not covered either, it may wait  *)
(* for the network or for an answer of the user.                           *)
OrphanShellEnds ==
  \A t \in Tabs, g \in Gens :
    \/ <>[]AwaitsPeer(t, g)
    \/ (/\ shell[<<t, g>>] \in {"opening", "settingUp", "running", "awaiting"}
        /\ ToldToStop(t, g)) ~> WorkerGone(t, g)

(* A file worker that was closed ends, even one still connecting.          *)
ClosedSftpEnds ==
  \A t \in Tabs, g \in Gens :
    <<t, g>> \in sftpClosing ~> sftpW[<<t, g>>] \in {"idle", "done"}

(* No worker outlives the handle it was reached by for longer than its     *)
(* peer keeps it waiting, and a file worker not even that long.            *)
WorkersEnd == OrphanShellEnds /\ ClosedSftpEnds

(* The end of a tab's newest worker is shown, so that Enter can reconnect: *)
(* of every kind but local, whose command loop ends only when told to.     *)
EndIsShown ==
  \A t \in Tabs, g \in Gens :
    (kind[t] # "local" /\ starts[t] = g /\ shell[<<t, g>>] = "done")
      ~> (status[t] = "disconnected" \/ starts[t] # g \/ t \notin openTabs)
=============================================================================
