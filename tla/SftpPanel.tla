------------------------------ MODULE SftpPanel ------------------------------
(***************************************************************************)
(* The file panel of one SSH tab: its address bar, listing, spinner and    *)
(* search, the file worker that answers it, and the shell whose directory  *)
(* it follows.  The panel commits to a directory before it asks for it, so *)
(* answers arrive for directories it has left; listings also come unasked, *)
(* after uploads and file operations; searches run beside the worker's     *)
(* command loop; and a reconnect replaces the worker.                      *)
(* A directory stands for its normalised path.  What the worker sends and  *)
(* the pump posts is one queue of UI tasks, in the order of posting.       *)
(***************************************************************************)
EXTENDS Naturals, Sequences, FiniteSets

CONSTANTS
  Dirs, Root, Home,      (* directories; "/"; the login's home             *)
  EmptyDirs,             (* directories without entries                    *)
  NoDir,                 (* ""                                             *)
  Searches,              (* search ids                                     *)
  NoSearch,              (* ""                                             *)
  MaxGen,                (* bound: workers started                         *)
  QueueCap, CmdCap       (* bounds: waiting UI tasks, waiting commands     *)

ASSUME DirsAssumption == {Root, Home} \subseteq Dirs /\ NoDir \notin Dirs
ASSUME SearchAssumption == NoSearch \notin Searches
ASSUME NamesAssumption == Dirs \cap Searches = {}
ASSUME GenAssumption == MaxGen \in Nat \ {0}

VARIABLES
  row,           (* the tab's sftp_* fields of TerminalState               *)
  connected,     (* tab_statuses[tab].state # 2                             *)
  lastCwd,       (* sftp_last_cwd                                          *)
  debounce,      (* the directory the pump's 500 ms timer will list        *)
  handle,        (* generation of the registered worker, 0 for none        *)
  gen,           (* workers started so far                                 *)
  worker,        (* "starting", "serving", "closing", "dead"                *)
  cmds,          (* each worker's command channel                          *)
  current,       (* each worker's active_search and search_cancel          *)
  task,          (* each search's task: "none", "running", "aborted", "done" *)
  uiQ,           (* tasks posted to the event loop                         *)
  asked          (* ghost: the directory last asked for, and how: by a     *)
                 (* request of the user or a cd of the shell, by opening   *)
                 (* the tab or a reconnect, or by a request for nothing    *)

workerVars == <<worker, cmds, current, task>>
pumpVars == <<lastCwd, debounce>>
vars == <<row, connected, pumpVars, handle, gen, workerVars, uiQ, asked>>

Gens == 1 .. MaxGen
Requests == {"open", "request", "noop", "reconnect"}

Row == [path : Dirs, back : Dirs \cup {NoDir}, loading : BOOLEAN,
        shown : SUBSET (Dirs \cup Searches), id : Searches \cup {NoSearch},
        running : BOOLEAN, failed : BOOLEAN, plain : BOOLEAN]

Command == [op : {"list"}, dir : Dirs] \cup [op : {"search"}, id : Searches]
             \cup [op : {"cancel"}]

Event == [kind : {"entries", "cd"}, dir : Dirs] \cup [kind : {"error", "closed"}]
           \cup [kind : {"batch", "busy", "over"}, id : Searches]

TypeOK ==
  /\ row \in Row
  /\ connected \in BOOLEAN
  /\ lastCwd \in Dirs \cup {NoDir}
  /\ debounce \in Dirs \cup {NoDir}
  /\ gen \in Gens
  /\ handle \in 0 .. gen
  /\ worker \in [Gens -> {"unborn", "starting", "serving", "closing", "dead"}]
  /\ cmds \in [Gens -> Seq(Command)]
  /\ current \in [Gens -> Searches \cup {NoSearch}]
  /\ task \in [Searches -> {"none", "running", "aborted", "done"}]
  /\ uiQ \in Seq(Event)
  /\ asked \in [dir : Dirs, by : Requests]

(* row.shown names what the listing was made of: a directory, a search, or *)
(* nothing yet.  row.failed (the last answer was an error) and row.plain   *)
(* (no search since the panel last left one) are ghosts.                   *)
Init ==
  /\ row = [path |-> Root, back |-> NoDir, loading |-> TRUE, shown |-> {},
            id |-> NoSearch, running |-> FALSE, failed |-> FALSE, plain |-> TRUE]
  /\ connected = TRUE
  /\ lastCwd = NoDir
  /\ debounce = NoDir
  /\ handle = 1
  /\ gen = 1
  /\ worker = [g \in Gens |-> IF g = 1 THEN "starting" ELSE "unborn"]
  /\ cmds = [g \in Gens |-> <<>>]
  /\ current = [g \in Gens |-> NoSearch]
  /\ task = [s \in Searches |-> "none"]
  /\ uiQ = <<>>
  /\ asked = [dir |-> Root, by |-> "open"]

Entries(d) == [kind |-> "entries", dir |-> d]
Error == [kind |-> "error"]
List(d) == [op |-> "list", dir |-> d]
Cancel == [op |-> "cancel"]

Post(e) == uiQ' = Append(uiQ, e)
MayPost == Len(uiQ) < QueueCap

(* SftpHandle's methods, for the worker that is registered.  What is sent  *)
(* to one that has ended is lost.                                          *)
Send(cs) ==
  cmds' = IF handle = 0 \/ worker[handle] = "dead" THEN cmds
          ELSE [cmds EXCEPT ![handle] = @ \o cs]
MaySend == \A g \in Gens : Len(cmds[g]) < CmdCap

-----------------------------------------------------------------------------
(* The user, on the UI thread.                                             *)

(* Leaving search mode: what navigate and back do to the search fields.    *)
LeftSearch(r) ==
  [r EXCEPT !.running = FALSE, !.id = NoSearch, !.plain = TRUE]

(* on_sftp_navigate; to the directory it is in, it leaves the search alone.*)
Navigate(d) ==
  /\ MaySend
  /\ LET r == IF d = row.path THEN row
              ELSE LeftSearch([row EXCEPT !.back = row.path])
     IN row' = [r EXCEPT !.path = d, !.loading = TRUE]
  /\ lastCwd' = NoDir
  /\ Send(<<Cancel, List(d)>>)
  /\ asked' = [dir |-> d, by |-> "request"]
  /\ UNCHANGED <<connected, debounce, handle, gen, worker, current, task, uiQ>>

(* on_sftp_navigate_back: swaps the two directories; it returns before it  *)
(* asks for anything when they are the same.                               *)
NavigateBack ==
  /\ MaySend
  /\ row.back # NoDir
  /\ row' = [LeftSearch(row) EXCEPT !.back = row.path, !.path = row.back,
                                    !.loading = TRUE]
  /\ IF row.back = row.path
     THEN UNCHANGED <<lastCwd, cmds>>
     ELSE lastCwd' = NoDir /\ Send(<<Cancel, List(row.back)>>)
  /\ asked' = [dir |-> row.back, by |-> IF row.back = row.path THEN "noop" ELSE "request"]
  /\ UNCHANGED <<connected, debounce, handle, gen, worker, current, task, uiQ>>

(* A double click on a search result: on_sftp_locate_result, and then the  *)
(* same click clears the search box (on_sftp_search).                      *)
LocateResult(d) ==
  /\ MaySend
  /\ row.shown \cap Searches # {}
  /\ row' = [row EXCEPT !.path = d, !.loading = TRUE, !.id = NoSearch]
  /\ lastCwd' = NoDir
  /\ Send(<<List(d)>>)
  /\ asked' = [dir |-> d, by |-> "request"]
  /\ UNCHANGED <<connected, debounce, handle, gen, worker, current, task, uiQ>>

(* on_sftp_refresh: the current directory, or one of the tree's menu.      *)
Refresh(d) ==
  /\ MaySend
  /\ handle # 0
  /\ Send(<<List(d)>>)
  /\ UNCHANGED <<row, connected, pumpVars, handle, gen, worker, current, task,
                 uiQ, asked>>

(* on_sftp_search: typing filters what is listed.                          *)
LocalSearch ==
  /\ row.id # NoSearch
  /\ row' = [row EXCEPT !.id = NoSearch]
  /\ UNCHANGED <<connected, pumpVars, handle, gen, workerVars, uiQ, asked>>

(* on_sftp_search_folder.  A new id each time.                             *)
SearchFolder(s) ==
  /\ MaySend
  /\ task[s] = "none"
  /\ \A g \in Gens : \A i \in DOMAIN cmds[g] :
       cmds[g][i] # [op |-> "search", id |-> s]
  /\ row.id # s
  /\ row' = [row EXCEPT !.id = s, !.running = TRUE, !.loading = TRUE,
                        !.shown = {}, !.plain = FALSE]
  /\ Send(<<[op |-> "search", id |-> s]>>)
  /\ UNCHANGED <<connected, pumpVars, handle, gen, worker, current, task, uiQ,
                 asked>>

(* on_sftp_cancel_search, from the Stop button.                            *)
CancelSearch ==
  /\ MaySend
  /\ row.running
  /\ row' = [row EXCEPT !.running = FALSE, !.loading = FALSE]
  /\ Send(<<Cancel>>)
  /\ UNCHANGED <<connected, pumpVars, handle, gen, worker, current, task, uiQ,
                 asked>>

(* Enter on the disconnected tab: a new shell and a new file worker.       *)
Reconnect ==
  /\ ~connected
  /\ gen < MaxGen
  /\ connected' = TRUE
  /\ lastCwd' = NoDir
  /\ row' = [row EXCEPT !.loading = TRUE, !.running = FALSE, !.id = NoSearch,
                        !.plain = TRUE]
  /\ gen' = gen + 1
  /\ handle' = gen + 1
  /\ worker' = [worker EXCEPT ![gen + 1] = "starting"]
  /\ asked' = [dir |-> row.path, by |-> "reconnect"]
  /\ UNCHANGED <<debounce, cmds, current, task, uiQ>>

-----------------------------------------------------------------------------
(* The shell's event pump.                                                 *)

(* Mutant: a cd goes on to the UI although the panel does not follow.      *)
PumpCwd_Forwards(d, follow) ==
  /\ handle # 0 /\ connected
  /\ MayPost
  /\ lastCwd' = d
  /\ IF d # lastCwd
     THEN /\ debounce' = IF follow THEN d ELSE debounce
          /\ Post([kind |-> "cd", dir |-> d])
     ELSE UNCHANGED <<debounce, uiQ>>
  /\ UNCHANGED <<row, connected, handle, gen, workerVars, asked>>

(* The shell reports its directory at a prompt.  A new one, while the      *)
(* panel follows, restarts the timer and goes on to the UI.  The user may  *)
(* switch following on or off at any time; only this step reads the flag.  *)
PumpCwd(d, follow) ==
  /\ handle # 0 /\ connected
  /\ MayPost
  /\ lastCwd' = d
  /\ IF d # lastCwd /\ follow
     THEN debounce' = d /\ Post([kind |-> "cd", dir |-> d])
     ELSE UNCHANGED <<debounce, uiQ>>
  /\ UNCHANGED <<row, connected, handle, gen, workerVars, asked>>

(* The timer fires: whatever worker is registered by now is asked.         *)
DebounceFires ==
  /\ debounce # NoDir
  /\ MaySend
  /\ debounce' = NoDir
  /\ Send(<<List(debounce)>>)
  /\ UNCHANGED <<row, connected, lastCwd, handle, gen, worker, current,
                 task, uiQ, asked>>

(* The shell ends: the file connection is taken out and closed first.      *)
PumpClosed ==
  /\ handle # 0 /\ connected
  /\ MayPost
  /\ handle' = 0
  /\ worker' = [worker EXCEPT ![handle] = IF @ = "dead" THEN @ ELSE "closing"]
  /\ lastCwd' = NoDir
  /\ Post([kind |-> "closed"])
  /\ UNCHANGED <<row, connected, debounce, gen, cmds, current, task,
                 asked>>

-----------------------------------------------------------------------------
(* The file worker and its search tasks.                                   *)

(* run_sftp connects and lists the home directory, or spawn_sftp reports   *)
(* why it cannot; the report is a status text only.                        *)
WorkerStarts(g) ==
  /\ worker[g] = "starting"
  /\ MayPost
  /\ worker' = [worker EXCEPT ![g] = "serving"]
  /\ Post(Entries(Home)) \/ Post(Error)
  /\ UNCHANGED <<row, connected, pumpVars, handle, gen, cmds, current, task,
                 asked>>

WorkerFails(g) ==
  /\ worker[g] = "starting"
  /\ worker' = [worker EXCEPT ![g] = "dead"]
  /\ cmds' = [cmds EXCEPT ![g] = <<>>]
  /\ UNCHANGED <<row, connected, pumpVars, handle, gen, current, task, uiQ,
                 asked>>

Serving(g) == worker[g] \in {"serving", "closing"}
Takes(g, op) == Serving(g) /\ cmds[g] # <<>> /\ Head(cmds[g]).op = op
Done(g) == cmds' = [cmds EXCEPT ![g] = Tail(@)]

ListDir(g) ==
  /\ Takes(g, "list")
  /\ MayPost
  /\ Done(g)
  /\ Post(Entries(Head(cmds[g]).dir)) \/ Post(Error)
  /\ UNCHANGED <<row, connected, pumpVars, handle, gen, worker, current, task,
                 asked>>

(* The cancel flag is set and the task aborted, if a search is known.      *)
Aborted(s) ==
  IF s = NoSearch THEN task
  ELSE [task EXCEPT ![s] = IF @ = "running" THEN "aborted" ELSE @]

(* Close, or the abort 250 ms after it.                                    *)
WorkerStops(g) ==
  /\ worker[g] = "closing"
  /\ worker' = [worker EXCEPT ![g] = "dead"]
  /\ cmds' = [cmds EXCEPT ![g] = <<>>]
  /\ current' = [current EXCEPT ![g] = NoSearch]
  /\ task' = Aborted(current[g])
  /\ UNCHANGED <<row, connected, pumpVars, handle, gen, uiQ, asked>>

(* A search replaces the one before it.                                    *)
StartSearch(g) ==
  /\ Takes(g, "search")
  /\ Done(g)
  /\ LET s == Head(cmds[g]).id IN
       /\ current' = [current EXCEPT ![g] = s]
       /\ task' = [Aborted(current[g]) EXCEPT ![s] = "running"]
  /\ UNCHANGED <<row, connected, pumpVars, handle, gen, worker, uiQ, asked>>

(* CancelSearch also answers for a search that has completed, once.        *)
StopSearch(g) ==
  /\ Takes(g, "cancel")
  /\ MayPost
  /\ Done(g)
  /\ IF current[g] = NoSearch
     THEN UNCHANGED <<current, task, uiQ>>
     ELSE /\ current' = [current EXCEPT ![g] = NoSearch]
          /\ task' = Aborted(current[g])
          /\ Post([kind |-> "over", id |-> current[g]])
  /\ UNCHANGED <<row, connected, pumpVars, handle, gen, worker, asked>>

(* The search task: progress and results until it has seen everything or   *)
(* notices that it was cancelled.                                          *)
SearchReports(s) ==
  /\ task[s] \in {"running", "aborted"}
  /\ MayPost
  /\ \E kind \in {"busy", "batch"} : Post([kind |-> kind, id |-> s])
  /\ UNCHANGED <<row, connected, pumpVars, handle, gen, workerVars, asked>>

SearchEnds(s) ==
  /\ task[s] \in {"running", "aborted"}
  /\ MayPost
  /\ task' = [task EXCEPT ![s] = "done"]
  /\ Post([kind |-> "over", id |-> s])
  /\ UNCHANGED <<row, connected, pumpVars, handle, gen, worker, cmds, current,
                 asked>>

(* The abort takes hold, at an await.                                      *)
SearchAborted(s) ==
  /\ task[s] = "aborted"
  /\ task' = [task EXCEPT ![s] = "done"]
  /\ UNCHANGED <<row, connected, pumpVars, handle, gen, worker, cmds, current,
                 uiQ, asked>>

(* A finished upload or file operation lists the directory it changed.     *)
ListsUnasked(g, d) ==
  /\ Serving(g)
  /\ MayPost
  /\ Post(Entries(d))
  /\ UNCHANGED <<row, connected, pumpVars, handle, gen, workerVars, asked>>

-----------------------------------------------------------------------------
(* apply_session_event_to_window, one posted task after the other.         *)

(* SftpEntries: dropped while a search's results are shown, and when the   *)
(* panel has moved on, except for the first listing of all.                *)
FirstListing == row.path = Root /\ row.shown \subseteq EmptyDirs

(* Mutants: the search that is shown is not looked at; or the panel's path.*)
Accepts_InSearch(d) == row.running \/ d = row.path \/ FirstListing

Accepts_AnyDir(d) == row.id = NoSearch

Accepts(d) ==
  /\ row.id = NoSearch
  /\ row.running \/ d = row.path \/ FirstListing

ApplyEntries(d) ==
  /\ row' = IF Accepts(d)
            THEN [row EXCEPT !.path = IF row.running THEN @ ELSE d,
                             !.shown = {d}, !.loading = FALSE, !.failed = FALSE]
            ELSE row
  /\ UNCHANGED asked

(* Mutant: only the text is compared, and the text stays after a search.   *)
Matches_AnyId(s) == TRUE

(* Batches and states count for the search that is shown.                  *)
Matches(s) == row.id = s

ApplyBatch(s) ==
  /\ row' = IF row.running /\ Matches(s)
            THEN [row EXCEPT !.shown = @ \cup {s}, !.loading = FALSE] ELSE row
  /\ UNCHANGED asked

ApplyState(s, busy) ==
  /\ row' = IF Matches(s)
            THEN [row EXCEPT !.loading = FALSE, !.running = busy] ELSE row
  /\ UNCHANGED asked

(* SftpError keeps the listing in place.                                   *)
ApplyError ==
  /\ row' = [LeftSearch(row) EXCEPT !.loading = FALSE, !.failed = TRUE]
  /\ UNCHANGED asked

ApplyCwd(d) ==
  /\ row' = [row EXCEPT !.path = d, !.loading = TRUE]
  /\ asked' = [dir |-> d, by |-> "request"]

ApplyClosed ==
  /\ row' = [LeftSearch(row) EXCEPT !.loading = FALSE]
  /\ UNCHANGED asked

(* Late file events of a disconnected tab are ignored.                     *)
ApplyEvent ==
  /\ uiQ # <<>>
  /\ uiQ' = Tail(uiQ)
  /\ LET e == Head(uiQ) IN
     /\ connected' = (connected /\ e.kind # "closed")
     /\ \/ ~connected /\ e.kind \notin {"cd", "closed"} /\ UNCHANGED <<row, asked>>
        \/ e.kind = "cd" /\ ApplyCwd(e.dir)
        \/ e.kind = "closed" /\ ApplyClosed
        \/ connected /\ e.kind = "entries" /\ ApplyEntries(e.dir)
        \/ connected /\ e.kind = "error" /\ ApplyError
        \/ connected /\ e.kind = "batch" /\ ApplyBatch(e.id)
        \/ connected /\ e.kind \in {"busy", "over"} /\ ApplyState(e.id, e.kind = "busy")
  /\ UNCHANGED <<pumpVars, handle, gen, workerVars>>

-----------------------------------------------------------------------------
UserStep ==
  \/ \E d \in Dirs : Navigate(d) \/ LocateResult(d) \/ Refresh(d)
  \/ NavigateBack \/ LocalSearch \/ CancelSearch \/ Reconnect
  \/ \E s \in Searches : SearchFolder(s)

PumpStep ==
  \/ DebounceFires \/ PumpClosed
  \/ \E d \in Dirs, follow \in BOOLEAN : PumpCwd(d, follow)

WorkerStep(g) ==
  \/ WorkerStarts(g) \/ WorkerFails(g) \/ WorkerStops(g)
  \/ ListDir(g) \/ StartSearch(g) \/ StopSearch(g)
  \/ \E d \in Dirs : ListsUnasked(g, d)

TaskStep(s) == SearchReports(s) \/ SearchEnds(s) \/ SearchAborted(s)

Next ==
  \/ UserStep
  \/ PumpStep
  \/ \E g \in Gens : WorkerStep(g)
  \/ \E s \in Searches : TaskStep(s)
  \/ ApplyEvent

Spec == Init /\ [][Next]_vars

-----------------------------------------------------------------------------
(* Properties.                                                             *)

(* Nothing the panel waits for is under way.                               *)
Quiet ==
  /\ connected /\ uiQ = <<>> /\ debounce = NoDir
  /\ handle # 0 /\ worker[handle] = "serving" /\ cmds[handle] = <<>>
  /\ \A s \in Searches : task[s] \in {"none", "done"}

(* Once the user went to another directory, or the search was ended by an  *)
(* error or a disconnect, no late event of a search brings it back.        *)
SearchIsLeft == row.plain => ~row.running /\ row.id = NoSearch

(* A listing is of one directory or of one search: results of a replaced   *)
(* search, or a directory, never mix with those of the current one.        *)
NoMixedList == \A x, y \in row.shown : x = y

(* The panel's state is one the code knows, and its listing is not mixed.  *)
ListIsSound == TypeOK /\ NoMixedList

(* Outside of search, what the user or the shell asked for last wins: when *)
(* all answers are in, the panel shows that directory, whatever else was   *)
(* listed meanwhile (or reports an error).  Root is left out: see          *)
(* FirstListing.                                                           *)
LastRequestWins ==
  Quiet /\ row.plain /\ ~row.failed /\ asked.dir # Root
        /\ asked.by = "request"
  => row.path = asked.dir /\ row.shown = {asked.dir}

(* Outside of search, the spinner stops: a cd is only forwarded with a     *)
(* listing to come (#59), and navigation is answered.                      *)
SpinnerStops ==
  Quiet /\ row.plain /\ asked.by \in {"open", "request"} => ~row.loading
=============================================================================
