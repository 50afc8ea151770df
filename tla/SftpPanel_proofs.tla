--------------------------- MODULE SftpPanel_proofs ---------------------------
(***************************************************************************)
(* Proofs about SftpPanel for any directories, searches, workers and       *)
(* queues: types, no return to a search that was left, no mixed listing,   *)
(* and that the last request is answered: what the queues hold while the   *)
(* panel waits.                                                            *)
(***************************************************************************)
EXTENDS SftpPanel, TLAPS

USE DirsAssumption, SearchAssumption, GenAssumption

(* The results of a search are listed alone while the panel is in it.      *)
SearchListedAlone == row.id # NoSearch => row.shown \subseteq {row.id}

Inv == TypeOK /\ SearchIsLeft /\ SearchListedAlone /\ NoMixedList

(* The part of Inv that is about the row, for a row r.                     *)
GoodRow(r) ==
  /\ r \in Row
  /\ r.plain => ~r.running /\ r.id = NoSearch
  /\ r.id # NoSearch => r.shown \subseteq {r.id}
  /\ \A x, y \in r.shown : x = y

(* The part of TypeOK that is not about the row.                           *)
OtherTypes ==
  /\ connected \in BOOLEAN
  /\ lastCwd \in Dirs \cup {NoDir}
  /\ debounce \in Dirs \cup {NoDir}
  /\ gen \in Gens
  /\ handle \in 0 .. gen
  /\ worker \in [Gens -> {"unborn", "starting", "serving", "closing", "dead"}]
  /\ cmds \in [Gens -> Seq(Command)]
  /\ current \in [Gens -> Searches \cup {NoSearch}]
  /\ task \in [Searches -> {"none", "running", "aborted", "done"}]
  /\ uiQ \in Seq(Event)
  /\ asked \in [dir : Dirs, by : Requests]

LEMMA InvSplits == Inv <=> GoodRow(row) /\ OtherTypes
BY DEF Inv, GoodRow, OtherTypes, TypeOK, SearchIsLeft, SearchListedAlone, NoMixedList

(* The same of the next state.                                             *)
LEMMA InvPrimed ==
  ASSUME GoodRow(row'), OtherTypes'
  PROVE  Inv'
BY DEF Inv, GoodRow, OtherTypes, TypeOK, SearchIsLeft, SearchListedAlone, NoMixedList

-----------------------------------------------------------------------------
(* What the panel's own updates do to a row.                               *)
LEMMA LeftSearchKeepsRow ==
  ASSUME NEW r, GoodRow(r)
  PROVE  GoodRow(LeftSearch(r))
BY DEF GoodRow, Row, LeftSearch

LEMMA MovedKeepsRow ==
  ASSUME NEW r, GoodRow(r), NEW d \in Dirs, NEW b \in Dirs \cup {NoDir},
         NEW l \in BOOLEAN, NEW f \in BOOLEAN
  PROVE  /\ GoodRow([r EXCEPT !.path = d, !.loading = l])
         /\ GoodRow([r EXCEPT !.back = b])
         /\ GoodRow([r EXCEPT !.back = b, !.path = d, !.loading = l])
         /\ GoodRow([r EXCEPT !.loading = l, !.failed = f])
         /\ GoodRow([r EXCEPT !.loading = l])
BY DEF GoodRow, Row

(* Sending keeps the command channels typed.                               *)
LEMMA SendKeepsTypes ==
  ASSUME OtherTypes, NEW cs \in Seq(Command), Send(cs)
  PROVE  cmds' \in [Gens -> Seq(Command)]
<1>1. \A g \in Gens : cmds[g] \o cs \in Seq(Command)
  BY DEF OtherTypes
<1>2. QED
  BY <1>1 DEF OtherTypes, Send

LEMMA Commands ==
  /\ Cancel \in Command
  /\ \A d \in Dirs : List(d) \in Command
  /\ \A s \in Searches : [op |-> "search", id |-> s] \in Command
BY DEF Cancel, List, Command

(* Posting keeps the queue typed.                                          *)
LEMMA PostKeepsTypes ==
  ASSUME OtherTypes, NEW e \in Event, Post(e)
  PROVE  uiQ' \in Seq(Event)
BY DEF OtherTypes, Post

LEMMA Events ==
  /\ Error \in Event
  /\ [kind |-> "closed"] \in Event
  /\ \A d \in Dirs : Entries(d) \in Event /\ [kind |-> "cd", dir |-> d] \in Event
  /\ \A s \in Searches, k \in {"batch", "busy", "over"} :
       [kind |-> k, id |-> s] \in Event
BY DEF Error, Entries, Event

(* Taking a command, and what ends a search.                               *)
LEMMA DoneKeepsTypes ==
  ASSUME OtherTypes, NEW g \in Gens, cmds[g] # <<>>, Done(g)
  PROVE  cmds' \in [Gens -> Seq(Command)]
<1>1. Tail(cmds[g]) \in Seq(Command)
  BY DEF OtherTypes
<1>2. QED
  BY <1>1 DEF OtherTypes, Done

LEMMA AbortedType ==
  ASSUME OtherTypes, NEW s \in Searches \cup {NoSearch}
  PROVE  Aborted(s) \in [Searches -> {"none", "running", "aborted", "done"}]
BY DEF OtherTypes, Aborted

LEMMA HeadCommand ==
  ASSUME OtherTypes, NEW g \in Gens, cmds[g] # <<>>
  PROVE  /\ Head(cmds[g]).op = "list" => Head(cmds[g]).dir \in Dirs
         /\ Head(cmds[g]).op = "search" => Head(cmds[g]).id \in Searches
<1>1. Head(cmds[g]) \in Command
  BY DEF OtherTypes
<1>2. QED
  BY <1>1 DEF Command

-----------------------------------------------------------------------------
LEMMA InvInit == Init => Inv
<1> SUFFICES ASSUME Init PROVE Inv
  OBVIOUS
<1>1. GoodRow(row)
  BY DEF Init, GoodRow, Row
<1>2. OtherTypes
  <2>1. 1 \in Gens
    BY DEF Gens
  <2>2. QED
    BY <2>1 DEF Init, OtherTypes, Requests
<1>3. QED
  BY <1>1, <1>2, InvSplits

(* The user's steps.                                                       *)
LEMMA InvUser ==
  ASSUME Inv, UserStep
  PROVE  Inv'
<1> USE Commands
<1>0. GoodRow(row) /\ OtherTypes
  BY InvSplits
<1>a. row.path \in Dirs /\ row.back \in Dirs \cup {NoDir} /\ row.loading \in BOOLEAN
      /\ row.running \in BOOLEAN
  BY <1>0 DEF GoodRow, Row
<1>1. ASSUME NEW d \in Dirs, Navigate(d)
      PROVE  Inv'
  <2>1. GoodRow([row EXCEPT !.back = row.path])
    BY <1>0, <1>a, MovedKeepsRow
  <2>2. GoodRow(IF d = row.path THEN row ELSE LeftSearch([row EXCEPT !.back = row.path]))
    BY <1>0, <2>1, LeftSearchKeepsRow
  <2>3. GoodRow(row')
    BY <1>1, <2>2, MovedKeepsRow DEF Navigate
  <2>4. <<Cancel, List(d)>> \in Seq(Command)
    OBVIOUS
  <2>5. cmds' \in [Gens -> Seq(Command)]
    BY <1>0, <1>1, <2>4, SendKeepsTypes DEF Navigate
  <2>6. OtherTypes'
    BY <1>0, <1>1, <2>5 DEF Navigate, OtherTypes, Requests
  <2>7. QED
    BY <2>3, <2>6, InvPrimed
<1>2. CASE NavigateBack
  <2>1. row.back \in Dirs
    BY <1>2, <1>a DEF NavigateBack
  <2>2. GoodRow(row')
    BY <1>0, <1>2, <1>a, <2>1, LeftSearchKeepsRow, MovedKeepsRow DEF NavigateBack
  <2>3. <<Cancel, List(row.back)>> \in Seq(Command)
    BY <2>1
  <2>4. cmds' \in [Gens -> Seq(Command)]
    BY <1>0, <1>2, <2>3, SendKeepsTypes DEF NavigateBack, OtherTypes
  <2>5. OtherTypes'
    BY <1>0, <1>2, <2>1, <2>4 DEF NavigateBack, OtherTypes, Requests
  <2>6. QED
    BY <2>2, <2>5, InvPrimed
<1>3. ASSUME NEW d \in Dirs, LocateResult(d)
      PROVE  Inv'
  <2>1. GoodRow(row')
    BY <1>0, <1>3 DEF LocateResult, GoodRow, Row
  <2>2. cmds' \in [Gens -> Seq(Command)]
    <3>1. <<List(d)>> \in Seq(Command)
      OBVIOUS
    <3>2. QED
      BY <1>0, <1>3, <3>1, SendKeepsTypes DEF LocateResult
  <2>3. OtherTypes'
    BY <1>0, <1>3, <2>2 DEF LocateResult, OtherTypes, Requests
  <2>4. QED
    BY <2>1, <2>3, InvPrimed
<1>4. ASSUME NEW d \in Dirs, Refresh(d)
      PROVE  Inv'
  <2>1. cmds' \in [Gens -> Seq(Command)]
    <3>1. <<List(d)>> \in Seq(Command)
      OBVIOUS
    <3>2. QED
      BY <1>0, <1>4, <3>1, SendKeepsTypes DEF Refresh
  <2>2. GoodRow(row') /\ OtherTypes'
    BY <1>0, <1>4, <2>1 DEF Refresh, OtherTypes, pumpVars
  <2>3. QED
    BY <2>2, InvPrimed
<1>5. CASE LocalSearch
  <2>1. GoodRow(row')
    BY <1>0, <1>5 DEF LocalSearch, GoodRow, Row
  <2>2. OtherTypes'
    BY <1>0, <1>5 DEF LocalSearch, OtherTypes, pumpVars, workerVars
  <2>3. QED
    BY <2>1, <2>2, InvPrimed
<1>6. ASSUME NEW s \in Searches, SearchFolder(s)
      PROVE  Inv'
  <2>1. GoodRow(row')
    BY <1>0, <1>6 DEF SearchFolder, GoodRow, Row
  <2>2. cmds' \in [Gens -> Seq(Command)]
    <3>1. <<[op |-> "search", id |-> s]>> \in Seq(Command)
      OBVIOUS
    <3>2. QED
      BY <1>0, <1>6, <3>1, SendKeepsTypes DEF SearchFolder
  <2>3. OtherTypes'
    BY <1>0, <1>6, <2>2 DEF SearchFolder, OtherTypes, pumpVars
  <2>4. QED
    BY <2>1, <2>3, InvPrimed
<1>7. CASE CancelSearch
  <2>1. GoodRow(row')
    BY <1>0, <1>7 DEF CancelSearch, GoodRow, Row
  <2>2. cmds' \in [Gens -> Seq(Command)]
    <3>1. <<Cancel>> \in Seq(Command)
      OBVIOUS
    <3>2. QED
      BY <1>0, <1>7, <3>1, SendKeepsTypes DEF CancelSearch
  <2>3. OtherTypes'
    BY <1>0, <1>7, <2>2 DEF CancelSearch, OtherTypes, pumpVars
  <2>4. QED
    BY <2>1, <2>3, InvPrimed
<1>8. CASE Reconnect
  <2>1. GoodRow(row')
    BY <1>0, <1>8 DEF Reconnect, GoodRow, Row
  <2>2. gen + 1 \in Gens
    BY <1>0, <1>8 DEF Reconnect, OtherTypes, Gens
  <2>3. OtherTypes'
    BY <1>0, <1>8, <1>a, <2>2 DEF Reconnect, OtherTypes, Requests, Gens
  <2>4. QED
    BY <2>1, <2>3, InvPrimed
<1>9. QED
  BY <1>1, <1>2, <1>3, <1>4, <1>5, <1>6, <1>7, <1>8 DEF UserStep

(* The pump's steps leave the row alone.                                   *)
LEMMA InvPump ==
  ASSUME Inv, PumpStep
  PROVE  Inv'
<1> USE Events, Commands
<1>0. GoodRow(row) /\ OtherTypes
  BY InvSplits
<1>1. CASE DebounceFires
  <2>1. debounce \in Dirs
    BY <1>0, <1>1 DEF DebounceFires, OtherTypes
  <2>2. <<List(debounce)>> \in Seq(Command)
    BY <2>1
  <2>3. cmds' \in [Gens -> Seq(Command)]
    BY <1>0, <1>1, <2>2, SendKeepsTypes DEF DebounceFires
  <2>4. GoodRow(row') /\ OtherTypes'
    BY <1>0, <1>1, <2>3 DEF DebounceFires, OtherTypes
  <2>5. QED
    BY <2>4, InvPrimed
<1>2. CASE PumpClosed
  <2>1. uiQ' \in Seq(Event)
    BY <1>0, <1>2, PostKeepsTypes DEF PumpClosed
  <2>2. worker' \in [Gens -> {"unborn", "starting", "serving", "closing", "dead"}]
    BY <1>0, <1>2 DEF PumpClosed, OtherTypes
  <2>3. GoodRow(row') /\ OtherTypes'
    BY <1>0, <1>2, <2>1, <2>2 DEF PumpClosed, OtherTypes, Gens
  <2>4. QED
    BY <2>3, InvPrimed
<1>3. ASSUME NEW d \in Dirs, NEW follow \in BOOLEAN, PumpCwd(d, follow)
      PROVE  Inv'
  <2>1. uiQ' \in Seq(Event)
    BY <1>0, <1>3, PostKeepsTypes DEF PumpCwd, OtherTypes
  <2>2. debounce' \in Dirs \cup {NoDir}
    BY <1>0, <1>3 DEF PumpCwd, OtherTypes
  <2>3. GoodRow(row') /\ OtherTypes'
    BY <1>0, <1>3, <2>1, <2>2 DEF PumpCwd, OtherTypes, workerVars
  <2>4. QED
    BY <2>3, InvPrimed
<1>4. QED
  BY <1>1, <1>2, <1>3 DEF PumpStep

(* Nor do those of the file workers and their searches touch it.           *)
LEMMA InvWorker ==
  ASSUME Inv, NEW g \in Gens, WorkerStep(g)
  PROVE  Inv'
<1> USE Events
<1>0. GoodRow(row) /\ OtherTypes
  BY InvSplits
<1>1. CASE WorkerStarts(g)
  <2>1. uiQ' \in Seq(Event)
    BY <1>0, <1>1, PostKeepsTypes DEF WorkerStarts
  <2>2. GoodRow(row') /\ OtherTypes'
    BY <1>0, <1>1, <2>1 DEF WorkerStarts, OtherTypes, pumpVars
  <2>3. QED
    BY <2>2, InvPrimed
<1>2. CASE WorkerFails(g)
  <2>1. GoodRow(row') /\ OtherTypes'
    BY <1>0, <1>2 DEF WorkerFails, OtherTypes, pumpVars
  <2>2. QED
    BY <2>1, InvPrimed
<1>3. CASE WorkerStops(g)
  <2>1. task' \in [Searches -> {"none", "running", "aborted", "done"}]
    BY <1>0, <1>3, AbortedType DEF WorkerStops, OtherTypes
  <2>2. GoodRow(row') /\ OtherTypes'
    BY <1>0, <1>3, <2>1 DEF WorkerStops, OtherTypes, pumpVars
  <2>3. QED
    BY <2>2, InvPrimed
<1>4. CASE ListDir(g)
  <2>1. Head(cmds[g]).dir \in Dirs
    BY <1>0, <1>4, HeadCommand DEF ListDir, Takes
  <2>2. uiQ' \in Seq(Event)
    BY <1>0, <1>4, <2>1, PostKeepsTypes DEF ListDir
  <2>3. cmds' \in [Gens -> Seq(Command)]
    BY <1>0, <1>4, DoneKeepsTypes DEF ListDir, Takes
  <2>4. GoodRow(row') /\ OtherTypes'
    BY <1>0, <1>4, <2>2, <2>3 DEF ListDir, OtherTypes, pumpVars
  <2>5. QED
    BY <2>4, InvPrimed
<1>5. CASE StartSearch(g)
  <2>1. Head(cmds[g]).id \in Searches
    BY <1>0, <1>5, HeadCommand DEF StartSearch, Takes
  <2>2. cmds' \in [Gens -> Seq(Command)]
    BY <1>0, <1>5, DoneKeepsTypes DEF StartSearch, Takes
  <2>3. Aborted(current[g]) \in [Searches -> {"none", "running", "aborted", "done"}]
    BY <1>0, AbortedType DEF OtherTypes
  <2>4. task' \in [Searches -> {"none", "running", "aborted", "done"}]
    BY <1>5, <2>3 DEF StartSearch
  <2>5. GoodRow(row') /\ OtherTypes'
    BY <1>0, <1>5, <2>1, <2>2, <2>4 DEF StartSearch, OtherTypes, pumpVars
  <2>6. QED
    BY <2>5, InvPrimed
<1>6. CASE StopSearch(g)
  <2>1. cmds' \in [Gens -> Seq(Command)]
    BY <1>0, <1>6, DoneKeepsTypes DEF StopSearch, Takes
  <2>2. CASE current[g] = NoSearch
    <3>1. GoodRow(row') /\ OtherTypes'
      BY <1>0, <1>6, <2>1, <2>2 DEF StopSearch, OtherTypes, pumpVars
    <3>2. QED
      BY <3>1, InvPrimed
  <2>3. CASE current[g] # NoSearch
    <3>1. current[g] \in Searches
      BY <1>0, <2>3 DEF OtherTypes
    <3>2. uiQ' \in Seq(Event)
      BY <1>0, <1>6, <2>3, <3>1, PostKeepsTypes DEF StopSearch
    <3>3. task' \in [Searches -> {"none", "running", "aborted", "done"}]
      BY <1>0, <1>6, <2>3, <3>1, AbortedType DEF StopSearch
    <3>4. GoodRow(row') /\ OtherTypes'
      BY <1>0, <1>6, <2>1, <2>3, <3>2, <3>3 DEF StopSearch, OtherTypes, pumpVars
    <3>5. QED
      BY <3>4, InvPrimed
  <2>4. QED
    BY <2>2, <2>3
<1>7. ASSUME NEW d \in Dirs, ListsUnasked(g, d)
      PROVE  Inv'
  <2>1. uiQ' \in Seq(Event)
    BY <1>0, <1>7, PostKeepsTypes DEF ListsUnasked
  <2>2. GoodRow(row') /\ OtherTypes'
    BY <1>0, <1>7, <2>1 DEF ListsUnasked, OtherTypes, pumpVars, workerVars
  <2>3. QED
    BY <2>2, InvPrimed
<1>8. QED
  BY <1>1, <1>2, <1>3, <1>4, <1>5, <1>6, <1>7 DEF WorkerStep

LEMMA InvTask ==
  ASSUME Inv, NEW s \in Searches, TaskStep(s)
  PROVE  Inv'
<1> USE Events
<1>0. GoodRow(row) /\ OtherTypes
  BY InvSplits
<1>1. CASE SearchReports(s)
  <2>1. uiQ' \in Seq(Event)
    BY <1>0, <1>1, PostKeepsTypes DEF SearchReports
  <2>2. GoodRow(row') /\ OtherTypes'
    BY <1>0, <1>1, <2>1 DEF SearchReports, OtherTypes, pumpVars, workerVars
  <2>3. QED
    BY <2>2, InvPrimed
<1>2. CASE SearchEnds(s)
  <2>1. uiQ' \in Seq(Event)
    BY <1>0, <1>2, PostKeepsTypes DEF SearchEnds
  <2>2. GoodRow(row') /\ OtherTypes'
    BY <1>0, <1>2, <2>1 DEF SearchEnds, OtherTypes, pumpVars
  <2>3. QED
    BY <2>2, InvPrimed
<1>3. CASE SearchAborted(s)
  <2>1. GoodRow(row') /\ OtherTypes'
    BY <1>0, <1>3 DEF SearchAborted, OtherTypes, pumpVars
  <2>2. QED
    BY <2>1, InvPrimed
<1>4. QED
  BY <1>1, <1>2, <1>3 DEF TaskStep

(* The events, as the UI applies them.                                     *)
LEMMA InvApply ==
  ASSUME Inv, ApplyEvent
  PROVE  Inv'
<1>0. GoodRow(row) /\ OtherTypes
  BY InvSplits
<1> DEFINE e == Head(uiQ)
<1>1. e \in Event /\ uiQ' \in Seq(Event)
  BY <1>0 DEF ApplyEvent, OtherTypes
<1>2. GoodRow(row') /\ asked' \in [dir : Dirs, by : Requests]
  <2>1. CASE UNCHANGED <<row, asked>>
    BY <1>0, <2>1 DEF OtherTypes
  <2>2. ASSUME e.kind = "cd", ApplyCwd(e.dir)
        PROVE  GoodRow(row') /\ asked' \in [dir : Dirs, by : Requests]
    <3>1. e.dir \in Dirs
      BY <1>1, <2>2 DEF Event
    <3>2. QED
      BY <1>0, <2>2, <3>1, MovedKeepsRow DEF ApplyCwd, Requests
  <2>3. CASE ApplyClosed \/ ApplyError
    <3>1. GoodRow(LeftSearch(row))
      BY <1>0, LeftSearchKeepsRow
    <3>2. /\ GoodRow([LeftSearch(row) EXCEPT !.loading = FALSE])
          /\ GoodRow([LeftSearch(row) EXCEPT !.loading = FALSE, !.failed = TRUE])
      BY <3>1, MovedKeepsRow
    <3>3. QED
      BY <1>0, <2>3, <3>2 DEF ApplyClosed, ApplyError, OtherTypes
  <2>4. ASSUME e.kind = "entries", ApplyEntries(e.dir)
        PROVE  GoodRow(row') /\ asked' \in [dir : Dirs, by : Requests]
    <3>1. e.dir \in Dirs
      BY <1>1, <2>4 DEF Event
    <3>2. QED
      BY <1>0, <2>4, <3>1 DEF ApplyEntries, Accepts, GoodRow, Row, OtherTypes
  <2>5. ASSUME e.kind = "batch", ApplyBatch(e.id)
        PROVE  GoodRow(row') /\ asked' \in [dir : Dirs, by : Requests]
    <3>1. e.id \in Searches
      BY <1>1, <2>5 DEF Event
    <3>2. QED
      BY <1>0, <2>5, <3>1 DEF ApplyBatch, Matches, GoodRow, Row, OtherTypes
  <2>6. ASSUME e.kind \in {"busy", "over"}, ApplyState(e.id, e.kind = "busy")
        PROVE  GoodRow(row') /\ asked' \in [dir : Dirs, by : Requests]
    <3>1. e.id \in Searches
      BY <1>1, <2>6 DEF Event
    <3>2. QED
      BY <1>0, <2>6, <3>1 DEF ApplyState, Matches, GoodRow, Row, OtherTypes
  <2>7. QED
    BY <2>1, <2>2, <2>3, <2>4, <2>5, <2>6 DEF ApplyEvent
<1>3. OtherTypes'
  BY <1>0, <1>1, <1>2 DEF ApplyEvent, OtherTypes, pumpVars, workerVars
<1>4. QED
  BY <1>2, <1>3, InvPrimed

LEMMA InvInductive == Inv /\ [Next]_vars => Inv'
<1> SUFFICES ASSUME Inv, [Next]_vars PROVE Inv'
  OBVIOUS
<1>1. CASE Next
  BY <1>1, InvUser, InvPump, InvWorker, InvTask, InvApply DEF Next
<1>2. CASE UNCHANGED vars
  <2>1. GoodRow(row') /\ OtherTypes'
    BY <1>2, InvSplits DEF vars, pumpVars, workerVars, OtherTypes
  <2>2. QED
    BY <2>1, InvPrimed
<1>3. QED
  BY <1>1, <1>2

LEMMA InvAlways == Spec => []Inv
BY InvInit, InvInductive, PTL DEF Spec

-----------------------------------------------------------------------------
(* A search that the panel has left by navigation, an error, a disconnect  *)
(* or a reconnect is not brought back by what is still on its way.         *)
THEOREM SearchStaysLeft == Spec => []SearchIsLeft
<1>1. Inv => SearchIsLeft
  BY DEF Inv
<1>2. QED
  BY <1>1, InvAlways, PTL

(* The panel's state stays typed, and what is listed is one directory or   *)
(* the results of one search, for any directories, searches, workers and   *)
(* queue lengths.                                                          *)
THEOREM ListIsOfOneThing == Spec => []ListIsSound
<1>1. Inv => ListIsSound
  BY DEF Inv, ListIsSound
<1>2. QED
  BY <1>1, InvAlways, PTL
-----------------------------------------------------------------------------
(* Every request is answered: what the queues of events and commands hold  *)
(* while the panel waits.                                                  *)

(* Directories a listing is still to come from: asked for, or about to be; *)
(* every directory, when nobody is there to ask.                           *)
Lost == handle = 0 \/ worker[handle] = "dead"
Asked == {d \in Dirs : Lost \/ \E i \in DOMAIN cmds[handle] : cmds[handle][i] = List(d)}
Expected == Asked \cup {debounce}

(* Nobody is there to ask, or the worker has yet to list the home.         *)
Fresh == Lost \/ worker[handle] = "starting"

(* The event ends the wait for directory d: an answer, or another request. *)
Serves(e, d) == e = Entries(d) \/ e = Error \/ e.kind = "cd"
Served(q, d) == \E j \in DOMAIN q : Serves(q[j], d)

(* Every cd of the queue is followed by what serves it, or that is to come *)
(* from the directories in ds.                                             *)
CdsServed(q, ds) ==
  \A i \in DOMAIN q : (q[i].kind = "cd") =>
    (q[i].dir \in ds \/ \E j \in DOMAIN q : (j > i) /\ Serves(q[j], q[i].dir))

Answer(e) == e.kind \in {"cd", "entries", "error"}
AnyAnswer(q) == \E j \in DOMAIN q : Answer(q[j])

(* The shell's events; the last of them is that it closed.                 *)
OfShell(e) == e.kind \in {"cd", "closed"}
NoneOfShell(q) == \A i \in DOMAIN q : ~OfShell(q[i])
NoClosed(q) == \A i \in DOMAIN q : q[i].kind # "closed"
ClosedLast(q) ==
  \A i, j \in DOMAIN q : (q[i].kind = "closed" /\ j > i) => ~OfShell(q[j])

CdIsAnswered == CdsServed(uiQ, Expected)

(* The panel is in a search, or it stopped waiting and shows an error or   *)
(* the directory.                                                          *)
Settled ==
  \/ ~row.plain
  \/ /\ ~row.loading
     /\ row.failed \/ asked.dir = Root \/ row.shown = {asked.dir}

RequestIsAnswered ==
  (asked.by = "request") =>
    (Settled \/ asked.dir \in Expected \/ Served(uiQ, asked.dir))

(* A fresh panel waits for the listing of the home directory.              *)
OpeningIsAnswered ==
  (asked.by = "open") =>
    (/\ asked.dir = Root
     /\ (row.loading /\ row.plain) =>
          (/\ row.shown = {}
           /\ Fresh \/ AnyAnswer(uiQ)))

ClosedIsLast ==
  /\ (handle # 0) => (connected /\ NoClosed(uiQ))
  /\ ~connected => NoneOfShell(uiQ)
  /\ ClosedLast(uiQ)

(* The panel is where it was sent.  Only while it shows nothing but "/"    *)
(* does a listing move it, and that one ends the wait.                     *)
PathIsAsked ==
  /\ (asked.dir # Root) => (row.path = asked.dir)
  /\ (row.loading /\ row.plain /\ asked.by \in {"open", "request"}) => (row.path = asked.dir)

WaitInv ==
  CdIsAnswered /\ RequestIsAnswered /\ OpeningIsAnswered /\ ClosedIsLast /\ PathIsAsked

LEMMA WaitInit == Init => WaitInv
<1> SUFFICES ASSUME Init PROVE WaitInv
  OBVIOUS
<1>1. worker[handle] = "starting"
  BY DEF Init, Gens
<1>2. uiQ = <<>>
  BY DEF Init
<1>3. CdIsAnswered /\ ClosedIsLast
  BY <1>2 DEF Init, CdIsAnswered, CdsServed, ClosedIsLast, NoClosed, ClosedLast
<1>4. RequestIsAnswered /\ OpeningIsAnswered /\ PathIsAsked
  BY <1>1 DEF Init, RequestIsAnswered, OpeningIsAnswered, PathIsAsked, Fresh
<1>5. QED
  BY <1>3, <1>4 DEF WaitInv

-----------------------------------------------------------------------------
(* The queue of events, one longer or without its head.                    *)
LEMMA Longer ==
  ASSUME NEW q \in Seq(Event), NEW e \in Event
  PROVE  \E last \in Nat :
           /\ last \in DOMAIN Append(q, e) /\ Append(q, e)[last] = e
           /\ \A i \in DOMAIN q : /\ i \in Nat /\ i < last /\ i \in DOMAIN Append(q, e)
                                  /\ Append(q, e)[i] = q[i]
           /\ \A i \in DOMAIN Append(q, e) : i \in Nat /\ (i = last \/ i \in DOMAIN q)
<1> DEFINE last == Len(q) + 1
           r == Append(q, e)
<1>1. /\ last \in DOMAIN r /\ r[last] = e
      /\ \A i \in DOMAIN q : /\ i \in Nat /\ i < last /\ i \in DOMAIN r /\ r[i] = q[i]
      /\ \A i \in DOMAIN r : i \in Nat /\ (i = last \/ i \in DOMAIN q)
  OBVIOUS
<1>2. last \in Nat
  OBVIOUS
<1> HIDE DEF last, r
<1>3. QED
  BY <1>1, <1>2 DEF r

LEMMA Shorter ==
  ASSUME NEW q \in Seq(Event), q # <<>>
  PROVE  /\ Head(q) \in Event /\ Tail(q) \in Seq(Event)
         /\ 1 \in DOMAIN q /\ q[1] = Head(q)
         /\ \A i \in DOMAIN Tail(q) : /\ i \in Nat /\ i >= 1 /\ i + 1 \in DOMAIN q
                                      /\ Tail(q)[i] = q[i + 1]
         /\ \A i \in DOMAIN q : /\ i \in Nat /\ i >= 1
                                /\ (i # 1) => (i - 1 \in DOMAIN Tail(q) /\ Tail(q)[i - 1] = q[i])
OBVIOUS

LEMMA PostServes ==
  ASSUME NEW q \in Seq(Event), NEW e \in Event, NEW ds, NEW ds2, CdsServed(q, ds),
         \A d \in ds : d \in ds2 \/ Serves(e, d),
         (e.kind = "cd") => (e.dir \in ds2)
  PROVE  CdsServed(Append(q, e), ds2)
<1> DEFINE r == Append(q, e)
<1>1. PICK last \in Nat :
        /\ last \in DOMAIN r /\ r[last] = e
        /\ \A i \in DOMAIN q : i \in Nat /\ i < last /\ i \in DOMAIN r /\ r[i] = q[i]
        /\ \A i \in DOMAIN r : i \in Nat /\ (i = last \/ i \in DOMAIN q)
  BY Longer
<1> HIDE DEF r
<1>2. ASSUME NEW i \in DOMAIN r, r[i].kind = "cd"
      PROVE  r[i].dir \in ds2 \/ \E j \in DOMAIN r : (j > i) /\ Serves(r[j], r[i].dir)
  <2>1. CASE i = last
    BY <1>1, <1>2, <2>1
  <2>2. CASE i # last
    <3>1. i \in DOMAIN q /\ i < last /\ r[i] = q[i]
      BY <1>1, <2>2
    <3>2. q[i].dir \in ds \/ \E j \in DOMAIN q : (j > i) /\ Serves(q[j], q[i].dir)
      BY <1>2, <3>1 DEF CdsServed
    <3>3. CASE q[i].dir \in ds
      BY <1>1, <3>1, <3>3
    <3>4. ASSUME NEW j \in DOMAIN q, j > i, Serves(q[j], q[i].dir)
          PROVE  j \in DOMAIN r /\ (j > i) /\ Serves(r[j], r[i].dir)
      BY <1>1, <3>1, <3>4
    <3>5. QED
      BY <3>2, <3>3, <3>4
  <2>3. QED
    BY <2>1, <2>2
<1>3. CdsServed(r, ds2)
  BY <1>2 DEF CdsServed
<1>4. QED
  BY <1>3 DEF r

LEMMA PostKeeps ==
  ASSUME NEW q \in Seq(Event), NEW e \in Event
  PROVE  /\ \A d : Served(q, d) \/ Serves(e, d) => Served(Append(q, e), d)
         /\ AnyAnswer(q) \/ Answer(e) => AnyAnswer(Append(q, e))
         /\ NoneOfShell(q) /\ ~OfShell(e) => NoneOfShell(Append(q, e))
         /\ NoClosed(q) /\ (e.kind # "closed") => NoClosed(Append(q, e))
         /\ ClosedLast(q) /\ (NoClosed(q) \/ ~OfShell(e)) => ClosedLast(Append(q, e))
<1> DEFINE r == Append(q, e)
<1>1. PICK last \in Nat :
        /\ last \in DOMAIN r /\ r[last] = e
        /\ \A i \in DOMAIN q : i \in Nat /\ i < last /\ i \in DOMAIN r /\ r[i] = q[i]
        /\ \A i \in DOMAIN r : i \in Nat /\ (i = last \/ i \in DOMAIN q)
  BY Longer
<1> HIDE DEF r
<1>2. \A d : Served(q, d) \/ Serves(e, d) => Served(r, d)
  BY <1>1 DEF Served
<1>3. AnyAnswer(q) \/ Answer(e) => AnyAnswer(r)
  BY <1>1 DEF AnyAnswer
<1>4. NoneOfShell(q) /\ ~OfShell(e) => NoneOfShell(r)
  BY <1>1 DEF NoneOfShell
<1>5. NoClosed(q) /\ (e.kind # "closed") => NoClosed(r)
  BY <1>1 DEF NoClosed
<1>6. ASSUME ClosedLast(q), NoClosed(q) \/ ~OfShell(e),
             NEW i \in DOMAIN r, NEW j \in DOMAIN r, r[i].kind = "closed", j > i
      PROVE  ~OfShell(r[j])
  <2>1. i \in DOMAIN q /\ r[i] = q[i]
    BY <1>1, <1>6
  <2>2. ~NoClosed(q)
    BY <1>6, <2>1 DEF NoClosed
  <2>3. CASE j = last
    BY <1>1, <1>6, <2>2, <2>3
  <2>4. CASE j # last
    BY <1>1, <1>6, <2>1, <2>4 DEF ClosedLast
  <2>5. QED
    BY <2>3, <2>4
<1>7. ClosedLast(q) /\ (NoClosed(q) \/ ~OfShell(e)) => ClosedLast(r)
  BY <1>6 DEF ClosedLast
<1>8. QED
  BY <1>2, <1>3, <1>4, <1>5, <1>7 DEF r

LEMMA TakeKeeps ==
  ASSUME NEW q \in Seq(Event), q # <<>>
  PROVE  /\ \A ds : CdsServed(q, ds) => CdsServed(Tail(q), ds)
         /\ \A ds : CdsServed(q, ds) /\ (Head(q).kind = "cd") =>
              (Head(q).dir \in ds \/ Served(Tail(q), Head(q).dir))
         /\ \A d : Served(q, d) => Serves(Head(q), d) \/ Served(Tail(q), d)
         /\ AnyAnswer(q) => Answer(Head(q)) \/ AnyAnswer(Tail(q))
         /\ NoneOfShell(q) => NoneOfShell(Tail(q)) /\ ~OfShell(Head(q))
         /\ NoClosed(q) => NoClosed(Tail(q)) /\ (Head(q).kind # "closed")
         /\ ClosedLast(q) => ClosedLast(Tail(q))
         /\ ClosedLast(q) /\ (Head(q).kind = "closed") => NoneOfShell(Tail(q))
<1> DEFINE r == Tail(q)
           h == Head(q)
<1>1. /\ 1 \in DOMAIN q /\ q[1] = h
      /\ \A i \in DOMAIN r : i \in Nat /\ i >= 1 /\ i + 1 \in DOMAIN q /\ r[i] = q[i + 1]
      /\ \A i \in DOMAIN q : /\ i \in Nat /\ i >= 1
                             /\ (i # 1) => (i - 1 \in DOMAIN r /\ r[i - 1] = q[i])
  BY Shorter
<1> HIDE DEF r, h
<1>2. ASSUME NEW ds, CdsServed(q, ds), NEW i \in DOMAIN r, r[i].kind = "cd"
      PROVE  r[i].dir \in ds \/ \E j \in DOMAIN r : (j > i) /\ Serves(r[j], r[i].dir)
  <2>1. q[i + 1].dir \in ds
        \/ \E j \in DOMAIN q : (j > i + 1) /\ Serves(q[j], q[i + 1].dir)
    BY <1>1, <1>2 DEF CdsServed
  <2>2. ASSUME NEW j \in DOMAIN q, j > i + 1, Serves(q[j], q[i + 1].dir)
        PROVE  j - 1 \in DOMAIN r /\ (j - 1 > i) /\ Serves(r[j - 1], r[i].dir)
    BY <1>1, <2>2
  <2>3. QED
    BY <1>1, <2>1, <2>2
<1>3. \A ds : CdsServed(q, ds) => CdsServed(r, ds)
  BY <1>2 DEF CdsServed
<1>4. ASSUME NEW d, NEW j \in DOMAIN q, Serves(q[j], d)
      PROVE  Serves(h, d) \/ Served(r, d)
  BY <1>1, <1>4 DEF Served
<1>5. AnyAnswer(q) => Answer(h) \/ AnyAnswer(r)
  BY <1>1 DEF AnyAnswer
<1>6. NoneOfShell(q) => NoneOfShell(r) /\ ~OfShell(h)
  BY <1>1 DEF NoneOfShell
<1>7. NoClosed(q) => NoClosed(r) /\ (h.kind # "closed")
  BY <1>1 DEF NoClosed
<1>8. ClosedLast(q) => ClosedLast(r)
  <2>1. \A i, j \in DOMAIN r : (j > i) => (j + 1 > i + 1)
    BY <1>1
  <2>2. QED
    BY <1>1, <2>1 DEF ClosedLast
<1>9. ClosedLast(q) /\ (h.kind = "closed") => NoneOfShell(r)
  <2>1. \A j \in DOMAIN r : j + 1 > 1
    BY <1>1
  <2>2. QED
    BY <1>1, <2>1 DEF ClosedLast, NoneOfShell
<1>10. ASSUME NEW ds, CdsServed(q, ds), h.kind = "cd"
       PROVE  h.dir \in ds \/ Served(r, h.dir)
  <2>1. h.dir \in ds \/ \E j \in DOMAIN q : (j > 1) /\ Serves(q[j], h.dir)
    BY <1>1, <1>10 DEF CdsServed
  <2>2. \A j \in DOMAIN q : (j > 1) => (j # 1)
    BY <1>1
  <2>3. QED
    BY <1>1, <2>1, <2>2 DEF Served
<1>11. QED
  BY <1>3, <1>4, <1>5, <1>6, <1>7, <1>8, <1>9, <1>10 DEF Served, r, h
-----------------------------------------------------------------------------
(* The command channel of the registered worker.                           *)
LEMMA SentIsAsked ==
  ASSUME OtherTypes, NEW cs \in Seq(Command), Send(cs), UNCHANGED <<handle, worker>>
  PROVE  /\ Asked \subseteq Asked'
         /\ \A d \in Dirs : (\E i \in DOMAIN cs : cs[i] = List(d)) => d \in Asked'
         /\ Fresh = Fresh'
<1>1. CASE Lost
  BY <1>1 DEF Lost, Asked, Fresh
<1>2. CASE ~Lost
  <2>1. handle \in Gens /\ handle' = handle
    BY <1>2 DEF OtherTypes, Lost, Gens
  <2>2. cmds'[handle] = cmds[handle] \o cs /\ cmds[handle] \in Seq(Command)
    BY <1>2, <2>1 DEF OtherTypes, Lost, Send
  <2> DEFINE q == cmds[handle]
             r == cmds'[handle]
  <2>3. /\ \A i \in DOMAIN q : i \in DOMAIN r /\ r[i] = q[i]
        /\ \A i \in DOMAIN cs : Len(q) + i \in DOMAIN r /\ r[Len(q) + i] = cs[i]
    BY <2>2
  <2> HIDE DEF q, r
  <2>4. QED
    BY <2>1, <2>3 DEF Asked, q, r, Lost, Fresh
<1>3. QED
  BY <1>1, <1>2

LEMMA TakenWasAsked ==
  ASSUME OtherTypes, NEW g \in Gens, cmds[g] # <<>>, Done(g), UNCHANGED <<handle, worker>>
  PROVE  /\ \A d \in Asked : d \in Asked' \/ (g = handle /\ Head(cmds[g]) = List(d))
         /\ Fresh = Fresh'
<1>1. CASE Lost
  BY <1>1 DEF Lost, Asked, Fresh
<1>2. CASE ~Lost
  <2>1. handle \in Gens /\ handle' = handle
    BY <1>2 DEF OtherTypes, Lost, Gens
  <2>2. CASE g # handle
    <3>1. cmds'[handle] = cmds[handle]
      BY <2>1, <2>2 DEF OtherTypes, Done
    <3>2. QED
      BY <2>1, <3>1 DEF Asked, Lost, Fresh
  <2>3. CASE g = handle
    <3> DEFINE q == cmds[handle]
               r == cmds'[handle]
    <3>1. q \in Seq(Command) /\ q # <<>> /\ r = Tail(q)
      BY <2>1, <2>3 DEF OtherTypes, Done
    <3>2. \A i \in DOMAIN q : (q[i] = Head(q)) \/ (i - 1 \in DOMAIN r /\ r[i - 1] = q[i])
      BY <3>1
    <3> HIDE DEF q, r
    <3>3. QED
      BY <2>1, <2>3, <3>2 DEF Asked, Lost, Fresh, q, r
  <2>4. QED
    BY <2>2, <2>3
<1>3. QED
  BY <1>1, <1>2

-----------------------------------------------------------------------------
(* Steps that leave the queue of events alone.                             *)
LEMMA QueueKept ==
  ASSUME WaitInv, UNCHANGED <<connected, uiQ, handle>>, Expected \subseteq Expected',
         RequestIsAnswered', OpeningIsAnswered', PathIsAsked'
  PROVE  WaitInv'
<1>1. CdsServed(uiQ, Expected')
  BY DEF WaitInv, CdIsAnswered, CdsServed
<1>2. CdIsAnswered'
  BY <1>1 DEF CdIsAnswered
<1>3. ClosedIsLast'
  BY DEF WaitInv, ClosedIsLast
<1>4. QED
  BY <1>2, <1>3 DEF WaitInv

LEMMA RowAndQueueKept ==
  ASSUME WaitInv, UNCHANGED <<connected, uiQ, handle, row, asked>>,
         Expected \subseteq Expected', Fresh => Fresh'
  PROVE  WaitInv'
<1>1. RequestIsAnswered'
  BY DEF WaitInv, RequestIsAnswered, Settled
<1>2. OpeningIsAnswered'
  BY DEF WaitInv, OpeningIsAnswered
<1>3. PathIsAsked'
  BY DEF WaitInv, PathIsAsked
<1>4. QED
  BY <1>1, <1>2, <1>3, QueueKept

(* Steps that post one event and leave the panel alone.                    *)
LEMMA RowKept ==
  ASSUME OtherTypes, WaitInv, NEW e \in Event, Post(e), UNCHANGED <<connected, row, asked>>,
         \A d \in Expected : d \in Expected' \/ Serves(e, d),
         (e.kind = "cd") => (e.dir \in Expected'),
         Fresh => Fresh' \/ Answer(e),
         handle' = handle \/ handle' = 0,
         (e.kind = "closed") => (handle' = 0),
         OfShell(e) => handle # 0
  PROVE  WaitInv'
<1>1. uiQ \in Seq(Event) /\ uiQ' = Append(uiQ, e)
  BY DEF OtherTypes, Post
<1>2. CdIsAnswered'
  <2>1. CdsServed(uiQ', Expected')
    BY <1>1, PostServes DEF WaitInv, CdIsAnswered
  <2>2. QED
    BY <2>1 DEF CdIsAnswered
<1>3. RequestIsAnswered'
  <2>1. \A d : Served(uiQ, d) \/ Serves(e, d) => Served(uiQ', d)
    BY <1>1, PostKeeps
  <2>2. QED
    BY <2>1 DEF WaitInv, RequestIsAnswered, Settled
<1>4. OpeningIsAnswered'
  <2>1. AnyAnswer(uiQ) \/ Answer(e) => AnyAnswer(uiQ')
    BY <1>1, PostKeeps
  <2>2. QED
    BY <2>1 DEF WaitInv, OpeningIsAnswered
<1>5. ClosedIsLast'
  <2>1. /\ NoneOfShell(uiQ) /\ ~OfShell(e) => NoneOfShell(uiQ')
        /\ NoClosed(uiQ) /\ (e.kind # "closed") => NoClosed(uiQ')
        /\ ClosedLast(uiQ) /\ (NoClosed(uiQ) \/ ~OfShell(e)) => ClosedLast(uiQ')
    BY <1>1, PostKeeps
  <2>2. QED
    BY <2>1 DEF WaitInv, ClosedIsLast
<1>6. PathIsAsked'
  BY DEF WaitInv, PathIsAsked
<1>7. QED
  BY <1>2, <1>3, <1>4, <1>5, <1>6 DEF WaitInv

-----------------------------------------------------------------------------
(* The user's steps.                                                       *)
LEMMA WaitUser ==
  ASSUME Inv, WaitInv, UserStep
  PROVE  WaitInv'
<1> USE Commands
<1>0. GoodRow(row) /\ OtherTypes
  BY InvSplits
<1>a. row \in Row
  BY <1>0 DEF GoodRow
<1>1. ASSUME NEW d \in Dirs, Navigate(d)
      PROVE  WaitInv'
  <2>1. <<Cancel, List(d)>> \in Seq(Command) /\ <<Cancel, List(d)>>[2] = List(d)
        /\ 2 \in DOMAIN <<Cancel, List(d)>>
    OBVIOUS
  <2>2. Asked \subseteq Asked' /\ d \in Asked' /\ Fresh = Fresh'
    BY <1>0, <1>1, <2>1, SentIsAsked DEF Navigate
  <2>3. row'.path = d /\ asked' = [dir |-> d, by |-> "request"]
    BY <1>1, <1>a DEF Navigate, LeftSearch, Row
  <2>4. RequestIsAnswered' /\ OpeningIsAnswered' /\ PathIsAsked'
    BY <2>2, <2>3 DEF RequestIsAnswered, OpeningIsAnswered, PathIsAsked, Expected
  <2>5. QED
    BY <1>1, <2>2, <2>4, QueueKept DEF Navigate, Expected
<1>2. CASE NavigateBack
  <2>0. row.back \in Dirs
    BY <1>a, <1>2 DEF NavigateBack, Row
  <2>1. row'.path = row.back
    BY <1>2, <1>a DEF NavigateBack, LeftSearch, Row
  <2>2. CASE row.back = row.path
    <3>1. asked' = [dir |-> row.back, by |-> "noop"]
      BY <1>2, <2>2 DEF NavigateBack
    <3>2. RequestIsAnswered' /\ OpeningIsAnswered' /\ PathIsAsked'
      BY <2>1, <3>1 DEF RequestIsAnswered, OpeningIsAnswered, PathIsAsked
    <3>3. Expected = Expected'
      BY <1>2, <2>2 DEF NavigateBack, Expected, Asked, Lost
    <3>4. QED
      BY <1>2, <3>2, <3>3, QueueKept DEF NavigateBack
  <2>3. CASE row.back # row.path
    <3> DEFINE cs == <<Cancel, List(row.back)>>
    <3>1. cs \in Seq(Command) /\ cs[2] = List(row.back) /\ 2 \in DOMAIN cs
      BY <2>0
    <3>2. Send(cs) /\ asked' = [dir |-> row.back, by |-> "request"]
      BY <1>2, <2>3 DEF NavigateBack
    <3> HIDE DEF cs
    <3>3. Asked \subseteq Asked' /\ row.back \in Asked'
      BY <1>0, <1>2, <2>0, <3>1, <3>2, SentIsAsked DEF NavigateBack
    <3>4. RequestIsAnswered' /\ OpeningIsAnswered' /\ PathIsAsked'
      BY <2>1, <3>2, <3>3 DEF RequestIsAnswered, OpeningIsAnswered, PathIsAsked, Expected
    <3>5. QED
      BY <1>2, <3>3, <3>4, QueueKept DEF NavigateBack, Expected
  <2>4. QED
    BY <2>2, <2>3
<1>3. ASSUME NEW d \in Dirs, LocateResult(d)
      PROVE  WaitInv'
  <2>1. <<List(d)>> \in Seq(Command) /\ <<List(d)>>[1] = List(d) /\ 1 \in DOMAIN <<List(d)>>
    OBVIOUS
  <2>2. Asked \subseteq Asked' /\ d \in Asked'
    BY <1>0, <1>3, <2>1, SentIsAsked DEF LocateResult
  <2>3. row'.path = d /\ asked' = [dir |-> d, by |-> "request"]
    BY <1>3, <1>a DEF LocateResult, Row
  <2>4. RequestIsAnswered' /\ OpeningIsAnswered' /\ PathIsAsked'
    BY <2>2, <2>3 DEF RequestIsAnswered, OpeningIsAnswered, PathIsAsked, Expected
  <2>5. QED
    BY <1>3, <2>2, <2>4, QueueKept DEF LocateResult, Expected
<1>4. ASSUME NEW d \in Dirs, Refresh(d)
      PROVE  WaitInv'
  <2>1. <<List(d)>> \in Seq(Command)
    OBVIOUS
  <2>2. Asked \subseteq Asked' /\ Fresh = Fresh'
    BY <1>0, <1>4, <2>1, SentIsAsked DEF Refresh
  <2>3. QED
    BY <1>4, <2>2, RowAndQueueKept DEF Refresh, Expected, pumpVars
<1>5. CASE LocalSearch
  <2>1. Expected = Expected' /\ Fresh = Fresh'
    BY <1>5 DEF LocalSearch, Expected, Asked, Lost, Fresh, pumpVars, workerVars
  <2>2. /\ row'.plain = row.plain /\ row'.loading = row.loading /\ row'.failed = row.failed
        /\ row'.shown = row.shown /\ row'.path = row.path
    BY <1>5, <1>a DEF LocalSearch, Row
  <2>3. RequestIsAnswered' /\ OpeningIsAnswered' /\ PathIsAsked'
    BY <1>5, <2>1, <2>2 DEF LocalSearch, WaitInv, RequestIsAnswered, OpeningIsAnswered,
                            PathIsAsked, Settled
  <2>4. QED
    BY <1>5, <2>1, <2>3, QueueKept DEF LocalSearch
<1>6. ASSUME NEW s \in Searches, SearchFolder(s)
      PROVE  WaitInv'
  <2>1. <<[op |-> "search", id |-> s]>> \in Seq(Command)
    OBVIOUS
  <2>2. Asked \subseteq Asked'
    BY <1>0, <1>6, <2>1, SentIsAsked DEF SearchFolder
  <2>3. ~row'.plain /\ row'.path = row.path
    BY <1>6, <1>a DEF SearchFolder, Row
  <2>4. RequestIsAnswered' /\ OpeningIsAnswered' /\ PathIsAsked'
    BY <1>6, <2>3 DEF SearchFolder, WaitInv, RequestIsAnswered, OpeningIsAnswered,
                      PathIsAsked, Settled
  <2>5. QED
    BY <1>6, <2>2, <2>4, QueueKept DEF SearchFolder, Expected, pumpVars
<1>7. CASE CancelSearch
  <2>1. <<Cancel>> \in Seq(Command)
    OBVIOUS
  <2>2. Asked \subseteq Asked'
    BY <1>0, <1>7, <2>1, SentIsAsked DEF CancelSearch
  <2>3. ~row'.plain /\ row'.path = row.path
    BY <1>0, <1>7, <1>a DEF CancelSearch, Row, GoodRow
  <2>4. RequestIsAnswered' /\ OpeningIsAnswered' /\ PathIsAsked'
    BY <1>7, <2>3 DEF CancelSearch, WaitInv, RequestIsAnswered, OpeningIsAnswered,
                      PathIsAsked, Settled
  <2>5. QED
    BY <1>7, <2>2, <2>4, QueueKept DEF CancelSearch, Expected, pumpVars
<1>8. CASE Reconnect
  <2>1. NoneOfShell(uiQ)
    BY <1>8 DEF Reconnect, WaitInv, ClosedIsLast
  <2>2. CdIsAnswered' /\ ClosedIsLast'
    BY <1>8, <2>1 DEF Reconnect, CdIsAnswered, CdsServed, ClosedIsLast, NoneOfShell, OfShell,
                      NoClosed, ClosedLast
  <2>3. asked' = [dir |-> row.path, by |-> "reconnect"] /\ row'.path = row.path
    BY <1>8, <1>a DEF Reconnect, Row
  <2>4. RequestIsAnswered' /\ OpeningIsAnswered' /\ PathIsAsked'
    BY <2>3 DEF RequestIsAnswered, OpeningIsAnswered, PathIsAsked
  <2>5. QED
    BY <2>2, <2>4 DEF WaitInv
<1>9. QED
  BY <1>1, <1>2, <1>3, <1>4, <1>5, <1>6, <1>7, <1>8 DEF UserStep
(* The pump's steps.                                                       *)
LEMMA WaitPump ==
  ASSUME Inv, WaitInv, PumpStep
  PROVE  WaitInv'
<1> USE Events, Commands
<1>0. GoodRow(row) /\ OtherTypes
  BY InvSplits
<1>1. CASE DebounceFires
  <2>1. debounce \in Dirs
    BY <1>0, <1>1 DEF DebounceFires, OtherTypes
  <2>2. <<List(debounce)>> \in Seq(Command) /\ <<List(debounce)>>[1] = List(debounce)
        /\ 1 \in DOMAIN <<List(debounce)>>
    BY <2>1
  <2>3. Asked \subseteq Asked' /\ debounce \in Asked' /\ Fresh = Fresh'
    BY <1>0, <1>1, <2>1, <2>2, SentIsAsked DEF DebounceFires
  <2>4. QED
    BY <1>1, <2>3, RowAndQueueKept DEF DebounceFires, Expected
<1>2. CASE PumpClosed
  <2> DEFINE e == [kind |-> "closed"]
  <2>1. e \in Event /\ Post(e) /\ handle' = 0 /\ handle # 0 /\ debounce' = debounce
        /\ UNCHANGED <<connected, row, asked>>
    BY <1>2 DEF PumpClosed
  <2>2. Lost'
    BY <2>1 DEF Lost
  <2>3. Asked' = Dirs /\ Fresh'
    BY <2>2 DEF Asked, Fresh
  <2>4. \A d \in Expected : d \in Expected'
    BY <2>1, <2>3 DEF Expected, Asked
  <2>5. e.kind = "closed"
    OBVIOUS
  <2> HIDE DEF e
  <2>6. QED
    BY <1>0, <2>1, <2>3, <2>4, <2>5, RowKept
<1>3. ASSUME NEW d \in Dirs, NEW follow \in BOOLEAN, PumpCwd(d, follow)
      PROVE  WaitInv'
  <2> DEFINE e == [kind |-> "cd", dir |-> d]
  <2>1. Asked = Asked' /\ Fresh = Fresh'
    BY <1>3 DEF PumpCwd, workerVars, Asked, Lost, Fresh
  <2>2. CASE d # lastCwd /\ follow
    <3>1. e \in Event /\ e.kind = "cd" /\ e.dir = d
      OBVIOUS
    <3>2. Post(e) /\ debounce' = d /\ handle # 0 /\ UNCHANGED <<connected, row, asked, handle>>
      BY <1>3, <2>2 DEF PumpCwd
    <3> HIDE DEF e
    <3>3. \A x \in Expected : x \in Expected' \/ Serves(e, x)
      BY <3>1 DEF Serves
    <3>4. d \in Expected'
      BY <3>2 DEF Expected
    <3>5. QED
      BY <1>0, <2>1, <3>1, <3>2, <3>3, <3>4, RowKept
  <2>3. CASE ~(d # lastCwd /\ follow)
    <3>1. UNCHANGED <<debounce, uiQ, connected, row, asked, handle>>
      BY <1>3, <2>3 DEF PumpCwd
    <3>2. QED
      BY <2>1, <3>1, RowAndQueueKept DEF Expected
  <2>4. QED
    BY <2>2, <2>3
<1>4. QED
  BY <1>1, <1>2, <1>3 DEF PumpStep

(* The file workers answer what they take.                                 *)
LEMMA WaitWorker ==
  ASSUME Inv, WaitInv, NEW g \in Gens, WorkerStep(g)
  PROVE  WaitInv'
<1> USE Events
<1>0. GoodRow(row) /\ OtherTypes
  BY InvSplits
<1>1. CASE WorkerStarts(g)
  <2>1. UNCHANGED <<connected, row, asked, handle, debounce, cmds>>
    BY <1>1 DEF WorkerStarts, pumpVars
  <2>2. \A h \in Gens : (worker[h] = "dead") = (worker'[h] = "dead")
    BY <1>0, <1>1 DEF WorkerStarts, OtherTypes
  <2>3. Lost = Lost'
    BY <1>0, <2>1, <2>2 DEF Lost, OtherTypes, Gens
  <2>4. Expected = Expected'
    BY <2>1, <2>3 DEF Expected, Asked
  <2>5. PICK e \in Event : Post(e) /\ (e = Entries(Home) \/ e = Error)
    BY <1>1 DEF WorkerStarts
  <2>6. Answer(e) /\ ~OfShell(e)
    BY <2>5 DEF Answer, OfShell, Entries, Error
  <2>7. QED
    BY <1>0, <2>1, <2>4, <2>5, <2>6, RowKept DEF OfShell
<1>2. CASE WorkerFails(g) \/ WorkerStops(g)
  <2>1. UNCHANGED <<connected, row, asked, handle, debounce, uiQ>>
    BY <1>2 DEF WorkerFails, WorkerStops, pumpVars
  <2>2. /\ \A h \in Gens : h # g => worker'[h] = worker[h] /\ cmds'[h] = cmds[h]
        /\ worker'[g] = "dead"
    BY <1>0, <1>2 DEF WorkerFails, WorkerStops, OtherTypes
  <2>3. (Lost => Lost') /\ (g = handle => Lost')
    BY <1>0, <2>1, <2>2 DEF Lost, OtherTypes, Gens
  <2>4. Asked \subseteq Asked' /\ (Fresh => Fresh')
    BY <1>0, <2>1, <2>2, <2>3 DEF Asked, Fresh, Lost, OtherTypes, Gens
  <2>5. QED
    BY <2>1, <2>4, RowAndQueueKept DEF Expected
<1>3. ASSUME ListDir(g) \/ StartSearch(g) \/ StopSearch(g)
      PROVE  /\ UNCHANGED <<connected, row, asked, handle, debounce>>
             /\ \A d \in Asked : d \in Asked' \/ (g = handle /\ Head(cmds[g]) = List(d))
             /\ Fresh = Fresh'
  <2>1. cmds[g] # <<>> /\ Done(g)
        /\ UNCHANGED <<connected, row, asked, handle, debounce, worker>>
    BY <1>3 DEF ListDir, StartSearch, StopSearch, Takes, pumpVars
  <2>2. QED
    BY <1>0, <2>1, TakenWasAsked
<1>4. CASE ListDir(g)
  <2>1. Head(cmds[g]).op = "list" /\ Head(cmds[g]) \in Command
    BY <1>0, <1>4 DEF ListDir, Takes, OtherTypes
  <2>2. PICK c \in Dirs : Head(cmds[g]) = List(c)
    BY <2>1 DEF Command, List
  <2>3. Head(cmds[g]).dir = c /\ (\A d : (List(c) = List(d)) => (c = d))
    BY <2>2 DEF List
  <2>4. PICK e \in Event : Post(e) /\ (e = Entries(c) \/ e = Error)
    BY <1>4, <2>3 DEF ListDir
  <2>5. Serves(e, c) /\ ~OfShell(e)
    BY <2>4 DEF Serves, OfShell, Entries, Error
  <2>6. \A d \in Expected : d \in Expected' \/ Serves(e, d)
    BY <1>3, <1>4, <2>2, <2>3, <2>5 DEF Expected
  <2>7. QED
    BY <1>0, <1>3, <1>4, <2>4, <2>5, <2>6, RowKept DEF OfShell
<1>5. CASE StartSearch(g) \/ StopSearch(g)
  <2>1. \A d : Head(cmds[g]) # List(d)
    BY <1>5 DEF StartSearch, StopSearch, Takes, List
  <2>2. Expected \subseteq Expected'
    BY <1>3, <1>5, <2>1 DEF Expected
  <2>3. CASE uiQ' = uiQ
    BY <1>3, <1>5, <2>2, <2>3, RowAndQueueKept
  <2>4. CASE uiQ' # uiQ
    <3>1. current[g] \in Searches
      BY <1>0, <1>5, <2>4 DEF StartSearch, StopSearch, OtherTypes
    <3>2. PICK e \in Event : Post(e) /\ e.kind = "over"
      BY <1>5, <2>4, <3>1 DEF StartSearch, StopSearch
    <3>3. QED
      BY <1>0, <1>3, <1>5, <2>2, <3>2, RowKept DEF OfShell
  <2>5. QED
    BY <2>3, <2>4
<1>6. ASSUME NEW d \in Dirs, ListsUnasked(g, d)
      PROVE  WaitInv'
  <2>1. Entries(d) \in Event /\ ~OfShell(Entries(d))
    BY DEF OfShell, Entries
  <2>2. Post(Entries(d)) /\ UNCHANGED <<connected, row, asked, handle, debounce, worker, cmds>>
    BY <1>6 DEF ListsUnasked, pumpVars, workerVars
  <2>3. Expected = Expected' /\ Fresh = Fresh'
    BY <2>2 DEF Expected, Asked, Lost, Fresh
  <2>4. QED
    BY <1>0, <2>1, <2>2, <2>3, RowKept DEF OfShell
<1>7. QED
  BY <1>1, <1>2, <1>4, <1>5, <1>6 DEF WorkerStep

(* Nobody waits for what a search task says.                               *)
LEMMA WaitTask ==
  ASSUME Inv, WaitInv, NEW s \in Searches, TaskStep(s)
  PROVE  WaitInv'
<1> USE Events
<1>0. OtherTypes
  BY InvSplits
<1>1. UNCHANGED <<connected, row, asked, handle, debounce, worker, cmds>>
  BY DEF TaskStep, SearchReports, SearchEnds, SearchAborted, pumpVars, workerVars
<1>2. Expected = Expected' /\ Fresh = Fresh'
  BY <1>1 DEF Expected, Asked, Lost, Fresh
<1>3. CASE uiQ' = uiQ
  BY <1>1, <1>2, <1>3, RowAndQueueKept
<1>4. CASE uiQ' # uiQ
  <2>1. PICK e \in Event : Post(e) /\ e.kind \in {"batch", "busy", "over"}
    BY <1>4 DEF TaskStep, SearchReports, SearchEnds, SearchAborted
  <2>2. QED
    BY <1>0, <1>1, <1>2, <2>1, RowKept DEF OfShell
<1>5. QED
  BY <1>3, <1>4
(* What the UI takes from the queue ends the wait, or does not matter.     *)
LEMMA WaitApply ==
  ASSUME Inv, WaitInv, ApplyEvent
  PROVE  WaitInv'
<1>0. GoodRow(row) /\ OtherTypes
  BY InvSplits
<1>a. /\ row \in Row /\ uiQ \in Seq(Event) /\ asked.dir \in Dirs
      /\ row.plain => ~row.running /\ row.id = NoSearch
  BY <1>0 DEF GoodRow, OtherTypes
<1> DEFINE e == Head(uiQ)
<1>1. uiQ # <<>> /\ uiQ' = Tail(uiQ) /\ e \in Event
      /\ connected' = (connected /\ e.kind # "closed")
      /\ UNCHANGED <<debounce, handle, worker, cmds>>
  BY <1>a DEF ApplyEvent, pumpVars, workerVars
<1>2. Expected = Expected' /\ Fresh = Fresh'
  BY <1>1 DEF Expected, Asked, Lost, Fresh
<1>3. CdIsAnswered'
  <2>1. CdsServed(uiQ', Expected)
    BY <1>a, <1>1, TakeKeeps DEF WaitInv, CdIsAnswered
  <2>2. QED
    BY <1>2, <2>1 DEF CdIsAnswered
<1>4. ClosedIsLast'
  <2>1. /\ NoneOfShell(uiQ) => NoneOfShell(uiQ')
        /\ NoClosed(uiQ) => NoClosed(uiQ') /\ (e.kind # "closed")
        /\ ClosedLast(uiQ) => ClosedLast(uiQ')
        /\ ClosedLast(uiQ) /\ (e.kind = "closed") => NoneOfShell(uiQ')
    BY <1>a, <1>1, TakeKeeps
  <2> HIDE DEF e
  <2>2. QED
    BY <1>1, <2>1 DEF WaitInv, ClosedIsLast
<1>5. handle = 0 => (asked.dir \in Expected' /\ Fresh')
  BY <1>a, <1>2 DEF Expected, Asked, Lost, Fresh
<1>6. /\ Served(uiQ, asked.dir) => Serves(e, asked.dir) \/ Served(uiQ', asked.dir)
      /\ AnyAnswer(uiQ) => Answer(e) \/ AnyAnswer(uiQ')
  BY <1>a, <1>1, TakeKeeps
<1>7. RequestIsAnswered' /\ OpeningIsAnswered' /\ PathIsAsked'
  <2>1. CASE ~connected /\ UNCHANGED <<row, asked>>
    <3>1. handle = 0
      BY <2>1 DEF WaitInv, ClosedIsLast
    <3>2. QED
      BY <1>5, <2>1, <3>1 DEF WaitInv, RequestIsAnswered, OpeningIsAnswered, PathIsAsked
  <2>2. ASSUME e.kind = "cd", ApplyCwd(e.dir)
        PROVE  RequestIsAnswered' /\ OpeningIsAnswered' /\ PathIsAsked'
    <3>1. row'.path = e.dir /\ asked' = [dir |-> e.dir, by |-> "request"]
      BY <1>a, <2>2 DEF ApplyCwd, Row
    <3>2. e.dir \in Expected \/ Served(uiQ', e.dir)
      BY <1>a, <1>1, <2>2, TakeKeeps DEF WaitInv, CdIsAnswered
    <3> HIDE DEF e
    <3>3. QED
      BY <1>2, <3>1, <3>2 DEF RequestIsAnswered, OpeningIsAnswered, PathIsAsked
  <2>3. ASSUME e.kind = "closed", ApplyClosed
        PROVE  RequestIsAnswered' /\ OpeningIsAnswered' /\ PathIsAsked'
    <3>1. handle = 0
      <4>1. ~NoClosed(uiQ)
        BY <1>a, <1>1, <2>3, TakeKeeps
      <4>2. QED
        BY <4>1 DEF WaitInv, ClosedIsLast
    <3>2. row'.path = row.path /\ ~row'.loading /\ asked' = asked
      BY <1>a, <2>3 DEF ApplyClosed, LeftSearch, Row
    <3>3. QED
      BY <1>5, <3>1, <3>2 DEF WaitInv, RequestIsAnswered, OpeningIsAnswered, PathIsAsked
  <2>4. ASSUME e.kind = "error", ApplyError
        PROVE  RequestIsAnswered' /\ OpeningIsAnswered' /\ PathIsAsked'
    <3>1. row'.path = row.path /\ ~row'.loading /\ row'.failed /\ asked' = asked
      BY <1>a, <2>4 DEF ApplyError, LeftSearch, Row
    <3>2. QED
      BY <3>1 DEF WaitInv, RequestIsAnswered, OpeningIsAnswered, PathIsAsked, Settled
  <2>5. ASSUME e.kind \in {"batch", "busy", "over"},
               ApplyBatch(e.id) \/ ApplyState(e.id, e.kind = "busy")
        PROVE  RequestIsAnswered' /\ OpeningIsAnswered' /\ PathIsAsked'
    <3>1. e.id \in Searches
      BY <1>1, <2>5 DEF Event
    <3>2. row'.path = row.path /\ row'.plain = row.plain /\ asked' = asked
          /\ (row.plain => row' = row)
      BY <1>a, <2>5, <3>1 DEF ApplyBatch, ApplyState, Matches, Row
    <3>3. ~Serves(e, asked.dir) /\ ~Answer(e)
      BY <2>5 DEF Serves, Answer, Entries, Error
    <3> HIDE DEF e
    <3>4. RequestIsAnswered'
      BY <1>2, <1>6, <3>2, <3>3 DEF WaitInv, RequestIsAnswered, Settled
    <3>5. OpeningIsAnswered' /\ PathIsAsked'
      BY <1>2, <1>6, <3>2, <3>3 DEF WaitInv, OpeningIsAnswered, PathIsAsked
    <3>6. QED
      BY <3>4, <3>5
  <2>6. ASSUME e.kind = "entries", ApplyEntries(e.dir)
        PROVE  RequestIsAnswered' /\ OpeningIsAnswered' /\ PathIsAsked'
    <3>1. e.dir \in Dirs /\ asked' = asked /\ row'.plain = row.plain
      BY <1>a, <1>1, <2>6 DEF Event, ApplyEntries, Row
    <3>2. CASE ~Accepts(e.dir)
      <4>1. row' = row
        BY <2>6, <3>2 DEF ApplyEntries
      <4>2. ~row.plain \/ e.dir # row.path
        BY <1>a, <3>2 DEF Accepts
      <4>3. PathIsAsked'
        BY <3>1, <4>1 DEF WaitInv, PathIsAsked
      <4>4. (asked.by = "open") => ~(row.loading /\ row.plain)
        BY <1>a, <3>2 DEF WaitInv, OpeningIsAnswered, PathIsAsked, Accepts, FirstListing
      <4>5. (Serves(e, asked.dir) /\ asked.by = "request") => Settled
        <5>1. Serves(e, asked.dir) => e.dir = asked.dir
          BY <2>6 DEF Serves, Entries, Error
        <5>2. QED
          BY <4>2, <5>1 DEF WaitInv, PathIsAsked, Settled
      <4>6. RequestIsAnswered'
        BY <1>2, <1>6, <3>1, <4>1, <4>5 DEF WaitInv, RequestIsAnswered, Settled
      <4>7. OpeningIsAnswered'
        BY <3>1, <4>1, <4>4 DEF WaitInv, OpeningIsAnswered
      <4>8. QED
        BY <4>3, <4>6, <4>7
    <3>3. CASE Accepts(e.dir)
      <4>1. /\ ~row'.loading /\ row'.shown = {e.dir}
            /\ row'.path = IF row.running THEN row.path ELSE e.dir
        BY <1>a, <2>6, <3>3 DEF ApplyEntries, Row
      <4>2. (asked.dir # Root) => (row'.path = asked.dir /\ (row.plain => e.dir = asked.dir))
        BY <1>a, <3>3, <4>1 DEF WaitInv, PathIsAsked, Accepts, FirstListing
      <4>3. Settled' /\ PathIsAsked'
        BY <3>1, <4>1, <4>2 DEF Settled, PathIsAsked
      <4>4. QED
        BY <3>1, <4>1, <4>3 DEF WaitInv, RequestIsAnswered, OpeningIsAnswered
    <3>4. QED
      BY <3>2, <3>3
  <2>7. QED
    BY <2>1, <2>2, <2>3, <2>4, <2>5, <2>6 DEF ApplyEvent
<1>8. QED
  BY <1>3, <1>4, <1>7 DEF WaitInv

-----------------------------------------------------------------------------
LEMMA WaitStep == Inv /\ WaitInv /\ [Next]_vars => WaitInv'
<1> SUFFICES ASSUME Inv, WaitInv, [Next]_vars PROVE WaitInv'
  OBVIOUS
<1>1. CASE Next
  BY <1>1, WaitUser, WaitPump, WaitWorker, WaitTask, WaitApply DEF Next
<1>2. CASE UNCHANGED vars
  <2>1. UNCHANGED <<connected, uiQ, handle, row, asked, debounce, worker, cmds>>
    BY <1>2 DEF vars, pumpVars, workerVars
  <2>2. Expected = Expected' /\ Fresh = Fresh'
    BY <2>1 DEF Expected, Asked, Lost, Fresh
  <2>3. QED
    BY <2>1, <2>2, RowAndQueueKept
<1>3. QED
  BY <1>1, <1>2

LEMMA WaitAlways == Spec => [](Inv /\ WaitInv)
<1>1. Inv /\ WaitInv /\ [Next]_vars => (Inv /\ WaitInv)'
  BY InvInductive, WaitStep
<1>2. QED
  BY <1>1, InvInit, WaitInit, PTL DEF Spec

(* When nothing is under way, nothing is expected.                         *)
LEMMA QuietExpects ==
  ASSUME Inv, Quiet
  PROVE  /\ Expected \cap Dirs = {} /\ ~Fresh /\ ~AnyAnswer(uiQ)
         /\ \A d : ~Served(uiQ, d)
<1>1. handle \in Gens
  BY InvSplits DEF Quiet, OtherTypes, Gens
<1>2. ~Lost /\ ~Fresh
  BY DEF Quiet, Lost, Fresh
<1>3. Asked = {}
  BY <1>2 DEF Quiet, Asked
<1>4. QED
  BY <1>2, <1>3 DEF Quiet, Expected, AnyAnswer, Served

(* When all answers are in, the panel shows the directory that the user or *)
(* the shell asked for last, in whatever order listings, searches, errors  *)
(* and reconnects came in between.                                         *)
THEOREM LastRequestIsShown == Spec => []LastRequestWins
<1>1. Inv /\ WaitInv => LastRequestWins
  <2> SUFFICES ASSUME Inv, WaitInv, Quiet, row.plain, ~row.failed, asked.dir # Root,
                      asked.by = "request"
               PROVE  row.path = asked.dir /\ row.shown = {asked.dir}
    BY DEF LastRequestWins
  <2>1. asked.dir \in Dirs
    BY InvSplits DEF OtherTypes
  <2>2. Settled
    BY <2>1, QuietExpects DEF WaitInv, RequestIsAnswered
  <2>3. QED
    BY <2>2 DEF Settled, WaitInv, PathIsAsked
<1>2. QED
  BY <1>1, WaitAlways, PTL

(* And its spinner has stopped.                                            *)
THEOREM SpinnerEnds == Spec => []SpinnerStops
<1>1. Inv /\ WaitInv => SpinnerStops
  <2> SUFFICES ASSUME Inv, WaitInv, Quiet, row.plain, asked.by \in {"open", "request"}
               PROVE  ~row.loading
    BY DEF SpinnerStops
  <2>1. asked.dir \in Dirs
    BY InvSplits DEF OtherTypes
  <2>2. CASE asked.by = "open"
    BY <2>2, QuietExpects DEF WaitInv, OpeningIsAnswered
  <2>3. CASE asked.by = "request"
    <3>1. Settled
      BY <2>1, <2>3, QuietExpects DEF WaitInv, RequestIsAnswered
    <3>2. QED
      BY <3>1 DEF Settled
  <2>4. QED
    BY <2>2, <2>3
<1>2. QED
  BY <1>1, WaitAlways, PTL
=============================================================================
