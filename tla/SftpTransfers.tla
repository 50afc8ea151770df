---------------------------- MODULE SftpTransfers ----------------------------
(***************************************************************************)
(* The transfers of one file connection: requests to the worker, the tasks *)
(* it spawns for them, their cancel flags, the files they leave, and the   *)
(* transfer rows of the window.  Every request runs as a task of its own,  *)
(* except opening a file externally, which runs in the command loop.  The  *)
(* tasks are stopped by a flag each looks at, by the connection's shutdown *)
(* flag, and 250 ms after a close by force, at any await.                  *)
(* What is inside one file (chunks, offsets) is not looked at, and the     *)
(* source of a transfer does not change while it is read.                  *)
(***************************************************************************)
EXTENDS Naturals, Sequences, FiniteSets

CONSTANTS
  Jobs,          (* requests of the user                                   *)
  KindsOf,       (* the kinds of request each may be                       *)
  Parts,         (* files in a folder                                      *)
  CmdCap, UiCap  (* bounds: waiting commands, waiting UI tasks             *)

Singles == {"download", "upload", "archive"}
AllKinds == {"download", "upload", "folder", "upfolder", "archive", "open"}

ASSUME KindsAssumption == KindsOf \in [Jobs -> SUBSET AllKinds]
ASSUME PartsAssumption == Parts \in Nat

VARIABLES
  kind,          (* what each job is                                       *)
  phase,         (* where each job is                                      *)
  part,          (* the file of its folder that is being transferred       *)
  outcome,       (* how its last file ended                                *)
  flag,          (* its cancel flag                                        *)
  registered,    (* cancels: the ids that CancelTransfer finds             *)
  file,          (* what is at each target: "left" is a file whose removal *)
                 (* was asked for and refused                              *)
  temp,          (* the archive of each job on the remote, in the same way *)
  cmds,          (* the worker's command channel                           *)
  worker,        (* "serving", "opening" (a file), "closing", "ended"      *)
  shutdown,      (* the connection's shutdown flag                         *)
  aborter,       (* SftpHandle::close's thread                             *)
  link,          (* the connection is up                                   *)
  disk,          (* the local disk takes data                              *)
  uiQ, connected, (* posted UI tasks; tab_statuses[tab].state # 2          *)
  rows,          (* the transfers popup                                    *)
  clicked        (* ghost: rows whose cancel button was pressed            *)

taskVars == <<phase, part, outcome, file, temp, registered>>
closeVars == <<shutdown, aborter, link, disk>>
uiVars == <<connected, rows, clicked>>
vars == <<kind, taskVars, flag, cmds, worker, closeVars, uiQ, uiVars>>

(* The id of a job's row; the files of a folder have ids of their own.     *)
Id(j) == <<j, 0>>
Ids == Jobs \X (0 .. Parts)
JobOf(id) == id[1]

Over == {"ended", "aborted"}
Running == {"preparing", "packing", "moving", "dropping", "sweeping", "cleaning"}
Final == {"done", "failed", "cancelled"}
Active == {"active", "preparing"}

Command == [op : {"run"}, job : Jobs] \cup [op : {"cancel"}, id : Ids]
             \cup [op : {"close"}]
Event == [id : Ids, state : Active \cup Final] \cup [state : {"closed"}]

TypeOK ==
  /\ kind \in [Jobs -> AllKinds]
  /\ phase \in [Jobs -> {"new", "sent"} \cup Running \cup Over]
  /\ part \in [Jobs -> 0 .. Parts]
  /\ outcome \in [Jobs -> {"ok", "cancelled", "failed"}]
  /\ flag \in [Jobs -> BOOLEAN]
  /\ registered \subseteq Jobs
  /\ file \in [Ids -> {"none", "partial", "whole", "left"}]
  /\ temp \in [Jobs -> {"none", "there", "left"}]
  /\ cmds \in Seq(Command)
  /\ worker \in {"serving", "opening", "closing", "ended"}
  /\ shutdown \in BOOLEAN
  /\ aborter \in {"off", "waiting", "aborting", "done"}
  /\ link \in BOOLEAN
  /\ disk \in BOOLEAN
  /\ uiQ \in Seq(Event)
  /\ connected \in BOOLEAN
  /\ rows \in [Ids -> {"none"} \cup Active \cup Final]
  /\ clicked \subseteq Ids

Init ==
  /\ kind \in {k \in [Jobs -> AllKinds] : \A j \in Jobs : k[j] \in KindsOf[j]}
  /\ phase = [j \in Jobs |-> "new"]
  /\ part = [j \in Jobs |-> 0]
  /\ outcome = [j \in Jobs |-> "ok"]
  /\ flag = [j \in Jobs |-> FALSE]
  /\ registered = {}
  /\ file = [id \in Ids |-> "none"]
  /\ temp = [j \in Jobs |-> "none"]
  /\ cmds = <<>>
  /\ worker = "serving"
  /\ shutdown = FALSE
  /\ aborter = "off"
  /\ link = TRUE
  /\ disk = TRUE
  /\ uiQ = <<>>
  /\ connected = TRUE
  /\ rows = [id \in Ids |-> "none"]
  /\ clicked = {}

-----------------------------------------------------------------------------
(* The user and the shell's pump.  The pump takes the handle out of the    *)
(* map when it closes the worker.                                          *)
HasHandle == ~shutdown
Send(c) == cmds' = IF worker \in {"closing", "ended"} THEN cmds ELSE Append(cmds, c)
MaySend == HasHandle /\ Len(cmds) < CmdCap

Request(j) ==
  /\ MaySend
  /\ phase[j] = "new"
  /\ phase' = [phase EXCEPT ![j] = "sent"]
  /\ Send([op |-> "run", job |-> j])
  /\ UNCHANGED <<kind, part, outcome, file, temp, registered, flag, worker,
                 closeVars, uiQ, uiVars>>

(* on_cancel_transfer: only rows that are active or preparing offer it.    *)
CancelTransfer(id) ==
  /\ MaySend
  /\ rows[id] \in Active
  /\ Send([op |-> "cancel", id |-> id])
  /\ clicked' = clicked \cup {id}
  /\ UNCHANGED <<kind, taskVars, flag, worker, closeVars, uiQ, connected, rows>>

(* on_clear_transfers                                                      *)
ClearTransfers ==
  /\ \E id \in Ids : rows[id] \in Final
  /\ rows' = [id \in Ids |-> IF rows[id] \in Active THEN rows[id] ELSE "none"]
  /\ UNCHANGED <<kind, taskVars, flag, cmds, worker, closeVars, uiQ, connected,
                 clicked>>

(* SftpHandle::close, by the pump when the shell ends.                     *)
CloseFiles ==
  /\ HasHandle /\ Len(uiQ) < UiCap
  /\ shutdown' = TRUE
  /\ aborter' = "waiting"
  /\ Send([op |-> "close"])
  /\ uiQ' = Append(uiQ, [state |-> "closed"])
  /\ UNCHANGED <<kind, taskVars, flag, worker, link, disk, uiVars>>

(* 250 ms later: the tasks tracked so far, then the worker itself.         *)
Spawned(j) == phase[j] \in Running /\ kind[j] # "open"

AbortTasks ==
  /\ aborter = "waiting"
  /\ aborter' = "aborting"
  /\ phase' = [j \in Jobs |-> IF Spawned(j) THEN "aborted" ELSE phase[j]]
  /\ UNCHANGED <<kind, part, outcome, file, temp, registered, flag, cmds, worker,
                 shutdown, link, disk, uiQ, uiVars>>

AbortWorker ==
  /\ aborter = "aborting"
  /\ aborter' = "done"
  /\ phase' = [j \in Jobs |-> IF kind[j] = "open" /\ phase[j] \in Running
                              THEN "aborted" ELSE phase[j]]
  /\ worker' = "ended"
  /\ cmds' = <<>>
  /\ UNCHANGED <<kind, part, outcome, file, temp, registered, flag, shutdown,
                 link, disk, uiQ, uiVars>>

(* The network and the disk, whenever they like.                           *)
ConnectionLost ==
  /\ link
  /\ link' = FALSE
  /\ UNCHANGED <<kind, taskVars, flag, cmds, worker, shutdown, aborter, disk, uiQ,
                 uiVars>>

DiskFills ==
  /\ disk
  /\ disk' = FALSE
  /\ UNCHANGED <<kind, taskVars, flag, cmds, worker, shutdown, aborter, link, uiQ,
                 uiVars>>

-----------------------------------------------------------------------------
(* The command loop.                                                       *)
Takes(op) == worker = "serving" /\ cmds # <<>> /\ Head(cmds).op = op

(* Mutant: the task registers itself when it opens its file.               *)
StartJob_Late ==
  /\ Takes("run")
  /\ cmds' = Tail(cmds)
  /\ LET j == Head(cmds).job IN
       /\ phase' = [phase EXCEPT ![j] = "preparing"]
       /\ IF kind[j] = "open"
          THEN worker' = "opening" ELSE UNCHANGED worker
  /\ UNCHANGED <<kind, part, outcome, file, temp, registered, flag, closeVars, uiQ,
                 uiVars>>

(* The flag is registered before the task is spawned.                      *)
StartJob ==
  /\ Takes("run")
  /\ cmds' = Tail(cmds)
  /\ LET j == Head(cmds).job IN
       /\ phase' = [phase EXCEPT ![j] = "preparing"]
       /\ IF kind[j] = "open"
          THEN worker' = "opening" /\ UNCHANGED registered
          ELSE registered' = registered \cup {j} /\ UNCHANGED worker
  /\ UNCHANGED <<kind, part, outcome, file, temp, flag, closeVars, uiQ, uiVars>>

(* Looks the id up among the registered ones.                              *)
HearCancel ==
  /\ Takes("cancel")
  /\ cmds' = Tail(cmds)
  /\ LET id == Head(cmds).id IN
       flag' = [j \in Jobs |-> flag[j] \/ (j \in registered /\ id = Id(j))]
  /\ UNCHANGED <<kind, taskVars, worker, closeVars, uiQ, uiVars>>

HearClose ==
  /\ Takes("close")
  /\ cmds' = <<>>
  /\ worker' = "closing"
  /\ flag' = [j \in Jobs |-> flag[j] \/ j \in registered]
  /\ UNCHANGED <<kind, phase, part, outcome, file, temp, registered, closeVars, uiQ,
                 uiVars>>

(* Out of the loop the worker hangs up, under the tasks it has set off.    *)
HangsUp ==
  /\ worker = "closing"
  /\ worker' = "ended"
  /\ link' = FALSE
  /\ UNCHANGED <<kind, taskVars, flag, cmds, shutdown, aborter, disk, uiQ, uiVars>>

-----------------------------------------------------------------------------
(* A job.  id is the row of the file it is at.                             *)
IsFolder(j) == kind[j] \in {"folder", "upfolder"}
Remote(j) == kind[j] \in {"upload", "upfolder"}
Cur(j) == <<j, part[j]>>
Emits(id, state) ==
  Len(uiQ) < UiCap /\ uiQ' = Append(uiQ, [id |-> id, state |-> state])
Goes(j, p) == phase' = [phase EXCEPT ![j] = p]
Cancelled(j) == flag[j] \/ shutdown

(* The last thing a task does is to take its flag out of the map; opening  *)
(* a file gives the command loop back.                                     *)
Ends(j) ==
  /\ Goes(j, "ended")
  /\ registered' = registered \ {j}
  /\ worker' = IF kind[j] = "open" /\ worker = "opening" THEN "serving" ELSE worker

Continues(j, p) ==
  Goes(j, p) /\ UNCHANGED <<registered, worker>>

(* What asking for a removal comes to: server or file system may refuse    *)
(* it, and the code looks at no result of one.                             *)
Removed(what, reachable) ==
  (IF reachable THEN {"none"} ELSE {}) \cup {IF what = "none" THEN "none" ELSE "left"}

(* tar on the remote; its row says so.                                     *)
PacksArchive(j) ==
  /\ phase[j] = "preparing" /\ kind[j] = "archive"
  /\ Continues(j, "packing")
  /\ Emits(Id(j), "preparing")
  /\ temp' = IF link THEN [temp EXCEPT ![j] = "there"] ELSE temp
  /\ UNCHANGED <<kind, part, outcome, file, flag, cmds, closeVars, uiVars>>

(* Ready to open the job's file, or the next of its folder.                *)
AtFile(j) ==
  \/ phase[j] = "preparing" /\ kind[j] # "archive"
  \/ phase[j] = "packing"

HasMore(j) == part[j] < Parts

Opens(j) ==
  /\ AtFile(j) /\ link
  /\ IsFolder(j) => ~Cancelled(j) /\ HasMore(j)
  /\ LET id == IF IsFolder(j) THEN <<j, part[j] + 1>> ELSE Id(j) IN
       /\ part' = [part EXCEPT ![j] = id[2]]
       /\ file' = [file EXCEPT ![id] = "partial"]
       /\ Emits(id, "active")
  /\ Continues(j, "moving")
  /\ UNCHANGED <<kind, outcome, temp, flag, cmds, closeVars, uiVars>>

(* Before there is a file: only single transfers and archives report it.   *)
FailsToOpen(j) ==
  /\ AtFile(j)
  /\ outcome' = [outcome EXCEPT ![j] = "failed"]
  /\ IF kind[j] = "archive" THEN Continues(j, "cleaning") ELSE Ends(j)
  /\ IF kind[j] \in {"download", "upload"}
     THEN Emits(Id(j), "failed") ELSE UNCHANGED uiQ
  /\ UNCHANGED <<kind, part, file, temp, flag, cmds, closeVars, uiVars>>

(* An empty folder: the task returns without taking its flag out.          *)
FindsEmptyFolder(j) ==
  /\ phase[j] = "preparing" /\ kind[j] = "folder" /\ part[j] = 0
  /\ Continues(j, "ended")
  /\ UNCHANGED <<kind, part, outcome, file, temp, flag, cmds, closeVars, uiQ,
                 uiVars>>

(* No more files, or a cancel seen between two of them.                    *)
FolderEnds(j) ==
  /\ phase[j] = "preparing" /\ IsFolder(j)
  /\ \/ Ends(j) /\ UNCHANGED outcome
     \/ /\ Cancelled(j)
        /\ Continues(j, "sweeping")
        /\ outcome' = [outcome EXCEPT ![j] = "cancelled"]
  /\ UNCHANGED <<kind, part, file, temp, flag, cmds, closeVars, uiQ, uiVars>>

(* The last chunk is in, and no look at the flags comes after it.          *)
Completes(j) ==
  /\ phase[j] = "moving" /\ link
  /\ file' = [file EXCEPT ![Cur(j)] = "whole"]
  /\ Emits(Cur(j), "done")
  /\ CASE IsFolder(j) -> Continues(j, "preparing")
       [] kind[j] = "archive" -> Continues(j, "cleaning")
       [] OTHER -> Ends(j)
  /\ UNCHANGED <<kind, part, outcome, temp, flag, cmds, closeVars, uiVars>>

Interrupted(j) ==
  /\ phase[j] = "moving"
  /\ \/ Cancelled(j) /\ outcome' = [outcome EXCEPT ![j] = "cancelled"]
     \/ outcome' = [outcome EXCEPT ![j] = "failed"]
  /\ Continues(j, "dropping")
  /\ UNCHANGED <<kind, part, file, temp, flag, cmds, closeVars, uiQ, uiVars>>

(* A download that writes until the file ends leaves at once when the disk *)
(* refuses a write.                                                        *)
DiskStops(j) ==
  /\ phase[j] = "moving" /\ ~Remote(j) /\ ~disk
  /\ outcome' = [outcome EXCEPT ![j] = "failed"]
  /\ IF kind[j] = "archive" THEN Continues(j, "cleaning") ELSE Ends(j)
  /\ IF kind[j] = "download" THEN Emits(Id(j), "failed") ELSE UNCHANGED uiQ
  /\ UNCHANGED <<kind, part, file, temp, flag, cmds, closeVars, uiVars>>

(* Mutant: a cancelled transfer keeps what it has.                         *)
Dropped_Keeps(j) == {file[Cur(j)]}

(* What may become of the partial file, whose removal is asked for.        *)
Dropped(j) == Removed(file[Cur(j)], link \/ ~Remote(j))

(* Mutant: a folder that failed is swept like one that was cancelled.      *)
AfterDrop_SweepsAll(j) ==
  IF IsFolder(j) THEN "sweeping" ELSE IF kind[j] = "archive" THEN "cleaning" ELSE "ended"

AfterDrop(j) ==
  CASE IsFolder(j) /\ outcome[j] = "cancelled" -> "sweeping"
    [] kind[j] = "archive" -> "cleaning"
    [] OTHER -> "ended"

(* Mutant: the row learns of a cancel only.                                *)
Told_CancelOnly(j) == outcome[j] = "cancelled"

(* A single transfer reports its failure; in a folder nobody does.         *)
Told(j) == outcome[j] = "cancelled" \/ kind[j] \in {"download", "upload"}

DropsFile(j) ==
  /\ phase[j] = "dropping"
  /\ \E f \in Dropped(j) : file' = [file EXCEPT ![Cur(j)] = f]
  /\ IF Told(j) THEN Emits(Cur(j), outcome[j]) ELSE UNCHANGED uiQ
  /\ IF AfterDrop(j) = "ended" THEN Ends(j) ELSE Continues(j, AfterDrop(j))
  /\ UNCHANGED <<kind, part, outcome, temp, flag, cmds, closeVars, uiVars>>

(* A cancelled folder takes its finished files with it: a local one whole, *)
(* of a remote one the files that were finished, one by one.  Any of them  *)
(* may be kept.                                                            *)
Swept(j) ==
  {id \in Ids : JobOf(id) = j /\ file[id] \in (IF Remote(j) THEN {"whole"}
                                               ELSE {"partial", "whole", "left"})}

SweepsFolder(j) ==
  /\ phase[j] = "sweeping"
  /\ \E kept \in SUBSET Swept(j) :
       /\ Remote(j) /\ ~link => kept = Swept(j)
       /\ file' = [id \in Ids |-> CASE id \in kept -> "left"
                                   [] id \in Swept(j) \ kept -> "none"
                                   [] OTHER -> file[id]]
  /\ Ends(j)
  /\ UNCHANGED <<kind, part, outcome, temp, flag, cmds, closeVars, uiQ, uiVars>>

(* Mutant: the error arm also takes a cancelled transfer.                  *)
CleansArchive_Reports(j) ==
  /\ phase[j] = "cleaning"
  /\ \E t \in Removed(temp[j], link) : temp' = [temp EXCEPT ![j] = t]
  /\ IF outcome[j] # "ok" THEN Emits(Id(j), "failed") ELSE UNCHANGED uiQ
  /\ Ends(j)
  /\ UNCHANGED <<kind, part, outcome, file, flag, cmds, closeVars, uiVars>>

(* The remote archive is to go, however the transfer ended.                *)
CleansArchive(j) ==
  /\ phase[j] = "cleaning"
  /\ \E t \in Removed(temp[j], link) : temp' = [temp EXCEPT ![j] = t]
  /\ IF outcome[j] = "failed" THEN Emits(Id(j), "failed") ELSE UNCHANGED uiQ
  /\ Ends(j)
  /\ UNCHANGED <<kind, part, outcome, file, flag, cmds, closeVars, uiVars>>

-----------------------------------------------------------------------------
(* SftpTransfer inserts or replaces the row of its id.                     *)
RowsAfter(e) == [rows EXCEPT ![e.id] = e.state]

(* A disconnected tab takes no file events.                                *)
ApplyEvent ==
  /\ uiQ # <<>>
  /\ uiQ' = Tail(uiQ)
  /\ LET e == Head(uiQ) IN
     IF e.state = "closed"
     THEN connected' = FALSE /\ UNCHANGED rows
     ELSE /\ rows' = IF connected THEN RowsAfter(e) ELSE rows
          /\ UNCHANGED connected
  /\ UNCHANGED <<kind, taskVars, flag, cmds, worker, closeVars, clicked>>

-----------------------------------------------------------------------------
UserStep ==
  \/ \E j \in Jobs : Request(j)
  \/ \E id \in Ids : CancelTransfer(id)
  \/ ClearTransfers

CloseStep == CloseFiles \/ AbortTasks \/ AbortWorker

Faults == ConnectionLost \/ DiskFills

LoopStep == StartJob \/ HearCancel \/ HearClose \/ HangsUp

JobStep(j) ==
  \/ PacksArchive(j) \/ Opens(j) \/ FailsToOpen(j) \/ FindsEmptyFolder(j)
  \/ FolderEnds(j) \/ Completes(j) \/ Interrupted(j) \/ DropsFile(j)
  \/ DiskStops(j) \/ SweepsFolder(j) \/ CleansArchive(j)

Next ==
  \/ UserStep \/ CloseStep \/ Faults \/ LoopStep
  \/ \E j \in Jobs : JobStep(j)
  \/ ApplyEvent

Spec == Init /\ [][Next]_vars

-----------------------------------------------------------------------------
(* Properties.                                                             *)

(* A transfer that ran to its end, well or not, has asked for the removal  *)
(* of every file it left half and of its archive: what is still there was  *)
(* refused.  A download that leaves at once when the disk refuses a write  *)
(* asks for nothing.  (Nor does a task that is aborted at an await.)       *)
Excused(j) == ~Remote(j) /\ ~disk

NoJunk ==
  \A j \in Jobs : phase[j] = "ended" =>
    /\ (\E id \in Ids : JobOf(id) = j /\ file[id] = "partial") => Excused(j)
    /\ temp[j] # "there"

(* A cancelled transfer has asked for the removal of everything it wrote,  *)
(* of the files of its folder that were already whole too.                 *)
CancelTakesAll ==
  \A j \in Jobs :
    phase[j] = "ended" /\ outcome[j] = "cancelled" =>
      \A id \in Ids : JobOf(id) = j => file[id] \in {"none", "left"}

(* Whichever way a transfer runs to its end, it has asked for the removal  *)
(* of all it must not leave.  Whether the removals succeed is not the      *)
(* code's: it looks at no result of them.                                  *)
EndsAreClean == TypeOK /\ NoJunk /\ CancelTakesAll

(* A row that says done has its whole file, until its folder is cancelled. *)
DoneIsWhole ==
  \A id \in Ids :
    rows[id] = "done" => file[id] = "whole" \/ outcome[JobOf(id)] = "cancelled"

(* A transfer's last word is its last: a row that has ended is cleared or  *)
(* stays as it is.                                                         *)
FinalStays ==
  [][\A id \in Ids : rows[id] \in Final => rows'[id] \in {rows[id], "none"}]_vars

(* Once a single transfer is over and the window has heard, its row is no  *)
(* longer active.  (Rows of folders and of opened files may stay active.)  *)
RowsSettle ==
  \A j \in Jobs :
    phase[j] = "ended" /\ kind[j] \in Singles /\ uiQ = <<>> /\ connected =>
      rows[Id(j)] \notin Active

(* A cancel is never lost: when the worker has heard all that was said to  *)
(* it, the transfer is over or its flag is set.                            *)
CancelIsHeard ==
  worker = "serving" /\ cmds = <<>> =>
    \A id \in clicked :
      kind[JobOf(id)] \in Singles => phase[JobOf(id)] \in Over \/ flag[JobOf(id)]
=============================================================================
