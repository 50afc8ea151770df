-------------------------- MODULE SftpTransfers_proofs -------------------------
(***************************************************************************)
(* Proofs about SftpTransfers, for any jobs, folders of any size and       *)
(* channels of any length: what a transfer leaves behind, what its row     *)
(* says at the end, and that a cancel is heard.                            *)
(***************************************************************************)
EXTENDS SftpTransfers, SequenceTheorems, TLAPS

-----------------------------------------------------------------------------
(* The invariant.                                                          *)

NotYet == {"new", "sent"}

(* A job is asked for once: its command waits exactly while it is "sent".  *)
AskedOnce ==
  \A i \in DOMAIN cmds : cmds[i].op = "run" =>
    /\ phase[cmds[i].job] = "sent"
    /\ \A k \in DOMAIN cmds :
         cmds[k].op = "run" /\ cmds[k].job = cmds[i].job => k = i

(* Which jobs reach a phase, and with what outcome.                        *)
WalkOf(j) ==
  /\ phase[j] \in {"packing", "cleaning"} => kind[j] = "archive"
  /\ phase[j] = "sweeping" => IsFolder(j) /\ outcome[j] = "cancelled"
  /\ phase[j] \in NotYet \cup {"preparing", "packing", "moving"} => outcome[j] = "ok"
  /\ phase[j] = "dropping" => outcome[j] # "ok"
  /\ ~IsFolder(j) => part[j] = 0
  /\ kind[j] # "open" /\ phase[j] \in Running => j \in registered

Walk == \A j \in Jobs : WalkOf(j)

(* Where the partial files and the remote archives are.                    *)
FileRemains(j, n) ==
  /\ n > part[j] => file[<<j, n>>] = "none"
  /\ ~IsFolder(j) /\ phase[j] \in NotYet \cup {"preparing", "packing"} =>
       file[<<j, n>>] = "none"
  /\ file[<<j, n>>] = "partial" =>
       \/ phase[j] = "aborted" \/ Excused(j)
       \/ phase[j] \in {"moving", "dropping"} /\ n = part[j]
  /\ outcome[j] = "cancelled" /\ phase[j] \in {"cleaning", "ended"} =>
       file[<<j, n>>] \in {"none", "left"}

TempRemains(j) ==
  temp[j] = "there" =>
    /\ kind[j] = "archive"
    /\ phase[j] \in {"packing", "moving", "dropping", "cleaning", "aborted"}

Remains ==
  \A j \in Jobs :
    /\ \A n \in 0 .. Parts : FileRemains(j, n)
    /\ phase[j] \in {"moving", "dropping"} => file[Cur(j)] = "partial"
    /\ TempRemains(j)

JobInv == TypeOK /\ AskedOnce /\ Walk /\ Remains

(* Event e is about the row id.                                            *)
About(e, id) == e.state # "closed" /\ e.id = id
Waits(id) == \E i \in DOMAIN uiQ : About(uiQ[i], id)

(* Nothing more will be said about id.                                     *)
Past(id) ==
  LET j == JobOf(id) IN
    \/ phase[j] \in Over \cup {"sweeping"}
    \/ phase[j] = "cleaning" /\ outcome[j] # "failed"
    \/ IsFolder(j) /\ phase[j] = "preparing" /\ id[2] <= part[j]
    \/ IsFolder(j) /\ phase[j] \in {"moving", "dropping"} /\ id[2] < part[j]

(* The last word about a row, said or shown, is the last.                  *)
LastWord ==
  \A id \in Ids :
    /\ \A i \in DOMAIN uiQ :
         About(uiQ[i], id) /\ uiQ[i].state \in Final =>
           Past(id) /\ \A k \in DOMAIN uiQ : About(uiQ[k], id) => k <= i
    /\ rows[id] \in Final => Past(id) /\ ~Waits(id)

(* What is said or shown to be done is whole.                              *)
SaidWhole ==
  \A id \in Ids :
    rows[id] = "done" \/ (\E i \in DOMAIN uiQ : About(uiQ[i], id) /\ uiQ[i].state = "done") =>
      file[id] = "whole" \/ outcome[JobOf(id)] = "cancelled"

(* Only jobs that have started are spoken of; a single one has one row.    *)
Spoken(id) == rows[id] # "none" \/ Waits(id) \/ id \in clicked
SpokenOfStarted ==
  \A id \in Ids :
    Spoken(id) => /\ phase[JobOf(id)] \notin NotYet
                  /\ IsFolder(JobOf(id)) \/ id = Id(JobOf(id))

(* The last word of a single job waits, or has been applied.               *)
LastSaid(id) ==
  \/ \E i \in DOMAIN uiQ : About(uiQ[i], id) /\ uiQ[i].state \in Final
  \/ rows[id] \notin Active /\ ~Waits(id)

SaidAll(j) ==
  \/ phase[j] = "ended"
  \/ phase[j] = "cleaning" /\ outcome[j] # "failed"

SinglesHeard ==
  \A j \in Jobs :
    kind[j] \in Singles /\ connected /\ SaidAll(j) => LastSaid(Id(j))

(* A cancel of a single job waits, has set the flag, or comes too late.    *)
CancelsUnderway ==
  worker \in {"serving", "opening"} =>
    \A id \in clicked : kind[JobOf(id)] \in Singles =>
      \/ phase[JobOf(id)] \in Over
      \/ flag[JobOf(id)]
      \/ \E i \in DOMAIN cmds : cmds[i].op = "cancel" /\ cmds[i].id = id

RowInv == LastWord /\ SaidWhole /\ SpokenOfStarted /\ SinglesHeard /\ CancelsUnderway

IInv == JobInv /\ RowInv

-----------------------------------------------------------------------------
(* Types.                                                                  *)

LEMMA IdsAre ==
  /\ \A j \in Jobs, n \in 0 .. Parts : <<j, n>> \in Ids /\ JobOf(<<j, n>>) = j
  /\ \A id \in Ids : /\ JobOf(id) \in Jobs /\ id[2] \in 0 .. Parts
                     /\ id = <<JobOf(id), id[2]>>
BY DEF Ids, JobOf

LEMMA JobIds ==
  ASSUME TypeOK, NEW j \in Jobs
  PROVE  Id(j) \in Ids /\ Cur(j) \in Ids /\ part[j] \in 0 .. Parts
BY PartsAssumption DEF TypeOK, Id, Cur, Ids

(* What is said about a row is an event.                                   *)
LEMMA SaysEvent ==
  ASSUME TypeOK, NEW id \in Ids, NEW s \in Active \cup Final, Emits(id, s)
  PROVE  uiQ' \in Seq(Event)
<1>1. [id |-> id, state |-> s] \in Event
  BY DEF Event
<1>2. QED
  BY <1>1 DEF Emits, TypeOK

LEMMA SendsCommand ==
  ASSUME TypeOK, NEW c \in Command, Send(c)
  PROVE  cmds' \in Seq(Command)
BY DEF Send, TypeOK

LEMMA HeadCommand ==
  ASSUME TypeOK, NEW op, Takes(op)
  PROVE  /\ Head(cmds) \in Command /\ Tail(cmds) \in Seq(Command)
         /\ op = "run" => Head(cmds).job \in Jobs
         /\ op = "cancel" => Head(cmds).id \in Ids
<1>1. Head(cmds) \in Command /\ Tail(cmds) \in Seq(Command)
  BY DEF Takes, TypeOK
<1>2. QED
  BY <1>1 DEF Takes, Command

LEMMA HeadEvent ==
  ASSUME TypeOK, uiQ # <<>>
  PROVE  /\ Head(uiQ) \in Event /\ Tail(uiQ) \in Seq(Event)
         /\ Head(uiQ).state # "closed" =>
              Head(uiQ).id \in Ids /\ Head(uiQ).state \in Active \cup Final
<1>1. Head(uiQ) \in Event /\ Tail(uiQ) \in Seq(Event)
  BY DEF TypeOK
<1>2. QED
  BY <1>1 DEF Event

LEMMA InitTypes == Init => TypeOK
<1> SUFFICES ASSUME Init PROVE TypeOK
  OBVIOUS
<1>1. cmds \in Seq(Command) /\ uiQ \in Seq(Event)
  BY DEF Init
<1>2. kind \in [Jobs -> AllKinds] /\ part \in [Jobs -> 0 .. Parts]
  BY PartsAssumption DEF Init
<1>3. QED
  BY <1>1, <1>2 DEF Init, TypeOK

LEMMA UserTypes ==
  ASSUME TypeOK, UserStep
  PROVE  TypeOK'
<1>1. ASSUME NEW j \in Jobs, Request(j) PROVE TypeOK'
  <2>1. [op |-> "run", job |-> j] \in Command
    BY DEF Command
  <2>2. cmds' \in Seq(Command)
    BY <1>1, <2>1, SendsCommand DEF Request
  <2>3. QED
    BY <1>1, <2>2 DEF Request, TypeOK, taskVars, closeVars, uiVars
<1>2. ASSUME NEW id \in Ids, CancelTransfer(id) PROVE TypeOK'
  <2>1. [op |-> "cancel", id |-> id] \in Command
    BY DEF Command
  <2>2. cmds' \in Seq(Command)
    BY <1>2, <2>1, SendsCommand DEF CancelTransfer
  <2>3. QED
    BY <1>2, <2>2 DEF CancelTransfer, TypeOK, taskVars, closeVars, uiVars
<1>3. ASSUME ClearTransfers PROVE TypeOK'
  <2>1. rows' \in [Ids -> {"none"} \cup Active \cup Final]
    BY <1>3 DEF ClearTransfers, TypeOK
  <2>2. QED
    BY <1>3, <2>1 DEF ClearTransfers, TypeOK, taskVars, closeVars, uiVars
<1>4. QED
  BY <1>1, <1>2, <1>3 DEF UserStep

LEMMA WorldTypes ==
  ASSUME TypeOK, CloseStep \/ Faults \/ LoopStep \/ ApplyEvent
  PROVE  TypeOK'
<1>1. CASE CloseFiles
  <2>1. [op |-> "close"] \in Command /\ [state |-> "closed"] \in Event
    BY DEF Command, Event
  <2>2. cmds' \in Seq(Command)
    BY <1>1, <2>1, SendsCommand DEF CloseFiles
  <2>3. uiQ' \in Seq(Event)
    BY <1>1, <2>1 DEF CloseFiles, TypeOK
  <2>4. QED
    BY <1>1, <2>2, <2>3 DEF CloseFiles, TypeOK, taskVars, closeVars, uiVars
<1>2. CASE AbortTasks
  BY <1>2 DEF AbortTasks, TypeOK, taskVars, closeVars, uiVars, Over
<1>3. CASE AbortWorker
  BY <1>3 DEF AbortWorker, TypeOK, taskVars, closeVars, uiVars, Over
<1>4. CASE Faults
  BY <1>4 DEF Faults, ConnectionLost, DiskFills, TypeOK, taskVars, closeVars, uiVars
<1>5. CASE StartJob
  <2>1. Head(cmds).job \in Jobs /\ Tail(cmds) \in Seq(Command)
    BY <1>5, HeadCommand DEF StartJob
  <2>2. QED
    BY <1>5, <2>1 DEF StartJob, TypeOK, taskVars, closeVars, uiVars, Running
<1>6. CASE HearCancel
  <2>1. Tail(cmds) \in Seq(Command)
    BY <1>6, HeadCommand DEF HearCancel
  <2>2. flag' \in [Jobs -> BOOLEAN]
    BY <1>6 DEF HearCancel, TypeOK
  <2>3. QED
    BY <1>6, <2>1, <2>2 DEF HearCancel, TypeOK, taskVars, closeVars, uiVars
<1>7. CASE HearClose
  <2>1. flag' \in [Jobs -> BOOLEAN]
    BY <1>7 DEF HearClose, TypeOK
  <2>2. QED
    BY <1>7, <2>1 DEF HearClose, TypeOK, taskVars, closeVars, uiVars
<1>8. CASE HangsUp
  BY <1>8 DEF HangsUp, TypeOK, taskVars, closeVars, uiVars
<1>9. CASE ApplyEvent
  <2>1. uiQ' \in Seq(Event)
    BY <1>9, HeadEvent DEF ApplyEvent
  <2>2. rows' \in [Ids -> {"none"} \cup Active \cup Final] /\ connected' \in BOOLEAN
    BY <1>9, HeadEvent DEF ApplyEvent, TypeOK, RowsAfter
  <2>3. QED
    BY <1>9, <2>1, <2>2 DEF ApplyEvent, TypeOK, taskVars, closeVars, uiVars
<1>10. QED
  BY <1>1, <1>2, <1>3, <1>4, <1>5, <1>6, <1>7, <1>8, <1>9 DEF CloseStep, LoopStep

(* What is left of a thing whose removal was asked for.                    *)
LEMMA RemovedIs ==
  ASSUME NEW what, NEW reachable, NEW x \in Removed(what, reachable)
  PROVE  x \in {"none", "left"}
BY DEF Removed

(* What no step of a job touches.                                          *)
LEMMA JobLeaves ==
  ASSUME NEW j \in Jobs, JobStep(j)
  PROVE  UNCHANGED <<kind, flag, cmds, closeVars, uiVars>>
BY DEF JobStep, PacksArchive, Opens, FailsToOpen, FindsEmptyFolder, FolderEnds,
       Completes, Interrupted, DropsFile, DiskStops, SweepsFolder, CleansArchive

LEMMA JobTypes ==
  ASSUME TypeOK, Walk, NEW j \in Jobs, JobStep(j)
  PROVE  TypeOK'
<1> USE DEF Goes, Continues, Ends, Over, Running
<1>1. CASE PacksArchive(j)
  <2>1. uiQ' \in Seq(Event)
    BY <1>1, SaysEvent, JobIds DEF PacksArchive, Active
  <2>2. temp' \in [Jobs -> {"none", "there", "left"}]
    BY <1>1 DEF PacksArchive, TypeOK
  <2>3. QED
    BY <1>1, <2>1, <2>2 DEF PacksArchive, TypeOK, closeVars, uiVars
<1>2. CASE Opens(j)
  <2>1. PICK n \in 0 .. Parts :
          /\ part' = [part EXCEPT ![j] = n]
          /\ file' = [file EXCEPT ![<<j, n>>] = "partial"]
          /\ Emits(<<j, n>>, "active")
    <3>1. CASE IsFolder(j)
      <4>1. part[j] + 1 \in 0 .. Parts
        BY <1>2, <3>1, JobIds, PartsAssumption DEF Opens, HasMore
      <4>2. QED
        BY <1>2, <3>1, <4>1 DEF Opens
    <3>2. CASE ~IsFolder(j)
      <4>1. Id(j)[2] = 0 /\ 0 \in 0 .. Parts
        BY PartsAssumption DEF Id
      <4>2. QED
        BY <1>2, <3>2, <4>1 DEF Opens, Id
    <3>3. QED
      BY <3>1, <3>2
  <2>2. <<j, n>> \in Ids
    BY IdsAre
  <2>3. uiQ' \in Seq(Event)
    BY <2>1, <2>2, SaysEvent DEF Active
  <2>4. QED
    <3>1. part' \in [Jobs -> 0 .. Parts] /\ file' \in [Ids -> {"none", "partial", "whole", "left"}]
      BY <2>1, <2>2 DEF TypeOK
    <3>2. phase' = [phase EXCEPT ![j] = "moving"] /\ UNCHANGED <<registered, worker>>
      BY <1>2 DEF Opens
    <3>3. UNCHANGED <<kind, outcome, temp, flag, cmds, closeVars, uiVars>>
      BY <1>2 DEF Opens
    <3>4. QED
      BY <2>3, <3>1, <3>2, <3>3 DEF TypeOK, closeVars, uiVars
<1>3. CASE FailsToOpen(j)
  <2>1. uiQ' \in Seq(Event)
    BY <1>3, SaysEvent, JobIds DEF FailsToOpen, TypeOK, Final
  <2>2. QED
    BY <1>3, <2>1 DEF FailsToOpen, TypeOK, closeVars, uiVars
<1>4. CASE FindsEmptyFolder(j)
  BY <1>4 DEF FindsEmptyFolder, TypeOK, closeVars, uiVars
<1>5. CASE FolderEnds(j)
  BY <1>5 DEF FolderEnds, TypeOK, closeVars, uiVars
<1>6. CASE Completes(j)
  <2>1. uiQ' \in Seq(Event)
    BY <1>6, SaysEvent, JobIds DEF Completes, Final
  <2>2. QED
    BY <1>6, <2>1, JobIds DEF Completes, TypeOK, closeVars, uiVars
<1>7. CASE Interrupted(j)
  BY <1>7 DEF Interrupted, TypeOK, closeVars, uiVars
<1>8. CASE DropsFile(j)
  <2>1. outcome[j] \in Final
    BY <1>8 DEF TypeOK, Final, Walk, WalkOf, DropsFile
  <2>2. uiQ' \in Seq(Event)
    BY <1>8, <2>1, JobIds, SaysEvent DEF DropsFile, TypeOK
  <2>3. file' \in [Ids -> {"none", "partial", "whole", "left"}]
    <3>1. PICK f \in Dropped(j) : file' = [file EXCEPT ![Cur(j)] = f]
      BY <1>8 DEF DropsFile
    <3>2. f \in {"none", "left"}
      BY RemovedIs DEF Dropped
    <3>3. QED
      BY <3>1, <3>2 DEF TypeOK
  <2>4. phase' = [phase EXCEPT ![j] = AfterDrop(j)]
    BY <1>8 DEF DropsFile
  <2>5. registered' \subseteq Jobs /\ worker' \in {"serving", "opening", "closing", "ended"}
    BY <1>8 DEF DropsFile, TypeOK
  <2>6. QED
    BY <1>8, <2>2, <2>3, <2>4, <2>5 DEF DropsFile, TypeOK, closeVars, uiVars, AfterDrop
<1>9. CASE DiskStops(j)
  <2>1. uiQ' \in Seq(Event)
    BY <1>9, SaysEvent, JobIds DEF DiskStops, TypeOK, Final
  <2>2. QED
    BY <1>9, <2>1 DEF DiskStops, TypeOK, closeVars, uiVars
<1>10. CASE SweepsFolder(j)
  <2>1. file' \in [Ids -> {"none", "partial", "whole", "left"}]
    <3>1. PICK kept \in SUBSET Swept(j) :
            file' = [id \in Ids |-> CASE id \in kept -> "left"
                                    [] id \in Swept(j) \ kept -> "none"
                                    [] OTHER -> file[id]]
      BY <1>10 DEF SweepsFolder
    <3>2. QED
      BY <3>1 DEF TypeOK
  <2>2. QED
    BY <1>10, <2>1 DEF SweepsFolder, TypeOK, closeVars, uiVars
<1>11. CASE CleansArchive(j)
  <2>1. uiQ' \in Seq(Event)
    BY <1>11, SaysEvent, JobIds DEF CleansArchive, TypeOK, Final
  <2>2. temp' \in [Jobs -> {"none", "there", "left"}]
    <3>1. PICK t \in Removed(temp[j], link) : temp' = [temp EXCEPT ![j] = t]
      BY <1>11 DEF CleansArchive
    <3>2. t \in {"none", "left"}
      BY RemovedIs
    <3>3. QED
      BY <3>1, <3>2 DEF TypeOK
  <2>3. QED
    BY <1>11, <2>1, <2>2 DEF CleansArchive, TypeOK, closeVars, uiVars
<1>12. QED
  BY <1>1, <1>2, <1>3, <1>4, <1>5, <1>6, <1>7, <1>8, <1>9, <1>10, <1>11 DEF JobStep

-----------------------------------------------------------------------------
(* The jobs.                                                               *)

LEMMA KindsAre ==
  \A j \in Jobs : /\ IsFolder(j) <=> kind[j] \in {"folder", "upfolder"}
                  /\ IsFolder(j) => kind[j] # "archive"
BY DEF IsFolder

(* A step of a job moves a running job, and touches nobody else's things.  *)
LEMMA JobMoves ==
  ASSUME TypeOK, NEW j \in Jobs, JobStep(j)
  PROVE  /\ phase[j] \in Running
         /\ \E p \in Running \cup Over : phase' = [phase EXCEPT ![j] = p]
<1> USE DEF Goes, Continues, Ends, Over, Running
<1>1. CASE PacksArchive(j) \/ FindsEmptyFolder(j) \/ FolderEnds(j) \/ Interrupted(j)
  BY <1>1 DEF PacksArchive, FindsEmptyFolder, FolderEnds, Interrupted
<1>2. CASE Opens(j) \/ FailsToOpen(j)
  BY <1>2 DEF Opens, FailsToOpen, AtFile
<1>3. CASE Completes(j) \/ DiskStops(j) \/ SweepsFolder(j) \/ CleansArchive(j)
  BY <1>3 DEF Completes, DiskStops, SweepsFolder, CleansArchive
<1>4. CASE DropsFile(j)
  BY <1>4 DEF DropsFile, AfterDrop
<1>5. QED
  BY <1>1, <1>2, <1>3, <1>4 DEF JobStep

LEMMA Elsewhere ==
  ASSUME TypeOK, NEW j \in Jobs, JobStep(j), NEW i \in Jobs, i # j
  PROVE  /\ phase'[i] = phase[i] /\ part'[i] = part[i] /\ outcome'[i] = outcome[i]
         /\ \A n \in 0 .. Parts : file'[<<i, n>>] = file[<<i, n>>]
         /\ temp'[i] = temp[i]
         /\ i \in registered' <=> i \in registered
<1>1. phase'[i] = phase[i]
  BY JobMoves DEF TypeOK
<1>2. part'[i] = part[i] /\ outcome'[i] = outcome[i]
  BY DEF TypeOK, JobStep, PacksArchive, Opens, FailsToOpen, FindsEmptyFolder, FolderEnds,
       Completes, Interrupted, DropsFile, DiskStops, SweepsFolder, CleansArchive
<1>3. temp'[i] = temp[i]
  BY DEF TypeOK, JobStep, PacksArchive, Opens, FailsToOpen, FindsEmptyFolder, FolderEnds,
       Completes, Interrupted, DropsFile, DiskStops, SweepsFolder, CleansArchive
<1>4. i \in registered' <=> i \in registered
  BY DEF JobStep, PacksArchive, Opens, FailsToOpen, FindsEmptyFolder, FolderEnds,
       Completes, Interrupted, DropsFile, DiskStops, SweepsFolder, CleansArchive,
       Continues, Ends
<1>5. ASSUME NEW n \in 0 .. Parts PROVE file'[<<i, n>>] = file[<<i, n>>]
  <2>1. <<i, n>> \in Ids /\ JobOf(<<i, n>>) = i
    BY IdsAre
  <2>2. CASE SweepsFolder(j)
    BY <2>1, <2>2 DEF SweepsFolder, Swept
  <2>3. \A m, x : file' = [file EXCEPT ![<<j, m>>] = x] => file'[<<i, n>>] = file[<<i, n>>]
    BY <2>1 DEF TypeOK
  <2>4. CASE Opens(j)
    BY <2>3, <2>4 DEF Opens, Id
  <2>5. CASE Completes(j) \/ DropsFile(j)
    BY <2>3, <2>5 DEF Completes, DropsFile, Cur
  <2>6. CASE UNCHANGED file
    BY <2>6
  <2>7. QED
    BY <2>2, <2>4, <2>5, <2>6 DEF JobStep, PacksArchive, FailsToOpen, FindsEmptyFolder,
         FolderEnds, Interrupted, DiskStops, CleansArchive
<1>6. QED
  BY <1>1, <1>2, <1>3, <1>4, <1>5

LEMMA JobWalks ==
  ASSUME TypeOK, Walk, NEW j \in Jobs, JobStep(j)
  PROVE  Walk'
<1> USE DEF Goes, Continues, Ends, Running, NotYet
<1>1. UNCHANGED kind
  BY JobLeaves
<1>2. ASSUME NEW i \in Jobs, i # j PROVE WalkOf(i)'
  <2>1. WalkOf(i)
    BY DEF Walk
  <2>2. QED
    BY <1>1, <1>2, <2>1, Elsewhere DEF WalkOf, IsFolder
<1>3. WalkOf(j)'
  <2>1. WalkOf(j) /\ kind[j] \in AllKinds
    BY DEF Walk, TypeOK
  <2>2. CASE PacksArchive(j)
    BY <1>1, <2>1, <2>2 DEF PacksArchive, WalkOf, TypeOK, IsFolder
  <2>3. CASE Opens(j)
    <3>1. ~IsFolder(j) => part'[j] = 0
      BY <2>3, JobIds DEF Opens, Id, TypeOK
    <3>2. QED
      BY <1>1, <2>1, <2>3, <3>1 DEF Opens, AtFile, WalkOf, TypeOK, IsFolder
  <2>4. CASE FailsToOpen(j)
    BY <1>1, <2>1, <2>4 DEF FailsToOpen, AtFile, WalkOf, TypeOK, IsFolder
  <2>5. CASE FindsEmptyFolder(j)
    BY <1>1, <2>1, <2>5 DEF FindsEmptyFolder, WalkOf, TypeOK, IsFolder
  <2>6. CASE FolderEnds(j)
    BY <1>1, <2>1, <2>6 DEF FolderEnds, WalkOf, TypeOK, IsFolder
  <2>7. CASE Completes(j)
    BY <1>1, <2>1, <2>7 DEF Completes, WalkOf, TypeOK, IsFolder
  <2>8. CASE Interrupted(j)
    BY <1>1, <2>1, <2>8 DEF Interrupted, WalkOf, TypeOK, IsFolder
  <2>9. CASE DropsFile(j)
    BY <1>1, <2>1, <2>9 DEF DropsFile, AfterDrop, WalkOf, TypeOK, IsFolder
  <2>10. CASE DiskStops(j)
    BY <1>1, <2>1, <2>10 DEF DiskStops, WalkOf, TypeOK, IsFolder
  <2>11. CASE SweepsFolder(j) \/ CleansArchive(j)
    BY <1>1, <2>1, <2>11 DEF SweepsFolder, CleansArchive, WalkOf, TypeOK, IsFolder
  <2>12. QED
    BY <2>2, <2>3, <2>4, <2>5, <2>6, <2>7, <2>8, <2>9, <2>10, <2>11 DEF JobStep
<1>4. QED
  BY <1>2, <1>3 DEF Walk

LEMMA JobRemains ==
  ASSUME TypeOK, Walk, Remains, NEW j \in Jobs, JobStep(j)
  PROVE  Remains'
<1> DEFINE Whole(i) == /\ \A n \in 0 .. Parts : FileRemains(i, n)
                       /\ phase[i] \in {"moving", "dropping"} => file[Cur(i)] = "partial"
                       /\ TempRemains(i)
<1> USE DEF Goes, Continues, Ends, NotYet
<1>1. UNCHANGED <<kind, link, disk>>
  BY JobLeaves DEF closeVars
<1>2. ASSUME NEW i \in Jobs, i # j PROVE Whole(i)'
  <2>1. Whole(i) /\ part[i] \in 0 .. Parts
    BY JobIds DEF Remains
  <2>2. \A n \in 0 .. Parts : FileRemains(i, n)'
    BY <1>1, <1>2, <2>1, Elsewhere DEF FileRemains, IsFolder, Excused, Remote
  <2>3. (phase[i] \in {"moving", "dropping"} => file[Cur(i)] = "partial")'
    BY <1>2, <2>1, Elsewhere DEF Cur
  <2>4. TempRemains(i)'
    BY <1>1, <1>2, <2>1, Elsewhere DEF TempRemains
  <2>5. QED
    BY <2>2, <2>3, <2>4
<1>3. Whole(j)'
  <2>1. Whole(j) /\ WalkOf(j) /\ part[j] \in 0 .. Parts /\ kind[j] \in AllKinds
    BY JobIds DEF Remains, Walk, TypeOK
  <2>2. TempRemains(j)'
    <3>1. CASE CleansArchive(j)
      <4>1. PICK t \in Removed(temp[j], link) : temp' = [temp EXCEPT ![j] = t]
        BY <3>1 DEF CleansArchive
      <4>2. t \in {"none", "left"}
        BY RemovedIs
      <4>3. temp'[j] # "there"
        BY <4>1, <4>2 DEF TypeOK
      <4>4. QED
        BY <4>3 DEF TempRemains
    <3>2. CASE ~CleansArchive(j)
      BY <1>1, <2>1, <3>2 DEF TempRemains, WalkOf, TypeOK, JobStep, PacksArchive, Opens,
         FailsToOpen, AtFile, FindsEmptyFolder, FolderEnds, Completes, Interrupted, DropsFile,
         DiskStops, SweepsFolder, AfterDrop, IsFolder
    <3>3. QED
      BY <3>1, <3>2
  <2>3. /\ \A n \in 0 .. Parts : FileRemains(j, n)'
        /\ (phase[j] \in {"moving", "dropping"} => file[Cur(j)] = "partial")'
    <3>1. CASE PacksArchive(j) \/ FindsEmptyFolder(j) \/ FolderEnds(j)
      BY <1>1, <2>1, <3>1 DEF PacksArchive, FindsEmptyFolder, FolderEnds, FileRemains, WalkOf,
           TypeOK, Excused, Remote, IsFolder, Cur
    <3>2. CASE Opens(j)
      <4>1. PICK m \in 0 .. Parts :
              /\ part'[j] = m /\ phase'[j] = "moving" /\ outcome' = outcome
              /\ file' = [file EXCEPT ![<<j, m>>] = "partial"]
              /\ IF IsFolder(j) THEN m = part[j] + 1 ELSE m = part[j]
        <5>1. phase'[j] = "moving" /\ outcome' = outcome
          BY <3>2 DEF Opens, TypeOK
        <5>2. CASE IsFolder(j)
          <6>1. part[j] + 1 \in 0 .. Parts
            BY <2>1, <3>2, <5>2, PartsAssumption DEF Opens, HasMore
          <6>2. QED
            BY <3>2, <5>1, <5>2, <6>1 DEF Opens, TypeOK
        <5>3. CASE ~IsFolder(j)
          BY <2>1, <3>2, <5>1, <5>3 DEF Opens, TypeOK, Id, WalkOf
        <5>4. QED
          BY <5>2, <5>3
      <4>2. \A n \in 0 .. Parts : file'[<<j, n>>] = IF n = m THEN "partial" ELSE file[<<j, n>>]
        BY <4>1, IdsAre DEF TypeOK
      <4>3. phase[j] \in {"preparing", "packing"}
        BY <3>2 DEF Opens, AtFile
      <4>4. QED
        BY <1>1, <2>1, <4>1, <4>2, <4>3, PartsAssumption
           DEF FileRemains, WalkOf, Excused, Remote, IsFolder, Cur
    <3>3. CASE FailsToOpen(j)
      BY <1>1, <2>1, <3>3 DEF FailsToOpen, AtFile, FileRemains, WalkOf, TypeOK, Excused,
           Remote, IsFolder, Cur
    <3>4. CASE Completes(j)
      <4>1. \A n \in 0 .. Parts : file'[<<j, n>>] = IF n = part[j] THEN "whole" ELSE file[<<j, n>>]
        BY <2>1, <3>4, IdsAre DEF Completes, Cur, TypeOK
      <4>2. /\ phase[j] = "moving" /\ part' = part /\ outcome' = outcome
            /\ phase'[j] \in {"preparing", "cleaning", "ended"}
            /\ phase'[j] = "preparing" => IsFolder(j)
        BY <3>4 DEF Completes, TypeOK
      <4>3. QED
        BY <1>1, <2>1, <4>1, <4>2 DEF FileRemains, WalkOf, Excused, Remote, IsFolder, Cur
    <3>5. CASE Interrupted(j)
      BY <1>1, <2>1, <3>5 DEF Interrupted, FileRemains, WalkOf, TypeOK, Excused, Remote,
           IsFolder, Cur
    <3>6. CASE DropsFile(j)
      <4>1. PICK f \in Dropped(j) : file' = [file EXCEPT ![Cur(j)] = f]
        BY <3>6 DEF DropsFile
      <4>2. \A n \in 0 .. Parts : file'[<<j, n>>] = IF n = part[j] THEN f ELSE file[<<j, n>>]
        BY <2>1, <4>1, IdsAre DEF Cur, TypeOK
      <4>3. /\ phase[j] = "dropping" /\ part' = part /\ outcome' = outcome
            /\ phase'[j] \in {"sweeping", "cleaning", "ended"}
            /\ outcome[j] = "cancelled" /\ IsFolder(j) => phase'[j] = "sweeping"
        <5>1. phase' = [phase EXCEPT ![j] = AfterDrop(j)]
          BY <3>6 DEF DropsFile
        <5>2. /\ AfterDrop(j) \in {"sweeping", "cleaning", "ended"}
              /\ outcome[j] = "cancelled" /\ IsFolder(j) => AfterDrop(j) = "sweeping"
          BY DEF AfterDrop, IsFolder
        <5>3. phase'[j] = AfterDrop(j)
          BY <5>1 DEF TypeOK
        <5>4. QED
          BY <3>6, <5>2, <5>3 DEF DropsFile
      <4>4. f \in {"none", "left"}
        BY RemovedIs DEF Dropped
      <4>5. QED
        BY <1>1, <2>1, <4>3, <4>4, <4>2 DEF FileRemains, WalkOf, Excused, Remote, IsFolder, Cur
    <3>7. CASE DiskStops(j)
      BY <1>1, <2>1, <3>7 DEF DiskStops, FileRemains, WalkOf, TypeOK, Excused, Remote,
           IsFolder, Cur
    <3>8. CASE SweepsFolder(j)
      <4>1. \A n \in 0 .. Parts :
              \/ file'[<<j, n>>] \in {"none", "left"} /\ file[<<j, n>>] # "none"
              \/ <<j, n>> \notin Swept(j) /\ file'[<<j, n>>] = file[<<j, n>>]
        BY <3>8, IdsAre DEF SweepsFolder, Swept
      <4>2. \A n \in 0 .. Parts : <<j, n>> \notin Swept(j) =>
              \/ file[<<j, n>>] \in {"none", "left"}
              \/ Remote(j) /\ file[<<j, n>>] = "partial"
        BY IdsAre DEF Swept, TypeOK
      <4>3. phase[j] = "sweeping" /\ phase'[j] = "ended" /\ part' = part /\ outcome' = outcome
        BY <3>8 DEF SweepsFolder, TypeOK
      <4>4. QED
        BY <1>1, <2>1, <4>1, <4>3, <4>2 DEF FileRemains, WalkOf, Excused, Remote, IsFolder, Cur
    <3>9. CASE CleansArchive(j)
      BY <1>1, <2>1, <3>9 DEF CleansArchive, FileRemains, WalkOf, TypeOK, Excused, Remote,
           IsFolder, Cur
    <3>10. QED
      BY <3>1, <3>2, <3>3, <3>4, <3>5, <3>6, <3>7, <3>8, <3>9 DEF JobStep
  <2>4. QED
    BY <2>2, <2>3
<1>4. QED
  BY <1>2, <1>3 DEF Remains

-----------------------------------------------------------------------------
(* Queues.                                                                 *)

LEMMA AppendIs ==
  ASSUME NEW S, NEW q \in Seq(S), NEW e \in S, NEW r, r = Append(q, e)
  PROVE  /\ r \in Seq(S) /\ Len(q) \in Nat
         /\ DOMAIN q = 1 .. Len(q) /\ DOMAIN r = 1 .. (Len(q) + 1)
         /\ r[Len(q) + 1] = e
         /\ \A i \in DOMAIN q : i \in DOMAIN r /\ r[i] = q[i]
         /\ \A i \in DOMAIN r : i = Len(q) + 1 \/ i \in DOMAIN q
OBVIOUS

LEMMA TailIs ==
  ASSUME NEW S, NEW q \in Seq(S), q # <<>>, NEW r, r = Tail(q)
  PROVE  /\ r \in Seq(S) /\ 1 \in DOMAIN q /\ q[1] = Head(q)
         /\ \A i \in DOMAIN r : i \in Nat /\ i >= 1 /\ i + 1 \in DOMAIN q /\ r[i] = q[i + 1]
         /\ \A i \in DOMAIN q : i \in Nat /\ i >= 1
                                /\ (i # 1 => i - 1 \in DOMAIN r /\ r[i - 1] = q[i])
OBVIOUS

-----------------------------------------------------------------------------
(* The steps of the others keep the jobs' invariant.                       *)

LEMMA SendKeepsAskedOnce ==
  ASSUME TypeOK, AskedOnce, NEW c \in Command, Send(c), UNCHANGED phase, c.op # "run"
  PROVE  AskedOnce'
<1>1. CASE cmds' = cmds
  BY <1>1 DEF AskedOnce
<1>2. CASE cmds' = Append(cmds, c)
  <2>1. cmds \in Seq(Command)
    BY DEF TypeOK
  <2>2. \A i \in DOMAIN cmds' : cmds'[i] = c \/ (i \in DOMAIN cmds /\ cmds'[i] = cmds[i])
    BY <1>2, <2>1, AppendIs
  <2>3. QED
    BY <2>2 DEF AskedOnce
<1>3. QED
  BY <1>1, <1>2 DEF Send

LEMMA TailKeepsAskedOnce ==
  ASSUME TypeOK, AskedOnce, cmds # <<>>, cmds' = Tail(cmds),
         \/ UNCHANGED phase
         \/ /\ Head(cmds).op = "run"
            /\ \A j \in Jobs : j # Head(cmds).job => phase'[j] = phase[j]
  PROVE  AskedOnce'
<1>1. cmds \in Seq(Command)
  BY DEF TypeOK
<1>2. /\ 1 \in DOMAIN cmds /\ cmds[1] = Head(cmds)
      /\ \A i \in DOMAIN cmds' : i \in Nat /\ i >= 1 /\ i + 1 \in DOMAIN cmds
                                 /\ cmds'[i] = cmds[i + 1]
  BY <1>1, TailIs
<1>3. \A i \in DOMAIN cmds : cmds[i] \in Command
  BY <1>1
<1>4. ASSUME NEW i \in DOMAIN cmds', cmds'[i].op = "run"
      PROVE  /\ phase'[cmds'[i].job] = "sent"
             /\ \A k \in DOMAIN cmds' :
                  cmds'[k].op = "run" /\ cmds'[k].job = cmds'[i].job => k = i
  <2>1. i \in Nat /\ i >= 1 /\ i + 1 \in DOMAIN cmds /\ cmds'[i] = cmds[i + 1]
    BY <1>2
  <2>2. cmds[i + 1].job \in Jobs /\ phase[cmds[i + 1].job] = "sent"
    BY <1>3, <1>4, <2>1 DEF Command, AskedOnce
  <2>3. Head(cmds).op = "run" => Head(cmds).job # cmds[i + 1].job
    <3>1. 1 # i + 1
      BY <2>1
    <3>2. QED
      BY <1>2, <1>4, <2>1, <3>1 DEF AskedOnce
  <2>4. phase'[cmds'[i].job] = "sent"
    BY <2>1, <2>2, <2>3
  <2>5. ASSUME NEW k \in DOMAIN cmds', cmds'[k].op = "run", cmds'[k].job = cmds'[i].job
        PROVE  k = i
    <3>1. k \in Nat /\ k + 1 \in DOMAIN cmds /\ cmds'[k] = cmds[k + 1]
      BY <1>2
    <3>2. k + 1 = i + 1
      BY <1>4, <2>1, <2>5, <3>1 DEF AskedOnce
    <3>3. QED
      BY <2>1, <3>1, <3>2
  <2>6. QED
    BY <2>4, <2>5
<1>5. QED
  BY <1>4 DEF AskedOnce

LEMMA RequestKeeps ==
  ASSUME JobInv, NEW j \in Jobs, Request(j)
  PROVE  JobInv'
<1> USE DEF JobInv
<1> DEFINE c == [op |-> "run", job |-> j]
<1>1. TypeOK'
  BY UserTypes DEF UserStep
<1>2. phase[j] = "new" /\ phase' = [phase EXCEPT ![j] = "sent"] /\ Send(c)
  BY DEF Request
<1>3. AskedOnce'
  <2>1. \A i \in DOMAIN cmds : cmds[i] \in Command
    BY DEF TypeOK
  <2>2. \A i \in DOMAIN cmds : cmds[i].op = "run" => cmds[i].job \in Jobs /\ cmds[i].job # j
    BY <1>2, <2>1 DEF AskedOnce, Command
  <2>3. \A i \in DOMAIN cmds : cmds[i].op = "run" => phase'[cmds[i].job] = "sent"
    BY <1>2, <2>2 DEF TypeOK, AskedOnce
  <2>4. CASE cmds' = cmds
    BY <2>3, <2>4 DEF AskedOnce
  <2>5. CASE cmds' = Append(cmds, c)
    <3>1. c \in Command /\ cmds \in Seq(Command)
      BY DEF Command, TypeOK
    <3>2. /\ \A i \in DOMAIN cmds' : i = Len(cmds) + 1 \/ i \in DOMAIN cmds
          /\ cmds'[Len(cmds) + 1] = c /\ \A i \in DOMAIN cmds : cmds'[i] = cmds[i]
      BY <2>5, <3>1, AppendIs
    <3>3. phase'[j] = "sent" /\ c.job = j /\ c.op = "run"
      BY <1>2 DEF TypeOK
    <3>4. QED
      BY <2>2, <2>3, <3>2, <3>3 DEF AskedOnce
  <2>6. QED
    BY <1>2, <2>4, <2>5 DEF Send
<1>4. UNCHANGED <<kind, part, outcome, file, temp, registered, link, disk>>
  BY DEF Request, closeVars
<1>5. \A i \in Jobs : phase'[i] = IF i = j THEN "sent" ELSE phase[i]
  BY <1>2 DEF TypeOK
<1>6. Walk'
  BY <1>2, <1>4, <1>5 DEF Walk, WalkOf, NotYet, Running, IsFolder
<1>7. Remains'
  BY <1>2, <1>4, <1>5 DEF Remains, FileRemains, TempRemains, NotYet, IsFolder, Excused,
     Remote, Cur
<1>8. QED
  BY <1>1, <1>3, <1>6, <1>7

LEMMA StartKeeps ==
  ASSUME JobInv, StartJob
  PROVE  JobInv'
<1> USE DEF JobInv
<1> DEFINE j == Head(cmds).job
<1>1. TypeOK'
  BY WorldTypes DEF LoopStep
<1>2. /\ j \in Jobs /\ phase[j] = "sent" /\ Head(cmds).op = "run" /\ cmds # <<>>
      /\ \A i \in Jobs : phase'[i] = IF i = j THEN "preparing" ELSE phase[i]
      /\ cmds' = Tail(cmds)
  <2>1. j \in Jobs /\ Head(cmds).op = "run" /\ cmds # <<>> /\ cmds' = Tail(cmds)
    BY HeadCommand DEF StartJob, Takes
  <2>2. phase[j] = "sent"
    <3>1. cmds \in Seq(Command)
      BY DEF TypeOK
    <3>2. 1 \in DOMAIN cmds /\ cmds[1] = Head(cmds)
      BY <2>1, <3>1, TailIs
    <3>3. QED
      BY <2>1, <3>2 DEF AskedOnce
  <2>3. QED
    BY <2>1, <2>2 DEF StartJob, TypeOK
<1>3. AskedOnce'
  BY <1>2, TailKeepsAskedOnce
<1>4. UNCHANGED <<kind, part, outcome, file, temp, link, disk>>
  BY DEF StartJob, closeVars
<1>5. registered' = IF kind[j] = "open" THEN registered ELSE registered \cup {j}
  BY DEF StartJob
<1>6. Walk'
  BY <1>2, <1>4, <1>5 DEF Walk, WalkOf, NotYet, Running, IsFolder
<1>7. Remains'
  BY <1>2, <1>4 DEF Remains, FileRemains, TempRemains, NotYet, IsFolder, Excused,
     Remote, Cur
<1>8. QED
  BY <1>1, <1>3, <1>6, <1>7

LEMMA AbortKeeps ==
  ASSUME JobInv, AbortTasks \/ AbortWorker
  PROVE  JobInv'
<1> USE DEF JobInv
<1>1. TypeOK'
  BY WorldTypes DEF CloseStep
<1>2. \A i \in Jobs :
        phase'[i] = phase[i] \/ (phase[i] \in Running /\ phase'[i] = "aborted")
  BY DEF AbortTasks, AbortWorker, Spawned, TypeOK
<1>3. UNCHANGED <<kind, part, outcome, file, temp, registered, link, disk>>
  BY DEF AbortTasks, AbortWorker
<1>4. AskedOnce'
  <2>1. CASE AbortTasks
    <3>1. \A i \in DOMAIN cmds : cmds[i] \in Command
      BY DEF TypeOK
    <3>2. \A i \in DOMAIN cmds : cmds[i].op = "run" => cmds[i].job \in Jobs
      BY <3>1 DEF Command
    <3>3. cmds' = cmds
      BY <2>1 DEF AbortTasks
    <3>4. QED
      BY <1>2, <3>2, <3>3 DEF AskedOnce, Running
  <2>2. CASE AbortWorker
    BY <2>2 DEF AbortWorker, AskedOnce
  <2>3. QED
    BY <2>1, <2>2
<1>5. Walk'
  BY <1>2, <1>3 DEF Walk, WalkOf, NotYet, Running, IsFolder
<1>6. Remains'
  BY <1>2, <1>3 DEF Remains, FileRemains, TempRemains, NotYet, IsFolder, Excused,
     Remote, Cur, Running
<1>7. QED
  BY <1>1, <1>4, <1>5, <1>6

LEMMA OthersKeep ==
  ASSUME JobInv,
         \/ \E id \in Ids : CancelTransfer(id)
         \/ ClearTransfers \/ CloseFiles \/ Faults \/ HearCancel \/ HearClose \/ HangsUp
         \/ ApplyEvent
  PROVE  JobInv'
<1> USE DEF JobInv
<1>1. TypeOK'
  BY UserTypes, WorldTypes DEF UserStep, CloseStep, LoopStep
<1>2. UNCHANGED <<kind, phase, part, outcome, file, temp, registered>>
  BY DEF CancelTransfer, ClearTransfers, CloseFiles, Faults, ConnectionLost, DiskFills,
     HearCancel, HearClose, HangsUp, ApplyEvent, taskVars
<1>3. (~link => ~link') /\ (~disk => ~disk')
  <2>1. CASE Faults \/ HangsUp
    BY <2>1 DEF Faults, ConnectionLost, DiskFills, HangsUp
  <2>2. CASE UNCHANGED <<link, disk>>
    BY <2>2
  <2>3. QED
    BY <2>1, <2>2 DEF CancelTransfer, ClearTransfers, CloseFiles, HearCancel, HearClose,
       ApplyEvent, closeVars
<1>4. AskedOnce'
  <2>1. ASSUME NEW id \in Ids, CancelTransfer(id) PROVE AskedOnce'
    <3>1. [op |-> "cancel", id |-> id] \in Command
      BY DEF Command
    <3>2. QED
      BY <1>2, <2>1, <3>1, SendKeepsAskedOnce DEF CancelTransfer
  <2>2. CASE CloseFiles
    <3>1. [op |-> "close"] \in Command
      BY DEF Command
    <3>2. QED
      BY <1>2, <2>2, <3>1, SendKeepsAskedOnce DEF CloseFiles
  <2>3. CASE HearCancel
    BY <1>2, <2>3, TailKeepsAskedOnce DEF HearCancel, Takes
  <2>4. CASE HearClose
    BY <2>4 DEF HearClose, AskedOnce
  <2>5. CASE ClearTransfers \/ Faults \/ HangsUp \/ ApplyEvent
    BY <1>2, <2>5 DEF ClearTransfers, Faults, ConnectionLost, DiskFills, HangsUp, ApplyEvent,
       AskedOnce
  <2>6. QED
    BY <2>1, <2>2, <2>3, <2>4, <2>5
<1>5. Walk'
  BY <1>2 DEF Walk, WalkOf, IsFolder
<1>6. Remains'
  BY <1>2, <1>3 DEF Remains, FileRemains, TempRemains, IsFolder, Excused, Remote, Cur
<1>7. QED
  BY <1>1, <1>4, <1>5, <1>6

LEMMA JobStepKeeps ==
  ASSUME JobInv, NEW j \in Jobs, JobStep(j)
  PROVE  JobInv'
<1> USE DEF JobInv
<1>1. TypeOK'
  BY JobTypes
<1>2. Walk' /\ Remains'
  BY JobWalks, JobRemains
<1>3. AskedOnce'
  <2>1. \A i \in DOMAIN cmds : cmds[i] \in Command
    BY DEF TypeOK
  <2>2. \A i \in DOMAIN cmds : cmds[i].op = "run" => cmds[i].job \in Jobs
    BY <2>1 DEF Command
  <2>3. \A i \in Jobs : phase[i] = "sent" => phase'[i] = "sent"
    BY JobMoves DEF TypeOK, Running
  <2>4. QED
    BY <2>2, <2>3, JobLeaves DEF AskedOnce
<1>4. QED
  BY <1>1, <1>2, <1>3

LEMMA JobInvKept ==
  ASSUME JobInv, Next
  PROVE  JobInv'
BY RequestKeeps, StartKeeps, AbortKeeps, OthersKeep, JobStepKeeps
   DEF Next, UserStep, CloseStep, LoopStep

-----------------------------------------------------------------------------
(* What a step of a job says to the window.                                *)

(* It speaks of a row that has not had its last word, and what it says is so. *)
Says(j, n, s) ==
  /\ Emits(<<j, n>>, s)
  /\ ~Past(<<j, n>>)
  /\ s \in Final => Past(<<j, n>>)'
  /\ s = "done" => file'[<<j, n>>] = "whole"
  /\ IsFolder(j) \/ n = 0

LEMMA PastIs ==
  ASSUME NEW j \in Jobs, NEW n \in 0 .. Parts
  PROVE  Past(<<j, n>>) <=>
           \/ phase[j] \in Over \cup {"sweeping"}
           \/ phase[j] = "cleaning" /\ outcome[j] # "failed"
           \/ IsFolder(j) /\ phase[j] = "preparing" /\ n <= part[j]
           \/ IsFolder(j) /\ phase[j] \in {"moving", "dropping"} /\ n < part[j]
BY DEF Past, JobOf

LEMMA JobSays ==
  ASSUME JobInv, NEW j \in Jobs, JobStep(j)
  PROVE  UNCHANGED uiQ \/ \E n \in 0 .. Parts, s \in Active \cup Final : Says(j, n, s)
<1> USE DEF JobInv
<1>1. /\ part[j] \in 0 .. Parts /\ WalkOf(j) /\ kind[j] \in AllKinds
      /\ 0 \in 0 .. Parts /\ UNCHANGED kind /\ Id(j) = <<j, 0>> /\ Cur(j) = <<j, part[j]>>
      /\ <<j, 0>> \in Ids /\ <<j, part[j]>> \in Ids
      /\ (IsFolder(j))' = IsFolder(j) /\ Parts \in Nat
  BY JobIds, JobLeaves, PartsAssumption, IdsAre DEF Walk, TypeOK, Id, Cur, IsFolder
<1>2. CASE PacksArchive(j)
  <2>1. Says(j, 0, "preparing")
    BY <1>1, <1>2, PastIs DEF PacksArchive, Says, Over, Final, IsFolder
  <2>2. QED
    BY <1>1, <2>1 DEF Active
<1>3. CASE Opens(j)
  <2>1. CASE IsFolder(j)
    <3>1. part[j] + 1 \in 0 .. Parts
      BY <1>1, <1>3, <2>1 DEF Opens, HasMore
    <3>2. Emits(<<j, part[j] + 1>>, "active") /\ phase[j] = "preparing"
      BY <1>1, <1>3, <2>1 DEF Opens, AtFile, WalkOf, IsFolder
    <3>3. Says(j, part[j] + 1, "active")
      BY <1>1, <2>1, <3>1, <3>2, PastIs DEF Says, Final, Over
    <3>4. QED
      BY <3>1, <3>3 DEF Active
  <2>2. CASE ~IsFolder(j)
    <3>1. Says(j, 0, "active")
      BY <1>1, <1>3, <2>2, PastIs DEF Opens, AtFile, Says, Final, Over
    <3>2. QED
      BY <1>1, <3>1 DEF Active
  <2>3. QED
    BY <2>1, <2>2
<1>4. CASE FailsToOpen(j)
  <2>1. CASE kind[j] \in {"download", "upload"}
    <3>1. Emits(<<j, 0>>, "failed") /\ phase[j] \in {"preparing", "packing"} /\ ~IsFolder(j)
      BY <1>1, <1>4, <2>1 DEF FailsToOpen, AtFile, IsFolder
    <3>2. phase'[j] = "ended"
      BY <1>4, <2>1 DEF FailsToOpen, Ends, Goes, TypeOK
    <3>3. Past(<<j, 0>>)' /\ ~Past(<<j, 0>>)
      BY <1>1, <3>1, <3>2, PastIs DEF Over, Past, JobOf
    <3>4. Says(j, 0, "failed")
      BY <1>1, <3>1, <3>3 DEF Says
    <3>5. QED
      BY <1>1, <3>4 DEF Final
  <2>2. CASE kind[j] \notin {"download", "upload"}
    BY <1>4, <2>2 DEF FailsToOpen
  <2>3. QED
    BY <2>1, <2>2
<1>5. CASE Completes(j)
  <2>1. Emits(<<j, part[j]>>, "done") /\ phase[j] = "moving" /\ outcome'[j] = "ok"
    BY <1>1, <1>5 DEF Completes, WalkOf
  <2>2. /\ phase'[j] \in {"preparing", "cleaning", "ended"}
        /\ phase'[j] = "preparing" => IsFolder(j)
    BY <1>5 DEF Completes, TypeOK, Ends, Continues, Goes
  <2>3. file'[<<j, part[j]>>] = "whole" /\ part'[j] = part[j]
    BY <1>1, <1>5 DEF Completes, TypeOK
  <2>4. ~Past(<<j, part[j]>>)
    BY <1>1, <2>1, PastIs DEF Over
  <2>5. Past(<<j, part[j]>>)'
    BY <1>1, <2>1, <2>2, <2>3 DEF Past, JobOf, Over
  <2>6. Says(j, part[j], "done")
    BY <1>1, <2>1, <2>3, <2>4, <2>5 DEF Says, WalkOf
  <2>7. QED
    BY <1>1, <2>6 DEF Final
<1>6. CASE DropsFile(j)
  <2>1. CASE Told(j)
    <3>1. Emits(<<j, part[j]>>, outcome[j]) /\ phase[j] = "dropping" /\ outcome' = outcome
      BY <1>1, <1>6, <2>1 DEF DropsFile
    <3>2. outcome[j] \in {"cancelled", "failed"}
      BY <1>1, <3>1 DEF WalkOf, TypeOK
    <3>3. /\ phase' = [phase EXCEPT ![j] = AfterDrop(j)]
          /\ AfterDrop(j) \in {"sweeping", "cleaning", "ended"}
          /\ AfterDrop(j) = "cleaning" => kind[j] = "archive"
      BY <1>6 DEF DropsFile, AfterDrop, Continues, Ends, Goes
    <3>4. phase'[j] \in {"sweeping", "cleaning", "ended"} /\ (phase'[j] = "cleaning" => kind[j] = "archive")
      BY <3>3 DEF TypeOK
    <3>5. kind[j] = "archive" => outcome[j] = "cancelled"
      BY <2>1 DEF Told
    <3>6. ~Past(<<j, part[j]>>)
      BY <1>1, <3>1, PastIs DEF Over
    <3>7. Past(<<j, part[j]>>)'
      BY <3>1, <3>4, <3>5 DEF Past, JobOf, Over
    <3>8. Says(j, part[j], outcome[j])
      BY <1>1, <3>1, <3>2, <3>6, <3>7 DEF Says, WalkOf
    <3>9. QED
      BY <1>1, <3>2, <3>8 DEF Final
  <2>2. CASE ~Told(j)
    BY <1>6, <2>2 DEF DropsFile
  <2>3. QED
    BY <2>1, <2>2
<1>7. CASE DiskStops(j)
  <2>1. CASE kind[j] = "download"
    <3>1. Emits(<<j, 0>>, "failed") /\ phase[j] = "moving" /\ phase'[j] = "ended" /\ ~IsFolder(j)
      BY <1>1, <1>7, <2>1 DEF DiskStops, IsFolder, Ends, Goes, TypeOK
    <3>2. Past(<<j, 0>>)' /\ ~Past(<<j, 0>>)
      BY <1>1, <3>1, PastIs DEF Over, Past, JobOf
    <3>3. Says(j, 0, "failed")
      BY <1>1, <3>1, <3>2 DEF Says
    <3>4. QED
      BY <1>1, <3>3 DEF Final
  <2>2. CASE kind[j] # "download"
    BY <1>7, <2>2 DEF DiskStops
  <2>3. QED
    BY <2>1, <2>2
<1>8. CASE CleansArchive(j)
  <2>1. CASE outcome[j] = "failed"
    <3>1. /\ Emits(<<j, 0>>, "failed") /\ phase[j] = "cleaning" /\ phase'[j] = "ended"
          /\ ~IsFolder(j)
      BY <1>1, <1>8, <2>1 DEF CleansArchive, IsFolder, Ends, Goes, TypeOK, WalkOf
    <3>2. Past(<<j, 0>>)' /\ ~Past(<<j, 0>>)
      BY <1>1, <2>1, <3>1, PastIs DEF Over, Past, JobOf
    <3>3. Says(j, 0, "failed")
      BY <1>1, <3>1, <3>2 DEF Says
    <3>4. QED
      BY <1>1, <3>3 DEF Final
  <2>2. CASE outcome[j] # "failed"
    BY <1>8, <2>2 DEF CleansArchive
  <2>3. QED
    BY <2>1, <2>2
<1>9. CASE FindsEmptyFolder(j) \/ FolderEnds(j) \/ Interrupted(j) \/ SweepsFolder(j)
  BY <1>9 DEF FindsEmptyFolder, FolderEnds, Interrupted, SweepsFolder
<1>10. QED
  BY <1>2, <1>3, <1>4, <1>5, <1>6, <1>7, <1>8, <1>9 DEF JobStep

(* A row that has had its last word has had it for good.                   *)
LEMMA JobPasts ==
  ASSUME JobInv, NEW j \in Jobs, JobStep(j), NEW id \in Ids, Past(id)
  PROVE  Past(id)'
<1> USE DEF JobInv
<1>1. JobOf(id) \in Jobs /\ id[2] \in 0 .. Parts
  BY IdsAre
<1>2. UNCHANGED kind
  BY JobLeaves
<1>3. CASE JobOf(id) # j
  BY <1>1, <1>2, <1>3, Elsewhere DEF Past, IsFolder
<1>4. CASE JobOf(id) = j
  <2>1. /\ phase[j] \in Running /\ part[j] \in 0 .. Parts /\ Parts \in Nat
        /\ WalkOf(j) /\ kind[j] \in AllKinds
    BY JobMoves, JobIds, PartsAssumption DEF Walk, TypeOK
  <2>2. CASE phase[j] = "sweeping"
    <3>1. phase'[j] = "ended"
      BY <2>2 DEF JobStep, PacksArchive, Opens, AtFile, FailsToOpen, FindsEmptyFolder, FolderEnds,
         Completes, Interrupted, DropsFile, DiskStops, SweepsFolder, CleansArchive, Ends, Goes,
         TypeOK
    <3>2. QED
      BY <1>4, <3>1 DEF Past, Over
  <2>3. CASE phase[j] = "cleaning"
    <3>1. phase'[j] = "ended"
      BY <2>3 DEF JobStep, PacksArchive, Opens, AtFile, FailsToOpen, FindsEmptyFolder, FolderEnds,
         Completes, Interrupted, DropsFile, DiskStops, SweepsFolder, CleansArchive, Ends, Goes,
         TypeOK
    <3>2. QED
      BY <1>4, <3>1 DEF Past, Over
  <2>4. CASE IsFolder(j) /\ phase[j] = "preparing" /\ id[2] <= part[j]
    <3>1. CASE Opens(j)
      <4>1. phase'[j] = "moving" /\ part'[j] = part[j] + 1
        BY <2>4, <3>1, <2>1 DEF Opens, Continues, Goes, TypeOK
      <4>2. QED
        BY <1>1, <1>2, <1>4, <2>1, <2>4, <4>1 DEF Past, IsFolder
    <3>2. CASE ~Opens(j)
      <4>1. phase'[j] \in {"ended", "sweeping"}
        BY <2>1, <2>4, <3>2 DEF JobStep, PacksArchive, FailsToOpen, FindsEmptyFolder, FolderEnds,
           Completes, Interrupted, DropsFile, DiskStops, SweepsFolder, CleansArchive, Ends,
           Continues, Goes, TypeOK, IsFolder
      <4>2. QED
        BY <1>4, <4>1 DEF Past, Over
    <3>3. QED
      BY <3>1, <3>2
  <2>5. CASE IsFolder(j) /\ phase[j] \in {"moving", "dropping"} /\ id[2] < part[j]
    <3>1. UNCHANGED part
      BY <2>5 DEF JobStep, PacksArchive, Opens, AtFile, FailsToOpen, FindsEmptyFolder, FolderEnds,
         Completes, Interrupted, DropsFile, DiskStops, SweepsFolder, CleansArchive
    <3>2. CASE DropsFile(j)
      <4>1. phase' = [phase EXCEPT ![j] = AfterDrop(j)] /\ AfterDrop(j) \in {"sweeping", "ended"}
        BY <2>5, <3>2 DEF DropsFile, AfterDrop, IsFolder, Ends, Continues, Goes
      <4>2. phase'[j] \in {"sweeping", "ended"}
        BY <4>1 DEF TypeOK
      <4>3. QED
        BY <1>4, <4>2 DEF Past, Over
    <3>3. CASE ~DropsFile(j)
      <4>1. phase'[j] \in {"preparing", "dropping", "ended"}
        BY <2>1, <2>5, <3>3 DEF JobStep, PacksArchive, Opens, AtFile, FailsToOpen, FindsEmptyFolder,
           FolderEnds, Completes, Interrupted, DiskStops, SweepsFolder, CleansArchive, Ends,
           Continues, Goes, TypeOK, IsFolder
      <4>2. QED
        BY <1>1, <1>2, <1>4, <2>1, <2>5, <3>1, <4>1 DEF Past, Over, IsFolder
    <3>4. QED
      BY <3>2, <3>3
  <2>6. QED
    BY <1>4, <2>1, <2>2, <2>3, <2>4, <2>5 DEF Past, Over, Running
<1>5. QED
  BY <1>3, <1>4

(* What was whole stays whole, unless its job was cancelled.               *)
LEMMA JobWholes ==
  ASSUME JobInv, NEW j \in Jobs, JobStep(j), NEW id \in Ids,
         file[id] = "whole" \/ outcome[JobOf(id)] = "cancelled"
  PROVE  file'[id] = "whole" \/ outcome'[JobOf(id)] = "cancelled"
<1> USE DEF JobInv
<1>1. /\ JobOf(id) \in Jobs /\ id[2] \in 0 .. Parts /\ id = <<JobOf(id), id[2]>>
      /\ file[<<JobOf(id), id[2]>>] = file[id] /\ file'[<<JobOf(id), id[2]>>] = file'[id]
  BY IdsAre
<1>2. CASE JobOf(id) # j
  <2>1. outcome'[JobOf(id)] = outcome[JobOf(id)]
    BY <1>1, <1>2, Elsewhere
  <2>2. file'[<<JobOf(id), id[2]>>] = file[<<JobOf(id), id[2]>>]
    BY <1>1, <1>2, Elsewhere
  <2>3. QED
    BY <1>1, <2>1, <2>2
<1>3. CASE JobOf(id) = j
  <2>1. WalkOf(j) /\ part[j] \in 0 .. Parts /\ FileRemains(j, id[2]) /\ Parts \in Nat
    BY <1>1, <1>3, JobIds, PartsAssumption DEF Walk, Remains
  <2>2. CASE outcome[j] = "cancelled"
    <3>1. outcome'[j] = "cancelled"
      BY <2>1, <2>2 DEF WalkOf, NotYet, TypeOK, JobStep, PacksArchive, Opens, FailsToOpen, AtFile,
         FindsEmptyFolder, FolderEnds, Completes, Interrupted, DropsFile, DiskStops, SweepsFolder,
         CleansArchive
    <3>2. QED
      BY <1>3, <3>1
  <2>3. CASE outcome[j] # "cancelled" /\ file[id] = "whole"
    <3>1. CASE Opens(j)
      <4>1. IF IsFolder(j) THEN file' = [file EXCEPT ![<<j, part[j] + 1>>] = "partial"]
                           ELSE file' = [file EXCEPT ![<<j, 0>>] = "partial"]
        BY <3>1 DEF Opens, Id
      <4>2. IF IsFolder(j) THEN id # <<j, part[j] + 1>> ELSE FALSE
        <5>1. CASE IsFolder(j)
          <6>1. id[2] # part[j] + 1
            BY <1>1, <1>3, <2>1, <2>3, <5>1 DEF FileRemains
          <6>2. QED
            BY <5>1, <6>1
        <5>2. CASE ~IsFolder(j)
          BY <1>1, <1>3, <2>1, <2>3, <3>1, <5>2 DEF Opens, AtFile, FileRemains
        <5>3. QED
          BY <5>1, <5>2
      <4>3. QED
        BY <2>3, <4>1, <4>2 DEF TypeOK
    <3>2. CASE Completes(j)
      BY <2>3, <3>2 DEF Completes, TypeOK
    <3>3. CASE DropsFile(j)
      <4>1. file[Cur(j)] = "partial" /\ \E f : file' = [file EXCEPT ![Cur(j)] = f]
        BY <3>3 DEF DropsFile, Remains
      <4>2. id # Cur(j)
        BY <2>3, <4>1
      <4>3. QED
        BY <2>3, <4>1, <4>2 DEF TypeOK
    <3>4. CASE SweepsFolder(j)
      BY <2>1, <2>3, <3>4 DEF SweepsFolder, WalkOf
    <3>5. CASE UNCHANGED file
      BY <2>3, <3>5
    <3>6. QED
      BY <3>1, <3>2, <3>3, <3>4, <3>5 DEF JobStep, PacksArchive, FailsToOpen, FindsEmptyFolder,
         FolderEnds, Interrupted, DiskStops, CleansArchive
  <2>4. QED
    BY <1>3, <2>2, <2>3
<1>4. QED
  BY <1>2, <1>3

(* A single job that has said all has just had its last word.              *)
LEMMA JobSaysAll ==
  ASSUME JobInv, NEW j \in Jobs, JobStep(j), kind[j] \in Singles, SaidAll(j)'
  PROVE  \/ SaidAll(j) /\ UNCHANGED uiQ
         \/ \E s \in Final : Emits(Id(j), s)
<1> USE DEF JobInv
<1>1. WalkOf(j) /\ ~IsFolder(j) /\ Cur(j) = Id(j) /\ kind[j] \in {"download", "upload", "archive"}
  BY DEF Walk, WalkOf, IsFolder, Singles, Cur, Id
<1>2. phase'[j] \in {"ended", "cleaning"} /\ (phase'[j] = "cleaning" => outcome'[j] # "failed")
  BY DEF SaidAll
<1>3. CASE PacksArchive(j) \/ Opens(j) \/ Interrupted(j)
  BY <1>2, <1>3 DEF PacksArchive, Opens, Interrupted, Continues, Goes, TypeOK
<1>4. CASE FindsEmptyFolder(j) \/ FolderEnds(j) \/ SweepsFolder(j)
  BY <1>1, <1>4 DEF FindsEmptyFolder, FolderEnds, SweepsFolder, IsFolder, WalkOf
<1>5. CASE FailsToOpen(j)
  <2>1. CASE kind[j] = "archive"
    <3>1. phase'[j] = "cleaning" /\ outcome'[j] = "failed"
      BY <1>5, <2>1 DEF FailsToOpen, Continues, Goes, TypeOK
    <3>2. QED
      BY <1>2, <3>1
  <2>2. CASE kind[j] \in {"download", "upload"}
    BY <1>5, <2>2 DEF FailsToOpen, Final
  <2>3. QED
    BY <1>1, <2>1, <2>2
<1>6. CASE Completes(j)
  BY <1>1, <1>6 DEF Completes, Final
<1>7. CASE DropsFile(j)
  <2>1. CASE Told(j)
    <3>1. outcome[j] \in Final
      BY <1>1, <1>7 DEF DropsFile, WalkOf, TypeOK, Final
    <3>2. QED
      BY <1>1, <1>7, <2>1, <3>1 DEF DropsFile
  <2>2. CASE ~Told(j)
    <3>1. kind[j] = "archive" /\ outcome[j] = "failed"
      BY <1>1, <1>7, <2>2 DEF Told, DropsFile, WalkOf, TypeOK
    <3>2. AfterDrop(j) = "cleaning"
      BY <1>1, <3>1 DEF AfterDrop, IsFolder
    <3>3. phase'[j] = "cleaning" /\ outcome'[j] = "failed"
      BY <1>7, <3>1, <3>2 DEF DropsFile, Continues, Goes, TypeOK
    <3>4. QED
      BY <1>2, <3>3
  <2>3. QED
    BY <2>1, <2>2
<1>8. CASE DiskStops(j)
  <2>1. CASE kind[j] = "archive"
    <3>1. phase'[j] = "cleaning" /\ outcome'[j] = "failed"
      BY <1>8, <2>1 DEF DiskStops, Continues, Goes, TypeOK
    <3>2. QED
      BY <1>2, <3>1
  <2>2. CASE kind[j] = "download"
    BY <1>8, <2>2 DEF DiskStops, Final
  <2>3. QED
    BY <1>1, <1>8, <2>1, <2>2 DEF DiskStops, Remote
<1>9. CASE CleansArchive(j)
  BY <1>9 DEF CleansArchive, SaidAll, Final
<1>10. QED
  BY <1>3, <1>4, <1>5, <1>6, <1>7, <1>8, <1>9 DEF JobStep

-----------------------------------------------------------------------------
(* The rows.                                                               *)

(* What waits after something has been said about a row.                   *)
LEMMA SaysIs ==
  ASSUME TypeOK, NEW said \in Ids, NEW s \in Active \cup Final, Emits(said, s)
  PROVE  \E last \in Nat :
           /\ last \in DOMAIN uiQ' /\ uiQ'[last] = [id |-> said, state |-> s]
           /\ \A i \in DOMAIN uiQ : i \in DOMAIN uiQ' /\ uiQ'[i] = uiQ[i] /\ i \in Nat /\ i < last
           /\ \A i \in DOMAIN uiQ' : i \in Nat /\ (i = last \/ i \in DOMAIN uiQ)
           /\ \A id \in Ids : About(uiQ'[last], id) <=> id = said
<1> DEFINE e == [id |-> said, state |-> s]
<1>1. e \in Event /\ uiQ \in Seq(Event) /\ uiQ' = Append(uiQ, e)
  BY DEF Event, TypeOK, Emits
<1>2. /\ Len(uiQ) \in Nat /\ DOMAIN uiQ = 1 .. Len(uiQ) /\ DOMAIN uiQ' = 1 .. (Len(uiQ) + 1)
      /\ uiQ'[Len(uiQ) + 1] = e /\ \A i \in DOMAIN uiQ : uiQ'[i] = uiQ[i]
  BY <1>1, AppendIs
<1>3. \A id \in Ids : About(e, id) <=> id = said
  BY DEF About, Active, Final
<1>4. WITNESS Len(uiQ) + 1 \in Nat
<1>5. QED
  BY <1>2, <1>3

(* Steps at which nothing is said or shown.                                *)
LEMMA QuietKeepsRows ==
  ASSUME TypeOK, RowInv, UNCHANGED <<kind, part, file, outcome, uiQ, rows, connected>>,
         \A id \in Ids : Past(id) => Past(id)',
         \A j \in Jobs : SaidAll(j)' => SaidAll(j),
         \A j \in Jobs : phase[j] \notin NotYet => phase'[j] \notin NotYet,
         \A id \in clicked' : id \in clicked \/ rows[id] \in Active
  PROVE  LastWord' /\ SaidWhole' /\ SpokenOfStarted' /\ SinglesHeard'
<1> USE DEF RowInv
<1>1. \A id : Waits(id)' <=> Waits(id)
  BY DEF Waits
<1>2. LastWord'
  BY <1>1 DEF LastWord
<1>3. SaidWhole'
  BY DEF SaidWhole
<1>4. SpokenOfStarted'
  <2>1. ASSUME NEW id \in Ids, Spoken(id)' PROVE Spoken(id)
    BY <1>1, <2>1 DEF Spoken, Active
  <2>2. QED
    BY <2>1, IdsAre DEF SpokenOfStarted, IsFolder, Id
<1>5. SinglesHeard'
  <2>1. \A id : LastSaid(id)' <=> LastSaid(id)
    BY <1>1 DEF LastSaid
  <2>2. QED
    BY <2>1 DEF SinglesHeard, Id
<1>6. QED
  BY <1>2, <1>3, <1>4, <1>5

LEMMA ClearKeepsRows ==
  ASSUME JobInv, RowInv, ClearTransfers
  PROVE  LastWord' /\ SaidWhole' /\ SpokenOfStarted' /\ SinglesHeard'
<1> USE DEF RowInv
<1>1. UNCHANGED <<kind, phase, part, outcome, file, uiQ, connected, clicked>>
  BY DEF ClearTransfers, taskVars
<1>2. \A id \in Ids : rows'[id] = rows[id] \/ (rows[id] \notin Active /\ rows'[id] = "none")
  BY DEF ClearTransfers
<1>3. \A id : (Waits(id)' <=> Waits(id)) /\ (Past(id)' <=> Past(id))
  BY <1>1 DEF Waits, Past, IsFolder
<1>4. LastWord'
  BY <1>1, <1>2, <1>3 DEF LastWord, Final
<1>5. SaidWhole'
  BY <1>1, <1>2 DEF SaidWhole
<1>6. SpokenOfStarted'
  <2>1. ASSUME NEW id \in Ids, Spoken(id)' PROVE Spoken(id)
    BY <1>1, <1>2, <1>3, <2>1 DEF Spoken
  <2>2. QED
    BY <1>1, <2>1 DEF SpokenOfStarted, IsFolder, Id
<1>7. SinglesHeard'
  <2>1. ASSUME NEW j \in Jobs, LastSaid(Id(j)) PROVE LastSaid(Id(j))'
    <3>1. Id(j) \in Ids /\ Id(j)' = Id(j)
      BY JobIds DEF JobInv, Id
    <3>2. QED
      BY <1>1, <1>2, <1>3, <2>1, <3>1 DEF LastSaid, Active
  <2>2. QED
    BY <1>1, <2>1 DEF SinglesHeard, SaidAll
<1>8. QED
  BY <1>4, <1>5, <1>6, <1>7

(* The word that a tab is closed is about no row.                          *)
LEMMA CloseKeepsRows ==
  ASSUME JobInv, RowInv, CloseFiles
  PROVE  LastWord' /\ SaidWhole' /\ SpokenOfStarted' /\ SinglesHeard'
<1> USE DEF RowInv
<1> DEFINE closed == [state |-> "closed"]
<1>1. /\ UNCHANGED <<kind, phase, part, outcome, file, rows, connected, clicked>>
      /\ uiQ' = Append(uiQ, closed)
  BY DEF CloseFiles, taskVars, uiVars
<1>2. closed \in Event /\ uiQ \in Seq(Event)
  BY DEF Event, JobInv, TypeOK
<1>3. PICK last : /\ uiQ'[last] = closed
                  /\ \A i \in DOMAIN uiQ : i \in DOMAIN uiQ' /\ uiQ'[i] = uiQ[i]
                  /\ \A i \in DOMAIN uiQ' : i = last \/ i \in DOMAIN uiQ
  BY <1>1, <1>2, AppendIs
<1>4. \A id : ~About(uiQ'[last], id)
  BY <1>3 DEF About
<1>5. \A id : (Waits(id)' <=> Waits(id)) /\ (Past(id)' <=> Past(id))
  BY <1>1, <1>3, <1>4 DEF Waits, Past, IsFolder
<1>6. LastWord'
  <2>1. ASSUME NEW id \in Ids, NEW i \in DOMAIN uiQ', About(uiQ'[i], id), uiQ'[i].state \in Final
        PROVE  Past(id)' /\ \A k \in DOMAIN uiQ' : About(uiQ'[k], id) => k <= i
    <3>1. i \in DOMAIN uiQ /\ uiQ'[i] = uiQ[i]
      BY <1>3, <1>4, <2>1
    <3>2. Past(id) /\ \A k \in DOMAIN uiQ : About(uiQ[k], id) => k <= i
      BY <2>1, <3>1 DEF LastWord
    <3>3. QED
      BY <1>3, <1>4, <1>5, <3>2
  <2>2. QED
    BY <1>1, <1>5, <2>1 DEF LastWord, About
<1>7. SaidWhole'
  BY <1>1, <1>3, <1>4 DEF SaidWhole, About
<1>8. SpokenOfStarted'
  <2>1. ASSUME NEW id \in Ids, Spoken(id)' PROVE Spoken(id)
    BY <1>1, <1>5, <2>1 DEF Spoken
  <2>2. QED
    BY <1>1, <2>1 DEF SpokenOfStarted, IsFolder, Id
<1>9. SinglesHeard'
  <2>1. ASSUME NEW id, LastSaid(id) PROVE LastSaid(id)'
    BY <1>1, <1>3, <1>5, <2>1 DEF LastSaid, About
  <2>2. QED
    BY <1>1, <2>1 DEF SinglesHeard, SaidAll, Id
<1>10. QED
  BY <1>6, <1>7, <1>8, <1>9

LEMMA ApplyKeepsRows ==
  ASSUME JobInv, RowInv, ApplyEvent
  PROVE  LastWord' /\ SaidWhole' /\ SpokenOfStarted' /\ SinglesHeard'
<1> USE DEF RowInv
<1> DEFINE e == Head(uiQ)
<1>1. /\ UNCHANGED <<kind, phase, part, outcome, file, clicked>>
      /\ uiQ' = Tail(uiQ) /\ uiQ # <<>>
  BY DEF ApplyEvent, taskVars
<1>2. /\ 1 \in DOMAIN uiQ /\ uiQ[1] = e
      /\ \A i \in DOMAIN uiQ' : i \in Nat /\ i >= 1 /\ i + 1 \in DOMAIN uiQ /\ uiQ'[i] = uiQ[i + 1]
      /\ \A i \in DOMAIN uiQ : i \in Nat /\ i >= 1
                              /\ (i # 1 => i - 1 \in DOMAIN uiQ' /\ uiQ'[i - 1] = uiQ[i])
  <2>1. uiQ \in Seq(Event)
    BY DEF JobInv, TypeOK
  <2>2. QED
    BY <1>1, <2>1, TailIs
<1>3. \A id \in Ids : rows'[id] = rows[id] \/ (About(e, id) /\ rows'[id] = e.state)
  BY HeadEvent DEF ApplyEvent, RowsAfter, About, JobInv, TypeOK
<1>4. connected' => connected /\ \A id \in Ids : About(e, id) => rows'[id] = e.state
  BY HeadEvent DEF ApplyEvent, RowsAfter, About, JobInv, TypeOK
<1>5. \A id : /\ (Waits(id)' => Waits(id)) /\ (Past(id)' <=> Past(id))
             /\ (About(e, id) => Waits(id))
  BY <1>1, <1>2 DEF Waits, Past, IsFolder
<1> HIDE DEF e
<1>6. ASSUME NEW id \in Ids, About(e, id), e.state \in Final
      PROVE  Past(id) /\ ~Waits(id)'
  <2>1. Past(id) /\ \A k \in DOMAIN uiQ : About(uiQ[k], id) => k <= 1
    BY <1>2, <1>6 DEF LastWord
  <2>2. ASSUME Waits(id)' PROVE FALSE
    <3>1. PICK i \in DOMAIN uiQ' : About(uiQ'[i], id)
      BY <2>2 DEF Waits, About
    <3>2. i >= 1 /\ i \in Nat /\ i + 1 <= 1
      BY <1>2, <2>1, <3>1
    <3>3. QED
      BY <3>2
  <2>3. QED
    BY <2>1, <2>2
<1>7. LastWord'
  <2>1. ASSUME NEW id \in Ids, NEW i \in DOMAIN uiQ', About(uiQ'[i], id), uiQ'[i].state \in Final
        PROVE  Past(id)' /\ \A k \in DOMAIN uiQ' : About(uiQ'[k], id) => k <= i
    <3>1. i \in Nat /\ i + 1 \in DOMAIN uiQ /\ uiQ'[i] = uiQ[i + 1]
      BY <1>2
    <3>2. Past(id) /\ \A k \in DOMAIN uiQ : About(uiQ[k], id) => k <= i + 1
      BY <2>1, <3>1 DEF LastWord
    <3>3. ASSUME NEW k \in DOMAIN uiQ', About(uiQ'[k], id) PROVE k <= i
      <4>1. k \in Nat /\ k + 1 <= i + 1
        BY <1>2, <3>2, <3>3
      <4>2. QED
        BY <3>1, <4>1
    <3>4. QED
      BY <1>5, <3>2, <3>3
  <2>2. ASSUME NEW id \in Ids, rows'[id] \in Final PROVE Past(id)' /\ ~Waits(id)'
    <3>1. CASE rows'[id] = rows[id]
      BY <1>5, <2>2, <3>1 DEF LastWord
    <3>2. CASE About(e, id) /\ rows'[id] = e.state
      BY <1>5, <1>6, <2>2, <3>2
    <3>3. QED
      BY <1>3, <3>1, <3>2
  <2>3. QED
    BY <2>1, <2>2 DEF LastWord, About
<1>8. SaidWhole'
  <2>1. ASSUME NEW id \in Ids,
               \/ rows'[id] = "done"
               \/ \E i \in DOMAIN uiQ' : About(uiQ'[i], id) /\ uiQ'[i].state = "done"
        PROVE  \/ rows[id] = "done"
               \/ \E i \in DOMAIN uiQ : About(uiQ[i], id) /\ uiQ[i].state = "done"
    BY <1>2, <1>3, <2>1
  <2>2. QED
    BY <1>1, <2>1 DEF SaidWhole, About
<1>9. SpokenOfStarted'
  <2>1. ASSUME NEW id \in Ids, Spoken(id)' PROVE Spoken(id)
    BY <1>1, <1>3, <1>5, <2>1 DEF Spoken
  <2>2. QED
    BY <1>1, <2>1 DEF SpokenOfStarted, IsFolder, Id
<1>10. SinglesHeard'
  <2>1. ASSUME NEW id \in Ids, LastSaid(id), connected' PROVE LastSaid(id)'
    <3>1. CASE \E i \in DOMAIN uiQ : About(uiQ[i], id) /\ uiQ[i].state \in Final
      <4>1. PICK i \in DOMAIN uiQ : About(uiQ[i], id) /\ uiQ[i].state \in Final
        BY <3>1
      <4>2. CASE i = 1
        <5>1. About(e, id) /\ e.state \in Final
          BY <1>2, <4>1, <4>2
        <5>2. rows'[id] \in Final /\ ~Waits(id)'
          BY <1>4, <1>6, <2>1, <5>1
        <5>3. QED
          BY <5>2 DEF LastSaid, Final, Active
      <4>3. CASE i # 1
        <5>1. i - 1 \in DOMAIN uiQ' /\ uiQ'[i - 1] = uiQ[i]
          BY <1>2, <4>3
        <5>2. QED
          BY <4>1, <5>1 DEF LastSaid, About
      <4>4. QED
        BY <4>2, <4>3
    <3>2. CASE rows[id] \notin Active /\ ~Waits(id)
      <4>1. rows'[id] = rows[id] /\ ~Waits(id)'
        BY <1>3, <1>5, <3>2
      <4>2. QED
        BY <3>2, <4>1 DEF LastSaid
    <3>3. QED
      BY <2>1, <3>1, <3>2 DEF LastSaid
  <2>2. ASSUME NEW j \in Jobs PROVE Id(j) \in Ids /\ Id(j)' = Id(j)
    BY JobIds DEF JobInv, Id
  <2>3. QED
    BY <1>1, <1>4, <2>1, <2>2 DEF SinglesHeard, SaidAll
<1>11. QED
  BY <1>7, <1>8, <1>9, <1>10

LEMMA JobKeepsRows ==
  ASSUME JobInv, RowInv, NEW j \in Jobs, JobStep(j)
  PROVE  LastWord' /\ SaidWhole' /\ SpokenOfStarted' /\ SinglesHeard'
<1> USE DEF RowInv
<1>1. UNCHANGED <<kind, rows, connected, clicked>>
  BY JobLeaves DEF uiVars
<1>2. \A id \in Ids : Past(id) => Past(id)'
  BY JobPasts
<1>3. /\ \A i \in Jobs : phase[i] \notin NotYet => phase'[i] \notin NotYet
      /\ phase'[j] \notin NotYet
  BY JobMoves DEF JobInv, TypeOK, Running, Over, NotYet
<1>4. \A i \in Jobs : i # j => (SaidAll(i)' <=> SaidAll(i))
  BY Elsewhere DEF SaidAll, JobInv
<1>5. CASE UNCHANGED uiQ
  <2>1. \A id : Waits(id)' <=> Waits(id)
    BY <1>5 DEF Waits
  <2>2. LastWord'
    BY <1>1, <1>2, <1>5, <2>1 DEF LastWord
  <2>3. SaidWhole'
    BY <1>1, <1>5, JobWholes DEF SaidWhole
  <2>4. SpokenOfStarted'
    <3>1. ASSUME NEW id \in Ids, Spoken(id)' PROVE Spoken(id)
      BY <1>1, <2>1, <3>1 DEF Spoken
    <3>2. QED
      BY <1>1, <1>3, <3>1, IdsAre DEF SpokenOfStarted, IsFolder, Id
  <2>5. SinglesHeard'
    <3>1. \A id : LastSaid(id)' <=> LastSaid(id)
      BY <1>1, <1>5, <2>1 DEF LastSaid
    <3>2. ASSUME NEW s \in Final, Emits(Id(j), s) PROVE FALSE
      BY <1>5, <3>2 DEF Emits, JobInv, TypeOK
    <3>3. ASSUME NEW i \in Jobs, kind[i] \in Singles, SaidAll(i)' PROVE SaidAll(i)
      BY <1>4, <3>2, <3>3, JobSaysAll
    <3>4. QED
      BY <1>1, <3>1, <3>3 DEF SinglesHeard, Id
  <2>6. QED
    BY <2>2, <2>3, <2>4, <2>5
<1>6. ASSUME NEW n \in 0 .. Parts, NEW s \in Active \cup Final, Says(j, n, s)
      PROVE  LastWord' /\ SaidWhole' /\ SpokenOfStarted' /\ SinglesHeard'
  <2> DEFINE said == <<j, n>>
  <2>1. said \in Ids /\ JobOf(said) = j
    BY IdsAre
  <2>2. /\ Emits(said, s) /\ ~Past(said) /\ (s \in Final => Past(said)')
        /\ (s = "done" => file'[said] = "whole")
        /\ (IsFolder(j) \/ said = Id(j))
    BY <1>6 DEF Says, Id
  <2> HIDE DEF said
  <2>3. PICK last \in Nat :
          /\ last \in DOMAIN uiQ' /\ uiQ'[last] = [id |-> said, state |-> s]
          /\ \A i \in DOMAIN uiQ : i \in DOMAIN uiQ' /\ uiQ'[i] = uiQ[i] /\ i \in Nat /\ i < last
          /\ \A i \in DOMAIN uiQ' : i \in Nat /\ (i = last \/ i \in DOMAIN uiQ)
          /\ \A id \in Ids : About(uiQ'[last], id) <=> id = said
    BY <2>1, <2>2, SaysIs DEF JobInv
  <2>4. \A id \in Ids : Waits(id)' <=> Waits(id) \/ id = said
    BY <2>3 DEF Waits, About
  <2>5. LastWord'
    <3>1. ASSUME NEW id \in Ids, NEW i \in DOMAIN uiQ', About(uiQ'[i], id), uiQ'[i].state \in Final
          PROVE  Past(id)' /\ \A k \in DOMAIN uiQ' : About(uiQ'[k], id) => k <= i
      <4>1. CASE i = last
        <5>1. id = said /\ s \in Final
          BY <2>3, <3>1, <4>1
        <5>2. \A k \in DOMAIN uiQ' : k <= last
          BY <2>3
        <5>3. QED
          BY <2>2, <4>1, <5>1, <5>2
      <4>2. CASE i # last
        <5>1. i \in DOMAIN uiQ /\ uiQ'[i] = uiQ[i]
          BY <2>3, <4>2
        <5>2. Past(id) /\ \A k \in DOMAIN uiQ : About(uiQ[k], id) => k <= i
          BY <3>1, <5>1 DEF LastWord
        <5>3. id # said
          BY <2>2, <5>2
        <5>4. QED
          BY <1>2, <2>3, <5>2, <5>3
      <4>3. QED
        BY <4>1, <4>2
    <3>2. ASSUME NEW id \in Ids, rows'[id] \in Final PROVE Past(id)' /\ ~Waits(id)'
      <4>1. Past(id) /\ ~Waits(id)
        BY <1>1, <3>2 DEF LastWord
      <4>2. id # said
        BY <2>2, <4>1
      <4>3. QED
        BY <1>2, <2>4, <4>1, <4>2
    <3>3. QED
      BY <3>1, <3>2 DEF LastWord, About
  <2>6. SaidWhole'
    <3>1. ASSUME NEW id \in Ids,
                 \/ rows'[id] = "done"
                 \/ \E i \in DOMAIN uiQ' : About(uiQ'[i], id) /\ uiQ'[i].state = "done"
          PROVE  file'[id] = "whole" \/ outcome'[JobOf(id)] = "cancelled"
      <4>1. CASE id = said /\ s = "done"
        BY <2>2, <4>1
      <4>2. CASE ~(id = said /\ s = "done")
        <5>1. \/ rows[id] = "done"
              \/ \E i \in DOMAIN uiQ : About(uiQ[i], id) /\ uiQ[i].state = "done"
          BY <1>1, <2>3, <3>1, <4>2
        <5>2. file[id] = "whole" \/ outcome[JobOf(id)] = "cancelled"
          BY <5>1 DEF SaidWhole
        <5>3. QED
          BY <5>2, JobWholes
      <4>3. QED
        BY <4>1, <4>2
    <3>2. QED
      BY <3>1 DEF SaidWhole, About
  <2>7. SpokenOfStarted'
    <3>1. ASSUME NEW id \in Ids, Spoken(id)'
          PROVE  /\ phase'[JobOf(id)] \notin NotYet
                 /\ IsFolder(JobOf(id))' \/ id = Id(JobOf(id))
      <4>1. CASE id = said
        BY <1>1, <1>3, <2>1, <2>2, <4>1 DEF IsFolder
      <4>2. CASE id # said
        <5>1. Spoken(id)
          BY <1>1, <2>4, <3>1, <4>2 DEF Spoken
        <5>2. QED
          BY <1>1, <1>3, <5>1, IdsAre DEF SpokenOfStarted, IsFolder
      <4>3. QED
        BY <4>1, <4>2
    <3>2. QED
      BY <3>1 DEF SpokenOfStarted, Id
  <2>8. SinglesHeard'
    <3>1. ASSUME NEW i \in Jobs, kind[i] \in Singles, connected, SaidAll(i)'
          PROVE  LastSaid(Id(i))'
      <4>1. Id(i) \in Ids /\ Id(i)' = Id(i) /\ JobOf(Id(i)) = i
        BY JobIds DEF JobInv, Id, JobOf
      <4>2. CASE i = j
        <5>1. ASSUME UNCHANGED uiQ PROVE FALSE
          BY <2>2, <5>1 DEF Emits, JobInv, TypeOK
        <5>2. PICK t \in Final : Emits(Id(j), t)
          BY <3>1, <4>2, <5>1, JobSaysAll
        <5>3. \E i2 \in DOMAIN uiQ' : About(uiQ'[i2], Id(j)) /\ uiQ'[i2].state \in Final
          <6>1. PICK end \in Nat :
                  /\ end \in DOMAIN uiQ' /\ uiQ'[end] = [id |-> Id(j), state |-> t]
                  /\ \A id \in Ids : About(uiQ'[end], id) <=> id = Id(j)
            BY <4>1, <4>2, <5>2, SaysIs DEF JobInv
          <6>2. QED
            BY <4>1, <4>2, <6>1
        <5>4. QED
          BY <4>1, <4>2, <5>3 DEF LastSaid, About
      <4>3. CASE i # j
        <5>1. LastSaid(Id(i))
          BY <1>4, <3>1, <4>3 DEF SinglesHeard
        <5>2. Id(i) # said
          BY <2>1, <4>1, <4>3
        <5>3. QED
          BY <1>1, <2>3, <2>4, <4>1, <5>1, <5>2 DEF LastSaid, About
      <4>4. QED
        BY <4>2, <4>3
    <3>2. QED
      BY <1>1, <3>1 DEF SinglesHeard
  <2>9. QED
    BY <2>5, <2>6, <2>7, <2>8
<1>7. QED
  BY <1>5, <1>6, JobSays

-----------------------------------------------------------------------------
(* Cancels.                                                                *)

CancelWaits(id) == \E i \in DOMAIN cmds : cmds[i].op = "cancel" /\ cmds[i].id = id

LEMMA SendKeepsCancels ==
  ASSUME TypeOK, NEW c \in Command, Send(c)
  PROVE  /\ worker \in {"serving", "opening"} /\ c.op = "cancel" => CancelWaits(c.id)'
         /\ \A id : CancelWaits(id) => CancelWaits(id)'
<1>1. CASE cmds' = cmds /\ worker \in {"closing", "ended"}
  BY <1>1 DEF CancelWaits
<1>2. CASE cmds' = Append(cmds, c)
  <2>1. cmds \in Seq(Command)
    BY DEF TypeOK
  <2>2. /\ Len(cmds) + 1 \in DOMAIN cmds' /\ cmds'[Len(cmds) + 1] = c
        /\ \A i \in DOMAIN cmds : i \in DOMAIN cmds' /\ cmds'[i] = cmds[i]
    BY <1>2, <2>1, AppendIs
  <2>3. QED
    BY <2>2 DEF CancelWaits
<1>3. QED
  BY <1>1, <1>2 DEF Send

LEMMA TailKeepsCancels ==
  ASSUME TypeOK, cmds # <<>>, cmds' = Tail(cmds), NEW id, CancelWaits(id)
  PROVE  CancelWaits(id)' \/ (Head(cmds).op = "cancel" /\ Head(cmds).id = id)
<1>1. cmds \in Seq(Command)
  BY DEF TypeOK
<1>2. /\ cmds[1] = Head(cmds)
      /\ \A i \in DOMAIN cmds : i # 1 => i - 1 \in DOMAIN cmds' /\ cmds'[i - 1] = cmds[i]
  BY <1>1, TailIs
<1>3. QED
  BY <1>2 DEF CancelWaits

(* The loop finds the flag of a job that runs, as its row was spoken of.   *)
LEMMA HearKeepsCancels ==
  ASSUME JobInv, RowInv, HearCancel
  PROVE  CancelsUnderway'
<1>1. /\ UNCHANGED <<kind, phase, worker, clicked>> /\ cmds' = Tail(cmds) /\ cmds # <<>>
      /\ worker = "serving"
  BY DEF HearCancel, Takes, taskVars, uiVars
<1>2. ASSUME NEW id \in clicked, kind[JobOf(id)] \in Singles, phase[JobOf(id)] \notin Over
      PROVE  flag'[JobOf(id)] \/ CancelWaits(id)'
  <2> DEFINE j == JobOf(id)
  <2>1. id \in Ids /\ j \in Jobs
    BY IdsAre DEF JobInv, TypeOK
  <2>2. flag[j] \/ CancelWaits(id)
    BY <1>1, <1>2 DEF RowInv, CancelsUnderway, CancelWaits
  <2>3. flag'[j] <=> flag[j] \/ (j \in registered /\ Head(cmds).id = Id(j))
    BY <2>1 DEF HearCancel
  <2>4. j \in registered /\ id = Id(j)
    <3>1. phase[j] \notin NotYet /\ (IsFolder(j) \/ id = Id(j))
      BY <2>1 DEF RowInv, SpokenOfStarted, Spoken
    <3>2. ~IsFolder(j) /\ kind[j] # "open"
      BY <1>2 DEF IsFolder, Singles
    <3>3. phase[j] \in Running
      BY <1>2, <2>1, <3>1 DEF JobInv, TypeOK, NotYet
    <3>4. QED
      BY <2>1, <3>1, <3>2, <3>3 DEF JobInv, Walk, WalkOf
  <2>5. QED
    BY <1>1, <2>2, <2>3, <2>4, TailKeepsCancels DEF JobInv
<1>3. QED
  BY <1>1, <1>2 DEF CancelsUnderway, CancelWaits

LEMMA CancelsKept ==
  ASSUME JobInv, RowInv, Next
  PROVE  CancelsUnderway'
<1> DEFINE Late(id) == phase[JobOf(id)] \in Over \/ flag[JobOf(id)]
<1>1. \A id \in clicked : JobOf(id) \in Jobs
  BY IdsAre DEF JobInv, TypeOK
<1>2. worker \in {"serving", "opening"} =>
        \A id \in clicked : kind[JobOf(id)] \in Singles => Late(id) \/ CancelWaits(id)
  BY DEF RowInv, CancelsUnderway, CancelWaits
<1>3. ASSUME worker' \in {"serving", "opening"} => worker \in {"serving", "opening"},
             UNCHANGED <<kind, clicked>>,
             \A id \in clicked : Late(id) => Late(id)',
             \A id : CancelWaits(id) => CancelWaits(id)'
      PROVE  CancelsUnderway'
  BY <1>2, <1>3 DEF CancelsUnderway, CancelWaits
<1>4. ASSUME NEW j \in Jobs, Request(j) PROVE CancelsUnderway'
  <2>1. [op |-> "run", job |-> j] \in Command
    BY DEF Command
  <2>2. UNCHANGED <<kind, clicked, flag, worker>>
    BY <1>4 DEF Request, uiVars
  <2>3. \A id : CancelWaits(id) => CancelWaits(id)'
    BY <1>4, <2>1, SendKeepsCancels DEF Request, JobInv
  <2>4. \A id \in clicked : Late(id) => Late(id)'
    BY <1>1, <1>4, <2>2 DEF Request, Over, JobInv, TypeOK
  <2>5. QED
    BY <1>3, <2>2, <2>3, <2>4
<1>5. ASSUME NEW id \in Ids, CancelTransfer(id) PROVE CancelsUnderway'
  <2> DEFINE c == [op |-> "cancel", id |-> id]
  <2>1. c \in Command /\ c.op = "cancel" /\ c.id = id
    BY DEF Command
  <2>2. /\ UNCHANGED <<kind, phase, flag, worker>> /\ clicked' = clicked \cup {id} /\ Send(c)
    BY <1>5 DEF CancelTransfer, taskVars
  <2> HIDE DEF c
  <2>3. /\ worker \in {"serving", "opening"} => CancelWaits(id)'
        /\ \A i : CancelWaits(i) => CancelWaits(i)'
    BY <2>1, <2>2, SendKeepsCancels DEF JobInv
  <2>4. QED
    BY <1>2, <2>2, <2>3 DEF CancelsUnderway, CancelWaits
<1>6. CASE CloseFiles
  <2>1. [op |-> "close"] \in Command
    BY DEF Command
  <2>2. UNCHANGED <<kind, clicked, phase, flag, worker>>
    BY <1>6 DEF CloseFiles, uiVars, taskVars
  <2>3. \A id : CancelWaits(id) => CancelWaits(id)'
    BY <1>6, <2>1, SendKeepsCancels DEF CloseFiles, JobInv
  <2>4. QED
    BY <1>3, <2>2, <2>3
<1>7. CASE AbortTasks
  <2>1. UNCHANGED <<kind, clicked, flag, worker, cmds>>
    BY <1>7 DEF AbortTasks, uiVars
  <2>2. \A id \in clicked : Late(id) => Late(id)'
    BY <1>1, <1>7, <2>1 DEF AbortTasks, Over, JobInv, TypeOK
  <2>3. QED
    BY <1>3, <2>1, <2>2 DEF CancelWaits
<1>8. CASE AbortWorker \/ HearClose \/ HangsUp
  BY <1>8 DEF AbortWorker, HearClose, HangsUp, CancelsUnderway
<1>9. CASE ClearTransfers \/ Faults \/ ApplyEvent
  <2>1. UNCHANGED <<kind, clicked, phase, flag, worker, cmds>>
    BY <1>9 DEF ClearTransfers, Faults, ConnectionLost, DiskFills, ApplyEvent, uiVars, taskVars
  <2>2. QED
    BY <1>3, <2>1 DEF CancelWaits
<1>10. CASE StartJob
  <2>1. /\ UNCHANGED <<kind, clicked, flag>> /\ worker = "serving" /\ Head(cmds).op = "run"
        /\ cmds' = Tail(cmds) /\ cmds # <<>>
    BY <1>10 DEF StartJob, Takes, uiVars
  <2>2. \A id : CancelWaits(id) => CancelWaits(id)'
    BY <2>1, TailKeepsCancels DEF JobInv
  <2>3. \A i \in Jobs : phase[i] \in Over => phase'[i] \in Over
    <3>1. Head(cmds).job \in Jobs
      BY <1>10, HeadCommand DEF StartJob, JobInv
    <3>2. phase[Head(cmds).job] = "sent"
      <4>1. cmds \in Seq(Command)
        BY DEF JobInv, TypeOK
      <4>2. 1 \in DOMAIN cmds /\ cmds[1] = Head(cmds)
        BY <2>1, <4>1, TailIs
      <4>3. QED
        BY <2>1, <4>2 DEF JobInv, AskedOnce
    <3>3. phase' = [phase EXCEPT ![Head(cmds).job] = "preparing"]
      BY <1>10 DEF StartJob
    <3>4. QED
      BY <3>1, <3>2, <3>3 DEF JobInv, TypeOK, Over
  <2>4. \A id \in clicked : Late(id) => Late(id)'
    BY <1>1, <2>1, <2>3
  <2>5. QED
    BY <1>3, <2>1, <2>2, <2>4
<1>11. ASSUME NEW j \in Jobs, JobStep(j) PROVE CancelsUnderway'
  <2>1. UNCHANGED <<kind, clicked, flag, cmds>>
    BY <1>11, JobLeaves DEF uiVars
  <2>2. worker' \in {"serving", "opening"} => worker \in {"serving", "opening"}
    BY <1>11 DEF JobStep, PacksArchive, Opens, FailsToOpen, FindsEmptyFolder, FolderEnds,
       Completes, Interrupted, DropsFile, DiskStops, SweepsFolder, CleansArchive, Ends,
       Continues
  <2>3. \A i \in Jobs : phase[i] \in Over => phase'[i] \in Over
    BY <1>11, JobMoves DEF JobInv, TypeOK, Running, Over
  <2>4. \A id \in clicked : Late(id) => Late(id)'
    BY <1>1, <2>1, <2>3
  <2>5. QED
    BY <1>3, <2>1, <2>2, <2>4 DEF CancelWaits
<1>12. QED
  BY <1>4, <1>5, <1>6, <1>7, <1>8, <1>9, <1>10, <1>11, HearKeepsCancels
     DEF Next, UserStep, CloseStep, LoopStep

-----------------------------------------------------------------------------
(* The whole.                                                              *)

LEMMA RowInvKept ==
  ASSUME JobInv, RowInv, Next
  PROVE  RowInv'
<1> DEFINE Rows == LastWord /\ SaidWhole /\ SpokenOfStarted /\ SinglesHeard
<1>1. CancelsUnderway'
  BY CancelsKept
<1>2. Rows'
  <2>1. CASE ClearTransfers
    BY <2>1, ClearKeepsRows
  <2>2. CASE CloseFiles
    BY <2>2, CloseKeepsRows
  <2>3. CASE ApplyEvent
    BY <2>3, ApplyKeepsRows
  <2>4. CASE \E j \in Jobs : JobStep(j)
    BY <2>4, JobKeepsRows
  <2>5. CASE \/ \E j \in Jobs : Request(j)
             \/ \E id \in Ids : CancelTransfer(id)
             \/ AbortTasks \/ AbortWorker \/ Faults \/ LoopStep
    <3>1. UNCHANGED <<kind, part, file, outcome, uiQ, rows, connected>>
      BY <2>5 DEF Request, CancelTransfer, AbortTasks, AbortWorker, Faults, ConnectionLost,
         DiskFills, LoopStep, StartJob, HearCancel, HearClose, HangsUp, taskVars, uiVars
    <3>2. \A id \in clicked' : id \in clicked \/ rows[id] \in Active
      BY <2>5 DEF Request, CancelTransfer, AbortTasks, AbortWorker, Faults, ConnectionLost,
         DiskFills, LoopStep, StartJob, HearCancel, HearClose, HangsUp, taskVars, uiVars
    <3>3. \A j \in Jobs :
            \/ phase'[j] = phase[j]
            \/ phase[j] \in NotYet /\ phase'[j] \in {"sent", "preparing"}
            \/ phase[j] \in Running /\ phase'[j] = "aborted"
      <4>1. CASE StartJob
        <5>1. Head(cmds).job \in Jobs /\ Head(cmds).op = "run" /\ cmds # <<>>
          BY <4>1, HeadCommand DEF StartJob, JobInv, Takes
        <5>2. cmds \in Seq(Command)
          BY DEF JobInv, TypeOK
        <5>3. 1 \in DOMAIN cmds /\ cmds[1] = Head(cmds)
          BY <5>1, <5>2, TailIs
        <5>4. phase[Head(cmds).job] = "sent"
          BY <5>1, <5>3 DEF JobInv, AskedOnce
        <5>5. QED
          BY <4>1, <5>1, <5>4 DEF StartJob, JobInv, TypeOK, NotYet
      <4>2. CASE \E j \in Jobs : Request(j)
        BY <4>2 DEF Request, JobInv, TypeOK, NotYet
      <4>3. CASE AbortTasks \/ AbortWorker
        BY <4>3 DEF AbortTasks, AbortWorker, Spawned, JobInv, TypeOK
      <4>4. CASE UNCHANGED phase
        BY <4>4
      <4>5. QED
        BY <2>5, <4>1, <4>2, <4>3, <4>4 DEF CancelTransfer, Faults, ConnectionLost, DiskFills,
           LoopStep, HearCancel, HearClose, HangsUp, taskVars
    <3>4. \A j \in Jobs : SaidAll(j)' => SaidAll(j)
      BY <3>1, <3>3 DEF SaidAll
    <3>5. \A j \in Jobs : phase[j] \notin NotYet => phase'[j] \notin NotYet
      BY <3>3 DEF NotYet
    <3>6. \A id \in Ids : Past(id) => Past(id)'
      <4>1. \A id \in Ids : JobOf(id) \in Jobs
        BY IdsAre
      <4>2. QED
        BY <3>1, <3>3, <4>1 DEF Past, Over, NotYet, IsFolder
    <3>7. QED
      BY <3>1, <3>2, <3>4, <3>5, <3>6, QuietKeepsRows DEF JobInv
  <2>6. QED
    BY <2>1, <2>2, <2>3, <2>4, <2>5 DEF Next, UserStep, CloseStep
<1>3. QED
  BY <1>1, <1>2 DEF RowInv

LEMMA InitHolds == Init => IInv
<1> SUFFICES ASSUME Init PROVE IInv
  OBVIOUS
<1>1. TypeOK
  BY InitTypes
<1>2. AskedOnce /\ CancelsUnderway
  BY DEF Init, AskedOnce, CancelsUnderway
<1>3. Walk
  BY DEF Init, Walk, WalkOf, Running
<1>4. Remains
  BY IdsAre DEF Init, Remains, FileRemains, TempRemains
<1>5. \A id : ~Waits(id)
  BY DEF Init, Waits
<1>6. LastWord /\ SaidWhole /\ SpokenOfStarted
  BY <1>5 DEF Init, LastWord, SaidWhole, SpokenOfStarted, Spoken, Final
<1>7. SinglesHeard
  BY DEF Init, SinglesHeard, SaidAll
<1>8. QED
  BY <1>1, <1>2, <1>3, <1>4, <1>6, <1>7 DEF IInv, JobInv, RowInv

LEMMA StepHolds ==
  ASSUME IInv, [Next]_vars
  PROVE  IInv'
<1>1. CASE Next
  BY <1>1, JobInvKept, RowInvKept DEF IInv
<1>2. CASE UNCHANGED vars
  <2>1. JobInv'
    BY <1>2 DEF IInv, JobInv, TypeOK, AskedOnce, Walk, WalkOf, Remains, FileRemains, TempRemains,
       IsFolder, Excused, Remote, Cur, vars, taskVars, closeVars, uiVars
  <2>2. LastWord'
    BY <1>2 DEF IInv, RowInv, LastWord, Past, Waits, IsFolder, vars, taskVars, closeVars, uiVars
  <2>3. (SaidWhole /\ SpokenOfStarted)'
    BY <1>2 DEF IInv, RowInv, SaidWhole, SpokenOfStarted, Spoken, Waits, IsFolder, Id, vars,
       taskVars, closeVars, uiVars
  <2>4. (SinglesHeard /\ CancelsUnderway)'
    BY <1>2 DEF IInv, RowInv, SinglesHeard, SaidAll, LastSaid, Waits, Id, CancelsUnderway, vars,
       taskVars, closeVars, uiVars
  <2>5. QED
    BY <2>1, <2>2, <2>3, <2>4 DEF IInv, RowInv
<1>3. QED
  BY <1>1, <1>2

(* The invariant of the jobs and of the rows holds in every state.         *)
THEOREM Invariance == Spec => []IInv
<1>1. Init => IInv
  BY InitHolds
<1>2. IInv /\ [Next]_vars => IInv'
  BY StepHolds
<1>3. QED
  BY <1>1, <1>2, PTL DEF Spec

(* What has ended, well or not, has asked for the removal of its partial
   file and of its archive, and what was cancelled for that of all it wrote:
   in every phase the one partial file is the current one, which every end
   but that of a full disk drops.                                          *)
THEOREM EndsClean == Spec => []EndsAreClean
<1>1. IInv => EndsAreClean
  <2> SUFFICES ASSUME IInv PROVE EndsAreClean
    OBVIOUS
  <2>1. TypeOK /\ Remains
    BY DEF IInv, JobInv
  <2>2. \A id \in Ids : JobOf(id) \in Jobs /\ id[2] \in 0 .. Parts /\ id = <<JobOf(id), id[2]>>
    BY IdsAre
  <2>3. \A j \in Jobs, id \in Ids : JobOf(id) = j => id[2] \in 0 .. Parts /\ id = <<j, id[2]>>
    BY <2>2
  <2>4. NoJunk
    <3>1. ASSUME NEW j \in Jobs, phase[j] = "ended", NEW id \in Ids, JobOf(id) = j,
                 file[id] = "partial"
          PROVE  Excused(j)
      <4>1. id[2] \in 0 .. Parts /\ id = <<j, id[2]>>
        BY <2>3, <3>1
      <4>2. file[<<j, id[2]>>] = "partial" /\ FileRemains(j, id[2])
        BY <2>1, <3>1, <4>1 DEF Remains
      <4>3. QED
        BY <3>1, <4>2 DEF FileRemains
    <3>2. \A j \in Jobs : phase[j] = "ended" => temp[j] # "there"
      BY <2>1 DEF Remains, TempRemains
    <3>3. QED
      BY <3>1, <3>2 DEF NoJunk
  <2>5. CancelTakesAll
    <3>1. ASSUME NEW j \in Jobs, phase[j] = "ended", outcome[j] = "cancelled",
                 NEW id \in Ids, JobOf(id) = j
          PROVE  file[id] \in {"none", "left"}
      <4>1. id[2] \in 0 .. Parts /\ id = <<j, id[2]>>
        BY <2>3, <3>1
      <4>2. file[<<j, id[2]>>] = file[id] /\ FileRemains(j, id[2])
        BY <2>1, <4>1 DEF Remains
      <4>3. QED
        BY <3>1, <4>2 DEF FileRemains
    <3>2. QED
      BY <3>1 DEF CancelTakesAll
  <2>6. QED
    BY <2>1, <2>4, <2>5 DEF EndsAreClean
<1>2. QED
  BY <1>1, Invariance, PTL

(* A row says done only of a whole file, until its folder is cancelled: it
   was whole when that was said, and nothing else opens or drops it.       *)
THEOREM DoneRowsAreWhole == Spec => []DoneIsWhole
<1>1. IInv => DoneIsWhole
  BY DEF IInv, RowInv, SaidWhole, DoneIsWhole
<1>2. QED
  BY <1>1, Invariance, PTL

(* When a single transfer is over and all was heard, its row is not active:
   its last word was said before it ended, and no word follows the last.   *)
THEOREM SinglesSettle == Spec => []RowsSettle
<1>1. IInv => RowsSettle
  <2> SUFFICES ASSUME IInv, NEW j \in Jobs, phase[j] = "ended", kind[j] \in Singles,
                      uiQ = <<>>, connected
               PROVE  rows[Id(j)] \notin Active
    BY DEF RowsSettle
  <2>1. LastSaid(Id(j))
    BY DEF IInv, RowInv, SinglesHeard, SaidAll
  <2>2. QED
    BY <2>1 DEF LastSaid
<1>2. QED
  BY <1>1, Invariance, PTL

(* When the worker has heard all that was said to it, a cancelled single
   transfer is over or its flag is set: it is registered before it runs.   *)
THEOREM CancelsAreHeard == Spec => []CancelIsHeard
<1>1. IInv => CancelIsHeard
  BY DEF IInv, RowInv, CancelsUnderway, CancelIsHeard
<1>2. QED
  BY <1>1, Invariance, PTL

(* A row that has ended is cleared or stays as it is.                      *)
THEOREM LastWordsStay == Spec => FinalStays
<1>1. IInv /\ [Next]_vars =>
        [\A id \in Ids : rows[id] \in Final => rows'[id] \in {rows[id], "none"}]_vars
  <2> SUFFICES ASSUME IInv, Next, NEW id \in Ids, rows[id] \in Final
               PROVE  rows'[id] \in {rows[id], "none"}
    OBVIOUS
  <2>1. CASE ClearTransfers
    BY <2>1 DEF ClearTransfers
  <2>2. CASE ApplyEvent
    <3>1. TypeOK /\ uiQ # <<>>
      BY <2>2 DEF IInv, JobInv, ApplyEvent
    <3>2. 1 \in DOMAIN uiQ /\ uiQ[1] = Head(uiQ)
      BY <3>1, TailIs DEF TypeOK
    <3>3. ~About(Head(uiQ), id)
      BY <3>2 DEF IInv, RowInv, LastWord, Waits
    <3>4. QED
      BY <2>2, <3>1, <3>3, HeadEvent DEF ApplyEvent, RowsAfter, About, TypeOK
  <2>3. CASE UNCHANGED rows
    BY <2>3
  <2>4. QED
    BY <2>1, <2>2, <2>3, JobLeaves
       DEF Next, UserStep, CloseStep, Faults, LoopStep, Request, CancelTransfer, CloseFiles,
           AbortTasks, AbortWorker, ConnectionLost, DiskFills, StartJob, HearCancel, HearClose,
           HangsUp, uiVars
<1>2. QED
  BY <1>1, Invariance, PTL DEF Spec, FinalStays
=============================================================================
