---------------------------- MODULE ConfigStore -----------------------------
(***************************************************************************)
(* The session store: ConfigStore of src/config.rs with the handlers of    *)
(* src/app.rs that change it, the files sessions.json and secret.key, and  *)
(* what happens to them when the program ends anywhere, a write fails or   *)
(* the user touches the files.                                             *)
(***************************************************************************)
EXTENDS ConfigFile

CONSTANTS Name, Host, User,   \* of sessions; user 0 is blank, 1 is root
          Text,               \* passwords
          GroupName,          \* group names that can be typed
          Command,            \* commands of the history
          SshHost, Pasted,    \* what ~/.ssh/config and a pasted list hold
          Path,               \* quick directories
          Starter,            \* the starter quick commands
          Legacy,             \* sessions.json of older versions
          Export,             \* exported files
          MaxEdits, MaxStarts, \* bounds: changes of the user, starts of the program
          Unknown, Closed

ASSUME ConfigStoreAssumption == MaxEdits \in Nat /\ MaxStarts \in Nat /\ GroupName \subseteq Nat

(* Ids are unique names; files come with ids of their own, below the first one that
   is made here. *)
FirstId == 10

(* What files and lists from elsewhere hold: those of older versions lists that are
   clean but for commands repeated in the history, exported ones passwords that are
   sealed once besides for the export, pasted ones plain passwords. *)
ASSUME FilesAssumption ==
  /\ \A cfg \in Legacy :
       /\ IsConfig(cfg) /\ cfg.rev \in 0..DefaultsRev
       /\ SessionList(cfg.sessions, FirstId)
       /\ cfg.groups \in Seq(Nat) /\ cfg.quickGroups \in Seq(Nat)
       /\ IsSeq(cfg.history) /\ IsSeq(cfg.dirs) /\ Clean([cfg EXCEPT !.history = DedupKeepLast(@)])
  /\ \A file \in Export :
       IsSeq(file) /\ \A i \in DOMAIN file :
         IsSession(file[i]) /\ Sound(Decrypted(file[i].secret, ExportKey))
  /\ IsSeq(SshHost)
  /\ IsSeq(Pasted) /\ \A i \in DOMAIN Pasted : IsSession(Pasted[i]) /\ Sound(Pasted[i].secret)

VARIABLES
  up,        \* the program: off, idle, or at a step of save
  cache, key,            \* ConfigStore
  disk, keyFile,         \* sessions.json, secret.key (0: none)
  lastKey,   \* keys made so far, one by an earlier start
  dialog,    \* the session dialog
  form,      \* the quick command form in edit mode
  asked,     \* a session whose login waits for its missing password
  edits, starts, nextId, nextNo,
  saved      \* the cache and key of the last finished save (ghost)

uiVars == <<dialog, form, asked>>
diskVars == <<disk, keyFile, lastKey, key, saved>>
vars == <<up, cache, diskVars, uiVars, edits, starts, nextId, nextNo>>

(* sessions.json *)
Missing == [is |-> "missing"]
Garbage == [is |-> "garbage"]
Holding(cfg) == [is |-> "config", cfg |-> cfg]

(* "no" numbers the quick commands, which are told apart by what they say. *)
Init ==
  /\ up = "off" /\ cache = FreshConfig(Starter) /\ key = 0
  /\ disk \in {Missing, Garbage} \cup {Holding(cfg) : cfg \in Legacy}
  /\ lastKey = 1 /\ keyFile \in 0..1
  /\ dialog = Closed /\ form = Closed /\ asked = Closed
  /\ edits = 0 /\ starts = 0 /\ nextId = FirstId /\ nextNo = 10
  /\ saved = Unknown

-----------------------------------------------------------------------------
(* The files *)

(* Start: the key is read or made anew, then the configuration is read, and
   rewritten when its defaults were migrated.  A file that cannot be parsed is
   renamed, if that works, and the program starts afresh.  When a file cannot be
   read at all the program does not start, and leaves what Load and then Stop leave:
   at most a new key. *)
LoadKey ==
  IF keyFile # 0 THEN key' = keyFile /\ UNCHANGED <<keyFile, lastKey>>
  ELSE key' = lastKey + 1 /\ keyFile' = key' /\ lastKey' = key'

Loaded(file, k) ==
  MigrateDefaults([file EXCEPT !.sessions = WithSecrets(@, LAMBDA s : Decrypted(s, k)),
                               !.history = DedupKeepLast(@)], Starter)

Load ==
  /\ up = "off" /\ starts < MaxStarts
  /\ LoadKey
  /\ \/ /\ disk.is # "config"
        /\ cache' = FreshConfig(Starter) /\ up' = "idle"
        /\ \/ disk' = Missing
           \/ UNCHANGED disk
     \/ /\ disk.is = "config"
        /\ cache' = Loaded(disk.cfg, key')
        /\ up' = IF disk.cfg.rev < DefaultsRev THEN "write" ELSE "idle"
        /\ UNCHANGED disk
  /\ starts' = starts + 1
  /\ UNCHANGED <<uiVars, edits, nextId, nextNo, saved>>

OnDisk(cfg, k) == [cfg EXCEPT !.sessions = WithSecrets(@, LAMBDA s : SealedBy(s, k))]

(* save: a temporary file that nothing reads, then a rename.  Either may fail, and
   the handlers ignore it.  Mutant: the file is written in place. *)
WriteTmp_InPlace ==
  /\ up = "write"
  /\ disk' = Garbage /\ up' = "rename"
  /\ UNCHANGED <<cache, key, keyFile, lastKey, uiVars, edits, starts, nextId, nextNo, saved>>
WriteTmp ==
  /\ up = "write" /\ up' \in {"rename", "idle"}
  /\ UNCHANGED <<cache, diskVars, uiVars, edits, starts, nextId, nextNo>>

Rename ==
  /\ up = "rename" /\ up' = "idle"
  /\ \/ disk' = Holding(OnDisk(cache, key)) /\ saved' = [cfg |-> cache, key |-> key]
     \/ UNCHANGED <<disk, saved>>
  /\ UNCHANGED <<cache, key, keyFile, lastKey, uiVars, edits, starts, nextId, nextNo>>

(* The program ends, at any step, and its memory with it. *)
Stop ==
  /\ up # "off" /\ up' = "off"
  /\ cache' = FreshConfig(Starter) /\ key' = 0
  /\ dialog' = Closed /\ form' = Closed /\ asked' = Closed
  /\ UNCHANGED <<disk, keyFile, lastKey, saved, edits, starts, nextId, nextNo>>

(* The user's hands on the files while the program is off: secret.key is lost or
   damaged, an old one is put back, sessions.json is damaged. *)
TouchFiles ==
  /\ up = "off"
  /\ \/ /\ keyFile' \in 0..lastKey /\ keyFile' # keyFile
        /\ UNCHANGED <<disk, saved>>
     \/ disk # Garbage /\ disk' = Garbage /\ saved' = Unknown /\ UNCHANGED keyFile
  /\ UNCHANGED <<up, cache, key, lastKey, uiVars, edits, starts, nextId, nextNo>>

-----------------------------------------------------------------------------
(* Handlers.  All run on the UI thread; most change the cache and save. *)
Handler == up = "idle" /\ edits < MaxEdits /\ edits' = edits + 1

Commit(cfg) ==
  /\ cache' = cfg /\ up' = "write"
  /\ UNCHANGED <<diskVars, starts>>

(* The dialog and the form cover the window; in the form's list commands can
   still be deleted, copied and moved. *)
NoModal == dialog = Closed /\ form = Closed

(* The dialog for a new session, or filled from one, its password left blank. *)
NewSession ==
  /\ Handler /\ NoModal
  /\ dialog' = nextId /\ nextId' = nextId + 1
  /\ UNCHANGED <<up, cache, diskVars, form, asked, starts, nextNo>>
EditSession(id) ==
  /\ Handler /\ NoModal
  /\ dialog' = id
  /\ UNCHANGED <<up, cache, diskVars, form, asked, starts, nextId, nextNo>>
DialogSubmit ==
  /\ up = "idle" /\ dialog # Closed
  /\ \E name \in Name, host \in Host, user \in User, auth \in {"password", "key"}, typed \in Text \cup {""},
        group \in {NoName} \cup {cache.groups[i] : i \in DOMAIN cache.groups} :
       Commit([cache EXCEPT !.sessions = Upsert(@,
         [id |-> dialog, name |-> name, host |-> host, user |-> user, auth |-> auth, group |-> group,
          secret |-> SavedPassword(@, dialog, auth, typed)])])
  /\ dialog' = Closed
  /\ UNCHANGED <<form, asked, edits, nextId, nextNo>>
DialogCancel ==
  /\ up = "idle" /\ dialog # Closed /\ dialog' = Closed
  /\ UNCHANGED <<up, cache, diskVars, form, asked, edits, starts, nextId, nextNo>>

RemoveSession(id) ==
  /\ Handler
  /\ Commit([cache EXCEPT !.sessions = RemoveId(@, id)])
  /\ UNCHANGED <<uiVars, nextId, nextNo>>
DuplicateSession(id) ==
  /\ Handler
  /\ Commit([cache EXCEPT !.sessions = Upsert(@, [Get(@, id) EXCEPT !.id = nextId, !.name = "copy"])])
  /\ nextId' = nextId + 1
  /\ UNCHANGED <<uiVars, nextNo>>
MoveSession(id, group) ==
  /\ Handler
  /\ Commit([cache EXCEPT !.sessions = Upsert(@, [Get(@, id) EXCEPT !.group = group])])
  /\ UNCHANGED <<uiVars, nextId, nextNo>>

SubmitGroup ==
  /\ Handler
  /\ \E n \in GroupName :
       \/ Commit([cache EXCEPT !.groups = AddName(@, n)])
       \/ \E old \in {cache.groups[i] : i \in DOMAIN cache.groups} : Commit(RenameGroup(cache, old, n))
  /\ UNCHANGED <<uiVars, nextId, nextNo>>
(* Offered on empty groups only. *)
DeleteGroup ==
  /\ Handler
  /\ \E n \in {cache.groups[i] : i \in DOMAIN cache.groups} :
       /\ \A i \in DOMAIN cache.sessions : cache.sessions[i].group # n
       /\ Commit(RemoveGroup(cache, n))
  /\ UNCHANGED <<uiVars, nextId, nextNo>>

(* Imports save only when something was added. *)
Import(entries) ==
  LET sessions == Imported(cache.sessions, entries, nextId) IN
  /\ Handler
  /\ cache' = [cache EXCEPT !.sessions = sessions]
  /\ up' = IF sessions = cache.sessions THEN "idle" ELSE "write"
  /\ nextId' = nextId + Len(sessions) - Len(cache.sessions)
  /\ UNCHANGED <<diskVars, starts, uiVars, nextNo>>

Root == 1
(* ~/.ssh/config: stored as root when no user is given, but compared as written,
   by alias too. *)
SshConfigEntry(h) ==
  [user |-> h.user, byName |-> TRUE,
   new |-> [id |-> 0, name |-> h.alias, host |-> h.host,
            user |-> IF h.user = NoName THEN Root ELSE h.user,
            auth |-> IF h.key THEN "key" ELSE "password", group |-> NoName, secret |-> NoSecret]]
ImportSshConfig == Import([i \in DOMAIN SshHost |-> SshConfigEntry(SshHost[i])])
Entries(file) == [i \in DOMAIN file |-> Entry(file[i])]
BatchImport == Import(Entries(Pasted))
ImportSessions ==
  \E file \in Export : Import(Entries(WithSecrets(file, LAMBDA s : Opened(s, key))))

(* A login misses its password; the answer is remembered later, on whatever the
   session has become (persist_credentials). *)
AskPassword(id) ==
  /\ up = "idle" /\ asked = Closed
  /\ Get(cache.sessions, id).auth = "password" /\ Get(cache.sessions, id).secret.value = ""
  /\ asked' = id
  /\ UNCHANGED <<up, cache, diskVars, dialog, form, edits, starts, nextId, nextNo>>
RememberPassword ==
  /\ Handler /\ asked # Closed
  /\ IF asked \in Ids(cache.sessions)
     THEN \E typed \in Text :
            Commit([cache EXCEPT !.sessions = Upsert(@,
              [Get(@, asked) EXCEPT !.secret = [value |-> typed, layers |-> <<>>]])])
     ELSE UNCHANGED <<up, cache, diskVars, starts>>
  /\ asked' = Closed
  /\ UNCHANGED <<dialog, form, nextId, nextNo>>

(* Quick commands, addressed by index. *)
Quick == DOMAIN cache.quick
AddQuickCommand ==
  /\ Handler
  /\ \E g \in {NoName} \cup GroupName :
       Commit([cache EXCEPT !.quick = Append(@, [no |-> nextNo, group |-> g])])
  /\ nextNo' = nextNo + 1
  /\ UNCHANGED <<uiVars, nextId>>
DeleteQuickCommand(i) ==
  /\ Handler
  /\ Commit([cache EXCEPT !.quick = RemoveAt(@, i)])
  /\ UNCHANGED <<uiVars, nextId, nextNo>>
DuplicateQuickCommand(i) ==
  /\ Handler
  /\ Commit([cache EXCEPT !.quick = InsertAt(@, i + 1, [@[i] EXCEPT !.no = nextNo])])
  /\ nextNo' = nextNo + 1
  /\ UNCHANGED <<uiVars, nextId>>
MoveQuickCommand(i, group) ==
  /\ Handler
  /\ Commit([cache EXCEPT !.quick = [@ EXCEPT ![i].group = group]])
  /\ UNCHANGED <<uiVars, nextId, nextNo>>
EditQuickCommand(i) ==
  /\ Handler /\ dialog = Closed
  /\ form' = i
  /\ UNCHANGED <<up, cache, diskVars, starts, dialog, asked, nextId, nextNo>>
SaveQuickCommand ==
  /\ up = "idle" /\ form # Closed
  /\ \E g \in {NoName} \cup GroupName :
       Commit(IF form \in Quick THEN [cache EXCEPT !.quick = [@ EXCEPT ![form].group = g]] ELSE cache)
  /\ form' = Closed
  /\ UNCHANGED <<dialog, asked, edits, nextId, nextNo>>
CloseForm ==
  /\ form # Closed /\ form' = Closed
  /\ UNCHANGED <<up, cache, diskVars, starts, dialog, asked, edits, nextId, nextNo>>
SubmitQuickGroup ==
  /\ Handler
  /\ \E n \in GroupName :
       \/ Commit([cache EXCEPT !.quickGroups = AddName(@, n)])
       \/ \E i \in DOMAIN cache.quickGroups :
            Commit(RenameQuickGroup(cache, cache.quickGroups[i], n))
  /\ UNCHANGED <<uiVars, nextId, nextNo>>
DeleteQuickGroup ==
  /\ Handler
  /\ \E n \in {cache.quickGroups[i] : i \in DOMAIN cache.quickGroups} :
       /\ \A i \in Quick : cache.quick[i].group # n
       /\ Commit(RemoveQuickGroup(cache, n))
  /\ UNCHANGED <<uiVars, nextId, nextNo>>

(* History: a command was run, here or in a shell; an entry is deleted. *)
RunCommand ==
  /\ Handler
  /\ \E c \in Command : Commit([cache EXCEPT !.history = PushHistory(@, c)])
  /\ UNCHANGED <<uiVars, nextId, nextNo>>
DeleteHistory ==
  /\ Handler
  /\ \E i \in DOMAIN cache.history :
       Commit([cache EXCEPT !.history = RemoveAt(@, i)])
  /\ UNCHANGED <<uiVars, nextId, nextNo>>
(* A quick directory is written to its place, unless it is in another already; an
   empty one is taken out. *)
SaveQuickDir(i, path) ==
  LET size == IF Len(cache.dirs) < i THEN i ELSE Len(cache.dirs)
      padded == [j \in 1..size |-> IF j \in DOMAIN cache.dirs THEN cache.dirs[j] ELSE NoName]
  IN /\ Handler
     /\ IF path # NoName /\ \E j \in DOMAIN padded : j # i /\ padded[j] = path
        THEN UNCHANGED <<up, cache, diskVars, starts>>
        ELSE Commit([cache EXCEPT !.dirs = QuickDirs([padded EXCEPT ![i] = path])])
     /\ UNCHANGED <<uiVars, nextId, nextNo>>
SetSidebar ==
  /\ Handler
  /\ \E v \in {"on", "off"} : Commit([cache EXCEPT !.sidebar = v])
  /\ UNCHANGED <<uiVars, nextId, nextNo>>

-----------------------------------------------------------------------------
OnSession(id) ==
  \/ EditSession(id) \/ RemoveSession(id) \/ DuplicateSession(id) \/ AskPassword(id)
  \/ \E g \in {NoName} \cup {cache.groups[i] : i \in DOMAIN cache.groups} : MoveSession(id, g)
OnQuick(i) ==
  \/ DeleteQuickCommand(i) \/ DuplicateQuickCommand(i) \/ EditQuickCommand(i)
  \/ \E g \in {NoName} \cup {cache.quickGroups[j] : j \in DOMAIN cache.quickGroups} :
       MoveQuickCommand(i, g)

Next ==
  \/ Load \/ WriteTmp \/ Rename \/ Stop \/ TouchFiles
  \/ NewSession \/ DialogSubmit \/ DialogCancel \/ RememberPassword
  \/ \E id \in Ids(cache.sessions) : OnSession(id)
  \/ SubmitGroup \/ DeleteGroup
  \/ ImportSshConfig \/ BatchImport \/ ImportSessions
  \/ AddQuickCommand \/ SaveQuickCommand \/ CloseForm \/ SubmitQuickGroup \/ DeleteQuickGroup
  \/ \E i \in Quick : OnQuick(i)
  \/ RunCommand \/ DeleteHistory \/ SetSidebar
  \/ \E i \in 1..DirCap, path \in {NoName} \cup Path : SaveQuickDir(i, path)

Spec == Init /\ [][Next]_vars

-----------------------------------------------------------------------------
(* The program's steps have their types and the lists of the store are clean:
   ids, groups, history and directories without repetition and within their
   caps, whatever was edited, renamed, imported or read from an older file. *)
TypeOK ==
  /\ up \in {"off", "idle", "write", "rename"}
  /\ edits \in 0..MaxEdits /\ starts \in 0..MaxStarts
  /\ keyFile \in 0..lastKey /\ key \in 0..lastKey
  /\ up # "off" => Clean(cache)

(* A password carries one layer of encryption at most, in memory and on disk, so
   the key it was sealed with opens it: it survives starts with another key and
   the saves, exports and imports made meanwhile. *)
SealedOnce ==
  /\ \A i \in DOMAIN cache.sessions : Len(cache.sessions[i].secret.layers) <= 1
  /\ disk.is = "config" =>
       \A i \in DOMAIN disk.cfg.sessions : Len(disk.cfg.sessions[i].secret.layers) <= 1
StoreIsSound == TypeOK /\ SealedOnce

(* A start brings back the configuration of the last save that finished, wherever
   the program ended and whichever write failed since.  Passwords come back
   readable when the key is the one of that save, and may be sealed otherwise. *)
Locked(cfg) == [cfg EXCEPT !.sessions = WithSecrets(@, LAMBDA s : [s EXCEPT !.layers = <<>>])]
Readable(cfg, k) == [cfg EXCEPT !.sessions = WithSecrets(@, LAMBDA s : Decrypted(s, k))]
RestartRestoresTheSaved ==
  [][Load /\ saved # Unknown =>
       /\ Locked(cache') = Locked(saved.cfg)
       /\ key' = saved.key => cache' = Readable(saved.cfg, key')]_vars
=============================================================================
