----------------------------- MODULE ConfigFile -----------------------------
(***************************************************************************)
(* What sessions.json holds and the operations of ConfigStore on it        *)
(* (src/config.rs), as functions from configurations to configurations.    *)
(* Sessions, groups, quick commands and history are sequences, as the Vec  *)
(* they are; texts are members of small sets of numbers or strings.        *)
(***************************************************************************)
EXTENDS Naturals, Sequences, FiniteSets, SequencesExt

CONSTANTS HistoryCap,   \* commands kept in the history (200 in the code)
          DirCap        \* quick directories kept (5 in the code)

ASSUME ConfigFileAssumption == HistoryCap \in Nat \ {0} /\ DirCap \in Nat \ {0}

NoName == 0             \* the empty name: ungrouped
Default == 1            \* "default", however it is spelled
DefaultsRev == 2
NoSecret == [value |-> "", layers |-> <<>>]

(* The p-th smallest of a set of numbers, the set as a sorted list, and the elements
   of s at the positions in K, in order. *)
Nth(K, p) == CHOOSE i \in K : Cardinality({j \in K : j <= i}) = p
Sorted(K) == [p \in 1..Cardinality(K) |-> Nth(K, p)]
At(s, K) == [p \in 1..Cardinality(K) |-> s[Nth(K, p)]]
Without(s, x) == At(s, {i \in DOMAIN s : s[i] # x})
Unique(s) == \A i, j \in DOMAIN s : s[i] = s[j] => i = j

-----------------------------------------------------------------------------
(* Secrets: the keys a password is encrypted with, outermost last.  Key 0 is
   the one of exported files, the others are keys of a secret.key. *)
ExportKey == 0

Decrypted(secret, k) ==
  IF secret.layers # <<>> /\ Last(secret.layers) = k
  THEN [secret EXCEPT !.layers = Front(@)] ELSE secret

Encrypted(secret, k) ==
  IF secret.value = "" THEN secret ELSE [secret EXCEPT !.layers = Append(@, k)]

(* A password that already carries the local prefix is left alone by a save.
   Mutant: it is encrypted again. *)
SealedBy_Twice(secret, k) == Encrypted(secret, k)
SealedBy(secret, k) ==
  IF secret.layers # <<>> /\ Last(secret.layers) # ExportKey THEN secret ELSE Encrypted(secret, k)

WithSecrets(sessions, Op(_)) ==
  [i \in DOMAIN sessions |-> [sessions[i] EXCEPT !.secret = Op(@)]]

(* export_to, and what import_from makes of a password: one of an exported file,
   one sealed with the local key, or a plain one. *)
Exported(sessions) == WithSecrets(sessions, LAMBDA s : Encrypted(s, ExportKey))
Opened(secret, k) ==
  LET plain == Decrypted(secret, ExportKey) IN IF plain # secret THEN plain ELSE Decrypted(secret, k)

-----------------------------------------------------------------------------
(* Sessions *)
Ids(sessions) == {sessions[i].id : i \in DOMAIN sessions}
Get(sessions, id) == sessions[CHOOSE i \in DOMAIN sessions : sessions[i].id = id]

Upsert(sessions, s) ==
  IF s.id \in Ids(sessions)
  THEN [i \in DOMAIN sessions |-> IF sessions[i].id = s.id THEN s ELSE sessions[i]]
  ELSE Append(sessions, s)

RemoveId(sessions, id) == At(sessions, {i \in DOMAIN sessions : sessions[i].id # id})

(* An entry of a file to import: the session it makes, the user it is compared by
   and whether its name is compared too.  What is there already is skipped, the
   others get fresh ids. *)
Entry(s) == [new |-> s, user |-> s.user, byName |-> FALSE]
Known(x, e) ==
  \/ x.host = e.new.host /\ x.user = e.user
  \/ e.byName /\ x.name = e.new.name
Imported(sessions, entries, fresh) ==
  LET kept[i \in DOMAIN entries] ==
        /\ \A j \in DOMAIN sessions : ~Known(sessions[j], entries[i])
        /\ \A j \in 1..(i - 1) : kept[j] => ~Known(entries[j].new, entries[i])
      new == At(entries, {i \in DOMAIN entries : kept[i]})
  IN sessions \o [p \in DOMAIN new |-> [new[p].new EXCEPT !.id = fresh + p - 1]]

(* saved_session_password: an empty field keeps the password of a session whose
   authentication method stays. *)
SavedPassword(sessions, id, auth, typed) ==
  IF typed # "" THEN [value |-> typed, layers |-> <<>>]
  ELSE IF id \in Ids(sessions) /\ Get(sessions, id).auth = auth
       THEN Get(sessions, id).secret ELSE NoSecret

-----------------------------------------------------------------------------
(* Groups of sessions and of quick commands: a list of names, and members that
   carry the name of theirs. *)
AddName(names, n) ==
  IF n \in {NoName, Default} \cup {names[i] : i \in DOMAIN names} THEN names ELSE Append(names, n)

Regroup(members, old, new) ==
  [i \in DOMAIN members |-> IF members[i].group = old THEN [members[i] EXCEPT !.group = new]
                            ELSE members[i]]

Renamable(old, new) == new \notin {NoName, Default, old}

(* Renamed, sorted, without duplicates. *)
RenameName(names, old, new) ==
  IF ~Renamable(old, new) THEN names
  ELSE Sorted({IF names[i] = old THEN new ELSE names[i] : i \in DOMAIN names})

RenameGroup(cfg, old, new) ==
  [cfg EXCEPT !.groups = RenameName(@, old, new),
              !.sessions = IF Renamable(old, new) THEN Regroup(@, old, new) ELSE @]
RemoveGroup(cfg, n) ==
  [cfg EXCEPT !.groups = Without(@, n), !.sessions = Regroup(@, n, NoName)]

RenameQuickGroup(cfg, old, new) ==
  [cfg EXCEPT !.quickGroups = RenameName(@, old, new),
              !.quick = IF Renamable(old, new) THEN Regroup(@, old, new) ELSE @]
RemoveQuickGroup(cfg, n) ==
  [cfg EXCEPT !.quickGroups = Without(@, n), !.quick = Regroup(@, n, NoName)]

-----------------------------------------------------------------------------
(* History and quick directories *)
PushHistory(history, cmd) ==
  LET longer == Append(Without(history, cmd), cmd) IN
  SubSeq(longer, (IF Len(longer) > HistoryCap THEN Len(longer) - HistoryCap ELSE 0) + 1, Len(longer))

DedupKeepLast(history) ==
  At(history, {i \in DOMAIN history : \A j \in DOMAIN history : j > i => history[j] # history[i]})

QuickDirs(paths) ==
  LET first == {i \in DOMAIN paths : /\ paths[i] # NoName
                                     /\ \A j \in DOMAIN paths : j < i => paths[j] # paths[i]}
      kept == At(paths, first)
  IN SubSeq(kept, 1, IF Len(kept) < DirCap THEN Len(kept) ELSE DirCap)

-----------------------------------------------------------------------------
(* Defaults.  "sidebar" stands for the items of the layout that older versions
   left unset. *)
FreshConfig(starter) ==
  [sessions |-> <<>>, groups |-> <<>>, quick |-> starter, quickGroups |-> <<2>>,
   history |-> <<>>, dirs |-> <<>>, sidebar |-> "on", rev |-> DefaultsRev]

MigrateDefaults(cfg, starter) ==
  LET rev1 == IF cfg.rev < 1 /\ cfg.sidebar = "unset" THEN [cfg EXCEPT !.sidebar = "on"] ELSE cfg
      rev2 == IF cfg.rev < 2 /\ cfg.quick = <<>>
              THEN [rev1 EXCEPT !.quick = starter, !.quickGroups = AddName(@, 2)] ELSE rev1
  IN [rev2 EXCEPT !.rev = DefaultsRev]

(* What the file holds: records of these fields, passwords that are plain or sealed
   once with a local key, sessions with ids of their own. *)
IsSeq(s) == s \in Seq({s[i] : i \in DOMAIN s})
IsSecret(s) == s = [value |-> s.value, layers |-> s.layers]
IsSession(s) ==
  s = [id |-> s.id, name |-> s.name, host |-> s.host, user |-> s.user, auth |-> s.auth,
       group |-> s.group, secret |-> s.secret]
IsConfig(cfg) ==
  cfg = [sessions |-> cfg.sessions, groups |-> cfg.groups, quick |-> cfg.quick,
         quickGroups |-> cfg.quickGroups, history |-> cfg.history, dirs |-> cfg.dirs,
         sidebar |-> cfg.sidebar, rev |-> cfg.rev]
Sound(secret) ==
  /\ IsSecret(secret) /\ secret.layers \in Seq(Nat)
  /\ Len(secret.layers) <= 1 /\ (secret.layers # <<>> => Last(secret.layers) # ExportKey)
SessionBelow(s, fresh) == IsSession(s) /\ Sound(s.secret) /\ s.id \in Nat /\ s.id < fresh
SessionList(sessions, fresh) ==
  IsSeq(sessions) /\ \A i \in DOMAIN sessions : SessionBelow(sessions[i], fresh)

(* What the lists of a configuration must be. *)
Clean(cfg) ==
  /\ \A i, j \in DOMAIN cfg.sessions : cfg.sessions[i].id = cfg.sessions[j].id => i = j
  /\ \A names \in {cfg.groups, cfg.quickGroups} :
       Unique(names) /\ \A i \in DOMAIN names : names[i] \notin {NoName, Default}
  /\ Unique(cfg.history) /\ Len(cfg.history) <= HistoryCap
  /\ Unique(cfg.dirs) /\ Len(cfg.dirs) <= DirCap
=============================================================================
