------------------------------- MODULE DirTree ------------------------------
(***************************************************************************)
(* The directory tree left of the file list, which the file worker keeps   *)
(* (src/sftp.rs): the sub-directories it has listed, the nodes that are     *)
(* expanded, and the commands that read or change them, in the SFTP worker *)
(* and in the browser for servers without SFTP, which runs shell commands. *)
(* A worker handles one command at a time and sends the tree after each.   *)
(***************************************************************************)
EXTENDS Naturals, Sequences, FiniteSets

CONSTANTS Name,      \* names of directories
          Path,      \* directories there can be, each the sequence of its names
          Home,      \* the directory a session starts in
          MaxFails   \* bound: directories whose listing fails at a time

Root == <<>>
Upto(p, n) == SubSeq(p, 1, n)
Parent(p) == Upto(p, Len(p) - 1)

ASSUME PathAssumption ==
  /\ Path \subseteq Seq(Name) /\ Root \in Path /\ Home \in Path
  /\ \A p \in Path : \A n \in 0..Len(p) : Upto(p, n) \in Path

VARIABLES
  mode,      \* which worker serves the tab: sftp or shell
  dirs,      \* the directories of the server
  cache,     \* tree_dirs: sub-directories, of the directories that were listed
  expanded   \* tree_expanded

vars == <<mode, dirs, cache, expanded>>

(* The directory and everything below it. *)
Below(p) == {q \in Path : Len(p) <= Len(q) /\ Upto(q, Len(p)) = p}
Above(p) == {Upto(p, n) : n \in 0..Len(p)}
(* list_dirs_only. *)
Kids(p, on) == {q \in on : q # Root /\ Parent(q) = p}

(* build_tree_nodes: what is reached from the root through expanded nodes. *)
Shown ==
  {p \in Path : \A n \in 0..(Len(p) - 1) :
     /\ Upto(p, n) \in expanded \cap DOMAIN cache
     /\ Upto(p, n + 1) \in cache[Upto(p, n)]}

-----------------------------------------------------------------------------
(* The cache.  A listing that fails leaves what was cached; "on" are the server's
   directories and "ok" those whose listing succeeds. *)
Listed(c, ds, on, ok) ==
  LET fresh == ds \cap on \cap ok
  IN [d \in DOMAIN c \cup fresh |-> IF d \in fresh THEN Kids(d, on) ELSE c[d]]
(* Mutant: what is below the directory is kept. *)
Without_Itself(c, p) == [d \in DOMAIN c \ {p} |-> c[d]]
Without(c, p) == [d \in DOMAIN c \ Below(p) |-> c[d]]

(* sync_tree_dir: only what the tree knows. *)
Synced(c, ds, on, ok) == Listed(c, ds \cap DOMAIN c, on, ok)

(* ensure_tree_path: the ancestors that have not been listed are, down to the first
   that does not have the next one; the target itself is not. *)
Filled(p, ok) == Listed(cache, {Upto(p, n) : n \in 0..(Len(p) - 1)} \ DOMAIN cache, dirs, ok)
Reaches(c, p, n) ==
  \A k \in 0..(n - 1) : Upto(p, k) \in DOMAIN c /\ Upto(p, k + 1) \in c[Upto(p, k)]
(* Mutant: the directory alone. *)
Reached_Alone(c, p) == IF Reaches(c, p, Len(p)) THEN {p} ELSE {}
Reached(c, p) == {Upto(p, n) : n \in {m \in 0..Len(p) : Reaches(c, p, m)}}
Ensure(p, ok) ==
  LET all == Filled(p, ok)
      reached == Reached(all, p)
  IN /\ expanded' = expanded \cup {Root} \cup reached
     /\ cache' = Listed(cache, ({Root} \cup (reached \ {p})) \ DOMAIN cache, dirs, ok)

-----------------------------------------------------------------------------
(* A session starts with the way to its home, as far as it can be listed; the SFTP
   worker lists the home too. *)
StartAt(ok) ==
  LET all == Listed(<<>>, Above(Home), dirs, ok)
      reached == Reached(all, Home)
  IN /\ expanded = {Root} \cup reached
     /\ cache = Listed(<<>>, {Root} \cup (IF mode = "sftp" THEN reached ELSE reached \ {Home}), dirs, ok)
Trees == {on \in SUBSET Path : Root \in on /\ \A p \in on : Above(p) \subseteq on}
Init ==
  /\ mode \in {"sftp", "shell"} /\ dirs \in Trees
  /\ \E ok \in SUBSET Above(Home) : StartAt(ok)

(* The SFTP worker stops where the directory itself cannot be listed. *)
ListDir(p, ok) ==
  /\ mode = "sftp"
  /\ IF p \in dirs \cap ok THEN Ensure(p, ok) ELSE UNCHANGED <<cache, expanded>>
  /\ UNCHANGED <<mode, dirs>>
(* The shell browser's ListDir and RefreshDir. *)
ShellListDir(p, ok) ==
  /\ mode = "shell" /\ Ensure(p, ok)
  /\ UNCHANGED <<mode, dirs>>

(* Everything that is expanded is listed again, also what is not shown.
   Mutant: only the directory that the file list shows. *)
Again_Current(p) == {p}
Again(p) == expanded
RefreshDir(p, ok) ==
  /\ mode = "sftp"
  /\ cache' = Listed(cache, Again(p), dirs, ok)
  /\ UNCHANGED <<mode, dirs, expanded>>

(* A click on a node: the root's empties the tree or lists the first level again,
   another's closes all below it or opens it as it was listed before. *)
ToggleTreeNode(p, ok) ==
  /\ p \in Shown
  /\ \/ /\ p \in expanded /\ expanded' = expanded \ Below(p)
        /\ UNCHANGED cache
     \/ /\ p \notin expanded /\ expanded' = expanded \cup {p}
        /\ cache' = Listed(cache, IF p = Root THEN {p} ELSE {p} \ DOMAIN cache, dirs, ok)
  /\ UNCHANGED <<mode, dirs>>

-----------------------------------------------------------------------------
(* The commands that change the server's directories.  The SFTP worker leaves the
   tree alone when one fails. *)
Delete(p, ok) ==
  /\ mode = "sftp" /\ p # Root
  /\ dirs' = dirs \ Below(p)
  /\ cache' = Synced(Without(cache, p), {Parent(p)}, dirs', ok)
  /\ expanded' = expanded \ Below(p)
  /\ UNCHANGED mode

(* remove_dir_recursive fails midway. *)
Remains(p) == {on \in Trees : /\ dirs \ Below(p) \subseteq on /\ on \subseteq dirs
                              /\ p \in dirs => p \in on}
DeleteStops(p) ==
  /\ mode = "sftp" /\ p # Root
  /\ dirs' \in Remains(p)
  /\ UNCHANGED <<mode, cache, expanded>>

(* The shell browser lists the parent again, whether its command failed or not, and
   forgets nothing. *)
ShellDelete(p, ok) ==
  /\ mode = "shell" /\ p # Root
  /\ dirs' \in Remains(p) \cup {dirs \ Below(p)}
  /\ cache' = Synced(cache, {Parent(p)}, dirs', ok)
  /\ UNCHANGED <<mode, expanded>>

Moved(from, to, p) == IF p \in Below(from) THEN to \o SubSeq(p, Len(from) + 1, Len(p)) ELSE p
Moves(from, to) ==
  /\ from \in dirs \ {Root} /\ to \notin dirs \cup Below(from) /\ Parent(to) \in dirs
  /\ dirs' = {Moved(from, to, p) : p \in dirs} /\ dirs' \subseteq Path
Rename(from, to, ok) ==
  /\ mode = "sftp" /\ Moves(from, to)
  /\ cache' = Synced(Without(cache, from), {Parent(from), Parent(to)}, dirs', ok)
  /\ expanded' = expanded \ Below(from)
  /\ UNCHANGED mode
ShellRename(from, to) ==
  /\ mode = "shell" /\ Moves(from, to)
  /\ UNCHANGED <<mode, cache, expanded>>

MkDir(p, ok) ==
  /\ mode = "sftp" /\ p # Root
  /\ p \notin dirs /\ Parent(p) \in dirs /\ dirs' = dirs \cup {p}
  /\ cache' = Synced(cache, {Parent(p)}, dirs', ok)
  /\ UNCHANGED <<mode, expanded>>
(* mkdir -p creates all that is missing, or fails. *)
ShellMkDir(p, ok) ==
  /\ mode = "shell" /\ p # Root
  /\ dirs' \in {dirs, dirs \cup Above(p)}
  /\ cache' = Synced(cache, {Parent(p)}, dirs', ok)
  /\ UNCHANGED <<mode, expanded>>

(* A terminal, a folder upload, mv into an existing directory, or anybody else. *)
Elsewhere ==
  /\ dirs' \in Trees \ {dirs}
  /\ UNCHANGED <<mode, cache, expanded>>

Command(ok) ==
  \/ \E p \in Path : ListDir(p, ok) \/ RefreshDir(p, ok) \/ ToggleTreeNode(p, ok)
                     \/ Delete(p, ok) \/ MkDir(p, ok)
  \/ \E from, to \in Path : Rename(from, to, ok)
ShellCommand(ok) ==
  \/ \E p \in Path : ShellListDir(p, ok) \/ ShellDelete(p, ok) \/ ShellMkDir(p, ok)
  \/ \E from, to \in Path : ShellRename(from, to)
Listable == {ok \in SUBSET Path : Cardinality(Path \ ok) <= MaxFails}
Next == Elsewhere \/ (\E ok \in Listable : Command(ok) \/ ShellCommand(ok))
        \/ \E p \in Path : DeleteStops(p)
Spec == Init /\ [][Next]_vars

-----------------------------------------------------------------------------
(* What is shown below an expanded node that was listed is what the server has. *)
TreeIsTrue ==
  /\ Shown \subseteq dirs
  /\ \A d \in Shown \cap expanded \cap DOMAIN cache : cache[d] = Kids(d, dirs)
(* So is everything that could be shown. *)
CacheIsTrue == \A d \in DOMAIN cache : d \in dirs /\ cache[d] = Kids(d, dirs)

(* A refresh whose listings succeed leaves no stale node, whatever was changed or
   not listed before, and without a reconnect. *)
RefreshShowsTheServer ==
  [][ (\E p \in Path : RefreshDir(p, Path)) => TreeIsTrue' ]_vars

(* What the panel does to the server is seen by the tree: as long as nobody else
   changes directories and what it asks for succeeds, all that is cached stays true,
   also what the directory that was deleted or renamed had below it. *)
OwnChangesAreSeen ==
  [][ mode = "sftp" /\ CacheIsTrue /\ Command(Path) => CacheIsTrue' ]_vars

(* The tree follows the file list: the directory that is opened gets its node, with
   the nodes above it expanded, whatever was closed before, in both workers. *)
FollowsTheList ==
  [][ \A p \in dirs : CacheIsTrue /\ (ListDir(p, Path) \/ ShellListDir(p, Path)) => p \in Shown' ]_vars
=============================================================================
