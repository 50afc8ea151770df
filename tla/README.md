# A TLA+ model of probe-shell

probe-shell is a desktop terminal program in Rust: tabs of SSH, Telnet, serial
and local sessions, an SFTP panel beside each SSH tab, split panes, host-key and
login dialogs, port forwards, ZMODEM. This directory holds a formal model of the
parts of it that carry protocol and shared state, the TLC configurations that
check them and TLAPS proofs about them. Paths below are of the repository
(`src/app.rs` is the application's `app.rs`).

The program has one UI thread (the event loop of the window) that owns all view
state, one async worker per connection on a runtime with several threads, two
pump threads per connection that move worker events to the UI thread, and plain
maps and mutexes in between. A UI handler runs to its end before the next task of
the event loop; everything else interleaves.

## Inventory

| Part | State | Operations | Talks to | Hard |
| --- | --- | --- | --- | --- |
| Tab sessions (`app.rs`) | `tabs_model`, `tab_statuses`, the maps `handles` and `sftp_handles` | open, reconnect by Enter, close; the pumps; `apply_session_event_to_window` | all workers, through channels and posted tasks | events are keyed by tab, not by connection; the pump and the UI thread change one map |
| SSH shell (`ssh.rs`) | the connection, its channel, the monitor channel, forwards | connect, authenticate, run, stop, `Closed` | prompts, forwards, pump | two `Closed` on one path; commands are not read while connecting, setting up or writing |
| Telnet, serial, local (`telnet.rs`, `serial.rs`, `local.rs`) | stream, reader thread, child | connect, run, stop, `Closed` | pump | reader and command loop end separately |
| Host keys (`known_hosts.rs`, `ssh.rs`, `app.rs`) | the file, prompt queue, dialog, the run's answers | verify, remember, enqueue, resolve | every SSH and SFTP connection | concurrent rewrites of a file, shared dialogs, cached answers |
| Logins (`ssh.rs`, `app.rs`) | credential and verification-code queues, the run's cached credentials | ask, merge, answer, cancel, retry | every SSH and SFTP connection | merged prompts, cached wrong answers |
| File panel (`app.rs`) | `sftp_path`, history, entries, `sftp_loading`, follow-cd | navigate, back, locate, follow, apply a listing | SFTP worker | answers for a path the panel has left; a spinner somebody must stop |
| SFTP worker (`sftp.rs`) | session, cancel flags, running tasks | list, download, upload, archive, search, edit, close | pump, file panel | cancellation by id, tasks that outlive a request, abort in the middle |
| Shell browser and upload (`sftp.rs`) | a command stream | list and upload without SFTP | SSH | framing by markers |
| ZMODEM (`zmodem.rs`, `ssh.rs`) | receiver state, current file, progress row | start, frames, timeouts, close handshake | SSH worker, the sender | frames of an interrupted sender, no command is read meanwhile |
| Forwards, jump hosts (`forward.rs`, `proxy.rs`) | listeners, per-connection tasks | local, remote, dynamic | SSH worker | tasks that outlive the session |
| Panes (`panes.rs`, `app.rs`) | split tree, focus, ids | split, move, close, drag a splitter, focus | tab handlers | tree surgery over long histories, pixel arithmetic |
| Session store (`config.rs`, `ssh_config.rs`) | sessions, groups, commands in memory and on disk, the key | load, migrate, edit, save, export, import | UI | the program ending in a save, passwords another key sealed |
| Directory tree (`sftp.rs`) | cached children, expanded set | toggle, refresh, follow a path, delete, rename | file panel | two sets that change separately |
| Terminal buffer, monitor, text helpers, wallpaper, updates, mark-up | view state | | | data processing, no protocol |

What makes each correct, in one line: a tab shows the state of its newest
connection and no connection outlives its tab; a key is trusted only after the
user said so for that key; every waiting login is answered; the panel's path,
entries and spinner agree; a transfer ends in one terminal state and a cancel
reaches it; the tree shows what the server has once it was refreshed; the panes
partition the open tabs; a password is sealed once and a start restores the last
save; a received file is whole and the terminal comes back; a tunnel leads to its
own target and ends with its session.

## Modules

| Modules | Models | Proofs |
| --- | --- | --- |
| `TabSession` | tabs, workers, pumps, the two handle maps | `TabSession_proofs` |
| `PromptLine` | what a queue of merged questions promises | |
| `HostKeys` | the key store, its prompts and their queue | the second part of `SshSession_proofs` |
| `LoginPrompts` | credentials, verification codes, the fallback of a refused password | `LoginPrompts_proofs` |
| `PaneGroups`, `PaneLayout` | what panes promise; the split tree that implements it | the end of `TabSession_proofs` |
| `SftpPanel` | the file panel beside its worker's command loop | `SftpPanel_proofs` |
| `SftpTransfers` | transfers, cancels, close and abort | `SftpTransfers_proofs` |
| `DirTree` | the directory tree of both file workers | `DirTree_proofs` |
| `ConfigFile`, `ConfigStore` | the settings file's operations; the store and its handlers over crashes | `ConfigStore_proofs` |
| `ZmodemReceive` | a receive inside the SSH loop, against a sender | `ZmodemReceive_proofs` |
| `Forwards` | listeners, tunnels and their end | the first part of `SshSession_proofs` |

`ConfigStore` extends `ConfigFile`, the operators without state. `PaneLayout`
implements `PaneGroups`. `Forwards` and `HostKeys` are two things an SSH session does
beside its shell; `SshSession_proofs` extends both, which is why the specification of
the first is called `FwdSpec`. `HostKeys` and `LoginPrompts` implement `PromptLine`, the
latter twice, once for each of its dialogs. Each component has one module `MC<component>` and one
configuration per run. What one
component may do to another at any time, such as the abort of a file worker or the
loss of a connection, is an action of its own in each module it concerns.

## TabSession

Each start of a tab spawns a *generation* of workers. The program has no such
number; the model names workers `<<tab, generation>>` so that properties can say
whose event arrived, and no guard of a program step reads it.

| Model | Code |
| --- | --- |
| `openTabs`, `status`, `handles`, `sftpHandles` | `tabs_model`, `tab_statuses[..].state`, the two handle maps |
| `shell`, `readers`, `shellQ` | where `run_session`, `run_telnet`, `run_serial`, `run_local` are, their reader threads, their event channels |
| `sftpW`, `sftpClosing` | the file worker, `SftpHandle::close` |
| `uiQ`, `starts` | tasks posted with `invoke_from_event_loop`; how often the tab was started (ghost) |
| `OpenTab`, `Reconnect`, `CloseTab` | `open_saved_session`, Enter on a disconnected tab, `on_pane_tab_closed` |
| `ShellPump`, `ApplyEvent` | the shell's pump thread, `apply_session_event_to_window` |

The run has one tab started at most twice (`MaxGen = 2`: a replaced connection and the
one that replaced it are all a stale event can mix up) and at most `QueueCap`
samples waiting (`Closed` and `Connected` are never bounded):

- `tab_sessions`, every kind of session: no file connection leaks (`NoOrphanSftp`),
  a closed tab holds none and only the newest workers are registered
  (`HandlesAreCurrent`), a remote tab shown connected is, or the news of its end is
  under way (`RemoteConnectedMeansAlive`; a local tab's sampler outlives its shell),
  and the file side is out of the map when the UI hears of the newest shell's end
  (`FileSideClosesFirst`). Under fairness a closed file worker ends, and an orphaned
  shell worker ends unless it awaits its peer for ever (`WorkersEnd`); an end is shown
  (`EndIsShown`).

A shell worker goes through `connecting`, `opening` (a local one, between its child
and its sampler) or `settingUp` (SSH: the monitor channel and the remote forwards,
Telnet: its options), `running`, `awaiting`, `stopping` and `done`. `awaiting` is a
branch of the loop that writes to the peer or receives a file.

Fairness is per thread: pumps and the event loop run, a loop that broke reaches its
end, the 250 ms abort thread fires (weak), and a loop that comes back to its `select!`
again and again takes a waiting command in the end (strong, since tokio picks among
the ready branches at random). The peer, the network and the user owe nothing: no
setup has to end (`ssh.rs:861`, `ssh.rs:891`), no write in a branch of the loop has to
return (`ssh.rs:939`, `telnet.rs:160`), no ZMODEM receive has to be over, and the
last eof and disconnect of an SSH worker may wait as well. None of these has a
timeout, and no command is read meanwhile, so `WorkersEnd` says of a shell worker that
it ends or from some point on awaits its peer for ever (`AwaitsPeer`). It starts after
`connecting`, where a worker reads no commands either. The reader of a serial worker
is joined; the one of a local worker ends with the last process that holds its terminal.
`CHECK_DEADLOCK FALSE`: a closed tab whose workers ended does nothing more, and
starts are bounded.

## HostKeys

| Model | Code |
| --- | --- |
| `file`, `torn` | `known_hosts`, and the moment between truncation and write |
| `phase`, `key`, `seenChanged`, `snap` | the locals of `verify_host_key` and `remember` per connection |
| `inFlight`, `queue`, `dialog`, `decided` | prompts between worker and UI, `HOSTKEY_QUEUE`, the dialog, `HOSTKEY_DECIDED` |
| `VerifyHostKey`, `Remember*` | `known_hosts::verify`, the load, truncation and write of `remember` as three steps |
| `EnqueueHostkeyPrompt`, `ResolveFrontHostkey` | `enqueue_hostkey_prompt`, `resolve_front_hostkey` with `show_front_hostkey` |
| `Aborts`, `Restart` | the abort of a file worker; the end of the program, anywhere |

Instance: the shell and the file connection of one host and a shell to another;
the first host has an old and a new key, the second one key. That is what merging,
cross-talk and changed keys need. `host_keys` checks safety and liveness together,
without symmetry. `WaiterIsAnswered` assumes that the pump and the event loop run
and that the user answers the dialog that is open, and nothing of the connections.
`StoredOnlyAccepted` says that a connection writes the key its own server showed, and
only of a host the user accepted in this run, so an answer about one host lets no key
of another in. It does not say that this very key was shown to the user (see
`host_keys_reconfirm`), nor that concurrent rewrites, which have no lock, keep each
other's entries: they do not. A write that fails may leave the first lines of the file.
`KeepsLine` says that the queue is a `PromptLine`.
`host_keys_reconfirm` shows where the store's
documentation claims more than the code does.

## PaneGroups and PaneLayout

`PaneGroups` is the promise: panes hold disjoint groups of tabs, show one of
theirs, and one that exists has the focus. `PaneLayout` is `panes.rs`: the tree
of splits, `prune_node`, `put_node`, `split`, `move_tab`, `remove_tab`, `set_ratio`
with its clamp, `layout_node`'s rectangles, and the window's callbacks that use
them. `RefinesPaneGroups` maps the leaves of the tree to the panes.

- `panes`: the welcome tab and two sessions, ids up to 5 (two nested splits, closed
  and made again), two window sizes, splitters dragged to both ends; the refinement,
  `StripsKeepOrder`, and `LayoutIsSound`: panes never overlap. Sessions are symmetric.
  `CHECK_DEADLOCK FALSE`: the clamp of `set_ratio` panics in a split shorter than two
  smallest panes, and a program that panicked is over.

Positions are whole pixels and ratios fractions of them, where the code has `f32`:
rounding below a pixel is outside the model. The refresh that a sidebar toggle
defers by a timer of 0 ms is taken as immediate.

## SftpPanel

The panel commits to a directory before it asks for it, so every answer may be
about a directory it has left; uploads and file operations list directories nobody
asked for; a search's events come from a task beside the worker's command loop.

| Model | Code |
| --- | --- |
| `row` | the `sftp_*` fields of the tab's `TerminalState`; `shown` names what the entries are of |
| `lastCwd`, `debounce` | `sftp_last_cwd`, the pump's 500 ms task |
| `handle`, `worker`, `cmds` | `sftp_handles`, where `run_sftp` is, its command channel |
| `current`, `task` | `active_search` with `search_cancel`, the spawned search |
| `uiQ` | tasks posted by the two pumps, in the order of posting |
| `Navigate`, `NavigateBack`, `LocateResult`, `Refresh`, `LocalSearch`, `SearchFolder`, `CancelSearch`, `Reconnect` | the window's callbacks and Enter |
| `PumpCwd`, `DebounceFires`, `PumpClosed` | the shell's pump |
| `WorkerStarts` to `ListsUnasked` | `run_sftp`, its search task, its other listings |
| `ApplyEvent` | `apply_session_event_to_window` |

A directory stands for its normalised path, a search for its id with its query and
root. Ghosts: `asked` (the directory last asked for, and by what), `row.failed` (the
last answer was an error) and `row.plain` (no search since the panel last left one).
Whether the panel follows the shell is a flag the pump reads and the user switches
at any time, so `PumpCwd` takes either value. The timer is taken to fire after its
own `CwdChanged` was posted, which half a second gives it; one timer stands for
those of the old and the new pump around a reconnect, for the same reason.

- `file_panel`: "/" and the home, one search, a worker and the one a reconnect makes
  (`MaxGen = 2`), `QueueCap = 1` posted task besides the one of `CwdChanged`, and
  `CmdCap = 1`, so up to two commands, wait. Two directories give a view that was
  left and one that is shown; one search is enough for late events of a search to
  meet a directory, and a search follows a listing in either order. When nothing is
  under way, the panel shows what was asked for last (`LastRequestWins`) and the
  spinner is off (`SpinnerStops`), outside of search; a search that was left stays
  left (`SearchIsLeft`); a listing is of one thing (`ListIsSound`).

`LastRequestWins` leaves "/" out: while the panel shows "/" without entries any
listing is taken, on purpose for the first one, and the home listing may still
arrive when the user already went to "/". After a reconnect, and while search
results are listed, the code leaves the spinner to later events (`app.rs:7058`,
`app.rs:5676`), and so does Back to the directory that is shown; `SpinnerStops`
excludes these. There is no liveness here: a worker may wait for its server for ever.

## SftpTransfers

Downloads, uploads, folders and archives run as tasks beside the worker's command
loop; opening a file externally runs inside it. A task looks at its own cancel flag
and at the connection's shutdown flag, and 250 ms after a close everything is
aborted at whatever await it has reached.

| Model | Code |
| --- | --- |
| `kind`, `phase`, `part`, `outcome`, `flag` | what one task keeps, with `file` and `temp` for what it leaves behind |
| `registered` | the keys of `cancels` |
| `cmds`, `worker`, `shutdown`, `aborter` | the command channel, where `run_sftp` is, what `SftpHandle::close` sets off |
| `rows`, `uiQ` | the model behind the transfers popup and the posted events |
| `Request`, `CancelTransfer`, `ClearTransfers`, `CloseFiles` | the window's callbacks and the pump's close |
| `AbortTasks`, `AbortWorker` | the closing thread's two steps: a task spawned between them escapes |
| `StartJob`, `HearCancel`, `HearClose`, `HangsUp` | the command loop and its tail |
| `PacksArchive` to `CleansArchive` | `download_impl`, `upload_pipelined`, the two folder walks, the archive and the opened file |
| `ApplyEvent` | `apply_session_event_to_window` |

One action stands for all chunks of a file: what matters is whether the flags are
seen before the last one. A task with a lost connection may fail anywhere. Any
removal may be refused, by a directory the user may not write to or a request that times
out, and the code looks at no result of one (`sftp.rs:3852`, `sftp.rs:3997`,
`sftp.rs:4198`, `sftp.rs:1039`): what it asked to remove and is still there is `"left"`, in
`file` and in `temp`. `disk` turns off when the local disk refuses a
write: a download of unknown size then returns without removing its file
(`sftp.rs:3831`), which `EndsAreClean` excuses and a reader of `download_impl`'s comment
would not expect. `clicked` is a ghost. A folder is walked as a list of files.

- `transfers`: a job of any of the six kinds beside an opened file that holds up the
  loop, folders of up to two files (a finished one and one under way), one waiting
  command (`CmdCap`) and one posted event (`UiCap`), which already let a click race
  the last event of its row. A task that ended by itself has asked for the
  removal of its partial file and its archive, and a cancelled one of the finished files
  of its folder too; what is still there was refused (`EndsAreClean`). A row that
  says done has its file (`DoneIsWhole`), rows of single transfers settle (`RowsSettle`),
  no row changes its last word (`FinalStays`), and a cancel of a single transfer is heard (`CancelIsHeard`).

`RowsSettle` leaves out the rows of folders and opened files: a failure there is told
in the status line only, and the row stays active; so do the rows of a tab that
disconnects, since its events are dropped. `EndsAreClean` says nothing of aborted tasks.
Two transfers with the same target and a source that changes while it is read are
not in the model. There is no liveness: a transfer may wait for its server for ever.

## LoginPrompts

A terminal and the file worker beside it ask for the same missing credentials, as do
two tabs of one session; their questions are merged into one dialog, and its answer
is kept for the run. A refused password leads to a second connection and
keyboard-interactive rounds, where the password may answer one prompt and the user
answers the others in a second dialog.

| Model | Code |
| --- | --- |
| `store`, `copy`, `cred` | the saved sessions, the session a worker was given, `resolve_credentials`' result |
| `phase`, `todo`, `rounds`, `passwordUsed` | where `run_session` or `run_sftp` is, the prompts of the request it answers, the locals of `keyboard_interactive_auth` |
| `credQueue`, `credDialog`, `decided`, `mfaQueue`, `mfaDialog` | `CRED_QUEUE`, `CRED_DECIDED`, `MFA_QUEUE`, the two dialogs |
| `Start` to `AbortFileWorker` | the connections, with the server's answers and the abort of a file worker |
| `EnqueueCredPrompt`, `ResolveFrontCred`, `EnqueueMfaPrompt`, `ResolveFrontMfa` | the four functions of `app.rs`, with `show_front_*` and `persist_credentials` |

A responder names the connection and its start, so that the answer to a prompt of an
aborted start reaches nobody; `offered` counts, as a ghost, how often the password
was sent. Whether a prompt looks like one for a code is part of the prompt.

- `logins`: two terminals of a session without a password, the file worker of a
  session with a key and no user name, which may be aborted and started again; two
  rounds of two prompts. That gives a merged entry, an entry of its own, a stale
  responder, both kinds of question and the bound on rounds. No wait is forgotten
  (`QueuesAreSound`), an answer is asked for once and serves its own session
  (`CredentialsAreOwn`), a password is sent twice at most (`PasswordOfferedTwice`),
  every login ends (`LoginSettles`), and both dialogs are lines as `PromptLine`
  promises them (`KeepLines`). `DialogAssumption` says that `NoDialog` is
  not itself an entry of a queue.

`LoginSettles` assumes weak fairness of each connection's one enabled step, of a
server that answers, and of a user who answers the dialog that is open; a login that
waits for the user does not watch its transport, so without the user it would stay.

## ConfigFile and ConfigStore

`ConfigFile` holds the operations on a configuration as operators; `ConfigStore` is
the program over several starts. A name is a number in its sorting order, with 0 for
the empty one and 1 for every spelling of "default". A password carries the list of
keys it is encrypted with: decryption with another key leaves it as it is, which is
what the code's fall-back does. `Without`, `At` and `Sorted` are `retain` and `sort`: the
elements at some positions, in order, which is written with cardinalities rather than
a fold so that it can be reasoned about.

| Model | Code |
| --- | --- |
| `cache`, `key`, `disk`, `keyFile` | `ConfigStore`, `sessions.json`, `secret.key` |
| `up` | where `save` is: the temporary file, the rename |
| `dialog`, `form`, `asked` | the session dialog, the quick-command form, a login that may remember its password |
| `Load` | `ConfigStore::load` with migration, and a damaged file moved out of the way; a start that stops at a file it cannot read (`config.rs:743`, `config.rs:786`) leaves what `Load` and `Stop` leave |
| `WriteTmp`, `Rename`, `Stop` | the steps of `save`, each of which may fail, and the program ending anywhere |
| `NewSession` to `SaveQuickDir` | the handlers of `app.rs` |
| `TouchFiles` | files of another version, a lost key, damage, while the program is off |

- `config`: two changes (`MaxEdits`) over two starts (`MaxStarts`), a file of each of
  two older versions, two exported files, one with passwords its own program could
  not read; caps of 2 for history and directories. Two changes are an edit and one
  on top of it, and two starts are a save and what comes back of it. The lists stay
  clean and a password is sealed once (`StoreIsSound`); a start brings back the last
  finished save (`RestartRestoresTheSaved`). `CHECK_DEADLOCK FALSE`: starts and
  changes are bounded, and no property depends on the bounds: the theorems hold for any
  number of either. Power loss inside a rename is the file system's and left out.

## ZmodemReceive

While a file is received `run_session` is inside `zmodem::receive`: it reads the
channel byte by byte, answers the sender, and reads no command. The model has a
place in `receive` for each wait, frames and subpackets where the code has bytes,
and one ordinary character for what else may come down the channel.

| Model | Code |
| --- | --- |
| `pump`, `cooldown`, `cmds` | where `run_session` is, `zmodem_done_at`, its commands |
| `cur`, `received`, `garbled`, `rows` | `CurFile`, the files received, a checksum that will not match, the progress rows |
| `Data`, `Finish`, `Fail` | the channel arm of the loop, `contains_zmodem_init`, the two ends of a receive |
| `ReadHeader`, `ReadSubpacket`, `Peek`, `Drain`, `GivesUp` | `receive`, `Rx::read_header`, `Rx::read_subpacket`, the timeouts of `Rx::byte`; a wrong checksum or a file that cannot be written leads to `Fail`, which loses what was buffered |
| `Sz...`, `Noise`, `ServerCloses` | the sender, other programs, the server (external) |

- `zmodem`: two files, the first in two subpackets, two runs of `sz`, so that frames of the first
  may meet the second, each repeating its first frame once, and other output anywhere
  and as often as it likes, one piece unread at a time. A file reported done is whole
  (`FilesAreWhole`), a close is heard unless other output comes for ever
  (`CloseIsHeard`), the first `sz` is never left waiting (`SenderLeaves`).
- `zmodem_prompt`: the drain after a transfer takes letters of the prompt that follows.

Fairness: the loop runs, time passes while nothing comes, `sz` reads what
it is sent. The receiver's 30 s start anew with every chunk (`zmodem.rs:254`), and neither
`read_header` nor `read_subpacket` has a limit of its own, so a silent sender is given
up while a server that prints something now and then keeps the receive in place, and
the tab's Close unread, for ever. `CloseIsHeard` names that case
(`OutputComesForEver`); TLC finds it when it is taken out. Only the peek after a file
has a limit in all, of 2 s, which is why `PeekEnds` is strongly fair. A receive
that fails midway leaves its row active and its partial file (`zmodem.rs:167`), which `FilesAreWhole` says nothing about.

## Forwards

| Model | Code |
| --- | --- |
| `next`, `listen`, `aborted` | the setup of forwards in `run_session`, the listener tasks |
| `conn` | one accepted connection: what `spawn_local` and `spawn_dynamic` accept, the channel a server opens |
| `AskRemote`, `SpawnListeners`, `LeavePump`, `DisconnectServer`, `LoseLink` | `run_session` and its end |
| `Bind`, `Accept`, `AcceptFails`, `ListenerEnds`, `RemoteChannel` | the listener loops and `server_channel_open_forwarded_tcpip` |
| `ClientAsks`, `TargetAnswers`, `NearEnds`, `FarEnds`, `SpliceEnds`, `SpliceBreaks` | `socks5_serve`, `open_direct`, `copy_bidirectional`, which an error of either end breaks |

- `forwards`: a remote, a local and a dynamic forward of one port number, the last two on
  addresses that overlap, so they compete for it, and two connections. Each leads to its own
  forward's target (`RightTarget`), and when the session has ended, its ports and connections are given
  back (`TunnelsEnd`), except a connection whose own client is silent: stopping a
  forward aborts its listener, not what it accepted.

Weak fairness of every task; no client has to come, ask, send or hang up. The
assumption that remote forwards have different ports is the code's own: it looks a
channel up by port alone (`ssh.rs:552`), so two `-R` on one port, or on port 0, are
outside of `RightTarget`.

## DirTree

The tree beside the list is two sets that change separately: the children that were
listed (`tree_dirs`) and the nodes that are open (`tree_expanded`). The server's
directories (`dirs`) may change at any time, and any listing may fail.

| Model | Code |
| --- | --- |
| `Listed`, `Synced`, `Filled`, `Reached`, `Without` | `cache_tree_dir`, `sync_tree_dir`, `ensure_tree_path` and its shell twin, the `retain` of a delete |
| `ListDir`, `RefreshDir`, `ToggleTreeNode`, `Delete`, `DeleteStops`, `Rename`, `MkDir` | the arms of `run_sftp` |
| `ShellListDir`, `ShellDelete`, `ShellRename`, `ShellMkDir` | those of `run_ssh_file_browser` |
| `Elsewhere` | a terminal, another client, an upload of a folder (external) |

- `dir_tree`: the root, two directories and one inside the first, in both workers, one
  listing failing at a time. A name may come back and a directory be moved to where
  its sibling was. A refresh shows what the server has (`RefreshShowsTheServer`), the
  panel's own changes leave nothing stale (`OwnChangesAreSeen`), the directory the
  list opens is shown (`FollowsTheList`).

The properties say what the code gives and no more. A directory removed and made again
elsewhere shows its old children until a refresh (`sftp.rs:740`); a delete that stops
midway leaves the tree as it was; uploads of folders do not touch it; the shell
browser never lists an expanded directory again and forgets none it deleted
(`sftp.rs:432`), so `OwnChangesAreSeen` is about the SFTP worker.

## What is proved

TLAPS proves, for all values of the constants allowed by the named assumptions:

| Module | Theorem | Argument |
| --- | --- | --- |
| `TabSession_proofs` | `TypeCorrect`, `SftpRegistry`, `HandlesStayCurrent`, `FileSideOrder`, `ConnectedMeansAlive` | the registry invariant says that whatever is live and not closing is the registered one and the registered one is the newest; that the pump handles one end twice, or late, only ever removes. `FileSideOrder` adds that while a `Closed` of the newest generation is past its pump the entry is gone, since only a reconnect inserts, and a reconnect makes a newer generation. `ConnectedMeansAlive` follows what a worker said through its channel, its pump and the event loop: whoever spoke of a connection still has it or its `Closed` comes later in the same path |
| `SshSession_proofs`, `HostKeys` | `PromptsAreShown`, `WaitersOwed`, `RefusedByUser`, `OnlyAcceptedIsStored`, `LineIsKept` | the type invariant is strengthened with where each responder is: in flight or in one entry of its own host, and a prompt of a waiting connection is never lost by a merge. `decided` never holds a reject, which makes `RefusedOnlyByUser` follow. A connection whose answer was accept had its responder in the entry of its own host, and an accept stays for the run, which gives `StoredOnlyAccepted`. `LineIsKept` is the refinement of `PromptLine`, step by step: every action asks, answers, leaves or restarts the line, or does not touch it, given that the queue has one entry per host |
| `TabSession_proofs` | `PanesTypeCorrect`, `PanesAreSound` (of `PaneGroups`) | the three invariants are inductive together: `Close` and `Move` need all of them, e.g. a pane that loses its last tab goes, so the focus must be on a pane that stays. No assumption on the constants is used; `RefinesPaneGroups`, which TLC checks, carries them to the tree |
| `SftpPanel_proofs` | `SearchStaysLeft`, `ListIsOfOneThing`, `LastRequestIsShown`, `SpinnerEnds` | for the first ones only the panel's row matters beyond types: while it is in a search it lists nothing but that search, which makes mixing and coming back inductive. The last two need what is under way: while the panel waits, the request is in the command queue, with the worker, or its answer among the posted tasks, and nothing behind it undoes it; the first listing of "/" is the exception the property names |
| `LoginPrompts_proofs` | `NobodyIsForgotten`, `CredentialsStayOwn`, `OfferedAtMostTwice`, `LinesAreKept` | the first three are inductive only together, with where each login stands: a responder is in the entry of its own session (so an answer credits that session's logins), one entry per session (so the entries behind the front one stay undecided), `decided` changes only from undecided (so no login that used an answer sees it change), and the counts of offers go with `passwordUsed`. Enqueueing and popping are lemmas about sequences. `LinesAreKept` is the refinement of `PromptLine` by both dialogs, from the same invariant with the responders of the second queue at home as well |
| `SftpTransfers_proofs` | `EndsClean`, `DoneRowsAreWhole`, `SinglesSettle`, `CancelsAreHeard`, `LastWordsStay` | two invariants, one on top of the other. The jobs': a job is asked for once, the one partial file of a job is the file it is at, an archive whose removal nobody has asked for is there only between packing and cleaning, and whoever runs is registered. The rows': each step of a job says at most one thing, about a row that has not had its last word, so the last word in the queue or on the screen is the last; a row that is spoken of belongs to a job that has started, so the worker finds the flag of a cancel |
| `SshSession_proofs`, `Forwards` | `TargetsAreRight` | with the types, which listeners serve which kind of forward, and the assumption that remote forwards have different ports |
| `ZmodemReceive_proofs` | `FilesAreReceivedWhole` | a reader that loses nothing would know where in a file each frame of the channel belongs. The invariant keeps such a reading from the place of the receiver, which has written just what has passed, to the place of the sender, which knows what it sends next; a cancelled sender, a cut-off file or other output leaves a place that belongs to no file, from which only a new name leads back. Frames that end a file or carry its data then fit where they are, so an end of file finds the whole of it. No assumption on the constants is used |
| `DirTree_proofs` | `OwnChangesSeen`, `RefreshIsTrue`, `TheListIsFollowed` | action properties of every step, from the invariant that the server's directories are a tree: what is shown and was listed again equals the server, paths are sequences, and the shortest unreached prefix of a path (by well-founded induction) shows that following a list reaches it |
| `ConfigStore_proofs` | `StoreStaysSound`, `StartRestoresTheSaved`, `ExportsAreReadBack` | clean lists are not inductive by themselves. The invariant adds that ids are below the next one to be given (a new or imported session is then unlike the others), that the dialog holds such an id, that every password is plain or sealed once with a local key and not the one of exports, that a file on disk is clean once the repeated commands are dropped, and that after a finished save the disk holds just what was saved, sealed with its key. What a start makes of that file is then computed: nothing to migrate, nothing to drop, and opening what was sealed gives back each password. The first half of the module is about the operators: lists picked, sorted, cut and joined, and sessions, passwords and configurations with one part changed |

The store's theorems rest on `FilesAssumption`, the shape of what comes from outside:
a file of an older version has unique ids and clean lists but for repeated commands
(the store has always compared before it added, the history alone has not,
`config.rs:796`), its passwords are in the clear or sealed once with a local key; an
exported file's are that, sealed once more for the export; pasted ones are plain.
`ExportsAreReadBack` shows that what the program exports is of that shape. A file
edited by hand to repeat an id is outside of it. `ConfigStore` has no `Seq` of all
texts to speak of: `IsSeq` says that a list is one of its own elements.

Each inductive invariant was checked by TLC, as an invariant of its component's run,
before it was proved.

Only model-checked: liveness under fairness, out of the prover's reach (`WorkersEnd`,
`EndIsShown`, `WaiterIsAnswered`, `LoginSettles`, `CloseIsHeard`, `SenderLeaves`,
`TunnelsEnd`); `PaneLayout`,
whose tree needs recursive operators and induction over data (`LayoutIsSound`,
`StripsKeepOrder`, `RefinesPaneGroups`).

## Disagreements met while modelling

Two are runs that end in a counterexample:

| Run | Code | Text |
| --- | --- | --- |
| `host_keys_reconfirm` | an accept is cached by host and port, so a changed key can replace the stored one undisplayed (`app.rs:4710`) | `known_hosts.rs:8`: the user must re-confirm before the new key replaces the stored one |
| `zmodem_prompt` | the drain takes hex digits and other letters of the prompt (`zmodem.rs:413`) | `zmodem.rs:410`: without eating the shell prompt that follows |

The others were met while the models were written; the models follow the code, and
the properties exclude these cases by name or do not speak of them:

| Code | Text |
| --- | --- |
| a sample marks a tab connected (`app.rs:4345`); the sampler of a local tab outlives its shell | `app.rs:4344`: a sample means the channel is alive |
| a serial worker says `Closed` after its tab was reconnected (`serial.rs:198`), which marks the new connection disconnected | `app.rs:6984`: Enter re-spawns the workers in the same tab |
| `remember` rewrites the file from an unlocked load (`known_hosts.rs:120`): a concurrent one loses its entry | `known_hosts.rs:97`: with any stale entry for the same id removed |
| verification prompts are merged by session alone (`app.rs:4958`), so one answer serves two different prompts | `app.rs:4928`: that hit the same prompt |
| Back to the directory that is shown starts the spinner and asks for nothing (`app.rs:5737`) | `CHANGELOG.md:1286`: no longer gets stuck loading |
| the rows of a folder's files and of an opened file have ids no cancel flag is registered under (`sftp.rs:3930`, `sftp.rs:1416`) | `CHANGELOG.md:864`: each transfer row shows a cancel button |
| the clamp of a dragged splitter panics in a split shorter than two smallest panes (`panes.rs:229`) | `panes.rs:84`: the smallest a pane is allowed to get |
| the quick-command form saves to the index it was opened with (`app.rs:6849`), while the list behind it deletes and copies | `app.rs:6829`: save an edited entry |

## Not modelled

Terminal emulation and rendering, the text of prompts, device profiles, translations,
the wallpaper, update check and logs compute on data and share no state with the
protocols above; the mark-up is declarative. The handshakes of proxies and jump hosts
(`proxy.rs`) and the upload through a shell are sequential request-and-answer streams
with no state beside them. Telnet answers each option from a fixed table, so two ends
that do the same could answer each other for ever (`telnet.rs:269`): that is a property
of the other end. The watcher that uploads an edited file polls a modification time
that only the outside changes. The parallel reads inside one download are one step:
that a file which shrinks meanwhile leaves a hole is in the hazards, without a
property. The parser of `ssh_config.rs` is a text function; what is imported is input
to `ConfigStore`. Some events around a reconnect (`app.rs:4220`) and a write failure
reported before the listeners are aborted (`ssh.rs:940`) meet no property.
