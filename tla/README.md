# EdgeGrid in TLA+

EdgeGrid is a Go program that joins machines over Tailscale (tsnet), moves
files between them (blob transfer) and lets one machine dispatch a task to
another (task subsystem), with a terminal dashboard on top. This directory holds
a verification development of it: TLA+ modules translated from the source, TLC
configurations that model-check them, and TLAPS proofs.

Paths below are relative to `src/internal/` unless they start with `cmd/`.

## 1. Inventory

| component | source | state | operations | what makes it hard |
|---|---|---|---|---|
| task table | `db/tasks.go` | the `tasks` rows, keyed by (task id, role) | insert, finish, reconcile, prune, look up for one requester | one row is written by several goroutines and by two processes' lifetimes |
| task execution | `node/task_receive.go`, `task_slot.go`, `task_result.go`, `task/task_process.go`, `executor/` | the slot, the run group, the context of the runs, `received` rows | accept closure, verdict, prune, run, finish | a goroutine per connection and one per run, each return path must undo its own steps, Close and crashes at any point |
| task dispatch | `node/task_dispatch.go`, `task_await.go`, `task/` | `sent` rows; the peer that accepted | try peers, record, poll, store | verdicts and answers are lost or late; either end restarts |
| node lifecycle | `node/node.go`, `peer.go`, `cmd/edgegrid/main.go` | the handles of a node | New (open, reconcile), Start, Close | the order of Close against handlers; two processes on one data directory |
| blob protocol | `blob/` | per-connection position, hash state | manifest, verdict, chunks, verification | a stream that breaks anywhere; no acknowledgement after the last chunk |
| blob send and receive | `node/blob_send.go`, `blob_receive.go` | the inbox directory; a file is received under its final name | send, receive, reserve a name, remove a partial | concurrent transfers with one name; deadlines; failures between two steps |
| transfers | `node/transfers.go`, `history.go`, `db/transfers.go`, `db/query.go` | the registry of live transfers, atomics of each, `transfers` rows | start, progress, finish, snapshot, prune, totals | readers race the transfer goroutine |
| access lists | `node/acl.go`, `aclstore.go`, `task_acl.go` | one file per peer | look up, set, list | set by one goroutine while others look up |
| free space | `node/freespace.go` | none | check | checked once, used later |
| discovery | `discovery/` | the listener | hello exchange, serve, snapshot of the members | an Accept error ends it |
| dashboard and app | `tui/dashboard/`, `tui/app/` | tabs, flows, overlays | Update on messages | answers of commands arrive in another state than they were asked in |
| boot and welcome | `tui/app/booting.go`, `welcome.go` | screens, one text input for all of them, the channel of boot events | Update, RunBoot | the choice takes effect through the environment and a file others write; a node that comes up after the user has cancelled |
| profiles, identity, config | `node/profile.go`, `ident.go`, `config.go` | `app.json`, the directories with their marker, identity and settings | use, delete, load or create | two processes switch profiles; files written in place |
| schema migration | `db/migrate.go`, `db.go` | `user_version` | migrate | two processes open a fresh database |
| Tailscale API, sysstat, style, logs view, command bar, planner | rest | - | I/O and layout | nothing stateful, or a stub |

How they interact: a connection that the discovery listener has identified and
greeted is handed to `Node.handlePeer`, which calls the blob, task or result
handler on the connection's goroutine. The handlers share the node's slot, run
group, registry and database. The dashboard calls `SendBlob`, `DispatchTask` and
`AwaitResult` from commands that run on goroutines of their own, and reads the
registry on every tick. A dispatcher and an executor share nothing but
connections, each of which carries one exchange.

What makes each part correct, in one line each:

- *task execution*: the slot has one owner and is never lost; an accepted task
  stays on record until its outcome is stored; an id gets one process; a finished
  row is final; no process is alive or starts once Close has waited.
- *task dispatch*: the peer that is asked took the task; a sent row that says
  done tells the truth; both ends agree; a wait ends.
- *blob*: what a finished receive leaves in the inbox is what the manifest
  promised, and stays; two transfers never share a file; both ends finish; the row
  says confirmed only when it is.
- *transfers*: a snapshot never shows a failed transfer as a success.
- *access lists*: a check says what is on record, and never accepts by anything
  else; an unreadable entry refuses.
- *discovery*: a silent peer holds up nobody behind it.
- *welcome and boot*: the node comes up in the profile that was picked, with its key,
  under its name; the boot screen ends.
- *profiles and identity*: what a directory says of its node is true after any crash.
- *dashboard*: an answer is shown for the request it belongs to, and none is lost.

PROJECT.json lists the hazards at their lines with the property that covers each.

## 2. Modules

| module | models |
|---|---|
| `TaskStore` | the statements on the tasks table, as operators on a table value |
| `TaskExecution` | one node that is offered tasks: handlers, slot, rows, runs, Close, crash, restart |
| `TaskPromise` | the abstract specification of an executing node, for several nodes at once |
| `TaskGrid` | a dispatcher over nodes that keep `TaskPromise` |
| `TaskOutcome` | what the history of a dispatcher promises its user, the abstract specification of `TaskGrid` |
| `SharedDataDir` | `TaskExecution` while a second process opens the data directory |
| `BlobDelivery` | what a transfer promises the people at its ends, the abstract specification of `BlobTransfer` |
| `BlobTransfer` | both ends of every transfer between a sending and a receiving node, and the inbox |
| `Admission` | the listener, the hello, and the access lists while they are changed |
| `Launch` | `edgegrid dashboard` from the welcome screens over the boot to the dashboard, beside other processes |
| `PeersTab` | the dashboard's message routing and the flows of the Peers tab |
| `..._proofs` | the theorems; `TaskPromise_proofs` and `BlobDelivery_proofs` only those of a refinement |
| `MC...` | the constants of the TLC runs |

### TaskStore and TaskExecution

A row is a record of peer, status, output and, of its two times, only whether
they lie before the retention cutoff. A key without a row holds `Absent`.
`TimePasses` makes everything recorded so far old.

A *handler* is one inbound connection: the goroutine of `receiveTask` and, as
starting it is the last thing that one does, the goroutine of `runs.Go`. `pc`
says what it does next:

| pc | next step | code |
|---|---|---|
| reading | `ReadTask`, `ReadFails` | `task.ProcessTask`, `ReadTask` |
| checking | `PolicyAllows`, `PolicyRefuses` | `checkTaskAccept`, `Supports`, history nil |
| claiming | `TryClaim`, `ClaimRefused` | `TaskSlot.TryClaim` |
| recording | `RecordStart`, `RecordStartFails` | `db.RecordTaskStart` |
| backingOut | `ReleaseUnrecorded` | `Release` in the accept closure |
| answering | `WriteVerdict`, `WriteVerdictFails` | `task.WriteVerdict` |
| unclaiming, disowning | `ReleaseUnanswered`, `FinishUnanswered` | the error return of `receiveTask` |
| pruning, launching | `Prune`, `Launch` | `PruneTasks`, `runs.Go` |
| spawned | `StartProcess`, `StartFails` | `executor.Run` |
| executing | `RunSucceeds`, `RunFails` | `Bare.Run` |
| storing | `FinishRun` | `finishTask` |
| freeing, leaving | `ReleaseAfterRun`, `Leave` | the deferred Release, the wait group's Done |

`phase` follows `Node.Close`: up, stopping (context cancelled), waiting, waited,
offline (tsnet closed), closed (database closed), down. A crash is possible in
every phase. `Restart` is `New`: it opens the database and reconciles, either of
which may fail. `starts`, `produced` and `unsaved` are history: how many
processes a task has had since its row was pruned, what the last one returned,
and which running rows nobody will finish because a write failed.

Nothing ends a task process with its node: `exec.CommandContext` sets no parent-death
signal, and the exec with which `/profile` restarts the dashboard skips the deferred
`Close`. So `Crash` leaves any part of what is executing in `outlived`; it ends when it
likes (`OutlivedEnds`), with nobody to return anything to. The node that comes back has a
free slot and may run another task beside it.

What the access list says is a free choice at every offer. Which output a
process makes, whether it ends, and whether a write fails are free too.

### TaskPromise, TaskGrid and TaskOutcome

`TaskPromise` keeps of each node the ledger (what a result request reads), the
task whose process the node waits for, the tasks that have been begun and what they
returned. `Lose` ends the waiting, not the process: that is outside the promise, as
nothing it makes reaches the ledger.
`TaskExecution!Promise` is the refinement mapping; `KeepsPromise` is checked by
TLC and proved. `TaskGrid` adds one dispatcher: `Dispatch`, the tries of `DispatchTask`, the
polls of `AwaitResult`, the sent rows, its stop and restart. An offer that was
written stays in flight when the connection breaks, so it may be taken later.
Between `RecordSentTask` and the first poll stands the caller of `DispatchTask`:
`StartAwait` is `task send`, or the Peers tab when `taskDispatchedMsg` finds its flow;
`AnswerDropped` is that message reaching another tab, an overlay or another flow, after
which nobody asks for the result (`PeersTab` models where it goes).
`unstored` is history: the tasks of which a write to the sent row failed. The rows are
reconciled by the dispatcher's own restart only: a second process on its data directory,
as in `SharedDataDir`, is not modelled for sent rows.

Assumption `Outlasts`: a node does not forget a task that is being awaited. The
code's constants give it: rows are pruned seven days after they started and a
wait is given up after ten minutes. (It is not part of TaskPromise, because the
code does not tie the two constants together.)

`TaskOutcome` is what is left of a dispatch for its user. The row of a task names
a node once that node has the task on its ledger, and the outcome is copied from
that ledger in the step that stores it (or is failed, when the node could not
read it); a restart interrupts what is open. In the code the answer is read some
steps before it is stored and the `UPDATE` that stores it looks at no status.
`SentRows` is the refinement mapping: a sent row without its times. The executors'
promise is part of the abstract specification, so a behaviour of `TaskGrid` keeps it.

### BlobTransfer

A transfer is one connection: `SendBlob` on one node, `receiveBlob` on the other.
A file is the sequence of its chunks and a hash is what was hashed, so a manifest
is such a sequence too, and a stale manifest is one that differs from `file`.

| snd | next step | code |
|---|---|---|
| picked | `EditFile`, `ManifestFor`, `DialFails` | the preview's manifest, `manifestFor` |
| dialing | `HelloAnswered`, `DialFails` | dial, hello, `recordTransferStart` |
| offering, waiting | `WriteManifest`, `ReadAcceptance`, `ReadRefusal` | `blob.Send` up to the verdict |
| sending | `SendChunk`, `EditFile` | the chunk loop, which reads the file as it is now |
| closing | `FinishSend` | `transfers.finish`, `recordTransferFinish` |

| rcv | next step | code |
|---|---|---|
| none, connected | `HelloArrives`, `ManifestInvalid`, `ReadManifest` | listener, `blob.ReadManifest`, `Validate` |
| deciding | `CheckAccepts`, `CheckRefuses` | `checkAccept`: access list, limit, `checkSpace` |
| reserving | `NameTaken`, `Reserve`, `ReserveFails` | `reserveInboxFile` |
| declining, replying | `Decline`, `Accept` | `WriteVerdict` |
| opening, receiving, verifying | `OpenDest`, `ReceiveChunk`, `HashMismatch`, `VerifyWhole` | the rest of `blob.Receive` |
| closing, removing | `FinishReceive`, `RemovePartial` | `recordTransferFinish`, `os.Remove` |

`SendFails` and `ReceiveFails` stand for every read, write, deadline and file
error of a stage. `SenderRestarts` and `ReceiverRestarts` end all the transfers
of their node at once (`dead`) and reconcile its rows, as `New` does.

Abstractions. The names that `reserveInboxFile` tries are a constant sequence per
transfer: the cleaning of a name only decides which sequences coincide. Of
`Manifest.Validate` only the bound on the chunks can fail for a manifest that
`BuildManifest` made, the other checks guard against a sender that is no EdgeGrid
node. The outcome of `checkAccept` is a free choice. Assumption: the people who
use the node (`UserTakes`) leave the files of running receives alone.

`BlobDelivery` is what is left when connection, chunks and partial files are not
looked at: what was announced, what each end reports, its row, and the files that were
received. A file is delivered in one step. `Announced` and `Received` are the refinement
mapping: nothing is announced before the manifest is on its way, and a file in the
inbox counts once its receive has reported done. `DeliversWhole` is checked by TLC
and proved. That a hash is of one version is an assumption: `BuildManifest`
reads the file in one step here, so an edit falls before or after it.

### PeersTab

The program handles one message at a time, so every action is one message or one
key. `bar` and `logs` are the two overlays, `tab` the visible tab, `ticks` the
self-rescheduling ticks that are still alive. `Reaches` is the routing: the order
of the tests in `App.Update` and the switch in `Dashboard.Update`. `mode`,
`target`, `path`, `manifest`, `taskID` and `stop` (what `stopTask` cancels) are
fields of `peersModel`; `builds`, `sends` and `wait` are the commands it has
started, each on a goroutine of its own, and `live` those waits whose context has
not been cancelled. A command ends and its message is handled in one step, with
any outcome; as a command touches nothing but its message, it may as well have
ended earlier. The row under the cursor may be any peer, as a refresh can reorder
the list. `covered` is history: an overlay has been open.

A command bar that submits `profile` leaves the program: that is `SwitchProfile` of
`Launch`. The two keys that change an access list are `SetOpens` of `Admission`.

### Admission

| stage of a connection | next step | code |
|---|---|---|
| none, backlog | `Connect`, `Accept`, `CloseListener` | the network, `Serve` |
| greeting | `Greet`, `GreetFails` | `handle`: WhoIs, the hellos; `handlePeer` |
| reading | `ReadRequest`, `ReadEnds` | `blob.Receive`, `task.ReadTask`, `receiveResultRequest` |
| checking, looking | `ReadDefault`, `DefaultUnread`, `LookUp`, `LookUpFails` | `checkAccept`, `checkTaskAccept` over `aclKind` |
| decided | `Finish` | the verdict; what follows is in `TaskExecution` and `BlobTransfer` |

A setter is a call of `aclKind.set`, of this dashboard or of another process:
`SetOpens` (the temporary name is truncated), `SetWrites`, `SetRenames`, and at each
of them a failure or the death of the process. `fd` follows the file it has open,
which another setter may have renamed under it. An entry is abstracted to what it
says; a file without its allow line ("empty") says deny, as in the code.

`told` and `mixed` are history. `told` holds the decisions that a check may rightly
find on record: the last one of a set that ran alone, or all those of calls that
overlapped, since then (`mixed`) and until one runs alone again. The decision a key
toggles is the one the tab has cached, so `want` is free.

Abstractions. The owner edits an entry with an editor that replaces the file, and not
while a set of it is under way. The default may be edited at any time and may be
unreadable (`DefaultUnread`, which denies): `adrift` (history) holds the checks this
happened to between their two reads. Such a check may combine the default it has read
with a decision made later, two things that were never in force together; `VerdictAsTold`
judges it by the default it has read. A temporary file that is left behind is taken for
absent, since the next set truncates it before anyone reads it. WhoIs is assumed to
answer. `Intents` bounds what each connection may ask for.

### Launch

One process from `RunWelcome` to the dashboard, and what the user's processes share.

| at | steps | code |
|---|---|---|
| menu, list, naming, submenu, bench, deleting | `ChooseProfile`, `PickEntry`, `CreateProfile`, `ConfirmDelete`, `StartNode`, `Leave`... | `welcomeModel.update` by its `subMode` |
| role, key, warned | `NewNetwork`, `JoinNetwork`, `TypeKey`, `EnterKey`, `StartAnyway` | `triggerRole` and the key screen |
| settings | `OpenSettings`, `TypeSetting`, `MoveField`, `SaveForm`, `EscSettings` | the settings form |
| starting, loaded | `LoadConfig`, `MintSelfKey` | `LoadConfig`, the head of `runDashboard` |
| booting, cancelling | the steps of `bringUp`, `Progress`, `PostResult`, `ReadLine`, `ReadUp`, `ReadFailed`, `CancelBoot` | `RunBoot`, its goroutine over `node.New`, `bootingModel` |
| dashboard | `SwitchProfile`, `SwitchFails`, `Dies` | `/profile` and `execRestart`; the end |

A text is `<<directory, field>>`, what it was typed for, so a text in the wrong place
shows. The one text input of the screens is `input`; `vals` and `idx` are the form.
`active` is what `app.json` names: another process truncates it (`OtherTruncates`)
and then writes it (`OtherWrites`), and half a file names no profile. `Dies` may
happen anywhere, and the next `Launch` finds the files as they are.

A read may fail wherever the code reads: `LoadToken` takes the file for missing, so a
marker, a credential or a setting is not seen (`HasJoined`, `HasTailscaleAPI`, `Loaded`)
and a node.id is replaced (`LoadOrCreateIdentity`); a profile's directory falls back to
./data (`profileDataDir`), the form's too, whose header then says so (`formDir`); and
an `app.json` that cannot be read decides for ./data (`ResolveDataDir`).

`touched` (another process wrote `app.json` between the choice and its resolution, or
it could not be read then), `member` (which directories' nodes have been on the
tailnet) and `shown` (whose identity peers may know, and no start has failed to read
since) are history. `Overruled` is a choice of a profile that did not settle what comes
up: `touched`, or DATA_DIR is still set from an earlier choice of "default". A key typed
for it then goes to what comes up instead, which `KeyIsRight` names as its exception.

Abstractions. `UseProfile` of this process is one step, of others two. The prefix of
the form that `SaveForm` writes is free: a port that is none stops it before the
first, a write that fails at any later one. The fields that are picked from a list
have no files here, as no code reads them. Keys that come after `tea.Quit`, what an
abandoned form held, the status lines, explicit flags, `TS_AUTHKEY` and a `DATA_DIR`
the caller has set are left out, and so is a second process that boots the same
directory for its first time.

## 3. Runs

All of them are bounded by the sets of their constants alone but for `MaxBuilds`,
which bounds in `PeersTab` how many hashes of one path are under way; `starts` is
bounded by the code itself (`RunsAtMostOnce`).

| run | checks | bounds |
|---|---|---|
| `TaskExecution_safety` | the type invariant, six safety invariants and `FinishedIsFinal` | 2 handlers, 2 tasks, 2 dispatchers, one output that fits and one that does not, writes fail |
| `TaskExecution_live` | `CloseReturns`, `SlotComesFree`, `RunsSettle`, `KeepsPromise` | 2 handlers, 2 tasks, 1 dispatcher, 1 output; writes fail only on a closed database |
| `TaskGrid` | the type invariant, three safety invariants, `TellsOutcomes` and `AwaitEnds` | 2 nodes, 1 task, lookups and writes fail |
| `BlobTransfer_inbox` | `InboxSound`, `KeptIntact`, `DeliversWhole` | 2 transfers that are offered the same name, one of them of two chunks and edited while it is sent, 2 names |
| `BlobTransfer_ends` | the type invariant, `NoChunkOnRefusal`, `StoredMeansSent`, `TransfersEnd` | 1 transfer of a file with five versions: empty, short, two of the full length, too long; history writes fail |
| `PeersTab` | the type invariant, `SentAsConfirmed`, `OneWait`, `TabsLoseNothing`, `LateResultDropped` | 2 peers, 2 files, 3 tasks, 2 hashes of a file at once |
| `Admission` | the type invariant, `VerdictAsTold`, `ConnsClose` | 2 connections of one peer, one that may say hello or ask to run a task, one that asks for a result; 2 setters |
| `Launch` | the type invariant, `BootsPicked`, `LabelIsDir`, `KeyIsRight`, `FilesHoldTheirOwn`, `NodeFilesAreTrue`, `ResultIsSeen` | 1 profile beside ./data, a form of one typed and one picked field, a boot channel of one event |
| `SharedDataDir_reconcile` | finds `InterruptedIsDead` violated | 2 handlers, 2 tasks |
| `BlobTransfer_confirmed` | finds `ConfirmedMeansStored` violated | 1 transfer |
| `Launch_chosen` | finds `ChoiceDecides` violated | as `Launch` |
| `PeersTab_swallowed` | finds `NothingSwallowed` violated | 1 peer, 1 file, 1 task |

Two handlers are enough for the races on the slot, as the code compares no more
than a handler with the rest; two tasks are needed for one row that is finished
late while the next task runs; two dispatchers for a duplicate offer by another
peer. Two executing nodes are enough for a dispatcher that moves on from one
peer to the next. The theorems remove these bounds for everything but liveness.

Two transfers are enough for the races on the inbox, which are over one name at a
time; a chunk list of two tells the first, a middle and the last chunk apart as far
as the code does. Two peers, two files and three tasks let a late answer meet a
flow of its own peer, of another one, and a third that follows.

Two setters are enough for the races on one entry's temporary name: a set meets
another one that has opened, written or renamed it. The two connections differ in
whether their reading may last for ever. Blobs take the same way to their list as
tasks do. In `Launch` one profile and ./data are two directories that can be
mistaken for each other; one event is the smallest full channel; a form of two fields
has a first and a last one, a typed one and a picked one, and wraps around.

The run `PeersTab` declares the symmetry of its three sets, which is sound as it
checks no liveness property. Deadlock is checked in every run; in those of
`BlobTransfer` it says nothing, as a restart is always possible, and
`TransfersEnd` takes its place.

### Fairness, and why the code justifies it

- Handler steps other than reading an offer and the end of a process are weakly
  fair: goroutines are scheduled, database calls return and writes on a
  connection end (they fail when the connection goes).
- The end of a process is fair only once the context is cancelled:
  `exec.CommandContext` kills the process and `WaitDelay` bounds the rest.
- The steps of Close are fair. Connecting, sending an offer, crashing, restarting,
  stopping are not.
- `SlotComesFree` and `RunsSettle` assume `ProcessesEnd`, because the executor sets
  no time limit. `CloseReturns` assumes `ListenerCloses`: in `edgegrid up` the
  cancelled context closes the listener, but the dashboard calls `Close` before it
  cancels, so offers accepted while Close waits could in principle keep the wait
  group from reaching zero. Without the assumption TLC finds that behaviour.
- In `TaskGrid` the dispatcher's own steps are fair, that the answer of `DispatchTask`
  is handled or dropped included; the executing nodes' are not: nothing makes a peer
  answer.
- In `BlobTransfer_ends` each end is weakly fair as a whole (`Sender(x)`,
  `Receiver(x)`): every read and write of a connection has a deadline
  (`refreshDeadline`), so an end that waits goes on or fails, and which of the two
  is free. Edits, restarts and the people who take files are not fair.
- In `Admission` the accept loop takes what waits (`Accept` is weakly fair for each
  connection, as the backlog is a queue), and a connection's own steps are fair but for
  what a peer sends: the hello has a deadline of five seconds, a blob's manifest and a
  result request have theirs, a task has none (`Endless`), which `ConnsClose` excepts.
- In `Launch` the boot screen reads its channel (weakly fair), the quit message comes
  (`CancelEnds`), and the goroutine's last send is strongly fair: Go serves a sender
  that waits before a non-blocking one finds room. The bring-up itself is not fair.
- `PeersTab` asks for no liveness.

### Findings

- *InterruptedIsDead*: a second node on the same data directory
  (`cmd/edgegrid/main.go:325`) reconciles the rows of the live one. A process that
  outlives a crash of its own node breaks the comment of `ReconcileStaleTasks` too,
  without a second node; the run shows the shorter way.
- *ConfirmedMeansStored*: `SendBlob` records done, with the hash, when the last
  chunk is written (`node/blob_send.go:84`); nothing says that it was read. The
  converse for the receiver holds (`StoredMeansSent`), but for an empty file, which
  is complete before the sender has read the verdict.
- *NothingSwallowed*: while the log view or the command bar is open, every message
  but `RefreshMsg` goes to it (`tui/app/app.go:134-157`). The ticks of two tabs stop
  for good, and a transfer that ends then leaves the Peers tab in its sending
  mode, which takes no key.
- *ChoiceDecides*: picking the default entry sets `DATA_DIR` (`tui/app/welcome.go:1086`)
  and nothing unsets it, so whoever goes back and picks a profile boots ./data.

Disagreements without a run. Retention counts from the start of a task
(`db/tasks.go:147`), so a row may be pruned right after it finished. A failing read
at the executor is answered as unknown (`node/task_result.go:44`), which the
dispatcher stores as failed; `EndsAgree` names that exception. `task.Offer` waits for
the verdict without a deadline (`node/task_dispatch.go:39`), so a peer that dies then
is not skipped. Two calls of `aclKind.set` for one peer share a temporary name, so a
check may see half an entry after all (`node/aclstore.go:102`); it then refuses. Two of
the Peers tab: the answer of a
dispatch is lost when another tab is visible, which leaves the sent row running with
nobody waiting (`AnswerDropped` in `TaskGrid`), and a dispatch that was cancelled
may answer for the next one at the same peer, as only the peer is compared
(`peers.go:283` says that late answers are dropped).

## 4. Proofs

`TaskExecution_proofs` first says what each statement on the tasks table returns for
any set of keys. Then it proves, for every set of handlers, tasks, peers and
outputs and with or without failing writes, from the assumptions
`StoreAssumption` and `ExecutionAssumption` (the special values are not in the
sets they are special for, `Runnable` and `BigOutput` are subsets):

`TypeCorrect`, `SlotCorrect`, `RecordCorrect`, `OnceCorrect`, `DoneCorrect`,
`OwnedCorrect`, `WaitCorrect`, `FinalCorrect`: each of the safety properties of
`TaskExecution_safety`, as a theorem of `Spec`.

The argument. `SlotHasOneOwner` is inductive on its own, given the types.
`AcceptedIsOnRecord` needs nothing but that an insert is refused when the key is
taken and that a prune spares running rows. The others rest on each other and on
four facts that no property states (`IInv` in TaskExecution):

- `DownIsIdle`: a process that is gone has no handlers;
- `ProcessCounted`: a handler that has not started its process has a task with
  none, and an outcome that says done holds what the process returned;
- `UnrecordedIsUnstarted`: a task without a row has had no process, so an insert
  that succeeds never precedes a second process;
- `OutlivedIsLost`: of a task whose process has outlived its node there is a row that
  runs or is interrupted, and no handler serves it. `OutlivedCorrect` is this as a
  theorem; `DoneIsWhatRan` rests on it, since what such a process makes is not recorded.

`FinishedIsFinal` follows because only `FinishTask` changes a status from a row
that some handler is answerable for, and such a row runs.

`PeersTab_proofs` proves, for any sets and any `MaxBuilds`, from `PeersAssumption`:
`TypeCorrect`, `ConfirmedCorrect`, `WaitCorrect`, `DroppedCorrect`, `TabsCorrect`,
all the properties of the run `PeersTab`. The types are not inductive alone (that a
transfer ends in the sending mode is `SentAsConfirmed`, that the wait of another
task is not left pending is `OneWait`), so `IInv` joins them, with
`ResultIsAwaited`: the task in `taskID` is the one whose wait `stopTask` ends. From
that an abandoned wait cannot be the one in `taskID`, which is `DroppedCorrect`.
`TabsCorrect` adds that nothing covers the tabs, nor is about to, until something
is opened.

`BlobTransfer_proofs` proves, for any transfers, files, names and candidates, from
`BlobAssumption`: `TypeCorrect`, `WriterCorrect`, `InboxCorrect`, `KeptCorrect`,
`RefusalCorrect`, `StoredCorrect`, all that the runs check but `TransfersEnd` and
`DeliversWhole`; and `OneWriter`, that no two receives work on one inbox file.
`InboxSound` is not inductive. Its `IInv` adds `Held`, that a receive which may still
write to its inbox name finds there the file it created itself, from which
`OneWriter` is immediate; and `Ordered`, what each end has done when the other is at
a given stage (a chunk is sent only after an acceptance, a name is reserved only
before one, the receiver is through only when all chunks were sent). A receiver's
step either leaves the inbox alone (`FilesStay`), or creates a file at a free name
(`ReserveStep`), or changes the file it holds (`Rewritten`); `KeptIntact` follows
from the same split of the steps, the last two theorems from `Ordered` and
`InboxSound`.

`EndsCountDown`, `BlobSpec => EndsGoOn`, is the half of `TransfersEnd` that is not
fairness: an end has so many stages, chunks and names left (`SendLeft`, `ReceiveLeft`,
natural numbers by `IInv`), each step of its own lowers that number and no other step
raises it, so it takes finitely many steps. That it keeps taking them, since one of its
steps is always possible until it is over, stays with the run.

`BlobDelivery_proofs` proves `DeliveryKept`, `BlobSpec => DeliversWhole`, from
`BlobAssumption`. Each step maps to an announcement, a report of one end, a row, a
delivery, a taking, a restart, or to a stutter; `VerifyWhole` is the only one that
delivers. Beside `IInv` it needs `Answered` (BlobTransfer): an end that reports has
read of the other what justifies the report (done and a verified file need an
acceptance, a refusal on the wire means that the receiver has failed or refused), what is
sent is a version of the file, and no row is settled while its end is under way.

`TaskPromise_proofs` proves `PromiseKept`, `Spec => KeepsPromise`: the executing
node implements the abstract specification the dispatcher is built on, for any sets
and from the assumptions of `TaskExecution`. Every step of the node maps to a take
(the insert), a begin, an end, a settling (`FinishTask` that finds the row), a loss
(the crash, the end of the process), a recovery or a forgetting, or to a stutter.
The mapping needs `IInv` of `TaskExecution`: that only a running row is finished is
`OwnedCorrect`'s part, that a begun task has its row is `RecordCorrect`'s. It adds
`NothingIsBlank`: a key without a row holds nothing, and a process that ended well
has left an output.

`TaskGrid_proofs` proves, for any nodes, tasks, peers and outputs, from
`GridAssumption`: `GridTypeCorrect`, `AskedPeerCorrect`, `SentDoneCorrect`,
`EndsCorrect`, `AwaitedCorrect` and `OutcomesTold`, all that the run `TaskGrid`
checks but `AwaitEnds`.
Its `GridInv` adds, of the executors, `PromiseHolds` (a forgotten task belongs to
nobody, so a ledger that names this dispatcher has a row); `OfferedOnce` (a node is
offered a task at most once, so what it has forgotten it does not take again and an
old row is not taken for a new one); and of the dispatcher `CandHolds`, `RowsHold`
(a sent row names the peer that accepted) and `AnswerHolds` (the answer that is
about to be stored is still what the peer's ledger says). One lemma per action, and
one, `StoresStep`, for the steps by which an executor stores outcomes. It rests on
`Outlasts`, the assumption of section 2, as the model does. `OutcomesTold`,
`GridSpec => TellsOutcomes`, is the refinement: only the two writes of a sent row and
the reconcile of a restart map to steps of the history, an executor's step to one of
the promise, everything else to a stutter. That storing an answer late is the same as
copying it at once is `AnswerHolds`; that it never overwrites an outcome needs one more
invariant, `WaitsOnOpenRow` (only a restart settles a row behind a poll, and a process
that has stopped polls no more).

`Admission_proofs` proves `TypeCorrect` and `VerdictCorrect` from
`AdmissionAssumption`, for any connections, peers and setters. Its `IInv` adds
`FallbackIsDefault` (a check that has read the default, and is not `adrift`, holds
what the owner has on record for it), `OnRecord` (an entry says a decision that is `told`, or nothing after
sets that overlapped) and `SetterSound` (a setter that is alone has the temporary name
and what it wrote there to itself; the decisions of the others are all `told`). What a
look-up reads is then on record whoever sets the entry meanwhile, which is
`VerdictAsTold`.

`Launch_proofs` proves `TypeCorrect`, `BootsCorrect`, `LabelCorrect`, `KeyCorrect`,
`FilesCorrect` and `NodeFilesCorrect` from `LaunchAssumption`, for any directories
and fields. Its `IInv` adds `PickHolds` (from the choice to its resolution, `app.json`
or the environment still names what was chosen unless another process wrote it),
`InputHolds` (form and key are empty outside their screens, and the shared text
input belongs to the field that has the focus) and `BootHolds` (what the bring-up
has passed is on disk). Its steps fall into a few kinds, each with a lemma on what
it leaves alone.

Not proved, only model-checked: liveness (`CloseReturns`, `SlotComesFree`,
`RunsSettle`, `AwaitEnds`, `TransfersEnd`, `ConnsClose`, `ResultIsSeen`), which is out
of the prover's reach, and the four properties that the code violates.

## 5. What is not modelled, and the plan

1. The registry of live transfers: its atomics against a snapshot, the totals and
   the recent transfers; composed with `BlobTransfer`, whose transfers it shows.
2. The secret of the Tokens tab, and the greetings `Start` sends the peers it finds.
3. Two processes that open a fresh database, and the migration of it; two that boot
   one directory for the first time.
4. `Launch` in front of `PeersTab` in one program.

Left out for good: the Tailscale API client, system statistics and the layout of
the terminal (I/O and text), the planner (a stub), the JSON and the byte layout
of frames.
