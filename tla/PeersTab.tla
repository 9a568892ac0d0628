-------------------------------- MODULE PeersTab --------------------------------
(***************************************************************************)
(* The dashboard's event loop: how App.Update and Dashboard.Update route a  *)
(* message past the overlays and the tabs (tui/app/app.go,                  *)
(* tui/dashboard/dashboard.go), and the flows of the Peers tab that send a  *)
(* file or dispatch a task (tui/dashboard/peers.go).                        *)
(*                                                                          *)
(* Messages are handled one at a time.  A command runs on a goroutine of    *)
(* its own and posts its one message when it is done, so it ends and is     *)
(* heard of in one step here, with any outcome: it may have ended before    *)
(* what the loop has handled since.  A manifest is named by the file that   *)
(* was hashed, a task by its id, which it has from the start.               *)
(***************************************************************************)
EXTENDS Naturals

CONSTANTS
    Peer,
    File,       \* paths that may be typed
    Task,
    NoPeer,
    NoFile,
    NoTask,
    MaxBuilds   \* bounds the hashes of one path that are under way at once

ASSUME PeersAssumption ==
    /\ NoPeer \notin Peer /\ NoFile \notin File /\ NoTask \notin Task
    /\ MaxBuilds \in Nat

VARIABLES
    bar,        \* the command bar is active
    logs,       \* the log view is shown
    covered,    \* history: one of the two has been open
    posted,     \* SubmitMsg and CloseMsg on their way
    tab,
    ticks,      \* the self-rescheduling ticks that still are
    mode,
    target,
    path,
    manifest,
    builds,     \* how many hashes of each path are under way
    sends,      \* the transfers under way
    taskID,
    stop,       \* the task whose wait stopTask ends
    wait,       \* how far the wait for each task has come, and at which peer
    live        \* the waits under way that nobody has ended

overlayVars == <<bar, logs, covered, posted>>
fileVars == <<path, manifest, builds, sends>>
taskVars == <<taskID, stop, wait, live>>
peersVars == <<overlayVars, tab, ticks, mode, target, fileVars, taskVars>>

Tick == {"refresh", "peersRefresh", "historyRefresh", "transferTick"}
Tab == {"overview", "peers", "history", "tokens"}
Mode == {"browsing", "pickFile", "building", "ready", "sending", "pickKind", "dispatching"}

Unused == [what |-> "unused", peer |-> NoPeer]
Over == [what |-> "over", peer |-> NoPeer]
Wait == [what : {"dispatch", "await"}, peer : Peer] \cup {Unused, Over}

Pending == {t \in Task : wait[t].what \in {"dispatch", "await"}}

TypeOK ==
    /\ bar \in BOOLEAN /\ logs \in BOOLEAN /\ covered \in BOOLEAN
    /\ posted \subseteq {"submit", "close"}
    /\ tab \in Tab
    /\ ticks \subseteq Tick
    /\ mode \in Mode
    /\ target \in Peer \cup {NoPeer}
    /\ path \in File \cup {NoFile} /\ manifest \in File \cup {NoFile}
    /\ builds \in [File -> 0 .. MaxBuilds]
    /\ sends \subseteq [peer : Peer, file : File]
    /\ taskID \in Task \cup {NoTask} /\ stop \in Task \cup {NoTask}
    /\ wait \in [Task -> Wait]
    /\ live \subseteq Pending
    /\ mode # "browsing" => target # NoPeer
    /\ manifest # NoFile <=> mode \in {"ready", "sending"}
    /\ taskID # NoTask => mode = "dispatching"

PeersInit ==
    /\ bar = FALSE /\ logs = FALSE /\ covered = FALSE
    /\ posted = {}
    /\ tab = "overview"
    /\ ticks = Tick
    /\ mode = "browsing"
    /\ target = NoPeer
    /\ path = NoFile /\ manifest = NoFile
    /\ builds = [f \in File |-> 0]
    /\ sends = {}
    /\ taskID = NoTask /\ stop = NoTask
    /\ wait = [t \in Task |-> Unused]
    /\ live = {}

-----------------------------------------------------------------------------
(* Routing                                                                  *)

\* Slip: the result of a transfer goes to the visible tab only
AnyTabButSent == {"peersRefresh", "historyRefresh", "transferTick", "manifestBuilt"}

\* What Dashboard.Update hands to its model whichever tab is visible.
AnyTab == {"peersRefresh", "historyRefresh", "transferTick", "manifestBuilt", "blobSent"}

Covered == logs \/ bar

\* Only the tick of the overview goes past an overlay.
Reaches(msg) ==
    \/ msg = "refresh"
    \/ ~Covered /\ (msg \in AnyTab \/ tab = "peers")

KeyReaches == ~Covered /\ tab = "peers"
Typing == tab = "peers" /\ mode \in {"pickFile", "pickKind"}

OpenBar ==
    /\ ~Covered /\ ~Typing
    /\ bar' = TRUE /\ covered' = TRUE
    /\ UNCHANGED <<logs, posted, tab, ticks, mode, target, fileVars, taskVars>>

\* Esc, or an enter with the command logs: the bar closes before its message is read.
CloseBar ==
    /\ bar /\ ~logs
    /\ bar' = FALSE
    /\ posted' \in {posted, posted \cup {"submit"}}
    /\ UNCHANGED <<logs, covered, tab, ticks, mode, target, fileVars, taskVars>>

\* The log view swallows a second one.
SubmitArrives ==
    /\ "submit" \in posted
    /\ logs' = TRUE /\ covered' = TRUE
    /\ posted' = posted \ {"submit"}
    /\ UNCHANGED <<bar, tab, ticks, mode, target, fileVars, taskVars>>

EscLogs ==
    /\ logs
    /\ posted' = posted \cup {"close"}
    /\ UNCHANGED <<bar, logs, covered, tab, ticks, mode, target, fileVars, taskVars>>

CloseArrives ==
    /\ "close" \in posted
    /\ logs' = FALSE
    /\ posted' = posted \ {"close"}
    /\ UNCHANGED <<bar, covered, tab, ticks, mode, target, fileVars, taskVars>>

\* There is a Tokens tab when there are credentials to mint with.
NextTab(from) ==
    CASE from = "overview" -> {"peers"}
      [] from = "peers" -> {"history"}
      [] from = "history" -> {"tokens", "overview"}
      [] from = "tokens" -> {"overview"}

SwitchTab ==
    /\ ~Covered /\ ~Typing
    /\ tab' \in NextTab(tab)
    /\ UNCHANGED <<overlayVars, ticks, mode, target, fileVars, taskVars>>

\* A tick that is not handled is not scheduled again.
TickSwallowed(k) ==
    /\ k \in ticks /\ ~Reaches(k)
    /\ ticks' = ticks \ {k}
    /\ UNCHANGED <<overlayVars, tab, mode, target, fileVars, taskVars>>

-----------------------------------------------------------------------------
(* The flows of the Peers tab                                               *)

\* Slips: the wait goes on; the manifest stays
CancelFlowWaiting ==
    /\ mode' = "browsing"
    /\ path' = NoFile /\ manifest' = NoFile
    /\ taskID' = NoTask /\ stop' = NoTask
    /\ UNCHANGED live

CancelFlowHalf ==
    /\ mode' = "browsing"
    /\ path' = NoFile
    /\ taskID' = NoTask /\ stop' = NoTask
    /\ live' = live \ {stop}
    /\ UNCHANGED manifest

CancelFlow ==
    /\ mode' = "browsing"
    /\ path' = NoFile /\ manifest' = NoFile
    /\ taskID' = NoTask /\ stop' = NoTask
    /\ live' = live \ {stop}

\* Slip: esc leaves a transfer, too
EscAnywhere ==
    /\ KeyReaches /\ mode # "browsing"
    /\ CancelFlow
    /\ UNCHANGED <<overlayVars, tab, ticks, target, builds, sends, wait>>

Esc ==
    /\ KeyReaches /\ mode \notin {"browsing", "sending"}
    /\ CancelFlow
    /\ UNCHANGED <<overlayVars, tab, ticks, target, builds, sends, wait>>

\* The row under the cursor, which every refresh may have moved.
PickTarget(p) ==
    /\ KeyReaches /\ mode = "browsing"
    /\ target' = p
    /\ \/ mode' = "pickFile" /\ path' = NoFile /\ manifest' = NoFile
       \/ mode' = "pickKind" /\ UNCHANGED <<path, manifest>>
    /\ UNCHANGED <<overlayVars, tab, ticks, builds, sends, taskVars>>

EnterPath(f) ==
    /\ KeyReaches /\ mode = "pickFile"
    /\ builds[f] < MaxBuilds
    /\ mode' = "building" /\ path' = f
    /\ builds' = [builds EXCEPT ![f] = @ + 1]
    /\ UNCHANGED <<overlayVars, tab, ticks, target, manifest, sends, taskVars>>

\* Slip: the path is not compared
BuiltAnyPath(f) ==
    /\ builds[f] > 0
    /\ builds' = [builds EXCEPT ![f] = @ - 1]
    /\ IF Reaches("manifestBuilt") /\ mode = "building"
       THEN \/ mode' = "ready" /\ manifest' = f
            \/ mode' = "pickFile" /\ UNCHANGED manifest
       ELSE UNCHANGED <<mode, manifest>>
    /\ UNCHANGED <<overlayVars, tab, ticks, target, path, sends, taskVars>>

\* A hash that failed goes back to the path.
ManifestBuilt(f) ==
    /\ builds[f] > 0
    /\ builds' = [builds EXCEPT ![f] = @ - 1]
    /\ IF Reaches("manifestBuilt") /\ mode = "building" /\ path = f
       THEN \/ mode' = "ready" /\ manifest' = f
            \/ mode' = "pickFile" /\ UNCHANGED manifest
       ELSE UNCHANGED <<mode, manifest>>
    /\ UNCHANGED <<overlayVars, tab, ticks, target, path, sends, taskVars>>

EnterSend ==
    /\ KeyReaches /\ mode = "ready"
    /\ mode' = "sending"
    /\ sends' = sends \cup {[peer |-> target, file |-> path]}
    /\ UNCHANGED <<overlayVars, tab, ticks, target, path, manifest, builds, taskVars>>

BlobSent(s) ==
    /\ s \in sends
    /\ sends' = sends \ {s}
    /\ IF Reaches("blobSent")
       THEN mode' = "browsing" /\ path' = NoFile /\ manifest' = NoFile
       ELSE UNCHANGED <<mode, path, manifest>>
    /\ UNCHANGED <<overlayVars, tab, ticks, target, builds, taskVars>>

StartWait(t, what) ==
    /\ wait' = [wait EXCEPT ![t] = [what |-> what, peer |-> target]]
    /\ stop' = t
    /\ live' = (live \ {stop}) \cup {t}

EnterKind(t) ==
    /\ KeyReaches /\ mode = "pickKind" /\ wait[t] = Unused
    /\ mode' = "dispatching"
    /\ StartWait(t, "dispatch")
    /\ UNCHANGED <<overlayVars, tab, ticks, target, fileVars, taskID>>

WaitEnds(t) == wait' = [wait EXCEPT ![t] = Over]

\* The answer to any dispatch at the peer that is waited for will do.
TaskDispatched(t) ==
    /\ wait[t].what = "dispatch"
    /\ IF Reaches("taskDispatched") /\ mode = "dispatching" /\ wait[t].peer = target
       THEN \/ taskID' = t /\ StartWait(t, "await") /\ UNCHANGED <<mode, path, manifest>>
            \/ CancelFlow /\ WaitEnds(t)
       ELSE /\ WaitEnds(t) /\ live' = live \ {t}
            /\ UNCHANGED <<mode, path, manifest, taskID, stop>>
    /\ UNCHANGED <<overlayVars, tab, ticks, target, builds, sends>>

\* Slip: any result will do
ResultOfAny(t) ==
    /\ wait[t].what = "await"
    /\ WaitEnds(t)
    /\ IF Reaches("taskResult") /\ mode = "dispatching"
       THEN CancelFlow
       ELSE live' = live \ {t} /\ UNCHANGED <<mode, path, manifest, taskID, stop>>
    /\ UNCHANGED <<overlayVars, tab, ticks, target, builds, sends>>

TaskResult(t) ==
    /\ wait[t].what = "await"
    /\ WaitEnds(t)
    /\ IF Reaches("taskResult") /\ mode = "dispatching" /\ taskID = t
       THEN CancelFlow
       ELSE live' = live \ {t} /\ UNCHANGED <<mode, path, manifest, taskID, stop>>
    /\ UNCHANGED <<overlayVars, tab, ticks, target, builds, sends>>

PeersNext ==
    \/ OpenBar \/ CloseBar \/ SubmitArrives \/ EscLogs \/ CloseArrives \/ SwitchTab
    \/ \E k \in Tick : TickSwallowed(k)
    \/ Esc \/ EnterSend
    \/ \E p \in Peer : PickTarget(p)
    \/ \E f \in File : EnterPath(f) \/ ManifestBuilt(f)
    \/ \E s \in sends : BlobSent(s)
    \/ \E t \in Task : EnterKind(t) \/ TaskDispatched(t) \/ TaskResult(t)

PeersSpec == PeersInit /\ [][PeersNext]_peersVars

-----------------------------------------------------------------------------
(* Properties                                                               *)

\* SentAsConfirmed: what the confirmation shows is the file that was hashed, and
\* what is being sent is that file to that peer, one transfer at a time: no late
\* hash, refresh or key replaces one of the three (updateReady, manifestBuiltMsg).
SentAsConfirmed ==
    /\ mode \in {"ready", "sending"} => manifest = path
    /\ \A s \in sends : mode = "sending" /\ s = [peer |-> target, file |-> path]

\* OneWait: at most one dispatch or result wait goes on, the one stopTask can end,
\* and none once the tab has left the flow (startWait, cancelFlow).
OneWait ==
    /\ live \subseteq {stop}
    /\ stop # NoTask => mode = "dispatching"

\* ResultIsAwaited: the task whose result the tab is after is the one whose wait
\* stopTask ends, and that wait goes on or its end was swallowed.
ResultIsAwaited ==
    taskID # NoTask => taskID = stop /\ (taskID \in live \/ wait[taskID] = Over)

IInv == TypeOK /\ SentAsConfirmed /\ OneWait /\ ResultIsAwaited

\* LateResultDropped: a result whose wait was given up changes nothing when it
\* comes, whichever flow the tab is in by then (taskResultMsg).
LateResultDropped ==
    [][\A t \in Task :
         wait[t].what = "await" /\ t \notin live /\ wait'[t] = Over =>
            <<mode, target, path, manifest, taskID, stop>>'
                = <<mode, target, path, manifest, taskID, stop>>]_peersVars

\* NothingSwallowed: every self-rescheduling tick goes on, and a flow that waits
\* for a hash or a transfer is going to hear of it.
NothingSwallowed ==
    /\ ticks = Tick
    /\ mode = "building" => builds[path] > 0
    /\ mode = "sending" => sends # {}

\* TabsLoseNothing: switching tabs loses no tick, hash or transfer, and the
\* overview's tick survives the overlays as well (Dashboard.Update).
TabsLoseNothing == "refresh" \in ticks /\ (covered \/ NothingSwallowed)
=============================================================================
