---------------------------- MODULE PeersTab_proofs ----------------------------
(* The flows of the Peers tab, for any peers, files and tasks. *)
EXTENDS PeersTab, TLAPS

LEMMA InvInit == PeersInit => IInv
<1> SUFFICES ASSUME PeersInit PROVE IInv
    OBVIOUS
<1>1. wait \in [Task -> Wait] /\ live \subseteq Pending
      BY DEF PeersInit, Wait
<1>2. builds \in [File -> 0 .. MaxBuilds]
      BY PeersAssumption DEF PeersInit
<1>3. TypeOK
      BY <1>1, <1>2 DEF PeersInit, TypeOK, Tick, Tab, Mode
<1> QED BY <1>3 DEF PeersInit, IInv, SentAsConfirmed, OneWait, ResultIsAwaited

\* What the waits are made of.
LEMMA WaitShape ==
  ASSUME TypeOK, NEW t \in Task
  PROVE  /\ wait[t] \in Wait
         /\ t \in Pending => wait[t].what \in {"dispatch", "await"} /\ wait[t].peer \in Peer
         /\ Over.what = "over" /\ Unused.what = "unused"
  BY DEF TypeOK, Wait, Pending, Over, Unused

\* Ending a wait leaves the other ones as they are.
LEMMA EndedShape ==
  ASSUME TypeOK, NEW t \in Task, WaitEnds(t)
  PROVE  wait' \in [Task -> Wait] /\ Pending' = Pending \ {t} /\ wait'[t] = Over
<1>1. wait' \in [Task -> Wait] /\ wait'[t] = Over
      BY DEF TypeOK, WaitEnds, Wait
<1>2. \A u \in Task \ {t} : wait'[u] = wait[u]
      BY DEF TypeOK, WaitEnds
<1> QED BY <1>1, <1>2 DEF Pending, Over

LEMMA StartedShape ==
  ASSUME TypeOK, NEW t \in Task, NEW what \in {"dispatch", "await"},
         target \in Peer, StartWait(t, what)
  PROVE  wait' \in [Task -> Wait] /\ Pending' = Pending \cup {t}
<1>1. wait'[t] = [what |-> what, peer |-> target] /\ wait' \in [Task -> Wait]
      BY DEF TypeOK, StartWait, Wait
<1>2. \A u \in Task \ {t} : wait'[u] = wait[u]
      BY DEF TypeOK, StartWait
<1> QED BY <1>1, <1>2 DEF Pending

\* The flow that is given up, with its wait, or the one whose wait has ended.
LEMMA LeftFlow ==
  ASSUME IInv, CancelFlow, UNCHANGED <<bar, logs, covered, posted, tab, ticks, target, builds>>,
         mode # "sending", sends' = sends,
         wait' \in [Task -> Wait], Pending' \in SUBSET Task, live' \subseteq Pending'
  PROVE  IInv'
<1>1. sends = {} /\ live' = {}
      BY DEF IInv, SentAsConfirmed, OneWait, CancelFlow
<1>2. TypeOK'
      BY <1>1 DEF IInv, TypeOK, CancelFlow, Mode
<1> QED BY <1>1, <1>2 DEF IInv, SentAsConfirmed, OneWait, ResultIsAwaited, CancelFlow

\* The wait that ended was given up, or its message was swallowed.
LEMMA Unheard ==
  ASSUME IInv, NEW t \in Task, WaitEnds(t), live' = live \ {t},
         UNCHANGED <<overlayVars, tab, ticks, mode, target, fileVars, taskID, stop>>
  PROVE  IInv'
<1>1. wait' \in [Task -> Wait] /\ Pending' = Pending \ {t} /\ wait'[t] = Over
      BY EndedShape DEF IInv
<1>2. \A u \in Task \ {t} : wait'[u] = wait[u]
      BY DEF IInv, TypeOK, WaitEnds
<1>3. TypeOK'
      BY <1>1 DEF IInv, TypeOK, overlayVars, fileVars
<1>4. SentAsConfirmed' /\ OneWait'
      BY DEF IInv, SentAsConfirmed, OneWait, fileVars
<1>5. ResultIsAwaited'
      BY <1>1, <1>2 DEF IInv, TypeOK, ResultIsAwaited
<1> QED BY <1>3, <1>4, <1>5 DEF IInv

LEMMA InvStep == IInv /\ [PeersNext]_peersVars => IInv'
<1> SUFFICES ASSUME IInv, [PeersNext]_peersVars PROVE IInv'
    OBVIOUS
<1> USE PeersAssumption
<1>1. CASE OpenBar \/ CloseBar \/ SubmitArrives \/ EscLogs \/ CloseArrives
  <2>1. TypeOK'
        BY <1>1 DEF OpenBar, CloseBar, SubmitArrives, EscLogs, CloseArrives,
                    IInv, TypeOK, fileVars, taskVars, Pending
  <2> QED BY <1>1, <2>1 DEF OpenBar, CloseBar, SubmitArrives, EscLogs, CloseArrives,
                    IInv, SentAsConfirmed, OneWait, ResultIsAwaited, fileVars, taskVars
<1>2. CASE SwitchTab
  <2>1. tab' \in Tab
    <3>1. CASE tab = "overview"
          BY <1>2, <3>1 DEF SwitchTab, NextTab, Tab
    <3>2. CASE tab = "peers"
          BY <1>2, <3>2 DEF SwitchTab, NextTab, Tab
    <3>3. CASE tab = "history"
          BY <1>2, <3>3 DEF SwitchTab, NextTab, Tab
    <3>4. CASE tab = "tokens"
          BY <1>2, <3>4 DEF SwitchTab, NextTab, Tab
    <3> QED BY <3>1, <3>2, <3>3, <3>4 DEF IInv, TypeOK, Tab
  <2>2. TypeOK'
        BY <1>2, <2>1 DEF SwitchTab, IInv, TypeOK, overlayVars, fileVars, taskVars, Pending
  <2> QED BY <1>2, <2>2 DEF SwitchTab, IInv, SentAsConfirmed, OneWait, ResultIsAwaited,
                    fileVars, taskVars
<1>3. ASSUME NEW k \in Tick, TickSwallowed(k) PROVE IInv'
  <2>1. TypeOK'
        BY <1>3 DEF TickSwallowed, IInv, TypeOK, overlayVars, fileVars, taskVars, Pending
  <2> QED BY <1>3, <2>1 DEF TickSwallowed, IInv, SentAsConfirmed, OneWait, ResultIsAwaited,
                    fileVars, taskVars
<1>4. CASE Esc
  <2>1. wait' = wait /\ Pending' = Pending /\ live' \subseteq live
        BY <1>4 DEF Esc, CancelFlow, Pending
  <2> QED BY <1>4, <2>1, LeftFlow DEF Esc, IInv, TypeOK, Pending, overlayVars
<1>5. CASE EnterSend
  <2>1. path \in File /\ target \in Peer /\ sends = {}
        BY <1>5 DEF EnterSend, IInv, TypeOK, SentAsConfirmed
  <2>2. sends' = {[peer |-> target, file |-> path]}
        BY <1>5, <2>1 DEF EnterSend
  <2>3. TypeOK'
        BY <1>5, <2>1, <2>2 DEF EnterSend, IInv, TypeOK, Mode, overlayVars, taskVars, Pending
  <2> QED BY <1>5, <2>2, <2>3 DEF EnterSend, IInv, SentAsConfirmed, OneWait, ResultIsAwaited,
                    TypeOK, taskVars
<1>6. ASSUME NEW p \in Peer, PickTarget(p) PROVE IInv'
  <2>1. sends = {} /\ taskID = NoTask /\ manifest' = NoFile /\ path' \in File \cup {NoFile}
        BY <1>6 DEF PickTarget, IInv, TypeOK, SentAsConfirmed
  <2>2. TypeOK'
        BY <1>6, <2>1 DEF PickTarget, IInv, TypeOK, Mode, overlayVars, taskVars, Pending
  <2> QED BY <1>6, <2>1, <2>2 DEF PickTarget, IInv, SentAsConfirmed, OneWait,
                    ResultIsAwaited, taskVars
<1>7. ASSUME NEW f \in File, EnterPath(f) PROVE IInv'
  <2>1. builds' \in [File -> 0 .. MaxBuilds]
        BY <1>7 DEF EnterPath, IInv, TypeOK
  <2>2. TypeOK'
        BY <1>7, <2>1 DEF EnterPath, IInv, TypeOK, Mode, overlayVars, taskVars, Pending
  <2> QED BY <1>7, <2>2 DEF EnterPath, IInv, SentAsConfirmed, OneWait, ResultIsAwaited,
                    TypeOK, taskVars
<1>8. ASSUME NEW f \in File, ManifestBuilt(f) PROVE IInv'
  <2>1. builds' \in [File -> 0 .. MaxBuilds]
        BY <1>8 DEF ManifestBuilt, IInv, TypeOK
  <2>2. TypeOK'
        BY <1>8, <2>1 DEF ManifestBuilt, IInv, TypeOK, Mode, overlayVars, taskVars, Pending
  <2> QED BY <1>8, <2>2 DEF ManifestBuilt, IInv, SentAsConfirmed, OneWait, ResultIsAwaited,
                    TypeOK, taskVars
<1>9. ASSUME NEW s \in sends, BlobSent(s) PROVE IInv'
  <2>1. mode = "sending" /\ taskID = NoTask
        BY <1>9 DEF IInv, TypeOK, SentAsConfirmed
  <2>2. sends' = {}
        BY <1>9 DEF BlobSent, IInv, SentAsConfirmed
  <2>3. TypeOK'
        BY <1>9, <2>1, <2>2 DEF BlobSent, IInv, TypeOK, Mode, overlayVars, taskVars, Pending
  <2> QED BY <1>9, <2>1, <2>2, <2>3 DEF BlobSent, IInv, SentAsConfirmed, OneWait,
                    ResultIsAwaited, taskVars
<1>10. ASSUME NEW t \in Task, EnterKind(t) PROVE IInv'
  <2>1. target \in Peer /\ taskID = NoTask /\ sends = {} /\ manifest = NoFile
        BY <1>10 DEF EnterKind, IInv, TypeOK, SentAsConfirmed
  <2>2. wait' \in [Task -> Wait] /\ Pending' = Pending \cup {t}
        BY <1>10, <2>1, StartedShape DEF EnterKind, IInv
  <2>3. stop' = t /\ live' = {t}
        BY <1>10 DEF EnterKind, StartWait, IInv, OneWait
  <2>4. TypeOK'
        BY <1>10, <2>1, <2>2, <2>3 DEF EnterKind, IInv, TypeOK, Mode, overlayVars, fileVars
  <2> QED BY <1>10, <2>1, <2>3, <2>4 DEF EnterKind, IInv, SentAsConfirmed, OneWait,
                    ResultIsAwaited, fileVars
<1>11. ASSUME NEW t \in Task, TaskDispatched(t) PROVE IInv'
  <2>1. CASE /\ mode = "dispatching" /\ taskID' = t /\ StartWait(t, "await")
             /\ UNCHANGED <<mode, path, manifest>>
    <3>1. target \in Peer /\ sends = {} /\ manifest = NoFile
          BY <2>1 DEF IInv, TypeOK, SentAsConfirmed
    <3>2. wait' \in [Task -> Wait] /\ Pending' = Pending \cup {t}
          BY <2>1, <3>1, StartedShape DEF IInv
    <3>3. stop' = t /\ live' = {t}
          BY <2>1 DEF StartWait, IInv, OneWait
    <3>4. TypeOK'
          BY <1>11, <2>1, <3>1, <3>2, <3>3 DEF TaskDispatched, IInv, TypeOK, overlayVars
    <3> QED BY <1>11, <2>1, <3>1, <3>3, <3>4 DEF TaskDispatched, IInv, SentAsConfirmed,
                    OneWait, ResultIsAwaited
  <2>2. CASE mode = "dispatching" /\ CancelFlow /\ WaitEnds(t)
    <3>1. live' = {} /\ wait' \in [Task -> Wait]
          BY <2>2, EndedShape DEF CancelFlow, IInv, OneWait
    <3> QED BY <1>11, <2>2, <3>1, LeftFlow DEF TaskDispatched, Pending, overlayVars
  <2>3. CASE WaitEnds(t) /\ live' = live \ {t}
             /\ UNCHANGED <<mode, path, manifest, taskID, stop>>
        BY <1>11, <2>3, Unheard DEF TaskDispatched, fileVars
  <2> QED BY <1>11, <2>1, <2>2, <2>3 DEF TaskDispatched
<1>12. ASSUME NEW t \in Task, TaskResult(t) PROVE IInv'
  <2>1. CASE mode = "dispatching" /\ CancelFlow
    <3>1. live' = {} /\ wait' \in [Task -> Wait]
          BY <1>12, <2>1, EndedShape DEF TaskResult, CancelFlow, IInv, OneWait
    <3> QED BY <1>12, <2>1, <3>1, LeftFlow DEF TaskResult, Pending, overlayVars
  <2>2. CASE live' = live \ {t} /\ UNCHANGED <<mode, path, manifest, taskID, stop>>
        BY <1>12, <2>2, Unheard DEF TaskResult, fileVars
  <2> QED BY <1>12, <2>1, <2>2 DEF TaskResult
<1>13. CASE UNCHANGED peersVars
  <2>1. TypeOK'
        BY <1>13 DEF peersVars, IInv, TypeOK, overlayVars, fileVars, taskVars, Pending
  <2> QED BY <1>13, <2>1 DEF peersVars, IInv, SentAsConfirmed, OneWait, ResultIsAwaited,
                    fileVars, taskVars
<1> QED BY <1>1, <1>2, <1>3, <1>4, <1>5, <1>6, <1>7, <1>8, <1>9, <1>10, <1>11, <1>12,
           <1>13 DEF PeersNext

LEMMA InvAlways == PeersSpec => []IInv
  BY InvInit, InvStep, PTL DEF PeersSpec

\* TypeCorrect: every reachable state of the tab is well formed; a manifest is held
\* from the end of the hash to the end of the transfer and no longer (peers.go).
THEOREM TypeCorrect == PeersSpec => []TypeOK
  BY InvAlways, PTL DEF IInv

\* ConfirmedCorrect: what is being sent is what the user confirmed, whatever
\* hashes come late (peersModel.Update).
THEOREM ConfirmedCorrect == PeersSpec => []SentAsConfirmed
  BY InvAlways, PTL DEF IInv

\* WaitCorrect: no flow leaves a dispatch or a result wait behind that nothing can
\* end (startWait, cancelFlow).
THEOREM WaitCorrect == PeersSpec => []OneWait
  BY InvAlways, PTL DEF IInv

LEMMA DroppedStep ==
  ASSUME IInv, [PeersNext]_peersVars, NEW t \in Task,
         wait[t].what = "await", t \notin live, wait'[t] = Over
  PROVE  UNCHANGED <<mode, target, path, manifest, taskID, stop>>
<1>1. wait[t] # Over /\ ~(wait'[t] = wait[t])
      BY DEF Over
<1>2. taskID # t
      BY <1>1, PeersAssumption DEF IInv, ResultIsAwaited
<1>3. ASSUME NEW u \in Task, TaskResult(u) PROVE u = t
      BY <1>1, <1>3 DEF TaskResult, WaitEnds, IInv, TypeOK
<1>4. ASSUME NEW u \in Task, TaskDispatched(u) PROVE FALSE
  <2>1. u # t
        BY <1>4 DEF TaskDispatched
  <2>2. wait'[t] = wait[t]
        BY <1>4, <2>1 DEF TaskDispatched, StartWait, WaitEnds, IInv, TypeOK
  <2> QED BY <1>1, <2>2
<1>5. ASSUME NEW u \in Task, EnterKind(u) PROVE FALSE
  <2>1. u # t
        BY <1>5 DEF EnterKind, Unused
  <2>2. wait'[t] = wait[t]
        BY <1>5, <2>1 DEF EnterKind, StartWait, IInv, TypeOK
  <2> QED BY <1>1, <2>2
<1>6. wait' # wait
      BY <1>1
<1>7. TaskResult(t)
      BY <1>3, <1>4, <1>5, <1>6
      DEF PeersNext, peersVars, OpenBar, CloseBar, SubmitArrives, EscLogs, CloseArrives,
          SwitchTab, TickSwallowed, Esc, EnterSend, PickTarget, EnterPath, ManifestBuilt,
          BlobSent, taskVars
<1> QED BY <1>2, <1>7 DEF TaskResult

\* DroppedCorrect: the late result of a wait that was given up disturbs no flow
\* (the taskResultMsg case of peersModel.Update).
THEOREM DroppedCorrect == PeersSpec => LateResultDropped
<1>1. IInv /\ [PeersNext]_peersVars =>
        \A t \in Task :
          wait[t].what = "await" /\ t \notin live /\ wait'[t] = Over =>
            <<mode, target, path, manifest, taskID, stop>>'
                = <<mode, target, path, manifest, taskID, stop>>
      BY DroppedStep
<1> QED BY <1>1, InvAlways, PTL DEF PeersSpec, LateResultDropped

-----------------------------------------------------------------------------
(* Tabs and overlays                                                        *)

\* Until something is opened nothing covers the tabs or is about to.
Uncovered == ~covered => ~Covered /\ "submit" \notin posted

LEMMA UncoveredInit == PeersInit => Uncovered /\ TabsLoseNothing
  BY DEF PeersInit, Uncovered, Covered, TabsLoseNothing, NothingSwallowed, Tick

LEMMA UncoveredStep == Uncovered /\ [PeersNext]_peersVars => Uncovered'
<1> SUFFICES ASSUME Uncovered, [PeersNext]_peersVars PROVE Uncovered'
    OBVIOUS
<1> USE DEF Uncovered, Covered
<1>1. CASE OpenBar \/ CloseBar \/ SubmitArrives \/ EscLogs \/ CloseArrives
      BY <1>1 DEF OpenBar, CloseBar, SubmitArrives, EscLogs, CloseArrives
<1>2. CASE UNCHANGED overlayVars
      BY <1>2 DEF overlayVars
<1> QED BY <1>1, <1>2
        DEF PeersNext, peersVars, SwitchTab, TickSwallowed, Esc, EnterSend, PickTarget,
            EnterPath, ManifestBuilt, BlobSent, EnterKind, TaskDispatched, TaskResult

LEMMA TabsStep ==
  IInv /\ Uncovered /\ TabsLoseNothing /\ [PeersNext]_peersVars => TabsLoseNothing'
<1> SUFFICES ASSUME IInv, Uncovered, TabsLoseNothing, [PeersNext]_peersVars
             PROVE  TabsLoseNothing'
    OBVIOUS
<1> USE DEF TabsLoseNothing, NothingSwallowed
<1>1. CASE OpenBar \/ CloseBar \/ SubmitArrives \/ EscLogs \/ CloseArrives \/ SwitchTab
      BY <1>1 DEF OpenBar, CloseBar, SubmitArrives, EscLogs, CloseArrives, SwitchTab,
                  overlayVars, fileVars
<1>2. ASSUME NEW k \in Tick, TickSwallowed(k) PROVE TabsLoseNothing'
  <2>1. k # "refresh" /\ covered
        BY <1>2 DEF TickSwallowed, Reaches, Uncovered, Tick, AnyTab
  <2> QED BY <1>2, <2>1 DEF TickSwallowed, overlayVars
<1>3. CASE Esc
      BY <1>3 DEF Esc, CancelFlow, overlayVars
<1>4. CASE EnterSend
      BY <1>4 DEF EnterSend, overlayVars
<1>5. ASSUME NEW p \in Peer, PickTarget(p) PROVE TabsLoseNothing'
      BY <1>5 DEF PickTarget, overlayVars
<1>6. ASSUME NEW f \in File, EnterPath(f) PROVE TabsLoseNothing'
  <2>1. builds'[f] > 0
        BY <1>6 DEF EnterPath, IInv, TypeOK
  <2> QED BY <1>6, <2>1 DEF EnterPath, overlayVars
<1>7. ASSUME NEW f \in File, ManifestBuilt(f) PROVE TabsLoseNothing'
  <2>1. CASE mode = "building" /\ path = f
        BY <1>7, <2>1 DEF ManifestBuilt, Reaches, AnyTab, Uncovered, overlayVars
  <2>2. CASE mode # "building"
        BY <1>7, <2>2 DEF ManifestBuilt, overlayVars
  <2>3. CASE mode = "building" /\ path # f
    <3>1. builds'[path] = builds[path] /\ mode' = mode /\ path' = path
          BY <1>7, <2>3, PeersAssumption DEF ManifestBuilt, IInv, TypeOK
    <3> QED BY <1>7, <2>3, <3>1 DEF ManifestBuilt, overlayVars
  <2> QED BY <2>1, <2>2, <2>3
<1>8. ASSUME NEW s \in sends, BlobSent(s) PROVE TabsLoseNothing'
  <2>1. mode = "sending"
        BY <1>8 DEF IInv, SentAsConfirmed
  <2> QED BY <1>8, <2>1 DEF BlobSent, Reaches, AnyTab, Uncovered, overlayVars
<1>9. ASSUME NEW t \in Task, EnterKind(t) PROVE TabsLoseNothing'
      BY <1>9 DEF EnterKind, overlayVars
<1>10. ASSUME NEW t \in Task, TaskDispatched(t) \/ TaskResult(t) PROVE TabsLoseNothing'
      BY <1>10 DEF TaskDispatched, TaskResult, CancelFlow, overlayVars
<1>11. CASE UNCHANGED peersVars
      BY <1>11 DEF peersVars, overlayVars, fileVars
<1> QED BY <1>1, <1>2, <1>3, <1>4, <1>5, <1>6, <1>7, <1>8, <1>9, <1>10, <1>11 DEF PeersNext

\* TabsCorrect: no sequence of tab switches loses a tick, a hash or a transfer
\* (the routing of Dashboard.Update).
THEOREM TabsCorrect == PeersSpec => []TabsLoseNothing
  BY InvAlways, UncoveredInit, UncoveredStep, TabsStep, PTL DEF PeersSpec
=============================================================================
