-------------------------- MODULE TaskExecution_proofs --------------------------
(***************************************************************************)
(* TaskExecution's safety for every set of handlers, tasks, peers and       *)
(* outputs, with or without failing writes.  It begins with what each       *)
(* statement on the tasks table returns, whatever the set of keys.          *)
(***************************************************************************)
EXTENDS TaskExecution, TLAPS

-----------------------------------------------------------------------------
(* The statements on the tasks table                                        *)

\* An INSERT puts a running row of the peer at its key and touches no other.
LEMMA StartRecords ==
    ASSUME NEW K, NEW tab \in [K -> Row], NEW k \in K, NEW p \in Peer
    PROVE  /\ RecordTaskStart(tab, k, p) \in [K -> Row]
           /\ RecordTaskStart(tab, k, p)[k].status = "running"
           /\ RecordTaskStart(tab, k, p)[k].peer = p
           /\ \A j \in K \ {k} : RecordTaskStart(tab, k, p)[j] = tab[j]
<1>1. [ peer |-> p, status |-> "running", output |-> NoOutput,
        started |-> "recent", finished |-> "recent" ] \in Row
    BY DEF Row, Age
<1> QED BY <1>1 DEF RecordTaskStart

\* A finish keeps the row's peer and touches no other key; it leaves the row in
\* the finished status it was given, except that a done result may turn failed.
\* Only a row that ends up done has an output, which is then the one given.
LEMMA FinishRecords ==
    ASSUME NEW K, NEW tab \in [K -> Row], NEW k \in K,
           NEW s \in Finished, NEW o \in Output \cup {NoOutput}
    PROVE  LET new == RecordTaskFinish(tab, k, s, o)
           IN  /\ new \in [K -> Row]
               /\ \A j \in K \ {k} : new[j] = tab[j]
               /\ Exists(tab, k) => new[k].status \in Finished
               /\ Exists(tab, k) /\ new[k].status = "done" => s = "done" /\ new[k].output = o
               /\ ~Exists(tab, k) => new = tab
<1> DEFINE row == [tab[k] EXCEPT !.status = StoredStatus(s, o),
                                 !.output = StoredOutput(s, o),
                                 !.finished = "recent"]
<1>1. StoredStatus(s, o) \in Finished /\ (StoredStatus(s, o) = "done" => s = "done")
    BY DEF StoredStatus, Finished
<1>2. StoredOutput(s, o) \in Output \cup {NoOutput}
    BY DEF StoredOutput
<1>3. tab[k] \in Row
    OBVIOUS
<1>4. /\ row \in Row
      /\ row.status = StoredStatus(s, o)
      /\ row.output = StoredOutput(s, o)
    BY <1>1, <1>2, <1>3 DEF Row, Age
<1>6. StoredStatus(s, o) = "done" => StoredOutput(s, o) = o
    BY DEF StoredOutput
<1>7. CASE Exists(tab, k)
    <2>1. RecordTaskFinish(tab, k, s, o) = [tab EXCEPT ![k] = row]
        BY <1>7 DEF RecordTaskFinish
    <2> HIDE DEF row
    <2>2. [tab EXCEPT ![k] = row] \in [K -> Row]
        BY <1>4
    <2>3. [tab EXCEPT ![k] = row][k] = row
        OBVIOUS
    <2>4. row.status = StoredStatus(s, o) /\ row.output = StoredOutput(s, o)
        BY <1>4
    <2> QED BY <1>1, <1>6, <1>7, <2>1, <2>2, <2>3, <2>4
<1>8. CASE ~Exists(tab, k)
    BY <1>8 DEF RecordTaskFinish
<1> QED BY <1>7, <1>8

\* A reconcile leaves no row running, and changes nothing but the status and
\* the finish time of the rows that ran.
LEMMA ReconcileSettles ==
    ASSUME NEW K, NEW tab \in [K -> Row]
    PROVE  LET new == ReconcileStaleTasks(tab)
           IN  /\ new \in [K -> Row]
               /\ \A k \in K : new[k].status # "running"
               /\ \A k \in K : tab[k].status # "running" => new[k] = tab[k]
               /\ \A k \in K : tab[k].status = "running" => new[k].status = "interrupted"
<1>1. \A k \in K : tab[k].status = "running" =>
        LET row == [tab[k] EXCEPT !.status = "interrupted", !.finished = "recent"]
        IN  row \in Row /\ row.status = "interrupted"
    BY DEF Row, Age, Finished
<1>2. DOMAIN tab = K
    OBVIOUS
<1> QED BY <1>1, <1>2 DEF ReconcileStaleTasks

\* A prune keeps every running row; a row it changes is gone.
LEMMA PruneKeepsRunning ==
    ASSUME NEW K, NEW tab \in [K -> Row]
    PROVE  LET new == PruneTasks(tab)
           IN  /\ new \in [K -> Row]
               /\ \A k \in K : new[k] = tab[k] \/ new[k] = Absent
               /\ \A k \in K : tab[k].status = "running" => new[k] = tab[k]
<1>1. Absent \in Row
    BY DEF Absent, Row, Age
<1> QED BY <1>1 DEF PruneTasks, Prunable

\* The passing of time changes no status, peer or output.
LEMMA TimeKeepsRows ==
    ASSUME NEW K, NEW tab \in [K -> Row]
    PROVE  LET new == RetentionPasses(tab)
           IN  /\ new \in [K -> Row]
               /\ \A k \in K : /\ new[k].status = tab[k].status
                               /\ new[k].peer = tab[k].peer
                               /\ new[k].output = tab[k].output
<1>1. \A k \in K :
        LET row == [tab[k] EXCEPT
                        !.started  = IF Exists(tab, k) THEN "old" ELSE @,
                        !.finished = IF tab[k].status \in Finished THEN "old" ELSE @]
        IN  /\ row \in Row
            /\ row.status = tab[k].status
            /\ row.peer = tab[k].peer
            /\ row.output = tab[k].output
    BY DEF Row, Age, Exists
<1> QED BY <1>1 DEF RetentionPasses

USE StoreAssumption, ExecutionAssumption

-----------------------------------------------------------------------------
(* Type correctness                                                         *)

LEMMA AbsentIsRow == Absent \in Row
BY DEF Absent, Row, Age

\* A handler that has read its offer serves a task of a peer.
LEMMA OfferTyped ==
    ASSUME TypeOK, NEW h \in Handler, pc[h] \notin {"idle", "reading"}
    PROVE  TaskOf(h) \in Task /\ PeerOf(h) \in Peer
BY DEF TypeOK

LEMMA FinishTaskTyped ==
    ASSUME TypeOK, NEW t \in Task, NEW s \in Finished, NEW o \in Output \cup {NoOutput},
           FinishTask(t, s, o)
    PROVE  rows' \in [Task -> Row] /\ unsaved' \in SUBSET Task
<1>1. rows \in [Task -> Row] /\ unsaved \in SUBSET Task
    BY DEF TypeOK
<1>2. CASE StoreOpen /\ rows' = RecordTaskFinish(rows, t, s, o) /\ UNCHANGED unsaved
    BY <1>1, <1>2, FinishRecords
<1>3. CASE unsaved' = unsaved \cup {t} /\ UNCHANGED rows
    BY <1>1, <1>3
<1> QED BY <1>2, <1>3 DEF FinishTask

LEMMA InitTyped == Init => TypeOK
<1> SUFFICES ASSUME Init PROVE TypeOK
    OBVIOUS
<1>1. rows \in [Task -> Row]
    BY AbsentIsRow DEF Init
<1>2. offer \in [Handler -> Offer]
    BY DEF Init, Offer, NoOffer
<1>3. outcome \in [Handler -> Outcome]
    BY DEF Init, Outcome, NoOutcome, Finished
<1> QED BY <1>1, <1>2, <1>3 DEF Init, TypeOK, Phase, PC

LEMMA ReceivingTyped ==
    ASSUME TypeOK, NEW h \in Handler, Receiving(h)
    PROVE  TypeOK'
<1> USE DEF TypeOK, Offer, NoOffer, PC, Goto, TaskOf, PeerOf, nodeVars, ghosts
<1>1. ASSUME NEW p \in Peer, Connect(h, p) PROVE TypeOK'
    BY <1>1 DEF Connect
<1>2. ASSUME NEW t \in Task, ReadTask(h, t) PROVE TypeOK'
    BY <1>2 DEF ReadTask
<1>3. CASE ReadFails(h)
    BY <1>3 DEF ReadFails
<1> QED BY <1>1, <1>2, <1>3 DEF Receiving

LEMMA AcceptingTyped ==
    ASSUME TypeOK, NEW h \in Handler, Accepting(h)
    PROVE  TypeOK'
<1> USE DEF TypeOK, Offer, NoOffer, PC, Goto, TaskOf, PeerOf, nodeVars, ghosts
<1>1. CASE PolicyAllows(h)
    BY <1>1 DEF PolicyAllows
<1>2. CASE PolicyRefuses(h)
    BY <1>2 DEF PolicyRefuses
<1>3. CASE TryClaim(h)
    BY <1>3 DEF TryClaim
<1>4. CASE ClaimRefused(h)
    BY <1>4 DEF ClaimRefused
<1>5. CASE RecordStart(h)
    <2>1. rows' \in [Task -> Row]
        BY <1>5, StartRecords DEF RecordStart
    <2> QED BY <1>5, <2>1 DEF RecordStart
<1>6. CASE RecordStartFails(h)
    BY <1>6 DEF RecordStartFails
<1>7. CASE ReleaseUnrecorded(h)
    BY <1>7 DEF ReleaseUnrecorded
<1> QED BY <1>1, <1>2, <1>3, <1>4, <1>5, <1>6, <1>7 DEF Accepting

LEMMA AnsweringTyped ==
    ASSUME TypeOK, NEW h \in Handler, Answering(h)
    PROVE  TypeOK'
<1> USE DEF TypeOK, Offer, NoOffer, PC, Goto, TaskOf, PeerOf, nodeVars, ghosts
<1>1. CASE WriteVerdict(h)
    BY <1>1 DEF WriteVerdict
<1>2. CASE WriteVerdictFails(h)
    BY <1>2 DEF WriteVerdictFails
<1>3. CASE ReleaseUnanswered(h)
    BY <1>3 DEF ReleaseUnanswered
<1>4. CASE FinishUnanswered(h)
    <2>1. rows' \in [Task -> Row] /\ unsaved' \in SUBSET Task
        BY <1>4, FinishTaskTyped DEF FinishUnanswered, Finished
    <2> QED BY <1>4, <2>1 DEF FinishUnanswered
<1>5. CASE Prune(h)
    <2>1. rows' \in [Task -> Row]
        BY <1>5, PruneKeepsRunning DEF Prune
    <2> QED BY <1>5, <2>1 DEF Prune
<1>6. CASE Launch(h)
    BY <1>6 DEF Launch
<1> QED BY <1>1, <1>2, <1>3, <1>4, <1>5, <1>6 DEF Answering

LEMMA RunErrorTyped == RunError \in Outcome
BY DEF RunError, Outcome, Finished

LEMMA RunEndsTyped ==
    ASSUME TypeOK, NEW h \in Handler, RunEnds(h)
    PROVE  TypeOK'
<1> USE DEF TypeOK, PC, Goto, TaskOf, PeerOf, nodeVars, ghosts
<1>1. CASE RunFails(h)
    BY <1>1, RunErrorTyped DEF RunFails
<1>2. ASSUME NEW o \in Output, RunSucceeds(h, o) PROVE TypeOK'
    <2>1. [status |-> "done", output |-> o] \in Outcome
        BY DEF Outcome, Finished
    <2> QED BY <1>2, <2>1 DEF RunSucceeds
<1> QED BY <1>1, <1>2 DEF RunEnds

LEMMA SettlingTyped ==
    ASSUME TypeOK, NEW h \in Handler, Settling(h)
    PROVE  TypeOK'
<1> USE DEF TypeOK, PC, Goto, TaskOf, PeerOf, nodeVars, ghosts
<1>1. CASE StartProcess(h)
    BY <1>1 DEF StartProcess
<1>2. CASE StartFails(h)
    BY <1>2, RunErrorTyped DEF StartFails
<1>3. CASE FinishRun(h)
    <2>1. outcome[h].status \in Finished /\ outcome[h].output \in Output \cup {NoOutput}
        BY DEF Outcome
    <2>2. rows' \in [Task -> Row] /\ unsaved' \in SUBSET Task
        BY <1>3, <2>1, FinishTaskTyped DEF FinishRun
    <2> QED BY <1>3, <2>2 DEF FinishRun
<1>4. CASE ReleaseAfterRun(h)
    BY <1>4 DEF ReleaseAfterRun
<1>5. CASE Leave(h)
    <2>1. NoOutcome \in Outcome /\ NoOffer \in Offer
        BY DEF NoOutcome, Outcome, Finished, NoOffer, Offer
    <2>2. phase' \in Phase
        BY <1>5 DEF Leave, Phase
    <2> QED BY <1>5, <2>1, <2>2 DEF Leave
<1> QED BY <1>1, <1>2, <1>3, <1>4, <1>5 DEF Settling

\* The steps of Close, a crash, a restart, the passing of time, and of what nobody waits for
ProcessStep ==
    StopRuns \/ Closing \/ Crash \/ Restart \/ TimePasses \/ \E t \in Task : OutlivedEnds(t)

LEMMA ProcessTyped ==
    ASSUME TypeOK, ProcessStep
    PROVE  TypeOK'
<1> USE DEF TypeOK, nodeVars, ghosts, TaskOf, PeerOf
<1>1. CASE StopRuns
    BY <1>1 DEF StopRuns, Phase
<1>2. CASE Wait
    BY <1>2 DEF Wait, Phase
<1>3. CASE CloseTsnet
    BY <1>3 DEF CloseTsnet, Phase
<1>4. CASE CloseStore
    BY <1>4 DEF CloseStore, Phase
<1>5. CASE Vanish
    <2>1. outlived' \in SUBSET Task
        BY <1>5 DEF Vanish, Executing
    <2> QED BY <1>5, <2>1 DEF Vanish, Phase, PC, NoOffer, Offer, NoOutcome, Outcome, Finished
<1>6. CASE Restart
    <2>1. rows' \in [Task -> Row]
        BY <1>6, ReconcileSettles DEF Restart
    <2>2. unsaved' \in SUBSET Task /\ store' \in BOOLEAN
        BY <1>6 DEF Restart, RunningRows
    <2> QED BY <1>6, <2>1, <2>2 DEF Restart, Phase
<1>7. CASE TimePasses
    BY <1>7, TimeKeepsRows DEF TimePasses
<1>8. ASSUME NEW t \in Task, OutlivedEnds(t) PROVE TypeOK'
    BY <1>8 DEF OutlivedEnds
<1> QED BY <1>1, <1>2, <1>3, <1>4, <1>5, <1>6, <1>7, <1>8
        DEF ProcessStep, Closing, Exit, Crash

LEMMA NextCases ==
    Next <=> \/ \E h \in Handler : Receiving(h) \/ Accepting(h) \/ Answering(h)
                                    \/ RunEnds(h) \/ Settling(h)
             \/ ProcessStep
BY DEF Next, ProcessStep

LEMMA NextTyped == TypeOK /\ [Next]_vars => TypeOK'
<1> SUFFICES ASSUME TypeOK, [Next]_vars PROVE TypeOK'
    OBVIOUS
<1>1. CASE Next
    BY <1>1, NextCases, ReceivingTyped, AcceptingTyped, AnsweringTyped, RunEndsTyped,
       SettlingTyped, ProcessTyped
<1>2. CASE UNCHANGED vars
    BY <1>2 DEF vars, TypeOK, TaskOf, PeerOf
<1> QED BY <1>1, <1>2

\* Every reachable state is well typed; a handler past the hello has a peer, and
\* one past the offer a task (receiveTask, ProcessTask).
THEOREM TypeCorrect == Spec => []TypeOK
BY InitTyped, NextTyped, PTL DEF Spec

-----------------------------------------------------------------------------
(* The slot                                                                 *)

\* A step of one handler that keeps the slot and stays on the same side of it
LEMMA SlotUntouched ==
    ASSUME TypeOK, SlotHasOneOwner, NEW h \in Handler, NEW from, NEW to, Goto(h, from, to),
           from \in Owning <=> to \in Owning, UNCHANGED busy
    PROVE  SlotHasOneOwner'
BY DEF TypeOK, SlotHasOneOwner, Goto

\* Release by the one that holds the slot
LEMMA SlotReleased ==
    ASSUME TypeOK, SlotHasOneOwner, NEW h \in Handler, NEW from, NEW to, Goto(h, from, to),
           from \in Owning, to \notin Owning, busy' = FALSE
    PROVE  SlotHasOneOwner'
BY DEF TypeOK, SlotHasOneOwner, Goto

LEMMA SlotStep ==
    TypeOK /\ SlotHasOneOwner /\ [Next]_vars => SlotHasOneOwner'
<1> SUFFICES ASSUME TypeOK, SlotHasOneOwner, [Next]_vars PROVE SlotHasOneOwner'
    OBVIOUS
<1>1. ASSUME NEW h \in Handler, Receiving(h) PROVE SlotHasOneOwner'
    BY <1>1, SlotUntouched DEF Receiving, Connect, ReadTask, ReadFails, Owning
<1>2. ASSUME NEW h \in Handler, Accepting(h) PROVE SlotHasOneOwner'
    <2>1. CASE TryClaim(h)
        BY <2>1 DEF TryClaim, TypeOK, SlotHasOneOwner, Goto, Owning
    <2>2. CASE ReleaseUnrecorded(h)
        BY <2>2, SlotReleased DEF ReleaseUnrecorded, Owning
    <2>3. CASE PolicyAllows(h) \/ PolicyRefuses(h) \/ ClaimRefused(h)
        BY <2>3, SlotUntouched DEF PolicyAllows, PolicyRefuses, ClaimRefused, Owning
    <2>4. CASE RecordStart(h) \/ RecordStartFails(h)
        BY <2>4, SlotUntouched DEF RecordStart, RecordStartFails, Owning
    <2> QED BY <1>2, <2>1, <2>2, <2>3, <2>4 DEF Accepting
<1>3. ASSUME NEW h \in Handler, Answering(h) PROVE SlotHasOneOwner'
    <2>1. CASE ReleaseUnanswered(h)
        BY <2>1, SlotReleased DEF ReleaseUnanswered, Owning
    <2>2. CASE WriteVerdict(h) \/ WriteVerdictFails(h) \/ FinishUnanswered(h)
        BY <2>2, SlotUntouched DEF WriteVerdict, WriteVerdictFails, FinishUnanswered, Owning
    <2>3. CASE Prune(h) \/ Launch(h)
        BY <2>3, SlotUntouched DEF Prune, Launch, Owning
    <2> QED BY <1>3, <2>1, <2>2, <2>3 DEF Answering
<1>4. ASSUME NEW h \in Handler, RunEnds(h) PROVE SlotHasOneOwner'
    BY <1>4, SlotUntouched DEF RunEnds, RunFails, RunSucceeds, Owning
<1>5. ASSUME NEW h \in Handler, Settling(h) PROVE SlotHasOneOwner'
    <2>1. CASE ReleaseAfterRun(h)
        BY <2>1, SlotReleased DEF ReleaseAfterRun, Owning
    <2>2. CASE StartProcess(h) \/ StartFails(h) \/ FinishRun(h) \/ Leave(h)
        BY <2>2, SlotUntouched DEF StartProcess, StartFails, FinishRun, Leave, Owning
    <2> QED BY <1>5, <2>1, <2>2 DEF Settling
<1>6. CASE ProcessStep
    <2>1. CASE Vanish
        BY <2>1 DEF Vanish, SlotHasOneOwner, Owning
    <2>2. CASE UNCHANGED <<busy, pc>>
        BY <2>2 DEF SlotHasOneOwner
    <2> QED BY <1>6, <2>1, <2>2 DEF ProcessStep, Closing, Exit, Crash, StopRuns, Wait,
            CloseTsnet, CloseStore, OutlivedEnds, Restart, TimePasses
<1>7. CASE UNCHANGED vars
    BY <1>7 DEF vars, SlotHasOneOwner
<1> QED BY <1>1, <1>2, <1>3, <1>4, <1>5, <1>6, <1>7, NextCases

\* The slot is taken exactly while one handler is between TryClaim and Release
\* (task_slot.go, receiveTask): tasks never run together and it never leaks.
THEOREM SlotCorrect == Spec => []SlotHasOneOwner
<1>1. Init => SlotHasOneOwner
    BY DEF Init, SlotHasOneOwner, Owning
<1> QED BY <1>1, SlotStep, TypeCorrect, PTL DEF Spec

-----------------------------------------------------------------------------
(* The rows                                                                 *)

\* A step after which the answerable handlers are among those of before, each
\* with its offer, and with a row whose status and peer it leaves alone
LEMMA RecordKept ==
    ASSUME AcceptedIsOnRecord,
           \A g \in Handler : pc'[g] \in Answerable =>
               /\ pc[g] \in Answerable
               /\ offer'[g] = offer[g]
               /\ rows'[TaskOf(g)].status = rows[TaskOf(g)].status
               /\ rows'[TaskOf(g)].peer = rows[TaskOf(g)].peer
    PROVE  AcceptedIsOnRecord'
BY DEF AcceptedIsOnRecord, TaskOf, PeerOf

\* A stored outcome: the handler leaves its row for good and changes no other.
LEMMA RecordFinished ==
    ASSUME TypeOK, AcceptedIsOnRecord, NEW h \in Handler, NEW from, NEW to, Goto(h, from, to),
           from \in Answerable, to \notin Answerable,
           \A g \in Handler \ {h} : offer'[g] = offer[g],
           NEW s \in Finished, NEW o \in Output \cup {NoOutput}, FinishTask(TaskOf(h), s, o)
    PROVE  AcceptedIsOnRecord'
<1>1. TaskOf(h) \in Task /\ rows \in [Task -> Row]
    BY DEF TypeOK, Goto, Answerable
<1>2. \A t \in Task \ {TaskOf(h)} : rows'[t] = rows[t]
    BY <1>1, FinishRecords DEF FinishTask
<1>3. \A g \in Handler : pc'[g] \in Answerable => g # h /\ pc[g] \in Answerable
    BY DEF TypeOK, Goto
<1>4. \A g \in Handler : pc[g] \in Answerable /\ g # h => TaskOf(g) \in Task \ {TaskOf(h)}
    BY DEF TypeOK, AcceptedIsOnRecord, Goto, Answerable
<1> QED BY <1>2, <1>3, <1>4, RecordKept

LEMMA RecordStep ==
    TypeOK /\ AcceptedIsOnRecord /\ DownIsIdle /\ [Next]_vars => AcceptedIsOnRecord'
<1> SUFFICES ASSUME TypeOK, AcceptedIsOnRecord, DownIsIdle, [Next]_vars
             PROVE  AcceptedIsOnRecord'
    OBVIOUS
<1>1. ASSUME NEW h \in Handler, Receiving(h) PROVE AcceptedIsOnRecord'
    BY <1>1, RecordKept DEF Receiving, Connect, ReadTask, ReadFails, Goto, TypeOK, Answerable
<1>2. ASSUME NEW h \in Handler, Accepting(h) PROVE AcceptedIsOnRecord'
    <2>1. CASE RecordStart(h)
        <3>1. TaskOf(h) \in Task /\ PeerOf(h) \in Peer /\ rows \in [Task -> Row]
            BY <2>1 DEF RecordStart, Goto, TypeOK
        <3>2. /\ rows'[TaskOf(h)].status = "running"
              /\ rows'[TaskOf(h)].peer = PeerOf(h)
              /\ \A t \in Task \ {TaskOf(h)} : rows'[t] = rows[t]
            BY <2>1, <3>1, StartRecords DEF RecordStart
        <3>3. rows[TaskOf(h)].status = "absent"
            BY <2>1 DEF RecordStart, CanRecordTaskStart, Exists
        <3>4. \A g \in Handler : pc[g] \in Answerable => TaskOf(g) \in Task \ {TaskOf(h)}
            BY <3>3 DEF AcceptedIsOnRecord, TypeOK, Answerable
        <3>5. \A g \in Handler : pc'[g] \in Answerable => g = h \/ pc[g] \in Answerable
            BY <2>1 DEF RecordStart, Goto, TypeOK
        <3> QED BY <2>1, <3>2, <3>4, <3>5 DEF RecordStart, AcceptedIsOnRecord, TaskOf, PeerOf
    <2>2. CASE PolicyAllows(h) \/ PolicyRefuses(h) \/ TryClaim(h) \/ ClaimRefused(h)
        BY <2>2, RecordKept DEF PolicyAllows, PolicyRefuses, TryClaim, ClaimRefused,
           Goto, TypeOK, Answerable
    <2>3. CASE RecordStartFails(h) \/ ReleaseUnrecorded(h)
        BY <2>3, RecordKept DEF RecordStartFails, ReleaseUnrecorded, Goto, TypeOK, Answerable
    <2> QED BY <1>2, <2>1, <2>2, <2>3 DEF Accepting
<1>3. ASSUME NEW h \in Handler, Answering(h) PROVE AcceptedIsOnRecord'
    <2>1. CASE FinishUnanswered(h)
        BY <2>1, RecordFinished DEF FinishUnanswered, Answerable, Finished
    <2>2. CASE Prune(h)
        <3>1. \A t \in Task : rows[t].status = "running" => rows'[t] = rows[t]
            BY <2>2, PruneKeepsRunning DEF Prune, TypeOK
        <3> QED BY <2>2, <3>1, RecordKept DEF Prune, Goto, TypeOK, Answerable,
                AcceptedIsOnRecord
    <2>3. CASE WriteVerdict(h) \/ WriteVerdictFails(h) \/ ReleaseUnanswered(h) \/ Launch(h)
        BY <2>3, RecordKept DEF WriteVerdict, WriteVerdictFails, ReleaseUnanswered, Launch,
           Goto, TypeOK, Answerable
    <2> QED BY <1>3, <2>1, <2>2, <2>3 DEF Answering
<1>4. ASSUME NEW h \in Handler, RunEnds(h) PROVE AcceptedIsOnRecord'
    BY <1>4, RecordKept DEF RunEnds, RunFails, RunSucceeds, Goto, TypeOK, Answerable
<1>5. ASSUME NEW h \in Handler, Settling(h) PROVE AcceptedIsOnRecord'
    <2>1. CASE FinishRun(h)
        <3>1. outcome[h].status \in Finished /\ outcome[h].output \in Output \cup {NoOutput}
            BY DEF TypeOK, Outcome
        <3> QED BY <2>1, <3>1, RecordFinished DEF FinishRun, Answerable
    <2>2. CASE StartProcess(h) \/ StartFails(h) \/ ReleaseAfterRun(h) \/ Leave(h)
        BY <2>2, RecordKept DEF StartProcess, StartFails, ReleaseAfterRun, Leave,
           Goto, TypeOK, Answerable
    <2> QED BY <1>5, <2>1, <2>2 DEF Settling
<1>6. CASE ProcessStep
    <2>1. CASE Vanish
        BY <2>1 DEF Vanish, AcceptedIsOnRecord, Answerable
    <2>2. CASE Restart
        BY <2>2 DEF Restart, DownIsIdle, AcceptedIsOnRecord, Answerable
    <2>3. CASE TimePasses
        BY <2>3, RecordKept, TimeKeepsRows DEF TimePasses, TypeOK, Answerable
    <2>4. CASE UNCHANGED <<rows, pc, offer>>
        BY <2>4, RecordKept
    <2> QED BY <1>6, <2>1, <2>2, <2>3, <2>4 DEF ProcessStep, Closing, Exit, Crash, StopRuns,
            Wait, CloseTsnet, CloseStore, OutlivedEnds
<1>7. CASE UNCHANGED vars
    BY <1>7, RecordKept DEF vars
<1> QED BY <1>1, <1>2, <1>3, <1>4, <1>5, <1>6, <1>7, NextCases

LEMMA DownStep == TypeOK /\ DownIsIdle /\ [Next]_vars => DownIsIdle'
<1> SUFFICES ASSUME TypeOK, DownIsIdle, [Next]_vars PROVE DownIsIdle'
    OBVIOUS
<1>1. ASSUME NEW h \in Handler,
             Receiving(h) \/ Accepting(h) \/ Answering(h) \/ RunEnds(h) \/ Settling(h)
      PROVE  DownIsIdle'
    <2>1. ~(phase = "down")
        <3>1. ASSUME phase = "down" PROVE pc[h] = "idle" /\ ~NetUp
            BY <3>1 DEF DownIsIdle, NetUp
        <3> QED BY <1>1, <3>1 DEF Receiving, Connect, ReadTask, ReadFails, Accepting,
            PolicyAllows, PolicyRefuses, TryClaim, ClaimRefused, RecordStart,
            RecordStartFails, ReleaseUnrecorded, Answering, WriteVerdict,
            WriteVerdictFails, ReleaseUnanswered, FinishUnanswered, Prune, Launch,
            RunEnds, RunFails, RunSucceeds, Settling, StartProcess, StartFails,
            FinishRun, ReleaseAfterRun, Leave, Goto
    <2>2. phase' = phase \/ phase' = "waited"
        BY <1>1 DEF Receiving, Connect, ReadTask, ReadFails, Accepting,
            PolicyAllows, PolicyRefuses, TryClaim, ClaimRefused, RecordStart,
            RecordStartFails, ReleaseUnrecorded, Answering, WriteVerdict,
            WriteVerdictFails, ReleaseUnanswered, FinishUnanswered, Prune, Launch,
            RunEnds, RunFails, RunSucceeds, Settling, StartProcess, StartFails,
            FinishRun, ReleaseAfterRun, Leave, nodeVars
    <2> QED BY <2>1, <2>2 DEF DownIsIdle
<1>2. CASE ProcessStep
    BY <1>2 DEF ProcessStep, Closing, Exit, Crash, Vanish, StopRuns, Wait, CloseTsnet,
       CloseStore, OutlivedEnds, Restart, TimePasses, nodeVars, DownIsIdle
<1>3. CASE UNCHANGED vars
    BY <1>3 DEF vars, DownIsIdle
<1> QED BY <1>1, <1>2, <1>3, NextCases

-----------------------------------------------------------------------------
(* The processes                                                            *)

\* A step that starts no process, records no row and returns no result, after
\* which the answerable handlers are among those of before, at the same place
\* or further on without having started
LEMMA CountKept ==
    ASSUME TypeOK, ProcessCounted, UNCHANGED <<starts, produced>>,
           \A g \in Handler : pc'[g] \in Answerable =>
               /\ offer'[g] = offer[g]
               /\ \/ pc'[g] = pc[g] /\ outcome'[g] = outcome[g]
                  \/ /\ pc[g] \in Answerable \ {"executing", "storing"}
                     /\ pc'[g] \in Answerable \ {"executing", "storing"}
                  \/ /\ pc'[g] = "storing"
                     /\ outcome'[g].status # "done"
    PROVE  ProcessCounted'
BY DEF ProcessCounted, TypeOK, TaskOf, Answerable

LEMMA CountStep ==
    TypeOK /\ AcceptedIsOnRecord /\ ProcessCounted /\ UnrecordedIsUnstarted /\ [Next]_vars
        => ProcessCounted'
<1> SUFFICES ASSUME TypeOK, AcceptedIsOnRecord, ProcessCounted, UnrecordedIsUnstarted,
                    [Next]_vars
             PROVE  ProcessCounted'
    OBVIOUS
<1>1. ASSUME NEW h \in Handler, Receiving(h) PROVE ProcessCounted'
    BY <1>1, CountKept DEF Receiving, Connect, ReadTask, ReadFails, Goto, TypeOK, Answerable,
       ghosts
<1>2. ASSUME NEW h \in Handler, Accepting(h) PROVE ProcessCounted'
    <2>1. CASE RecordStart(h)
        <3>1. TaskOf(h) \in Task /\ rows[TaskOf(h)].status = "absent"
            BY <2>1 DEF RecordStart, CanRecordTaskStart, Exists, Goto, TypeOK
        <3>2. starts[TaskOf(h)] = 0
            BY <3>1 DEF UnrecordedIsUnstarted
        <3>3. /\ pc'[h] = "answering"
              /\ \A g \in Handler \ {h} : pc'[g] = pc[g]
              /\ UNCHANGED <<offer, outcome, starts, produced>>
            BY <2>1 DEF RecordStart, Goto, TypeOK, ghosts
        <3> QED BY <3>2, <3>3 DEF ProcessCounted, TaskOf, Answerable
    <2>2. CASE PolicyAllows(h) \/ PolicyRefuses(h) \/ TryClaim(h) \/ ClaimRefused(h)
        BY <2>2, CountKept DEF PolicyAllows, PolicyRefuses, TryClaim, ClaimRefused,
           Goto, TypeOK, Answerable, ghosts
    <2>3. CASE RecordStartFails(h) \/ ReleaseUnrecorded(h)
        BY <2>3, CountKept DEF RecordStartFails, ReleaseUnrecorded, Goto, TypeOK, Answerable,
           ghosts
    <2> QED BY <1>2, <2>1, <2>2, <2>3 DEF Accepting
<1>3. ASSUME NEW h \in Handler, Answering(h) PROVE ProcessCounted'
    <2>1. CASE Prune(h)
        <3>1. \A g \in Handler : pc[g] \in Answerable =>
                /\ starts'[TaskOf(g)] = starts[TaskOf(g)]
                /\ produced'[TaskOf(g)] = produced[TaskOf(g)]
            BY <2>1 DEF Prune, Prunable, AcceptedIsOnRecord, TypeOK, Answerable
        <3>2. /\ pc[h] = "pruning" /\ pc'[h] = "launching"
              /\ \A g \in Handler \ {h} : pc'[g] = pc[g]
              /\ UNCHANGED <<offer, outcome>>
            BY <2>1 DEF Prune, Goto, TypeOK
        <3> QED BY <3>1, <3>2 DEF ProcessCounted, TaskOf, Answerable
    <2>2. CASE ~Prune(h)
        BY <1>3, <2>2, CountKept DEF Answering, WriteVerdict, WriteVerdictFails,
           ReleaseUnanswered, FinishUnanswered, Launch, Goto, TypeOK, Answerable, ghosts
    <2> QED BY <2>1, <2>2
<1>4. ASSUME NEW h \in Handler, RunEnds(h) PROVE ProcessCounted'
    <2>1. CASE RunFails(h)
        <3>1. RunError.status # "done"
            BY DEF RunError
        <3>2. /\ pc'[h] = "storing" /\ outcome'[h] = RunError
              /\ \A g \in Handler \ {h} : pc'[g] = pc[g] /\ outcome'[g] = outcome[g]
              /\ UNCHANGED <<offer, starts, produced>>
            BY <2>1 DEF RunFails, Goto, TypeOK, ghosts
        <3> QED BY <3>1, <3>2, CountKept
    <2>2. ASSUME NEW o \in Output, RunSucceeds(h, o) PROVE ProcessCounted'
        <3>1. TaskOf(h) \in Task /\ pc[h] = "executing"
            BY <2>2 DEF RunSucceeds, Goto, TypeOK
        <3>2. \A g \in Handler \ {h} : pc[g] \in Answerable => TaskOf(g) \in Task \ {TaskOf(h)}
            BY <3>1 DEF AcceptedIsOnRecord, TypeOK, Answerable
        <3>3. /\ produced'[TaskOf(h)] = o
              /\ \A t \in Task \ {TaskOf(h)} : produced'[t] = produced[t]
            BY <2>2, <3>1 DEF RunSucceeds, TypeOK
        <3>4. /\ pc'[h] = "storing" /\ outcome'[h].output = o
              /\ \A g \in Handler \ {h} : pc'[g] = pc[g] /\ outcome'[g] = outcome[g]
              /\ UNCHANGED <<offer, starts>>
            BY <2>2 DEF RunSucceeds, Goto, TypeOK
        <3> QED BY <3>1, <3>2, <3>3, <3>4 DEF ProcessCounted, TaskOf, Answerable
    <2> QED BY <1>4, <2>1, <2>2 DEF RunEnds
<1>5. ASSUME NEW h \in Handler, Settling(h) PROVE ProcessCounted'
    <2>1. CASE StartProcess(h)
        <3>1. TaskOf(h) \in Task /\ pc[h] = "spawned"
            BY <2>1 DEF StartProcess, Goto, TypeOK
        <3>2. \A g \in Handler \ {h} : pc[g] \in Answerable => TaskOf(g) \in Task \ {TaskOf(h)}
            BY <3>1 DEF AcceptedIsOnRecord, TypeOK, Answerable
        <3>3. /\ starts'[TaskOf(h)] = starts[TaskOf(h)] + 1
              /\ \A t \in Task \ {TaskOf(h)} : starts'[t] = starts[t]
            BY <2>1, <3>1 DEF StartProcess, TypeOK
        <3>4. /\ pc'[h] = "executing"
              /\ \A g \in Handler \ {h} : pc'[g] = pc[g]
              /\ UNCHANGED <<offer, outcome, produced>>
            BY <2>1 DEF StartProcess, Goto, TypeOK
        <3>5. starts[TaskOf(h)] = 0
            BY <3>1 DEF ProcessCounted, Answerable
        <3> QED BY <3>1, <3>2, <3>3, <3>4, <3>5 DEF ProcessCounted, TaskOf, Answerable
    <2>2. CASE StartFails(h)
        <3>1. RunError.status # "done"
            BY DEF RunError
        <3>2. /\ pc'[h] = "storing" /\ outcome'[h] = RunError
              /\ \A g \in Handler \ {h} : pc'[g] = pc[g] /\ outcome'[g] = outcome[g]
              /\ UNCHANGED <<offer, starts, produced>>
            BY <2>2 DEF StartFails, Goto, TypeOK, ghosts
        <3> QED BY <3>1, <3>2, CountKept
    <2>3. CASE FinishRun(h) \/ ReleaseAfterRun(h) \/ Leave(h)
        BY <2>3, CountKept DEF FinishRun, ReleaseAfterRun, Leave, Goto, TypeOK, Answerable,
           ghosts
    <2> QED BY <1>5, <2>1, <2>2, <2>3 DEF Settling
<1>6. CASE ProcessStep
    <2>1. CASE Vanish
        BY <2>1 DEF Vanish, ProcessCounted, Answerable
    <2>2. CASE UNCHANGED <<starts, produced, pc, offer, outcome>>
        BY <2>2, CountKept
    <2> QED BY <1>6, <2>1, <2>2 DEF ProcessStep, Closing, Exit, Crash, StopRuns, Wait,
            CloseTsnet, CloseStore, OutlivedEnds, Restart, TimePasses, ghosts
<1>7. CASE UNCHANGED vars
    BY <1>7, CountKept DEF vars
<1> QED BY <1>1, <1>2, <1>3, <1>4, <1>5, <1>6, <1>7, NextCases

\* Only Prune and StartProcess change the count of a task.
LEMMA OnceStep ==
    TypeOK /\ RunsAtMostOnce /\ ProcessCounted /\ [Next]_vars => RunsAtMostOnce'
<1> SUFFICES ASSUME TypeOK, RunsAtMostOnce, ProcessCounted, [Next]_vars
             PROVE  RunsAtMostOnce'
    OBVIOUS
<1>1. ASSUME NEW h \in Handler, Prune(h) PROVE RunsAtMostOnce'
    BY <1>1 DEF Prune, RunsAtMostOnce, TypeOK
<1>2. ASSUME NEW h \in Handler, StartProcess(h) PROVE RunsAtMostOnce'
    <2>1. starts[TaskOf(h)] = 0 /\ TaskOf(h) \in Task
        BY <1>2 DEF StartProcess, Goto, ProcessCounted, Answerable, TypeOK
    <2> QED BY <1>2, <2>1 DEF StartProcess, RunsAtMostOnce, TypeOK
<1>3. CASE UNCHANGED starts
    BY <1>3 DEF RunsAtMostOnce
<1> QED BY <1>1, <1>2, <1>3 DEF Next, Receiving, Connect, ReadTask, ReadFails, Accepting,
        PolicyAllows, PolicyRefuses, TryClaim, ClaimRefused, RecordStart,
        RecordStartFails, ReleaseUnrecorded, Answering, WriteVerdict, WriteVerdictFails,
        ReleaseUnanswered, FinishUnanswered, Launch, RunEnds, RunFails, RunSucceeds, Settling,
        StartFails, FinishRun, ReleaseAfterRun, Leave, Closing, Exit, Crash, Vanish,
        StopRuns, Wait, CloseTsnet, CloseStore, OutlivedEnds, Restart, TimePasses, ghosts, vars

-----------------------------------------------------------------------------
(* The life of a row                                                        *)

\* An accepted task is put where there was no row; no other row changes.
LEMMA StartInserts ==
    ASSUME TypeOK, NEW h \in Handler, RecordStart(h)
    PROVE  /\ TaskOf(h) \in Task /\ PeerOf(h) \in Peer
           /\ rows[TaskOf(h)].status = "absent"
           /\ rows'[TaskOf(h)].status = "running"
           /\ \A t \in Task \ {TaskOf(h)} : rows'[t] = rows[t]
           /\ UNCHANGED <<offer, unsaved>>
<1>1. TaskOf(h) \in Task /\ PeerOf(h) \in Peer /\ rows \in [Task -> Row]
    BY DEF RecordStart, Goto, TypeOK
<1>2. /\ rows[TaskOf(h)].status = "absent"
      /\ rows' = RecordTaskStart(rows, TaskOf(h), PeerOf(h))
      /\ UNCHANGED <<offer, unsaved>>
    BY DEF RecordStart, CanRecordTaskStart, Exists, ghosts
<1> QED BY <1>1, <1>2, StartRecords

\* What a step may do to a row: nothing, insert it, settle it, or prune it.
Kept(t)    == rows'[t].status = rows[t].status /\ rows'[t].output = rows[t].output
Inserted(t) == rows[t].status = "absent" /\ rows'[t].status = "running"
Resolved(t) == rows[t].status = "running" /\ rows'[t].status \in Finished
Pruned(t)  == rows[t].status # "running" /\ rows'[t].status = "absent"

LEMMA FinishResolves ==
    ASSUME TypeOK, NEW t \in Task, NEW s \in Finished, NEW o \in Output \cup {NoOutput},
           rows[t].status = "running", FinishTask(t, s, o)
    PROVE  /\ \A u \in Task \ {t} : rows'[u] = rows[u]
           /\ \/ Kept(t) /\ t \in unsaved'
              \/ Resolved(t) /\ UNCHANGED unsaved
           /\ rows'[t].status = "done" => s = "done" /\ rows'[t].output = o
<1>1. rows \in [Task -> Row] /\ Exists(rows, t)
    BY DEF TypeOK, Exists
<1> QED BY <1>1, FinishRecords DEF FinishTask, Kept, Resolved

LEMMA RowLifecycle ==
    TypeOK /\ AcceptedIsOnRecord /\ [Next]_vars =>
        \A t \in Task : Kept(t) \/ Inserted(t) \/ Resolved(t) \/ Pruned(t)
<1> SUFFICES ASSUME TypeOK, AcceptedIsOnRecord, [Next]_vars, NEW t \in Task
             PROVE  Kept(t) \/ Inserted(t) \/ Resolved(t) \/ Pruned(t)
    OBVIOUS
<1>1. ASSUME NEW h \in Handler, RecordStart(h) PROVE Kept(t) \/ Inserted(t)
    BY <1>1, StartInserts DEF Kept, Inserted
<1>2. ASSUME NEW h \in Handler, FinishUnanswered(h) PROVE Kept(t) \/ Resolved(t)
    <2>1. TaskOf(h) \in Task /\ rows[TaskOf(h)].status = "running"
        BY <1>2 DEF FinishUnanswered, Goto, AcceptedIsOnRecord, Answerable, TypeOK
    <2>2. FinishTask(TaskOf(h), "failed", NoOutput) /\ "failed" \in Finished
        BY <1>2 DEF FinishUnanswered, Finished
    <2> QED BY <2>1, <2>2, FinishResolves DEF Kept
<1>3. ASSUME NEW h \in Handler, FinishRun(h) PROVE Kept(t) \/ Resolved(t)
    <2>1. TaskOf(h) \in Task /\ rows[TaskOf(h)].status = "running"
        BY <1>3 DEF FinishRun, Goto, AcceptedIsOnRecord, Answerable, TypeOK
    <2>2. /\ FinishTask(TaskOf(h), outcome[h].status, outcome[h].output)
          /\ outcome[h].status \in Finished
          /\ outcome[h].output \in Output \cup {NoOutput}
        BY <1>3 DEF FinishRun, TypeOK, Outcome
    <2> QED BY <2>1, <2>2, FinishResolves DEF Kept
<1>4. ASSUME NEW h \in Handler, Prune(h) PROVE Kept(t) \/ Pruned(t)
    BY <1>4, PruneKeepsRunning DEF Prune, TypeOK, Kept, Pruned, Absent
<1>5. CASE Restart
    BY <1>5, ReconcileSettles DEF Restart, TypeOK, Kept, Resolved, Finished
<1>6. CASE TimePasses
    BY <1>6, TimeKeepsRows DEF TimePasses, TypeOK, Kept
<1>7. CASE UNCHANGED rows
    BY <1>7 DEF Kept
<1> QED BY <1>1, <1>2, <1>3, <1>4, <1>5, <1>6, <1>7 DEF Next, Receiving, Connect, ReadTask,
        ReadFails, Accepting, PolicyAllows, PolicyRefuses, TryClaim, ClaimRefused,
        RecordStartFails, ReleaseUnrecorded, Answering, WriteVerdict, WriteVerdictFails,
        ReleaseUnanswered, Launch, RunEnds, RunFails, RunSucceeds, Settling, StartProcess,
        StartFails, ReleaseAfterRun, Leave, Closing, Exit, Crash, Vanish, StopRuns, Wait,
        CloseTsnet, CloseStore, OutlivedEnds, ghosts, vars

\* The history of a task changes only while its row runs, or when it is pruned.
LEMMA HistoryChange ==
    TypeOK /\ AcceptedIsOnRecord /\ [Next]_vars =>
        \A t \in Task : rows[t].status # "running" =>
            \/ starts'[t] = starts[t] /\ produced'[t] = produced[t]
            \/ rows'[t].status = "absent" /\ starts'[t] = 0
<1> SUFFICES ASSUME TypeOK, AcceptedIsOnRecord, [Next]_vars,
                    NEW t \in Task, rows[t].status # "running",
                    ~(rows'[t].status = "absent" /\ starts'[t] = 0)
             PROVE  starts'[t] = starts[t] /\ produced'[t] = produced[t]
    OBVIOUS
<1>1. ASSUME NEW h \in Handler, Prune(h)
      PROVE  starts'[t] = starts[t] /\ produced'[t] = produced[t]
    BY <1>1 DEF Prune, PruneTasks, Absent, TypeOK
<1>2. ASSUME NEW h \in Handler, pc[h] \in Answerable PROVE TaskOf(h) # t
    BY <1>2 DEF AcceptedIsOnRecord
<1>3. ASSUME NEW h \in Handler, StartProcess(h)
      PROVE  starts'[t] = starts[t] /\ produced'[t] = produced[t]
    BY <1>2, <1>3 DEF StartProcess, Goto, Answerable, TypeOK
<1>4. ASSUME NEW h \in Handler, NEW o \in Output, RunSucceeds(h, o)
      PROVE  starts'[t] = starts[t] /\ produced'[t] = produced[t]
    BY <1>2, <1>4 DEF RunSucceeds, Goto, Answerable, TypeOK
<1>5. CASE UNCHANGED <<starts, produced>>
    BY <1>5
<1> QED BY <1>1, <1>3, <1>4, <1>5 DEF Next, Receiving, Connect, ReadTask,
        ReadFails, Accepting, PolicyAllows, PolicyRefuses, TryClaim, ClaimRefused,
        RecordStart, RecordStartFails, ReleaseUnrecorded, Answering, WriteVerdict,
        WriteVerdictFails, ReleaseUnanswered, FinishUnanswered, Launch, RunEnds, RunFails, Settling,
        StartFails, FinishRun, ReleaseAfterRun, Leave, Closing, Exit, Crash, Vanish,
        StopRuns, Wait, CloseTsnet, CloseStore, OutlivedEnds, Restart, TimePasses, ghosts, vars

LEMMA UnrecordedStep ==
    TypeOK /\ AcceptedIsOnRecord /\ UnrecordedIsUnstarted /\ [Next]_vars
        => UnrecordedIsUnstarted'
<1> SUFFICES ASSUME TypeOK, AcceptedIsOnRecord, UnrecordedIsUnstarted, [Next]_vars,
                    NEW t \in Task, rows'[t].status = "absent"
             PROVE  starts'[t] = 0
    BY DEF UnrecordedIsUnstarted
<1>1. CASE rows[t].status = "absent"
    BY <1>1, HistoryChange DEF UnrecordedIsUnstarted
<1>2. CASE rows[t].status # "absent"
    <2>1. rows[t].status # "running"
        BY <1>2, RowLifecycle DEF Kept, Inserted, Resolved, Pruned, Finished
    <2>2. ASSUME NEW h \in Handler, Prune(h) PROVE starts'[t] = 0
        BY <1>2, <2>2 DEF Prune, PruneTasks, Absent, TypeOK
    <2>3. ASSUME NEW h \in Handler, NEW s \in Finished, NEW o \in Output \cup {NoOutput},
                 pc[h] \in Answerable, FinishTask(TaskOf(h), s, o)
          PROVE  FALSE
        <3>1. TaskOf(h) \in Task /\ rows[TaskOf(h)].status = "running"
            BY <2>3 DEF AcceptedIsOnRecord, Answerable, TypeOK
        <3> QED BY <1>2, <2>1, <2>3, <3>1, FinishResolves
    <2>4. ASSUME NEW h \in Handler, FinishRun(h) PROVE FALSE
        BY <2>3, <2>4 DEF FinishRun, Goto, Answerable, TypeOK, Outcome
    <2>5. ASSUME NEW h \in Handler, FinishUnanswered(h) PROVE FALSE
        BY <2>3, <2>5 DEF FinishUnanswered, Goto, Answerable, Finished
    <2>6. ASSUME NEW h \in Handler, RecordStart(h) PROVE FALSE
        BY <1>2, <2>6, StartInserts
    <2>7. CASE Restart
        BY <1>2, <2>1, <2>7, ReconcileSettles DEF Restart, TypeOK
    <2>8. CASE TimePasses
        BY <1>2, <2>8, TimeKeepsRows DEF TimePasses, TypeOK
    <2>9. CASE UNCHANGED rows
        BY <1>2, <2>9
    <2> QED BY <2>2, <2>4, <2>5, <2>6, <2>7, <2>8, <2>9 DEF Next, Receiving, Connect,
        ReadTask, ReadFails, Accepting, PolicyAllows, PolicyRefuses, TryClaim, ClaimRefused,
        RecordStartFails, ReleaseUnrecorded, Answering, WriteVerdict, WriteVerdictFails,
        ReleaseUnanswered, Launch, RunEnds, RunFails, RunSucceeds, Settling, StartProcess,
        StartFails, ReleaseAfterRun, Leave, Closing, Exit, Crash, Vanish, StopRuns, Wait,
        CloseTsnet, CloseStore, OutlivedEnds, ghosts, vars
<1> QED BY <1>1, <1>2

\* A step after which fewer processes have outlived their node, the rows of those are as
\* they must be, and no handler has taken up a task
LEMMA LostKept ==
    ASSUME OutlivedIsLost, outlived' \subseteq outlived,
           \A t \in outlived' : rows'[t].status \in {"running", "interrupted"},
           \A g \in Handler : pc'[g] \in Answerable =>
               pc[g] \in Answerable /\ offer'[g] = offer[g]
    PROVE  OutlivedIsLost'
BY DEF OutlivedIsLost, TaskOf

LEMMA LostStep ==
    TypeOK /\ AcceptedIsOnRecord /\ OutlivedIsLost /\ [Next]_vars => OutlivedIsLost'
<1> SUFFICES ASSUME TypeOK, AcceptedIsOnRecord, OutlivedIsLost, [Next]_vars
             PROVE  OutlivedIsLost'
    OBVIOUS
<1>1. CASE Vanish
    <2>1. \A h \in Executing : rows[TaskOf(h)].status = "running"
        BY DEF Executing, AcceptedIsOnRecord, Answerable
    <2> QED BY <1>1, <2>1 DEF Vanish, OutlivedIsLost, Answerable
<1>2. ASSUME NEW h \in Handler, RecordStart(h) PROVE OutlivedIsLost'
    <2>1. TaskOf(h) \notin outlived
        BY <1>2, StartInserts DEF OutlivedIsLost
    <2>2. \A g \in Handler : pc'[g] \in Answerable => g = h \/ pc[g] \in Answerable
        BY <1>2 DEF RecordStart, Goto, TypeOK
    <2>3. \A t \in outlived : rows'[t] = rows[t]
        BY <1>2, <2>1, StartInserts DEF TypeOK
    <2> QED BY <1>2, <2>1, <2>2, <2>3 DEF RecordStart, OutlivedIsLost, TaskOf, ghosts
<1>3. ASSUME NEW h \in Handler, NEW s \in Finished, NEW o \in Output \cup {NoOutput},
             pc[h] \in Answerable, pc'[h] \notin Answerable, FinishTask(TaskOf(h), s, o),
             \A g \in Handler \ {h} : pc'[g] = pc[g] /\ offer'[g] = offer[g],
             UNCHANGED outlived
      PROVE  OutlivedIsLost'
    <2>1. TaskOf(h) \in Task /\ rows[TaskOf(h)].status = "running" /\ TaskOf(h) \notin outlived
        BY <1>3 DEF AcceptedIsOnRecord, OutlivedIsLost, TypeOK, Answerable
    <2>2. \A t \in outlived : rows'[t] = rows[t]
        BY <1>3, <2>1, FinishResolves DEF TypeOK
    <2> QED BY <1>3, <2>2, LostKept DEF OutlivedIsLost
<1>4. ASSUME NEW h \in Handler, FinishRun(h) PROVE OutlivedIsLost'
    BY <1>3, <1>4 DEF FinishRun, Goto, Answerable, TypeOK, Outcome
<1>5. ASSUME NEW h \in Handler, FinishUnanswered(h) PROVE OutlivedIsLost'
    BY <1>3, <1>5 DEF FinishUnanswered, Goto, Answerable, Finished, TypeOK
<1>6. ASSUME NEW h \in Handler, Prune(h) PROVE OutlivedIsLost'
    <2>1. outlived' \subseteq outlived /\ \A t \in outlived' : rows'[t] = rows[t]
        BY <1>6 DEF Prune, PruneTasks, TypeOK
    <2>2. \A g \in Handler : pc'[g] \in Answerable =>
            pc[g] \in Answerable /\ offer'[g] = offer[g]
        BY <1>6 DEF Prune, Goto, TypeOK, Answerable
    <2> QED BY <2>1, <2>2, LostKept DEF OutlivedIsLost
<1>7. CASE Restart
    <2>1. \A t \in outlived : rows'[t].status \in {"running", "interrupted"}
        BY <1>7, ReconcileSettles DEF Restart, OutlivedIsLost, TypeOK
    <2> QED BY <1>7, <2>1, LostKept DEF Restart
<1>8. CASE TimePasses
    BY <1>8, TimeKeepsRows, LostKept DEF TimePasses, OutlivedIsLost, TypeOK, ghosts
<1>9. ASSUME NEW t \in Task, OutlivedEnds(t) PROVE OutlivedIsLost'
    BY <1>9, LostKept DEF OutlivedEnds, OutlivedIsLost
<1>10. ASSUME UNCHANGED <<rows, outlived>>,
              \A g \in Handler : pc'[g] \in Answerable =>
                  pc[g] \in Answerable /\ offer'[g] = offer[g]
       PROVE  OutlivedIsLost'
    BY <1>10, LostKept DEF OutlivedIsLost
<1>11. ASSUME NEW h \in Handler, Receiving(h) PROVE OutlivedIsLost'
    BY <1>10, <1>11 DEF Receiving, Connect, ReadTask, ReadFails, Goto, TypeOK, Answerable,
            ghosts
<1>12. ASSUME NEW h \in Handler, Accepting(h), ~RecordStart(h) PROVE OutlivedIsLost'
    BY <1>10, <1>12 DEF Accepting, PolicyAllows, PolicyRefuses, TryClaim, ClaimRefused,
       RecordStartFails, ReleaseUnrecorded, Goto, TypeOK, Answerable, ghosts
<1>13. ASSUME NEW h \in Handler, Answering(h), ~FinishUnanswered(h), ~Prune(h)
       PROVE  OutlivedIsLost'
    BY <1>10, <1>13 DEF Answering, WriteVerdict, WriteVerdictFails, ReleaseUnanswered, Launch,
       Goto, TypeOK, Answerable, ghosts
<1>14. ASSUME NEW h \in Handler, RunEnds(h) \/ (Settling(h) /\ ~FinishRun(h))
       PROVE  OutlivedIsLost'
    BY <1>10, <1>14 DEF RunEnds, RunFails, RunSucceeds, Settling, StartProcess, StartFails,
       ReleaseAfterRun, Leave, Goto, TypeOK, Answerable, ghosts
<1>15. CASE UNCHANGED <<rows, outlived, pc, offer>>
    BY <1>10, <1>15
<1> QED
    BY <1>1, <1>2, <1>4, <1>5, <1>6, <1>7, <1>8, <1>9, <1>11, <1>12, <1>13, <1>14, <1>15
    DEF Next, Closing, Exit, Crash, StopRuns, Wait, CloseTsnet, CloseStore, ghosts, vars

LEMMA DoneStep ==
    TypeOK /\ AcceptedIsOnRecord /\ ProcessCounted /\ DoneIsWhatRan /\ OutlivedIsLost'
        /\ [Next]_vars => DoneIsWhatRan'
<1> SUFFICES ASSUME TypeOK, AcceptedIsOnRecord, ProcessCounted, DoneIsWhatRan, [Next]_vars,
                    NEW t \in Task, rows'[t].status = "done"
             PROVE  starts'[t] = 1 /\ produced'[t] = rows'[t].output
    BY DEF DoneIsWhatRan, OutlivedIsLost
<1>1. CASE rows[t].status = "done"
    <2>1. rows'[t].output = rows[t].output
        BY <1>1, RowLifecycle DEF Kept, Inserted, Resolved, Pruned
    <2>2. starts'[t] = starts[t] /\ produced'[t] = produced[t]
        BY <1>1, HistoryChange
    <2> QED BY <1>1, <2>1, <2>2 DEF DoneIsWhatRan
<1>2. CASE rows[t].status # "done"
    <2>1. ASSUME NEW h \in Handler, FinishRun(h)
          PROVE  starts'[t] = 1 /\ produced'[t] = rows'[t].output
        <3>1. TaskOf(h) \in Task /\ rows[TaskOf(h)].status = "running"
            BY <2>1 DEF FinishRun, Goto, AcceptedIsOnRecord, Answerable, TypeOK
        <3>2. /\ FinishTask(TaskOf(h), outcome[h].status, outcome[h].output)
              /\ outcome[h].status \in Finished
              /\ outcome[h].output \in Output \cup {NoOutput}
            BY <2>1 DEF FinishRun, TypeOK, Outcome
        <3>3. t = TaskOf(h) /\ outcome[h].status = "done" /\ rows'[t].output = outcome[h].output
            BY <1>2, <3>1, <3>2, FinishResolves
        <3>4. pc[h] = "storing" /\ UNCHANGED <<starts, produced>>
            BY <2>1 DEF FinishRun, Goto
        <3> QED BY <3>3, <3>4 DEF ProcessCounted
    <2>2. ASSUME NEW h \in Handler, FinishUnanswered(h) PROVE FALSE
        <3>1. TaskOf(h) \in Task /\ rows[TaskOf(h)].status = "running"
            BY <2>2 DEF FinishUnanswered, Goto, AcceptedIsOnRecord, Answerable, TypeOK
        <3>2. FinishTask(TaskOf(h), "failed", NoOutput) /\ "failed" \in Finished
            BY <2>2 DEF FinishUnanswered, Finished
        <3> QED BY <1>2, <3>1, <3>2, FinishResolves
    <2>3. ASSUME NEW h \in Handler, RecordStart(h) PROVE FALSE
        BY <1>2, <2>3, StartInserts
    <2>4. ASSUME NEW h \in Handler, Prune(h) PROVE FALSE
        BY <1>2, <2>4, PruneKeepsRunning DEF Prune, TypeOK, Absent
    <2>5. CASE Restart
        BY <1>2, <2>5, ReconcileSettles DEF Restart, TypeOK
    <2>6. CASE TimePasses
        BY <1>2, <2>6, TimeKeepsRows DEF TimePasses, TypeOK
    <2>7. CASE UNCHANGED rows
        BY <1>2, <2>7
    <2> QED BY <2>1, <2>2, <2>3, <2>4, <2>5, <2>6, <2>7 DEF Next, Receiving, Connect,
        ReadTask, ReadFails, Accepting, PolicyAllows, PolicyRefuses, TryClaim, ClaimRefused,
        RecordStartFails, ReleaseUnrecorded, Answering, WriteVerdict, WriteVerdictFails,
        ReleaseUnanswered, Launch, RunEnds, RunFails, RunSucceeds, Settling, StartProcess,
        StartFails, ReleaseAfterRun, Leave, Closing, Exit, Crash, Vanish, StopRuns, Wait,
        CloseTsnet, CloseStore, OutlivedEnds, ghosts, vars
<1> QED BY <1>1, <1>2

-----------------------------------------------------------------------------
(* Close                                                                    *)

LEMMA WaitStep ==
    TypeOK /\ NoProcessAfterWait /\ [Next]_vars => NoProcessAfterWait'
<1> DEFINE Late == {"waited", "offline", "closed", "down"}
<1> SUFFICES ASSUME TypeOK, NoProcessAfterWait, [Next]_vars, phase' \in Late,
                    NEW g \in Handler
             PROVE  pc'[g] # "executing"
    BY DEF NoProcessAfterWait
<1>1. CASE phase \in Late
    <2>1. pc[g] # "executing" /\ Cancelled
        BY <1>1 DEF NoProcessAfterWait, Cancelled
    <2> QED BY <2>1 DEF Next, Receiving, Connect, ReadTask, ReadFails, Accepting,
            PolicyAllows, PolicyRefuses, TryClaim, ClaimRefused, RecordStart,
            RecordStartFails, ReleaseUnrecorded, Answering, WriteVerdict, WriteVerdictFails,
            ReleaseUnanswered, FinishUnanswered, Prune, Launch, RunEnds, RunFails,
            RunSucceeds, Settling, StartProcess, StartFails, FinishRun, ReleaseAfterRun,
            Leave, Closing, Exit, Crash, Vanish, StopRuns, Wait, CloseTsnet, CloseStore,
            OutlivedEnds,
            Restart, TimePasses, Goto, TypeOK, vars
<1>2. CASE phase \notin Late
    <2>1. ASSUME NEW h \in Handler, Leave(h) PROVE pc'[g] # "executing"
        <3>1. LastRun(h)
            BY <1>2, <2>1 DEF Leave
        <3> QED BY <2>1, <3>1 DEF Leave, LastRun, Goto, TypeOK, InRun
    <2>2. CASE Wait
        BY <1>2, <2>2 DEF Wait, InRun
    <2>3. CASE Vanish
        BY <2>3 DEF Vanish
    <2>4. ASSUME NEW h \in Handler, Receiving(h) \/ Accepting(h) \/ Answering(h)
          PROVE  FALSE
        BY <1>2, <2>4 DEF Receiving, Connect, ReadTask, ReadFails, Accepting, PolicyAllows,
           PolicyRefuses, TryClaim, ClaimRefused, RecordStart, RecordStartFails,
           ReleaseUnrecorded, Answering, WriteVerdict, WriteVerdictFails,
           ReleaseUnanswered, FinishUnanswered, Prune, Launch, nodeVars
    <2>5. ASSUME NEW h \in Handler, RunEnds(h) \/ (Settling(h) /\ ~Leave(h))
          PROVE  FALSE
        BY <1>2, <2>5 DEF RunEnds, RunFails, RunSucceeds, Settling, StartProcess, StartFails,
           FinishRun, ReleaseAfterRun, nodeVars
    <2>6. CASE \/ StopRuns \/ CloseTsnet \/ CloseStore \/ Restart \/ TimePasses
               \/ \E t \in Task : OutlivedEnds(t)
        BY <1>2, <2>6 DEF StopRuns, CloseTsnet, CloseStore, OutlivedEnds, Restart,
            TimePasses, nodeVars
    <2> QED BY <1>2, <2>1, <2>2, <2>3, <2>4, <2>5, <2>6 DEF Next, Closing, Exit, Crash, vars
<1> QED BY <1>1, <1>2

-----------------------------------------------------------------------------
(* Who answers for a running row                                            *)

\* A step that leaves the running rows among those of before, keeps every
\* answerable handler with its offer, and forgets no unsaved row
LEMMA OwnersKept ==
    ASSUME RunningIsOwned, phase # "down",
           \A t \in Task : rows'[t].status = "running" => rows[t].status = "running",
           \A g \in Handler : pc[g] \in Answerable =>
               pc'[g] \in Answerable /\ offer'[g] = offer[g],
           unsaved \subseteq unsaved'
    PROVE  RunningIsOwned'
BY DEF RunningIsOwned, RunningRows, TaskOf

LEMMA OwnedStep ==
    TypeOK /\ AcceptedIsOnRecord /\ RunningIsOwned /\ DownIsIdle /\ [Next]_vars
        => RunningIsOwned'
<1> SUFFICES ASSUME TypeOK, AcceptedIsOnRecord, RunningIsOwned, DownIsIdle, [Next]_vars
             PROVE  RunningIsOwned'
    OBVIOUS
<1>1. CASE phase = "down"
    <2>1. CASE Restart
        <3>1. CASE rows' = ReconcileStaleTasks(rows)
            BY <3>1, ReconcileSettles DEF TypeOK, RunningIsOwned, RunningRows
        <3>2. CASE UNCHANGED rows /\ unsaved' = RunningRows
            BY <3>2 DEF RunningIsOwned, RunningRows
        <3> QED BY <2>1, <3>1, <3>2 DEF Restart
    <2>2. CASE ~Restart
        <3>1. phase' = "down"
            BY <1>1, <2>2 DEF DownIsIdle, Next, Receiving, Connect, ReadTask, ReadFails,
               Accepting, PolicyAllows, PolicyRefuses, TryClaim, ClaimRefused, RecordStart,
               RecordStartFails, ReleaseUnrecorded, Answering, WriteVerdict,
               WriteVerdictFails, ReleaseUnanswered, FinishUnanswered, Prune, Launch,
               RunEnds, RunFails, RunSucceeds, Settling, StartProcess, StartFails, FinishRun,
               ReleaseAfterRun, Leave, Closing, Exit, Crash, Vanish, StopRuns, Wait,
               CloseTsnet, CloseStore, OutlivedEnds, TimePasses, nodeVars, vars
        <3> QED BY <3>1 DEF RunningIsOwned
    <2> QED BY <2>1, <2>2
<1>2. CASE phase # "down"
    <2>1. ASSUME NEW h \in Handler, RecordStart(h) PROVE RunningIsOwned'
        <3>1. \A g \in Handler : pc[g] \in Answerable \/ g = h => pc'[g] \in Answerable
            BY <2>1 DEF RecordStart, Goto, TypeOK, Answerable
        <3> QED BY <1>2, <2>1, <3>1, StartInserts DEF RunningIsOwned, RunningRows, TaskOf
    <2>2. ASSUME NEW h \in Handler, NEW s \in Finished, NEW o \in Output \cup {NoOutput},
                 pc[h] \in Answerable, FinishTask(TaskOf(h), s, o),
                 \A g \in Handler \ {h} : pc'[g] = pc[g] /\ offer'[g] = offer[g]
          PROVE  RunningIsOwned'
        <3>1. TaskOf(h) \in Task /\ rows[TaskOf(h)].status = "running"
            BY <2>2 DEF AcceptedIsOnRecord, TypeOK, Answerable
        <3>2. /\ \A u \in Task \ {TaskOf(h)} : rows'[u] = rows[u]
              /\ TaskOf(h) \in unsaved' \/ rows'[TaskOf(h)].status # "running"
              /\ unsaved \subseteq unsaved'
            BY <2>2, <3>1, FinishResolves DEF FinishTask, Resolved, Finished
        <3> QED BY <1>2, <2>2, <3>2 DEF RunningIsOwned, RunningRows, TaskOf
    <2>3. ASSUME NEW h \in Handler, FinishUnanswered(h) PROVE RunningIsOwned'
        BY <2>2, <2>3 DEF FinishUnanswered, Goto, Answerable, Finished, TypeOK
    <2>4. ASSUME NEW h \in Handler, FinishRun(h) PROVE RunningIsOwned'
        BY <2>2, <2>4 DEF FinishRun, Goto, Answerable, TypeOK, Outcome
    <2>5. ASSUME NEW h \in Handler, Prune(h) PROVE RunningIsOwned'
        <3>1. \A t \in Task : rows'[t].status = "running" => rows[t].status = "running"
            BY <2>5, PruneKeepsRunning DEF Prune, TypeOK, Absent
        <3> QED BY <1>2, <2>5, <3>1, OwnersKept DEF Prune, Goto, Answerable, TypeOK, ghosts
    <2>6. CASE TimePasses
        BY <1>2, <2>6, TimeKeepsRows, OwnersKept DEF TimePasses, TypeOK, ghosts
    <2>7. CASE Vanish
        BY <2>7 DEF Vanish, RunningIsOwned
    <2>8. ASSUME NEW h \in Handler, Receiving(h) PROVE RunningIsOwned'
        BY <1>2, <2>8, OwnersKept DEF Receiving, Connect, ReadTask, ReadFails, Goto, TypeOK,
           Answerable, ghosts
    <2>9. ASSUME NEW h \in Handler, Accepting(h), ~RecordStart(h) PROVE RunningIsOwned'
        BY <1>2, <2>9, OwnersKept DEF Accepting, PolicyAllows, PolicyRefuses, TryClaim,
           ClaimRefused, RecordStartFails, ReleaseUnrecorded, Goto, TypeOK, Answerable, ghosts
    <2>10. ASSUME NEW h \in Handler, Answering(h), ~FinishUnanswered(h), ~Prune(h)
           PROVE  RunningIsOwned'
        BY <1>2, <2>10, OwnersKept DEF Answering, WriteVerdict, WriteVerdictFails,
           ReleaseUnanswered, Launch, Goto, TypeOK, Answerable, ghosts
    <2>11. ASSUME NEW h \in Handler, RunEnds(h) PROVE RunningIsOwned'
        BY <1>2, <2>11, OwnersKept DEF RunEnds, RunFails, RunSucceeds, Goto, TypeOK,
           Answerable, ghosts
    <2>12. ASSUME NEW h \in Handler, Settling(h), ~FinishRun(h) PROVE RunningIsOwned'
        BY <1>2, <2>12, OwnersKept DEF Settling, StartProcess, StartFails, ReleaseAfterRun,
           Leave, Goto, TypeOK, Answerable, ghosts
    <2>13. CASE UNCHANGED <<rows, pc, offer, unsaved>>
        BY <1>2, <2>13, OwnersKept
    <2> QED BY <1>2, <2>1, <2>3, <2>4, <2>5, <2>6, <2>7, <2>8, <2>9, <2>10, <2>11, <2>12,
            <2>13 DEF Next, Closing, Exit, Crash, StopRuns, Wait, CloseTsnet, CloseStore,
            OutlivedEnds,
            Restart, ghosts, vars
<1> QED BY <1>1, <1>2

-----------------------------------------------------------------------------
(* The inductive invariant and what it gives                                *)

LEMMA IInvInductive == Spec => []IInv
<1>1. Init => IInv
    BY DEF Init, IInv, SlotHasOneOwner, AcceptedIsOnRecord, RunsAtMostOnce, DoneIsWhatRan,
       RunningIsOwned, RunningRows, NoProcessAfterWait, DownIsIdle, ProcessCounted, Absent,
       Owning, Answerable, UnrecordedIsUnstarted, OutlivedIsLost
<1>2. TypeOK /\ IInv /\ [Next]_vars => IInv'
    BY SlotStep, RecordStep, OnceStep, DoneStep, OwnedStep, WaitStep, DownStep, CountStep,
       UnrecordedStep, LostStep DEF IInv
<1> QED BY <1>1, <1>2, TypeCorrect, PTL DEF Spec

\* From the record to the stored outcome the row runs for its dispatcher, and no
\* two handlers work on one task (receiveTask, RecordTaskStart, PruneTasks).
THEOREM RecordCorrect == Spec => []AcceptedIsOnRecord
BY IInvInductive, PTL DEF IInv

\* A task id has at most one process while its row is kept (RecordTaskStart's
\* primary key, executor.Run).
THEOREM OnceCorrect == Spec => []RunsAtMostOnce
BY IInvInductive, PTL DEF IInv

\* A result that reads done is what the one process of the task returned
\* (executor.Run, finishTask).
THEOREM DoneCorrect == Spec => []DoneIsWhatRan
BY IInvInductive, PTL DEF IInv

\* No running row is orphaned except by a failed write (finishTask,
\* ReconcileStaleTasks).
THEOREM OwnedCorrect == Spec => []RunningIsOwned
BY IInvInductive, PTL DEF IInv

\* No process is alive, or starts, once Close has seen its runs end (Node.Close,
\* the context check of executor.Run).
THEOREM WaitCorrect == Spec => []NoProcessAfterWait
BY IInvInductive, PTL DEF IInv

\* A process that its node left behind, by a crash or the exec of a restart, is nobody's
\* any more: no later node serves its task, as its row is still there, and that row never
\* gets an outcome but interrupted (ReconcileStaleTasks, New, the primary key of tasks).
THEOREM OutlivedCorrect == Spec => []OutlivedIsLost
BY IInvInductive, PTL DEF IInv

\* A finished row keeps its status and output until it is pruned
\* (RecordTaskFinish, which has no guard of its own).
THEOREM FinalCorrect == Spec => FinishedIsFinal
<1>1. ASSUME TypeOK, AcceptedIsOnRecord, [Next]_vars
      PROVE  \A t \in Task : rows[t].status \in Finished =>
                \/ rows'[t].status = "absent"
                \/ /\ rows'[t].status = rows[t].status
                   /\ rows'[t].output = rows[t].output
    BY <1>1, RowLifecycle DEF Kept, Inserted, Resolved, Pruned, Finished
<1> QED BY <1>1, TypeCorrect, RecordCorrect, PTL DEF Spec, FinishedIsFinal
=============================================================================
