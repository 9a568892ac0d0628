--------------------------- MODULE TaskPromise_proofs ---------------------------
(***************************************************************************)
(* TaskExecution implements TaskPromise, for every set of handlers, tasks,  *)
(* peers and outputs, with or without failing writes.                       *)
(***************************************************************************)
EXTENDS TaskExecution_proofs

USE StoreAssumption, ExecutionAssumption

Ledger == LedgerOf(rows)
Begun == {t \in Task : starts[t] > 0}

-----------------------------------------------------------------------------
(* The steps of the promise, for one node                                   *)

LEMMA Takes ==
    ASSUME NEW t \in Task, NEW p \in Peer, Ledger[t].status = "absent",
           Ledger' = [Ledger EXCEPT ![t] =
                        [peer |-> p, status |-> "running", output |-> NoOutput]],
           UNCHANGED <<CurrentTask, starts, produced>>
    PROVE  Promise!PromiseNext
<1>1. Promise!Take(Self, t, p)
    BY DEF Promise!Take, Ledger
<1> QED BY <1>1 DEF Promise!PromiseNext

LEMMA Begins ==
    ASSUME NEW t \in Task, CurrentTask = NoTask, Ledger[t].status = "running",
           t \notin Begun, CurrentTask' = t, Begun' = Begun \cup {t},
           UNCHANGED <<rows, produced>>
    PROVE  Promise!PromiseNext
<1>1. Promise!Begin(Self, t)
    BY DEF Promise!Begin, Ledger, Begun
<1> QED BY <1>1 DEF Promise!PromiseNext

LEMMA Ends ==
    ASSUME NEW t \in Task, NEW o \in Output \cup {NoOutput}, CurrentTask = t,
           produced' = [produced EXCEPT ![t] = o], CurrentTask' = NoTask,
           UNCHANGED <<rows, starts>>
    PROVE  Promise!PromiseNext
<1>1. Promise!End(Self, o)
    BY DEF Promise!End, Ledger, Begun
<1> QED BY <1>1 DEF Promise!PromiseNext

LEMMA Settles ==
    ASSUME NEW t \in Task, NEW s \in Finished, Ledger[t].status = "running",
           CurrentTask # t, s = "done" => t \in Begun /\ produced[t] # NoOutput,
           Ledger' = [Ledger EXCEPT ![t] =
                [@ EXCEPT !.status = s,
                          !.output = IF s = "done" THEN produced[t] ELSE NoOutput]],
           UNCHANGED <<CurrentTask, starts, produced>>
    PROVE  Promise!PromiseNext
<1>1. Promise!Settle(Self, t, s)
    BY DEF Promise!Settle, Ledger, Begun
<1> QED BY <1>1 DEF Promise!PromiseNext, Promise!Settled, Finished

LEMMA Loses ==
    ASSUME CurrentTask' = NoTask, UNCHANGED <<rows, starts, produced>>
    PROVE  Promise!PromiseNext
<1>1. Promise!Lose(Self)
    BY DEF Promise!Lose
<1> QED BY <1>1 DEF Promise!PromiseNext

LEMMA Recovers ==
    ASSUME CurrentTask = NoTask,
           Ledger' = [t \in Task |-> IF Ledger[t].status = "running"
                                     THEN [Ledger[t] EXCEPT !.status = "interrupted"]
                                     ELSE Ledger[t]],
           UNCHANGED <<CurrentTask, starts, produced>>
    PROVE  Promise!PromiseNext
<1>1. Promise!Recover(Self)
    BY DEF Promise!Recover, Ledger
<1> QED BY <1>1 DEF Promise!PromiseNext

LEMMA Forgets ==
    ASSUME NEW S \in SUBSET Task, \A t \in S : Ledger[t].status \in Finished,
           Ledger' = [t \in Task |-> IF t \in S THEN Promise!NoEntry ELSE Ledger[t]],
           Begun' = Begun \ S,
           produced' = [t \in Task |-> IF t \in S THEN NoOutput ELSE produced[t]],
           UNCHANGED CurrentTask
    PROVE  Promise!PromiseNext
<1>1. Promise!Forget(Self, S)
    BY DEF Promise!Forget, Promise!Settled, Finished, Ledger, Begun
<1> QED BY <1>1 DEF Promise!PromiseNext

LEMMA Stutters ==
    ASSUME UNCHANGED <<Ledger, CurrentTask, starts, produced>>
    PROVE  UNCHANGED Promise!promiseVars
BY DEF Promise!promiseVars, Ledger

-----------------------------------------------------------------------------
(* What the node shows of its state                                         *)

LEMMA LedgerFacts ==
    ASSUME TypeOK
    PROVE  /\ Ledger = [t \in Task |-> Ledger[t]]
           /\ \A t \in Task : /\ Ledger[t].status = rows[t].status
                             /\ Ledger[t].output = rows[t].output
                             /\ Ledger[t] = [ peer |-> rows[t].peer, status |-> rows[t].status,
                                             output |-> rows[t].output ]
BY DEF Ledger, LedgerOf

LEMMA LedgerFactsNext ==
    ASSUME TypeOK'
    PROVE  /\ Ledger' = [t \in Task |-> Ledger'[t]]
           /\ \A t \in Task :
                Ledger'[t] = [ peer |-> rows'[t].peer, status |-> rows'[t].status,
                               output |-> rows'[t].output ]
BY DEF Ledger, LedgerOf

\* The process of the node is that of the one handler that executes.
LEMMA CurrentIsOwned ==
    ASSUME SlotHasOneOwner, NEW h \in Handler, pc[h] = "executing"
    PROVE  CurrentTask = TaskOf(h)
<1>1. \A g \in Executing : g = h
    BY DEF SlotHasOneOwner, Owning, Executing
<1>2. Executing # {} /\ (CHOOSE g \in Executing : TRUE) = h
    BY <1>1 DEF Executing
<1> QED BY <1>2 DEF CurrentTask

LEMMA CurrentIsOwnedNext ==
    ASSUME SlotHasOneOwner', NEW h \in Handler, pc'[h] = "executing"
    PROVE  CurrentTask' = TaskOf(h)'
<1>1. \A g \in Executing' : g = h
    BY DEF SlotHasOneOwner, Owning, Executing
<1>2. Executing' # {} /\ (CHOOSE g \in Executing' : TRUE) = h
    BY <1>1 DEF Executing
<1> QED BY <1>2 DEF CurrentTask

LEMMA NoneIsCurrent ==
    /\ (\A h \in Handler : pc[h] # "executing") => CurrentTask = NoTask
    /\ (\A h \in Handler : pc'[h] # "executing") => CurrentTask' = NoTask
BY DEF CurrentTask, Executing

LEMMA CurrentKept ==
    ASSUME SlotHasOneOwner, SlotHasOneOwner',
           \A h \in Handler : pc'[h] = "executing" <=> pc[h] = "executing",
           \A h \in Handler : pc[h] = "executing" => offer'[h] = offer[h]
    PROVE  UNCHANGED CurrentTask
<1>1. CASE \A h \in Handler : pc[h] # "executing"
    BY <1>1, NoneIsCurrent
<1>2. ASSUME NEW h \in Handler, pc[h] = "executing" PROVE UNCHANGED CurrentTask
    BY <1>2, CurrentIsOwned, CurrentIsOwnedNext DEF TaskOf
<1> QED BY <1>1, <1>2

-----------------------------------------------------------------------------
(* The invariants the refinement rests on                                   *)

LEMMA FinishKeepsBlank ==
    ASSUME TypeOK, NothingIsBlank, NEW k \in Task, NEW s \in Finished,
           NEW o \in Output \cup {NoOutput}, FinishTask(k, s, o),
           NEW t \in Task, rows'[t].status = "absent"
    PROVE  rows'[t] = Absent
<1>1. CASE UNCHANGED rows
    BY <1>1 DEF NothingIsBlank
<1>2. CASE rows' = RecordTaskFinish(rows, k, s, o)
    <2>1. rows \in [Task -> Row]
        BY DEF TypeOK
    <2>2. t # k \/ ~Exists(rows, k)
        BY <1>2, <2>1, FinishRecords DEF Finished
    <2> QED BY <1>2, <2>1, <2>2, FinishRecords DEF NothingIsBlank
<1> QED BY <1>1, <1>2 DEF FinishTask

LEMMA TimeKeepsBlank ==
    ASSUME TypeOK, NothingIsBlank, TimePasses, NEW t \in Task, rows'[t].status = "absent"
    PROVE  rows'[t] = Absent
<1>1. rows[t] = Absent /\ t \in DOMAIN rows
    BY TimeKeepsRows DEF TimePasses, TypeOK, NothingIsBlank
<1>2. ~Exists(rows, t) /\ rows[t].status \notin Finished
    BY <1>1 DEF Exists, Absent, Finished
<1>3. rows'[t] = [rows[t] EXCEPT !.started = @, !.finished = @]
    BY <1>1, <1>2 DEF TimePasses, RetentionPasses
<1> QED BY <1>1, <1>3 DEF Absent

LEMMA BlankStep == TypeOK /\ NothingIsBlank /\ [Next]_vars => NothingIsBlank'
<1> SUFFICES ASSUME TypeOK, NothingIsBlank, [Next]_vars PROVE NothingIsBlank'
    OBVIOUS
<1>1. ASSUME NEW t \in Task, rows'[t].status = "absent" PROVE rows'[t] = Absent
    <2>1. ASSUME NEW h \in Handler, RecordStart(h) PROVE rows'[t] = Absent
        BY <1>1, <2>1, StartInserts DEF NothingIsBlank
    <2>2. ASSUME NEW h \in Handler, FinishUnanswered(h) PROVE rows'[t] = Absent
        BY <1>1, <2>2, FinishKeepsBlank DEF FinishUnanswered, Goto, TypeOK, Finished
    <2>3. ASSUME NEW h \in Handler, FinishRun(h) PROVE rows'[t] = Absent
        BY <1>1, <2>3, FinishKeepsBlank DEF FinishRun, Goto, TypeOK, Outcome
    <2>4. ASSUME NEW h \in Handler, Prune(h) PROVE rows'[t] = Absent
        BY <1>1, <2>4, PruneKeepsRunning DEF Prune, TypeOK, NothingIsBlank
    <2>5. CASE Restart
        BY <1>1, <2>5, ReconcileSettles DEF Restart, TypeOK, NothingIsBlank
    <2>6. CASE TimePasses
        BY <1>1, <2>6, TimeKeepsBlank
    <2>7. CASE UNCHANGED rows
        BY <1>1, <2>7 DEF NothingIsBlank
    <2> QED BY <2>1, <2>2, <2>3, <2>4, <2>5, <2>6, <2>7 DEF Next, Receiving, Connect, ReadTask,
        ReadFails, Accepting, PolicyAllows, PolicyRefuses, TryClaim, ClaimRefused,
        RecordStartFails, ReleaseUnrecorded, Answering, WriteVerdict, WriteVerdictFails,
        ReleaseUnanswered, Launch, RunEnds, RunFails, RunSucceeds, Settling, StartProcess,
        StartFails, ReleaseAfterRun, Leave, Closing, Exit, Crash, Vanish, StopRuns, Wait,
        CloseTsnet, CloseStore, OutlivedEnds, ghosts, vars
<1>2. ASSUME NEW g \in Handler, outcome'[g].status = "done" PROVE outcome'[g].output # NoOutput
    <2>1. ASSUME NEW h \in Handler, StartFails(h) \/ RunFails(h) PROVE outcome'[g] = outcome[g]
        BY <1>2, <2>1 DEF StartFails, RunFails, RunError, TypeOK
    <2>2. ASSUME NEW h \in Handler, NEW o \in Output, RunSucceeds(h, o)
          PROVE  outcome'[g] = outcome[g] \/ outcome'[g].output = o
        BY <2>2 DEF RunSucceeds, TypeOK
    <2>3. ASSUME NEW h \in Handler, Leave(h) PROVE outcome'[g] = outcome[g]
        BY <1>2, <2>3 DEF Leave, NoOutcome, TypeOK
    <2>4. CASE Vanish
        BY <1>2, <2>4 DEF Vanish, NoOutcome
    <2>5. CASE UNCHANGED outcome
        BY <1>2, <2>5 DEF NothingIsBlank
    <2> QED BY <1>2, <2>1, <2>2, <2>3, <2>4, <2>5 DEF NothingIsBlank, Next, Receiving, Connect,
        ReadTask, ReadFails, Accepting, PolicyAllows, PolicyRefuses, TryClaim, ClaimRefused,
        RecordStart, RecordStartFails, ReleaseUnrecorded, Answering, WriteVerdict,
        WriteVerdictFails, ReleaseUnanswered, FinishUnanswered, Prune, Launch, RunEnds,
        Settling, StartProcess, FinishRun, ReleaseAfterRun, Closing, Exit, Crash, StopRuns,
        Wait, CloseTsnet, CloseStore, OutlivedEnds, Restart, TimePasses, ghosts, vars
<1> QED BY <1>1, <1>2 DEF NothingIsBlank

-----------------------------------------------------------------------------
(* Every step of the node                                                   *)

LEMMA RecordStartTakes ==
    ASSUME TypeOK, SlotHasOneOwner, SlotHasOneOwner', NEW h \in Handler, RecordStart(h)
    PROVE  Promise!PromiseNext
<1> DEFINE t == TaskOf(h)
           p == PeerOf(h)
<1>1. t \in Task /\ p \in Peer /\ rows[t].status = "absent" /\ rows \in [Task -> Row]
    BY StartInserts DEF TypeOK
<1>2. rows' = [rows EXCEPT ![t] = [peer |-> p, status |-> "running", output |-> NoOutput,
                                   started |-> "recent", finished |-> "recent"]]
    BY DEF RecordStart, RecordTaskStart
<1>3. Ledger' = [Ledger EXCEPT ![t] = [peer |-> p, status |-> "running", output |-> NoOutput]]
    BY <1>1, <1>2 DEF Ledger, LedgerOf
<1>4. UNCHANGED CurrentTask
    BY CurrentKept DEF RecordStart, Goto, TypeOK
<1>5. UNCHANGED <<starts, produced>>
    BY DEF RecordStart, ghosts
<1> QED BY <1>1, <1>3, <1>4, <1>5, LedgerFacts, Takes

LEMMA StartProcessBegins ==
    ASSUME TypeOK, IInv, SlotHasOneOwner', NEW h \in Handler, StartProcess(h)
    PROVE  Promise!PromiseNext
<1> DEFINE t == TaskOf(h)
<1>1. /\ pc[h] = "spawned" /\ pc'[h] = "executing" /\ TaskOf(h)' = t /\ t \in Task
      /\ UNCHANGED <<rows, produced>>
    BY DEF StartProcess, Goto, TypeOK, TaskOf
<1>2. CurrentTask' = t
    BY <1>1, CurrentIsOwnedNext
<1>3. CurrentTask = NoTask
    BY <1>1, NoneIsCurrent DEF IInv, SlotHasOneOwner, Owning
<1>4. Ledger[t].status = "running"
    BY <1>1, LedgerFacts DEF IInv, AcceptedIsOnRecord, Answerable
<1>5. starts[t] = 0
    BY <1>1 DEF IInv, ProcessCounted, Answerable
<1>6. t \notin Begun
    BY <1>5 DEF Begun
<1>7. Begun' = Begun \cup {t}
    BY <1>1, <1>5 DEF Begun, StartProcess, TypeOK
<1> QED BY <1>1, <1>2, <1>3, <1>4, <1>6, <1>7, Begins

LEMMA RunEndsEnds ==
    ASSUME TypeOK, IInv, SlotHasOneOwner', NEW h \in Handler, RunEnds(h)
    PROVE  Promise!PromiseNext
<1> DEFINE t == TaskOf(h)
<1>1. /\ pc[h] = "executing" /\ t \in Task /\ UNCHANGED <<rows, starts>>
      /\ pc'[h] = "storing" /\ \A g \in Handler \ {h} : pc'[g] = pc[g]
    BY DEF RunEnds, RunFails, RunSucceeds, Goto, TypeOK, ghosts
<1>2. CurrentTask = t
    BY <1>1, CurrentIsOwned DEF IInv
<1>3. CurrentTask' = NoTask
    BY <1>1, NoneIsCurrent DEF IInv, SlotHasOneOwner, Owning
<1>4. PICK o \in Output \cup {NoOutput} : produced' = [produced EXCEPT ![t] = o]
    <2>1. CASE RunFails(h)
        <3>1. produced' = [produced EXCEPT ![t] = produced[t]]
            BY <2>1 DEF RunFails, ghosts, TypeOK
        <3> QED BY <1>1, <3>1 DEF TypeOK
    <2> QED BY <2>1 DEF RunEnds, RunSucceeds
<1> QED BY <1>1, <1>2, <1>3, <1>4, Ends

\* Storing an outcome settles the task with the status and output it ends up with.
LEMMA FinishSettles ==
    ASSUME TypeOK, NEW t \in Task, NEW s \in Finished, NEW o \in Output \cup {NoOutput},
           FinishTask(t, s, o), rows[t].status = "running", CurrentTask # t,
           s = "done" => starts[t] = 1 /\ produced[t] = o /\ o # NoOutput,
           UNCHANGED <<CurrentTask, starts, produced>>
    PROVE  Promise!PromiseNext \/ UNCHANGED Promise!promiseVars
<1>1. CASE UNCHANGED rows
    BY <1>1, Stutters DEF Ledger, LedgerOf
<1>2. CASE rows' = RecordTaskFinish(rows, t, s, o)
    <2> DEFINE w == StoredStatus(s, o)
    <2>1. w \in Finished /\ (w = "done" => s = "done")
        BY DEF StoredStatus, Finished
    <2>2. StoredOutput(s, o) = IF w = "done" THEN produced[t] ELSE NoOutput
        BY <2>1 DEF StoredOutput
    <2>3. rows' = [rows EXCEPT ![t] = [@ EXCEPT !.status = w, !.output = StoredOutput(s, o),
                                               !.finished = "recent"]]
        BY <1>2 DEF RecordTaskFinish, Exists
    <2> HIDE DEF w
    <2>4. Ledger' = [Ledger EXCEPT ![t] =
                [@ EXCEPT !.status = w,
                          !.output = IF w = "done" THEN produced[t] ELSE NoOutput]]
        BY <2>2, <2>3, ZenonT(40) DEF Ledger, LedgerOf, TypeOK, Row
    <2>5. w = "done" => t \in Begun /\ produced[t] # NoOutput
        BY <2>1 DEF Begun
    <2> QED BY <2>1, <2>4, <2>5, LedgerFacts, Settles
<1> QED BY <1>1, <1>2 DEF FinishTask

LEMMA FinishesSettle ==
    ASSUME TypeOK, IInv, NothingIsBlank, SlotHasOneOwner', NEW h \in Handler,
           FinishRun(h) \/ FinishUnanswered(h)
    PROVE  Promise!PromiseNext \/ UNCHANGED Promise!promiseVars
<1> DEFINE t == TaskOf(h)
<1>1. /\ pc[h] \in {"storing", "disowning"} /\ t \in Task /\ rows[t].status = "running"
      /\ UNCHANGED <<starts, produced>>
    BY DEF FinishRun, FinishUnanswered, Goto, TypeOK, IInv, AcceptedIsOnRecord, Answerable
<1>2. UNCHANGED CurrentTask
    BY CurrentKept DEF FinishRun, FinishUnanswered, Goto, TypeOK, IInv
<1>3. CurrentTask # t
    <2>1. CASE \A g \in Handler : pc[g] # "executing"
        BY <1>1, <2>1, NoneIsCurrent
    <2>2. ASSUME NEW g \in Handler, pc[g] = "executing" PROVE CurrentTask # t
        BY <1>1, <2>2, CurrentIsOwned DEF IInv, AcceptedIsOnRecord, Answerable
    <2> QED BY <2>1, <2>2
<1>4. CASE FinishRun(h)
    <2>1. /\ outcome[h].status \in Finished /\ outcome[h].output \in Output \cup {NoOutput}
          /\ FinishTask(t, outcome[h].status, outcome[h].output) /\ pc[h] = "storing"
        BY <1>4 DEF FinishRun, Goto, TypeOK, Outcome
    <2>2. outcome[h].status = "done" =>
            starts[t] = 1 /\ produced[t] = outcome[h].output /\ outcome[h].output # NoOutput
        BY <2>1 DEF IInv, ProcessCounted, NothingIsBlank
    <2> QED BY <1>1, <1>2, <1>3, <2>1, <2>2, FinishSettles
<1>5. CASE FinishUnanswered(h)
    <2>1. FinishTask(t, "failed", NoOutput) /\ "failed" \in Finished
        BY <1>5 DEF FinishUnanswered, Finished
    <2> QED BY <1>1, <1>2, <1>3, <2>1, FinishSettles
<1> QED BY <1>4, <1>5

LEMMA PruneForgets ==
    ASSUME TypeOK, IInv, NothingIsBlank, SlotHasOneOwner', NEW h \in Handler, Prune(h)
    PROVE  Promise!PromiseNext \/ UNCHANGED Promise!promiseVars
<1>1. UNCHANGED CurrentTask
    BY CurrentKept DEF Prune, Goto, TypeOK, IInv
<1>2. CASE UNCHANGED <<rows, starts, produced>>
    BY <1>1, <1>2, Stutters DEF Ledger, LedgerOf
<1>3. CASE /\ rows' = PruneTasks(rows)
           /\ starts' = [t \in Task |-> IF Prunable(rows[t]) THEN 0 ELSE starts[t]]
           /\ produced' = [t \in Task |-> IF Prunable(rows[t]) THEN NoOutput ELSE produced[t]]
    <2> DEFINE S == {t \in Task : Prunable(rows[t])}
    <2>1. \A t \in S : Ledger[t].status \in Finished
      <3> SUFFICES ASSUME NEW t \in S PROVE rows[t].status \in Finished
          BY LedgerFacts
      <3>1. rows[t] \in Row /\ rows[t].started = "old" /\ rows[t].status # "running"
            BY DEF Prunable, TypeOK
      <3>2. rows[t].status # "absent"
            BY <3>1 DEF NothingIsBlank, Absent
      <3> QED BY <3>1, <3>2 DEF Row
    <2>2. Ledger' = [t \in Task |-> IF t \in S THEN Promise!NoEntry ELSE Ledger[t]]
      <3>1. rows' = [t \in Task |-> IF t \in S THEN Absent ELSE rows[t]]
            BY <1>3 DEF PruneTasks, TypeOK
      <3> HIDE DEF S
      <3> QED BY <3>1 DEF Absent, Promise!NoEntry, Ledger, LedgerOf
    <2>3. Begun' = Begun \ S
        BY <1>3 DEF Begun, TypeOK
    <2>4. produced' = [t \in Task |-> IF t \in S THEN NoOutput ELSE produced[t]]
        BY <1>3
    <2> HIDE DEF S
    <2>5. S \in SUBSET Task
        BY DEF S
    <2> QED BY <1>1, <2>1, <2>2, <2>3, <2>4, <2>5, Forgets
<1> QED BY <1>2, <1>3 DEF Prune

LEMMA RestartRecovers ==
    ASSUME TypeOK, IInv, SlotHasOneOwner', Restart
    PROVE  Promise!PromiseNext \/ UNCHANGED Promise!promiseVars
<1>1. CurrentTask = NoTask
    BY NoneIsCurrent DEF Restart, IInv, DownIsIdle
<1>2. UNCHANGED <<CurrentTask, starts, produced>>
    BY CurrentKept DEF Restart, IInv
<1>3. CASE rows' = ReconcileStaleTasks(rows)
    <2>1. Ledger' = [t \in Task |-> IF Ledger[t].status = "running"
                                    THEN [Ledger[t] EXCEPT !.status = "interrupted"]
                                    ELSE Ledger[t]]
        BY <1>3 DEF ReconcileStaleTasks, Ledger, LedgerOf, TypeOK, Row
    <2> QED BY <1>1, <1>2, <2>1, Recovers
<1>4. CASE UNCHANGED rows
    BY <1>2, <1>4, Stutters DEF Ledger, LedgerOf
<1> QED BY <1>3, <1>4 DEF Restart

LEMMA TimeStutters ==
    ASSUME TypeOK, SlotHasOneOwner, SlotHasOneOwner', TimePasses
    PROVE  UNCHANGED Promise!promiseVars
<1>1. UNCHANGED <<CurrentTask, starts, produced>>
    BY CurrentKept DEF TimePasses, ghosts
<1>2. UNCHANGED Ledger
    BY TimeKeepsRows DEF TimePasses, Ledger, LedgerOf, TypeOK
<1> QED BY <1>1, <1>2, Stutters

\* A step that changes neither a row nor a history, and leaves the handlers that
\* execute where they are
LEMMA QuietStutters ==
    ASSUME SlotHasOneOwner, SlotHasOneOwner', UNCHANGED <<rows, starts, produced>>,
           \A g \in Handler : pc'[g] = "executing" <=> pc[g] = "executing",
           \A g \in Handler : pc[g] = "executing" => offer'[g] = offer[g]
    PROVE  UNCHANGED Promise!promiseVars
<1>1. UNCHANGED CurrentTask
    BY CurrentKept
<1> QED BY <1>1, Stutters DEF Ledger, LedgerOf

LEMMA PromiseStep ==
    ASSUME TypeOK, IInv, NothingIsBlank, SlotHasOneOwner', [Next]_vars
    PROVE  [Promise!PromiseNext]_(Promise!promiseVars)
<1>1. SlotHasOneOwner
    BY DEF IInv
<1>2. ASSUME NEW h \in Handler, Receiving(h) PROVE UNCHANGED Promise!promiseVars
    BY <1>1, <1>2, QuietStutters DEF Receiving, Connect, ReadTask, ReadFails, Goto, TypeOK, ghosts
<1>3. ASSUME NEW h \in Handler, Accepting(h), ~RecordStart(h)
      PROVE  UNCHANGED Promise!promiseVars
    BY <1>1, <1>3, QuietStutters DEF Accepting, PolicyAllows, PolicyRefuses, TryClaim,
       ClaimRefused, RecordStartFails, ReleaseUnrecorded, Goto, TypeOK, ghosts
<1>4. ASSUME NEW h \in Handler, Answering(h), ~FinishUnanswered(h), ~Prune(h)
      PROVE  UNCHANGED Promise!promiseVars
    BY <1>1, <1>4, QuietStutters DEF Answering, WriteVerdict, WriteVerdictFails,
       ReleaseUnanswered, Launch, Goto, TypeOK, ghosts
<1>5. ASSUME NEW h \in Handler, StartFails(h) \/ ReleaseAfterRun(h) \/ Leave(h)
      PROVE  UNCHANGED Promise!promiseVars
    BY <1>1, <1>5, QuietStutters DEF StartFails, ReleaseAfterRun, Leave, Goto, TypeOK, ghosts
<1>6. CASE StopRuns \/ Wait \/ CloseTsnet \/ CloseStore
    BY <1>1, <1>6, QuietStutters DEF StopRuns, Wait, CloseTsnet, CloseStore, OutlivedEnds, ghosts
<1>7. CASE UNCHANGED vars
    BY <1>1, <1>7, QuietStutters DEF vars
<1>8. CASE Vanish
    <2>1. CurrentTask' = NoTask
        BY <1>8, NoneIsCurrent DEF Vanish
    <2> QED BY <1>8, <2>1, Loses DEF Vanish
<1>9. ASSUME NEW t \in Task, OutlivedEnds(t) PROVE UNCHANGED Promise!promiseVars
    BY <1>1, <1>9, QuietStutters DEF OutlivedEnds
<1> QED BY <1>1, <1>2, <1>3, <1>4, <1>5, <1>6, <1>7, <1>8, <1>9, RecordStartTakes,
        StartProcessBegins, RunEndsEnds, FinishesSettle, PruneForgets, RestartRecovers, TimeStutters
        DEF Next, Accepting, Answering, Settling, Closing, Exit, Crash

\* What a node records, runs, settles, recovers and forgets is what TaskPromise
\* allows: the promise on which the dispatchers of TaskGrid build (receiveTask,
\* finishTask, the goroutine under runs.Go, ReconcileStaleTasks, PruneTasks).
THEOREM PromiseKept == Spec => KeepsPromise
<1>1. Init => Promise!PromiseInit
    <2> SUFFICES ASSUME Init PROVE Promise!PromiseInit
        OBVIOUS
    <2>1. CurrentTask = NoTask
        BY NoneIsCurrent DEF Init
    <2>2. LedgerOf(rows) = [t \in Task |-> Promise!NoEntry]
        BY DEF Init, LedgerOf, Absent, Promise!NoEntry
    <2>3. {t \in Task : starts[t] > 0} = {}
        BY DEF Init
    <2> QED BY <2>1, <2>2, <2>3 DEF Promise!PromiseInit, Init
<1>2. Init => NothingIsBlank
    BY DEF Init, NothingIsBlank, Absent, NoOutcome
<1>3. TypeOK /\ IInv /\ IInv' /\ NothingIsBlank /\ [Next]_vars
        => [Promise!PromiseNext]_(Promise!promiseVars)
    BY PromiseStep DEF IInv
<1>4. Spec => []NothingIsBlank
    BY <1>2, BlankStep, TypeCorrect, PTL DEF Spec
<1> QED BY <1>1, <1>3, <1>4, TypeCorrect, IInvInductive, PTL
        DEF Spec, KeepsPromise, Promise!PromiseSpec
=============================================================================
