----------------------------- MODULE TaskExecution -----------------------------
(***************************************************************************)
(* The receiving end of the task subsystem: one node that is offered tasks, *)
(* runs at most one at a time and stores each outcome for the dispatcher to *)
(* ask for later (internal/node/task_receive.go, task_slot.go,              *)
(* task_result.go, node.go; internal/task/task_process.go;                  *)
(* internal/executor).                                                      *)
(*                                                                          *)
(* Each inbound connection has a goroutine of its own.  A handler stands    *)
(* for one: it goes from the offer to runs.Go and, as the goroutine that    *)
(* runs.Go starts is the last thing it does, on to the end of that one.     *)
(* Handlers interleave with each other, with Close, with a crash and with   *)
(* the restart that follows.                                                *)
(***************************************************************************)
EXTENDS TaskStore

CONSTANTS
    Handler,    \* connection goroutines that may be alive together
    Task,       \* task ids
    Runnable,   \* those whose kind executor.Supports
    NoTask,     \* of a handler that has read no offer
    StoreFails  \* whether a write of an open database may fail

ASSUME ExecutionAssumption ==
    /\ Runnable \subseteq Task
    /\ NoTask \notin Task
    /\ StoreFails \in BOOLEAN

VARIABLES
    phase,      \* of the process: running, the steps of Close, gone
    store,      \* whether a.history is not nil
    busy,       \* TaskSlot.busy
    rows,       \* the received rows of the tasks table
    pc,         \* where each handler is
    offer,      \* the task a handler serves and the peer that offered it
    outcome,    \* what executor.Run returned to a handler
    starts,     \* history: processes started for a task since it was last pruned
    produced,   \* history: what the last of them returned
    unsaved,    \* history: running rows whose finish was never stored
    outlived    \* tasks whose process has outlived the node that started it

nodeVars == <<phase, store>>
ghosts   == <<starts, produced, unsaved, outlived>>
vars     == <<phase, store, busy, rows, pc, offer, outcome,
              starts, produced, unsaved, outlived>>

Phase == {"up", "stopping", "waiting", "waited", "offline", "closed", "down"}

\* Where a handler is: what it does next.
PC == {"idle", "reading", "checking", "claiming", "recording", "backingOut",
       "answering", "unclaiming", "disowning", "pruning", "launching",
       "spawned", "executing", "storing", "freeing", "leaving"}

\* The slot is the handler's from TryClaim to the Release that follows.
Owning == {"recording", "backingOut", "answering", "unclaiming", "pruning",
           "launching", "spawned", "executing", "storing", "freeing"}

\* The handler has recorded the row and still has to finish it.
Answerable == {"answering", "unclaiming", "disowning", "pruning",
               "launching", "spawned", "executing", "storing"}

\* Between the Add and the Done of runs.Go.
InRun == {"spawned", "executing", "storing", "freeing", "leaving"}

NoOffer   == [peer |-> NoPeer, task |-> NoTask]
Offer     == [peer : Peer \cup {NoPeer}, task : Task \cup {NoTask}]
Outcome   == [status : Finished, output : Output \cup {NoOutput}]
NoOutcome == [status |-> "failed", output |-> NoOutput]

NetUp     == phase \in {"up", "stopping", "waiting", "waited"}
Cancelled == phase # "up"
StoreOpen == store /\ phase \notin {"closed", "down"}

TaskOf(h) == offer[h].task
PeerOf(h) == offer[h].peer

Executing == {h \in Handler : pc[h] = "executing"}

Init ==
    /\ phase = "up"
    /\ store = TRUE
    /\ busy = FALSE
    /\ rows = [t \in Task |-> Absent]
    /\ pc = [h \in Handler |-> "idle"]
    /\ offer = [h \in Handler |-> NoOffer]
    /\ outcome = [h \in Handler |-> NoOutcome]
    /\ starts = [t \in Task |-> 0]
    /\ produced = [t \in Task |-> NoOutput]
    /\ unsaved = {}
    /\ outlived = {}

Goto(h, from, to) ==
    /\ pc[h] = from
    /\ pc' = [pc EXCEPT ![h] = to]

-----------------------------------------------------------------------------
(* ProcessTask and the accept closure of receiveTask                        *)

\* A peer that Tailscale has identified says hello with the task intent.
Connect(h, p) ==
    /\ NetUp
    /\ Goto(h, "idle", "reading")
    /\ offer' = [offer EXCEPT ![h] = [@ EXCEPT !.peer = p]]
    /\ UNCHANGED <<nodeVars, busy, rows, outcome, ghosts>>

ReadTask(h, t) ==
    /\ NetUp
    /\ Goto(h, "reading", "checking")
    /\ offer' = [offer EXCEPT ![h] = [@ EXCEPT !.task = t]]
    /\ UNCHANGED <<nodeVars, busy, rows, outcome, ghosts>>

\* The connection breaks, or the offer is unreadable or not valid.
ReadFails(h) ==
    /\ Goto(h, "reading", "idle")
    /\ offer' = [offer EXCEPT ![h] = NoOffer]
    /\ UNCHANGED <<nodeVars, busy, rows, outcome, ghosts>>

\* checkTaskAccept, Supports and the nil check of history.  What the access
\* list says may change between two offers, so it is a free choice here.
PolicyAllows(h) ==
    /\ TaskOf(h) \in Runnable
    /\ store
    /\ Goto(h, "checking", "claiming")
    /\ UNCHANGED <<nodeVars, busy, rows, offer, outcome, ghosts>>

PolicyRefuses(h) ==
    /\ Goto(h, "checking", "idle")
    /\ offer' = [offer EXCEPT ![h] = NoOffer]
    /\ UNCHANGED <<nodeVars, busy, rows, outcome, ghosts>>

TryClaim(h) ==
    /\ ~busy
    /\ Goto(h, "claiming", "recording")
    /\ busy' = TRUE
    /\ UNCHANGED <<nodeVars, rows, offer, outcome, ghosts>>

ClaimRefused(h) ==
    /\ busy
    /\ Goto(h, "claiming", "idle")
    /\ offer' = [offer EXCEPT ![h] = NoOffer]
    /\ UNCHANGED <<nodeVars, busy, rows, outcome, ghosts>>

RecordStart(h) ==
    /\ Goto(h, "recording", "answering")
    /\ StoreOpen
    /\ CanRecordTaskStart(rows, TaskOf(h))
    /\ rows' = RecordTaskStart(rows, TaskOf(h), PeerOf(h))
    /\ UNCHANGED <<nodeVars, busy, offer, outcome, ghosts>>

\* Slip: refuses without giving the slot back
RefuseWithoutRelease(h) ==
    /\ Goto(h, "recording", "idle")
    /\ StoreFails \/ ~StoreOpen \/ ~CanRecordTaskStart(rows, TaskOf(h))
    /\ offer' = [offer EXCEPT ![h] = NoOffer]
    /\ UNCHANGED <<nodeVars, busy, rows, outcome, ghosts>>

\* Slip: claimed is set before the row is recorded, so that the refusal of a
\* duplicate finishes the row of the task that was there first
ClaimBeforeRecord(h) ==
    /\ Goto(h, "recording", "unclaiming")
    /\ StoreFails \/ ~StoreOpen \/ ~CanRecordTaskStart(rows, TaskOf(h))
    /\ UNCHANGED <<nodeVars, busy, rows, offer, outcome, ghosts>>

\* The id is taken, the database is closed, or the write fails: the slot goes
\* back and the offer is refused.
RecordStartFails(h) ==
    /\ Goto(h, "recording", "backingOut")
    /\ StoreFails \/ ~StoreOpen \/ ~CanRecordTaskStart(rows, TaskOf(h))
    /\ UNCHANGED <<nodeVars, busy, rows, offer, outcome, ghosts>>

ReleaseUnrecorded(h) ==
    /\ Goto(h, "backingOut", "idle")
    /\ busy' = FALSE
    /\ offer' = [offer EXCEPT ![h] = NoOffer]
    /\ UNCHANGED <<nodeVars, rows, outcome, ghosts>>

WriteVerdict(h) ==
    /\ NetUp
    /\ Goto(h, "answering", "pruning")
    /\ UNCHANGED <<nodeVars, busy, rows, offer, outcome, ghosts>>

WriteVerdictFails(h) ==
    /\ Goto(h, "answering", "unclaiming")
    /\ UNCHANGED <<nodeVars, busy, rows, offer, outcome, ghosts>>

\* Slip: frees the slot and forgets the row
ReleaseAndForget(h) ==
    /\ Goto(h, "unclaiming", "idle")
    /\ busy' = FALSE
    /\ offer' = [offer EXCEPT ![h] = NoOffer]
    /\ UNCHANGED <<nodeVars, rows, outcome, ghosts>>

\* The verdict was not delivered: first the slot is freed, then the row is
\* finished, so the next task may be recorded while this row still runs.
ReleaseUnanswered(h) ==
    /\ Goto(h, "unclaiming", "disowning")
    /\ busy' = FALSE
    /\ UNCHANGED <<nodeVars, rows, offer, outcome, ghosts>>

\* finishTask: a write that fails leaves the row running
FinishTask(t, s, o) ==
    \/ /\ StoreOpen
       /\ rows' = RecordTaskFinish(rows, t, s, o)
       /\ UNCHANGED unsaved
    \/ /\ StoreFails \/ ~StoreOpen
       /\ unsaved' = unsaved \cup {t}
       /\ UNCHANGED rows

FinishUnanswered(h) ==
    /\ Goto(h, "disowning", "idle")
    /\ FinishTask(TaskOf(h), "failed", NoOutput)
    /\ offer' = [offer EXCEPT ![h] = NoOffer]
    /\ UNCHANGED <<nodeVars, busy, outcome, starts, produced, outlived>>

Prune(h) ==
    /\ Goto(h, "pruning", "launching")
    /\ \/ /\ StoreOpen
          /\ rows' = PruneTasks(rows)
          /\ starts' = [t \in Task |-> IF Prunable(rows[t]) THEN 0 ELSE starts[t]]
          /\ produced' = [t \in Task |-> IF Prunable(rows[t]) THEN NoOutput ELSE produced[t]]
          /\ outlived' = {t \in outlived : ~Prunable(rows[t])}
       \/ /\ StoreFails \/ ~StoreOpen
          /\ UNCHANGED <<rows, starts, produced, outlived>>
    /\ UNCHANGED <<nodeVars, busy, offer, outcome, unsaved>>

-----------------------------------------------------------------------------
(* The goroutine that runs.Go starts                                        *)

Launch(h) ==
    /\ Goto(h, "launching", "spawned")
    /\ UNCHANGED <<nodeVars, busy, rows, offer, outcome, ghosts>>

\* Slip: starts the process without a look at the context
StartUnchecked(h) ==
    /\ Goto(h, "spawned", "executing")
    /\ starts' = [starts EXCEPT ![TaskOf(h)] = @ + 1]
    /\ UNCHANGED <<nodeVars, busy, rows, offer, outcome, produced, unsaved, outlived>>

\* executor.Run looks at the context before it starts the process.
StartProcess(h) ==
    /\ ~Cancelled
    /\ Goto(h, "spawned", "executing")
    /\ starts' = [starts EXCEPT ![TaskOf(h)] = @ + 1]
    /\ UNCHANGED <<nodeVars, busy, rows, offer, outcome, produced, unsaved, outlived>>

\* Slip: the error of Run is not looked at
ErrorIgnored == [status |-> "done", output |-> NoOutput]

\* Slip: the error text of the context is stored as the status
ErrorAsStatus ==
    [ status |-> IF Cancelled THEN "context canceled" ELSE "failed",
      output |-> NoOutput ]

\* An error of Run is an interruption once Close has cancelled the context.
RunError ==
    [ status |-> IF Cancelled THEN "interrupted" ELSE "failed",
      output |-> NoOutput ]

\* The context is cancelled, or the work directory cannot be made.
StartFails(h) ==
    /\ Goto(h, "spawned", "storing")
    /\ outcome' = [outcome EXCEPT ![h] = RunError]
    /\ UNCHANGED <<nodeVars, busy, rows, offer, ghosts>>

\* The process exits well with output o, even if the context is cancelled.
RunSucceeds(h, o) ==
    /\ Goto(h, "executing", "storing")
    /\ outcome' = [outcome EXCEPT ![h] = [status |-> "done", output |-> o]]
    /\ produced' = [produced EXCEPT ![TaskOf(h)] = o]
    /\ UNCHANGED <<nodeVars, busy, rows, offer, starts, unsaved, outlived>>

\* It fails, panics, prints more than maxOutput, or is killed by the context.
RunFails(h) ==
    /\ Goto(h, "executing", "storing")
    /\ outcome' = [outcome EXCEPT ![h] = RunError]
    /\ UNCHANGED <<nodeVars, busy, rows, offer, ghosts>>

FinishRun(h) ==
    /\ Goto(h, "storing", "freeing")
    /\ FinishTask(TaskOf(h), outcome[h].status, outcome[h].output)
    /\ UNCHANGED <<nodeVars, busy, offer, outcome, starts, produced, outlived>>

\* The deferred Release, then the deferred Done of the wait group
ReleaseAfterRun(h) ==
    /\ Goto(h, "freeing", "leaving")
    /\ busy' = FALSE
    /\ UNCHANGED <<nodeVars, rows, offer, outcome, ghosts>>

\* The Done that takes the counter to zero lets Wait return, even when another
\* run is added before the waiter is scheduled (the wait group may panic then:
\* Crash).
LastRun(h) == \A g \in Handler \ {h} : pc[g] \notin InRun

\* Slip: a plain `go` in place of runs.Go, with no Done to wake the waiter
LeaveUncounted(h) ==
    /\ Goto(h, "leaving", "idle")
    /\ offer' = [offer EXCEPT ![h] = NoOffer]
    /\ outcome' = [outcome EXCEPT ![h] = NoOutcome]
    /\ UNCHANGED <<nodeVars, busy, rows, ghosts>>

Leave(h) ==
    /\ Goto(h, "leaving", "idle")
    /\ phase' = IF phase = "waiting" /\ LastRun(h) THEN "waited" ELSE phase
    /\ offer' = [offer EXCEPT ![h] = NoOffer]
    /\ outcome' = [outcome EXCEPT ![h] = NoOutcome]
    /\ UNCHANGED <<store, busy, rows, ghosts>>

-----------------------------------------------------------------------------
(* Close, a crash, and the New that follows                                 *)

StopRuns ==
    /\ phase = "up"
    /\ phase' = "stopping"
    /\ UNCHANGED <<store, busy, rows, pc, offer, outcome, ghosts>>

Wait ==
    /\ phase = "stopping"
    /\ phase' = IF \E h \in Handler : pc[h] \in InRun THEN "waiting" ELSE "waited"
    /\ UNCHANGED <<store, busy, rows, pc, offer, outcome, ghosts>>

CloseTsnet ==
    /\ phase = "waited"
    /\ phase' = "offline"
    /\ UNCHANGED <<store, busy, rows, pc, offer, outcome, ghosts>>

CloseStore ==
    /\ phase = "offline"
    /\ phase' = "closed"
    /\ UNCHANGED <<store, busy, rows, pc, offer, outcome, ghosts>>

\* The process is gone: its goroutines and its memory with it.  Nothing tells the task
\* process that it runs: that one may end with the pipe it writes to, or run on.
Vanish ==
    /\ phase' = "down"
    /\ busy' = FALSE
    /\ pc' = [h \in Handler |-> "idle"]
    /\ offer' = [h \in Handler |-> NoOffer]
    /\ outcome' = [h \in Handler |-> NoOutcome]
    /\ \E S \in SUBSET Executing : outlived' = outlived \cup {TaskOf(h) : h \in S}
    /\ UNCHANGED <<store, rows, starts, produced, unsaved>>

Exit == phase = "closed" /\ Vanish

\* Killed, a panic, or the exec with which the dashboard restarts itself: no Close.
Crash == phase \notin {"closed", "down"} /\ Vanish

\* Nobody waits for it, and what it has made is nobody's result.
OutlivedEnds(t) ==
    /\ t \in outlived
    /\ outlived' = outlived \ {t}
    /\ UNCHANGED <<nodeVars, busy, rows, pc, offer, outcome, starts, produced, unsaved>>

RunningRows == {t \in Task : rows[t].status = "running"}

\* New opens the database and reconciles it.  Neither failing is fatal.
Restart ==
    /\ phase = "down"
    /\ phase' = "up"
    /\ \/ /\ store' = TRUE
          /\ rows' = ReconcileStaleTasks(rows)
          /\ unsaved' = {}
       \/ /\ StoreFails
          /\ store' \in BOOLEAN
          /\ unsaved' = RunningRows
          /\ UNCHANGED rows
    /\ UNCHANGED <<busy, pc, offer, outcome, starts, produced, outlived>>

TimePasses ==
    /\ rows' = RetentionPasses(rows)
    /\ UNCHANGED <<nodeVars, busy, pc, offer, outcome, ghosts>>

-----------------------------------------------------------------------------
Accepting(h) ==
    \/ PolicyAllows(h) \/ PolicyRefuses(h)
    \/ TryClaim(h) \/ ClaimRefused(h)
    \/ RecordStart(h) \/ RecordStartFails(h) \/ ReleaseUnrecorded(h)

Answering(h) ==
    \/ WriteVerdict(h) \/ WriteVerdictFails(h)
    \/ ReleaseUnanswered(h) \/ FinishUnanswered(h)
    \/ Prune(h) \/ Launch(h)

RunEnds(h) == RunFails(h) \/ \E o \in Output : RunSucceeds(h, o)

Settling(h) ==
    \/ StartProcess(h) \/ StartFails(h)
    \/ FinishRun(h) \/ ReleaseAfterRun(h) \/ Leave(h)

Receiving(h) ==
    \/ \E p \in Peer : Connect(h, p)
    \/ \E t \in Task : ReadTask(h, t)
    \/ ReadFails(h)

Closing == Wait \/ CloseTsnet \/ CloseStore \/ Exit

Next ==
    \/ \E h \in Handler : Receiving(h) \/ Accepting(h) \/ Answering(h)
                          \/ RunEnds(h) \/ Settling(h)
    \/ StopRuns \/ Closing \/ Crash \/ Restart
    \/ TimePasses \/ \E t \in Task : OutlivedEnds(t)

Spec == Init /\ [][Next]_vars

\* The goroutines are scheduled, Close goes on once it has started, and a
\* cancelled context kills the process.  Nothing bounds how long a process
\* runs before that, or how long a peer takes to send its offer.
Fairness ==
    /\ \A h \in Handler :
        /\ WF_vars(Accepting(h) \/ Answering(h) \/ Settling(h))
        /\ WF_vars(Cancelled /\ RunEnds(h))
    /\ WF_vars(Closing)

FairSpec == Spec /\ Fairness

\* Every process ends on its own: an assumption about the tasks, not the code.
ProcessesEnd == \A h \in Handler : WF_vars(RunEnds(h))

\* The listener takes no connection for ever while the node closes.  In
\* `edgegrid up` the cancelled context closes it; the dashboard calls Close
\* before it cancels, so there it depends on the peers.
ListenerCloses ==
    <>[][\A h \in Handler : Cancelled => ~(pc[h] = "idle" /\ pc'[h] = "reading")]_vars

-----------------------------------------------------------------------------
(* What the node promises                                                   *)

TypeOK ==
    /\ phase \in Phase
    /\ store \in BOOLEAN
    /\ busy \in BOOLEAN
    /\ rows \in [Task -> Row]
    /\ pc \in [Handler -> PC]
    /\ offer \in [Handler -> Offer]
    /\ outcome \in [Handler -> Outcome]
    /\ starts \in [Task -> Nat]
    /\ produced \in [Task -> Output \cup {NoOutput}]
    /\ unsaved \in SUBSET Task
    /\ outlived \in SUBSET Task
    /\ \A h \in Handler :
        /\ pc[h] # "idle" => PeerOf(h) \in Peer
        /\ pc[h] \notin {"idle", "reading"} => TaskOf(h) \in Task

\* The slot is taken exactly while one handler has it: no two handlers are ever
\* between TryClaim and Release, and no path loses the slot for good
\* (task_slot.go with every return of receiveTask).
SlotHasOneOwner ==
    /\ busy <=> \E h \in Handler : pc[h] \in Owning
    /\ \A g, h \in Handler : pc[g] \in Owning /\ pc[h] \in Owning => g = h

\* From the moment the row is recorded until its outcome is stored, the row is
\* there, it runs, it names the dispatcher, and no other handler works on it.
\* So the dispatcher that holds a verdict always finds its task, whatever is
\* pruned or offered again meanwhile (the comment above RecordTaskStart in
\* receiveTask).
AcceptedIsOnRecord ==
    \A h \in Handler : pc[h] \in Answerable =>
        /\ rows[TaskOf(h)].status = "running"
        /\ rows[TaskOf(h)].peer = PeerOf(h)
        /\ \A g \in Handler : pc[g] \in Answerable /\ TaskOf(g) = TaskOf(h) => g = h

\* A task id gets one process at most as long as its row is kept, across
\* duplicate offers, crashes and restarts (the primary key of the table).
RunsAtMostOnce == \A t \in Task : starts[t] <= 1

\* A row is done only with the very output that its one process returned to the node
\* that started it: not while that process runs on after its node.
DoneIsWhatRan ==
    \A t \in Task : rows[t].status = "done" =>
        starts[t] = 1 /\ produced[t] = rows[t].output /\ t \notin outlived

\* A row that runs has a handler that will finish it, unless storing the
\* outcome failed or the process is gone (finishTask, ReconcileStaleTasks).
RunningIsOwned ==
    \A t \in RunningRows :
        \/ \E h \in Handler : pc[h] \in Answerable /\ TaskOf(h) = t
        \/ t \in unsaved
        \/ phase = "down"

\* Once Wait has returned no task process that the node started is alive, and none
\* starts after, although handlers may still be on their way to runs.Go (Node.Close).
NoProcessAfterWait ==
    phase \in {"waited", "offline", "closed", "down"} =>
        \A h \in Handler : pc[h] # "executing"

-----------------------------------------------------------------------------
(* The inductive invariant: the promises above with what they rest on       *)

\* A process that is gone has no handlers, and its slot is free.
DownIsIdle ==
    phase = "down" => ~busy /\ \A h \in Handler : pc[h] = "idle"

\* How many processes the task of a handler has had, by where the handler is,
\* and that a done outcome waiting to be stored is what the process returned.
ProcessCounted ==
    \A h \in Handler :
        /\ pc[h] \in Answerable \ {"executing", "storing"} => starts[TaskOf(h)] = 0
        /\ pc[h] = "executing" => starts[TaskOf(h)] = 1
        /\ pc[h] = "storing" /\ outcome[h].status = "done" =>
            starts[TaskOf(h)] = 1 /\ produced[TaskOf(h)] = outcome[h].output

\* A task without a row has had no process since it was last pruned.
UnrecordedIsUnstarted ==
    \A t \in Task : rows[t].status = "absent" => starts[t] = 0

\* A process that has outlived its node is given up by those that follow: none of them
\* serves its task, and its row never gets an outcome but interrupted.
OutlivedIsLost ==
    \A t \in outlived :
        /\ rows[t].status \in {"running", "interrupted"}
        /\ \A h \in Handler : pc[h] \in Answerable => TaskOf(h) # t

IInv ==
    /\ SlotHasOneOwner
    /\ AcceptedIsOnRecord
    /\ RunsAtMostOnce
    /\ DoneIsWhatRan
    /\ RunningIsOwned
    /\ NoProcessAfterWait
    /\ DownIsIdle
    /\ ProcessCounted
    /\ UnrecordedIsUnstarted
    /\ OutlivedIsLost

-----------------------------------------------------------------------------
(* What the dispatcher sees, and what must eventually happen                *)

\* What a result request is answered: Absent stands for unknown
lookupResult(t, p) ==
    IF store THEN ReceivedTaskFor(rows, t, p) ELSE Absent

\* A finished row keeps its status and output until it is pruned: an answer
\* the dispatcher has been given is never contradicted later, not by a late
\* finishTask, a duplicate offer or a reconcile.
FinishedIsFinal ==
    [][\A t \in Task : rows[t].status \in Finished =>
        \/ rows'[t].status = "absent"
        \/ /\ rows'[t].status = rows[t].status
           /\ rows'[t].output = rows[t].output]_vars

\* Close returns and the process ends, whatever runs do meanwhile and however
\* handlers that are past the hello still start runs (Node.Close).
CloseReturns == ListenerCloses => (phase = "stopping" ~> phase = "down")

\* If every process ends, the slot always comes free.
SlotComesFree == ProcessesEnd => (busy ~> ~busy)

\* If every process ends, an accepted task does not read running for ever,
\* unless its outcome could not be stored or the node stays down.
RunsSettle ==
    ProcessesEnd =>
        \A t \in Task :
            rows[t].status = "running" ~>
                \/ rows[t].status # "running"
                \/ t \in unsaved
                \/ phase = "down"

-----------------------------------------------------------------------------
(* The abstract specification that the node implements                      *)

Self == "self"

LedgerOf(tab) ==
    [t \in Task |-> [ peer |-> tab[t].peer, status |-> tab[t].status,
                      output |-> tab[t].output ]]

CurrentTask ==
    IF Executing = {} THEN NoTask ELSE TaskOf(CHOOSE h \in Executing : TRUE)

Promise == INSTANCE TaskPromise WITH
    Node    <- {Self},
    ledger  <- [n \in {Self} |-> LedgerOf(rows)],
    current <- [n \in {Self} |-> CurrentTask],
    begun   <- [n \in {Self} |-> {t \in Task : starts[t] > 0}],
    made    <- [n \in {Self} |-> produced]

\* What that rests on besides IInv: a key without a row holds nothing, and a process
\* that ended well has left an output.
NothingIsBlank ==
    /\ \A t \in Task : rows[t].status = "absent" => rows[t] = Absent
    /\ \A h \in Handler : outcome[h].status = "done" => outcome[h].output # NoOutput

\* Every step of the node is a step of TaskPromise or leaves its view alone:
\* the promise that TaskGrid relies on.
KeepsPromise == Promise!PromiseSpec
=============================================================================
