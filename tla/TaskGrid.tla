-------------------------------- MODULE TaskGrid --------------------------------
(***************************************************************************)
(* The sending end of the task subsystem, over executing nodes that keep    *)
(* TaskPromise: DispatchTask tries one peer after another, AwaitResult      *)
(* polls the one that accepted, and the dispatcher's own `sent` row follows *)
(* (internal/node/task_dispatch.go, task_await.go, task_result.go;          *)
(* internal/task/task.go, result.go).                                       *)
(*                                                                          *)
(* A connection may break between any two steps.  An offer already written  *)
(* is then still read by the node it went to, which takes the task and has  *)
(* nobody left to tell.  Either end may die and come back.                  *)
(***************************************************************************)
EXTENDS TaskPromise

CONSTANTS
    Me,         \* this dispatcher's stable id, as the executors see it
    NoNode,
    ReadFails,  \* whether an executor's lookup may fail on its database
    SentFails   \* whether a write of the dispatcher's database may fail

ASSUME GridAssumption ==
    /\ Me \in Peer
    /\ NoPeer \notin Peer
    /\ NoNode \notin Node
    /\ ReadFails \in BOOLEAN
    /\ SentFails \in BOOLEAN

VARIABLES
    up,         \* the dispatching process is alive
    stage,      \* how far the dispatch of each task has come
    untried,    \* the peers DispatchTask has not tried yet
    cand,       \* the peer it is talking to, or that accepted
    verdict,    \* on the connection to cand: what has been answered
    inflight,   \* offers written to each node and not read yet
    expired,    \* the giveUp deadline of AwaitResult has passed
    answer,     \* the last answer to a poll
    sent,       \* the dispatcher's sent rows
    unstored    \* history: tasks of which a write to the sent row has failed

dispatchVars == <<up, stage, untried, cand, verdict, expired, answer>>
rowVars == <<sent, unstored>>
gridVars == <<promiseVars, dispatchVars, inflight, rowVars>>

\* A result answer never holds more than MaxTaskOutput, so nothing is too big.
Sent == INSTANCE TaskStore WITH Peer <- Node, NoPeer <- NoNode, BigOutput <- {}

Awaiting == {"polling", "waiting", "storing"}

\* A wait that is under way, or that is still to be started.
Tracked == {"accepted"} \cup Awaiting

\* DispatchTask has returned the peer, or is about to.
HasPeer == {"recording"} \cup Tracked

Stage == {"idle", "choosing", "offered", "refused", "dropped", "settled", "gaveUp", "lost"}
            \cup HasPeer

Unknown == [status |-> "unknown", output |-> NoOutput]

Answer ==
    [status : Settled \cup {"running", "unknown"}, output : Output \cup {NoOutput}]

GridInit ==
    /\ PromiseInit
    /\ up = TRUE
    /\ stage = [t \in Task |-> "idle"]
    /\ untried = [t \in Task |-> {}]
    /\ cand = [t \in Task |-> NoNode]
    /\ verdict = [t \in Task |-> "none"]
    /\ inflight = [n \in Node |-> {}]
    /\ expired = [t \in Task |-> FALSE]
    /\ answer = [t \in Task |-> Unknown]
    /\ sent = [t \in Task |-> Sent!Absent]
    /\ unstored = {}

Move(t, from, to) ==
    /\ up
    /\ stage[t] = from
    /\ stage' = [stage EXCEPT ![t] = to]

-----------------------------------------------------------------------------
(* DispatchTask                                                             *)

\* The dashboard passes the one peer it shows, `task send` all that are online.
Dispatch(t, peers) ==
    /\ Move(t, "idle", "choosing")
    /\ untried' = [untried EXCEPT ![t] = peers]
    /\ UNCHANGED <<promiseVars, up, cand, verdict, inflight, expired, answer, rowVars>>

\* Unreachable, or the hello fails: the next one.
DialFails(t, n) ==
    /\ n \in untried[t]
    /\ Move(t, "choosing", "choosing")
    /\ untried' = [untried EXCEPT ![t] = @ \ {n}]
    /\ UNCHANGED <<promiseVars, up, cand, verdict, inflight, expired, answer, rowVars>>

\* The offer is written.  From here on nothing bounds the wait for the verdict.
WriteOffer(t, n) ==
    /\ n \in untried[t]
    /\ Move(t, "choosing", "offered")
    /\ untried' = [untried EXCEPT ![t] = @ \ {n}]
    /\ cand' = [cand EXCEPT ![t] = n]
    /\ verdict' = [verdict EXCEPT ![t] = "none"]
    /\ inflight' = [inflight EXCEPT ![n] = @ \cup {t}]
    /\ UNCHANGED <<promiseVars, up, expired, answer, rowVars>>

\* A transport error: what the node answers, if it does, is not seen any more.
\* It may come at any time; a connection that the node has closed brings it.
OfferBreaks(t) ==
    /\ Move(t, "offered", "choosing")
    /\ cand' = [cand EXCEPT ![t] = NoNode]
    /\ UNCHANGED <<promiseVars, up, untried, verdict, inflight, expired, answer, rowVars>>

ReadRefusal(t) ==
    /\ verdict[t] = "refuse"
    /\ Move(t, "offered", "choosing")
    /\ cand' = [cand EXCEPT ![t] = NoNode]
    /\ UNCHANGED <<promiseVars, up, untried, verdict, inflight, expired, answer, rowVars>>

\* Slip: the error of Offer is not looked at
ReadAnyAnswer(t) ==
    /\ verdict[t] \in {"accept", "closed"}
    /\ Move(t, "offered", "recording")
    /\ UNCHANGED <<promiseVars, up, untried, cand, verdict, inflight, expired, answer, rowVars>>

ReadAcceptance(t) ==
    /\ verdict[t] = "accept"
    /\ Move(t, "offered", "recording")
    /\ UNCHANGED <<promiseVars, up, untried, cand, verdict, inflight, expired, answer, rowVars>>

NoPeerAccepted(t) ==
    /\ untried[t] = {}
    /\ Move(t, "choosing", "refused")
    /\ UNCHANGED <<promiseVars, up, untried, cand, verdict, inflight, expired, answer, rowVars>>

\* A failed write, or a database that is not open: logged and nothing else
WriteLost(S) == UNCHANGED sent /\ unstored' = unstored \cup S

\* recordSentTask is best effort; DispatchTask returns to whoever called it.
RecordSentTask(t) ==
    /\ Move(t, "recording", "accepted")
    /\ \/ /\ Sent!CanRecordTaskStart(sent, t)
          /\ sent' = Sent!RecordTaskStart(sent, t, cand[t])
          /\ UNCHANGED unstored
       \/ SentFails /\ WriteLost({t})
    /\ UNCHANGED <<promiseVars, up, untried, cand, verdict, inflight, expired, answer>>

-----------------------------------------------------------------------------
(* Who called DispatchTask                                                  *)

\* `task send` at once, the Peers tab when taskDispatchedMsg comes: AwaitResult
\* starts its clock.
StartAwait(t) ==
    /\ Move(t, "accepted", "polling")
    /\ UNCHANGED <<promiseVars, up, untried, cand, verdict, inflight, expired, answer, rowVars>>

\* The message reaches another tab, an overlay, or a flow that it does not match, and
\* nobody asks for the result.
AnswerDropped(t) ==
    /\ Move(t, "accepted", "dropped")
    /\ UNCHANGED <<promiseVars, up, untried, cand, verdict, inflight, expired, answer, rowVars>>

-----------------------------------------------------------------------------
(* AwaitResult                                                              *)

\* lookupResult at the executing node: missing, another peer's and unreadable
\* all read as unknown.
Lookup(n, t) ==
    IF ledger[n][t].peer = Me
    THEN [status |-> ledger[n][t].status, output |-> ledger[n][t].output]
    ELSE Unknown

\* awaitResult: everything but running ends the polling, unknown too.
TakeAnswer(t, a) ==
    /\ Move(t, "polling", IF a.status = "running" THEN "waiting" ELSE "storing")
    /\ answer' = [answer EXCEPT ![t] = a]
    /\ UNCHANGED <<promiseVars, up, untried, cand, verdict, inflight, expired, rowVars>>

AskResult(t) ==
    \/ TakeAnswer(t, Lookup(cand[t], t))
    \/ ReadFails /\ TakeAnswer(t, Unknown)

AskFails(t) ==
    /\ Move(t, "polling", "waiting")
    /\ UNCHANGED <<promiseVars, up, untried, cand, verdict, inflight, expired, answer, rowVars>>

\* The giveUp of the poll plan is over, or the caller cancels the wait.
DeadlinePasses(t) ==
    /\ stage[t] \in Awaiting
    /\ ~expired[t]
    /\ expired' = [expired EXCEPT ![t] = TRUE]
    /\ UNCHANGED <<promiseVars, up, stage, untried, cand, verdict, inflight, answer, rowVars>>

\* Slip: a failed poll is retried without the select
PollForever(t) ==
    /\ Move(t, "waiting", "polling")
    /\ UNCHANGED <<promiseVars, up, untried, cand, verdict, inflight, expired, answer, rowVars>>

\* The select: the deadline, once past, is seen before the next wait is over.
\* (When both fall due at one instant the code may poll once more; the expired
\* context fails that poll, and the select that follows gives up.)
PollAgain(t) ==
    /\ ~expired[t]
    /\ Move(t, "waiting", "polling")
    /\ UNCHANGED <<promiseVars, up, untried, cand, verdict, inflight, expired, answer, rowVars>>

GiveUp(t) ==
    /\ expired[t]
    /\ Move(t, "waiting", "gaveUp")
    /\ UNCHANGED <<promiseVars, up, untried, cand, verdict, inflight, expired, answer, rowVars>>

\* Slips: unknown is stored as it is; as a success; an interruption as a failure
StoredRaw(a)       == a.status
StoredOptimist(a)  == IF a.status = "unknown" THEN "done" ELSE a.status
StoredAsFailure(a) == IF a.status \in {"unknown", "interrupted"} THEN "failed" ELSE a.status

\* recordSentResult: unknown is stored as failed.
StoredAs(a) == IF a.status = "unknown" THEN "failed" ELSE a.status

RecordSentResult(t) ==
    /\ Move(t, "storing", "settled")
    /\ \/ /\ sent' = Sent!RecordTaskFinish(sent, t, StoredAs(answer[t]), answer[t].output)
          /\ UNCHANGED unstored
       \/ SentFails /\ WriteLost({t})
    /\ UNCHANGED <<promiseVars, up, untried, cand, verdict, inflight, expired, answer>>

-----------------------------------------------------------------------------
(* The dispatching process stops; New reconciles the rows of both roles     *)

Stop ==
    /\ up
    /\ up' = FALSE
    /\ stage' = [t \in Task |->
                    IF stage[t] \in {"choosing", "offered"} \cup HasPeer THEN "lost" ELSE stage[t]]
    /\ UNCHANGED <<promiseVars, untried, cand, verdict, inflight, expired, answer, rowVars>>

StartAgain ==
    /\ ~up
    /\ up' = TRUE
    /\ \/ /\ sent' = Sent!ReconcileStaleTasks(sent)
          /\ UNCHANGED unstored
       \/ SentFails /\ WriteLost({t \in Task : sent[t].status = "running"})
    /\ UNCHANGED <<promiseVars, stage, untried, cand, verdict, inflight, expired, answer>>

-----------------------------------------------------------------------------
(* The executing nodes                                                      *)

Connected(n, t) == stage[t] = "offered" /\ cand[t] = n

\* The node reads an offer.  What it answers is seen only on a live connection.
Reads(n, t, answers) ==
    /\ t \in inflight[n]
    /\ inflight' = [inflight EXCEPT ![n] = @ \ {t}]
    /\ \E v \in answers :
        verdict' = IF Connected(n, t) THEN [verdict EXCEPT ![t] = v] ELSE verdict
    /\ UNCHANGED <<up, stage, untried, cand, expired, answer, rowVars>>

\* The row is recorded before the verdict is written, which may fail.
Accepts(n, t) == Take(n, t, Me) /\ Reads(n, t, {"accept", "closed"})

Refuses(n, t) == UNCHANGED promiseVars /\ Reads(n, t, {"refuse", "closed"})

\* Retention (7 days from the start of the task) outlasts the wait for its
\* result (10 minutes): what is being awaited is not forgotten.
Outlasts(n, S) == \A t \in S : cand[t] = n => stage[t] \notin {"offered"} \cup HasPeer

Works(n) ==
    /\ \/ \E t \in Task : Begin(n, t) \/ \E s \in Settled : Settle(n, t, s)
       \/ \E o \in Output \cup {NoOutput} : End(n, o)
       \/ Recover(n)
       \/ \E S \in SUBSET Task : Outlasts(n, S) /\ Forget(n, S)
    /\ UNCHANGED <<dispatchVars, inflight, rowVars>>

\* A node that dies takes the offers it has not read along.
Dies(n) ==
    /\ Lose(n)
    /\ inflight' = [inflight EXCEPT ![n] = {}]
    /\ UNCHANGED <<dispatchVars, rowVars>>

-----------------------------------------------------------------------------
Trying(t) ==
    \/ \E n \in Node : DialFails(t, n) \/ WriteOffer(t, n)
    \/ NoPeerAccepted(t)

Hearing(t) ==
    \/ ReadRefusal(t) \/ ReadAcceptance(t)
    \/ verdict[t] = "closed" /\ OfferBreaks(t)

Polling(t) == AskResult(t) \/ AskFails(t)

Recording(t) == RecordSentTask(t) \/ RecordSentResult(t)

Returning(t) == StartAwait(t) \/ AnswerDropped(t)

GridNext ==
    \/ \E t \in Task :
        \/ \E peers \in SUBSET Node : Dispatch(t, peers)
        \/ Trying(t) \/ OfferBreaks(t) \/ Hearing(t) \/ Recording(t)
        \/ Returning(t) \/ Polling(t) \/ DeadlinePasses(t) \/ PollAgain(t) \/ GiveUp(t)
    \/ Stop \/ StartAgain
    \/ \E n \in Node :
        \/ \E t \in Task : Accepts(n, t) \/ Refuses(n, t)
        \/ Works(n) \/ Dies(n)

GridSpec == GridInit /\ [][GridNext]_gridVars

\* The dispatcher's own steps: dials, polls and database calls return, timers
\* fire, messages are handled, and what has arrived on a connection is read.
\* Nothing makes a peer answer an offer: Offer has no deadline and does not look at
\* its context.
GridFairness ==
    \A t \in Task :
        /\ WF_gridVars(Trying(t))
        /\ WF_gridVars(Hearing(t))
        /\ WF_gridVars(Recording(t))
        /\ WF_gridVars(Returning(t))
        /\ WF_gridVars(Polling(t))
        /\ WF_gridVars(DeadlinePasses(t))
        /\ WF_gridVars(PollAgain(t) \/ GiveUp(t))

FairGridSpec == GridSpec /\ GridFairness

-----------------------------------------------------------------------------
(* What the dispatcher may rely on                                          *)

GridTypeOK ==
    /\ ledger \in [Node -> [Task -> Entry]]
    /\ current \in [Node -> Task \cup {NoTask}]
    /\ begun \in [Node -> SUBSET Task]
    /\ made \in [Node -> [Task -> Output \cup {NoOutput}]]
    /\ up \in BOOLEAN
    /\ stage \in [Task -> Stage]
    /\ untried \in [Task -> SUBSET Node]
    /\ cand \in [Task -> Node \cup {NoNode}]
    /\ verdict \in [Task -> {"none", "accept", "refuse", "closed"}]
    /\ inflight \in [Node -> SUBSET Task]
    /\ expired \in [Task -> BOOLEAN]
    /\ answer \in [Task -> Answer]
    /\ sent \in [Task -> Sent!Row]
    /\ unstored \in SUBSET Task

Forgotten(n, t) == ledger[n][t].status = "absent"

\* The peer that is asked for a result has taken the task from this dispatcher,
\* whatever verdicts were lost or came late before (DispatchTask, Offer).
AskedPeerTookIt ==
    \A t \in Task : stage[t] \in HasPeer => ledger[cand[t]][t].peer = Me

\* A sent row that says done holds the output that the process on that peer
\* made; the peer still says the same unless it has forgotten the task
\* (recordSentResult, lookupResult).
SentDoneIsTrue ==
    \A t \in Task : sent[t].status = "done" =>
        LET n == sent[t].peer
        IN  \/ Forgotten(n, t)
            \/ /\ ledger[n][t].status = "done"
               /\ ledger[n][t].output = sent[t].output
               /\ made[n][t] = sent[t].output

\* Once AwaitResult has stored an outcome, both ends tell the same story until
\* the executor forgets it: interrupted is not failed, and unknown, stored as
\* failed, contradicts the executor only when its lookup failed.
EndsAgree ==
    \A t \in Task : stage[t] = "settled" =>
        \/ Forgotten(cand[t], t)
        \/ t \in unstored
        \/ sent[t].status = ledger[cand[t]][t].status
        \/ ReadFails /\ answer[t].status = "unknown" /\ sent[t].status = "failed"

\* A sent row is left running only by an acceptance that no flow was there to hear, by
\* a wait that was given up, by a process that has stopped and not come back, or by a
\* write that failed (recordSentTask, AwaitResult, the taskDispatchedMsg case).
SentRunningIsAwaited ==
    \A t \in Task : sent[t].status = "running" =>
        stage[t] \in Tracked \cup {"dropped", "gaveUp"} \/ ~up \/ t \in unstored

\* An accepted task is not tracked for ever: the wait for it ends with a stored outcome,
\* given up, or with the process, unless it is never started.
AwaitEnds ==
    \A t \in Task :
        stage[t] \in Tracked ~> stage[t] \in {"dropped", "settled", "gaveUp", "lost"}

\* What a user may rely on, without the connections, polls and deadlines between
\* (DispatchTask, AwaitResult, recordSentTask, recordSentResult): a sent row names
\* a node that has taken the task, copies its outcome as it stands when it is
\* stored, or says failed when the node could not look it up, and is final then.
SentRow(t) == [peer |-> sent[t].peer, status |-> sent[t].status, output |-> sent[t].output]

SentRows == [t \in Task |-> SentRow(t)]

Outcome == INSTANCE TaskOutcome WITH row <- SentRows

TellsOutcomes == Outcome!OutcomeSpec

-----------------------------------------------------------------------------
(* The inductive invariant behind them                                      *)

\* What the executors' promise comes to: a task without a row belongs to nobody, one
\* that executes is on the ledger as running, one that is done holds what was made.
PromiseHolds ==
    \A n \in Node :
        /\ current[n] # NoTask => ledger[n][current[n]].status = "running"
        /\ \A t \in Task :
            /\ Forgotten(n, t) => ledger[n][t].peer = NoPeer
            /\ ledger[n][t].status = "done" => ledger[n][t].output = made[n][t]

\* A node is offered a task once, so it takes it once: what it has forgotten it
\* does not take again.
OfferedOnce ==
    \A t \in Task, n \in Node :
        /\ t \in inflight[n] \/ n \in untried[t] \/ stage[t] = "idle" => Forgotten(n, t)
        /\ n \in untried[t] \/ stage[t] = "idle" => t \notin inflight[n]

\* The peer the dispatcher talks to, and what its acceptance stands for.
CandHolds ==
    \A t \in Task :
        /\ stage[t] \in {"offered", "settled"} \cup HasPeer => cand[t] \in Node
        /\ stage[t] = "offered" /\ verdict[t] = "accept" => ledger[cand[t]][t].peer = Me
        /\ stage[t] = "settled" => t \notin inflight[cand[t]]

\* A sent row names the peer that accepted, and is settled with the dispatch.
RowsHold ==
    \A t \in Task :
        /\ stage[t] \in {"idle", "choosing", "offered", "recording"} => sent[t].status = "absent"
        /\ sent[t].status # "absent" =>
            sent[t].peer = cand[t] /\ cand[t] \in Node /\ t \notin inflight[cand[t]]
        /\ stage[t] \in Tracked => sent[t].status # "absent" \/ t \in unstored
        /\ stage[t] = "settled" => sent[t].status \in Settled \/ t \in unstored

\* An answer that ends the wait is what the peer's ledger says until it is stored.
AnswerHolds ==
    \A t \in Task : stage[t] = "storing" =>
        \/ ReadFails /\ answer[t].status = "unknown"
        \/ /\ answer[t].status \in Settled
           /\ ledger[cand[t]][t].status = answer[t].status
           /\ ledger[cand[t]][t].output = answer[t].output

GridInv ==
    /\ GridTypeOK
    /\ PromiseHolds /\ OfferedOnce /\ CandHolds /\ RowsHold /\ AnswerHolds
    /\ AskedPeerTookIt /\ SentDoneIsTrue /\ EndsAgree /\ SentRunningIsAwaited

\* What AwaitResult is about to settle is still open: nothing else has settled it
\* meanwhile, because only a restart does, and that ends the wait.
WaitsOnOpenRow ==
    \A t \in Task :
        /\ stage[t] \in Tracked => sent[t].status \notin Settled
        /\ ~up => stage[t] \notin {"choosing", "offered"} \cup HasPeer
=============================================================================
