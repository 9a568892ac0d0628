---------------------------- MODULE TaskGrid_proofs ----------------------------
(***************************************************************************)
(* What the dispatcher may rely on, for any executing nodes, tasks, peers   *)
(* and outputs, with or without failing reads and writes.                   *)
(***************************************************************************)
EXTENDS TaskGrid, TLAPS

USE GridAssumption

\* A step of an executor that no dispatcher sees
Unseen == UNCHANGED <<dispatchVars, inflight, rowVars>>

-----------------------------------------------------------------------------
(* DispatchTask.  Each lemma has one step per conjunct; <1>a is what holds  *)
(* before the step and <1>f what the step does to the tables.               *)

LEMMA DispatchStep ==
    ASSUME GridInv, NEW t \in Task, NEW P \in SUBSET Node, Dispatch(t, P)
    PROVE  GridInv'
<1>a. /\ GridTypeOK /\ PromiseHolds /\ OfferedOnce /\ CandHolds /\ RowsHold /\ AnswerHolds
      /\ AskedPeerTookIt /\ SentDoneIsTrue /\ EndsAgree /\ SentRunningIsAwaited
    BY DEF GridInv
<1> USE DEF GridTypeOK, Settled, HasPeer, Tracked, Awaiting, Move, promiseVars, dispatchVars,
            rowVars, Dispatch
<1>1. GridTypeOK'
    BY <1>a DEF Stage
<1>2. OfferedOnce'
    BY <1>a DEF OfferedOnce, Forgotten
<1>3. CandHolds'
    BY <1>a DEF CandHolds
<1>4. RowsHold'
    BY <1>a DEF RowsHold
<1>5. AnswerHolds'
    BY <1>a DEF AnswerHolds
<1>6. AskedPeerTookIt'
    BY <1>a DEF AskedPeerTookIt
<1>7. EndsAgree'
    BY <1>a DEF EndsAgree, Forgotten
<1>8. SentRunningIsAwaited'
    BY <1>a DEF SentRunningIsAwaited
<1>9. PromiseHolds' /\ SentDoneIsTrue'
    BY <1>a DEF PromiseHolds, SentDoneIsTrue, Forgotten
<1> QED BY <1>1, <1>2, <1>3, <1>4, <1>5, <1>6, <1>7, <1>8, <1>9 DEF GridInv

LEMMA DialFailsStep ==
    ASSUME GridInv, NEW t \in Task, NEW n \in Node, DialFails(t, n)
    PROVE  GridInv'
<1>a. /\ GridTypeOK /\ PromiseHolds /\ OfferedOnce /\ CandHolds /\ RowsHold /\ AnswerHolds
      /\ AskedPeerTookIt /\ SentDoneIsTrue /\ EndsAgree /\ SentRunningIsAwaited
    BY DEF GridInv
<1> USE DEF GridTypeOK, Settled, HasPeer, Tracked, Awaiting, Move, promiseVars, dispatchVars,
            rowVars, DialFails
<1>1. GridTypeOK'
    BY <1>a
<1>2. OfferedOnce'
    BY <1>a DEF OfferedOnce, Forgotten
<1>3. CandHolds'
    BY <1>a DEF CandHolds
<1>4. RowsHold'
    BY <1>a DEF RowsHold
<1>5. AnswerHolds'
    BY <1>a DEF AnswerHolds
<1>6. AskedPeerTookIt'
    BY <1>a DEF AskedPeerTookIt
<1>7. EndsAgree'
    BY <1>a DEF EndsAgree, Forgotten
<1>8. SentRunningIsAwaited'
    BY <1>a DEF SentRunningIsAwaited
<1>9. PromiseHolds' /\ SentDoneIsTrue'
    BY <1>a DEF PromiseHolds, SentDoneIsTrue, Forgotten
<1> QED BY <1>1, <1>2, <1>3, <1>4, <1>5, <1>6, <1>7, <1>8, <1>9 DEF GridInv

LEMMA WriteOfferStep ==
    ASSUME GridInv, NEW t \in Task, NEW n \in Node, WriteOffer(t, n)
    PROVE  GridInv'
<1>a. /\ GridTypeOK /\ PromiseHolds /\ OfferedOnce /\ CandHolds /\ RowsHold /\ AnswerHolds
      /\ AskedPeerTookIt /\ SentDoneIsTrue /\ EndsAgree /\ SentRunningIsAwaited
    BY DEF GridInv
<1> USE DEF GridTypeOK, Settled, HasPeer, Tracked, Awaiting, Move, promiseVars, dispatchVars,
            rowVars, WriteOffer
<1>1. GridTypeOK'
    BY <1>a DEF Stage
<1>2. OfferedOnce'
    BY <1>a DEF OfferedOnce, Forgotten
<1>3. CandHolds'
    BY <1>a DEF CandHolds
<1>4. RowsHold'
    BY <1>a DEF RowsHold
<1>5. AnswerHolds'
    BY <1>a DEF AnswerHolds
<1>6. AskedPeerTookIt'
    BY <1>a DEF AskedPeerTookIt
<1>7. EndsAgree'
    BY <1>a DEF EndsAgree, Forgotten
<1>8. SentRunningIsAwaited'
    BY <1>a DEF SentRunningIsAwaited
<1>9. PromiseHolds' /\ SentDoneIsTrue'
    BY <1>a DEF PromiseHolds, SentDoneIsTrue, Forgotten
<1> QED BY <1>1, <1>2, <1>3, <1>4, <1>5, <1>6, <1>7, <1>8, <1>9 DEF GridInv

LEMMA OfferBreaksStep ==
    ASSUME GridInv, NEW t \in Task, OfferBreaks(t) \/ ReadRefusal(t)
    PROVE  GridInv'
<1>a. /\ GridTypeOK /\ PromiseHolds /\ OfferedOnce /\ CandHolds /\ RowsHold /\ AnswerHolds
      /\ AskedPeerTookIt /\ SentDoneIsTrue /\ EndsAgree /\ SentRunningIsAwaited
    BY DEF GridInv
<1> USE DEF GridTypeOK, Settled, HasPeer, Tracked, Awaiting, Move, promiseVars, dispatchVars,
            rowVars, OfferBreaks, ReadRefusal
<1>1. GridTypeOK'
    BY <1>a DEF Entry, Stage
<1>2. OfferedOnce'
    BY <1>a DEF OfferedOnce, Forgotten
<1>3. CandHolds'
    <2>1. /\ stage' = [stage EXCEPT ![t] = "choosing"]
          /\ cand' = [cand EXCEPT ![t] = NoNode]
          /\ UNCHANGED <<ledger, inflight, verdict>>
        OBVIOUS
    <2> HIDE DEF OfferBreaks, ReadRefusal
    <2> QED BY <1>a, <2>1 DEF CandHolds
<1>4. RowsHold'
    BY <1>a DEF RowsHold
<1>5. AnswerHolds'
    BY <1>a DEF AnswerHolds
<1>6. AskedPeerTookIt'
    BY <1>a DEF AskedPeerTookIt
<1>7. EndsAgree'
    BY <1>a DEF EndsAgree, AnswerHolds, PromiseHolds, OfferedOnce, Forgotten
<1>8. SentRunningIsAwaited'
    BY <1>a DEF SentRunningIsAwaited, RowsHold
<1>9. PromiseHolds' /\ SentDoneIsTrue'
    <2>1. UNCHANGED <<ledger, current, made, sent>>
        OBVIOUS
    <2> QED BY <1>a, <2>1 DEF PromiseHolds, SentDoneIsTrue, Forgotten
<1> QED BY <1>1, <1>2, <1>3, <1>4, <1>5, <1>6, <1>7, <1>8, <1>9 DEF GridInv

LEMMA AcceptanceStep ==
    ASSUME GridInv, NEW t \in Task, ReadAcceptance(t) \/ NoPeerAccepted(t)
    PROVE  GridInv'
<1>a. /\ GridTypeOK /\ PromiseHolds /\ OfferedOnce /\ CandHolds /\ RowsHold /\ AnswerHolds
      /\ AskedPeerTookIt /\ SentDoneIsTrue /\ EndsAgree /\ SentRunningIsAwaited
    BY DEF GridInv
<1> USE DEF GridTypeOK, Settled, HasPeer, Tracked, Awaiting, Move, promiseVars, dispatchVars,
            rowVars, ReadAcceptance, NoPeerAccepted
<1>1. GridTypeOK'
    BY <1>a DEF Entry, Stage
<1>2. OfferedOnce'
    BY <1>a DEF OfferedOnce, Forgotten
<1>3. CandHolds'
    BY <1>a DEF CandHolds
<1>4. RowsHold'
    BY <1>a DEF RowsHold
<1>5. AnswerHolds'
    BY <1>a DEF AnswerHolds
<1>6. AskedPeerTookIt'
    BY <1>a DEF AskedPeerTookIt, CandHolds
<1>7. EndsAgree'
    BY <1>a DEF EndsAgree, RowsHold, AnswerHolds, Forgotten
<1>8. SentRunningIsAwaited'
    BY <1>a DEF SentRunningIsAwaited, RowsHold
<1>9. PromiseHolds' /\ SentDoneIsTrue'
    <2>1. UNCHANGED <<ledger, current, made, sent>>
        OBVIOUS
    <2> QED BY <1>a, <2>1 DEF PromiseHolds, SentDoneIsTrue, Forgotten
<1> QED BY <1>1, <1>2, <1>3, <1>4, <1>5, <1>6, <1>7, <1>8, <1>9 DEF GridInv

LEMMA RecordSentTaskStep ==
    ASSUME GridInv, NEW t \in Task, RecordSentTask(t)
    PROVE  GridInv'
<1>a. /\ GridTypeOK /\ PromiseHolds /\ OfferedOnce /\ CandHolds /\ RowsHold /\ AnswerHolds
      /\ AskedPeerTookIt /\ SentDoneIsTrue /\ EndsAgree /\ SentRunningIsAwaited
    BY DEF GridInv
<1>f. /\ sent' \in [Task -> Sent!Row] /\ unstored' \in SUBSET Task
      /\ \A u \in Task \ {t} : sent'[u] = sent[u]
      /\ unstored \subseteq unstored'
      /\ \/ sent'[t].status = "running" /\ sent'[t].peer = cand[t]
         \/ sent'[t] = sent[t] /\ t \in unstored'
    <2>1. cand[t] \in Node /\ sent \in [Task -> Sent!Row]
        BY DEF GridInv, GridTypeOK, CandHolds, RecordSentTask, Move, HasPeer
    <2>2. CASE SentFails /\ WriteLost({t})
        BY <2>1, <2>2 DEF WriteLost, GridInv, GridTypeOK
    <2>3. CASE sent' = Sent!RecordTaskStart(sent, t, cand[t]) /\ UNCHANGED unstored
        BY <2>1, <2>3 DEF Sent!RecordTaskStart, Sent!Row, Sent!Age, Sent!Finished, GridInv,
                GridTypeOK
    <2> QED BY <2>2, <2>3 DEF RecordSentTask
<1> USE DEF GridTypeOK, Settled, HasPeer, Tracked, Awaiting, Move, promiseVars, dispatchVars,
            rowVars, RecordSentTask
<1>1. GridTypeOK'
    BY <1>a, <1>f DEF Stage
<1>2. OfferedOnce'
    BY <1>a, <1>f DEF OfferedOnce, Forgotten
<1>3. CandHolds'
    BY <1>a, <1>f DEF CandHolds
<1>4. RowsHold'
    <2>1. /\ stage[t] = "recording" /\ stage'[t] = "accepted" /\ UNCHANGED <<cand, inflight>>
          /\ \A u \in Task \ {t} : stage'[u] = stage[u] /\ sent'[u] = sent[u]
        BY <1>a, <1>f
    <2> HIDE DEF RecordSentTask, GridTypeOK
    <2>2. t \notin inflight[cand[t]] /\ cand[t] \in Node /\ sent[t].status = "absent"
        <3>1. cand[t] \in Node /\ sent[t].status = "absent" /\ ledger[cand[t]][t].peer = Me
            BY <1>a, <2>1 DEF RowsHold, CandHolds, AskedPeerTookIt
        <3>2. ledger[cand[t]][t].status # "absent"
            BY <1>a, <3>1 DEF PromiseHolds, Forgotten
        <3> QED BY <1>a, <3>1, <3>2 DEF OfferedOnce, Forgotten
    <2>3. ASSUME NEW u \in Task
          PROVE  /\ stage'[u] \in {"idle", "choosing", "offered", "recording"}
                        => sent'[u].status = "absent"
                 /\ sent'[u].status # "absent" =>
                        /\ sent'[u].peer = cand[u] /\ cand[u] \in Node
                        /\ u \notin inflight[cand[u]]
                 /\ stage'[u] \in Tracked => sent'[u].status # "absent" \/ u \in unstored'
                 /\ stage'[u] = "settled" => sent'[u].status \in Settled \/ u \in unstored'
        <3>1. CASE u = t
            BY <1>f, <2>1, <2>2, <3>1
        <3>2. CASE u # t
            BY <1>a, <1>f, <2>1, <3>2 DEF RowsHold
        <3> QED BY <3>1, <3>2
    <2> QED BY <2>1, <2>3 DEF RowsHold
<1>5. AnswerHolds'
    BY <1>a, <1>f DEF AnswerHolds
<1>6. AskedPeerTookIt'
    BY <1>a, <1>f DEF AskedPeerTookIt
<1>7. SentDoneIsTrue'
    <2>1. \A u \in Task : sent'[u].status = "done" => sent'[u] = sent[u]
        BY <1>f
    <2> QED BY <1>a, <2>1 DEF SentDoneIsTrue, Forgotten
<1>8. EndsAgree'
    BY <1>a, <1>f DEF EndsAgree, Forgotten
<1>9. SentRunningIsAwaited'
    BY <1>a, <1>f DEF SentRunningIsAwaited
<1>10. PromiseHolds'
    BY <1>a DEF PromiseHolds, Forgotten
<1> QED BY <1>1, <1>2, <1>3, <1>4, <1>5, <1>6, <1>7, <1>8, <1>9, <1>10 DEF GridInv

-----------------------------------------------------------------------------
(* AwaitResult                                                              *)

LEMMA AskResultStep ==
    ASSUME GridInv, NEW t \in Task, AskResult(t)
    PROVE  GridInv'
<1>a. /\ GridTypeOK /\ PromiseHolds /\ OfferedOnce /\ CandHolds /\ RowsHold /\ AnswerHolds
      /\ AskedPeerTookIt /\ SentDoneIsTrue /\ EndsAgree /\ SentRunningIsAwaited
    BY DEF GridInv
<1>f. /\ stage[t] = "polling" /\ cand[t] \in Node
      /\ stage' \in [Task -> Stage] /\ answer' \in [Task -> Answer]
      /\ \A u \in Task \ {t} : stage'[u] = stage[u] /\ answer'[u] = answer[u]
      /\ \/ stage'[t] = "waiting"
         \/ stage'[t] = "storing" /\ ReadFails /\ answer'[t].status = "unknown"
         \/ /\ stage'[t] = "storing"
            /\ answer'[t].status \in Settled
            /\ ledger[cand[t]][t].status = answer'[t].status
            /\ ledger[cand[t]][t].output = answer'[t].output
      /\ UNCHANGED <<promiseVars, up, untried, cand, verdict, inflight, expired, rowVars>>
    <2>1. PICK a : TakeAnswer(t, a) /\ (a = Lookup(cand[t], t) \/ (ReadFails /\ a = Unknown))
        BY DEF AskResult
    <2>2. stage[t] = "polling" /\ cand[t] \in Node /\ ledger[cand[t]][t].peer = Me
        BY <2>1 DEF TakeAnswer, Move, GridInv, CandHolds, AskedPeerTookIt, HasPeer, Tracked,
            Awaiting
    <2>3. ledger[cand[t]][t] \in Entry /\ ledger[cand[t]][t].status # "absent"
        BY <2>2 DEF GridInv, GridTypeOK, PromiseHolds, Forgotten
    <2>4. a \in Answer /\ \/ ReadFails /\ a.status = "unknown"
                          \/ /\ a.status = ledger[cand[t]][t].status
                             /\ a.output = ledger[cand[t]][t].output
                             /\ a.status \in Settled \cup {"running"}
        BY <2>1, <2>2, <2>3 DEF Lookup, Unknown, Answer, Entry
    <2>5. /\ stage' = [stage EXCEPT
                            ![t] = IF a.status = "running" THEN "waiting" ELSE "storing"]
          /\ answer' = [answer EXCEPT ![t] = a]
          /\ UNCHANGED <<promiseVars, up, untried, cand, verdict, inflight, expired, rowVars>>
        BY <2>1 DEF TakeAnswer, Move
    <2>6. stage' \in [Task -> Stage] /\ answer' \in [Task -> Answer]
        BY <2>4, <2>5 DEF Stage, HasPeer, Tracked, Awaiting, GridInv, GridTypeOK
    <2>7. /\ stage'[t] = IF a.status = "running" THEN "waiting" ELSE "storing"
          /\ answer'[t] = a
          /\ \A u \in Task \ {t} : stage'[u] = stage[u] /\ answer'[u] = answer[u]
        BY <2>5 DEF GridInv, GridTypeOK
    <2> QED BY <2>2, <2>4, <2>5, <2>6, <2>7 DEF Settled
<1> USE DEF GridTypeOK, Settled, HasPeer, Tracked, Awaiting, Move, promiseVars, dispatchVars,
            rowVars
<1>1. GridTypeOK'
    BY <1>a, <1>f
<1>2. OfferedOnce'
    BY <1>a, <1>f DEF OfferedOnce, Forgotten
<1>3. CandHolds'
    BY <1>a, <1>f DEF CandHolds
<1>4. RowsHold'
    BY <1>a, <1>f DEF RowsHold
<1>5. AnswerHolds'
    <2>1. \A u \in Task \ {t} : stage'[u] = stage[u] /\ answer'[u] = answer[u]
        BY <1>f
    <2>2. UNCHANGED <<ledger, cand>>
        BY <1>f
    <2> QED BY <1>a, <1>f, <2>1, <2>2 DEF AnswerHolds
<1>6. AskedPeerTookIt'
    BY <1>a, <1>f DEF AskedPeerTookIt
<1>7. EndsAgree'
    BY <1>a, <1>f DEF EndsAgree, Forgotten
<1>8. SentRunningIsAwaited'
    BY <1>a, <1>f DEF SentRunningIsAwaited
<1>9. PromiseHolds' /\ SentDoneIsTrue'
    BY <1>a, <1>f DEF PromiseHolds, SentDoneIsTrue, Forgotten
<1> QED BY <1>1, <1>2, <1>3, <1>4, <1>5, <1>6, <1>7, <1>8, <1>9 DEF GridInv

LEMMA WaitsStep ==
    ASSUME GridInv, NEW t \in Task, Returning(t) \/ AskFails(t) \/ PollAgain(t) \/ GiveUp(t)
    PROVE  GridInv'
<1>a. /\ GridTypeOK /\ PromiseHolds /\ OfferedOnce /\ CandHolds /\ RowsHold /\ AnswerHolds
      /\ AskedPeerTookIt /\ SentDoneIsTrue /\ EndsAgree /\ SentRunningIsAwaited
    BY DEF GridInv
<1> USE DEF GridTypeOK, Settled, HasPeer, Tracked, Awaiting, Move, promiseVars, dispatchVars,
            rowVars, Returning, StartAwait, AnswerDropped, AskFails, PollAgain, GiveUp
<1>1. GridTypeOK'
    <2>1. stage' \in [Task -> Stage]
        BY <1>a DEF Stage
    <2> QED BY <1>a, <2>1
<1>2. OfferedOnce'
    BY <1>a DEF OfferedOnce, Forgotten
<1>3. CandHolds'
    BY <1>a DEF CandHolds
<1>4. RowsHold'
    BY <1>a DEF RowsHold
<1>5. AnswerHolds'
    BY <1>a DEF AnswerHolds, CandHolds
<1>6. AskedPeerTookIt'
    BY <1>a DEF AskedPeerTookIt
<1>7. EndsAgree'
    <2>1. \A u \in Task : stage'[u] = "settled" => stage[u] = "settled"
        BY <1>a
    <2> QED BY <1>a, <2>1 DEF EndsAgree, Forgotten
<1>8. SentRunningIsAwaited'
    BY <1>a DEF SentRunningIsAwaited, RowsHold
<1>9. PromiseHolds' /\ SentDoneIsTrue'
    <2>1. UNCHANGED <<ledger, current, made, sent>>
        OBVIOUS
    <2> QED BY <1>a, <2>1 DEF PromiseHolds, SentDoneIsTrue, Forgotten
<1> QED BY <1>1, <1>2, <1>3, <1>4, <1>5, <1>6, <1>7, <1>8, <1>9 DEF GridInv

LEMMA DeadlineStep ==
    ASSUME GridInv, NEW t \in Task, DeadlinePasses(t)
    PROVE  GridInv'
<1>a. /\ GridTypeOK /\ PromiseHolds /\ OfferedOnce /\ CandHolds /\ RowsHold /\ AnswerHolds
      /\ AskedPeerTookIt /\ SentDoneIsTrue /\ EndsAgree /\ SentRunningIsAwaited
    BY DEF GridInv
<1> USE DEF GridTypeOK, Settled, HasPeer, Tracked, Awaiting, Move, promiseVars, dispatchVars,
            rowVars, DeadlinePasses
<1>1. GridTypeOK'
    BY <1>a
<1>2. /\ PromiseHolds' /\ OfferedOnce' /\ CandHolds' /\ RowsHold' /\ AnswerHolds'
      /\ AskedPeerTookIt' /\ SentDoneIsTrue' /\ EndsAgree' /\ SentRunningIsAwaited'
    BY <1>a DEF PromiseHolds, OfferedOnce, CandHolds, RowsHold, AnswerHolds,
            AskedPeerTookIt, SentDoneIsTrue, EndsAgree, SentRunningIsAwaited, Forgotten
<1> QED BY <1>1, <1>2 DEF GridInv

LEMMA RecordSentResultStep ==
    ASSUME GridInv, NEW t \in Task, RecordSentResult(t)
    PROVE  GridInv'
<1>a. /\ GridTypeOK /\ PromiseHolds /\ OfferedOnce /\ CandHolds /\ RowsHold /\ AnswerHolds
      /\ AskedPeerTookIt /\ SentDoneIsTrue /\ EndsAgree /\ SentRunningIsAwaited
    BY DEF GridInv
<1>f. /\ sent' \in [Task -> Sent!Row] /\ unstored' \in SUBSET Task
      /\ \A u \in Task \ {t} : sent'[u] = sent[u]
      /\ unstored \subseteq unstored'
      /\ sent'[t].peer = sent[t].peer
      /\ StoredAs(answer[t]) \in Settled
      /\ \/ /\ sent[t].status # "absent" /\ sent'[t].status = StoredAs(answer[t])
            /\ sent'[t].status = "done" => sent'[t].output = answer[t].output
         \/ sent'[t] = sent[t] /\ t \in unstored'
    <2>1. sent \in [Task -> Sent!Row] /\ stage[t] = "storing" /\ answer[t] \in Answer
        BY DEF GridInv, GridTypeOK, RecordSentResult, Move
    <2>2. StoredAs(answer[t]) \in Settled /\ answer[t].output \in Output \cup {NoOutput}
        BY <2>1 DEF StoredAs, GridInv, AnswerHolds, Settled, Answer
    <2>3. CASE SentFails /\ WriteLost({t})
        BY <2>1, <2>2, <2>3 DEF WriteLost, GridInv, GridTypeOK
    <2>4. CASE /\ sent' = Sent!RecordTaskFinish(sent, t, StoredAs(answer[t]), answer[t].output)
               /\ UNCHANGED unstored
        <3> DEFINE s == StoredAs(answer[t])
                   o == Sent!StoredOutput(s, answer[t].output)
                   row == [sent[t] EXCEPT !.status = s, !.output = o, !.finished = "recent"]
        <3>1. Sent!StoredStatus(s, answer[t].output) = s
            BY DEF Sent!StoredStatus
        <3>2. o \in Output \cup {NoOutput} /\ (s = "done" => o = answer[t].output)
            BY <2>2, <3>1 DEF Sent!StoredOutput
        <3>3. CASE sent[t].status = "absent"
            <4>1. t \in unstored
                BY <2>1, <3>3 DEF GridInv, RowsHold, Tracked, Awaiting
            <4>2. sent' = sent
                BY <2>4, <3>3 DEF Sent!RecordTaskFinish, Sent!Exists
            <4> QED BY <2>1, <2>2, <2>4, <4>1, <4>2 DEF GridInv, GridTypeOK
        <3>4. CASE sent[t].status # "absent"
            <4>1. sent' = [sent EXCEPT ![t] = row]
                BY <2>4, <3>1, <3>4 DEF Sent!RecordTaskFinish, Sent!Exists
            <4> HIDE DEF s, o
            <4>2. /\ row \in Sent!Row /\ row.peer = sent[t].peer
                  /\ row.status = s /\ row.output = o
                BY <2>1, <2>2, <3>2 DEF s, Settled, Sent!Row, Sent!Age, Sent!Finished
            <4> HIDE DEF row
            <4> QED BY <2>1, <2>2, <2>4, <3>2, <3>4, <4>1, <4>2 DEF s, GridInv, GridTypeOK
        <3> QED BY <3>3, <3>4
    <2> QED BY <2>3, <2>4 DEF RecordSentResult
<1> USE DEF GridTypeOK, Settled, HasPeer, Tracked, Awaiting, Move, promiseVars, dispatchVars,
            rowVars, RecordSentResult
<1>1. GridTypeOK'
    BY <1>a, <1>f DEF Stage
<1>2. OfferedOnce'
    BY <1>a, <1>f DEF OfferedOnce, Forgotten
<1>3. CandHolds'
    <2>1. /\ stage[t] = "storing" /\ stage'[t] = "settled"
          /\ \A u \in Task \ {t} : stage'[u] = stage[u]
        BY <1>a
    <2>2. ledger[cand[t]][t].peer = Me /\ cand[t] \in Node
        BY <1>a, <2>1 DEF CandHolds, AskedPeerTookIt
    <2>3. t \notin inflight[cand[t]]
        BY <1>a, <2>2 DEF OfferedOnce, PromiseHolds, Forgotten
    <2> QED BY <1>a, <2>1, <2>2, <2>3 DEF CandHolds
<1>4. RowsHold'
    BY <1>a, <1>f DEF RowsHold
<1>5. AnswerHolds'
    BY <1>a, <1>f DEF AnswerHolds
<1>6. AskedPeerTookIt'
    BY <1>a, <1>f DEF AskedPeerTookIt
<1>7. SentDoneIsTrue'
    <2>1. UNCHANGED <<ledger, made, cand, answer>> /\ stage[t] = "storing"
        OBVIOUS
    <2>2. CASE sent'[t] = sent[t]
        <3>1. \A u \in Task : sent'[u] = sent[u]
            BY <1>f, <2>2
        <3> HIDE DEF RecordSentResult
        <3> QED BY <1>a, <2>1, <3>1 DEF SentDoneIsTrue, Forgotten
    <2>3. CASE /\ sent[t].status # "absent" /\ sent'[t].status = StoredAs(answer[t])
               /\ sent'[t].status = "done" => sent'[t].output = answer[t].output
        <3>1. sent'[t].peer = cand[t] /\ cand[t] \in Node
            BY <1>a, <1>f, <2>3 DEF RowsHold
        <3>2. ASSUME sent'[t].status = "done"
              PROVE  /\ ledger[cand[t]][t].status = "done"
                     /\ ledger[cand[t]][t].output = sent'[t].output
                     /\ made[cand[t]][t] = sent'[t].output
            BY <1>a, <2>1, <2>3, <3>1, <3>2 DEF AnswerHolds, PromiseHolds, StoredAs
        <3> HIDE DEF RecordSentResult
        <3> QED BY <1>a, <1>f, <2>1, <3>1, <3>2 DEF SentDoneIsTrue, Forgotten
    <2> QED BY <1>f, <2>2, <2>3
<1>8. EndsAgree'
    BY <1>a, <1>f DEF EndsAgree, AnswerHolds, PromiseHolds, Forgotten, StoredAs
<1>9. SentRunningIsAwaited'
    BY <1>a, <1>f DEF SentRunningIsAwaited
<1>10. PromiseHolds'
    BY <1>a DEF PromiseHolds, Forgotten
<1> QED BY <1>1, <1>2, <1>3, <1>4, <1>5, <1>6, <1>7, <1>8, <1>9, <1>10 DEF GridInv

-----------------------------------------------------------------------------
(* The dispatching process stops and comes back                             *)

LEMMA StopStep ==
    ASSUME GridInv, Stop
    PROVE  GridInv'
<1>a. /\ GridTypeOK /\ PromiseHolds /\ OfferedOnce /\ CandHolds /\ RowsHold /\ AnswerHolds
      /\ AskedPeerTookIt /\ SentDoneIsTrue /\ EndsAgree /\ SentRunningIsAwaited
    BY DEF GridInv
<1> USE DEF GridTypeOK, Settled, HasPeer, Tracked, Awaiting, Move, promiseVars, dispatchVars,
            rowVars, Stop
<1>1. GridTypeOK'
    BY <1>a DEF Entry, Stage
<1>2. OfferedOnce'
    BY <1>a DEF OfferedOnce, Forgotten
<1>3. CandHolds'
    BY <1>a DEF CandHolds
<1>4. RowsHold'
    BY <1>a DEF RowsHold
<1>5. AnswerHolds'
    BY <1>a DEF AnswerHolds
<1>6. AskedPeerTookIt'
    BY <1>a DEF AskedPeerTookIt
<1>7. EndsAgree'
    BY <1>a DEF EndsAgree, Forgotten
<1>8. SentRunningIsAwaited'
    BY <1>a DEF SentRunningIsAwaited
<1>9. PromiseHolds' /\ SentDoneIsTrue'
    BY <1>a DEF PromiseHolds, SentDoneIsTrue, Forgotten
<1> QED BY <1>1, <1>2, <1>3, <1>4, <1>5, <1>6, <1>7, <1>8, <1>9 DEF GridInv

LEMMA StartAgainStep ==
    ASSUME GridInv, StartAgain
    PROVE  GridInv'
<1>a. /\ GridTypeOK /\ PromiseHolds /\ OfferedOnce /\ CandHolds /\ RowsHold /\ AnswerHolds
      /\ AskedPeerTookIt /\ SentDoneIsTrue /\ EndsAgree /\ SentRunningIsAwaited
    BY DEF GridInv
<1>f. /\ sent' \in [Task -> Sent!Row] /\ unstored' \in SUBSET Task
      /\ unstored \subseteq unstored'
      /\ \A t \in Task :
           /\ sent'[t].peer = sent[t].peer
           /\ sent[t].status # "running" => sent'[t] = sent[t]
           /\ sent[t].status = "running" =>
               \/ sent'[t].status = "interrupted"
               \/ sent'[t] = sent[t] /\ t \in unstored'
    <2>1. sent \in [Task -> Sent!Row] /\ unstored \in SUBSET Task
        BY DEF GridInv, GridTypeOK
    <2>2. CASE WriteLost({t \in Task : sent[t].status = "running"})
        BY <2>1, <2>2 DEF WriteLost
    <2>3. CASE sent' = Sent!ReconcileStaleTasks(sent) /\ UNCHANGED unstored
        <3>1. \A t \in Task :
                LET row == [sent[t] EXCEPT !.status = "interrupted", !.finished = "recent"]
                IN  row \in Sent!Row /\ row.status = "interrupted" /\ row.peer = sent[t].peer
            BY <2>1 DEF Sent!Row, Sent!Age, Sent!Finished
        <3> QED BY <2>1, <2>3, <3>1 DEF Sent!ReconcileStaleTasks
    <2> QED BY <2>2, <2>3 DEF StartAgain
<1> USE DEF GridTypeOK, Settled, HasPeer, Tracked, Awaiting, Move, promiseVars, dispatchVars,
            rowVars, StartAgain
<1>1. GridTypeOK'
    BY <1>a, <1>f
<1>2. RowsHold'
    BY <1>a, <1>f DEF RowsHold, CandHolds, OfferedOnce
<1>3. SentDoneIsTrue'
    <2>1. \A u \in Task : sent'[u].status = "done" => sent'[u] = sent[u]
        BY <1>f
    <2> QED BY <1>a, <2>1 DEF SentDoneIsTrue, Forgotten
<1>4. EndsAgree'
    <2>1. \A u \in Task : sent[u].status \in Settled => sent'[u] = sent[u]
        BY <1>f
    <2>2. \A u \in Task : stage[u] = "settled" /\ u \notin unstored => sent[u].status \in Settled
        BY <1>a DEF RowsHold
    <2> QED BY <1>a, <1>f, <2>1, <2>2 DEF EndsAgree, Forgotten
<1>5. SentRunningIsAwaited'
    BY <1>a, <1>f DEF SentRunningIsAwaited
<1>6. /\ PromiseHolds' /\ OfferedOnce' /\ CandHolds' /\ AnswerHolds' /\ AskedPeerTookIt'
    BY <1>a DEF PromiseHolds, OfferedOnce, CandHolds, AnswerHolds, AskedPeerTookIt,
            Forgotten
<1> QED BY <1>1, <1>2, <1>3, <1>4, <1>5, <1>6 DEF GridInv

-----------------------------------------------------------------------------
(* The executing nodes                                                      *)

LEMMA AcceptsStep ==
    ASSUME GridInv, NEW n \in Node, NEW t \in Task, Accepts(n, t)
    PROVE  GridInv'
<1>a. /\ GridTypeOK /\ PromiseHolds /\ OfferedOnce /\ CandHolds /\ RowsHold /\ AnswerHolds
      /\ AskedPeerTookIt /\ SentDoneIsTrue /\ EndsAgree /\ SentRunningIsAwaited
    BY DEF GridInv
<1> USE DEF GridTypeOK, Settled, HasPeer, Tracked, Awaiting, Move, promiseVars, dispatchVars,
            rowVars, Accepts, Take, Reads, Connected
<1>1. GridTypeOK'
    BY <1>a DEF Entry
<1>2. PromiseHolds'
    BY <1>a DEF PromiseHolds, Forgotten
<1>3. OfferedOnce'
    BY <1>a DEF OfferedOnce, Forgotten
<1>4. CandHolds'
    BY <1>a DEF CandHolds
<1>5. RowsHold'
    BY <1>a DEF RowsHold
<1>6. AnswerHolds'
    BY <1>a DEF AnswerHolds
<1>7. AskedPeerTookIt'
    BY <1>a DEF AskedPeerTookIt
<1>8. SentDoneIsTrue'
    BY <1>a DEF SentDoneIsTrue, RowsHold, Forgotten
<1>9. EndsAgree'
    BY <1>a DEF EndsAgree, RowsHold, OfferedOnce, Forgotten
<1>10. SentRunningIsAwaited'
    BY <1>a DEF SentRunningIsAwaited
<1> QED BY <1>1, <1>2, <1>3, <1>4, <1>5, <1>6, <1>7, <1>8, <1>9, <1>10 DEF GridInv

LEMMA RefusesStep ==
    ASSUME GridInv, NEW n \in Node, NEW t \in Task, Refuses(n, t)
    PROVE  GridInv'
<1>a. /\ GridTypeOK /\ PromiseHolds /\ OfferedOnce /\ CandHolds /\ RowsHold /\ AnswerHolds
      /\ AskedPeerTookIt /\ SentDoneIsTrue /\ EndsAgree /\ SentRunningIsAwaited
    BY DEF GridInv
<1> USE DEF GridTypeOK, Settled, HasPeer, Tracked, Awaiting, Move, promiseVars, dispatchVars,
            rowVars, Refuses, Reads, Connected
<1>1. GridTypeOK'
    BY <1>a
<1>2. OfferedOnce'
    BY <1>a DEF OfferedOnce, Forgotten
<1>3. CandHolds'
    BY <1>a DEF CandHolds
<1>4. RowsHold'
    BY <1>a DEF RowsHold
<1>5. /\ PromiseHolds' /\ AnswerHolds' /\ AskedPeerTookIt' /\ SentDoneIsTrue'
      /\ EndsAgree' /\ SentRunningIsAwaited'
    BY <1>a DEF PromiseHolds, AnswerHolds, AskedPeerTookIt, SentDoneIsTrue, EndsAgree,
            SentRunningIsAwaited, Forgotten
<1> QED BY <1>1, <1>2, <1>3, <1>4, <1>5 DEF GridInv

LEMMA DiesStep ==
    ASSUME GridInv, NEW n \in Node, Dies(n)
    PROVE  GridInv'
<1>a. /\ GridTypeOK /\ PromiseHolds /\ OfferedOnce /\ CandHolds /\ RowsHold /\ AnswerHolds
      /\ AskedPeerTookIt /\ SentDoneIsTrue /\ EndsAgree /\ SentRunningIsAwaited
    BY DEF GridInv
<1> USE DEF GridTypeOK, Settled, HasPeer, Tracked, Awaiting, Move, promiseVars, dispatchVars,
            rowVars, Dies, Lose
<1>1. GridTypeOK'
    BY <1>a
<1>2. PromiseHolds'
    BY <1>a DEF PromiseHolds, Forgotten
<1>3. OfferedOnce'
    BY <1>a DEF OfferedOnce, Forgotten
<1>4. CandHolds'
    BY <1>a DEF CandHolds
<1>5. RowsHold'
    BY <1>a DEF RowsHold
<1>6. /\ AnswerHolds' /\ AskedPeerTookIt' /\ SentDoneIsTrue' /\ EndsAgree'
      /\ SentRunningIsAwaited'
    BY <1>a DEF AnswerHolds, AskedPeerTookIt, SentDoneIsTrue, EndsAgree,
            SentRunningIsAwaited, Forgotten
<1> QED BY <1>1, <1>2, <1>3, <1>4, <1>5, <1>6 DEF GridInv

LEMMA BeginStep ==
    ASSUME GridInv, NEW n \in Node, NEW t \in Task, Begin(n, t), Unseen
    PROVE  GridInv'
<1>a. /\ GridTypeOK /\ PromiseHolds /\ OfferedOnce /\ CandHolds /\ RowsHold /\ AnswerHolds
      /\ AskedPeerTookIt /\ SentDoneIsTrue /\ EndsAgree /\ SentRunningIsAwaited
    BY DEF GridInv
<1> USE DEF GridTypeOK, Settled, HasPeer, Tracked, Awaiting, Move, promiseVars, dispatchVars,
            rowVars, Begin, Unseen
<1>1. GridTypeOK'
    BY <1>a
<1>2. PromiseHolds'
    BY <1>a DEF PromiseHolds, Forgotten
<1>3. /\ OfferedOnce' /\ CandHolds' /\ RowsHold' /\ AnswerHolds' /\ AskedPeerTookIt'
      /\ SentDoneIsTrue' /\ EndsAgree' /\ SentRunningIsAwaited'
    BY <1>a DEF OfferedOnce, CandHolds, RowsHold, AnswerHolds, AskedPeerTookIt,
            SentDoneIsTrue, EndsAgree, SentRunningIsAwaited, Forgotten
<1> QED BY <1>1, <1>2, <1>3 DEF GridInv

LEMMA EndStep ==
    ASSUME GridInv, NEW n \in Node, NEW o \in Output \cup {NoOutput}, End(n, o), Unseen
    PROVE  GridInv'
<1>a. /\ GridTypeOK /\ PromiseHolds /\ OfferedOnce /\ CandHolds /\ RowsHold /\ AnswerHolds
      /\ AskedPeerTookIt /\ SentDoneIsTrue /\ EndsAgree /\ SentRunningIsAwaited
    BY DEF GridInv
<1> USE DEF GridTypeOK, Settled, HasPeer, Tracked, Awaiting, Move, promiseVars, dispatchVars,
            rowVars, End, Unseen
<1>1. GridTypeOK'
    BY <1>a
<1>2. PromiseHolds'
    BY <1>a DEF PromiseHolds, Forgotten
<1>3. SentDoneIsTrue'
    BY <1>a DEF SentDoneIsTrue, PromiseHolds, Forgotten
<1>4. /\ OfferedOnce' /\ CandHolds' /\ RowsHold' /\ AnswerHolds' /\ AskedPeerTookIt'
      /\ EndsAgree' /\ SentRunningIsAwaited'
    BY <1>a DEF OfferedOnce, CandHolds, RowsHold, AnswerHolds, AskedPeerTookIt, EndsAgree,
            SentRunningIsAwaited, Forgotten
<1> QED BY <1>1, <1>2, <1>3, <1>4 DEF GridInv


\* An executor stores outcomes: of running tasks, and true ones.
StoresOutcomes ==
    /\ ledger' \in [Node -> [Task -> Entry]]
    /\ UNCHANGED <<current, begun, made>>
    /\ \A m \in Node, u \in Task :
        /\ ledger'[m][u].peer = ledger[m][u].peer
        /\ ledger[m][u].status # "running" => ledger'[m][u] = ledger[m][u]
        /\ ledger[m][u].status = "running" => ledger'[m][u].status # "absent"
        /\ current[m] = u /\ u # NoTask => ledger'[m][u] = ledger[m][u]
        /\ ledger'[m][u].status = "done" => ledger'[m][u].output = made[m][u]

LEMMA StoresStep ==
    ASSUME GridInv, StoresOutcomes, Unseen
    PROVE  GridInv'
<1>a. /\ GridTypeOK /\ PromiseHolds /\ OfferedOnce /\ CandHolds /\ RowsHold /\ AnswerHolds
      /\ AskedPeerTookIt /\ SentDoneIsTrue /\ EndsAgree /\ SentRunningIsAwaited
    BY DEF GridInv
<1>f. /\ ledger' \in [Node -> [Task -> Entry]]
      /\ UNCHANGED <<current, begun, made>>
      /\ \A m \in Node, u \in Task :
          /\ ledger'[m][u].peer = ledger[m][u].peer
          /\ ledger[m][u].status # "running" => ledger'[m][u] = ledger[m][u]
          /\ ledger[m][u].status = "running" => ledger'[m][u].status # "absent"
          /\ current[m] = u /\ u # NoTask => ledger'[m][u] = ledger[m][u]
          /\ ledger'[m][u].status = "done" => ledger'[m][u].output = made[m][u]
    BY DEF StoresOutcomes
<1> USE DEF GridTypeOK, Settled, HasPeer, Tracked, Awaiting, Move, promiseVars, dispatchVars,
            rowVars, Unseen
<1>1. GridTypeOK'
    BY <1>a, <1>f
<1>2. PromiseHolds'
    <2> SUFFICES ASSUME NEW m \in Node
                 PROVE  /\ current[m] # NoTask => ledger'[m][current[m]].status = "running"
                        /\ \A u \in Task :
                            /\ ledger'[m][u].status = "absent" => ledger'[m][u].peer = NoPeer
                            /\ ledger'[m][u].status = "done" => ledger'[m][u].output = made[m][u]
        BY <1>f DEF PromiseHolds, Forgotten
    <2>1. current[m] # NoTask => ledger'[m][current[m]].status = "running"
        BY <1>a, <1>f DEF PromiseHolds
    <2>2. ASSUME NEW u \in Task, ledger'[m][u].status = "absent"
          PROVE  ledger'[m][u].peer = NoPeer
        <3>1. ledger'[m][u] = ledger[m][u]
            BY <1>f, <2>2
        <3>2. ledger[m][u].status = "absent" => ledger[m][u].peer = NoPeer
            BY <1>a DEF PromiseHolds, Forgotten
        <3> QED BY <2>2, <3>1, <3>2
    <2> QED BY <1>f, <2>1, <2>2
<1>3. OfferedOnce'
    <2>1. \A m \in Node, u \in Task :
            ledger[m][u].status = "absent" => ledger'[m][u].status = "absent"
        BY <1>f
    <2> QED BY <1>a, <2>1 DEF OfferedOnce, Forgotten
<1>4. CandHolds'
    BY <1>a, <1>f DEF CandHolds
<1>5. AnswerHolds'
    <2> SUFFICES ASSUME NEW t \in Task, stage[t] = "storing"
                 PROVE  \/ ReadFails /\ answer[t].status = "unknown"
                        \/ /\ answer[t].status \in Settled
                           /\ ledger'[cand[t]][t].status = answer[t].status
                           /\ ledger'[cand[t]][t].output = answer[t].output
        BY DEF AnswerHolds
    <2>1. cand[t] \in Node
        BY <1>a DEF CandHolds
    <2>2. ledger[cand[t]][t].status \in Settled => ledger'[cand[t]][t] = ledger[cand[t]][t]
        BY <1>f, <2>1
    <2> QED BY <1>a, <2>2 DEF AnswerHolds
<1>6. AskedPeerTookIt'
    <2> SUFFICES ASSUME NEW t \in Task, stage[t] \in HasPeer
                 PROVE  ledger'[cand[t]][t].peer = Me
        BY DEF AskedPeerTookIt
    <2>1. cand[t] \in Node
        BY <1>a DEF CandHolds
    <2>2. ledger'[cand[t]][t].peer = ledger[cand[t]][t].peer
        BY <1>f, <2>1
    <2> QED BY <1>a, <2>2 DEF AskedPeerTookIt
<1>7. SentDoneIsTrue'
    <2> SUFFICES ASSUME NEW t \in Task, sent[t].status = "done"
                 PROVE  LET n == sent[t].peer
                        IN  \/ ledger'[n][t].status = "absent"
                            \/ /\ ledger'[n][t].status = "done"
                               /\ ledger'[n][t].output = sent[t].output
                               /\ made[n][t] = sent[t].output
        BY <1>f DEF SentDoneIsTrue, Forgotten
    <2>1. sent[t].peer \in Node
        BY <1>a DEF RowsHold
    <2>2. ledger[sent[t].peer][t].status # "running"
            => ledger'[sent[t].peer][t] = ledger[sent[t].peer][t]
        BY <1>f, <2>1
    <2> QED BY <1>a, <2>2 DEF SentDoneIsTrue, Forgotten
<1>8. EndsAgree'
    <2> SUFFICES ASSUME NEW t \in Task, stage[t] = "settled", t \notin unstored
                 PROVE  \/ ledger'[cand[t]][t].status = "absent"
                        \/ sent[t].status = ledger'[cand[t]][t].status
                        \/ ReadFails /\ answer[t].status = "unknown" /\ sent[t].status = "failed"
        BY DEF EndsAgree, Forgotten
    <2>1. cand[t] \in Node /\ sent[t].status \in Settled
        BY <1>a DEF CandHolds, RowsHold
    <2>2. ledger[cand[t]][t].status # "running" => ledger'[cand[t]][t] = ledger[cand[t]][t]
        BY <1>f, <2>1
    <2> QED BY <1>a, <2>1, <2>2 DEF EndsAgree, Forgotten
<1>9. RowsHold' /\ SentRunningIsAwaited'
    BY <1>a DEF RowsHold, SentRunningIsAwaited
<1> QED BY <1>1, <1>2, <1>3, <1>4, <1>5, <1>6, <1>7, <1>8, <1>9 DEF GridInv

LEMMA ForgetStep ==
    ASSUME GridInv, NEW n \in Node, NEW S \in SUBSET Task,
           Outlasts(n, S), Forget(n, S), Unseen
    PROVE  GridInv'
<1>a. /\ GridTypeOK /\ PromiseHolds /\ OfferedOnce /\ CandHolds /\ RowsHold /\ AnswerHolds
      /\ AskedPeerTookIt /\ SentDoneIsTrue /\ EndsAgree /\ SentRunningIsAwaited
    BY DEF GridInv
<1>f. /\ ledger' \in [Node -> [Task -> Entry]]
      /\ made' \in [Node -> [Task -> Output \cup {NoOutput}]]
      /\ begun' \in [Node -> SUBSET Task]
      /\ \A m \in Node, u \in Task :
           IF m = n /\ u \in S
           THEN ledger[m][u].status \in Settled /\ ledger'[m][u] = NoEntry
           ELSE ledger'[m][u] = ledger[m][u] /\ made'[m][u] = made[m][u]
      /\ UNCHANGED current
    <2>1. NoEntry \in Entry /\ ledger \in [Node -> [Task -> Entry]]
        BY DEF NoEntry, Entry, GridInv, GridTypeOK
    <2> QED BY <2>1 DEF Forget, GridInv, GridTypeOK
<1> USE DEF GridTypeOK, Settled, HasPeer, Tracked, Awaiting, Move, promiseVars, dispatchVars,
            rowVars, Outlasts, NoEntry, Unseen
<1>1. GridTypeOK'
    BY <1>a, <1>f
<1>2. PromiseHolds'
    <2> SUFFICES ASSUME NEW m \in Node
                 PROVE  /\ current[m] # NoTask => ledger'[m][current[m]].status = "running"
                        /\ \A u \in Task :
                            /\ ledger'[m][u].status = "absent" => ledger'[m][u].peer = NoPeer
                            /\ ledger'[m][u].status = "done" => ledger'[m][u].output = made'[m][u]
        BY <1>f DEF PromiseHolds, Forgotten
    <2>1. ASSUME current[m] # NoTask PROVE ledger'[m][current[m]].status = "running"
        <3>1. current[m] \in Task /\ ledger[m][current[m]].status = "running"
            BY <1>a, <2>1 DEF PromiseHolds
        <3> QED BY <1>f, <3>1
    <2>2. ASSUME NEW u \in Task
          PROVE  /\ ledger'[m][u].status = "absent" => ledger'[m][u].peer = NoPeer
                 /\ ledger'[m][u].status = "done" => ledger'[m][u].output = made'[m][u]
        <3>1. /\ ledger[m][u].status = "absent" => ledger[m][u].peer = NoPeer
              /\ ledger[m][u].status = "done" => ledger[m][u].output = made[m][u]
            BY <1>a DEF PromiseHolds, Forgotten
        <3> QED BY <1>f, <3>1
    <2> QED BY <2>1, <2>2
<1>3. OfferedOnce'
    <2>1. \A m \in Node, u \in Task :
            ledger[m][u].status = "absent" => ledger'[m][u].status = "absent"
        BY <1>f
    <2> QED BY <1>a, <2>1 DEF OfferedOnce, Forgotten
<1>4. CandHolds'
    <2>1. \A t \in Task : stage[t] = "offered" /\ cand[t] \in Node
                            => ledger'[cand[t]][t] = ledger[cand[t]][t]
        BY <1>f
    <2> QED BY <1>a, <2>1 DEF CandHolds
<1>5. AnswerHolds'
    BY <1>a, <1>f DEF AnswerHolds, CandHolds
<1>6. AskedPeerTookIt'
    BY <1>a, <1>f DEF AskedPeerTookIt, CandHolds
<1>7. SentDoneIsTrue'
    <2> SUFFICES ASSUME NEW t \in Task, sent[t].status = "done"
                 PROVE  LET p == sent[t].peer
                        IN  \/ ledger'[p][t].status = "absent"
                            \/ /\ ledger'[p][t].status = "done"
                               /\ ledger'[p][t].output = sent[t].output
                               /\ made'[p][t] = sent[t].output
        BY DEF SentDoneIsTrue, Forgotten
    <2>1. sent[t].peer \in Node
        BY <1>a DEF RowsHold
    <2>2. \/ ledger'[sent[t].peer][t].status = "absent"
          \/ /\ ledger'[sent[t].peer][t] = ledger[sent[t].peer][t]
             /\ made'[sent[t].peer][t] = made[sent[t].peer][t]
        BY <1>f, <2>1
    <2> QED BY <1>a, <2>2 DEF SentDoneIsTrue, Forgotten
<1>8. EndsAgree'
    <2> SUFFICES ASSUME NEW t \in Task, stage[t] = "settled", t \notin unstored
                 PROVE  \/ ledger'[cand[t]][t].status = "absent"
                        \/ sent[t].status = ledger'[cand[t]][t].status
                        \/ ReadFails /\ answer[t].status = "unknown" /\ sent[t].status = "failed"
        BY DEF EndsAgree, Forgotten
    <2>1. cand[t] \in Node
        BY <1>a DEF CandHolds
    <2>2. ledger'[cand[t]][t].status = "absent" \/ ledger'[cand[t]][t] = ledger[cand[t]][t]
        BY <1>f, <2>1
    <2> QED BY <1>a, <2>2 DEF EndsAgree, Forgotten
<1>9. RowsHold' /\ SentRunningIsAwaited'
    BY <1>a DEF RowsHold, SentRunningIsAwaited
<1> QED BY <1>1, <1>2, <1>3, <1>4, <1>5, <1>6, <1>7, <1>8, <1>9 DEF GridInv

\* The entry that Settle writes, and Recover
SettledEntry(r, s, o) == [r EXCEPT !.status = s, !.output = o]
RecoveredEntry(r) == [r EXCEPT !.status = "interrupted"]

LEMMA SettledIsEntry ==
    ASSUME NEW r \in Entry, NEW s \in Settled, NEW o \in Output \cup {NoOutput}
    PROVE  /\ SettledEntry(r, s, o) \in Entry
           /\ SettledEntry(r, s, o).status = s
           /\ SettledEntry(r, s, o).peer = r.peer
           /\ SettledEntry(r, s, o).output = o
BY DEF Entry, SettledEntry

LEMMA RecoveredIsEntry ==
    ASSUME NEW r \in Entry
    PROVE  /\ RecoveredEntry(r) \in Entry
           /\ RecoveredEntry(r).status = "interrupted"
           /\ RecoveredEntry(r).peer = r.peer
BY DEF Entry, RecoveredEntry, Settled

LEMMA SettleStores ==
    ASSUME GridInv, NEW n \in Node, NEW t \in Task, NEW s \in Settled, Settle(n, t, s)
    PROVE  StoresOutcomes
<1>f. /\ ledger' \in [Node -> [Task -> Entry]]
      /\ \A m \in Node, u \in Task :
           m # n \/ u # t => ledger'[m][u] = ledger[m][u]
      /\ ledger[n][t].status = "running" /\ current[n] # t
      /\ ledger'[n][t].status = s /\ ledger'[n][t].peer = ledger[n][t].peer
      /\ s = "done" => ledger'[n][t].output = made[n][t]
      /\ UNCHANGED <<current, begun, made>>
    <2> DEFINE o == IF s = "done" THEN made[n][t] ELSE NoOutput
               e == SettledEntry(ledger[n][t], s, o)
    <2>1. /\ ledger \in [Node -> [Task -> Entry]] /\ o \in Output \cup {NoOutput}
          /\ s = "done" => o = made[n][t]
        BY DEF GridInv, GridTypeOK
    <2>2. /\ e \in Entry /\ e.status = s /\ e.peer = ledger[n][t].peer
          /\ s = "done" => e.output = made[n][t]
        <3> HIDE DEF o
        <3>1. ledger[n][t] \in Entry
            BY <2>1
        <3> QED BY <2>1, <3>1, SettledIsEntry
    <2>3. ledger' = [ledger EXCEPT ![n][t] = e]
        BY <2>1 DEF Settle, SettledEntry
    <2> HIDE DEF e
    <2> QED BY <2>1, <2>2, <2>3 DEF Settle
<1>a. /\ ledger \in [Node -> [Task -> Entry]]
      /\ \A m \in Node : current[m] # NoTask => ledger[m][current[m]].status = "running"
      /\ \A m \in Node, u \in Task :
            ledger[m][u].status = "done" => ledger[m][u].output = made[m][u]
    BY DEF GridInv, GridTypeOK, PromiseHolds
<1>1. ASSUME NEW m \in Node, NEW u \in Task
      PROVE  /\ ledger'[m][u].peer = ledger[m][u].peer
             /\ ledger[m][u].status # "running" => ledger'[m][u] = ledger[m][u]
             /\ ledger[m][u].status = "running" => ledger'[m][u].status # "absent"
             /\ current[m] = u /\ u # NoTask => ledger'[m][u] = ledger[m][u]
             /\ ledger'[m][u].status = "done" => ledger'[m][u].output = made[m][u]
    BY <1>f, <1>a DEF Settled
<1> QED BY <1>f, <1>1 DEF StoresOutcomes

LEMMA RecoverStores ==
    ASSUME GridInv, NEW n \in Node, Recover(n)
    PROVE  StoresOutcomes
<1>f. /\ ledger' \in [Node -> [Task -> Entry]]
      /\ \A m \in Node, u \in Task :
           /\ m # n \/ ledger[m][u].status # "running" => ledger'[m][u] = ledger[m][u]
           /\ m = n /\ ledger[m][u].status = "running" => ledger'[m][u].status = "interrupted"
           /\ ledger'[m][u].peer = ledger[m][u].peer
      /\ current[n] = NoTask /\ UNCHANGED <<current, begun, made>>
    <2>1. ledger \in [Node -> [Task -> Entry]]
        BY DEF GridInv, GridTypeOK
    <2>2. \A u \in Task : /\ RecoveredEntry(ledger[n][u]) \in Entry
                          /\ RecoveredEntry(ledger[n][u]).status = "interrupted"
                          /\ RecoveredEntry(ledger[n][u]).peer = ledger[n][u].peer
        BY <2>1, RecoveredIsEntry
    <2>3. \A m \in Node \ {n} : ledger'[m] = ledger[m]
        BY <2>1 DEF Recover
    <2>4. ledger'[n] = [u \in Task |-> IF ledger[n][u].status = "running"
                                      THEN RecoveredEntry(ledger[n][u])
                                      ELSE ledger[n][u]]
        BY <2>1 DEF Recover, RecoveredEntry
    <2>5. ledger'[n] \in [Task -> Entry]
        BY <2>1, <2>2, <2>4
    <2>6. ledger' \in [Node -> [Task -> Entry]]
        BY <2>1, <2>5 DEF Recover
    <2> QED BY <2>2, <2>3, <2>4, <2>6 DEF Recover
<1>a. /\ ledger \in [Node -> [Task -> Entry]]
      /\ \A m \in Node : current[m] # NoTask => ledger[m][current[m]].status = "running"
      /\ \A m \in Node, u \in Task :
            ledger[m][u].status = "done" => ledger[m][u].output = made[m][u]
    BY DEF GridInv, GridTypeOK, PromiseHolds
<1>1. ASSUME NEW m \in Node, NEW u \in Task
      PROVE  /\ ledger'[m][u].peer = ledger[m][u].peer
             /\ ledger[m][u].status # "running" => ledger'[m][u] = ledger[m][u]
             /\ ledger[m][u].status = "running" => ledger'[m][u].status # "absent"
             /\ current[m] = u /\ u # NoTask => ledger'[m][u] = ledger[m][u]
             /\ ledger'[m][u].status = "done" => ledger'[m][u].output = made[m][u]
    BY <1>f, <1>a
<1> QED BY <1>f, <1>1 DEF StoresOutcomes

LEMMA SettleStep ==
    ASSUME GridInv, NEW n \in Node, NEW t \in Task, NEW s \in Settled, Settle(n, t, s), Unseen
    PROVE  GridInv'
BY SettleStores, StoresStep

LEMMA RecoverStep ==
    ASSUME GridInv, NEW n \in Node, Recover(n), Unseen
    PROVE  GridInv'
BY RecoverStores, StoresStep

-----------------------------------------------------------------------------
(* The invariant                                                            *)

LEMMA InvInit == GridInit => GridInv
<1> SUFFICES ASSUME GridInit PROVE GridInv
    OBVIOUS
<1> USE DEF GridInit, PromiseInit, NoEntry, Sent!Absent, Unknown
<1>1. GridTypeOK
    BY DEF GridTypeOK, Entry, Stage, Answer, Sent!Row, Sent!Age, Sent!Finished
<1>2. PromiseHolds /\ OfferedOnce /\ CandHolds /\ RowsHold /\ AnswerHolds
    BY DEF PromiseHolds, OfferedOnce, CandHolds, RowsHold, AnswerHolds, Forgotten, HasPeer,
            Tracked, Awaiting, Settled
<1>3. AskedPeerTookIt /\ SentDoneIsTrue /\ EndsAgree /\ SentRunningIsAwaited
    BY DEF AskedPeerTookIt, SentDoneIsTrue, EndsAgree, SentRunningIsAwaited, HasPeer,
            Tracked, Awaiting
<1> QED BY <1>1, <1>2, <1>3 DEF GridInv

LEMMA InvStep == GridInv /\ [GridNext]_gridVars => GridInv'
<1> SUFFICES ASSUME GridInv, [GridNext]_gridVars PROVE GridInv'
    OBVIOUS
<1>1. ASSUME NEW t \in Task,
             \/ \E peers \in SUBSET Node : Dispatch(t, peers)
             \/ Trying(t) \/ OfferBreaks(t) \/ Hearing(t)
      PROVE  GridInv'
    BY <1>1, DispatchStep, DialFailsStep, WriteOfferStep, OfferBreaksStep, AcceptanceStep
        DEF Trying, Hearing
<1>2. ASSUME NEW t \in Task,
             \/ Recording(t) \/ Returning(t) \/ Polling(t)
             \/ DeadlinePasses(t) \/ PollAgain(t) \/ GiveUp(t)
      PROVE  GridInv'
    BY <1>2, RecordSentTaskStep, AskResultStep, WaitsStep, DeadlineStep, RecordSentResultStep
        DEF Recording, Polling
<1>3. ASSUME NEW n \in Node, Works(n)
      PROVE  GridInv'
    BY <1>3, BeginStep, EndStep, SettleStep, RecoverStep, ForgetStep DEF Works, Unseen
<1>4. CASE UNCHANGED gridVars
    BY <1>4 DEF gridVars, promiseVars, dispatchVars, rowVars, GridInv, GridTypeOK, PromiseHolds,
        OfferedOnce, CandHolds, RowsHold, AnswerHolds, AskedPeerTookIt, SentDoneIsTrue,
        EndsAgree, SentRunningIsAwaited, Forgotten
<1> QED BY <1>1, <1>2, <1>3, <1>4, StopStep, StartAgainStep, AcceptsStep, RefusesStep, DiesStep
    DEF GridNext

\* The invariant holds of every behaviour, fair or not: of the dispatcher as it
\* moves through DispatchTask and AwaitResult, of its sent rows and of the ledgers.
THEOREM Invariance == GridSpec => []GridInv
<1>1. GridInit => GridInv
    BY InvInit
<1>2. GridInv /\ [GridNext]_gridVars => GridInv'
    BY InvStep
<1> QED BY <1>1, <1>2, PTL DEF GridSpec

\* Every variable keeps its type, the rows that the dispatcher writes
\* (recordSentTask, recordSentResult, ReconcileStaleTasks) included.
THEOREM GridTypeCorrect == GridSpec => []GridTypeOK
<1>1. GridInv => GridTypeOK
    BY DEF GridInv
<1> QED BY <1>1, Invariance, PTL

\* AwaitResult asks a peer that has recorded the task for this dispatcher,
\* whatever connections broke in DispatchTask before.
THEOREM AskedPeerCorrect == GridSpec => []AskedPeerTookIt
<1>1. GridInv => AskedPeerTookIt
    BY DEF GridInv
<1> QED BY <1>1, Invariance, PTL

\* A sent row that recordSentResult wrote as done holds what the process on
\* that peer made, and the peer says so too until it forgets.
THEOREM SentDoneCorrect == GridSpec => []SentDoneIsTrue
<1>1. GridInv => SentDoneIsTrue
    BY DEF GridInv
<1> QED BY <1>1, Invariance, PTL

\* A stored outcome is that of the executor until it forgets the task, unless a
\* write failed here or the lookup failed there.
THEOREM EndsCorrect == GridSpec => []EndsAgree
<1>1. GridInv => EndsAgree
    BY DEF GridInv
<1> QED BY <1>1, Invariance, PTL

\* A sent row is left running only by an acceptance that nobody was there to hear (the
\* taskDispatchedMsg case), a wait given up, a process that has not come back, or a
\* failed write.
THEOREM AwaitedCorrect == GridSpec => []SentRunningIsAwaited
<1>1. GridInv => SentRunningIsAwaited
    BY DEF GridInv
<1> QED BY <1>1, Invariance, PTL

-----------------------------------------------------------------------------
(* The sent rows as the user sees them                                      *)

\* What AwaitResult settles is open, whatever restarts came before.
LEMMA OpenStep ==
    ASSUME GridInv, WaitsOnOpenRow, [GridNext]_gridVars
    PROVE  WaitsOnOpenRow'
<1>a. GridTypeOK
    BY DEF GridInv
<1>r. \A t \in Task : stage[t] = "recording" => sent[t].status = "absent"
    BY DEF GridInv, RowsHold
<1> USE DEF WaitsOnOpenRow, GridTypeOK, HasPeer, Tracked, Awaiting, Settled, Move, promiseVars,
            dispatchVars, rowVars
<1>1. ASSUME NEW t \in Task, NEW P \in SUBSET Node, Dispatch(t, P)
      PROVE  WaitsOnOpenRow'
    BY <1>1, <1>a DEF Dispatch
<1>2. ASSUME NEW t \in Task, Trying(t)
      PROVE  WaitsOnOpenRow'
    BY <1>2, <1>a DEF Trying, DialFails, WriteOffer, NoPeerAccepted
<1>3. ASSUME NEW t \in Task, OfferBreaks(t) \/ Hearing(t)
      PROVE  WaitsOnOpenRow'
    BY <1>3, <1>a DEF Hearing, OfferBreaks, ReadRefusal, ReadAcceptance
<1>4. ASSUME NEW t \in Task, RecordSentTask(t)
      PROVE  WaitsOnOpenRow'
    <2>1. /\ up /\ up' /\ stage[t] = "recording"
          /\ \A u \in Task \ {t} : stage'[u] = stage[u] /\ sent'[u] = sent[u]
        BY <1>4, <1>a DEF RecordSentTask, WriteLost, Sent!RecordTaskStart
    <2>2. sent'[t].status \in {"running", "absent"}
        BY <1>4, <1>a, <1>r, <2>1 DEF RecordSentTask, WriteLost, Sent!RecordTaskStart
    <2> QED BY <2>1, <2>2
<1>5. ASSUME NEW t \in Task, RecordSentResult(t)
      PROVE  WaitsOnOpenRow'
    <2>1. /\ up /\ up' /\ stage'[t] = "settled"
          /\ \A u \in Task \ {t} : stage'[u] = stage[u] /\ sent'[u] = sent[u]
        BY <1>5, <1>a DEF RecordSentResult, WriteLost, Sent!RecordTaskFinish
    <2> QED BY <2>1
<1>6. ASSUME NEW t \in Task, Polling(t)
      PROVE  WaitsOnOpenRow'
    BY <1>6, <1>a DEF Polling, AskResult, AskFails, TakeAnswer
<1>7. ASSUME NEW t \in Task, Returning(t) \/ DeadlinePasses(t) \/ PollAgain(t) \/ GiveUp(t)
      PROVE  WaitsOnOpenRow'
    BY <1>7, <1>a DEF Returning, StartAwait, AnswerDropped, DeadlinePasses, PollAgain, GiveUp
<1>8. CASE Stop
    BY <1>8, <1>a DEF Stop
<1>9. CASE StartAgain
    BY <1>9, <1>a DEF StartAgain
<1>10. ASSUME NEW n \in Node, NEW t \in Task, Accepts(n, t) \/ Refuses(n, t)
       PROVE  WaitsOnOpenRow'
    BY <1>10, <1>a DEF Accepts, Refuses, Reads
<1>11. ASSUME NEW n \in Node, Works(n) \/ Dies(n)
       PROVE  WaitsOnOpenRow'
    BY <1>11, <1>a DEF Works, Dies
<1>12. CASE UNCHANGED gridVars
    BY <1>12 DEF gridVars
<1> QED
    BY <1>1, <1>2, <1>3, <1>4, <1>5, <1>6, <1>7, <1>8, <1>9, <1>10, <1>11, <1>12
    DEF GridNext, Recording

LEMMA OpenAlways == GridSpec => []WaitsOnOpenRow
<1>1. GridInit => WaitsOnOpenRow
    BY DEF GridInit, WaitsOnOpenRow, HasPeer, Tracked, Awaiting
<1>2. GridInv /\ WaitsOnOpenRow /\ [GridNext]_gridVars => WaitsOnOpenRow'
    BY OpenStep
<1> QED BY <1>1, <1>2, Invariance, PTL DEF GridSpec

LEMMA OutcomeStart == GridInit => Outcome!OutcomeInit
BY DEF GridInit, PromiseInit, NoEntry, Outcome!OutcomeInit, Outcome!PromiseInit,
       Outcome!NoEntry, Outcome!Unrecorded, SentRows, SentRow, Sent!Absent

LEMMA QuietMaps ==
    ASSUME UNCHANGED <<promiseVars, sent>>
    PROVE  UNCHANGED Outcome!outcomeVars
BY DEF promiseVars, Outcome!outcomeVars, Outcome!promiseVars, SentRows, SentRow

\* The dispatcher does not get in the way of what the nodes promise each other.
LEMMA PromiseMaps ==
    ASSUME PromiseNext, UNCHANGED sent
    PROVE  Outcome!OutcomeNext
<1>1. UNCHANGED SentRows
    BY DEF SentRows, SentRow
<1>2. Outcome!PromiseNext
    BY DEF PromiseNext, Take, Begin, Settle, End, Lose, Recover, Forget, Settled, NoEntry,
           Outcome!PromiseNext, Outcome!Take, Outcome!Begin, Outcome!Settle, Outcome!End,
           Outcome!Lose, Outcome!Recover, Outcome!Forget, Outcome!Settled, Outcome!NoEntry
<1> QED BY <1>1, <1>2 DEF Outcome!OutcomeNext

LEMMA RecordSentTaskMaps ==
    ASSUME GridInv, NEW t \in Task, RecordSentTask(t)
    PROVE  Outcome!OutcomeNext \/ UNCHANGED Outcome!outcomeVars
<1>1. UNCHANGED promiseVars /\ stage[t] = "recording"
    BY DEF RecordSentTask, Move
<1>2. CASE WriteLost({t})
    BY <1>1, <1>2, QuietMaps DEF WriteLost
<1>3. CASE sent' = Sent!RecordTaskStart(sent, t, cand[t])
    <2>1. cand[t] \in Node /\ ledger[cand[t]][t].peer = Me /\ sent[t].status = "absent"
        BY <1>1 DEF GridInv, CandHolds, AskedPeerTookIt, RowsHold, HasPeer
    <2>2. SentRows' = [SentRows EXCEPT ![t] =
                        [peer |-> cand[t], status |-> "running", output |-> NoOutput]]
        BY <1>3 DEF SentRows, SentRow, Sent!RecordTaskStart, GridInv, GridTypeOK
    <2>3. Outcome!Name(t, cand[t])
        BY <1>1, <2>1, <2>2 DEF Outcome!Name, SentRows, SentRow, promiseVars,
                Outcome!promiseVars
    <2> QED BY <2>1, <2>3 DEF Outcome!OutcomeNext
<1> QED BY <1>2, <1>3 DEF RecordSentTask

\* The answer was read some steps before it is stored; the ledger still says it.
LEMMA RecordSentResultMaps ==
    ASSUME GridInv, WaitsOnOpenRow, NEW t \in Task, RecordSentResult(t)
    PROVE  Outcome!OutcomeNext \/ UNCHANGED Outcome!outcomeVars
<1> DEFINE s == StoredAs(answer[t])
           o == IF s = "done" THEN answer[t].output ELSE NoOutput
<1>1. UNCHANGED promiseVars /\ stage[t] = "storing" /\ sent[t].status \notin Settled
    BY DEF RecordSentResult, Move, WaitsOnOpenRow, Tracked, Awaiting
<1>2. CASE WriteLost({t}) \/ sent[t].status = "absent"
    <2>1. sent' = sent
        BY <1>2 DEF WriteLost, RecordSentResult, Sent!RecordTaskFinish, Sent!Exists
    <2> QED BY <1>1, <2>1, QuietMaps
<1>3. CASE /\ sent[t].status # "absent"
           /\ sent' = Sent!RecordTaskFinish(sent, t, StoredAs(answer[t]), answer[t].output)
    <2>1. sent \in [Task -> Sent!Row] /\ answer[t] \in Answer
        BY DEF GridInv, GridTypeOK
    <2>2. sent[t].status = "running"
        BY <1>1, <1>3, <2>1 DEF Sent!Row, Sent!Finished, Settled
    <2>3. sent[t].peer = cand[t] /\ cand[t] \in Node
        BY <1>3 DEF GridInv, RowsHold
    <2>4. SentRows' = [SentRows EXCEPT ![t] = [peer |-> sent[t].peer, status |-> s, output |-> o]]
        <3> DEFINE new == [sent[t] EXCEPT !.status = s, !.output = o, !.finished = "recent"]
        <3>1. sent' = [sent EXCEPT ![t] = new]
            BY <1>3 DEF Sent!RecordTaskFinish, Sent!Exists, Sent!StoredStatus, Sent!StoredOutput
        <3>2. new.peer = sent[t].peer /\ new.status = s /\ new.output = o
            <4> HIDE DEF s, o
            <4> QED BY <2>1 DEF Sent!Row
        <3> HIDE DEF new, s, o
        <3> QED BY <2>1, <3>1, <3>2 DEF SentRows, SentRow
    <2>5. SentRows[t].peer = cand[t] /\ SentRows[t].status = "running"
        BY <2>2, <2>3 DEF SentRows, SentRow
    <2>6. \/ ReadFails /\ answer[t].status = "unknown"
          \/ /\ answer[t].status \in Settled
             /\ ledger[cand[t]][t].status = answer[t].status
             /\ ledger[cand[t]][t].output = answer[t].output
        BY <1>1 DEF GridInv, AnswerHolds
    <2>7. CASE ReadFails /\ answer[t].status = "unknown"
        <3>1. s = "failed" /\ o = NoOutput
            BY <2>7 DEF StoredAs
        <3> HIDE DEF s, o
        <3>2. Outcome!TellFailure(t)
            BY <1>1, <2>3, <2>4, <2>5, <2>7, <3>1 DEF Outcome!TellFailure, Outcome!Tell,
                    Outcome!Open, promiseVars, Outcome!promiseVars
        <3> QED BY <3>2 DEF Outcome!OutcomeNext
    <2>8. CASE /\ answer[t].status \in Settled
               /\ ledger[cand[t]][t].status = answer[t].status
               /\ ledger[cand[t]][t].output = answer[t].output
        <3>1. s \in Outcome!Settled /\ ledger[cand[t]][t].status = s
            BY <2>8 DEF StoredAs, Settled, Outcome!Settled
        <3>2. o = IF s = "done" THEN made[cand[t]][t] ELSE NoOutput
            BY <2>3, <2>8, <3>1 DEF GridInv, PromiseHolds
        <3> HIDE DEF s, o
        <3>3. Outcome!Tell(t, s, IF s = "done" THEN made[SentRows[t].peer][t] ELSE NoOutput)
            BY <1>1, <2>3, <2>4, <2>5, <3>2 DEF Outcome!Tell, Outcome!Open, promiseVars,
                    Outcome!promiseVars
        <3>4. Outcome!Copy(t)
            BY <2>5, <3>1, <3>3 DEF Outcome!Copy
        <3> QED BY <3>4 DEF Outcome!OutcomeNext
    <2> QED BY <2>6, <2>7, <2>8
<1> QED BY <1>2, <1>3 DEF RecordSentResult

LEMMA StartAgainMaps ==
    ASSUME GridInv, StartAgain
    PROVE  Outcome!OutcomeNext \/ UNCHANGED Outcome!outcomeVars
<1>1. UNCHANGED promiseVars
    BY DEF StartAgain
<1>2. CASE WriteLost({t \in Task : sent[t].status = "running"})
    BY <1>1, <1>2, QuietMaps DEF WriteLost
<1>3. CASE sent' = Sent!ReconcileStaleTasks(sent)
    <2>1. sent \in [Task -> Sent!Row]
        BY DEF GridInv, GridTypeOK
    <2>2. ASSUME NEW t \in Task
          PROVE  SentRow(t)' = IF sent[t].status = "running"
                               THEN [SentRow(t) EXCEPT !.status = "interrupted"] ELSE SentRow(t)
        <3>1. sent'[t] = IF sent[t].status = "running"
                         THEN [sent[t] EXCEPT !.status = "interrupted", !.finished = "recent"]
                         ELSE sent[t]
            BY <1>3, <2>1 DEF Sent!ReconcileStaleTasks
        <3> QED BY <2>1, <3>1 DEF SentRow, Sent!Row
    <2>3. Outcome!Interrupt
        BY <1>1, <2>2 DEF Outcome!Interrupt, Outcome!Open, SentRows, SentRow, promiseVars,
                Outcome!promiseVars
    <2> QED BY <2>3 DEF Outcome!OutcomeNext
<1> QED BY <1>2, <1>3 DEF StartAgain

\* Dials, verdicts, polls and deadlines are not seen in the history.
LEMMA OutcomeStep ==
    ASSUME GridInv, WaitsOnOpenRow, [GridNext]_gridVars
    PROVE  Outcome!OutcomeNext \/ UNCHANGED Outcome!outcomeVars
<1>1. ASSUME NEW t \in Task, NEW P \in SUBSET Node, Dispatch(t, P)
      PROVE  UNCHANGED <<promiseVars, sent>>
    BY <1>1 DEF Dispatch, rowVars
<1>2. ASSUME NEW t \in Task, Trying(t) \/ OfferBreaks(t) \/ Hearing(t)
      PROVE  UNCHANGED <<promiseVars, sent>>
    BY <1>2 DEF Trying, Hearing, DialFails, WriteOffer, NoPeerAccepted, OfferBreaks,
            ReadRefusal, ReadAcceptance, rowVars
<1>3. ASSUME NEW t \in Task,
             Returning(t) \/ Polling(t) \/ DeadlinePasses(t) \/ PollAgain(t) \/ GiveUp(t)
      PROVE  UNCHANGED <<promiseVars, sent>>
    BY <1>3 DEF Returning, StartAwait, AnswerDropped, Polling, AskResult, AskFails,
            TakeAnswer, DeadlinePasses, PollAgain, GiveUp,
            rowVars
<1>4. CASE Stop
    BY <1>4, QuietMaps DEF Stop, rowVars
<1>5. ASSUME NEW n \in Node, NEW t \in Task, Accepts(n, t)
      PROVE  PromiseNext /\ UNCHANGED sent
    BY <1>5 DEF Accepts, Reads, rowVars, PromiseNext
<1>6. ASSUME NEW n \in Node, NEW t \in Task, Refuses(n, t)
      PROVE  UNCHANGED <<promiseVars, sent>>
    BY <1>6 DEF Refuses, Reads, rowVars
<1>7. ASSUME NEW n \in Node, Works(n) \/ Dies(n)
      PROVE  PromiseNext /\ UNCHANGED sent
    BY <1>7 DEF Works, Dies, rowVars, PromiseNext
<1>8. CASE UNCHANGED gridVars
    BY <1>8, QuietMaps DEF gridVars, rowVars
<1> QED
    BY <1>1, <1>2, <1>3, <1>4, <1>5, <1>6, <1>7, <1>8, QuietMaps, PromiseMaps,
       RecordSentTaskMaps, RecordSentResultMaps, StartAgainMaps
    DEF GridNext, Recording

\* For its user a dispatched task has a row that names a node which took it, copies the
\* outcome as that node has it at that moment, and does not change again: connections
\* that break, late verdicts, polls, deadlines and restarts add nothing to that
\* (DispatchTask, AwaitResult, recordSentTask, recordSentResult, ReconcileStaleTasks).
THEOREM OutcomesTold == GridSpec => TellsOutcomes
<1>1. GridInit => Outcome!OutcomeInit
    BY OutcomeStart
<1>2. GridInv /\ WaitsOnOpenRow /\ [GridNext]_gridVars
        => Outcome!OutcomeNext \/ UNCHANGED Outcome!outcomeVars
    BY OutcomeStep
<1> QED BY <1>1, <1>2, Invariance, OpenAlways, PTL
        DEF GridSpec, TellsOutcomes, Outcome!OutcomeSpec
=============================================================================
