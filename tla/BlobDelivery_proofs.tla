-------------------------- MODULE BlobDelivery_proofs --------------------------
(***************************************************************************)
(* The two ends of BlobTransfer, step for step, do what BlobDelivery        *)
(* promises, for any transfers, files and candidate names.                  *)
(***************************************************************************)
EXTENDS BlobTransfer_proofs

-----------------------------------------------------------------------------
(* What each end has read of the other                                      *)

\* A step of one transfer is nothing to the others.
LEMMA StepAlone ==
  ASSUME TypeOK, NEW x \in Transfer,
         EditFile(x) \/ Sender(x) \/ HelloArrives(x) \/ Receiver(x)
  PROVE  Alone(x) /\ \A y \in Transfer \ {x} : file'[y] = file[y]
<1> USE DEF TypeOK, Alone, senderVars, receiverVars, SendMove, RecvMove, SendEnds, ReceiveEnds
<1>1. CASE EditFile(x)
      BY <1>1 DEF EditFile
<1>2. CASE ManifestFor(x) \/ DialFails(x) \/ HelloAnswered(x) \/ WriteManifest(x)
      BY <1>2 DEF ManifestFor, DialFails, HelloAnswered, WriteManifest
<1>3. CASE ReadAcceptance(x) \/ ReadRefusal(x) \/ SendChunk(x) \/ SendFails(x) \/ FinishSend(x)
      BY <1>3 DEF ReadAcceptance, ReadRefusal, SendChunk, SendFails, FinishSend, SentSoFar
<1>4. CASE HelloArrives(x) \/ ManifestInvalid(x) \/ ReadManifest(x) \/ CheckRefuses(x)
             \/ CheckAccepts(x) \/ NameTaken(x) \/ Reserve(x) \/ ReserveFails(x)
      BY <1>4 DEF HelloArrives, ManifestInvalid, ReadManifest, CheckRefuses, CheckAccepts,
                  NameTaken, Reserve, ReserveFails
<1>5. CASE Decline(x) \/ Accept(x) \/ OpenDest(x) \/ ReceiveChunk(x)
      BY <1>5 DEF Decline, Accept, OpenDest, ReceiveChunk
<1>6. CASE HashMismatch(x) \/ VerifyWhole(x) \/ ReceiveFails(x) \/ FinishReceive(x)
             \/ RemovePartial(x)
      BY <1>6 DEF HashMismatch, VerifyWhole, ReceiveFails, FinishReceive, RemovePartial
<1> QED BY <1>1, <1>2, <1>3, <1>4, <1>5, <1>6 DEF Sender, Receiver

LEMMA RowsBegin ==
  /\ Started \subseteq {"none", "in_progress"}
  /\ \A row \in {"none", "in_progress"}, err \in Outcome \cup {"none"} :
       \A new \in Finished(row, err) :
         new = row \/ (row = "in_progress" /\ new = err)
  BY DEF Started, Finished

LEMMA SenderAnswers ==
  ASSUME IInv, NEW x \in Transfer, ReportOrdered(x), EditFile(x) \/ Sender(x)
  PROVE  ReportOrdered(x)'
<1>1. SendOrdered(x) /\ ReceiveOrdered(x)
      BY DEF IInv, Ordered
<1> USE DEF IInv, TypeOK, ReportOrdered, SendOrdered, ReceiveOrdered, senderVars, receiverVars,
            SendMove, SendEnds, Over, Before
<1>2. CASE EditFile(x)
      BY <1>1, <1>2 DEF EditFile
<1>3. CASE ManifestFor(x)
      BY <1>1, <1>3 DEF ManifestFor
<1>4. CASE DialFails(x)
      BY <1>1, <1>4 DEF DialFails
<1>5. CASE HelloAnswered(x)
      BY <1>1, <1>5, RowsBegin DEF HelloAnswered
<1>6. CASE WriteManifest(x)
      BY <1>1, <1>6 DEF WriteManifest
<1>7. CASE ReadAcceptance(x) \/ SendChunk(x)
      BY <1>1, <1>7 DEF ReadAcceptance, SendChunk, SentSoFar
<1>8. CASE ReadRefusal(x) \/ SendFails(x)
      BY <1>1, <1>8 DEF ReadRefusal, SendFails
<1>9. CASE FinishSend(x)
      BY <1>1, <1>9 DEF FinishSend
<1> QED BY <1>2, <1>3, <1>4, <1>5, <1>6, <1>7, <1>8, <1>9 DEF Sender

LEMMA ReceiverAnswers ==
  ASSUME IInv, NEW x \in Transfer, ReportOrdered(x), HelloArrives(x) \/ Receiver(x)
  PROVE  ReportOrdered(x)'
<1>1. SendOrdered(x) /\ ReceiveOrdered(x)
      BY DEF IInv, Ordered
<1> USE DEF IInv, TypeOK, ReportOrdered, SendOrdered, ReceiveOrdered, senderVars, receiverVars,
            RecvMove, ReceiveEnds, Over, Before, Writing
<1>2. CASE HelloArrives(x)
      BY <1>1, <1>2 DEF HelloArrives
<1>3. CASE ManifestInvalid(x)
      BY <1>1, <1>3 DEF ManifestInvalid, OfferAt
<1>4. CASE ReadManifest(x)
      BY <1>1, <1>4, RowsBegin DEF ReadManifest, OfferAt
<1>5. CASE CheckRefuses(x) \/ CheckAccepts(x)
      BY <1>1, <1>5 DEF CheckRefuses, CheckAccepts
<1>6. CASE NameTaken(x) \/ Reserve(x) \/ ReserveFails(x)
      BY <1>1, <1>6 DEF NameTaken, Reserve, ReserveFails, MayTry
<1>7. CASE Decline(x)
      BY <1>1, <1>7 DEF Decline
<1>8. CASE Accept(x)
      BY <1>1, <1>8 DEF Accept
<1>9. CASE OpenDest(x) \/ ReceiveChunk(x)
      BY <1>1, <1>9 DEF OpenDest, ReceiveChunk, ChunkAt, AfterChunks
<1>10. CASE HashMismatch(x) \/ ReceiveFails(x)
      BY <1>1, <1>10 DEF HashMismatch, ReceiveFails, ChunkAt
<1>11. CASE VerifyWhole(x)
      BY <1>1, <1>11 DEF VerifyWhole
<1>12. CASE FinishReceive(x)
      BY <1>1, <1>12 DEF FinishReceive
<1>13. CASE RemovePartial(x)
      BY <1>1, <1>13 DEF RemovePartial
<1> QED BY <1>2, <1>3, <1>4, <1>5, <1>6, <1>7, <1>8, <1>9, <1>10, <1>11, <1>12, <1>13
        DEF Receiver

LEMMA AnsweredStep ==
  ASSUME IInv, Answered, [BlobNext]_blobVars
  PROVE  Answered'
<1> SUFFICES ASSUME NEW y \in Transfer PROVE ReportOrdered(y)'
    BY DEF Answered
<1>1. ReportOrdered(y) /\ TypeOK
      BY DEF Answered, IInv
<1>2. ASSUME NEW x \in Transfer, EditFile(x) \/ Sender(x) \/ HelloArrives(x) \/ Receiver(x)
      PROVE  ReportOrdered(y)'
  <2>1. CASE x = y
        BY <1>1, <1>2, <2>1, SenderAnswers, ReceiverAnswers
  <2>2. CASE x # y
    <3>1. Alone(x) /\ file'[y] = file[y]
          BY <1>1, <1>2, <2>2, StepAlone
    <3> QED BY <1>1, <2>2, <3>1 DEF Alone, ReportOrdered, Over
  <2> QED BY <2>1, <2>2
<1>3. CASE SenderRestarts
  <2>1. /\ UNCHANGED <<file, manifest, sndErr, exchange, sent, receiverVars>>
        /\ snd'[y] \in {snd[y], "dead"} /\ (snd'[y] = "picked" => snd[y] = "picked")
        /\ snd'[y] \notin Over => snd'[y] = "picked"
        BY <1>1, <1>3 DEF SenderRestarts, Killed, TypeOK, Over
  <2>2. outRow'[y] \in {outRow[y], "interrupted"} /\ (outRow[y] = "none" => outRow'[y] = "none")
        BY <1>1, <1>3 DEF SenderRestarts, Reconciled, ReconcileStaleTransfers, TypeOK
  <2> QED BY <1>1, <2>1, <2>2 DEF ReportOrdered, Over, receiverVars
<1>4. CASE ReceiverRestarts
  <2>1. /\ UNCHANGED <<file, senderVars, exchange, rcvErr, tried, dest, got, inbox>>
        /\ rcv'[y] \in {rcv[y], "dead"} /\ (rcv'[y] \notin Over => rcv'[y] = "none")
        BY <1>1, <1>4 DEF ReceiverRestarts, Killed, TypeOK, Over
  <2>2. inRow'[y] \in {inRow[y], "interrupted"} /\ (inRow[y] = "none" => inRow'[y] = "none")
        BY <1>1, <1>4 DEF ReceiverRestarts, Reconciled, ReconcileStaleTransfers, TypeOK
  <2> QED BY <1>1, <2>1, <2>2 DEF ReportOrdered, Over, senderVars
<1>5. CASE (\E p \in Path : UserTakes(p)) \/ UNCHANGED blobVars
      BY <1>1, <1>5 DEF UserTakes, ReportOrdered, blobVars, senderVars, receiverVars
<1> QED BY <1>2, <1>3, <1>4, <1>5 DEF BlobNext

LEMMA AnsweredAlways == BlobSpec => []Answered
<1>1. BlobInit => Answered
  <2> SUFFICES ASSUME BlobInit, NEW x \in Transfer PROVE ReportOrdered(x)
      BY DEF Answered
  <2>1. file[x] \in Versions[x] /\ manifest[x] \in Versions[x]
        BY DEF BlobInit
  <2> QED BY <2>1 DEF BlobInit, ReportOrdered, Over
<1>2. IInv /\ Answered /\ [BlobNext]_blobVars => Answered'
      BY AnsweredStep
<1> QED BY <1>1, <1>2, InvAlways, PTL DEF BlobSpec

-----------------------------------------------------------------------------
(* What is kept                                                             *)

\* A step changes nothing of what is kept while the one receive it touches has not
\* succeeded, and it only replaces that receive's own files.
LEMMA KeptStays ==
  ASSUME IInv, NEW x \in Transfer, rcvErr[x] # "done", rcvErr'[x] # "done",
         \A y \in Transfer \ {x} : rcvErr'[y] = rcvErr[y],
         \A p \in Path :
            \/ inbox'[p] = inbox[p]
            \/ /\ inbox[p] = NoFile \/ inbox[p].of = x
               /\ inbox'[p] = NoFile \/ inbox'[p].of = x
  PROVE  Received' = Received
<1> SUFFICES ASSUME NEW p \in Path PROVE Received'[p] = Received[p]
    BY DEF Received
<1>1. inbox[p] = NoFile \/ inbox[p].of \in Transfer
      BY NoFileShape DEF IInv, TypeOK
<1> QED BY <1>1 DEF Received

LEMMA KeptSame == ASSUME UNCHANGED <<rcvErr, inbox>> PROVE Received' = Received
  BY DEF Received

\* A manifest changes only before it is on its way.
LEMMA AnnouncedSame ==
  ASSUME \A y \in Transfer : exchange'[y] = "quiet" <=> exchange[y] = "quiet",
         \A y \in Transfer : exchange[y] # "quiet" => manifest'[y] = manifest[y]
  PROVE  Announced' = Announced
  BY DEF Announced

LEMMA SameFile == Delivery!NoFile = NoFile
  BY DEF Delivery!NoFile, NoFile

-----------------------------------------------------------------------------
(* The step of BlobDelivery that each step is                               *)

Maps == Delivery!DeliveryNext \/ UNCHANGED Delivery!deliveryVars

LEMMA Stutters ==
  ASSUME UNCHANGED <<sndErr, outRow, rcvErr, inRow, Announced, Received>>
  PROVE  Maps
  BY DEF Maps, Delivery!deliveryVars

\* Before anything is offered, and between the verdict and the report.
LEMMA SenderQuiet ==
  ASSUME IInv, NEW x \in Transfer, EditFile(x) \/ ManifestFor(x) \/ DialFails(x)
  PROVE  Maps
<1>1. UNCHANGED <<sndErr, outRow, rcvErr, inRow, exchange, inbox>>
      BY DEF EditFile, ManifestFor, DialFails, senderVars, receiverVars
<1>2. \A y \in Transfer : exchange[y] # "quiet" => manifest'[y] = manifest[y]
  <2>1. CASE ManifestFor(x)
        BY <2>1 DEF ManifestFor, SendMove, IInv, TypeOK, Ordered, SendOrdered, Before
  <2>2. CASE UNCHANGED manifest
        BY <2>2
  <2> QED BY <2>1, <2>2 DEF EditFile, DialFails, senderVars
<1>3. Announced' = Announced
      BY <1>1, <1>2, AnnouncedSame
<1>4. Received' = Received
      BY <1>1, KeptSame
<1> QED BY <1>1, <1>3, <1>4, Stutters

LEMMA OfferAnnounces ==
  ASSUME IInv, Answered, NEW x \in Transfer, WriteManifest(x)
  PROVE  Maps
<1>1. SendOrdered(x) /\ ReceiveOrdered(x) /\ ReportOrdered(x) /\ TypeOK
      BY DEF IInv, Ordered, Answered
<1>2. /\ snd[x] = "offering" /\ exchange[x] = "quiet"
      /\ exchange' = [exchange EXCEPT ![x] = "offered"]
      /\ UNCHANGED <<manifest, sndErr, outRow, rcvErr, inRow, inbox>>
      BY <1>1 DEF WriteManifest, SendMove, SendOrdered, Before, receiverVars
<1>3. sndErr[x] = "none" /\ rcvErr[x] \in {"none", "failed"} /\ manifest[x] \in Versions[x]
      BY <1>1, <1>2 DEF SendOrdered, ReportOrdered, TypeOK, Outcome, Over
<1>4. Announced[x] = {} /\ Announced' = [Announced EXCEPT ![x] = {manifest[x]}]
      BY <1>1, <1>2 DEF Announced, TypeOK
<1>5. Received' = Received
      BY <1>2, KeptSame
<1>6. Delivery!Announce(x)
      BY <1>2, <1>3, <1>4, <1>5 DEF Delivery!Announce
<1> QED BY <1>6 DEF Maps, Delivery!DeliveryNext

\* Whatever the sender's outcome, the receiver's agrees with it as far as it must.
LEMMA EndReports ==
  ASSUME IInv, Answered, NEW x \in Transfer, NEW err \in Outcome,
         snd[x] \notin {"closing"} \cup Over,
         err = "done" => exchange[x] = "accept",
         err = "refused" => exchange[x] = "refuse",
         sndErr' = [sndErr EXCEPT ![x] = err],
         UNCHANGED <<manifest, exchange, outRow, rcvErr, inRow, inbox>>
  PROVE  Maps
<1>1. SendOrdered(x) /\ ReceiveOrdered(x) /\ ReportOrdered(x) /\ TypeOK
      BY DEF IInv, Ordered, Answered
<1>2. sndErr[x] = "none"
      BY <1>1 DEF SendOrdered
<1>3. err = "done" => Announced[x] # {} /\ rcvErr[x] # "refused"
      BY <1>1 DEF Announced, ReceiveOrdered
<1>4. ASSUME err = "failed", rcvErr[x] = "done" PROVE Announced[x] = {<<>>}
  <2>1. got[x] = Len(manifest[x]) /\ exchange[x] = "accept"
        BY <1>1, <1>4 DEF ReceiveOrdered, ReportOrdered
  <2>2. got[x] <= Len(sent[x]) /\ Len(sent[x]) <= Len(manifest[x])
        BY <1>1 DEF TypeOK
  <2>3. manifest[x] \in Seq(Data) /\ sent[x] \in Seq(Data)
          /\ Len(manifest[x]) \in Nat /\ Len(sent[x]) \in Nat
        BY <1>1, LenProperties DEF TypeOK
  <2>4. Len(sent[x]) = Len(manifest[x])
        BY <2>1, <2>2, <2>3
  <2>5. sent[x] = <<>>
        BY <1>1, <1>2, <2>4 DEF SendOrdered
  <2>6. manifest[x] = <<>>
        BY <2>3, <2>4, <2>5, EmptySeq
  <2> QED BY <2>1, <2>6 DEF Announced
<1>5. err = "refused" => rcvErr[x] \in {"failed", "refused"}
      BY <1>1 DEF ReportOrdered
<1>6. Announced' = Announced /\ Received' = Received
      BY AnnouncedSame, KeptSame
<1>7. Delivery!SenderReports(x, err)
      BY <1>2, <1>3, <1>4, <1>5, <1>6 DEF Delivery!SenderReports
<1> QED BY <1>7 DEF Maps, Delivery!DeliveryNext, Delivery!Outcome, Outcome

LEMMA SendingReports ==
  ASSUME IInv, Answered, NEW x \in Transfer,
         ReadAcceptance(x) \/ ReadRefusal(x) \/ SendChunk(x) \/ SendFails(x)
  PROVE  Maps
<1>1. /\ UNCHANGED <<manifest, exchange, outRow, rcvErr, inRow, inbox>>
      /\ snd[x] \notin {"closing"} \cup Over
      BY DEF ReadAcceptance, ReadRefusal, SendChunk, SendFails, receiverVars, Over
<1>2. SendOrdered(x)
      BY DEF IInv, Ordered
<1>3. CASE UNCHANGED sndErr
  <2>1. Announced' = Announced /\ Received' = Received
        BY <1>1, AnnouncedSame, KeptSame
  <2> QED BY <1>1, <1>3, <2>1, Stutters
<1>4. CASE ReadRefusal(x)
      BY <1>1, <1>4, EndReports DEF ReadRefusal, SendEnds, Outcome
<1>5. CASE SendFails(x)
      BY <1>1, <1>5, EndReports DEF SendFails, SendEnds, Outcome
<1>6. CASE sndErr' = [sndErr EXCEPT ![x] = "done"] /\ exchange[x] = "accept"
      BY <1>1, <1>6, EndReports DEF Outcome
<1> QED BY <1>2, <1>3, <1>4, <1>5, <1>6
        DEF ReadAcceptance, SendChunk, SentSoFar, SendEnds, SendOrdered

\* The row of the sending end.
LEMMA SenderRecords ==
  ASSUME IInv, Answered, NEW x \in Transfer, HelloAnswered(x) \/ FinishSend(x)
  PROVE  Maps
<1>1. SendOrdered(x) /\ ReportOrdered(x) /\ TypeOK
      BY DEF IInv, Ordered, Answered
<1>2. UNCHANGED <<manifest, exchange, sndErr, rcvErr, inRow, inbox>>
      BY DEF HelloAnswered, FinishSend, receiverVars
<1>3. Announced' = Announced /\ Received' = Received
      BY <1>2, AnnouncedSame, KeptSame
<1>4. PICK new \in {"in_progress"} \cup Outcome \cup {"none"} :
        /\ outRow' = [outRow EXCEPT ![x] = new]
        /\ new = outRow[x] \/ Delivery!Recorded(outRow[x], sndErr[x], new)
  <2>1. CASE HelloAnswered(x)
    <3>1. outRow[x] = "none" /\ sndErr[x] = "none"
          BY <1>1, <2>1 DEF HelloAnswered, SendMove, ReportOrdered, SendOrdered, Over
    <3> QED BY <2>1, <3>1, RowsBegin DEF HelloAnswered, Delivery!Recorded
  <2>2. CASE FinishSend(x)
    <3>1. outRow[x] \in {"none", "in_progress"} /\ sndErr[x] \in Outcome
          BY <1>1, <2>2 DEF FinishSend, SendMove, ReportOrdered, SendOrdered, TypeOK, Over
    <3>2. sndErr[x] # "none"
          BY <3>1 DEF Outcome
    <3>3. PICK new \in Finished(outRow[x], sndErr[x]) : outRow' = [outRow EXCEPT ![x] = new]
          BY <2>2 DEF FinishSend
    <3> QED BY <3>1, <3>2, <3>3, RowsBegin DEF Delivery!Recorded
  <2> QED BY <2>1, <2>2
<1>5. CASE new = outRow[x]
  <2>1. outRow' = outRow
        BY <1>1, <1>4, <1>5 DEF TypeOK
  <2> QED BY <1>2, <1>3, <2>1, Stutters
<1>6. CASE Delivery!Recorded(outRow[x], sndErr[x], new)
  <2>1. new \in {"in_progress"} \cup Delivery!Outcome
        BY <1>1, <1>6 DEF Delivery!Recorded, Delivery!Outcome, TypeOK, Outcome
  <2>2. Delivery!RecordSend(x, new)
        BY <1>2, <1>3, <1>4, <1>6 DEF Delivery!RecordSend
  <2> QED BY <2>1, <2>2 DEF Maps, Delivery!DeliveryNext
<1> QED BY <1>4, <1>5, <1>6

\* The receiver's steps on the way to an outcome, which users do not see.
LEMMA ReceiverQuiet ==
  ASSUME IInv, NEW x \in Transfer,
         HelloArrives(x) \/ CheckAccepts(x) \/ NameTaken(x) \/ Decline(x) \/ Accept(x)
  PROVE  Maps
<1>1. UNCHANGED <<manifest, sndErr, outRow, rcvErr, inRow, inbox>>
      BY DEF HelloArrives, CheckAccepts, NameTaken, Decline, Accept, senderVars
<1>2. \A y \in Transfer : exchange'[y] = "quiet" <=> exchange[y] = "quiet"
  <2>1. CASE exchange' = exchange
        BY <2>1
  <2>2. CASE Decline(x) \/ Accept(x)
    <3>1. exchange[x] = "offered"
          BY <2>2 DEF Decline, Accept, RecvMove, IInv, Ordered, ReceiveOrdered
    <3>2. \E e \in {"accept", "refuse", "offered"} : exchange' = [exchange EXCEPT ![x] = e]
          BY <2>2, <3>1 DEF Decline, Accept, IInv, TypeOK
    <3> QED BY <3>1, <3>2 DEF IInv, TypeOK
  <2> QED BY <2>1, <2>2 DEF HelloArrives, CheckAccepts, NameTaken
<1>3. Announced' = Announced /\ Received' = Received
      BY <1>1, <1>2, AnnouncedSame, KeptSame
<1> QED BY <1>1, <1>3, Stutters

\* Nor do they see its file while it is being received, or removed.
LEMMA FileQuiet ==
  ASSUME IInv, NEW x \in Transfer,
         Reserve(x) \/ OpenDest(x) \/ ReceiveChunk(x) \/ RemovePartial(x)
  PROVE  Maps
<1>1. UNCHANGED <<manifest, exchange, sndErr, outRow, rcvErr, inRow>>
      BY DEF Reserve, OpenDest, ReceiveChunk, RemovePartial, senderVars
<1>2. Announced' = Announced
      BY <1>1, AnnouncedSame
<1>3. rcvErr[x] # "done"
      BY DEF Reserve, MayTry, OpenDest, ReceiveChunk, ChunkAt, RemovePartial, RecvMove, IInv,
             Ordered, ReceiveOrdered, Over
<1>4. ASSUME NEW p \in Path
      PROVE  \/ inbox'[p] = inbox[p]
             \/ /\ inbox[p] = NoFile \/ inbox[p].of = x
                /\ inbox'[p] = NoFile \/ inbox'[p].of = x
  <2>1. CASE Reserve(x)
        BY <2>1 DEF Reserve, IInv, TypeOK
  <2>2. CASE OpenDest(x) \/ ReceiveChunk(x) \/ RemovePartial(x)
    <3>1. Owns(x)
          BY <2>2 DEF OpenDest, ReceiveChunk, ChunkAt, RemovePartial, RecvMove, Owns, Writing
    <3>2. dest[x] \in Path /\ inbox[dest[x]] \in Stored /\ inbox[dest[x]].of = x
          BY <3>1, OwnFile
    <3>3. p # dest[x] => inbox'[p] = inbox[p]
          BY <2>2 DEF OpenDest, ReceiveChunk, RemovePartial, IInv, TypeOK
    <3>4. inbox'[dest[x]] = NoFile \/ inbox'[dest[x]].of = x
      <4>1. CASE OpenDest(x) \/ RemovePartial(x)
            BY <3>2, <4>1 DEF OpenDest, RemovePartial, IInv, TypeOK
      <4>2. CASE ReceiveChunk(x)
        <5> DEFINE g == inbox[dest[x]]
                   d == [g.data EXCEPT ![got[x] + 1] = sent[x][got[x] + 1]]
        <5>1. inbox'[dest[x]] = [g EXCEPT !.data = d]
              BY <3>2, <4>2 DEF ReceiveChunk, IInv, TypeOK
        <5> HIDE DEF d
        <5> QED BY <3>2, <5>1 DEF Stored
      <4> QED BY <2>2, <4>1, <4>2
    <3> QED BY <3>2, <3>3, <3>4
  <2> QED BY <2>1, <2>2
<1>5. Received' = Received
      BY <1>1, <1>3, <1>4, KeptStays
<1> QED BY <1>1, <1>2, <1>5, Stutters

LEMMA FailureReports ==
  ASSUME IInv, Answered, NEW x \in Transfer, NEW err \in {"failed", "refused"},
         rcvErr[x] = "none", err = "refused" => exchange[x] = "offered",
         rcvErr' = [rcvErr EXCEPT ![x] = err],
         UNCHANGED <<manifest, exchange, sndErr, outRow, inRow, inbox>>
  PROVE  Maps
<1>1. ReportOrdered(x) /\ TypeOK
      BY DEF IInv, Answered
<1>2. err = "refused" => Announced[x] # {} /\ sndErr[x] # "done"
      BY <1>1 DEF ReportOrdered, Announced
<1>3. Announced' = Announced
      BY AnnouncedSame
<1>4. Received' = Received
      BY <1>1, KeptStays DEF TypeOK
<1>5. Delivery!ReceiverFails(x, err)
      BY <1>2, <1>3, <1>4 DEF Delivery!ReceiverFails
<1> QED BY <1>5 DEF Maps, Delivery!DeliveryNext, Delivery!Outcome

\* The whole file turns up at once, where no received file is.
LEMMA VerifiedDelivers ==
  ASSUME IInv, Answered, NEW x \in Transfer, VerifyWhole(x), inbox[dest[x]].data = manifest[x]
  PROVE  Maps
<1> DEFINE p == dest[x]
<1>1. SendOrdered(x) /\ ReceiveOrdered(x) /\ ReportOrdered(x) /\ TypeOK
      BY DEF IInv, Ordered, Answered
<1>2. /\ rcv[x] = "verifying" /\ rcvErr[x] = "none" /\ exchange[x] = "accept"
      /\ rcvErr' = [rcvErr EXCEPT ![x] = "done"]
      /\ UNCHANGED <<manifest, exchange, sndErr, outRow, inRow, inbox>>
      BY <1>1 DEF VerifyWhole, ReceiveEnds, ReceiveOrdered, ReportOrdered, senderVars, Over
<1>3. p \in Path /\ inbox[p] \in Stored /\ inbox[p] # NoFile /\ inbox[p].of = x
      BY <1>2, OwnFile DEF Owns, Writing
<1>4. inbox[p] = [of |-> x, data |-> manifest[x]]
      BY <1>3 DEF Stored
<1>5. Announced' = Announced /\ Announced[x] = {manifest[x]}
      BY <1>2, AnnouncedSame DEF Announced
<1>6. sndErr[x] = "done" \/ (manifest[x] = <<>> /\ sndErr[x] # "refused")
  <2>1. CASE manifest[x] = <<>>
        BY <1>1, <1>2, <2>1 DEF SendOrdered
  <2>2. CASE manifest[x] # <<>>
    <3>1. got[x] = Len(manifest[x]) /\ got[x] <= Len(sent[x]) /\ Len(sent[x]) <= Len(manifest[x])
          BY <1>1, <1>2 DEF ReceiveOrdered, TypeOK
    <3>2. Len(sent[x]) = Len(manifest[x]) /\ Len(manifest[x]) # 0
          BY <1>1, <2>2, <3>1, LenProperties, EmptySeq DEF TypeOK
    <3>3. sent[x] # <<>>
          BY <3>2
    <3> QED BY <1>1, <3>2, <3>3 DEF SendOrdered
  <2> QED BY <2>1, <2>2
<1>7. Received[p] = NoFile /\ Received'[p] = inbox[p]
      BY <1>1, <1>2, <1>3 DEF Received, TypeOK
<1>8. ASSUME NEW q \in Path, q # p PROVE Received'[q] = Received[q]
  <2>1. inbox[q] # NoFile => inbox[q].of \in Transfer \ {x}
        BY <1>8, NoFileShape DEF IInv, TypeOK, InboxSound
  <2> QED BY <1>1, <1>2, <2>1 DEF Received, TypeOK
<1>9. Received' = [Received EXCEPT ![p] = [of |-> x, data |-> manifest[x]]]
      BY <1>3, <1>4, <1>7, <1>8 DEF Received
<1>10. Delivery!Deliver(x, p)
      BY <1>2, <1>5, <1>6, <1>7, <1>9, SameFile DEF Delivery!Deliver
<1> QED BY <1>3, <1>10 DEF Maps, Delivery!DeliveryNext

LEMMA ReceivingReports ==
  ASSUME IInv, Answered, NEW x \in Transfer,
         ManifestInvalid(x) \/ CheckRefuses(x) \/ ReserveFails(x) \/ HashMismatch(x)
           \/ VerifyWhole(x) \/ ReceiveFails(x)
  PROVE  Maps
<1>1. ReceiveOrdered(x) /\ TypeOK
      BY DEF IInv, Ordered
<1>2. UNCHANGED <<manifest, exchange, sndErr, outRow, inRow, inbox>> /\ rcvErr[x] = "none"
      BY <1>1 DEF ManifestInvalid, CheckRefuses, ReserveFails, HashMismatch, VerifyWhole,
                  ReceiveFails, OfferAt, ChunkAt, ReceiveOrdered, senderVars, Over
<1>3. CASE CheckRefuses(x)
      BY <1>1, <1>2, <1>3, FailureReports DEF CheckRefuses, ReceiveEnds, ReceiveOrdered
<1>4. CASE VerifyWhole(x) /\ inbox[dest[x]].data = manifest[x]
      BY <1>4, VerifiedDelivers
<1>5. CASE rcvErr' = [rcvErr EXCEPT ![x] = "failed"]
      BY <1>2, <1>5, FailureReports
<1> QED BY <1>3, <1>4, <1>5
        DEF ManifestInvalid, ReserveFails, HashMismatch, VerifyWhole, ReceiveFails, ReceiveEnds

\* The row of the receiving end.
LEMMA ReceiverRecords ==
  ASSUME IInv, Answered, NEW x \in Transfer, ReadManifest(x) \/ FinishReceive(x)
  PROVE  Maps
<1>1. ReceiveOrdered(x) /\ ReportOrdered(x) /\ TypeOK
      BY DEF IInv, Ordered, Answered
<1>2. UNCHANGED <<manifest, exchange, sndErr, outRow, rcvErr, inbox>>
      BY DEF ReadManifest, FinishReceive, senderVars
<1>3. Announced' = Announced /\ Received' = Received
      BY <1>2, AnnouncedSame, KeptSame
<1>4. PICK new \in {"in_progress"} \cup Outcome \cup {"none"} :
        /\ inRow' = [inRow EXCEPT ![x] = new]
        /\ new = inRow[x] \/ Delivery!Recorded(inRow[x], rcvErr[x], new)
  <2>1. CASE ReadManifest(x)
    <3>1. inRow[x] = "none"
          BY <1>1, <2>1 DEF ReadManifest, OfferAt, ReportOrdered
    <3>2. rcvErr[x] = "none"
          BY <1>1, <2>1 DEF ReadManifest, OfferAt, ReceiveOrdered, Over
    <3> QED BY <2>1, <3>1, <3>2, RowsBegin DEF ReadManifest, Delivery!Recorded
  <2>2. CASE FinishReceive(x)
    <3>1. inRow[x] \in {"none", "in_progress"} /\ rcvErr[x] \in Outcome /\ rcvErr[x] # "none"
          BY <1>1, <2>2 DEF FinishReceive, RecvMove, ReportOrdered, TypeOK, Over
    <3>2. PICK new \in Finished(inRow[x], rcvErr[x]) : inRow' = [inRow EXCEPT ![x] = new]
          BY <2>2 DEF FinishReceive
    <3> QED BY <3>1, <3>2, RowsBegin DEF Delivery!Recorded
  <2> QED BY <2>1, <2>2
<1>5. CASE new = inRow[x]
  <2>1. inRow' = inRow
        BY <1>1, <1>4, <1>5 DEF TypeOK
  <2> QED BY <1>2, <1>3, <2>1, Stutters
<1>6. CASE Delivery!Recorded(inRow[x], rcvErr[x], new)
  <2>1. new \in {"in_progress"} \cup Delivery!Outcome
        BY <1>1, <1>6 DEF Delivery!Recorded, Delivery!Outcome, TypeOK, Outcome
  <2>2. Delivery!RecordReceive(x, new)
        BY <1>2, <1>3, <1>4, <1>6 DEF Delivery!RecordReceive
  <2> QED BY <2>1, <2>2 DEF Maps, Delivery!DeliveryNext
<1> QED BY <1>4, <1>5, <1>6

LEMMA RestartMaps == ASSUME IInv, SenderRestarts \/ ReceiverRestarts PROVE Maps
<1>1. UNCHANGED <<manifest, exchange, sndErr, rcvErr, inbox>>
      BY DEF SenderRestarts, ReceiverRestarts, senderVars, receiverVars
<1>2. Announced' = Announced /\ Received' = Received
      BY <1>1, AnnouncedSame, KeptSame
<1>3. ASSUME NEW rows PROVE ReconcileStaleTransfers(rows) = Delivery!Interrupted(rows)
      BY DEF ReconcileStaleTransfers, Delivery!Interrupted
<1>4. CASE SenderRestarts
  <2>1. (outRow' = outRow \/ outRow' = Delivery!Interrupted(outRow)) /\ inRow' = inRow
        BY <1>3, <1>4 DEF SenderRestarts, Reconciled, receiverVars
  <2> QED BY <1>1, <1>2, <2>1, Stutters DEF Maps, Delivery!DeliveryNext, Delivery!SenderBack
<1>5. CASE ReceiverRestarts
  <2>1. (inRow' = inRow \/ inRow' = Delivery!Interrupted(inRow)) /\ outRow' = outRow
        BY <1>3, <1>5 DEF ReceiverRestarts, Reconciled, senderVars
  <2> QED BY <1>1, <1>2, <2>1, Stutters DEF Maps, Delivery!DeliveryNext, Delivery!ReceiverBack
<1> QED BY <1>4, <1>5

LEMMA UserTakesMaps == ASSUME IInv, NEW p \in Path, UserTakes(p) PROVE Maps
<1>1. /\ UNCHANGED <<manifest, exchange, sndErr, outRow, rcvErr, inRow>>
      /\ inbox' = [inbox EXCEPT ![p] = NoFile]
      BY DEF UserTakes, senderVars
<1>2. Announced' = Announced
      BY <1>1, AnnouncedSame
<1>3. Received' = [Received EXCEPT ![p] = NoFile]
      BY <1>1 DEF Received, IInv, TypeOK
<1>4. CASE Received[p] = NoFile
  <2>1. Received' = Received
        BY <1>3, <1>4 DEF Received
  <2> QED BY <1>1, <1>2, <2>1, Stutters
<1>5. CASE Received[p] # NoFile
  <2>1. Delivery!Take(p)
        BY <1>1, <1>2, <1>3, <1>5, SameFile DEF Delivery!Take
  <2> QED BY <2>1 DEF Maps, Delivery!DeliveryNext
<1> QED BY <1>4, <1>5

LEMMA DeliveryStep == ASSUME IInv, Answered, [BlobNext]_blobVars PROVE Maps
<1>1. ASSUME NEW x \in Transfer, EditFile(x) \/ Sender(x) PROVE Maps
      BY <1>1, SenderQuiet, OfferAnnounces, SendingReports, SenderRecords DEF Sender
<1>2. ASSUME NEW x \in Transfer, HelloArrives(x) \/ Receiver(x) PROVE Maps
      BY <1>2, ReceiverQuiet, FileQuiet, ReceivingReports, ReceiverRecords DEF Receiver
<1>3. CASE UNCHANGED blobVars
  <2>1. Announced' = Announced /\ Received' = Received
        BY <1>3, AnnouncedSame, KeptSame DEF blobVars, senderVars, receiverVars
  <2> QED BY <1>3, <2>1, Stutters DEF blobVars, senderVars, receiverVars
<1> QED BY <1>1, <1>2, <1>3, RestartMaps, UserTakesMaps DEF BlobNext

\* For the people at its two ends a transfer delivers a file in one step, whole, as the
\* version that was hashed and under a free name, or not at all; each end reports once,
\* and its history says what it reported (SendBlob, receiveBlob, verifyWhole).
THEOREM DeliveryKept == BlobSpec => DeliversWhole
<1>1. BlobInit => Delivery!DeliveryInit
  <2> SUFFICES ASSUME BlobInit PROVE Delivery!DeliveryInit
      OBVIOUS
  <2>1. Announced = [x \in Transfer |-> {}]
        BY DEF BlobInit, Announced
  <2>2. Received = [p \in Path |-> NoFile]
        BY DEF BlobInit, Received
  <2> QED BY <2>1, <2>2, SameFile DEF BlobInit, Delivery!DeliveryInit
<1>2. IInv /\ Answered /\ [BlobNext]_blobVars =>
          [Delivery!DeliveryNext]_(Delivery!deliveryVars)
      BY DeliveryStep DEF Maps
<1> QED BY <1>1, <1>2, InvAlways, AnsweredAlways, PTL
        DEF BlobSpec, DeliversWhole, Delivery!DeliverySpec
=============================================================================
