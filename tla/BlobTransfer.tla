------------------------------ MODULE BlobTransfer ------------------------------
(***************************************************************************)
(* Sending files from one node to another: SendBlob and blob.Send on the    *)
(* sending node, receiveBlob and blob.Receive on the receiving one, the     *)
(* inbox the files land in and the row each node keeps in its `transfers`   *)
(* table (internal/blob/chunk.go, manifest.go, verdict.go; internal/node/   *)
(* blob_send.go, blob_receive.go, transfers.go; internal/db/transfers.go).  *)
(*                                                                          *)
(* Every transfer has a connection of its own.  A file is the sequence of   *)
(* its chunks, a hash is the value hashed, so a manifest is such a sequence *)
(* too.  What the sender writes is buffered: it can all be written, and the *)
(* connection closed, before the receiver has read any of it.               *)
(***************************************************************************)
EXTENDS Naturals, Sequences

CONSTANTS
    Transfer,
    Data,       \* contents of a chunk
    Hole,       \* what a chunk reads as before it is written
    Path,       \* names in the inbox
    NoPath,
    Candidates, \* for each transfer, the names reserveInboxFile tries in turn
    Versions,   \* what the file of each transfer may hold, over time
    MaxChunks,  \* the most chunks a manifest may declare
    StoreFails  \* whether a write to a history database may fail

ASSUME BlobAssumption ==
    /\ Hole \notin Data
    /\ NoPath \notin Path /\ NoPath \notin Transfer
    /\ Candidates \in [Transfer -> Seq(Path)]
    /\ Versions \in [Transfer -> SUBSET Seq(Data)]
    /\ MaxChunks \in Nat
    /\ StoreFails \in BOOLEAN

VARIABLES
    file,       \* what the picked file holds now
    manifest,   \* what it held when it was hashed
    snd,        \* how far SendBlob has come
    sndErr,     \* what blob.Send returned
    outRow,     \* the row of the sending node
    exchange,   \* manifest and verdict on the connection
    sent,       \* the chunks written to the connection
    rcv,        \* how far receiveBlob has come
    rcvErr,     \* what blob.Receive returned
    inRow,      \* the row of the receiving node
    tried,      \* how many candidate names were taken
    dest,       \* the inbox name reserved
    got,        \* how many chunks have been read
    inbox       \* the files in the inbox, each with the transfer that created it

senderVars == <<manifest, snd, sndErr, outRow, sent>>
receiverVars == <<rcv, rcvErr, inRow, tried, dest, got, inbox>>
blobVars == <<file, senderVars, exchange, receiverVars>>

Outcome == {"done", "failed", "refused"}
Row == {"none", "in_progress", "interrupted"} \cup Outcome

Over == {"ended", "leftover", "dead"}
SendStage == {"picked", "dialing", "offering", "waiting", "sending", "closing"} \cup Over
\* The stages in which a receive has a file of its own.
Writing == {"replying", "opening", "receiving", "verifying", "removing"}
RecvStage ==
    {"none", "connected", "deciding", "reserving", "declining", "closing"}
        \cup Writing \cup Over

NoFile == [of |-> NoPath, data |-> <<>>]
Stored == [of : Transfer, data : Seq(Data \cup {Hole})]

Holes(n) == [i \in 1 .. n |-> Hole]

TypeOK ==
    /\ file \in [Transfer -> Seq(Data)]
    /\ manifest \in [Transfer -> Seq(Data)]
    /\ snd \in [Transfer -> SendStage]
    /\ sndErr \in [Transfer -> Outcome \cup {"none"}]
    /\ outRow \in [Transfer -> Row]
    /\ exchange \in [Transfer -> {"quiet", "offered", "accept", "refuse"}]
    /\ sent \in [Transfer -> Seq(Data)]
    /\ rcv \in [Transfer -> RecvStage]
    /\ rcvErr \in [Transfer -> Outcome \cup {"none"}]
    /\ inRow \in [Transfer -> Row]
    /\ tried \in [Transfer -> Nat]
    /\ dest \in [Transfer -> Path \cup {NoPath}]
    /\ got \in [Transfer -> Nat]
    /\ inbox \in [Path -> Stored \cup {NoFile}]
    /\ \A x \in Transfer :
        /\ tried[x] <= Len(Candidates[x])
        /\ got[x] <= Len(sent[x]) /\ Len(sent[x]) <= Len(manifest[x])
        /\ rcv[x] \in Writing => dest[x] # NoPath /\ Len(manifest[x]) <= MaxChunks

\* The dialog that shows the file before it is sent has hashed it.
BlobInit ==
    /\ file \in {f \in [Transfer -> UNION {Versions[x] : x \in Transfer}] :
                    \A x \in Transfer : f[x] \in Versions[x]}
    /\ manifest = file
    /\ snd = [x \in Transfer |-> "picked"]
    /\ sndErr = [x \in Transfer |-> "none"]
    /\ outRow = [x \in Transfer |-> "none"]
    /\ exchange = [x \in Transfer |-> "quiet"]
    /\ sent = [x \in Transfer |-> <<>>]
    /\ rcv = [x \in Transfer |-> "none"]
    /\ rcvErr = [x \in Transfer |-> "none"]
    /\ inRow = [x \in Transfer |-> "none"]
    /\ tried = [x \in Transfer |-> 0]
    /\ dest = [x \in Transfer |-> NoPath]
    /\ got = [x \in Transfer |-> 0]
    /\ inbox = [p \in Path |-> NoFile]

\* A history database that fails is logged and changes nothing else.
Started == {"in_progress"} \cup (IF StoreFails THEN {"none"} ELSE {})

Finished(row, err) ==
    {IF row = "none" THEN "none" ELSE err} \cup (IF StoreFails THEN {row} ELSE {})

ReconcileStaleTransfers(rows) ==
    [x \in Transfer |-> IF rows[x] = "in_progress" THEN "interrupted" ELSE rows[x]]

\* What New finds when a process comes back, the others having gone with it.
Reconciled(rows) == {ReconcileStaleTransfers(rows)} \cup (IF StoreFails THEN {rows} ELSE {})

Killed(stage, idle) ==
    [x \in Transfer |-> IF stage[x] \in {idle} \cup Over THEN stage[x] ELSE "dead"]

-----------------------------------------------------------------------------
(* The sending node                                                         *)

SendMove(x, from, to) ==
    /\ snd[x] = from
    /\ snd' = [snd EXCEPT ![x] = to]

SendEnds(x, err) ==
    /\ snd' = [snd EXCEPT ![x] = "closing"]
    /\ sndErr' = [sndErr EXCEPT ![x] = err]

\* Somebody goes on working on the file, which is read in these two stages.
EditFile(x) ==
    /\ snd[x] \in {"picked", "sending"}
    /\ \E v \in Versions[x] : file' = [file EXCEPT ![x] = v]
    /\ UNCHANGED <<senderVars, exchange, receiverVars>>

\* Only a file of another size is hashed again.
ManifestFor(x) ==
    /\ SendMove(x, "picked", "dialing")
    /\ manifest' = [manifest EXCEPT ![x] = IF Len(file[x]) = Len(@) THEN @ ELSE file[x]]
    /\ UNCHANGED <<file, sndErr, outRow, exchange, sent, receiverVars>>

\* SendBlob returns before anything is recorded.
DialFails(x) ==
    /\ snd[x] \in {"picked", "dialing"}
    /\ snd' = [snd EXCEPT ![x] = "ended"]
    /\ UNCHANGED <<file, manifest, sndErr, outRow, exchange, sent, receiverVars>>

HelloAnswered(x) ==
    /\ rcv[x] # "none"
    /\ SendMove(x, "dialing", "offering")
    /\ \E row \in Started : outRow' = [outRow EXCEPT ![x] = row]
    /\ UNCHANGED <<file, manifest, sndErr, exchange, sent, receiverVars>>

WriteManifest(x) ==
    /\ SendMove(x, "offering", "waiting")
    /\ exchange' = [exchange EXCEPT ![x] = "offered"]
    /\ UNCHANGED <<file, manifest, sndErr, outRow, sent, receiverVars>>

\* Send returns nil as soon as the last chunk is written.
SentSoFar(x, chunks) ==
    IF Len(chunks) = Len(manifest[x])
    THEN SendEnds(x, "done")
    ELSE snd' = [snd EXCEPT ![x] = "sending"] /\ UNCHANGED sndErr

ReadAcceptance(x) ==
    /\ snd[x] = "waiting" /\ exchange[x] = "accept"
    /\ SentSoFar(x, <<>>)
    /\ UNCHANGED <<file, manifest, outRow, exchange, sent, receiverVars>>

\* Slip: whatever the verdict is, it is read as go ahead
ReadAnyVerdict(x) ==
    /\ snd[x] = "waiting" /\ exchange[x] = "refuse"
    /\ SentSoFar(x, <<>>)
    /\ UNCHANGED <<file, manifest, outRow, exchange, sent, receiverVars>>

ReadRefusal(x) ==
    /\ snd[x] = "waiting" /\ exchange[x] = "refuse"
    /\ SendEnds(x, "refused")
    /\ UNCHANGED <<file, manifest, outRow, exchange, sent, receiverVars>>

\* The chunk is read from the file as it is now.
SendChunk(x) ==
    LET n == Len(sent[x]) + 1 IN
    /\ snd[x] = "sending" /\ n <= Len(file[x])
    /\ sent' = [sent EXCEPT ![x] = Append(@, file[x][n])]
    /\ SentSoFar(x, sent'[x])
    /\ UNCHANGED <<file, manifest, outRow, exchange, receiverVars>>

\* Slips: the deadline is set for the chunks only; an error after the last chunk
\* makes the transfer a failure
FailsBut(x, stages) ==
    /\ snd[x] \in stages
    /\ SendEnds(x, "failed")
    /\ UNCHANGED <<file, manifest, outRow, exchange, sent, receiverVars>>

WaitsForVerdict(x) == FailsBut(x, {"offering", "sending"})
FailsLate(x) == FailsBut(x, {"offering", "waiting", "sending", "closing"})

\* A deadline, a reset, a file that cannot be opened or has become too short.
SendFails(x) ==
    /\ snd[x] \in {"offering", "waiting", "sending"}
    /\ SendEnds(x, "failed")
    /\ UNCHANGED <<file, manifest, outRow, exchange, sent, receiverVars>>

FinishSend(x) ==
    /\ SendMove(x, "closing", "ended")
    /\ \E row \in Finished(outRow[x], sndErr[x]) : outRow' = [outRow EXCEPT ![x] = row]
    /\ UNCHANGED <<file, manifest, sndErr, exchange, sent, receiverVars>>

SenderRestarts ==
    /\ snd' = Killed(snd, "picked")
    /\ outRow' \in Reconciled(outRow)
    /\ UNCHANGED <<file, manifest, sndErr, exchange, sent, receiverVars>>

Sender(x) ==
    \/ ManifestFor(x) \/ DialFails(x) \/ HelloAnswered(x) \/ WriteManifest(x)
    \/ ReadAcceptance(x) \/ ReadRefusal(x) \/ SendChunk(x) \/ SendFails(x)
    \/ FinishSend(x)

-----------------------------------------------------------------------------
(* The receiving node                                                       *)

RecvMove(x, from, to) ==
    /\ rcv[x] = from
    /\ rcv' = [rcv EXCEPT ![x] = to]

ReceiveEnds(x, to, err) ==
    /\ rcv' = [rcv EXCEPT ![x] = to]
    /\ rcvErr' = [rcvErr EXCEPT ![x] = err]

\* The listener has read the hello and answered it.
HelloArrives(x) ==
    /\ snd[x] = "dialing"
    /\ RecvMove(x, "none", "connected")
    /\ UNCHANGED <<file, senderVars, exchange, rcvErr, inRow, tried, dest, got, inbox>>

OfferAt(x) == rcv[x] = "connected" /\ exchange[x] = "offered"

\* Manifest.Validate: what BuildManifest makes can only be too long.
ManifestInvalid(x) ==
    /\ OfferAt(x) /\ Len(manifest[x]) > MaxChunks
    /\ ReceiveEnds(x, "declining", "failed")
    /\ UNCHANGED <<file, senderVars, exchange, inRow, tried, dest, got, inbox>>

\* Slip: any manifest will do
ReadUnchecked(x) ==
    /\ OfferAt(x)
    /\ rcv' = [rcv EXCEPT ![x] = "deciding"]
    /\ \E row \in Started : inRow' = [inRow EXCEPT ![x] = row]
    /\ UNCHANGED <<file, senderVars, exchange, rcvErr, tried, dest, got, inbox>>

ReadManifest(x) ==
    /\ OfferAt(x) /\ Len(manifest[x]) <= MaxChunks
    /\ rcv' = [rcv EXCEPT ![x] = "deciding"]
    /\ \E row \in Started : inRow' = [inRow EXCEPT ![x] = row]
    /\ UNCHANGED <<file, senderVars, exchange, rcvErr, tried, dest, got, inbox>>

\* checkAccept: the access list, the size limit and the free space.
CheckRefuses(x) ==
    /\ rcv[x] = "deciding"
    /\ ReceiveEnds(x, "declining", "refused")
    /\ UNCHANGED <<file, senderVars, exchange, inRow, tried, dest, got, inbox>>

CheckAccepts(x) ==
    /\ RecvMove(x, "deciding", "reserving")
    /\ UNCHANGED <<file, senderVars, exchange, rcvErr, inRow, tried, dest, got, inbox>>

MayTry(x) == rcv[x] = "reserving" /\ tried[x] < Len(Candidates[x])
Candidate(x) == Candidates[x][tried[x] + 1]

NameTaken(x) ==
    /\ MayTry(x) /\ inbox[Candidate(x)] # NoFile
    /\ tried' = [tried EXCEPT ![x] = @ + 1]
    /\ UNCHANGED <<file, senderVars, exchange, rcv, rcvErr, inRow, dest, got, inbox>>

\* Slip: no O_EXCL
ReserveAny(x) ==
    /\ MayTry(x)
    /\ rcv' = [rcv EXCEPT ![x] = "replying"]
    /\ dest' = [dest EXCEPT ![x] = Candidate(x)]
    /\ inbox' = [inbox EXCEPT ![Candidate(x)] = [of |-> x, data |-> <<>>]]
    /\ UNCHANGED <<file, senderVars, exchange, rcvErr, inRow, tried, got>>

\* O_EXCL: creating the empty file is the reservation.
Reserve(x) ==
    /\ MayTry(x) /\ inbox[Candidate(x)] = NoFile
    /\ rcv' = [rcv EXCEPT ![x] = "replying"]
    /\ dest' = [dest EXCEPT ![x] = Candidate(x)]
    /\ inbox' = [inbox EXCEPT ![Candidate(x)] = [of |-> x, data |-> <<>>]]
    /\ UNCHANGED <<file, senderVars, exchange, rcvErr, inRow, tried, got>>

\* Slip: dest is set before the error is looked at, so that the clean-up of the
\* failed receive removes the file that has the name
ReserveFailsNamed(x) ==
    /\ rcv[x] = "reserving"
    /\ ReceiveEnds(x, "declining", "failed")
    /\ dest' = [dest EXCEPT ![x] = Candidates[x][1]]
    /\ UNCHANGED <<file, senderVars, exchange, inRow, tried, got, inbox>>

\* Every name taken, or no directory to create one in.
ReserveFails(x) ==
    /\ rcv[x] = "reserving"
    /\ ReceiveEnds(x, "declining", "failed")
    /\ UNCHANGED <<file, senderVars, exchange, inRow, tried, dest, got, inbox>>

\* The verdict is written and an error of that write is not looked at.
Decline(x) ==
    /\ RecvMove(x, "declining", "closing")
    /\ \/ exchange' = [exchange EXCEPT ![x] = "refuse"]
       \/ UNCHANGED exchange
    /\ UNCHANGED <<file, senderVars, rcvErr, inRow, tried, dest, got, inbox>>

Accept(x) ==
    /\ RecvMove(x, "replying", "opening")
    /\ exchange' = [exchange EXCEPT ![x] = "accept"]
    /\ UNCHANGED <<file, senderVars, rcvErr, inRow, tried, dest, got, inbox>>

AfterChunks(x, n) == IF n = Len(manifest[x]) THEN "verifying" ELSE "receiving"

\* O_CREATE and O_TRUNC, then Truncate to the size the manifest gives.
OpenDest(x) ==
    /\ RecvMove(x, "opening", AfterChunks(x, 0))
    /\ inbox' = [inbox EXCEPT ![dest[x]] = [of |-> x, data |-> Holes(Len(manifest[x]))]]
    /\ UNCHANGED <<file, senderVars, exchange, rcvErr, inRow, tried, dest, got>>

ChunkAt(x) == rcv[x] = "receiving" /\ got[x] < Len(sent[x])

ReceiveChunk(x) ==
    LET n == got[x] + 1 IN
    /\ ChunkAt(x) /\ sent[x][n] = manifest[x][n]
    /\ inbox' = [inbox EXCEPT ![dest[x]].data[n] = sent[x][n]]
    /\ got' = [got EXCEPT ![x] = n]
    /\ rcv' = [rcv EXCEPT ![x] = AfterChunks(x, n)]
    /\ UNCHANGED <<file, senderVars, exchange, rcvErr, inRow, tried, dest>>

HashMismatch(x) ==
    /\ ChunkAt(x) /\ sent[x][got[x] + 1] # manifest[x][got[x] + 1]
    /\ ReceiveEnds(x, "closing", "failed")
    /\ UNCHANGED <<file, senderVars, exchange, inRow, tried, dest, got, inbox>>

VerifyWhole(x) ==
    /\ rcv[x] = "verifying"
    /\ ReceiveEnds(x, "closing",
                   IF inbox[dest[x]].data = manifest[x] THEN "done" ELSE "failed")
    /\ UNCHANGED <<file, senderVars, exchange, inRow, tried, dest, got, inbox>>

\* A deadline, a connection that is closed or reset, a full or failing disk.
ReceiveFails(x) ==
    /\ rcv[x] \in {"connected", "replying", "opening", "receiving", "verifying"}
    /\ ReceiveEnds(x, "closing", "failed")
    /\ UNCHANGED <<file, senderVars, exchange, inRow, tried, dest, got, inbox>>

\* Slip: a failed receive is recorded and nothing is removed
FinishUncleaned(x) ==
    /\ RecvMove(x, "closing", "ended")
    /\ \E row \in Finished(inRow[x], rcvErr[x]) : inRow' = [inRow EXCEPT ![x] = row]
    /\ UNCHANGED <<file, senderVars, exchange, rcvErr, tried, dest, got, inbox>>

FinishReceive(x) ==
    /\ RecvMove(x, "closing",
                IF rcvErr[x] # "done" /\ dest[x] # NoPath THEN "removing" ELSE "ended")
    /\ \E row \in Finished(inRow[x], rcvErr[x]) : inRow' = [inRow EXCEPT ![x] = row]
    /\ UNCHANGED <<file, senderVars, exchange, rcvErr, tried, dest, got, inbox>>

RemovePartial(x) ==
    /\ \/ /\ RecvMove(x, "removing", "ended")
          /\ inbox' = [inbox EXCEPT ![dest[x]] = NoFile]
       \/ /\ RecvMove(x, "removing", "leftover")
          /\ UNCHANGED inbox
    /\ UNCHANGED <<file, senderVars, exchange, rcvErr, inRow, tried, dest, got>>

ReceiverRestarts ==
    /\ rcv' = Killed(rcv, "none")
    /\ inRow' \in Reconciled(inRow)
    /\ UNCHANGED <<file, senderVars, exchange, rcvErr, tried, dest, got, inbox>>

Receiver(x) ==
    \/ ManifestInvalid(x) \/ ReadManifest(x) \/ CheckRefuses(x) \/ CheckAccepts(x)
    \/ NameTaken(x) \/ Reserve(x) \/ ReserveFails(x) \/ Decline(x) \/ Accept(x)
    \/ OpenDest(x) \/ ReceiveChunk(x) \/ HashMismatch(x) \/ VerifyWhole(x)
    \/ ReceiveFails(x) \/ FinishReceive(x) \/ RemovePartial(x)

-----------------------------------------------------------------------------
(* Outside the two processes                                                *)

\* The people who use the node move and delete what no receive is busy with.
UserTakes(p) ==
    /\ inbox[p] # NoFile /\ rcv[inbox[p].of] \in Over
    /\ inbox' = [inbox EXCEPT ![p] = NoFile]
    /\ UNCHANGED <<file, senderVars, exchange, rcv, rcvErr, inRow, tried, dest, got>>

BlobNext ==
    \/ \E x \in Transfer :
        EditFile(x) \/ Sender(x) \/ HelloArrives(x) \/ Receiver(x)
    \/ SenderRestarts \/ ReceiverRestarts
    \/ \E p \in Path : UserTakes(p)

BlobSpec == BlobInit /\ [][BlobNext]_blobVars

\* Every read and write of a connection has a deadline, so each end goes on:
\* what it waits for arrives, or it fails.  Nothing else is taken for fair.
FairBlobSpec ==
    BlobSpec /\ \A x \in Transfer : WF_blobVars(Sender(x)) /\ WF_blobVars(Receiver(x))

-----------------------------------------------------------------------------
(* Properties                                                               *)

\* This receive may still write to its inbox file, or remove it.
Owns(x) ==
    \/ rcv[x] \in Writing
    \/ rcv[x] = "closing" /\ dest[x] # NoPath

\* OneWriter: no two receives ever work on the same inbox file at once, not even
\* when they were offered the same name at the same time (reserveInboxFile).
OneWriter ==
    \A x, y \in Transfer : x # y /\ Owns(x) /\ Owns(y) => dest[x] # dest[y]

\* InboxSound: every file in the inbox belongs to the one receive that reserved
\* its name.  It is whole, chunk for chunk what the manifest announced, once that
\* receive has reported success; and a receive that runs to its end leaves a file
\* behind only then, a failed one having removed its partial.
InboxSound ==
    \A p \in Path : inbox[p] # NoFile =>
        LET x == inbox[p].of IN
        /\ dest[x] = p
        /\ rcvErr[x] = "done" => inbox[p].data = manifest[x]
        /\ rcv[x] = "ended" => rcvErr[x] = "done"

\* What makes InboxSound inductive.  Held: a receive that may still write to its
\* file has that file.  Ordered: the two ends of a transfer and what has passed
\* between them.
Held == \A x \in Transfer : Owns(x) => inbox[dest[x]].of = x

Before == {"picked", "dialing", "offering"}

SendOrdered(x) ==
    /\ snd[x] = "picked" => rcv[x] = "none"
    /\ snd[x] \in Before => exchange[x] = "quiet"
    /\ snd[x] \in Before \cup {"waiting"} => sent[x] = <<>>
    /\ snd[x] = "sending" => exchange[x] = "accept" /\ Len(sent[x]) < Len(manifest[x])
    /\ snd[x] = "closing" => sndErr[x] # "none"
    /\ sndErr[x] # "none" => snd[x] \in {"closing"} \cup Over
    /\ sent[x] # <<>> => exchange[x] = "accept"
    /\ sent[x] # <<>> /\ Len(sent[x]) = Len(manifest[x]) => sndErr[x] = "done"
    /\ sndErr[x] = "refused" => exchange[x] = "refuse"
    /\ outRow[x] \in {"failed", "refused"} => sndErr[x] = outRow[x]

ReceiveOrdered(x) ==
    /\ rcv[x] \in {"none", "connected"} => exchange[x] \in {"quiet", "offered"}
    /\ rcv[x] \in {"deciding", "reserving"} => Len(manifest[x]) <= MaxChunks
    /\ rcv[x] \in {"deciding", "reserving", "declining", "replying"} =>
            exchange[x] = "offered"
    /\ exchange[x] = "accept" => dest[x] # NoPath
    /\ exchange[x] = "refuse" => dest[x] = NoPath /\ rcv[x] \in {"closing"} \cup Over
    /\ dest[x] # NoPath =>
            rcv[x] \in Writing \cup {"closing"} \cup Over /\ Len(manifest[x]) <= MaxChunks
    /\ rcv[x] = "receiving" => got[x] < Len(manifest[x])
    /\ rcv[x] = "opening" => got[x] = 0
    /\ rcv[x] = "verifying" \/ rcvErr[x] = "done" => got[x] = Len(manifest[x])
    /\ rcvErr[x] # "none" => rcv[x] \in {"declining", "closing", "removing"} \cup Over
    /\ rcvErr[x] = "done" => rcv[x] \in {"closing", "ended", "dead"}
    /\ rcvErr[x] = "refused" => dest[x] = NoPath
    /\ inRow[x] = "done" => rcvErr[x] = "done"

Ordered == \A x \in Transfer : SendOrdered(x) /\ ReceiveOrdered(x)

IInv == TypeOK /\ Held /\ Ordered /\ InboxSound

\* What makes DeliversWhole inductive.  Answered: what each end has read of the
\* other when it reports, and that no row is settled before its end is over.
ReportOrdered(x) ==
    /\ file[x] \in Versions[x] /\ manifest[x] \in Versions[x]
    /\ sndErr[x] = "done" => exchange[x] = "accept"
    /\ rcv[x] = "declining" \/ exchange[x] = "refuse" => rcvErr[x] \in {"failed", "refused"}
    /\ rcv[x] \in {"opening", "receiving", "verifying"} \/ rcvErr[x] = "done" =>
            exchange[x] = "accept"
    /\ rcvErr[x] = "refused" => exchange[x] # "quiet"
    /\ rcv[x] = "closing" => rcvErr[x] # "none"
    /\ snd[x] \in {"picked", "dialing"} => outRow[x] = "none"
    /\ snd[x] \notin Over => outRow[x] \in {"none", "in_progress"}
    /\ rcv[x] \in {"none", "connected"} => inRow[x] = "none"
    /\ rcv[x] \notin {"removing"} \cup Over => inRow[x] \in {"none", "in_progress"}

Answered == \A x \in Transfer : ReportOrdered(x)

\* What the two ends announce and report, and the inbox without the files that are
\* still being received or are left of a failure.
Announced == [x \in Transfer |-> IF exchange[x] = "quiet" THEN {} ELSE {manifest[x]}]

Received ==
    [p \in Path |->
        IF inbox[p] # NoFile /\ rcvErr[inbox[p].of] = "done" THEN inbox[p] ELSE NoFile]

Delivery == INSTANCE BlobDelivery WITH announced <- Announced, kept <- Received

\* DeliversWhole: for the people at its ends a transfer is one that delivers a file
\* in a single step, as the version that was hashed, or does not deliver it at all;
\* a mixture of two versions, or of two transfers, never turns up.
DeliversWhole == Delivery!DeliverySpec

\* KeptIntact: a received file stays as it is until somebody takes it: no later
\* receive, and no failing one that cleans up, overwrites or removes it.
KeptIntact ==
    [][\A p \in Path :
         inbox[p] # NoFile /\ rcv[inbox[p].of] = "ended" =>
            inbox'[p] = inbox[p] \/ (inbox'[p] = NoFile /\ rcv' = rcv)]_blobVars

\* NoChunkOnRefusal: a refusal, as either end tells it, comes before any chunk is
\* sent and leaves nothing in the inbox.
NoChunkOnRefusal ==
    \A x \in Transfer : "refused" \in {sndErr[x], rcvErr[x]} =>
        /\ sent[x] = <<>>
        /\ \A p \in Path : inbox[p].of # x

\* StoredMeansSent: when the receiver's history says that a file with anything in
\* it has arrived, the sender's never says that sending it failed or was refused.
\* (An empty file may: it is complete before the sender has read the verdict.)
StoredMeansSent ==
    \A x \in Transfer :
        inRow[x] = "done" /\ manifest[x] # <<>> => outRow[x] \notin {"failed", "refused"}

\* TransfersEnd: once a transfer has begun both of its ends finish, whatever the
\* network loses and whichever process dies: no goroutine hangs on a connection.
TransfersEnd ==
    \A x \in Transfer :
        /\ snd[x] # "picked" ~> snd[x] \in Over
        /\ rcv[x] # "none" ~> rcv[x] \in Over

\* How far an end still has to go: its stage, the chunks it has not dealt with and the
\* names it has not tried.
SendStagesLeft(stage) ==
    CASE stage = "dialing"  -> 5
      [] stage = "offering" -> 4
      [] stage = "waiting"  -> 3
      [] stage = "sending"  -> 2
      [] stage = "closing"  -> 1
      [] OTHER              -> 0

ReceiveStagesLeft(stage) ==
    CASE stage = "connected" -> 9
      [] stage = "deciding"  -> 8
      [] stage = "reserving" -> 7
      [] stage = "replying"  -> 6
      [] stage = "opening"   -> 5
      [] stage = "receiving" -> 4
      [] stage \in {"declining", "verifying"} -> 3
      [] stage = "closing"   -> 2
      [] stage = "removing"  -> 1
      [] OTHER               -> 0

SendLeft(x) == SendStagesLeft(snd[x]) + (Len(manifest[x]) - Len(sent[x]))

ReceiveLeft(x) ==
    ReceiveStagesLeft(rcv[x]) + (Len(manifest[x]) - got[x]) + (Len(Candidates[x]) - tried[x])

\* EndsGoOn: an end that is under way comes closer to its end with each step of its
\* own, and no step of the other end, of another transfer, of a user or of somebody
\* who edits the file puts it back: it cannot go round in circles (blob.Send,
\* blob.Receive, reserveInboxFile).
EndsGoOn ==
    [][\A x \in Transfer :
         /\ SendLeft(x) \in Nat /\ ReceiveLeft(x) \in Nat
         /\ snd[x] # "picked" =>
                /\ snd'[x] # "picked" /\ SendLeft(x)' <= SendLeft(x)
                /\ Sender(x) => SendLeft(x)' < SendLeft(x)
         /\ rcv[x] # "none" =>
                /\ rcv'[x] # "none" /\ ReceiveLeft(x)' <= ReceiveLeft(x)
                /\ Receiver(x) => ReceiveLeft(x)' < ReceiveLeft(x)]_blobVars

\* ConfirmedMeansStored: what RecordStart says of sha256, that it means confirmed
\* and not claimed: when the receive is over and the sender's row is done, the only
\* status that keeps a hash, the receiver has verified the file against it.
ConfirmedMeansStored ==
    \A x \in Transfer : outRow[x] = "done" /\ rcv[x] \in Over => rcvErr[x] = "done"
=============================================================================
