-------------------------- MODULE BlobTransfer_proofs --------------------------
(* Both ends of a transfer and the inbox, for any transfers and files. *)
EXTENDS BlobTransfer, SequenceTheorems, TLAPS

-----------------------------------------------------------------------------
(* Sequences of chunks                                                      *)

LEMMA HolesType == \A n \in Nat : Holes(n) \in Seq(Data \cup {Hole})
  BY DEF Holes

LEMMA WriteType ==
  ASSUME NEW S, NEW s \in Seq(S), NEW v \in S, NEW n \in Nat
  PROVE  [s EXCEPT ![n] = v] \in Seq(S)
<1>1. s \in [1 .. Len(s) -> S] /\ Len(s) \in Nat
      BY LenProperties
<1>2. [s EXCEPT ![n] = v] \in [1 .. Len(s) -> S]
      BY <1>1
<1> QED BY <1>1, <1>2, SeqDef

LEMMA NoFileShape ==
  /\ NoFile.of = NoPath /\ NoFile \notin Stored
  /\ \A s \in Stored : s.of \in Transfer
  BY BlobAssumption DEF NoFile, Stored

-----------------------------------------------------------------------------
(* Frames                                                                   *)

\* Nothing of another transfer changes, outside the inbox.
Alone(x) ==
    \A y \in Transfer \ {x} :
        /\ manifest'[y] = manifest[y] /\ snd'[y] = snd[y] /\ sndErr'[y] = sndErr[y]
        /\ outRow'[y] = outRow[y] /\ exchange'[y] = exchange[y] /\ sent'[y] = sent[y]
        /\ rcv'[y] = rcv[y] /\ rcvErr'[y] = rcvErr[y] /\ inRow'[y] = inRow[y]
        /\ dest'[y] = dest[y] /\ got'[y] = got[y]

LEMMA AloneOrdered ==
  ASSUME Ordered, NEW x \in Transfer, Alone(x), SendOrdered(x)', ReceiveOrdered(x)'
  PROVE  Ordered'
<1> SUFFICES ASSUME NEW y \in Transfer PROVE SendOrdered(y)' /\ ReceiveOrdered(y)'
    BY DEF Ordered
<1>1. CASE y = x
      BY <1>1
<1>2. CASE y # x
  <2>1. SendOrdered(y) /\ ReceiveOrdered(y)
        BY DEF Ordered
  <2> QED BY <1>2, <2>1 DEF Alone, SendOrdered, ReceiveOrdered, Before, Writing, Over
<1> QED BY <1>1, <1>2

LEMMA Unchanged ==
  ASSUME Ordered, UNCHANGED <<senderVars, exchange, receiverVars>>
  PROVE  Ordered'
<1> SUFFICES ASSUME NEW y \in Transfer PROVE SendOrdered(y)' /\ ReceiveOrdered(y)'
    BY DEF Ordered
<1>1. SendOrdered(y) /\ ReceiveOrdered(y)
      BY DEF Ordered
<1> QED BY <1>1 DEF SendOrdered, ReceiveOrdered, senderVars, receiverVars

\* A step of the sender leaves the inbox alone, and the manifest that any file in it
\* is compared with.
LEMMA SenderKeepsInbox ==
  ASSUME IInv, UNCHANGED receiverVars,
         \A x \in Transfer : rcv[x] # "none" => manifest'[x] = manifest[x]
  PROVE  Held' /\ InboxSound'
<1>1. Held'
      BY DEF IInv, Held, Owns, Writing, receiverVars
<1>2. ASSUME NEW p \in Path, inbox[p] # NoFile
      PROVE  manifest'[inbox[p].of] = manifest[inbox[p].of]
  <2>1. inbox[p].of \in Transfer /\ dest[inbox[p].of] = p
        BY <1>2, NoFileShape DEF IInv, TypeOK, InboxSound
  <2>2. dest[inbox[p].of] # NoPath
        BY <2>1, BlobAssumption
  <2> QED BY <2>1, <2>2 DEF IInv, Ordered, ReceiveOrdered, Writing, Over
<1>3. InboxSound'
      BY <1>2 DEF IInv, InboxSound, receiverVars
<1> QED BY <1>1, <1>3

-----------------------------------------------------------------------------
(* The initial states                                                       *)

LEMMA InvInit == BlobInit => IInv
<1> SUFFICES ASSUME BlobInit PROVE IInv
    OBVIOUS
<1>1. file \in [Transfer -> Seq(Data)] /\ manifest \in [Transfer -> Seq(Data)]
      BY BlobAssumption DEF BlobInit
<1>2. TypeOK
      BY <1>1, BlobAssumption
      DEF BlobInit, TypeOK, SendStage, RecvStage, Writing, Over, Outcome, Row
<1>3. Held /\ InboxSound
      BY DEF BlobInit, Held, InboxSound, Owns, Writing
<1>4. Ordered
      BY <1>1 DEF BlobInit, Ordered, SendOrdered, ReceiveOrdered, Before, Writing, Over
<1> QED BY <1>2, <1>3, <1>4 DEF IInv

-----------------------------------------------------------------------------
(* The sender's steps                                                       *)

LEMMA EditStep == ASSUME IInv, NEW x \in Transfer, EditFile(x) PROVE IInv'
<1>1. file' \in [Transfer -> Seq(Data)]
  <2>1. PICK v \in Versions[x] : file' = [file EXCEPT ![x] = v]
        BY DEF EditFile
  <2>2. v \in Seq(Data)
        BY BlobAssumption
  <2> QED BY <2>1, <2>2 DEF IInv, TypeOK
<1>2. TypeOK'
      BY <1>1 DEF EditFile, IInv, TypeOK, senderVars, receiverVars
<1>3. Held' /\ InboxSound'
      BY SenderKeepsInbox DEF EditFile, senderVars
<1>4. Ordered'
      BY Unchanged DEF EditFile, IInv, senderVars, receiverVars
<1> QED BY <1>2, <1>3, <1>4 DEF IInv

LEMMA ManifestStep == ASSUME IInv, NEW x \in Transfer, ManifestFor(x) PROVE IInv'
<1>1. SendOrdered(x) /\ ReceiveOrdered(x) /\ rcv[x] = "none" /\ sent[x] = <<>>
      BY DEF ManifestFor, SendMove, IInv, Ordered, SendOrdered, Before
<1>2. manifest' \in [Transfer -> Seq(Data)] /\ snd' \in [Transfer -> SendStage]
      BY DEF ManifestFor, SendMove, IInv, TypeOK, SendStage
<1>3. \A y \in Transfer \ {x} : manifest'[y] = manifest[y]
      BY DEF ManifestFor, IInv, TypeOK
<1>4. TypeOK'
  <2>1. \A y \in Transfer :
          /\ tried'[y] <= Len(Candidates[y])
          /\ got'[y] <= Len(sent'[y]) /\ Len(sent'[y]) <= Len(manifest'[y])
          /\ rcv'[y] \in Writing => dest'[y] # NoPath /\ Len(manifest'[y]) <= MaxChunks
        BY <1>1, <1>2, <1>3 DEF ManifestFor, IInv, TypeOK, receiverVars, Writing
  <2> QED BY <1>2, <2>1 DEF ManifestFor, IInv, TypeOK, receiverVars
<1>5. Held' /\ InboxSound'
      BY <1>1, <1>3, SenderKeepsInbox DEF ManifestFor
<1>6. Alone(x)
      BY <1>3 DEF Alone, ManifestFor, SendMove, IInv, TypeOK, receiverVars
<1>7. SendOrdered(x)' /\ ReceiveOrdered(x)'
      BY <1>1, <1>2
      DEF ManifestFor, SendMove, IInv, TypeOK, SendOrdered, ReceiveOrdered, receiverVars,
          Before, Writing, Over
<1> QED BY <1>4, <1>5, <1>6, <1>7, AloneOrdered DEF IInv
\* The sender's steps that change no manifest and no chunk.
LEMMA QuietStep ==
  ASSUME IInv, NEW x \in Transfer,
         DialFails(x) \/ HelloAnswered(x) \/ WriteManifest(x) \/ ReadRefusal(x)
           \/ SendFails(x) \/ FinishSend(x)
  PROVE  IInv'
<1>1. SendOrdered(x) /\ ReceiveOrdered(x)
      BY DEF IInv, Ordered
<1>2. UNCHANGED <<file, manifest, sent, receiverVars>>
      BY DEF DialFails, HelloAnswered, WriteManifest, ReadRefusal, SendFails, FinishSend, SendMove
<1>3. TypeOK'
  <2>1. snd' \in [Transfer -> SendStage] /\ sndErr' \in [Transfer -> Outcome \cup {"none"}]
        BY DEF DialFails, HelloAnswered, WriteManifest, ReadRefusal, SendFails, FinishSend,
               SendMove, SendEnds, IInv, TypeOK, SendStage, Over, Outcome
  <2>2. outRow' \in [Transfer -> Row]
        BY ZenonT(40) DEF DialFails, HelloAnswered, WriteManifest, ReadRefusal, SendFails, FinishSend,
               SendEnds, Started, Finished, IInv, TypeOK, Row, Outcome
  <2>3. exchange' \in [Transfer -> {"quiet", "offered", "accept", "refuse"}]
        BY DEF DialFails, HelloAnswered, WriteManifest, ReadRefusal, SendFails, FinishSend,
               SendEnds, IInv, TypeOK
  <2> QED BY <1>2, <2>1, <2>2, <2>3 DEF IInv, TypeOK, receiverVars
<1>4. Held' /\ InboxSound'
      BY <1>2, SenderKeepsInbox
<1>5. Alone(x)
      BY DEF Alone, DialFails, HelloAnswered, WriteManifest, ReadRefusal, SendFails, FinishSend,
             SendMove, SendEnds, IInv, TypeOK, receiverVars
<1>6. ReceiveOrdered(x)'
  <2>1. CASE WriteManifest(x)
        BY <1>1, <2>1 DEF WriteManifest, SendMove, IInv, TypeOK, SendOrdered, ReceiveOrdered,
                          receiverVars, Before, Writing, Over
  <2>2. CASE exchange' = exchange
        BY <1>1, <1>2, <2>2 DEF ReceiveOrdered, receiverVars
  <2> QED BY <2>1, <2>2 DEF DialFails, HelloAnswered, ReadRefusal, SendFails, FinishSend
<1>7. SendOrdered(x)'
  <2> USE DEF SendOrdered, Before, IInv, TypeOK, receiverVars
  <2>1. CASE DialFails(x)
        BY <1>1, <2>1 DEF DialFails, Over
  <2>2. CASE HelloAnswered(x)
        BY <1>1, <2>2 DEF HelloAnswered, SendMove, Started, Over
  <2>3. CASE WriteManifest(x)
        BY <1>1, <2>3 DEF WriteManifest, SendMove, Over
  <2>4. CASE ReadRefusal(x)
        BY <1>1, <2>4 DEF ReadRefusal, SendEnds, Over
  <2>5. CASE SendFails(x)
        BY <1>1, <2>5 DEF SendFails, SendEnds, Over
  <2>6. CASE FinishSend(x)
        BY <1>1, <2>6 DEF FinishSend, SendMove, Finished, Over
  <2> QED BY <2>1, <2>2, <2>3, <2>4, <2>5, <2>6
<1> QED BY <1>3, <1>4, <1>5, <1>6, <1>7, AloneOrdered DEF IInv

\* The steps that write to the connection what the receiver accepted.
LEMMA ChunkStep ==
  ASSUME IInv, NEW x \in Transfer, NEW chunks \in Seq(Data),
         exchange[x] = "accept", snd[x] \in {"waiting", "sending"},
         \/ chunks = sent[x]
         \/ Len(chunks) = Len(sent[x]) + 1 /\ Len(chunks) <= Len(manifest[x]),
         sent' = [sent EXCEPT ![x] = chunks], SentSoFar(x, chunks),
         UNCHANGED <<file, manifest, outRow, exchange, receiverVars>>
  PROVE  IInv'
<1>1. SendOrdered(x) /\ ReceiveOrdered(x)
      BY DEF IInv, Ordered
<1>2. Len(sent[x]) \in Nat /\ Len(manifest[x]) \in Nat /\ Len(chunks) \in Nat
      BY LenProperties DEF IInv, TypeOK
<1>3. Len(chunks) <= Len(manifest[x]) /\ Len(sent[x]) <= Len(chunks)
      BY <1>2 DEF IInv, TypeOK
<1>4. TypeOK'
  <2>1. snd' \in [Transfer -> SendStage] /\ sndErr' \in [Transfer -> Outcome \cup {"none"}]
        BY DEF SentSoFar, SendEnds, IInv, TypeOK, SendStage, Over, Outcome
  <2>2. sent' \in [Transfer -> Seq(Data)]
        BY DEF IInv, TypeOK
  <2>3. \A y \in Transfer : got'[y] <= Len(sent'[y]) /\ Len(sent'[y]) <= Len(manifest'[y])
    <3>1. got[x] \in Nat /\ got[x] <= Len(sent[x])
          BY DEF IInv, TypeOK
    <3>2. \A y \in Transfer \ {x} : sent'[y] = sent[y]
          BY DEF IInv, TypeOK
    <3> QED BY <1>2, <1>3, <3>1, <3>2 DEF IInv, TypeOK, receiverVars
  <2> QED BY <2>1, <2>2, <2>3 DEF IInv, TypeOK, receiverVars
<1>5. Held' /\ InboxSound'
      BY SenderKeepsInbox
<1>6. Alone(x)
      BY DEF Alone, SentSoFar, SendEnds, IInv, TypeOK, receiverVars
<1>7. ReceiveOrdered(x)'
      BY <1>1 DEF ReceiveOrdered, receiverVars
<1>8. SendOrdered(x)'
  <2>1. sent'[x] = chunks /\ manifest'[x] = manifest[x] /\ exchange'[x] = "accept"
          /\ outRow'[x] = outRow[x] /\ rcv' = rcv
        BY DEF IInv, TypeOK, receiverVars
  <2>2. sndErr[x] = "none" /\ outRow[x] \notin {"failed", "refused"}
        BY <1>1 DEF SendOrdered, Over
  <2>3. CASE Len(chunks) = Len(manifest[x])
    <3>1. snd'[x] = "closing" /\ sndErr'[x] = "done"
          BY <2>3 DEF SentSoFar, SendEnds, IInv, TypeOK
    <3> QED BY <2>1, <2>2, <3>1 DEF SendOrdered, Before
  <2>4. CASE Len(chunks) # Len(manifest[x])
    <3>1. snd'[x] = "sending" /\ sndErr'[x] = "none"
          BY <2>2, <2>4 DEF SentSoFar, IInv, TypeOK
    <3> QED BY <1>2, <1>3, <2>1, <2>2, <2>4, <3>1 DEF SendOrdered, Before
  <2> QED BY <2>3, <2>4
<1> QED BY <1>4, <1>5, <1>6, <1>7, <1>8, AloneOrdered DEF IInv

LEMMA SenderStep == ASSUME IInv, NEW x \in Transfer, Sender(x) PROVE IInv'
<1>1. SendOrdered(x)
      BY DEF IInv, Ordered
<1>2. CASE ReadAcceptance(x)
  <2>1. sent[x] \in Seq(Data) /\ sent' = [sent EXCEPT ![x] = sent[x]]
        BY <1>2 DEF ReadAcceptance, IInv, TypeOK
  <2>2. exchange[x] = "accept" /\ snd[x] \in {"waiting", "sending"}
          /\ UNCHANGED <<file, manifest, outRow, exchange, receiverVars>>
        BY <1>2 DEF ReadAcceptance
  <2>3. SentSoFar(x, sent[x])
        BY <1>1, <1>2 DEF ReadAcceptance, SendOrdered
  <2> QED BY <2>1, <2>2, <2>3, ChunkStep
<1>3. CASE SendChunk(x)
  <2>1. exchange[x] = "accept" /\ Len(sent[x]) < Len(manifest[x])
        BY <1>1, <1>3 DEF SendChunk, SendOrdered
  <2>2. PICK v \in Data : sent' = [sent EXCEPT ![x] = Append(sent[x], v)]
    <3>1. Len(sent[x]) + 1 \in 1 .. Len(file[x]) /\ file[x] \in Seq(Data)
          BY <1>3, LenProperties DEF SendChunk, IInv, TypeOK
    <3>2. file[x][Len(sent[x]) + 1] \in Data
          BY <3>1, ElementOfSeq
    <3> QED BY <1>3, <3>2 DEF SendChunk
  <2> DEFINE chunks == Append(sent[x], v)
  <2>3. chunks \in Seq(Data) /\ Len(chunks) = Len(sent[x]) + 1
        BY AppendProperties DEF IInv, TypeOK
  <2>4. sent'[x] = chunks
        BY <2>2 DEF IInv, TypeOK
  <2>5. Len(chunks) <= Len(manifest[x])
        BY <2>1, <2>3, LenProperties DEF IInv, TypeOK
  <2>6. SentSoFar(x, chunks) /\ snd[x] = "sending"
          /\ UNCHANGED <<file, manifest, outRow, exchange, receiverVars>>
        BY <1>3, <2>4 DEF SendChunk
  <2> HIDE DEF chunks
  <2> QED BY <2>1, <2>2, <2>3, <2>5, <2>6, ChunkStep DEF chunks
<1> QED BY <1>2, <1>3, ManifestStep, QuietStep DEF Sender
-----------------------------------------------------------------------------
(* The receiver's steps                                                     *)

\* What the types and the orders say of the other end of a receiver's step.
LEMMA SendStays ==
  ASSUME Ordered, NEW x \in Transfer, UNCHANGED <<senderVars, exchange>>,
         snd[x] = "picked" => rcv'[x] = "none"
  PROVE  SendOrdered(x)'
<1>1. SendOrdered(x)
      BY DEF Ordered
<1> QED BY <1>1 DEF SendOrdered, senderVars

\* A step of the receiver that leaves the inbox alone.
LEMMA FilesStay ==
  ASSUME IInv, NEW x \in Transfer, UNCHANGED <<dest, inbox, manifest>>,
         rcv' = [rcv EXCEPT ![x] = rcv'[x]], rcvErr' = [rcvErr EXCEPT ![x] = rcvErr'[x]],
         Owns(x)' => Owns(x),
         rcv'[x] = "ended" => rcvErr'[x] = "done" \/ dest[x] = NoPath,
         rcvErr'[x] = "done" /\ dest[x] # NoPath => inbox[dest[x]].data = manifest[x]
  PROVE  Held' /\ InboxSound'
<1>1. ASSUME NEW y \in Transfer, y # x PROVE rcv'[y] = rcv[y] /\ rcvErr'[y] = rcvErr[y]
      BY <1>1 DEF IInv, TypeOK
<1>2. ASSUME NEW y \in Transfer, Owns(y)' PROVE Owns(y)
      BY <1>1, <1>2 DEF Owns, Writing
<1>3. Held'
      BY <1>2 DEF Held, IInv
<1>4. ASSUME NEW p \in Path, inbox[p] # NoFile
      PROVE  inbox[p].of \in Transfer /\ dest[inbox[p].of] = p /\ p # NoPath
      BY <1>4, NoFileShape, BlobAssumption DEF IInv, TypeOK, InboxSound
<1>5. InboxSound'
      BY <1>1, <1>4 DEF IInv, InboxSound
<1> QED BY <1>3, <1>5

LEMMA RowStarted == Started \subseteq Row /\ "done" \notin Started
  BY DEF Started, Row, Outcome

LEMMA OfferStep ==
  ASSUME IInv, NEW x \in Transfer,
         HelloArrives(x) \/ ManifestInvalid(x) \/ ReadManifest(x) \/ CheckRefuses(x)
           \/ CheckAccepts(x) \/ NameTaken(x) \/ ReserveFails(x) \/ Decline(x)
  PROVE  IInv'
<1> USE DEF HelloArrives, ManifestInvalid, ReadManifest, CheckRefuses, CheckAccepts, NameTaken,
            ReserveFails, Decline, RecvMove, ReceiveEnds, OfferAt, MayTry
<1>1. SendOrdered(x) /\ ReceiveOrdered(x)
      BY DEF IInv, Ordered
<1>2. dest[x] = NoPath /\ rcvErr[x] # "done" /\ inRow[x] # "done"
      BY <1>1 DEF ReceiveOrdered, Writing, Over
<1>3. UNCHANGED <<file, senderVars, dest, got, inbox>>
      OBVIOUS
<1>4. TypeOK'
  <2>1. rcv' \in [Transfer -> RecvStage] /\ rcvErr' \in [Transfer -> Outcome \cup {"none"}]
        BY DEF IInv, TypeOK, RecvStage, Outcome
  <2>2. inRow' \in [Transfer -> Row]
        BY RowStarted DEF IInv, TypeOK
  <2>3. exchange' \in [Transfer -> {"quiet", "offered", "accept", "refuse"}]
        BY DEF IInv, TypeOK
  <2>4. tried' \in [Transfer -> Nat] /\ \A y \in Transfer : tried'[y] <= Len(Candidates[y])
    <3>1. \A y \in Transfer : Len(Candidates[y]) \in Nat
          BY BlobAssumption, LenProperties
    <3>2. CASE UNCHANGED tried
          BY <3>2 DEF IInv, TypeOK
    <3>3. CASE NameTaken(x)
          BY <3>1, <3>3 DEF IInv, TypeOK
    <3> QED BY <3>2, <3>3
  <2>5. \A y \in Transfer : rcv'[y] \in Writing => rcv[y] \in Writing
        BY DEF IInv, TypeOK, Writing
  <2> QED BY <1>3, <2>1, <2>2, <2>3, <2>4, <2>5 DEF IInv, TypeOK, senderVars
<1>5. Alone(x)
      BY <1>3 DEF Alone, IInv, TypeOK, senderVars
<1>6. Held' /\ InboxSound'
  <2>1. rcv' = [rcv EXCEPT ![x] = rcv'[x]] /\ rcvErr' = [rcvErr EXCEPT ![x] = rcvErr'[x]]
        BY DEF IInv, TypeOK
  <2>2. rcv'[x] \notin Writing \cup {"ended"} /\ rcvErr'[x] # "done"
        BY <1>2 DEF IInv, TypeOK, Writing
  <2> QED BY <1>2, <1>3, <2>1, <2>2, FilesStay DEF senderVars, Owns, Writing
<1>7. SendOrdered(x)'
  <2>1. CASE Decline(x)
        BY <1>1, <1>3, <2>1 DEF senderVars, SendOrdered, ReceiveOrdered, IInv, TypeOK, Before
  <2>2. CASE ~Decline(x)
    <3>1. exchange' = exchange /\ (snd[x] = "picked" => rcv'[x] = "none")
          BY <1>1, <2>2 DEF SendOrdered
    <3> QED BY <1>3, <3>1, SendStays DEF IInv
  <2> QED BY <2>1, <2>2
<1>8. ReceiveOrdered(x)'
  <2> USE DEF ReceiveOrdered, IInv, TypeOK, Writing, Over, senderVars
  <2>1. CASE HelloArrives(x)
        BY <1>1, <1>2, <1>3, <2>1
  <2>2. CASE ManifestInvalid(x)
        BY <1>1, <1>2, <1>3, <2>2
  <2>3. CASE ReadManifest(x)
        BY <1>1, <1>2, <1>3, <2>3, RowStarted
  <2>4. CASE CheckRefuses(x)
        BY <1>1, <1>2, <1>3, <2>4
  <2>5. CASE CheckAccepts(x)
        BY <1>1, <1>2, <1>3, <2>5
  <2>6. CASE NameTaken(x)
        BY <1>1, <1>2, <1>3, <2>6
  <2>7. CASE ReserveFails(x)
        BY <1>1, <1>2, <1>3, <2>7
  <2>8. CASE Decline(x)
        BY <1>1, <1>2, <1>3, <2>8
  <2> QED BY <2>1, <2>2, <2>3, <2>4, <2>5, <2>6, <2>7, <2>8
<1> QED BY <1>4, <1>5, <1>6, <1>7, <1>8, AloneOrdered DEF IInv
\* A receive that may still write to its file has it for itself.
LEMMA OwnFile ==
  ASSUME IInv, NEW x \in Transfer, Owns(x)
  PROVE  /\ dest[x] \in Path /\ dest[x] # NoPath
         /\ inbox[dest[x]] \in Stored /\ inbox[dest[x]] # NoFile /\ inbox[dest[x]].of = x
         /\ \A y \in Transfer \ {x} : Owns(y) => dest[y] # dest[x]
<1>1. dest[x] \in Path /\ dest[x] # NoPath
      BY DEF IInv, TypeOK, Owns
<1>2. inbox[dest[x]].of = x
      BY DEF IInv, Held
<1>3. inbox[dest[x]] # NoFile
      BY <1>2, NoFileShape, BlobAssumption
<1>4. inbox[dest[x]] \in Stored
      BY <1>1, <1>3 DEF IInv, TypeOK
<1>5. \A y \in Transfer \ {x} : Owns(y) => dest[y] # dest[x]
      BY <1>2 DEF IInv, Held
<1> QED BY <1>1, <1>2, <1>3, <1>4, <1>5

LEMMA ReserveStep == ASSUME IInv, NEW x \in Transfer, Reserve(x) PROVE IInv'
<1> DEFINE c == Candidate(x)
<1>1. SendOrdered(x) /\ ReceiveOrdered(x) /\ dest[x] = NoPath /\ rcvErr[x] # "done"
      BY DEF Reserve, MayTry, IInv, Ordered, ReceiveOrdered, Writing, Over
<1>2. c \in Path /\ c # NoPath
  <2>1. Candidates[x] \in Seq(Path) /\ tried[x] + 1 \in 1 .. Len(Candidates[x])
    <3>1. Candidates[x] \in Seq(Path)
          BY BlobAssumption
    <3>2. Len(Candidates[x]) \in Nat
          BY <3>1, LenProperties
    <3>3. tried[x] \in Nat /\ tried[x] < Len(Candidates[x])
          BY DEF Reserve, MayTry, IInv, TypeOK
    <3> QED BY <3>1, <3>2, <3>3
  <2>2. Candidates[x][tried[x] + 1] \in Path
        BY <2>1, ElementOfSeq
  <2> QED BY <2>2, BlobAssumption DEF Candidate
<1> HIDE DEF c
<1>3. /\ inbox[c] = NoFile
      /\ inbox' = [inbox EXCEPT ![c] = [of |-> x, data |-> <<>>]]
      /\ dest' = [dest EXCEPT ![x] = c] /\ rcv' = [rcv EXCEPT ![x] = "replying"]
      /\ UNCHANGED <<file, senderVars, exchange, rcvErr, inRow, tried, got>>
      BY DEF Reserve, c
<1>4. TypeOK'
  <2>1. [of |-> x, data |-> <<>>] \in Stored
        BY EmptySeq DEF Stored
  <2>2. inbox' \in [Path -> Stored \cup {NoFile}] /\ dest' \in [Transfer -> Path \cup {NoPath}]
        BY <1>2, <1>3, <2>1 DEF IInv, TypeOK
  <2>3. rcv' \in [Transfer -> RecvStage]
        BY <1>3 DEF IInv, TypeOK, RecvStage, Writing
  <2>4. \A y \in Transfer : rcv'[y] \in Writing => dest'[y] # NoPath /\ Len(manifest[y]) <= MaxChunks
    <3>1. Len(manifest[x]) <= MaxChunks
          BY <1>1 DEF Reserve, MayTry, ReceiveOrdered
    <3> QED BY <1>2, <1>3, <3>1 DEF IInv, TypeOK
  <2> QED BY <1>3, <2>2, <2>3, <2>4 DEF IInv, TypeOK, senderVars
<1>5. Alone(x)
      BY <1>3 DEF Alone, IInv, TypeOK, senderVars
<1>6. Held'
  <2>1. ASSUME NEW y \in Transfer, y # x, Owns(y)' PROVE inbox'[dest'[y]].of = y
    <3>1. Owns(y) /\ dest'[y] = dest[y]
          BY <1>3, <2>1 DEF Owns, IInv, TypeOK, Writing
    <3>2. dest[y] # c /\ dest[y] \in Path /\ inbox[dest[y]].of = y
          BY <1>3, <3>1, OwnFile
    <3> QED BY <1>3, <3>1, <3>2 DEF IInv, TypeOK
  <2>2. inbox'[dest'[x]].of = x
        BY <1>2, <1>3 DEF IInv, TypeOK
  <2> QED BY <2>1, <2>2 DEF Held
<1>7. InboxSound'
  <2> SUFFICES ASSUME NEW p \in Path, inbox'[p] # NoFile
               PROVE  LET y == inbox'[p].of IN
                      /\ dest'[y] = p
                      /\ rcvErr'[y] = "done" => inbox'[p].data = manifest'[y]
                      /\ rcv'[y] = "ended" => rcvErr'[y] = "done"
      BY DEF InboxSound
  <2>1. CASE p = c
    <3>1. inbox'[p].of = x
          BY <1>3, <2>1 DEF IInv, TypeOK
    <3> QED BY <1>1, <1>3, <2>1, <3>1 DEF IInv, TypeOK
  <2>2. CASE p # c
    <3>1. inbox'[p] = inbox[p]
          BY <1>3, <2>2 DEF IInv, TypeOK
    <3>2. inbox[p].of \in Transfer \ {x}
          BY <1>1, <3>1, NoFileShape, BlobAssumption DEF IInv, TypeOK, InboxSound
    <3> QED BY <1>3, <3>1, <3>2 DEF IInv, TypeOK, InboxSound, senderVars
  <2> QED BY <2>1, <2>2
<1>8. SendOrdered(x)'
      BY <1>1, <1>3, SendStays DEF Reserve, MayTry, IInv, SendOrdered
<1>9. ReceiveOrdered(x)'
      BY <1>1, <1>2, <1>3
      DEF Reserve, MayTry, IInv, TypeOK, ReceiveOrdered, Writing, Over, senderVars
<1> QED BY <1>4, <1>5, <1>6, <1>7, <1>8, <1>9, AloneOrdered DEF IInv

\* A receive writes to its own file, or removes it.
LEMMA Rewritten ==
  ASSUME IInv, NEW x \in Transfer, Owns(x), NEW f \in Stored \cup {NoFile},
         f # NoFile => f.of = x, inbox' = [inbox EXCEPT ![dest[x]] = f],
         rcv' = [rcv EXCEPT ![x] = rcv'[x]], f = NoFile => ~Owns(x)',
         rcv'[x] = "ended" => f = NoFile,
         rcvErr[x] # "done", UNCHANGED <<rcvErr, dest, manifest>>
  PROVE  inbox' \in [Path -> Stored \cup {NoFile}] /\ Held' /\ InboxSound'
<1>1. /\ dest[x] \in Path
      /\ \A y \in Transfer \ {x} : Owns(y) => dest[y] # dest[x]
      BY OwnFile
<1>2. inbox' \in [Path -> Stored \cup {NoFile}] /\ inbox'[dest[x]] = f
      BY <1>1 DEF IInv, TypeOK
<1>3. \A p \in Path \ {dest[x]} : inbox'[p] = inbox[p]
      BY <1>1 DEF IInv, TypeOK
<1>4. \A y \in Transfer \ {x} : rcv'[y] = rcv[y]
      BY DEF IInv, TypeOK
<1>5. Held'
  <2>1. ASSUME NEW y \in Transfer, y # x, Owns(y)' PROVE inbox'[dest'[y]].of = y
    <3>1. Owns(y)
          BY <1>4, <2>1 DEF Owns
    <3>2. dest[y] # dest[x] /\ dest[y] \in Path /\ inbox[dest[y]].of = y
          BY <1>1, <2>1, <3>1, OwnFile
    <3> QED BY <1>3, <3>2
  <2>2. Owns(x)' => inbox'[dest'[x]].of = x
        BY <1>2
  <2> QED BY <2>1, <2>2 DEF Held
<1>6. InboxSound'
  <2> SUFFICES ASSUME NEW p \in Path, inbox'[p] # NoFile
               PROVE  LET y == inbox'[p].of IN
                      /\ dest'[y] = p
                      /\ rcvErr'[y] = "done" => inbox'[p].data = manifest'[y]
                      /\ rcv'[y] = "ended" => rcvErr'[y] = "done"
      BY DEF InboxSound
  <2>1. CASE p = dest[x]
        BY <1>2, <2>1
  <2>2. CASE p # dest[x]
    <3>1. inbox'[p] = inbox[p]
          BY <1>3, <2>2
    <3>2. inbox[p].of \in Transfer \ {x}
          BY <2>2, <3>1, NoFileShape DEF IInv, TypeOK, InboxSound
    <3> QED BY <1>4, <3>1, <3>2 DEF IInv, InboxSound
  <2> QED BY <2>1, <2>2
<1> QED BY <1>2, <1>5, <1>6
\* The steps that write chunks to the reserved file.
LEMMA WriteStep ==
  ASSUME IInv, NEW x \in Transfer, OpenDest(x) \/ ReceiveChunk(x)
  PROVE  IInv'
<1>1. SendOrdered(x) /\ ReceiveOrdered(x)
      BY DEF IInv, Ordered
<1>2. /\ Owns(x) /\ rcv[x] \in {"opening", "receiving"} /\ rcvErr[x] # "done"
      /\ UNCHANGED <<file, senderVars, exchange, rcvErr, inRow, tried, dest>>
  <2>1. rcv[x] \in {"opening", "receiving"}
        BY DEF OpenDest, ReceiveChunk, RecvMove, ChunkAt
  <2> QED BY <1>1, <2>1 DEF OpenDest, ReceiveChunk, Owns, Writing, Over, ReceiveOrdered
<1>3. dest[x] \in Path /\ inbox[dest[x]] \in Stored /\ inbox[dest[x]].of = x
      BY <1>2, OwnFile
<1>4. Len(manifest[x]) \in Nat /\ got[x] \in Nat /\ Len(sent[x]) \in Nat
        /\ Len(sent[x]) <= Len(manifest[x])
      BY LenProperties DEF IInv, TypeOK
<1>5. PICK n \in Nat :
        /\ got' = [got EXCEPT ![x] = n] /\ n <= Len(sent[x])
        /\ rcv' = [rcv EXCEPT ![x] = AfterChunks(x, n)]
        /\ rcv[x] = "opening" => n = 0
  <2>1. CASE OpenDest(x)
    <3>1. got[x] = 0
          BY <1>1, <2>1 DEF OpenDest, RecvMove, ReceiveOrdered
    <3>2. got' = [got EXCEPT ![x] = 0]
          BY <2>1, <3>1 DEF OpenDest, IInv, TypeOK
    <3>3. 0 \in Nat /\ 0 <= Len(sent[x])
          BY <1>4
    <3>4. rcv' = [rcv EXCEPT ![x] = AfterChunks(x, 0)]
          BY <2>1 DEF OpenDest, RecvMove
    <3> HIDE DEF AfterChunks
    <3> QED BY <3>2, <3>3, <3>4
  <2>2. CASE ReceiveChunk(x)
    <3> DEFINE k == got[x] + 1
    <3>1. k \in Nat /\ k <= Len(sent[x])
          BY <1>4, <2>2 DEF ReceiveChunk, ChunkAt
    <3>2. got' = [got EXCEPT ![x] = k] /\ rcv' = [rcv EXCEPT ![x] = AfterChunks(x, k)]
          BY <2>2 DEF ReceiveChunk
    <3>3. rcv[x] # "opening"
          BY <2>2 DEF ReceiveChunk, ChunkAt
    <3> HIDE DEF k
    <3> QED BY <3>1, <3>2, <3>3
  <2> QED BY <2>1, <2>2
<1>6. PICK f \in Stored : f.of = x /\ inbox' = [inbox EXCEPT ![dest[x]] = f]
  <2>1. CASE OpenDest(x)
    <3>1. [of |-> x, data |-> Holes(Len(manifest[x]))] \in Stored
          BY <1>4, HolesType DEF Stored
    <3> QED BY <2>1, <3>1 DEF OpenDest
  <2>2. CASE ReceiveChunk(x)
    <3> DEFINE k == got[x] + 1
               g == inbox[dest[x]]
               f == [g EXCEPT !.data = [g.data EXCEPT ![k] = sent[x][k]]]
    <3>1. k \in 1 .. Len(sent[x]) /\ k \in Nat
          BY <1>4, <2>2 DEF ReceiveChunk, ChunkAt
    <3>2. sent[x][k] \in Data \cup {Hole}
          BY <3>1, ElementOfSeq DEF IInv, TypeOK
    <3>3. g.data \in Seq(Data \cup {Hole})
          BY <1>3 DEF Stored
    <3>4. [g.data EXCEPT ![k] = sent[x][k]] \in Seq(Data \cup {Hole})
          BY <3>1, <3>2, <3>3, WriteType
    <3>5. f \in Stored /\ f.of = x
          BY <1>3, <3>4 DEF Stored
    <3>6. inbox' = [inbox EXCEPT ![dest[x]] = f]
          BY <1>3, <2>2 DEF ReceiveChunk, IInv, TypeOK
    <3> HIDE DEF f
    <3> QED BY <3>5, <3>6
  <2> QED BY <2>1, <2>2
<1>7. rcv'[x] \in {"verifying", "receiving"} /\ got'[x] = n
        /\ rcv'[x] = AfterChunks(x, n)
      BY <1>5 DEF IInv, TypeOK, AfterChunks
<1>8. inbox' \in [Path -> Stored \cup {NoFile}] /\ Held' /\ InboxSound'
  <2>1. f # NoFile
        BY <1>6, NoFileShape
  <2>2. rcv' = [rcv EXCEPT ![x] = rcv'[x]] /\ rcv'[x] # "ended"
        BY <1>5, <1>7 DEF IInv, TypeOK
  <2> QED BY <1>2, <1>6, <2>1, <2>2, Rewritten DEF senderVars
<1>9. TypeOK'
  <2>1. rcv' \in [Transfer -> RecvStage] /\ got' \in [Transfer -> Nat]
        BY <1>5, <1>7 DEF IInv, TypeOK, RecvStage, Writing
  <2>2. \A y \in Transfer : got'[y] <= Len(sent[y])
        BY <1>5 DEF IInv, TypeOK
  <2>3. \A y \in Transfer : rcv'[y] \in Writing => dest[y] # NoPath /\ Len(manifest[y]) <= MaxChunks
        BY <1>2, <1>5 DEF IInv, TypeOK, Writing
  <2> QED BY <1>2, <1>8, <2>1, <2>2, <2>3 DEF IInv, TypeOK, senderVars
<1>10. Alone(x)
      BY <1>2, <1>5 DEF Alone, IInv, TypeOK, senderVars
<1>11. SendOrdered(x)'
      BY <1>1, <1>2, SendStays DEF IInv, SendOrdered
<1>12. ReceiveOrdered(x)'
  <2>1. n <= Len(manifest[x])
        BY <1>4, <1>5
  <2> QED BY <1>1, <1>2, <1>4, <1>7, <2>1
          DEF ReceiveOrdered, AfterChunks, Writing, Over, senderVars
<1> QED BY <1>8, <1>9, <1>10, <1>11, <1>12, AloneOrdered DEF IInv

\* The steps that end a receive with a verdict on the file or without one.
LEMMA EndStep ==
  ASSUME IInv, NEW x \in Transfer,
         Accept(x) \/ HashMismatch(x) \/ VerifyWhole(x) \/ ReceiveFails(x) \/ FinishReceive(x)
  PROVE  IInv'
<1>1. SendOrdered(x) /\ ReceiveOrdered(x)
      BY DEF IInv, Ordered
<1>2. UNCHANGED <<file, senderVars, tried, dest, got, inbox>> /\ rcv[x] # "none"
      BY DEF Accept, HashMismatch, VerifyWhole, ReceiveFails, FinishReceive, RecvMove, ChunkAt
<1>3. TypeOK'
  <2>1. rcv' \in [Transfer -> RecvStage] /\ rcvErr' \in [Transfer -> Outcome \cup {"none"}]
        BY DEF Accept, HashMismatch, VerifyWhole, ReceiveFails, FinishReceive, RecvMove,
               ReceiveEnds, ChunkAt, IInv, TypeOK, RecvStage, Writing, Over, Outcome
  <2>2. inRow' \in [Transfer -> Row]
        BY ZenonT(40) DEF Accept, HashMismatch, VerifyWhole, ReceiveFails, FinishReceive, Finished,
               IInv, TypeOK, Row, Outcome
  <2>3. exchange' \in [Transfer -> {"quiet", "offered", "accept", "refuse"}]
        BY DEF Accept, HashMismatch, VerifyWhole, ReceiveFails, FinishReceive, IInv, TypeOK
  <2>4. \A y \in Transfer : rcv'[y] \in Writing =>
          dest[y] # NoPath /\ Len(manifest[y]) <= MaxChunks
        BY <1>1 DEF Accept, HashMismatch, VerifyWhole, ReceiveFails, FinishReceive, RecvMove,
               ReceiveEnds, ChunkAt, IInv, TypeOK, Writing, ReceiveOrdered
  <2> QED BY <1>2, <2>1, <2>2, <2>3, <2>4 DEF IInv, TypeOK, senderVars
<1>4. Alone(x)
      BY <1>2 DEF Alone, Accept, HashMismatch, VerifyWhole, ReceiveFails, FinishReceive,
                  RecvMove, ReceiveEnds, IInv, TypeOK, senderVars
<1>5. Held' /\ InboxSound'
  <2>1. rcv' = [rcv EXCEPT ![x] = rcv'[x]] /\ rcvErr' = [rcvErr EXCEPT ![x] = rcvErr'[x]]
        BY DEF Accept, HashMismatch, VerifyWhole, ReceiveFails, FinishReceive, RecvMove,
               ReceiveEnds, IInv, TypeOK
  <2>2. Owns(x)' => Owns(x)
    <3>1. CASE FinishReceive(x)
          BY <1>2, <3>1 DEF FinishReceive, RecvMove, IInv, TypeOK, Owns, Writing
    <3>2. CASE Accept(x)
          BY <3>2 DEF Accept, RecvMove, Owns, Writing
    <3>3. CASE HashMismatch(x) \/ VerifyWhole(x)
          BY <3>3 DEF HashMismatch, VerifyWhole, ChunkAt, Owns, Writing
    <3>4. CASE ReceiveFails(x)
      <4>1. rcv[x] = "connected" => dest[x] = NoPath
            BY <1>1 DEF ReceiveOrdered, Writing, Over
      <4>2. rcv'[x] = "closing" /\ dest' = dest
            BY <3>4 DEF ReceiveFails, ReceiveEnds, IInv, TypeOK
      <4> QED BY <3>4, <4>1, <4>2 DEF ReceiveFails, Owns, Writing
    <3> QED BY <3>1, <3>2, <3>3, <3>4
  <2>3. rcv'[x] = "ended" => rcvErr'[x] = "done" \/ dest[x] = NoPath
        BY DEF Accept, HashMismatch, VerifyWhole, ReceiveFails, FinishReceive,
               RecvMove, ReceiveEnds, IInv, TypeOK
  <2>4. rcvErr'[x] = "done" /\ dest[x] # NoPath => inbox[dest[x]].data = manifest[x]
    <3>1. CASE VerifyWhole(x)
          BY <3>1 DEF VerifyWhole, ReceiveEnds, IInv, TypeOK
    <3>2. CASE rcv[x] = "closing" /\ rcvErr' = rcvErr /\ dest[x] # NoPath
      <4>1. dest[x] \in Path /\ inbox[dest[x]] # NoFile /\ inbox[dest[x]].of = x
            BY <3>2, OwnFile DEF Owns
      <4> QED BY <3>2, <4>1 DEF IInv, InboxSound
    <3>3. CASE Accept(x) \/ HashMismatch(x) \/ ReceiveFails(x)
          BY <1>1, <3>3 DEF Accept, HashMismatch, ReceiveFails, RecvMove, ReceiveEnds,
                 IInv, TypeOK, ReceiveOrdered, Over
    <3> QED BY <3>1, <3>2, <3>3 DEF FinishReceive, RecvMove
  <2> QED BY <1>2, <2>1, <2>2, <2>3, <2>4, FilesStay DEF senderVars
<1>6. SendOrdered(x)'
  <2>1. CASE Accept(x)
        BY <1>1, <1>2, <2>1 DEF Accept, RecvMove, SendOrdered, ReceiveOrdered, IInv, TypeOK,
               Before, senderVars
  <2>2. CASE exchange' = exchange
        BY <1>1, <1>2, <2>2, SendStays DEF IInv, SendOrdered
  <2> QED BY <2>1, <2>2 DEF HashMismatch, VerifyWhole, ReceiveFails, FinishReceive
<1>7. ReceiveOrdered(x)'
  <2> USE DEF ReceiveOrdered, IInv, TypeOK, Writing, Over, senderVars
  <2>1. CASE Accept(x)
    <3>1. rcv[x] = "replying" /\ dest[x] # NoPath /\ rcvErr[x] = "none" /\ inRow[x] # "done"
          BY <1>1, <2>1 DEF Accept, RecvMove
    <3>2. rcv'[x] = "opening" /\ exchange'[x] = "accept"
            /\ UNCHANGED <<manifest, rcvErr, inRow, dest, got>>
          BY <2>1 DEF Accept, RecvMove
    <3>3. got[x] = 0
      <4>1. sent[x] = <<>>
            BY <1>1, <3>1 DEF SendOrdered
      <4> QED BY <4>1
    <3> QED BY <1>1, <3>1, <3>2, <3>3
  <2>2. CASE HashMismatch(x)
        BY <1>1, <1>2, <2>2 DEF HashMismatch, ReceiveEnds, ChunkAt
  <2>3. CASE VerifyWhole(x)
        BY <1>1, <1>2, <2>3 DEF VerifyWhole, ReceiveEnds
  <2>4. CASE ReceiveFails(x)
        BY <1>1, <1>2, <2>4 DEF ReceiveFails, ReceiveEnds
  <2>5. CASE FinishReceive(x)
        BY <1>1, <1>2, <2>5 DEF FinishReceive, RecvMove, Finished
  <2> QED BY <2>1, <2>2, <2>3, <2>4, <2>5
<1> QED BY <1>3, <1>4, <1>5, <1>6, <1>7, AloneOrdered DEF IInv

LEMMA RemoveStep == ASSUME IInv, NEW x \in Transfer, RemovePartial(x) PROVE IInv'
<1>1. SendOrdered(x) /\ ReceiveOrdered(x)
      BY DEF IInv, Ordered
<1>2. /\ rcv[x] = "removing" /\ Owns(x) /\ rcvErr[x] # "done"
      /\ UNCHANGED <<file, senderVars, exchange, rcvErr, inRow, tried, dest, got>>
  <2>1. rcv[x] = "removing"
        BY DEF RemovePartial, RecvMove
  <2> QED BY <1>1, <2>1 DEF RemovePartial, Owns, Writing, Over, ReceiveOrdered
<1>3. /\ rcv' = [rcv EXCEPT ![x] = rcv'[x]] /\ rcv'[x] \in {"ended", "leftover"}
      /\ ~Owns(x)'
  <2>1. rcv' = [rcv EXCEPT ![x] = rcv'[x]] /\ rcv'[x] \in {"ended", "leftover"}
        BY DEF RemovePartial, RecvMove, IInv, TypeOK
  <2> QED BY <2>1 DEF Owns, Writing
<1>4. inbox' \in [Path -> Stored \cup {NoFile}] /\ Held' /\ InboxSound'
  <2>1. CASE inbox' = [inbox EXCEPT ![dest[x]] = NoFile]
        BY <1>2, <1>3, <2>1, Rewritten DEF senderVars
  <2>2. CASE inbox' = inbox /\ rcv'[x] = "leftover"
    <3>1. rcvErr' = [rcvErr EXCEPT ![x] = rcvErr'[x]]
          BY <1>2 DEF IInv, TypeOK
    <3>2. Held' /\ InboxSound'
          BY <1>2, <1>3, <2>2, <3>1, FilesStay DEF senderVars
    <3> QED BY <2>2, <3>2 DEF IInv, TypeOK
  <2> QED BY <2>1, <2>2 DEF RemovePartial, RecvMove, IInv, TypeOK
<1>5. TypeOK'
  <2>1. rcv' \in [Transfer -> RecvStage]
        BY <1>3 DEF IInv, TypeOK, RecvStage, Over
  <2>2. \A y \in Transfer : rcv'[y] \in Writing => rcv[y] \in Writing
        BY <1>2, <1>3 DEF IInv, TypeOK, Writing
  <2> QED BY <1>2, <1>4, <2>1, <2>2 DEF IInv, TypeOK, senderVars
<1>6. Alone(x)
      BY <1>2, <1>3 DEF Alone, IInv, TypeOK, senderVars
<1>7. SendOrdered(x)'
      BY <1>1, <1>2, SendStays DEF IInv, SendOrdered
<1>8. ReceiveOrdered(x)'
      BY <1>1, <1>2, <1>3 DEF ReceiveOrdered, Writing, Over, senderVars
<1> QED BY <1>4, <1>5, <1>6, <1>7, <1>8, AloneOrdered DEF IInv

LEMMA ReceiverStep ==
  ASSUME IInv, NEW x \in Transfer, HelloArrives(x) \/ Receiver(x)
  PROVE  IInv'
  BY OfferStep, ReserveStep, WriteStep, EndStep, RemoveStep DEF Receiver

-----------------------------------------------------------------------------
(* Restarts and users                                                       *)

LEMMA ReconciledRows ==
  ASSUME NEW rows \in [Transfer -> Row], NEW after \in Reconciled(rows)
  PROVE  /\ after \in [Transfer -> Row]
         /\ \A x \in Transfer : after[x] \in {rows[x], "interrupted"}
  BY DEF Reconciled, ReconcileStaleTransfers, Row, Outcome

LEMMA SenderRestartStep == ASSUME IInv, SenderRestarts PROVE IInv'
<1>1. UNCHANGED <<file, manifest, sndErr, exchange, sent, receiverVars>>
      BY DEF SenderRestarts
<1>2. /\ snd' \in [Transfer -> SendStage]
      /\ \A x \in Transfer :
           \/ snd'[x] = snd[x]
           \/ snd[x] \notin {"picked"} \cup Over /\ snd'[x] = "dead"
      BY DEF SenderRestarts, Killed, IInv, TypeOK, SendStage, Over
<1>3. outRow' \in [Transfer -> Row] /\ \A x \in Transfer : outRow'[x] \in {outRow[x], "interrupted"}
      BY ReconciledRows DEF SenderRestarts, IInv, TypeOK
<1>4. TypeOK'
      BY <1>1, <1>2, <1>3 DEF IInv, TypeOK, receiverVars
<1>5. Held' /\ InboxSound'
      BY <1>1, SenderKeepsInbox
<1>6. ASSUME NEW x \in Transfer PROVE SendOrdered(x)' /\ ReceiveOrdered(x)'
  <2>1. SendOrdered(x) /\ ReceiveOrdered(x)
        BY DEF IInv, Ordered
  <2>2. ReceiveOrdered(x)'
        BY <1>1, <2>1 DEF ReceiveOrdered, receiverVars
  <2>3. SendOrdered(x)'
        BY <1>1, <1>2, <1>3, <2>1 DEF SendOrdered, Before, Over, receiverVars
  <2> QED BY <2>2, <2>3
<1> QED BY <1>4, <1>5, <1>6 DEF IInv, Ordered

LEMMA ReceiverRestartStep == ASSUME IInv, ReceiverRestarts PROVE IInv'
<1>1. UNCHANGED <<file, senderVars, exchange, rcvErr, tried, dest, got, inbox>>
      BY DEF ReceiverRestarts
<1>2. /\ rcv' \in [Transfer -> RecvStage]
      /\ \A x \in Transfer :
           \/ rcv'[x] = rcv[x]
           \/ rcv[x] \notin {"none"} \cup Over /\ rcv'[x] = "dead"
      BY DEF ReceiverRestarts, Killed, IInv, TypeOK, RecvStage, Over
<1>3. inRow' \in [Transfer -> Row] /\ \A x \in Transfer : inRow'[x] \in {inRow[x], "interrupted"}
      BY ReconciledRows DEF ReceiverRestarts, IInv, TypeOK
<1>4. TypeOK'
      BY <1>1, <1>2, <1>3 DEF IInv, TypeOK, senderVars, Writing
<1>5. Held' /\ InboxSound'
  <2>1. \A x \in Transfer : (Owns(x)' => Owns(x)) /\ (rcv'[x] = "ended" => rcv[x] = "ended")
        BY <1>1, <1>2 DEF Owns, Writing
  <2>2. \A p \in Path : inbox[p] # NoFile => inbox[p].of \in Transfer
        BY NoFileShape DEF IInv, TypeOK
  <2>3. Held'
        BY <1>1, <2>1 DEF IInv, Held
  <2>4. InboxSound'
        BY <1>1, <2>1, <2>2 DEF IInv, InboxSound, senderVars
  <2> QED BY <2>3, <2>4
<1>6. ASSUME NEW x \in Transfer PROVE SendOrdered(x)' /\ ReceiveOrdered(x)'
  <2>1. SendOrdered(x) /\ ReceiveOrdered(x)
        BY DEF IInv, Ordered
  <2>2. SendOrdered(x)'
        BY <1>1, <1>2, <2>1, SendStays DEF IInv, SendOrdered
  <2>3. ReceiveOrdered(x)'
        BY <1>1, <1>2, <1>3, <2>1 DEF ReceiveOrdered, Writing, Over, senderVars
  <2> QED BY <2>2, <2>3
<1> QED BY <1>4, <1>5, <1>6 DEF IInv, Ordered

LEMMA UserStep == ASSUME IInv, NEW p \in Path, UserTakes(p) PROVE IInv'
<1>1. UNCHANGED <<file, senderVars, exchange, rcv, rcvErr, inRow, tried, dest, got>>
      BY DEF UserTakes
<1>2. inbox' \in [Path -> Stored \cup {NoFile}] /\ inbox'[p] = NoFile
        /\ \A q \in Path \ {p} : inbox'[q] = inbox[q]
      BY DEF UserTakes, IInv, TypeOK
<1>3. Held'
  <2> SUFFICES ASSUME NEW x \in Transfer, Owns(x) PROVE inbox'[dest[x]].of = x
      BY <1>1 DEF Held, Owns
  <2>1. dest[x] \in Path /\ inbox[dest[x]].of = x
        BY OwnFile
  <2>2. dest[x] # p
        BY <2>1 DEF UserTakes, Owns, Writing, Over
  <2> QED BY <1>2, <2>1, <2>2
<1>4. InboxSound'
      BY <1>1, <1>2 DEF IInv, InboxSound, senderVars
<1>5. Ordered'
  <2>1. \A x \in Transfer : SendOrdered(x)' /\ ReceiveOrdered(x)'
        BY <1>1 DEF IInv, Ordered, SendOrdered, ReceiveOrdered, senderVars
  <2> QED BY <2>1 DEF Ordered
<1> QED BY <1>1, <1>2, <1>3, <1>4, <1>5 DEF IInv, TypeOK, senderVars

-----------------------------------------------------------------------------
(* The invariant                                                            *)

LEMMA InvStep == IInv /\ [BlobNext]_blobVars => IInv'
<1> SUFFICES ASSUME IInv, [BlobNext]_blobVars PROVE IInv'
    OBVIOUS
<1>1. ASSUME NEW x \in Transfer, EditFile(x) \/ Sender(x) \/ HelloArrives(x) \/ Receiver(x)
      PROVE  IInv'
      BY <1>1, EditStep, SenderStep, ReceiverStep
<1>2. CASE UNCHANGED blobVars
  <2>1. Ordered'
        BY <1>2, Unchanged DEF IInv, blobVars
  <2>2. TypeOK'
        BY <1>2 DEF IInv, TypeOK, blobVars, senderVars, receiverVars
  <2>3. Held' /\ InboxSound'
        BY <1>2, SenderKeepsInbox DEF blobVars, senderVars
  <2> QED BY <2>1, <2>2, <2>3 DEF IInv
<1> QED BY <1>1, <1>2, SenderRestartStep, ReceiverRestartStep, UserStep DEF BlobNext

LEMMA InvAlways == BlobSpec => []IInv
<1> QED BY InvInit, InvStep, PTL DEF BlobSpec

\* Every variable keeps to its type: no end of a transfer gets ahead of what it was
\* announced, and a receive has a name in the inbox whenever it writes (blob.Receive).
THEOREM TypeCorrect == BlobSpec => []TypeOK
<1>1. IInv => TypeOK
      BY DEF IInv
<1> QED BY <1>1, InvAlways, PTL

\* No two receives ever work on the same inbox file, however many run at once and
\* whatever names they were offered (reserveInboxFile).
THEOREM WriterCorrect == BlobSpec => []OneWriter
<1>1. IInv => OneWriter
      BY DEF IInv, Held, OneWriter
<1> QED BY <1>1, InvAlways, PTL

\* Every file in the inbox belongs to the receive that reserved its name, is what was
\* announced once that receive reports success, and goes when it ends in failure.
THEOREM InboxCorrect == BlobSpec => []InboxSound
<1>1. IInv => InboxSound
      BY DEF IInv
<1> QED BY <1>1, InvAlways, PTL

\* A refusal comes before any chunk is sent and leaves nothing in the inbox.
THEOREM RefusalCorrect == BlobSpec => []NoChunkOnRefusal
<1>1. ASSUME IInv, NEW x \in Transfer, "refused" \in {sndErr[x], rcvErr[x]}
      PROVE  sent[x] = <<>> /\ \A p \in Path : inbox[p].of # x
  <2>1. SendOrdered(x) /\ ReceiveOrdered(x)
        BY <1>1 DEF IInv, Ordered
  <2>2. dest[x] = NoPath /\ sent[x] = <<>>
        BY <1>1, <2>1 DEF SendOrdered, ReceiveOrdered
  <2>3. ASSUME NEW p \in Path PROVE inbox[p].of # x
        BY <1>1, <2>2, NoFileShape, BlobAssumption DEF IInv, InboxSound
  <2> QED BY <2>2, <2>3
<1>2. IInv => NoChunkOnRefusal
      BY <1>1 DEF NoChunkOnRefusal
<1> QED BY <1>2, InvAlways, PTL

\* When the receiver's history says that a file with anything in it has arrived, the
\* sender's never says that sending it failed or was refused (SendBlob, receiveBlob).
THEOREM StoredCorrect == BlobSpec => []StoredMeansSent
<1>1. ASSUME IInv, NEW x \in Transfer, inRow[x] = "done", manifest[x] # <<>>
      PROVE  outRow[x] \notin {"failed", "refused"}
  <2>1. SendOrdered(x) /\ ReceiveOrdered(x)
        BY <1>1 DEF IInv, Ordered
  <2>2. got[x] = Len(manifest[x])
        BY <1>1, <2>1 DEF ReceiveOrdered
  <2>3. Len(sent[x]) = Len(manifest[x]) /\ Len(manifest[x]) # 0
        BY <1>1, <2>2, LenProperties, EmptySeq DEF IInv, TypeOK
  <2>4. sent[x] # <<>>
        BY <2>3
  <2> QED BY <2>1, <2>3, <2>4 DEF SendOrdered
<1>2. IInv => StoredMeansSent
      BY <1>1 DEF StoredMeansSent
<1> QED BY <1>2, InvAlways, PTL

\* A file that has been received stays as it is until a user takes it: no receive,
\* and no failing one that cleans up, overwrites or removes it.
THEOREM KeptCorrect == BlobSpec => KeptIntact
<1> DEFINE Kept(p) == inbox[p] # NoFile /\ rcv[inbox[p].of] = "ended" =>
                        inbox'[p] = inbox[p] \/ (inbox'[p] = NoFile /\ rcv' = rcv)
<1>1. ASSUME IInv, NEW x \in Transfer, Receiver(x), NEW p \in Path,
             inbox[p] # NoFile, rcv[inbox[p].of] = "ended"
      PROVE  inbox'[p] = inbox[p]
  <2>1. CASE Reserve(x)
        BY <1>1, <2>1 DEF Reserve, IInv, TypeOK
  <2>2. CASE OpenDest(x) \/ ReceiveChunk(x) \/ RemovePartial(x)
    <3>1. rcv[x] \in Writing
          BY <2>2 DEF OpenDest, ReceiveChunk, RemovePartial, RecvMove, ChunkAt, Writing
    <3>2. dest[x] # p
          BY <1>1, <3>1, OwnFile DEF Owns, Writing
    <3> QED BY <1>1, <2>2, <3>2 DEF OpenDest, ReceiveChunk, RemovePartial, IInv, TypeOK
  <2>3. CASE inbox' = inbox
        BY <2>3
  <2> QED BY <1>1, <2>1, <2>2, <2>3
          DEF Receiver, ManifestInvalid, ReadManifest, CheckRefuses, CheckAccepts, NameTaken,
              ReserveFails, Decline, Accept, HashMismatch, VerifyWhole, ReceiveFails,
              FinishReceive
<1>2. ASSUME IInv, NEW q \in Path, UserTakes(q), NEW p \in Path PROVE Kept(p)
      BY <1>2 DEF UserTakes, IInv, TypeOK
<1>3. ASSUME NEW x \in Transfer, EditFile(x) \/ Sender(x) \/ HelloArrives(x)
      PROVE  inbox' = inbox
      BY <1>3 DEF EditFile, Sender, ManifestFor, DialFails, HelloAnswered, WriteManifest,
                  ReadAcceptance, ReadRefusal, SendChunk, SendFails, FinishSend, HelloArrives,
                  receiverVars
<1>4. IInv /\ [BlobNext]_blobVars => \A p \in Path : Kept(p)
  <2> SUFFICES ASSUME IInv, [BlobNext]_blobVars, NEW p \in Path PROVE Kept(p)
      OBVIOUS
  <2>1. ASSUME NEW x \in Transfer, EditFile(x) \/ Sender(x) \/ HelloArrives(x) \/ Receiver(x)
        PROVE  Kept(p)
        BY <1>1, <1>3, <2>1
  <2>2. CASE SenderRestarts \/ ReceiverRestarts \/ UNCHANGED blobVars
    <3>1. inbox' = inbox
          BY <2>2 DEF SenderRestarts, ReceiverRestarts, blobVars, receiverVars
    <3> QED BY <3>1
  <2> QED BY <1>2, <2>1, <2>2 DEF BlobNext
<1> QED BY <1>4, InvAlways, PTL DEF BlobSpec, KeptIntact

-----------------------------------------------------------------------------
(* No end goes round in circles                                             *)

LEMMA SendStages ==
  /\ \A s : SendStagesLeft(s) \in Nat
  /\ SendStagesLeft("dialing") = 5 /\ SendStagesLeft("offering") = 4
  /\ SendStagesLeft("waiting") = 3 /\ SendStagesLeft("sending") = 2
  /\ SendStagesLeft("closing") = 1
  /\ \A s \in Over : SendStagesLeft(s) = 0
BY DEF SendStagesLeft, Over

LEMMA ReceiveStages ==
  /\ \A s : ReceiveStagesLeft(s) \in Nat
  /\ ReceiveStagesLeft("connected") = 9 /\ ReceiveStagesLeft("deciding") = 8
  /\ ReceiveStagesLeft("reserving") = 7 /\ ReceiveStagesLeft("replying") = 6
  /\ ReceiveStagesLeft("opening") = 5 /\ ReceiveStagesLeft("receiving") = 4
  /\ ReceiveStagesLeft("declining") = 3 /\ ReceiveStagesLeft("verifying") = 3
  /\ ReceiveStagesLeft("closing") = 2 /\ ReceiveStagesLeft("removing") = 1
  /\ \A s \in Over : ReceiveStagesLeft(s) = 0
BY DEF ReceiveStagesLeft, Over

\* The chunks and names an end has not dealt with are as many as there are, less those
\* it has; what a step does to them is all that its lemma has to say.
LEMMA CountsAreNat ==
  ASSUME IInv, NEW x \in Transfer
  PROVE  /\ Len(manifest[x]) - Len(sent[x]) \in Nat
         /\ Len(manifest[x]) - got[x] \in Nat
         /\ Len(Candidates[x]) - tried[x] \in Nat
<1>1. /\ Len(manifest[x]) \in Nat /\ Len(sent[x]) \in Nat /\ Len(Candidates[x]) \in Nat
      /\ tried[x] \in Nat /\ got[x] \in Nat
      /\ tried[x] <= Len(Candidates[x]) /\ got[x] <= Len(sent[x])
      /\ Len(sent[x]) <= Len(manifest[x])
      BY BlobAssumption, LenProperties DEF IInv, TypeOK
<1> QED BY <1>1

LEMMA LeftIsNat ==
  ASSUME IInv, NEW x \in Transfer
  PROVE  SendLeft(x) \in Nat /\ ReceiveLeft(x) \in Nat
<1> DEFINE Unsent == Len(manifest[x]) - Len(sent[x])
           Unread == Len(manifest[x]) - got[x]
           Untried == Len(Candidates[x]) - tried[x]
<1>1. Unsent \in Nat /\ Unread \in Nat /\ Untried \in Nat
      BY CountsAreNat
<1>2. SendStagesLeft(snd[x]) \in Nat /\ ReceiveStagesLeft(rcv[x]) \in Nat
      BY SendStages, ReceiveStages
<1>3. /\ SendLeft(x) = SendStagesLeft(snd[x]) + Unsent
      /\ ReceiveLeft(x) = ReceiveStagesLeft(rcv[x]) + Unread + Untried
      BY DEF SendLeft, ReceiveLeft
<1> HIDE DEF Unsent, Unread, Untried
<1> QED BY <1>1, <1>2, <1>3

\* A step of the sending end counts down, but for the one that begins.
LEMMA SenderCountsDown ==
  ASSUME IInv, NEW x \in Transfer, Sender(x), snd[x] # "picked"
  PROVE  snd'[x] # "picked" /\ SendLeft(x)' < SendLeft(x) /\ SendLeft(x)' <= SendLeft(x)
<1> DEFINE Unsent == Len(manifest[x]) - Len(sent[x])
           Lower == SendStagesLeft(snd'[x]) < SendStagesLeft(snd[x])
<1>a. snd \in [Transfer -> SendStage] /\ sent[x] \in Seq(Data) /\ SendOrdered(x)
      BY DEF IInv, TypeOK, Ordered
<1>1. ASSUME SendChunk(x)
      PROVE  /\ snd'[x] # "picked" /\ Unsent' = Unsent - 1
             /\ snd'[x] = snd[x] \/ Lower
  <2>1. /\ snd[x] = "sending" /\ UNCHANGED manifest /\ SentSoFar(x, sent'[x])
        /\ Len(sent'[x]) = Len(sent[x]) + 1
        BY <1>1, <1>a, AppendProperties DEF SendChunk, IInv, TypeOK
  <2>2. snd'[x] \in {"sending", "closing"}
        BY <1>a, <2>1 DEF SentSoFar, SendEnds
  <2>3. Len(manifest[x]) \in Nat /\ Len(sent[x]) \in Nat
        BY LenProperties DEF IInv, TypeOK
  <2>4. Unsent' = Unsent - 1
        BY <2>1, <2>3
  <2> QED BY <2>1, <2>2, <2>4, SendStages
<1>2. ASSUME ~SendChunk(x)
      PROVE  /\ snd'[x] # "picked" /\ Lower
             /\ UNCHANGED <<manifest, sent>>
  <2>1. UNCHANGED <<manifest, sent>>
        BY <1>2 DEF Sender, ManifestFor, DialFails, HelloAnswered, WriteManifest, ReadAcceptance,
               ReadRefusal, SendFails, FinishSend, SendMove
  <2>2. \/ snd[x] = "dialing" /\ snd'[x] \in {"ended", "offering"}
        \/ snd[x] = "offering" /\ snd'[x] \in {"waiting", "closing"}
        \/ snd[x] = "waiting" /\ snd'[x] \in {"sending", "closing"}
        \/ snd[x] = "sending" /\ snd'[x] = "closing"
        \/ snd[x] = "closing" /\ snd'[x] = "ended"
        BY <1>2, <1>a DEF Sender, ManifestFor, DialFails, HelloAnswered, WriteManifest,
               ReadAcceptance, ReadRefusal, SendFails, FinishSend, SendMove, SentSoFar, SendEnds
  <2> QED BY <2>1, <2>2, SendStages DEF Over
<1>3. /\ Unsent \in Nat /\ SendStagesLeft(snd[x]) \in Nat /\ SendStagesLeft(snd'[x]) \in Nat
      /\ SendLeft(x) = SendStagesLeft(snd[x]) + Unsent
      /\ SendLeft(x)' = SendStagesLeft(snd'[x]) + Unsent'
      BY CountsAreNat, SendStages DEF SendLeft
<1>4. UNCHANGED <<manifest, sent>> => Unsent' = Unsent
      OBVIOUS
<1> HIDE DEF Unsent
<1> QED BY <1>1, <1>2, <1>3, <1>4

LEMMA ReceiverCountsDown ==
  ASSUME IInv, NEW x \in Transfer, Receiver(x)
  PROVE  rcv'[x] # "none" /\ ReceiveLeft(x)' < ReceiveLeft(x) /\ ReceiveLeft(x)' <= ReceiveLeft(x)
<1> DEFINE Unread == Len(manifest[x]) - got[x]
           Untried == Len(Candidates[x]) - tried[x]
           Lower == ReceiveStagesLeft(rcv'[x]) < ReceiveStagesLeft(rcv[x])
<1>a. /\ rcv \in [Transfer -> RecvStage] /\ tried \in [Transfer -> Nat]
      /\ got \in [Transfer -> Nat] /\ ReceiveOrdered(x)
      /\ Len(manifest[x]) \in Nat /\ Len(Candidates[x]) \in Nat
      BY BlobAssumption, LenProperties DEF IInv, TypeOK, Ordered
<1>m. UNCHANGED manifest
      BY DEF Receiver, ManifestInvalid, ReadManifest, CheckRefuses, CheckAccepts, NameTaken,
             Reserve, ReserveFails, Decline, Accept, OpenDest, ReceiveChunk, HashMismatch,
             VerifyWhole, ReceiveFails, FinishReceive, RemovePartial, senderVars
<1>1. ASSUME NameTaken(x)
      PROVE  rcv'[x] = rcv[x] /\ rcv[x] # "none" /\ Unread' = Unread /\ Untried' = Untried - 1
      BY <1>1, <1>a, <1>m DEF NameTaken, MayTry
<1>2. ASSUME ReceiveChunk(x)
      PROVE  /\ rcv'[x] # "none" /\ Unread' = Unread - 1 /\ Untried' = Untried
             /\ rcv'[x] = rcv[x] \/ Lower
  <2>1. /\ rcv[x] = "receiving" /\ rcv'[x] \in {"receiving", "verifying"}
        /\ got'[x] = got[x] + 1 /\ UNCHANGED tried
        BY <1>2, <1>a DEF ReceiveChunk, ChunkAt, AfterChunks
  <2>2. Unread' = Unread - 1 /\ Untried' = Untried
        BY <1>a, <1>m, <2>1
  <2> QED BY <2>1, <2>2, ReceiveStages
<1>3. ASSUME ~NameTaken(x), ~ReceiveChunk(x)
      PROVE  rcv'[x] # "none" /\ Lower /\ UNCHANGED <<got, tried>>
  <2>1. UNCHANGED <<got, tried>>
        BY <1>3 DEF Receiver, ManifestInvalid, ReadManifest, CheckRefuses, CheckAccepts, Reserve,
               ReserveFails, Decline, Accept, OpenDest, HashMismatch, VerifyWhole, ReceiveFails,
               FinishReceive, RemovePartial
  <2>2. \/ rcv[x] = "connected" /\ rcv'[x] \in {"deciding", "declining", "closing"}
        \/ rcv[x] = "deciding" /\ rcv'[x] \in {"reserving", "declining"}
        \/ rcv[x] = "reserving" /\ rcv'[x] \in {"replying", "declining"}
        \/ rcv[x] = "replying" /\ rcv'[x] \in {"opening", "closing"}
        \/ rcv[x] = "opening" /\ rcv'[x] \in {"receiving", "verifying", "closing"}
        \/ rcv[x] \in {"receiving", "declining", "verifying"} /\ rcv'[x] = "closing"
        \/ rcv[x] = "closing" /\ rcv'[x] \in {"removing", "ended"}
        \/ rcv[x] = "removing" /\ rcv'[x] \in {"ended", "leftover"}
        BY <1>3, <1>a DEF Receiver, ManifestInvalid, ReadManifest, CheckRefuses, CheckAccepts,
               Reserve, ReserveFails, Decline, Accept, OpenDest, HashMismatch, VerifyWhole,
               ReceiveFails, FinishReceive, RemovePartial, OfferAt, MayTry, ChunkAt, AfterChunks,
               RecvMove, ReceiveEnds
  <2> QED BY <2>1, <2>2, ReceiveStages DEF Over
<1>4. /\ Unread \in Nat /\ Untried \in Nat
      /\ ReceiveStagesLeft(rcv[x]) \in Nat /\ ReceiveStagesLeft(rcv'[x]) \in Nat
      /\ ReceiveLeft(x) = ReceiveStagesLeft(rcv[x]) + Unread + Untried
      /\ ReceiveLeft(x)' = ReceiveStagesLeft(rcv'[x]) + Unread' + Untried'
      BY CountsAreNat, ReceiveStages DEF ReceiveLeft
<1>5. UNCHANGED <<got, tried>> => Unread' = Unread /\ Untried' = Untried
      BY <1>m
<1> HIDE DEF Unread, Untried
<1> QED BY <1>1, <1>2, <1>3, <1>4, <1>5

\* What the steps of others leave alone, or end for good.
SenderKept(x) ==
    /\ manifest'[x] = manifest[x] /\ sent'[x] = sent[x]
    /\ snd'[x] = snd[x] \/ (snd'[x] = "dead" /\ snd[x] # "picked")

ReceiverKept(x) ==
    /\ manifest'[x] = manifest[x] /\ got'[x] = got[x] /\ tried'[x] = tried[x]
    /\ rcv'[x] = rcv[x] \/ (rcv'[x] = "dead" /\ rcv[x] # "none")

LEMMA KeptGoesOn ==
  ASSUME IInv, NEW x \in Transfer
  PROVE  /\ SenderKept(x) /\ snd[x] # "picked" =>
                snd'[x] # "picked" /\ SendLeft(x)' <= SendLeft(x)
         /\ ReceiverKept(x) /\ rcv[x] # "none" =>
                rcv'[x] # "none" /\ ReceiveLeft(x)' <= ReceiveLeft(x)
<1> DEFINE Unsent == Len(manifest[x]) - Len(sent[x])
           Unread == Len(manifest[x]) - got[x]
           Untried == Len(Candidates[x]) - tried[x]
<1>1. Unsent \in Nat /\ Unread \in Nat /\ Untried \in Nat
      BY CountsAreNat
<1>2. /\ SenderKept(x) => Unsent' = Unsent
      /\ ReceiverKept(x) => Unread' = Unread /\ Untried' = Untried
      BY DEF SenderKept, ReceiverKept
<1>3. /\ SendLeft(x) = SendStagesLeft(snd[x]) + Unsent
      /\ SendLeft(x)' = SendStagesLeft(snd'[x]) + Unsent'
      /\ ReceiveLeft(x) = ReceiveStagesLeft(rcv[x]) + Unread + Untried
      /\ ReceiveLeft(x)' = ReceiveStagesLeft(rcv'[x]) + Unread' + Untried'
      BY DEF SendLeft, ReceiveLeft
<1>4. /\ SendStagesLeft(snd[x]) \in Nat /\ SendStagesLeft("dead") = 0
      /\ ReceiveStagesLeft(rcv[x]) \in Nat /\ ReceiveStagesLeft("dead") = 0
      BY SendStages, ReceiveStages DEF Over
<1> HIDE DEF Unsent, Unread, Untried
<1> QED BY <1>1, <1>2, <1>3, <1>4 DEF SenderKept, ReceiverKept

LEMMA SenderLeavesOthers ==
  ASSUME IInv, NEW x \in Transfer, Sender(x), NEW y \in Transfer
  PROVE  /\ y # x => SenderKept(y)
         /\ rcv[y] # "none" => ReceiverKept(y)
<1>1. /\ UNCHANGED <<rcv, tried, got>>
      /\ y # x => snd'[y] = snd[y] /\ manifest'[y] = manifest[y] /\ sent'[y] = sent[y]
      BY DEF Sender, ManifestFor, DialFails, HelloAnswered, WriteManifest, ReadAcceptance,
             ReadRefusal, SendChunk, SendFails, FinishSend, SentSoFar, SendEnds, SendMove,
             receiverVars, IInv, TypeOK
<1>2. rcv[y] # "none" => manifest'[y] = manifest[y]
  <2>1. CASE ManifestFor(x)
    <3>1. rcv[x] = "none"
          BY <2>1 DEF ManifestFor, SendMove, IInv, Ordered, SendOrdered
    <3> QED BY <1>1, <3>1
  <2>2. CASE UNCHANGED manifest
        BY <2>2
  <2> QED BY <2>1, <2>2 DEF Sender, DialFails, HelloAnswered, WriteManifest, ReadAcceptance,
              ReadRefusal, SendChunk, SendFails, FinishSend
<1> QED BY <1>1, <1>2 DEF SenderKept, ReceiverKept

LEMMA ReceiverLeavesOthers ==
  ASSUME IInv, NEW x \in Transfer, Receiver(x) \/ HelloArrives(x), NEW y \in Transfer
  PROVE  /\ SenderKept(y)
         /\ y # x \/ (rcv[y] # "none" /\ ~Receiver(x)) => ReceiverKept(y)
<1>1. /\ UNCHANGED <<snd, manifest, sent>>
      /\ y # x => rcv'[y] = rcv[y] /\ tried'[y] = tried[y] /\ got'[y] = got[y]
      BY DEF Receiver, ManifestInvalid, ReadManifest, CheckRefuses, CheckAccepts, NameTaken,
             Reserve, ReserveFails, Decline, Accept, OpenDest, ReceiveChunk, HashMismatch,
             VerifyWhole, ReceiveFails, FinishReceive, RemovePartial, HelloArrives, RecvMove,
             ReceiveEnds, senderVars, IInv, TypeOK
<1>2. HelloArrives(x) => rcv[x] = "none"
      BY DEF HelloArrives, RecvMove
<1> QED BY <1>1, <1>2 DEF SenderKept, ReceiverKept

LEMMA RestartsEnd ==
  ASSUME IInv, SenderRestarts \/ ReceiverRestarts, NEW y \in Transfer
  PROVE  SenderKept(y) /\ ReceiverKept(y)
<1>1. CASE SenderRestarts
      BY <1>1 DEF SenderRestarts, Killed, Over, receiverVars, SenderKept, ReceiverKept
<1>2. CASE ReceiverRestarts
      BY <1>2 DEF ReceiverRestarts, Killed, Over, senderVars, SenderKept, ReceiverKept
<1> QED BY <1>1, <1>2

\* An end that is under way comes closer to its end with each step of its own, and no
\* other step puts it back: what TransfersEnd needs beside the fairness of the ends
\* (blob.Send, blob.Receive, reserveInboxFile).
THEOREM EndsCountDown == BlobSpec => EndsGoOn
<1> DEFINE GoesOn(x) ==
        /\ SendLeft(x) \in Nat /\ ReceiveLeft(x) \in Nat
        /\ snd[x] # "picked" =>
              /\ snd'[x] # "picked" /\ SendLeft(x)' <= SendLeft(x)
              /\ Sender(x) => SendLeft(x)' < SendLeft(x)
        /\ rcv[x] # "none" =>
              /\ rcv'[x] # "none" /\ ReceiveLeft(x)' <= ReceiveLeft(x)
              /\ Receiver(x) => ReceiveLeft(x)' < ReceiveLeft(x)
<1>1. ASSUME IInv, [BlobNext]_blobVars, NEW y \in Transfer PROVE GoesOn(y)
  <2>a. SendLeft(y) \in Nat /\ ReceiveLeft(y) \in Nat
        BY <1>1, LeftIsNat
  <2>b. /\ Sender(y) /\ snd[y] # "picked" =>
              snd'[y] # "picked" /\ SendLeft(y)' < SendLeft(y) /\ SendLeft(y)' <= SendLeft(y)
        /\ Receiver(y) =>
              rcv'[y] # "none" /\ ReceiveLeft(y)' < ReceiveLeft(y) /\ ReceiveLeft(y)' <= ReceiveLeft(y)
        BY <1>1, SenderCountsDown, ReceiverCountsDown
  <2>1. Sender(y) \/ snd[y] = "picked" \/ SenderKept(y)
    <3>1. ASSUME NEW p \in Path, UserTakes(p) PROVE SenderKept(y)
          BY <3>1 DEF UserTakes, senderVars, SenderKept
    <3>2. ASSUME NEW x \in Transfer, EditFile(x) PROVE SenderKept(y)
          BY <3>2 DEF EditFile, senderVars, SenderKept
    <3>3. CASE UNCHANGED blobVars
          BY <3>3 DEF blobVars, senderVars, SenderKept
    <3> QED BY <1>1, <3>1, <3>2, <3>3, SenderLeavesOthers, ReceiverLeavesOthers, RestartsEnd
            DEF BlobNext
  <2>2. Receiver(y) \/ rcv[y] = "none" \/ ReceiverKept(y)
    <3>1. ASSUME NEW p \in Path, UserTakes(p) PROVE ReceiverKept(y)
          BY <3>1 DEF UserTakes, senderVars, ReceiverKept
    <3>2. ASSUME NEW x \in Transfer, EditFile(x) PROVE ReceiverKept(y)
          BY <3>2 DEF EditFile, senderVars, receiverVars, ReceiverKept
    <3>3. CASE UNCHANGED blobVars
          BY <3>3 DEF blobVars, senderVars, receiverVars, ReceiverKept
    <3> QED BY <1>1, <3>1, <3>2, <3>3, SenderLeavesOthers, ReceiverLeavesOthers, RestartsEnd
            DEF BlobNext
  <2> QED BY <1>1, <2>a, <2>b, <2>1, <2>2, KeptGoesOn
<1>2. IInv /\ [BlobNext]_blobVars => \A x \in Transfer : GoesOn(x)
      BY <1>1
<1> QED BY <1>2, InvAlways, PTL DEF BlobSpec, EndsGoOn
=============================================================================
