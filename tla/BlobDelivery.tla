----------------------------- MODULE BlobDelivery -----------------------------
(***************************************************************************)
(* What sending a file promises the people at its two ends: the abstract    *)
(* specification of BlobTransfer, without connection, chunks, partial files *)
(* or names that are taken.                                                 *)
(*                                                                          *)
(* A file is announced once, as a version it had.  It turns up in the inbox *)
(* in one step, whole and as announced, under a name no received file has,  *)
(* and only users take it away.  Each end reports one outcome, and its row  *)
(* in the history is settled once, as that outcome.  The sender may report  *)
(* done for a file the receiver then fails to keep; never the reverse,      *)
(* unless the file is empty.                                                *)
(***************************************************************************)
EXTENDS Sequences

CONSTANTS Transfer, Path, NoPath, Versions

VARIABLES
    announced,  \* the manifest the receiver may have been told, if any
    sndErr,     \* what the sending end reports
    outRow,     \* its row in the history
    rcvErr,     \* what the receiving end reports
    inRow,      \* its row in the history
    kept        \* the received files

deliveryVars == <<announced, sndErr, outRow, rcvErr, inRow, kept>>

Outcome == {"done", "failed", "refused"}

NoFile == [of |-> NoPath, data |-> <<>>]

DeliveryInit ==
    /\ announced = [x \in Transfer |-> {}]
    /\ sndErr = [x \in Transfer |-> "none"]
    /\ outRow = [x \in Transfer |-> "none"]
    /\ rcvErr = [x \in Transfer |-> "none"]
    /\ inRow = [x \in Transfer |-> "none"]
    /\ kept = [p \in Path |-> NoFile]

Announce(x) ==
    /\ announced[x] = {}
    /\ sndErr[x] = "none" /\ rcvErr[x] \in {"none", "failed"}
    /\ \E v \in Versions[x] : announced' = [announced EXCEPT ![x] = {v}]
    /\ UNCHANGED <<sndErr, outRow, rcvErr, inRow, kept>>

\* Done is said of the sending alone.
SenderReports(x, err) ==
    /\ sndErr[x] = "none"
    /\ err = "done" => announced[x] # {} /\ rcvErr[x] # "refused"
    /\ err = "failed" /\ rcvErr[x] = "done" => announced[x] = {<<>>}
    /\ err = "refused" => rcvErr[x] \in {"failed", "refused"}
    /\ sndErr' = [sndErr EXCEPT ![x] = err]
    /\ UNCHANGED <<announced, outRow, rcvErr, inRow, kept>>

ReceiverFails(x, err) ==
    /\ rcvErr[x] = "none"
    /\ err = "refused" => announced[x] # {} /\ sndErr[x] # "done"
    /\ rcvErr' = [rcvErr EXCEPT ![x] = err]
    /\ UNCHANGED <<announced, sndErr, outRow, inRow, kept>>

\* An empty file is complete before the sender has read that it may send it.
Deliver(x, p) ==
    /\ rcvErr[x] = "none" /\ kept[p] = NoFile
    /\ \E v \in announced[x] :
        /\ sndErr[x] = "done" \/ (v = <<>> /\ sndErr[x] # "refused")
        /\ kept' = [kept EXCEPT ![p] = [of |-> x, data |-> v]]
    /\ rcvErr' = [rcvErr EXCEPT ![x] = "done"]
    /\ UNCHANGED <<announced, sndErr, outRow, inRow>>

Take(p) ==
    /\ kept[p] # NoFile
    /\ kept' = [kept EXCEPT ![p] = NoFile]
    /\ UNCHANGED <<announced, sndErr, outRow, rcvErr, inRow>>

\* A row begins as in progress and is settled as what its end has reported.
Recorded(row, err, new) ==
    \/ row = "none" /\ err = "none" /\ new = "in_progress"
    \/ row = "in_progress" /\ err # "none" /\ new = err

RecordSend(x, new) ==
    /\ Recorded(outRow[x], sndErr[x], new)
    /\ outRow' = [outRow EXCEPT ![x] = new]
    /\ UNCHANGED <<announced, sndErr, rcvErr, inRow, kept>>

RecordReceive(x, new) ==
    /\ Recorded(inRow[x], rcvErr[x], new)
    /\ inRow' = [inRow EXCEPT ![x] = new]
    /\ UNCHANGED <<announced, sndErr, outRow, rcvErr, kept>>

\* A node comes back and finds rows its last process left in progress.
Interrupted(rows) ==
    [x \in Transfer |-> IF rows[x] = "in_progress" THEN "interrupted" ELSE rows[x]]

SenderBack ==
    /\ outRow' = Interrupted(outRow)
    /\ UNCHANGED <<announced, sndErr, rcvErr, inRow, kept>>

ReceiverBack ==
    /\ inRow' = Interrupted(inRow)
    /\ UNCHANGED <<announced, sndErr, outRow, rcvErr, kept>>

DeliveryNext ==
    \/ \E x \in Transfer :
        \/ Announce(x)
        \/ \E new \in {"in_progress"} \cup Outcome : RecordSend(x, new) \/ RecordReceive(x, new)
        \/ \E err \in Outcome : SenderReports(x, err)
        \/ \E err \in Outcome \ {"done"} : ReceiverFails(x, err)
        \/ \E p \in Path : Deliver(x, p)
    \/ \E p \in Path : Take(p)
    \/ SenderBack \/ ReceiverBack

DeliverySpec == DeliveryInit /\ [][DeliveryNext]_deliveryVars
=============================================================================
