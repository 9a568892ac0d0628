------------------------------ MODULE TaskOutcome ------------------------------
(***************************************************************************)
(* What the history of a dispatching node promises its user: the abstract   *)
(* specification of TaskGrid.  Here there are no connections, verdicts,     *)
(* polls or deadlines.  The row of a task names a node once that node has   *)
(* taken the task, and the outcome is copied from the node's ledger in the  *)
(* same step in which it is stored.  A row changes in no other way, so what *)
(* it says of an outcome is final.                                          *)
(***************************************************************************)
EXTENDS TaskPromise

CONSTANTS Me, NoNode, ReadFails

VARIABLE row        \* what the history says of each task

outcomeVars == <<promiseVars, row>>

Unrecorded == [peer |-> NoNode, status |-> "absent", output |-> NoOutput]

OutcomeInit == PromiseInit /\ row = [t \in Task |-> Unrecorded]

\* The node that is named has the task on its ledger, for this dispatcher.
Name(t, n) ==
    /\ row[t].status = "absent"
    /\ ledger[n][t].peer = Me
    /\ row' = [row EXCEPT ![t] = [peer |-> n, status |-> "running", output |-> NoOutput]]
    /\ UNCHANGED promiseVars

\* Nothing is known yet of what became of the task.
Open(t) == row[t].status = "running"

Tell(t, s, o) ==
    /\ Open(t)
    /\ row' = [row EXCEPT ![t] = [peer |-> row[t].peer, status |-> s, output |-> o]]
    /\ UNCHANGED promiseVars

\* The outcome is the one that the node stands for in this very state.
Copy(t) ==
    \E s \in Settled :
        /\ ledger[row[t].peer][t].status = s
        /\ Tell(t, s, IF s = "done" THEN made[row[t].peer][t] ELSE NoOutput)

\* The node could not read its ledger: that is told as a failure.
TellFailure(t) == ReadFails /\ Tell(t, "failed", NoOutput)

\* A dispatcher that comes back does not know what became of its open rows.
Interrupt ==
    /\ row' = [t \in Task |->
                IF Open(t) THEN [row[t] EXCEPT !.status = "interrupted"] ELSE row[t]]
    /\ UNCHANGED promiseVars

OutcomeNext ==
    \/ PromiseNext /\ UNCHANGED row
    \/ \E t \in Task :
        \/ \E n \in Node : Name(t, n)
        \/ Copy(t) \/ TellFailure(t)
    \/ Interrupt

OutcomeSpec == OutcomeInit /\ [][OutcomeNext]_outcomeVars
=============================================================================
