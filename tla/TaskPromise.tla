------------------------------ MODULE TaskPromise ------------------------------
(***************************************************************************)
(* What a node that receives tasks promises the peers that dispatch to it:  *)
(* the abstract specification of TaskExecution, for several nodes at once.  *)
(* A task that a node takes is on its ledger until the node forgets it; the *)
(* node waits for at most one process at a time and starts at most one per  *)
(* task it has taken; the outcome is settled once, as done only with what   *)
(* that process returned to it, and a node that comes back calls            *)
(* interrupted what it left running, whether or not its process runs on.    *)
(*                                                                          *)
(* TaskExecution implements it (Promise there); TaskGrid builds the         *)
(* dispatcher on it.                                                        *)
(***************************************************************************)
EXTENDS Naturals

CONSTANTS Node, Task, Peer, Output, NoTask, NoPeer, NoOutput

VARIABLES
    ledger,     \* what a result request reads of each node and task
    current,    \* the task whose process each node waits for
    begun,      \* the tasks whose process has been started and is not forgotten
    made        \* what that process returned to its node

promiseVars == <<ledger, current, begun, made>>

Settled == {"done", "failed", "interrupted"}

Entry ==
    [ peer : Peer \cup {NoPeer},
      status : Settled \cup {"running", "absent"},
      output : Output \cup {NoOutput} ]

NoEntry == [peer |-> NoPeer, status |-> "absent", output |-> NoOutput]

PromiseInit ==
    /\ ledger = [n \in Node |-> [t \in Task |-> NoEntry]]
    /\ current = [n \in Node |-> NoTask]
    /\ begun = [n \in Node |-> {}]
    /\ made = [n \in Node |-> [t \in Task |-> NoOutput]]

\* The row is recorded, on the way to an accepting verdict.
Take(n, t, p) ==
    /\ ledger[n][t].status = "absent"
    /\ ledger' = [ledger EXCEPT ![n][t] =
                    [peer |-> p, status |-> "running", output |-> NoOutput]]
    /\ UNCHANGED <<current, begun, made>>

Begin(n, t) ==
    /\ current[n] = NoTask
    /\ ledger[n][t].status = "running"
    /\ t \notin begun[n]
    /\ current' = [current EXCEPT ![n] = t]
    /\ begun' = [begun EXCEPT ![n] = @ \cup {t}]
    /\ UNCHANGED <<ledger, made>>

\* The process ends, with an output or with none.
End(n, o) ==
    /\ current[n] # NoTask
    /\ made' = [made EXCEPT ![n][current[n]] = o]
    /\ current' = [current EXCEPT ![n] = NoTask]
    /\ UNCHANGED <<ledger, begun>>

Settle(n, t, s) ==
    /\ ledger[n][t].status = "running"
    /\ current[n] # t
    /\ s = "done" => t \in begun[n] /\ made[n][t] # NoOutput
    /\ ledger' = [ledger EXCEPT ![n][t] =
                    [@ EXCEPT !.status = s,
                              !.output = IF s = "done" THEN made[n][t] ELSE NoOutput]]
    /\ UNCHANGED <<current, begun, made>>

\* The node stops or dies, and nobody waits for its process any more: that may run on,
\* and what it makes then is nobody's result.
Lose(n) ==
    /\ current' = [current EXCEPT ![n] = NoTask]
    /\ UNCHANGED <<ledger, begun, made>>

Recover(n) ==
    /\ current[n] = NoTask
    /\ ledger' = [ledger EXCEPT ![n] =
                    [t \in Task |->
                        IF ledger[n][t].status = "running"
                        THEN [ledger[n][t] EXCEPT !.status = "interrupted"]
                        ELSE ledger[n][t]]]
    /\ UNCHANGED <<current, begun, made>>

\* Only what is settled is ever forgotten.
Forget(n, S) ==
    /\ \A t \in S : ledger[n][t].status \in Settled
    /\ ledger' = [ledger EXCEPT ![n] =
                    [t \in Task |-> IF t \in S THEN NoEntry ELSE ledger[n][t]]]
    /\ begun' = [begun EXCEPT ![n] = @ \ S]
    /\ made' = [made EXCEPT ![n] =
                    [t \in Task |-> IF t \in S THEN NoOutput ELSE made[n][t]]]
    /\ UNCHANGED current

PromiseNext ==
    \E n \in Node :
        \/ \E t \in Task :
            \/ \E p \in Peer : Take(n, t, p)
            \/ Begin(n, t)
            \/ \E s \in Settled : Settle(n, t, s)
        \/ \E o \in Output \cup {NoOutput} : End(n, o)
        \/ Lose(n)
        \/ Recover(n)
        \/ \E S \in SUBSET Task : Forget(n, S)

PromiseSpec == PromiseInit /\ [][PromiseNext]_promiseVars
=============================================================================
