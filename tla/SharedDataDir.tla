------------------------------ MODULE SharedDataDir ------------------------------
(***************************************************************************)
(* TaskExecution while another process of the program opens the same data   *)
(* directory: `edgegrid task send` builds a node of its own on the profile  *)
(* a dashboard is running with (cmd/edgegrid/main.go, runTaskSend), and     *)
(* node.New reconciles the rows before anything else.  The second process   *)
(* never receives a task.                                                   *)
(***************************************************************************)
EXTENDS TaskExecution

\* New of the second process: its ReconcileStaleTasks sees every running row.
OpenElsewhere ==
    /\ rows' = ReconcileStaleTasks(rows)
    /\ UNCHANGED <<nodeVars, busy, pc, offer, outcome, ghosts>>

SharedNext == Next \/ OpenElsewhere

SharedSpec == Init /\ [][SharedNext]_vars

\* A row that a reconcile has marked interrupted has no run that is still alive (the
\* comment of ReconcileStaleTasks: its run died with its process): no handler waits for
\* it, and it has not outlived its node.
InterruptedIsDead ==
    \A t \in Task : rows[t].status = "interrupted" =>
        /\ t \notin outlived
        /\ \A h \in Executing : TaskOf(h) # t
=============================================================================
