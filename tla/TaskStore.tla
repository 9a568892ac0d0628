------------------------------- MODULE TaskStore -------------------------------
(***************************************************************************)
(* The `tasks` table of a node's local database (internal/db/tasks.go), as  *)
(* operators on a table value.  A table is a function from keys to rows; a  *)
(* key that holds no row holds Absent, so every field can be read of every  *)
(* key.  The operators are polymorphic in the set of keys: the executing    *)
(* node uses the task ids of its `received` rows, the dispatching node      *)
(* those of its `sent` rows.                                                *)
(*                                                                          *)
(* Each operator is one SQL statement, so one atomic step.  Whether the     *)
(* statement fails is the caller's choice: a failed one changes nothing.    *)
(***************************************************************************)
EXTENDS Naturals

CONSTANTS
    Peer,       \* Tailscale stable ids of the other nodes
    Output,     \* what a run may print
    BigOutput,  \* the outputs longer than MaxTaskOutput (64KB)
    NoPeer,     \* the peer_id of a key that holds no row
    NoOutput    \* a NULL output column

ASSUME StoreAssumption ==
    /\ BigOutput \subseteq Output
    /\ NoPeer \notin Peer
    /\ NoOutput \notin Output

Finished == {"done", "failed", "interrupted"}

\* When a column was written: before the retention cutoff, or since.
Age == {"recent", "old"}

\* started and finished are started_at and finished_at; a row that has not
\* finished holds recent, and the code never reads the second column.
Row ==
    [ peer     : Peer \cup {NoPeer},
      status   : Finished \cup {"running", "absent"},
      output   : Output \cup {NoOutput},
      started  : Age,
      finished : Age ]

Absent ==
    [ peer |-> NoPeer, status |-> "absent", output |-> NoOutput,
      started |-> "recent", finished |-> "recent" ]

Exists(tab, k) == tab[k].status # "absent"

-----------------------------------------------------------------------------
\* RecordTaskStart: an INSERT, refused by the primary key when the key is taken

\* Slip: an INSERT OR REPLACE, refused by a running row only
CanReplaceFinished(tab, k) == tab[k].status # "running"

CanRecordTaskStart(tab, k) == ~Exists(tab, k)

RecordTaskStart(tab, k, p) ==
    [tab EXCEPT ![k] =
        [ peer |-> p, status |-> "running", output |-> NoOutput,
          started |-> "recent", finished |-> "recent" ]]

\* RecordTaskFinish: an UPDATE by key, whatever the row's status was.  A done
\* result that is too big becomes a failure; only done keeps its output.
StoredStatus(s, o) == IF s = "done" /\ o \in BigOutput THEN "failed" ELSE s
StoredOutput(s, o) == IF StoredStatus(s, o) = "done" THEN o ELSE NoOutput

RecordTaskFinish(tab, k, s, o) ==
    IF Exists(tab, k)
    THEN [tab EXCEPT ![k] =
            [ @ EXCEPT !.status = StoredStatus(s, o),
                       !.output = StoredOutput(s, o),
                       !.finished = "recent" ]]
    ELSE tab

\* Slip: New does not reconcile
LeaveStale(tab) == tab

\* ReconcileStaleTasks: every running row, of either role, whoever owns it
ReconcileStaleTasks(tab) ==
    [k \in DOMAIN tab |->
        IF tab[k].status = "running"
        THEN [tab[k] EXCEPT !.status = "interrupted", !.finished = "recent"]
        ELSE tab[k]]

\* PruneTasks: the rows that started before the cutoff and do not run

\* Slip: the DELETE without its status condition
PrunableRunning(row) == row.started = "old"

Prunable(row) == row.started = "old" /\ row.status # "running"

PruneTasks(tab) ==
    [k \in DOMAIN tab |-> IF Prunable(tab[k]) THEN Absent ELSE tab[k]]

\* ReceivedTaskFor: the row, for the peer that dispatched it only
ReceivedTaskFor(tab, k, p) == IF tab[k].peer = p THEN tab[k] ELSE Absent

\* The clock moves on by taskRetention: everything recorded so far is old.
RetentionPasses(tab) ==
    [k \in DOMAIN tab |->
        [tab[k] EXCEPT !.started  = IF Exists(tab, k) THEN "old" ELSE @,
                       !.finished = IF tab[k].status \in Finished THEN "old" ELSE @]]
=============================================================================
