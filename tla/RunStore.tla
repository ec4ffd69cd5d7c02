------------------------------ MODULE RunStore ------------------------------
(***************************************************************************)
(* The SQLite run store (orchestration_repository.py): the rows of         *)
(* orchestration_runs and orchestration_events, and what each statement    *)
(* does to them.  Every operator is one transaction.  A statement whose    *)
(* guard is false raises and changes nothing.                              *)
(***************************************************************************)
EXTENDS AgentGraph

CONSTANTS
    RunId,       \* run ids, drawn fresh by uuid4
    RequestId,   \* idempotency keys
    Incident,    \* incident ids
    Mode         \* provider modes

(* One row of orchestration_events.  Of its contents the model keeps the    *)
(* number, and for a checkpoint event the wave count it announces (its     *)
(* data.next_wave); every other event has wave 0.                          *)
Event == [seq : Nat, wave : Nat]

\* The snapshot column: an OrchestrationCheckpoint, or NULL.
NoSnapshot == [nextWave |-> 0, results |-> NoResults]
Snapshot == [nextWave : Nat, results : Results]

\* The result column: the outcomes and the event history, or NULL.
NoResult == [present |-> FALSE, history |-> {}]

Active == {"pending", "running"}
Terminal == {"completed", "failed"}

\* One row of orchestration_runs, and the absence of one.
Row == [key : RequestId, incident : Incident, mode : Mode,
        status : Active \union Terminal, nextWave : Nat, version : Nat,
        snapshot : Snapshot, result : [present : BOOLEAN, history : SUBSET Nat]]
NoRow == [status |-> "absent"]

Exists(row) == row.status # "absent"
Unsettled(row) == row.status \in Active

---------------------------------------------------------------------------
(* create_run: the row a new key inserts, and the row a known key finds.   *)

NewRow(k, i, m) ==
    [key |-> k, incident |-> i, mode |-> m, status |-> "pending", nextWave |-> 0,
     version |-> 0, snapshot |-> NoSnapshot, result |-> NoResult]

WithKey(runs, k) == {r \in RunId : Exists(runs[r]) /\ runs[r].key = k}

\* A known key is reused only for the same incident and provider mode (409 otherwise).
Reusable(row, i, m) == row.incident = i /\ row.mode = m

---------------------------------------------------------------------------
(* The other statements, as functions of the row.                          *)

ClaimRun(row) == IF Unsettled(row) THEN [row EXCEPT !.status = "running"] ELSE row

\* The primary key (run_id, sequence) refuses a second event with a used number.
SequenceFree(log, s) == \A ev \in log : ev.seq # s

\* A plausible bug: the next number instead of the last one.
LatestSequenceNext(log) == Cardinality(log) + 1

LatestSequence(log) ==
    IF log = {} THEN 0 ELSE CHOOSE s \in {ev.seq : ev \in log} : \A ev \in log : ev.seq <= s

\* A plausible bug: the snapshot names the wave just run, not the next one.
SaveCheckpointBehind(row, next, results) ==
    [row EXCEPT !.nextWave = next, !.version = @ + 1,
                !.snapshot = [nextWave |-> next - 1, results |-> results]]

SaveCheckpoint(row, next, results) ==
    [row EXCEPT !.nextWave = next, !.version = @ + 1,
                !.snapshot = [nextWave |-> next, results |-> results]]

CompleteRun(row, status, history) ==
    [row EXCEPT !.status = status, !.result = [present |-> TRUE, history |-> history]]

FailRun(row) == [row EXCEPT !.status = "failed"]

\* A plausible bug: only claimed runs are listed.
RecoverableRunning(runs) == {r \in RunId : runs[r].status = "running"}

\* list_recoverable: what a restart finds unfinished.
Recoverable(runs) == {r \in RunId : Unsettled(runs[r]) /\ ~runs[r].result.present}
=============================================================================
