---------------------------- MODULE LegacyMirror ----------------------------
(***************************************************************************)
(* The canonical (pre-protocol) rows of a task and how                     *)
(* src/lws/worker_persistence.py keeps them in step with the protocol.     *)
(*                                                                         *)
(* canon is the task's row of `tasks` together with its rows of `workers`: *)
(* state is "OPEN" for every non-terminal SupervisorState (the persistence *)
(* layer tells only COMPLETED and ABANDONED apart from the rest).  Every   *)
(* load cross-checks canon against the protocol tables and refuses to go   *)
(* on when they disagree, so a disagreement locks the task.  (The check    *)
(* that superseded_by names a worker of the task is left out: it does by   *)
(* its type, and takeover writes no other.)                                *)
(***************************************************************************)
EXTENDS WorkerProtocol

WorkerStatus == {"ACTIVE", "PARKED", "SUPERSEDED", "DEAD"}

WorkerRow == [status : WorkerStatus \cup {"absent"}, started_at : OptTime,
              last_seen_at : OptTime, ended_at : OptTime]

Canon == [state : {"OPEN", "COMPLETED", "ABANDONED"}, updated_at : Nat,
          current_worker_id : OptWorker, workers : [Worker -> WorkerRow]]

NoRow == [status |-> "absent", started_at |-> None, last_seen_at |-> None, ended_at |-> None]

Later(a, b) == IF a < b THEN b ELSE a

-----------------------------------------------------------------------------
(***************************************************************************)
(* _legacy_status, _sync_legacy_workers and the tasks UPDATE of            *)
(* _persist_decision_locked.                                               *)
(***************************************************************************)
LegacyStatus(status) ==
    CASE status = "unregistered" -> "absent"
      [] status = "candidate" -> "PARKED"
      [] status = "active" -> "ACTIVE"
      [] status = "superseded" -> "SUPERSEDED"
      [] OTHER -> "DEAD"

\* A plausible bug: the protocol's own status is written to the canonical column.
SyncRow_RawStatus(row, lease) ==
    [status |-> lease.status,
     started_at |-> IF row.status = "absent" THEN lease.registered_at ELSE row.started_at,
     last_seen_at |-> lease.last_heartbeat_at,
     ended_at |-> lease.ended_at]

\* A row is inserted with the registration time; an existing one keeps its started_at.
SyncRow(row, lease) ==
    [status |-> LegacyStatus(lease.status),
     started_at |-> IF row.status = "absent" THEN lease.registered_at ELSE row.started_at,
     last_seen_at |-> lease.last_heartbeat_at,
     ended_at |-> lease.ended_at]

\* A plausible bug: only the workers rows are mirrored, not the holder in the tasks row.
Sync_HolderForgotten(canon, s, now) ==
    [state |-> IF s.task_status = "completed" THEN "COMPLETED" ELSE canon.state,
     updated_at |-> Later(canon.updated_at, now),
     current_worker_id |-> canon.current_worker_id,
     workers |-> [w \in Worker |-> SyncRow(canon.workers[w], s.workers[w])]]

\* The canonical rows after the accepted snapshot s has been persisted with an event at now.
Sync(canon, s, now) ==
    [state |-> IF s.task_status = "completed" THEN "COMPLETED" ELSE canon.state,
     updated_at |-> Later(canon.updated_at, now),
     current_worker_id |-> s.current_worker_id,
     workers |-> [w \in Worker |-> SyncRow(canon.workers[w], s.workers[w])]]

-----------------------------------------------------------------------------
(***************************************************************************)
(* _validate_legacy_consistency: what every load demands.                  *)
(***************************************************************************)
RowAgrees(row, lease) ==
    /\ row.status = LegacyStatus(lease.status)
    /\ row.started_at = lease.registered_at
    /\ lease.status \in Terminal => row.ended_at # None

LegacyConsistent(canon, s) ==
    /\ canon.current_worker_id = s.current_worker_id
    /\ (canon.state = "COMPLETED") = (s.task_status = "completed")
    /\ canon.state # "ABANDONED"
    /\ \A w \in Worker : RowAgrees(canon.workers[w], s.workers[w])

-----------------------------------------------------------------------------
(***************************************************************************)
(* _state_from_legacy: the snapshot bootstrap_worker_protocol builds, or   *)
(* the refusal when the canonical rows are ambiguous.                      *)
(***************************************************************************)
ActiveRows(canon) == {w \in Worker : canon.workers[w].status = "ACTIVE"}

BootstrapOk(canon) ==
    /\ canon.state # "ABANDONED"
    /\ \A w \in Worker :
          LET row == canon.workers[w] IN
          /\ row.status # "PARKED"
          /\ row.status = "ACTIVE" => row.ended_at = None
          /\ row.status \in {"SUPERSEDED", "DEAD"} => row.ended_at # None
    /\ ActiveRows(canon) = IF canon.current_worker_id = None THEN {}
                           ELSE {canon.current_worker_id}
    /\ canon.state = "COMPLETED" => canon.current_worker_id = None

\* The legacy ACTIVE worker gets generation 1 and a lease that is already over.
LeaseFromRow(row) ==
    LET base == [Unregistered EXCEPT !.registered_at = row.started_at,
                                     !.last_heartbeat_at = row.last_seen_at,
                                     !.ended_at = row.ended_at]
        heartbeat == IF row.last_seen_at = None THEN row.started_at ELSE row.last_seen_at
    IN  CASE row.status = "ACTIVE" ->
               [base EXCEPT !.status = "active", !.generation = 1,
                            !.claimed_at = row.started_at, !.last_heartbeat_at = heartbeat,
                            !.lease_expires_at = heartbeat]
          [] row.status = "SUPERSEDED" -> [base EXCEPT !.status = "superseded"]
          [] row.status = "DEAD" -> [base EXCEPT !.status = "abandoned"]
          [] OTHER -> Unregistered

StateFromLegacy(canon) ==
    [NewTaskState EXCEPT
        !.generation = IF canon.current_worker_id = None THEN 0 ELSE 1,
        !.task_status = IF canon.state = "COMPLETED" THEN "completed" ELSE "open",
        !.current_worker_id = canon.current_worker_id,
        !.completed_at = IF canon.state = "COMPLETED" THEN canon.updated_at ELSE None,
        !.workers = [w \in Worker |-> LeaseFromRow(canon.workers[w])]]
=============================================================================
