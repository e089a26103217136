--------------------------- MODULE WorkerProtocol ---------------------------
(***************************************************************************)
(* The pure worker-lease protocol of src/lws/worker_protocol.py.           *)
(*                                                                         *)
(* A durable task outlives the web conversations ("workers") that serve    *)
(* it.  A snapshot s holds the task's protocol row and the lease of every  *)
(* worker; a conversation never registered has the lease Unregistered.     *)
(* Each transition of the code is a pair of operators here: XxxOk is the   *)
(* conjunction of the checks that must pass for the decision to be         *)
(* accepted (otherwise the code returns a rejected decision and the        *)
(* snapshot is not touched) and Xxx is the accepted next snapshot,         *)
(* revision bump of _accept included.                                      *)
(*                                                                         *)
(* Abstractions: worker ids stand for their conversation_ref, which no     *)
(* transition changes; the task's lineage is constant and left out, and    *)
(* completion_ref is a non-empty reference; timestamps are naturals.       *)
(***************************************************************************)
EXTENDS Naturals

CONSTANTS
    Worker,   \* conversation workers
    None      \* Python's None

ASSUME WorkerAssumption == None \notin Worker /\ None \notin Nat

Terminal == {"superseded", "completed", "abandoned"}
LeaseStatus == {"unregistered", "candidate", "active"} \cup Terminal

OptTime == Nat \cup {None}
OptWorker == Worker \cup {None}

Lease == [status : LeaseStatus, registered_at : OptTime, generation : OptTime,
          claimed_at : OptTime, last_heartbeat_at : OptTime, lease_expires_at : OptTime,
          ended_at : OptTime, superseded_by : OptWorker]

Snapshot == [revision : Nat, generation : Nat, task_status : {"open", "completed"},
             current_worker_id : OptWorker, handoff_target_worker_id : OptWorker,
             handoff_requested_at : OptTime, completed_at : OptTime,
             workers : [Worker -> Lease]]

Unregistered == [status |-> "unregistered", registered_at |-> None, generation |-> None,
                 claimed_at |-> None, last_heartbeat_at |-> None, lease_expires_at |-> None,
                 ended_at |-> None, superseded_by |-> None]

\* A candidate holds a registration and nothing else.
Candidate(now) == [Unregistered EXCEPT !.status = "candidate", !.registered_at = now]

(***************************************************************************)
(* new_task_state: the snapshot of a task no conversation has served yet.  *)
(***************************************************************************)
NewTaskState == [revision |-> 0, generation |-> 0, task_status |-> "open",
                 current_worker_id |-> None, handoff_target_worker_id |-> None,
                 handoff_requested_at |-> None, completed_at |-> None,
                 workers |-> [w \in Worker |-> Unregistered]]

Active(s) == {w \in Worker : s.workers[w].status = "active"}

-----------------------------------------------------------------------------
(***************************************************************************)
(* validate_state, conjunct by conjunct.  The code evaluates it before and *)
(* after every transition and raises ProtocolInvariantError when it fails. *)
(***************************************************************************)
CurrentIsSoleActive(s) ==
    Active(s) = IF s.current_worker_id = None THEN {} ELSE {s.current_worker_id}

CurrentOwnsGeneration(s) ==
    s.current_worker_id # None =>
        /\ s.generation > 0
        /\ s.workers[s.current_worker_id].generation = s.generation
        /\ s.workers[s.current_worker_id].lease_expires_at # None

HandoffWellFormed(s) ==
    IF s.handoff_target_worker_id = None
    THEN s.handoff_requested_at = None
    ELSE /\ s.current_worker_id # None
         /\ s.handoff_requested_at # None
         /\ s.workers[s.handoff_target_worker_id].status = "candidate"

CompletedTaskHasNoWorker(s) ==
    s.task_status = "completed" => s.current_worker_id = None /\ s.completed_at # None

ValidState(s) ==
    /\ CurrentIsSoleActive(s)
    /\ CurrentOwnsGeneration(s)
    /\ HandoffWellFormed(s)
    /\ CompletedTaskHasNoWorker(s)

-----------------------------------------------------------------------------
(***************************************************************************)
(* Freshness, authority and takeover eligibility.                          *)
(***************************************************************************)
LeaseIsFresh(s, w, now) ==
    /\ s.task_status = "open"
    /\ s.current_worker_id = w
    /\ s.workers[w].status = "active"
    /\ s.workers[w].generation = s.generation
    /\ s.workers[w].lease_expires_at # None
    /\ now < s.workers[w].lease_expires_at

\* The lease timeline of w never lies in the caller's future (CLOCK_ROLLBACK).
NotBeforeTimeline(s, w, now) ==
    \A t \in {s.workers[w].claimed_at, s.workers[w].last_heartbeat_at} \ {None} : t <= now

OwnsGeneration(s, w, g) ==
    /\ s.task_status = "open"
    /\ s.current_worker_id = w
    /\ s.workers[w].status = "active"
    /\ s.workers[w].generation = g
    /\ g = s.generation

\* A plausible bug: the clock-rollback rejection is forgotten.
HasAuthority_NoRollbackCheck(s, w, g, now) ==
    OwnsGeneration(s, w, g) /\ LeaseIsFresh(s, w, now)

\* _authority_rejection returned no rejection.
HasAuthority(s, w, g, now) ==
    /\ OwnsGeneration(s, w, g)
    /\ NotBeforeTimeline(s, w, now)
    /\ LeaseIsFresh(s, w, now)

TakeoverReasons == {"task_closed", "unknown_candidate", "not_candidate", "no_active_worker",
                    "handoff", "lease_expired", "active_lease_fresh"}

\* takeover_eligibility: the first reason that applies decides.
TakeoverReason(s, c, now) ==
    CASE s.task_status # "open" -> "task_closed"
      [] s.task_status = "open" /\ s.workers[c].status = "unregistered" -> "unknown_candidate"
      [] s.task_status = "open" /\ s.workers[c].status \notin {"unregistered", "candidate"}
            -> "not_candidate"
      [] OTHER -> IF s.current_worker_id = None THEN "no_active_worker"
                  ELSE IF s.handoff_target_worker_id = c THEN "handoff"
                  ELSE IF LeaseIsFresh(s, s.current_worker_id, now) THEN "active_lease_fresh"
                  ELSE "lease_expired"

TakeoverEligible(s, c, now) == TakeoverReason(s, c, now) \in {"handoff", "lease_expired"}

-----------------------------------------------------------------------------
(***************************************************************************)
(* The transitions.                                                        *)
(***************************************************************************)
\* _accept stamps the next revision on every accepted mutation.
Accept(s) == [s EXCEPT !.revision = @ + 1]

\* The lease of a candidate that has just been granted generation g.
Granted(lease, g, now, lease_seconds) ==
    [lease EXCEPT !.status = "active", !.generation = g, !.claimed_at = now,
                  !.last_heartbeat_at = now, !.lease_expires_at = now + lease_seconds]

\* The other ways a lease changes: renewed, superseded by worker c, completed or abandoned.
Renewed(lease, now, lease_seconds) ==
    [lease EXCEPT !.last_heartbeat_at = now, !.lease_expires_at = now + lease_seconds]
Superseded(lease, c, now) ==
    [lease EXCEPT !.status = "superseded", !.ended_at = now, !.superseded_by = c]
Ended(lease, status, now) ==
    [lease EXCEPT !.status = status, !.ended_at = now, !.lease_expires_at = now]

\* Common to claim, takeover, completion and abandonment: a new holder, no handoff pending.
SetHolder(s, holder) ==
    [s EXCEPT !.current_worker_id = holder, !.handoff_target_worker_id = None,
              !.handoff_requested_at = None]

RegisterOk(s, w) == s.task_status = "open" /\ s.workers[w].status = "unregistered"
Register(s, w, now) == Accept([s EXCEPT !.workers[w] = Candidate(now)])

\* A plausible bug: the claim does not look at the current holder.
ClaimOk_HolderIgnored(s, w) == s.task_status = "open" /\ s.workers[w].status = "candidate"

ClaimOk(s, w) ==
    /\ s.task_status = "open"
    /\ s.workers[w].status = "candidate"
    /\ s.current_worker_id = None
Claim(s, w, now, lease_seconds) ==
    Accept([SetHolder(s, w) EXCEPT
              !.generation = @ + 1,
              !.workers[w] = Granted(s.workers[w], s.generation + 1, now, lease_seconds)])

HeartbeatOk(s, w, g, now) == HasAuthority(s, w, g, now)
Heartbeat(s, w, now, lease_seconds) ==
    Accept([s EXCEPT !.workers[w] = Renewed(s.workers[w], now, lease_seconds)])

RequestHandoffOk(s, w, target, g, now) ==
    HasAuthority(s, w, g, now) /\ s.workers[target].status = "candidate"
RequestHandoff(s, target, now) ==
    Accept([s EXCEPT !.handoff_target_worker_id = target, !.handoff_requested_at = now])

\* A plausible bug: the takeover forgets to supersede the old worker's lease.
Takeover_OldLeaseKept(s, c, now, lease_seconds) ==
    Accept([SetHolder(s, c) EXCEPT
              !.generation = @ + 1,
              !.workers[c] = Granted(s.workers[c], s.generation + 1, now, lease_seconds)])

\* A plausible bug: the takeover grants authority without a new generation.
Takeover_SameGeneration(s, c, now, lease_seconds) ==
    Accept([SetHolder(s, c) EXCEPT
              !.workers[s.current_worker_id] =
                  Superseded(s.workers[s.current_worker_id], c, now),
              !.workers[c] = Granted(s.workers[c], s.generation, now, lease_seconds)])

Takeover(s, c, now, lease_seconds) ==
    Accept([SetHolder(s, c) EXCEPT
              !.generation = @ + 1,
              !.workers[s.current_worker_id] =
                  Superseded(s.workers[s.current_worker_id], c, now),
              !.workers[c] = Granted(s.workers[c], s.generation + 1, now, lease_seconds)])

\* complete_worker and abandon_worker end the lease at now and free the task.
EndWorker(s, w, status, now) ==
    Accept([SetHolder(s, None) EXCEPT !.workers[w] = Ended(s.workers[w], status, now)])

CompleteWorkerOk(s, w, g, now) == HasAuthority(s, w, g, now)
CompleteWorker(s, w, now) == EndWorker(s, w, "completed", now)

\* Abandonment needs ownership, not a fresh lease: it fences a conversation that disappeared.
AbandonWorkerOk(s, w, g) == OwnsGeneration(s, w, g)
AbandonWorker(s, w, now) == EndWorker(s, w, "abandoned", now)

CompleteTaskOk(s) == s.task_status = "open" /\ s.current_worker_id = None
CompleteTask(s, now) == Accept([s EXCEPT !.task_status = "completed", !.completed_at = now])
=============================================================================
