---------------------------- MODULE Replacement ----------------------------
(***************************************************************************)
(* Replacing the conversation that serves a child task: the write-ahead    *)
(* attempt of src/lws/replacement.py, its rows in src/lws/registry.py and  *)
(* the replacement-* commands of src/lws/cli.py.                           *)
(*                                                                         *)
(* The old conversation works through a run of the task's Local Shell MCP  *)
(* session.  A replacement observes that run and the workspace, records    *)
(* both with the protocol revision it saw (arm), authorises one takeover   *)
(* call to Local Shell (submit), and once the run has changed and the      *)
(* workspace has not, moves the worker lease to the candidate (complete).  *)
(*                                                                         *)
(* An operator is one CLI process; its pc names what it does next, and a   *)
(* crash can fall between any two steps.  A check that fails raises and    *)
(* ends the process, which is a crash too, so the actions state only the   *)
(* accepted cases.  The worker protocol is WorkerProtocol itself, one      *)
(* transition a step.                                                      *)
(*                                                                         *)
(* Abstractions: the session is bound and every observation is of it; run  *)
(* 0 stands for no active run; in-flight calls with a live heartbeat,      *)
(* tracked jobs and pending continuations are one set of runs with a call  *)
(* in flight; the update of a row (its read, transition check and write)   *)
(* is one step.                                                            *)
(*                                                                         *)
(* The workspace is what the code compares of it, a fingerprint: HEAD and  *)
(* a hash of `git status --porcelain`.  A call may write and leave it as   *)
(* it was (an edit of a file that is dirty already or lies in an untracked *)
(* directory, anything at all outside a Git repository), and may bring an  *)
(* earlier one back.  A HEAD that cannot be read counts as a failed        *)
(* observation.  A job nobody tracks, and a call whose heartbeat is older  *)
(* than Local Shell's two hours, write unobserved: see OutsideWrite.       *)
(***************************************************************************)
EXTENDS WorkerProtocol, FiniteSets

CONSTANTS
    Op,               \* operator processes
    MaxAttempts,      \* bound on the attempts of the task
    MaxRun,           \* bound on the runs of the session
    MaxWork,          \* bound on the fingerprints of the workspace, besides 0
    MaxRevision,      \* bound on the protocol revision (adopting takes two)
    MaxTime,          \* bound on the clock
    LeaseSeconds,
    MaxEvidenceAge    \* --max-evidence-age

ASSUME ReplacementAssumption ==
    /\ {MaxWork, MaxRevision, MaxTime, MaxEvidenceAge} \subseteq Nat
    /\ {MaxAttempts, MaxRun, LeaseSeconds} \subseteq Nat \ {0}
    /\ MaxRevision >= 2

Attempt == 1 .. MaxAttempts
Run == 0 .. MaxRun
Work == 0 .. MaxWork
Time == 0 .. MaxTime

VARIABLES
    snap,        \* the worker protocol of the task
    row,         \* replacement_attempts
    run,         \* the session's active run
    last,        \* the latest run the session has had
    inflight,    \* runs with a tool call in flight
    work,        \* the fingerprint of the workspace
    now,
    op,          \* where each operator process is
    ending,      \* the revision and time child-complete goes on with, or None
    authorised,  \* history: takeover requests printed, per attempt
    result,      \* the run an attempt's takeover call returned
    moved,       \* history: revision and active run of each protocol move
    writer       \* history: the run whose call last changed the fingerprint, or 0

vars == <<snap, row, run, last, inflight, work, now, op, ending,
          authorised, result, moved, writer>>

session == <<run, last, inflight, work, writer>>

-----------------------------------------------------------------------------
(***************************************************************************)
(* Attempt rows.                                                           *)
(***************************************************************************)
Unresolved == {"ARMED", "LSM_TAKEOVER_SUBMITTED", "RECONCILE_REQUIRED"}
AttemptState == {"unborn", "COMPLETED"} \cup Unresolved

Row == [state : AttemptState, candidate : OptWorker, expected_revision : Nat,
        previous_worker : OptWorker, previous_generation : Nat, previous_run : Run, work : Work]

Unborn == [state |-> "unborn", candidate |-> None, expected_revision |-> 0,
           previous_worker |-> None, previous_generation |-> 0, previous_run |-> 0, work |-> 0]

\* (No caller writes FAILED.)
Allowed(state) ==
    CASE state = "ARMED" -> {"LSM_TAKEOVER_SUBMITTED"}
      [] state = "LSM_TAKEOVER_SUBMITTED" -> {"RECONCILE_REQUIRED", "COMPLETED"}
      [] state = "RECONCILE_REQUIRED" -> {"COMPLETED"}
      [] OTHER -> {}

\* A write of the state the row already has is accepted and changes nothing.
UpdateOk(a, state) == state = row[a].state \/ state \in Allowed(row[a].state)
Update(a, state) == row' = [row EXCEPT ![a].state = state]

UnresolvedAttempts == {a \in Attempt : row[a].state \in Unresolved}

-----------------------------------------------------------------------------
(***************************************************************************)
(* Observations.  A run belongs to one conversation; a run that has been   *)
(* superseded starts no more calls, but one in flight may still finish.    *)
(***************************************************************************)
Observation == [run : Run, busy : BOOLEAN, at : Time]
Observed == [run |-> run, busy |-> inflight # {}, at |-> now]

Fresh(at) == now - at <= MaxEvidenceAge

\* A plausible bug: calls still in flight do not block.
SafeLsm_CallsIgnored(o) == o # None /\ Fresh(o.at)

SafeLsm(o) == o # None /\ Fresh(o.at) /\ ~o.busy

\* A plausible bug: a failed workspace observation does not block.
SafeWorkspace_ErrorIgnored(w) == TRUE

\* (The workspace is observed after Local Shell, so it is as fresh.)
SafeWorkspace(w) == w # None

Pc == {"idle", "arm_workspace", "arm", "record", "submit", "complete_workspace", "complete",
       "reconcile", "finish", "claim", "takeover", "abandon"}

Idle == [pc |-> "idle", attempt |-> 0, candidate |-> None, lsm |-> None, work |-> None,
         revision |-> 0, reported |-> 0, ts |-> 0, row |-> Unborn]

OpState == [pc : Pc, attempt : Attempt \cup {0}, candidate : OptWorker,
            lsm : Observation \cup {None}, work : Work \cup {None},
            revision : 0 .. MaxRevision, reported : Run, ts : Time, row : Row]

\* child-adopt has registered w and claimed the task for it.
Adopted(w) == Claim(Register(NewTaskState, w, 0), w, 0, LeaseSeconds)

\* The adopted conversation has resumed the session.
Init ==
    /\ \E w \in Worker : snap = Adopted(w)
    /\ row = [a \in Attempt |-> Unborn]
    /\ run = 1 /\ last = 1 /\ inflight = {} /\ work = 0
    /\ now = 0
    /\ op = [p \in Op |-> Idle]
    /\ ending = None
    /\ authorised = [a \in Attempt |-> 0]
    /\ result = [a \in Attempt |-> 0]
    /\ moved = [a \in Attempt |-> {}]
    /\ writer = 0

-----------------------------------------------------------------------------
Goto(p, o) == op' = [op EXCEPT ![p] = o]
Stop(p) == Goto(p, Idle)

\* _refresh_lsm: what the adapter sees.  When the adapter fails the code takes the last
\* recorded observation instead, which is that of a process that observed earlier.
RefreshLsm(p, o) == Goto(p, [o EXCEPT !.lsm = Observed])

\* _refresh_workspace: the fingerprint the probe took, or the error it recorded.
RefreshWorkspace(p, pc) ==
    \E w \in {work, None} : Goto(p, [op[p] EXCEPT !.pc = pc, !.work = w])

(***************************************************************************)
(* replacement-arm.                                                        *)
(***************************************************************************)
ArmCommand(p, c) ==
    /\ op[p].pc = "idle"
    /\ snap.workers[c].status # "unregistered"
    /\ RefreshLsm(p, [Idle EXCEPT !.pc = "arm_workspace", !.candidate = c])
    /\ UNCHANGED <<snap, row, session, now, ending, authorised, result, moved>>

ArmWorkspace(p) ==
    /\ op[p].pc = "arm_workspace"
    /\ RefreshWorkspace(p, "arm")
    /\ UNCHANGED <<snap, row, session, now, ending, authorised, result, moved>>

ArmOk(o) ==
    /\ UnresolvedAttempts = {}
    /\ snap.task_status = "open"
    /\ snap.workers[o.candidate].status = "candidate"
    /\ SafeLsm(o.lsm)
    /\ SafeWorkspace(o.work)
    /\ snap.current_worker_id # None => o.lsm.run # 0

\* The row as it will be recorded: what the completion is later compared with.
ArmedRow(o) ==
    [state |-> "ARMED", candidate |-> o.candidate, expected_revision |-> snap.revision,
     previous_worker |-> snap.current_worker_id, previous_generation |-> snap.generation,
     previous_run |-> o.lsm.run, work |-> o.work]

\* The checks read the registry outside a transaction; the row is inserted afterwards.
\* An unresolved browser action or probe mutation stops it too, at any time: see Crash.
Arm(p) ==
    /\ op[p].pc = "arm"
    /\ ArmOk(op[p])
    /\ Goto(p, [Idle EXCEPT !.pc = "record", !.row = ArmedRow(op[p])])
    /\ UNCHANGED <<snap, row, session, now, ending, authorised, result, moved>>

NextAttempts == {a \in Attempt : row[a] = Unborn /\ \A b \in 1 .. a - 1 : row[b] # Unborn}

\* record_replacement_attempt: the index admits one unresolved attempt.
Record(p) ==
    /\ op[p].pc = "record"
    /\ UnresolvedAttempts = {}
    /\ \E a \in NextAttempts : row' = [row EXCEPT ![a] = op[p].row]
    /\ Stop(p)
    /\ UNCHANGED <<snap, session, now, ending, authorised, result, moved>>

(***************************************************************************)
(* replacement-submit.  The state is read, then written; a process that    *)
(* finds it written meanwhile prints the request all the same.             *)
(***************************************************************************)
SubmitCommand(p, a) ==
    /\ op[p].pc = "idle"
    /\ row[a].state = "ARMED"
    /\ Goto(p, [Idle EXCEPT !.pc = "submit", !.attempt = a])
    /\ UNCHANGED <<snap, row, session, now, ending, authorised, result, moved>>

Submit(p) ==
    LET a == op[p].attempt IN
    /\ op[p].pc = "submit"
    /\ UpdateOk(a, "LSM_TAKEOVER_SUBMITTED")
    /\ Update(a, "LSM_TAKEOVER_SUBMITTED")
    /\ authorised' = [authorised EXCEPT ![a] = @ + 1]
    /\ Stop(p)
    /\ UNCHANGED <<snap, session, now, ending, result, moved>>

(***************************************************************************)
(* replacement-complete.  The operator reports the run the takeover call   *)
(* returned or, when the result was lost, the one the session shows.       *)
(***************************************************************************)
CompleteCommand(p, a, reported) ==
    /\ op[p].pc = "idle"
    /\ row[a] # Unborn
    /\ reported \in {result[a], run}
    /\ RefreshLsm(p, [Idle EXCEPT !.pc = "complete_workspace", !.attempt = a,
                                  !.reported = reported])
    /\ UNCHANGED <<snap, row, session, now, ending, authorised, result, moved>>

CompleteWorkspace(p) ==
    /\ op[p].pc = "complete_workspace"
    /\ RefreshWorkspace(p, "complete")
    /\ UNCHANGED <<snap, row, session, now, ending, authorised, result, moved>>

\* A plausible bug: the run the session shows need not differ from the one seen at arming.
Fenced_AnyRun(a, o) == o.reported # 0 /\ o.lsm.run = o.reported

\* The takeover is observable: another run is active, and it is the one reported.
Fenced(a, o) ==
    /\ o.reported # 0
    /\ o.lsm.run = o.reported
    /\ o.reported # row[a].previous_run

\* _completion_blockers found none.
CompletionOk(a, o) ==
    /\ SafeLsm(o.lsm)
    /\ Fenced(a, o)
    /\ SafeWorkspace(o.work)
    /\ o.work = row[a].work

\* Crash recovery: the lease moved, but the attempt's completion was not recorded.
AlreadyMoved(a) ==
    /\ snap.current_worker_id = row[a].candidate
    /\ snap.workers[row[a].candidate].status = "active"

\* A plausible bug: the revision recorded at arming is not compared.
Unchanged_Unchecked(a) == TRUE

Unchanged(a) == snap.revision = row[a].expected_revision

\* The next step of a completion nothing blocks.
Route(a) ==
    IF AlreadyMoved(a) THEN "finish"
    ELSE IF snap.current_worker_id = None THEN "claim"
    ELSE IF TakeoverEligible(snap, row[a].candidate, now) THEN "takeover"
    ELSE "abandon"

\* Whether nothing blocks the completion of a.
Admitted(a, o) ==
    /\ CompletionOk(a, o)
    /\ IF AlreadyMoved(a) THEN snap.generation > row[a].previous_generation ELSE Unchanged(a)

\* The guards the code repeats before a protocol move.
StillCurrent(a) ==
    \/ snap.current_worker_id = None
    \/ AlreadyMoved(a)
    \/ /\ snap.current_worker_id = row[a].previous_worker
       /\ snap.generation = row[a].previous_generation
       /\ TakeoverReason(snap, row[a].candidate, now) \in
              {"handoff", "lease_expired", "active_lease_fresh"}

\* An unresolved browser action or probe mutation may block any completion.
Complete(p) ==
    LET a == op[p].attempt IN
    /\ op[p].pc = "complete"
    /\ row[a].state \in {"LSM_TAKEOVER_SUBMITTED", "RECONCILE_REQUIRED"}
    /\ \/ Goto(p, [Idle EXCEPT !.pc = "reconcile", !.attempt = a])
       \/ /\ Admitted(a, op[p]) /\ StillCurrent(a)
          /\ Goto(p, [Idle EXCEPT !.pc = Route(a), !.attempt = a, !.revision = snap.revision,
                                  !.ts = now])
    /\ UNCHANGED <<snap, row, session, now, ending, authorised, result, moved>>

\* The blockers are recorded, or the completion.
WriteOutcome(p, state) ==
    /\ UpdateOk(op[p].attempt, state)
    /\ Update(op[p].attempt, state)
    /\ Stop(p)
    /\ UNCHANGED <<snap, session, now, ending, authorised, result, moved>>

Reconcile(p) == op[p].pc = "reconcile" /\ WriteOutcome(p, "RECONCILE_REQUIRED")
Finish(p) == op[p].pc = "finish" /\ WriteOutcome(p, "COMPLETED")

\* A protocol transition with the revision the process loaded, at the time it read first.
Move(p, ok, s, next) ==
    LET a == op[p].attempt IN
    /\ ok /\ op[p].revision = snap.revision /\ snap.revision < MaxRevision
    /\ snap' = s
    /\ moved' = [moved EXCEPT ![a] = @ \cup {[revision |-> snap.revision, run |-> run]}]
    /\ Goto(p, [op[p] EXCEPT !.pc = next, !.revision = s.revision])
    /\ UNCHANGED <<row, session, now, ending, authorised, result>>

MoveByClaim(p) ==
    LET c == row[op[p].attempt].candidate IN
    /\ op[p].pc = "claim"
    /\ Move(p, ClaimOk(snap, c), Claim(snap, c, op[p].ts, LeaseSeconds), "finish")

MoveByTakeover(p) ==
    LET c == row[op[p].attempt].candidate IN
    /\ op[p].pc = "takeover"
    /\ Move(p, TakeoverEligible(snap, c, op[p].ts),
            Takeover(snap, c, op[p].ts, LeaseSeconds), "finish")

\* A plausible bug: the attempt is completed without the claim that follows the abandonment.
Abandon_WithoutClaim(p) ==
    LET w == row[op[p].attempt].previous_worker IN
    /\ op[p].pc = "abandon"
    /\ Move(p, AbandonWorkerOk(snap, w, row[op[p].attempt].previous_generation),
            AbandonWorker(snap, w, op[p].ts), "finish")

\* Abandoning the old worker and claiming for the candidate are two transactions.
Abandon(p) ==
    LET w == row[op[p].attempt].previous_worker IN
    /\ op[p].pc = "abandon"
    /\ Move(p, AbandonWorkerOk(snap, w, row[op[p].attempt].previous_generation),
            AbandonWorker(snap, w, op[p].ts), "claim")

\* The process dies, or ends because a check or a write was refused.
Crash(p) ==
    /\ op[p].pc # "idle"
    /\ Stop(p)
    /\ UNCHANGED <<snap, row, session, now, ending, authorised, result, moved>>

-----------------------------------------------------------------------------
(***************************************************************************)
(* The other users of the task's protocol: replacement-register,           *)
(* child-adopt, the holder's lease renewal and handoff request, and        *)
(* child-complete.                                                         *)
(***************************************************************************)
Protocol(s) ==
    /\ snap.revision < MaxRevision
    /\ snap' = s
    /\ UNCHANGED <<row, session, now, op, authorised, result, moved>>

RegisterCandidate(w) ==
    /\ RegisterOk(snap, w)
    /\ Protocol(Register(snap, w, now)) /\ UNCHANGED ending

AdoptClaim(w) ==
    /\ ClaimOk(snap, w)
    /\ Protocol(Claim(snap, w, now, LeaseSeconds)) /\ UNCHANGED ending

Renew(w) ==
    /\ HeartbeatOk(snap, w, snap.generation, now)
    /\ Protocol(Heartbeat(snap, w, now, LeaseSeconds)) /\ UNCHANGED ending

RequestHandoffTo(w, c) ==
    /\ RequestHandoffOk(snap, w, c, snap.generation, now)
    /\ Protocol(RequestHandoff(snap, c, now)) /\ UNCHANGED ending

\* child-complete looks for an unresolved replacement and loads the protocol; a task that is
\* completed already is left as it is.
ChildCompleteLoad ==
    /\ ending = None
    /\ UnresolvedAttempts = {}
    /\ snap.task_status = "open"
    /\ ending' = [revision |-> snap.revision, ts |-> now]
    /\ UNCHANGED <<snap, row, session, now, op, authorised, result, moved>>

\* It ends the worker it loaded, and goes on from the revision that makes.
ChildCompleteEnd ==
    LET w == snap.current_worker_id IN
    /\ ending # None /\ ending.revision = snap.revision
    /\ w # None
    /\ \/ /\ CompleteWorkerOk(snap, w, snap.generation, ending.ts)
          /\ Protocol(CompleteWorker(snap, w, ending.ts))
       \/ /\ ~LeaseIsFresh(snap, w, ending.ts)
          /\ Protocol(AbandonWorker(snap, w, ending.ts))
    /\ ending' = [ending EXCEPT !.revision = @ + 1]

\* Then it completes the task.
ChildCompleteTask ==
    /\ ending # None /\ ending.revision = snap.revision
    /\ CompleteTaskOk(snap)
    /\ Protocol(CompleteTask(snap, ending.ts))
    /\ ending' = None

\* The process dies, or a transition was refused (the revision has moved on).
ChildCompleteStops ==
    /\ ending # None
    /\ ending' = None
    /\ UNCHANGED <<snap, row, session, now, op, authorised, result, moved>>

-----------------------------------------------------------------------------
(***************************************************************************)
(* Local Shell and the conversations that call it (external).              *)
(***************************************************************************)
registryVars == <<snap, row, now, op, ending, authorised, moved>>

\* A resume starts a new run, which supersedes the active one.
NewRun ==
    /\ last < MaxRun
    /\ last' = last + 1 /\ run' = last + 1
    /\ UNCHANGED <<inflight, work, writer>>

\* The authorised call, made at any time after it was printed; without a run to supersede it
\* asks for no takeover and is refused while a run is active.
TakeoverCall(a) ==
    /\ authorised[a] > 0 /\ result[a] = 0
    /\ row[a].previous_run # 0 \/ run = 0
    /\ NewRun
    /\ result' = [result EXCEPT ![a] = last + 1]
    /\ UNCHANGED registryVars

\* Any other conversation resuming the session.
OtherResume == NewRun /\ UNCHANGED <<registryVars, result>>

RunEnds ==
    /\ run # 0
    /\ run' = 0
    /\ UNCHANGED <<registryVars, result, last, inflight, work, writer>>

CallStarts ==
    /\ run # 0
    /\ inflight' = inflight \cup {run}
    /\ UNCHANGED <<registryVars, result, run, last, work, writer>>

\* The call may have written or not, and a write need not show in the fingerprint.
CallFinishes(r) ==
    /\ r \in inflight
    /\ inflight' = inflight \ {r}
    /\ work' \in Work
    /\ writer' = IF work' # work THEN r ELSE writer
    /\ UNCHANGED <<registryVars, result, run, last>>

\* The user, or what Local Shell does unobserved, changes the workspace.
OutsideWrite ==
    /\ work' \in Work \ {work}
    /\ writer' = 0
    /\ UNCHANGED <<registryVars, result, run, last, inflight>>

Tick ==
    /\ now < MaxTime
    /\ now' = now + 1
    /\ UNCHANGED <<snap, row, session, op, ending, authorised, result, moved>>

Next ==
    \/ \E p \in Op :
          \/ \E c \in Worker : ArmCommand(p, c)
          \/ \E a \in Attempt : SubmitCommand(p, a)
          \/ \E a \in Attempt, r \in Run : CompleteCommand(p, a, r)
          \/ ArmWorkspace(p) \/ Arm(p) \/ Record(p) \/ Submit(p)
          \/ CompleteWorkspace(p) \/ Complete(p) \/ Reconcile(p) \/ Finish(p)
          \/ MoveByClaim(p) \/ MoveByTakeover(p) \/ Abandon(p) \/ Crash(p)
    \/ \E w \in Worker :
          \/ RegisterCandidate(w) \/ AdoptClaim(w) \/ Renew(w)
          \/ \E c \in Worker : RequestHandoffTo(w, c)
    \/ ChildCompleteLoad \/ ChildCompleteEnd \/ ChildCompleteTask \/ ChildCompleteStops
    \/ \E a \in Attempt : TakeoverCall(a)
    \/ \E r \in Run : CallFinishes(r)
    \/ OtherResume \/ RunEnds \/ CallStarts \/ OutsideWrite \/ Tick

Spec == Init /\ [][Next]_vars

-----------------------------------------------------------------------------
TypeOK ==
    /\ snap \in Snapshot
    /\ row \in [Attempt -> Row]
    /\ run \in {0, last} /\ last \in Run /\ inflight \subseteq Run \ {0}
    /\ work \in Work /\ writer \in Run
    /\ now \in Time
    /\ op \in [Op -> OpState]
    /\ ending \in [revision : 0 .. MaxRevision, ts : Time] \cup {None}
    /\ authorised \in [Attempt -> Nat] /\ result \in [Attempt -> Run]
    /\ moved \in [Attempt -> SUBSET [revision : 0 .. MaxRevision, run : Run]]

\* A replacement moves the worker lease only once the run that was active when it was armed
\* has been superseded: the old conversation can no longer act through Local Shell when its
\* lease is taken, whatever was observed, reported or lost in between.
FencedFirst ==
    \A a \in Attempt : \A m \in moved[a] : row[a].previous_run # 0 => m.run # row[a].previous_run

\* Whatever the calls of run r changed last in the fingerprint is part of fingerprint x.
LeftAt(r, x) == r # 0 /\ writer = r => work = x

\* No visible work is lost: when a replacement moves the lease, and ever after, a fingerprint
\* made by a call of the old run is the one recorded at arming; a call in flight across the
\* takeover is caught because Local Shell is observed before the workspace.  (What Git status
\* does not show of the old run's writes is not covered: the code cannot see it.)
NoVisibleWorkOverlooked ==
    \A a \in Attempt : moved[a] # {} => LeftAt(row[a].previous_run, row[a].work)

\* The lease moves from the protocol state the attempt was armed on and no other: a worker
\* granted, renewed or handed to since then is not displaced, and a candidate is claimed for
\* after an abandonment only by the process that made it, with nothing in between.
NothingIntervened ==
    \A a \in Attempt :
        LET from == {m.revision : m \in moved[a]}
            expected == row[a].expected_revision
        IN  from \in {{}, {expected}, {expected, expected + 1}}

\* An attempt is COMPLETED only when its candidate has been granted a generation newer than
\* the one it replaces, also when a crash separates the move from its record.
CompletedGrantsNewer ==
    \A a \in Attempt : row[a].state = "COMPLETED" =>
        LET lease == snap.workers[row[a].candidate] IN
        lease.generation # None /\ lease.generation > row[a].previous_generation

=============================================================================
