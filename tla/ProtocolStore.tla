---------------------------- MODULE ProtocolStore ----------------------------
(***************************************************************************)
(* One task's worker protocol as src/lws/worker_persistence.py persists it *)
(* and the Registry.protocol_* methods of src/lws/registry.py drive it.    *)
(*                                                                         *)
(* Proc are the processes holding a Registry connection (CLI commands, the *)
(* watchdog host, child batch helpers).  A process loads a snapshot        *)
(* outside any transaction, decides, and later applies one transition with *)
(* the revision it saw as expected_revision.  The load is two SELECTs (the *)
(* task row, then the lease rows), and another process may commit between  *)
(* them, so a view can be torn.  The transition itself re-reads, checks    *)
(* and writes under BEGIN IMMEDIATE and is one step here.                  *)
(*                                                                         *)
(* Timestamps come from each caller's wall clock: any member of Times at   *)
(* any step, so clock skew and rollback are included.  A rejected          *)
(* transition rolls back and is a stuttering step.                         *)
(***************************************************************************)
EXTENDS LegacyMirror, Sequences

CONSTANTS
    Proc,           \* processes with a registry connection
    Binders,        \* the processes that also record window bindings
    Times,          \* wall-clock readings
    LegacyTimes,    \* timestamps of the rows that predate the protocol
    LeaseSeconds,   \* lease lengths callers ask for
    MaxRevision     \* bound: no transition is tried at this revision

ASSUME StoreAssumption ==
    /\ Times \subseteq Nat
    /\ LegacyTimes \subseteq Nat
    /\ LeaseSeconds \subseteq Nat \ {0}
    /\ MaxRevision \in Nat
    /\ Binders \subseteq Proc
    /\ None \notin Snapshot

VARIABLES
    snap,      \* worker_protocol_tasks row and worker_protocol_leases rows
    canon,     \* tasks row and workers rows
    bound,     \* workers with a worker_window_bindings row
    events,    \* worker_protocol_events, in (revision, event_index) order
    reading,   \* per process: the task row of a load in progress, or None
    view,      \* per process: the snapshot its next transition relies on, or None
    binding    \* per process: the worker a bind_worker_window checked, or None

vars == <<snap, canon, bound, events, reading, view, binding>>

EventKind == {"worker_registered", "lease_claimed", "heartbeat_accepted", "handoff_requested",
              "worker_superseded", "lease_taken_over", "worker_completed", "worker_abandoned",
              "task_completed"}

Event == [kind : EventKind, revision : Nat, at : Nat, worker_id : OptWorker,
          generation : OptTime, related_worker_id : OptWorker,
          ref : TakeoverReasons \cup {None}]

TypeOK ==
    /\ snap \in Snapshot
    /\ canon \in Canon
    /\ bound \subseteq Worker
    /\ events \in Seq(Event)
    /\ reading \in [Proc -> Snapshot \cup {None}]
    /\ view \in [Proc -> Snapshot \cup {None}]
    /\ binding \in [Proc -> OptWorker]

-----------------------------------------------------------------------------
(***************************************************************************)
(* Initially the protocol has just been bootstrapped from canonical rows   *)
(* the legacy API can leave behind (create_child_dispatch bootstraps a     *)
(* task that has no workers yet).                                          *)
(***************************************************************************)
LegacyRows ==
    {NoRow}
    \cup [status : {"ACTIVE"}, started_at : LegacyTimes,
          last_seen_at : LegacyTimes \cup {None}, ended_at : {None}]
    \cup [status : {"SUPERSEDED", "DEAD"}, started_at : LegacyTimes,
          last_seen_at : LegacyTimes \cup {None}, ended_at : LegacyTimes]

InitialCanon ==
    {c \in [state : {"OPEN", "COMPLETED"}, updated_at : LegacyTimes,
            current_worker_id : OptWorker, workers : [Worker -> LegacyRows]] : BootstrapOk(c)}

Init ==
    /\ canon \in InitialCanon
    /\ snap = StateFromLegacy(canon)
    /\ bound = {}
    /\ events = << >>
    /\ reading = [p \in Proc |-> None]
    /\ view = [p \in Proc |-> None]
    /\ binding = [p \in Proc |-> None]

-----------------------------------------------------------------------------
\* A connection is used by one sequential caller: nothing else starts inside a load or a bind.
Idle(p) == reading[p] = None /\ binding[p] = None

(***************************************************************************)
(* load_worker_protocol outside a transaction.                             *)
(***************************************************************************)
LoadTaskRow(p) ==
    /\ Idle(p)
    /\ reading' = [reading EXCEPT ![p] = snap]
    /\ UNCHANGED <<snap, canon, bound, events, view, binding>>

\* A plausible bug: the lease rows are read before the task row that carries the revision.
Assemble_RowReadLast(row, s) == [s EXCEPT !.workers = row.workers]

\* The task row of the first SELECT with the lease rows of the second.
Assemble(row, s) == [row EXCEPT !.workers = s.workers]

\* A torn view that fails validate_state raises; the later canonical check may raise as well.
LoadLeaseRows(p) ==
    /\ reading[p] # None
    /\ \/ /\ ValidState(Assemble(reading[p], snap))
          /\ view' = [view EXCEPT ![p] = Assemble(reading[p], snap)]
       \/ view' = [view EXCEPT ![p] = None]
    /\ reading' = [reading EXCEPT ![p] = None]
    /\ UNCHANGED <<snap, canon, bound, events, binding>>

-----------------------------------------------------------------------------
(***************************************************************************)
(* apply_worker_protocol_transition.  validate_state, the canonical check  *)
(* and the round-trip comparison are not guards: SnapshotValid and         *)
(* MirrorConsistent say that they never fire.                              *)
(***************************************************************************)
\* A plausible bug: neither the pure check nor the SQL update compares the revision.
RevisionMatches_Unchecked(p) == view[p] # None

RevisionMatches(p) == view[p] # None /\ view[p].revision = snap.revision

CanApply(p) == Idle(p) /\ RevisionMatches(p) /\ snap.revision < MaxRevision

KeptBindings(s) == bound \cap Active(s)

Commit(p, s, evs, now) ==
    /\ snap' = s
    /\ canon' = Sync(canon, s, now)
    /\ bound' = KeptBindings(s)
    /\ events' = events \o evs
    /\ view' = [view EXCEPT ![p] = s]
    /\ UNCHANGED <<reading, binding>>

\* An event stamped with the revision of the accepted mutation.
Stamp(kind, now, w, g, related, ref) ==
    [kind |-> kind, revision |-> snap.revision + 1, at |-> now, worker_id |-> w,
     generation |-> g, related_worker_id |-> related, ref |-> ref]

ProtocolRegisterWorker(p, w, now) ==
    /\ CanApply(p)
    /\ RegisterOk(snap, w)
    /\ Commit(p, Register(snap, w, now),
              <<Stamp("worker_registered", now, w, None, None, None)>>, now)

ProtocolClaimWorker(p, w, now, lease_seconds) ==
    /\ CanApply(p)
    /\ ClaimOk(snap, w)
    /\ Commit(p, Claim(snap, w, now, lease_seconds),
              <<Stamp("lease_claimed", now, w, snap.generation + 1, None, None)>>, now)

ProtocolHeartbeatWorker(p, w, g, now, lease_seconds) ==
    /\ CanApply(p)
    /\ HeartbeatOk(snap, w, g, now)
    /\ Commit(p, Heartbeat(snap, w, now, lease_seconds),
              <<Stamp("heartbeat_accepted", now, w, g, None, None)>>, now)

ProtocolRequestHandoff(p, w, target, g, now) ==
    /\ CanApply(p)
    /\ RequestHandoffOk(snap, w, target, g, now)
    /\ Commit(p, RequestHandoff(snap, target, now),
              <<Stamp("handoff_requested", now, w, g, target, None)>>, now)

ProtocolTakeoverWorker(p, c, now, lease_seconds) ==
    LET old == snap.current_worker_id IN
    /\ CanApply(p)
    /\ TakeoverEligible(snap, c, now)
    /\ Commit(p, Takeover(snap, c, now, lease_seconds),
              <<Stamp("worker_superseded", now, old, snap.workers[old].generation, c, None),
                Stamp("lease_taken_over", now, c, snap.generation + 1, old,
                      TakeoverReason(snap, c, now))>>, now)

ProtocolCompleteWorker(p, w, g, now) ==
    /\ CanApply(p)
    /\ CompleteWorkerOk(snap, w, g, now)
    /\ Commit(p, CompleteWorker(snap, w, now),
              <<Stamp("worker_completed", now, w, g, None, None)>>, now)

ProtocolAbandonWorker(p, w, g, now) ==
    /\ CanApply(p)
    /\ AbandonWorkerOk(snap, w, g)
    /\ Commit(p, AbandonWorker(snap, w, now),
              <<Stamp("worker_abandoned", now, w, g, None, None)>>, now)

ProtocolCompleteTask(p, now) ==
    /\ CanApply(p)
    /\ CompleteTaskOk(snap)
    /\ Commit(p, CompleteTask(snap, now),
              <<Stamp("task_completed", now, None, snap.generation, None, None)>>, now)

-----------------------------------------------------------------------------
(***************************************************************************)
(* bind_worker_window reads the worker's status and inserts the binding in *)
(* separate statements; clear_worker_window_binding is one DELETE.         *)
(***************************************************************************)
\* A plausible bug: any worker that may still serve can be bound.
BindCheckActive_ParkedToo(p, w) ==
    /\ Idle(p)
    /\ canon.workers[w].status \in {"ACTIVE", "PARKED"}
    /\ binding' = [binding EXCEPT ![p] = w]
    /\ UNCHANGED <<snap, canon, bound, events, reading, view>>

BindCheckActive(p, w) ==
    /\ Idle(p)
    /\ canon.workers[w].status = "ACTIVE"
    /\ binding' = [binding EXCEPT ![p] = w]
    /\ UNCHANGED <<snap, canon, bound, events, reading, view>>

BindInsert(p) ==
    /\ binding[p] # None
    /\ bound' = bound \cup {binding[p]}
    /\ binding' = [binding EXCEPT ![p] = None]
    /\ UNCHANGED <<snap, canon, events, reading, view>>

ClearBinding(p, w) ==
    /\ Idle(p)
    /\ w \in bound
    /\ bound' = bound \ {w}
    /\ UNCHANGED <<snap, canon, events, reading, view, binding>>

-----------------------------------------------------------------------------
Generations(p) == IF view[p] = None THEN {} ELSE 0 .. view[p].generation

Transition(p) ==
    \E now \in Times :
        \/ ProtocolCompleteTask(p, now)
        \/ \E w \in Worker :
              \/ ProtocolRegisterWorker(p, w, now)
              \/ \E g \in Generations(p) :
                    \/ ProtocolCompleteWorker(p, w, g, now)
                    \/ ProtocolAbandonWorker(p, w, g, now)
                    \/ \E target \in Worker : ProtocolRequestHandoff(p, w, target, g, now)
                    \/ \E secs \in LeaseSeconds : ProtocolHeartbeatWorker(p, w, g, now, secs)
              \/ \E secs \in LeaseSeconds :
                    \/ ProtocolClaimWorker(p, w, now, secs)
                    \/ ProtocolTakeoverWorker(p, w, now, secs)

WindowBinding(p) ==
    \/ BindInsert(p)
    \/ \E w \in Worker : BindCheckActive(p, w) \/ ClearBinding(p, w)

Next ==
    \/ \E p \in Proc : LoadTaskRow(p) \/ LoadLeaseRows(p) \/ Transition(p)
    \/ \E p \in Binders : WindowBinding(p)

Spec == Init /\ [][Next]_vars

-----------------------------------------------------------------------------
(***************************************************************************)
(* Safety of the persisted state.                                          *)
(***************************************************************************)
\* validate_state holds of every persisted snapshot, so the re-validation that _accept,
\* apply_worker_protocol_transition and every load perform never raises: at most one ACTIVE
\* worker, owning the current generation, a handoff only towards a candidate, and none after
\* the task is completed.
SnapshotValid == ValidState(snap)

\* The canonical tasks/workers rows always satisfy _validate_legacy_consistency: no sequence of
\* protocol transitions can lock the task out of its own loader.
MirrorConsistent == LegacyConsistent(canon, snap)

\* The revision a process holds vouches for everything it read: a view, torn by concurrent
\* commits between its two SELECTs or not, that still carries the stored revision is the stored
\* snapshot.  This is what makes comparing the revision alone (expected_revision) sufficient.
RevisionVouchesForView ==
    \A p \in Proc : view[p] # None /\ view[p].revision = snap.revision => view[p] = snap

\* No transition commits for a process whose view is stale or torn (STALE_REVISION).
CommitsFromCurrentView ==
    [][snap' # snap => \E p \in Proc : view[p] = snap /\ view'[p] = snap']_vars

-----------------------------------------------------------------------------
(***************************************************************************)
(* What the append-only event log shows.                                   *)
(***************************************************************************)
GrantKinds == {"lease_claimed", "lease_taken_over"}
EndKinds == {"worker_superseded", "worker_completed", "worker_abandoned"}
HolderKinds == GrantKinds \cup EndKinds \cup {"heartbeat_accepted", "handoff_requested"}

\* Once a lease generation has been superseded, completed or abandoned, no later event of any
\* process is accepted for it, and the conversation that held it is never granted another:
\* "After supersession, old-worker heartbeats or completions are fenced even if they arrive late".
FencedForever ==
    \A i, j \in DOMAIN events :
        /\ i < j
        /\ events[i].kind \in EndKinds
        /\ events[j].kind \in HolderKinds
        => /\ events[j].generation > events[i].generation
           /\ events[j].worker_id # events[i].worker_id

\* The log alone tells who holds authority: the last grant or end event is the current holder's
\* grant at the current generation, or the end of the last holder.
LogNamesHolder ==
    \A i \in DOMAIN events :
        /\ events[i].kind \in GrantKinds \cup EndKinds
        /\ \A j \in DOMAIN events : j > i => events[j].kind \notin GrantKinds \cup EndKinds
        => IF events[i].kind \in GrantKinds
           THEN /\ snap.current_worker_id = events[i].worker_id
                /\ snap.generation = events[i].generation
           ELSE snap.current_worker_id = None

\* Whatever the callers' clocks do, the renewals of one generation never go back in time
\* (CLOCK_ROLLBACK): a grant or heartbeat is never later than a subsequent accepted heartbeat,
\* handoff request or completion of that generation.
RenewalsMonotone ==
    \A i, j \in DOMAIN events :
        /\ i < j
        /\ events[i].generation = events[j].generation
        /\ events[i].kind \in GrantKinds \cup {"heartbeat_accepted"}
        /\ events[j].kind \in {"heartbeat_accepted", "handoff_requested", "worker_completed"}
        => events[i].at <= events[j].at

\* A takeover granted by "handoff" was asked for by the superseded worker itself, for that very
\* candidate, and no later request of the same generation named somebody else.
HandoffWasRequested ==
    \A j \in DOMAIN events :
        events[j].kind = "lease_taken_over" /\ events[j].ref = "handoff" =>
            \E i \in 1 .. j - 1 :
                /\ events[i].kind = "handoff_requested"
                /\ events[i].generation = events[j].generation - 1
                /\ events[i].worker_id = events[j].related_worker_id
                /\ events[i].related_worker_id = events[j].worker_id
                /\ \A k \in i + 1 .. j - 1 : events[k].kind # "handoff_requested"

\* What the event log says of grants, renewals and handoffs is true of the protocol's history,
\* whatever the clocks and the order of the callers: the three facts above.
LogIsTruthful == LogNamesHolder /\ RenewalsMonotone /\ HandoffWasRequested

\* A worker that is granted the lease starts without a window binding, in the table or on its
\* way there: a row that bind_worker_window inserted for a worker that had ended meanwhile stays
\* until the next commit, and is never taken for the binding of a later lease.
LeasesStartUnbound ==
    [][\A w \in Active(snap') \ Active(snap) : w \notin bound' /\ \A p \in Proc : binding'[p] # w]_vars

-----------------------------------------------------------------------------
(***************************************************************************)
(* The store implements the abstract authority specification.              *)
(***************************************************************************)
Authority == INSTANCE WorkerAuthority WITH
    holder <- snap.current_worker_id,
    epoch <- snap.generation,
    retired <- {w \in Worker : snap.workers[w].status \in Terminal},
    closed <- snap.task_status = "completed"

\* The persisted protocol, with its leases, clocks and stale callers, is an implementation of
\* WorkerAuthority: every committed transition is a grant, transfer, release, close or no
\* change of authority at all.
ImplementsAuthority == Authority!Spec
=============================================================================
