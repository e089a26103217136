------------------------ MODULE ProtocolStoreProofs ------------------------
(***************************************************************************)
(* Theorems about ProtocolStore, for any number of processes and workers,  *)
(* any clock readings and any revision bound.                              *)
(*                                                                         *)
(* The inductive invariant is StoreInv.  TypeOK and SnapshotValid support  *)
(* each other through the transition lemmas of WorkerProtocolProofs.  That *)
(* a view with the stored revision is the stored snapshot is not inductive *)
(* by itself: a load in progress must be covered too, and no view may be   *)
(* ahead of the store (ViewsArePast).                                      *)
(***************************************************************************)
EXTENDS ProtocolStore, WorkerProtocolProofs

\* Nothing a process has read is ahead of the store, and what carries the stored revision is
\* the stored snapshot, for finished loads and for the task row of a load in progress.
PastOrCurrent(v) ==
    v # None => v.revision <= snap.revision /\ (v.revision = snap.revision => v = snap)

ViewsArePast == \A p \in Proc : PastOrCurrent(view[p]) /\ PastOrCurrent(reading[p])

\* Every ended lease has an end time: what the terminal rows of the mirror rely on.
EndsAreDated(s) == \A w \in Worker : s.workers[w].status \in Terminal => s.workers[w].ended_at # None

StoreInv == TypeOK /\ SnapshotValid /\ MirrorConsistent /\ ViewsArePast /\ EndsAreDated(snap)

-----------------------------------------------------------------------------
(***************************************************************************)
(* The canonical rows.                                                     *)
(***************************************************************************)
\* _legacy_status maps every lease status to a worker status or to no row.
LEMMA LegacyStatusType ==
    ASSUME NEW status \in LeaseStatus
    PROVE  LegacyStatus(status) \in WorkerStatus \cup {"absent"}
BY DEF LegacyStatus, LeaseStatus, Terminal, WorkerStatus

\* A synchronised row is a row, and it agrees with the lease it mirrors.
LEMMA SyncRowLemma ==
    ASSUME NEW row \in WorkerRow, NEW lease \in Lease,
           row.status # "absent" => row.started_at = lease.registered_at,
           lease.status \in Terminal => lease.ended_at # None
    PROVE  /\ SyncRow(row, lease) \in WorkerRow
           /\ RowAgrees(SyncRow(row, lease), lease)
<1> DEFINE st == LegacyStatus(lease.status)
<1>1. /\ lease.status \in LeaseStatus /\ lease.registered_at \in OptTime
      /\ lease.last_heartbeat_at \in OptTime /\ lease.ended_at \in OptTime
      /\ row.started_at \in OptTime
  BY DEF Lease, WorkerRow
<1>2. st \in WorkerStatus \cup {"absent"}
  BY <1>1, LegacyStatusType
<1>3. SyncRow(row, lease) =
        [status |-> st, started_at |-> lease.registered_at,
         last_seen_at |-> lease.last_heartbeat_at, ended_at |-> lease.ended_at]
  BY DEF SyncRow
<1> HIDE DEF st
<1>4. SyncRow(row, lease) \in WorkerRow
  BY <1>1, <1>2, <1>3 DEF WorkerRow
<1>5. RowAgrees(SyncRow(row, lease), lease)
  BY <1>3 DEF RowAgrees, st
<1> QED BY <1>4, <1>5

\* Persisting snapshot s makes the canonical rows agree with it, whatever they mirrored before,
\* as long as no lease changes its registration time.
LEMMA SyncLemma ==
    ASSUME NEW c \in Canon, NEW s \in Snapshot, NEW s0 \in Snapshot, NEW now \in Nat,
           LegacyConsistent(c, s0), EndsAreDated(s),
           s0.task_status = "open",
           \A w \in Worker : s0.workers[w].status # "unregistered"
                               => s.workers[w].registered_at = s0.workers[w].registered_at
    PROVE  /\ Sync(c, s, now) \in Canon
           /\ LegacyConsistent(Sync(c, s, now), s)
<1> DEFINE d == Sync(c, s, now)
<1>1. c.workers \in [Worker -> WorkerRow] /\ s.workers \in [Worker -> Lease]
      /\ s0.workers \in [Worker -> Lease]
  BY DEF Canon, Snapshot
<1>2. \A w \in Worker : /\ SyncRow(c.workers[w], s.workers[w]) \in WorkerRow
                        /\ RowAgrees(SyncRow(c.workers[w], s.workers[w]), s.workers[w])
  <2> SUFFICES ASSUME NEW w \in Worker
               PROVE  /\ SyncRow(c.workers[w], s.workers[w]) \in WorkerRow
                      /\ RowAgrees(SyncRow(c.workers[w], s.workers[w]), s.workers[w])
    OBVIOUS
  <2> DEFINE row == c.workers[w]
  <2> DEFINE lease == s.workers[w]
  <2>1. row \in WorkerRow /\ lease \in Lease
    BY <1>1
  <2>2. row.status # "absent" => row.started_at = lease.registered_at
    <3>1. /\ row.status = LegacyStatus(s0.workers[w].status)
          /\ row.started_at = s0.workers[w].registered_at
      BY DEF LegacyConsistent, RowAgrees
    <3>2. row.status # "absent" => s0.workers[w].status # "unregistered"
      BY <3>1 DEF LegacyStatus
    <3> QED BY <3>1, <3>2
  <2>3. lease.status \in Terminal => lease.ended_at # None
    BY DEF EndsAreDated
  <2> HIDE DEF row, lease
  <2>4. SyncRow(row, lease) \in WorkerRow /\ RowAgrees(SyncRow(row, lease), lease)
    BY <2>1, <2>2, <2>3, SyncRowLemma
  <2> QED BY <2>4 DEF row, lease
<1>3. /\ d.current_worker_id = s.current_worker_id
      /\ d.state = IF s.task_status = "completed" THEN "COMPLETED" ELSE c.state
      /\ d.updated_at = Later(c.updated_at, now)
      /\ d.workers = [w \in Worker |-> SyncRow(c.workers[w], s.workers[w])]
      /\ d = [state |-> d.state, updated_at |-> d.updated_at,
              current_worker_id |-> d.current_worker_id, workers |-> d.workers]
  BY DEF Sync
<1> HIDE DEF d
<1>4. c.state = "OPEN"
  BY DEF LegacyConsistent, Canon
<1>5. d.workers \in [Worker -> WorkerRow]
  BY <1>2, <1>3
<1>6. Later(c.updated_at, now) \in Nat
  BY DEF Later, Canon
<1>7. d \in Canon
  BY <1>3, <1>4, <1>5, <1>6 DEF Canon, Snapshot
<1>8. \A w \in Worker : RowAgrees(d.workers[w], s.workers[w])
  BY <1>2, <1>3
<1>9. LegacyConsistent(d, s)
  BY <1>3, <1>4, <1>8 DEF LegacyConsistent
<1> QED BY <1>7, <1>9 DEF d

-----------------------------------------------------------------------------
(***************************************************************************)
(* What every accepted transition does to the leases.                      *)
(***************************************************************************)
\* A terminal lease is frozen, a registration time is kept, and an ended lease gets its end time.
LeaseKept(k, l) ==
    /\ k.status \in Terminal => l = k
    /\ k.status # "unregistered" => l.registered_at = k.registered_at
    /\ k.status \notin Terminal /\ l.status \in Terminal => l.ended_at # None

\* The conversations that may never hold authority again.
Retired(s) == {x \in Worker : s.workers[x].status \in Terminal}

SameAuthority(s, t) ==
    /\ t.current_worker_id = s.current_worker_id
    /\ t.generation = s.generation
    /\ t.task_status = s.task_status
    /\ Retired(t) = Retired(s)

\* A worker that is not retired gets authority, from nobody or from a worker that retires.
Grants(s, t, w) ==
    /\ t.current_worker_id = w
    /\ w \notin Retired(s)
    /\ w # s.current_worker_id
    /\ t.generation = s.generation + 1
    /\ t.task_status = s.task_status
    /\ Retired(t) = Retired(s) \cup (IF s.current_worker_id = None THEN {}
                                     ELSE {s.current_worker_id})

\* The holder retires and nobody follows it.
Releases(s, t) ==
    /\ s.current_worker_id # None
    /\ t.current_worker_id = None
    /\ t.generation = s.generation
    /\ t.task_status = s.task_status
    /\ Retired(t) = Retired(s) \cup {s.current_worker_id}

\* The task is closed while nobody holds it.
Closes(s, t) ==
    /\ s.current_worker_id = None
    /\ t.current_worker_id = None
    /\ t.generation = s.generation
    /\ t.task_status = "completed"
    /\ Retired(t) = Retired(s)

AuthorityStep(s, t) ==
    \/ SameAuthority(s, t)
    \/ \E w \in Worker : Grants(s, t, w)
    \/ Releases(s, t)
    \/ Closes(s, t)

\* t can follow s in the store: a valid snapshot of an open task, one revision later.
Follows(s, t) ==
    /\ t \in Snapshot
    /\ ValidState(t)
    /\ t.revision = s.revision + 1
    /\ s.task_status = "open"
    /\ \A x \in Worker : LeaseKept(s.workers[x], t.workers[x])
    /\ AuthorityStep(s, t)

\* Claim and takeover keep what LeaseKept asks for.
LEMMA GrantedKept ==
    ASSUME NEW k \in Lease, NEW g \in Nat, NEW now \in Nat, NEW secs \in Nat,
           k.status = "candidate"
    PROVE  LeaseKept(k, Granted(k, g, now, secs))
BY DEF LeaseKept, Granted, Lease, Terminal

\* A heartbeat keeps what LeaseKept asks for.
LEMMA RenewedKept ==
    ASSUME NEW k \in Lease, NEW now \in Nat, NEW secs \in Nat, k.status = "active"
    PROVE  LeaseKept(k, Renewed(k, now, secs))
BY DEF LeaseKept, Renewed, Lease, Terminal

\* Supersession keeps what LeaseKept asks for.
LEMMA SupersededKept ==
    ASSUME NEW k \in Lease, NEW c \in Worker, NEW now \in Nat, k.status = "active"
    PROVE  LeaseKept(k, Superseded(k, c, now))
BY OptionLemma DEF LeaseKept, Superseded, Lease, Terminal

\* Completion and abandonment keep what LeaseKept asks for.
LEMMA EndedKept ==
    ASSUME NEW k \in Lease, NEW status \in Terminal, NEW now \in Nat, k.status = "active"
    PROVE  LeaseKept(k, Ended(k, status, now))
BY OptionLemma DEF LeaseKept, Ended, Lease, Terminal

\* An untouched lease is kept.
LEMMA SameKept ==
    ASSUME NEW k PROVE LeaseKept(k, k)
BY DEF LeaseKept

\* register_worker leads from a valid snapshot to one that can follow it.
LEMMA RegisterFollows ==
    ASSUME NEW s \in Snapshot, NEW w \in Worker, NEW now \in Nat,
           ValidState(s), RegisterOk(s, w)
    PROVE  Follows(s, Register(s, w, now))
<1> DEFINE t == Register(s, w, now)
<1> DEFINE l == Candidate(now)
<1>1. s.workers \in [Worker -> Lease] /\ s.workers[w].status = "unregistered"
  BY DEF Snapshot, RegisterOk
<1>2. LeaseKept(s.workers[w], l)
  BY <1>1 DEF LeaseKept, Candidate, Unregistered, Terminal
<1>3. /\ t \in Snapshot
      /\ t = MkSnapshot(s.revision + 1, s.generation, s.task_status, s.current_worker_id,
                        s.handoff_target_worker_id, s.handoff_requested_at,
                        s.completed_at, [s.workers EXCEPT ![w] = l])
  BY RegisterEquation
<1>4. ValidState(t)
  BY RegisterValid
<1> HIDE DEF t, l
<1>5. t.revision = s.revision + 1 /\ t.workers = [s.workers EXCEPT ![w] = l]
  BY <1>3 DEF MkSnapshot
<1>6. \A x \in Worker : LeaseKept(s.workers[x], t.workers[x])
  BY <1>1, <1>2, <1>5, SameKept
<1>7. l.status = "candidate"
  BY DEF l, Candidate, Unregistered
<1>8. SameAuthority(s, t)
  <2>1. \A x \in Worker : t.workers[x].status \in Terminal <=> s.workers[x].status \in Terminal
    BY <1>1, <1>5, <1>7 DEF Terminal
  <2> QED BY <1>3, <2>1 DEF MkSnapshot, SameAuthority, Retired
<1> QED BY <1>3, <1>4, <1>5, <1>6, <1>8 DEF Follows, AuthorityStep, RegisterOk, t

\* claim_worker leads from a valid snapshot to one that can follow it.
LEMMA ClaimFollows ==
    ASSUME NEW s \in Snapshot, NEW w \in Worker, NEW now \in Nat, NEW secs \in Nat,
           ValidState(s), ClaimOk(s, w)
    PROVE  Follows(s, Claim(s, w, now, secs)) /\ Grants(s, Claim(s, w, now, secs), w)
<1> DEFINE t == Claim(s, w, now, secs)
<1> DEFINE g == s.generation + 1
<1> DEFINE k == s.workers[w]
<1> DEFINE l == Granted(k, g, now, secs)
<1>1. s.workers \in [Worker -> Lease] /\ k \in Lease /\ k.status = "candidate" /\ g \in Nat
  BY DEF Snapshot, ClaimOk
<1>2. LeaseKept(k, l)
  BY <1>1, GrantedKept
<1>3. /\ t \in Snapshot
      /\ t = MkSnapshot(s.revision + 1, g, s.task_status, w, None, None, s.completed_at,
                        [s.workers EXCEPT ![w] = l])
  BY ClaimEquation
<1>4. ValidState(t)
  BY ClaimValid
<1> HIDE DEF t, l
<1>5. t.revision = s.revision + 1 /\ t.workers = [s.workers EXCEPT ![w] = l]
  BY <1>3 DEF MkSnapshot
<1>6. \A x \in Worker : LeaseKept(s.workers[x], t.workers[x])
  BY <1>1, <1>2, <1>5, SameKept
<1>7. l.status = "active"
  BY <1>1 DEF l, Granted, Lease
<1>8. Grants(s, t, w)
  <2>1. \A x \in Worker : t.workers[x].status \in Terminal <=> s.workers[x].status \in Terminal
    BY <1>1, <1>5, <1>7 DEF Terminal
  <2>2. w \notin Retired(s)
    BY <1>1 DEF Retired, Terminal
  <2>3. Retired(t) = Retired(s)
    BY <2>1 DEF Retired
  <2> QED BY <1>3, <2>2, <2>3, OptionLemma DEF MkSnapshot, Grants, ClaimOk
<1> QED BY <1>3, <1>4, <1>5, <1>6, <1>8 DEF Follows, AuthorityStep, ClaimOk, t

\* heartbeat_worker leads from a valid snapshot to one that can follow it.
LEMMA HeartbeatFollows ==
    ASSUME NEW s \in Snapshot, NEW w \in Worker, NEW now \in Nat, NEW secs \in Nat, NEW g,
           ValidState(s), OwnsGeneration(s, w, g)
    PROVE  /\ Follows(s, Heartbeat(s, w, now, secs))
           /\ SameAuthority(s, Heartbeat(s, w, now, secs))
<1> DEFINE t == Heartbeat(s, w, now, secs)
<1> DEFINE k == s.workers[w]
<1> DEFINE l == Renewed(k, now, secs)
<1>1. s.workers \in [Worker -> Lease] /\ k \in Lease /\ k.status = "active"
  BY DEF Snapshot, OwnsGeneration
<1>2. LeaseKept(k, l)
  BY <1>1, RenewedKept
<1>3. /\ t \in Snapshot
      /\ t = MkSnapshot(s.revision + 1, s.generation, s.task_status, s.current_worker_id,
                        s.handoff_target_worker_id, s.handoff_requested_at,
                        s.completed_at, [s.workers EXCEPT ![w] = l])
  BY HeartbeatEquation
<1>4. ValidState(t)
  BY HeartbeatValid
<1> HIDE DEF t, l
<1>5. t.revision = s.revision + 1 /\ t.workers = [s.workers EXCEPT ![w] = l]
  BY <1>3 DEF MkSnapshot
<1>6. \A x \in Worker : LeaseKept(s.workers[x], t.workers[x])
  BY <1>1, <1>2, <1>5, SameKept
<1>7. l.status = "active"
  BY <1>1 DEF l, Renewed, Lease
<1>8. SameAuthority(s, t)
  <2>1. \A x \in Worker : t.workers[x].status \in Terminal <=> s.workers[x].status \in Terminal
    BY <1>1, <1>5, <1>7 DEF Terminal
  <2> QED BY <1>3, <2>1 DEF MkSnapshot, SameAuthority, Retired
<1> QED BY <1>3, <1>4, <1>5, <1>6, <1>8 DEF Follows, AuthorityStep, OwnsGeneration, t

\* request_handoff leads from a valid snapshot to one that can follow it.
LEMMA HandoffFollows ==
    ASSUME NEW s \in Snapshot, NEW w \in Worker, NEW target \in Worker, NEW g, NEW now \in Nat,
           ValidState(s), RequestHandoffOk(s, w, target, g, now)
    PROVE  /\ Follows(s, RequestHandoff(s, target, now))
           /\ SameAuthority(s, RequestHandoff(s, target, now))
<1> DEFINE t == RequestHandoff(s, target, now)
<1>1. /\ t \in Snapshot
      /\ t = MkSnapshot(s.revision + 1, s.generation, s.task_status, s.current_worker_id,
                        target, now, s.completed_at, s.workers)
  BY HandoffEquation
<1>2. ValidState(t)
  BY HandoffValid
<1> HIDE DEF t
<1>3. t.revision = s.revision + 1 /\ t.workers = s.workers
  BY <1>1 DEF MkSnapshot
<1>4. \A x \in Worker : LeaseKept(s.workers[x], t.workers[x])
  BY <1>3, SameKept
<1>5. SameAuthority(s, t)
  BY <1>1, <1>3 DEF MkSnapshot, SameAuthority, Retired
<1> QED BY <1>1, <1>2, <1>3, <1>4, <1>5
        DEF Follows, AuthorityStep, RequestHandoffOk, HasAuthority, OwnsGeneration, t

\* takeover_worker leads from a valid snapshot to one that can follow it.
LEMMA TakeoverFollows ==
    ASSUME NEW s \in Snapshot, NEW c \in Worker, NEW now \in Nat, NEW secs \in Nat,
           ValidState(s), TakeoverEligible(s, c, now)
    PROVE  Follows(s, Takeover(s, c, now, secs)) /\ Grants(s, Takeover(s, c, now, secs), c)
<1> DEFINE t == Takeover(s, c, now, secs)
<1> DEFINE old == s.current_worker_id
<1> DEFINE g == s.generation + 1
<1> DEFINE k == s.workers[c]
<1> DEFINE l == Granted(k, g, now, secs)
<1> DEFINE m == Superseded(s.workers[old], c, now)
<1>1. /\ old \in Worker /\ old # c /\ k.status = "candidate" /\ s.task_status = "open"
      /\ ValidState(t)
  BY TakeoverValid
<1>2. s.workers \in [Worker -> Lease] /\ k \in Lease /\ g \in Nat /\ s.workers[old] \in Lease
  BY <1>1 DEF Snapshot
<1>3. s.workers[old].status = "active"
  BY <1>1, OptionLemma DEF ValidState, CurrentIsSoleActive, Active
<1>4. LeaseKept(k, l) /\ LeaseKept(s.workers[old], m)
  BY <1>1, <1>2, <1>3, GrantedKept, SupersededKept
<1>5. /\ t \in Snapshot
      /\ t = MkSnapshot(s.revision + 1, g, s.task_status, c, None, None, s.completed_at,
                        [s.workers EXCEPT ![old] = m, ![c] = l])
  BY <1>1, TakeoverEquation
<1> HIDE DEF t, l, m, old
<1>6. t.revision = s.revision + 1 /\ t.workers = [s.workers EXCEPT ![old] = m, ![c] = l]
  BY <1>5 DEF MkSnapshot
<1>7. \A x \in Worker : LeaseKept(s.workers[x], t.workers[x])
  BY <1>1, <1>2, <1>4, <1>6, SameKept
<1>8. l.status = "active" /\ m.status = "superseded"
  BY <1>2 DEF l, m, Granted, Superseded, Lease
<1>9. Grants(s, t, c)
  <2>1. \A x \in Worker : t.workers[x].status \in Terminal
                            <=> s.workers[x].status \in Terminal \/ x = old
    BY <1>1, <1>2, <1>6, <1>8 DEF Terminal
  <2>2. c \notin Retired(s)
    BY <1>1 DEF Retired, Terminal
  <2>3. Retired(t) = Retired(s) \cup {old}
    BY <1>1, <2>1 DEF Retired
  <2>4. old = s.current_worker_id
    BY DEF old
  <2> QED BY <1>1, <1>5, <2>2, <2>3, <2>4, OptionLemma DEF MkSnapshot, Grants
<1> QED BY <1>1, <1>5, <1>6, <1>7, <1>9 DEF Follows, AuthorityStep, t

\* complete_worker and abandon_worker lead from a valid snapshot to one that can follow it.
LEMMA EndWorkerFollows ==
    ASSUME NEW s \in Snapshot, NEW w \in Worker, NEW g, NEW status \in Terminal, NEW now \in Nat,
           ValidState(s), OwnsGeneration(s, w, g)
    PROVE  Follows(s, EndWorker(s, w, status, now)) /\ Releases(s, EndWorker(s, w, status, now))
<1> DEFINE t == EndWorker(s, w, status, now)
<1> DEFINE k == s.workers[w]
<1> DEFINE l == Ended(k, status, now)
<1>1. s.workers \in [Worker -> Lease] /\ k \in Lease /\ k.status = "active"
  BY DEF Snapshot, OwnsGeneration
<1>2. LeaseKept(k, l)
  BY <1>1, EndedKept
<1>3. status \in LeaseStatus
  BY DEF LeaseStatus
<1>4. /\ t \in Snapshot
      /\ t = MkSnapshot(s.revision + 1, s.generation, s.task_status, None, None, None,
                        s.completed_at, [s.workers EXCEPT ![w] = l])
  BY <1>3, EndWorkerEquation
<1>5. ValidState(t)
  BY EndWorkerValid
<1> HIDE DEF t, l
<1>6. t.revision = s.revision + 1 /\ t.workers = [s.workers EXCEPT ![w] = l]
  BY <1>4 DEF MkSnapshot
<1>7. \A x \in Worker : LeaseKept(s.workers[x], t.workers[x])
  BY <1>1, <1>2, <1>6, SameKept
<1>8. l.status = status
  BY <1>1 DEF l, Ended, Lease
<1>9. Releases(s, t)
  <2>1. \A x \in Worker : t.workers[x].status \in Terminal
                            <=> s.workers[x].status \in Terminal \/ x = w
    BY <1>1, <1>6, <1>8 DEF Terminal
  <2>2. w = s.current_worker_id /\ w # None
    BY OptionLemma DEF OwnsGeneration
  <2>3. Retired(t) = Retired(s) \cup {w}
    BY <2>1 DEF Retired
  <2> QED BY <1>4, <2>2, <2>3 DEF MkSnapshot, Releases
<1> QED BY <1>4, <1>5, <1>6, <1>7, <1>9 DEF Follows, AuthorityStep, OwnsGeneration, t

\* complete_task leads from a valid snapshot to one that can follow it.
LEMMA CompleteTaskFollows ==
    ASSUME NEW s \in Snapshot, NEW now \in Nat, ValidState(s), CompleteTaskOk(s)
    PROVE  Follows(s, CompleteTask(s, now))
<1> DEFINE t == CompleteTask(s, now)
<1>1. /\ t \in Snapshot
      /\ t = MkSnapshot(s.revision + 1, s.generation, "completed", s.current_worker_id,
                        s.handoff_target_worker_id, s.handoff_requested_at, now, s.workers)
  BY CompleteTaskEquation
<1>2. ValidState(t)
  BY CompleteTaskValid
<1> HIDE DEF t
<1>3. t.revision = s.revision + 1 /\ t.workers = s.workers
  BY <1>1 DEF MkSnapshot
<1>4. \A x \in Worker : LeaseKept(s.workers[x], t.workers[x])
  BY <1>3, SameKept
<1>5. Closes(s, t)
  BY <1>1, <1>3 DEF MkSnapshot, Closes, Retired, CompleteTaskOk
<1> QED BY <1>1, <1>2, <1>3, <1>4, <1>5 DEF Follows, AuthorityStep, CompleteTaskOk, t

-----------------------------------------------------------------------------
(***************************************************************************)
(* Bootstrapping from the canonical rows.                                  *)
(***************************************************************************)
\* Every row the legacy API leaves behind becomes a lease that agrees with it.
LEMMA LeaseFromRowLemma ==
    ASSUME NEW row \in LegacyRows
    PROVE  /\ row \in WorkerRow
           /\ LeaseFromRow(row) \in Lease
           /\ RowAgrees(row, LeaseFromRow(row))
           /\ LeaseFromRow(row).status \in Terminal => LeaseFromRow(row).ended_at # None
           /\ LeaseFromRow(row).status = "active" <=> row.status = "ACTIVE"
           /\ row.status = "ACTIVE" => /\ LeaseFromRow(row).generation = 1
                                       /\ LeaseFromRow(row).lease_expires_at # None
<1> USE StoreAssumption, OptionLemma
<1>1. CASE row = NoRow
  <2>1. LeaseFromRow(row) = Unregistered
    BY <1>1 DEF LeaseFromRow, NoRow
  <2>2. Unregistered \in Lease
    BY DEF Unregistered, Lease, LeaseStatus
  <2>3. row \in WorkerRow
    BY <1>1 DEF NoRow, WorkerRow
  <2> QED BY <1>1, <2>1, <2>2, <2>3
          DEF NoRow, Unregistered, RowAgrees, LegacyStatus, Terminal
<1>2. CASE row \in [status : {"ACTIVE"}, started_at : LegacyTimes,
                    last_seen_at : LegacyTimes \cup {None}, ended_at : {None}]
  <2> DEFINE hb == IF row.last_seen_at = None THEN row.started_at ELSE row.last_seen_at
  <2>1. /\ row.status = "ACTIVE" /\ row.started_at \in Nat /\ row.ended_at = None
        /\ row.last_seen_at \in OptTime /\ hb \in Nat
    BY <1>2 DEF OptTime
  <2>2. row \in WorkerRow
    BY <1>2, <2>1 DEF WorkerRow, WorkerStatus, OptTime
  <2>3. LeaseFromRow(row) =
          [status |-> "active", registered_at |-> row.started_at, generation |-> 1,
           claimed_at |-> row.started_at, last_heartbeat_at |-> hb, lease_expires_at |-> hb,
           ended_at |-> row.ended_at, superseded_by |-> None]
    BY <2>1 DEF LeaseFromRow, Unregistered
  <2> HIDE DEF hb
  <2>4. LeaseFromRow(row) \in Lease
    BY <2>1, <2>3 DEF Lease, LeaseStatus, OptTime
  <2>5. LeaseFromRow(row).lease_expires_at = hb /\ hb # None
    BY <2>1, <2>3
  <2> QED BY <2>1, <2>2, <2>3, <2>4, <2>5 DEF RowAgrees, LegacyStatus, Terminal
<1>3. CASE row \in [status : {"SUPERSEDED", "DEAD"}, started_at : LegacyTimes,
                    last_seen_at : LegacyTimes \cup {None}, ended_at : LegacyTimes]
  <2> DEFINE st == IF row.status = "SUPERSEDED" THEN "superseded" ELSE "abandoned"
  <2>1. /\ row.status \in {"SUPERSEDED", "DEAD"} /\ row.started_at \in Nat
        /\ row.last_seen_at \in OptTime /\ row.ended_at \in Nat
    BY <1>3 DEF OptTime
  <2>2. row \in WorkerRow
    BY <1>3, <2>1 DEF WorkerRow, WorkerStatus, OptTime
  <2>3. LeaseFromRow(row) =
          [status |-> st, registered_at |-> row.started_at, generation |-> None,
           claimed_at |-> None, last_heartbeat_at |-> row.last_seen_at,
           lease_expires_at |-> None, ended_at |-> row.ended_at, superseded_by |-> None]
    BY <2>1 DEF LeaseFromRow, Unregistered
  <2>4. st \in Terminal /\ LegacyStatus(st) = row.status
    BY <2>1 DEF Terminal, LegacyStatus
  <2> HIDE DEF st
  <2>5. LeaseFromRow(row) \in Lease
    BY <2>1, <2>3, <2>4 DEF Lease, LeaseStatus, OptTime
  <2>6. row.ended_at # None
    BY <2>1
  <2>7. st # "active" /\ row.status # "ACTIVE"
    BY <2>1, <2>4 DEF Terminal
  <2> QED BY <2>2, <2>3, <2>4, <2>5, <2>6, <2>7 DEF RowAgrees
<1> QED BY <1>1, <1>2, <1>3 DEF LegacyRows

\* bootstrap_worker_protocol starts from a consistent store.
LEMMA InitLemma ==
    Init => StoreInv
<1> SUFFICES ASSUME Init PROVE StoreInv
  OBVIOUS
<1> USE StoreAssumption, OptionLemma
<1> DEFINE ls == [w \in Worker |-> LeaseFromRow(canon.workers[w])]
<1> DEFINE g == IF canon.current_worker_id = None THEN 0 ELSE 1
<1> DEFINE ts == IF canon.state = "COMPLETED" THEN "completed" ELSE "open"
<1> DEFINE ct == IF canon.state = "COMPLETED" THEN canon.updated_at ELSE None
<1>1. /\ canon.workers \in [Worker -> LegacyRows] /\ canon.current_worker_id \in OptWorker
      /\ canon.state \in {"OPEN", "COMPLETED"} /\ canon.updated_at \in Nat
      /\ canon = [state |-> canon.state, updated_at |-> canon.updated_at,
                  current_worker_id |-> canon.current_worker_id, workers |-> canon.workers]
      /\ BootstrapOk(canon)
  BY DEF Init, InitialCanon
<1>2. \A w \in Worker : canon.workers[w] \in WorkerRow /\ ls[w] \in Lease
  BY <1>1, LeaseFromRowLemma
<1>3. \A w \in Worker : RowAgrees(canon.workers[w], ls[w])
  BY <1>1, LeaseFromRowLemma
<1>4. \A w \in Worker : ls[w].status \in Terminal => ls[w].ended_at # None
  BY <1>1, LeaseFromRowLemma
<1>5. \A w \in Worker : ls[w].status = "active" <=> canon.workers[w].status = "ACTIVE"
  BY <1>1, LeaseFromRowLemma
<1>6. \A w \in Worker : canon.workers[w].status = "ACTIVE" =>
                           ls[w].generation = 1 /\ ls[w].lease_expires_at # None
  BY <1>1, LeaseFromRowLemma
<1>7. canon.workers \in [Worker -> WorkerRow]
  BY <1>1, <1>2
<1>8. canon \in Canon
  BY <1>1, <1>7 DEF Canon
<1>9. ls \in [Worker -> Lease]
  BY <1>2
<1>10. snap = MkSnapshot(0, g, ts, canon.current_worker_id, None, None, ct, ls)
  BY DEF Init, StateFromLegacy, NewTaskState, MkSnapshot
<1>11. g \in Nat /\ ts \in {"open", "completed"} /\ ct \in OptTime
  BY <1>1
<1>12. ts = "completed" <=> canon.state = "COMPLETED"
  OBVIOUS
<1>13. ts = "completed" => canon.current_worker_id = None /\ ct # None
  BY <1>1 DEF BootstrapOk
<1>14. canon.current_worker_id # None => g = 1
  OBVIOUS
<1> HIDE DEF ls, g, ts, ct
<1>15. snap \in Snapshot
  BY <1>1, <1>9, <1>10, <1>11 DEF MkSnapshot, Snapshot
<1>16. /\ snap.revision = 0 /\ snap.generation = g /\ snap.task_status = ts
       /\ snap.current_worker_id = canon.current_worker_id
       /\ snap.handoff_target_worker_id = None /\ snap.handoff_requested_at = None
       /\ snap.completed_at = ct /\ snap.workers = ls
  BY <1>10 DEF MkSnapshot
<1>17. TypeOK
  BY <1>8, <1>15 DEF Init, TypeOK
<1>18. ValidState(snap)
  <2>1. Active(snap) = ActiveRows(canon)
    BY <1>5, <1>16 DEF Active, ActiveRows
  <2>2. CurrentIsSoleActive(snap)
    BY <1>1, <1>16, <2>1 DEF BootstrapOk, CurrentIsSoleActive
  <2>3. CurrentOwnsGeneration(snap)
    <3> SUFFICES ASSUME canon.current_worker_id # None
                 PROVE  /\ snap.generation > 0
                        /\ ls[canon.current_worker_id].generation = snap.generation
                        /\ ls[canon.current_worker_id].lease_expires_at # None
      BY <1>16 DEF CurrentOwnsGeneration
    <3>1. canon.current_worker_id \in ActiveRows(canon)
      BY <1>1 DEF BootstrapOk
    <3>2. canon.current_worker_id \in Worker
      BY <3>1 DEF ActiveRows
    <3>3. canon.workers[canon.current_worker_id].status = "ACTIVE"
      BY <3>1 DEF ActiveRows
    <3> QED BY <1>6, <1>14, <1>16, <3>2, <3>3
  <2>4. HandoffWellFormed(snap) /\ CompletedTaskHasNoWorker(snap)
    BY <1>13, <1>16 DEF HandoffWellFormed, CompletedTaskHasNoWorker
  <2> QED BY <2>2, <2>3, <2>4 DEF ValidState
<1>19. LegacyConsistent(canon, snap)
  BY <1>1, <1>3, <1>12, <1>16 DEF LegacyConsistent
<1>20. EndsAreDated(snap)
  BY <1>4, <1>16 DEF EndsAreDated
<1>21. ViewsArePast
  BY DEF Init, ViewsArePast, PastOrCurrent
<1> QED BY <1>17, <1>18, <1>19, <1>20, <1>21 DEF StoreInv, SnapshotValid, MirrorConsistent

-----------------------------------------------------------------------------
(***************************************************************************)
(* The steps.                                                              *)
(***************************************************************************)
\* An event of a step from s to t that uses authority names a worker not retired in s and a
\* generation no older than s's, newer if nobody held s; one that ends authority retires its
\* worker and leaves its generation behind.
EventFits(s, t, e) ==
    /\ e.kind \in HolderKinds =>
         /\ e.worker_id \in Worker \ Retired(s)
         /\ e.generation \in Nat
         /\ s.generation <= e.generation /\ e.generation <= t.generation
         /\ s.current_worker_id = None => s.generation < e.generation
    /\ e.kind \in EndKinds =>
         /\ e.worker_id \in Retired(t)
         /\ t.current_worker_id # None => e.generation < t.generation

\* FencedForever, of any log.
Fenced(log) ==
    \A i, j \in DOMAIN log :
        /\ i < j
        /\ log[i].kind \in EndKinds
        /\ log[j].kind \in HolderKinds
        => /\ log[j].generation > log[i].generation
           /\ log[j].worker_id # log[i].worker_id

EventsFit(s, t, evs) == Fenced(evs) /\ \A i \in DOMAIN evs : EventFits(s, t, evs[i])

\* Every protocol transition of process p commits a snapshot that can follow the stored one,
\* with events that fit it.
Committed(p) ==
    \E t \in Snapshot, evs \in Seq(Event), now \in Nat :
        CanApply(p) /\ Follows(snap, t) /\ EventsFit(snap, t, evs) /\ Commit(p, t, evs, now)

\* One event that fits is a log that fits.
LEMMA OneEventFits ==
    ASSUME NEW s, NEW t, NEW e, EventFits(s, t, e)
    PROVE  EventsFit(s, t, <<e>>)
BY DEF EventsFit, Fenced

\* An event stamped by an accepted transition is an event.
LEMMA StampType ==
    ASSUME snap \in Snapshot, NEW kind \in EventKind, NEW now \in Nat, NEW w \in OptWorker,
           NEW g \in OptTime, NEW related \in OptWorker, NEW ref \in TakeoverReasons \cup {None}
    PROVE  Stamp(kind, now, w, g, related, ref) \in Event
BY DEF Stamp, Event, Snapshot

\* Each disjunct of Transition commits a snapshot that can follow the stored one.
LEMMA TransitionCommits ==
    ASSUME TypeOK, SnapshotValid, NEW p \in Proc, Transition(p)
    PROVE  Committed(p)
<1> USE StoreAssumption, OptionLemma
<1>1. snap \in Snapshot /\ ValidState(snap) /\ snap.generation \in Nat
  BY DEF TypeOK, SnapshotValid, Snapshot
<1>2. \A g \in Generations(p) : g \in Nat /\ g \in OptTime
  BY DEF Generations, OptTime
<1>3. None \in TakeoverReasons \cup {None}
  OBVIOUS
<1>4. PICK now \in Times :
        \/ ProtocolCompleteTask(p, now)
        \/ \E w \in Worker :
              \/ ProtocolRegisterWorker(p, w, now)
              \/ \E g \in Generations(p) :
                    \/ ProtocolCompleteWorker(p, w, g, now)
                    \/ ProtocolAbandonWorker(p, w, g, now)
                    \/ \E target \in Worker : ProtocolRequestHandoff(p, w, target, g, now)
                    \/ \E secs \in LeaseSeconds : ProtocolHeartbeatWorker(p, w, g, now, secs)
              \/ \E secs \in LeaseSeconds :
                    \/ ProtocolClaimWorker(p, w, now, secs)
                    \/ ProtocolTakeoverWorker(p, w, now, secs)
  BY DEF Transition
<1>5. now \in Nat
  OBVIOUS
<1>6. ASSUME NEW t, NEW evs \in Seq(Event),
             CanApply(p), Follows(snap, t), EventsFit(snap, t, evs), Commit(p, t, evs, now)
      PROVE  Committed(p)
  BY <1>5, <1>6 DEF Committed, Follows
<1>7. CASE ProtocolCompleteTask(p, now)
  <2> DEFINE e == Stamp("task_completed", now, None, snap.generation, None, None)
  <2>1. e \in Event
    BY <1>1, <1>3, <1>5, StampType DEF EventKind
  <2>2. Follows(snap, CompleteTask(snap, now))
    BY <1>1, <1>5, <1>7, CompleteTaskFollows DEF ProtocolCompleteTask
  <2>3. CanApply(p) /\ Commit(p, CompleteTask(snap, now), <<e>>, now)
    BY <1>7 DEF ProtocolCompleteTask
  <2>4. <<e>> \in Seq(Event)
    BY <2>1
  <2>5. EventFits(snap, CompleteTask(snap, now), e)
    BY DEF EventFits, Stamp, HolderKinds, GrantKinds, EndKinds
  <2>6. EventsFit(snap, CompleteTask(snap, now), <<e>>)
    BY <2>5, OneEventFits
  <2> QED BY <1>6, <2>2, <2>3, <2>4, <2>6, Zenon
<1>8. ASSUME NEW w \in Worker, ProtocolRegisterWorker(p, w, now)
      PROVE  Committed(p)
  <2> DEFINE e == Stamp("worker_registered", now, w, None, None, None)
  <2>1. e \in Event
    BY <1>1, <1>3, <1>5, StampType DEF EventKind
  <2>2. Follows(snap, Register(snap, w, now))
    BY <1>1, <1>5, <1>8, RegisterFollows DEF ProtocolRegisterWorker
  <2>3. CanApply(p) /\ Commit(p, Register(snap, w, now), <<e>>, now)
    BY <1>8 DEF ProtocolRegisterWorker
  <2>4. <<e>> \in Seq(Event)
    BY <2>1
  <2>5. EventFits(snap, Register(snap, w, now), e)
    BY DEF EventFits, Stamp, HolderKinds, GrantKinds, EndKinds
  <2>6. EventsFit(snap, Register(snap, w, now), <<e>>)
    BY <2>5, OneEventFits
  <2> QED BY <1>6, <2>2, <2>3, <2>4, <2>6, Zenon
<1>9. ASSUME NEW w \in Worker, NEW g \in Generations(p), ProtocolCompleteWorker(p, w, g, now)
      PROVE  Committed(p)
  <2> DEFINE e == Stamp("worker_completed", now, w, g, None, None)
  <2>1. e \in Event
    BY <1>1, <1>2, <1>3, <1>5, StampType DEF EventKind
  <2>2. OwnsGeneration(snap, w, g) /\ "completed" \in Terminal
    BY <1>9 DEF ProtocolCompleteWorker, CompleteWorkerOk, HasAuthority, Terminal
  <2>3. Follows(snap, CompleteWorker(snap, w, now)) /\ Releases(snap, CompleteWorker(snap, w, now))
    BY <1>1, <1>5, <2>2, EndWorkerFollows DEF CompleteWorker
  <2>4. CanApply(p) /\ Commit(p, CompleteWorker(snap, w, now), <<e>>, now)
    BY <1>9 DEF ProtocolCompleteWorker
  <2>5. <<e>> \in Seq(Event)
    BY <2>1
  <2>6. EventFits(snap, CompleteWorker(snap, w, now), e)
    BY <1>1, <1>2, <2>2, <2>3, OptionLemma
       DEF EventFits, Stamp, HolderKinds, GrantKinds, EndKinds, Releases, OwnsGeneration,
           Retired, Terminal
  <2>7. EventsFit(snap, CompleteWorker(snap, w, now), <<e>>)
    BY <2>6, OneEventFits
  <2> QED BY <1>6, <2>3, <2>4, <2>5, <2>7, Zenon
<1>10. ASSUME NEW w \in Worker, NEW g \in Generations(p), ProtocolAbandonWorker(p, w, g, now)
       PROVE  Committed(p)
  <2> DEFINE e == Stamp("worker_abandoned", now, w, g, None, None)
  <2>1. e \in Event
    BY <1>1, <1>2, <1>3, <1>5, StampType DEF EventKind
  <2>2. OwnsGeneration(snap, w, g) /\ "abandoned" \in Terminal
    BY <1>10 DEF ProtocolAbandonWorker, AbandonWorkerOk, Terminal
  <2>3. Follows(snap, AbandonWorker(snap, w, now)) /\ Releases(snap, AbandonWorker(snap, w, now))
    BY <1>1, <1>5, <2>2, EndWorkerFollows DEF AbandonWorker
  <2>4. CanApply(p) /\ Commit(p, AbandonWorker(snap, w, now), <<e>>, now)
    BY <1>10 DEF ProtocolAbandonWorker
  <2>5. <<e>> \in Seq(Event)
    BY <2>1
  <2>6. EventFits(snap, AbandonWorker(snap, w, now), e)
    BY <1>1, <1>2, <2>2, <2>3, OptionLemma
       DEF EventFits, Stamp, HolderKinds, GrantKinds, EndKinds, Releases, OwnsGeneration,
           Retired, Terminal
  <2>7. EventsFit(snap, AbandonWorker(snap, w, now), <<e>>)
    BY <2>6, OneEventFits
  <2> QED BY <1>6, <2>3, <2>4, <2>5, <2>7, Zenon
<1>11. ASSUME NEW w \in Worker, NEW g \in Generations(p), NEW target \in Worker,
              ProtocolRequestHandoff(p, w, target, g, now)
       PROVE  Committed(p)
  <2> DEFINE e == Stamp("handoff_requested", now, w, g, target, None)
  <2>1. e \in Event
    BY <1>1, <1>2, <1>3, <1>5, StampType DEF EventKind
  <2>2. OwnsGeneration(snap, w, g)
    BY <1>11 DEF ProtocolRequestHandoff, RequestHandoffOk, HasAuthority
  <2>3. /\ Follows(snap, RequestHandoff(snap, target, now))
        /\ SameAuthority(snap, RequestHandoff(snap, target, now))
    BY <1>1, <1>5, <1>11, HandoffFollows DEF ProtocolRequestHandoff
  <2>4. CanApply(p) /\ Commit(p, RequestHandoff(snap, target, now), <<e>>, now)
    BY <1>11 DEF ProtocolRequestHandoff
  <2>5. <<e>> \in Seq(Event)
    BY <2>1
  <2>6. EventFits(snap, RequestHandoff(snap, target, now), e)
    BY <1>1, <1>2, <2>2, <2>3, OptionLemma
       DEF EventFits, Stamp, HolderKinds, GrantKinds, EndKinds, SameAuthority,
           OwnsGeneration, Retired, Terminal
  <2>7. EventsFit(snap, RequestHandoff(snap, target, now), <<e>>)
    BY <2>6, OneEventFits
  <2> QED BY <1>6, <2>3, <2>4, <2>5, <2>7, Zenon
<1>12. ASSUME NEW w \in Worker, NEW g \in Generations(p), NEW secs \in LeaseSeconds,
              ProtocolHeartbeatWorker(p, w, g, now, secs)
       PROVE  Committed(p)
  <2> DEFINE e == Stamp("heartbeat_accepted", now, w, g, None, None)
  <2>1. e \in Event
    BY <1>1, <1>2, <1>3, <1>5, StampType DEF EventKind
  <2>2. OwnsGeneration(snap, w, g) /\ secs \in Nat
    BY <1>12 DEF ProtocolHeartbeatWorker, HeartbeatOk, HasAuthority
  <2>3. /\ Follows(snap, Heartbeat(snap, w, now, secs))
        /\ SameAuthority(snap, Heartbeat(snap, w, now, secs))
    BY <1>1, <1>5, <2>2, HeartbeatFollows
  <2>4. CanApply(p) /\ Commit(p, Heartbeat(snap, w, now, secs), <<e>>, now)
    BY <1>12 DEF ProtocolHeartbeatWorker
  <2>5. <<e>> \in Seq(Event)
    BY <2>1
  <2>6. EventFits(snap, Heartbeat(snap, w, now, secs), e)
    BY <1>1, <1>2, <2>2, <2>3, OptionLemma
       DEF EventFits, Stamp, HolderKinds, GrantKinds, EndKinds, SameAuthority,
           OwnsGeneration, Retired, Terminal
  <2>7. EventsFit(snap, Heartbeat(snap, w, now, secs), <<e>>)
    BY <2>6, OneEventFits
  <2> QED BY <1>6, <2>3, <2>4, <2>5, <2>7, Zenon
<1>13. ASSUME NEW w \in Worker, NEW secs \in LeaseSeconds, ProtocolClaimWorker(p, w, now, secs)
       PROVE  Committed(p)
  <2> DEFINE e == Stamp("lease_claimed", now, w, snap.generation + 1, None, None)
  <2>1. snap.generation + 1 \in OptTime
    BY <1>1
  <2>2. e \in Event
    BY <1>1, <1>3, <1>5, <2>1, StampType DEF EventKind
  <2>3. Follows(snap, Claim(snap, w, now, secs)) /\ Grants(snap, Claim(snap, w, now, secs), w)
    BY <1>1, <1>5, <1>13, ClaimFollows DEF ProtocolClaimWorker
  <2>4. CanApply(p) /\ Commit(p, Claim(snap, w, now, secs), <<e>>, now)
    BY <1>13 DEF ProtocolClaimWorker
  <2>5. <<e>> \in Seq(Event)
    BY <2>2
  <2>6. EventFits(snap, Claim(snap, w, now, secs), e)
    BY <1>1, <2>3 DEF EventFits, Stamp, HolderKinds, GrantKinds, EndKinds, Grants
  <2>7. EventsFit(snap, Claim(snap, w, now, secs), <<e>>)
    BY <2>6, OneEventFits
  <2> QED BY <1>6, <2>3, <2>4, <2>5, <2>7, Zenon
<1>14. ASSUME NEW w \in Worker, NEW secs \in LeaseSeconds, ProtocolTakeoverWorker(p, w, now, secs)
       PROVE  Committed(p)
  <2> DEFINE old == snap.current_worker_id
  <2> DEFINE r == TakeoverReason(snap, w, now)
  <2> DEFINE e1 == Stamp("worker_superseded", now, old, snap.workers[old].generation, w, None)
  <2> DEFINE e2 == Stamp("lease_taken_over", now, w, snap.generation + 1, old, r)
  <2>1. TakeoverEligible(snap, w, now)
    BY <1>14 DEF ProtocolTakeoverWorker
  <2>2. old \in Worker
    BY <1>1, <1>5, <2>1, TakeoverValid
  <2>3. snap.generation + 1 \in OptTime /\ snap.workers[old].generation \in OptTime
    BY <1>1, <2>2 DEF Snapshot, Lease
  <2>4. r \in TakeoverReasons \cup {None}
    BY <2>1 DEF TakeoverEligible, TakeoverReasons
  <2> HIDE DEF r
  <2>5. e1 \in Event /\ e2 \in Event
    BY <1>1, <1>3, <1>5, <2>2, <2>3, <2>4, StampType DEF EventKind
  <2>6. /\ Follows(snap, Takeover(snap, w, now, secs))
        /\ Grants(snap, Takeover(snap, w, now, secs), w)
    BY <1>1, <1>5, <2>1, TakeoverFollows
  <2>7. CanApply(p) /\ Commit(p, Takeover(snap, w, now, secs), <<e1, e2>>, now)
    BY <1>14 DEF ProtocolTakeoverWorker, r
  <2>8. snap.workers[old].status = "active" /\ snap.workers[old].generation = snap.generation
    BY <1>1, <2>2 DEF ValidState, CurrentIsSoleActive, Active, CurrentOwnsGeneration
  <2>9. old # None /\ old \notin Retired(snap) /\ w \notin Retired(snap) /\ w # old
    BY <2>2, <2>6, <2>8 DEF Retired, Terminal, Grants
  <2>10. EventFits(snap, Takeover(snap, w, now, secs), e1)
    BY <1>1, <2>2, <2>6, <2>8, <2>9
       DEF EventFits, Stamp, HolderKinds, GrantKinds, EndKinds, Grants
  <2>11. EventFits(snap, Takeover(snap, w, now, secs), e2)
    BY <1>1, <2>6, <2>9 DEF EventFits, Stamp, HolderKinds, GrantKinds, EndKinds, Grants
  <2>12. Fenced(<<e1, e2>>)
    BY <1>1, <2>8, <2>9 DEF Fenced, Stamp, HolderKinds, GrantKinds, EndKinds
  <2> HIDE DEF e1, e2
  <2>13. EventsFit(snap, Takeover(snap, w, now, secs), <<e1, e2>>)
    BY <2>10, <2>11, <2>12 DEF EventsFit
  <2>14. <<e1, e2>> \in Seq(Event)
    BY <2>5
  <2> QED BY <1>6, <2>6, <2>7, <2>13, <2>14, Zenon
<1> QED BY <1>4, <1>7, <1>8, <1>9, <1>10, <1>11, <1>12, <1>13, <1>14

\* Committing a snapshot that can follow the stored one preserves the invariant.
LEMMA CommitLemma ==
    ASSUME StoreInv, NEW p \in Proc, NEW t \in Snapshot, NEW evs \in Seq(Event), NEW now \in Nat,
           Follows(snap, t), Commit(p, t, evs, now)
    PROVE  StoreInv'
<1>1. /\ snap' = t /\ canon' = Sync(canon, t, now) /\ bound' = KeptBindings(t)
      /\ events' = events \o evs /\ view' = [view EXCEPT ![p] = t]
      /\ reading' = reading /\ binding' = binding
  BY DEF Commit
<1>2. TypeOK /\ snap \in Snapshot /\ canon \in Canon /\ LegacyConsistent(canon, snap)
  BY DEF StoreInv, TypeOK, MirrorConsistent
<1>3. EndsAreDated(t)
  BY DEF StoreInv, EndsAreDated, Follows, LeaseKept
<1>4. \A w \in Worker : snap.workers[w].status # "unregistered"
                           => t.workers[w].registered_at = snap.workers[w].registered_at
  BY DEF Follows, LeaseKept
<1>5. snap.task_status = "open"
  BY DEF Follows
<1>6. Sync(canon, t, now) \in Canon /\ LegacyConsistent(Sync(canon, t, now), t)
  BY <1>2, <1>3, <1>4, <1>5, SyncLemma
<1>7. TypeOK'
  BY <1>1, <1>2, <1>6 DEF TypeOK, KeptBindings
<1>8. SnapshotValid' /\ MirrorConsistent' /\ EndsAreDated(snap)'
  BY <1>1, <1>3, <1>6 DEF SnapshotValid, MirrorConsistent, EndsAreDated, Follows
<1>9. ViewsArePast'
  <2> SUFFICES ASSUME NEW q \in Proc
               PROVE  PastOrCurrent(view[q])' /\ PastOrCurrent(reading[q])'
    BY DEF ViewsArePast
  <2>1. snap.revision \in Nat /\ snap'.revision = snap.revision + 1
    BY <1>1, <1>2 DEF Snapshot, Follows
  <2>2. ASSUME NEW v \in Snapshot \cup {None}, PastOrCurrent(v)
        PROVE  v # None => v.revision < snap'.revision
    <3> SUFFICES ASSUME v # None PROVE v.revision < snap'.revision
      OBVIOUS
    <3>1. v.revision \in Nat /\ v.revision <= snap.revision
      BY <2>2 DEF PastOrCurrent, Snapshot
    <3> QED BY <2>1, <3>1
  <2>3. view[q] # None => view[q].revision < snap'.revision
    BY <1>2, <2>2 DEF StoreInv, ViewsArePast, TypeOK
  <2>4. reading[q] # None => reading[q].revision < snap'.revision
    BY <1>2, <2>2 DEF StoreInv, ViewsArePast, TypeOK
  <2>5. (view[q] # None => view[q].revision \in Nat) /\ (reading[q] # None => reading[q].revision \in Nat)
    BY <1>2 DEF TypeOK, Snapshot
  <2>6. PastOrCurrent(reading[q])'
    BY <1>1, <2>1, <2>4, <2>5 DEF PastOrCurrent
  <2>7. view'[q] = IF q = p THEN t ELSE view[q]
    BY <1>1, <1>2 DEF TypeOK
  <2>8. PastOrCurrent(view[q])'
    BY <1>1, <2>1, <2>3, <2>5, <2>7 DEF PastOrCurrent
  <2> QED BY <2>6, <2>8
<1> QED BY <1>7, <1>8, <1>9 DEF StoreInv

\* A load or a window binding never touches the store, and what a load assembles is either the
\* stored snapshot or carries an older revision.
LEMMA LoadLeaseRowsLemma ==
    ASSUME StoreInv, NEW p \in Proc, LoadLeaseRows(p)
    PROVE  StoreInv'
<1> DEFINE r == reading[p]
<1> DEFINE a == Assemble(r, snap)
<1>1. TypeOK /\ snap \in Snapshot /\ r \in Snapshot /\ r # None
  BY DEF StoreInv, TypeOK, LoadLeaseRows
<1>2. /\ snap' = snap /\ canon' = canon /\ bound' = bound /\ events' = events
      /\ binding' = binding /\ reading' = [reading EXCEPT ![p] = None]
      /\ view' = [view EXCEPT ![p] = a] \/ view' = [view EXCEPT ![p] = None]
  BY DEF LoadLeaseRows
<1>3. PastOrCurrent(r)
  BY DEF StoreInv, ViewsArePast
<1>4. a \in Snapshot /\ a.revision = r.revision
  BY <1>1 DEF Assemble, Snapshot
<1>5. r = snap => a = snap
  BY <1>1 DEF Assemble, Snapshot
<1> HIDE DEF a
<1>6. PastOrCurrent(a)
  BY <1>1, <1>3, <1>4, <1>5 DEF PastOrCurrent
<1>7. PastOrCurrent(None)
  BY DEF PastOrCurrent
<1>8. TypeOK'
  BY <1>1, <1>2, <1>4 DEF TypeOK
<1>9. \A q \in Proc : PastOrCurrent(view'[q]) /\ PastOrCurrent(reading'[q])
  <2> SUFFICES ASSUME NEW q \in Proc
               PROVE  PastOrCurrent(view'[q]) /\ PastOrCurrent(reading'[q])
    OBVIOUS
  <2>1. PastOrCurrent(view[q]) /\ PastOrCurrent(reading[q])
    BY DEF StoreInv, ViewsArePast
  <2>2. view'[q] \in {a, None, view[q]} /\ reading'[q] \in {None, reading[q]}
    BY <1>1, <1>2 DEF TypeOK
  <2> QED BY <1>6, <1>7, <2>1, <2>2
<1>10. ViewsArePast'
  BY <1>2, <1>9 DEF ViewsArePast, PastOrCurrent
<1> QED BY <1>2, <1>8, <1>10 DEF StoreInv, SnapshotValid, MirrorConsistent, EndsAreDated

\* Every step of the store preserves the invariant.
LEMMA NextLemma ==
    StoreInv /\ [Next]_vars => StoreInv'
<1> SUFFICES ASSUME StoreInv, [Next]_vars PROVE StoreInv'
  OBVIOUS
<1>1. TypeOK /\ SnapshotValid
  BY DEF StoreInv
<1>2. CASE UNCHANGED vars
  BY <1>2 DEF vars, StoreInv, TypeOK, SnapshotValid, MirrorConsistent, ViewsArePast,
              PastOrCurrent, EndsAreDated
<1>3. ASSUME NEW p \in Proc, LoadTaskRow(p)
      PROVE  StoreInv'
  <2>1. /\ snap' = snap /\ canon' = canon /\ bound' = bound /\ events' = events
        /\ binding' = binding /\ view' = view /\ reading' = [reading EXCEPT ![p] = snap]
    BY <1>3 DEF LoadTaskRow
  <2>2. TypeOK'
    BY <1>1, <2>1 DEF TypeOK
  <2>3. PastOrCurrent(snap)
    BY <1>1 DEF PastOrCurrent, TypeOK, Snapshot
  <2>4. \A q \in Proc : PastOrCurrent(reading'[q]) /\ PastOrCurrent(view'[q])
    BY <1>1, <2>1, <2>3 DEF StoreInv, ViewsArePast, TypeOK
  <2>5. ViewsArePast'
    BY <2>1, <2>4 DEF ViewsArePast, PastOrCurrent
  <2> QED BY <2>1, <2>2, <2>5 DEF StoreInv, SnapshotValid, MirrorConsistent, EndsAreDated
<1>4. ASSUME NEW p \in Proc, LoadLeaseRows(p)
      PROVE  StoreInv'
  BY <1>4, LoadLeaseRowsLemma
<1>5. ASSUME NEW p \in Proc, Transition(p)
      PROVE  StoreInv'
  <2>1. Committed(p)
    BY <1>1, <1>5, TransitionCommits
  <2> QED BY <2>1, CommitLemma DEF Committed
<1>6. ASSUME NEW p \in Binders, WindowBinding(p)
      PROVE  StoreInv'
  <2>1. /\ snap' = snap /\ canon' = canon /\ events' = events /\ reading' = reading
        /\ view' = view
    BY <1>6 DEF WindowBinding, BindInsert, BindCheckActive, ClearBinding
  <2>2. bound' \subseteq Worker /\ binding' \in [Proc -> OptWorker]
    BY <1>1, <1>6, StoreAssumption
       DEF WindowBinding, BindInsert, BindCheckActive, ClearBinding, TypeOK, OptWorker
  <2>3. TypeOK'
    BY <1>1, <2>1, <2>2 DEF TypeOK
  <2> QED BY <2>1, <2>3 DEF StoreInv, SnapshotValid, MirrorConsistent, ViewsArePast,
                            PastOrCurrent, EndsAreDated
<1> QED BY <1>2, <1>3, <1>4, <1>5, <1>6 DEF Next

\* The store keeps its inductive invariant, for every number of workers and processes.
THEOREM StoreInvariant == Spec => []StoreInv
<1>1. Init => StoreInv
  BY InitLemma
<1>2. StoreInv /\ [Next]_vars => StoreInv'
  BY NextLemma
<1> QED BY <1>1, <1>2, PTL DEF Spec

-----------------------------------------------------------------------------
(***************************************************************************)
(* The safety properties.                                                  *)
(***************************************************************************)
\* The rows of every table, the views and the event log always have their types.
THEOREM TypeCorrect == Spec => []TypeOK
<1>1. StoreInv => TypeOK
  BY DEF StoreInv
<1> QED BY <1>1, StoreInvariant, PTL

\* validate_state never raises: the stored snapshot always has at most one active worker, owning
\* the current generation.
THEOREM AlwaysValid == Spec => []SnapshotValid
<1>1. StoreInv => SnapshotValid
  BY DEF StoreInv
<1> QED BY <1>1, StoreInvariant, PTL

\* _validate_legacy_consistency never locks a task out of its own loader.
THEOREM MirrorNeverDiverges == Spec => []MirrorConsistent
<1>1. StoreInv => MirrorConsistent
  BY DEF StoreInv
<1> QED BY <1>1, StoreInvariant, PTL

\* Comparing expected_revision alone rejects every stale and every torn view.
THEOREM RevisionSuffices == Spec => []RevisionVouchesForView
<1>1. StoreInv => RevisionVouchesForView
  BY DEF StoreInv, ViewsArePast, PastOrCurrent, RevisionVouchesForView
<1> QED BY <1>1, StoreInvariant, PTL

\* Only a process whose view is exactly the stored snapshot ever commits.
THEOREM OnlyCurrentViewsCommit == Spec => CommitsFromCurrentView
<1>1. StoreInv /\ [Next]_vars
        => [snap' # snap => \E p \in Proc : view[p] = snap /\ view'[p] = snap']_vars
  <2> SUFFICES ASSUME StoreInv, Next, snap' # snap
               PROVE  \E p \in Proc : view[p] = snap /\ view'[p] = snap'
    OBVIOUS
  <2>1. PICK p \in Proc : Transition(p)
    BY DEF Next, LoadTaskRow, LoadLeaseRows, WindowBinding, BindInsert, BindCheckActive,
           ClearBinding
  <2>2. Committed(p)
    BY <2>1, TransitionCommits DEF StoreInv
  <2>3. view[p] = snap
    BY <2>2 DEF Committed, CanApply, RevisionMatches, StoreInv, ViewsArePast, PastOrCurrent
  <2>4. view'[p] = snap'
    BY <2>2 DEF Committed, Commit, StoreInv, TypeOK
  <2> QED BY <2>3, <2>4
<1> QED BY <1>1, StoreInvariant, PTL DEF Spec, CommitsFromCurrentView

-----------------------------------------------------------------------------
(***************************************************************************)
(* Window bindings.                                                        *)
(***************************************************************************)
\* The workers that hold authority in s or have held it.
Served(s) == Active(s) \cup Retired(s)

\* Whoever has a window binding, or is being given one, serves or has served.
BindInv ==
    /\ bound \subseteq Served(snap)
    /\ \A p \in Proc : binding[p] # None => binding[p] \in Served(snap)

\* A transition turns nobody who has served back into a candidate.
LEMMA ServedGrows ==
    ASSUME NEW s \in Snapshot, ValidState(s), NEW t, Follows(s, t)
    PROVE  Served(s) \subseteq Served(t)
<1>1. t \in Snapshot /\ ValidState(t) /\ AuthorityStep(s, t)
  BY DEF Follows
<1>2. /\ Active(s) = IF s.current_worker_id = None THEN {} ELSE {s.current_worker_id}
      /\ Active(t) = IF t.current_worker_id = None THEN {} ELSE {t.current_worker_id}
  BY <1>1 DEF ValidState, CurrentIsSoleActive
<1>3. Retired(s) \subseteq Retired(t)
  BY <1>1 DEF AuthorityStep, SameAuthority, Grants, Releases, Closes
<1>4. Active(s) \subseteq Active(t) \cup Retired(t)
  BY <1>1, <1>2 DEF AuthorityStep, SameAuthority, Grants, Releases, Closes
<1> QED BY <1>3, <1>4 DEF Served

\* Every step keeps BindInv.
LEMMA NextKeepsBindings ==
    ASSUME StoreInv, BindInv, [Next]_vars
    PROVE  BindInv'
<1>1. TypeOK /\ SnapshotValid /\ MirrorConsistent
  BY DEF StoreInv
<1>2. CASE snap' = snap /\ bound' = bound /\ binding' = binding
  BY <1>2 DEF BindInv
<1>3. ASSUME NEW p \in Proc, Transition(p)
      PROVE  BindInv'
  <2>1. Follows(snap, snap') /\ bound' \subseteq bound /\ binding' = binding
    BY <1>1, <1>3, TransitionCommits DEF Committed, Commit, KeptBindings
  <2>2. Served(snap) \subseteq Served(snap')
    BY <1>1, <2>1, ServedGrows DEF TypeOK, SnapshotValid
  <2> QED BY <2>1, <2>2 DEF BindInv
<1>4. ASSUME NEW p \in Binders, WindowBinding(p)
      PROVE  BindInv'
  <2>1. CASE BindInsert(p)
    BY <1>1, <2>1, StoreAssumption DEF BindInsert, BindInv, TypeOK
  <2>2. ASSUME NEW w \in Worker, BindCheckActive(p, w)
        PROVE  BindInv'
    <3>1. canon.workers[w].status = "ACTIVE" /\ RowAgrees(canon.workers[w], snap.workers[w])
      BY <1>1, <2>2 DEF BindCheckActive, MirrorConsistent, LegacyConsistent
    <3>2. snap.workers[w].status = "active"
      BY <3>1 DEF RowAgrees, LegacyStatus
    <3>3. w \in Served(snap)
      BY <3>2 DEF Served, Active
    <3> QED BY <1>1, <2>2, <3>3 DEF BindCheckActive, BindInv, TypeOK
  <2>3. ASSUME NEW w \in Worker, ClearBinding(p, w)
        PROVE  BindInv'
    BY <2>3 DEF ClearBinding, BindInv
  <2> QED BY <1>4, <2>1, <2>2, <2>3 DEF WindowBinding
<1>5. ASSUME NEW p \in Proc, LoadTaskRow(p) \/ LoadLeaseRows(p)
      PROVE  BindInv'
  BY <1>2, <1>5 DEF LoadTaskRow, LoadLeaseRows
<1> QED BY <1>2, <1>3, <1>4, <1>5 DEF Next, vars

\* A lease starts without a window binding: a row inserted for a worker that ended while
\* bind_worker_window was between its two statements never counts for a later lease.
THEOREM NoInheritedBinding == Spec => LeasesStartUnbound
<1>1. Init => BindInv
  BY DEF Init, BindInv
<1>2. StoreInv /\ BindInv /\ [Next]_vars => BindInv'
  BY NextKeepsBindings
<1>3. StoreInv /\ BindInv /\ [Next]_vars
        => [\A w \in Active(snap') \ Active(snap) :
                w \notin bound' /\ \A p \in Proc : binding'[p] # w]_vars
  <2> SUFFICES ASSUME StoreInv, BindInv, Next, NEW w \in Active(snap'), w \notin Active(snap)
               PROVE  w \notin bound' /\ \A p \in Proc : binding'[p] # w
    OBVIOUS
  <2>1. PICK p \in Proc : Transition(p)
    BY DEF Next, LoadTaskRow, LoadLeaseRows, WindowBinding, BindInsert, BindCheckActive,
           ClearBinding
  <2>2. Follows(snap, snap') /\ bound' \subseteq bound /\ binding' = binding
    BY <2>1, TransitionCommits DEF Committed, Commit, KeptBindings, StoreInv
  <2>3. w \in Worker /\ snap'.workers[w].status = "active"
    BY DEF Active
  <2>4. w \notin Retired(snap)
    BY <2>2, <2>3 DEF Follows, LeaseKept, Retired, Terminal
  <2>5. w \notin Served(snap) /\ w # None
    BY <2>3, <2>4, OptionLemma DEF Served
  <2> QED BY <2>2, <2>5 DEF BindInv
<1> QED BY <1>1, <1>2, <1>3, StoreInvariant, PTL DEF Spec, LeasesStartUnbound

-----------------------------------------------------------------------------
(***************************************************************************)
(* The store implements WorkerAuthority.                                   *)
(***************************************************************************)
\* Every committed transition is a step of the abstract specification or leaves authority alone.
LEMMA AuthorityStepRefines ==
    ASSUME StoreInv, NEW p \in Proc, Committed(p)
    PROVE  [Authority!Next]_(Authority!authority)
<1>1. Follows(snap, snap') /\ snap \in Snapshot
  BY DEF Committed, Commit, StoreInv, TypeOK
<1>2. AuthorityStep(snap, snap') /\ snap.task_status = "open"
  BY <1>1 DEF Follows
<1> USE DEF Retired
<1>3. CASE SameAuthority(snap, snap')
  BY <1>3 DEF SameAuthority, Authority!authority
<1>4. ASSUME NEW w \in Worker, Grants(snap, snap', w)
      PROVE  Authority!Next
  <2>1. CASE snap.current_worker_id = None
    <3>1. Authority!Grant(w)
      BY <1>2, <1>4, <2>1 DEF Grants, Authority!Grant
    <3> QED BY <3>1 DEF Authority!Next
  <2>2. CASE snap.current_worker_id # None
    <3>1. Authority!Transfer(w)
      BY <1>2, <1>4, <2>2 DEF Grants, Authority!Transfer
    <3> QED BY <3>1 DEF Authority!Next
  <2> QED BY <2>1, <2>2
<1>5. CASE Releases(snap, snap')
  BY <1>2, <1>5 DEF Releases, Authority!Next, Authority!Release
<1>6. CASE Closes(snap, snap')
  BY <1>2, <1>6 DEF Closes, Authority!Next, Authority!Close
<1> QED BY <1>2, <1>3, <1>4, <1>5, <1>6 DEF AuthorityStep

\* The persisted protocol implements the abstract authority specification: one holder, a new
\* epoch with every grant, no way back for a retired conversation, and a closed task stays
\* closed, whatever processes, clocks and stale views do.
THEOREM StoreImplementsAuthority == Spec => ImplementsAuthority
<1>1. Init => Authority!Init
  <2> SUFFICES ASSUME Init PROVE Authority!Init
    OBVIOUS
  <2>1. StoreInv
    BY InitLemma
  <2>2. snap \in Snapshot /\ ValidState(snap)
    BY <2>1 DEF StoreInv, TypeOK, SnapshotValid
  <2>3. snap.generation = IF snap.current_worker_id = None THEN 0 ELSE 1
    BY DEF Init, StateFromLegacy, NewTaskState
  <2>4. snap.current_worker_id # None =>
          /\ snap.current_worker_id \in Worker
          /\ snap.workers[snap.current_worker_id].status = "active"
          /\ snap.task_status # "completed"
    BY <2>2 DEF ValidState, CurrentIsSoleActive, Active, CompletedTaskHasNoWorker
  <2> QED BY <2>3, <2>4 DEF Authority!Init, Terminal
<1>2. StoreInv /\ [Next]_vars => [Authority!Next]_(Authority!authority)
  <2> SUFFICES ASSUME StoreInv, [Next]_vars PROVE [Authority!Next]_(Authority!authority)
    OBVIOUS
  <2>1. CASE snap' = snap
    BY <2>1 DEF Authority!authority
  <2>2. CASE snap' # snap
    <3>1. PICK p \in Proc : Transition(p)
      BY <2>2 DEF Next, vars, LoadTaskRow, LoadLeaseRows, WindowBinding, BindInsert,
                  BindCheckActive, ClearBinding
    <3>2. Committed(p)
      BY <3>1, TransitionCommits DEF StoreInv
    <3> QED BY <3>2, AuthorityStepRefines
  <2> QED BY <2>1, <2>2
<1> QED BY <1>1, <1>2, StoreInvariant, PTL DEF Spec, ImplementsAuthority, Authority!Spec

-----------------------------------------------------------------------------
(***************************************************************************)
(* The append-only event log proves that a conversation, once superseded,  *)
(* completed or abandoned, stays fenced.                                   *)
(*                                                                         *)
(* FencedForever speaks about pairs of events only and is not inductive.   *)
(* LogInv ties the log to the store: no event is ahead of the stored       *)
(* generation, and every event that ended authority names a retired worker *)
(* and a generation that is either left behind or not held any more.       *)
(***************************************************************************)
LogMatchesStore ==
    \A i \in DOMAIN events :
        /\ events[i].kind \in HolderKinds =>
             events[i].generation \in Nat /\ events[i].generation <= snap.generation
        /\ events[i].kind \in EndKinds =>
             /\ events[i].worker_id \in Retired(snap)
             /\ snap.current_worker_id # None => events[i].generation < snap.generation

LogInv == LogMatchesStore /\ FencedForever

\* The last heartbeat the store keeps for the holder.
LastHeartbeat(s) == s.workers[s.current_worker_id].last_heartbeat_at

\* The store remembers the latest grant or renewal of the current generation.
HeartbeatsKept ==
    \A i \in DOMAIN events :
        /\ events[i].kind \in GrantKinds \cup {"heartbeat_accepted"}
        /\ events[i].generation = snap.generation
        /\ snap.current_worker_id # None
        => LastHeartbeat(snap) # None /\ events[i].at <= LastHeartbeat(snap)

\* A pending handoff is the last one requested, by the holder and for its target.
PendingRequested ==
    snap.handoff_target_worker_id # None =>
        \E i \in DOMAIN events :
            /\ events[i].kind = "handoff_requested"
            /\ events[i].generation = snap.generation
            /\ events[i].worker_id = snap.current_worker_id
            /\ events[i].related_worker_id = snap.handoff_target_worker_id
            /\ \A k \in DOMAIN events : k > i => events[k].kind # "handoff_requested"

TruthInv == LogIsTruthful /\ HeartbeatsKept /\ PendingRequested

-----------------------------------------------------------------------------
\* A retired worker stays retired and the generation never decreases; a worker that gets
\* authority back from nobody gets it with a new generation.
LEMMA AuthorityMonotone ==
    ASSUME NEW s \in Snapshot, NEW t \in Snapshot, ValidState(s), AuthorityStep(s, t)
    PROVE  /\ Retired(s) \subseteq Retired(t)
           /\ s.generation <= t.generation
           /\ t.current_worker_id # None =>
                s.generation < t.generation \/ s.current_worker_id # None
<1>1. s.generation \in Nat /\ t.generation \in Nat
  BY DEF Snapshot
<1> QED BY <1>1 DEF AuthorityStep, SameAuthority, Grants, Releases, Closes

\* Appending the events of a committed transition keeps the log in step with the store.
LEMMA CommitKeepsLog ==
    ASSUME StoreInv, LogInv, NEW p \in Proc, Committed(p)
    PROVE  LogInv'
<1>1. PICK t \in Snapshot, evs \in Seq(Event), now \in Nat :
        Follows(snap, t) /\ EventsFit(snap, t, evs) /\ Commit(p, t, evs, now)
  BY DEF Committed
<1>2. snap' = t /\ events' = events \o evs
  BY <1>1 DEF Commit
<1>3. snap \in Snapshot /\ events \in Seq(Event) /\ ValidState(snap)
  BY DEF StoreInv, TypeOK, SnapshotValid
<1>4. snap.generation \in Nat /\ t.generation \in Nat
  BY <1>3 DEF Snapshot
<1>5. /\ Retired(snap) \subseteq Retired(t)
      /\ snap.generation <= t.generation
      /\ t.current_worker_id # None =>
           snap.generation < t.generation \/ snap.current_worker_id # None
  BY <1>1, <1>3, AuthorityMonotone DEF Follows
<1> DEFINE log == events \o evs
<1> DEFINE n == Len(events)
<1> DEFINE m == Len(evs)
<1>6. /\ DOMAIN log = 1 .. n + m /\ n \in Nat /\ m \in Nat
      /\ DOMAIN events = 1 .. n /\ DOMAIN evs = 1 .. m
  BY <1>1, <1>3
<1>7. \A i \in 1 .. n : log[i] = events[i]
  BY <1>1, <1>3
<1>8. \A i \in n + 1 .. n + m : log[i] = evs[i - n] /\ i - n \in 1 .. m
  BY <1>1, <1>3, <1>6
<1> HIDE DEF log, n, m
<1>9. \A i \in 1 .. n :
        /\ log[i].kind \in HolderKinds =>
             log[i].generation \in Nat /\ log[i].generation <= snap.generation
        /\ log[i].kind \in EndKinds =>
             /\ log[i].worker_id \in Retired(snap)
             /\ snap.current_worker_id # None => log[i].generation < snap.generation
  BY <1>6, <1>7 DEF LogInv, LogMatchesStore
<1>10. \A i \in n + 1 .. n + m : EventFits(snap, t, log[i])
  BY <1>1, <1>6, <1>8 DEF EventsFit
<1>11. \A i \in 1 .. n : i \in DOMAIN events
  BY <1>6
<1>12. EndKinds \subseteq HolderKinds
  BY DEF HolderKinds
<1>13. LogMatchesStore'
  <2> SUFFICES ASSUME NEW i \in 1 .. n + m
               PROVE  /\ log[i].kind \in HolderKinds =>
                           log[i].generation \in Nat /\ log[i].generation <= t.generation
                      /\ log[i].kind \in EndKinds =>
                           /\ log[i].worker_id \in Retired(t)
                           /\ t.current_worker_id # None => log[i].generation < t.generation
    <3>1. DOMAIN events' = 1 .. n + m /\ events' = log /\ snap' = t
      BY <1>2, <1>6 DEF log
    <3> QED BY <3>1 DEF LogMatchesStore, Retired
  <2>1. CASE i \in 1 .. n
    BY <1>4, <1>5, <1>9, <1>12, <2>1
  <2>2. CASE i \in n + 1 .. n + m
    BY <1>10, <2>2 DEF EventFits
  <2> QED BY <1>6, <2>1, <2>2
<1>14. Fenced(log)
  <2> SUFFICES ASSUME NEW i \in 1 .. n + m, NEW j \in 1 .. n + m, i < j,
                      log[i].kind \in EndKinds, log[j].kind \in HolderKinds
               PROVE  /\ log[j].generation > log[i].generation
                      /\ log[j].worker_id # log[i].worker_id
    BY <1>6 DEF Fenced
  <2>1. CASE i \in 1 .. n /\ j \in 1 .. n
    BY <1>7, <1>11, <2>1 DEF LogInv, FencedForever
  <2>2. CASE i \in 1 .. n /\ j \in n + 1 .. n + m
    <3>1. /\ log[i].worker_id \in Retired(snap)
          /\ log[i].generation \in Nat /\ log[i].generation <= snap.generation
          /\ snap.current_worker_id # None => log[i].generation < snap.generation
      BY <1>9, <1>12, <2>2
    <3>2. /\ log[j].worker_id \notin Retired(snap)
          /\ log[j].generation \in Nat /\ snap.generation <= log[j].generation
          /\ snap.current_worker_id = None => snap.generation < log[j].generation
      BY <1>10, <2>2 DEF EventFits
    <3> QED BY <1>4, <3>1, <3>2
  <2>3. CASE i \in n + 1 .. n + m /\ j \in n + 1 .. n + m
    <3>1. /\ i - n \in 1 .. m /\ j - n \in 1 .. m /\ i - n < j - n
          /\ log[i] = evs[i - n] /\ log[j] = evs[j - n]
      BY <1>6, <1>8, <2>3
    <3> QED BY <1>1, <1>6, <3>1 DEF EventsFit, Fenced
  <2> QED BY <1>6, <2>1, <2>2, <2>3
<1>15. FencedForever'
  BY <1>2, <1>14 DEF FencedForever, Fenced, log
<1> QED BY <1>13, <1>15 DEF LogInv

\* Every step keeps the log in step with the store: only a committed transition writes either.
LEMMA NextKeepsLog ==
    StoreInv /\ LogInv /\ [Next]_vars => LogInv'
<1> SUFFICES ASSUME StoreInv, LogInv, [Next]_vars PROVE LogInv'
  OBVIOUS
<1>1. CASE UNCHANGED <<snap, events>>
  BY <1>1 DEF LogInv, LogMatchesStore, FencedForever, Retired
<1>2. ASSUME NEW p \in Proc, Transition(p)
      PROVE  LogInv'
  BY <1>2, TransitionCommits, CommitKeepsLog DEF StoreInv
<1> QED BY <1>1, <1>2 DEF Next, vars, LoadTaskRow, LoadLeaseRows, WindowBinding, BindInsert,
                          BindCheckActive, ClearBinding

\* Once a conversation has been superseded, completed or abandoned, no later heartbeat, handoff,
\* completion, claim or takeover is accepted from it or for its generation, for any number of
\* processes and workers and whatever the clocks show.
THEOREM FencedConversationsStayFenced == Spec => []FencedForever
<1>1. Init => LogInv
  BY DEF Init, LogInv, LogMatchesStore, FencedForever
<1>2. StoreInv /\ LogInv /\ [Next]_vars => LogInv'
  BY NextKeepsLog
<1>3. LogInv => FencedForever
  BY DEF LogInv
<1> QED BY <1>1, <1>2, <1>3, StoreInvariant, PTL DEF Spec

-----------------------------------------------------------------------------
(***************************************************************************)
(* What the events of a transition from s to t tell about it.              *)
(***************************************************************************)
\* Event e grants authority: t's holder, its generation and its first heartbeat are e's.
GrantTold(s, t, e) ==
    /\ t.current_worker_id = e.worker_id /\ t.generation = e.generation
    /\ e.generation = s.generation + 1
    /\ t.handoff_target_worker_id = None /\ LastHeartbeat(t) = e.at

\* The single event e of every transition but a takeover.
Tells(s, t, e) ==
    /\ e.kind \notin {"worker_superseded", "lease_taken_over"}
    /\ e.kind \in {"heartbeat_accepted", "handoff_requested", "worker_completed"} =>
          /\ s.current_worker_id # None /\ e.generation = s.generation
          /\ LastHeartbeat(s) # None => LastHeartbeat(s) <= e.at
    /\ e.kind \in EndKinds => t.current_worker_id = None /\ t.handoff_target_worker_id = None
    /\ e.kind = "lease_claimed" => GrantTold(s, t, e)
    /\ e.kind \notin GrantKinds \cup EndKinds =>
          /\ t.current_worker_id = s.current_worker_id /\ t.generation = s.generation
          /\ t.handoff_target_worker_id =
                IF e.kind = "handoff_requested" THEN e.related_worker_id
                ELSE s.handoff_target_worker_id
          /\ s.current_worker_id # None =>
                LastHeartbeat(t) = IF e.kind = "heartbeat_accepted" THEN e.at
                                   ELSE LastHeartbeat(s)
    /\ e.kind = "handoff_requested" => e.worker_id = s.current_worker_id

\* The two events of a takeover.
TellsTakeover(s, t, d, e) ==
    /\ d.kind = "worker_superseded" /\ e.kind = "lease_taken_over"
    /\ GrantTold(s, t, e)
    /\ e.ref = "handoff" =>
          /\ s.handoff_target_worker_id = e.worker_id /\ s.handoff_target_worker_id # None
          /\ e.related_worker_id = s.current_worker_id

Appended(evs) == events' = events \o evs

Told ==
    \/ \E e \in Event : Appended(<<e>>) /\ Tells(snap, snap', e)
    \/ \E d, e \in Event : Appended(<<d, e>>) /\ TellsTakeover(snap, snap', d, e)

\* An accepted call of the holder is not earlier than the heartbeat the store keeps.
LEMMA NotBeforeHeartbeat ==
    ASSUME NEW s \in Snapshot, NEW w \in Worker, NEW g, NEW now \in Nat, HasAuthority(s, w, g, now)
    PROVE  /\ s.current_worker_id = w /\ w # None /\ g = s.generation /\ OwnsGeneration(s, w, g)
           /\ LastHeartbeat(s) # None => LastHeartbeat(s) <= now
<1>1. s.current_worker_id = w /\ g = s.generation /\ OwnsGeneration(s, w, g)
  BY DEF HasAuthority, OwnsGeneration
<1>2. LastHeartbeat(s) # None => LastHeartbeat(s) <= now
  BY <1>1 DEF HasAuthority, NotBeforeTimeline, LastHeartbeat
<1> QED BY <1>1, <1>2, OptionLemma

\* Each disjunct of Transition tells what it does.
LEMMA TransitionTells ==
    ASSUME TypeOK, SnapshotValid, NEW p \in Proc, Transition(p)
    PROVE  Told
<1> USE StoreAssumption
<1>1. snap \in Snapshot /\ ValidState(snap) /\ snap.generation \in Nat
      /\ snap.workers \in [Worker -> Lease] /\ snap.current_worker_id \in OptWorker
  BY DEF TypeOK, SnapshotValid, Snapshot
<1> PICK s : s = snap
  OBVIOUS
<1>2. \A g \in Generations(p) : g \in Nat /\ g \in OptTime
  BY DEF Generations, OptTime
<1>3. None \in TakeoverReasons \cup {None} /\ None \in OptTime /\ None \in OptWorker
  BY OptionLemma
<1>4. PICK now \in Times :
        \/ ProtocolCompleteTask(p, now)
        \/ \E w \in Worker :
              \/ ProtocolRegisterWorker(p, w, now)
              \/ \E g \in Generations(p) :
                    \/ ProtocolCompleteWorker(p, w, g, now)
                    \/ ProtocolAbandonWorker(p, w, g, now)
                    \/ \E target \in Worker : ProtocolRequestHandoff(p, w, target, g, now)
                    \/ \E secs \in LeaseSeconds : ProtocolHeartbeatWorker(p, w, g, now, secs)
              \/ \E secs \in LeaseSeconds :
                    \/ ProtocolClaimWorker(p, w, now, secs)
                    \/ ProtocolTakeoverWorker(p, w, now, secs)
  BY DEF Transition
<1>5. now \in Nat /\ now # None
  BY OptionLemma
<1>6. CASE ProtocolCompleteTask(p, now)
  <2> DEFINE e == Stamp("task_completed", now, None, snap.generation, None, None)
  <2>1. e \in Event
    BY <1>1, <1>3, <1>5, StampType, OptionLemma DEF EventKind
  <2>2. e.kind = "task_completed"
    BY DEF Stamp
  <2>3. snap' = CompleteTask(s, now) /\ events' = events \o <<e>>
    BY <1>6 DEF ProtocolCompleteTask, Commit
  <2> HIDE DEF e
  <2>4. snap' = MkSnapshot(s.revision + 1, s.generation, "completed", s.current_worker_id,
                           s.handoff_target_worker_id, s.handoff_requested_at, now, s.workers)
    BY <1>1, <1>5, <2>3, CompleteTaskEquation
  <2>5. Tells(snap, snap', e)
    BY <2>2, <2>4 DEF Tells, MkSnapshot, LastHeartbeat, GrantKinds, EndKinds
  <2> QED BY <2>1, <2>3, <2>5 DEF Told, Appended
<1>7. ASSUME NEW w \in Worker, ProtocolRegisterWorker(p, w, now)
      PROVE  Told
  <2> DEFINE e == Stamp("worker_registered", now, w, None, None, None)
  <2> DEFINE ws == [s.workers EXCEPT ![w] = Candidate(now)]
  <2>1. e \in Event
    BY <1>1, <1>3, <1>5, StampType, OptionLemma DEF EventKind
  <2>2. e.kind = "worker_registered"
    BY DEF Stamp
  <2>3. snap' = Register(s, w, now) /\ events' = events \o <<e>> /\ RegisterOk(s, w)
    BY <1>7 DEF ProtocolRegisterWorker, Commit
  <2> HIDE DEF e
  <2>4. snap' = MkSnapshot(s.revision + 1, s.generation, s.task_status, s.current_worker_id,
                           s.handoff_target_worker_id, s.handoff_requested_at,
                           s.completed_at, ws)
    BY <1>1, <1>5, <2>3, RegisterEquation
  <2>5. s.current_worker_id # None =>
          /\ s.current_worker_id # w
          /\ ws[s.current_worker_id] = s.workers[s.current_worker_id]
    <3>1. s.current_worker_id # None => s.workers[s.current_worker_id].status = "active"
      BY <1>1 DEF ValidState, CurrentIsSoleActive, Active
    <3>2. s.workers[w].status = "unregistered"
      BY <2>3 DEF RegisterOk
    <3> QED BY <1>1, <3>1, <3>2 DEF OptWorker
  <2> HIDE DEF ws
  <2>6. Tells(snap, snap', e)
    BY <2>2, <2>4, <2>5 DEF Tells, MkSnapshot, LastHeartbeat, GrantKinds, EndKinds
  <2> QED BY <2>1, <2>3, <2>6 DEF Told, Appended
<1>8. ASSUME NEW w \in Worker, NEW g \in Generations(p),
             ProtocolCompleteWorker(p, w, g, now) \/ ProtocolAbandonWorker(p, w, g, now)
      PROVE  Told
  <2> PICK kind \in {"worker_completed", "worker_abandoned"}, status \in Terminal :
        /\ snap' = EndWorker(s, w, status, now)
        /\ events' = events \o <<Stamp(kind, now, w, g, None, None)>>
        /\ OwnsGeneration(s, w, g)
        /\ kind = "worker_completed" => HasAuthority(s, w, g, now)
    BY <1>8 DEF ProtocolCompleteWorker, ProtocolAbandonWorker, Commit, CompleteWorker,
                AbandonWorker, CompleteWorkerOk, AbandonWorkerOk, HasAuthority, Terminal
  <2> DEFINE e == Stamp(kind, now, w, g, None, None)
  <2>1. e \in Event
    BY <1>1, <1>2, <1>3, <1>5, StampType, OptionLemma DEF EventKind
  <2>2. e.kind = kind /\ e.generation = g /\ e.at = now
    BY DEF Stamp
  <2>3. snap' = MkSnapshot(s.revision + 1, s.generation, s.task_status, None, None, None,
                           s.completed_at,
                           [s.workers EXCEPT ![w] = Ended(s.workers[w], status, now)])
    BY <1>1, <1>5, EndWorkerEquation DEF LeaseStatus
  <2>4. snap'.current_worker_id = None /\ snap'.handoff_target_worker_id = None
    BY <2>3 DEF MkSnapshot
  <2>5. events' = events \o <<e>>
    OBVIOUS
  <2> HIDE DEF e
  <2>6. kind = "worker_completed" =>
          /\ s.current_worker_id # None /\ g = s.generation
          /\ LastHeartbeat(s) # None => LastHeartbeat(s) <= now
    BY <1>1, <1>5, NotBeforeHeartbeat
  <2>7. Tells(snap, snap', e)
    BY <2>2, <2>4, <2>6 DEF Tells, GrantKinds, EndKinds
  <2> QED BY <2>1, <2>5, <2>7 DEF Told, Appended
<1>9. ASSUME NEW w \in Worker, NEW g \in Generations(p), NEW target \in Worker,
             ProtocolRequestHandoff(p, w, target, g, now)
      PROVE  Told
  <2> DEFINE e == Stamp("handoff_requested", now, w, g, target, None)
  <2>1. e \in Event
    BY <1>1, <1>2, <1>3, <1>5, StampType, OptionLemma DEF EventKind
  <2>2. /\ e.kind = "handoff_requested" /\ e.generation = g /\ e.at = now /\ e.worker_id = w
        /\ e.related_worker_id = target
    BY DEF Stamp
  <2>3. /\ snap' = RequestHandoff(s, target, now) /\ events' = events \o <<e>>
        /\ HasAuthority(s, w, g, now)
    BY <1>9 DEF ProtocolRequestHandoff, Commit, RequestHandoffOk
  <2> HIDE DEF e
  <2>4. snap' = MkSnapshot(s.revision + 1, s.generation, s.task_status, s.current_worker_id,
                           target, now, s.completed_at, s.workers)
    BY <1>1, <1>5, <2>3, HandoffEquation
  <2>5. /\ s.current_worker_id = w /\ s.current_worker_id # None /\ g = s.generation
        /\ LastHeartbeat(s) # None => LastHeartbeat(s) <= now
    BY <1>1, <1>5, <2>3, NotBeforeHeartbeat
  <2>6. LastHeartbeat(snap') = LastHeartbeat(s)
    BY <2>4 DEF MkSnapshot, LastHeartbeat
  <2>7. /\ snap'.current_worker_id = s.current_worker_id /\ snap'.generation = s.generation
        /\ snap'.handoff_target_worker_id = target
    BY <2>4 DEF MkSnapshot
  <2>8. Tells(snap, snap', e)
    BY <2>2, <2>5, <2>6, <2>7 DEF Tells, GrantKinds, EndKinds
  <2> QED BY <2>1, <2>3, <2>8 DEF Told, Appended
<1>10. ASSUME NEW w \in Worker, NEW g \in Generations(p), NEW secs \in LeaseSeconds,
              ProtocolHeartbeatWorker(p, w, g, now, secs)
       PROVE  Told
  <2> DEFINE e == Stamp("heartbeat_accepted", now, w, g, None, None)
  <2> DEFINE k == s.workers[w]
  <2> DEFINE l == Renewed(k, now, secs)
  <2>1. e \in Event
    BY <1>1, <1>2, <1>3, <1>5, StampType, OptionLemma DEF EventKind
  <2>2. e.kind = "heartbeat_accepted" /\ e.generation = g /\ e.at = now
    BY DEF Stamp
  <2>3. /\ snap' = Heartbeat(s, w, now, secs) /\ events' = events \o <<e>>
        /\ HasAuthority(s, w, g, now)
    BY <1>10 DEF ProtocolHeartbeatWorker, Commit, HeartbeatOk
  <2> HIDE DEF e
  <2>4. snap' = MkSnapshot(s.revision + 1, s.generation, s.task_status, s.current_worker_id,
                           s.handoff_target_worker_id, s.handoff_requested_at, s.completed_at,
                           [s.workers EXCEPT ![w] = l])
    BY <1>1, <1>5, <2>3, HeartbeatEquation
  <2>5. /\ s.current_worker_id = w /\ s.current_worker_id # None /\ g = s.generation
        /\ LastHeartbeat(s) # None => LastHeartbeat(s) <= now
    BY <1>1, <1>5, <2>3, NotBeforeHeartbeat
  <2>6. k \in Lease
    BY <1>1
  <2> HIDE DEF k
  <2>7. l.last_heartbeat_at = now
    BY <2>6 DEF Renewed, Lease
  <2> HIDE DEF l
  <2>8. /\ snap'.current_worker_id = s.current_worker_id /\ snap'.generation = s.generation
        /\ snap'.handoff_target_worker_id = s.handoff_target_worker_id
        /\ snap'.workers[w] = l
    BY <1>1, <2>4 DEF MkSnapshot
  <2>9. LastHeartbeat(snap') = now
    BY <2>5, <2>7, <2>8 DEF LastHeartbeat
  <2>10. Tells(snap, snap', e)
    BY <2>2, <2>5, <2>8, <2>9 DEF Tells, GrantKinds, EndKinds
  <2> QED BY <2>1, <2>3, <2>10 DEF Told, Appended
<1>11. ASSUME NEW w \in Worker, NEW secs \in LeaseSeconds, ProtocolClaimWorker(p, w, now, secs)
       PROVE  Told
  <2> DEFINE e == Stamp("lease_claimed", now, w, snap.generation + 1, None, None)
  <2> DEFINE k == s.workers[w]
  <2> DEFINE l == Granted(k, s.generation + 1, now, secs)
  <2>1. e \in Event
    BY <1>1, <1>3, <1>5, StampType, OptionLemma DEF EventKind
  <2>2. /\ e.kind = "lease_claimed" /\ e.generation = s.generation + 1 /\ e.at = now
        /\ e.worker_id = w
    BY DEF Stamp
  <2>3. snap' = Claim(s, w, now, secs) /\ events' = events \o <<e>>
    BY <1>11 DEF ProtocolClaimWorker, Commit
  <2> HIDE DEF e
  <2>4. snap' = MkSnapshot(s.revision + 1, s.generation + 1, s.task_status, w, None, None,
                           s.completed_at, [s.workers EXCEPT ![w] = l])
    BY <1>1, <1>5, <2>3, ClaimEquation
  <2>5. k \in Lease
    BY <1>1
  <2> HIDE DEF k
  <2>6. l.last_heartbeat_at = now
    BY <2>5 DEF Granted, Lease
  <2> HIDE DEF l
  <2>7. /\ snap'.current_worker_id = w /\ snap'.generation = s.generation + 1
        /\ snap'.handoff_target_worker_id = None /\ snap'.workers[w] = l
    BY <1>1, <2>4 DEF MkSnapshot
  <2>8. GrantTold(snap, snap', e)
    BY <2>2, <2>6, <2>7 DEF GrantTold, LastHeartbeat
  <2>9. Tells(snap, snap', e)
    BY <2>2, <2>8 DEF Tells, GrantKinds, EndKinds
  <2> QED BY <2>1, <2>3, <2>9 DEF Told, Appended
<1>12. ASSUME NEW w \in Worker, NEW secs \in LeaseSeconds, ProtocolTakeoverWorker(p, w, now, secs)
       PROVE  Told
  <2> DEFINE old == s.current_worker_id
  <2> DEFINE r == TakeoverReason(s, w, now)
  <2> DEFINE d == Stamp("worker_superseded", now, old, s.workers[old].generation, w, None)
  <2> DEFINE e == Stamp("lease_taken_over", now, w, s.generation + 1, old, r)
  <2> DEFINE k == s.workers[w]
  <2> DEFINE l == Granted(k, s.generation + 1, now, secs)
  <2> DEFINE lo == Superseded(s.workers[old], w, now)
  <2>1. /\ TakeoverEligible(s, w, now) /\ snap' = Takeover(s, w, now, secs)
        /\ events' = events \o <<d, e>>
    BY <1>12 DEF ProtocolTakeoverWorker, Commit
  <2>2. old \in Worker /\ old # w /\ old # None /\ w # None
    BY <1>1, <1>5, <2>1, TakeoverValid, OptionLemma
  <2>3. r \in TakeoverReasons \cup {None}
    BY <2>1 DEF TakeoverEligible, TakeoverReasons
  <2>4. r = "handoff" => s.handoff_target_worker_id = w
    BY DEF TakeoverReason
  <2> HIDE DEF r
  <2>5. s.generation + 1 \in OptTime /\ s.workers[old].generation \in OptTime
    BY <1>1, <2>2, OptionLemma DEF Lease
  <2>6. d \in Event /\ e \in Event
    BY <1>1, <1>3, <1>5, <2>2, <2>3, <2>5, StampType, OptionLemma DEF EventKind
  <2>7. /\ d.kind = "worker_superseded" /\ e.kind = "lease_taken_over" /\ e.at = now
        /\ e.generation = s.generation + 1 /\ e.worker_id = w /\ e.related_worker_id = old
        /\ e.ref = r
    BY DEF Stamp
  <2> HIDE DEF d, e
  <2>8. snap' = MkSnapshot(s.revision + 1, s.generation + 1, s.task_status, w, None, None,
                           s.completed_at, [s.workers EXCEPT ![old] = lo, ![w] = l])
    BY <1>1, <1>5, <2>1, <2>2, TakeoverEquation
  <2>9. k \in Lease
    BY <1>1
  <2> HIDE DEF k, lo
  <2>10. l.last_heartbeat_at = now
    BY <2>9 DEF Granted, Lease
  <2> HIDE DEF l
  <2>11. /\ snap'.current_worker_id = w /\ snap'.generation = s.generation + 1
         /\ snap'.handoff_target_worker_id = None
         /\ snap'.workers = [s.workers EXCEPT ![old] = lo, ![w] = l]
    BY <2>8 DEF MkSnapshot
  <2>12. snap'.workers[w] = l
    BY <1>1, <2>2, <2>11
  <2>13. GrantTold(snap, snap', e)
    BY <2>7, <2>10, <2>11, <2>12 DEF GrantTold, LastHeartbeat
  <2>14. TellsTakeover(snap, snap', d, e)
    BY <2>2, <2>4, <2>7, <2>13 DEF TellsTakeover
  <2> QED BY <2>1, <2>6, <2>14 DEF Told, Appended
<1> QED BY <1>4, <1>6, <1>7, <1>8, <1>9, <1>10, <1>11, <1>12

-----------------------------------------------------------------------------
(***************************************************************************)
(* A log that is true stays true.                                          *)
(***************************************************************************)
\* The renewals already in the log are of earlier generations or not after the heartbeat kept.
LEMMA HeartbeatsStay ==
    ASSUME StoreInv, LogInv, TruthInv, NEW e \in Event, NEW i \in DOMAIN events,
           events[i].kind \in GrantKinds \cup {"heartbeat_accepted"},
           snap'.current_worker_id # None, events[i].generation = snap'.generation,
           GrantTold(snap, snap', e) \/ Tells(snap, snap', e)
    PROVE  LastHeartbeat(snap') # None /\ events[i].at <= LastHeartbeat(snap')
<1>1. snap \in Snapshot /\ events \in Seq(Event) /\ snap.generation \in Nat /\ e.at \in Nat
      /\ e.kind \in EventKind
  BY DEF StoreInv, TypeOK, Snapshot, Event
<1>2. events[i] \in Event
  BY <1>1
<1>3. events[i].at \in Nat /\ events[i].generation \in Nat
      /\ events[i].generation <= snap.generation
  BY <1>2 DEF LogInv, LogMatchesStore, Event, HolderKinds
<1>4. ~GrantTold(snap, snap', e)
  BY <1>1, <1>3 DEF GrantTold
<1>5. Tells(snap, snap', e) /\ e.kind \notin GrantKinds \cup EndKinds
  BY <1>4 DEF Tells, GrantKinds
<1>6. /\ snap'.current_worker_id = snap.current_worker_id /\ snap'.generation = snap.generation
      /\ snap.current_worker_id # None
      /\ LastHeartbeat(snap') = IF e.kind = "heartbeat_accepted" THEN e.at ELSE LastHeartbeat(snap)
      /\ e.kind = "heartbeat_accepted" =>
            (LastHeartbeat(snap) # None => LastHeartbeat(snap) <= e.at)
  BY <1>5 DEF Tells
<1>7. LastHeartbeat(snap) # None /\ events[i].at <= LastHeartbeat(snap)
  BY <1>6 DEF TruthInv, HeartbeatsKept
<1>8. LastHeartbeat(snap) \in Nat
  <2>1. snap.current_worker_id \in Worker /\ snap.workers \in [Worker -> Lease]
    BY <1>1, <1>6 DEF Snapshot, OptWorker
  <2> QED BY <1>7, <2>1 DEF LastHeartbeat, Lease, OptTime
<1>9. e.at # None
  BY <1>1, OptionLemma
<1> QED BY <1>1, <1>3, <1>6, <1>7, <1>8, <1>9

\* One event is appended.
LEMMA TellsKeepsTruth ==
    ASSUME StoreInv, LogInv, TruthInv, NEW e \in Event,
           Appended(<<e>>), Tells(snap, snap', e)
    PROVE  TruthInv'
<1>1. events \in Seq(Event) /\ LogNamesHolder /\ RenewalsMonotone /\ HandoffWasRequested
  BY DEF StoreInv, TypeOK, TruthInv, LogIsTruthful
<1>n. PICK n \in Nat : n = Len(events)
  BY <1>1
<1>l. PICK log : log = events'
  OBVIOUS
<1>2. DOMAIN events = 1 .. n /\ DOMAIN log = 1 .. n + 1 /\ log[n + 1] = e
      /\ \A i \in 1 .. n : log[i] = events[i]
  BY <1>1, <1>n, <1>l DEF Appended
<1>3. e.at \in Nat /\ e.at # None /\ e.kind \in EventKind
  BY OptionLemma DEF Event
<1>4. LogNamesHolder'
  <2> SUFFICES ASSUME NEW i \in 1 .. n + 1, log[i].kind \in GrantKinds \cup EndKinds,
                      \A j \in 1 .. n + 1 : j > i => log[j].kind \notin GrantKinds \cup EndKinds
               PROVE  IF log[i].kind \in GrantKinds
                      THEN /\ snap'.current_worker_id = log[i].worker_id
                           /\ snap'.generation = log[i].generation
                      ELSE snap'.current_worker_id = None
    BY <1>2, <1>l DEF LogNamesHolder
  <2>1. CASE i = n + 1
    BY <1>2, <2>1 DEF Tells, GrantTold, GrantKinds, EndKinds
  <2>2. CASE i \in 1 .. n
    <3>1. log[n + 1].kind \notin GrantKinds \cup EndKinds
      BY <2>2
    <3>2. /\ snap'.current_worker_id = snap.current_worker_id
          /\ snap'.generation = snap.generation
      BY <1>2, <3>1 DEF Tells
    <3>3. \A j \in 1 .. n : j > i => events[j].kind \notin GrantKinds \cup EndKinds
      BY <1>2
    <3> QED BY <1>1, <1>2, <2>2, <3>2, <3>3 DEF LogNamesHolder
  <2> QED BY <2>1, <2>2
<1>5. RenewalsMonotone'
  <2> SUFFICES ASSUME NEW i \in 1 .. n + 1, NEW j \in 1 .. n + 1, i < j,
                      log[i].generation = log[j].generation,
                      log[i].kind \in GrantKinds \cup {"heartbeat_accepted"},
                      log[j].kind \in {"heartbeat_accepted", "handoff_requested",
                                       "worker_completed"}
               PROVE  log[i].at <= log[j].at
    BY <1>2, <1>l DEF RenewalsMonotone
  <2>1. CASE j \in 1 .. n
    BY <1>1, <1>2, <2>1 DEF RenewalsMonotone
  <2>2. CASE j = n + 1
    <3>1. i \in 1 .. n /\ log[i] = events[i] /\ log[j] = e
      BY <1>2, <2>2
    <3>2. /\ snap.current_worker_id # None /\ e.generation = snap.generation
          /\ LastHeartbeat(snap) # None => LastHeartbeat(snap) <= e.at
      BY <3>1 DEF Tells
    <3>3. LastHeartbeat(snap) # None /\ events[i].at <= LastHeartbeat(snap)
      BY <1>2, <3>1, <3>2 DEF TruthInv, HeartbeatsKept
    <3>4. LastHeartbeat(snap) \in Nat
      <4>1. snap.current_worker_id \in Worker /\ snap.workers \in [Worker -> Lease]
        BY <3>2 DEF StoreInv, TypeOK, Snapshot, OptWorker
      <4> QED BY <3>3, <4>1 DEF LastHeartbeat, Lease, OptTime
    <3>5. events[i].at \in Nat
      <4>1. events[i] \in Event
        BY <1>1, <1>2, <3>1
      <4> QED BY <4>1 DEF Event
    <3> QED BY <1>3, <3>1, <3>2, <3>3, <3>4, <3>5
  <2> QED BY <2>1, <2>2
<1>6. HandoffWasRequested'
  <2> SUFFICES ASSUME NEW j \in 1 .. n + 1, log[j].kind = "lease_taken_over",
                      log[j].ref = "handoff"
               PROVE  \E i \in 1 .. j - 1 :
                        /\ log[i].kind = "handoff_requested"
                        /\ log[i].generation = log[j].generation - 1
                        /\ log[i].worker_id = log[j].related_worker_id
                        /\ log[i].related_worker_id = log[j].worker_id
                        /\ \A k \in i + 1 .. j - 1 : log[k].kind # "handoff_requested"
    BY <1>2, <1>l DEF HandoffWasRequested
  <2>1. j \in 1 .. n
    BY <1>2 DEF Tells
  <2>2. PICK i \in 1 .. j - 1 :
          /\ events[i].kind = "handoff_requested"
          /\ events[i].generation = events[j].generation - 1
          /\ events[i].worker_id = events[j].related_worker_id
          /\ events[i].related_worker_id = events[j].worker_id
          /\ \A k \in i + 1 .. j - 1 : events[k].kind # "handoff_requested"
    BY <1>1, <1>2, <2>1 DEF HandoffWasRequested
  <2>3. i \in 1 .. n /\ \A k \in i + 1 .. j - 1 : k \in 1 .. n
    BY <2>1
  <2> QED BY <1>2, <2>1, <2>2, <2>3
<1>7. HeartbeatsKept'
  <2> SUFFICES ASSUME NEW i \in 1 .. n + 1,
                      log[i].kind \in GrantKinds \cup {"heartbeat_accepted"},
                      log[i].generation = snap'.generation, snap'.current_worker_id # None
               PROVE  LastHeartbeat(snap') # None /\ log[i].at <= LastHeartbeat(snap')
    BY <1>2, <1>l DEF HeartbeatsKept, LastHeartbeat
  <2>1. CASE i \in 1 .. n
    BY <1>2, <2>1, HeartbeatsStay
  <2>2. CASE i = n + 1
    <3>1. LastHeartbeat(snap') = e.at /\ log[i] = e
      BY <1>2, <2>2 DEF Tells, GrantTold, GrantKinds, EndKinds
    <3> QED BY <1>3, <3>1
  <2> QED BY <2>1, <2>2
<1>8. PendingRequested'
  <2> SUFFICES ASSUME snap'.handoff_target_worker_id # None
               PROVE  \E i \in 1 .. n + 1 :
                        /\ log[i].kind = "handoff_requested"
                        /\ log[i].generation = snap'.generation
                        /\ log[i].worker_id = snap'.current_worker_id
                        /\ log[i].related_worker_id = snap'.handoff_target_worker_id
                        /\ \A k \in 1 .. n + 1 : k > i => log[k].kind # "handoff_requested"
    BY <1>2, <1>l DEF PendingRequested
  <2>1. e.kind \notin GrantKinds \cup EndKinds
    BY DEF Tells, GrantTold, GrantKinds
  <2>2. /\ snap'.current_worker_id = snap.current_worker_id
        /\ snap'.generation = snap.generation
        /\ snap'.handoff_target_worker_id =
              IF e.kind = "handoff_requested" THEN e.related_worker_id
              ELSE snap.handoff_target_worker_id
    BY <2>1 DEF Tells
  <2>3. CASE e.kind = "handoff_requested"
    <3>1. e.generation = snap.generation /\ e.worker_id = snap.current_worker_id
      BY <2>3 DEF Tells
    <3>2. \A k \in 1 .. n + 1 : ~(k > n + 1)
      OBVIOUS
    <3> QED BY <1>2, <2>2, <2>3, <3>1, <3>2
  <2>4. CASE e.kind # "handoff_requested"
    <3>1. PICK i \in 1 .. n :
            /\ events[i].kind = "handoff_requested"
            /\ events[i].generation = snap.generation
            /\ events[i].worker_id = snap.current_worker_id
            /\ events[i].related_worker_id = snap.handoff_target_worker_id
            /\ \A k \in 1 .. n : k > i => events[k].kind # "handoff_requested"
      BY <1>2, <2>2, <2>4 DEF TruthInv, PendingRequested
    <3>2. \A k \in 1 .. n + 1 : k > i => log[k].kind # "handoff_requested"
      BY <1>2, <2>4, <3>1
    <3> QED BY <1>2, <2>2, <2>4, <3>1, <3>2
  <2> QED BY <2>3, <2>4
<1> QED BY <1>4, <1>5, <1>6, <1>7, <1>8 DEF TruthInv, LogIsTruthful

\* The two events of a takeover are appended.
LEMMA TakeoverKeepsTruth ==
    ASSUME StoreInv, LogInv, TruthInv, NEW d \in Event, NEW e \in Event,
           Appended(<<d, e>>), TellsTakeover(snap, snap', d, e)
    PROVE  TruthInv'
<1>1. events \in Seq(Event) /\ LogNamesHolder /\ RenewalsMonotone /\ HandoffWasRequested
  BY DEF StoreInv, TypeOK, TruthInv, LogIsTruthful
<1>n. PICK n \in Nat : n = Len(events)
  BY <1>1
<1>l. PICK log : log = events'
  OBVIOUS
<1>2. DOMAIN events = 1 .. n /\ DOMAIN log = 1 .. n + 2 /\ log[n + 1] = d /\ log[n + 2] = e
      /\ \A i \in 1 .. n : log[i] = events[i]
  BY <1>1, <1>n, <1>l DEF Appended
<1>3. /\ e.at \in Nat /\ e.at # None /\ e.kind = "lease_taken_over"
      /\ d.kind = "worker_superseded" /\ GrantTold(snap, snap', e)
  BY OptionLemma DEF Event, TellsTakeover
<1>4. LogNamesHolder'
  <2> SUFFICES ASSUME NEW i \in 1 .. n + 2, log[i].kind \in GrantKinds \cup EndKinds,
                      \A j \in 1 .. n + 2 : j > i => log[j].kind \notin GrantKinds \cup EndKinds
               PROVE  IF log[i].kind \in GrantKinds
                      THEN /\ snap'.current_worker_id = log[i].worker_id
                           /\ snap'.generation = log[i].generation
                      ELSE snap'.current_worker_id = None
    BY <1>2, <1>l DEF LogNamesHolder
  <2>1. log[n + 2].kind \in GrantKinds
    BY <1>2, <1>3 DEF GrantKinds
  <2>2. i = n + 2
    BY <2>1
  <2> QED BY <1>2, <1>3, <2>1, <2>2 DEF GrantTold
<1>5. RenewalsMonotone'
  <2> SUFFICES ASSUME NEW i \in 1 .. n + 2, NEW j \in 1 .. n + 2, i < j,
                      log[i].generation = log[j].generation,
                      log[i].kind \in GrantKinds \cup {"heartbeat_accepted"},
                      log[j].kind \in {"heartbeat_accepted", "handoff_requested",
                                       "worker_completed"}
               PROVE  log[i].at <= log[j].at
    BY <1>2, <1>l DEF RenewalsMonotone
  <2>1. j \in 1 .. n
    BY <1>2, <1>3
  <2> QED BY <1>1, <1>2, <2>1 DEF RenewalsMonotone
<1>6. HandoffWasRequested'
  <2> SUFFICES ASSUME NEW j \in 1 .. n + 2, log[j].kind = "lease_taken_over",
                      log[j].ref = "handoff"
               PROVE  \E i \in 1 .. j - 1 :
                        /\ log[i].kind = "handoff_requested"
                        /\ log[i].generation = log[j].generation - 1
                        /\ log[i].worker_id = log[j].related_worker_id
                        /\ log[i].related_worker_id = log[j].worker_id
                        /\ \A k \in i + 1 .. j - 1 : log[k].kind # "handoff_requested"
    BY <1>2, <1>l DEF HandoffWasRequested
  <2>1. CASE j \in 1 .. n
    <3>1. PICK i \in 1 .. j - 1 :
            /\ events[i].kind = "handoff_requested"
            /\ events[i].generation = events[j].generation - 1
            /\ events[i].worker_id = events[j].related_worker_id
            /\ events[i].related_worker_id = events[j].worker_id
            /\ \A k \in i + 1 .. j - 1 : events[k].kind # "handoff_requested"
      BY <1>1, <1>2, <2>1 DEF HandoffWasRequested
    <3>2. i \in 1 .. n /\ \A k \in i + 1 .. j - 1 : k \in 1 .. n
      BY <2>1
    <3> QED BY <1>2, <2>1, <3>1, <3>2
  <2>2. CASE j = n + 2
    <3>1. /\ snap.handoff_target_worker_id = e.worker_id
          /\ snap.handoff_target_worker_id # None
          /\ e.related_worker_id = snap.current_worker_id
      BY <1>2, <2>2 DEF TellsTakeover
    <3>2. PICK i \in 1 .. n :
            /\ events[i].kind = "handoff_requested"
            /\ events[i].generation = snap.generation
            /\ events[i].worker_id = snap.current_worker_id
            /\ events[i].related_worker_id = snap.handoff_target_worker_id
            /\ \A k \in 1 .. n : k > i => events[k].kind # "handoff_requested"
      BY <1>2, <3>1 DEF TruthInv, PendingRequested
    <3>3. e.generation = snap.generation + 1 /\ snap.generation \in Nat
      BY <1>3 DEF GrantTold, StoreInv, TypeOK, Snapshot
    <3>4. \A k \in i + 1 .. n + 1 : log[k].kind # "handoff_requested"
      BY <1>2, <1>3, <3>2
    <3> QED BY <1>2, <2>2, <3>1, <3>2, <3>3, <3>4
  <2>3. j # n + 1
    BY <1>2, <1>3
  <2> QED BY <2>1, <2>2, <2>3
<1>7. HeartbeatsKept'
  <2> SUFFICES ASSUME NEW i \in 1 .. n + 2,
                      log[i].kind \in GrantKinds \cup {"heartbeat_accepted"},
                      log[i].generation = snap'.generation, snap'.current_worker_id # None
               PROVE  LastHeartbeat(snap') # None /\ log[i].at <= LastHeartbeat(snap')
    BY <1>2, <1>l DEF HeartbeatsKept, LastHeartbeat
  <2>1. CASE i \in 1 .. n
    BY <1>2, <1>3, <2>1, HeartbeatsStay
  <2>2. CASE i = n + 2
    BY <1>2, <1>3, <2>2 DEF GrantTold
  <2>3. i # n + 1
    BY <1>2, <1>3 DEF GrantKinds
  <2> QED BY <2>1, <2>2, <2>3
<1>8. PendingRequested'
  BY <1>3 DEF PendingRequested, GrantTold
<1> QED BY <1>4, <1>5, <1>6, <1>7, <1>8 DEF TruthInv, LogIsTruthful

\* A bootstrapped task has no pending handoff and an empty log.
LEMMA InitTruth == Init => TruthInv
<1> SUFFICES ASSUME Init PROVE TruthInv
  OBVIOUS
<1>1. DOMAIN events = {}
  BY DEF Init
<1>2. snap.handoff_target_worker_id = None
  BY DEF Init, StateFromLegacy, NewTaskState
<1> QED BY <1>1, <1>2 DEF TruthInv, LogIsTruthful, LogNamesHolder, RenewalsMonotone,
          HandoffWasRequested, HeartbeatsKept, PendingRequested

\* Every step keeps the log truthful.
LEMMA NextKeepsTruth ==
    StoreInv /\ LogInv /\ TruthInv /\ [Next]_vars => TruthInv'
<1> SUFFICES ASSUME StoreInv, LogInv, TruthInv, [Next]_vars PROVE TruthInv'
  OBVIOUS
<1>1. CASE UNCHANGED <<snap, events>>
  BY <1>1 DEF TruthInv, LogIsTruthful, LogNamesHolder, RenewalsMonotone,
          HandoffWasRequested, HeartbeatsKept, PendingRequested, LastHeartbeat
<1>2. ASSUME NEW p \in Proc, Transition(p)
      PROVE  TruthInv'
  <2>1. Told
    BY <1>2, TransitionTells DEF StoreInv
  <2> QED BY <2>1, TellsKeepsTruth, TakeoverKeepsTruth DEF Told
<1> QED BY <1>1, <1>2 DEF Next, vars, LoadTaskRow, LoadLeaseRows, WindowBinding, BindInsert,
                          BindCheckActive, ClearBinding

\* The event log tells the truth: its last grant or end names the holder, the renewals of a
\* generation never go back in time whatever the callers' clocks show, and a takeover by handoff
\* was asked for by the worker it superseded.
THEOREM TruthfulLog == Spec => []LogIsTruthful
<1>1. Init => LogInv /\ TruthInv
  BY InitTruth DEF Init, LogInv, LogMatchesStore, FencedForever
<1>2. StoreInv /\ LogInv /\ TruthInv /\ [Next]_vars => LogInv' /\ TruthInv'
  BY NextKeepsLog, NextKeepsTruth
<1>3. TruthInv => LogIsTruthful
  BY DEF TruthInv
<1> QED BY <1>1, <1>2, <1>3, StoreInvariant, PTL DEF Spec
=============================================================================
