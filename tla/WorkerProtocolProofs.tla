------------------------ MODULE WorkerProtocolProofs ------------------------
(***************************************************************************)
(* Facts about the pure transitions of WorkerProtocol: what each writes    *)
(* (the Xxx Equation lemmas) and that each accepted one maps snapshots to  *)
(* snapshots and preserves validate_state (the XxxValid lemmas).  The      *)
(* invariants of the modules that persist snapshots rest on them.          *)
(***************************************************************************)
EXTENDS WorkerProtocol, TLAPS

\* A snapshot from its fields.
MkSnapshot(revision, generation, task_status, holder, target, requested_at, completed_at, ws) ==
    [revision |-> revision, generation |-> generation, task_status |-> task_status,
     current_worker_id |-> holder, handoff_target_worker_id |-> target,
     handoff_requested_at |-> requested_at, completed_at |-> completed_at, workers |-> ws]

\* None and the members of Worker and Nat are optional values, and never confused.
LEMMA OptionLemma ==
    /\ None \in OptTime /\ None \in OptWorker
    /\ \A t \in Nat : t \in OptTime /\ t # None
    /\ \A w \in Worker : w \in OptWorker /\ w # None
BY WorkerAssumption DEF OptTime, OptWorker

\* A snapshot is determined by its fields.
LEMMA SnapshotExtensional ==
    ASSUME NEW t \in Snapshot
    PROVE  t = MkSnapshot(t.revision, t.generation, t.task_status, t.current_worker_id,
                          t.handoff_target_worker_id, t.handoff_requested_at,
                          t.completed_at, t.workers)
BY DEF Snapshot, MkSnapshot

\* _accept changes the revision only.
LEMMA AcceptEquation ==
    ASSUME NEW s \in Snapshot
    PROVE  /\ Accept(s) \in Snapshot
           /\ Accept(s) = MkSnapshot(s.revision + 1, s.generation, s.task_status,
                             s.current_worker_id, s.handoff_target_worker_id,
                             s.handoff_requested_at, s.completed_at, s.workers)
BY DEF Accept, Snapshot, MkSnapshot

\* Naming a holder drops the pending handoff and changes nothing else.
LEMMA SetHolderEquation ==
    ASSUME NEW s \in Snapshot, NEW h \in OptWorker
    PROVE  /\ SetHolder(s, h) \in Snapshot
           /\ SetHolder(s, h) = MkSnapshot(s.revision, s.generation, s.task_status, h,
                                           None, None, s.completed_at, s.workers)
<1> DEFINE u == SetHolder(s, h)
<1>1. u \in Snapshot
  BY OptionLemma DEF SetHolder, Snapshot
<1>2. /\ u.workers = s.workers /\ u.revision = s.revision /\ u.generation = s.generation
      /\ u.current_worker_id = h /\ u.handoff_target_worker_id = None
      /\ u.handoff_requested_at = None /\ u.task_status = s.task_status
      /\ u.completed_at = s.completed_at
  BY DEF SetHolder, Snapshot
<1> HIDE DEF u
<1>3. u = MkSnapshot(s.revision, s.generation, s.task_status, h, None, None,
                     s.completed_at, s.workers)
  BY <1>1, <1>2, SnapshotExtensional
<1> QED BY <1>1, <1>3 DEF u

-----------------------------------------------------------------------------
\* The leases the transitions write are leases.
LEMMA GrantedLemma ==
    ASSUME NEW l \in Lease, NEW g \in Nat, NEW now \in Nat, NEW secs \in Nat
    PROVE  Granted(l, g, now, secs) \in Lease
<1>1. "active" \in LeaseStatus /\ g \in OptTime /\ now \in OptTime
  BY OptionLemma DEF LeaseStatus
<1>2. now + secs \in OptTime
  BY OptionLemma
<1> QED BY <1>1, <1>2 DEF Granted, Lease

\* A renewed lease is a lease.
LEMMA RenewedLemma ==
    ASSUME NEW l \in Lease, NEW now \in Nat, NEW secs \in Nat
    PROVE  Renewed(l, now, secs) \in Lease
<1>1. now \in OptTime /\ now + secs \in OptTime
  BY OptionLemma
<1> QED BY <1>1 DEF Renewed, Lease

\* A superseded lease is a lease.
LEMMA SupersededLemma ==
    ASSUME NEW l \in Lease, NEW c \in Worker, NEW now \in Nat
    PROVE  Superseded(l, c, now) \in Lease
<1>1. now \in OptTime /\ c \in OptWorker /\ "superseded" \in LeaseStatus
  BY OptionLemma DEF LeaseStatus, Terminal
<1> QED BY <1>1 DEF Superseded, Lease

\* A completed or abandoned lease is a lease.
LEMMA EndedLemma ==
    ASSUME NEW l \in Lease, NEW status \in LeaseStatus, NEW now \in Nat
    PROVE  Ended(l, status, now) \in Lease
<1>1. now \in OptTime
  BY OptionLemma
<1> QED BY <1>1 DEF Ended, Lease

\* A registration is a lease.
LEMMA CandidateLemma ==
    ASSUME NEW now \in Nat
    PROVE  Candidate(now) \in Lease
<1>1. None \in OptTime /\ None \in OptWorker /\ now \in OptTime /\ "candidate" \in LeaseStatus
  BY OptionLemma DEF LeaseStatus
<1> QED BY <1>1 DEF Candidate, Unregistered, Lease

-----------------------------------------------------------------------------
\* What register_worker writes.
LEMMA RegisterEquation ==
    ASSUME NEW s \in Snapshot, NEW w \in Worker, NEW now \in Nat
    PROVE  /\ Register(s, w, now) \in Snapshot
           /\ Register(s, w, now) =
                 MkSnapshot(s.revision + 1, s.generation, s.task_status, s.current_worker_id,
                            s.handoff_target_worker_id, s.handoff_requested_at,
                            s.completed_at, [s.workers EXCEPT ![w] = Candidate(now)])
<1> DEFINE l == Candidate(now)
<1> DEFINE v == [s EXCEPT !.workers[w] = l]
<1> DEFINE t == Register(s, w, now)
<1>1. l \in Lease
  BY CandidateLemma
<1>2. t = Accept(v)
  BY DEF Register
<1> HIDE DEF l, t
<1>3. v \in Snapshot
  BY <1>1 DEF Snapshot
<1>4. v = MkSnapshot(s.revision, s.generation, s.task_status, s.current_worker_id,
                     s.handoff_target_worker_id, s.handoff_requested_at,
                     s.completed_at, [s.workers EXCEPT ![w] = l])
  BY <1>1 DEF Snapshot, MkSnapshot
<1> HIDE DEF v
<1>5. /\ t \in Snapshot
      /\ t = MkSnapshot(v.revision + 1, v.generation, v.task_status, v.current_worker_id,
                        v.handoff_target_worker_id, v.handoff_requested_at,
                        v.completed_at, v.workers)
  BY <1>2, <1>3, AcceptEquation
<1> QED BY <1>4, <1>5 DEF l, t, MkSnapshot

\* What claim_worker writes.
LEMMA ClaimEquation ==
    ASSUME NEW s \in Snapshot, NEW w \in Worker, NEW now \in Nat, NEW secs \in Nat
    PROVE  /\ Claim(s, w, now, secs) \in Snapshot
           /\ Claim(s, w, now, secs) =
                 MkSnapshot(s.revision + 1, s.generation + 1, s.task_status, w, None, None,
                            s.completed_at,
                            [s.workers EXCEPT
                               ![w] = Granted(s.workers[w], s.generation + 1, now, secs)])
<1> DEFINE u == SetHolder(s, w)
<1> DEFINE g == s.generation + 1
<1> DEFINE l == Granted(s.workers[w], g, now, secs)
<1> DEFINE v == [u EXCEPT !.generation = g, !.workers[w] = l]
<1> DEFINE t == Claim(s, w, now, secs)
<1>1. s.workers[w] \in Lease /\ g \in Nat
  BY DEF Snapshot
<1>2. l \in Lease
  BY <1>1, GrantedLemma
<1>3. /\ u \in Snapshot
      /\ u = MkSnapshot(s.revision, s.generation, s.task_status, w, None, None,
                        s.completed_at, s.workers)
  <2>1. w \in OptWorker BY OptionLemma
  <2> QED BY <2>1, SetHolderEquation
<1>4. u.generation = s.generation
  BY <1>3 DEF MkSnapshot
<1>5. t = Accept(v)
  BY <1>4, Zenon DEF Claim
<1> HIDE DEF u, g, l, t
<1>6. v \in Snapshot
  BY <1>1, <1>2, <1>3 DEF Snapshot
<1>7. /\ v.workers = [u.workers EXCEPT ![w] = l] /\ v.revision = u.revision
      /\ v.generation = g /\ v.current_worker_id = u.current_worker_id
      /\ v.handoff_target_worker_id = u.handoff_target_worker_id
      /\ v.handoff_requested_at = u.handoff_requested_at
      /\ v.task_status = u.task_status /\ v.completed_at = u.completed_at
  BY <1>1, <1>2, <1>3 DEF Snapshot
<1> HIDE DEF v
<1>8. /\ t \in Snapshot
      /\ t = MkSnapshot(v.revision + 1, v.generation, v.task_status, v.current_worker_id,
                        v.handoff_target_worker_id, v.handoff_requested_at,
                        v.completed_at, v.workers)
  BY <1>5, <1>6, AcceptEquation
<1> QED BY <1>3, <1>7, <1>8 DEF t, l, g, MkSnapshot

\* What heartbeat_worker writes.
LEMMA HeartbeatEquation ==
    ASSUME NEW s \in Snapshot, NEW w \in Worker, NEW now \in Nat, NEW secs \in Nat
    PROVE  /\ Heartbeat(s, w, now, secs) \in Snapshot
           /\ Heartbeat(s, w, now, secs) =
                 MkSnapshot(s.revision + 1, s.generation, s.task_status, s.current_worker_id,
                            s.handoff_target_worker_id, s.handoff_requested_at,
                            s.completed_at,
                            [s.workers EXCEPT ![w] = Renewed(s.workers[w], now, secs)])
<1> DEFINE l == Renewed(s.workers[w], now, secs)
<1> DEFINE v == [s EXCEPT !.workers[w] = l]
<1> DEFINE t == Heartbeat(s, w, now, secs)
<1>1. s.workers[w] \in Lease
  BY DEF Snapshot
<1>2. l \in Lease
  BY <1>1, RenewedLemma
<1>3. t = Accept(v)
  BY DEF Heartbeat
<1> HIDE DEF l, t
<1>4. v \in Snapshot
  BY <1>2 DEF Snapshot
<1>5. v = MkSnapshot(s.revision, s.generation, s.task_status, s.current_worker_id,
                     s.handoff_target_worker_id, s.handoff_requested_at,
                     s.completed_at, [s.workers EXCEPT ![w] = l])
  BY <1>2 DEF Snapshot, MkSnapshot
<1> HIDE DEF v
<1>6. /\ t \in Snapshot
      /\ t = MkSnapshot(v.revision + 1, v.generation, v.task_status, v.current_worker_id,
                        v.handoff_target_worker_id, v.handoff_requested_at,
                        v.completed_at, v.workers)
  BY <1>3, <1>4, AcceptEquation
<1> QED BY <1>5, <1>6 DEF l, t, MkSnapshot

\* What request_handoff writes.
LEMMA HandoffEquation ==
    ASSUME NEW s \in Snapshot, NEW target \in Worker, NEW now \in Nat
    PROVE  /\ RequestHandoff(s, target, now) \in Snapshot
           /\ RequestHandoff(s, target, now) =
                 MkSnapshot(s.revision + 1, s.generation, s.task_status, s.current_worker_id,
                            target, now, s.completed_at, s.workers)
<1> DEFINE v == [s EXCEPT !.handoff_target_worker_id = target, !.handoff_requested_at = now]
<1> DEFINE t == RequestHandoff(s, target, now)
<1>1. target \in OptWorker /\ now \in OptTime
  BY OptionLemma
<1>2. t = Accept(v)
  BY DEF RequestHandoff
<1> HIDE DEF t
<1>3. v \in Snapshot
  BY <1>1 DEF Snapshot
<1>4. /\ v.workers = s.workers /\ v.revision = s.revision
      /\ v.generation = s.generation /\ v.current_worker_id = s.current_worker_id
      /\ v.handoff_target_worker_id = target /\ v.handoff_requested_at = now
      /\ v.task_status = s.task_status /\ v.completed_at = s.completed_at
  BY <1>1 DEF Snapshot
<1> HIDE DEF v
<1>5. /\ t \in Snapshot
      /\ t = MkSnapshot(v.revision + 1, v.generation, v.task_status, v.current_worker_id,
                        v.handoff_target_worker_id, v.handoff_requested_at,
                        v.completed_at, v.workers)
  BY <1>2, <1>3, AcceptEquation
<1> QED BY <1>4, <1>5 DEF t, MkSnapshot

\* What takeover_worker writes: both leases, the holder and the generation at once.
LEMMA TakeoverEquation ==
    ASSUME NEW s \in Snapshot, NEW c \in Worker, NEW now \in Nat, NEW secs \in Nat,
           NEW old \in Worker, s.current_worker_id = old
    PROVE  /\ Takeover(s, c, now, secs) \in Snapshot
           /\ Takeover(s, c, now, secs) =
                 MkSnapshot(s.revision + 1, s.generation + 1, s.task_status, c, None, None,
                            s.completed_at,
                            [s.workers EXCEPT
                               ![old] = Superseded(s.workers[old], c, now),
                               ![c] = Granted(s.workers[c], s.generation + 1, now, secs)])
<1> DEFINE u == SetHolder(s, c)
<1> DEFINE g == s.generation + 1
<1> DEFINE l == Granted(s.workers[c], g, now, secs)
<1> DEFINE o == Superseded(s.workers[old], c, now)
<1> DEFINE v == [u EXCEPT !.generation = g, !.workers[old] = o, !.workers[c] = l]
<1> DEFINE t == Takeover(s, c, now, secs)
<1>1. s.workers[c] \in Lease /\ s.workers[old] \in Lease /\ g \in Nat
  BY DEF Snapshot
<1>2. l \in Lease
  BY <1>1, GrantedLemma
<1>3. o \in Lease
  BY <1>1, SupersededLemma
<1>4. /\ u \in Snapshot
      /\ u = MkSnapshot(s.revision, s.generation, s.task_status, c, None, None,
                        s.completed_at, s.workers)
  <2>1. c \in OptWorker BY OptionLemma
  <2> QED BY <2>1, SetHolderEquation
<1>5. u.generation = s.generation
  BY <1>4 DEF MkSnapshot
<1>6. t = Accept(v)
  BY <1>5, Zenon DEF Takeover
<1> HIDE DEF u, g, l, o, t
<1>7. v \in Snapshot
  BY <1>1, <1>2, <1>3, <1>4 DEF Snapshot
<1>8. /\ v.workers = [u.workers EXCEPT ![old] = o, ![c] = l] /\ v.revision = u.revision
      /\ v.generation = g /\ v.current_worker_id = u.current_worker_id
      /\ v.handoff_target_worker_id = u.handoff_target_worker_id
      /\ v.handoff_requested_at = u.handoff_requested_at
      /\ v.task_status = u.task_status /\ v.completed_at = u.completed_at
  BY <1>1, <1>2, <1>3, <1>4 DEF Snapshot
<1> HIDE DEF v
<1>9. /\ t \in Snapshot
      /\ t = MkSnapshot(v.revision + 1, v.generation, v.task_status, v.current_worker_id,
                        v.handoff_target_worker_id, v.handoff_requested_at,
                        v.completed_at, v.workers)
  BY <1>6, <1>7, AcceptEquation
<1> QED BY <1>4, <1>8, <1>9 DEF t, l, o, g, MkSnapshot

\* What complete_worker and abandon_worker write.
LEMMA EndWorkerEquation ==
    ASSUME NEW s \in Snapshot, NEW w \in Worker, NEW status \in LeaseStatus, NEW now \in Nat
    PROVE  /\ EndWorker(s, w, status, now) \in Snapshot
           /\ EndWorker(s, w, status, now) =
                 MkSnapshot(s.revision + 1, s.generation, s.task_status, None, None, None,
                            s.completed_at,
                            [s.workers EXCEPT ![w] = Ended(s.workers[w], status, now)])
<1> DEFINE u == SetHolder(s, None)
<1> DEFINE l == Ended(s.workers[w], status, now)
<1> DEFINE v == [u EXCEPT !.workers[w] = l]
<1> DEFINE t == EndWorker(s, w, status, now)
<1>1. s.workers[w] \in Lease
  BY DEF Snapshot
<1>2. l \in Lease
  BY <1>1, EndedLemma
<1>3. /\ u \in Snapshot
      /\ u = MkSnapshot(s.revision, s.generation, s.task_status, None, None, None,
                        s.completed_at, s.workers)
  <2>1. None \in OptWorker BY OptionLemma
  <2> QED BY <2>1, SetHolderEquation
<1>4. t = Accept(v)
  BY DEF EndWorker
<1> HIDE DEF u, l, t
<1>5. v \in Snapshot
  BY <1>2, <1>3 DEF Snapshot
<1>6. v = MkSnapshot(u.revision, u.generation, u.task_status, u.current_worker_id,
                     u.handoff_target_worker_id, u.handoff_requested_at,
                     u.completed_at, [u.workers EXCEPT ![w] = l])
  BY <1>2, <1>3 DEF Snapshot, MkSnapshot
<1> HIDE DEF v
<1>7. /\ t \in Snapshot
      /\ t = MkSnapshot(v.revision + 1, v.generation, v.task_status, v.current_worker_id,
                        v.handoff_target_worker_id, v.handoff_requested_at,
                        v.completed_at, v.workers)
  BY <1>4, <1>5, AcceptEquation
<1> QED BY <1>3, <1>6, <1>7 DEF l, t, MkSnapshot

\* What complete_task writes.
LEMMA CompleteTaskEquation ==
    ASSUME NEW s \in Snapshot, NEW now \in Nat
    PROVE  /\ CompleteTask(s, now) \in Snapshot
           /\ CompleteTask(s, now) =
                 MkSnapshot(s.revision + 1, s.generation, "completed", s.current_worker_id,
                            s.handoff_target_worker_id, s.handoff_requested_at, now, s.workers)
<1> DEFINE v == [s EXCEPT !.task_status = "completed", !.completed_at = now]
<1> DEFINE t == CompleteTask(s, now)
<1>1. now \in OptTime
  BY OptionLemma
<1>2. t = Accept(v)
  BY DEF CompleteTask
<1> HIDE DEF t
<1>3. v \in Snapshot
  BY <1>1 DEF Snapshot
<1>4. /\ v.workers = s.workers /\ v.revision = s.revision
      /\ v.generation = s.generation /\ v.current_worker_id = s.current_worker_id
      /\ v.handoff_target_worker_id = s.handoff_target_worker_id
      /\ v.handoff_requested_at = s.handoff_requested_at
      /\ v.task_status = "completed" /\ v.completed_at = now
  BY <1>1 DEF Snapshot
<1> HIDE DEF v
<1>5. /\ t \in Snapshot
      /\ t = MkSnapshot(v.revision + 1, v.generation, v.task_status, v.current_worker_id,
                        v.handoff_target_worker_id, v.handoff_requested_at,
                        v.completed_at, v.workers)
  BY <1>2, <1>3, AcceptEquation
<1> QED BY <1>4, <1>5 DEF t, MkSnapshot

-----------------------------------------------------------------------------
(***************************************************************************)
(* Every accepted transition preserves validate_state.                     *)
(***************************************************************************)
\* A transition that leaves holder, generation and every status alone keeps validate_state.
LEMMA SameHolderValid ==
    ASSUME NEW s \in Snapshot, NEW t \in Snapshot, ValidState(s), HandoffWellFormed(t),
           t.current_worker_id = s.current_worker_id, t.generation = s.generation,
           t.task_status = s.task_status, t.completed_at = s.completed_at,
           \A x \in Worker : /\ t.workers[x].status = s.workers[x].status
                             /\ t.workers[x].generation = s.workers[x].generation
                             /\ s.workers[x].lease_expires_at # None
                                  => t.workers[x].lease_expires_at # None
    PROVE  ValidState(t)
<1>1. Active(t) = Active(s)
  BY DEF Active
<1>2. s.current_worker_id \in OptWorker
  BY DEF Snapshot
<1> QED BY <1>1, <1>2 DEF ValidState, CurrentIsSoleActive, CurrentOwnsGeneration,
                          CompletedTaskHasNoWorker, OptWorker

\* register_worker preserves validate_state.
LEMMA RegisterValid ==
    ASSUME NEW s \in Snapshot, NEW w \in Worker, NEW now \in Nat,
           ValidState(s), RegisterOk(s, w)
    PROVE  ValidState(Register(s, w, now))
<1> DEFINE t == Register(s, w, now)
<1> DEFINE l == Candidate(now)
<1>1. s.workers \in [Worker -> Lease] /\ s.workers[w].status = "unregistered"
  BY DEF Snapshot, RegisterOk
<1>2. l.status = "candidate"
  BY DEF Candidate, Unregistered
<1>3. w # s.current_worker_id /\ w # s.handoff_target_worker_id
  BY <1>1, OptionLemma DEF ValidState, CurrentIsSoleActive, Active, HandoffWellFormed
<1>4. t = MkSnapshot(s.revision + 1, s.generation, s.task_status, s.current_worker_id,
                     s.handoff_target_worker_id, s.handoff_requested_at,
                     s.completed_at, [s.workers EXCEPT ![w] = l])
  BY RegisterEquation
<1> HIDE DEF t, l
<1>5. /\ t.current_worker_id = s.current_worker_id /\ t.generation = s.generation
      /\ t.handoff_target_worker_id = s.handoff_target_worker_id
      /\ t.handoff_requested_at = s.handoff_requested_at
      /\ t.task_status = s.task_status /\ t.completed_at = s.completed_at
      /\ t.workers[w] = l /\ \A x \in Worker : x # w => t.workers[x] = s.workers[x]
  BY <1>1, <1>4 DEF MkSnapshot
<1>6. Active(t) = Active(s)
  BY <1>1, <1>2, <1>5 DEF Active
<1>7. CurrentIsSoleActive(t) /\ CompletedTaskHasNoWorker(t)
  BY <1>5, <1>6 DEF ValidState, CurrentIsSoleActive, CompletedTaskHasNoWorker
<1>8. s.current_worker_id \in OptWorker /\ s.handoff_target_worker_id \in OptWorker
  BY DEF Snapshot
<1>9. CurrentOwnsGeneration(t)
  BY <1>3, <1>5, <1>8 DEF ValidState, CurrentOwnsGeneration, OptWorker
<1>10. HandoffWellFormed(t)
  BY <1>3, <1>5, <1>8 DEF ValidState, HandoffWellFormed, OptWorker
<1>11. ValidState(t)
  BY <1>7, <1>9, <1>10 DEF ValidState
<1> QED BY <1>11 DEF t

\* claim_worker preserves validate_state.
LEMMA ClaimValid ==
    ASSUME NEW s \in Snapshot, NEW w \in Worker, NEW now \in Nat, NEW secs \in Nat,
           ValidState(s), ClaimOk(s, w)
    PROVE  ValidState(Claim(s, w, now, secs))
<1> DEFINE t == Claim(s, w, now, secs)
<1> DEFINE g == s.generation + 1
<1> DEFINE k == s.workers[w]
<1> DEFINE l == Granted(k, g, now, secs)
<1>1. k \in Lease /\ g \in Nat /\ g > 0 /\ s.workers \in [Worker -> Lease]
  BY DEF Snapshot
<1>2. t = MkSnapshot(s.revision + 1, g, s.task_status, w, None, None, s.completed_at,
                     [s.workers EXCEPT ![w] = l])
  BY ClaimEquation
<1>3. now + secs # None
  BY OptionLemma
<1> HIDE DEF t, g, k
<1>4. l.status = "active" /\ l.generation = g /\ l.lease_expires_at # None
  BY <1>1, <1>3 DEF Granted, Lease
<1> HIDE DEF l
<1>5. /\ t.current_worker_id = w /\ t.generation = g
      /\ t.handoff_target_worker_id = None /\ t.handoff_requested_at = None
      /\ t.task_status = s.task_status
      /\ t.workers[w] = l /\ \A x \in Worker : x # w => t.workers[x] = s.workers[x]
  BY <1>1, <1>2 DEF MkSnapshot
<1>6. Active(s) = {} /\ s.task_status = "open"
  BY DEF ClaimOk, ValidState, CurrentIsSoleActive
<1>7. Active(t) = {w}
  BY <1>4, <1>5, <1>6 DEF Active
<1>8. w # None
  BY OptionLemma
<1>9. ValidState(t)
  BY <1>1, <1>4, <1>5, <1>6, <1>7, <1>8
     DEF ValidState, CurrentIsSoleActive, CurrentOwnsGeneration, HandoffWellFormed,
         CompletedTaskHasNoWorker
<1> QED BY <1>9 DEF t

\* heartbeat_worker preserves validate_state.
LEMMA HeartbeatValid ==
    ASSUME NEW s \in Snapshot, NEW w \in Worker, NEW now \in Nat, NEW secs \in Nat,
           ValidState(s)
    PROVE  ValidState(Heartbeat(s, w, now, secs))
<1> DEFINE t == Heartbeat(s, w, now, secs)
<1> DEFINE k == s.workers[w]
<1> DEFINE l == Renewed(k, now, secs)
<1>1. k \in Lease /\ s.workers \in [Worker -> Lease]
  BY DEF Snapshot
<1>2. /\ t \in Snapshot
      /\ t = MkSnapshot(s.revision + 1, s.generation, s.task_status, s.current_worker_id,
                        s.handoff_target_worker_id, s.handoff_requested_at,
                        s.completed_at, [s.workers EXCEPT ![w] = l])
  BY HeartbeatEquation
<1>3. now + secs # None
  BY OptionLemma
<1>4. /\ l.status = s.workers[w].status /\ l.generation = s.workers[w].generation
      /\ l.lease_expires_at # None
  <2> HIDE DEF k
  <2>1. l.status = k.status /\ l.generation = k.generation /\ l.lease_expires_at # None
    BY <1>1, <1>3 DEF Renewed, Lease
  <2> QED BY <2>1 DEF k
<1> HIDE DEF t, l
<1>5. /\ t.current_worker_id = s.current_worker_id /\ t.generation = s.generation
      /\ t.handoff_target_worker_id = s.handoff_target_worker_id
      /\ t.handoff_requested_at = s.handoff_requested_at
      /\ t.task_status = s.task_status /\ t.completed_at = s.completed_at
      /\ t.workers[w] = l /\ \A x \in Worker : x # w => t.workers[x] = s.workers[x]
  BY <1>1, <1>2 DEF MkSnapshot
<1>6. \A x \in Worker : /\ t.workers[x].status = s.workers[x].status
                        /\ t.workers[x].generation = s.workers[x].generation
                        /\ s.workers[x].lease_expires_at # None
                             => t.workers[x].lease_expires_at # None
  BY <1>4, <1>5
<1>7. s.handoff_target_worker_id \in OptWorker
  BY DEF Snapshot
<1>8. HandoffWellFormed(t)
  BY <1>5, <1>6, <1>7 DEF ValidState, HandoffWellFormed, OptWorker
<1>9. ValidState(t)
  BY <1>2, <1>5, <1>6, <1>8, SameHolderValid
<1> QED BY <1>9 DEF t

\* request_handoff preserves validate_state.
LEMMA HandoffValid ==
    ASSUME NEW s \in Snapshot, NEW w \in Worker, NEW target \in Worker, NEW g, NEW now \in Nat,
           ValidState(s), RequestHandoffOk(s, w, target, g, now)
    PROVE  ValidState(RequestHandoff(s, target, now))
<1> DEFINE t == RequestHandoff(s, target, now)
<1>1. /\ t \in Snapshot
      /\ t = MkSnapshot(s.revision + 1, s.generation, s.task_status, s.current_worker_id,
                        target, now, s.completed_at, s.workers)
  BY HandoffEquation
<1> HIDE DEF t
<1>2. /\ t.current_worker_id = s.current_worker_id /\ t.generation = s.generation
      /\ t.handoff_target_worker_id = target /\ t.handoff_requested_at = now
      /\ t.task_status = s.task_status /\ t.completed_at = s.completed_at
      /\ t.workers = s.workers
  BY <1>1 DEF MkSnapshot
<1>3. s.current_worker_id = w /\ s.workers[target].status = "candidate"
  BY DEF RequestHandoffOk, HasAuthority, OwnsGeneration
<1>4. w # None /\ now # None /\ target # None
  BY OptionLemma
<1>5. HandoffWellFormed(t)
  BY <1>2, <1>3, <1>4 DEF HandoffWellFormed
<1>6. ValidState(t)
  BY <1>1, <1>2, <1>5, SameHolderValid
<1> QED BY <1>6 DEF t

\* takeover_worker preserves validate_state, and is only eligible against a distinct holder.
LEMMA TakeoverValid ==
    ASSUME NEW s \in Snapshot, NEW c \in Worker, NEW now \in Nat, NEW secs \in Nat,
           ValidState(s), TakeoverEligible(s, c, now)
    PROVE  /\ s.current_worker_id \in Worker
           /\ s.current_worker_id # c
           /\ s.workers[c].status = "candidate"
           /\ s.task_status = "open"
           /\ ValidState(Takeover(s, c, now, secs))
<1> DEFINE old == s.current_worker_id
<1> DEFINE t == Takeover(s, c, now, secs)
<1> DEFINE g == s.generation + 1
<1> DEFINE k == s.workers[c]
<1> DEFINE l == Granted(k, g, now, secs)
<1> DEFINE o == Superseded(s.workers[old], c, now)
<1>1. s.task_status = "open" /\ s.workers[c].status = "candidate" /\ old # None
  <2>1. TakeoverReason(s, c, now) \in {"handoff", "lease_expired"}
    BY DEF TakeoverEligible
  <2>2. s.task_status = "open"
    BY <2>1 DEF TakeoverReason
  <2>3. s.workers[c].status \in {"unregistered", "candidate"}
    BY <2>1, <2>2 DEF TakeoverReason
  <2>4. s.workers[c].status # "unregistered"
    BY <2>1, <2>2 DEF TakeoverReason
  <2>5. old # None
    BY <2>1, <2>2, <2>3, <2>4 DEF TakeoverReason
  <2> QED BY <2>2, <2>3, <2>4, <2>5
<1>2. old \in Worker /\ old # c
  BY <1>1 DEF Snapshot, OptWorker, ValidState, CurrentIsSoleActive, Active
<1>3. /\ k \in Lease /\ s.workers[old] \in Lease /\ g \in Nat /\ g > 0
      /\ s.workers \in [Worker -> Lease]
  BY <1>2 DEF Snapshot
<1>4. t = MkSnapshot(s.revision + 1, g, s.task_status, c, None, None, s.completed_at,
                     [s.workers EXCEPT ![old] = o, ![c] = l])
  BY <1>2, TakeoverEquation
<1>5. now + secs # None
  BY OptionLemma
<1>6. o.status = "superseded"
  BY <1>3 DEF Superseded, Lease
<1>7. Active(s) = {old}
  BY <1>1 DEF ValidState, CurrentIsSoleActive
<1> HIDE DEF t, g, k, o, old
<1>8. l.status = "active" /\ l.generation = g /\ l.lease_expires_at # None
  BY <1>3, <1>5 DEF Granted, Lease
<1> HIDE DEF l
<1>9. /\ t.current_worker_id = c /\ t.generation = g
      /\ t.handoff_target_worker_id = None /\ t.handoff_requested_at = None
      /\ t.task_status = s.task_status
      /\ t.workers[c] = l /\ t.workers[old] = o
      /\ \A x \in Worker : x # c /\ x # old => t.workers[x] = s.workers[x]
  BY <1>2, <1>3, <1>4 DEF MkSnapshot
<1>10. Active(t) = {c}
  BY <1>2, <1>6, <1>7, <1>8, <1>9 DEF Active
<1>11. c # None
  BY OptionLemma
<1>12. ValidState(t)
  BY <1>1, <1>3, <1>8, <1>9, <1>10, <1>11
     DEF ValidState, CurrentIsSoleActive, CurrentOwnsGeneration, HandoffWellFormed,
         CompletedTaskHasNoWorker
<1> QED BY <1>1, <1>2, <1>12 DEF t, old

\* complete_worker and abandon_worker preserve validate_state.
LEMMA EndWorkerValid ==
    ASSUME NEW s \in Snapshot, NEW w \in Worker, NEW g, NEW status \in Terminal, NEW now \in Nat,
           ValidState(s), OwnsGeneration(s, w, g)
    PROVE  ValidState(EndWorker(s, w, status, now))
<1> DEFINE t == EndWorker(s, w, status, now)
<1> DEFINE k == s.workers[w]
<1> DEFINE l == Ended(k, status, now)
<1>1. k \in Lease /\ s.workers \in [Worker -> Lease]
  BY DEF Snapshot
<1>2. status \in LeaseStatus /\ status # "active"
  BY DEF LeaseStatus, Terminal
<1>3. t = MkSnapshot(s.revision + 1, s.generation, s.task_status, None, None, None,
                     s.completed_at, [s.workers EXCEPT ![w] = l])
  BY <1>2, EndWorkerEquation
<1>4. s.current_worker_id = w /\ s.task_status = "open" /\ w # None
  BY OptionLemma DEF OwnsGeneration
<1>5. Active(s) = {w}
  BY <1>4 DEF ValidState, CurrentIsSoleActive
<1> HIDE DEF t, k
<1>6. l.status = status
  BY <1>1 DEF Ended, Lease
<1> HIDE DEF l
<1>7. /\ t.current_worker_id = None
      /\ t.handoff_target_worker_id = None /\ t.handoff_requested_at = None
      /\ t.task_status = s.task_status
      /\ t.workers[w] = l /\ \A x \in Worker : x # w => t.workers[x] = s.workers[x]
  BY <1>1, <1>3 DEF MkSnapshot
<1>8. Active(t) = {}
  BY <1>2, <1>5, <1>6, <1>7 DEF Active
<1>9. ValidState(t)
  BY <1>4, <1>7, <1>8 DEF ValidState, CurrentIsSoleActive, CurrentOwnsGeneration,
                          HandoffWellFormed, CompletedTaskHasNoWorker
<1> QED BY <1>9 DEF t

\* complete_task preserves validate_state.
LEMMA CompleteTaskValid ==
    ASSUME NEW s \in Snapshot, NEW now \in Nat, ValidState(s), CompleteTaskOk(s)
    PROVE  ValidState(CompleteTask(s, now))
<1> DEFINE t == CompleteTask(s, now)
<1>1. t = MkSnapshot(s.revision + 1, s.generation, "completed", s.current_worker_id,
                     s.handoff_target_worker_id, s.handoff_requested_at, now, s.workers)
  BY CompleteTaskEquation
<1> HIDE DEF t
<1>2. /\ t.current_worker_id = None /\ t.generation = s.generation
      /\ t.handoff_target_worker_id = s.handoff_target_worker_id
      /\ t.handoff_requested_at = s.handoff_requested_at
      /\ t.completed_at = now /\ t.workers = s.workers
  BY <1>1 DEF MkSnapshot, CompleteTaskOk
<1>3. now # None /\ s.current_worker_id = None
  BY OptionLemma DEF CompleteTaskOk
<1>4. ValidState(t)
  BY <1>2, <1>3 DEF ValidState, CurrentIsSoleActive, CurrentOwnsGeneration,
                    HandoffWellFormed, CompletedTaskHasNoWorker, Active
<1> QED BY <1>4 DEF t
=============================================================================
