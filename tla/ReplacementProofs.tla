------------------------- MODULE ReplacementProofs -------------------------
(***************************************************************************)
(* Theorems about Replacement, for any conversations, operator processes,  *)
(* attempts, runs, clock and evidence age.                                 *)
(*                                                                         *)
(* The inductive invariant is ReplacementInv.  Its heart is OpFits: what   *)
(* the observations a process holds still prove when it uses them.  An     *)
(* observation of a later run with no call in flight proves the old run    *)
(* Retired, which no step undoes; a fingerprint of the workspace taken     *)
(* after that therefore holds all the old run can ever show there.  The    *)
(* revision a process carries ties its moves to the state the attempt was  *)
(* armed on.                                                               *)
(***************************************************************************)
EXTENDS Replacement, WorkerProtocolProofs

-----------------------------------------------------------------------------
(***************************************************************************)
(* The inductive invariant.                                                *)
(***************************************************************************)
\* No lease has a generation the task has not reached, and a conversation that was never
\* registered has none.
GenerationsFit(s) ==
    \A w \in Worker :
        /\ s.workers[w].generation # None => s.workers[w].generation <= s.generation
        /\ s.workers[w].status = "unregistered" => s.workers[w].generation = None

GoodSnapshot(s) == s \in Snapshot /\ ValidState(s) /\ GenerationsFit(s)

\* A transition takes one revision, and no generation is taken back.
Advances(s, t) ==
    /\ t.revision = s.revision + 1
    /\ s.generation <= t.generation
    /\ \A w \in Worker : s.workers[w].generation # None =>
          t.workers[w].generation # None /\ s.workers[w].generation <= t.workers[w].generation

\* The run recorded at arming has been superseded and has no call in flight.
Retired(r) == r < last /\ r \notin inflight

\* The candidate of row r has been granted a generation newer than the one it replaces.
Newer(r) ==
    LET g == snap.workers[r.candidate].generation IN g # None /\ g > r.previous_generation

\* What a row keeps from its arming.
RowFits(r) ==
    /\ r.candidate \in Worker
    /\ r.previous_generation <= snap.generation
    /\ r.previous_run <= last

RevisionsMoved(a) == {m.revision : m \in moved[a]}

AttemptFits(a) ==
    LET r == row[a] IN
    /\ r.state = "unborn" => r = Unborn /\ moved[a] = {}
    /\ r.state # "unborn" => RowFits(r)
    /\ moved[a] # {} => Retired(r.previous_run) /\ LeftAt(r.previous_run, r.work)
    /\ r.state = "COMPLETED" => Newer(r)

\* The observation o shows row r's takeover: another run is active and no call is in flight.
Shows(o, r) == o.run \notin {0, r.previous_run} /\ ~o.busy

\* What a process has established, by where it is.
OpFits(o) ==
    LET a == o.attempt
        r == row[a]
    IN
    /\ o.pc \in {"arm_workspace", "arm"} =>
          o.candidate \in Worker /\ o.lsm \in Observation /\ o.lsm.run <= last
    /\ o.pc = "record" => o.row.state = "ARMED" /\ RowFits(o.row)
    /\ o.pc \notin {"idle", "arm_workspace", "arm", "record"} =>
          a \in Attempt /\ r.state # "unborn"
    /\ o.pc \in {"complete_workspace", "complete"} =>
          o.lsm \in Observation /\ (Shows(o.lsm, r) => Retired(r.previous_run))
    /\ o.pc = "complete" /\ Shows(o.lsm, r) /\ o.work # None =>
          LeftAt(r.previous_run, o.work)
    /\ o.pc \in {"claim", "takeover", "abandon"} =>
          Retired(r.previous_run) /\ LeftAt(r.previous_run, r.work)
    /\ o.pc \in {"takeover", "abandon"} => o.revision = r.expected_revision
    /\ o.pc = "claim" =>
          \/ o.revision = r.expected_revision
          \/ o.revision = r.expected_revision + 1 /\ r.expected_revision \in RevisionsMoved(a)
    /\ o.pc = "abandon" => r.previous_worker \in Worker
    /\ o.pc = "finish" => Newer(r)

SnapFits == GoodSnapshot(snap) /\ snap.revision <= MaxRevision

AttemptsFit == \A a \in Attempt : AttemptFits(a)

OpsFit == \A p \in Op : OpFits(op[p])

ReplacementInv ==
    /\ TypeOK /\ SnapFits
    /\ AttemptsFit /\ OpsFit
    /\ FencedFirst /\ NothingIntervened

-----------------------------------------------------------------------------
(***************************************************************************)
(* The transitions of the worker protocol keep snapshots good and advance  *)
(* them.                                                                   *)
(***************************************************************************)
\* The leases of a snapshot are leases.
LEMMA LeaseTypes ==
    ASSUME NEW s \in Snapshot
    PROVE  /\ s.workers \in [Worker -> Lease] /\ s.revision \in Nat /\ s.generation \in Nat
           /\ s.current_worker_id \in Worker \cup {None}
           /\ \A w \in Worker : s.workers[w].generation \in Nat \cup {None}
BY DEF Snapshot, Lease, OptTime, OptWorker

\* A transition that grants no generation and registers nobody advances.
LEMMA SameGenerationsAdvance ==
    ASSUME NEW s, NEW t, GoodSnapshot(s), t \in Snapshot, ValidState(t),
           t.revision = s.revision + 1, t.generation = s.generation,
           \A x \in Worker : /\ t.workers[x].generation = s.workers[x].generation
                             /\ t.workers[x].status = "unregistered"
                                  => s.workers[x].status = "unregistered"
    PROVE  GoodSnapshot(t) /\ Advances(s, t)
<1>1. s \in Snapshot /\ GenerationsFit(s)
  BY DEF GoodSnapshot
<1>2. GenerationsFit(t)
  BY <1>1 DEF GenerationsFit
<1>3. Advances(s, t)
  BY <1>1, LeaseTypes DEF Advances
<1> QED BY <1>2, <1>3 DEF GoodSnapshot

\* A transition that grants worker w the next generation advances.
LEMMA GrantAdvances ==
    ASSUME NEW s, NEW t, NEW w \in Worker, GoodSnapshot(s), t \in Snapshot, ValidState(t),
           t.revision = s.revision + 1, t.generation = s.generation + 1,
           t.workers[w].generation = s.generation + 1, t.workers[w].status = "active",
           \A x \in Worker \ {w} : /\ t.workers[x].generation = s.workers[x].generation
                                   /\ t.workers[x].status = "unregistered"
                                        => s.workers[x].status = "unregistered"
    PROVE  GoodSnapshot(t) /\ Advances(s, t)
<1>1. s \in Snapshot /\ GenerationsFit(s)
  BY DEF GoodSnapshot
<1>2. /\ s.generation \in Nat /\ \A x \in Worker : s.workers[x].generation \in Nat \cup {None}
      /\ s.generation + 1 # None
  BY <1>1, LeaseTypes, OptionLemma
<1>3. GenerationsFit(t)
  <2> SUFFICES ASSUME NEW x \in Worker
               PROVE  /\ t.workers[x].generation # None => t.workers[x].generation <= t.generation
                      /\ t.workers[x].status = "unregistered" => t.workers[x].generation = None
    BY DEF GenerationsFit
  <2>1. CASE x = w
    BY <1>2, <2>1
  <2>2. CASE x # w
    BY <1>1, <1>2, <2>2 DEF GenerationsFit
  <2> QED BY <2>1, <2>2
<1>4. Advances(s, t)
  <2> SUFFICES ASSUME NEW x \in Worker, s.workers[x].generation # None
               PROVE  /\ t.workers[x].generation # None
                      /\ s.workers[x].generation <= t.workers[x].generation
    BY <1>2 DEF Advances
  <2>1. s.workers[x].generation \in Nat /\ s.workers[x].generation <= s.generation
    BY <1>1, <1>2 DEF GenerationsFit
  <2>2. CASE x = w
    BY <1>2, <2>1, <2>2
  <2>3. CASE x # w
    BY <2>1, <2>3
  <2> QED BY <2>2, <2>3
<1> QED BY <1>3, <1>4 DEF GoodSnapshot

LEMMA RegisterAdvances ==
    ASSUME NEW s, NEW w \in Worker, NEW t \in Nat, GoodSnapshot(s), RegisterOk(s, w)
    PROVE  GoodSnapshot(Register(s, w, t)) /\ Advances(s, Register(s, w, t))
<1> DEFINE u == Register(s, w, t)
<1> DEFINE l == Candidate(t)
<1>1. s \in Snapshot /\ ValidState(s) /\ GenerationsFit(s)
  BY DEF GoodSnapshot
<1>2. ValidState(u) /\ u \in Snapshot
      /\ u = MkSnapshot(s.revision + 1, s.generation, s.task_status, s.current_worker_id,
                        s.handoff_target_worker_id, s.handoff_requested_at,
                        s.completed_at, [s.workers EXCEPT ![w] = l])
  BY <1>1, RegisterValid, RegisterEquation
<1>3. l.generation = None /\ l.status = "candidate"
  BY DEF Candidate, Unregistered
<1>4. s.workers[w].generation = None
  BY <1>1 DEF GenerationsFit, RegisterOk
<1> HIDE DEF u, l
<1>5. /\ u.revision = s.revision + 1 /\ u.generation = s.generation
      /\ u.workers = [s.workers EXCEPT ![w] = l]
  BY <1>2 DEF MkSnapshot
<1>6. \A x \in Worker : u.workers[x] = IF x = w THEN l ELSE s.workers[x]
  BY <1>1, <1>5, LeaseTypes
<1>7. GoodSnapshot(u) /\ Advances(s, u)
  BY <1>2, <1>3, <1>4, <1>5, <1>6, SameGenerationsAdvance
<1> QED BY <1>7 DEF u

LEMMA ClaimAdvances ==
    ASSUME NEW s, NEW w \in Worker, NEW t \in Nat, NEW secs \in Nat,
           GoodSnapshot(s), ClaimOk(s, w)
    PROVE  /\ GoodSnapshot(Claim(s, w, t, secs)) /\ Advances(s, Claim(s, w, t, secs))
           /\ Claim(s, w, t, secs).workers[w].generation = s.generation + 1
<1> DEFINE u == Claim(s, w, t, secs)
<1> DEFINE g == s.generation + 1
<1> DEFINE k == s.workers[w]
<1> DEFINE l == Granted(k, g, t, secs)
<1>1. s \in Snapshot /\ ValidState(s) /\ GenerationsFit(s)
  BY DEF GoodSnapshot
<1>2. ValidState(u) /\ u \in Snapshot
      /\ u = MkSnapshot(s.revision + 1, g, s.task_status, w, None, None,
                        s.completed_at, [s.workers EXCEPT ![w] = l])
  BY <1>1, ClaimValid, ClaimEquation
<1>3. k \in Lease
  BY <1>1, LeaseTypes
<1> HIDE DEF u, k
<1>4. l.generation = g /\ l.status = "active"
  BY <1>3 DEF Granted, Lease
<1> HIDE DEF l
<1>5. /\ u.revision = s.revision + 1 /\ u.generation = g
      /\ u.workers = [s.workers EXCEPT ![w] = l]
  BY <1>2 DEF MkSnapshot
<1>6. \A x \in Worker : u.workers[x] = IF x = w THEN l ELSE s.workers[x]
  BY <1>1, <1>5, LeaseTypes
<1>7. GoodSnapshot(u) /\ Advances(s, u)
  BY <1>2, <1>4, <1>5, <1>6, GrantAdvances
<1>8. u.workers[w].generation = g
  BY <1>4, <1>6
<1> QED BY <1>7, <1>8 DEF u

LEMMA TakeoverAdvances ==
    ASSUME NEW s, NEW w \in Worker, NEW t \in Nat, NEW secs \in Nat,
           GoodSnapshot(s), TakeoverEligible(s, w, t)
    PROVE  /\ GoodSnapshot(Takeover(s, w, t, secs)) /\ Advances(s, Takeover(s, w, t, secs))
           /\ Takeover(s, w, t, secs).workers[w].generation = s.generation + 1
<1> DEFINE u == Takeover(s, w, t, secs)
<1> DEFINE g == s.generation + 1
<1> DEFINE old == s.current_worker_id
<1> DEFINE k == s.workers[w]
<1> DEFINE ko == s.workers[old]
<1> DEFINE l == Granted(k, g, t, secs)
<1> DEFINE lo == Superseded(ko, w, t)
<1>1. s \in Snapshot /\ ValidState(s) /\ GenerationsFit(s)
  BY DEF GoodSnapshot
<1>2. old \in Worker /\ old # w /\ ValidState(u)
  BY <1>1, TakeoverValid
<1>3. /\ u \in Snapshot
      /\ u = MkSnapshot(s.revision + 1, g, s.task_status, w, None, None, s.completed_at,
                        [s.workers EXCEPT ![old] = lo, ![w] = l])
  BY <1>1, <1>2, TakeoverEquation
<1>4. k \in Lease /\ ko \in Lease
  BY <1>1, <1>2, LeaseTypes
<1> HIDE DEF u, k, ko, old
<1>5. l.generation = g /\ l.status = "active"
  BY <1>4 DEF Granted, Lease
<1>6. lo.generation = ko.generation /\ lo.status = "superseded"
  BY <1>4 DEF Superseded, Lease
<1> HIDE DEF l, lo
<1>7. /\ u.revision = s.revision + 1 /\ u.generation = g
      /\ u.workers = [s.workers EXCEPT ![old] = lo, ![w] = l]
  BY <1>3 DEF MkSnapshot
<1>8. \A x \in Worker : u.workers[x] = IF x = w THEN l ELSE IF x = old THEN lo ELSE s.workers[x]
  BY <1>1, <1>2, <1>7, LeaseTypes
<1>9. u.workers[w].generation = g /\ u.workers[w].status = "active"
  BY <1>5, <1>8
<1>10. \A x \in Worker \ {w} : /\ u.workers[x].generation = s.workers[x].generation
                               /\ u.workers[x].status = "unregistered"
                                    => s.workers[x].status = "unregistered"
  BY <1>6, <1>8 DEF ko
<1>11. GoodSnapshot(u) /\ Advances(s, u)
  BY <1>2, <1>3, <1>7, <1>9, <1>10, GrantAdvances
<1> QED BY <1>9, <1>11 DEF u

LEMMA HeartbeatAdvances ==
    ASSUME NEW s, NEW w \in Worker, NEW t \in Nat, NEW secs \in Nat, GoodSnapshot(s)
    PROVE  GoodSnapshot(Heartbeat(s, w, t, secs)) /\ Advances(s, Heartbeat(s, w, t, secs))
<1> DEFINE u == Heartbeat(s, w, t, secs)
<1> DEFINE k == s.workers[w]
<1> DEFINE l == Renewed(k, t, secs)
<1>1. s \in Snapshot /\ ValidState(s)
  BY DEF GoodSnapshot
<1>2. ValidState(u) /\ u \in Snapshot
      /\ u = MkSnapshot(s.revision + 1, s.generation, s.task_status, s.current_worker_id,
                        s.handoff_target_worker_id, s.handoff_requested_at,
                        s.completed_at, [s.workers EXCEPT ![w] = l])
  BY <1>1, HeartbeatValid, HeartbeatEquation
<1>3. k \in Lease
  BY <1>1, LeaseTypes
<1> HIDE DEF u, k
<1>4. l.generation = k.generation /\ l.status = k.status
  BY <1>3 DEF Renewed, Lease
<1> HIDE DEF l
<1>5. /\ u.revision = s.revision + 1 /\ u.generation = s.generation
      /\ u.workers = [s.workers EXCEPT ![w] = l]
  BY <1>2 DEF MkSnapshot
<1>6. \A x \in Worker : u.workers[x] = IF x = w THEN l ELSE s.workers[x]
  BY <1>1, <1>5, LeaseTypes
<1>7. \A x \in Worker : /\ u.workers[x].generation = s.workers[x].generation
                        /\ u.workers[x].status = s.workers[x].status
  BY <1>4, <1>6 DEF k
<1>8. GoodSnapshot(u) /\ Advances(s, u)
  BY <1>2, <1>5, <1>7, SameGenerationsAdvance
<1> QED BY <1>8 DEF u

LEMMA HandoffAdvances ==
    ASSUME NEW s, NEW w \in Worker, NEW c \in Worker, NEW g, NEW t \in Nat,
           GoodSnapshot(s), RequestHandoffOk(s, w, c, g, t)
    PROVE  GoodSnapshot(RequestHandoff(s, c, t)) /\ Advances(s, RequestHandoff(s, c, t))
<1> DEFINE u == RequestHandoff(s, c, t)
<1>1. s \in Snapshot /\ ValidState(s)
  BY DEF GoodSnapshot
<1>2. ValidState(u) /\ u \in Snapshot
      /\ u = MkSnapshot(s.revision + 1, s.generation, s.task_status, s.current_worker_id,
                        c, t, s.completed_at, s.workers)
  BY <1>1, HandoffValid, HandoffEquation
<1> HIDE DEF u
<1>3. u.revision = s.revision + 1 /\ u.generation = s.generation /\ u.workers = s.workers
  BY <1>2 DEF MkSnapshot
<1>4. GoodSnapshot(u) /\ Advances(s, u)
  BY <1>2, <1>3, SameGenerationsAdvance
<1> QED BY <1>4 DEF u

\* complete_worker and abandon_worker, of a worker that owns the generation g.
LEMMA EndAdvances ==
    ASSUME NEW s, NEW w \in Worker, NEW g, NEW status \in Terminal, NEW t \in Nat,
           GoodSnapshot(s), OwnsGeneration(s, w, g)
    PROVE  /\ GoodSnapshot(EndWorker(s, w, status, t))
           /\ Advances(s, EndWorker(s, w, status, t))
<1> DEFINE u == EndWorker(s, w, status, t)
<1> DEFINE k == s.workers[w]
<1> DEFINE l == Ended(k, status, t)
<1>1. s \in Snapshot /\ ValidState(s) /\ status \in LeaseStatus
  BY DEF GoodSnapshot, LeaseStatus
<1>2. ValidState(u)
  BY <1>1, EndWorkerValid
<1>3. /\ u \in Snapshot
      /\ u = MkSnapshot(s.revision + 1, s.generation, s.task_status, None, None, None,
                        s.completed_at, [s.workers EXCEPT ![w] = l])
  BY <1>1, EndWorkerEquation
<1>4. k \in Lease
  BY <1>1, LeaseTypes
<1> HIDE DEF u, k
<1>5. l.generation = k.generation /\ l.status \in Terminal
  BY <1>4 DEF Ended, Lease
<1> HIDE DEF l
<1>6. /\ u.revision = s.revision + 1 /\ u.generation = s.generation
      /\ u.workers = [s.workers EXCEPT ![w] = l]
  BY <1>3 DEF MkSnapshot
<1>7. \A x \in Worker : u.workers[x] = IF x = w THEN l ELSE s.workers[x]
  BY <1>1, <1>6, LeaseTypes
<1>8. \A x \in Worker : /\ u.workers[x].generation = s.workers[x].generation
                        /\ u.workers[x].status = "unregistered"
                             => s.workers[x].status = "unregistered"
  BY <1>5, <1>7 DEF k, Terminal
<1>9. GoodSnapshot(u) /\ Advances(s, u)
  BY <1>2, <1>3, <1>6, <1>8, SameGenerationsAdvance
<1> QED BY <1>9 DEF u

LEMMA CompleteTaskAdvances ==
    ASSUME NEW s, NEW t \in Nat, GoodSnapshot(s), CompleteTaskOk(s)
    PROVE  GoodSnapshot(CompleteTask(s, t)) /\ Advances(s, CompleteTask(s, t))
<1> DEFINE u == CompleteTask(s, t)
<1>1. s \in Snapshot /\ ValidState(s)
  BY DEF GoodSnapshot
<1>2. ValidState(u) /\ u \in Snapshot
      /\ u = MkSnapshot(s.revision + 1, s.generation, "completed", s.current_worker_id,
                        s.handoff_target_worker_id, s.handoff_requested_at, t, s.workers)
  BY <1>1, CompleteTaskValid, CompleteTaskEquation
<1> HIDE DEF u
<1>3. u.revision = s.revision + 1 /\ u.generation = s.generation /\ u.workers = s.workers
  BY <1>2 DEF MkSnapshot
<1>4. GoodSnapshot(u) /\ Advances(s, u)
  BY <1>2, <1>3, SameGenerationsAdvance
<1> QED BY <1>4 DEF u

\* The holder of a valid snapshot owns its generation, unless the task is closed, when there
\* is none.
LEMMA HolderOwns ==
    ASSUME NEW s \in Snapshot, ValidState(s), s.current_worker_id # None
    PROVE  /\ s.current_worker_id \in Worker
           /\ OwnsGeneration(s, s.current_worker_id, s.generation)
<1> DEFINE h == s.current_worker_id
<1>1. h \in Worker /\ s.task_status \in {"open", "completed"}
  BY LeaseTypes DEF Snapshot
<1>2. s.task_status = "open"
  BY <1>1 DEF ValidState, CompletedTaskHasNoWorker
<1>3. Active(s) = {h}
  BY DEF ValidState, CurrentIsSoleActive
<1>4. s.workers[h].status = "active"
  BY <1>1, <1>3 DEF Active
<1>5. s.workers[h].generation = s.generation
  BY DEF ValidState, CurrentOwnsGeneration
<1> QED BY <1>1, <1>2, <1>4, <1>5 DEF OwnsGeneration

-----------------------------------------------------------------------------
(***************************************************************************)
(* Steps only add to what has been established.                            *)
(***************************************************************************)
\* Row q is row r with its state rewritten.
Kept(r, q) ==
    /\ q.candidate = r.candidate /\ q.expected_revision = r.expected_revision
    /\ q.previous_worker = r.previous_worker /\ q.previous_generation = r.previous_generation
    /\ q.previous_run = r.previous_run /\ q.work = r.work

\* The step shows no new write of run r.
Quiet(r) == r # 0 /\ writer' = r => writer = r /\ work' = work

\* What every step of the system respects: runs retire for good, generations are not taken
\* back, born rows keep what they recorded and moves stay in the history.
Later ==
    /\ last <= last'
    /\ \A r \in Run : Retired(r) => r < last' /\ r \notin inflight' /\ Quiet(r)
    /\ snap.generation <= snap'.generation
    /\ \A w \in Worker : snap.workers[w].generation # None =>
          /\ snap'.workers[w].generation # None
          /\ snap.workers[w].generation <= snap'.workers[w].generation
    /\ \A a \in Attempt : row[a].state # "unborn" =>
          Kept(row[a], row'[a]) /\ row'[a].state # "unborn"
    /\ \A a \in Attempt : moved[a] \subseteq moved'[a]

LEMMA KeptRefl == ASSUME NEW r PROVE Kept(r, r)
BY DEF Kept

LEMMA RowTypes ==
    ASSUME NEW r \in Row
    PROVE  /\ r.state \in AttemptState /\ r.candidate \in OptWorker /\ r.expected_revision \in Nat
           /\ r.previous_worker \in OptWorker /\ r.previous_generation \in Nat
           /\ r.previous_run \in Run /\ r.work \in Work
BY DEF Row

\* The bounds are natural numbers.
LEMMA BoundTypes ==
    /\ MaxRun \in Nat /\ MaxWork \in Nat /\ MaxTime \in Nat /\ MaxRevision \in Nat
    /\ LeaseSeconds \in Nat /\ MaxEvidenceAge \in Nat /\ MaxAttempts \in Nat
    /\ MaxRun >= 1 /\ MaxAttempts >= 1
    /\ None \notin Nat /\ None \notin Worker
BY ReplacementAssumption, WorkerAssumption

\* The types the arithmetic of the other lemmas needs.
Typed ==
    /\ snap \in Snapshot /\ snap.generation \in Nat /\ snap.revision \in Nat
    /\ \A w \in Worker : snap.workers[w].generation \in Nat \cup {None}
    /\ last \in Nat /\ run \in Nat /\ run \in Run /\ last \in Run
    /\ \A r \in Run : r \in Nat
    /\ \A a \in Attempt : row[a] \in Row /\ a \in Nat
    /\ \A p \in Op : op[p] \in OpState
    /\ work \in Nat /\ now \in Nat /\ inflight \subseteq Run \ {0}

LEMMA StateTypes == TypeOK => Typed
<1> SUFFICES ASSUME TypeOK PROVE Typed
  OBVIOUS
<1>1. /\ snap \in Snapshot /\ last \in Run /\ run \in {0, last} 
      /\ row \in [Attempt -> Row] /\ op \in [Op -> OpState] /\ work \in Work /\ now \in Time
      /\ inflight \subseteq Run \ {0}
  BY DEF TypeOK
<1>2. /\ Run \subseteq Nat /\ Work \subseteq Nat /\ Time \subseteq Nat /\ Attempt \subseteq Nat
      /\ 0 \in Run
  BY BoundTypes DEF Run, Work, Time, Attempt
<1>3. \A r \in Run : r \in Nat
  BY <1>1, <1>2
<1>4. \A a \in Attempt : row[a] \in Row /\ a \in Nat
  BY <1>1, <1>2
<1>5. \A p \in Op : op[p] \in OpState
  BY <1>1
<1> QED BY <1>1, <1>2, <1>3, <1>4, <1>5, LeaseTypes DEF Typed

LEMMA NextTypes == TypeOK' => Typed'
BY StateTypes, PTL

\* What is established about a row stays established.
LEMMA LaterRow ==
    ASSUME TypeOK, TypeOK', Later, NEW r \in Row, NEW q \in Row, Kept(r, q)
    PROVE  /\ RowFits(r) => RowFits(q)'
           /\ Retired(r.previous_run) => Retired(q.previous_run)'
           /\ \A x : Retired(r.previous_run) /\ LeftAt(r.previous_run, x)
                        => LeftAt(q.previous_run, x)'
           /\ r.candidate \in Worker /\ Newer(r) => Newer(q)'
<1>1. /\ snap.generation \in Nat /\ snap'.generation \in Nat /\ last \in Nat /\ last' \in Nat
      /\ \A w \in Worker : /\ snap.workers[w].generation \in Nat \cup {None}
                           /\ snap'.workers[w].generation \in Nat \cup {None}
  BY StateTypes, NextTypes DEF Typed
<1>2. r.previous_generation \in Nat /\ r.previous_run \in Run /\ r.previous_run \in Nat
  BY RowTypes, StateTypes DEF Typed
<1>3. RowFits(r) => RowFits(q)'
  BY <1>1, <1>2 DEF RowFits, Later, Kept
<1>4. Retired(r.previous_run) => Retired(q.previous_run)'
  BY <1>1, <1>2 DEF Retired, Later, Kept
<1>5. \A x : Retired(r.previous_run) /\ LeftAt(r.previous_run, x)
                => LeftAt(q.previous_run, x)'
  BY <1>1, <1>2 DEF Later, Kept, LeftAt, Quiet
<1>6. r.candidate \in Worker /\ Newer(r) => Newer(q)'
  <2> SUFFICES ASSUME r.candidate \in Worker, Newer(r) PROVE Newer(q)'
    OBVIOUS
  <2> DEFINE c == r.candidate
  <2> DEFINE g == snap.workers[c].generation
  <2> DEFINE h == snap'.workers[c].generation
  <2>1. g # None /\ g > r.previous_generation /\ g \in Nat /\ h \in Nat \cup {None}
    BY <1>1 DEF Newer
  <2>2. h # None /\ g <= h
    BY <2>1 DEF Later
  <2>3. h > r.previous_generation
    BY <1>2, <2>1, <2>2
  <2> QED BY <2>2, <2>3 DEF Newer, Kept
<1> QED BY <1>3, <1>4, <1>5, <1>6

\* What a process has established stays established.
LEMMA LaterOp ==
    ASSUME ReplacementInv, TypeOK', Later, NEW o \in OpState, OpFits(o)
    PROVE  OpFits(o)'
<1> DEFINE a == o.attempt
<1>1. TypeOK /\ AttemptsFit
  BY DEF ReplacementInv
<1>2. CASE o.pc \in {"idle", "arm_workspace", "arm"}
  <2>1. last \in Nat /\ last' \in Nat /\ last <= last'
    BY <1>1, StateTypes, NextTypes DEF Later, Typed
  <2>2. o.lsm \in Observation => o.lsm.run \in Nat
    BY <1>1, StateTypes DEF Observation, Typed
  <2> QED BY <1>2, <2>1, <2>2 DEF OpFits
<1>3. CASE o.pc = "record"
  <2>1. o.row \in Row /\ Kept(o.row, o.row)
    BY KeptRefl DEF OpState
  <2>2. RowFits(o.row) => RowFits(o.row)'
    BY <1>1, <2>1, LaterRow
  <2> QED BY <1>3, <2>2 DEF OpFits
<1>4. CASE o.pc \notin {"idle", "arm_workspace", "arm", "record"}
  <2>1. a \in Attempt /\ row[a].state # "unborn"
    BY <1>4 DEF OpFits
  <2> PICK r \in Row : r = row[a]
    BY <1>1, <2>1, StateTypes DEF Typed
  <2> PICK q \in Row : q = row'[a]
    BY <2>1, NextTypes DEF Typed
  <2>2. Kept(r, q) /\ q.state # "unborn" /\ moved[a] \subseteq moved'[a]
    BY <2>1 DEF Later
  <2>3. RowFits(r)
    BY <1>1, <2>1 DEF AttemptsFit, AttemptFits
  <2>4. /\ Retired(r.previous_run) => Retired(q.previous_run)'
        /\ \A x : Retired(r.previous_run) /\ LeftAt(r.previous_run, x)
                        => LeftAt(q.previous_run, x)'
        /\ Newer(r) => Newer(q)'
    BY <1>1, <2>2, <2>3, LaterRow DEF RowFits
  <2>5. RevisionsMoved(a) \subseteq RevisionsMoved(a)'
    BY <2>2 DEF RevisionsMoved
  <2>6. \A l : Shows(l, q) = Shows(l, r)
    BY <2>2 DEF Shows, Kept
  <2> HIDE DEF a
  <2>7. /\ o.pc \in {"complete_workspace", "complete"} =>
             o.lsm \in Observation /\ (Shows(o.lsm, q) => Retired(q.previous_run)')
        /\ o.pc = "complete" /\ Shows(o.lsm, q) /\ o.work # None =>
             LeftAt(q.previous_run, o.work)'
        /\ o.pc \in {"claim", "takeover", "abandon"} =>
             Retired(q.previous_run)' /\ LeftAt(q.previous_run, q.work)'
    BY <2>2, <2>4, <2>6 DEF OpFits, a, Kept
  <2>8. /\ o.pc \in {"takeover", "abandon"} => o.revision = q.expected_revision
        /\ o.pc = "claim" =>
             \/ o.revision = q.expected_revision
             \/ o.revision = q.expected_revision + 1 /\ q.expected_revision \in RevisionsMoved(a)'
        /\ o.pc = "abandon" => q.previous_worker \in Worker
        /\ o.pc = "finish" => Newer(q)'
    BY <2>2, <2>4, <2>5 DEF OpFits, a, Kept
  <2> QED BY <1>4, <2>1, <2>2, <2>7, <2>8 DEF OpFits, a
<1> QED BY <1>2, <1>3, <1>4

\* An attempt keeps fitting as long as it is not moved and not completed too early.
LEMMA LaterAttempt ==
    ASSUME ReplacementInv, TypeOK', Later, NEW a \in Attempt, moved'[a] = moved[a],
           \/ row'[a] = row[a]
           \/ row[a].state # "unborn" /\ (row'[a].state = "COMPLETED" => Newer(row[a]))
    PROVE  AttemptFits(a)'
<1>1. TypeOK /\ AttemptFits(a)
  BY DEF ReplacementInv, AttemptsFit
<1> PICK r \in Row : r = row[a]
  BY <1>1, StateTypes DEF Typed
<1> PICK q \in Row : q = row'[a]
  BY NextTypes DEF Typed
<1> PICK ms : ms = moved[a]
  OBVIOUS
<1>2. /\ r.state = "unborn" => r = Unborn /\ ms = {}
      /\ r.state # "unborn" => RowFits(r)
      /\ ms # {} => Retired(r.previous_run) /\ LeftAt(r.previous_run, r.work)
      /\ r.state = "COMPLETED" => Newer(r)
  BY <1>1 DEF AttemptFits
<1>3. CASE r.state = "unborn"
  <2>1. q = Unborn /\ ms = {}
    BY <1>2, <1>3
  <2>2. Unborn.state = "unborn"
    BY DEF Unborn
  <2> QED BY <2>1, <2>2 DEF AttemptFits
<1>4. CASE r.state # "unborn"
  <2>1. Kept(r, q) /\ q.state # "unborn"
    BY <1>4 DEF Later
  <2>2. /\ RowFits(q)'
        /\ Retired(r.previous_run) => Retired(q.previous_run)'
        /\ \A x : Retired(r.previous_run) /\ LeftAt(r.previous_run, x)
                        => LeftAt(q.previous_run, x)'
        /\ Newer(r) => Newer(q)'
    BY <1>1, <1>2, <1>4, <2>1, LaterRow DEF RowFits
  <2>3. q.state = "COMPLETED" => Newer(r)
    BY <1>2, <1>4
  <2>4. ms # {} => Retired(q.previous_run)' /\ LeftAt(q.previous_run, q.work)'
    BY <1>2, <2>1, <2>2 DEF Kept
  <2> QED BY <2>1, <2>2, <2>3, <2>4 DEF AttemptFits
<1> QED BY <1>3, <1>4

\* Nothing about the history of moves changes in a step that makes none.
LEMMA LaterHistory ==
    ASSUME ReplacementInv, Later, moved' = moved
    PROVE  FencedFirst' /\ NothingIntervened'
<1>1. FencedFirst /\ NothingIntervened /\ AttemptsFit
  BY DEF ReplacementInv
<1>2. \A a \in Attempt : moved[a] # {} => Kept(row[a], row'[a])
  BY <1>1 DEF Later, AttemptsFit, AttemptFits
<1>3. FencedFirst'
  BY <1>1, <1>2 DEF FencedFirst, Kept
<1>4. NothingIntervened'
  <2> SUFFICES ASSUME NEW a \in Attempt
               PROVE  LET from == {m.revision : m \in moved[a]}
                      IN  from \in {{}, {row'[a].expected_revision},
                                    {row'[a].expected_revision, row'[a].expected_revision + 1}}
    BY DEF NothingIntervened
  <2>1. CASE moved[a] = {}
    BY <2>1
  <2>2. CASE moved[a] # {}
    BY <1>1, <1>2, <2>2 DEF NothingIntervened, Kept
  <2> QED BY <2>1, <2>2
<1> QED BY <1>3, <1>4

\* One process moves, the others keep what they have established.
LEMMA OpMoves ==
    ASSUME ReplacementInv, TypeOK', Later, NEW p \in Op, NEW o \in OpState,
           op' = [op EXCEPT ![p] = o], OpFits(o)'
    PROVE  OpsFit'
<1>1. TypeOK /\ OpsFit
  BY DEF ReplacementInv
<1> SUFFICES ASSUME NEW q \in Op PROVE OpFits(op[q])'
  BY DEF OpsFit
<1> PICK v \in OpState : v = op[q]
  BY <1>1, StateTypes DEF Typed
<1>2. op \in [Op -> OpState]
  BY <1>1 DEF TypeOK
<1>3. CASE q = p
  <2>1. op'[q] = o
    BY <1>2, <1>3
  <2> QED BY <2>1 DEF OpFits
<1>4. CASE q # p
  <2>1. op'[q] = v /\ OpFits(v)
    BY <1>1, <1>2, <1>4 DEF OpsFit
  <2>2. OpFits(v)'
    BY <2>1, LaterOp
  <2> QED BY <2>1, <2>2 DEF OpFits
<1> QED BY <1>3, <1>4

\* A step of something else than a process.
LEMMA OpsStay ==
    ASSUME ReplacementInv, TypeOK', Later, op' = op
    PROVE  OpsFit'
<1>1. TypeOK /\ OpsFit
  BY DEF ReplacementInv
<1> SUFFICES ASSUME NEW q \in Op PROVE OpFits(op[q])'
  BY DEF OpsFit
<1> PICK v \in OpState : v = op[q]
  BY <1>1, StateTypes DEF Typed
<1>2. op'[q] = v /\ OpFits(v)
  BY <1>1 DEF OpsFit
<1>3. OpFits(v)'
  BY <1>2, LaterOp
<1> QED BY <1>2, <1>3 DEF OpFits

\* A step that changes no row and makes no move.
LEMMA RowsStay ==
    ASSUME ReplacementInv, TypeOK', Later, row' = row, moved' = moved
    PROVE  AttemptsFit' /\ FencedFirst' /\ NothingIntervened'
<1>1. \A a \in Attempt : AttemptFits(a)'
  BY LaterAttempt
<1>2. AttemptsFit'
  BY <1>1 DEF AttemptsFit
<1> QED BY <1>2, LaterHistory

\* A step that changes neither the protocol, the rows, the session nor the history.
LEMMA NothingLater ==
    ASSUME TypeOK, UNCHANGED <<snap, row, last, inflight, work, writer, moved>>
    PROVE  Later
<1>1. Typed
  BY StateTypes
<1>2. \A a \in Attempt : Kept(row[a], row[a])
  BY KeptRefl
<1>3. last <= last /\ snap.generation <= snap.generation
      /\ \A w \in Worker : snap.workers[w].generation # None =>
            snap.workers[w].generation <= snap.workers[w].generation
  BY <1>1 DEF Typed
<1> QED BY <1>2, <1>3 DEF Later, Retired, Quiet

\* A process takes a step of its own: it reads, and decides what to do next.
LEMMA OpStep ==
    ASSUME ReplacementInv, NEW p \in Op, NEW o \in OpState, op' = [op EXCEPT ![p] = o],
           OpFits(o),
           UNCHANGED <<snap, row, session, now, ending, authorised, result, moved>>
    PROVE  ReplacementInv'
<1>1. TypeOK /\ UNCHANGED <<snap, row, last, inflight, writer, moved, run, work, ending>>
  BY DEF ReplacementInv, session
<1>2. TypeOK'
  BY <1>1 DEF TypeOK, session
<1>3. Later
  BY <1>1, NothingLater
<1>4. OpFits(o)'
  BY <1>1 DEF OpFits, RowFits, Retired, LeftAt, Newer, RevisionsMoved
<1>5. OpsFit'
  BY <1>2, <1>3, <1>4, OpMoves
<1>6. AttemptsFit' /\ FencedFirst' /\ NothingIntervened'
  BY <1>1, <1>2, <1>3, RowsStay
<1>7. SnapFits'
  BY <1>1 DEF ReplacementInv, SnapFits
<1> QED BY <1>2, <1>5, <1>6, <1>7 DEF ReplacementInv

-----------------------------------------------------------------------------
(***************************************************************************)
(* The steps of an operator process that only read.                        *)
(***************************************************************************)
LEMMA UnbornType ==
    /\ Unborn \in Row /\ Unborn.state = "unborn" /\ Unborn.previous_run = 0
BY BoundTypes DEF Unborn, Row, AttemptState, OptWorker, Run, Work

LEMMA IdleType ==
    /\ Idle \in OpState /\ Idle.pc = "idle" /\ Idle.attempt = 0 /\ Idle.candidate = None
    /\ Idle.lsm = None /\ Idle.work = None /\ Idle.row = Unborn
BY UnbornType, BoundTypes DEF Idle, OpState, Pc, OptWorker, Run, Time

\* An idle process has established nothing.
LEMMA IdleFits == OpFits(Idle)
BY IdleType DEF OpFits

LEMMA ObservedType == TypeOK => Observed \in Observation
<1> SUFFICES ASSUME TypeOK PROVE Observed \in Observation
  OBVIOUS
<1>1. run \in Run /\ now \in Time
  BY StateTypes DEF Typed, TypeOK
<1> QED BY <1>1 DEF Observed, Observation

LEMMA CrashKeepsInv ==
    ASSUME ReplacementInv, NEW p \in Op, Crash(p)
    PROVE  ReplacementInv'
BY IdleType, IdleFits, OpStep DEF Crash, Stop, Goto

LEMMA ArmCommandKeepsInv ==
    ASSUME ReplacementInv, NEW p \in Op, NEW c \in Worker, ArmCommand(p, c)
    PROVE  ReplacementInv'
<1> PICK l : l = Observed
  OBVIOUS
<1>1. l \in Observation /\ l.run <= last /\ TypeOK
  <2>1. TypeOK /\ run \in {0, last} /\ last \in Nat
    BY StateTypes DEF ReplacementInv, Typed, TypeOK
  <2>2. l.run = run
    BY DEF Observed
  <2> QED BY <2>1, <2>2, ObservedType
<1> DEFINE o == [[Idle EXCEPT !.pc = "arm_workspace", !.candidate = c] EXCEPT !.lsm = l]
<1>2. o \in OpState /\ o.pc = "arm_workspace" /\ o.candidate = c /\ o.lsm = l
  BY <1>1, IdleType, OptionLemma DEF OpState, Pc
<1>3. op' = [op EXCEPT ![p] = o]
      /\ UNCHANGED <<snap, row, session, now, ending, authorised, result, moved>>
  BY DEF ArmCommand, RefreshLsm, Goto
<1> HIDE DEF o
<1>4. OpFits(o)
  BY <1>1, <1>2 DEF OpFits
<1> QED BY <1>2, <1>3, <1>4, OpStep

LEMMA ArmWorkspaceKeepsInv ==
    ASSUME ReplacementInv, NEW p \in Op, ArmWorkspace(p)
    PROVE  ReplacementInv'
<1>1. TypeOK /\ OpsFit
  BY DEF ReplacementInv
<1> PICK v \in OpState : v = op[p]
  BY <1>1, StateTypes DEF Typed
<1> PICK w \in {work, None} : op' = [op EXCEPT ![p] = [v EXCEPT !.pc = "arm", !.work = w]]
  BY DEF ArmWorkspace, RefreshWorkspace, Goto
<1> DEFINE o == [v EXCEPT !.pc = "arm", !.work = w]
<1>2. w \in Work \cup {None}
  BY <1>1 DEF TypeOK
<1>3. o \in OpState /\ o.pc = "arm" /\ o.candidate = v.candidate /\ o.lsm = v.lsm
  BY <1>2 DEF OpState, Pc
<1>4. v.pc = "arm_workspace" /\ OpFits(v)
  BY <1>1 DEF ArmWorkspace, OpsFit
<1>5. UNCHANGED <<snap, row, session, now, ending, authorised, result, moved>>
  BY DEF ArmWorkspace
<1> HIDE DEF o
<1>6. OpFits(o)
  BY <1>3, <1>4 DEF OpFits
<1>7. op' = [op EXCEPT ![p] = o]
  BY DEF o
<1> QED BY <1>3, <1>5, <1>6, <1>7, OpStep

LEMMA ArmKeepsInv ==
    ASSUME ReplacementInv, NEW p \in Op, Arm(p)
    PROVE  ReplacementInv'
<1>1. TypeOK /\ OpsFit
  BY DEF ReplacementInv
<1> PICK v \in OpState : v = op[p]
  BY <1>1, StateTypes DEF Typed
<1>2. v.pc = "arm" /\ OpFits(v) /\ ArmOk(v)
  BY <1>1 DEF Arm, OpsFit
<1> PICK r : r = ArmedRow(v)
  OBVIOUS
<1>3. v.candidate \in Worker /\ v.lsm \in Observation /\ v.lsm.run <= last
  BY <1>2 DEF OpFits
<1>4. v.work \in Work /\ v.lsm.run \in Run
  BY <1>2, <1>3 DEF ArmOk, SafeWorkspace, OpState, Observation
<1>5. snap.revision \in Nat /\ snap.generation \in Nat /\ snap.current_worker_id \in OptWorker
  BY <1>1, StateTypes DEF Typed, Snapshot
<1>6. /\ r.state = "ARMED" /\ r.candidate = v.candidate /\ r.expected_revision = snap.revision
      /\ r.previous_generation = snap.generation /\ r.previous_run = v.lsm.run
  BY DEF ArmedRow
<1>7. r \in Row
  BY <1>3, <1>4, <1>5, OptionLemma DEF ArmedRow, Row, AttemptState, Unresolved
<1>8. RowFits(r)
  BY <1>3, <1>5, <1>6 DEF RowFits
<1> DEFINE o == [Idle EXCEPT !.pc = "record", !.row = r]
<1>9. o \in OpState /\ o.pc = "record" /\ o.row = r
  BY <1>7, IdleType DEF OpState, Pc
<1>10. op' = [op EXCEPT ![p] = o]
       /\ UNCHANGED <<snap, row, session, now, ending, authorised, result, moved>>
  BY DEF Arm, Goto
<1> HIDE DEF o
<1>11. OpFits(o)
  BY <1>6, <1>8, <1>9 DEF OpFits
<1> QED BY <1>9, <1>10, <1>11, OpStep

LEMMA SubmitCommandKeepsInv ==
    ASSUME ReplacementInv, NEW p \in Op, NEW a \in Attempt, SubmitCommand(p, a)
    PROVE  ReplacementInv'
<1> DEFINE o == [Idle EXCEPT !.pc = "submit", !.attempt = a]
<1>1. o \in OpState /\ o.pc = "submit" /\ o.attempt = a
  BY IdleType DEF OpState, Pc
<1>2. op' = [op EXCEPT ![p] = o] /\ row[a].state = "ARMED"
      /\ UNCHANGED <<snap, row, session, now, ending, authorised, result, moved>>
  BY DEF SubmitCommand, Goto
<1> HIDE DEF o
<1>3. OpFits(o)
  BY <1>1, <1>2 DEF OpFits
<1> QED BY <1>1, <1>2, <1>3, OpStep

LEMMA CompleteCommandKeepsInv ==
    ASSUME ReplacementInv, NEW p \in Op, NEW a \in Attempt, NEW reported \in Run,
           CompleteCommand(p, a, reported)
    PROVE  ReplacementInv'
<1>1. TypeOK /\ AttemptFits(a)
  BY DEF ReplacementInv, AttemptsFit
<1> PICK l : l = Observed
  OBVIOUS
<1> PICK r \in Row : r = row[a]
  BY <1>1, StateTypes DEF Typed
<1>2. l \in Observation /\ l.run = run /\ (~l.busy => inflight = {})
  BY <1>1, ObservedType DEF Observed
<1>3. r.state # "unborn" /\ RowFits(r)
  BY <1>1 DEF CompleteCommand, AttemptFits
<1>4. Shows(l, r) => Retired(r.previous_run)
  <2>1. run \in {0, last} /\ last \in Nat /\ r.previous_run \in Nat
    BY <1>1, StateTypes, RowTypes DEF TypeOK, Typed
  <2> QED BY <1>2, <1>3, <2>1 DEF Shows, Retired, RowFits
<1> DEFINE o == [[Idle EXCEPT !.pc = "complete_workspace", !.attempt = a,
                              !.reported = reported] EXCEPT !.lsm = l]
<1>5. o \in OpState /\ o.pc = "complete_workspace" /\ o.attempt = a /\ o.lsm = l
  BY <1>2, IdleType DEF OpState, Pc
<1>6. op' = [op EXCEPT ![p] = o]
      /\ UNCHANGED <<snap, row, session, now, ending, authorised, result, moved>>
  BY DEF CompleteCommand, RefreshLsm, Goto
<1> HIDE DEF o
<1>7. OpFits(o)
  BY <1>2, <1>3, <1>4, <1>5 DEF OpFits
<1> QED BY <1>5, <1>6, <1>7, OpStep

\* The workspace is read after the run was seen retired: it holds all the old run showed.
LEMMA CompleteWorkspaceKeepsInv ==
    ASSUME ReplacementInv, NEW p \in Op, CompleteWorkspace(p)
    PROVE  ReplacementInv'
<1>1. TypeOK /\ OpsFit
  BY DEF ReplacementInv
<1> PICK v \in OpState : v = op[p]
  BY <1>1, StateTypes DEF Typed
<1> PICK w \in {work, None} : op' = [op EXCEPT ![p] = [v EXCEPT !.pc = "complete", !.work = w]]
  BY DEF CompleteWorkspace, RefreshWorkspace, Goto
<1> DEFINE o == [v EXCEPT !.pc = "complete", !.work = w]
<1>2. w \in Work \cup {None}
  BY <1>1 DEF TypeOK
<1>3. /\ o \in OpState /\ o.pc = "complete" /\ o.attempt = v.attempt /\ o.lsm = v.lsm
      /\ o.work = w
  BY <1>2 DEF OpState, Pc
<1>4. v.pc = "complete_workspace" /\ OpFits(v)
  BY <1>1 DEF CompleteWorkspace, OpsFit
<1>5. UNCHANGED <<snap, row, session, now, ending, authorised, result, moved>>
  BY DEF CompleteWorkspace
<1>6. v.attempt \in Attempt
  BY <1>4 DEF OpFits
<1>7. w # None => LeftAt(row[v.attempt].previous_run, w)
  BY DEF LeftAt
<1> HIDE DEF o
<1>8. OpFits(o)
  BY <1>3, <1>4, <1>7 DEF OpFits
<1>9. op' = [op EXCEPT ![p] = o]
  BY DEF o
<1> QED BY <1>3, <1>5, <1>8, <1>9, OpStep

\* A completion goes on only when the evidence it holds shows the takeover, and to a move only
\* from the protocol state the attempt was armed on.
LEMMA CompleteKeepsInv ==
    ASSUME ReplacementInv, NEW p \in Op, Complete(p)
    PROVE  ReplacementInv'
<1>1. TypeOK /\ OpsFit /\ SnapFits
  BY DEF ReplacementInv
<1> PICK v \in OpState : v = op[p]
  BY <1>1, StateTypes DEF Typed
<1> PICK a : a = v.attempt
  OBVIOUS
<1>2. v.pc = "complete" /\ OpFits(v)
  BY <1>1 DEF Complete, OpsFit
<1>3. a \in Attempt /\ row[a].state # "unborn"
  BY <1>2 DEF OpFits
<1> PICK r \in Row : r = row[a]
  BY <1>1, <1>3, StateTypes DEF Typed
<1>4. /\ Shows(v.lsm, r) => Retired(r.previous_run)
      /\ Shows(v.lsm, r) /\ v.work # None => LeftAt(r.previous_run, v.work)
  BY <1>2 DEF OpFits
<1>5. UNCHANGED <<snap, row, session, now, ending, authorised, result, moved>>
  BY DEF Complete
<1>6. CASE Goto(p, [Idle EXCEPT !.pc = "reconcile", !.attempt = a])
  <2> DEFINE o == [Idle EXCEPT !.pc = "reconcile", !.attempt = a]
  <2>1. o \in OpState /\ o.pc = "reconcile" /\ o.attempt = a
    BY <1>3, IdleType DEF OpState, Pc
  <2>2. op' = [op EXCEPT ![p] = o]
    BY <1>6 DEF Goto
  <2> HIDE DEF o
  <2>3. OpFits(o)
    BY <1>3, <2>1 DEF OpFits
  <2> QED BY <1>5, <2>1, <2>2, <2>3, OpStep
<1>7. CASE /\ Admitted(a, v) /\ StillCurrent(a)
           /\ Goto(p, [Idle EXCEPT !.pc = Route(a), !.attempt = a, !.revision = snap.revision,
                                   !.ts = now])
  <2> PICK k : k = Route(a)
    OBVIOUS
  <2>1. k \in {"finish", "claim", "takeover", "abandon"}
    BY DEF Route
  <2>2. snap.revision \in 0 .. MaxRevision /\ now \in Time
    BY <1>1, StateTypes, BoundTypes DEF SnapFits, Typed, TypeOK
  <2> DEFINE o == [Idle EXCEPT !.pc = k, !.attempt = a, !.revision = snap.revision, !.ts = now]
  <2>3. o \in OpState /\ o.pc = k /\ o.attempt = a /\ o.revision = snap.revision
    BY <1>3, <2>1, <2>2, IdleType DEF OpState, Pc
  <2>4. op' = [op EXCEPT ![p] = o]
    BY <1>7 DEF Goto
  <2> HIDE DEF o
  <2>5. Shows(v.lsm, r) /\ v.work # None /\ v.work = r.work
    BY <1>7 DEF Admitted, CompletionOk, SafeLsm, Fenced, SafeWorkspace, Shows
  <2>6. Retired(r.previous_run) /\ LeftAt(r.previous_run, r.work)
    BY <1>4, <2>5
  <2>7. k # "finish" => ~AlreadyMoved(a) /\ snap.revision = r.expected_revision
    BY <1>7 DEF Route, Admitted, Unchanged
  <2>8. k = "abandon" => r.previous_worker \in Worker
    <3> SUFFICES ASSUME k = "abandon" PROVE r.previous_worker \in Worker
      OBVIOUS
    <3>1. snap.current_worker_id # None
      BY DEF Route
    <3>2. snap.current_worker_id = r.previous_worker
      BY <1>7, <2>7, <3>1 DEF StillCurrent
    <3> QED BY <3>1, <3>2, RowTypes DEF OptWorker
  <2>9. k = "finish" => Newer(r)
    <3> SUFFICES ASSUME k = "finish" PROVE Newer(r)
      OBVIOUS
    <3>1. AlreadyMoved(a)
      BY DEF Route
    <3>2. r.candidate \in Worker /\ snap.current_worker_id = r.candidate
      BY <1>3, <3>1 DEF ReplacementInv, AttemptsFit, AttemptFits, RowFits, AlreadyMoved
    <3>3. snap.generation > r.previous_generation /\ snap.generation \in Nat
      BY <1>1, <1>7, <3>1, StateTypes DEF Admitted, Typed
    <3>4. snap.workers[r.candidate].generation = snap.generation
      BY <1>1, <3>2, OptionLemma DEF SnapFits, GoodSnapshot, ValidState, CurrentOwnsGeneration
    <3> QED BY <3>3, <3>4, OptionLemma DEF Newer
  <2>10. OpFits(o)
    BY <1>3, <2>1, <2>3, <2>6, <2>7, <2>8, <2>9 DEF OpFits
  <2> QED BY <1>5, <2>3, <2>4, <2>10, OpStep
<1> QED BY <1>6, <1>7 DEF Complete

-----------------------------------------------------------------------------
(***************************************************************************)
(* The steps that write a row.                                             *)
(***************************************************************************)
\* A process writes a row and ends.
LEMMA RowStep ==
    ASSUME ReplacementInv, NEW p \in Op, NEW a \in Attempt, NEW q \in Row,
           row' = [row EXCEPT ![a] = q], op' = [op EXCEPT ![p] = Idle],
           \/ row[a].state # "unborn" /\ Kept(row[a], q) /\ q.state # "unborn"
                 /\ (q.state = "COMPLETED" => Newer(row[a]))
           \/ row[a].state = "unborn" /\ q.state = "ARMED" /\ RowFits(q),
           authorised' \in [Attempt -> Nat],
           UNCHANGED <<snap, session, now, ending, result, moved>>
    PROVE  ReplacementInv'
<1>1. TypeOK /\ AttemptsFit /\ UNCHANGED <<snap, last, inflight, writer, moved, run, work, ending>>
  BY DEF ReplacementInv, session
<1>2. row \in [Attempt -> Row] /\ \A b \in Attempt : row'[b] = IF b = a THEN q ELSE row[b]
  BY <1>1 DEF TypeOK
<1>3. TypeOK'
  BY <1>1, <1>2, IdleType DEF TypeOK, session
<1>4. Later
  <2>1. last <= last /\ snap.generation <= snap.generation
        /\ \A w \in Worker : snap.workers[w].generation # None =>
              snap.workers[w].generation <= snap.workers[w].generation
    BY <1>1, StateTypes DEF Typed
  <2>2. \A b \in Attempt : row[b].state # "unborn" =>
          Kept(row[b], row'[b]) /\ row'[b].state # "unborn"
    BY <1>2, KeptRefl
  <2> QED BY <1>1, <2>1, <2>2 DEF Later, Retired, Quiet
<1>5. OpsFit'
  <2>1. OpFits(Idle)'
    BY IdleType DEF OpFits
  <2> QED BY <1>3, <1>4, <2>1, IdleType, OpMoves
<1>6. AttemptsFit'
  <2> SUFFICES ASSUME NEW b \in Attempt PROVE AttemptFits(b)'
    BY DEF AttemptsFit
  <2>1. CASE b # a \/ row[a].state # "unborn"
    BY <1>1, <1>2, <1>3, <1>4, <2>1, LaterAttempt
  <2>2. CASE b = a /\ row[a].state = "unborn"
    <3>1. row'[a] = q /\ q.state = "ARMED" /\ RowFits(q) /\ moved'[a] = {}
      BY <1>1, <1>2, <2>2 DEF AttemptsFit, AttemptFits
    <3>2. RowFits(q)'
      BY <1>1, <3>1 DEF RowFits
    <3> QED BY <2>2, <3>1, <3>2 DEF AttemptFits, RowFits
  <2> QED BY <2>1, <2>2
<1>7. FencedFirst' /\ NothingIntervened'
  BY <1>1, <1>4, LaterHistory
<1>8. SnapFits'
  BY <1>1 DEF ReplacementInv, SnapFits
<1> QED BY <1>3, <1>5, <1>6, <1>7, <1>8 DEF ReplacementInv

LEMMA RecordKeepsInv ==
    ASSUME ReplacementInv, NEW p \in Op, Record(p)
    PROVE  ReplacementInv'
<1>1. TypeOK /\ OpsFit
  BY DEF ReplacementInv
<1> PICK v \in OpState : v = op[p]
  BY <1>1, StateTypes DEF Typed
<1>2. v.pc = "record" /\ OpFits(v)
  BY <1>1 DEF Record, OpsFit
<1> PICK q \in Row : q = v.row
  BY DEF OpState
<1>3. q.state = "ARMED" /\ RowFits(q)
  BY <1>2 DEF OpFits
<1> PICK a \in NextAttempts : row' = [row EXCEPT ![a] = q]
  BY DEF Record
<1>4. a \in Attempt /\ row[a].state = "unborn"
  BY UnbornType DEF NextAttempts
<1>5. op' = [op EXCEPT ![p] = Idle] /\ authorised' \in [Attempt -> Nat]
      /\ UNCHANGED <<snap, session, now, ending, result, moved>>
  BY <1>1 DEF Record, Stop, Goto, TypeOK
<1> QED BY <1>3, <1>4, <1>5, RowStep

\* An accepted write of state to row a keeps what the row recorded.
LEMMA UpdateLemma ==
    ASSUME TypeOK, NEW a \in Attempt, NEW state \in AttemptState \ {"unborn"},
           UpdateOk(a, state), Update(a, state)
    PROVE  /\ row[a].state # "unborn"
           /\ \E q \in Row : /\ row' = [row EXCEPT ![a] = q]
                             /\ Kept(row[a], q) /\ q.state = state
<1> PICK r \in Row : r = row[a]
  BY StateTypes DEF Typed
<1> DEFINE q == [r EXCEPT !.state = state]
<1>1. r.state # "unborn"
  BY DEF UpdateOk, Allowed
<1>2. q \in Row /\ q.state = state /\ Kept(r, q)
  BY DEF Row, Kept
<1>3. row \in [Attempt -> Row]
  BY DEF TypeOK
<1>4. row' = [row EXCEPT ![a] = q]
  BY <1>3 DEF Update
<1> HIDE DEF q
<1> QED BY <1>1, <1>2, <1>4

LEMMA SubmitKeepsInv ==
    ASSUME ReplacementInv, NEW p \in Op, Submit(p)
    PROVE  ReplacementInv'
<1> DEFINE state == "LSM_TAKEOVER_SUBMITTED"
<1>1. TypeOK /\ OpsFit
  BY DEF ReplacementInv
<1> PICK v \in OpState : v = op[p]
  BY <1>1, StateTypes DEF Typed
<1> PICK a : a = v.attempt
  OBVIOUS
<1>2. v.pc = "submit" /\ OpFits(v)
  BY <1>1 DEF Submit, OpsFit
<1>3. a \in Attempt
  BY <1>2 DEF OpFits
<1>4. UpdateOk(a, state) /\ Update(a, state) /\ state \in AttemptState \ {"unborn"}
  BY DEF Submit, AttemptState, Unresolved
<1>5. row[a].state # "unborn"
  BY <1>1, <1>3, <1>4, UpdateLemma
<1> PICK q \in Row : row' = [row EXCEPT ![a] = q] /\ Kept(row[a], q) /\ q.state = state
  BY <1>1, <1>3, <1>4, UpdateLemma
<1>6. op' = [op EXCEPT ![p] = Idle]
      /\ UNCHANGED <<snap, session, now, ending, result, moved>>
  BY DEF Submit, Stop, Goto
<1>7. authorised' \in [Attempt -> Nat]
  BY <1>1, <1>3 DEF Submit, TypeOK
<1> QED BY <1>3, <1>5, <1>6, <1>7, RowStep

LEMMA WriteOutcomeKeepsInv ==
    ASSUME ReplacementInv, NEW p \in Op, Reconcile(p) \/ Finish(p)
    PROVE  ReplacementInv'
<1>1. TypeOK /\ OpsFit
  BY DEF ReplacementInv
<1> PICK v \in OpState : v = op[p]
  BY <1>1, StateTypes DEF Typed
<1> PICK a : a = v.attempt
  OBVIOUS
<1> PICK state \in {"RECONCILE_REQUIRED", "COMPLETED"} :
      /\ WriteOutcome(p, state)
      /\ v.pc \in {"reconcile", "finish"}
      /\ state = "COMPLETED" => v.pc = "finish"
  BY DEF Reconcile, Finish
<1>2. OpFits(v)
  BY <1>1 DEF OpsFit
<1>3. a \in Attempt
  BY <1>2 DEF OpFits
<1>4. state = "COMPLETED" => Newer(row[a])
  BY <1>2 DEF OpFits
<1>5. UpdateOk(a, state) /\ Update(a, state) /\ state \in AttemptState \ {"unborn"}
  BY DEF WriteOutcome, AttemptState, Unresolved
<1>6. row[a].state # "unborn"
  BY <1>1, <1>3, <1>5, UpdateLemma
<1> PICK q \in Row : row' = [row EXCEPT ![a] = q] /\ Kept(row[a], q) /\ q.state = state
  BY <1>1, <1>3, <1>5, UpdateLemma
<1>7. op' = [op EXCEPT ![p] = Idle] /\ authorised' \in [Attempt -> Nat]
      /\ UNCHANGED <<snap, session, now, ending, result, moved>>
  BY <1>1 DEF WriteOutcome, Stop, Goto, TypeOK
<1>8. q.state # "unborn"
  OBVIOUS
<1> QED BY <1>3, <1>4, <1>6, <1>7, <1>8, RowStep

-----------------------------------------------------------------------------
(***************************************************************************)
(* The steps that change the worker protocol.                              *)
(***************************************************************************)
LEMMA SnapLater ==
    ASSUME TypeOK, Advances(snap, snap'), UNCHANGED <<row, last, inflight, work, writer>>,
           \A a \in Attempt : moved[a] \subseteq moved'[a]
    PROVE  Later
<1>1. \A a \in Attempt : Kept(row[a], row[a])
  BY KeptRefl
<1>2. last <= last
  BY StateTypes DEF Typed
<1> QED BY <1>1, <1>2 DEF Later, Retired, Advances, Quiet

\* After a transition from a revision below the bound the snapshot is good.
LEMMA SnapMoves ==
    ASSUME ReplacementInv, GoodSnapshot(snap'), Advances(snap, snap'),
           snap.revision < MaxRevision
    PROVE  SnapFits' /\ snap'.revision = snap.revision + 1
<1>1. snap.revision \in Nat
  BY StateTypes DEF ReplacementInv, Typed
<1>2. snap'.revision = snap.revision + 1
  BY DEF Advances
<1>3. SnapFits'
  BY <1>1, <1>2, BoundTypes DEF SnapFits
<1> QED BY <1>2, <1>3

Ending == [revision : 0 .. MaxRevision, ts : Time] \cup {None}

\* Another user of the protocol takes a transition.
LEMMA ProtocolStep ==
    ASSUME ReplacementInv, NEW s, GoodSnapshot(s), Advances(snap, s), Protocol(s),
           ending' \in Ending
    PROVE  ReplacementInv'
<1>1. /\ TypeOK /\ snap' = s /\ snap.revision < MaxRevision
      /\ UNCHANGED <<row, last, inflight, writer, moved, run, work, now, op, authorised, result>>
  BY DEF ReplacementInv, Protocol, session
<1>2. SnapFits'
  BY <1>1, SnapMoves
<1>3. TypeOK'
  BY <1>1 DEF TypeOK, GoodSnapshot, Ending
<1>4. Later
  BY <1>1, SnapLater
<1>5. OpsFit' /\ AttemptsFit' /\ FencedFirst' /\ NothingIntervened'
  BY <1>1, <1>3, <1>4, OpsStay, RowsStay
<1> QED BY <1>2, <1>3, <1>5 DEF ReplacementInv

\* A step of child-complete that leaves the protocol alone.
LEMMA EndingStep ==
    ASSUME ReplacementInv, ending' \in Ending,
           UNCHANGED <<snap, row, session, now, op, authorised, result, moved>>
    PROVE  ReplacementInv'
<1>1. /\ TypeOK /\ SnapFits
      /\ UNCHANGED <<snap, row, last, inflight, writer, moved, run, work, now, op, authorised,
                     result>>
  BY DEF ReplacementInv, session
<1>2. TypeOK'
  BY <1>1 DEF TypeOK, Ending
<1>3. Later
  BY <1>1, NothingLater
<1>4. OpsFit' /\ AttemptsFit' /\ FencedFirst' /\ NothingIntervened'
  BY <1>1, <1>2, <1>3, OpsStay, RowsStay
<1>5. SnapFits'
  BY <1>1 DEF SnapFits
<1> QED BY <1>2, <1>4, <1>5 DEF ReplacementInv

LEMMA OthersKeepInv ==
    ASSUME ReplacementInv, NEW w \in Worker,
           \/ RegisterCandidate(w) \/ AdoptClaim(w) \/ Renew(w)
           \/ \E c \in Worker : RequestHandoffTo(w, c)
    PROVE  ReplacementInv'
<1>1. GoodSnapshot(snap) /\ now \in Nat /\ LeaseSeconds \in Nat /\ ending' \in Ending
  BY StateTypes, BoundTypes
     DEF ReplacementInv, SnapFits, Typed, TypeOK, Ending, RegisterCandidate, AdoptClaim, Renew,
         RequestHandoffTo
<1>2. CASE RegisterCandidate(w)
  <2>1. GoodSnapshot(Register(snap, w, now)) /\ Advances(snap, Register(snap, w, now))
    BY <1>1, <1>2, RegisterAdvances DEF RegisterCandidate
  <2> QED BY <1>1, <1>2, <2>1, ProtocolStep DEF RegisterCandidate
<1>3. CASE AdoptClaim(w)
  <2>1. /\ GoodSnapshot(Claim(snap, w, now, LeaseSeconds))
        /\ Advances(snap, Claim(snap, w, now, LeaseSeconds))
    BY <1>1, <1>3, ClaimAdvances DEF AdoptClaim
  <2> QED BY <1>1, <1>3, <2>1, ProtocolStep DEF AdoptClaim
<1>4. CASE Renew(w)
  <2>1. /\ GoodSnapshot(Heartbeat(snap, w, now, LeaseSeconds))
        /\ Advances(snap, Heartbeat(snap, w, now, LeaseSeconds))
    BY <1>1, HeartbeatAdvances
  <2> QED BY <1>1, <1>4, <2>1, ProtocolStep DEF Renew
<1>5. CASE \E c \in Worker : RequestHandoffTo(w, c)
  <2> PICK c \in Worker : RequestHandoffTo(w, c)
    BY <1>5
  <2>1. GoodSnapshot(RequestHandoff(snap, c, now)) /\ Advances(snap, RequestHandoff(snap, c, now))
    BY <1>1, HandoffAdvances DEF RequestHandoffTo
  <2> QED BY <1>1, <2>1, ProtocolStep DEF RequestHandoffTo
<1> QED BY <1>2, <1>3, <1>4, <1>5

LEMMA ChildCompleteLoadKeepsInv ==
    ASSUME ReplacementInv, ChildCompleteLoad
    PROVE  ReplacementInv'
<1>1. snap.revision \in 0 .. MaxRevision /\ now \in Time
  BY StateTypes, BoundTypes DEF ReplacementInv, SnapFits, Typed, TypeOK
<1>2. ending' \in Ending
  BY <1>1 DEF ChildCompleteLoad, Ending
<1> QED BY <1>2, EndingStep DEF ChildCompleteLoad

LEMMA ChildCompleteStopsKeepsInv ==
    ASSUME ReplacementInv, ChildCompleteStops
    PROVE  ReplacementInv'
<1>1. ending' \in Ending
  BY DEF ChildCompleteStops, Ending
<1> QED BY <1>1, EndingStep DEF ChildCompleteStops

LEMMA ChildCompleteEndKeepsInv ==
    ASSUME ReplacementInv, ChildCompleteEnd
    PROVE  ReplacementInv'
<1>1. /\ GoodSnapshot(snap) /\ snap \in Snapshot /\ ValidState(snap) /\ snap.revision \in Nat
      /\ snap.current_worker_id # None /\ ending # None /\ ending.revision = snap.revision
      /\ ending \in Ending
  BY StateTypes DEF ReplacementInv, SnapFits, Typed, ChildCompleteEnd, GoodSnapshot, TypeOK,
                    Ending
<1> PICK e \in Ending : e = ending
  BY <1>1
<1>2. e \in [revision : 0 .. MaxRevision, ts : Time] /\ e.ts \in Nat
  BY <1>1, BoundTypes DEF Ending, Time
<1> PICK h \in Worker : h = snap.current_worker_id /\ OwnsGeneration(snap, h, snap.generation)
  BY <1>1, HolderOwns
<1> PICK status \in Terminal : Protocol(EndWorker(snap, h, status, e.ts))
  <2>1. "completed" \in Terminal /\ "abandoned" \in Terminal
    BY DEF Terminal
  <2> QED BY <2>1 DEF ChildCompleteEnd, CompleteWorker, AbandonWorker
<1>3. /\ GoodSnapshot(EndWorker(snap, h, status, e.ts))
      /\ Advances(snap, EndWorker(snap, h, status, e.ts))
  BY <1>1, <1>2, EndAdvances
<1>4. snap.revision < MaxRevision
  BY DEF Protocol
<1>5. e.revision + 1 \in 0 .. MaxRevision
  BY <1>1, <1>4, BoundTypes
<1>6. ending' \in Ending
  <2>1. ending' = [e EXCEPT !.revision = e.revision + 1]
    BY DEF ChildCompleteEnd
  <2> QED BY <1>2, <1>5, <2>1 DEF Ending
<1> QED BY <1>3, <1>6, ProtocolStep

LEMMA ChildCompleteTaskKeepsInv ==
    ASSUME ReplacementInv, ChildCompleteTask
    PROVE  ReplacementInv'
<1>1. GoodSnapshot(snap) /\ ending # None /\ ending \in Ending /\ CompleteTaskOk(snap)
  BY DEF ReplacementInv, SnapFits, ChildCompleteTask, TypeOK, Ending
<1> PICK t : t = ending.ts
  OBVIOUS
<1>2. t \in Nat
  BY <1>1, BoundTypes DEF Ending, Time
<1>3. GoodSnapshot(CompleteTask(snap, t)) /\ Advances(snap, CompleteTask(snap, t))
  BY <1>1, <1>2, CompleteTaskAdvances
<1>4. Protocol(CompleteTask(snap, t)) /\ ending' \in Ending
  BY DEF ChildCompleteTask, Ending
<1> QED BY <1>3, <1>4, ProtocolStep

-----------------------------------------------------------------------------
(***************************************************************************)
(* The moves of the lease.                                                 *)
(***************************************************************************)
\* Adding a legitimate revision to the revisions moved from leaves them legitimate.
LEMMA RevisionAdded ==
    ASSUME NEW from, NEW e \in Nat, NEW x,
           from \in {{}, {e}, {e, e + 1}}, x = e \/ (x = e + 1 /\ e \in from)
    PROVE  from \cup {x} \in {{}, {e}, {e, e + 1}}
<1>1. CASE x = e
  <2>1. from \cup {x} = {e} \/ from \cup {x} = {e, e + 1}
    BY <1>1
  <2> QED BY <2>1
<1>2. CASE x = e + 1 /\ e \in from
  <2>1. from \cup {x} = {e, e + 1}
    BY <1>2
  <2> QED BY <2>1
<1> QED BY <1>1, <1>2

LEMMA MoveStep ==
    ASSUME ReplacementInv, NEW p \in Op, NEW v \in OpState, v = op[p],
           v.pc \in {"claim", "takeover", "abandon"}, NEW ok,
           NEW s, GoodSnapshot(s), Advances(snap, s), NEW next \in {"finish", "claim"},
           Move(p, ok, s, next),
           next = "finish" =>
             LET r == row[v.attempt]
                 g == s.workers[r.candidate].generation
             IN  g # None /\ g > r.previous_generation,
           next = "claim" => v.pc # "claim"
    PROVE  ReplacementInv'
<1> PICK a : a = v.attempt
  OBVIOUS
<1>1. /\ TypeOK /\ SnapFits /\ AttemptsFit /\ OpFits(v) /\ FencedFirst /\ NothingIntervened
      /\ v.revision = snap.revision /\ snap.revision < MaxRevision /\ snap' = s
      /\ UNCHANGED <<row, last, inflight, writer, run, work, now, ending, authorised, result>>
  BY DEF ReplacementInv, OpsFit, Move, session
<1>2. a \in Attempt /\ row[a].state # "unborn"
  BY <1>1 DEF OpFits
<1> PICK r \in Row : r = row[a]
  BY <1>1, <1>2, StateTypes DEF Typed
<1> PICK m : m = [revision |-> snap.revision, run |-> run]
  OBVIOUS
<1>3. /\ Retired(r.previous_run) /\ LeftAt(r.previous_run, r.work)
      /\ \/ v.revision = r.expected_revision
         \/ /\ v.pc = "claim" /\ v.revision = r.expected_revision + 1
            /\ r.expected_revision \in RevisionsMoved(a)
  BY <1>1 DEF OpFits
<1>4. moved' = [moved EXCEPT ![a] = moved[a] \cup {m}]
  BY DEF Move
<1>5. moved \in [Attempt -> SUBSET [revision : 0 .. MaxRevision, run : Run]]
  BY <1>1 DEF TypeOK
<1>6. \A b \in Attempt : moved'[b] = IF b = a THEN moved[a] \cup {m} ELSE moved[b]
  BY <1>2, <1>4, <1>5
<1>7. SnapFits' /\ s.revision = snap.revision + 1
  BY <1>1, SnapMoves
<1>8. snap.revision \in Nat /\ snap.revision \in 0 .. MaxRevision /\ run \in Run
      /\ s.revision \in 0 .. MaxRevision /\ r.expected_revision \in Nat
      /\ run \in {0, last} /\ last \in Nat /\ r.previous_run \in Nat
  BY <1>1, <1>7, StateTypes, BoundTypes, RowTypes DEF Typed, TypeOK
<1> DEFINE o == [v EXCEPT !.pc = next, !.revision = s.revision]
<1>9. o \in OpState /\ o.pc = next /\ o.revision = s.revision /\ o.attempt = a
  BY <1>8 DEF OpState, Pc
<1>10. op' = [op EXCEPT ![p] = o]
  BY DEF Move, Goto
<1> HIDE DEF o
<1>11. TypeOK'
  <2>1. m \in [revision : 0 .. MaxRevision, run : Run]
    BY <1>8
  <2>2. moved' \in [Attempt -> SUBSET [revision : 0 .. MaxRevision, run : Run]]
    BY <1>2, <1>4, <1>5, <2>1
  <2> QED BY <1>1, <1>9, <1>10, <2>2 DEF TypeOK, GoodSnapshot
<1>12. Later
  BY <1>1, <1>6, SnapLater
<1>13. Retired(r.previous_run)' /\ LeftAt(r.previous_run, r.work)' /\ row'[a] = r
  BY <1>1, <1>3 DEF Retired, LeftAt
<1>14. RevisionsMoved(a)' = RevisionsMoved(a) \cup {snap.revision}
  <2>1. m.revision = snap.revision
    OBVIOUS
  <2> QED BY <1>2, <1>6, <2>1 DEF RevisionsMoved
<1>15. OpFits(o)'
  <2>1. CASE next = "finish"
    <3>1. Newer(r)'
      BY <1>1, <2>1 DEF Newer
    <3> QED BY <1>2, <1>9, <1>13, <2>1, <3>1 DEF OpFits
  <2>2. CASE next = "claim"
    <3>1. o.revision = r.expected_revision + 1 /\ r.expected_revision \in RevisionsMoved(a)'
      BY <1>1, <1>3, <1>7, <1>9, <1>14, <2>2
    <3> QED BY <1>2, <1>9, <1>13, <2>2, <3>1 DEF OpFits
  <2> QED BY <2>1, <2>2
<1>16. OpsFit'
  BY <1>9, <1>10, <1>11, <1>12, <1>15, OpMoves
<1>17. AttemptsFit'
  <2> SUFFICES ASSUME NEW b \in Attempt PROVE AttemptFits(b)'
    BY DEF AttemptsFit
  <2>1. CASE b # a
    BY <1>1, <1>6, <1>11, <1>12, <2>1, LaterAttempt
  <2>2. CASE b = a
    <3>1. RowFits(r) /\ (r.state = "COMPLETED" => Newer(r)) /\ Kept(r, r)
      BY <1>1, <1>2, KeptRefl DEF AttemptsFit, AttemptFits
    <3>2. RowFits(r)' /\ (r.state = "COMPLETED" => Newer(r)')
      BY <1>1, <1>11, <1>12, <3>1, LaterRow DEF RowFits
    <3> QED BY <1>2, <1>13, <2>2, <3>2 DEF AttemptFits
  <2> QED BY <2>1, <2>2
<1>18. FencedFirst'
  <2> SUFFICES ASSUME NEW b \in Attempt, NEW n \in moved'[b], row[b].previous_run # 0
               PROVE  n.run # row[b].previous_run
    BY <1>1 DEF FencedFirst
  <2>1. CASE n \in moved[b]
    BY <1>1, <2>1 DEF FencedFirst
  <2>2. CASE b = a /\ n = m
    <3>1. m.run = run
      OBVIOUS
    <3> QED BY <1>3, <1>8, <2>2, <3>1 DEF Retired
  <2> QED BY <1>6, <2>1, <2>2
<1>19. NothingIntervened'
  <2> SUFFICES ASSUME NEW b \in Attempt
               PROVE  RevisionsMoved(b)' \in {{}, {row[b].expected_revision},
                          {row[b].expected_revision, row[b].expected_revision + 1}}
    BY <1>1 DEF NothingIntervened, RevisionsMoved
  <2>1. RevisionsMoved(b) \in {{}, {row[b].expected_revision},
            {row[b].expected_revision, row[b].expected_revision + 1}}
    BY <1>1 DEF NothingIntervened, RevisionsMoved
  <2>2. CASE b # a
    BY <1>6, <2>1, <2>2 DEF RevisionsMoved
  <2>3. CASE b = a
    BY <1>1, <1>3, <1>8, <1>14, <2>1, <2>3, RevisionAdded
  <2> QED BY <2>2, <2>3
<1> QED BY <1>7, <1>11, <1>16, <1>17, <1>18, <1>19 DEF ReplacementInv

LEMMA MovesKeepInv ==
    ASSUME ReplacementInv, NEW p \in Op, MoveByClaim(p) \/ MoveByTakeover(p) \/ Abandon(p)
    PROVE  ReplacementInv'
<1>1. TypeOK /\ GoodSnapshot(snap) /\ OpsFit
  BY DEF ReplacementInv, SnapFits
<1> PICK v \in OpState : v = op[p]
  BY <1>1, StateTypes DEF Typed
<1> PICK a : a = v.attempt
  OBVIOUS
<1>2. OpFits(v) /\ v.pc \in {"claim", "takeover", "abandon"}
  BY <1>1 DEF OpsFit, MoveByClaim, MoveByTakeover, Abandon
<1>3. a \in Attempt /\ row[a].state # "unborn"
  BY <1>2 DEF OpFits
<1> PICK c : c = row[a].candidate
  OBVIOUS
<1>4. c \in Worker /\ row[a].previous_generation <= snap.generation
  BY <1>3 DEF ReplacementInv, AttemptsFit, AttemptFits, RowFits
<1>5. /\ v.ts \in Nat /\ LeaseSeconds \in Nat /\ snap.generation \in Nat
      /\ row[a].previous_generation \in Nat
  BY <1>1, <1>3, StateTypes, BoundTypes, RowTypes DEF OpState, Time, Typed
<1>6. snap.generation + 1 # None /\ snap.generation + 1 > row[a].previous_generation
  BY <1>4, <1>5, OptionLemma
<1>7. CASE MoveByClaim(p)
  <2>1. /\ ClaimOk(snap, c)
        /\ Move(p, ClaimOk(snap, c), Claim(snap, c, v.ts, LeaseSeconds), "finish")
    BY <1>7 DEF MoveByClaim, Move
  <2>2. /\ GoodSnapshot(Claim(snap, c, v.ts, LeaseSeconds))
        /\ Advances(snap, Claim(snap, c, v.ts, LeaseSeconds))
        /\ Claim(snap, c, v.ts, LeaseSeconds).workers[c].generation = snap.generation + 1
    BY <1>1, <1>4, <1>5, <2>1, ClaimAdvances
  <2> QED BY <1>2, <1>6, <2>1, <2>2, MoveStep
<1>8. CASE MoveByTakeover(p)
  <2>1. /\ TakeoverEligible(snap, c, v.ts)
        /\ Move(p, TakeoverEligible(snap, c, v.ts), Takeover(snap, c, v.ts, LeaseSeconds),
                "finish")
    BY <1>8 DEF MoveByTakeover, Move
  <2>2. /\ GoodSnapshot(Takeover(snap, c, v.ts, LeaseSeconds))
        /\ Advances(snap, Takeover(snap, c, v.ts, LeaseSeconds))
        /\ Takeover(snap, c, v.ts, LeaseSeconds).workers[c].generation = snap.generation + 1
    BY <1>1, <1>4, <1>5, <2>1, TakeoverAdvances
  <2> QED BY <1>2, <1>6, <2>1, <2>2, MoveStep
<1>9. CASE Abandon(p)
  <2> PICK w, g : w = row[a].previous_worker /\ g = row[a].previous_generation
    OBVIOUS
  <2>1. w \in Worker /\ v.pc = "abandon"
    BY <1>2, <1>9 DEF OpFits, Abandon
  <2>2. /\ OwnsGeneration(snap, w, g)
        /\ Move(p, AbandonWorkerOk(snap, w, g), EndWorker(snap, w, "abandoned", v.ts), "claim")
    BY <1>9 DEF Abandon, Move, AbandonWorkerOk, AbandonWorker
  <2>3. /\ GoodSnapshot(EndWorker(snap, w, "abandoned", v.ts))
        /\ Advances(snap, EndWorker(snap, w, "abandoned", v.ts))
    BY <1>1, <1>5, <2>1, <2>2, EndAdvances DEF Terminal
  <2> QED BY <1>2, <2>1, <2>2, <2>3, MoveStep
<1> QED BY <1>7, <1>8, <1>9

-----------------------------------------------------------------------------
(***************************************************************************)
(* The steps of Local Shell, the conversations and the clock.              *)
(***************************************************************************)
\* A step outside the registry, which retires no run by writing or calling for it.
LEMMA SessionStep ==
    ASSUME ReplacementInv, TypeOK', last <= last',
           \A r \in Run : Retired(r) => r < last' /\ r \notin inflight' /\ Quiet(r),
           UNCHANGED <<snap, row, op, ending, moved>>
    PROVE  ReplacementInv'
<1>1. Later
  <2>1. snap.generation <= snap.generation
        /\ \A w \in Worker : snap.workers[w].generation # None =>
              snap.workers[w].generation <= snap.workers[w].generation
    BY StateTypes DEF ReplacementInv, Typed
  <2>2. \A a \in Attempt : Kept(row[a], row[a])
    BY KeptRefl
  <2> QED BY <2>1, <2>2 DEF Later
<1>2. OpsFit' /\ AttemptsFit' /\ FencedFirst' /\ NothingIntervened'
  BY <1>1, OpsStay, RowsStay
<1>3. SnapFits'
  BY DEF ReplacementInv, SnapFits
<1> QED BY <1>2, <1>3 DEF ReplacementInv

LEMMA NewRunKeepsInv ==
    ASSUME ReplacementInv, (\E a \in Attempt : TakeoverCall(a)) \/ OtherResume
    PROVE  ReplacementInv'
<1>1. /\ TypeOK /\ last \in Nat /\ last < MaxRun /\ last' = last + 1
      /\ run' = last + 1
      /\ UNCHANGED <<snap, row, op, ending, moved, inflight, work, writer, now, authorised>>
  BY StateTypes DEF ReplacementInv, Typed, TakeoverCall, OtherResume, NewRun, registryVars
<1>2. last + 1 \in Run
  BY <1>1, BoundTypes DEF Run
<1>3. result' \in [Attempt -> Run]
  BY <1>1, <1>2 DEF TypeOK, TakeoverCall, OtherResume
<1>4. TypeOK'
  BY <1>1, <1>2, <1>3 DEF TypeOK
<1>5. \A r \in Run : Retired(r) => r < last' /\ r \notin inflight' /\ Quiet(r)
  BY <1>1, StateTypes DEF Retired, Typed, Quiet
<1> QED BY <1>1, <1>4, <1>5, SessionStep

LEMMA CallsKeepInv ==
    ASSUME ReplacementInv, RunEnds \/ CallStarts \/ OutsideWrite \/ \E r \in Run : CallFinishes(r)
    PROVE  ReplacementInv'
<1>1. /\ TypeOK /\ last \in Nat /\ last' = last /\ run \in {0, last}
      /\ UNCHANGED <<snap, row, op, ending, moved, now, authorised, result>>
      /\ run \in Run
  BY StateTypes
     DEF ReplacementInv, Typed, TypeOK, RunEnds, CallStarts, CallFinishes, OutsideWrite,
         registryVars
<1>2. CASE RunEnds
  <2>1. run' = 0 /\ UNCHANGED <<inflight, work, writer>>
    BY <1>2 DEF RunEnds
  <2>2. TypeOK'
    BY <1>1, <2>1 DEF TypeOK
  <2> QED BY <1>1, <2>1, <2>2, SessionStep DEF Retired, Quiet
<1>3. CASE CallStarts
  <2>1. run # 0 /\ inflight' = inflight \cup {run} /\ UNCHANGED <<run, work, writer>>
    BY <1>3 DEF CallStarts
  <2>2. TypeOK'
    BY <1>1, <2>1 DEF TypeOK
  <2>3. \A r \in Run : Retired(r) => r < last' /\ r \notin inflight' /\ Quiet(r)
    BY <1>1, <2>1 DEF Retired, Quiet
  <2> QED BY <1>1, <2>2, <2>3, SessionStep
<1>4. CASE \E r \in Run : CallFinishes(r)
  <2> PICK r \in Run : CallFinishes(r)
    BY <1>4
  <2>1. r \in inflight /\ inflight' = inflight \ {r} /\ run' = run
    BY DEF CallFinishes
  <2>2. work' \in Work /\ writer' \in {r, writer} /\ (work' # work => writer' = r)
    BY DEF CallFinishes
  <2>3. writer \in Run
    BY <1>1 DEF TypeOK
  <2>4. TypeOK'
    BY <1>1, <2>1, <2>2, <2>3 DEF TypeOK
  <2>5. \A x \in Run : Retired(x) => x < last' /\ x \notin inflight' /\ Quiet(x)
    <3> SUFFICES ASSUME NEW x \in Run, Retired(x)
                 PROVE  x < last' /\ x \notin inflight' /\ Quiet(x)
      OBVIOUS
    <3>1. x < last /\ x \notin inflight /\ x # r
      BY <2>1 DEF Retired
    <3> QED BY <1>1, <2>1, <2>2, <3>1 DEF Quiet
  <2> QED BY <1>1, <2>4, <2>5, SessionStep
<1>5. CASE OutsideWrite
  <2>1. work' \in Work /\ writer' = 0 /\ UNCHANGED <<run, inflight>>
    BY <1>5 DEF OutsideWrite
  <2>2. 0 \in Run
    BY BoundTypes DEF Run
  <2>3. TypeOK'
    BY <1>1, <2>1, <2>2 DEF TypeOK
  <2>4. \A x \in Run : Retired(x) => x < last' /\ x \notin inflight' /\ Quiet(x)
    BY <1>1, <2>1 DEF Retired, Quiet
  <2> QED BY <1>1, <2>3, <2>4, SessionStep
<1> QED BY <1>2, <1>3, <1>4, <1>5

LEMMA TickKeepsInv == ASSUME ReplacementInv, Tick PROVE ReplacementInv'
<1>1. /\ TypeOK /\ now < MaxTime /\ now' = now + 1 /\ now \in Nat /\ last \in Nat
      /\ UNCHANGED <<snap, row, op, ending, moved, run, last, inflight, work, writer,
                     authorised, result>>
  BY StateTypes DEF ReplacementInv, Tick, Typed, session
<1>2. now' \in Time
  BY <1>1, BoundTypes DEF Time
<1>3. TypeOK'
  BY <1>1, <1>2 DEF TypeOK
<1> QED BY <1>1, <1>3, SessionStep DEF Retired, Quiet

-----------------------------------------------------------------------------
(***************************************************************************)
(* Initial states.                                                         *)
(***************************************************************************)
LEMMA NewTaskGood ==
    /\ GoodSnapshot(NewTaskState) /\ NewTaskState.revision = 0
    /\ \A w \in Worker : RegisterOk(NewTaskState, w)
<1>1. Unregistered \in Lease /\ Unregistered.status = "unregistered"
      /\ Unregistered.generation = None
  BY OptionLemma DEF Unregistered, Lease, LeaseStatus
<1> DEFINE ws == [w \in Worker |-> Unregistered]
<1>2. ws \in [Worker -> Lease] /\ \A w \in Worker : ws[w] = Unregistered
  BY <1>1
<1> HIDE DEF ws
<1>3. NewTaskState = MkSnapshot(0, 0, "open", None, None, None, None, ws)
  BY DEF NewTaskState, MkSnapshot, ws
<1>4. NewTaskState \in Snapshot
  BY <1>2, <1>3, OptionLemma DEF Snapshot, MkSnapshot
<1> PICK s : s = NewTaskState
  OBVIOUS
<1>5. /\ s.revision = 0 /\ s.task_status = "open" /\ s.current_worker_id = None
      /\ s.handoff_target_worker_id = None /\ s.handoff_requested_at = None /\ s.workers = ws
  BY <1>3 DEF MkSnapshot
<1>6. Active(s) = {}
  BY <1>1, <1>2, <1>5 DEF Active
<1>7. ValidState(s)
  BY <1>5, <1>6 DEF ValidState, CurrentIsSoleActive, CurrentOwnsGeneration, HandoffWellFormed,
                    CompletedTaskHasNoWorker
<1>8. GenerationsFit(s) /\ \A w \in Worker : RegisterOk(s, w)
  BY <1>1, <1>2, <1>5 DEF GenerationsFit, RegisterOk
<1> QED BY <1>4, <1>5, <1>7, <1>8 DEF GoodSnapshot

\* child-adopt registers and claims in two revisions.
LEMMA AdoptedGood ==
    ASSUME NEW w \in Worker
    PROVE  GoodSnapshot(Adopted(w)) /\ Adopted(w).revision = 2
<1> DEFINE u == Register(NewTaskState, w, 0)
<1> DEFINE t == Claim(u, w, 0, LeaseSeconds)
<1>1. GoodSnapshot(u) /\ Advances(NewTaskState, u)
  BY NewTaskGood, RegisterAdvances
<1>2. u = MkSnapshot(NewTaskState.revision + 1, NewTaskState.generation,
                     NewTaskState.task_status, NewTaskState.current_worker_id,
                     NewTaskState.handoff_target_worker_id, NewTaskState.handoff_requested_at,
                     NewTaskState.completed_at, [NewTaskState.workers EXCEPT ![w] = Candidate(0)])
  BY NewTaskGood, RegisterEquation DEF GoodSnapshot
<1> HIDE DEF u
<1>3. u.revision = 1 /\ u.task_status = "open" /\ u.current_worker_id = None
  BY <1>2 DEF MkSnapshot, NewTaskState
<1>4. u.workers[w].status = "candidate"
  <2>1. u.workers = [NewTaskState.workers EXCEPT ![w] = Candidate(0)]
    BY <1>2 DEF MkSnapshot
  <2>2. NewTaskState.workers \in [Worker -> Lease]
    BY NewTaskGood, LeaseTypes DEF GoodSnapshot
  <2>3. Candidate(0).status = "candidate"
    BY DEF Candidate, Unregistered
  <2> QED BY <2>1, <2>2, <2>3
<1>5. ClaimOk(u, w)
  BY <1>3, <1>4 DEF ClaimOk
<1>6. GoodSnapshot(t) /\ Advances(u, t)
  BY <1>1, <1>5, BoundTypes, ClaimAdvances
<1>7. t.revision = 2
  BY <1>3, <1>6 DEF Advances
<1> QED BY <1>6, <1>7 DEF Adopted, u

LEMMA InitInv == Init => ReplacementInv
<1> SUFFICES ASSUME Init PROVE ReplacementInv
  OBVIOUS
<1>1. SnapFits
  BY AdoptedGood, ReplacementAssumption DEF Init, SnapFits
<1>2. 1 \in Run /\ 0 \in Run /\ 0 \in Work /\ 0 \in Time
  BY BoundTypes DEF Run, Work, Time
<1>3. TypeOK
  BY <1>1, <1>2, UnbornType, IdleType DEF Init, TypeOK, SnapFits, GoodSnapshot
<1>5. OpsFit
  BY IdleFits DEF Init, OpsFit
<1>6. \A a \in Attempt : row[a] = Unborn /\ moved[a] = {}
  BY DEF Init
<1>7. AttemptsFit
  BY <1>6, UnbornType DEF AttemptsFit, AttemptFits
<1>8. FencedFirst /\ NothingIntervened
  BY <1>6 DEF FencedFirst, NothingIntervened
<1> QED BY <1>1, <1>3, <1>5, <1>7, <1>8 DEF ReplacementInv

LEMMA StutterKeepsInv == ASSUME ReplacementInv, UNCHANGED vars PROVE ReplacementInv'
<1>1. /\ TypeOK /\ last \in Nat
      /\ UNCHANGED <<snap, row, op, ending, moved, run, last, inflight, work, writer, now,
                     authorised, result>>
  BY StateTypes DEF ReplacementInv, vars, Typed
<1>2. TypeOK'
  BY <1>1 DEF TypeOK
<1> QED BY <1>1, <1>2, SessionStep DEF Retired, Quiet

LEMMA NextKeepsInv == ReplacementInv /\ [Next]_vars => ReplacementInv'
<1> SUFFICES ASSUME ReplacementInv, [Next]_vars PROVE ReplacementInv'
  OBVIOUS
<1>1. CASE UNCHANGED vars
  BY <1>1, StutterKeepsInv
<1>2. ASSUME NEW p \in Op,
             \/ \E c \in Worker : ArmCommand(p, c)
             \/ \E a \in Attempt : SubmitCommand(p, a)
             \/ \E a \in Attempt, r \in Run : CompleteCommand(p, a, r)
             \/ ArmWorkspace(p) \/ Arm(p) \/ Record(p) \/ Submit(p)
             \/ CompleteWorkspace(p) \/ Complete(p) \/ Reconcile(p) \/ Finish(p)
             \/ MoveByClaim(p) \/ MoveByTakeover(p) \/ Abandon(p) \/ Crash(p)
      PROVE  ReplacementInv'
  BY <1>2, ArmCommandKeepsInv, SubmitCommandKeepsInv, CompleteCommandKeepsInv,
     ArmWorkspaceKeepsInv, ArmKeepsInv, RecordKeepsInv, SubmitKeepsInv,
     CompleteWorkspaceKeepsInv, CompleteKeepsInv, WriteOutcomeKeepsInv, MovesKeepInv,
     CrashKeepsInv
<1>3. ASSUME NEW w \in Worker,
             \/ RegisterCandidate(w) \/ AdoptClaim(w) \/ Renew(w)
             \/ \E c \in Worker : RequestHandoffTo(w, c)
      PROVE  ReplacementInv'
  BY <1>3, OthersKeepInv
<1>4. CASE ChildCompleteLoad \/ ChildCompleteEnd \/ ChildCompleteTask \/ ChildCompleteStops
  BY <1>4, ChildCompleteLoadKeepsInv, ChildCompleteEndKeepsInv, ChildCompleteTaskKeepsInv,
     ChildCompleteStopsKeepsInv
<1>5. CASE \/ \E a \in Attempt : TakeoverCall(a)
           \/ \E r \in Run : CallFinishes(r)
           \/ OtherResume \/ RunEnds \/ CallStarts \/ OutsideWrite \/ Tick
  BY <1>5, NewRunKeepsInv, CallsKeepInv, TickKeepsInv
<1> QED BY <1>1, <1>2, <1>3, <1>4, <1>5 DEF Next

-----------------------------------------------------------------------------
(***************************************************************************)
(* The theorems.                                                           *)
(***************************************************************************)
\* The inductive invariant holds in every reachable state.
THEOREM ReplacementInvariant == Spec => []ReplacementInv
BY InitInv, NextKeepsInv, PTL DEF Spec

\* The variables of the replacement model keep their types: in particular an armed row records
\* a workspace fingerprint and a run, never a failed observation.
THEOREM ReplacementTypes == Spec => []TypeOK
<1>1. ReplacementInv => TypeOK
  BY DEF ReplacementInv
<1> QED BY <1>1, ReplacementInvariant, PTL

\* complete_replacement moves the worker lease only once the run seen at arming has been
\* superseded.
THEOREM MovesAreFenced == Spec => []FencedFirst
<1>1. ReplacementInv => FencedFirst
  BY DEF ReplacementInv
<1> QED BY <1>1, ReplacementInvariant, PTL

\* Once complete_replacement has moved the lease, a Git fingerprint of the workspace made by a
\* call of the old run is the one recorded at arming, and it stays so: what the old run left
\* there to see was there when the replacement was armed.
THEOREM NoVisibleWorkLost == Spec => []NoVisibleWorkOverlooked
<1>1. ReplacementInv => NoVisibleWorkOverlooked
  BY DEF ReplacementInv, NoVisibleWorkOverlooked, AttemptsFit, AttemptFits
<1> QED BY <1>1, ReplacementInvariant, PTL

\* The lease moves from the protocol revision recorded at arming, or from the one its own
\* abandonment made, and from no other.
THEOREM NoInterveningMove == Spec => []NothingIntervened
<1>1. ReplacementInv => NothingIntervened
  BY DEF ReplacementInv
<1> QED BY <1>1, ReplacementInvariant, PTL

\* A COMPLETED attempt's candidate has been granted a generation newer than the one it
\* replaced, whatever crashed between the move and its record.
THEOREM CompletionIsNewer == Spec => []CompletedGrantsNewer
<1>1. ReplacementInv => CompletedGrantsNewer
  BY DEF ReplacementInv, CompletedGrantsNewer, AttemptsFit, AttemptFits, Newer
<1> QED BY <1>1, ReplacementInvariant, PTL
=============================================================================
