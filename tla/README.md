# A TLA+ verification project for LocalShell Web Supervisor

LocalShell Web Supervisor (LWS, `src/src/lws/`) supervises long-running browser
conversations.  Its central rule: *a web conversation is a replaceable worker
lease; the durable task is not the conversation.*  Everything durable is in a
SQLite registry (and, for the prompt queue, a database of its own) that several
processes share without any other coordination: CLI commands, the resident watchdog,
the chat worker, child batch helpers.  This project models the
parts of LWS whose correctness depends on the order in which those processes
read, decide, write, send and crash.

## 1. Inventory

| component (source) | state | operations | what is hard |
|---|---|---|---|
| worker protocol (`worker_protocol.py`) | task snapshot: revision, generation, holder, handoff, leases | register, claim, heartbeat, handoff, takeover, complete, abandon, complete task | late messages of fenced workers, clock rollback, expiry at the boundary |
| its persistence (`worker_persistence.py`, `Registry.protocol_*`) | protocol tables, the canonical `tasks`/`workers` rows they mirror, event log, window bindings | bootstrap, load, apply | a load is two SELECTs outside a transaction; a mirror that diverges locks the task out of its loader |
| action attempts (`registry.py`, `actions.py`, `action_runtime.py`, `dispatch_runtime.py`) | write-ahead rows, recovery budget | arm, submit, mark, acknowledge, sign, cancel | the send is outside the database; marks are read-then-update; crashes between any two steps |
| watchdog lease (`registry.py`, `watchdog_host.py`, `cli.py watch`) | one lease row, its stop fence | acquire, keepalive, release, stop, start, restart | a fenced process that is still alive, two commands sharing a fence, expiry |
| replacement workers (`replacement.py`) | replacement attempts, with the LSM run, Git state and protocol revision they were armed on | arm, submit, complete | three systems (registry, LSM, protocol) change in separate transactions; work in flight across the takeover |
| child spawn and batch (`child_spawn.py`, `child_batch.py`) | child dispatches, spawn attempts, the page pool derived from them | create, arm, open or recycle, bind, send, send again, adopt, reconcile, sweep, complete | ambiguous opens and sends, replays after a crash, a pool counted before it is used |
| chat dispatch (`chat_dispatch.py`) | its own database: jobs, conversations, pages, its worker's lease | enqueue, cancel, open, bind, send, reconcile, acknowledge, close, exit | decisions on rows listed earlier, ambiguous opens and sends, the user moving windows, a worker that dies or stays for ever |
| probe windows (`page_runtime.py`, `probe_ops.py`, `browser_pool.py`) | probe operations, the one slot | plan, arm, authorize, close, open, complete, fail, reconcile | close-then-open with two ambiguous outcomes, evidence applied later than it was gathered |
| classification and planning (`watcher.py`, `recovery.py`, `dispatcher.py`, `timeout_recovery.py`, `overrun_continuation.py`, `reconcile.py`) | none (pure), the reconciliation fence | assess, recommend, plan, gate | stale evidence between observation and send |
| orchestration (`orchestration*.py`, `orchestrator.py`, `lifecycle.py`, `capabilities.py`) | none (pure) | evaluate, plan | fairness keys, backoff, limits |
| adapters and observation (`uia*.py`, `browser.py`, `cdp.py`, `lsm.py`, `workspace.py`, `ram.py`) | none | read-only probes, the UIA send | pure I/O |

`PROJECT.json` lists the hazards, each at the line where it bites.  The code is fail-closed,
so several of its hard cases end in a state that only a person resolves; nothing eventual is
promised there and none is checked: an action attempt of a superseded worker, a chat job
behind an unresolved one or in a page that was lost, a recycled page whose navigation was
refused after its authority was recorded, a replacement that met any other protocol
transition, a probe launch that never showed a window.

## 2. Modules

```
WorkerProtocol ── LegacyMirror ── ProtocolStore ── MCProtocolStore
                                       │  implements WorkerAuthority
WatchdogLease ── MCWatchdogLease       ├─ ProtocolStoreProofs
   └─ WatchdogLeaseProofs              └─ (WorkerProtocolProofs)
ActionAttempt ── MCActionAttempt
   └─ ActionAttemptProofs
ChatDispatch ── MCChatDispatch
   └─ ChatDispatchProofs
ChildSpawn ── MCChildSpawn      (instantiates WorkerProtocol per child)
   └─ ChildSpawnProofs          (with WorkerProtocolProofs)
Replacement ── MCReplacement    (extends WorkerProtocol)
   └─ ReplacementProofs         (with WorkerProtocolProofs)
Probe ── MCProbe
   └─ ProbeProofs
```

**WorkerProtocol** has no variables.  It is the pure core: the record of a task,
`validate_state` (`ValidState`), `takeover_eligibility`, and for each transition its
guard (`...Ok`) and its result.  Lineage fields and texts are left out: no
transition reads or changes them.

**LegacyMirror** is what `worker_persistence.py` does to the pre-protocol rows: the
snapshot bootstrap builds from them, the row each transition writes back, and the
check every load makes.

**ProtocolStore** is one task's store and the processes using it.  A process loads
(`LoadTaskRow`, `LoadLeaseRows`: two SELECTs, another process may commit between
them), holds the view as long as it likes, and applies a transition with the
revision it saw.  The transition is one step, because the code runs it under
`BEGIN IMMEDIATE`.  The time of a transition is any member of `Times` at any step:
skewed and receding clocks are part of the model.  `bind_worker_window` is two
steps, as in the code.

**WorkerAuthority** is the abstract specification: somebody may be granted, hand
over or give up authority, an epoch counts the grants, whoever has lost authority
is retired for good.

**WatchdogLease** is the singleton lease row, the `lws watch` processes and the
`watchdog-*` commands.  A pid and its owner token are one model value; time is the
part of the lease that is left, counted down by `Tick`.

**ActionAttempt** is the write-ahead record of sends for one task: executors that
check, arm, submit and mark; clerks that acknowledge or cancel; and a conversation
that shows an invoked send at any later time, or never.  Arming is one transaction;
every later change is a read-and-check step and a write step.

**ChatDispatch** is the prompt queue with its own database.  A worker process walks
through `run_once`: the rows it listed (`todo`, with the state and URL they had then),
the page it found, opened or borrowed, the write-ahead `OPENING` and `SUBMITTING`, the
outcome of the send, reconciliation, idle closing, `should_exit`.  The steps of one
job are the values of `me[w].step`, in the order of the code.  Chrome and its user are
the environment: a launched window appears at any later time or never, a prompt
likewise, and the user opens, navigates and closes windows.  Every probe of a window
may fail.  What a window shows is a place (an existing conversation, the conversation
a job created, a tagged project root), which is all that URL matching tells apart.
Deadlines (`next_attempt_at`, the reconcile hold, `close_after_at`, the lease) are
flags that `Expire...` clears.

**ChildSpawn** is the life of child tasks from `create_child_dispatch` to
`complete_child_dispatch`.  An operator process runs one of the `child-*` commands or
`child-dispatch-batch`; `op[o].pc` is where it is, and the steps after a command are those
of `execute_child_spawn_open`, `execute_child_spawn_prompt` and
`_complete_from_bound_conversation` in the order of the code, each registry write a step of
its own.  The child's worker protocol is `WorkerProtocol`, instantiated per child.  A window
shows the tagged project root of an attempt, the conversation that attempt created, or
something else; with it goes whether the prompt is a draft, sent or consumed.  Everything
that can go wrong outside the registry (refusals, helpers that die half way, timeouts, the
rate limit, crashes, a user, a Send that only creates the conversation) is a member of the
constant `Faults`.  Conversation 0 stands for one adopted by hand (`child-adopt`).  Two
observations are exact in the model and not quite in the code: reconciliation adopts the
attempt's own conversation (the code whatever conversation of the project the bound window
shows), and a prompt counts as consumed when it is (the code also when the composer cannot
be found).

**Replacement** is one durable child whose conversation is to be replaced: the attempt row,
the worker protocol, the Local Shell session (the active run, calls in flight, whose call
changed the workspace last) and operators whose commands observe LSM and the workspace one
after the other and then decide.  The workspace is what the code can see of it, a fingerprint
made of HEAD and a hash of `git status --porcelain`: a write may leave it unchanged, may bring
an earlier one back, and outside a Git repository it never changes.  A call counts as in flight
as LSM counts it; what a job nobody tracks or a call without heartbeats writes is
`OutsideWrite`.  `complete_replacement` is taken apart into its claim, takeover,
abandon-then-claim and final write.  Meanwhile the worker renews, asks for a handoff, more
candidates register, and `child-complete` runs, in its three writes.

**Probe** is the single probe window: the slot row, the write-ahead operations and their
`decide_probe_reconciliation`, and the transport that may close or launch only with a
recorded authority.  Only `probe-reconcile` is a command; the rest of the interface has no
caller but the tests yet, and a driver is any process using it in the way its preconditions
allow.  A REUSE is three steps, as in the code: the plan from the slot that was read, the
search for its window, and `bind_probe_window_slot`, which writes the slot planned from over
whatever the row is by then.  `forgotten` is a history variable: the operations whose window
lost its record that way, by a fail that came late, or by `clear_probe_window_slot`.

## 3. Runs

| run | instance | what it shows |
|---|---|---|
| `store` | 1 process, 3 conversations, clocks {0,1}, leases of 1 or 2, 6 revisions; or 2 processes (one also binds windows), 2 conversations, 4 revisions | the snapshot stays valid and the mirror loadable; the log shows no fenced generation acting again, names the holder, never goes back in time within a generation, and every handoff was requested; the revision alone vouches for a view, torn ones included, and only current views commit; no window binding passes into a later lease; refinement of WorkerAuthority |
| `watchdog` | 3 hosts, 2 commands, Ttl = Grace = 2, fair | at most one late control step, no way back for a fenced watchdog, fences outlive the process they fence; a stop leads to exit, abandoned leases and fences free themselves |
| `actions` | 2 executors, 2 clerks, 2 attempts, budget 1 | never two uncertain sends, verdicts are true, sends within budget |
| `chat_queue` | new conversation, 2 jobs, 2 windows, a worker and its successor | one worker acts at a time, no prompt is sent and no window opened twice, one page in use per key, prompts go out in order |
| `chat_windows` | an existing and a new conversation, 2 jobs, 1 window, 1 worker, pool of 1, fair | a prompt reaches no conversation but its own, no window is closed over a prompt that may be in it, a drained worker exits |
| `chat_cancel` | as `chat_queue` | *violation*: a cancelled job's prompt was sent |
| `spawn_child` | 1 child, 2 attempts, 2 windows, 1 operator, every fault, fair | a prompt is delivered at most once, Send is never invoked beyond what was recorded first, reconciling completes every attempt whose conversation is on show with the prompt consumed |
| `spawn_batch` | 2 children, 2 windows, a pool of 1, 1 operator beside `child-complete` | no page is taken from a child that needs it, no window is opened while the pages the pool could see fill it |
| `spawn_pool` | 2 children, 2 windows, a pool of 1, no faults | *violation*: one dispatcher page more than `--max-windows` |
| `spawn_route` | 1 child | *violation*: reconciliation completes a spawn whose prompt is still a draft |
| `replacement` | 2 conversations, 1 attempt, 1 operator, 2 LSM runs, evidence that ages; 5 revisions, or 2 fingerprints and 4 revisions | the lease moves only after the old run is fenced, with no visible change of it overlooked, from the state armed on; COMPLETED means a newer grant |
| `probe` | 2 workers, 2 windows, 2 operations, 1 refresh, 2 drivers | one launch per operation; but for windows struck from the record, one probe window at most, and on record |

*Bounds.*  Three conversations are the least number for a takeover of a worker that
itself took over; two clock readings and lease lengths 1 and 2 give fresh, expired
and just-expired leases and a clock that goes back; six revisions reach
register–claim–register–handoff–takeover–complete.  `store` and `replacement` each join
two instances by a CONSTRAINT of the MC module.  Two processes suffice for every stale or torn view (a third only adds more of the same, and the theorems cover any
number).  Ttl and Grace of 2 allow expiry before, during and after a keepalive.
Two attempts with two executors and two clerks give every overlap of two writers on
one row and on two.  Two jobs give an older and a younger prompt of one conversation,
or one of each of two; two windows a lost and a new page, or the user's and the
dispatcher's; two workers a crash and its recovery.  Counters of launches and sends
stop at 2, one more than is allowed.  Two spawn attempts give a retry after a failed one, two
children a page to recycle and a child that wants it.  In `replacement` five revisions reach
register, claim, register and both steps of the move with one interfering transition in
between; the second run is the takeover's or another resume's, and evidence of age 0 or 1 is
fresh or stale.  Two fingerprints are enough to change it and to bring it back; once the workspace has
changed the run gives up the fifth revision and `child-complete`, which `NoVisibleWorkOverlooked`
does not need (it is about what happens between the observations).  Two probe operations are an OPEN and the ROTATE or
CLOSE after it, or two OPENs; two windows are the old and the new one, or a window and its
duplicate; one refresh is a bind in time or a late one.  Symmetry is used only in runs without liveness properties.

*Deadlock* is not checked: a closed task, a watchdog nobody restarts and a settled
attempt are legitimate ends.

*Fairness* is assumed in `watchdog`, `chat_windows` and `spawn_child`: a living watch loop comes back to its
keepalive (the loop has no unbounded wait except its finite `--interval` sleep) and
time passes; a chat worker takes its next step (every browser call has a timeout),
its deadlines pass, and a `cancel` that has read its row goes on to its UPDATE.
In `spawn_child` the operator repeats `child-spawn-reconcile`, as `docs/CHILD_SCHEDULER.md`
tells them to (strong fairness of the command), a started command takes its next step (every
helper has a timeout), and a command that is repeated for ever gets past each of its four
adoption steps at some time, however often it crashes before (strong fairness of each).
Starting, stopping, crashing, launching, delivering and enqueueing are never assumed.

## 4. What the violations say

The violation runs each refute one sentence of the repository (quoted in
`PROJECT.json`).

* `chat_cancel`: `cancel` checks a state that the chat worker may have left by the time of
  its UPDATE.
* `spawn_route`: `child-spawn-reconcile` completes an attempt on the conversation route alone,
  which the scheduler's own documentation calls insufficient; the live send path does ask for
  the prompt to be consumed.
* `spawn_pool`: `child-complete` ends the worker, and with it the window binding, before it
  sets the task row to COMPLETED.  In between the child's page is neither one of a bound worker
  nor one of a terminal child, the pool does not count it, and a batch running beside it opens
  one page too many.  A replay of `child-complete` brings the page back into the count.

`NewWindowsWithinPool` says what holds nevertheless: that gap is the only one, and a window is
opened only while the pages outside it do not fill the pool.

The probe interface has two such gaps, both without a caller but the tests so far.
`bind_probe_window_slot` does not compare the row it overwrites with the one the reuse was
planned from: after a rotation by another process the slot names the old window again, the new
window is on no record, and a CLOSE and an OPEN later there are two probe windows.
`fail_probe_mutation_operation` reads ARMED and saves FAILED without a transaction, over an
authority granted in between, so Chrome is launched for a FAILED operation.  Both are actions of
the model.  `OneRecordedProbe` and `ProbesAreTracked` leave out the windows that lost their
record so, or by `clear_probe_window_slot`, which is meant to forget: the damage stays with them.

A third is in the store: a worker that ends between the two statements of `bind_worker_window`
keeps a window binding, although `docs/ACTIONS.md` says bindings are cleared then.  It goes with
the next commit or its own expiry, no send trusts it unverified, and no later lease inherits it
(`LeasesStartUnbound`).

Other behaviours that a reader of the documentation would not expect are part of the
models, and the checked properties hold with them: a watchdog
slower than the grace of its stop fence is replaced while its process is alive, and takes at
most one late step (`LateActsBounded`); an executor's late mark puts an acknowledged action
back to SUBMITTED without a second send (`NoAutomaticDuplicate`); a chat key can be bound to
a project root by a refused send, and `open_existing` owns whatever window shows up first,
without a prompt going out twice, out of order or to another conversation (`chat_queue`,
`chat_windows`); a crash between abandoning the old worker and claiming for the candidate
leaves a replacement that no command can finish, but never two holders
(`CompletedGrantsNewer`, `NothingIntervened`); an edit of a file that is already dirty passes
the comparison of the workspace unseen (`NoVisibleWorkOverlooked` is about the rest).

## 5. Proofs

All theorems hold for every value of the constants: any number of processes, jobs,
windows, conversations and attempts.  They rest on the named assumptions of the modules,
and on nothing else:

| assumption | says |
|---|---|
| `StoreAssumption`, `WorkerAssumption`, `ActionAssumption`, `WatchdogAssumption`, `NoneIsNoLease` | types of the bounds; `None` is no member of the other sets |
| `ChatAssumption` | types of the bounds; keys with and without a conversation URL are disjoint; `None` is no key, window, worker, place or lease |
| `ReplacementAssumption` | types of the bounds; the revision bound admits the registered and claimed worker that Init starts from |
| `SpawnAssumption` | types of the bounds; finitely many children, numbered, and windows; `None` is none of the values it stands beside |
| `ProbeAssumption` | types of the bounds; finitely many windows; `None` is none of the values it stands beside |

The runs evaluate each of them, so all are satisfiable.  None of the invariants below is
inductive as the runs state it; what each needs in addition is the point of its proof.

* **Store.**  `StoreInv` is `TypeOK`, `SnapshotValid`, `MirrorConsistent` and the view
  invariant: every view and every half-done read carries a revision not above the
  stored one, a view with the stored revision *is* the stored snapshot, and a
  half-done read with the stored revision has the stored task row.  The last part is what makes a torn read
  harmless: the task row, which carries the revision, is read *first*, so a commit
  in between leaves an old revision on the view.  `WorkerProtocolProofs` has one
  equation and one preservation lemma per transition; `ProtocolStoreProofs` lifts them through
  `Commit` to the invariant, the commit rule (`OnlyCurrentViewsCommit`) and the refinement
  (`StoreImplementsAuthority`).  `NoInheritedBinding` adds `BindInv`: whoever has a window
  binding, or is in the middle of being given one, serves or has served, and no transition turns
  such a worker back into a candidate.
* **Event log.**  `FencedForever` needs `LogInv`: every end event names a retired worker
  and a generation below the next grant.  `TruthfulLog` adds that the renewals of the
  holder's generation are not later than its stored heartbeat, and that a pending handoff
  is the last one requested in the log, by the holder and for its target.
* **Watchdog.**  `WatchdogInv` ties a late step to a host that is no longer the owner
  and has not passed a keepalive since, and a fence to the pid its waiters watch.
* **Actions.**  `ActionInv` says which row a process in the middle of a step may still write and
  that an uncertain send always has an unresolved row, which the arming transaction
  and the unique index then keep unique.  `BudgetInv` relates charged rows to
  `recovery_attempts` by cardinality.
* **Chat dispatch** (`ChatInv`).  The worker decides on rows it listed earlier, so the proof
  is about what those rows are still worth.  (1) Only the lease owner is past
  `acquire_lease`, hence nobody but clients and the browser acts beside a busy worker.
  (2) `SettledFirst`: once a job has been begun, every older job of its conversation is
  `Closed`, that is not pending *and* in no worker's list or hand.  The second half makes it
  stable: a settled job that a stale list still contained could be written again.  FIFO order
  is `SettledFirst` at the send.  (3) A listed row may be stale, but not in a way that
  repeats an effect: if something may have been sent, the row says so (`RowFits`), and the
  state machine says so (`JobFits`); the same for launches and `OPENING`.  A cancellation
  can only move a job to `CANCELLED`, which the worker's later writes override.
  (4) `OneConversation`: the conversation row, the jobs and the pages in use of a key never
  name two different chats.  A refused first send may bind the key to a project root, which
  is why the invariant speaks of chats and not of URLs.  With the window check before the send
  it gives `RightConversation`.  (5) While a window is looked for, the key has no page in use
  (`PageFits`), which gives `OnePage`; a page about to be closed has no job in doubt, and no
  job can get there before the close because the closing worker is the only one that sends.
* **Replacement** (`ReplacementInv`).  An observation of a later run with no call in flight
  proves the old run `Retired`, which no step undoes; a fingerprint read *after* that
  observation is therefore the last word on what the old run visibly wrote
  (`NoVisibleWorkLost`).  `OpFits` carries this
  from the two observations to the move, together with the revision that ties the move to
  the state armed on.  The transitions of the worker protocol advance the revision by one
  and take no generation back (`Advances`).
* **Probe** (`ProbeInv`).  `OneRecordedProbe` speaks of windows only.  The invariant says what
  an operation's record, a driver's position and the evidence it holds prove about them: a
  tag is launched at most once, and a tag is `Settled` (its window has loaded and is known)
  or `Quiet` (none of its windows is a probe any more), both stable facts.  A ROTATE reaches
  `OPEN_SUBMITTED` only over a quiet old window, also when a failure is recorded late without
  a transaction.  A late bind makes the slot name a tag that is settled or quiet already, so it
  loses the record of the window it overwrites (`forgotten`) and disturbs nothing else.
* **Child spawn.**  `SpawnInv` is `TypeOK` with what each process relies on between its steps
  (`Fits`, `CompleterFits`): the row it works on was born, has a window once it was bound, and
  the page it is going to navigate belongs to a child that is completed or has a session.  The
  shared state only moves forward (`Forward`), so what was checked when the pool was looked at
  is still true when the page is navigated; that is `PageKept`, for any number of operators.
  `SendInv` adds why a prompt is delivered once.  (1) A child has at most one attempt that is
  neither unborn nor FAILED: arming asks for no unresolved row and no registered worker, and a
  COMPLETED row has a registered worker, because adoption registers before it completes.
  (2) Once Send was invoked the row can never become FAILED or be armed anew (`SentRows`).
  (3) A child has at most one window in which its prompt could still be consumed, and none after
  it was (`LiveWindows`).  (4) Between the authority and the click nobody else moves the row
  (`Owns`).  The last part is where two operators in one attempt would interfere: the writes
  accept the state they find, so both could click.  The theorems therefore assume `Apart`, no
  two operators inside the same child at the same time, and say nothing about how many there
  are; `OneOperator` discharges it for a single process, which may crash and be started again.
  `PoolInv` adds why the pool, counted from registry rows three steps before the launch, still
  bounds the windows.  (1) An attempt is on show only after its authority was recorded, in one
  window, and its row has that window or none (`ShownRows`, `OneWindow`, `RowWindow`).  (2) While
  a batch runs, no outcome is unknown but the one of its own attempt (`BatchSafe`): nothing else
  can be on show without a window in its row.  (3) The page of a completed attempt whose record
  is not consumed is bound to the child's current worker, or that worker has ended (`PagesHeld`);
  a page whose record is consumed is gone (`ConsumedGone`); and of several records for one window
  the newest is the one that is looked at (`InOrder`).  So the pool counts every dispatcher page
  except those of children whose worker has ended and whose task row does not say COMPLETED yet
  (`missed`, taken at the count).  (4) After the count only `Calm` steps happen, which show no
  attempt anew and keep an ended worker ended, until the launch itself.  (3) is delicate where a
  page changes hands: it is navigated first, its record is marked next and it is unbound last, and
  in between the former owner still holds a window that no longer shows it (`SeesSource`).
  `WindowsWithinPool` is about one operator
  process that opens windows through the batch: `child-spawn-open` does not ask the pool, and
  two batches would count before either has opened.

Each inductive invariant was checked with TLC on the instances of the runs before it was
proved (`ChatInv` also with three jobs and two workers).

Only model-checked: the liveness properties (fairness and ENABLED are out of the prover's
reach).  The type invariants of `WatchdogLease` and `ActionAttempt` are conjuncts of `WatchdogInv` and
`ActionInv` and left to the proofs.  The properties of the violation
runs are refuted, not proved (section 4).

## 6. Not modelled, and why

* Parsing of accessibility trees, network events, Git, LSM files and evidence files is
  read-only I/O; the models take what it returns, or its failure, as a choice.
* Classification and planning (`watcher.py`, `recovery.py`, `timeout_recovery.py`,
  `overrun_continuation.py`, ...) are pure functions of one observation.  `ActionAttempt`
  lets a plan be made whenever the registry's own checks allow it, so its properties do not
  depend on what the planners decide.  Orchestration is advisory: nothing that sends or
  opens consults it.
* `PagePool` of `browser_pool.py` has no caller.  The migration of an old registry happens
  once per installation; its races are in the hazard list.
* Two operators working on the *same* spawn or replacement attempt: the read-then-update
  writes do not exclude each other, and the documentation has one operator.  The runs keep
  to that, the theorems about spawns assume it (`Apart`), and the hazard list says what would
  go wrong.
* Pid reuse and SQLite's own crash recovery belong to the operating system and to SQLite.
  Prompts, payloads and texts carry no control.

## 7. Plan

1. The legacy writers (`update_state`, `add_worker`, `set_worker_status`) racing
   `bootstrap_worker_protocol`.
2. The resident recovery cycles: which evidence a send rests on when it happens.
