----------------------------- MODULE ChildSpawn -----------------------------
(***************************************************************************)
(* Child tasks and the browser windows that start them: the child_dispatch *)
(* and child_spawn_attempts rows of src/lws/registry.py, the write-ahead   *)
(* spawn of src/lws/child_spawn.py, the bounded window pool of             *)
(* src/lws/child_batch.py and the child-* commands of src/lws/cli.py.      *)
(*                                                                         *)
(* An operator is one CLI process; its pc names the durable write or the   *)
(* browser action it performs next, so a crash can fall between any two.   *)
(* The worker protocol of a child is WorkerProtocol itself.  A spawn       *)
(* attempt <<c, n>> also names the owner tag in its project-root URL and   *)
(* the conversation its prompt creates; <<c, 0>> is a conversation the     *)
(* operator opened by hand and adopts.  A window stands for an HWND, PID   *)
(* and executable; Chrome may give a closed window's handle to a new one.  *)
(*                                                                         *)
(* Abstractions: a registry update (its read, transition check and write)  *)
(* is one step, and so is a protocol transition; updated_at is the order   *)
(* in which the completed records were last written; a lease granted at 0  *)
(* has expired at 1; a user closes a window or leads it out of the         *)
(* project, but not to another conversation of the same project; whatever  *)
(* conversation a bound window shows, the adoption registers the attempt's *)
(* own worker id, and which URL it stores beside it is left out; the       *)
(* composer is always found, so that delivery evidence is exact.           *)
(***************************************************************************)
EXTENDS Naturals, FiniteSets, FiniteSetsExt

CONSTANTS
    Child,         \* child tasks, numbered in creation order
    Window,        \* normal-Chrome top-level windows
    Op,            \* operator processes
    None,
    MaxAttempts,   \* bound on the spawn attempts of one child
    MaxWindows,    \* --max-windows
    Commands,      \* the commands operators run
    Faults         \* what may go wrong

AllCommands == {"batch", "arm", "open", "send", "reconcile", "adopt"}
AllFaults == {"crash", "refused", "ambiguous", "limit", "timeout", "route", "user"}

ASSUME SpawnAssumption ==
    /\ Child \subseteq Nat \ {0} /\ IsFiniteSet(Child)
    /\ MaxAttempts \in Nat \ {0} /\ MaxWindows \in 1 .. 16
    /\ Commands \subseteq AllCommands /\ Faults \subseteq AllFaults
    /\ IsFiniteSet(Window) /\ None \notin Window \cup Nat

Conv == 0 .. MaxAttempts
Attempt == Child \X (1 .. MaxAttempts)
P == INSTANCE WorkerProtocol WITH Worker <- Conv

VARIABLES
    task,        \* tasks.state: "absent" before child-create
    proto,       \* the worker-protocol snapshot of each child
    lsm,         \* whether tasks.lsm_session_id is bound
    spawn,       \* the child_spawn_attempts rows
    older,       \* the pairs of COMPLETED rows, the one with the earlier updated_at first
    binding,     \* the worker_window_bindings row of a child's current worker
    cooldown,    \* whether the web_child_dispatch cooldown is running
    page,        \* what each window shows
    op,          \* where each operator process is
    cpl,         \* where the child-complete process of each child is
    sends,       \* history: Send invocations per attempt
    delivered    \* history: how often a child's prompt was consumed

vars == <<task, proto, lsm, spawn, older, binding, cooldown, page, op, cpl, sends, delivered>>

-----------------------------------------------------------------------------
(***************************************************************************)
(* Spawn rows and their transitions.                                       *)
(***************************************************************************)
Ambiguous == {"WINDOW_OPEN_SUBMITTED", "PROMPT_SUBMITTED", "RECONCILE_REQUIRED"}
Unresolved == {"ARMED", "WINDOW_BOUND"} \cup Ambiguous
SpawnState == {"unborn", "COMPLETED", "FAILED"} \cup Unresolved

Row == [state : SpawnState, win : Window \cup {None}, second : BOOLEAN,
        consumed : {"no", "recycled", "closed"}]
Unborn == [state |-> "unborn", win |-> None, second |-> FALSE, consumed |-> "no"]
Armed == [Unborn EXCEPT !.state = "ARMED"]

\* A plausible bug: a reconciled outcome cannot be completed.
Allowed_NoCompletion(state) ==
    CASE state = "ARMED" -> {"WINDOW_OPEN_SUBMITTED", "FAILED"}
      [] state = "WINDOW_OPEN_SUBMITTED" -> {"WINDOW_BOUND", "RECONCILE_REQUIRED", "FAILED"}
      [] state = "WINDOW_BOUND" -> {"PROMPT_SUBMITTED", "RECONCILE_REQUIRED", "FAILED"}
      [] state = "PROMPT_SUBMITTED" -> {"WINDOW_BOUND", "COMPLETED", "RECONCILE_REQUIRED"}
      [] state = "RECONCILE_REQUIRED" -> {"WINDOW_BOUND"}
      [] OTHER -> {}

Allowed(state) ==
    CASE state = "ARMED" -> {"WINDOW_OPEN_SUBMITTED", "FAILED"}
      [] state = "WINDOW_OPEN_SUBMITTED" -> {"WINDOW_BOUND", "RECONCILE_REQUIRED", "FAILED"}
      [] state = "WINDOW_BOUND" -> {"PROMPT_SUBMITTED", "RECONCILE_REQUIRED", "FAILED"}
      [] state = "PROMPT_SUBMITTED" -> {"WINDOW_BOUND", "COMPLETED", "RECONCILE_REQUIRED"}
      [] state = "RECONCILE_REQUIRED" -> {"WINDOW_BOUND", "COMPLETED"}
      [] OTHER -> {}

\* update_child_spawn_attempt: a write of the same state always passes.
UpdateOk(a, state) == state = spawn[a].state \/ state \in Allowed(spawn[a].state)

Completed == {a \in Attempt : spawn[a].state = "COMPLETED"}

\* The written row is the newest one.
Update(a, row) ==
    /\ spawn' = [spawn EXCEPT ![a] = row]
    /\ older' = IF row.state = "COMPLETED"
                THEN {p \in older : p[1] # a} \cup (Completed \ {a}) \X {a} ELSE older

\* A plausible bug: the index and the query forget an outcome that must be reconciled.
UnresolvedOf_ForgetsReconcile(c) ==
    {a \in Attempt : a[1] = c /\ spawn[a].state \in Unresolved \ {"RECONCILE_REQUIRED"}}

UnresolvedOf(c) == {a \in Attempt : a[1] = c /\ spawn[a].state \in Unresolved}
AmbiguousOf(c) == {a \in UnresolvedOf(c) : spawn[a].state \in Ambiguous}
Existing == {c \in Child : task[c] # "absent"}

-----------------------------------------------------------------------------
(***************************************************************************)
(* Windows.                                                                *)
(***************************************************************************)
Absent == [kind |-> "absent", of |-> None, text |-> "none"]
Elsewhere == [kind |-> "elsewhere", of |-> None, text |-> "none"]
\* The project root tagged with a, and the conversation of a, with the state of the prompt:
\* not typed, typed and send-ready, sent but not settled, or consumed.
Root(a, text) == [kind |-> "root", of |-> a, text |-> text]
Chat(a, text) == [kind |-> "chat", of |-> a, text |-> text]
Pages == {Absent, Elsewhere} \cup {Root(a, t) : a \in Attempt, t \in {"none", "draft", "sent"}}
            \cup {Chat(a, t) : a \in Attempt, t \in {"draft", "sent", "consumed"}}

IsRoot(w, a) == page[w].kind = "root" /\ page[w].of = a
IsChat(w, a) == page[w].kind = "chat" /\ page[w].of = a
Show(w, p) == page' = [page EXCEPT ![w] = p]

\* What the windows tell: which of them show the tagged root of a, what the window bound to
\* a shows, and whether the prompt in it was consumed or is still a send-ready draft.
TaggedWindows(a) == {w \in Window : IsRoot(w, a)}
BoundPage(a) == page[spawn[a].win]
Consumed(p) == p.kind = "chat" /\ p.text = "consumed"
DraftReady(p) == p.kind = "chat" /\ p.text = "draft"

\* What the helpers do to an exact window: navigate, close, and invoke Send.  Whether the
\* page consumed the prompt shows later (Settle).
Navigate(w, a) == Show(w, Root(a, "none"))
Close(w) == Show(w, Absent)
Invoke(w, a) == Show(w, [page[w] EXCEPT !.text = "sent"]) /\ sends' = [sends EXCEPT ![a] = @ + 1]

-----------------------------------------------------------------------------
(***************************************************************************)
(* The pool: which windows count, and whose page may be navigated away.    *)
(* A terminal child has no current worker, so its page is found through    *)
(* the newest unconsumed COMPLETED spawn of the window.                    *)
(***************************************************************************)
Current(c) == proto[c].current_worker_id
HasPage(c) == Current(c) # None /\ binding[c] # None

HeldWindows ==
    ({binding[c] : c \in {d \in Existing : HasPage(d)}}
        \cup {spawn[a].win : a \in {b \in Attempt : b \in UnresolvedOf(b[1])}}) \ {None}

Unconsumed == {a \in Completed : spawn[a].consumed = "no"}
LatestOwners == {a \in Unconsumed : \A b \in Unconsumed \ {a} :
                    spawn[b].win = spawn[a].win => <<b, a>> \in older}

TerminalSources ==
    {a \in LatestOwners : spawn[a].win \notin HeldWindows /\ task[a[1]] = "COMPLETED"}
PoolWindows == HeldWindows \cup {spawn[a].win : a \in TerminalSources}

\* What the count misses: the windows in the records of children whose worker has ended (so
\* that they hold no binding) and whose task row does not say so yet.
Ended(c) == \E n \in Conv : proto[c].workers[n].status \in {"completed", "abandoned"}
MissedWindows ==
    {spawn[a].win : a \in {b \in Unconsumed : Ended(b[1]) /\ task[b[1]] # "COMPLETED"}}

\* A plausible bug: a page may be recycled before its child has a durable session.
RunningSources_AnyWorker == {c \in Existing : HasPage(c)}

RunningSources == {c \in Existing : HasPage(c) /\ lsm[c]}

NoSource == [kind |-> "none", of |-> None, win |-> None]
Source == {NoSource} \cup [kind : {"spawn"}, of : Attempt, win : Window]
            \cup [kind : {"worker"}, of : Child \X Conv, win : Window]
Oldest(S) == CHOOSE a \in S : \A b \in S : a[1] <= b[1]

\* Terminal pages before running ones, then creation order; never the child's own page.
SourceFor(c) ==
    LET terminal == {a \in TerminalSources : a[1] # c}
        running == {<<d, Current(d)>> : d \in RunningSources \ {c}}
    IN IF terminal # {}
       THEN [kind |-> "spawn", of |-> Oldest(terminal), win |-> spawn[Oldest(terminal)].win]
       ELSE IF running # {}
       THEN [kind |-> "worker", of |-> Oldest(running), win |-> binding[Oldest(running)[1]]]
       ELSE NoSource

-----------------------------------------------------------------------------
(***************************************************************************)
(* Operator processes.                                                     *)
(***************************************************************************)
PC == {"idle", "child", "arm", "record", "pool", "open", "submit", "launch", "bind", "consume",
       "clear", "failed", "maybe", "send", "cool", "prompt", "click", "limited", "back",
       "routed", "wait", "second", "click2", "adopt", "claim", "window", "done",
       "sweep", "swept"}

Idle == [pc |-> "idle", batch |-> FALSE, todo |-> {}, a |-> None, src |-> NoSource,
         win |-> None, seen |-> "unborn", rev |-> 0, missed |-> {}]

Process == [pc : PC, batch : BOOLEAN, todo : SUBSET Child, a : (Child \X Conv) \cup {None},
            src : Source, win : Window \cup {None}, seen : SpawnState, rev : Nat,
            missed : SUBSET Window]   \* history: MissedWindows when the pool was counted

Quiet == [pc |-> "idle", rev |-> 0]

TypeOK ==
    /\ task \in [Child -> {"absent", "QUEUED", "COMPLETED"}]
    /\ proto \in [Child -> P!Snapshot]
    /\ lsm \in [Child -> BOOLEAN]
    /\ spawn \in [Attempt -> Row]
    /\ \A a \in Attempt : spawn[a].win = None =>
           spawn[a].state \notin {"WINDOW_BOUND", "PROMPT_SUBMITTED", "COMPLETED"}
    /\ older \subseteq Attempt \X Attempt
    /\ binding \in [Child -> Window \cup {None}]
    /\ cooldown \in BOOLEAN
    /\ page \in [Window -> Pages]
    /\ op \in [Op -> Process]
    /\ cpl \in [Child -> [pc : {"idle", "end", "close", "align"}, rev : Nat]]
    /\ sends \in [Attempt -> Nat]
    /\ delivered \in [Child -> Nat]

Init ==
    /\ task = [c \in Child |-> "absent"]
    /\ proto = [c \in Child |-> P!NewTaskState]
    /\ lsm = [c \in Child |-> FALSE]
    /\ spawn = [a \in Attempt |-> Unborn]
    /\ older = {}
    /\ binding = [c \in Child |-> None]
    /\ cooldown = FALSE
    /\ page = [w \in Window |-> Absent]
    /\ op = [o \in Op |-> Idle]
    /\ cpl = [c \in Child |-> Quiet]
    /\ sends = [a \in Attempt |-> 0]
    /\ delivered = [c \in Child |-> 0]

At(o, pc) == op[o].pc = pc
Become(o, process) == op' = [op EXCEPT ![o] = process]
Run(o, pc) == Become(o, [op[o] EXCEPT !.pc = pc])
Stop(o) == Become(o, Idle)
\* The child an operator works on: the first of the ones left.
This(o) == Min(op[o].todo)
\* The batch goes on with the same child, or with the next one; a single command is over.
Onward(o, pc) == IF op[o].batch THEN Run(o, pc) ELSE Stop(o)
NextChild(o) ==
    Become(o, [Idle EXCEPT !.pc = "child", !.batch = TRUE, !.todo = op[o].todo \ {This(o)}])

\* The write that a step ends with; a forbidden transition raises and ends the command.
WriteState(o, state, pc) ==
    IF UpdateOk(op[o].a, state)
    THEN Update(op[o].a, [spawn[op[o].a] EXCEPT !.state = state]) /\ Run(o, pc)
    ELSE Stop(o) /\ UNCHANGED <<spawn, older>>

WriteAndStop(o, state) ==
    /\ IF UpdateOk(op[o].a, state)
       THEN Update(op[o].a, [spawn[op[o].a] EXCEPT !.state = state])
       ELSE UNCHANGED <<spawn, older>>
    /\ Stop(o)

\* What a step that only moves spawn rows and the operator leaves alone.
OnlySpawn == UNCHANGED <<task, proto, lsm, binding, cooldown, page, cpl, sends, delivered>>
OnlyOp == UNCHANGED <<task, proto, lsm, spawn, older, binding, cooldown, page, cpl, sends, delivered>>
OnlyPage == UNCHANGED <<task, proto, lsm, spawn, older, binding, cooldown, cpl, delivered>>

-----------------------------------------------------------------------------
(***************************************************************************)
(* Arming: read-only checks, then the INSERT.                              *)
(***************************************************************************)
ArmOk(c) ==
    /\ proto[c].generation = 0 /\ \A n \in Conv : proto[c].workers[n].status = "unregistered"
    /\ UnresolvedOf(c) = {}

ArmCheck(o) ==
    /\ At(o, "arm")
    /\ \/ ArmOk(This(o)) /\ Run(o, "record")
       \/ (~ArmOk(This(o)) \/ "refused" \in Faults) /\ Stop(o)    \* or a stale workspace
    /\ OnlyOp

\* record_child_spawn_attempt; the unique index admits one unresolved row per child.
ArmRecord(o) ==
    /\ At(o, "record")
    /\ LET c == This(o)
           unborn == {n \in 1 .. MaxAttempts : spawn[<<c, n>>].state = "unborn"}
           a == <<c, Min(unborn)>>
       IN IF UnresolvedOf(c) = {} /\ unborn # {}
          THEN /\ Update(a, Armed)
               /\ IF op[o].batch THEN Become(o, [op[o] EXCEPT !.pc = "pool", !.a = a])
                  ELSE Stop(o)
          ELSE Stop(o) /\ UNCHANGED <<spawn, older>>
    /\ OnlySpawn

-----------------------------------------------------------------------------
(***************************************************************************)
(* Opening: authority first, then a new window or a recycled page.         *)
(***************************************************************************)
\* A plausible bug: the pool bound is off by one.
Pool_OffByOne(o) ==
    /\ At(o, "pool")
    /\ LET source == SourceFor(This(o))
       IN IF source # NoSource \/ Cardinality(PoolWindows) <= MaxWindows
          THEN Become(o, [op[o] EXCEPT !.pc = "open", !.src = source, !.missed = MissedWindows])
          ELSE Stop(o)
    /\ OnlyOp

Pool(o) ==
    /\ At(o, "pool")
    /\ LET source == SourceFor(This(o))
       IN IF source # NoSource \/ Cardinality(PoolWindows) < MaxWindows
          THEN Become(o, [op[o] EXCEPT !.pc = "open", !.src = source, !.missed = MissedWindows])
          ELSE Stop(o)                                            \* pool_wait
    /\ OnlyOp

\* submit_child_spawn_open reads the row, then records the authority to open.
OpenRead(o) ==
    /\ At(o, "open")
    /\ IF spawn[op[o].a].state = "ARMED" THEN Run(o, "submit") ELSE Stop(o)
    /\ OnlyOp

OpenSubmit(o) == At(o, "submit") /\ WriteState(o, "WINDOW_OPEN_SUBMITTED", "launch") /\ OnlySpawn

\* open_authorized: one new window, recognised by its tag, unless it is not seen in time.
LaunchNew(o) ==
    /\ At(o, "launch") /\ op[o].src = NoSource
    /\ LET a == op[o].a
           opened(w) == page[w] = Absent /\ Navigate(w, a)
       IN \/ \E w \in Window :
                /\ opened(w)
                /\ IF TaggedWindows(a) = {} THEN Become(o, [op[o] EXCEPT !.pc = "bind", !.win = w])
                   ELSE Run(o, "maybe")
          \/ /\ "ambiguous" \in Faults
             /\ UNCHANGED page \/ \E w \in Window : opened(w)
             /\ Run(o, "maybe")
          \/ "refused" \in Faults /\ Run(o, "failed") /\ UNCHANGED page
    /\ OnlyPage /\ UNCHANGED sends

\* The window still shows the conversation of the worker or the completed spawn it is taken from.
ShowsSource(o) == IsChat(op[o].src.win, op[o].src.of)

\* _navigate_reused_window.  A result that carries a window
\* and a URL other than the tagged root makes bind_child_spawn_window raise; one without a
\* URL counts as "no side effect", whatever the navigation helper did before it failed.
LaunchReuse(o) ==
    /\ At(o, "launch") /\ op[o].src # NoSource
    /\ LET a == op[o].a
           w == op[o].src.win
           arrived == Become(o, [op[o] EXCEPT !.pc = "bind", !.win = w])
       IN \/ page[w] = Absent /\ Run(o, "failed") /\ UNCHANGED page
          \/ IsRoot(w, a) /\ arrived /\ UNCHANGED page
          \/ page[w] # Absent /\ ~IsRoot(w, a) /\ ~ShowsSource(o) /\ Stop(o) /\ UNCHANGED page
          \/ ShowsSource(o) /\ Navigate(w, a) /\ arrived
          \/ ShowsSource(o) /\ "refused" \in Faults /\ Stop(o) /\ UNCHANGED page
          \/ /\ ShowsSource(o) /\ "ambiguous" \in Faults
             /\ Navigate(w, a) \/ UNCHANGED page
             /\ Run(o, "failed") \/ Stop(o)
    /\ OnlyPage /\ UNCHANGED sends

\* A plausible bug: the row is bound before its window is stored.
BindWindow_NoHandle(o) ==
    /\ At(o, "bind")
    /\ Update(op[o].a, [spawn[op[o].a] EXCEPT !.state = "WINDOW_BOUND"])
    /\ IF op[o].src # NoSource THEN Run(o, "consume") ELSE Onward(o, "send")
    /\ OnlySpawn

\* bind_child_spawn_window.
BindWindow(o) ==
    /\ At(o, "bind")
    /\ LET a == op[o].a
       IN IF spawn[a].state \in {"WINDOW_OPEN_SUBMITTED", "RECONCILE_REQUIRED"}
          THEN /\ Update(a, [spawn[a] EXCEPT !.state = "WINDOW_BOUND", !.win = op[o].win])
               /\ IF op[o].src # NoSource THEN Run(o, "consume") ELSE Onward(o, "send")
          ELSE Stop(o) /\ UNCHANGED <<spawn, older>>
    /\ OnlySpawn

\* The row of the page's former owner is marked consumed ...
Consume(o) ==
    /\ At(o, "consume")
    /\ LET b == op[o].src.of
           owner == /\ b \in Attempt
                    /\ spawn[b].state = "COMPLETED"
                    /\ spawn[b].win = op[o].src.win /\ spawn[b].consumed = "no"
       IN IF op[o].src.kind = "spawn" \/ owner
          THEN Update(b, [spawn[b] EXCEPT !.consumed = "recycled"])
          ELSE UNCHANGED <<spawn, older>>
    /\ IF op[o].src.kind = "worker" THEN Run(o, "clear") ELSE Onward(o, "send")
    /\ OnlySpawn

\* ... and a running owner loses its window binding.
ClearBinding(o) ==
    /\ At(o, "clear")
    /\ binding' = [binding EXCEPT ![op[o].src.of[1]] = None]
    /\ Onward(o, "send")
    /\ UNCHANGED <<task, proto, lsm, spawn, older, cooldown, page, cpl, sends, delivered>>

OpenFailed(o) == At(o, "failed") /\ WriteAndStop(o, "FAILED") /\ OnlySpawn
OutcomeAmbiguous(o) == At(o, "maybe") /\ WriteAndStop(o, "RECONCILE_REQUIRED") /\ OnlySpawn

-----------------------------------------------------------------------------
(***************************************************************************)
(* Sending: execute_child_spawn_prompt.                                    *)
(***************************************************************************)
\* The cooldown is read after the row; while it runs the state just read is written back.
SendRead(o) ==
    /\ At(o, "send")
    /\ LET state == spawn[op[o].a].state
       IN IF cooldown THEN Become(o, [op[o] EXCEPT !.pc = "cool", !.seen = state])
          ELSE IF state = "WINDOW_BOUND" THEN Run(o, "prompt") ELSE Stop(o)
    /\ OnlyOp

SendDuringCooldown(o) == At(o, "cool") /\ WriteAndStop(o, op[o].seen) /\ OnlySpawn

SendSubmit(o) == At(o, "prompt") /\ WriteState(o, "PROMPT_SUBMITTED", "click") /\ OnlySpawn

\* send_authorized is refused without side effect, rate-limited before the composer is
\* touched, invokes Send on the exact draft, or is interrupted after the draft was set (the
\* helper may also time out, which no handler catches).
Refused(o, w, a) ==
    /\ ~IsRoot(w, a) \/ "refused" \in Faults
    /\ Run(o, "back") /\ UNCHANGED <<page, sends>>
RateLimited(o, w, a) ==
    IsRoot(w, a) /\ "limit" \in Faults /\ Run(o, "limited") /\ UNCHANGED <<page, sends>>
Invoked(o, w, a) == IsRoot(w, a) /\ Invoke(w, a) /\ Run(o, "routed")
Interrupted(o, w, a) ==
    /\ IsRoot(w, a) /\ "ambiguous" \in Faults
    /\ \/ Invoke(w, a)
       \/ page[w].text # "sent" /\ Show(w, Root(a, "draft")) /\ UNCHANGED sends
    /\ Run(o, "maybe") \/ Stop(o)

Click(o) ==
    /\ At(o, "click")
    /\ LET a == op[o].a
           w == spawn[a].win
       IN Refused(o, w, a) \/ RateLimited(o, w, a) \/ Invoked(o, w, a) \/ Interrupted(o, w, a)
    /\ OnlyPage

StartCooldown(o) ==
    /\ At(o, "limited")
    /\ cooldown' = TRUE
    /\ Run(o, "back")
    /\ UNCHANGED <<task, proto, lsm, spawn, older, binding, page, cpl, sends, delivered>>

SendBack(o) == At(o, "back") /\ WriteAndStop(o, "WINDOW_BOUND") /\ OnlySpawn

\* wait_for_conversation polls the bound window until it shows a conversation.
WaitForConversation(o) ==
    /\ At(o, "routed")
    /\ LET p == BoundPage(op[o].a)
       IN \/ p.kind = "chat" /\ Run(o, "wait")
          \/ (p.kind \notin {"root", "chat"} \/ "timeout" \in Faults) /\ Run(o, "maybe")
    /\ OnlyOp

\* A plausible bug: the second Send is not recorded before it is made.
WaitForDelivery_Again(o) ==
    /\ At(o, "wait")
    /\ LET p == BoundPage(op[o].a)
       IN \/ Consumed(p) /\ Run(o, "adopt")
          \/ DraftReady(p) /\ Run(o, "click2")
          \/ (p.kind # "chat" \/ "timeout" \in Faults) /\ Run(o, "maybe")
    /\ OnlyOp

\* wait_for_delivery: the prompt was consumed, or its draft is still there and send-ready.
WaitForDelivery(o) ==
    /\ At(o, "wait")
    /\ LET p == BoundPage(op[o].a)
           second == spawn[op[o].a].second
       IN \/ Consumed(p) /\ Run(o, "adopt")
          \/ DraftReady(p) /\ Run(o, IF second THEN "maybe" ELSE "second")
          \/ (p.kind # "chat" \/ "timeout" \in Faults) /\ Run(o, "maybe")
    /\ OnlyOp

SecondSubmit(o) ==
    /\ At(o, "second")
    /\ LET a == op[o].a
       IN IF UpdateOk(a, "PROMPT_SUBMITTED")
          THEN /\ Update(a, [spawn[a] EXCEPT !.state = "PROMPT_SUBMITTED", !.second = TRUE])
               /\ Run(o, "click2")
          ELSE Stop(o) /\ UNCHANGED <<spawn, older>>
    /\ OnlySpawn

\* invoke_existing_draft_authorized: only the exact draft in the conversation is invoked.
SecondClick(o) ==
    /\ At(o, "click2")
    /\ LET a == op[o].a
           w == spawn[a].win
           ready == IsChat(w, a) /\ DraftReady(page[w])
       IN \/ ready /\ Invoke(w, a) /\ Run(o, "wait")
          \/ ready /\ "ambiguous" \in Faults /\ Invoke(w, a) /\ Run(o, "maybe")
          \/ (~ready \/ "refused" \in Faults) /\ Run(o, "maybe") /\ UNCHANGED <<page, sends>>
    /\ OnlyPage

-----------------------------------------------------------------------------
(***************************************************************************)
(* Adoption: register and claim the conversation, bind its window, and     *)
(* only then complete the row.  child-adopt ends with the claim.           *)
(***************************************************************************)
Adopt(o) ==
    /\ At(o, "adopt")
    /\ LET c == op[o].a[1]
           n == op[o].a[2]
           s == proto[c]
           claim(t) == Become(o, [op[o] EXCEPT !.pc = "claim", !.rev = t.revision])
       IN \/ /\ s.current_worker_id = n
             /\ (IF n = 0 THEN Stop(o) ELSE Run(o, "window")) /\ UNCHANGED proto
          \/ /\ s.current_worker_id = None /\ s.workers[n].status = "candidate"
             /\ claim(s) /\ UNCHANGED proto
          \/ /\ s.current_worker_id = None /\ P!RegisterOk(s, n)
             /\ proto' = [proto EXCEPT ![c] = P!Register(s, n, 0)]
             /\ claim(P!Register(s, n, 0))
          \/ /\ s.current_worker_id # n
             /\ \/ s.current_worker_id # None
                \/ s.workers[n].status # "candidate" /\ ~P!RegisterOk(s, n)
             /\ Stop(o) /\ UNCHANGED proto
    /\ UNCHANGED <<task, lsm, spawn, older, binding, cooldown, page, cpl, sends, delivered>>

AdoptClaim(o) ==
    /\ At(o, "claim")
    /\ LET c == op[o].a[1]
           n == op[o].a[2]
       IN IF proto[c].revision = op[o].rev /\ P!ClaimOk(proto[c], n)
          THEN /\ proto' = [proto EXCEPT ![c] = P!Claim(proto[c], n, 0, 1)]
               /\ IF n = 0 THEN Stop(o) ELSE Run(o, "window")
          ELSE Stop(o) /\ UNCHANGED proto
    /\ UNCHANGED <<task, lsm, spawn, older, binding, cooldown, page, cpl, sends, delivered>>

\* bind_worker_window wants an active worker.
AdoptBindWindow(o) ==
    /\ At(o, "window")
    /\ LET c == op[o].a[1]
       IN IF Current(c) = op[o].a[2]
          THEN binding' = [binding EXCEPT ![c] = spawn[op[o].a].win] /\ Run(o, "done")
          ELSE Stop(o) /\ UNCHANGED binding
    /\ UNCHANGED <<task, proto, lsm, spawn, older, cooldown, page, cpl, sends, delivered>>

AdoptDone(o) ==
    /\ At(o, "done")
    /\ LET a == op[o].a
       IN IF UpdateOk(a, "COMPLETED")
          THEN /\ Update(a, [spawn[a] EXCEPT !.state = "COMPLETED"])
               /\ IF op[o].batch THEN NextChild(o) ELSE Stop(o)
          ELSE Stop(o) /\ UNCHANGED <<spawn, older>>
    /\ OnlySpawn

-----------------------------------------------------------------------------
(***************************************************************************)
(* The commands, and child-dispatch-batch which strings them together.     *)
(***************************************************************************)
Command(o, name) == name \in Commands /\ At(o, "idle")
Start(o, pc, c, a) ==
    Become(o, [Idle EXCEPT !.pc = pc, !.todo = {c}, !.a = a])

ArmCommand(o) ==
    Command(o, "arm") /\ (\E c \in Existing : Start(o, "arm", c, None)) /\ OnlyOp
OpenCommand(o) ==
    /\ Command(o, "open")
    /\ \E a \in Attempt : spawn[a].state = "ARMED" /\ Start(o, "submit", a[1], a)
    /\ OnlyOp
SendCommand(o) ==
    /\ Command(o, "send")
    /\ \E a \in Attempt : spawn[a].state # "unborn" /\ Start(o, "send", a[1], a)
    /\ OnlyOp
AdoptCommand(o) ==
    Command(o, "adopt") /\ (\E c \in Existing : Start(o, "adopt", c, <<c, 0>>)) /\ OnlyOp

\* reconcile_child_spawn observes and records; it never opens and never sends.
ReconcileCommand(o) ==
    /\ Command(o, "reconcile")
    /\ \E a \in Attempt :
         LET row == spawn[a]
             tagged == TaggedWindows(a)
             unbound == \/ row.state = "WINDOW_OPEN_SUBMITTED"
                        \/ row.state = "RECONCILE_REQUIRED" /\ row.win = None
         IN \/ /\ unbound /\ Cardinality(tagged) = 1
               /\ Become(o, [Idle EXCEPT !.pc = "bind", !.todo = {a[1]}, !.a = a,
                                         !.win = CHOOSE w \in tagged : TRUE])
            \/ /\ row.state = "WINDOW_OPEN_SUBMITTED"
               /\ Cardinality(tagged) # 1 \/ "ambiguous" \in Faults
               /\ Start(o, "maybe", a[1], a)
            \/ /\ ~unbound /\ row.state \in Unresolved /\ row.win # None
               /\ \/ BoundPage(a).kind = "chat" /\ Start(o, "adopt", a[1], a)
                  \/ BoundPage(a).kind # "chat" /\ ~IsRoot(row.win, a)
                     /\ Start(o, "maybe", a[1], a)
    /\ OnlyOp

\* Nothing new is opened or sent while any child has an outcome to reconcile.
BatchCommand(o) ==
    /\ Command(o, "batch")
    /\ Existing # {} /\ \A c \in Existing : AmbiguousOf(c) = {}
    /\ Become(o, [Idle EXCEPT !.pc = "child", !.batch = TRUE, !.todo = Existing])
    /\ OnlyOp

BatchChild(o) ==
    /\ At(o, "child") /\ op[o].todo # {}
    /\ LET c == This(o)
           row == UnresolvedOf(c)
           go(pc) == \E a \in row : Become(o, [op[o] EXCEPT !.pc = pc, !.a = a])
       IN IF task[c] = "COMPLETED" \/ Current(c) # None \/ AmbiguousOf(c) # {} THEN NextChild(o)
          ELSE IF row = {} THEN Run(o, "arm")
          ELSE IF \E a \in row : spawn[a].state = "ARMED" THEN go("pool") ELSE go("send")
    /\ OnlyOp

PendingChildren == {c \in Existing : task[c] # "COMPLETED" /\ Current(c) = None}

\* Every child was visited.  Terminal pages are closed once no child is left undispatched,
\* unless the operator keeps them.
BatchSweep(o) ==
    /\ At(o, "child") /\ op[o].todo = {}
    /\ \/ Stop(o)                                                \* --keep-terminal-pages
       \/ /\ PendingChildren = {} /\ TerminalSources # {}
          /\ Become(o, [op[o] EXCEPT !.pc = "sweep", !.todo = {a[1] : a \in TerminalSources}])
    /\ OnlyOp

\* The COMPLETED row of the child whose page is being closed.
SweptRow(o) == CHOOSE a \in Attempt : a[1] = This(o) /\ spawn[a].state = "COMPLETED"

\* close_completed_spawn_authorized closes the window only if it shows that conversation.
CloseTerminal(o) ==
    /\ At(o, "sweep")
    /\ LET a == SweptRow(o)
           w == spawn[a].win
       IN \/ page[w] = Absent /\ Run(o, "swept") /\ UNCHANGED page
          \/ IsChat(w, a) /\ Close(w) /\ Run(o, "swept")
          \/ IsChat(w, a) /\ "ambiguous" \in Faults /\ (Close(w) \/ UNCHANGED page) /\ Stop(o)
          \/ page[w] # Absent /\ ~IsChat(w, a) /\ Stop(o) /\ UNCHANGED page
    /\ OnlyPage /\ UNCHANGED sends

MarkClosed(o) ==
    /\ At(o, "swept")
    /\ LET a == SweptRow(o)
           left == op[o].todo \ {This(o)}
       IN /\ Update(a, [spawn[a] EXCEPT !.consumed = "closed"])
          /\ IF left = {} THEN Stop(o) ELSE Become(o, [op[o] EXCEPT !.pc = "sweep", !.todo = left])
    /\ OnlySpawn

Crash(o) == "crash" \in Faults /\ ~At(o, "idle") /\ Stop(o) /\ OnlyOp


-----------------------------------------------------------------------------
(***************************************************************************)
(* The other commands: child-create, child-bind-session, child-complete.   *)
(***************************************************************************)
\* create_child_dispatch inserts the task, its protocol row and the contract in one
\* transaction; the parent stays open.
CreateChild(c) ==
    /\ task[c] = "absent" /\ \A d \in Child : d < c => task[d] # "absent"
    /\ task' = [task EXCEPT ![c] = "QUEUED"]
    /\ UNCHANGED <<proto, lsm, spawn, older, binding, cooldown, page, op, cpl, sends, delivered>>

\* The worker of a delivered prompt, or of an adopted conversation, reports its session.
BindSession(c) ==
    /\ Current(c) # None \/ delivered[c] > 0
    /\ ~lsm[c]
    /\ lsm' = [lsm EXCEPT ![c] = TRUE]
    /\ UNCHANGED <<task, proto, spawn, older, binding, cooldown, page, op, cpl, sends, delivered>>

\* complete_child_dispatch: unresolved work is refused, the protocol is read ...
CompleteLoad(c) ==
    /\ c \in Existing /\ cpl[c].pc = "idle" /\ UnresolvedOf(c) = {}
    /\ \/ proto[c].task_status = "completed" /\ task[c] # "COMPLETED"
       \/ proto[c].task_status = "open"
    /\ cpl' = [cpl EXCEPT ![c] = [rev |-> proto[c].revision,
           pc |-> IF proto[c].task_status = "completed" THEN "align"
                  ELSE IF Current(c) = None THEN "close" ELSE "end"]]
    /\ UNCHANGED <<task, proto, lsm, spawn, older, binding, cooldown, page, op, sends, delivered>>

\* A protocol write on the revision that was read; any other revision ends the command.
Guarded(c, ok, s, pc) ==
    IF proto[c].revision = cpl[c].rev /\ ok
    THEN /\ proto' = [proto EXCEPT ![c] = s]
         /\ cpl' = [cpl EXCEPT ![c] = [pc |-> pc, rev |-> s.revision]]
    ELSE cpl' = [cpl EXCEPT ![c] = Quiet] /\ UNCHANGED proto

\* ... its worker is completed, or abandoned when its lease has run out; either way the
\* commit drops the worker's window binding ...
CompleteEnd(c) ==
    /\ cpl[c].pc = "end"
    /\ LET s == proto[c]
           w == Current(c)
           g == s.generation
       IN \/ Guarded(c, P!CompleteWorkerOk(s, w, g, 0), P!CompleteWorker(s, w, 0), "close")
          \/ Guarded(c, P!AbandonWorkerOk(s, w, g), P!AbandonWorker(s, w, 1), "close")
    /\ binding' = IF proto' = proto THEN binding ELSE [binding EXCEPT ![c] = None]
    /\ UNCHANGED <<task, lsm, spawn, older, cooldown, page, op, sends, delivered>>

\* ... the protocol task is completed, and only then the task row.
CompleteClose(c) ==
    /\ cpl[c].pc = "close"
    /\ Guarded(c, P!CompleteTaskOk(proto[c]), P!CompleteTask(proto[c], 1), "align")
    /\ UNCHANGED <<task, lsm, spawn, older, binding, cooldown, page, op, sends, delivered>>

CompleteAlign(c) ==
    /\ cpl[c].pc = "align"
    /\ task' = [task EXCEPT ![c] = "COMPLETED"]
    /\ cpl' = [cpl EXCEPT ![c] = Quiet]
    /\ UNCHANGED <<proto, lsm, spawn, older, binding, cooldown, page, op, sends, delivered>>

CompleteCrash(c) ==
    /\ "crash" \in Faults /\ cpl[c].pc # "idle"
    /\ cpl' = [cpl EXCEPT ![c] = Quiet]
    /\ UNCHANGED <<task, proto, lsm, spawn, older, binding, cooldown, page, op, sends, delivered>>

-----------------------------------------------------------------------------
(***************************************************************************)
(* The browser and its user.                                               *)
(***************************************************************************)
\* A Send takes effect: the prompt is consumed, or it only created the conversation.
Settle(w) ==
    /\ page[w].text = "sent"
    /\ LET a == page[w].of
       IN \/ /\ Show(w, Chat(a, "consumed"))
             /\ delivered' = [delivered EXCEPT ![a[1]] = @ + 1]
          \/ "route" \in Faults /\ Show(w, Chat(a, "draft")) /\ UNCHANGED delivered
    /\ UNCHANGED <<task, proto, lsm, spawn, older, binding, cooldown, op, cpl, sends>>

CooldownEnds ==
    /\ cooldown /\ cooldown' = FALSE
    /\ UNCHANGED <<task, proto, lsm, spawn, older, binding, page, op, cpl, sends, delivered>>

UserActs(w) ==
    /\ "user" \in Faults /\ page[w] # Absent
    /\ \E p \in {Absent, Elsewhere} : p # page[w] /\ Show(w, p)
    /\ UNCHANGED <<task, proto, lsm, spawn, older, binding, cooldown, op, cpl, sends, delivered>>

-----------------------------------------------------------------------------
\* What the operator does next, once it has started.
Step(o) ==
    \/ ArmCheck(o) \/ ArmRecord(o) \/ Pool(o) \/ OpenRead(o) \/ OpenSubmit(o)
    \/ LaunchNew(o) \/ LaunchReuse(o) \/ BindWindow(o) \/ Consume(o) \/ ClearBinding(o)
    \/ OpenFailed(o) \/ OutcomeAmbiguous(o)
    \/ SendRead(o) \/ SendDuringCooldown(o) \/ SendSubmit(o) \/ Click(o) \/ StartCooldown(o)
    \/ SendBack(o) \/ WaitForConversation(o) \/ WaitForDelivery(o) \/ SecondSubmit(o)
    \/ SecondClick(o)
    \/ Adopt(o) \/ AdoptClaim(o) \/ AdoptBindWindow(o) \/ AdoptDone(o)
    \/ BatchChild(o) \/ BatchSweep(o) \/ CloseTerminal(o) \/ MarkClosed(o)

Next ==
    \/ \E o \in Op :
          \/ BatchCommand(o) \/ ArmCommand(o) \/ OpenCommand(o) \/ SendCommand(o)
          \/ ReconcileCommand(o) \/ AdoptCommand(o)
          \/ Step(o) \/ Crash(o)
    \/ \E c \in Child :
          \/ CreateChild(c) \/ BindSession(c) \/ CompleteLoad(c) \/ CompleteEnd(c)
          \/ CompleteClose(c) \/ CompleteAlign(c) \/ CompleteCrash(c)
    \/ \E w \in Window : Settle(w) \/ UserActs(w)
    \/ CooldownEnds

Spec == Init /\ [][Next]_vars

\* The operator repeats child-spawn-reconcile, and a repeated command gets past each of its
\* steps once in a while, however often it crashes.
FairSpec ==
    /\ Spec
    /\ \A o \in Op : /\ SF_vars(ReconcileCommand(o)) /\ WF_vars(Step(o))
                     /\ SF_vars(Adopt(o) /\ op[o].a[2] > 0)
                     /\ SF_vars(AdoptClaim(o) /\ op[o].a[2] > 0)
                     /\ SF_vars(AdoptBindWindow(o)) /\ SF_vars(AdoptDone(o))

-----------------------------------------------------------------------------
(***************************************************************************)
(* Properties.                                                             *)
(***************************************************************************)
\* A child's prompt reaches ChatGPT at most once, whatever crashes, ambiguous outcomes,
\* new attempts and reconciliations happen (the unresolved row blocks a new attempt).
DeliveredOnce == \A c \in Child : delivered[c] <= 1

\* Send is invoked once per attempt, and a second time only under the authority recorded
\* before the click (delivery_second_send_used), so that a crash never causes a third.
SendsAreAuthorised == \A a \in Attempt : sends[a] <= IF spawn[a].second THEN 2 ELSE 1

\* An operator takes a window away from what it shows only when that is the conversation
\* of a child that is completed or has a durable session, although the pool was looked at
\* several steps before the page is navigated.
PageKept ==
    [][op' # op => \A w \in Window :
         page[w] # Absent /\ page'[w].of # page[w].of
            => page[w].kind = "chat" /\ (lsm[page[w].of[1]] \/ task[page[w].of[1]] = "COMPLETED")]_vars

OnShow(a) == \E w \in Window : spawn[a].win = w /\ page[w] = Chat(a, "consumed")

\* An attempt with an unknown outcome whose window shows its conversation with the prompt
\* consumed is completed by repeating child-spawn-reconcile, unless the user takes the window
\* away, the child was given to another conversation, or it was completed meanwhile.
ReconcileResolves ==
    \A a \in Attempt :
        /\ spawn[a].state \in {"PROMPT_SUBMITTED", "RECONCILE_REQUIRED"}
        /\ OnShow(a)
        ~> \/ spawn[a].state = "COMPLETED" \/ ~OnShow(a)
           \/ Current(a[1]) \notin {None, a[2]} \/ proto[a[1]].task_status = "completed"

\* The pages --max-windows is about: every window that shows a page of a child, be it running
\* or terminal, except one that was navigated for an attempt recorded as FAILED.
DispatcherPages ==
    {w \in Window : page[w].kind \in {"root", "chat"} /\ spawn[page[w].of].state # "FAILED"}

\* child-dispatch-batch opens a window only while fewer than --max-windows dispatcher pages
\* exist, although the pool was counted from registry rows several steps earlier and children
\* complete meanwhile.  The pages in windows that the count could not see, those of a child
\* then between the end of its worker and the alignment of its task row, are left out.
NewWindowsWithinPool ==
    [][\A o \in Op :
         op'[o] # op[o] /\ (\E w \in Window : page[w] = Absent /\ page'[w] # Absent)
            => Cardinality(DispatcherPages \ op[o].missed) < MaxWindows]_vars

\* "opens at most ``max_windows`` exact pages" (advance_child_dispatch_batch): with that gap
\* the dispatcher pages outnumber --max-windows.
PagesWithinMaxWindows == Cardinality(DispatcherPages) <= MaxWindows

\* A completed spawn had its prompt consumed: the conversation route alone is no proof of
\* delivery (docs/CHILD_SCHEDULER.md).
CompletedWasDelivered ==
    \A a \in Attempt : spawn[a].state = "COMPLETED" => delivered[a[1]] > 0
=============================================================================
