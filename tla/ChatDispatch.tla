---------------------------- MODULE ChatDispatch ----------------------------
(***************************************************************************)
(* The durable prompt queue of src/lws/chat_dispatch.py: ChatDispatchStore *)
(* (jobs, conversations, pages, the worker lease), ChatDispatchEngine, and *)
(* the worker process that runs it.  Clients enqueue, cancel and start     *)
(* workers; Chrome and its user open, move and close windows.              *)
(*                                                                         *)
(* A job is its rowid.  A window is its (HWND, PID), never used twice.     *)
(* What a window shows is a place: an existing conversation (named by the  *)
(* key it was enqueued with), the conversation a job's prompt created, or  *)
(* the project root tagged for a job.  Wall-clock deadlines are flags that *)
(* Expire clears.  A step ends at every browser call and at every write    *)
(* after which a crash leaves something to recover; the writes of one      *)
(* recorded fact (a bound URL and its page, an acknowledgement and its     *)
(* idle page) are one step.  A worker may die, and a client or the user    *)
(* may act, between any two steps.  enqueue's replay of a dispatch_key     *)
(* changes nothing and is left out.                                        *)
(***************************************************************************)
EXTENDS Naturals, FiniteSets

CONSTANTS
    MaxJobs,      \* bound: jobs ever enqueued
    OldKey,       \* conversation keys enqueued with a conversation URL
    NewKey,       \* conversation keys enqueued with a project URL only
    Window,       \* browser windows
    Worker,       \* chat-dispatch-worker processes
    MaxWindows,   \* max_windows of the engine
    None

Job == 1 .. MaxJobs
Key == OldKey \cup NewKey

Chat(x) == [kind |-> "chat", of |-> x]
Root(j) == [kind |-> "root", of |-> j]
Place == [kind : {"chat", "root"}, of : Key \cup Job]

ASSUME ChatAssumption ==
    /\ MaxJobs \in Nat /\ MaxWindows \in Nat \ {0}
    /\ OldKey \cap NewKey = {}
    /\ None \notin Key \cup Window \cup Worker
    /\ None \notin Place \cup [owner : Worker, fresh : BOOLEAN]

\* A window that has not been opened yet, and one that has been closed.
Unborn == [kind |-> "unborn", of |-> None]
Shut == [kind |-> "shut", of |-> None]

JobState == {"QUEUED", "OPENING", "WINDOW_BOUND", "SUBMITTING", "SUBMITTED",
             "RECONCILE_REQUIRED", "RETRY_WAIT", "ACKNOWLEDGED", "FAILED", "CANCELLED"}
Terminal == {"ACKNOWLEDGED", "FAILED", "CANCELLED"}
PageState == {"OPEN", "IDLE", "CLOSED", "AMBIGUOUS"}

Row == [id : Job, state : JobState, url : Place \cup {None}]

Step == {"absent", "starting", "loop", "jobs", "page", "acquire", "launch", "poll", "upsert",
         "bind", "submit", "send", "record", "settle", "reconcile", "observe", "close", "closing", "exit",
         "leaving", "gone"}

VARIABLES
    job,        \* chat_dispatch_jobs, with a flag for next_attempt_at or the reconcile hold
    conv,       \* chat_conversations: the URL a key is bound to
    page,       \* chat_dispatch_pages, with a flag for close_after_at
    lease,      \* chat_dispatch_leases: owner and whether it has expired, or None
    me,         \* per worker: where it is, the rows it listed, its window and its result
    cancelling, \* the job a client has checked before cancelling it, or None
    at,         \* what each window shows: a place, Unborn or Shut
    launched,   \* launches whose window has not appeared yet
    opens,      \* history, per job: launches (up to 2) since it last had a window
    sent,       \* per job: how often its prompt may have been sent (up to 2), and where to
    delivered   \* jobs whose prompt is in a conversation

store == <<job, conv, page, lease, me, cancelling>>
chrome == <<at, launched, opens, sent, delivered>>
vars == <<store, chrome>>

NoJob == [state |-> "absent", key |-> None, url |-> None, wait |-> FALSE]
NoPage == [state |-> "absent", key |-> None, url |-> None, owned |-> FALSE, grace |-> FALSE]
Idle == [step |-> "absent", todo |-> {}, cur |-> None, win |-> None, own |-> FALSE,
         pages |-> {}, result |-> None]

Result == {"submitted", "ambiguous", "limited", "rejected", "raised"}

TypeOK ==
    /\ job \in [Job -> [state : JobState \cup {"absent"}, key : Key \cup {None},
                        url : Place \cup {None}, wait : BOOLEAN]]
    /\ conv \in [Key -> Place \cup {None}]
    /\ page \in [Window -> [state : PageState \cup {"absent"}, key : Key \cup {None},
                            url : Place \cup {None}, owned : BOOLEAN, grace : BOOLEAN]]
    /\ lease \in [owner : Worker, fresh : BOOLEAN] \cup {None}
    /\ me \in [Worker -> [step : Step, todo : SUBSET Row, cur : Row \cup {None},
                          win : Window \cup {None}, own : BOOLEAN, pages : SUBSET Window,
                          result : Result \cup {None}]]
    /\ cancelling \in Job \cup {None}
    /\ at \in [Window -> Place \cup {Unborn, Shut}]
    /\ launched \subseteq [id : Job, place : Place]
    /\ opens \in [Job -> 0 .. 2]
    /\ sent \in [Job -> [times : 0 .. 2, to : Place \cup {None}]]
    /\ delivered \subseteq Job

Init ==
    /\ job = [j \in Job |-> NoJob]
    /\ conv = [k \in Key |-> None]
    /\ page = [v \in Window |-> NoPage]
    /\ lease = None
    /\ me = [w \in Worker |-> Idle]
    /\ cancelling = None
    /\ at = [v \in Window |-> Unborn]
    /\ launched = {}
    /\ opens = [j \in Job |-> 0]
    /\ sent = [j \in Job |-> [times |-> 0, to |-> None]]
    /\ delivered = {}

-----------------------------------------------------------------------------
(***************************************************************************)
(* Queries of the store.                                                   *)
(***************************************************************************)
Known(j) == job[j].state # "absent"
Pending(j) == Known(j) /\ job[j].state \notin Terminal

\* A plausible bug: a job whose send is ambiguous does not hold back the next one.
HasOlderUnfinished_ReconcileIgnored(j) ==
    \E i \in Job : i < j /\ job[i].key = job[j].key /\ Pending(i)
                         /\ job[i].state # "RECONCILE_REQUIRED"

HasOlderUnfinished(j) == \E i \in Job : i < j /\ job[i].key = job[j].key /\ Pending(i)

HasPendingForConversation(k) == \E j \in Job : job[j].key = k /\ Pending(j)

Eligible(j) == Pending(j) /\ ~(job[j].state = "RETRY_WAIT" /\ job[j].wait)

RowOf(j) == [id |-> j, state |-> job[j].state, url |-> job[j].url]

EligibleJobs == {RowOf(j) : j \in {i \in Job : Eligible(i)}}

InUse(v) == page[v].state \in {"OPEN", "IDLE"}
PagesFor(k) == {v \in Window : InUse(v) /\ page[v].key = k}
OwnedOpenCount == Cardinality({v \in Window : InUse(v) /\ page[v].owned})

\* update_job: a state, and whether its deadline is ahead (RETRY_WAIT's cooldown or the hold
\* after RECONCILE_REQUIRED).
SetState(j, s) ==
    [job EXCEPT ![j] = [@ EXCEPT !.state = s, !.wait = s \in {"RECONCILE_REQUIRED", "RETRY_WAIT"}]]

\* bind_conversation: the key's URL, and that of its jobs that have none.
BoundElsewhere(k, url) == \E q \in Key \ {k} : conv[q] = url
BindJobs(js, k, url) ==
    [j \in Job |-> IF js[j].key = k /\ js[j].url = None THEN [js[j] EXCEPT !.url = url] ELSE js[j]]

Showing(v) == at[v].kind \in {"chat", "root"}
Twice(n) == IF n < 2 THEN n + 1 ELSE 2

-----------------------------------------------------------------------------
(***************************************************************************)
(* Clients.                                                                *)
(***************************************************************************)
Enqueue(j, k) ==
    /\ ~Known(j) /\ \A i \in 1 .. j - 1 : Known(i)
    /\ LET url == IF conv[k] # None THEN conv[k] ELSE IF k \in OldKey THEN Chat(k) ELSE None IN
       /\ ~BoundElsewhere(k, url) \/ url = None
       /\ job' = [job EXCEPT ![j] = [state |-> "QUEUED", key |-> k, url |-> url, wait |-> FALSE]]
       /\ conv' = [conv EXCEPT ![k] = url]
    /\ UNCHANGED <<page, lease, me, cancelling, chrome>>

\* cancel reads the row and refuses when a send may have happened; the UPDATE that follows
\* looks at nothing.
CancelRead(j) ==
    /\ cancelling = None
    /\ Pending(j)
    /\ job[j].state \notin {"SUBMITTING", "RECONCILE_REQUIRED", "SUBMITTED"}
    /\ cancelling' = j
    /\ UNCHANGED <<job, conv, page, lease, me, chrome>>

CancelWrite ==
    /\ cancelling # None
    /\ job' = SetState(cancelling, "CANCELLED")
    /\ cancelling' = None
    /\ UNCHANGED <<conv, page, lease, me, chrome>>

-----------------------------------------------------------------------------
(***************************************************************************)
(* The worker process and its lease.                                       *)
(***************************************************************************)
Live(w) == me[w].step \notin {"absent", "gone"}
Goto(w, s) == [me EXCEPT ![w].step = s]
Gone(w) == [me EXCEPT ![w] = [Idle EXCEPT !.step = "gone"]]

Cur(w) == me[w].cur
Id(w) == me[w].cur.id
KeyOf(w) == job[Id(w)].key

\* Done with the current job: the loop goes on with the next row it listed.
Skip(w) == [me EXCEPT ![w] = [@ EXCEPT !.step = "jobs", !.cur = None, !.win = None,
                                       !.own = FALSE, !.result = None]]

WithWindow(w, s, v) == [me EXCEPT ![w] = [@ EXCEPT !.step = s, !.win = v]]
Acquired(w, v, own) == [me EXCEPT ![w] = [@ EXCEPT !.step = "upsert", !.win = v, !.own = own]]

\* ensure_chat_dispatch_worker clears the lease of a dead worker and launches a new one; the
\* chat-dispatch-worker command can also be run directly.
EnsureWorker(w) ==
    /\ me[w].step = "absent"
    /\ \/ /\ lease # None /\ ~Live(lease.owner)
          /\ lease' = None
       \/ UNCHANGED lease
    /\ me' = Goto(w, "starting")
    /\ UNCHANGED <<job, conv, page, cancelling, chrome>>

\* A plausible bug: an expired lease is taken over from a live process.
AcquireLease_ExpiredOnly(w) ==
    /\ me[w].step = "starting"
    /\ IF lease # None /\ lease.fresh
       THEN me' = Gone(w) /\ UNCHANGED lease
       ELSE me' = Goto(w, "loop") /\ lease' = [owner |-> w, fresh |-> TRUE]
    /\ UNCHANGED <<job, conv, page, cancelling, chrome>>

AcquireLease(w) ==
    /\ me[w].step = "starting"
    /\ IF lease # None /\ (lease.fresh \/ Live(lease.owner))
       THEN me' = Gone(w) /\ UNCHANGED lease
       ELSE me' = Goto(w, "loop") /\ lease' = [owner |-> w, fresh |-> TRUE]
    /\ UNCHANGED <<job, conv, page, cancelling, chrome>>

\* heartbeat_lease, then run_once lists the eligible jobs.
Heartbeat(w) ==
    /\ me[w].step = "loop"
    /\ IF lease # None /\ lease.owner = w
       THEN /\ lease' = [lease EXCEPT !.fresh = TRUE]
            /\ me' = [me EXCEPT ![w] = [@ EXCEPT !.step = "jobs", !.todo = EligibleJobs]]
       ELSE me' = Gone(w) /\ UNCHANGED lease
    /\ UNCHANGED <<job, conv, page, cancelling, chrome>>

Released(w) == IF lease # None /\ lease.owner = w THEN None ELSE lease

\* The worker is killed: nothing is released, and a launch or a send it made goes on.
Crash(w) ==
    /\ Live(w)
    /\ me' = Gone(w)
    /\ UNCHANGED <<job, conv, page, lease, cancelling, chrome>>

-----------------------------------------------------------------------------
(***************************************************************************)
(* run_once: the listed jobs in rowid order, with the rows as they were    *)
(* listed.                                                                 *)
(***************************************************************************)
\* A plausible bug: a job found SUBMITTING is taken up where it was left.
StepFor_SubmittingResumed(state) ==
    IF state \in {"SUBMITTED", "RECONCILE_REQUIRED"} THEN "reconcile" ELSE "page"

StepFor(state) ==
    IF state \in {"SUBMITTING", "SUBMITTED", "RECONCILE_REQUIRED"} THEN "reconcile" ELSE "page"

\* SUBMITTING is found after a crash: it becomes RECONCILE_REQUIRED and the row is read again.
NextJob(w, row) ==
    /\ me[w].step = "jobs"
    /\ row \in me[w].todo /\ \A other \in me[w].todo : row.id <= other.id
    /\ IF HasOlderUnfinished(row.id)
       THEN me' = [me EXCEPT ![w].todo = @ \ {row}] /\ UNCHANGED job
       ELSE LET again == row.state = "SUBMITTING"
                next == IF again THEN SetState(row.id, "RECONCILE_REQUIRED") ELSE job
            IN  /\ job' = next
                /\ me' = [me EXCEPT ![w] =
                             [@ EXCEPT !.todo = me[w].todo \ {row}, !.step = StepFor(row.state),
                                       !.cur = IF again THEN [row EXCEPT !.state = next[row.id].state,
                                                                         !.url = next[row.id].url]
                                               ELSE row]]
    /\ UNCHANGED <<conv, page, lease, cancelling, chrome>>

\* The jobs are done: list_pages for _close_idle_pages.
NoMoreJobs(w) ==
    /\ me[w].step = "jobs"
    /\ me[w].todo = {}
    /\ me' = [me EXCEPT ![w] = [@ EXCEPT !.step = "close",
                !.pages = {v \in Window : page[v].state \notin {"absent", "CLOSED"}}]]
    /\ UNCHANGED <<job, conv, page, lease, cancelling, chrome>>

\* _page: the key's page in use, if it can be observed and still shows the job's conversation.
\* found: its row may get the URL the window shows; lost: it becomes CLOSED or AMBIGUOUS.
\* (A plausible bug: the identity is not compared.)
Usable_AnyConversation(url, v) == InUse(v) /\ Showing(v)
Usable(url, v) == InUse(v) /\ Showing(v) /\ (url = None \/ at[v] = url)
PageFound(url, v) ==
    IF url # None /\ page[v].url # at[v]
    THEN [page EXCEPT ![v] = [@ EXCEPT !.url = at[v], !.state = "OPEN", !.grace = FALSE]]
    ELSE page
EndPage(v, s) == [page EXCEPT ![v] = [@ EXCEPT !.state = s, !.grace = FALSE]]
\* (A plausible bug: the row of a lost page is left as it is.)
PageLost_NotMarked(url, v, pages) == pages = page
PageLost(url, v, pages) ==
    \/ pages = EndPage(v, "CLOSED")
    \/ /\ Showing(v) /\ ~Usable(url, v)
       /\ pages = EndPage(v, "AMBIGUOUS")

\* _ensure_page with a page in use: mark_page_open stops its idle timer.
ReusePage(w) ==
    /\ me[w].step = "page"
    /\ \E v \in PagesFor(KeyOf(w)) :
          /\ Usable(Cur(w).url, v)
          /\ page' = [PageFound(Cur(w).url, v) EXCEPT ![v] = [@ EXCEPT !.state = "OPEN", !.grace = FALSE]]
          /\ me' = WithWindow(w, "submit", v)
    /\ UNCHANGED <<job, conv, lease, cancelling, chrome>>

LosePage(w) ==
    /\ me[w].step = "page"
    /\ \/ PagesFor(KeyOf(w)) = {} /\ UNCHANGED page
       \/ \E v \in PagesFor(KeyOf(w)) : PageLost(Cur(w).url, v, page')
    /\ me' = Goto(w, "acquire")
    /\ UNCHANGED <<job, conv, lease, cancelling, chrome>>

\* find_existing returns the only window that shows the conversation and raises on several;
\* the probe may also miss them.
Shows(url) == {v \in Window : at[v] = url}
OnlyWindow(v, url) == Shows(url) = {v}

\* The window is there: find_existing, or recover_new after a crash while OPENING.  A window
\* found for a conversation is borrowed, one that carries the job's own tag is owned.
FindWindow(w) ==
    /\ me[w].step = "acquire"
    /\ LET tagged == Cur(w).url = None IN
       /\ tagged => Cur(w).state = "OPENING"
       /\ \E v \in Window :
             /\ OnlyWindow(v, IF tagged THEN Root(Id(w)) ELSE Cur(w).url)
             /\ me' = Acquired(w, v, tagged)
    /\ UNCHANGED <<job, conv, page, lease, cancelling, chrome>>

\* Several windows, or a probe that raises: the except clause of run_once.
AcquireFails(w) ==
    /\ me[w].step = "acquire"
    /\ Cur(w).url # None \/ Cur(w).state = "OPENING"
    /\ job' = SetState(Id(w), "FAILED")
    /\ me' = Skip(w)
    /\ UNCHANGED <<conv, page, lease, cancelling, chrome>>

\* No window is seen and an earlier open is unresolved: it is never repeated.
OpenUnresolved(w) ==
    /\ me[w].step = "acquire"
    /\ Cur(w).state = "OPENING"
    /\ job' = SetState(Id(w), "RECONCILE_REQUIRED")
    /\ me' = Skip(w)
    /\ UNCHANGED <<conv, page, lease, cancelling, chrome>>

PoolFull(w) ==
    /\ me[w].step = "acquire"
    /\ Cur(w).state # "OPENING"
    /\ OwnedOpenCount >= MaxWindows
    /\ me' = Skip(w)
    /\ UNCHANGED <<job, conv, page, lease, cancelling, chrome>>

AuthorizeOpen(w) ==
    /\ me[w].step = "acquire"
    /\ Cur(w).state # "OPENING"
    /\ OwnedOpenCount < MaxWindows
    /\ job' = SetState(Id(w), "OPENING")
    /\ me' = Goto(w, "launch")
    /\ UNCHANGED <<conv, page, lease, cancelling, chrome>>

\* open_existing looks once more before it launches.
OpenFindsWindow(w) ==
    /\ me[w].step = "launch"
    /\ Cur(w).url # None
    /\ \E v \in Window :
          /\ OnlyWindow(v, Cur(w).url)
          /\ me' = Acquired(w, v, FALSE)
    /\ UNCHANGED <<job, conv, page, lease, cancelling, chrome>>

Target(w) == IF Cur(w).url = None THEN Root(Id(w)) ELSE Cur(w).url

Launch(w) ==
    /\ me[w].step = "launch"
    /\ launched' = launched \cup {[id |-> Id(w), place |-> Target(w)]}
    /\ opens' = [opens EXCEPT ![Id(w)] = Twice(@)]
    /\ me' = Goto(w, "poll")
    /\ UNCHANGED <<job, conv, page, lease, cancelling, at, sent, delivered>>

\* Whatever single window shows the conversation during the wait is taken for the new one.
PollWindow(w) ==
    /\ me[w].step = "poll"
    /\ \E v \in Window :
          /\ OnlyWindow(v, Target(w))
          /\ me' = Acquired(w, v, TRUE)
    /\ UNCHANGED <<job, conv, page, lease, cancelling, chrome>>

\* Several windows, none within the timeout, or a failed activation.
OpenRaises(w) ==
    /\ me[w].step \in {"launch", "poll"}
    /\ job' = SetState(Id(w), "RECONCILE_REQUIRED")
    /\ me' = Skip(w)
    /\ UNCHANGED <<conv, page, lease, cancelling, chrome>>

\* upsert_page: ownership of a known window is never given up.
UpsertPage(w) ==
    /\ me[w].step = "upsert"
    /\ page' = [page EXCEPT ![me[w].win] =
                   [state |-> "OPEN", key |-> KeyOf(w), url |-> Target(w),
                    owned |-> @.owned \/ me[w].own, grace |-> FALSE]]
    /\ opens' = [opens EXCEPT ![Id(w)] = 0]
    /\ me' = Goto(w, "bind")
    /\ UNCHANGED <<job, conv, lease, cancelling, at, launched, sent, delivered>>

BindWindow(w) ==
    /\ me[w].step = "bind"
    /\ job' = SetState(Id(w), "WINDOW_BOUND")
    /\ me' = Goto(w, "submit")
    /\ UNCHANGED <<conv, page, lease, cancelling, chrome>>

-----------------------------------------------------------------------------
(***************************************************************************)
(* _submit.                                                                *)
(***************************************************************************)
\* The row is read again, whatever its state, and SUBMITTING is written ahead of the send.
Submit(w) ==
    /\ me[w].step = "submit"
    /\ job' = SetState(Id(w), "SUBMITTING")
    /\ me' = [me EXCEPT ![w] = [@ EXCEPT !.step = "send",
                !.cur = [id |-> Id(w), state |-> "SUBMITTING", url |-> job[Id(w)].url]]]
    /\ UNCHANGED <<conv, page, lease, cancelling, chrome>>

\* The window still shows what the send expects: send_existing compares with the page row and
\* wants a conversation, send_new with the job's tagged project root.
Reachable(w) ==
    LET v == me[w].win IN
    IF Cur(w).url = None THEN at[v] = Root(Id(w)) ELSE at[v] = page[v].url /\ at[v].kind = "chat"

\* A send that raises is settled at once, without the URL it would have reported.
AfterSend(w, result) ==
    [me EXCEPT ![w] = [@ EXCEPT !.step = IF result = "raised" THEN "settle" ELSE "record",
                                !.result = result]]

SendReaches(w, result) ==
    /\ me[w].step = "send"
    /\ Reachable(w)
    /\ sent' = [sent EXCEPT ![Id(w)] = [times |-> Twice(@.times), to |-> at[me[w].win]]]
    /\ me' = AfterSend(w, result)
    /\ UNCHANGED <<job, conv, page, lease, cancelling, at, launched, opens, delivered>>

SendMisses(w, result) ==
    /\ me[w].step = "send"
    /\ me' = AfterSend(w, result)
    /\ UNCHANGED <<job, conv, page, lease, cancelling, chrome>>

\* bind_conversation and update_page_url when the send reported a URL: the page's own, or the
\* conversation a delivered first prompt created.  A conflict raises out of run_once, and the
\* worker's `finally` releases the lease.
ReportedUrl(w) ==
    IF Cur(w).url # None THEN page[me[w].win].url
    ELSE IF me[w].result = "submitted" /\ Showing(me[w].win) /\ at[me[w].win].kind = "chat"
         THEN at[me[w].win] ELSE None

Bind(k, v, url) ==
    /\ conv' = [conv EXCEPT ![k] = url]
    /\ page' = [page EXCEPT ![v] = [@ EXCEPT !.url = url, !.state = "OPEN", !.grace = FALSE]]

RecordUrl(w) ==
    LET url == ReportedUrl(w) IN
    /\ me[w].step = "record"
    /\ \/ /\ url = None
          /\ me' = Goto(w, "settle")
          /\ UNCHANGED <<job, conv, page, lease>>
       \/ /\ url # None /\ ~BoundElsewhere(KeyOf(w), url)
          /\ Bind(KeyOf(w), me[w].win, url)
          /\ job' = BindJobs(job, KeyOf(w), url)
          /\ me' = Goto(w, "settle")
          /\ UNCHANGED lease
       \/ /\ url # None /\ BoundElsewhere(KeyOf(w), url)
          /\ me' = Gone(w) /\ lease' = Released(w)
          /\ UNCHANGED <<job, conv, page>>
    /\ UNCHANGED <<cancelling, chrome>>

\* A plausible bug: a rate-limited job gets a state that the state machine does not have.
Settled_UnknownState(result) ==
    CASE result = "submitted" -> "SUBMITTED"
      [] result \in {"ambiguous", "raised"} -> "RECONCILE_REQUIRED"
      [] result = "limited" -> "RATE_LIMITED"
      [] result = "rejected" -> "FAILED"

Settled(result) ==
    CASE result = "submitted" -> "SUBMITTED"
      [] result \in {"ambiguous", "raised"} -> "RECONCILE_REQUIRED"
      [] result = "limited" -> "RETRY_WAIT"
      [] result = "rejected" -> "FAILED"

SettleSend(w) ==
    /\ me[w].step = "settle"
    /\ job' = [SetState(Id(w), Settled(me[w].result)) EXCEPT
                 ![Id(w)].url = IF me[w].result = "submitted" /\ Cur(w).url # None
                                THEN page[me[w].win].url ELSE @]
    /\ me' = Skip(w)
    /\ UNCHANGED <<conv, page, lease, cancelling, chrome>>

-----------------------------------------------------------------------------
(***************************************************************************)
(* _reconcile.                                                             *)
(***************************************************************************)
\* No page, or it is lost.
ReconcileLost(w) ==
    /\ me[w].step = "reconcile"
    /\ \/ PagesFor(KeyOf(w)) = {} /\ UNCHANGED page
       \/ \E v \in PagesFor(KeyOf(w)) : PageLost(Cur(w).url, v, page')
    /\ me' = Skip(w)
    /\ UNCHANGED <<job, conv, lease, cancelling, chrome>>

\* The job's conversation is known: look for the nonce.
ReconcileKnown(w) ==
    /\ me[w].step = "reconcile"
    /\ Cur(w).url # None
    /\ \E v \in PagesFor(KeyOf(w)) :
          /\ Usable(Cur(w).url, v)
          /\ page' = PageFound(Cur(w).url, v)
          /\ me' = WithWindow(w, "observe", v)
    /\ UNCHANGED <<job, conv, lease, cancelling, chrome>>

\* Not known yet: a conversation URL in the page's window is taken for the one that was created.
ReconcileNew(w) ==
    /\ me[w].step = "reconcile"
    /\ Cur(w).url = None
    /\ \E v \in PagesFor(KeyOf(w)) :
          /\ Usable(None, v)
          /\ \/ /\ at[v].kind = "root"
                /\ me' = Skip(w)
                /\ UNCHANGED <<job, conv, page, lease>>
             \/ /\ at[v].kind = "chat" /\ ~BoundElsewhere(KeyOf(w), at[v])
                /\ Bind(KeyOf(w), v, at[v])
                /\ job' = BindJobs(SetState(Id(w), "SUBMITTED"), KeyOf(w), at[v])
                /\ me' = [me EXCEPT ![w] = [@ EXCEPT !.step = "observe", !.win = v, !.cur.url = at[v]]]
                /\ UNCHANGED lease
             \/ /\ at[v].kind = "chat" /\ BoundElsewhere(KeyOf(w), at[v])
                /\ me' = Gone(w) /\ lease' = Released(w)
                /\ UNCHANGED <<job, conv, page>>
    /\ UNCHANGED <<cancelling, chrome>>

DeliveredTo(j) == IF sent[j].to.kind = "root" THEN Chat(j) ELSE sent[j].to

\* The nonce of the job is on the page it is looked for.
NonceShown(w) ==
    /\ Id(w) \in delivered
    /\ at[me[w].win] = page[me[w].win].url
    /\ at[me[w].win] = DeliveredTo(Id(w))

\* mark_page_idle: an owned page starts its grace period, unless it is already idle.
MarkIdle(v) ==
    [page EXCEPT ![v] = [@ EXCEPT !.state = "IDLE",
                                  !.grace = IF page[v].state = "IDLE" THEN page[v].grace ELSE page[v].owned]]

\* The nonce exactly once and nothing generating.
ObserveAck(w) ==
    /\ me[w].step = "observe"
    /\ NonceShown(w)
    /\ job' = SetState(Id(w), "ACKNOWLEDGED")
    /\ page' = IF \E j \in Job \ {Id(w)} : job[j].key = KeyOf(w) /\ Pending(j) THEN page
               ELSE MarkIdle(me[w].win)
    /\ me' = Skip(w)
    /\ UNCHANGED <<conv, lease, cancelling, chrome>>

\* The nonce more than once, as when the answer quotes it.
ObserveDuplicate(w) ==
    /\ me[w].step = "observe"
    /\ NonceShown(w)
    /\ job' = SetState(Id(w), "RECONCILE_REQUIRED")
    /\ page' = EndPage(me[w].win, "AMBIGUOUS")
    /\ me' = Skip(w)
    /\ UNCHANGED <<conv, lease, cancelling, chrome>>

\* Not observed, not there yet, or still generating.
ObserveNothing(w) ==
    /\ me[w].step = "observe"
    /\ me' = Skip(w)
    /\ UNCHANGED <<job, conv, page, lease, cancelling, chrome>>

-----------------------------------------------------------------------------
(***************************************************************************)
(* _close_idle_pages, should_exit and the end of the worker.               *)
(***************************************************************************)
\* A plausible bug: the pending jobs of the conversation are not looked at.
ClosePass_PendingIgnored(w, v) ==
    /\ me[w].step = "close"
    /\ v \in me[w].pages
    /\ page' = IF page[v].owned /\ page[v].state = "OPEN" THEN MarkIdle(v) ELSE page
    /\ me' = [me EXCEPT ![w] =
                 [@ EXCEPT !.pages = @ \ {v}, !.win = v,
                           !.step = IF page[v].owned /\ page[v].state = "IDLE" /\ ~page[v].grace
                                    THEN "closing" ELSE @]]
    /\ UNCHANGED <<job, conv, lease, cancelling, chrome>>

\* One listed page: an owned one without pending jobs becomes idle, and is closed when its
\* grace period is over.
ClosePass(w, v) ==
    LET free == page[v].owned /\ ~HasPendingForConversation(page[v].key) IN
    /\ me[w].step = "close"
    /\ v \in me[w].pages
    /\ page' = IF free /\ page[v].state = "OPEN" THEN MarkIdle(v) ELSE page
    /\ me' = [me EXCEPT ![w] =
                 [@ EXCEPT !.pages = me[w].pages \ {v}, !.win = v,
                           !.step = IF free /\ page[v].state = "IDLE" /\ ~page[v].grace
                                    THEN "closing" ELSE "close"]]
    /\ UNCHANGED <<job, conv, lease, cancelling, chrome>>

NoMorePages(w) ==
    /\ me[w].step = "close"
    /\ me[w].pages = {}
    /\ me' = WithWindow(w, "exit", None)
    /\ UNCHANGED <<job, conv, page, lease, cancelling, chrome>>

\* close_page only touches a window that still shows what the page row says.
CloseWindow(w, v) ==
    /\ me[w].step = "closing"
    /\ v = me[w].win
    /\ at[v] = page[v].url
    /\ at' = [at EXCEPT ![v] = Shut]
    /\ \E s \in {"CLOSED", "AMBIGUOUS"} : page' = EndPage(v, s)
    /\ me' = Goto(w, "close")
    /\ UNCHANGED <<job, conv, lease, cancelling, launched, opens, sent, delivered>>

\* A plausible bug: a close that could not be proven is tried again in the next pass.
CloseUnproven_Retried(w) ==
    /\ me[w].step = "closing"
    /\ me' = Goto(w, "close")
    /\ UNCHANGED <<job, conv, page, lease, cancelling, chrome>>

\* Nothing was closed: the window is seen absent, or nothing could be proven.
CloseUnproven(w) ==
    /\ me[w].step = "closing"
    /\ \/ page' = EndPage(me[w].win, "AMBIGUOUS")
       \/ at[me[w].win] = Shut /\ page' = EndPage(me[w].win, "CLOSED")
    /\ me' = Goto(w, "close")
    /\ UNCHANGED <<job, conv, lease, cancelling, chrome>>

ShouldExit ==
    IF \E j \in Job : Pending(j)
    THEN \A j \in Job : Pending(j) => job[j].state = "RECONCILE_REQUIRED" /\ ~job[j].wait
    ELSE OwnedOpenCount = 0

DecideExit(w) ==
    /\ me[w].step = "exit"
    /\ me' = Goto(w, IF ShouldExit THEN "leaving" ELSE "loop")
    /\ UNCHANGED <<job, conv, page, lease, cancelling, chrome>>

\* release_lease.
Leave(w) ==
    /\ me[w].step = "leaving"
    /\ lease' = Released(w)
    /\ me' = Gone(w)
    /\ UNCHANGED <<job, conv, page, cancelling, chrome>>

-----------------------------------------------------------------------------
(***************************************************************************)
(* Time, Chrome and its user.                                              *)
(***************************************************************************)
ExpireJob(j) ==
    /\ job[j].wait
    /\ job' = [job EXCEPT ![j].wait = FALSE]
    /\ UNCHANGED <<conv, page, lease, me, cancelling, chrome>>

ExpirePage(v) ==
    /\ page[v].grace
    /\ page' = [page EXCEPT ![v].grace = FALSE]
    /\ UNCHANGED <<job, conv, lease, me, cancelling, chrome>>

ExpireLease ==
    /\ lease # None /\ lease.fresh
    /\ lease' = [lease EXCEPT !.fresh = FALSE]
    /\ UNCHANGED <<job, conv, page, me, cancelling, chrome>>

\* The window of a launch appears, perhaps long after its launcher has gone.
WindowAppears(l, v) ==
    /\ l \in launched
    /\ at[v] = Unborn
    /\ at' = [at EXCEPT ![v] = l.place]
    /\ launched' = launched \ {l}
    /\ UNCHANGED <<store, opens, sent, delivered>>

\* The prompt appears; a project root turns into the conversation it created.
Deliver(j) ==
    /\ sent[j].times > 0
    /\ j \notin delivered
    /\ delivered' = delivered \cup {j}
    /\ at' = [v \in Window |-> IF at[v] = sent[j].to THEN DeliveredTo(j) ELSE at[v]]
    /\ UNCHANGED <<store, launched, opens, sent>>

UserOpens(v, k) ==
    /\ at[v] = Unborn
    /\ at' = [at EXCEPT ![v] = Chat(k)]
    /\ UNCHANGED <<store, launched, opens, sent, delivered>>

UserCloses(v) ==
    /\ Showing(v)
    /\ at' = [at EXCEPT ![v] = Shut]
    /\ UNCHANGED <<store, launched, opens, sent, delivered>>

UserNavigates(v, k) ==
    /\ Showing(v) /\ at[v] # Chat(k)
    /\ at' = [at EXCEPT ![v] = Chat(k)]
    /\ UNCHANGED <<store, launched, opens, sent, delivered>>

-----------------------------------------------------------------------------
\* What a worker does by itself.
WorkerStep(w) ==
    \/ AcquireLease(w) \/ Heartbeat(w) \/ NoMoreJobs(w) \/ (\E row \in me[w].todo : NextJob(w, row))
    \/ ReusePage(w) \/ LosePage(w)
    \/ FindWindow(w) \/ AcquireFails(w) \/ OpenUnresolved(w) \/ PoolFull(w) \/ AuthorizeOpen(w)
    \/ OpenFindsWindow(w) \/ Launch(w) \/ PollWindow(w) \/ OpenRaises(w)
    \/ UpsertPage(w) \/ BindWindow(w) \/ Submit(w)
    \/ (\E r \in {"submitted", "ambiguous", "raised"} : SendReaches(w, r))
    \/ (\E r \in {"ambiguous", "limited", "rejected", "raised"} : SendMisses(w, r))
    \/ RecordUrl(w) \/ SettleSend(w)
    \/ ReconcileLost(w) \/ ReconcileKnown(w) \/ ReconcileNew(w)
    \/ ObserveAck(w) \/ ObserveDuplicate(w) \/ ObserveNothing(w)
    \/ (\E v \in Window : ClosePass(w, v) \/ CloseWindow(w, v))
    \/ NoMorePages(w) \/ CloseUnproven(w) \/ DecideExit(w) \/ Leave(w)

Expire ==
    \/ \E j \in Job : ExpireJob(j)
    \/ \E v \in Window : ExpirePage(v)
    \/ ExpireLease

Client ==
    \/ \E j \in Job, k \in Key : Enqueue(j, k)
    \/ \E j \in Job : CancelRead(j)
    \/ CancelWrite

Browser ==
    \/ \E l \in launched, v \in Window : WindowAppears(l, v)
    \/ \E j \in Job : Deliver(j)
    \/ \E v \in Window : UserCloses(v)
    \/ \E v \in Window, k \in OldKey : UserOpens(v, k) \/ UserNavigates(v, k)

Next ==
    \/ \E w \in Worker : EnsureWorker(w) \/ WorkerStep(w) \/ Crash(w)
    \/ Expire
    \/ Client
    \/ Browser

Spec == Init /\ [][Next]_vars

\* A running worker keeps running, deadlines pass and a cancel that has begun ends.  Nobody
\* has to enqueue, start a worker, deliver a prompt or touch a window.
FairSpec ==
    /\ Spec
    /\ \A w \in Worker : WF_vars(WorkerStep(w))
    /\ \A j \in Job : WF_vars(ExpireJob(j))
    /\ \A v \in Window : WF_vars(ExpirePage(v))
    /\ WF_vars(CancelWrite)

-----------------------------------------------------------------------------
(***************************************************************************)
(* Properties.                                                             *)
(***************************************************************************)
\* "TTL expiry alone is not authority to replace a process that can still perform browser side
\* effects": a worker past acquire_lease owns the lease as long as it lives, so at most one
\* process ever acts on the browser.
WorkersOwnTheLease ==
    \A w \in Worker : Live(w) /\ me[w].step # "starting" => lease # None /\ lease.owner = w

\* SUBMITTING is written ahead, so whatever crashes, cancellations and restarts happen, no
\* prompt is sent a second time once its first send may have had an effect.
SentAtMostOnce == \A j \in Job : sent[j].times <= 1

\* OPENING is "write-ahead authority for a browser-open side effect": a job never launches a
\* second window while the outcome of its first launch is unresolved.
OpenedAtMostOnce == \A j \in Job : opens[j] <= 1

\* No effect on the browser is repeated, by the worker that made it or by its successor.
EffectsAtMostOnce == SentAtMostOnce /\ OpenedAtMostOnce

\* Prompts of one conversation are sent in the order they were enqueued: a job's send starts
\* only when every older job of its key is settled (rowid is "the durable FIFO sequence").
SentInOrder ==
    [][\A j \in Job : sent'[j] # sent[j] =>
          \A i \in Job : i < j /\ job[i].key = job[j].key => ~Pending(i)]_vars

\* A drained queue lets the worker go ("the idle dispatcher must never become a resident leak"):
\* once nothing is pending the worker exits, whatever its windows do.
DrainedWorkerExits ==
    \A w \in Worker :
        Live(w) /\ (\A j \in Job : ~Pending(j)) ~> ~Live(w) \/ (\E j \in Job : Pending(j))

\* "cannot cancel a dispatch whose external send may already have happened".
CancelledNotSent == \A j \in Job : job[j].state = "CANCELLED" => sent[j].times = 0

\* "bind browser mutation to exact task/worker/window identity": the prompt of a job whose
\* conversation is known reaches that conversation and no other, however stale the row it was
\* listed with and wherever the user has taken the window.
SentToItsConversation ==
    [][\A j \in Job : sent'[j] # sent[j] /\ job[j].url # None => sent'[j].to = job[j].url]_vars

\* page_for_conversation takes the last used page of a key; there is never a second one in use,
\* through lost pages, crashes between upsert_page and the job's row, and borrowed windows.
OnePagePerConversation == \A k \in Key : Cardinality(PagesFor(k)) <= 1

\* _close_idle_pages never closes the window in which a prompt of its conversation is being
\* sent, or may have been sent and is not acknowledged.
NotClosedOverASend ==
    [][\A w \in Worker, v \in Window : CloseWindow(w, v) =>
          \A j \in Job : job[j].key = page[v].key =>
              job[j].state \notin {"SUBMITTING", "SUBMITTED", "RECONCILE_REQUIRED"}]_vars
=============================================================================
