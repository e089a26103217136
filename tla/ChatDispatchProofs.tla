------------------------- MODULE ChatDispatchProofs -------------------------
(***************************************************************************)
(* Theorems about ChatDispatch, for any number of jobs, conversations,     *)
(* windows and workers.                                                    *)
(*                                                                         *)
(* The inductive invariant is ChatInv.  Only the owner of the lease is     *)
(* past acquire_lease, so the rows it holds can be related to the store:   *)
(* they may be stale, but only in ways it tells apart.  The center is      *)
(* SettledFirst: once a job has been begun, every older job of its         *)
(* conversation is settled and in nobody's hand, and no step undoes that.  *)
(***************************************************************************)
EXTENDS ChatDispatch, FiniteSetTheorems, TLAPS

-----------------------------------------------------------------------------
(***************************************************************************)
(* The inductive invariant.                                                *)
(***************************************************************************)
\* Past acquire_lease: the worker works on the queue.
Busy(w) == me[w].step \notin {"absent", "starting", "gone"}

\* The steps that lead to a send, the ones with a window, and the ones with a job.
Opening == {"acquire", "launch", "poll", "upsert"}
Sending == {"bind", "submit", "send"}
Sent == {"record", "settle"}
WithPage == Sending \cup Sent \cup {"observe"}
WithJob == {"page", "upsert", "reconcile"} \cup Opening \cup WithPage

HasJob(w) == me[w].step \in WithJob
HasPage(w) == me[w].step \in WithPage

\* What the local variables of the worker hold, by where it is.
LocalsFit(w) ==
    /\ ~Busy(w) => me[w].todo = {}
    /\ HasJob(w) => Cur(w) \in Row
    /\ HasPage(w) \/ me[w].step \in {"upsert", "closing"} => me[w].win \in Window
    /\ me[w].step \in Sent => me[w].result \in Result

\* Jobs are enqueued one after the other, each for a conversation.
QueueFits ==
    \A j \in Job : Known(j) => job[j].key \in Key /\ \A i \in Job : i < j => Known(i)

\* Job i is the worker's current job, or a row it listed and has not come to.
InHand(w, i) == (HasJob(w) /\ Id(w) = i) \/ \E row \in me[w].todo : row.id = i

\* Settled for good: no worker will write it again.
Closed(i) == ~Pending(i) /\ \A w \in Worker : ~InHand(w, i)

SettledFirst(j) == \A i \in Job : i < j /\ job[i].key = job[j].key => Closed(i)

\* A send may have begun; the job has been begun.
InDoubt == {"SUBMITTING", "SUBMITTED", "RECONCILE_REQUIRED"}
Begun == InDoubt \cup {"OPENING", "WINDOW_BOUND", "RETRY_WAIT"}

IsChat(url) == url \in Place /\ url.kind = "chat"

\* The URL of a row read from the store earlier: the job's, or the job has been bound since.
UrlFits(row) ==
    \/ row.url = job[row.id].url
    \/ row.url = None /\ IsChat(job[row.id].url)

\* A listed row.
RowFits(row) ==
    /\ Known(row.id)
    /\ UrlFits(row)
    /\ row.state \in Begun => row.url = job[row.id].url /\ SettledFirst(row.id)
    /\ sent[row.id].times > 0 => row.state \in InDoubt
    /\ opens[row.id] > 0 => row.state \in InDoubt \cup {"OPENING"}

RowsFit(w) ==
    \A row \in me[w].todo :
        /\ RowFits(row)
        /\ \A other \in me[w].todo : other.id = row.id => other = row
        /\ HasJob(w) => Id(w) < row.id

\* The current job and its row.
CurFits(w) ==
    LET j == Id(w) IN
    /\ Known(j)
    /\ SettledFirst(j)
    /\ UrlFits(Cur(w))
    /\ me[w].step = "reconcile" \/ me[w].step \in {"send", "record"} => Cur(w).url = job[j].url
    /\ me[w].step \in {"page"} \cup Opening \cup Sending => sent[j].times = 0
    /\ me[w].step \in Sent /\ me[w].result \in {"limited", "rejected"} => sent[j].times = 0
    /\ me[w].step \in {"page", "acquire"} /\ opens[j] > 0 => Cur(w).state = "OPENING"
    /\ me[w].step \in {"launch"} \cup Sending \cup Sent => opens[j] = 0
    /\ me[w].step = "launch" => job[j].state \in {"OPENING", "CANCELLED"}
    /\ me[w].step = "send" => job[j].state \in {"SUBMITTING", "CANCELLED"}

\* No page of the conversation is in use while a window is looked for, and then only this one.
PageFits(w) ==
    /\ me[w].step \in Opening => PagesFor(KeyOf(w)) = {}
    /\ HasPage(w) => me[w].win \in PagesFor(KeyOf(w))

\* The page a prompt goes to shows the job's conversation, or none yet.
SendFits(w) ==
    LET url == page[me[w].win].url IN
    /\ me[w].step \in Sending \cup Sent =>
          (IsChat(url) /\ job[Id(w)].url # None => url = job[Id(w)].url)
    /\ me[w].step \in Sent /\ me[w].result = "submitted" /\ Cur(w).url # None => IsChat(url)

\* A page is about to be closed.
ClosingFits(w) ==
    me[w].step = "closing" =>
        \A j \in Job : job[j].key = page[me[w].win].key => job[j].state \notin InDoubt

WorkerFits(w) ==
    /\ RowsFit(w)
    /\ HasJob(w) => CurFits(w)
    /\ PageFits(w)
    /\ SendFits(w)
    /\ ClosingFits(w)

\* What the history of a job's effects says of its state.
JobFits(j) ==
    /\ job[j].state \in Begun => SettledFirst(j)
    /\ sent[j].times <= 1
    /\ sent[j].times > 0 => job[j].state \in InDoubt \cup {"ACKNOWLEDGED", "CANCELLED"}
    /\ opens[j] <= 1
    /\ opens[j] > 0 => /\ job[j].state \in InDoubt \cup Terminal \cup {"OPENING"}
                       /\ SettledFirst(j)
                       /\ Closed(j) \/ PagesFor(job[j].key) = {}

\* Two pages in use never belong to one conversation.
PagesDiffer ==
    \A v, u \in Window : InUse(v) /\ InUse(u) /\ page[v].key = page[u].key => v = u

\* A key is bound when its jobs are, and only a key enqueued with a project URL is ever unbound.
KeysBound ==
    /\ \A j \in Job : Known(j) =>
          /\ job[j].url = None <=> conv[job[j].key] = None
          /\ job[j].url = None => job[j].key \in NewKey
    /\ \A v \in Window : InUse(v) =>
          page[v].key \in Key /\ (page[v].key \in NewKey \/ conv[page[v].key] # None)

\* Something in the store says that key k is conversation url.
Says(k, url) ==
    \/ conv[k] = url
    \/ \E j \in Job : Known(j) /\ job[j].key = k /\ job[j].url = url
    \/ \E v \in PagesFor(k) : page[v].url = url

OneConversation ==
    \A k \in Key : \A c, d \in Place :
        IsChat(c) /\ IsChat(d) /\ Says(k, c) /\ Says(k, d) => c = d

\* A client cancels a job it has read.
CancelFits == cancelling # None => Known(cancelling)

ChatInv ==
    /\ TypeOK
    /\ CancelFits
    /\ WorkersOwnTheLease
    /\ \A w \in Worker : LocalsFit(w)
    /\ QueueFits
    /\ \A w \in Worker : WorkerFits(w)
    /\ \A j \in Job : JobFits(j)
    /\ PagesDiffer
    /\ KeysBound
    /\ OneConversation

-----------------------------------------------------------------------------
(***************************************************************************)
(* Types.                                                                  *)
(***************************************************************************)
Mine == [step : Step, todo : SUBSET Row, cur : Row \cup {None}, win : Window \cup {None},
         own : BOOLEAN, pages : SUBSET Window, result : Result \cup {None}]
JobRow == [state : JobState \cup {"absent"}, key : Key \cup {None}, url : Place \cup {None},
           wait : BOOLEAN]
PageRow == [state : PageState \cup {"absent"}, key : Key \cup {None}, url : Place \cup {None},
            owned : BOOLEAN, grace : BOOLEAN]

\* What Goto, Skip and Gone leave in the locals of worker w.
LEMMA GotoFacts ==
  ASSUME me \in [Worker -> Mine], NEW w \in Worker, NEW s \in Step
  PROVE  /\ Goto(w, s) \in [Worker -> Mine]
         /\ \A x \in Worker \ {w} : Goto(w, s)[x] = me[x]
         /\ Goto(w, s)[w].step = s
         /\ Goto(w, s)[w].todo = me[w].todo /\ Goto(w, s)[w].cur = me[w].cur
         /\ Goto(w, s)[w].win = me[w].win /\ Goto(w, s)[w].own = me[w].own
         /\ Goto(w, s)[w].pages = me[w].pages /\ Goto(w, s)[w].result = me[w].result
BY DEF Goto, Mine

LEMMA SkipFacts ==
  ASSUME me \in [Worker -> Mine], NEW w \in Worker
  PROVE  /\ Skip(w) \in [Worker -> Mine]
         /\ \A x \in Worker \ {w} : Skip(w)[x] = me[x]
         /\ Skip(w)[w].step = "jobs"
         /\ Skip(w)[w].todo = me[w].todo
<1> DEFINE m == [me[w] EXCEPT !.step = "jobs", !.cur = None, !.win = None, !.own = FALSE,
                              !.result = None]
<1>1. me[w] \in Mine
  OBVIOUS
<1>2. m \in Mine
  BY <1>1 DEF Mine, Step
<1>3. m.step = "jobs" /\ m.todo = me[w].todo
  BY <1>1 DEF Mine
<1>4. Skip(w) = [me EXCEPT ![w] = m]
  BY DEF Skip
<1> HIDE DEF m
<1> QED BY <1>2, <1>3, <1>4

LEMMA GoneFacts ==
  ASSUME me \in [Worker -> Mine], NEW w \in Worker
  PROVE  /\ Gone(w) \in [Worker -> Mine]
         /\ \A x \in Worker \ {w} : Gone(w)[x] = me[x]
         /\ Gone(w)[w].step = "gone"
         /\ Gone(w)[w].todo = {}
BY DEF Gone, Idle, Mine, Step

LEMMA SetStateFacts ==
  ASSUME job \in [Job -> JobRow], NEW j \in Job, NEW s \in JobState
  PROVE  /\ SetState(j, s) \in [Job -> JobRow]
         /\ \A i \in Job : /\ SetState(j, s)[i].state = (IF i = j THEN s ELSE job[i].state)
                           /\ SetState(j, s)[i].key = job[i].key
                           /\ SetState(j, s)[i].url = job[i].url
<1> DEFINE b == s \in {"RECONCILE_REQUIRED", "RETRY_WAIT"}
           r == [job[j] EXCEPT !.state = s, !.wait = b]
<1>1. job[j] \in JobRow /\ b \in BOOLEAN
  OBVIOUS
<1>2. SetState(j, s) = [job EXCEPT ![j] = r]
  BY DEF SetState
<1> HIDE DEF b
<1>3. r \in JobRow
  BY <1>1 DEF JobRow
<1>4. r.state = s /\ r.key = job[j].key /\ r.url = job[j].url
  BY <1>1 DEF JobRow
<1> HIDE DEF r
<1> QED BY <1>2, <1>3, <1>4

LEMMA WithWindowFacts ==
  ASSUME me \in [Worker -> Mine], NEW w \in Worker, NEW s \in Step, NEW v \in Window \cup {None}
  PROVE  /\ WithWindow(w, s, v) \in [Worker -> Mine]
         /\ \A x \in Worker \ {w} : WithWindow(w, s, v)[x] = me[x]
         /\ WithWindow(w, s, v)[w].step = s /\ WithWindow(w, s, v)[w].win = v
         /\ WithWindow(w, s, v)[w].todo = me[w].todo /\ WithWindow(w, s, v)[w].cur = me[w].cur
         /\ WithWindow(w, s, v)[w].result = me[w].result
<1> DEFINE m == [me[w] EXCEPT !.step = s, !.win = v]
<1>1. me[w] \in Mine
  OBVIOUS
<1>2. m \in Mine
  BY <1>1 DEF Mine
<1>3. m.step = s /\ m.win = v /\ m.todo = me[w].todo /\ m.cur = me[w].cur /\ m.result = me[w].result
  BY <1>1 DEF Mine
<1>4. WithWindow(w, s, v) = [me EXCEPT ![w] = m]
  BY DEF WithWindow
<1> HIDE DEF m
<1> QED BY <1>2, <1>3, <1>4

LEMMA AcquiredFacts ==
  ASSUME me \in [Worker -> Mine], NEW w \in Worker, NEW v \in Window, NEW own \in BOOLEAN
  PROVE  /\ Acquired(w, v, own) \in [Worker -> Mine]
         /\ \A x \in Worker \ {w} : Acquired(w, v, own)[x] = me[x]
         /\ Acquired(w, v, own)[w].step = "upsert" /\ Acquired(w, v, own)[w].win = v
         /\ Acquired(w, v, own)[w].todo = me[w].todo /\ Acquired(w, v, own)[w].cur = me[w].cur
         /\ Acquired(w, v, own)[w].result = me[w].result
<1> DEFINE m == [me[w] EXCEPT !.step = "upsert", !.win = v, !.own = own]
<1>1. me[w] \in Mine
  OBVIOUS
<1>2. m \in Mine
  BY <1>1 DEF Mine, Step
<1>3. /\ m.step = "upsert" /\ m.win = v /\ m.todo = me[w].todo /\ m.cur = me[w].cur
      /\ m.result = me[w].result
  BY <1>1 DEF Mine
<1>4. Acquired(w, v, own) = [me EXCEPT ![w] = m]
  BY DEF Acquired
<1> HIDE DEF m
<1> QED BY <1>2, <1>3, <1>4

LEMMA AfterSendFacts ==
  ASSUME me \in [Worker -> Mine], NEW w \in Worker, NEW r \in Result
  PROVE  /\ AfterSend(w, r) \in [Worker -> Mine]
         /\ \A x \in Worker \ {w} : AfterSend(w, r)[x] = me[x]
         /\ AfterSend(w, r)[w].step \in Sent /\ AfterSend(w, r)[w].result = r
         /\ AfterSend(w, r)[w].todo = me[w].todo /\ AfterSend(w, r)[w].cur = me[w].cur
         /\ AfterSend(w, r)[w].win = me[w].win
<1> DEFINE s == IF r = "raised" THEN "settle" ELSE "record"
           m == [me[w] EXCEPT !.step = s, !.result = r]
<1>1. me[w] \in Mine /\ s \in Sent /\ s \in Step
  BY DEF Sent, Step
<1>2. AfterSend(w, r) = [me EXCEPT ![w] = m]
  BY DEF AfterSend
<1> HIDE DEF s
<1>3. m \in Mine
  BY <1>1 DEF Mine
<1>4. m.step = s /\ m.win = me[w].win /\ m.todo = me[w].todo /\ m.cur = me[w].cur /\ m.result = r
  BY <1>1 DEF Mine
<1> HIDE DEF m
<1> QED BY <1>1, <1>2, <1>3, <1>4

\* mark_page_closed and mark_page_idle.
LEMMA EndPageFacts ==
  ASSUME page \in [Window -> PageRow], NEW v \in Window, NEW s \in PageState
  PROVE  /\ EndPage(v, s) \in [Window -> PageRow]
         /\ \A u \in Window \ {v} : EndPage(v, s)[u] = page[u]
         /\ EndPage(v, s)[v].state = s
         /\ EndPage(v, s)[v].key = page[v].key /\ EndPage(v, s)[v].url = page[v].url
<1> DEFINE p == [page[v] EXCEPT !.state = s, !.grace = FALSE]
<1>1. page[v] \in PageRow
  OBVIOUS
<1>2. p \in PageRow /\ p.state = s /\ p.key = page[v].key /\ p.url = page[v].url
  BY <1>1 DEF PageRow
<1>3. EndPage(v, s) = [page EXCEPT ![v] = p]
  BY DEF EndPage
<1> HIDE DEF p
<1> QED BY <1>2, <1>3

LEMMA MarkIdleFacts ==
  ASSUME page \in [Window -> PageRow], NEW v \in Window
  PROVE  /\ MarkIdle(v) \in [Window -> PageRow]
         /\ \A u \in Window \ {v} : MarkIdle(v)[u] = page[u]
         /\ MarkIdle(v)[v].state = "IDLE"
         /\ MarkIdle(v)[v].key = page[v].key /\ MarkIdle(v)[v].url = page[v].url
<1> DEFINE g == IF page[v].state = "IDLE" THEN page[v].grace ELSE page[v].owned
           p == [page[v] EXCEPT !.state = "IDLE", !.grace = g]
<1>1. page[v] \in PageRow
  OBVIOUS
<1>2. g \in BOOLEAN
  BY <1>1 DEF PageRow
<1>3. MarkIdle(v) = [page EXCEPT ![v] = p]
  BY DEF MarkIdle
<1> HIDE DEF g
<1>4. p \in PageRow /\ p.state = "IDLE" /\ p.key = page[v].key /\ p.url = page[v].url
  BY <1>1, <1>2 DEF PageRow, PageState
<1> HIDE DEF p
<1> QED BY <1>3, <1>4

\* Only the page of window v is written.
Paged(pages, v) == pages \in [Window -> PageRow] /\ \A u \in Window \ {v} : pages[u] = page[u]

LEMMA PageFoundFacts ==
  ASSUME page \in [Window -> PageRow], NEW v \in Window, NEW url \in Place \cup {None},
         Usable(url, v)
  PROVE  LET p == PageFound(url, v) IN
         /\ Paged(p, v)
         /\ p[v].state \in {"OPEN", "IDLE"} /\ p[v].key = page[v].key
         /\ p[v].url = IF url = None THEN page[v].url ELSE url
<1>1. page[v] \in PageRow /\ page[v].state \in {"OPEN", "IDLE"}
  BY DEF Usable, InUse
<1>2. CASE url # None /\ page[v].url # at[v]
  <2> DEFINE r == [page[v] EXCEPT !.url = at[v], !.state = "OPEN", !.grace = FALSE]
  <2>1. at[v] = url /\ url \in Place
    BY <1>2 DEF Usable
  <2>2. r \in PageRow /\ r.state = "OPEN" /\ r.key = page[v].key /\ r.url = url
    BY <1>1, <2>1 DEF PageRow, PageState
  <2>3. PageFound(url, v) = [page EXCEPT ![v] = r]
    BY <1>2 DEF PageFound
  <2> HIDE DEF r
  <2> QED BY <1>2, <2>2, <2>3 DEF Paged
<1>3. CASE ~(url # None /\ page[v].url # at[v])
  <2>1. PageFound(url, v) = page
    BY <1>3 DEF PageFound
  <2> QED BY <1>1, <1>3, <2>1 DEF Paged, Usable
<1> QED BY <1>2, <1>3

\* The page a job is about to be sent to: found, and its idle timer stopped.
LEMMA ReusedFacts ==
  ASSUME page \in [Window -> PageRow], NEW v \in Window, NEW url \in Place \cup {None},
         Usable(url, v),
         page' = [PageFound(url, v) EXCEPT ![v] = [@ EXCEPT !.state = "OPEN", !.grace = FALSE]]
  PROVE  /\ Paged(page', v)
         /\ page'[v].state = "OPEN" /\ page'[v].key = page[v].key
         /\ page'[v].url = IF url = None THEN page[v].url ELSE url
<1> DEFINE p == PageFound(url, v)
           r == [p[v] EXCEPT !.state = "OPEN", !.grace = FALSE]
<1>1. /\ Paged(p, v)
      /\ p[v].state \in {"OPEN", "IDLE"} /\ p[v].key = page[v].key
      /\ p[v].url = IF url = None THEN page[v].url ELSE url
  BY PageFoundFacts
<1>2. page' = [p EXCEPT ![v] = r]
  OBVIOUS
<1> HIDE DEF p
<1>3. p[v] \in PageRow
  BY <1>1 DEF Paged
<1>4. r \in PageRow /\ r.state = "OPEN" /\ r.key = p[v].key /\ r.url = p[v].url
  BY <1>3 DEF PageRow, PageState
<1> HIDE DEF r
<1> QED BY <1>1, <1>2, <1>4 DEF Paged

\* bind_conversation and update_page_url.
LEMMA BindFacts ==
  ASSUME page \in [Window -> PageRow], conv \in [Key -> Place \cup {None}],
         NEW k \in Key, NEW v \in Window, NEW url \in Place, Bind(k, v, url)
  PROVE  /\ conv' \in [Key -> Place \cup {None}]
         /\ \A q \in Key : conv'[q] = IF q = k THEN url ELSE conv[q]
         /\ Paged(page', v)
         /\ page'[v].state = "OPEN" /\ page'[v].key = page[v].key /\ page'[v].url = url
<1> DEFINE r == [page[v] EXCEPT !.url = url, !.state = "OPEN", !.grace = FALSE]
<1>1. page[v] \in PageRow
  OBVIOUS
<1>2. r \in PageRow /\ r.state = "OPEN" /\ r.key = page[v].key /\ r.url = url
  BY <1>1 DEF PageRow, PageState
<1>3. page' = [page EXCEPT ![v] = r]
  BY DEF Bind
<1>4. conv' = [conv EXCEPT ![k] = url]
  BY DEF Bind
<1> HIDE DEF r
<1>5. /\ Paged(page', v)
      /\ page'[v].state = "OPEN" /\ page'[v].key = page[v].key /\ page'[v].url = url
  BY <1>2, <1>3 DEF Paged
<1> QED BY <1>4, <1>5

LEMMA BindJobsFacts ==
  ASSUME NEW js \in [Job -> JobRow], NEW k, NEW url \in Place \cup {None}
  PROVE  LET b == BindJobs(js, k, url) IN
         /\ b \in [Job -> JobRow]
         /\ \A j \in Job : /\ b[j].state = js[j].state /\ b[j].key = js[j].key
                           /\ b[j].url = IF js[j].key = k /\ js[j].url = None THEN url ELSE js[j].url
<1> DEFINE b == BindJobs(js, k, url)
<1> SUFFICES /\ DOMAIN b = Job /\ b = [j \in Job |-> b[j]]
             /\ \A j \in Job : /\ b[j] \in JobRow
                               /\ b[j].state = js[j].state /\ b[j].key = js[j].key
                               /\ b[j].url = IF js[j].key = k /\ js[j].url = None THEN url
                                             ELSE js[j].url
  OBVIOUS
<1>1. DOMAIN b = Job /\ b = [j \in Job |-> b[j]]
  BY DEF BindJobs
<1>2. ASSUME NEW j \in Job
      PROVE  /\ b[j] \in JobRow
             /\ b[j].state = js[j].state /\ b[j].key = js[j].key
             /\ b[j].url = IF js[j].key = k /\ js[j].url = None THEN url ELSE js[j].url
  <2>1. js[j] \in JobRow
    OBVIOUS
  <2>2. b[j] = IF js[j].key = k /\ js[j].url = None THEN [js[j] EXCEPT !.url = url] ELSE js[j]
    BY DEF BindJobs
  <2> HIDE DEF b
  <2> QED BY <2>1, <2>2 DEF JobRow
<1> QED BY <1>1, <1>2

-----------------------------------------------------------------------------
(***************************************************************************)
(* What steps have in common.                                              *)
(***************************************************************************)
\* The type invariant and the locals, in the form the proofs use.
Typed ==
    /\ job \in [Job -> JobRow]
    /\ conv \in [Key -> Place \cup {None}]
    /\ page \in [Window -> PageRow]
    /\ lease \in [owner : Worker, fresh : BOOLEAN] \cup {None}
    /\ me \in [Worker -> Mine]
    /\ cancelling \in Job \cup {None}
    /\ at \in [Window -> Place \cup {Unborn, Shut}]
    /\ launched \subseteq [id : Job, place : Place]
    /\ opens \in [Job -> 0 .. 2]
    /\ sent \in [Job -> [times : 0 .. 2, to : Place \cup {None}]]
    /\ delivered \subseteq Job

LEMMA TypesTyped == TypeOK <=> Typed
BY DEF TypeOK, Typed, JobRow, PageRow, Mine

\* Only the locals of worker w change.
Turns(w) == me' \in [Worker -> Mine] /\ \A x \in Worker \ {w} : me'[x] = me[x]

\* The worker ends up with no job in hand but the rows it has listed.
Rests(w) ==
    /\ Turns(w)
    /\ me'[w].step \notin WithJob \cup {"closing"}
    /\ me'[w].todo \subseteq me[w].todo

\* The worker goes on with its job at step s.
GoesOn(w, s) ==
    /\ Turns(w)
    /\ me'[w].step = s
    /\ me'[w].todo = me[w].todo /\ me'[w].cur = me[w].cur /\ me'[w].result = me[w].result

\* Job j gets state s.
Puts(j, s) ==
    /\ job' \in [Job -> JobRow]
    /\ \A i \in Job : /\ job'[i].state = IF i = j THEN s ELSE job[i].state
                      /\ job'[i].key = job[i].key /\ job'[i].url = job[i].url

\* No page comes into use, and none gets another key or URL.
Shrinks ==
    /\ page' \in [Window -> PageRow]
    /\ \A v \in Window : /\ InUse(v)' => InUse(v)
                         /\ page'[v].key = page[v].key /\ page'[v].url = page[v].url

\* Known jobs stay known under their key, and what is settled for good stays so.
Stays ==
    \A j \in Job : Known(j) =>
        /\ Known(j)' /\ job'[j].key = job[j].key
        /\ Closed(j) => Closed(j)'

\* Once the older jobs of its conversation are settled for good, they stay so.
LEMMA SettledStays ==
  ASSUME QueueFits, Stays, NEW j \in Job, Known(j), SettledFirst(j)
  PROVE  SettledFirst(j)'
<1> SUFFICES ASSUME NEW i \in Job, i < j, job'[i].key = job'[j].key
             PROVE  Closed(i)'
  BY DEF SettledFirst
<1>1. Known(i)
  BY DEF QueueFits
<1>2. job[i].key = job[j].key
  BY <1>1 DEF Stays
<1>3. Closed(i)
  BY <1>2 DEF SettledFirst
<1> QED BY <1>1, <1>3 DEF Stays

\* A step of a worker writes only jobs it has in hand and takes up only pending ones.
LEMMA TurnStays ==
  ASSUME Typed, NEW w \in Worker, Turns(w),
         \A j \in Job : /\ job'[j].key = job[j].key
                        /\ \/ job'[j].state = job[j].state
                           \/ job'[j].state # "absent" /\ InHand(w, j),
         \A j \in Job : InHand(w, j)' => InHand(w, j) \/ Pending(j)
  PROVE  Stays
<1> SUFFICES ASSUME NEW j \in Job, Known(j)
             PROVE  Known(j)' /\ (Closed(j) => Closed(j)')
  BY DEF Stays
<1>1. Known(j)'
  BY DEF Known
<1>2. ASSUME Closed(j) PROVE Closed(j)'
  <2>1. ~Pending(j) /\ \A x \in Worker : ~InHand(x, j)
    BY <1>2 DEF Closed
  <2>2. ~Pending(j)'
    BY <2>1 DEF Pending, Known
  <2>3. ASSUME NEW x \in Worker, x # w PROVE ~InHand(x, j)'
    BY <2>1, <2>3 DEF InHand, Turns, HasJob, Id
  <2>4. ~InHand(w, j)'
    BY <2>1
  <2> QED BY <2>2, <2>3, <2>4 DEF Closed
<1> QED BY <1>1, <1>2

\* The usual case: the job in hand is still the same, or there is none.
LEMMA HandKept ==
  ASSUME NEW w \in Worker, me'[w].todo \subseteq me[w].todo,
         HasJob(w)' => HasJob(w) /\ Id(w)' = Id(w),
         NEW j \in Job, InHand(w, j)'
  PROVE  InHand(w, j)
BY DEF InHand

\* A worker that is not busy has nothing to fit.
LEMMA IdleFits ==
  ASSUME NEW x \in Worker, ~Busy(x), LocalsFit(x)
  PROVE  WorkerFits(x)
BY DEF Busy, LocalsFit, WorkerFits, RowsFit, HasJob, PageFits, HasPage, SendFits, ClosingFits,
       WithJob, WithPage, Opening, Sending, Sent

LEMMA OnlyOneBusy ==
  ASSUME WorkersOwnTheLease, NEW w \in Worker, NEW x \in Worker, Busy(w), Busy(x)
  PROVE  x = w
BY DEF WorkersOwnTheLease, Busy, Live

LEMMA RowsKept ==
  ASSUME QueueFits, Stays, Typed, NEW w \in Worker, RowsFit(w),
         me'[w].todo \subseteq me[w].todo,
         HasJob(w)' => \A row \in me'[w].todo : Id(w)' < row.id,
         \A row \in me'[w].todo :
             /\ sent'[row.id] = sent[row.id] /\ opens'[row.id] = opens[row.id]
             /\ \/ job'[row.id].url = job[row.id].url
                \/ job[row.id].url = None /\ IsChat(job'[row.id].url) /\ row.state \notin Begun
  PROVE  RowsFit(w)'
<1> SUFFICES ASSUME NEW row \in me'[w].todo
             PROVE  RowFits(row)'
  BY DEF RowsFit
<1>1. RowFits(row) /\ row \in Row /\ row.id \in Job
  BY DEF RowsFit, Typed, Mine, Row
<1>2. Known(row.id)' /\ (SettledFirst(row.id) => SettledFirst(row.id)')
  BY <1>1, SettledStays DEF RowFits, Stays
<1>3. UrlFits(row)'
  BY <1>1 DEF RowFits, UrlFits
<1>4. row.state \in Begun => row.url = job'[row.id].url
  BY <1>1 DEF RowFits
<1> HIDE DEF SettledFirst, Known
<1> QED BY <1>1, <1>2, <1>3, <1>4 DEF RowFits

LEMMA ShrinkPages ==
  ASSUME Shrinks, NEW k
  PROVE  PagesFor(k)' \subseteq PagesFor(k)
BY DEF Shrinks, PagesFor

\* Steps that leave every key, URL and binding alone.
NamesKept ==
    /\ \A j \in Job : /\ Known(j)' <=> Known(j)
                      /\ job'[j].key = job[j].key /\ job'[j].url = job[j].url
    /\ conv' = conv
    /\ Shrinks

Names == QueueFits /\ PagesDiffer /\ KeysBound /\ OneConversation

LEMMA NamesStay ==
  ASSUME Names, NamesKept
  PROVE  Names'
<1>1. QueueFits'
  BY DEF Names, QueueFits, NamesKept
<1>2. PagesDiffer'
  BY DEF Names, PagesDiffer, NamesKept, Shrinks
<1>3. KeysBound'
  BY DEF Names, KeysBound, NamesKept, Shrinks
<1>4. ASSUME NEW k \in Key, NEW c \in Place, Says(k, c)'
      PROVE  Says(k, c)
  <2>1. CASE conv'[k] = c
    BY <2>1 DEF NamesKept, Says
  <2>2. CASE \E j \in Job : Known(j)' /\ job'[j].key = k /\ job'[j].url = c
    BY <2>2 DEF NamesKept, Says
  <2>3. CASE \E v \in PagesFor(k)' : page'[v].url = c
    BY <2>3, ShrinkPages DEF NamesKept, Says, Shrinks, PagesFor
  <2> QED BY <1>4, <2>1, <2>2, <2>3 DEF Says
<1>5. OneConversation'
  BY <1>4 DEF Names, OneConversation
<1> QED BY <1>1, <1>2, <1>3, <1>5 DEF Names

\* A job's fit survives a step that leaves its state alone, or puts one that fits its history.
LEMMA JobsKept ==
  ASSUME QueueFits, Stays, Typed, NEW j \in Job, JobFits(j),
         sent'[j] = sent[j], opens'[j] = opens[j],
         opens[j] > 0 => Closed(j) \/ PagesFor(job[j].key)' = {},
         \/ job'[j].state = job[j].state
         \/ /\ Known(j)
            /\ job'[j].state \in Begun => SettledFirst(j)
            /\ sent[j].times > 0 => job'[j].state \in InDoubt \cup {"ACKNOWLEDGED", "CANCELLED"}
            /\ opens[j] > 0 => job'[j].state \in InDoubt \cup Terminal \cup {"OPENING"}
  PROVE  JobFits(j)'
<1>1. opens[j] > 0 \/ job[j].state \in Begun => Known(j)
  BY DEF JobFits, InDoubt, Terminal, Known, Begun
<1>2. job'[j].state \in Begun => SettledFirst(j)'
  BY <1>1, SettledStays DEF JobFits
<1>3. opens[j] > 0 => SettledFirst(j)' /\ job'[j].key = job[j].key /\ (Closed(j) => Closed(j)')
  BY <1>1, SettledStays DEF JobFits, Stays
<1>4. opens[j] > 0 => Closed(j)' \/ PagesFor(job[j].key)' = {}
  BY <1>3
<1> HIDE DEF SettledFirst, Closed
<1>5. opens[j] > 0 => Closed(j)' \/ (PagesFor(job[j].key) = {})'
  BY <1>3, <1>4 DEF PagesFor
<1> QED BY <1>2, <1>3, <1>5 DEF JobFits

\* A step of somebody else that leaves the store as worker x relies on it.
LEMMA OthersFit ==
  ASSUME QueueFits, Stays, Typed, NEW x \in Worker, LocalsFit(x), WorkerFits(x),
         me'[x] = me[x], sent' = sent, opens' = opens,
         \A j \in Job : /\ Known(j) => /\ job'[j].url = job[j].url
                                        /\ job'[j].state \in {job[j].state, "CANCELLED"}
                        /\ job'[j].state \in InDoubt =>
                              job'[j].state = job[j].state /\ job'[j].key = job[j].key,
         \A v \in Window : /\ page'[v].state = page[v].state /\ page'[v].key = page[v].key
                           /\ page'[v].url = page[v].url
  PROVE  WorkerFits(x)'
<1>1. /\ HasJob(x)' <=> HasJob(x)
      /\ HasPage(x)' <=> HasPage(x)
      /\ Cur(x)' = Cur(x) /\ Id(x)' = Id(x)
  BY DEF HasJob, HasPage, Cur, Id
<1>2. RowsFit(x)'
  <2>1. \A row \in me[x].todo : row.id \in Job /\ Known(row.id)
    BY DEF Typed, Mine, Row, WorkerFits, RowsFit, RowFits
  <2> QED BY <1>1, <2>1, RowsKept DEF WorkerFits, RowsFit
<1>3. HasJob(x) => Id(x) \in Job /\ Known(Id(x))
  BY DEF LocalsFit, Row, Cur, Id, WorkerFits, CurFits
<1>4. HasJob(x) => CurFits(x)'
  <2> SUFFICES ASSUME HasJob(x) PROVE CurFits(x)'
    OBVIOUS
  <2> DEFINE j == Id(x)
  <2>1. CurFits(x) /\ j \in Job /\ Known(j)
    BY <1>3 DEF WorkerFits
  <2>2. /\ Known(j)' /\ SettledFirst(j)' /\ job'[j].url = job[j].url
        /\ job'[j].state \in {job[j].state, "CANCELLED"}
    <3> HIDE DEF j
    <3>1. PICK i \in Job : i = j
      BY <2>1
    <3>2. /\ Known(i)' /\ SettledFirst(i)' /\ job'[i].url = job[i].url
          /\ job'[i].state \in {job[i].state, "CANCELLED"}
      BY <2>1, <3>1, SettledStays DEF CurFits, Stays, j
    <3> QED BY <3>1, <3>2, <1>1 DEF j
  <2>3. UrlFits(Cur(x)) => UrlFits(Cur(x))'
    BY <1>1, <2>2, <2>1 DEF UrlFits, Id, Cur
  <2> QED BY <1>1, <2>1, <2>2, <2>3 DEF CurFits
<1>5. PageFits(x)' /\ SendFits(x)'
  <2>1. ASSUME NEW k PROVE PagesFor(k)' = PagesFor(k)
    BY DEF PagesFor, InUse
  <2>2. HasJob(x) => KeyOf(x)' = KeyOf(x) /\ job'[Id(x)].url = job[Id(x)].url
    BY <1>1, <1>3 DEF KeyOf, Stays
  <2>3. me[x].step \in Opening \cup WithPage => HasJob(x)
    BY DEF HasJob, WithJob
  <2>4. PageFits(x)'
    <3>1. PICK k : k = KeyOf(x)
      OBVIOUS
    <3> QED BY <1>1, <2>1, <2>2, <2>3, <3>1 DEF WorkerFits, PageFits, HasPage
  <2>5. me[x].step \in Sending \cup Sent => me[x].win \in Window
    BY DEF LocalsFit, HasPage, WithPage
  <2>6. SendFits(x)'
    BY <1>1, <2>2, <2>3, <2>5 DEF WorkerFits, SendFits, WithPage
  <2> QED BY <2>4, <2>6
<1>6. ClosingFits(x)'
  <2>1. me[x].step = "closing" => me[x].win \in Window
    BY DEF LocalsFit
  <2> QED BY <2>1 DEF WorkerFits, ClosingFits
<1> QED BY <1>1, <1>2, <1>4, <1>5, <1>6 DEF WorkerFits

-----------------------------------------------------------------------------
(***************************************************************************)
(* Steps of a busy worker.                                                 *)
(***************************************************************************)
\* The invariant but for the types and the lease.
StoreFits == Names /\ \A j \in Job : JobFits(j)

\* What a step needs of the state it starts in.
Ready(w) ==
    /\ Typed /\ WorkersOwnTheLease
    /\ \A x \in Worker : LocalsFit(x) /\ WorkerFits(x)
    /\ StoreFits
    /\ w \in Worker /\ Busy(w)

\* A job state that agrees with what may have been sent and opened for job j.
StateFits(j, s) ==
    /\ s # "absent"
    /\ sent[j].times > 0 => s \in InDoubt \cup {"ACKNOWLEDGED", "CANCELLED"}
    /\ opens[j] > 0 => s \in InDoubt \cup Terminal \cup {"OPENING"}

LEMMA CurFacts ==
  ASSUME NEW w \in Worker, Ready(w), HasJob(w)
  PROVE  /\ Cur(w) \in Row /\ Id(w) \in Job /\ Known(Id(w)) /\ SettledFirst(Id(w))
         /\ InHand(w, Id(w)) /\ CurFits(w)
         /\ KeyOf(w) \in Key
         /\ \A row \in me[w].todo : Id(w) < row.id
BY DEF Ready, LocalsFit, Cur, Id, Row, WorkerFits, CurFits, InHand, KeyOf, RowsFit, StoreFits,
       Names, QueueFits

\* Nobody else is busy, so nobody else has anything to lose.
LEMMA OthersIdle ==
  ASSUME NEW w \in Worker, Ready(w), Turns(w), NEW x \in Worker, x # w
  PROVE  WorkerFits(x)'
<1>1. ~Busy(x)
  BY OnlyOneBusy DEF Ready
<1>2. ~Busy(x)' /\ LocalsFit(x)'
  BY <1>1 DEF Turns, Busy, LocalsFit, Ready, HasJob, HasPage, Cur
<1> QED BY <1>2 DEF Busy, LocalsFit, WorkerFits, RowsFit, HasJob, PageFits, HasPage, SendFits,
                    ClosingFits, WithJob, WithPage, Opening, Sending, Sent

\* A step that brings no page into use, renames nothing, and writes at most the state of the
\* current job.
LEMMA QuietStep ==
  ASSUME NEW w \in Worker, Ready(w), Turns(w), me'[w].todo \subseteq me[w].todo,
         HasJob(w)' => HasJob(w) /\ Id(w)' = Id(w),
         Shrinks, conv' = conv, sent' = sent, opens' = opens,
         \/ job' = job
         \/ /\ HasJob(w)
            /\ \E s \in JobState : Puts(Id(w), s) /\ StateFits(Id(w), s)
  PROVE  /\ Stays /\ StoreFits' /\ RowsFit(w)'
         /\ \A x \in Worker \ {w} : WorkerFits(x)'
         /\ HasJob(w)' => Known(Id(w))' /\ SettledFirst(Id(w))'
<1>1. ASSUME NEW j \in Job
      PROVE  /\ job'[j].key = job[j].key /\ job'[j].url = job[j].url
             /\ \/ job'[j].state = job[j].state
                \/ HasJob(w) /\ j = Id(w) /\ StateFits(j, job'[j].state)
  BY DEF Puts
<1>2. ASSUME NEW j \in Job
      PROVE  \/ job'[j].state = job[j].state
             \/ job'[j].state # "absent" /\ InHand(w, j)
  BY <1>1 DEF StateFits, InHand
<1>3. Stays
  <2>1. \A j \in Job : InHand(w, j)' => InHand(w, j)
    BY HandKept
  <2> QED BY <1>1, <1>2, <2>1, TurnStays DEF Ready
<1>4. NamesKept
  <2>1. \A j \in Job : Known(j)' <=> Known(j)
    BY <1>1, CurFacts DEF Known, StateFits
  <2> QED BY <1>1, <2>1 DEF NamesKept
<1>5. Names'
  BY <1>4, NamesStay DEF Ready, StoreFits
<1>6. ASSUME NEW j \in Job PROVE JobFits(j)'
  <2>1. PICK k : k = job[j].key
    OBVIOUS
  <2>2. PagesFor(k) = {} => PagesFor(k)' = {}
    BY ShrinkPages
  <2>3. job'[j].key = k
    BY <1>1, <2>1
  <2>4. JobFits(j) /\ QueueFits /\ Typed
    BY DEF Ready, StoreFits, Names
  <2>5. opens[j] > 0 => Closed(j) \/ PagesFor(job[j].key)' = {}
    BY <2>1, <2>2, <2>3, <2>4 DEF JobFits
  <2>6. \/ job'[j].state = job[j].state
        \/ Known(j) /\ SettledFirst(j) /\ StateFits(j, job'[j].state)
    BY <1>1, CurFacts
  <2> QED BY <1>3, <2>4, <2>5, <2>6, JobsKept DEF StateFits
<1>7. RowsFit(w)'
  <2>1. \A row \in me'[w].todo : row.id \in Job
    BY DEF Ready, Typed, Mine, Row
  <2>2. HasJob(w)' => \A row \in me'[w].todo : Id(w)' < row.id
    BY CurFacts
  <2> QED BY <1>1, <1>3, <2>1, <2>2, RowsKept DEF Ready, StoreFits, Names, WorkerFits
<1>8. HasJob(w)' => Known(Id(w))' /\ SettledFirst(Id(w))'
  <2> SUFFICES ASSUME HasJob(w)' PROVE Known(Id(w))' /\ SettledFirst(Id(w))'
    OBVIOUS
  <2>1. PICK j \in Job : j = Id(w)
    BY CurFacts
  <2>2. Known(j)' /\ SettledFirst(j)'
    BY <2>1, <1>3, CurFacts, SettledStays DEF Stays, Ready, StoreFits, Names
  <2> QED BY <2>1, <2>2
<1>9. \A x \in Worker \ {w} : WorkerFits(x)'
  BY OthersIdle
<1> QED BY <1>3, <1>5, <1>6, <1>7, <1>8, <1>9 DEF StoreFits

\* All that a step must establish beyond the types and the lease.
Fits == StoreFits /\ \A x \in Worker : WorkerFits(x)

\* Steps that end the work on the current job, or are not about a job.
LEMMA RestStep ==
  ASSUME NEW w \in Worker, Ready(w), Rests(w),
         Shrinks, conv' = conv, sent' = sent, opens' = opens,
         \/ job' = job
         \/ /\ HasJob(w)
            /\ \E s \in JobState : Puts(Id(w), s) /\ StateFits(Id(w), s)
  PROVE  Fits'
<1>1. ~HasJob(w)' /\ Turns(w) /\ me'[w].todo \subseteq me[w].todo
  BY DEF Rests, HasJob
<1>2. StoreFits' /\ RowsFit(w)' /\ \A x \in Worker \ {w} : WorkerFits(x)'
  BY <1>1, QuietStep
<1>3. PageFits(w)' /\ SendFits(w)' /\ ClosingFits(w)'
  BY DEF Rests, WithJob, WithPage, PageFits, SendFits, ClosingFits, HasPage
<1>4. WorkerFits(w)'
  BY <1>1, <1>2, <1>3 DEF WorkerFits
<1> QED BY <1>2, <1>4 DEF Fits

\* Steps that leave the store alone.
Calm == UNCHANGED <<job, conv, page, sent, opens>>

LEMMA CalmShrinks ==
  ASSUME Typed, Calm
  PROVE  Shrinks
BY DEF Typed, Calm, Shrinks, InUse

\* The worker found a window, and its job's row is next.
LEMMA FoundStep ==
  ASSUME NEW w \in Worker, Ready(w), me[w].step \in {"acquire", "launch", "poll"},
         GoesOn(w, "upsert"), Calm
  PROVE  Fits'
<1>1. HasJob(w) /\ HasJob(w)' /\ Turns(w) /\ Id(w)' = Id(w) /\ Cur(w)' = Cur(w) /\ Shrinks
  BY CalmShrinks DEF HasJob, WithJob, Opening, GoesOn, Id, Cur, Ready
<1>2. /\ StoreFits' /\ RowsFit(w)' /\ \A x \in Worker \ {w} : WorkerFits(x)'
      /\ Known(Id(w))' /\ SettledFirst(Id(w))'
  BY <1>1, QuietStep DEF GoesOn, Calm
<1>3. CurFits(w)'
  <2>1. UrlFits(Cur(w))'
    BY <1>1, CurFacts DEF UrlFits, CurFits, Calm
  <2> QED BY <1>1, <1>2, <2>1, CurFacts DEF CurFits, GoesOn, Calm, Sending, Sent, Opening
<1>4. PageFits(w)' /\ SendFits(w)' /\ ClosingFits(w)'
  <2>1. PagesFor(KeyOf(w))' = PagesFor(KeyOf(w))
    BY <1>1 DEF PagesFor, KeyOf, Calm, InUse
  <2> QED BY <2>1 DEF Ready, WorkerFits, PageFits, SendFits, ClosingFits, GoesOn, HasPage,
                      WithPage, Sending, Sent, Opening
<1>5. WorkerFits(w)'
  BY <1>2, <1>3, <1>4 DEF WorkerFits
<1> QED BY <1>2, <1>5 DEF Fits

\* OPENING is written ahead of the launch.
LEMMA AuthorizeStep ==
  ASSUME NEW w \in Worker, Ready(w), me[w].step = "acquire", Cur(w).state # "OPENING",
         Puts(Id(w), "OPENING"), GoesOn(w, "launch"),
         UNCHANGED <<conv, page, sent, opens>>
  PROVE  Fits'
<1>1. HasJob(w) /\ HasJob(w)' /\ Turns(w) /\ Id(w)' = Id(w) /\ Cur(w)' = Cur(w) /\ Shrinks
  BY DEF HasJob, WithJob, Opening, GoesOn, Id, Cur, Ready, Typed, Shrinks, InUse
<1>2. sent[Id(w)].times = 0 /\ opens[Id(w)] = 0
  <2>1. opens[Id(w)] \in 0 .. 2
    BY <1>1, CurFacts DEF Ready, Typed
  <2> QED BY <1>1, <2>1, CurFacts DEF CurFits, Opening
<1>3. /\ StoreFits' /\ RowsFit(w)' /\ \A x \in Worker \ {w} : WorkerFits(x)'
      /\ Known(Id(w))' /\ SettledFirst(Id(w))'
  BY <1>1, <1>2, QuietStep DEF GoesOn, StateFits, JobState
<1>4. CurFits(w)'
  <2>1. UrlFits(Cur(w))'
    BY <1>1, CurFacts DEF UrlFits, CurFits, Puts, Id, Cur
  <2>2. job'[Id(w)].state = "OPENING"
    BY <1>1, CurFacts DEF Puts
  <2> QED BY <1>1, <1>2, <1>3, <2>1, <2>2 DEF CurFits, GoesOn, Sending, Sent, Opening
<1>5. PageFits(w)' /\ SendFits(w)' /\ ClosingFits(w)'
  <2>1. KeyOf(w)' = KeyOf(w)
    BY <1>1, CurFacts DEF KeyOf, Puts
  <2>2. PagesFor(KeyOf(w))' = PagesFor(KeyOf(w))
    BY <2>1 DEF PagesFor, InUse
  <2> QED BY <2>2 DEF Ready, WorkerFits, PageFits, SendFits, ClosingFits, GoesOn, HasPage,
                      WithPage, Sending, Sent, Opening
<1>6. WorkerFits(w)'
  BY <1>3, <1>4, <1>5 DEF WorkerFits
<1> QED BY <1>3, <1>6 DEF Fits

\* The key's page is lost, and with it the only one in use.
LEMMA LoseStep ==
  ASSUME NEW w \in Worker, Ready(w), me[w].step = "page",
         GoesOn(w, "acquire"), Shrinks, UNCHANGED <<job, conv, sent, opens>>,
         PagesFor(KeyOf(w)) = {} \/ \E v \in PagesFor(KeyOf(w)) : ~InUse(v)'
  PROVE  Fits'
<1>1. HasJob(w) /\ HasJob(w)' /\ Turns(w) /\ Id(w)' = Id(w) /\ Cur(w)' = Cur(w)
  BY DEF HasJob, WithJob, Opening, GoesOn, Id, Cur
<1>2. /\ StoreFits' /\ RowsFit(w)' /\ \A x \in Worker \ {w} : WorkerFits(x)'
      /\ Known(Id(w))' /\ SettledFirst(Id(w))'
  BY <1>1, QuietStep DEF GoesOn
<1>3. CurFits(w)'
  <2>1. UrlFits(Cur(w))'
    BY <1>1, CurFacts DEF UrlFits, CurFits
  <2> QED BY <1>1, <1>2, <2>1, CurFacts DEF CurFits, GoesOn, Sending, Sent, Opening
<1>4. PageFits(w)' /\ SendFits(w)' /\ ClosingFits(w)'
  <2>1. PICK k : k = KeyOf(w)
    OBVIOUS
  <2>2. PagesFor(k)' = {}
    BY <2>1, ShrinkPages DEF PagesFor, Ready, StoreFits, Names, PagesDiffer
  <2>3. KeyOf(w)' = k
    BY <1>1, <2>1 DEF KeyOf
  <2>4. PagesFor(KeyOf(w))' = {}
    BY <2>2, <2>3
  <2> QED BY <2>4 DEF PageFits, SendFits, ClosingFits, GoesOn, HasPage, WithPage, Sending, Sent,
                      Opening
<1>5. WorkerFits(w)'
  BY <1>2, <1>3, <1>4 DEF WorkerFits
<1> QED BY <1>2, <1>5 DEF Fits

\* The job keeps its page through a step that writes no page and no URL.
LEMMA PageKept ==
  ASSUME NEW w \in Worker, Ready(w), me[w].step \in Sending \cup Sent, me'[w].step \in Sending \cup Sent,
         Id(w)' = Id(w), me'[w].win = me[w].win, page' = page,
         \A j \in Job : job'[j].key = job[j].key /\ job'[j].url = job[j].url
  PROVE  /\ PageFits(w)'
         /\ page'[me'[w].win].url = page[me[w].win].url
         /\ IsChat(page'[me'[w].win].url) /\ job'[Id(w)'].url # None =>
               page'[me'[w].win].url = job'[Id(w)'].url
<1>1. HasJob(w) /\ HasPage(w) /\ HasPage(w)' /\ me'[w].step \notin Opening
  BY DEF HasJob, HasPage, WithJob, WithPage, Sending, Sent, Opening
<1>2. KeyOf(w)' = KeyOf(w) /\ Id(w) \in Job
  BY <1>1, CurFacts DEF KeyOf
<1>3. PagesFor(KeyOf(w))' = PagesFor(KeyOf(w))
  BY <1>2 DEF PagesFor, InUse
<1>4. PageFits(w)'
  BY <1>1, <1>3 DEF Ready, WorkerFits, PageFits
<1> QED BY <1>2, <1>4 DEF Ready, WorkerFits, SendFits

LEMMA BindStep ==
  ASSUME NEW w \in Worker, Ready(w), me[w].step = "bind",
         Puts(Id(w), "WINDOW_BOUND"), GoesOn(w, "submit"), me'[w].win = me[w].win,
         UNCHANGED <<conv, page, sent, opens>>
  PROVE  Fits'
<1>1. HasJob(w) /\ HasJob(w)' /\ Turns(w) /\ Id(w)' = Id(w) /\ Cur(w)' = Cur(w) /\ Shrinks
  BY DEF HasJob, WithJob, WithPage, Sending, GoesOn, Id, Cur, Ready, Typed, Shrinks, InUse
<1>2. sent[Id(w)].times = 0 /\ opens[Id(w)] = 0
  BY <1>1, CurFacts DEF CurFits, Sending
<1>3. /\ StoreFits' /\ RowsFit(w)' /\ \A x \in Worker \ {w} : WorkerFits(x)'
      /\ Known(Id(w))' /\ SettledFirst(Id(w))'
  BY <1>1, <1>2, QuietStep DEF GoesOn, StateFits, JobState
<1>4. CurFits(w)'
  <2>1. UrlFits(Cur(w))'
    BY <1>1, CurFacts DEF UrlFits, CurFits, Puts, Id, Cur
  <2> QED BY <1>1, <1>2, <1>3, <2>1 DEF CurFits, GoesOn, Sending, Sent, Opening
<1>5. PageFits(w)' /\ SendFits(w)' /\ ClosingFits(w)'
  BY <1>1, PageKept DEF Puts, SendFits, ClosingFits, GoesOn, Sending, Sent
<1>6. WorkerFits(w)'
  BY <1>3, <1>4, <1>5 DEF WorkerFits
<1> QED BY <1>3, <1>6 DEF Fits

\* The row is read again and SUBMITTING is written ahead of the send.
LEMMA SubmitStep ==
  ASSUME NEW w \in Worker, Ready(w), me[w].step = "submit",
         Puts(Id(w), "SUBMITTING"), Turns(w), me'[w].step = "send", me'[w].win = me[w].win,
         me'[w].todo = me[w].todo, me'[w].cur.id = Id(w), me'[w].cur.url = job[Id(w)].url,
         UNCHANGED <<conv, page, sent, opens>>
  PROVE  Fits'
<1>1. HasJob(w) /\ HasJob(w)' /\ Id(w)' = Id(w) /\ Shrinks
  BY DEF HasJob, WithJob, WithPage, Sending, Id, Ready, Typed, Shrinks, InUse
<1>2. sent[Id(w)].times = 0 /\ opens[Id(w)] = 0
  BY <1>1, CurFacts DEF CurFits, Sending
<1>3. /\ StoreFits' /\ RowsFit(w)' /\ \A x \in Worker \ {w} : WorkerFits(x)'
      /\ Known(Id(w))' /\ SettledFirst(Id(w))'
  BY <1>1, <1>2, QuietStep DEF StateFits, JobState
<1>4. CurFits(w)'
  <2>1. Cur(w)'.url = job'[Id(w)'].url
    BY <1>1, CurFacts DEF Puts, Cur
  <2>2. UrlFits(Cur(w))'
    BY <2>1 DEF UrlFits, Cur, Id
  <2>3. job'[Id(w)].state = "SUBMITTING"
    BY <1>1, CurFacts DEF Puts
  <2> QED BY <1>1, <1>2, <1>3, <2>1, <2>2, <2>3 DEF CurFits, Sending, Sent, Opening
<1>5. PageFits(w)' /\ SendFits(w)' /\ ClosingFits(w)'
  BY <1>1, PageKept DEF Puts, SendFits, ClosingFits, Sending, Sent
<1>6. WorkerFits(w)'
  BY <1>3, <1>4, <1>5 DEF WorkerFits
<1> QED BY <1>3, <1>6 DEF Fits

\* A send that has no effect, and the step to settle when no URL was reported.
LEMMA MissStep ==
  ASSUME NEW w \in Worker, Ready(w), Turns(w), Calm,
         me[w].step \in {"send", "record"}, me'[w].step \in Sent,
         me'[w].win = me[w].win, me'[w].todo = me[w].todo, me'[w].cur = me[w].cur,
         \/ me[w].step = "send" /\ me'[w].result # "submitted"
         \/ me[w].step = "record" /\ me'[w].result = me[w].result
  PROVE  Fits'
<1>1. HasJob(w) /\ HasJob(w)' /\ Id(w)' = Id(w) /\ Cur(w)' = Cur(w) /\ Shrinks
  BY CalmShrinks DEF HasJob, WithJob, WithPage, Sending, Sent, Id, Cur, Ready
<1>2. /\ StoreFits' /\ RowsFit(w)' /\ \A x \in Worker \ {w} : WorkerFits(x)'
      /\ Known(Id(w))' /\ SettledFirst(Id(w))'
  BY <1>1, QuietStep DEF Calm
<1>3. CurFits(w)'
  <2>1. Cur(w)'.url = job'[Id(w)'].url
    BY <1>1, CurFacts DEF Calm, CurFits
  <2>2. UrlFits(Cur(w))'
    BY <2>1 DEF UrlFits, Cur, Id
  <2> QED BY <1>1, <1>2, <2>1, <2>2, CurFacts DEF CurFits, Sending, Sent, Opening, Calm
<1>4. PageFits(w)' /\ SendFits(w)' /\ ClosingFits(w)'
  <2>1. me[w].step \in Sending \cup Sent
    BY DEF Sending, Sent
  <2> QED BY <1>1, <2>1, PageKept DEF SendFits, ClosingFits, Sending, Sent, Calm, Ready, WorkerFits
<1>5. WorkerFits(w)'
  BY <1>2, <1>3, <1>4 DEF WorkerFits
<1> QED BY <1>2, <1>5 DEF Fits

\* Job and conversation rows are left alone, and only the current job's history changes.
LEMMA HistoryStep ==
  ASSUME NEW w \in Worker, Ready(w), Turns(w), me'[w].todo = me[w].todo,
         HasJob(w), HasJob(w)', Id(w)' = Id(w), UNCHANGED job,
         \A j \in Job : j # Id(w) =>
             /\ sent'[j] = sent[j] /\ opens'[j] = opens[j]
             /\ opens[j] > 0 => Closed(j) \/ PagesFor(job[j].key)' = {}
  PROVE  /\ Stays /\ RowsFit(w)'
         /\ \A x \in Worker \ {w} : WorkerFits(x)'
         /\ Known(Id(w))' /\ SettledFirst(Id(w))'
         /\ \A j \in Job : j # Id(w) => JobFits(j)'
<1>1. Stays
  BY HandKept, TurnStays DEF Ready
<1>2. RowsFit(w)'
  <2>1. \A row \in me'[w].todo : row.id \in Job /\ row.id # Id(w) /\ Id(w)' < row.id
    BY CurFacts DEF Ready, Typed, Mine, Row, Job
  <2> QED BY <1>1, <2>1, RowsKept DEF Ready, StoreFits, Names, WorkerFits
<1>3. \A x \in Worker \ {w} : WorkerFits(x)'
  BY OthersIdle
<1>4. Known(Id(w))' /\ SettledFirst(Id(w))'
  <2>1. PICK j \in Job : j = Id(w)
    BY CurFacts
  <2>2. Known(j)' /\ SettledFirst(j)'
    BY <2>1, <1>1, CurFacts, SettledStays DEF Stays, Ready, StoreFits, Names
  <2> QED BY <2>1, <2>2
<1>5. ASSUME NEW j \in Job, j # Id(w) PROVE JobFits(j)'
  BY <1>1, <1>5, JobsKept DEF Ready, StoreFits, Names
<1> QED BY <1>1, <1>2, <1>3, <1>4, <1>5

LEMMA LaunchStep ==
  ASSUME NEW w \in Worker, Ready(w), me[w].step = "launch", GoesOn(w, "poll"),
         \A j \in Job : opens'[j] = IF j = Id(w) THEN Twice(opens[j]) ELSE opens[j],
         UNCHANGED <<job, conv, page, sent>>
  PROVE  Fits'
<1>1. HasJob(w) /\ HasJob(w)' /\ Turns(w) /\ Id(w)' = Id(w) /\ Cur(w)' = Cur(w)
  BY DEF HasJob, WithJob, Opening, GoesOn, Id, Cur
<1>3. ASSUME NEW j \in Job PROVE PagesFor(job[j].key)' = PagesFor(job[j].key)
  BY DEF PagesFor, InUse
<1>4. /\ RowsFit(w)' /\ \A x \in Worker \ {w} : WorkerFits(x)'
      /\ Known(Id(w))' /\ SettledFirst(Id(w))'
      /\ \A j \in Job : j # Id(w) => JobFits(j)'
  <2>1. \A j \in Job : opens[j] > 0 => Closed(j) \/ PagesFor(job[j].key)' = {}
    BY <1>3 DEF Ready, StoreFits, JobFits
  <2> QED BY <1>1, <2>1, HistoryStep DEF GoesOn
<1>5. Names'
  <2>1. NamesKept
    BY DEF NamesKept, Shrinks, Known, InUse, Ready, Typed
  <2> QED BY <2>1, NamesStay DEF Ready, StoreFits
<1>6. /\ Id(w) \in Job /\ opens[Id(w)] = 0 /\ sent[Id(w)].times = 0
      /\ job[Id(w)].state \in {"OPENING", "CANCELLED"} /\ PagesFor(KeyOf(w)) = {}
  BY <1>1, CurFacts DEF CurFits, Opening, Ready, WorkerFits, PageFits
<1>7. JobFits(Id(w))'
  <2>1. opens'[Id(w)] = 1
    BY <1>6 DEF Twice
  <2>2. PagesFor(job[Id(w)].key)' = {}
    BY <1>1, <1>6, <1>3 DEF KeyOf
  <2> QED BY <1>1, <1>4, <1>6, <2>1, <2>2 DEF JobFits, Terminal
<1>8. StoreFits'
  <2>1. ASSUME NEW j \in Job PROVE JobFits(j)'
    <3>1. CASE j = Id(w)
      BY <1>7, <3>1, <1>1
    <3> QED BY <3>1, <1>4
  <2> QED BY <1>5, <2>1 DEF StoreFits
<1>9. WorkerFits(w)'
  <2>1. UrlFits(Cur(w))'
    BY <1>1, CurFacts DEF UrlFits, CurFits
  <2>2. CurFits(w)'
    BY <1>1, <1>4, <1>6, <2>1 DEF CurFits, GoesOn, Sending, Sent, Opening
  <2>3. PagesFor(KeyOf(w))' = {}
    BY <1>1, <1>3, <1>6 DEF KeyOf
  <2>4. PageFits(w)' /\ SendFits(w)' /\ ClosingFits(w)'
    BY <2>3 DEF PageFits, SendFits, ClosingFits, GoesOn, HasPage, WithPage, Sending, Sent, Opening
  <2> QED BY <1>4, <2>2, <2>4 DEF WorkerFits
<1> QED BY <1>4, <1>8, <1>9 DEF Fits

\* The prompt may have been sent: the only step that counts one.
LEMMA ReachStep ==
  ASSUME NEW w \in Worker, Ready(w), me[w].step = "send", Turns(w), Reachable(w),
         me'[w].step \in Sent, me'[w].result \in {"submitted", "ambiguous", "raised"},
         me'[w].win = me[w].win, me'[w].todo = me[w].todo, me'[w].cur = me[w].cur,
         \A j \in Job : j # Id(w) => sent'[j] = sent[j],
         sent'[Id(w)].times = Twice(sent[Id(w)].times),
         UNCHANGED <<job, conv, page, opens>>
  PROVE  Fits'
<1>1. HasJob(w) /\ HasJob(w)' /\ Id(w)' = Id(w) /\ Cur(w)' = Cur(w)
  BY DEF HasJob, WithJob, WithPage, Sending, Sent, Id, Cur
<1>3. ASSUME NEW j \in Job PROVE PagesFor(job[j].key)' = PagesFor(job[j].key)
  BY DEF PagesFor, InUse
<1>4. /\ RowsFit(w)' /\ \A x \in Worker \ {w} : WorkerFits(x)'
      /\ Known(Id(w))' /\ SettledFirst(Id(w))'
      /\ \A j \in Job : j # Id(w) => JobFits(j)'
  <2>1. \A j \in Job : opens[j] > 0 => Closed(j) \/ PagesFor(job[j].key)' = {}
    BY <1>3 DEF Ready, StoreFits, JobFits
  <2> QED BY <1>1, <2>1, HistoryStep
<1>5. Names'
  <2>1. NamesKept
    BY DEF NamesKept, Shrinks, Known, InUse, Ready, Typed
  <2> QED BY <2>1, NamesStay DEF Ready, StoreFits
<1>6. /\ Id(w) \in Job /\ opens[Id(w)] = 0 /\ sent[Id(w)].times = 0
      /\ job[Id(w)].state \in {"SUBMITTING", "CANCELLED"} /\ Cur(w).url = job[Id(w)].url
  BY <1>1, CurFacts DEF CurFits, Sending
<1>7. JobFits(Id(w))'
  <2>1. sent'[Id(w)].times = 1
    BY <1>6 DEF Twice
  <2> QED BY <1>1, <1>4, <1>6, <2>1 DEF JobFits, InDoubt
<1>8. StoreFits'
  <2>1. ASSUME NEW j \in Job PROVE JobFits(j)'
    <3>1. CASE j = Id(w)
      BY <1>7, <3>1, <1>1
    <3> QED BY <3>1, <1>4
  <2> QED BY <1>5, <2>1 DEF StoreFits
<1>9. WorkerFits(w)'
  <2>1. UrlFits(Cur(w))'
    BY <1>1, <1>6 DEF UrlFits, Cur, Id
  <2>2. CurFits(w)'
    BY <1>1, <1>4, <1>6, <2>1 DEF CurFits, Sending, Sent, Opening
  <2>3. me[w].win \in Window /\ at[me[w].win] \in Place \cup {Unborn, Shut}
    BY DEF Ready, LocalsFit, HasPage, WithPage, Sending, Typed
  <2>4. Cur(w).url # None => IsChat(page[me[w].win].url)
    BY <2>3 DEF Reachable, IsChat, Unborn, Shut
  <2>5. PageFits(w)' /\ SendFits(w)' /\ ClosingFits(w)'
    BY <1>1, <2>4, PageKept DEF SendFits, ClosingFits, Sending, Sent
  <2> QED BY <1>4, <2>2, <2>5 DEF WorkerFits
<1> QED BY <1>4, <1>8, <1>9 DEF Fits

\* A page comes or stays in use for key k, with a URL that the store already gives for k.
LEMMA NamesPage ==
  ASSUME Typed, Names, UNCHANGED <<job, conv>>, NEW v \in Window, NEW k \in Key,
         Paged(page', v), page'[v].key = k, InUse(v)',
         \A u \in PagesFor(k) : u = v,
         k \in NewKey \/ conv[k] # None,
         IsChat(page'[v].url) => Says(k, page'[v].url)
  PROVE  Names'
<1>1. QueueFits'
  BY DEF Names, QueueFits, Known
<1>2. ASSUME NEW u \in Window, u # v PROVE page'[u] = page[u] /\ (InUse(u)' <=> InUse(u))
  BY <1>2 DEF Paged, InUse
<1>3. PagesDiffer'
  BY <1>2 DEF Names, PagesDiffer, PagesFor
<1>4. KeysBound'
  BY <1>2 DEF Names, KeysBound, Known
<1>5. ASSUME NEW q \in Key, NEW c \in Place, IsChat(c), Says(q, c)'
      PROVE  Says(q, c)
  <2>1. CASE conv'[q] = c
    BY <2>1 DEF Says
  <2>2. CASE \E j \in Job : Known(j)' /\ job'[j].key = q /\ job'[j].url = c
    BY <2>2 DEF Says, Known
  <2>3. CASE \E u \in PagesFor(q)' : page'[u].url = c
    BY <1>2, <1>5, <2>3 DEF Says, PagesFor
  <2> QED BY <1>5, <2>1, <2>2, <2>3 DEF Says
<1>6. OneConversation'
  BY <1>5 DEF Names, OneConversation
<1> QED BY <1>1, <1>3, <1>4, <1>6 DEF Names

\* What the row of a job says of its URL is what the store says of its key.
LEMMA CurSays ==
  ASSUME NEW w \in Worker, Ready(w), HasJob(w)
  PROVE  /\ Cur(w).url # None => Cur(w).url = job[Id(w)].url
         /\ job[Id(w)].url # None => Says(KeyOf(w), job[Id(w)].url)
         /\ KeyOf(w) \in NewKey \/ conv[KeyOf(w)] # None
<1>1. Id(w) \in Job /\ Known(Id(w)) /\ UrlFits(Cur(w))
  BY CurFacts DEF CurFits
<1>2. Cur(w).url # None => Cur(w).url = job[Id(w)].url
  BY <1>1 DEF UrlFits, Id, Cur
<1>3. job[Id(w)].url # None => Says(KeyOf(w), job[Id(w)].url)
  BY <1>1 DEF Says, KeyOf
<1>4. KeyOf(w) \in NewKey \/ conv[KeyOf(w)] # None
  BY <1>1 DEF KeyOf, Ready, StoreFits, Names, KeysBound
<1> QED BY <1>2, <1>3, <1>4

LEMMA UpsertStep ==
  ASSUME NEW w \in Worker, Ready(w), me[w].step = "upsert", GoesOn(w, "bind"),
         me'[w].win = me[w].win,
         Paged(page', me[w].win), page'[me[w].win].state = "OPEN",
         page'[me[w].win].key = KeyOf(w), page'[me[w].win].url = Target(w),
         \A j \in Job : opens'[j] = IF j = Id(w) THEN 0 ELSE opens[j],
         UNCHANGED <<job, conv, sent>>
  PROVE  Fits'
<1>1. HasJob(w) /\ HasJob(w)' /\ Turns(w) /\ Id(w)' = Id(w) /\ Cur(w)' = Cur(w)
  BY DEF HasJob, WithJob, WithPage, Sending, GoesOn, Id, Cur
<1>2. PICK v \in Window : v = me[w].win
  BY DEF Ready, LocalsFit
<1>3. PICK k \in Key : k = KeyOf(w)
  BY <1>1, CurFacts
<1>4. PICK i \in Job : i = Id(w)
  BY <1>1, CurFacts
<1>5. /\ Known(i) /\ SettledFirst(i) /\ InHand(w, i) /\ sent[i].times = 0 /\ UrlFits(Cur(w))
      /\ PagesFor(k) = {} /\ job[i].key = k
  BY <1>1, <1>3, <1>4, CurFacts DEF CurFits, Opening, Ready, WorkerFits, PageFits, KeyOf
<1>6. /\ Paged(page', v) /\ page'[v].state = "OPEN" /\ page'[v].key = k /\ InUse(v)'
      /\ IsChat(page'[v].url) => Cur(w).url # None /\ page'[v].url = job[i].url
  BY <1>1, <1>2, <1>3, <1>4, CurSays DEF InUse, Target, IsChat, Root
<1>7. Names'
  BY <1>1, <1>3, <1>4, <1>5, <1>6, CurSays, NamesPage DEF Ready, StoreFits
<1>8. ASSUME NEW j \in Job, j # i, opens[j] > 0
      PROVE  Closed(j) \/ PagesFor(job[j].key)' = {}
  <2>1. JobFits(j)
    BY DEF Ready, StoreFits
  <2>2. CASE job[j].key = k
    <3>1. CASE j < i
      BY <1>5, <2>2, <3>1 DEF SettledFirst
    <3>2. CASE i < j
      BY <1>5, <1>8, <2>1, <2>2, <3>2 DEF JobFits, SettledFirst, Closed
    <3> QED BY <1>8, <3>1, <3>2 DEF Job
  <2>3. CASE job[j].key # k
    <3>1. Closed(j) \/ PagesFor(job[j].key) = {}
      BY <1>8, <2>1 DEF JobFits
    <3>2. \A u \in Window : u # v => page'[u] = page[u]
      BY <1>6 DEF Paged
    <3>3. PagesFor(job[j].key) = {} => PagesFor(job[j].key)' = {}
      BY <1>6, <2>3, <3>2 DEF PagesFor, InUse
    <3> QED BY <3>1, <3>3
  <2> QED BY <2>2, <2>3
<1>9. /\ RowsFit(w)' /\ \A x \in Worker \ {w} : WorkerFits(x)'
      /\ Known(Id(w))' /\ SettledFirst(Id(w))'
      /\ \A j \in Job : j # Id(w) => JobFits(j)'
  BY <1>1, <1>4, <1>8, HistoryStep DEF GoesOn
<1>10. JobFits(i)'
  BY <1>1, <1>4, <1>5, <1>9 DEF JobFits, Ready, StoreFits
<1>11. StoreFits'
  BY <1>4, <1>7, <1>9, <1>10 DEF StoreFits
<1>12. WorkerFits(w)'
  <2>1. UrlFits(Cur(w))'
    BY <1>1, <1>5 DEF UrlFits
  <2>2. CurFits(w)'
    BY <1>1, <1>4, <1>5, <1>9, <2>1 DEF CurFits, GoesOn, Sending, Sent, Opening
  <2>3. KeyOf(w)' = k
    BY <1>1, <1>3 DEF KeyOf
  <2>4. v \in PagesFor(KeyOf(w))'
    BY <1>6, <2>3 DEF PagesFor
  <2>5. PageFits(w)' /\ SendFits(w)' /\ ClosingFits(w)'
    BY <1>1, <1>2, <1>4, <1>6, <2>4 DEF PageFits, SendFits, ClosingFits, GoesOn, Sending, Sent, Opening
  <2> QED BY <1>9, <2>2, <2>5 DEF WorkerFits
<1> QED BY <1>9, <1>11, <1>12 DEF Fits

\* The key's page is found and used, for a send or to look for the prompt.
LEMMA FoundPageStep ==
  ASSUME NEW w \in Worker, Ready(w), NEW v \in PagesFor(KeyOf(w)),
         \/ me[w].step = "page" /\ GoesOn(w, "submit")
         \/ me[w].step = "reconcile" /\ GoesOn(w, "observe"),
         me'[w].win = v,
         Paged(page', v), page'[v].state \in {"OPEN", "IDLE"}, page'[v].key = page[v].key,
         page'[v].url = IF Cur(w).url = None THEN page[v].url ELSE Cur(w).url,
         UNCHANGED <<job, conv, sent, opens>>
  PROVE  Fits'
<1>1. HasJob(w) /\ HasJob(w)' /\ Turns(w) /\ Id(w)' = Id(w) /\ Cur(w)' = Cur(w)
  BY DEF HasJob, WithJob, WithPage, Sending, GoesOn, Id, Cur
<1>2. PICK k \in Key : k = KeyOf(w)
  BY <1>1, CurFacts
<1>3. PICK i \in Job : i = Id(w)
  BY <1>1, CurFacts
<1>4. /\ v \in Window /\ InUse(v) /\ page[v].key = k /\ job[i].key = k
      /\ Known(i) /\ InHand(w, i) /\ UrlFits(Cur(w)) /\ InUse(v)'
  BY <1>1, <1>2, <1>3, CurFacts DEF PagesFor, KeyOf, CurFits, InUse
<1>5. \A u \in PagesFor(k) : u = v
  BY <1>4 DEF Ready, StoreFits, Names, PagesDiffer, PagesFor
<1>6. IsChat(page'[v].url) => Says(k, page'[v].url)
  <2>1. Cur(w).url = None => Says(k, page'[v].url)
    BY <1>2, <1>4 DEF Says, PagesFor
  <2> QED BY <1>1, <1>2, <1>3, <2>1, CurSays
<1>7. Names'
  BY <1>1, <1>2, <1>4, <1>5, <1>6, CurSays, NamesPage DEF Ready, StoreFits
<1>8. ASSUME NEW j \in Job PROVE PagesFor(job[j].key)' = PagesFor(job[j].key)
  BY <1>4 DEF PagesFor, Paged, InUse
<1>9. /\ RowsFit(w)' /\ \A x \in Worker \ {w} : WorkerFits(x)'
      /\ Known(Id(w))' /\ SettledFirst(Id(w))'
      /\ \A j \in Job : j # Id(w) => JobFits(j)'
  <2>1. \A j \in Job : opens[j] > 0 => Closed(j) \/ PagesFor(job[j].key)' = {}
    BY <1>8 DEF Ready, StoreFits, JobFits
  <2> QED BY <1>1, <2>1, HistoryStep DEF GoesOn
<1>10. opens[i] = 0
  <2>1. ~Closed(i) /\ PagesFor(job[i].key) # {}
    BY <1>4 DEF Closed, PagesFor
  <2>2. opens[i] \in 0 .. 2
    BY DEF Ready, Typed
  <2> QED BY <2>1, <2>2 DEF Ready, StoreFits, JobFits
<1>11. JobFits(i)'
  BY <1>1, <1>3, <1>9, <1>10 DEF JobFits, Ready, StoreFits
<1>12. StoreFits'
  BY <1>3, <1>7, <1>9, <1>11 DEF StoreFits
<1>13. WorkerFits(w)'
  <2>1. UrlFits(Cur(w))'
    BY <1>1, <1>4 DEF UrlFits
  <2>2. CurFits(w)'
    BY <1>1, <1>3, <1>9, <1>10, <2>1, CurFacts DEF CurFits, GoesOn, Sending, Sent, Opening
  <2>3. KeyOf(w)' = k
    BY <1>1, <1>2 DEF KeyOf
  <2>4. v \in PagesFor(KeyOf(w))'
    BY <1>4, <2>3 DEF PagesFor
  <2>5. IsChat(page'[v].url) /\ job[i].url # None => page'[v].url = job[i].url
    <3>1. CASE Cur(w).url = None
      <4> SUFFICES ASSUME IsChat(page'[v].url), job[i].url # None
                   PROVE  page'[v].url = job[i].url
        OBVIOUS
      <4>1. IsChat(job[i].url)
        BY <1>3, <1>4, <3>1 DEF UrlFits, Id, Cur
      <4>2. Says(k, job[i].url) /\ Says(k, page'[v].url)
        BY <1>4, <1>6 DEF Says
      <4> QED BY <4>1, <4>2 DEF Ready, StoreFits, Names, OneConversation, IsChat
    <3>2. CASE Cur(w).url # None
      BY <1>1, <1>3, <3>2, CurSays
    <3> QED BY <3>1, <3>2
  <2>6. PageFits(w)' /\ SendFits(w)' /\ ClosingFits(w)'
    BY <1>1, <1>3, <2>4, <2>5 DEF PageFits, SendFits, ClosingFits, GoesOn, Sending, Sent, Opening
  <2> QED BY <1>9, <2>2, <2>6 DEF WorkerFits
<1> QED BY <1>9, <1>12, <1>13 DEF Fits

\* bind_conversation: the key, its page and its jobs without a URL get url.
Binds(k, v, url) ==
    /\ \A q \in Key : conv'[q] = IF q = k THEN url ELSE conv[q]
    /\ Paged(page', v)
    /\ page'[v].state = "OPEN" /\ page'[v].key = page[v].key /\ page'[v].url = url
    /\ \A j \in Job : /\ job'[j].key = job[j].key
                      /\ job'[j].url = IF job[j].key = k /\ job[j].url = None THEN url
                                       ELSE job[j].url

\* A known conversation is bound to what its page shows already; an unknown one to a chat.
LEMMA NamesBind ==
  ASSUME Typed, Names, NEW k \in Key, NEW v \in PagesFor(k), NEW url \in Place, NEW i \in Job,
         Binds(k, v, url), Known(i), job[i].key = k,
         \A j \in Job : Known(j)' <=> Known(j),
         \/ job[i].url # None /\ url = page[v].url
         \/ job[i].url = None /\ IsChat(url)
  PROVE  Names'
<1>1. QueueFits'
  BY DEF Names, QueueFits, Binds
<1>2. ASSUME NEW u \in Window, u # v PROVE page'[u] = page[u] /\ (InUse(u)' <=> InUse(u))
  BY <1>2 DEF Binds, Paged, InUse
<1>3. v \in Window /\ InUse(v) /\ page[v].key = k /\ InUse(v)' /\ page'[v].key = k
  BY DEF PagesFor, Binds, InUse
<1>4. url # None
  BY ChatAssumption
<1>5. PagesDiffer'
  BY <1>2, <1>3 DEF Names, PagesDiffer
<1>6. KeysBound'
  <2>1. ASSUME NEW j \in Job, Known(j)'
        PROVE  /\ job'[j].url = None <=> conv'[job'[j].key] = None
               /\ job'[j].url = None => job'[j].key \in NewKey
    <3>1. Known(j) /\ job[j].key \in Key
      BY <2>1 DEF Names, QueueFits
    <3> QED BY <1>4, <3>1 DEF Names, KeysBound, Binds
  <2>2. ASSUME NEW u \in Window, InUse(u)'
        PROVE  page'[u].key \in Key /\ (page'[u].key \in NewKey \/ conv'[page'[u].key] # None)
    <3>1. CASE u = v
      BY <1>3, <1>4, <3>1 DEF Binds
    <3>2. CASE u # v
      BY <1>2, <1>4, <2>2, <3>2 DEF Names, KeysBound, Binds
    <3> QED BY <3>1, <3>2
  <2> QED BY <2>1, <2>2 DEF KeysBound
<1>7. OneConversation'
  <2>1. ASSUME NEW q \in Key, q # k, NEW c \in Place, Says(q, c)'
        PROVE  Says(q, c)
    <3>1. CASE conv'[q] = c
      BY <2>1, <3>1 DEF Says, Binds
    <3>2. CASE \E j \in Job : Known(j)' /\ job'[j].key = q /\ job'[j].url = c
      BY <2>1, <3>2 DEF Says, Binds
    <3>3. CASE \E u \in PagesFor(q)' : page'[u].url = c
      BY <1>2, <1>3, <2>1, <3>3 DEF Says, PagesFor
    <3> QED BY <2>1, <3>1, <3>2, <3>3 DEF Says
  <2>2. CASE job[i].url # None /\ url = page[v].url
    <3>1. \A j \in Job : Known(j) /\ job[j].key = k => job[j].url # None
      BY <2>2 DEF Names, KeysBound
    <3>2. ASSUME NEW c \in Place, Says(k, c)'
          PROVE  Says(k, c)
      <4>1. CASE conv'[k] = c
        BY <1>3, <2>2, <4>1 DEF Says, Binds, PagesFor
      <4>2. CASE \E j \in Job : Known(j)' /\ job'[j].key = k /\ job'[j].url = c
        BY <3>1, <4>2 DEF Says, Binds
      <4>3. CASE \E u \in PagesFor(k)' : page'[u].url = c
        <5>1. PICK u \in PagesFor(k)' : page'[u].url = c
          BY <4>3
        <5>2. u \in PagesFor(k) /\ page[u].url = c
          BY <1>2, <1>3, <2>2, <5>1 DEF PagesFor, Binds
        <5> QED BY <5>2 DEF Says
      <4> QED BY <3>2, <4>1, <4>2, <4>3 DEF Says
    <3>3. ASSUME NEW q \in Key, NEW c \in Place, Says(q, c)' PROVE Says(q, c)
      BY <2>1, <3>2, <3>3
    <3> QED BY <3>3 DEF Names, OneConversation
  <2>3. CASE job[i].url = None /\ IsChat(url)
    <3>1. \A j \in Job : Known(j) /\ job[j].key = k => job[j].url = None
      BY <2>3 DEF Names, KeysBound
    <3>2. ASSUME NEW c \in Place, Says(k, c)' PROVE c = url
      <4>1. CASE conv'[k] = c
        BY <4>1 DEF Binds
      <4>2. CASE \E j \in Job : Known(j)' /\ job'[j].key = k /\ job'[j].url = c
        BY <3>1, <4>2 DEF Binds
      <4>3. CASE \E u \in PagesFor(k)' : page'[u].url = c
        BY <1>2, <1>3, <4>3 DEF PagesFor, Binds, Names, PagesDiffer
      <4> QED BY <3>2, <4>1, <4>2, <4>3 DEF Says
    <3>3. ASSUME NEW q \in Key, NEW c \in Place, NEW d \in Place, IsChat(c), IsChat(d),
                 Says(q, c)', Says(q, d)'
          PROVE  c = d
      BY <2>1, <3>2, <3>3 DEF Names, OneConversation
    <3> QED BY <3>3 DEF OneConversation
  <2> QED BY <2>2, <2>3
<1> QED BY <1>1, <1>5, <1>6, <1>7 DEF Names

\* A worker binds its job's conversation, after a send or while it reconciles.
LEMMA BoundStep ==
  ASSUME NEW w \in Worker, Ready(w), HasJob(w), HasJob(w)', Turns(w), Id(w)' = Id(w),
         me'[w].todo = me[w].todo,
         NEW v \in PagesFor(KeyOf(w)), NEW url \in Place, Binds(KeyOf(w), v, url),
         \A j \in Job : \/ job'[j].state = job[j].state
                        \/ j = Id(w) /\ job'[j].state = "SUBMITTED",
         \/ job[Id(w)].url # None /\ url = page[v].url
         \/ job[Id(w)].url = None /\ IsChat(url),
         UNCHANGED <<sent, opens>>
  PROVE  /\ StoreFits' /\ RowsFit(w)' /\ \A x \in Worker \ {w} : WorkerFits(x)'
         /\ Known(Id(w))' /\ SettledFirst(Id(w))'
         /\ v \in PagesFor(KeyOf(w))'
<1>1. PICK k \in Key : k = KeyOf(w)
  BY CurFacts
<1>2. PICK i \in Job : i = Id(w)
  BY CurFacts
<1>3. /\ v \in Window /\ InUse(v) /\ page[v].key = k /\ job[i].key = k /\ Binds(k, v, url)
      /\ Known(i) /\ SettledFirst(i) /\ InHand(w, i) /\ InUse(v)'
  BY <1>1, <1>2, CurFacts DEF PagesFor, KeyOf, Binds, InUse
<1>4. Stays
  BY <1>2, <1>3, HandKept, TurnStays DEF Ready, Binds
<1>5. Names'
  <2>1. \A j \in Job : Known(j)' <=> Known(j)
    BY <1>2, <1>3 DEF Known
  <2> QED BY <1>1, <1>2, <1>3, <2>1, NamesBind DEF Ready, StoreFits
<1>6. ASSUME NEW j \in Job PROVE JobFits(j)'
  <2>1. PagesFor(job[j].key)' = PagesFor(job[j].key)
    BY <1>3 DEF PagesFor, Binds, Paged, InUse
  <2>2. JobFits(j) /\ QueueFits /\ Typed
    BY DEF Ready, StoreFits, Names
  <2>3. opens[j] > 0 => Closed(j) \/ PagesFor(job[j].key)' = {}
    BY <2>1, <2>2 DEF JobFits
  <2>4. \/ job'[j].state = job[j].state
        \/ Known(j) /\ SettledFirst(j) /\ job'[j].state \in InDoubt
    BY <1>2, <1>3 DEF InDoubt
  <2> QED BY <1>4, <2>2, <2>3, <2>4, JobsKept
<1>7. RowsFit(w)'
  <2>1. ASSUME NEW row \in me[w].todo
        PROVE  /\ row.id \in Job /\ i < row.id
               /\ \/ job'[row.id].url = job[row.id].url
                  \/ job[row.id].url = None /\ IsChat(job'[row.id].url) /\ row.state \notin Begun
    <3>1. row.id \in Job /\ i < row.id /\ RowFits(row)
      BY <1>2, CurFacts DEF Ready, Typed, Mine, Row, WorkerFits, RowsFit
    <3>2. CASE job[row.id].key = k /\ job[row.id].url = None
      <4>1. ~Closed(i)
        BY <1>3 DEF Closed
      <4>2. row.state \notin Begun
        BY <1>3, <3>1, <3>2, <4>1 DEF RowFits, SettledFirst
      <4>3. IsChat(url)
        <5>1. Known(row.id)
          BY <3>1 DEF RowFits
        <5>2. job[i].url = None
          BY <1>3, <3>1, <3>2, <5>1 DEF Ready, StoreFits, Names, KeysBound
        <5> QED BY <1>2, <5>2
      <4> QED BY <1>3, <3>1, <3>2, <4>2, <4>3 DEF Binds
    <3> QED BY <1>3, <3>1, <3>2 DEF Binds
  <2> QED BY <1>2, <1>4, <2>1, RowsKept DEF Ready, StoreFits, Names, WorkerFits
<1>8. Known(i)' /\ SettledFirst(i)'
  BY <1>3, <1>4, SettledStays DEF Stays, Ready, StoreFits, Names
<1>9. v \in PagesFor(KeyOf(w))'
  <2>1. KeyOf(w)' = k
    BY <1>1, <1>2, <1>3 DEF KeyOf, Binds
  <2> QED BY <1>3, <2>1 DEF PagesFor, Binds
<1>10. \A x \in Worker \ {w} : WorkerFits(x)'
  BY OthersIdle
<1> QED BY <1>2, <1>5, <1>6, <1>7, <1>8, <1>9, <1>10 DEF StoreFits

LEMMA RecordStep ==
  ASSUME NEW w \in Worker, Ready(w), me[w].step = "record", GoesOn(w, "settle"),
         me'[w].win = me[w].win, NEW url \in Place, Binds(KeyOf(w), me[w].win, url),
         \A j \in Job : job'[j].state = job[j].state,
         \/ Cur(w).url # None /\ url = page[me[w].win].url
         \/ Cur(w).url = None /\ IsChat(url),
         UNCHANGED <<sent, opens>>
  PROVE  Fits'
<1>1. HasJob(w) /\ HasJob(w)' /\ Turns(w) /\ Id(w)' = Id(w) /\ Cur(w)' = Cur(w)
  BY DEF HasJob, WithJob, WithPage, Sent, GoesOn, Id, Cur
<1>2. PICK i \in Job : i = Id(w)
  BY <1>1, CurFacts
<1>3. Cur(w).url = job[i].url /\ opens[i] = 0 /\ job[i].key = KeyOf(w)
  BY <1>1, <1>2, CurFacts DEF CurFits, Sent, KeyOf
<1>4. PICK v \in PagesFor(KeyOf(w)) : v = me[w].win
  BY DEF Ready, WorkerFits, PageFits, HasPage, WithPage, Sent
<1>5. /\ StoreFits' /\ RowsFit(w)' /\ \A x \in Worker \ {w} : WorkerFits(x)'
      /\ Known(Id(w))' /\ SettledFirst(Id(w))'
      /\ v \in PagesFor(KeyOf(w))'
  BY <1>1, <1>2, <1>3, <1>4, BoundStep DEF GoesOn
<1>6. CurFits(w)'
  <2>1. job'[i].url = IF Cur(w).url = None THEN url ELSE Cur(w).url
    BY <1>3 DEF Binds
  <2>2. UrlFits(Cur(w))'
    BY <1>1, <1>2, <2>1 DEF UrlFits, Cur, Id
  <2> QED BY <1>1, <1>2, <1>3, <1>5, <2>2, CurFacts DEF CurFits, GoesOn, Sending, Sent, Opening
<1>7. PageFits(w)'
  BY <1>4, <1>5 DEF PageFits, GoesOn, Opening
<1>8. SendFits(w)'
  <2>1. page'[v].url = url
    BY <1>4 DEF Binds
  <2>2. IsChat(url) /\ job'[i].url # None => url = job'[i].url
    BY <1>2, <1>3, <1>4 DEF Binds, Ready, WorkerFits, SendFits, Sent
  <2>3. me[w].result = "submitted" /\ Cur(w).url # None => IsChat(url)
    BY DEF Ready, WorkerFits, SendFits, Sent
  <2> QED BY <1>1, <1>2, <1>4, <2>1, <2>2, <2>3 DEF SendFits, GoesOn
<1>9. WorkerFits(w)'
  BY <1>5, <1>6, <1>7, <1>8 DEF WorkerFits, ClosingFits, GoesOn
<1> QED BY <1>5, <1>9 DEF Fits

LEMMA ReconcileNewStep ==
  ASSUME NEW w \in Worker, Ready(w), me[w].step = "reconcile", Cur(w).url = None, Turns(w),
         NEW v \in PagesFor(KeyOf(w)), NEW url \in Place, IsChat(url), Binds(KeyOf(w), v, url),
         \A j \in Job : job'[j].state = IF j = Id(w) THEN "SUBMITTED" ELSE job[j].state,
         me'[w].step = "observe", me'[w].win = v, me'[w].todo = me[w].todo,
         me'[w].cur.id = Id(w), me'[w].cur.url = url,
         UNCHANGED <<sent, opens>>
  PROVE  Fits'
<1>1. HasJob(w) /\ HasJob(w)' /\ Id(w)' = Id(w)
  BY DEF HasJob, WithJob, WithPage, Id
<1>2. PICK i \in Job : i = Id(w)
  BY <1>1, CurFacts
<1>3. job[i].url = None /\ job[i].key = KeyOf(w)
  BY <1>1, <1>2, CurFacts DEF CurFits, KeyOf
<1>4. /\ StoreFits' /\ RowsFit(w)' /\ \A x \in Worker \ {w} : WorkerFits(x)'
      /\ Known(Id(w))' /\ SettledFirst(Id(w))'
      /\ v \in PagesFor(KeyOf(w))'
  BY <1>1, <1>2, <1>3, BoundStep
<1>5. CurFits(w)'
  <2>1. job'[i].url = url
    BY <1>3 DEF Binds
  <2>2. UrlFits(Cur(w))'
    BY <1>1, <1>2, <2>1 DEF UrlFits, Cur, Id
  <2> QED BY <1>1, <1>4, <2>2 DEF CurFits, Sending, Sent, Opening
<1>6. WorkerFits(w)'
  BY <1>4, <1>5 DEF WorkerFits, ClosingFits, PageFits, SendFits, Opening, Sending, Sent
<1> QED BY <1>4, <1>6 DEF Fits

\* run_once lists the eligible jobs.
LEMMA ListStep ==
  ASSUME NEW w \in Worker, Ready(w), me[w].step = "loop", Turns(w), Calm,
         me'[w].step = "jobs", me'[w].todo = EligibleJobs
  PROVE  Fits'
<1>1. ~HasJob(w) /\ ~HasJob(w)'
  BY DEF HasJob, WithJob, WithPage, Opening, Sending, Sent
<1>2. ASSUME NEW row \in EligibleJobs
      PROVE  row.id \in Job /\ row = RowOf(row.id) /\ Eligible(row.id) /\ Pending(row.id)
  BY DEF EligibleJobs, RowOf, Eligible
<1>3. Stays
  <2>1. \A j \in Job : InHand(w, j)' => Pending(j)
    BY <1>1, <1>2 DEF InHand
  <2> QED BY <2>1, TurnStays DEF Ready, Calm
<1>4. Names'
  <2>1. NamesKept
    BY CalmShrinks DEF NamesKept, Known, Calm, Ready
  <2> QED BY <2>1, NamesStay DEF Ready, StoreFits
<1>5. ASSUME NEW j \in Job PROVE JobFits(j)'
  <2>1. PagesFor(job[j].key)' = PagesFor(job[j].key)
    BY DEF PagesFor, InUse, Calm
  <2>2. JobFits(j) /\ QueueFits /\ Typed
    BY DEF Ready, StoreFits, Names
  <2> QED BY <1>3, <2>1, <2>2, JobsKept DEF Calm, JobFits
<1>6. RowsFit(w)'
  <2> SUFFICES ASSUME NEW row \in EligibleJobs PROVE RowFits(row)'
    BY <1>1, <1>2 DEF RowsFit
  <2>1. PICK j \in Job : j = row.id
    BY <1>2
  <2>2. /\ row = [id |-> j, state |-> job[j].state, url |-> job[j].url]
        /\ Known(j) /\ job[j].state \notin Terminal
    BY <1>2, <2>1 DEF RowOf, Pending
  <2>3. JobFits(j)
    BY DEF Ready, StoreFits
  <2>4. Known(j)' /\ (SettledFirst(j) => SettledFirst(j)')
    BY <1>3, <2>2, SettledStays DEF Stays, Ready, StoreFits, Names
  <2>5. row.id = j /\ row.state = job[j].state /\ row.url = job[j].url
    BY <2>2
  <2> HIDE DEF SettledFirst, Known
  <2>6. UrlFits(row)'
    BY <2>5 DEF UrlFits, Calm
  <2>7. /\ sent[j].times > 0 => row.state \in InDoubt
        /\ opens[j] > 0 => row.state \in InDoubt \cup {"OPENING"}
        /\ row.state \in Begun => SettledFirst(j)'
    BY <2>2, <2>3, <2>4, <2>5 DEF JobFits, Terminal
  <2> QED BY <2>4, <2>5, <2>6, <2>7 DEF RowFits, Calm
<1>7. WorkerFits(w)'
  BY <1>1, <1>6 DEF WorkerFits, PageFits, SendFits, ClosingFits, HasPage, WithPage, Opening,
                    Sending, Sent
<1>8. \A x \in Worker \ {w} : WorkerFits(x)'
  BY OthersIdle
<1> QED BY <1>4, <1>5, <1>7, <1>8 DEF Fits, StoreFits

\* run_once takes up a row no older job of its conversation holds back.
LEMMA PickStep ==
  ASSUME NEW w \in Worker, Ready(w), me[w].step = "jobs", Turns(w), NEW row \in me[w].todo,
         \A other \in me[w].todo : row.id <= other.id,
         ~HasOlderUnfinished(row.id),
         me'[w].todo = me[w].todo \ {row}, me'[w].step = StepFor(row.state),
         me'[w].cur \in Row, me'[w].cur.id = row.id,
         \/ /\ row.state # "SUBMITTING" /\ job' = job
            /\ me'[w].cur = row
         \/ /\ row.state = "SUBMITTING" /\ Puts(row.id, "RECONCILE_REQUIRED")
            /\ me'[w].cur.url = job[row.id].url,
         UNCHANGED <<conv, page, sent, opens>>
  PROVE  Fits'
<1>1. ~HasJob(w) /\ HasJob(w)' /\ Id(w)' = row.id /\ Cur(w)' = me'[w].cur
  BY DEF HasJob, WithJob, WithPage, Opening, Sending, Sent, StepFor, Id, Cur
<1>2. PICK i \in Job : i = row.id
  BY DEF Ready, Typed, Mine, Row
<1>3. RowFits(row) /\ Known(i) /\ InHand(w, i)
  BY <1>2 DEF Ready, WorkerFits, RowsFit, RowFits, InHand
<1>4. ASSUME NEW other \in me[w].todo, other # row
      PROVE  other.id \in Job /\ i < other.id
  BY <1>2, <1>4 DEF Ready, WorkerFits, RowsFit, Typed, Mine, Row, Job
<1>5. SettledFirst(i)
  <2> SUFFICES ASSUME NEW h \in Job, h < i, job[h].key = job[i].key
               PROVE  Closed(h)
    BY DEF SettledFirst
  <2>1. ~Pending(h)
    BY <1>2 DEF HasOlderUnfinished
  <2>2. ~InHand(w, h)
    BY <1>1, <1>2, <1>4 DEF InHand, Job
  <2>3. ASSUME NEW x \in Worker, x # w PROVE ~InHand(x, h)
    <3>1. ~Busy(x)
      BY <2>3, OnlyOneBusy DEF Ready
    <3> QED BY <3>1 DEF Busy, InHand, Ready, LocalsFit, HasJob, WithJob, WithPage, Opening,
                        Sending, Sent
  <2> QED BY <2>1, <2>2, <2>3 DEF Closed
<1>6. ASSUME NEW j \in Job
      PROVE  /\ job'[j].key = job[j].key /\ job'[j].url = job[j].url
             /\ \/ job'[j].state = job[j].state
                \/ j = i /\ job'[j].state = "RECONCILE_REQUIRED"
  BY <1>2 DEF Puts
<1>7. Stays
  <2>1. ASSUME NEW j \in Job, InHand(w, j)' PROVE InHand(w, j)
    BY <1>1, <1>2, <1>3, <2>1 DEF InHand
  <2> QED BY <1>3, <1>6, <2>1, TurnStays DEF Ready
<1>8. Names'
  <2>1. NamesKept
    BY <1>3, <1>6 DEF NamesKept, Known, Ready, Typed, Shrinks, InUse
  <2> QED BY <2>1, NamesStay DEF Ready, StoreFits
<1>9. ASSUME NEW j \in Job PROVE JobFits(j)'
  <2>1. PagesFor(job[j].key)' = PagesFor(job[j].key)
    BY <1>6 DEF PagesFor, InUse
  <2>2. JobFits(j) /\ QueueFits /\ Typed
    BY DEF Ready, StoreFits, Names
  <2>3. \/ job'[j].state = job[j].state
        \/ Known(j) /\ SettledFirst(j) /\ job'[j].state \in InDoubt
    BY <1>3, <1>5, <1>6 DEF InDoubt
  <2> QED BY <1>7, <2>1, <2>2, <2>3, JobsKept DEF JobFits
<1>10. RowsFit(w)'
  <2>1. \A other \in me'[w].todo : other.id \in Job /\ Id(w)' < other.id
    BY <1>1, <1>2, <1>4
  <2> QED BY <1>6, <1>7, <2>1, RowsKept DEF Ready, StoreFits, Names, WorkerFits
<1>11. CurFits(w)'
  <2>1. Known(i)' /\ SettledFirst(i)'
    BY <1>3, <1>5, <1>7, SettledStays DEF Stays, Ready, StoreFits, Names
  <2>2. UrlFits(Cur(w))'
    BY <1>1, <1>2, <1>3, <1>6 DEF UrlFits, RowFits
  <2>3. row.state \in InDoubt => me'[w].cur.url = job'[i].url
    BY <1>2, <1>3, <1>6 DEF RowFits, Begun, InDoubt
  <2>4. sent[i].times \in 0 .. 2 /\ opens[i] \in 0 .. 2
    BY DEF Ready, Typed
  <2>5. CASE row.state \in InDoubt
    <3>1. me'[w].step = "reconcile"
      BY <2>5 DEF StepFor, InDoubt
    <3> QED BY <1>1, <1>2, <2>1, <2>2, <2>3, <2>5, <3>1 DEF CurFits, Opening, Sending, Sent
  <2>6. CASE row.state \notin InDoubt
    <3>1. me'[w].step = "page" /\ me'[w].cur = row
      BY <2>6 DEF StepFor, InDoubt
    <3>2. sent[i].times = 0 /\ (opens[i] > 0 => row.state = "OPENING")
      BY <1>2, <1>3, <2>4, <2>6 DEF RowFits
    <3> QED BY <1>1, <1>2, <2>1, <2>2, <3>1, <3>2 DEF CurFits, Opening, Sending, Sent
  <2> QED BY <2>5, <2>6
<1>12. WorkerFits(w)'
  <2>1. me'[w].step \in {"page", "reconcile"}
    BY DEF StepFor
  <2> QED BY <1>10, <1>11, <2>1 DEF WorkerFits, PageFits, SendFits, ClosingFits, HasPage,
                                    WithPage, Opening, Sending, Sent
<1>13. \A x \in Worker \ {w} : WorkerFits(x)'
  BY OthersIdle
<1> QED BY <1>8, <1>9, <1>12, <1>13 DEF Fits, StoreFits

\* _close_idle_pages finds a page to close.
LEMMA CloseStep ==
  ASSUME NEW w \in Worker, Ready(w), me[w].step = "close", Turns(w), Calm,
         me'[w].step = "closing", me'[w].todo = me[w].todo, me'[w].win \in Window,
         ~HasPendingForConversation(page[me'[w].win].key)
  PROVE  Fits'
<1>1. ~HasJob(w)' /\ Shrinks
  BY CalmShrinks DEF HasJob, WithJob, WithPage, Opening, Sending, Sent, Ready
<1>2. StoreFits' /\ RowsFit(w)' /\ \A x \in Worker \ {w} : WorkerFits(x)'
  BY <1>1, QuietStep DEF Calm
<1>3. ClosingFits(w)'
  BY DEF ClosingFits, HasPendingForConversation, Pending, Known, InDoubt, Terminal, Calm
<1>4. WorkerFits(w)'
  BY <1>1, <1>2, <1>3 DEF WorkerFits, PageFits, SendFits, HasPage, WithPage, Opening, Sending, Sent
<1> QED BY <1>2, <1>4 DEF Fits

-----------------------------------------------------------------------------
(***************************************************************************)
(* The invariant is kept by every step of a worker.                        *)
(***************************************************************************)
Good ==
    /\ Typed /\ WorkersOwnTheLease
    /\ \A x \in Worker : LocalsFit(x)
    /\ Fits

LEMMA GoodReady ==
  ASSUME Good, NEW w \in Worker, Busy(w)
  PROVE  Ready(w)
BY DEF Good, Ready, Fits

\* What is left to show of a step of a busy worker once Fits' is known.
LEMMA TurnGood ==
  ASSUME NEW w \in Worker, Ready(w), Turns(w), Fits', LocalsFit(w)',
         job' \in [Job -> JobRow], conv' \in [Key -> Place \cup {None}],
         page' \in [Window -> PageRow],
         lease' \in [owner : Worker, fresh : BOOLEAN] \cup {None},
         Busy(w)' => lease' # None /\ lease'.owner = w,
         at' \in [Window -> Place \cup {Unborn, Shut}],
         launched' \subseteq [id : Job, place : Place],
         opens' \in [Job -> 0 .. 2],
         sent' \in [Job -> [times : 0 .. 2, to : Place \cup {None}]],
         UNCHANGED <<cancelling, delivered>>
  PROVE  Good'
<1>1. Typed'
  BY DEF Typed, Ready, Turns
<1>2. ASSUME NEW x \in Worker, x # w PROVE ~Busy(x)' /\ LocalsFit(x)'
  <2>1. ~Busy(x)
    BY <1>2, OnlyOneBusy DEF Ready
  <2> QED BY <1>2, <2>1 DEF Turns, Busy, LocalsFit, Ready, HasJob, HasPage, Cur
<1>3. WorkersOwnTheLease'
  BY <1>2 DEF WorkersOwnTheLease, Busy, Live
<1> QED BY <1>1, <1>2, <1>3 DEF Good

LEMMA OwnLease ==
  ASSUME NEW w \in Worker, Ready(w)
  PROVE  /\ lease # None /\ lease.owner = w
         /\ lease \in [owner : Worker, fresh : BOOLEAN]
BY DEF Ready, Typed, WorkersOwnTheLease, Busy, Live

\* The worker has no job after the step.
LEMMA RestGood ==
  ASSUME NEW w \in Worker, Ready(w), Rests(w), Busy(w)' \/ me'[w].todo = {},
         Shrinks,
         \/ job' = job
         \/ /\ HasJob(w)
            /\ \E s \in JobState : Puts(Id(w), s) /\ StateFits(Id(w), s),
         lease' \in [owner : Worker, fresh : BOOLEAN] \cup {None}, Busy(w)' => lease' = lease,
         at' \in [Window -> Place \cup {Unborn, Shut}],
         UNCHANGED <<conv, cancelling, launched, opens, sent, delivered>>
  PROVE  Good'
<1>1. Fits'
  BY RestStep
<1>2. LocalsFit(w)'
  BY DEF Rests, LocalsFit, HasJob, HasPage, WithJob, WithPage, Opening, Sending, Sent
<1>3. job' \in [Job -> JobRow]
  BY DEF Puts, Ready, Typed
<1>4. /\ conv' \in [Key -> Place \cup {None}] /\ launched' \subseteq [id : Job, place : Place]
      /\ opens' \in [Job -> 0 .. 2]
      /\ sent' \in [Job -> [times : 0 .. 2, to : Place \cup {None}]]
  BY DEF Ready, Typed
<1>5. Busy(w)' => lease' # None /\ lease'.owner = w
  BY OwnLease
<1> QED BY <1>1, <1>2, <1>3, <1>4, <1>5, TurnGood DEF Rests, Shrinks

\* The usual case: nothing but the jobs, the pages and the locals is written.
LEMMA GoGood ==
  ASSUME NEW w \in Worker, Ready(w), Turns(w), Fits', LocalsFit(w)',
         job' \in [Job -> JobRow], page' \in [Window -> PageRow],
         UNCHANGED <<conv, lease, cancelling, chrome>>
  PROVE  Good'
<1>1. /\ conv' \in [Key -> Place \cup {None}] /\ launched' \subseteq [id : Job, place : Place]
      /\ opens' \in [Job -> 0 .. 2]
      /\ sent' \in [Job -> [times : 0 .. 2, to : Place \cup {None}]]
      /\ lease' \in [owner : Worker, fresh : BOOLEAN] \cup {None}
      /\ at' \in [Window -> Place \cup {Unborn, Shut}]
  BY DEF Ready, Typed, chrome
<1>2. lease' # None /\ lease'.owner = w
  BY OwnLease
<1> QED BY <1>1, <1>2, TurnGood DEF chrome

LEMMA SkipRests ==
  ASSUME NEW w \in Worker, Ready(w), me' = Skip(w)
  PROVE  Rests(w) /\ Busy(w)'
BY SkipFacts DEF Ready, Typed, Rests, Turns, Busy, WithJob, WithPage, Opening, Sending, Sent

LEMMA GoneRests ==
  ASSUME NEW w \in Worker, Ready(w), me' = Gone(w)
  PROVE  Rests(w) /\ ~Busy(w)' /\ me'[w].todo = {}
BY GoneFacts DEF Ready, Typed, Rests, Turns, Busy, WithJob, WithPage, Opening, Sending, Sent

LEMMA GotoRests ==
  ASSUME NEW w \in Worker, Ready(w), NEW s \in {"close", "exit", "leaving", "loop"}, me' = Goto(w, s)
  PROVE  Rests(w) /\ Busy(w)'
BY GotoFacts DEF Ready, Typed, Rests, Turns, Busy, WithJob, WithPage, Opening, Sending, Sent, Step

LEMMA GotoGoes ==
  ASSUME NEW w \in Worker, Ready(w), NEW s \in Step, me' = Goto(w, s)
  PROVE  GoesOn(w, s) /\ me'[w].win = me[w].win
BY GotoFacts DEF Ready, Typed, GoesOn, Turns

LEMMA PutsState ==
  ASSUME Typed, NEW j \in Job, NEW s \in JobState, job' = SetState(j, s)
  PROVE  Puts(j, s)
BY SetStateFacts DEF Typed, Puts

LEMMA EndShrinks ==
  ASSUME Typed, NEW v \in Window, NEW s \in {"CLOSED", "AMBIGUOUS"}, page' = EndPage(v, s)
  PROVE  Shrinks /\ ~InUse(v)'
<1>1. s \in PageState /\ s \notin {"OPEN", "IDLE"}
  BY DEF PageState
<1>2. /\ page' \in [Window -> PageRow] /\ page'[v].state = s
      /\ page'[v].key = page[v].key /\ page'[v].url = page[v].url
      /\ \A u \in Window \ {v} : page'[u] = page[u]
  BY <1>1, EndPageFacts DEF Typed
<1> QED BY <1>1, <1>2 DEF Shrinks, InUse

LEMMA IdleShrinks ==
  ASSUME Typed, NEW v \in Window, InUse(v), page' = MarkIdle(v)
  PROVE  Shrinks
BY MarkIdleFacts DEF Typed, Shrinks, InUse

\* Locals of a worker that goes on with its job.
LEMMA GoesLocals ==
  ASSUME NEW w \in Worker, Ready(w), HasJob(w), NEW s \in WithJob, GoesOn(w, s),
         HasPage(w)' \/ s = "upsert" => me'[w].win \in Window,
         s \in Sent => me[w].result \in Result
  PROVE  LocalsFit(w)'
BY DEF LocalsFit, Ready, GoesOn, Cur, HasJob, HasPage, Busy, WithJob, WithPage, Opening, Sending, Sent

\* The steps of a worker before it owns the lease.
LEMMA IdleStep ==
  ASSUME Good, NEW w \in Worker, ~Busy(w), Turns(w), Calm,
         me'[w].step \in {"starting", "loop", "gone"}, me'[w].todo = {}
  PROVE  Fits' /\ \A x \in Worker : LocalsFit(x)'
<1>1. ~HasJob(w)'
  BY DEF HasJob, WithJob, WithPage, Opening, Sending, Sent
<1>2. ASSUME NEW x \in Worker PROVE LocalsFit(x)'
  <2>1. CASE x = w
    BY <1>1, <2>1 DEF LocalsFit, HasPage, HasJob, WithJob, Sent
  <2>2. CASE x # w
    BY <2>2 DEF Good, LocalsFit, Busy, HasJob, HasPage, Turns, Cur
  <2> QED BY <2>1, <2>2
<1>3. Stays /\ Names'
  <2>1. \A j \in Job : InHand(w, j)' => InHand(w, j)
    BY <1>1, HandKept
  <2>2. NamesKept
    BY CalmShrinks DEF NamesKept, Known, Calm, Good
  <2> QED BY <2>1, <2>2, TurnStays, NamesStay DEF Good, Fits, StoreFits, Calm
<1>4. ASSUME NEW j \in Job PROVE JobFits(j)'
  <2>1. PagesFor(job[j].key)' = PagesFor(job[j].key)
    BY DEF PagesFor, InUse, Calm
  <2>2. JobFits(j) /\ QueueFits /\ Typed
    BY DEF Good, Fits, StoreFits, Names
  <2> QED BY <1>3, <2>1, <2>2, JobsKept DEF Calm, JobFits
<1>5. ASSUME NEW x \in Worker, x # w PROVE WorkerFits(x)'
  <2>1. me'[x] = me[x]
    BY <1>5 DEF Turns
  <2> QED BY <1>3, <2>1, OthersFit DEF Good, Fits, StoreFits, Names, Calm
<1>6. WorkerFits(w)'
  BY <1>1 DEF WorkerFits, RowsFit, PageFits, SendFits, ClosingFits, HasPage, WithPage, Opening,
              Sending, Sent
<1> QED BY <1>2, <1>3, <1>4, <1>5, <1>6 DEF Fits, StoreFits

LEMMA EnsureWorkerGood ==
  ASSUME Good, NEW w \in Worker, EnsureWorker(w)
  PROVE  Good'
<1>1. Turns(w) /\ me'[w].step = "starting" /\ me'[w].todo = me[w].todo
  BY GotoFacts DEF Good, Typed, EnsureWorker, Turns, Step
<1>2. ~Busy(w) /\ ~Busy(w)' /\ Calm
  BY <1>1 DEF EnsureWorker, Busy, Calm, chrome
<1>3. me'[w].todo = {}
  BY <1>1, <1>2 DEF Good, LocalsFit
<1>4. Typed'
  BY <1>1 DEF Good, Typed, EnsureWorker, Turns, chrome
<1>5. WorkersOwnTheLease'
  <2>1. ASSUME NEW x \in Worker, Busy(x)' PROVE lease' # None /\ lease'.owner = x
    <3>1. x # w /\ Busy(x)
      BY <1>1, <1>2, <2>1 DEF Turns, Busy
    <3>2. lease # None /\ lease.owner = x /\ Live(x)
      BY <3>1 DEF Good, WorkersOwnTheLease, Busy, Live
    <3> QED BY <3>2 DEF EnsureWorker
  <2> QED BY <2>1 DEF WorkersOwnTheLease, Busy, Live
<1> QED BY <1>1, <1>2, <1>3, <1>4, <1>5, IdleStep DEF Good

\* acquire_lease succeeds only when nobody is busy.
LEMMA AcquireLeaseGood ==
  ASSUME Good, NEW w \in Worker, AcquireLease(w)
  PROVE  Good'
<1>1. ~Busy(w) /\ Calm /\ me[w].todo = {} /\ me \in [Worker -> Mine]
  BY DEF AcquireLease, Busy, Calm, chrome, Good, LocalsFit, Typed
<1>2. CASE me' = Gone(w) /\ UNCHANGED lease
  <2>1. Turns(w) /\ me'[w].step = "gone" /\ me'[w].todo = {}
    BY <1>1, <1>2, GoneFacts DEF Turns
  <2>2. Typed'
    BY <1>2, <2>1 DEF Good, Typed, AcquireLease, Turns, chrome
  <2>3. WorkersOwnTheLease'
    BY <1>2, <2>1 DEF Good, WorkersOwnTheLease, Live, Turns
  <2> QED BY <1>1, <2>1, <2>2, <2>3, IdleStep DEF Good
<1>3. CASE /\ ~(lease # None /\ (lease.fresh \/ Live(lease.owner)))
           /\ me' = Goto(w, "loop") /\ lease' = [owner |-> w, fresh |-> TRUE]
  <2>1. Turns(w) /\ me'[w].step = "loop" /\ me'[w].todo = {}
    <3>1. "loop" \in Step
      BY DEF Step
    <3> QED BY <1>1, <1>3, <3>1, GotoFacts DEF Turns
  <2>2. Typed'
    BY <1>3, <2>1 DEF Good, Typed, AcquireLease, Turns, chrome
  <2>3. ASSUME NEW x \in Worker, x # w PROVE ~Busy(x)'
    <3>1. ~Busy(x)
      BY <1>3 DEF Good, WorkersOwnTheLease, Busy, Live
    <3> QED BY <2>1, <2>3, <3>1 DEF Turns, Busy
  <2>4. lease' # None /\ lease'.owner = w
    <3>1. [owner |-> w, fresh |-> TRUE] \in [owner : Worker, fresh : BOOLEAN]
      OBVIOUS
    <3>2. None \notin [owner : Worker, fresh : BOOLEAN]
      BY ChatAssumption
    <3> QED BY <1>3, <3>1, <3>2
  <2>5. WorkersOwnTheLease'
    BY <2>3, <2>4 DEF WorkersOwnTheLease, Live, Busy
  <2> QED BY <1>1, <2>1, <2>2, <2>5, IdleStep DEF Good
<1> QED BY <1>2, <1>3 DEF AcquireLease

\* The worker is killed.
LEMMA CrashGood ==
  ASSUME Good, NEW w \in Worker, Crash(w)
  PROVE  Good'
<1>1. Calm /\ me \in [Worker -> Mine] /\ me' = Gone(w) /\ UNCHANGED <<lease, cancelling, chrome>>
  BY DEF Crash, Calm, chrome, Good, Typed
<1>2. CASE Busy(w)
  BY <1>1, <1>2, GoodReady, GoneRests, CalmShrinks, RestGood DEF Calm, chrome, Ready, Typed
<1>3. CASE ~Busy(w)
  <2>1. Turns(w) /\ me'[w].step = "gone" /\ me'[w].todo = {}
    BY <1>1, GoneFacts DEF Turns
  <2>2. Typed'
    BY <1>1, <2>1 DEF Good, Typed, Calm, Turns, chrome
  <2>3. WorkersOwnTheLease'
    BY <1>1, <2>1 DEF Good, WorkersOwnTheLease, Live, Turns
  <2> QED BY <1>1, <1>3, <2>1, <2>2, <2>3, IdleStep DEF Good
<1> QED BY <1>2, <1>3

LEMMA HeartbeatGood ==
  ASSUME Good, NEW w \in Worker, Heartbeat(w)
  PROVE  Good'
<1>1. Ready(w) /\ Calm /\ me[w].step = "loop"
  BY GoodReady DEF Heartbeat, Busy, Calm, chrome
<1>2. /\ lease # None /\ lease.owner = w
      /\ lease \in [owner : Worker, fresh : BOOLEAN]
  BY <1>1, OwnLease
<1>3. lease' = [lease EXCEPT !.fresh = TRUE]
  BY <1>2 DEF Heartbeat
<1>4. lease' \in [owner : Worker, fresh : BOOLEAN] /\ lease'.owner = w /\ lease' # None
  BY <1>2, <1>3, ChatAssumption
<1> DEFINE m == [me[w] EXCEPT !.step = "jobs", !.todo = EligibleJobs]
<1>5. me' = [me EXCEPT ![w] = m]
  BY <1>2 DEF Heartbeat
<1>6. EligibleJobs \subseteq Row
  <2>1. ASSUME NEW j \in Job, Eligible(j) PROVE RowOf(j) \in Row
    <3>1. job[j] \in JobRow /\ job[j].state # "absent"
      BY <2>1 DEF Good, Typed, Eligible, Pending, Known
    <3> QED BY <3>1 DEF RowOf, Row, JobRow
  <2> QED BY <2>1 DEF EligibleJobs
<1>7. me[w] \in Mine
  BY DEF Good, Typed
<1>8. m \in Mine /\ m.step = "jobs" /\ m.todo = EligibleJobs
  BY <1>6, <1>7 DEF Mine, Step
<1> HIDE DEF m
<1>9. Turns(w) /\ me'[w].step = "jobs" /\ me'[w].todo = EligibleJobs
  BY <1>5, <1>8 DEF Good, Typed, Turns
<1>10. Fits'
  BY <1>1, <1>9, ListStep
<1>11. LocalsFit(w)'
  BY <1>9 DEF LocalsFit, HasJob, HasPage, Busy, WithJob, WithPage, Opening, Sending, Sent
<1> QED BY <1>1, <1>4, <1>9, <1>10, <1>11, TurnGood DEF Heartbeat, Calm, chrome, Good, Typed

LEMMA NoMoreJobsGood ==
  ASSUME Good, NEW w \in Worker, NoMoreJobs(w)
  PROVE  Good'
<1>1. Ready(w) /\ Calm
  BY GoodReady DEF NoMoreJobs, Busy, Calm, chrome
<1> DEFINE ps == {v \in Window : page[v].state \notin {"absent", "CLOSED"}}
           m == [me[w] EXCEPT !.step = "close", !.pages = ps]
<1>2. me' = [me EXCEPT ![w] = m] /\ me[w] \in Mine /\ ps \in SUBSET Window
  BY DEF NoMoreJobs, Good, Typed
<1> HIDE DEF ps
<1>3. m \in Mine /\ m.step = "close" /\ m.todo = me[w].todo
  BY <1>2 DEF Mine, Step
<1> HIDE DEF m
<1>4. Rests(w) /\ Busy(w)'
  BY <1>2, <1>3 DEF Good, Typed, Rests, Turns, Busy, WithJob, WithPage, Opening, Sending, Sent
<1> QED BY <1>1, <1>4, CalmShrinks, RestGood DEF NoMoreJobs, Calm, chrome, Ready, Typed

LEMMA NextJobGood ==
  ASSUME Good, NEW w \in Worker, NEW row \in me[w].todo, NextJob(w, row)
  PROVE  Good'
<1>1. Ready(w) /\ me[w].step = "jobs"
  BY GoodReady DEF NextJob, Busy
<1>2. me[w] \in Mine /\ row \in Row /\ row.id \in Job /\ job[row.id] \in JobRow
  BY DEF Good, Typed, Mine, Row
<1>3. CASE HasOlderUnfinished(row.id)
  <2> DEFINE m == [me[w] EXCEPT !.todo = me[w].todo \ {row}]
  <2>1. me' = [me EXCEPT ![w] = m] /\ job' = job
    BY <1>3 DEF NextJob
  <2>2. m \in Mine /\ m.step = "jobs" /\ m.todo \subseteq me[w].todo
    BY <1>1, <1>2 DEF Mine
  <2> HIDE DEF m
  <2>3. Rests(w) /\ Busy(w)'
    BY <2>1, <2>2 DEF Good, Typed, Rests, Turns, Busy, WithJob, WithPage, Opening, Sending, Sent
  <2>4. Calm
    BY <2>1 DEF NextJob, Calm, chrome
  <2> QED BY <1>1, <2>3, <2>4, CalmShrinks, RestGood DEF NextJob, Calm, chrome, Ready, Typed
<1>4. CASE ~HasOlderUnfinished(row.id)
  <2> DEFINE again == row.state = "SUBMITTING"
             next == IF again THEN SetState(row.id, "RECONCILE_REQUIRED") ELSE job
             cur == IF again THEN [row EXCEPT !.state = next[row.id].state, !.url = next[row.id].url]
                    ELSE row
             m == [me[w] EXCEPT !.todo = me[w].todo \ {row}, !.step = StepFor(row.state), !.cur = cur]
  <2>1. me' = [me EXCEPT ![w] = m] /\ job' = next
    BY <1>4 DEF NextJob
  <2>2. /\ again => Puts(row.id, "RECONCILE_REQUIRED")
        /\ ~again => job' = job
        /\ job' \in [Job -> JobRow]
    BY <1>2, <2>1, PutsState DEF Good, Typed, JobState, Puts
  <2>3. again => next[row.id].state = "RECONCILE_REQUIRED" /\ next[row.id].url = job[row.id].url
    BY <1>2, <2>1, <2>2 DEF Puts
  <2> HIDE DEF next
  <2>4. cur \in Row /\ cur.id = row.id /\ (again => cur.url = job[row.id].url) /\ (~again => cur = row)
    BY <1>2, <2>3 DEF Row, JobRow, JobState
  <2>5. StepFor(row.state) \in Step
    BY DEF StepFor, Step
  <2> HIDE DEF cur
  <2>6. m \in Mine /\ m.todo = me[w].todo \ {row} /\ m.step = StepFor(row.state) /\ m.cur = cur
    BY <1>2, <2>4, <2>5 DEF Mine
  <2> HIDE DEF m
  <2>7. Turns(w) /\ me'[w] = m
    BY <2>1, <2>6 DEF Good, Typed, Turns
  <2>8. Fits'
    BY <1>1, <1>4, <2>2, <2>4, <2>6, <2>7, PickStep DEF NextJob, chrome
  <2>9. LocalsFit(w)'
    BY <2>4, <2>6, <2>7 DEF LocalsFit, HasJob, HasPage, Busy, WithPage, Opening, Sending, Sent,
                            StepFor, Cur
  <2> QED BY <1>1, <2>2, <2>7, <2>8, <2>9, GoGood DEF NextJob, Good, Typed
<1> QED BY <1>3, <1>4

\* Steps that record an outcome of the current job and go on with the next.
LEMMA OutcomeGood ==
  ASSUME NEW w \in Worker, Ready(w), HasJob(w), NEW s \in JobState, StateFits(Id(w), s),
         Puts(Id(w), s), me' = Skip(w), Shrinks,
         UNCHANGED <<conv, lease, cancelling, chrome>>
  PROVE  Good'
BY SkipRests, RestGood DEF chrome, Ready, Typed

LEMMA FailGood ==
  ASSUME NEW w \in Worker, Ready(w), HasJob(w), NEW s \in JobState, StateFits(Id(w), s),
         job' = SetState(Id(w), s), me' = Skip(w),
         UNCHANGED <<conv, page, lease, cancelling, chrome>>
  PROVE  Good'
<1>1. Puts(Id(w), s)
  BY CurFacts, PutsState DEF Ready
<1>2. Shrinks
  BY DEF Ready, Typed, Shrinks, InUse
<1> QED BY <1>1, <1>2, OutcomeGood

\* mark_page_closed takes the page out of use.
LEMMA LostShrinks ==
  ASSUME Typed, NEW url, NEW v \in Window, PageLost(url, v, page')
  PROVE  Shrinks /\ ~InUse(v)'
BY EndShrinks DEF PageLost

LEMMA ReusePageGood ==
  ASSUME Good, NEW w \in Worker, ReusePage(w)
  PROVE  Good'
<1>1. Ready(w) /\ me[w].step = "page" /\ HasJob(w)
  BY GoodReady DEF ReusePage, Busy, HasJob, WithJob
<1>2. PICK v \in PagesFor(KeyOf(w)) :
         /\ Usable(Cur(w).url, v)
         /\ page' = [PageFound(Cur(w).url, v) EXCEPT ![v] = [@ EXCEPT !.state = "OPEN", !.grace = FALSE]]
         /\ me' = WithWindow(w, "submit", v)
  BY DEF ReusePage
<1>3. v \in Window /\ Cur(w).url \in Place \cup {None} /\ "submit" \in Step /\ "submit" \in WithJob
  BY <1>1, CurFacts DEF PagesFor, Row, Step, WithJob, WithPage, Sending
<1>4. GoesOn(w, "submit") /\ me'[w].win = v
  BY <1>2, <1>3, WithWindowFacts DEF Good, Typed, GoesOn, Turns
<1>5. /\ Paged(page', v) /\ page'[v].state = "OPEN" /\ page'[v].key = page[v].key
      /\ page'[v].url = IF Cur(w).url = None THEN page[v].url ELSE Cur(w).url
  BY <1>2, <1>3, ReusedFacts DEF Good, Typed
<1>6. UNCHANGED <<job, conv, lease, cancelling, chrome>> /\ UNCHANGED <<sent, opens>>
  BY DEF ReusePage, chrome
<1>7. Fits'
  BY <1>1, <1>4, <1>5, <1>6, FoundPageStep
<1>8. LocalsFit(w)'
  BY <1>1, <1>3, <1>4, GoesLocals DEF Sent
<1> QED BY <1>1, <1>4, <1>5, <1>6, <1>7, <1>8, GoGood DEF GoesOn, Paged, Good, Typed

LEMMA LosePageGood ==
  ASSUME Good, NEW w \in Worker, LosePage(w)
  PROVE  Good'
<1>1. Ready(w) /\ me[w].step = "page" /\ HasJob(w)
  BY GoodReady DEF LosePage, Busy, HasJob, WithJob
<1>2. UNCHANGED <<job, conv, lease, cancelling, chrome>> /\ UNCHANGED <<sent, opens>>
  BY DEF LosePage, chrome
<1>3. GoesOn(w, "acquire") /\ "acquire" \in WithJob
  <2>1. "acquire" \in Step
    BY DEF Step
  <2> QED BY <1>1, <2>1, GotoGoes DEF LosePage, WithJob, Opening
<1>4. /\ Shrinks
      /\ PagesFor(KeyOf(w)) = {} \/ \E v \in PagesFor(KeyOf(w)) : ~InUse(v)'
  <2>1. CASE PagesFor(KeyOf(w)) = {} /\ UNCHANGED page
    BY <2>1 DEF Good, Typed, Shrinks, InUse
  <2>2. CASE \E v \in PagesFor(KeyOf(w)) : PageLost(Cur(w).url, v, page')
    <3>1. PICK v \in PagesFor(KeyOf(w)) : PageLost(Cur(w).url, v, page')
      BY <2>2
    <3>2. v \in Window
      BY DEF PagesFor
    <3> QED BY <3>1, <3>2, LostShrinks DEF Good
  <2> QED BY <2>1, <2>2 DEF LosePage
<1>5. Fits'
  BY <1>1, <1>2, <1>3, <1>4, LoseStep
<1>6. LocalsFit(w)'
  BY <1>1, <1>3, GoesLocals DEF GoesOn, Sent, HasPage, WithPage, Sending
<1> QED BY <1>1, <1>2, <1>3, <1>4, <1>5, <1>6, GoGood DEF GoesOn, Shrinks, Good, Typed

\* Three ways to a window.
LEMMA AcquiredGood ==
  ASSUME NEW w \in Worker, Ready(w), me[w].step \in {"acquire", "launch", "poll"},
         NEW v \in Window, NEW own \in BOOLEAN, me' = Acquired(w, v, own),
         UNCHANGED <<job, conv, page, lease, cancelling, chrome>>
  PROVE  Good'
<1>1. Calm /\ HasJob(w)
  BY DEF Calm, chrome, HasJob, WithJob, Opening
<1>2. GoesOn(w, "upsert") /\ me'[w].win = v
  BY AcquiredFacts DEF Ready, Typed, Turns, GoesOn
<1>3. Fits'
  BY <1>1, <1>2, FoundStep
<1>4. LocalsFit(w)'
  BY <1>1, <1>2, GoesLocals DEF WithJob, Sent
<1> QED BY <1>2, <1>3, <1>4, GoGood DEF GoesOn, Ready, Typed

LEMMA FindWindowGood ==
  ASSUME Good, NEW w \in Worker, FindWindow(w)
  PROVE  Good'
<1>1. Ready(w)
  BY GoodReady DEF FindWindow, Busy
<1> DEFINE own == Cur(w).url = None
<1>2. own \in BOOLEAN
  OBVIOUS
<1>3. PICK v \in Window : me' = Acquired(w, v, own)
  BY DEF FindWindow
<1> HIDE DEF own
<1> QED BY <1>1, <1>2, <1>3, AcquiredGood DEF FindWindow

LEMMA OpenFindsWindowGood ==
  ASSUME Good, NEW w \in Worker, OpenFindsWindow(w) \/ PollWindow(w)
  PROVE  Good'
<1>1. Ready(w)
  BY GoodReady DEF OpenFindsWindow, PollWindow, Busy
<1> QED BY <1>1, AcquiredGood DEF OpenFindsWindow, PollWindow

LEMMA OpenFailsGood ==
  ASSUME Good, NEW w \in Worker, AcquireFails(w) \/ OpenUnresolved(w) \/ OpenRaises(w)
  PROVE  Good'
<1>1. Ready(w) /\ HasJob(w) /\ me[w].step \in {"acquire", "launch", "poll"}
  BY GoodReady DEF AcquireFails, OpenUnresolved, OpenRaises, Busy, HasJob, WithJob, Opening
<1>2. sent[Id(w)].times = 0
  BY <1>1, CurFacts DEF CurFits, Opening
<1>3. StateFits(Id(w), "FAILED") /\ StateFits(Id(w), "RECONCILE_REQUIRED")
  BY <1>2 DEF StateFits, InDoubt, Terminal
<1>4. "FAILED" \in JobState /\ "RECONCILE_REQUIRED" \in JobState
  BY DEF JobState
<1> QED BY <1>1, <1>3, <1>4, FailGood DEF AcquireFails, OpenUnresolved, OpenRaises

LEMMA PoolFullGood ==
  ASSUME Good, NEW w \in Worker, PoolFull(w) \/ ObserveNothing(w)
  PROVE  Good'
<1>1. Ready(w) /\ Calm /\ me' = Skip(w) /\ UNCHANGED <<lease, cancelling, chrome>>
  BY GoodReady DEF PoolFull, ObserveNothing, Busy, Calm, chrome
<1> QED BY <1>1, SkipRests, CalmShrinks, RestGood DEF Calm, chrome, Ready, Typed

LEMMA AuthorizeOpenGood ==
  ASSUME Good, NEW w \in Worker, AuthorizeOpen(w)
  PROVE  Good'
<1>1. /\ Ready(w) /\ me[w].step = "acquire" /\ HasJob(w) /\ Cur(w).state # "OPENING"
      /\ UNCHANGED <<conv, page, lease, cancelling, chrome>> /\ UNCHANGED <<sent, opens>>
  BY GoodReady DEF AuthorizeOpen, Busy, HasJob, WithJob, Opening, chrome
<1>2. Puts(Id(w), "OPENING")
  <2>1. "OPENING" \in JobState
    BY DEF JobState
  <2> QED BY <1>1, <2>1, CurFacts, PutsState DEF AuthorizeOpen, Ready
<1>3. GoesOn(w, "launch") /\ "launch" \in WithJob
  <2>1. "launch" \in Step
    BY DEF Step
  <2> QED BY <1>1, <2>1, GotoGoes DEF AuthorizeOpen, WithJob, Opening
<1>4. Fits'
  BY <1>1, <1>2, <1>3, AuthorizeStep
<1>5. LocalsFit(w)'
  BY <1>1, <1>3, GoesLocals DEF GoesOn, Sent, HasPage, WithPage, Sending
<1> QED BY <1>1, <1>2, <1>3, <1>4, <1>5, GoGood DEF GoesOn, Puts, Good, Typed

LEMMA LaunchGood ==
  ASSUME Good, NEW w \in Worker, Launch(w)
  PROVE  Good'
<1>1. /\ Ready(w) /\ me[w].step = "launch" /\ HasJob(w)
      /\ UNCHANGED <<job, conv, page, lease, cancelling, at, sent, delivered>>
  BY GoodReady DEF Launch, Busy, HasJob, WithJob, Opening
<1>2. GoesOn(w, "poll") /\ "poll" \in WithJob
  <2>1. "poll" \in Step
    BY DEF Step
  <2> QED BY <1>1, <2>1, GotoGoes DEF Launch, WithJob, Opening
<1>3. Id(w) \in Job /\ Cur(w).url \in Place \cup {None}
  BY <1>1, CurFacts DEF Row
<1>4. /\ opens' \in [Job -> 0 .. 2]
      /\ \A j \in Job : opens'[j] = IF j = Id(w) THEN Twice(opens[j]) ELSE opens[j]
  BY <1>3 DEF Launch, Good, Typed, Twice
<1>5. launched' \subseteq [id : Job, place : Place]
  <2>1. Target(w) \in Place
    BY <1>3 DEF Target, Root, Place
  <2> QED BY <1>3, <2>1 DEF Launch, Good, Typed
<1>6. Fits'
  BY <1>1, <1>2, <1>4, LaunchStep
<1>7. LocalsFit(w)'
  BY <1>1, <1>2, GoesLocals DEF GoesOn, Sent, HasPage, WithPage, Sending
<1>8. lease # None /\ lease.owner = w
  BY <1>1, OwnLease
<1> QED BY <1>1, <1>2, <1>4, <1>5, <1>6, <1>7, <1>8, TurnGood DEF GoesOn, Good, Typed

LEMMA UpsertPageGood ==
  ASSUME Good, NEW w \in Worker, UpsertPage(w)
  PROVE  Good'
<1>1. /\ Ready(w) /\ me[w].step = "upsert" /\ HasJob(w) /\ me[w].win \in Window
      /\ UNCHANGED <<job, conv, lease, cancelling, at, launched, sent, delivered>>
  BY GoodReady DEF UpsertPage, Busy, HasJob, WithJob, Good, LocalsFit
<1>2. GoesOn(w, "bind") /\ me'[w].win = me[w].win /\ "bind" \in WithJob
  <2>1. "bind" \in Step
    BY DEF Step
  <2> QED BY <1>1, <2>1, GotoGoes DEF UpsertPage, WithJob, WithPage, Sending
<1>3. Id(w) \in Job /\ KeyOf(w) \in Key /\ Target(w) \in Place
  BY <1>1, CurFacts DEF Row, Target, Root, Place
<1>4. /\ opens' \in [Job -> 0 .. 2]
      /\ \A j \in Job : opens'[j] = IF j = Id(w) THEN 0 ELSE opens[j]
  BY <1>3 DEF UpsertPage, Good, Typed
<1> DEFINE o == page[me[w].win].owned \/ me[w].own
           r == [state |-> "OPEN", key |-> KeyOf(w), url |-> Target(w), owned |-> o, grace |-> FALSE]
<1>5. page' = [page EXCEPT ![me[w].win] = r]
  BY DEF UpsertPage
<1>6. o \in BOOLEAN
  OBVIOUS
<1> HIDE DEF o
<1>7. r \in PageRow /\ r.state = "OPEN" /\ r.key = KeyOf(w) /\ r.url = Target(w)
  BY <1>3, <1>6 DEF PageRow, PageState
<1> HIDE DEF r
<1>8. /\ Paged(page', me[w].win) /\ page'[me[w].win].state = "OPEN"
      /\ page'[me[w].win].key = KeyOf(w) /\ page'[me[w].win].url = Target(w)
  BY <1>1, <1>5, <1>7 DEF Good, Typed, Paged
<1>9. Fits'
  BY <1>1, <1>2, <1>4, <1>8, UpsertStep
<1>10. LocalsFit(w)'
  BY <1>1, <1>2, GoesLocals DEF Sent
<1>11. lease # None /\ lease.owner = w
  BY <1>1, OwnLease
<1> QED BY <1>1, <1>2, <1>4, <1>8, <1>9, <1>10, <1>11, TurnGood DEF GoesOn, Paged, Good, Typed

LEMMA BindWindowGood ==
  ASSUME Good, NEW w \in Worker, BindWindow(w)
  PROVE  Good'
<1>1. /\ Ready(w) /\ me[w].step = "bind" /\ HasJob(w) /\ me[w].win \in Window
      /\ UNCHANGED <<conv, page, lease, cancelling, chrome>> /\ UNCHANGED <<sent, opens>>
  BY GoodReady DEF BindWindow, Busy, HasJob, HasPage, WithJob, WithPage, Sending, chrome, Good,
                   LocalsFit
<1>2. Puts(Id(w), "WINDOW_BOUND")
  <2>1. "WINDOW_BOUND" \in JobState
    BY DEF JobState
  <2> QED BY <1>1, <2>1, CurFacts, PutsState DEF BindWindow, Ready
<1>3. GoesOn(w, "submit") /\ me'[w].win = me[w].win /\ "submit" \in WithJob
  <2>1. "submit" \in Step
    BY DEF Step
  <2> QED BY <1>1, <2>1, GotoGoes DEF BindWindow, WithJob, WithPage, Sending
<1>4. Fits'
  BY <1>1, <1>2, <1>3, BindStep
<1>5. LocalsFit(w)'
  BY <1>1, <1>3, GoesLocals DEF Sent
<1> QED BY <1>1, <1>2, <1>3, <1>4, <1>5, GoGood DEF GoesOn, Puts, Good, Typed

LEMMA SubmitGood ==
  ASSUME Good, NEW w \in Worker, Submit(w)
  PROVE  Good'
<1>1. /\ Ready(w) /\ me[w].step = "submit" /\ HasJob(w) /\ me[w].win \in Window
      /\ UNCHANGED <<conv, page, lease, cancelling, chrome>> /\ UNCHANGED <<sent, opens>>
  BY GoodReady DEF Submit, Busy, HasJob, HasPage, WithJob, WithPage, Sending, chrome, Good,
                   LocalsFit
<1>2. Puts(Id(w), "SUBMITTING")
  <2>1. "SUBMITTING" \in JobState
    BY DEF JobState
  <2> QED BY <1>1, <2>1, CurFacts, PutsState DEF Submit, Ready
<1> DEFINE c == [id |-> Id(w), state |-> "SUBMITTING", url |-> job[Id(w)].url]
           m == [me[w] EXCEPT !.step = "send", !.cur = c]
<1>3. me' = [me EXCEPT ![w] = m]
  BY DEF Submit
<1>4. c \in Row /\ c.id = Id(w) /\ c.url = job[Id(w)].url
  BY <1>1, CurFacts DEF Good, Typed, JobRow, Row, JobState
<1> HIDE DEF c
<1>5. me[w] \in Mine
  BY DEF Good, Typed
<1>6. m \in Mine /\ m.step = "send" /\ m.cur = c /\ m.win = me[w].win /\ m.todo = me[w].todo
  BY <1>4, <1>5 DEF Mine, Step
<1> HIDE DEF m
<1>7. Turns(w) /\ me'[w] = m
  BY <1>3, <1>6 DEF Good, Typed, Turns
<1>8. Fits'
  BY <1>1, <1>2, <1>4, <1>6, <1>7, SubmitStep
<1>9. LocalsFit(w)'
  BY <1>1, <1>4, <1>6, <1>7 DEF LocalsFit, Busy, Cur, Sent
<1> QED BY <1>1, <1>2, <1>7, <1>8, <1>9, GoGood DEF Puts, Good, Typed

LEMMA SendGood ==
  ASSUME Good, NEW w \in Worker,
         \/ \E r \in {"submitted", "ambiguous", "raised"} : SendReaches(w, r)
         \/ \E r \in {"ambiguous", "limited", "rejected", "raised"} : SendMisses(w, r)
  PROVE  Good'
<1>1. /\ Ready(w) /\ me[w].step = "send" /\ HasJob(w) /\ me[w].win \in Window
      /\ UNCHANGED <<job, conv, page, lease, cancelling, at, launched, opens, delivered>>
  BY GoodReady DEF SendReaches, SendMisses, Busy, HasJob, HasPage, WithJob, WithPage, Sending,
                   chrome, Good, LocalsFit
<1>2. PICK r \in Result :
         /\ me' = AfterSend(w, r)
         /\ \/ /\ SendReaches(w, r) /\ r \in {"submitted", "ambiguous", "raised"}
            \/ /\ SendMisses(w, r) /\ r # "submitted"
  BY DEF SendReaches, SendMisses, Result
<1>3. /\ Turns(w) /\ me'[w].step \in Sent /\ me'[w].result = r /\ me'[w].win = me[w].win
      /\ me'[w].todo = me[w].todo /\ me'[w].cur = me[w].cur
  BY <1>2, AfterSendFacts DEF Good, Typed, Turns
<1>4. LocalsFit(w)'
  BY <1>1, <1>3, CurFacts DEF LocalsFit, Busy, Cur, Sent
<1>5. lease # None /\ lease.owner = w /\ Id(w) \in Job
  BY <1>1, OwnLease, CurFacts
<1>6. CASE SendReaches(w, r) /\ r \in {"submitted", "ambiguous", "raised"}
  <2> DEFINE to == at[me[w].win]
             n == [times |-> Twice(sent[Id(w)].times), to |-> to]
  <2>1. to \in Place
    <3>1. to \in Place \cup {Unborn, Shut}
      BY <1>1 DEF Good, Typed
    <3>2. Cur(w).url # None => to.kind = "chat"
      BY <1>6 DEF SendReaches, Reachable
    <3>3. Cur(w).url = None => to = Root(Id(w))
      BY <1>6 DEF SendReaches, Reachable
    <3> QED BY <1>5, <3>1, <3>2, <3>3 DEF Unborn, Shut, Root, Place
  <2>2. sent' = [sent EXCEPT ![Id(w)] = n]
    BY <1>6 DEF SendReaches
  <2>3. sent[Id(w)] \in [times : 0 .. 2, to : Place \cup {None}]
    BY <1>5 DEF Good, Typed
  <2> HIDE DEF to
  <2>4. n \in [times : 0 .. 2, to : Place \cup {None}] /\ n.times = Twice(sent[Id(w)].times)
    BY <2>1, <2>3 DEF Twice
  <2> HIDE DEF n
  <2>5. /\ sent' \in [Job -> [times : 0 .. 2, to : Place \cup {None}]]
        /\ \A j \in Job : j # Id(w) => sent'[j] = sent[j]
        /\ sent'[Id(w)].times = Twice(sent[Id(w)].times)
    BY <1>5, <2>2, <2>4 DEF Good, Typed
  <2>6. Fits'
    BY <1>1, <1>3, <1>6, <2>5, ReachStep DEF SendReaches
  <2> QED BY <1>1, <1>3, <1>4, <1>5, <2>5, <2>6, TurnGood DEF Good, Typed
<1>7. CASE SendMisses(w, r) /\ r # "submitted"
  <2>1. Calm /\ UNCHANGED <<conv, lease, cancelling, chrome>>
    BY <1>7 DEF SendMisses, Calm, chrome
  <2>2. Fits'
    BY <1>1, <1>3, <1>7, <2>1, MissStep
  <2> QED BY <1>1, <1>3, <1>4, <2>1, <2>2, GoGood DEF Good, Typed
<1> QED BY <1>2, <1>6, <1>7

\* Releasing the lease at the end of the worker.
LEMMA EndGood ==
  ASSUME NEW w \in Worker, Ready(w), me' = Gone(w), lease' = Released(w),
         UNCHANGED <<job, conv, page, cancelling, chrome>>
  PROVE  Good'
<1>1. Calm
  BY DEF Calm, chrome
<1>2. lease' \in [owner : Worker, fresh : BOOLEAN] \cup {None}
  BY DEF Ready, Typed, Released
<1> QED BY <1>1, <1>2, GoneRests, CalmShrinks, RestGood DEF Calm, chrome, Ready, Typed

LEMMA RecordUrlGood ==
  ASSUME Good, NEW w \in Worker, RecordUrl(w)
  PROVE  Good'
<1> DEFINE url == ReportedUrl(w)
<1>1. /\ Ready(w) /\ me[w].step = "record" /\ HasJob(w) /\ me[w].win \in Window
      /\ me[w].result \in Result /\ UNCHANGED <<cancelling, chrome>> /\ UNCHANGED <<sent, opens>>
  BY GoodReady DEF RecordUrl, Busy, HasJob, HasPage, WithJob, WithPage, Sent, chrome, Good,
                   LocalsFit
<1>2. ASSUME me' = Goto(w, "settle")
      PROVE  GoesOn(w, "settle") /\ me'[w].win = me[w].win /\ LocalsFit(w)'
  <2>1. "settle" \in Step /\ "settle" \in WithJob
    BY DEF Step, WithJob, WithPage, Sent
  <2>2. GoesOn(w, "settle") /\ me'[w].win = me[w].win
    BY <1>1, <1>2, <2>1, GotoGoes
  <2> QED BY <1>1, <2>1, <2>2, GoesLocals
<1>3. CASE url = None /\ me' = Goto(w, "settle") /\ UNCHANGED <<job, conv, page, lease>>
  <2>1. Calm
    BY <1>1, <1>3 DEF Calm
  <2>2. Fits'
    BY <1>1, <1>2, <1>3, <2>1, MissStep DEF GoesOn, Sent
  <2> QED BY <1>1, <1>2, <1>3, <2>2, GoGood DEF GoesOn, Good, Typed
<1>4. CASE /\ url # None /\ Bind(KeyOf(w), me[w].win, url)
           /\ job' = BindJobs(job, KeyOf(w), url)
           /\ me' = Goto(w, "settle") /\ UNCHANGED lease
  <2>1. /\ url \in Place
        /\ \/ Cur(w).url # None /\ url = page[me[w].win].url
           \/ Cur(w).url = None /\ IsChat(url)
    <3>1. page[me[w].win].url \in Place \cup {None} /\ at[me[w].win] \in Place \cup {Unborn, Shut}
      BY <1>1 DEF Good, Typed, PageRow
    <3>2. Showing(me[w].win) => at[me[w].win] \in Place
      BY <3>1 DEF Showing, Unborn, Shut
    <3> QED BY <1>4, <3>1, <3>2 DEF ReportedUrl, IsChat
  <2>2. KeyOf(w) \in Key
    BY <1>1, CurFacts
  <2> HIDE DEF url
  <2>3. /\ conv' \in [Key -> Place \cup {None}]
        /\ \A q \in Key : conv'[q] = IF q = KeyOf(w) THEN url ELSE conv[q]
        /\ Paged(page', me[w].win)
        /\ page'[me[w].win].state = "OPEN" /\ page'[me[w].win].key = page[me[w].win].key
        /\ page'[me[w].win].url = url
    BY <1>1, <1>4, <2>1, <2>2, BindFacts DEF Good, Typed
  <2>4. /\ job' \in [Job -> JobRow]
        /\ \A j \in Job : /\ job'[j].state = job[j].state /\ job'[j].key = job[j].key
                          /\ job'[j].url = IF job[j].key = KeyOf(w) /\ job[j].url = None THEN url
                                           ELSE job[j].url
    BY <1>4, <2>1, BindJobsFacts DEF Good, Typed
  <2>5. Binds(KeyOf(w), me[w].win, url)
    BY <2>3, <2>4 DEF Binds
  <2>6. Fits'
    BY <1>1, <1>2, <1>4, <2>1, <2>4, <2>5, RecordStep
  <2>7. lease # None /\ lease.owner = w
    BY <1>1, OwnLease
  <2> QED BY <1>1, <1>2, <1>4, <2>3, <2>4, <2>6, <2>7, TurnGood DEF GoesOn, Paged, Good, Typed, chrome
<1>5. CASE me' = Gone(w) /\ lease' = Released(w) /\ UNCHANGED <<job, conv, page>>
  BY <1>1, <1>5, EndGood
<1> QED BY <1>3, <1>4, <1>5 DEF RecordUrl

LEMMA SettleSendGood ==
  ASSUME Good, NEW w \in Worker, SettleSend(w)
  PROVE  Good'
<1>1. /\ Ready(w) /\ me[w].step = "settle" /\ HasJob(w) /\ me[w].win \in Window
      /\ me[w].result \in Result
      /\ UNCHANGED <<conv, page, lease, cancelling, chrome>>
  BY GoodReady DEF SettleSend, Busy, HasJob, HasPage, WithJob, WithPage, Sent, chrome, Good,
                   LocalsFit
<1>2. PICK i \in Job : i = Id(w)
  BY <1>1, CurFacts
<1>3. PICK s \in JobState : s = Settled(me[w].result)
  BY <1>1 DEF Settled, Result, JobState
<1>4. StateFits(i, s)
  <2>1. opens[i] = 0
    BY <1>1, <1>2, CurFacts DEF CurFits, Sent
  <2>2. me[w].result \in {"limited", "rejected"} => sent[i].times = 0
    BY <1>1, <1>2, CurFacts DEF CurFits, Sent
  <2> QED BY <1>1, <1>3, <2>1, <2>2 DEF StateFits, Settled, Result, InDoubt
<1>5. me[w].result = "submitted" /\ Cur(w).url # None => page[me[w].win].url = job[i].url
  BY <1>1, <1>2, CurSays DEF Ready, WorkerFits, SendFits, Sent
<1>6. Puts(i, s)
  <2> DEFINE u == IF me[w].result = "submitted" /\ Cur(w).url # None THEN page[me[w].win].url
                  ELSE SetState(i, s)[i].url
  <2>1. job' = [SetState(i, s) EXCEPT ![i].url = u]
    BY <1>2, <1>3 DEF SettleSend
  <2>2. /\ SetState(i, s) \in [Job -> JobRow]
        /\ \A j \in Job : /\ SetState(i, s)[j].state = (IF j = i THEN s ELSE job[j].state)
                          /\ SetState(i, s)[j].key = job[j].key
                          /\ SetState(i, s)[j].url = job[j].url
    BY SetStateFacts DEF Good, Typed
  <2>3. u = SetState(i, s)[i].url
    BY <1>5, <2>2
  <2> HIDE DEF u
  <2>4. PICK f \in [Job -> JobRow] : f = SetState(i, s)
    BY <2>2
  <2>5. job' = [f EXCEPT ![i].url = f[i].url]
    BY <2>1, <2>3, <2>4
  <2>6. job' = f
    BY <2>5 DEF JobRow
  <2> QED BY <2>2, <2>4, <2>6 DEF Puts
<1>7. Shrinks
  BY <1>1 DEF Good, Typed, Shrinks, InUse
<1> QED BY <1>1, <1>2, <1>4, <1>6, <1>7, OutcomeGood DEF SettleSend

LEMMA ReconcileLostGood ==
  ASSUME Good, NEW w \in Worker, ReconcileLost(w)
  PROVE  Good'
<1>1. /\ Ready(w) /\ me' = Skip(w) /\ UNCHANGED <<job, conv, lease, cancelling, chrome>>
  BY GoodReady DEF ReconcileLost, Busy
<1>2. Shrinks
  <2>1. CASE UNCHANGED page
    BY <2>1 DEF Good, Typed, Shrinks, InUse
  <2>2. CASE \E v \in PagesFor(KeyOf(w)) : PageLost(Cur(w).url, v, page')
    BY <2>2, LostShrinks DEF Good, PagesFor
  <2> QED BY <2>1, <2>2 DEF ReconcileLost
<1> QED BY <1>1, <1>2, SkipRests, RestGood DEF chrome, Good, Typed

LEMMA ReconcileKnownGood ==
  ASSUME Good, NEW w \in Worker, ReconcileKnown(w)
  PROVE  Good'
<1>1. /\ Ready(w) /\ me[w].step = "reconcile" /\ HasJob(w)
      /\ UNCHANGED <<job, conv, lease, cancelling, chrome>> /\ UNCHANGED <<sent, opens>>
  BY GoodReady DEF ReconcileKnown, Busy, HasJob, WithJob, chrome
<1>2. PICK v \in PagesFor(KeyOf(w)) :
         /\ Usable(Cur(w).url, v)
         /\ page' = PageFound(Cur(w).url, v)
         /\ me' = WithWindow(w, "observe", v)
  BY DEF ReconcileKnown
<1>3. v \in Window /\ Cur(w).url \in Place \cup {None} /\ "observe" \in Step /\ "observe" \in WithJob
  BY <1>1, CurFacts DEF PagesFor, Row, Step, WithJob, WithPage
<1>4. GoesOn(w, "observe") /\ me'[w].win = v
  BY <1>2, <1>3, WithWindowFacts DEF Good, Typed, GoesOn, Turns
<1>5. /\ Paged(page', v) /\ page'[v].state \in {"OPEN", "IDLE"} /\ page'[v].key = page[v].key
      /\ page'[v].url = IF Cur(w).url = None THEN page[v].url ELSE Cur(w).url
  BY <1>2, <1>3, PageFoundFacts DEF Good, Typed
<1>6. Fits'
  BY <1>1, <1>4, <1>5, FoundPageStep
<1>7. LocalsFit(w)'
  BY <1>1, <1>3, <1>4, GoesLocals DEF Sent
<1> QED BY <1>1, <1>4, <1>5, <1>6, <1>7, GoGood DEF GoesOn, Paged, Good, Typed

LEMMA ReconcileNewGood ==
  ASSUME Good, NEW w \in Worker, ReconcileNew(w)
  PROVE  Good'
<1>1. /\ Ready(w) /\ me[w].step = "reconcile" /\ HasJob(w) /\ Cur(w).url = None
      /\ UNCHANGED <<cancelling, chrome>> /\ UNCHANGED <<at, launched, delivered, sent, opens>>
  BY GoodReady DEF ReconcileNew, Busy, HasJob, WithJob, chrome
<1>2. PICK v \in PagesFor(KeyOf(w)) :
         \/ me' = Skip(w) /\ UNCHANGED <<job, conv, page, lease>>
         \/ /\ at[v].kind = "chat"
            /\ Bind(KeyOf(w), v, at[v])
            /\ job' = BindJobs(SetState(Id(w), "SUBMITTED"), KeyOf(w), at[v])
            /\ me' = [me EXCEPT ![w] = [@ EXCEPT !.step = "observe", !.win = v, !.cur.url = at[v]]]
            /\ UNCHANGED lease
         \/ me' = Gone(w) /\ lease' = Released(w) /\ UNCHANGED <<job, conv, page>>
  BY DEF ReconcileNew
<1>3. CASE me' = Skip(w) /\ UNCHANGED <<job, conv, page, lease>>
  <2>1. Calm
    BY <1>1, <1>3 DEF Calm
  <2> QED BY <1>1, <1>3, <2>1, SkipRests, CalmShrinks, RestGood DEF Good, Typed
<1>4. CASE me' = Gone(w) /\ lease' = Released(w) /\ UNCHANGED <<job, conv, page>>
  BY <1>1, <1>4, EndGood
<1>5. CASE /\ at[v].kind = "chat"
           /\ Bind(KeyOf(w), v, at[v])
           /\ job' = BindJobs(SetState(Id(w), "SUBMITTED"), KeyOf(w), at[v])
           /\ me' = [me EXCEPT ![w] = [@ EXCEPT !.step = "observe", !.win = v, !.cur.url = at[v]]]
           /\ UNCHANGED lease
  <2>1. PICK url \in Place : url = at[v] /\ IsChat(url)
    <3>1. at[v] \in Place \cup {Unborn, Shut}
      BY DEF Good, Typed, PagesFor
    <3> QED BY <1>5, <3>1 DEF Unborn, Shut, IsChat
  <2>2. v \in Window /\ KeyOf(w) \in Key /\ Id(w) \in Job /\ Cur(w) \in Row
    BY <1>1, CurFacts DEF PagesFor
  <2>3. /\ conv' \in [Key -> Place \cup {None}]
        /\ \A q \in Key : conv'[q] = IF q = KeyOf(w) THEN url ELSE conv[q]
        /\ Paged(page', v)
        /\ page'[v].state = "OPEN" /\ page'[v].key = page[v].key /\ page'[v].url = url
    BY <1>5, <2>1, <2>2, BindFacts DEF Good, Typed
  <2>4. PICK js \in [Job -> JobRow] :
           /\ js = SetState(Id(w), "SUBMITTED")
           /\ \A j \in Job : /\ js[j].state = (IF j = Id(w) THEN "SUBMITTED" ELSE job[j].state)
                             /\ js[j].key = job[j].key /\ js[j].url = job[j].url
    <3>1. "SUBMITTED" \in JobState
      BY DEF JobState
    <3> QED BY <2>2, <3>1, SetStateFacts DEF Good, Typed
  <2>5. /\ job' \in [Job -> JobRow]
        /\ \A j \in Job : /\ job'[j].state = js[j].state /\ job'[j].key = js[j].key
                          /\ job'[j].url = IF js[j].key = KeyOf(w) /\ js[j].url = None THEN url
                                           ELSE js[j].url
    BY <1>5, <2>1, <2>4, BindJobsFacts
  <2>6. Binds(KeyOf(w), v, url)
    BY <2>3, <2>4, <2>5 DEF Binds
  <2> DEFINE c == [me[w].cur EXCEPT !.url = at[v]]
             m == [me[w] EXCEPT !.step = "observe", !.win = v, !.cur = c]
  <2>7. me' = [me EXCEPT ![w] = m]
    BY <1>5
  <2>8. c \in Row /\ c.id = Id(w) /\ c.url = url
    BY <2>1, <2>2 DEF Row, Cur, Id
  <2>9. me[w] \in Mine
    BY DEF Good, Typed
  <2> HIDE DEF c
  <2>10. m \in Mine /\ m.step = "observe" /\ m.win = v /\ m.cur = c /\ m.todo = me[w].todo
    BY <2>2, <2>8, <2>9 DEF Mine, Step
  <2> HIDE DEF m
  <2>11. Turns(w) /\ me'[w] = m
    BY <2>7, <2>10 DEF Good, Typed, Turns
  <2>12. Fits'
    BY <1>1, <2>1, <2>4, <2>5, <2>6, <2>8, <2>10, <2>11, ReconcileNewStep
  <2>13. LocalsFit(w)'
    BY <2>2, <2>8, <2>10, <2>11 DEF LocalsFit, Busy, Cur, Sent
  <2>14. lease # None /\ lease.owner = w
    BY <1>1, OwnLease
  <2> QED BY <1>1, <1>5, <2>3, <2>5, <2>11, <2>12, <2>13, <2>14, TurnGood DEF Paged, Good, Typed
<1> QED BY <1>2, <1>3, <1>4, <1>5

LEMMA ObserveGood ==
  ASSUME Good, NEW w \in Worker, ObserveAck(w) \/ ObserveDuplicate(w)
  PROVE  Good'
<1>1. /\ Ready(w) /\ HasJob(w) /\ me' = Skip(w) /\ me[w].win \in PagesFor(KeyOf(w))
      /\ UNCHANGED <<conv, lease, cancelling, chrome>>
  BY GoodReady DEF ObserveAck, ObserveDuplicate, Busy, HasJob, HasPage, WithJob, WithPage,
                   Ready, WorkerFits, PageFits
<1>2. PICK v \in Window : v = me[w].win /\ InUse(v)
  BY <1>1 DEF PagesFor
<1>3. Shrinks
  <2>1. CASE UNCHANGED page
    BY <2>1 DEF Good, Typed, Shrinks, InUse
  <2>2. CASE page' = MarkIdle(me[w].win)
    BY <1>2, <2>2, IdleShrinks DEF Good
  <2>3. CASE page' = EndPage(me[w].win, "AMBIGUOUS")
    BY <1>2, <2>3, EndShrinks DEF Good
  <2> QED BY <2>1, <2>2, <2>3 DEF ObserveAck, ObserveDuplicate
<1>4. PICK s \in {"ACKNOWLEDGED", "RECONCILE_REQUIRED"} : job' = SetState(Id(w), s)
  BY DEF ObserveAck, ObserveDuplicate
<1>5. s \in JobState /\ StateFits(Id(w), s)
  BY DEF JobState, StateFits, InDoubt, Terminal
<1>6. Puts(Id(w), s)
  BY <1>1, <1>4, <1>5, CurFacts, PutsState DEF Good
<1> QED BY <1>1, <1>3, <1>5, <1>6, OutcomeGood

LEMMA ClosePassGood ==
  ASSUME Good, NEW w \in Worker, NEW v \in Window, ClosePass(w, v)
  PROVE  Good'
<1> DEFINE free == page[v].owned /\ ~HasPendingForConversation(page[v].key)
           s == IF free /\ page[v].state = "IDLE" /\ ~page[v].grace THEN "closing" ELSE "close"
           m == [me[w] EXCEPT !.pages = me[w].pages \ {v}, !.win = v, !.step = s]
<1>1. /\ Ready(w) /\ me[w].step = "close" /\ UNCHANGED <<job, conv, lease, cancelling, chrome>>
      /\ UNCHANGED <<at, launched, delivered, sent, opens>>
  BY GoodReady DEF ClosePass, Busy, chrome
<1>2. me' = [me EXCEPT ![w] = m]
  BY DEF ClosePass
<1>3. page' = IF free /\ page[v].state = "OPEN" THEN MarkIdle(v) ELSE page
  BY DEF ClosePass
<1>4. s = "closing" => ~HasPendingForConversation(page[v].key) /\ page' = page
  BY <1>3
<1>5. Shrinks
  <2>1. CASE page' = page
    BY <2>1 DEF Good, Typed, Shrinks, InUse
  <2>2. CASE page[v].state = "OPEN" /\ page' = MarkIdle(v)
    BY <2>2, IdleShrinks DEF Good, InUse
  <2> QED BY <1>3, <2>1, <2>2
<1>6. me[w] \in Mine /\ s \in {"closing", "close"}
  BY DEF Good, Typed
<1> HIDE DEF s, free
<1>7. m \in Mine /\ m.step = s /\ m.win = v /\ m.todo = me[w].todo
  BY <1>6 DEF Mine, Step
<1> HIDE DEF m
<1>8. Turns(w) /\ me'[w] = m
  BY <1>2, <1>7 DEF Good, Typed, Turns
<1>9. CASE s = "closing"
  <2>1. Calm
    BY <1>1, <1>4, <1>9 DEF Calm
  <2>2. Fits'
    BY <1>1, <1>4, <1>7, <1>8, <1>9, <2>1, CloseStep
  <2>3. LocalsFit(w)'
    BY <1>7, <1>8, <1>9 DEF LocalsFit, HasJob, Busy, WithJob, WithPage, Opening, Sending, Sent
  <2> QED BY <1>1, <1>5, <1>8, <2>2, <2>3, GoGood DEF Shrinks, Good, Typed
<1>10. CASE s = "close"
  <2>1. Rests(w) /\ Busy(w)'
    BY <1>7, <1>8, <1>10 DEF Rests, Busy, WithJob, WithPage, Opening, Sending, Sent
  <2> QED BY <1>1, <1>5, <2>1, RestGood DEF Good, Typed
<1> QED BY <1>6, <1>9, <1>10

LEMMA ClosedGood ==
  ASSUME Good, NEW w \in Worker,
         (\E v \in Window : CloseWindow(w, v)) \/ CloseUnproven(w)
  PROVE  Good'
<1>1. /\ Ready(w) /\ me' = Goto(w, "close") /\ me[w].win \in Window
      /\ UNCHANGED <<job, conv, lease, cancelling, launched, opens, sent, delivered>>
  BY GoodReady DEF CloseWindow, CloseUnproven, Busy, chrome, Good, LocalsFit
<1>2. Shrinks
  <2>1. \E s \in {"CLOSED", "AMBIGUOUS"} : page' = EndPage(me[w].win, s)
    BY DEF CloseWindow, CloseUnproven
  <2> QED BY <1>1, <2>1, EndShrinks DEF Good
<1>3. at' \in [Window -> Place \cup {Unborn, Shut}]
  BY DEF CloseWindow, CloseUnproven, chrome, Good, Typed
<1> QED BY <1>1, <1>2, <1>3, GotoRests, RestGood DEF Good, Typed

LEMMA RestingGood ==
  ASSUME Good, NEW w \in Worker, NoMorePages(w) \/ DecideExit(w)
  PROVE  Good'
<1>1. /\ Ready(w) /\ Calm /\ UNCHANGED <<conv, lease, cancelling, chrome>>
      /\ UNCHANGED <<at, launched, delivered>>
  BY GoodReady DEF NoMorePages, DecideExit, Busy, Calm, chrome
<1>2. Rests(w) /\ Busy(w)'
  <2>1. CASE NoMorePages(w)
    <3>1. "exit" \in Step
      BY DEF Step
    <3> QED BY <2>1, <3>1, WithWindowFacts DEF NoMorePages, Good, Typed, Rests, Turns, Busy, WithJob,
                                       WithPage, Opening, Sending, Sent
  <2>2. CASE DecideExit(w)
    BY <1>1, <2>2, GotoRests DEF DecideExit
  <2> QED BY <2>1, <2>2
<1> QED BY <1>1, <1>2, CalmShrinks, RestGood DEF Calm, Good, Typed

LEMMA LeaveGood ==
  ASSUME Good, NEW w \in Worker, Leave(w)
  PROVE  Good'
BY GoodReady, EndGood DEF Leave, Busy

-----------------------------------------------------------------------------
(***************************************************************************)
(* The steps of clients, time, Chrome and its user.                        *)
(***************************************************************************)
\* A step that leaves the workers and the history alone, writes nothing a worker relies on, and
\* may cancel a job.
LEMMA OutsideGood ==
  ASSUME Good, Typed', UNCHANGED <<me, conv, sent, opens>>,
         \A j \in Job : /\ job'[j].key = job[j].key /\ job'[j].url = job[j].url
                        /\ \/ job'[j].state = job[j].state
                           \/ Known(j) /\ job'[j].state = "CANCELLED",
         \A v \in Window : /\ page'[v].state = page[v].state /\ page'[v].key = page[v].key
                           /\ page'[v].url = page[v].url,
         lease' = lease \/ (lease # None /\ lease' # None /\ lease'.owner = lease.owner)
  PROVE  Good'
<1>1. WorkersOwnTheLease'
  BY DEF Good, WorkersOwnTheLease, Live
<1>2. \A x \in Worker : LocalsFit(x)'
  BY DEF Good, LocalsFit, Busy, HasJob, HasPage, Cur
<1>3. ASSUME NEW j \in Job PROVE Known(j)' <=> Known(j)
  BY DEF Known
<1>4. Shrinks
  BY DEF Shrinks, InUse, Typed
<1>5. Names'
  BY <1>3, <1>4, NamesStay DEF NamesKept, Good, Fits, StoreFits
<1>6. Stays
  <2> SUFFICES ASSUME NEW j \in Job, Closed(j) PROVE Closed(j)'
    BY <1>3 DEF Stays
  <2>1. ~Pending(j)'
    BY <1>3 DEF Closed, Pending, Terminal
  <2>2. \A x \in Worker : ~InHand(x, j)'
    BY DEF Closed, InHand, HasJob, Id
  <2> QED BY <2>1, <2>2 DEF Closed
<1>7. ASSUME NEW j \in Job PROVE JobFits(j)'
  <2>1. PagesFor(job[j].key)' = PagesFor(job[j].key)
    BY DEF PagesFor, InUse
  <2>2. JobFits(j) /\ QueueFits /\ Typed
    BY DEF Good, Fits, StoreFits, Names
  <2>3. opens[j] > 0 => Closed(j) \/ PagesFor(job[j].key)' = {}
    BY <2>1, <2>2 DEF JobFits
  <2>4. "CANCELLED" \notin Begun /\ "CANCELLED" \in Terminal
    BY DEF Begun, InDoubt, Terminal
  <2> QED BY <1>6, <2>2, <2>3, <2>4, JobsKept
<1>8. ASSUME NEW x \in Worker PROVE WorkerFits(x)'
  <2>1. "CANCELLED" \notin InDoubt
    BY DEF InDoubt
  <2> QED BY <1>6, <2>1, OthersFit DEF Good, Fits, StoreFits, Names
<1> QED BY <1>1, <1>2, <1>5, <1>7, <1>8 DEF Good, Fits, StoreFits

LEMMA ExpireGood ==
  ASSUME Good, Expire
  PROVE  Good'
<1>1. ASSUME NEW j \in Job, ExpireJob(j) PROVE Good'
  <2>1. job[j] \in JobRow /\ job' = [job EXCEPT ![j].wait = FALSE]
    BY <1>1 DEF Good, Typed, ExpireJob
  <2>2. /\ job' \in [Job -> JobRow]
        /\ \A i \in Job : /\ job'[i].key = job[i].key /\ job'[i].url = job[i].url
                          /\ job'[i].state = job[i].state
    BY <2>1 DEF Good, Typed, JobRow
  <2>3. UNCHANGED <<conv, page, lease, me, cancelling, at, launched, opens, sent, delivered>>
    BY <1>1 DEF ExpireJob, chrome
  <2>4. Typed'
    BY <2>2, <2>3 DEF Good, Typed
  <2> QED BY <2>2, <2>3, <2>4, OutsideGood
<1>2. ASSUME NEW v \in Window, ExpirePage(v) PROVE Good'
  <2>1. page[v] \in PageRow /\ page' = [page EXCEPT ![v].grace = FALSE]
    BY <1>2 DEF Good, Typed, ExpirePage
  <2>2. /\ page' \in [Window -> PageRow]
        /\ \A u \in Window : /\ page'[u].key = page[u].key /\ page'[u].url = page[u].url
                             /\ page'[u].state = page[u].state
    BY <2>1 DEF Good, Typed, PageRow
  <2>3. UNCHANGED <<job, conv, lease, me, cancelling, at, launched, opens, sent, delivered>>
    BY <1>2 DEF ExpirePage, chrome
  <2>4. Typed'
    BY <2>2, <2>3 DEF Good, Typed
  <2> QED BY <2>2, <2>3, <2>4, OutsideGood
<1>3. ASSUME ExpireLease PROVE Good'
  <2>1. lease \in [owner : Worker, fresh : BOOLEAN] /\ lease' = [lease EXCEPT !.fresh = FALSE]
    BY <1>3 DEF Good, Typed, ExpireLease
  <2>2. lease' \in [owner : Worker, fresh : BOOLEAN] /\ lease'.owner = lease.owner
    BY <2>1
  <2>3. lease # None /\ lease' # None
    BY <2>1, <2>2, ChatAssumption
  <2>4. UNCHANGED <<job, conv, page, me, cancelling, at, launched, opens, sent, delivered>>
    BY <1>3 DEF ExpireLease, chrome
  <2>5. Typed'
    BY <2>2, <2>4 DEF Good, Typed
  <2> QED BY <2>2, <2>3, <2>4, <2>5, OutsideGood
<1> QED BY <1>1, <1>2, <1>3 DEF Expire

LEMMA CancelGood ==
  ASSUME Good, CancelFits, CancelWrite \/ \E j \in Job : CancelRead(j)
  PROVE  Good'
<1>1. ASSUME NEW j \in Job, CancelRead(j) PROVE Good'
  <2>1. /\ UNCHANGED <<job, conv, page, lease, me, at, launched, opens, sent, delivered>>
        /\ cancelling' = j
    BY <1>1 DEF CancelRead, chrome
  <2>2. Typed'
    BY <2>1 DEF Good, Typed
  <2> QED BY <2>1, <2>2, OutsideGood
<1>2. ASSUME CancelWrite PROVE Good'
  <2>1. /\ UNCHANGED <<conv, page, lease, me, at, launched, opens, sent, delivered>>
        /\ cancelling' = None
    BY <1>2 DEF CancelWrite, chrome
  <2>2. PICK j \in Job : j = cancelling /\ Known(j)
    BY <1>2 DEF CancelWrite, CancelFits, Good, Typed
  <2>3. Puts(j, "CANCELLED")
    <3>1. "CANCELLED" \in JobState
      BY DEF JobState
    <3> QED BY <1>2, <2>2, <3>1, PutsState DEF CancelWrite, Good
  <2>4. Typed'
    BY <2>1, <2>3 DEF Good, Typed, Puts
  <2> QED BY <2>1, <2>2, <2>3, <2>4, OutsideGood DEF Puts
<1> QED BY <1>1, <1>2

LEMMA BrowserGood ==
  ASSUME Good, Browser
  PROVE  Good'
<1>1. UNCHANGED <<job, conv, page, lease, me, cancelling, sent, opens>>
  BY DEF Browser, WindowAppears, Deliver, UserCloses, UserOpens, UserNavigates, store
<1>2. launched' \subseteq [id : Job, place : Place] /\ delivered' \subseteq Job
  BY DEF Browser, WindowAppears, Deliver, UserCloses, UserOpens, UserNavigates, Good, Typed
<1>3. at' \in [Window -> Place \cup {Unborn, Shut}]
  <2>1. at \in [Window -> Place \cup {Unborn, Shut}]
    BY DEF Good, Typed
  <2>2. ASSUME NEW l \in launched, NEW v \in Window, WindowAppears(l, v)
        PROVE  at' \in [Window -> Place \cup {Unborn, Shut}]
    BY <2>1, <2>2 DEF WindowAppears, Good, Typed
  <2>3. ASSUME NEW j \in Job, Deliver(j)
        PROVE  at' \in [Window -> Place \cup {Unborn, Shut}]
    <3>1. ASSUME NEW v \in Window, at[v] = sent[j].to
          PROVE  DeliveredTo(j) \in Place \cup {Unborn, Shut}
      BY <2>1, <3>1 DEF DeliveredTo, Chat, Place
    <3> QED BY <2>1, <2>3, <3>1 DEF Deliver
  <2>4. ASSUME NEW v \in Window, UserCloses(v)
        PROVE  at' \in [Window -> Place \cup {Unborn, Shut}]
    BY <2>1, <2>4 DEF UserCloses
  <2>5. ASSUME NEW v \in Window, NEW k \in OldKey, UserOpens(v, k) \/ UserNavigates(v, k)
        PROVE  at' \in [Window -> Place \cup {Unborn, Shut}]
    <3>1. Chat(k) \in Place
      BY DEF Chat, Place, Key
    <3> QED BY <2>1, <2>5, <3>1 DEF UserOpens, UserNavigates
  <2> QED BY <2>2, <2>3, <2>4, <2>5 DEF Browser
<1>4. Typed'
  BY <1>1, <1>2, <1>3 DEF Good, Typed
<1> QED BY <1>1, <1>4, OutsideGood

\* enqueue: the new job is behind all others, and has the URL of its conversation if that is
\* known; a key that was not bound yet is one that nothing in the store belongs to.
LEMMA EnqueueNames ==
  ASSUME Typed, Names, NEW j \in Job, NEW k \in Key, ~Known(j), \A i \in 1 .. j - 1 : Known(i),
         NEW url \in Place \cup {None},
         url = IF conv[k] # None THEN conv[k] ELSE IF k \in OldKey THEN Chat(k) ELSE None,
         job'[j].state = "QUEUED", job'[j].key = k, job'[j].url = url,
         \A i \in Job \ {j} : job'[i] = job[i],
         \A q \in Key : conv'[q] = IF q = k THEN url ELSE conv[q],
         page' = page
  PROVE  Names'
<1>1. ASSUME NEW i \in Job PROVE Known(i)' <=> Known(i) \/ i = j
  BY DEF Known
<1>2. Known(j)'
  BY <1>1
<1>3. QueueFits'
  <2>1. ASSUME NEW i \in Job, Known(i)' PROVE job'[i].key \in Key
    BY <1>1, <2>1 DEF Names, QueueFits
  <2>2. ASSUME NEW i \in Job, Known(i)', NEW h \in Job, h < i PROVE Known(h)'
    <3>1. CASE i = j
      BY <1>1, <2>2, <3>1 DEF Job
    <3>2. CASE i # j
      BY <1>1, <2>2, <3>2 DEF Names, QueueFits
    <3> QED BY <3>1, <3>2
  <2> QED BY <2>1, <2>2 DEF QueueFits
<1>4. \A v \in Window : InUse(v)' <=> InUse(v)
  BY DEF InUse
<1>5. PagesDiffer'
  BY <1>4 DEF Names, PagesDiffer
<1>6. conv[k] = None /\ url # None =>
         /\ k \notin NewKey
         /\ \A i \in Job : Known(i) => job[i].key # k
         /\ \A v \in Window : InUse(v) => page[v].key # k
  <2>1. k \in OldKey => k \notin NewKey
    BY ChatAssumption
  <2> QED BY <2>1 DEF Names, KeysBound
<1>7. url = None => k \in NewKey /\ conv[k] = None
  <2>1. Chat(k) \in Place
    BY DEF Chat, Place
  <2>2. None \notin Place
    BY ChatAssumption
  <2> QED BY <2>1, <2>2 DEF Key
<1>8. KeysBound'
  <2>1. ASSUME NEW i \in Job, Known(i)'
        PROVE  /\ job'[i].url = None <=> conv'[job'[i].key] = None
               /\ job'[i].url = None => job'[i].key \in NewKey
    <3>1. CASE i = j
      BY <1>7, <3>1
    <3>2. CASE i # j
      <4>1. Known(i) /\ job'[i] = job[i] /\ job[i].key \in Key
        BY <1>1, <2>1, <3>2 DEF Names, QueueFits
      <4> QED BY <1>6, <1>7, <4>1 DEF Names, KeysBound
    <3> QED BY <3>1, <3>2
  <2>2. ASSUME NEW v \in Window, InUse(v)'
        PROVE  page'[v].key \in Key /\ (page'[v].key \in NewKey \/ conv'[page'[v].key] # None)
    BY <1>4, <1>6, <1>7, <2>2 DEF Names, KeysBound
  <2> QED BY <2>1, <2>2 DEF KeysBound
<1>9. OneConversation'
  <2>1. ASSUME NEW q \in Key, NEW c \in Place, Says(q, c)'
        PROVE  Says(q, c) \/ (q = k /\ c = url)
    <3>1. CASE conv'[q] = c
      BY <2>1, <3>1 DEF Says
    <3>2. CASE \E i \in Job : Known(i)' /\ job'[i].key = q /\ job'[i].url = c
      BY <1>1, <2>1, <3>2 DEF Says
    <3>3. CASE \E v \in PagesFor(q)' : page'[v].url = c
      BY <1>4, <2>1, <3>3 DEF Says, PagesFor
    <3> QED BY <2>1, <3>1, <3>2, <3>3 DEF Says
  <2>2. url = None \/ Says(k, url) \/ \A c \in Place : ~Says(k, c)
    <3>1. CASE conv[k] # None
      BY <3>1 DEF Says
    <3>2. CASE conv[k] = None /\ url # None
      BY <1>6, <3>2, ChatAssumption DEF Says, PagesFor
    <3> QED BY <3>1, <3>2
  <2>3. \A c \in Place : c # None
    BY ChatAssumption
  <2> QED BY <2>1, <2>2, <2>3 DEF Names, OneConversation
<1> QED BY <1>3, <1>5, <1>8, <1>9 DEF Names

LEMMA EnqueueGood ==
  ASSUME Good, NEW j \in Job, NEW k \in Key, Enqueue(j, k)
  PROVE  Good'
<1> DEFINE url == IF conv[k] # None THEN conv[k] ELSE IF k \in OldKey THEN Chat(k) ELSE None
           r == [state |-> "QUEUED", key |-> k, url |-> url, wait |-> FALSE]
<1>1. /\ ~Known(j) /\ \A i \in 1 .. j - 1 : Known(i)
      /\ job' = [job EXCEPT ![j] = r]
      /\ conv' = [conv EXCEPT ![k] = url]
      /\ UNCHANGED <<page, lease, me, cancelling, at, launched, opens, sent, delivered>>
  BY DEF Enqueue, chrome
<1>2. url \in Place \cup {None}
  <2>1. Chat(k) \in Place
    BY DEF Chat, Place
  <2> QED BY <2>1 DEF Good, Typed
<1> HIDE DEF url
<1>3. r \in JobRow /\ r.state = "QUEUED" /\ r.key = k /\ r.url = url
  BY <1>2 DEF JobRow, JobState
<1> HIDE DEF r
<1>4. /\ job' \in [Job -> JobRow] /\ job'[j] = r
      /\ \A i \in Job \ {j} : job'[i] = job[i]
  BY <1>1, <1>3 DEF Good, Typed
<1>5. conv' \in [Key -> Place \cup {None}] /\ \A q \in Key : conv'[q] = IF q = k THEN url ELSE conv[q]
  BY <1>1, <1>2 DEF Good, Typed
<1>6. Typed'
  BY <1>1, <1>4, <1>5 DEF Good, Typed
<1>7. WorkersOwnTheLease'
  BY <1>1 DEF Good, WorkersOwnTheLease, Live
<1>8. \A x \in Worker : LocalsFit(x)'
  BY <1>1 DEF Good, LocalsFit, Busy, HasJob, HasPage, Cur
<1>9. Names'
  BY <1>1, <1>2, <1>3, <1>4, <1>5, EnqueueNames DEF Good, Fits, StoreFits, url
<1>10. Stays
  <2> SUFFICES ASSUME NEW i \in Job, Known(i)
               PROVE  Known(i)' /\ job'[i].key = job[i].key /\ (Closed(i) => Closed(i)')
    BY DEF Stays
  <2>1. i # j /\ job'[i] = job[i]
    BY <1>1, <1>4
  <2>2. Closed(i) => \A x \in Worker : ~InHand(x, i)'
    BY <1>1 DEF Closed, InHand, HasJob, Id
  <2> QED BY <2>1, <2>2 DEF Closed, Pending, Known
<1>11. ASSUME NEW i \in Job PROVE JobFits(i)'
  <2>1. JobFits(i) /\ QueueFits /\ Typed
    BY DEF Good, Fits, StoreFits, Names
  <2>2. CASE i = j
    <3>1. job[j].state = "absent"
      BY <1>1 DEF Known
    <3>2. sent[j].times \in 0 .. 2 /\ opens[j] \in 0 .. 2
      BY <2>1 DEF Typed
    <3>3. sent[j].times = 0 /\ opens[j] = 0
      BY <2>1, <2>2, <3>1, <3>2 DEF JobFits, InDoubt, Terminal
    <3>4. job'[j].state \notin Begun
      BY <1>3, <1>4 DEF Begun, InDoubt
    <3> QED BY <1>1, <2>2, <3>3, <3>4 DEF JobFits
  <2>3. CASE i # j
    <3>1. PagesFor(job[i].key)' = PagesFor(job[i].key)
      BY <1>1, <1>4, <2>3 DEF PagesFor, InUse
    <3>2. opens[i] > 0 => Closed(i) \/ PagesFor(job[i].key)' = {}
      BY <2>1, <3>1 DEF JobFits
    <3> QED BY <1>1, <1>4, <1>10, <2>1, <2>3, <3>2, JobsKept
  <2> QED BY <2>2, <2>3
<1>12. ASSUME NEW x \in Worker PROVE WorkerFits(x)'
  <2>1. r.state \notin InDoubt
    BY <1>3 DEF InDoubt
  <2>2. ASSUME NEW i \in Job
        PROVE  /\ Known(i) => job'[i] = job[i]
               /\ job'[i].state \in InDoubt => job'[i] = job[i]
    BY <1>1, <1>4, <2>1
  <2> QED BY <1>1, <1>10, <2>2, OthersFit DEF Good, Fits, StoreFits, Names
<1> QED BY <1>6, <1>7, <1>8, <1>9, <1>11, <1>12 DEF Good, Fits, StoreFits

-----------------------------------------------------------------------------
(***************************************************************************)
(* The invariant.                                                          *)
(***************************************************************************)
LEMMA ChatInvGood == ChatInv <=> Good /\ CancelFits
BY TypesTyped DEF ChatInv, Good, Fits, StoreFits, Names

LEMMA NextChatInv == ChatInv' <=> Good' /\ CancelFits'
BY ChatInvGood, PTL

\* A job that is known stays known: update_job writes states of the machine, nothing is deleted.
LEMMA KnownStays ==
  ASSUME Good, NEW w \in Worker, WorkerStep(w), NEW j \in Job, Known(j)
  PROVE  Known(j)'
<1>1. job \in [Job -> JobRow]
  BY DEF Good, Typed
<1>2. ASSUME NEW i \in Job, NEW s \in JobState, job' = SetState(i, s) PROVE Known(j)'
  <2>1. s # "absent"
    BY DEF JobState
  <2>2. job'[j].state = s \/ job'[j].state = job[j].state
    BY <1>1, <1>2, SetStateFacts
  <2> QED BY <2>1, <2>2 DEF Known
<1>3. HasJob(w) => Id(w) \in Job
  BY DEF Good, LocalsFit, Cur, Id, Row
<1>4. UNCHANGED job => Known(j)'
  BY DEF Known
<1>5. ASSUME NEW row \in me[w].todo, NextJob(w, row) PROVE Known(j)'
  <2>1. row.id \in Job
    BY DEF Good, Typed, Mine, Row
  <2>2. job' = job \/ job' = SetState(row.id, "RECONCILE_REQUIRED")
    BY <1>5 DEF NextJob
  <2>3. "RECONCILE_REQUIRED" \in JobState
    BY DEF JobState
  <2> QED BY <1>2, <1>4, <2>1, <2>2, <2>3
<1>6. CASE \/ AcquireFails(w) \/ OpenUnresolved(w) \/ AuthorizeOpen(w) \/ OpenRaises(w)
           \/ BindWindow(w) \/ Submit(w) \/ ObserveAck(w) \/ ObserveDuplicate(w)
  <2>1. HasJob(w)
    BY <1>6 DEF AcquireFails, OpenUnresolved, AuthorizeOpen, OpenRaises, BindWindow, Submit,
                ObserveAck, ObserveDuplicate, HasJob, WithJob, WithPage, Opening, Sending
  <2>2. \E s \in JobState : job' = SetState(Id(w), s)
    BY <1>6 DEF AcquireFails, OpenUnresolved, AuthorizeOpen, OpenRaises, BindWindow, Submit,
                ObserveAck, ObserveDuplicate, JobState
  <2> QED BY <1>2, <1>3, <2>1, <2>2
<1>7. CASE RecordUrl(w)
  <2>1. CASE UNCHANGED job
    BY <1>4, <2>1
  <2>2. CASE ReportedUrl(w) # None /\ job' = BindJobs(job, KeyOf(w), ReportedUrl(w))
    BY <2>2 DEF BindJobs, Known
  <2> QED BY <1>7, <2>1, <2>2 DEF RecordUrl
<1>8. CASE SettleSend(w)
  <2> DEFINE set == SetState(Id(w), Settled(me[w].result))
  <2>1. HasJob(w) /\ me[w].result \in Result
    BY <1>8 DEF SettleSend, HasJob, WithJob, WithPage, Sent, Good, LocalsFit
  <2>2. Settled(me[w].result) \in JobState
    BY <2>1 DEF Settled, Result, JobState
  <2>3. set \in [Job -> JobRow] /\ set[j].state # "absent"
    BY <1>1, <1>3, <2>1, <2>2, SetStateFacts DEF Known, JobState
  <2>4. \E u : job' = [set EXCEPT ![Id(w)].url = u]
    BY <1>8 DEF SettleSend
  <2> HIDE DEF set
  <2> QED BY <2>3, <2>4 DEF Known, JobRow
<1>9. CASE ReconcileNew(w)
  <2> DEFINE set == SetState(Id(w), "SUBMITTED")
  <2>1. HasJob(w) /\ "SUBMITTED" \in JobState
    BY <1>9 DEF ReconcileNew, HasJob, WithJob, JobState
  <2>2. set \in [Job -> JobRow] /\ set[j].state # "absent"
    BY <1>1, <1>3, <2>1, SetStateFacts DEF Known
  <2>3. UNCHANGED job \/ \E k, u : job' = BindJobs(set, k, u)
    BY <1>9 DEF ReconcileNew
  <2> HIDE DEF set
  <2>4. ASSUME NEW k, NEW u, job' = BindJobs(set, k, u) PROVE Known(j)'
    BY <2>2, <2>4 DEF BindJobs, Known
  <2> QED BY <1>4, <2>3, <2>4
<1>10. CASE \/ AcquireLease(w) \/ Heartbeat(w) \/ NoMoreJobs(w) \/ ReusePage(w) \/ LosePage(w)
            \/ FindWindow(w) \/ PoolFull(w) \/ OpenFindsWindow(w) \/ Launch(w) \/ PollWindow(w)
            \/ UpsertPage(w) \/ ReconcileLost(w) \/ ReconcileKnown(w) \/ ObserveNothing(w)
            \/ NoMorePages(w) \/ CloseUnproven(w) \/ DecideExit(w) \/ Leave(w)
            \/ (\E r \in Result : SendReaches(w, r) \/ SendMisses(w, r))
            \/ (\E v \in Window : ClosePass(w, v) \/ CloseWindow(w, v))
  <2>1. UNCHANGED job
    BY <1>10 DEF AcquireLease, Heartbeat, NoMoreJobs, ReusePage, LosePage, FindWindow, PoolFull,
                 OpenFindsWindow, Launch, PollWindow, UpsertPage, ReconcileLost, ReconcileKnown,
                 ObserveNothing, NoMorePages, CloseUnproven, DecideExit, Leave, SendReaches,
                 SendMisses, ClosePass, CloseWindow
  <2> QED BY <1>4, <2>1
<1> QED BY <1>5, <1>6, <1>7, <1>8, <1>9, <1>10 DEF WorkerStep, Result

LEMMA WorkerKeepsCancelling ==
  ASSUME NEW w \in Worker, EnsureWorker(w) \/ WorkerStep(w) \/ Crash(w)
  PROVE  cancelling' = cancelling
BY DEF EnsureWorker, Crash, WorkerStep, AcquireLease, Heartbeat, NoMoreJobs, NextJob, ReusePage,
       LosePage, FindWindow, AcquireFails, OpenUnresolved, PoolFull, AuthorizeOpen,
       OpenFindsWindow, Launch, PollWindow, OpenRaises, UpsertPage, BindWindow, Submit,
       SendReaches, SendMisses, RecordUrl, SettleSend, ReconcileLost, ReconcileKnown,
       ReconcileNew, ObserveAck, ObserveDuplicate, ObserveNothing, ClosePass, CloseWindow,
       NoMorePages, CloseUnproven, DecideExit, Leave

LEMMA WorkerStepGood ==
  ASSUME Good, NEW w \in Worker, WorkerStep(w)
  PROVE  Good'
BY AcquireLeaseGood, HeartbeatGood, NoMoreJobsGood, NextJobGood, ReusePageGood, LosePageGood,
   FindWindowGood, OpenFailsGood, PoolFullGood, AuthorizeOpenGood, OpenFindsWindowGood, LaunchGood,
   UpsertPageGood, BindWindowGood, SubmitGood, SendGood, RecordUrlGood, SettleSendGood,
   ReconcileLostGood, ReconcileKnownGood, ReconcileNewGood, ObserveGood, ClosePassGood, ClosedGood,
   RestingGood, LeaveGood
DEF WorkerStep

LEMMA InitGood ==
  ASSUME Init
  PROVE  Good /\ CancelFits
<1>1. Typed
  <2>1. NoJob \in JobRow /\ NoPage \in PageRow /\ Idle \in Mine
    BY DEF NoJob, NoPage, Idle, JobRow, PageRow, Mine, Step
  <2> QED BY <2>1 DEF Init, Typed
<1>2. \A x \in Worker : me[x].step = "absent" /\ me[x].todo = {}
  BY DEF Init, Idle
<1>3. \A x \in Worker : ~Busy(x) /\ ~HasJob(x) /\ LocalsFit(x)
  BY <1>2 DEF Busy, LocalsFit, HasJob, HasPage, WithJob, WithPage, Opening, Sending, Sent
<1>4. WorkersOwnTheLease
  BY <1>2 DEF WorkersOwnTheLease, Live
<1>5. \A j \in Job : job[j].state = "absent" /\ ~Known(j) /\ sent[j].times = 0 /\ opens[j] = 0
  BY DEF Init, NoJob, Known
<1>6. \A v \in Window : ~InUse(v)
  BY DEF Init, NoPage, InUse
<1>7. QueueFits /\ PagesDiffer /\ KeysBound
  BY <1>5, <1>6 DEF QueueFits, PagesDiffer, KeysBound
<1>8. OneConversation
  <2>1. ASSUME NEW k \in Key, NEW c \in Place PROVE ~Says(k, c)
    BY <1>5, <1>6, ChatAssumption DEF Says, PagesFor, Init
  <2> QED BY <2>1 DEF OneConversation
<1>9. \A j \in Job : JobFits(j)
  BY <1>5 DEF JobFits, Begun, InDoubt
<1>10. \A x \in Worker : WorkerFits(x)
  BY <1>3, IdleFits
<1>11. CancelFits
  BY DEF Init, CancelFits
<1> QED BY <1>1, <1>3, <1>4, <1>7, <1>8, <1>9, <1>10, <1>11 DEF Good, Fits, StoreFits, Names

LEMMA NextKeeps ==
  ASSUME Good, CancelFits, [Next]_vars
  PROVE  Good' /\ CancelFits'
<1>1. ASSUME NEW w \in Worker, EnsureWorker(w) \/ WorkerStep(w) \/ Crash(w)
      PROVE  Good' /\ CancelFits'
  <2>1. Good'
    BY <1>1, EnsureWorkerGood, WorkerStepGood, CrashGood
  <2>2. ASSUME NEW j \in Job, Known(j) PROVE Known(j)'
    <3>1. CASE WorkerStep(w)
      BY <2>2, <3>1, KnownStays
    <3>2. CASE EnsureWorker(w) \/ Crash(w)
      BY <2>2, <3>2 DEF EnsureWorker, Crash, Known
    <3> QED BY <1>1, <3>1, <3>2
  <2>3. cancelling' = cancelling /\ cancelling \in Job \cup {None}
    BY <1>1, WorkerKeepsCancelling DEF Good, Typed
  <2>4. CancelFits'
    <3>1. PICK c \in Job \cup {None} : c = cancelling
      BY <2>3
    <3> QED BY <2>2, <2>3, <3>1 DEF CancelFits
  <2> QED BY <2>1, <2>4
<1>2. CASE Expire
  <2>1. /\ cancelling' = cancelling
        /\ \A j \in Job : job'[j].state = job[j].state
    <3>1. ASSUME NEW i \in Job, ExpireJob(i) PROVE \A j \in Job : job'[j].state = job[j].state
      BY <3>1 DEF ExpireJob, Good, Typed, JobRow
    <3> QED BY <1>2, <3>1 DEF Expire, ExpireJob, ExpirePage, ExpireLease
  <2>2. CancelFits'
    BY <2>1 DEF CancelFits, Known, Good, Typed
  <2> QED BY <1>2, <2>2, ExpireGood
<1>3. CASE Client
  <2>1. ASSUME NEW j \in Job, NEW k \in Key, Enqueue(j, k) PROVE Good' /\ CancelFits'
    <3>1. cancelling' = cancelling /\ \A i \in Job \ {j} : job'[i] = job[i]
      BY <2>1 DEF Enqueue, Good, Typed
    <3>2. CancelFits'
      BY <2>1, <3>1 DEF CancelFits, Known, Good, Typed, Enqueue
    <3> QED BY <2>1, <3>2, EnqueueGood
  <2>2. ASSUME NEW j \in Job, CancelRead(j) PROVE Good' /\ CancelFits'
    <3>1. CancelFits'
      BY <2>2 DEF CancelRead, CancelFits, Pending, Known
    <3> QED BY <2>2, <3>1, CancelGood
  <2>3. ASSUME CancelWrite PROVE Good' /\ CancelFits'
    BY <2>3, CancelGood DEF CancelWrite, CancelFits
  <2> QED BY <1>3, <2>1, <2>2, <2>3 DEF Client
<1>4. CASE Browser
  <2>1. UNCHANGED <<job, cancelling>>
    BY <1>4 DEF Browser, WindowAppears, Deliver, UserCloses, UserOpens, UserNavigates, store
  <2> QED BY <1>4, <2>1, BrowserGood DEF CancelFits, Known
<1>5. CASE UNCHANGED vars
  <2>1. UNCHANGED <<job, conv, page, lease, me, cancelling, at, launched, opens, sent, delivered>>
    BY <1>5 DEF vars, store, chrome
  <2>2. Typed'
    BY <2>1 DEF Good, Typed
  <2> QED BY <2>1, <2>2, OutsideGood DEF CancelFits, Known
<1> QED BY <1>1, <1>2, <1>3, <1>4, <1>5 DEF Next

\* ChatInv is inductive, so every state the queue, its worker and its windows reach satisfies it.
THEOREM ChatInvariant == Spec => []ChatInv
<1>1. Init => ChatInv
  BY InitGood, ChatInvGood
<1>2. ChatInv /\ [Next]_vars => ChatInv'
  BY NextKeeps, ChatInvGood, NextChatInv
<1> QED BY <1>1, <1>2, PTL DEF Spec

-----------------------------------------------------------------------------
(***************************************************************************)
(* What follows for the queue.                                             *)
(***************************************************************************)
\* The rows of the store, the locals of the workers and the windows keep their types: update_job
\* never writes a state outside the machine.
THEOREM ChatTypes == Spec => []TypeOK
<1>1. ChatInv => TypeOK
  BY DEF ChatInv
<1> QED BY <1>1, ChatInvariant, PTL

\* acquire_lease and ensure_chat_dispatch_worker never let a second process past a live one,
\* however often the TTL expires: at most one worker acts on the browser.
THEOREM SingleDispatcher == Spec => []WorkersOwnTheLease
<1>1. ChatInv => WorkersOwnTheLease
  BY DEF ChatInv
<1> QED BY <1>1, ChatInvariant, PTL

\* OPENING and SUBMITTING are written ahead of their effects, so that neither a crash, nor a
\* cancellation, nor a restart makes the worker or its successor repeat a launch or a send.
THEOREM EffectsOnce == Spec => []EffectsAtMostOnce
<1>1. ChatInv => EffectsAtMostOnce
  BY DEF ChatInv, JobFits, EffectsAtMostOnce, SentAtMostOnce, OpenedAtMostOnce
<1> QED BY <1>1, ChatInvariant, PTL

\* upsert_page follows only a look that found no page of the key in use, and the lease keeps
\* everybody else away in between: a conversation never has two pages in use.
THEOREM OnePage == Spec => []OnePagePerConversation
<1>1. ChatInv => OnePagePerConversation
  <2> SUFFICES ASSUME ChatInv, NEW k \in Key PROVE Cardinality(PagesFor(k)) <= 1
    BY DEF OnePagePerConversation
  <2>1. CASE PagesFor(k) = {}
    <3>1. Cardinality({}) = 0
      BY FS_EmptySet
    <3> QED BY <2>1, <3>1
  <2>2. CASE PagesFor(k) # {}
    <3>1. PICK v : v \in PagesFor(k)
      BY <2>2
    <3>2. PagesFor(k) = {v}
      BY <3>1 DEF ChatInv, PagesDiffer, PagesFor
    <3>3. Cardinality({v}) = 1
      BY FS_Singleton
    <3> QED BY <3>2, <3>3
  <2> QED BY <2>1, <2>2
<1> QED BY <1>1, ChatInvariant, PTL

\* Only a send writes the send history of a job: that of the current job of its worker, in the
\* window it has for it.
LEMMA OnlySends ==
  ASSUME [Next]_vars, NEW j, sent'[j] # sent[j]
  PROVE  \E w \in Worker, r \in {"submitted", "ambiguous", "raised"} : SendReaches(w, r)
<1>1. sent' # sent
  OBVIOUS
<1>2. ~UNCHANGED vars /\ ~Expire /\ ~Client /\ ~Browser
  BY <1>1 DEF vars, chrome, Expire, ExpireJob, ExpirePage, ExpireLease, Client, Enqueue, CancelRead,
              CancelWrite, Browser, WindowAppears, Deliver, UserCloses, UserOpens, UserNavigates
<1>3. PICK w \in Worker : EnsureWorker(w) \/ WorkerStep(w) \/ Crash(w)
  BY <1>2 DEF Next
<1> QED BY <1>1, <1>3
        DEF EnsureWorker, Crash, WorkerStep, AcquireLease, Heartbeat, NoMoreJobs, NextJob, ReusePage,
            LosePage, FindWindow, AcquireFails, OpenUnresolved, PoolFull, AuthorizeOpen,
            OpenFindsWindow, Launch, PollWindow, OpenRaises, UpsertPage, BindWindow, Submit,
            SendMisses, RecordUrl, SettleSend, ReconcileLost, ReconcileKnown,
            ReconcileNew, ObserveAck, ObserveDuplicate, ObserveNothing, ClosePass, CloseWindow,
            NoMorePages, CloseUnproven, DecideExit, Leave, chrome

\* The send that writes job j's history is the one its worker is at.
LEMMA SendFacts ==
  ASSUME ChatInv, [Next]_vars, NEW j \in Job, sent'[j] # sent[j]
  PROVE  \E w \in Worker : /\ Ready(w) /\ me[w].step = "send" /\ Id(w) = j /\ CurFits(w)
                           /\ Reachable(w) /\ sent'[j].to = at[me[w].win]
<1>1. PICK w \in Worker, r \in {"submitted", "ambiguous", "raised"} : SendReaches(w, r)
  BY OnlySends
<1>2. Good
  BY ChatInvGood
<1>3. Ready(w) /\ HasJob(w)
  BY <1>1, <1>2, GoodReady DEF SendReaches, Busy, HasJob, WithJob, WithPage, Sending
<1>4. CurFits(w) /\ Id(w) \in Job
  BY <1>3, CurFacts
<1>5. /\ me[w].step = "send" /\ Reachable(w)
      /\ sent' = [sent EXCEPT ![Id(w)] = [times |-> Twice(@.times), to |-> at[me[w].win]]]
  BY <1>1 DEF SendReaches
<1>6. sent \in [Job -> [times : 0 .. 2, to : Place \cup {None}]]
  BY <1>2 DEF Good, Typed
<1>7. Id(w) = j
  BY <1>4, <1>5, <1>6
<1>8. sent'[j].to = at[me[w].win]
  BY <1>4, <1>5, <1>6, <1>7
<1> QED BY <1>3, <1>4, <1>5, <1>7, <1>8

\* rowid is the durable FIFO sequence: whatever the listed rows say by then, a prompt is sent
\* only when no older job of its conversation is pending.
THEOREM FirstInFirstOut == Spec => SentInOrder
<1> DEFINE A == \A j \in Job : sent'[j] # sent[j] =>
                   \A i \in Job : i < j /\ job[i].key = job[j].key => ~Pending(i)
<1>1. ChatInv /\ [Next]_vars => A
  <2> SUFFICES ASSUME ChatInv, [Next]_vars, NEW j \in Job, sent'[j] # sent[j], NEW i \in Job,
                      i < j, job[i].key = job[j].key
               PROVE  ~Pending(i)
    OBVIOUS
  <2>1. SettledFirst(j)
    BY SendFacts DEF CurFits
  <2> QED BY <2>1 DEF SettledFirst, Closed
<1>2. ChatInv /\ [Next]_vars => [A]_vars
  BY <1>1
<1> HIDE DEF A
<1>3. Spec => [][A]_vars
  BY <1>2, ChatInvariant, PTL DEF Spec
<1> QED BY <1>3 DEF A, SentInOrder

\* "bind browser mutation to exact task/worker/window identity": a prompt whose conversation is
\* known goes to that conversation, because all that the store and the page say of a key agrees.
THEOREM RightConversation == Spec => SentToItsConversation
<1> DEFINE A == \A j \in Job : sent'[j] # sent[j] /\ job[j].url # None => sent'[j].to = job[j].url
<1>1. ChatInv /\ [Next]_vars => A
  <2> SUFFICES ASSUME ChatInv, [Next]_vars, NEW j \in Job, sent'[j] # sent[j], job[j].url # None
               PROVE  sent'[j].to = job[j].url
    OBVIOUS
  <2>1. PICK w \in Worker : /\ Ready(w) /\ me[w].step = "send" /\ Id(w) = j /\ CurFits(w)
                            /\ Reachable(w) /\ sent'[j].to = at[me[w].win]
    BY SendFacts
  <2>2. Cur(w).url = job[j].url
    BY <2>1 DEF CurFits
  <2>3. at[me[w].win] = page[me[w].win].url /\ at[me[w].win].kind = "chat"
    BY <2>1, <2>2 DEF Reachable
  <2>4. me[w].win \in Window
    BY <2>1 DEF Ready, LocalsFit, HasPage, WithPage, Sending
  <2>5. page[me[w].win].url \in Place \cup {None} /\ at[me[w].win] \in Place \cup {Unborn, Shut}
    BY <2>1, <2>4 DEF Ready, Typed, PageRow
  <2>6. IsChat(page[me[w].win].url)
    BY <2>3, <2>5 DEF IsChat, Unborn, Shut
  <2>7. page[me[w].win].url = job[j].url
    BY <2>1, <2>6 DEF Ready, WorkerFits, SendFits, Sending
  <2> QED BY <2>1, <2>3, <2>7
<1>2. ChatInv /\ [Next]_vars => [A]_vars
  BY <1>1
<1> HIDE DEF A
<1>3. Spec => [][A]_vars
  BY <1>2, ChatInvariant, PTL DEF Spec
<1> QED BY <1>3 DEF A, SentToItsConversation

\* _close_idle_pages looked at the pending jobs of the page some steps ago; still, no prompt of
\* that conversation is being sent or unacknowledged when the window is closed.
THEOREM CloseIsSafe == Spec => NotClosedOverASend
<1> DEFINE A == \A w \in Worker, v \in Window : CloseWindow(w, v) =>
                   \A j \in Job : job[j].key = page[v].key =>
                       job[j].state \notin {"SUBMITTING", "SUBMITTED", "RECONCILE_REQUIRED"}
<1>1. ChatInv => A
  BY DEF ChatInv, WorkerFits, ClosingFits, InDoubt, CloseWindow
<1>2. ChatInv => [A]_vars
  BY <1>1
<1> HIDE DEF A
<1>3. Spec => [][A]_vars
  BY <1>2, ChatInvariant, PTL
<1> QED BY <1>3 DEF A, NotClosedOverASend
=============================================================================
