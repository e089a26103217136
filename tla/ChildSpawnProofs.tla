-------------------------- MODULE ChildSpawnProofs --------------------------
(***************************************************************************)
(* Theorems about ChildSpawn, for any number of children, attempts,        *)
(* windows and operator processes, and for any commands and faults; what   *)
(* a theorem asks beyond that is in its statement.                         *)
(***************************************************************************)
EXTENDS ChildSpawn, FiniteSetTheorems, WellFoundedInduction, TLAPS

W == INSTANCE WorkerProtocolProofs WITH Worker <- Conv

\* The steps of a command that has an attempt, and those among them that come after the
\* attempt's window was bound.
WindowSteps == {"prompt", "click", "limited", "back", "routed", "wait", "second", "click2",
                "window", "done"}
AttemptSteps == {"pool", "open", "submit", "launch", "bind", "consume", "clear", "failed",
                 "maybe", "send", "cool"} \cup WindowSteps
ConvSteps == {"adopt", "claim"}
Waiting == {"idle", "child"}
Sweeping == {"sweep", "swept"}

Born(a) == spawn[a].state # "unborn"
HasWindow(a) == Born(a) /\ spawn[a].win # None
SafeToLeave(c) == lsm[c] \/ task[c] = "COMPLETED"
HasCompleted(c) == \E a \in Attempt : a[1] = c /\ spawn[a].state = "COMPLETED"

\* What a process in state m relies on.
Fits(m) ==
    /\ m.pc \notin Waiting => m.todo # {}
    /\ m.pc \in AttemptSteps => m.a \in Attempt /\ Born(m.a)
    /\ m.pc \in ConvSteps => m.a \in Child \X Conv /\ (m.a[2] # 0 => HasWindow(m.a))
    /\ m.pc \in AttemptSteps \cup ConvSteps => m.a[1] = Min(m.todo)
    /\ m.pc \in WindowSteps => HasWindow(m.a)
    /\ m.pc = "cool" /\ m.seen \in {"WINDOW_BOUND", "PROMPT_SUBMITTED", "COMPLETED"} =>
           HasWindow(m.a)
    /\ m.pc = "bind" => m.win \in Window
    /\ m.pc \in {"consume", "clear"} => m.src # NoSource
    /\ m.pc \in {"open", "submit", "launch"} /\ m.src # NoSource => SafeToLeave(m.src.of[1])
    /\ m.pc \in {"open", "submit", "launch", "bind", "consume"} /\ m.src.kind = "spawn" =>
           spawn[m.src.of].state = "COMPLETED"
    /\ m.pc \in Sweeping => \A c \in m.todo : HasCompleted(c) /\ task[c] = "COMPLETED"

\* child-complete works on a snapshot that is never ahead of the stored one.
CompleterFits(c) ==
    /\ cpl[c].rev <= proto[c].revision
    /\ cpl[c].pc = "end" /\ cpl[c].rev = proto[c].revision => Current(c) # None

SpawnInv ==
    /\ TypeOK
    /\ \A c \in Child : CompleterFits(c)
    /\ \A o \in Op : Fits(op[o])

-----------------------------------------------------------------------------
(***************************************************************************)
(* Operators the model is built from.                                      *)
(***************************************************************************)
\* A set of naturals that is not empty has a least element, and Min chooses it.
LEMMA MinLemma ==
    ASSUME NEW S, S \subseteq Nat, S # {}
    PROVE  Min(S) \in S /\ \A n \in S : Min(S) <= n
<1> DEFINE R == {p \in Nat \X Nat : p[1] < p[2]}
<1>1. IsWellFoundedOn(R, Nat)
  BY NatLessThanWellFounded, Zenon DEF OpToRel
<1> HIDE DEF R
<1>2. PICK x \in S : \A y \in S : <<y, x>> \notin R
  BY <1>1, WFMin
<1>3. ASSUME NEW y \in S, ~(x <= y) PROVE FALSE
  <2>1. x \in Nat /\ y \in Nat /\ y < x
    BY <1>3
  <2>2. <<y, x>> \in R
    BY <2>1 DEF R
  <2> QED BY <1>2, <2>2
<1>4. \A y \in S : x <= y
  BY <1>3
<1> QED BY <1>4 DEF Min

\* What an attempt is.
LEMMA AttemptLemma ==
    /\ \A a \in Attempt : a[1] \in Child /\ a[2] \in Conv /\ a[2] # 0 /\ a \in Child \X Conv
                          /\ a = <<a[1], a[2]>>
    /\ \A c \in Child, n \in Conv : n # 0 => <<c, n>> \in Attempt
    /\ \A a \in Child \X Conv : a[1] \in Child /\ a[2] \in Conv
                                /\ (a[2] # 0 => a \in Attempt)
    /\ None \notin Conv /\ 0 \in Conv
BY SpawnAssumption DEF Attempt, Conv

\* The child an operator works on is one of those it has left.
LEMMA ThisLemma ==
    ASSUME NEW S \in SUBSET Child, S # {}
    PROVE  Min(S) \in S /\ Min(S) \in Child
BY MinLemma, SpawnAssumption

\* Oldest picks a member.
LEMMA OldestLemma ==
    ASSUME NEW S \in SUBSET (Child \X Conv), S # {}
    PROVE  Oldest(S) \in S
<1> DEFINE N == {a[1] : a \in S}
<1>1. N \subseteq Nat /\ N # {}
  BY SpawnAssumption
<1>2. PICK n \in N : \A k \in N : n <= k
  BY <1>1, MinLemma
<1>3. PICK a \in S : a[1] = n
  BY <1>2
<1>4. \A b \in S : a[1] <= b[1]
  BY <1>2, <1>3
<1> QED BY <1>3, <1>4 DEF Oldest

\* What may follow a state: nothing leads back to unborn, and nothing leaves COMPLETED or FAILED.
LEMMA AllowedLemma ==
    /\ \A s \in SpawnState : Allowed(s) \subseteq SpawnState \ {"unborn", "ARMED"}
    /\ Allowed("unborn") = {} /\ Allowed("COMPLETED") = {} /\ Allowed("FAILED") = {}
    /\ Allowed("ARMED") = {"WINDOW_OPEN_SUBMITTED", "FAILED"}
    /\ \A s \in SpawnState : "WINDOW_OPEN_SUBMITTED" \in Allowed(s) => s = "ARMED"
    /\ \A s \in SpawnState : "FAILED" \in Allowed(s) =>
          s \in {"ARMED", "WINDOW_OPEN_SUBMITTED", "WINDOW_BOUND"}
    /\ \A s \in SpawnState : "COMPLETED" \in Allowed(s) =>
          s \in {"PROMPT_SUBMITTED", "RECONCILE_REQUIRED"}
BY DEF Allowed, SpawnState, Unresolved, Ambiguous

-----------------------------------------------------------------------------
(***************************************************************************)
(* What a process relies on is stable, and what it becomes.                *)
(***************************************************************************)
\* The shared state only moves forward: a row once written stays written and keeps a window,
\* COMPLETED stays, and so does the reason why a page may be left.
Forward ==
    /\ \A a \in Attempt : /\ Born(a) => Born(a)'
                          /\ HasWindow(a) => HasWindow(a)'
                          /\ spawn[a].state = "COMPLETED" => spawn'[a].state = "COMPLETED"
    /\ \A c \in Child : /\ SafeToLeave(c) => SafeToLeave(c)'
                        /\ task[c] = "COMPLETED" => task'[c] = "COMPLETED"

\* Where a page to recycle comes from.
LEMMA SourceLemma ==
    ASSUME NEW src \in Source, src # NoSource
    PROVE  /\ src.of \in Child \X Conv /\ src.of[1] \in Child /\ src.win \in Window
           /\ src.kind \in {"spawn", "worker"} /\ (src.kind = "spawn" => src.of \in Attempt)
BY AttemptLemma DEF Source

LEMMA FitsStable ==
    ASSUME NEW m \in Process, Fits(m), Forward
    PROVE  Fits(m)'
<1>1. m.src \in Source /\ m.todo \subseteq Child /\ m.pc \in PC
  BY DEF Process
<1>2. m.pc \in AttemptSteps => m.a \in Attempt /\ Born(m.a)'
  BY DEF Fits, Forward
<1>3. m.pc \in ConvSteps => m.a \in Child \X Conv /\ (m.a[2] # 0 => HasWindow(m.a)')
  BY AttemptLemma DEF Fits, Forward
<1>4. m.pc \in WindowSteps => HasWindow(m.a)'
  BY DEF Fits, Forward, AttemptSteps
<1>5. m.pc = "cool" /\ m.seen \in {"WINDOW_BOUND", "PROMPT_SUBMITTED", "COMPLETED"} =>
        HasWindow(m.a)'
  BY DEF Fits, Forward, AttemptSteps
<1>6. m.pc \in {"open", "submit", "launch"} /\ m.src # NoSource => SafeToLeave(m.src.of[1])'
  BY <1>1, SourceLemma DEF Fits, Forward
<1>7. m.pc \in Sweeping => \A c \in m.todo : HasCompleted(c)' /\ task'[c] = "COMPLETED"
  BY <1>1 DEF Fits, Forward, HasCompleted
<1>8. m.pc \in {"open", "submit", "launch", "bind", "consume"} /\ m.src.kind = "spawn" =>
        spawn'[m.src.of].state = "COMPLETED"
  <2>1. m.src.kind = "spawn" => m.src # NoSource
    BY DEF NoSource
  <2> QED BY <1>1, <2>1, SourceLemma DEF Fits, Forward
<1> QED BY <1>2, <1>3, <1>4, <1>5, <1>6, <1>7, <1>8 DEF Fits

\* One process changes; the others keep what they rely on.
LEMMA BecomeFits ==
    ASSUME SpawnInv, NEW o \in Op, NEW m \in Process, Become(o, m), Forward, Fits(m)'
    PROVE  op' \in [Op -> Process] /\ \A q \in Op : Fits(op[q])'
<1>1. op \in [Op -> Process] /\ op' = [op EXCEPT ![o] = m]
  BY DEF SpawnInv, TypeOK, Become
<1>2. op' \in [Op -> Process]
  BY <1>1
<1>3. ASSUME NEW q \in Op PROVE Fits(op[q])'
  <2>1. CASE q = o
    <3>1. op'[q] = m
      BY <1>1, <2>1
    <3> QED BY <3>1 DEF Fits, Born, HasWindow, SafeToLeave, HasCompleted
  <2>2. CASE q # o
    <3>1. PICK k \in Process : k = op[q]
      BY <1>1
    <3>2. op'[q] = k
      BY <1>1, <2>2, <3>1
    <3>3. Fits(k)'
      BY <3>1, FitsStable DEF SpawnInv
    <3> QED BY <3>2, <3>3 DEF Fits, Born, HasWindow, SafeToLeave, HasCompleted
  <2> QED BY <2>1, <2>2
<1> QED BY <1>2, <1>3

SameWork(m, o) ==
    /\ m.batch = op[o].batch /\ m.todo = op[o].todo /\ m.a = op[o].a /\ m.src = op[o].src
    /\ m.win = op[o].win /\ m.seen = op[o].seen /\ m.rev = op[o].rev /\ m.missed = op[o].missed

\* The process after Run, Stop and NextChild.
LEMMA RunFacts ==
    ASSUME TypeOK, NEW o \in Op, NEW pc \in PC, Run(o, pc)
    PROVE  \E m \in Process : Become(o, m) /\ m.pc = pc /\ SameWork(m, o)
<1>1. op[o] \in Process
  BY DEF TypeOK
<1>2. PICK m : m = [op[o] EXCEPT !.pc = pc]
  OBVIOUS
<1>3. m \in Process /\ m.pc = pc /\ SameWork(m, o)
  BY <1>1, <1>2 DEF Process, SameWork
<1> QED BY <1>2, <1>3 DEF Run

LEMMA IdleFacts ==
    /\ Idle \in Process /\ Idle.pc = "idle" /\ Idle.todo = {} /\ Fits(Idle) /\ Fits(Idle)'
<1>1. /\ "idle" \in PC /\ "unborn" \in SpawnState /\ 0 \in Nat
      /\ NoSource \in Source /\ FALSE \in BOOLEAN
  BY DEF PC, SpawnState, Source
<1>2. Idle \in Process /\ Idle.pc = "idle" /\ Idle.todo = {}
  BY <1>1 DEF Idle, Process
<1>3. "idle" \in Waiting /\ "idle" \notin AttemptSteps \cup ConvSteps \cup Sweeping
  BY DEF Waiting, AttemptSteps, WindowSteps, ConvSteps, Sweeping
<1>4. Fits(Idle)
  BY <1>2, <1>3 DEF Fits, AttemptSteps, WindowSteps
<1>5. Fits(Idle)'
  BY <1>2, <1>3 DEF Fits, AttemptSteps, WindowSteps
<1> QED BY <1>2, <1>4, <1>5

LEMMA NextChildFacts ==
    ASSUME TypeOK, NEW o \in Op, NextChild(o)
    PROVE  \E m \in Process : Become(o, m) /\ m.pc = "child" /\ Fits(m) /\ Fits(m)'
<1>1. op[o] \in Process
  BY DEF TypeOK
<1>2. PICK m : m = [Idle EXCEPT !.pc = "child", !.batch = TRUE, !.todo = op[o].todo \ {This(o)}]
  OBVIOUS
<1>3. "child" \in PC /\ op[o].todo \ {This(o)} \in SUBSET Child
  BY <1>1 DEF PC, Process
<1>4. m \in Process /\ m.pc = "child"
  BY <1>2, <1>3, IdleFacts DEF Process
<1>5. "child" \in Waiting /\ "child" \notin AttemptSteps \cup ConvSteps \cup Sweeping
  BY DEF Waiting, AttemptSteps, WindowSteps, ConvSteps, Sweeping
<1>6. Fits(m) /\ Fits(m)'
  BY <1>4, <1>5 DEF Fits, AttemptSteps, WindowSteps
<1> QED BY <1>2, <1>4, <1>6 DEF NextChild

-----------------------------------------------------------------------------
(***************************************************************************)
(* Steps that change only the process, a window beside it, or a row        *)
(* beside it.                                                              *)
(***************************************************************************)
LEMMA OpStep ==
    ASSUME SpawnInv, NEW o \in Op, NEW m \in Process, Become(o, m), OnlyOp, Fits(m)
    PROVE  SpawnInv'
<1>1. Forward
  BY DEF Forward, OnlyOp, Born, HasWindow, SafeToLeave
<1>2. op' \in [Op -> Process] /\ \A q \in Op : Fits(op[q])'
  BY <1>1, FitsStable, BecomeFits
<1>3. TypeOK'
  BY <1>2 DEF SpawnInv, TypeOK, OnlyOp
<1>4. \A c \in Child : CompleterFits(c)'
  BY DEF SpawnInv, CompleterFits, OnlyOp, Current
<1> QED BY <1>2, <1>3, <1>4 DEF SpawnInv

LEMMA PageStep ==
    ASSUME SpawnInv, NEW o \in Op, NEW m \in Process, Become(o, m), OnlyPage, Fits(m),
           page' \in [Window -> Pages], sends' \in [Attempt -> Nat]
    PROVE  SpawnInv'
<1>1. Forward
  BY DEF Forward, OnlyPage, Born, HasWindow, SafeToLeave
<1>2. op' \in [Op -> Process] /\ \A q \in Op : Fits(op[q])'
  BY <1>1, FitsStable, BecomeFits
<1>3. TypeOK'
  BY <1>2 DEF SpawnInv, TypeOK, OnlyPage
<1>4. \A c \in Child : CompleterFits(c)'
  BY DEF SpawnInv, CompleterFits, OnlyPage, Current
<1> QED BY <1>2, <1>3, <1>4 DEF SpawnInv

\* A written row keeps the window it has, stays COMPLETED, and has a window where one is needed.
RowForward(a, row) ==
    /\ row.win = None => row.state \notin {"WINDOW_BOUND", "PROMPT_SUBMITTED", "COMPLETED"}
    /\ row.state # "unborn"
    /\ Born(a) /\ spawn[a].win # None => row.win # None
    /\ spawn[a].state = "COMPLETED" => row.state = "COMPLETED"

LEMMA UpdateFacts ==
    ASSUME TypeOK, NEW a \in Attempt, NEW row \in Row, Update(a, row), RowForward(a, row),
           UNCHANGED <<task, lsm>>
    PROVE  /\ spawn' = [spawn EXCEPT ![a] = row] /\ spawn' \in [Attempt -> Row]
           /\ \A b \in Attempt : spawn'[b].win = None =>
                 spawn'[b].state \notin {"WINDOW_BOUND", "PROMPT_SUBMITTED", "COMPLETED"}
           /\ older' \subseteq Attempt \X Attempt
           /\ Forward
<1>1. spawn' = [spawn EXCEPT ![a] = row] /\ spawn \in [Attempt -> Row]
  BY DEF Update, TypeOK
<1>2. spawn' \in [Attempt -> Row] /\ spawn'[a] = row
  BY <1>1
<1>3. \A b \in Attempt : b # a => spawn'[b] = spawn[b]
  BY <1>1
<1>4. older' \subseteq Attempt \X Attempt
  <2>1. Completed \subseteq Attempt /\ older \subseteq Attempt \X Attempt
    BY DEF Completed, TypeOK
  <2> QED BY <2>1 DEF Update
<1>5. \A b \in Attempt : spawn'[b].win = None =>
          spawn'[b].state \notin {"WINDOW_BOUND", "PROMPT_SUBMITTED", "COMPLETED"}
  BY <1>2, <1>3 DEF RowForward, TypeOK
<1>6. Forward
  <2>1. ASSUME NEW b \in Attempt
        PROVE  /\ Born(b) => Born(b)'
               /\ HasWindow(b) => HasWindow(b)'
               /\ spawn[b].state = "COMPLETED" => spawn'[b].state = "COMPLETED"
    BY <1>2, <1>3 DEF RowForward, Born, HasWindow
  <2> QED BY <2>1 DEF Forward, SafeToLeave
<1> QED BY <1>1, <1>2, <1>4, <1>5, <1>6

LEMMA RowStep ==
    ASSUME SpawnInv, NEW o \in Op, NEW m \in Process, Become(o, m), OnlySpawn,
           Fits(m) \/ Fits(m)',
           NEW a \in Attempt, NEW row \in Row, Update(a, row), RowForward(a, row)
    PROVE  SpawnInv'
<1>1. /\ Forward /\ spawn' \in [Attempt -> Row] /\ older' \subseteq Attempt \X Attempt
      /\ \A b \in Attempt : spawn'[b].win = None =>
            spawn'[b].state \notin {"WINDOW_BOUND", "PROMPT_SUBMITTED", "COMPLETED"}
  BY UpdateFacts DEF SpawnInv, OnlySpawn
<1>2. op' \in [Op -> Process] /\ \A q \in Op : Fits(op[q])'
  BY <1>1, FitsStable, BecomeFits
<1>3. TypeOK'
  BY <1>1, <1>2 DEF SpawnInv, TypeOK, OnlySpawn
<1>4. \A c \in Child : CompleterFits(c)'
  BY DEF SpawnInv, CompleterFits, OnlySpawn, Current
<1> QED BY <1>2, <1>3, <1>4 DEF SpawnInv

\* The process stops and nothing else happens.
LEMMA StopStep ==
    ASSUME SpawnInv, NEW o \in Op, Stop(o), OnlyOp
    PROVE  SpawnInv'
BY IdleFacts, OpStep DEF Stop

LEMMA RunStep ==
    ASSUME SpawnInv, NEW o \in Op, NEW pc \in PC, Run(o, pc), OnlyOp,
           \A m \in Process : m.pc = pc /\ SameWork(m, o) => Fits(m)
    PROVE  SpawnInv'
BY RunFacts, OpStep DEF SpawnInv

-----------------------------------------------------------------------------
(***************************************************************************)
(* The type invariant, action by action.                                   *)
(***************************************************************************)
LEMMA ArmCheckTypes ==
    ASSUME SpawnInv, NEW o \in Op, ArmCheck(o)
    PROVE  SpawnInv'
<1>1. CASE Stop(o)
  BY <1>1, StopStep DEF ArmCheck
<1>2. CASE Run(o, "record")
  <2>1. "record" \in PC
    BY DEF PC
  <2>2. op[o].todo # {}
    BY DEF SpawnInv, Fits, ArmCheck, At, Waiting
  <2>3. \A m \in Process : m.pc = "record" /\ SameWork(m, o) => Fits(m)
    BY <2>2 DEF SameWork, Fits, AttemptSteps, WindowSteps, ConvSteps, Sweeping
  <2> QED BY <1>2, <2>1, <2>3, RunStep DEF ArmCheck
<1> QED BY <1>1, <1>2 DEF ArmCheck

\* The page the pool offers belongs to a child that may lose it.
LEMMA SourceForLemma ==
    ASSUME TypeOK, NEW c \in Child
    PROVE  /\ SourceFor(c) \in Source
           /\ SourceFor(c) # NoSource => SafeToLeave(SourceFor(c).of[1]) /\ SourceFor(c).of[1] # c
           /\ SourceFor(c).kind = "spawn" =>
                 /\ spawn[SourceFor(c).of].state = "COMPLETED"
                 /\ spawn[SourceFor(c).of].win = SourceFor(c).win
           /\ SourceFor(c).kind = "worker" =>
                 /\ Current(SourceFor(c).of[1]) = SourceFor(c).of[2]
                 /\ binding[SourceFor(c).of[1]] = SourceFor(c).win
<1> DEFINE terminal == {a \in TerminalSources : a[1] # c}
           running == {<<d, Current(d)>> : d \in RunningSources \ {c}}
<1>1. CASE terminal # {}
  <2>1. terminal \subseteq Attempt /\ terminal \subseteq Child \X Conv
    BY AttemptLemma DEF TerminalSources, LatestOwners, Unconsumed, Completed
  <2>2. PICK a \in terminal : a = Oldest(terminal)
    BY <1>1, <2>1, OldestLemma
  <2>3. SourceFor(c) = [kind |-> "spawn", of |-> a, win |-> spawn[a].win]
    BY <1>1, <2>2 DEF SourceFor
  <2>4. spawn[a].state = "COMPLETED" /\ task[a[1]] = "COMPLETED" /\ a \in Attempt /\ a[1] # c
    BY <2>1 DEF TerminalSources, LatestOwners, Unconsumed, Completed
  <2>5. spawn[a].win \in Window
    BY <2>4 DEF TypeOK, Row
  <2> HIDE DEF terminal
  <2> QED BY <2>3, <2>4, <2>5 DEF Source, SafeToLeave
<1>2. CASE terminal = {} /\ running # {}
  <2>1. \A d \in RunningSources : /\ d \in Child /\ Current(d) \in Conv /\ lsm[d]
                                  /\ binding[d] \in Window
    <3>1. ASSUME NEW d \in RunningSources PROVE d \in Child /\ Current(d) # None /\ lsm[d] /\ binding[d] # None
      BY DEF RunningSources, Existing, HasPage
    <3>2. ASSUME NEW d \in Child PROVE Current(d) \in Conv \cup {None} /\ binding[d] \in Window \cup {None}
      BY DEF TypeOK, P!Snapshot, P!OptWorker, Current
    <3> QED BY <3>1, <3>2
  <2>2. running \subseteq Child \X Conv
    BY <2>1
  <2>3. PICK d \in RunningSources : Oldest(running) = <<d, Current(d)>> /\ d # c
    BY <1>2, <2>2, OldestLemma
  <2>4. Oldest(running)[1] = d
    BY <2>3
  <2>5. SourceFor(c) = [kind |-> "worker", of |-> <<d, Current(d)>>, win |-> binding[d]]
    BY <1>2, <2>3, <2>4 DEF SourceFor
  <2> HIDE DEF terminal, running
  <2>6. PICK src : src = SourceFor(c)
    OBVIOUS
  <2>7. src.kind = "worker" /\ src.of = <<d, Current(d)>> /\ src.win = binding[d]
    BY <2>5, <2>6
  <2>8. src.of[1] = d /\ src.of[2] = Current(d)
    BY <2>7
  <2>9. src \in Source
    BY <2>1, <2>5, <2>6 DEF Source
  <2> QED BY <2>1, <2>3, <2>6, <2>7, <2>8, <2>9 DEF SafeToLeave
<1>3. CASE terminal = {} /\ running = {}
  <2>1. SourceFor(c) = NoSource
    BY <1>3 DEF SourceFor
  <2> QED BY <2>1 DEF Source, NoSource
<1> QED BY <1>1, <1>2, <1>3

LEMMA MissedLemma ==
    ASSUME TypeOK
    PROVE  MissedWindows \subseteq Window
<1>1. \A a \in Unconsumed : spawn[a].win \in Window
  BY DEF Unconsumed, Completed, TypeOK, Row
<1> QED BY <1>1 DEF MissedWindows

LEMMA PoolTypes ==
    ASSUME SpawnInv, NEW o \in Op, Pool(o)
    PROVE  SpawnInv'
<1>1. CASE Stop(o)
  BY <1>1, StopStep DEF Pool
<1>2. CASE ~Stop(o)
  <2>1. op[o] \in Process /\ op[o].pc = "pool" /\ Fits(op[o])
    BY DEF SpawnInv, TypeOK, Pool, At
  <2>2. op[o].todo # {} /\ op[o].a \in Attempt /\ Born(op[o].a) /\ op[o].a[1] = Min(op[o].todo)
    BY <2>1 DEF Fits, Waiting, AttemptSteps
  <2>3. This(o) \in Child
    BY <2>1, <2>2, ThisLemma DEF This, Process
  <2>4. PICK src : src = SourceFor(This(o))
    OBVIOUS
  <2>5. /\ src \in Source /\ (src # NoSource => SafeToLeave(src.of[1]))
        /\ src.kind = "spawn" => spawn[src.of].state = "COMPLETED"
    BY <2>3, <2>4, SourceForLemma DEF SpawnInv
  <2>6. PICK m : m = [op[o] EXCEPT !.pc = "open", !.src = src, !.missed = MissedWindows]
    OBVIOUS
  <2>7. Become(o, m)
    BY <1>2, <2>4, <2>6 DEF Pool
  <2>8. "open" \in PC /\ MissedWindows \in SUBSET Window
    BY MissedLemma DEF PC, SpawnInv
  <2>9. m \in Process /\ m.pc = "open" /\ m.src = src /\ m.todo = op[o].todo /\ m.a = op[o].a
    BY <2>1, <2>5, <2>6, <2>8 DEF Process
  <2>10. Fits(m)
    BY <2>2, <2>5, <2>9 DEF Fits, AttemptSteps, WindowSteps, ConvSteps, Sweeping
  <2> QED BY <2>7, <2>9, <2>10, OpStep DEF Pool
<1> QED BY <1>1, <1>2

\* An operator inside an attempt.
LEMMA AttemptFacts ==
    ASSUME SpawnInv, NEW o \in Op, op[o].pc \in AttemptSteps
    PROVE  /\ op[o] \in Process /\ op[o].todo # {} /\ op[o].a \in Attempt /\ Born(op[o].a)
           /\ op[o].a[1] = Min(op[o].todo) /\ op[o].a[1] \in Child
           /\ op[o].pc \in WindowSteps => HasWindow(op[o].a) /\ spawn[op[o].a].win \in Window
<1>1. op[o] \in Process /\ Fits(op[o]) /\ spawn \in [Attempt -> Row]
  BY DEF SpawnInv, TypeOK
<1>2. op[o].a \in Attempt /\ op[o].todo # {}
  BY <1>1 DEF Fits, AttemptSteps, WindowSteps, Waiting
<1>3. spawn[op[o].a].win \in Window \cup {None}
  BY <1>1, <1>2 DEF Row
<1> QED BY <1>1, <1>2, <1>3, AttemptLemma DEF Fits, HasWindow

LEMMA AttemptFits ==
    ASSUME NEW m \in Process, m.pc \in AttemptSteps, m.todo # {}, m.a \in Attempt, Born(m.a),
           m.a[1] = Min(m.todo), m.pc \in WindowSteps => HasWindow(m.a),
           m.pc \notin {"cool", "bind", "consume", "clear", "open", "submit", "launch"}
    PROVE  Fits(m)
BY DEF Fits, AttemptSteps, WindowSteps, ConvSteps, Sweeping

\* A row whose state is written.
LEMMA StateRow ==
    ASSUME TypeOK, NEW a \in Attempt, Born(a), NEW state \in SpawnState,
           UpdateOk(a, state),
           state \in {"WINDOW_BOUND", "PROMPT_SUBMITTED", "COMPLETED"} => HasWindow(a)
    PROVE  \E row \in Row : /\ row = [spawn[a] EXCEPT !.state = state] /\ RowForward(a, row)
                            /\ row.state = state /\ row.win = spawn[a].win
                            /\ row.second = spawn[a].second /\ row.consumed = spawn[a].consumed
<1>1. spawn[a] \in Row /\ spawn[a].state \in SpawnState
  BY DEF TypeOK, Row
<1>2. PICK row : row = [spawn[a] EXCEPT !.state = state]
  OBVIOUS
<1>3. /\ row \in Row /\ row.state = state /\ row.win = spawn[a].win
      /\ row.second = spawn[a].second /\ row.consumed = spawn[a].consumed
  BY <1>1, <1>2 DEF Row
<1>4. state # "unborn" /\ (spawn[a].state = "COMPLETED" => state = "COMPLETED")
  BY <1>1, AllowedLemma DEF UpdateOk, Born
<1>5. RowForward(a, row)
  BY <1>3, <1>4 DEF RowForward, HasWindow
<1> QED BY <1>2, <1>3, <1>5

LEMMA WriteStateTypes ==
    ASSUME SpawnInv, NEW o \in Op, op[o].pc \in AttemptSteps, NEW state \in SpawnState,
           state \in {"WINDOW_BOUND", "PROMPT_SUBMITTED", "COMPLETED"} => HasWindow(op[o].a),
           NEW pc \in PC, WriteState(o, state, pc), OnlySpawn,
           \A m \in Process : m.pc = pc /\ SameWork(m, o) => Fits(m)
    PROVE  SpawnInv'
<1>1. CASE UpdateOk(op[o].a, state)
  <2>1. PICK a \in Attempt : a = op[o].a /\ Born(a)
    BY AttemptFacts
  <2>2. PICK row \in Row : row = [spawn[a] EXCEPT !.state = state] /\ RowForward(a, row)
    BY <1>1, <2>1, StateRow DEF SpawnInv
  <2>3. Update(a, row) /\ Run(o, pc)
    BY <1>1, <2>1, <2>2 DEF WriteState
  <2>4. PICK m \in Process : Become(o, m) /\ m.pc = pc /\ SameWork(m, o)
    BY <2>3, RunFacts DEF SpawnInv
  <2> QED BY <2>2, <2>3, <2>4, RowStep
<1>2. CASE ~UpdateOk(op[o].a, state)
  BY <1>2, StopStep DEF WriteState, OnlySpawn, OnlyOp
<1> QED BY <1>1, <1>2

LEMMA WriteAndStopTypes ==
    ASSUME SpawnInv, NEW o \in Op, op[o].pc \in AttemptSteps, NEW state \in SpawnState,
           state \in {"WINDOW_BOUND", "PROMPT_SUBMITTED", "COMPLETED"} => HasWindow(op[o].a),
           WriteAndStop(o, state), OnlySpawn
    PROVE  SpawnInv'
<1>1. CASE UpdateOk(op[o].a, state)
  <2>1. PICK a \in Attempt : a = op[o].a /\ Born(a)
    BY AttemptFacts
  <2>2. PICK row \in Row : row = [spawn[a] EXCEPT !.state = state] /\ RowForward(a, row)
    BY <1>1, <2>1, StateRow DEF SpawnInv
  <2>3. Update(a, row) /\ Stop(o)
    BY <1>1, <2>1, <2>2 DEF WriteAndStop
  <2> QED BY <2>2, <2>3, RowStep, IdleFacts DEF Stop
<1>2. CASE ~UpdateOk(op[o].a, state)
  BY <1>2, StopStep DEF WriteAndStop, OnlySpawn, OnlyOp
<1> QED BY <1>1, <1>2

\* record_child_spawn_attempt.
LEMMA ArmRecordTypes ==
    ASSUME SpawnInv, NEW o \in Op, ArmRecord(o)
    PROVE  SpawnInv'
<1> DEFINE c == This(o)
           unborn == {n \in 1 .. MaxAttempts : spawn[<<c, n>>].state = "unborn"}
<1>1. CASE ~(UnresolvedOf(c) = {} /\ unborn # {})
  BY <1>1, StopStep DEF ArmRecord, OnlySpawn, OnlyOp
<1>2. CASE UnresolvedOf(c) = {} /\ unborn # {}
  <2>1. op[o] \in Process /\ op[o].todo # {}
    BY DEF SpawnInv, TypeOK, ArmRecord, At, Fits, Waiting
  <2>2. c \in Child
    BY <2>1, ThisLemma DEF This, Process
  <2>3. Min(unborn) \in unborn
    <3>1. unborn \subseteq Nat /\ unborn # {}
      BY <1>2, SpawnAssumption
    <3> HIDE DEF unborn
    <3> QED BY <3>1, MinLemma
  <2>4. PICK a : a = <<c, Min(unborn)>>
    OBVIOUS
  <2>5. a \in Attempt /\ a[1] = c /\ spawn[a].state = "unborn"
    BY <2>2, <2>3, <2>4 DEF Attempt
  <2>6. Armed \in Row /\ Armed.state = "ARMED"
    BY DEF Armed, Unborn, Row, SpawnState, Unresolved
  <2>7. RowForward(a, Armed)
    BY <2>5, <2>6 DEF RowForward, Born
  <2>8. Update(a, Armed) /\ OnlySpawn
    BY <1>2, <2>4 DEF ArmRecord
  <2>9. CASE op[o].batch
    <3>1. PICK m : m = [op[o] EXCEPT !.pc = "pool", !.a = a]
      OBVIOUS
    <3>2. Become(o, m)
      BY <1>2, <2>4, <2>9, <3>1 DEF ArmRecord
    <3>3. "pool" \in PC /\ a \in (Child \X Conv) \cup {None}
      BY <2>5, AttemptLemma DEF PC
    <3>4. m \in Process /\ m.pc = "pool" /\ m.a = a /\ m.todo = op[o].todo
      BY <2>1, <3>1, <3>3 DEF Process
    <3>5. Born(a)'
      BY <2>5, <2>6, <2>8, UpdateFacts, <2>7 DEF Born, SpawnInv, OnlySpawn
    <3>6. a[1] = Min(m.todo)
      BY <2>5, <3>4 DEF This
    <3>7. Fits(m)'
      BY <2>1, <2>5, <3>4, <3>5, <3>6 DEF Fits, AttemptSteps, WindowSteps, ConvSteps, Sweeping
    <3> QED BY <2>5, <2>6, <2>7, <2>8, <3>2, <3>4, <3>7, RowStep
  <2>10. CASE ~op[o].batch
    <3>1. Become(o, Idle)
      BY <1>2, <2>10 DEF ArmRecord, Stop
    <3> QED BY <2>5, <2>6, <2>7, <2>8, <3>1, IdleFacts, RowStep
  <2> QED BY <2>9, <2>10
<1> QED BY <1>1, <1>2

LEMMA OpenTypes ==
    ASSUME SpawnInv, NEW o \in Op, OpenRead(o) \/ OpenSubmit(o)
    PROVE  SpawnInv'
<1>1. op[o].pc \in {"open", "submit"}
  BY DEF OpenRead, OpenSubmit, At
<1>2. /\ op[o] \in Process /\ op[o].todo # {} /\ op[o].a \in Attempt /\ Born(op[o].a)
      /\ op[o].a[1] = Min(op[o].todo)
  BY <1>1, AttemptFacts DEF AttemptSteps
<1>3. /\ op[o].src # NoSource => SafeToLeave(op[o].src.of[1])
      /\ op[o].src.kind = "spawn" => spawn[op[o].src.of].state = "COMPLETED"
  BY <1>1 DEF SpawnInv, Fits
<1>4. ASSUME NEW m \in Process, m.pc \in {"submit", "launch"}, SameWork(m, o)
      PROVE  Fits(m)
  BY <1>2, <1>3, <1>4 DEF SameWork, Fits, AttemptSteps, WindowSteps, ConvSteps, Sweeping
<1>5. "submit" \in PC /\ "launch" \in PC /\ "WINDOW_OPEN_SUBMITTED" \in SpawnState
  BY DEF PC, SpawnState, Unresolved, Ambiguous
<1>6. CASE OpenRead(o)
  <2>1. CASE Run(o, "submit")
    BY <1>4, <1>5, <1>6, <2>1, RunStep DEF OpenRead
  <2>2. CASE Stop(o)
    BY <1>6, <2>2, StopStep DEF OpenRead
  <2> QED BY <1>6, <2>1, <2>2 DEF OpenRead
<1>7. CASE OpenSubmit(o)
  <2>1. op[o].pc \in AttemptSteps
    BY <1>1 DEF AttemptSteps
  <2> QED BY <1>4, <1>5, <1>7, <2>1, WriteStateTypes DEF OpenSubmit
<1> QED BY <1>6, <1>7

\* What a window shows once it is navigated, closed or typed into.
LEMMA PagesLemma ==
    /\ Absent \in Pages /\ Elsewhere \in Pages
    /\ \A a \in Attempt, t \in {"none", "draft", "sent"} : Root(a, t) \in Pages
    /\ \A a \in Attempt, t \in {"draft", "sent", "consumed"} : Chat(a, t) \in Pages
BY DEF Pages

LEMMA PageCases ==
    ASSUME NEW p \in Pages
    PROVE  \/ p = Absent \/ p = Elsewhere
           \/ \E a \in Attempt, t \in {"none", "draft", "sent"} : p = Root(a, t)
           \/ \E a \in Attempt, t \in {"draft", "sent", "consumed"} : p = Chat(a, t)
BY DEF Pages

LEMMA ShowTypes ==
    ASSUME TypeOK, NEW w \in Window, NEW p \in Pages, Show(w, p)
    PROVE  page' \in [Window -> Pages]
BY DEF TypeOK, Show

LEMMA NavigateTypes ==
    ASSUME TypeOK, NEW w \in Window, NEW a \in Attempt, Navigate(w, a)
    PROVE  page' \in [Window -> Pages]
<1>1. Root(a, "none") \in Pages
  BY PagesLemma
<1> QED BY <1>1, ShowTypes DEF Navigate

LEMMA LaunchNewTypes ==
    ASSUME SpawnInv, NEW o \in Op, LaunchNew(o)
    PROVE  SpawnInv'
<1>1. op[o].pc = "launch" /\ op[o].pc \in AttemptSteps
  BY DEF LaunchNew, At, AttemptSteps
<1>2. /\ op[o] \in Process /\ op[o].todo # {} /\ op[o].a \in Attempt /\ Born(op[o].a)
      /\ op[o].a[1] = Min(op[o].todo)
  BY <1>1, AttemptFacts
<1>3. page' \in [Window -> Pages] /\ sends' \in [Attempt -> Nat]
  BY <1>2, NavigateTypes DEF LaunchNew, SpawnInv, TypeOK
<1>4. "bind" \in PC /\ "maybe" \in PC /\ "failed" \in PC
  BY DEF PC
<1>5. CASE \E pc \in {"maybe", "failed"} : Run(o, pc)
  <2>1. PICK pc \in {"maybe", "failed"} : Run(o, pc)
    BY <1>5
  <2>2. PICK m \in Process : Become(o, m) /\ m.pc = pc /\ SameWork(m, o)
    BY <1>4, <2>1, RunFacts DEF SpawnInv
  <2>3. Fits(m)
    BY <1>2, <2>1, <2>2, AttemptFits DEF SameWork, AttemptSteps, WindowSteps
  <2> QED BY <1>3, <2>2, <2>3, PageStep DEF LaunchNew
<1>6. CASE \E w \in Window : Become(o, [op[o] EXCEPT !.pc = "bind", !.win = w])
  <2>1. PICK w \in Window : Become(o, [op[o] EXCEPT !.pc = "bind", !.win = w])
    BY <1>6
  <2>2. PICK m : m = [op[o] EXCEPT !.pc = "bind", !.win = w]
    OBVIOUS
  <2>3. /\ m \in Process /\ m.pc = "bind" /\ m.win = w /\ m.a = op[o].a /\ m.todo = op[o].todo
        /\ m.src = NoSource
    BY <1>2, <1>4, <2>2 DEF Process, LaunchNew
  <2>4. Fits(m)
    BY <1>2, <2>3 DEF NoSource, Fits, AttemptSteps, WindowSteps, ConvSteps, Sweeping
  <2> QED BY <1>3, <2>1, <2>2, <2>3, <2>4, PageStep DEF LaunchNew
<1> QED BY <1>5, <1>6 DEF LaunchNew

LEMMA LaunchReuseTypes ==
    ASSUME SpawnInv, NEW o \in Op, LaunchReuse(o)
    PROVE  SpawnInv'
<1>1. op[o].pc = "launch" /\ op[o].pc \in AttemptSteps
  BY DEF LaunchReuse, At, AttemptSteps
<1>2. /\ op[o] \in Process /\ op[o].todo # {} /\ op[o].a \in Attempt /\ Born(op[o].a)
      /\ op[o].a[1] = Min(op[o].todo)
  BY <1>1, AttemptFacts
<1>3. op[o].src.win \in Window
  BY <1>2, SourceLemma DEF LaunchReuse, Process
<1>4. page' \in [Window -> Pages] /\ sends' \in [Attempt -> Nat]
  BY <1>2, <1>3, NavigateTypes DEF LaunchReuse, SpawnInv, TypeOK
<1>5. "bind" \in PC /\ "failed" \in PC
  BY DEF PC
<1>6. CASE Run(o, "failed")
  <2>2. PICK m \in Process : Become(o, m) /\ m.pc = "failed" /\ SameWork(m, o)
    BY <1>5, <1>6, RunFacts DEF SpawnInv
  <2>3. Fits(m)
    BY <1>2, <2>2, AttemptFits DEF SameWork, AttemptSteps, WindowSteps
  <2> QED BY <1>4, <2>2, <2>3, PageStep DEF LaunchReuse
<1>7. CASE Stop(o)
  BY <1>4, <1>7, IdleFacts, PageStep DEF LaunchReuse, Stop
<1>8. CASE Become(o, [op[o] EXCEPT !.pc = "bind", !.win = op[o].src.win])
  <2>2. PICK m : m = [op[o] EXCEPT !.pc = "bind", !.win = op[o].src.win]
    OBVIOUS
  <2>3. /\ m \in Process /\ m.pc = "bind" /\ m.win = op[o].src.win /\ m.a = op[o].a
        /\ m.todo = op[o].todo /\ m.src = op[o].src
    BY <1>2, <1>3, <1>5, <2>2 DEF Process
  <2>4. op[o].src.kind = "spawn" => spawn[op[o].src.of].state = "COMPLETED"
    BY <1>1 DEF SpawnInv, Fits
  <2>5. Fits(m)
    BY <1>2, <1>3, <2>3, <2>4 DEF Fits, AttemptSteps, WindowSteps, ConvSteps, Sweeping
  <2> QED BY <1>4, <1>8, <2>2, <2>3, <2>5, PageStep DEF LaunchReuse
<1> QED BY <1>6, <1>7, <1>8 DEF LaunchReuse

\* A step that changes neither the task rows nor the spawn rows.
LEMMA ProcessStep ==
    ASSUME SpawnInv, NEW o \in Op, NEW m \in Process, Become(o, m), Fits(m),
           UNCHANGED <<task, lsm, spawn, older, page, cpl, sends, delivered>>,
           binding' \in [Child -> Window \cup {None}], cooldown' \in BOOLEAN,
           proto' \in [Child -> P!Snapshot], \A c \in Child : CompleterFits(c)'
    PROVE  SpawnInv'
<1>1. Forward
  BY DEF Forward, Born, HasWindow, SafeToLeave
<1>2. op' \in [Op -> Process] /\ \A q \in Op : Fits(op[q])'
  BY <1>1, FitsStable, BecomeFits
<1>3. TypeOK'
  BY <1>2 DEF SpawnInv, TypeOK
<1> QED BY <1>2, <1>3 DEF SpawnInv

\* The batch goes on to the send, or the command is over.
LEMMA OnwardFacts ==
    ASSUME SpawnInv, NEW o \in Op, op[o].pc \in AttemptSteps, Onward(o, "send")
    PROVE  \E m \in Process : /\ Become(o, m) /\ Fits(m)
                              /\ m = Idle \/ (m.pc = "send" /\ SameWork(m, o))
<1>1. CASE Run(o, "send")
  <2>1. "send" \in PC
    BY DEF PC
  <2>2. PICK m \in Process : Become(o, m) /\ m.pc = "send" /\ SameWork(m, o)
    BY <1>1, <2>1, RunFacts DEF SpawnInv
  <2>3. Fits(m)
    BY <2>2, AttemptFacts, AttemptFits DEF SameWork, AttemptSteps, WindowSteps
  <2> QED BY <2>2, <2>3
<1>2. CASE Stop(o)
  BY <1>2, IdleFacts DEF Stop
<1> QED BY <1>1, <1>2 DEF Onward

LEMMA BindWindowTypes ==
    ASSUME SpawnInv, NEW o \in Op, BindWindow(o)
    PROVE  SpawnInv'
<1>1. op[o].pc = "bind" /\ op[o].pc \in AttemptSteps
  BY DEF BindWindow, At, AttemptSteps
<1>2. PICK a \in Attempt : a = op[o].a
  BY <1>1, AttemptFacts
<1>3. op[o].win \in Window
  BY <1>1 DEF SpawnInv, Fits
<1>4. CASE spawn[a].state \in {"WINDOW_OPEN_SUBMITTED", "RECONCILE_REQUIRED"}
  <2>1. PICK row : row = [spawn[a] EXCEPT !.state = "WINDOW_BOUND", !.win = op[o].win]
    OBVIOUS
  <2>2. spawn[a] \in Row /\ "WINDOW_BOUND" \in SpawnState
    BY DEF SpawnInv, TypeOK, SpawnState, Unresolved
  <2>3. row \in Row /\ row.state = "WINDOW_BOUND" /\ row.win = op[o].win
    BY <1>3, <2>1, <2>2 DEF Row
  <2>4. op[o].win # None
    BY <1>3, SpawnAssumption
  <2>5. RowForward(a, row)
    BY <1>4, <2>3, <2>4 DEF RowForward
  <2>6. Update(a, row) /\ OnlySpawn
    BY <1>2, <1>4, <2>1 DEF BindWindow
  <2>7. \E m \in Process : Become(o, m) /\ Fits(m)
    <3>1. CASE op[o].src # NoSource
      <4>1. Run(o, "consume") /\ "consume" \in PC
        BY <1>2, <1>4, <3>1 DEF BindWindow, PC
      <4>2. PICK m \in Process : Become(o, m) /\ m.pc = "consume" /\ SameWork(m, o)
        BY <4>1, RunFacts DEF SpawnInv
      <4>3. op[o].src.kind = "spawn" => spawn[op[o].src.of].state = "COMPLETED"
        BY <1>1 DEF SpawnInv, Fits
      <4>4. Fits(m)
        BY <1>1, <3>1, <4>2, <4>3, AttemptFacts
           DEF SameWork, Fits, AttemptSteps, WindowSteps, ConvSteps, Sweeping
      <4> QED BY <4>2, <4>4
    <3>2. CASE op[o].src = NoSource
      BY <1>1, <1>2, <1>4, <3>2, OnwardFacts DEF BindWindow
    <3> QED BY <3>1, <3>2
  <2> QED BY <2>3, <2>5, <2>6, <2>7, RowStep
<1>5. CASE spawn[a].state \notin {"WINDOW_OPEN_SUBMITTED", "RECONCILE_REQUIRED"}
  BY <1>2, <1>5, StopStep DEF BindWindow, OnlySpawn, OnlyOp
<1> QED BY <1>4, <1>5

\* A row that is only marked consumed.
LEMMA ConsumedRow ==
    ASSUME TypeOK, NEW a \in Attempt, spawn[a].state = "COMPLETED",
           NEW how \in {"recycled", "closed"}
    PROVE  \E row \in Row : /\ row = [spawn[a] EXCEPT !.consumed = how] /\ RowForward(a, row)
                            /\ row.state = spawn[a].state /\ row.win = spawn[a].win
                            /\ row.second = spawn[a].second /\ row.consumed = how
<1>1. spawn[a] \in Row /\ spawn[a].win # None
  BY DEF TypeOK
<1>2. PICK row : row = [spawn[a] EXCEPT !.consumed = how]
  OBVIOUS
<1>3. /\ row \in Row /\ row.state = spawn[a].state /\ row.win = spawn[a].win
      /\ row.second = spawn[a].second /\ row.consumed = how
  BY <1>1, <1>2 DEF Row
<1>4. RowForward(a, row)
  BY <1>1, <1>3 DEF RowForward
<1> QED BY <1>2, <1>3, <1>4

LEMMA ConsumeTypes ==
    ASSUME SpawnInv, NEW o \in Op, Consume(o)
    PROVE  SpawnInv'
<1>1. op[o].pc = "consume" /\ op[o].pc \in AttemptSteps
  BY DEF Consume, At, AttemptSteps
<1>2. op[o] \in Process /\ op[o].src \in Source /\ op[o].src # NoSource
  BY <1>1, AttemptFacts DEF SpawnInv, Fits, Process
<1>3. PICK m \in Process : Become(o, m) /\ Fits(m)
  <2>1. CASE Run(o, "clear")
    <3>1. "clear" \in PC
      BY DEF PC
    <3>2. PICK m \in Process : Become(o, m) /\ m.pc = "clear" /\ SameWork(m, o)
      BY <2>1, <3>1, RunFacts DEF SpawnInv
    <3>3. Fits(m)
      BY <1>1, <1>2, <3>2, AttemptFacts
         DEF SameWork, Fits, AttemptSteps, WindowSteps, ConvSteps, Sweeping
    <3> QED BY <3>2, <3>3
  <2>2. CASE Onward(o, "send")
    BY <1>1, <2>2, OnwardFacts
  <2> QED BY <2>1, <2>2 DEF Consume
<1>4. CASE UNCHANGED <<spawn, older>>
  BY <1>3, <1>4, OpStep DEF Consume, OnlySpawn, OnlyOp
<1>5. CASE ~UNCHANGED <<spawn, older>>
  <2>1. PICK b : b = op[o].src.of
    OBVIOUS
  <2>2. b \in Attempt /\ spawn[b].state = "COMPLETED"
    BY <1>1, <1>2, <1>5, <2>1, SourceLemma DEF Consume, SpawnInv, Fits
  <2>3. PICK row \in Row : row = [spawn[b] EXCEPT !.consumed = "recycled"] /\ RowForward(b, row)
    BY <2>2, ConsumedRow DEF SpawnInv
  <2>4. Update(b, row) /\ OnlySpawn
    BY <1>5, <2>1, <2>3 DEF Consume
  <2> QED BY <1>3, <2>2, <2>3, <2>4, RowStep
<1> QED BY <1>4, <1>5

LEMMA ClearBindingTypes ==
    ASSUME SpawnInv, NEW o \in Op, ClearBinding(o)
    PROVE  SpawnInv'
<1>1. op[o].pc = "clear" /\ op[o].pc \in AttemptSteps
  BY DEF ClearBinding, At, AttemptSteps
<1>2. PICK m \in Process : Become(o, m) /\ Fits(m)
  BY <1>1, OnwardFacts DEF ClearBinding
<1>3. /\ binding' \in [Child -> Window \cup {None}] /\ cooldown' \in BOOLEAN
      /\ proto' \in [Child -> P!Snapshot]
  BY DEF ClearBinding, SpawnInv, TypeOK
<1>4. \A c \in Child : CompleterFits(c)'
  BY DEF SpawnInv, CompleterFits, Current, ClearBinding
<1> QED BY <1>2, <1>3, <1>4, ProcessStep DEF ClearBinding

LEMMA OpenEndTypes ==
    ASSUME SpawnInv, NEW o \in Op, OpenFailed(o) \/ OutcomeAmbiguous(o)
    PROVE  SpawnInv'
<1>1. op[o].pc \in AttemptSteps
  BY DEF OpenFailed, OutcomeAmbiguous, At, AttemptSteps
<1>2. "FAILED" \in SpawnState /\ "RECONCILE_REQUIRED" \in SpawnState
  BY DEF SpawnState, Unresolved, Ambiguous
<1> QED BY <1>1, <1>2, WriteAndStopTypes DEF OpenFailed, OutcomeAmbiguous

-----------------------------------------------------------------------------
\* Sending.
LEMMA SendReadTypes ==
    ASSUME SpawnInv, NEW o \in Op, SendRead(o)
    PROVE  SpawnInv'
<1>1. op[o].pc = "send" /\ op[o].pc \in AttemptSteps
  BY DEF SendRead, At, AttemptSteps
<1>2. PICK a \in Attempt : a = op[o].a
  BY <1>1, AttemptFacts
<1>3. spawn[a] \in Row /\ spawn[a].state \in SpawnState
  BY DEF SpawnInv, TypeOK, Row
<1>4. spawn[a].state \in {"WINDOW_BOUND", "PROMPT_SUBMITTED", "COMPLETED"} => HasWindow(a)
  BY DEF SpawnInv, TypeOK, HasWindow, Born
<1>5. "cool" \in PC /\ "prompt" \in PC
  BY DEF PC
<1>6. CASE cooldown
  <2>1. PICK m : m = [op[o] EXCEPT !.pc = "cool", !.seen = spawn[a].state]
    OBVIOUS
  <2>2. Become(o, m)
    BY <1>2, <1>6, <2>1 DEF SendRead
  <2>3. /\ m \in Process /\ m.pc = "cool" /\ m.seen = spawn[a].state /\ m.a = a
        /\ m.todo = op[o].todo
    BY <1>1, <1>2, <1>3, <1>5, <2>1, AttemptFacts DEF Process
  <2>4. Fits(m)
    BY <1>1, <1>2, <1>4, <2>3, AttemptFacts
       DEF Fits, AttemptSteps, WindowSteps, ConvSteps, Sweeping
  <2> QED BY <2>2, <2>3, <2>4, OpStep DEF SendRead
<1>7. CASE ~cooldown /\ spawn[a].state = "WINDOW_BOUND"
  <2>1. Run(o, "prompt")
    BY <1>2, <1>7 DEF SendRead
  <2>2. PICK m \in Process : Become(o, m) /\ m.pc = "prompt" /\ SameWork(m, o)
    BY <1>5, <2>1, RunFacts DEF SpawnInv
  <2>3. Fits(m)
    BY <1>1, <1>2, <1>4, <1>7, <2>2, AttemptFacts, AttemptFits
       DEF SameWork, AttemptSteps, WindowSteps
  <2> QED BY <2>2, <2>3, OpStep DEF SendRead
<1>8. CASE ~cooldown /\ spawn[a].state # "WINDOW_BOUND"
  BY <1>2, <1>8, StopStep DEF SendRead
<1> QED BY <1>6, <1>7, <1>8

\* From a step with a bound window, the same work goes on at any later step.
LEMMA WindowFits ==
    ASSUME SpawnInv, NEW o \in Op, op[o].pc \in WindowSteps, NEW m \in Process,
           m.pc \in WindowSteps \cup {"maybe", "adopt"}, SameWork(m, o)
    PROVE  Fits(m)
<1>1. op[o].pc \in AttemptSteps
  BY DEF AttemptSteps
<1>2. /\ m.todo # {} /\ m.a \in Attempt /\ HasWindow(m.a) /\ Born(m.a) /\ m.a[1] = Min(m.todo)
  BY <1>1, AttemptFacts DEF SameWork
<1>3. CASE m.pc = "adopt"
  BY <1>2, <1>3, AttemptLemma DEF Fits, AttemptSteps, WindowSteps, ConvSteps, Sweeping
<1>4. CASE m.pc # "adopt"
  BY <1>2, <1>4, AttemptFits DEF AttemptSteps, WindowSteps
<1> QED BY <1>3, <1>4

LEMMA WindowRunStep ==
    ASSUME SpawnInv, NEW o \in Op, op[o].pc \in WindowSteps,
           NEW pc \in WindowSteps \cup {"maybe", "adopt"}, Run(o, pc)
    PROVE  \E m \in Process : Become(o, m) /\ Fits(m) /\ m.pc = pc /\ SameWork(m, o)
<1>1. pc \in PC
  BY DEF PC, WindowSteps
<1> QED BY <1>1, RunFacts, WindowFits DEF SpawnInv

LEMMA SendWriteTypes ==
    ASSUME SpawnInv, NEW o \in Op, SendDuringCooldown(o) \/ SendSubmit(o) \/ SendBack(o)
    PROVE  SpawnInv'
<1>1. op[o].pc \in AttemptSteps
  BY DEF SendDuringCooldown, SendSubmit, SendBack, At, AttemptSteps, WindowSteps
<1>2. CASE SendDuringCooldown(o)
  <2>1. op[o].seen \in SpawnState
    BY <1>1, AttemptFacts DEF Process
  <2>2. op[o].seen \in {"WINDOW_BOUND", "PROMPT_SUBMITTED", "COMPLETED"} => HasWindow(op[o].a)
    BY <1>2 DEF SendDuringCooldown, At, SpawnInv, Fits
  <2>3. PICK seen \in SpawnState : seen = op[o].seen
    BY <2>1
  <2> QED BY <1>1, <1>2, <2>2, <2>3, WriteAndStopTypes DEF SendDuringCooldown
<1>3. CASE SendBack(o)
  <2>1. "WINDOW_BOUND" \in SpawnState /\ HasWindow(op[o].a)
    BY <1>1, <1>3, AttemptFacts DEF SendBack, At, WindowSteps, SpawnState, Unresolved
  <2> QED BY <1>1, <1>3, <2>1, WriteAndStopTypes DEF SendBack
<1>4. CASE SendSubmit(o)
  <2>1. op[o].pc \in WindowSteps /\ "click" \in WindowSteps
    BY <1>4 DEF SendSubmit, At, WindowSteps
  <2>2. "PROMPT_SUBMITTED" \in SpawnState /\ HasWindow(op[o].a) /\ "click" \in PC
    BY <1>1, <2>1, AttemptFacts DEF SpawnState, Unresolved, Ambiguous, PC
  <2>3. \A m \in Process : m.pc = "click" /\ SameWork(m, o) => Fits(m)
    BY <2>1, WindowFits
  <2> QED BY <1>1, <1>4, <2>2, <2>3, WriteStateTypes DEF SendSubmit
<1> QED BY <1>2, <1>3, <1>4

\* Invoking Send in a window that shows the attempt.
LEMMA InvokeTypes ==
    ASSUME TypeOK, NEW w \in Window, NEW a \in Attempt, Invoke(w, a),
           IsRoot(w, a) \/ (IsChat(w, a) /\ page[w].text # "none")
    PROVE  /\ page' \in [Window -> Pages] /\ sends' \in [Attempt -> Nat]
           /\ page' = [page EXCEPT ![w] = IF page[w].kind = "root" THEN Root(a, "sent")
                                          ELSE Chat(a, "sent")]
           /\ sends' = [sends EXCEPT ![a] = sends[a] + 1]
<1>1. page[w] \in Pages
  BY DEF TypeOK
<1>2. PICK p : p = [page[w] EXCEPT !.text = "sent"]
  OBVIOUS
<1>3. p = IF page[w].kind = "root" THEN Root(a, "sent") ELSE Chat(a, "sent")
  BY <1>1, <1>2, PageCases DEF IsRoot, IsChat, Root, Chat, Absent, Elsewhere
<1>4. p \in Pages
  BY <1>3, PagesLemma
<1>5. sends' = [sends EXCEPT ![a] = sends[a] + 1] /\ sends' \in [Attempt -> Nat]
  BY DEF Invoke, TypeOK
<1>6. Show(w, p)
  BY <1>2 DEF Invoke
<1> QED BY <1>3, <1>4, <1>5, <1>6, ShowTypes DEF Show

LEMMA ClickTypes ==
    ASSUME SpawnInv, NEW o \in Op, Click(o)
    PROVE  SpawnInv'
<1>1. op[o].pc = "click" /\ op[o].pc \in WindowSteps /\ op[o].pc \in AttemptSteps
  BY DEF Click, At, WindowSteps, AttemptSteps
<1>2. PICK a \in Attempt : a = op[o].a
  BY <1>1, AttemptFacts
<1>3. PICK w \in Window : w = spawn[a].win
  BY <1>1, <1>2, AttemptFacts
<1>4. Refused(o, w, a) \/ RateLimited(o, w, a) \/ Invoked(o, w, a) \/ Interrupted(o, w, a)
  BY <1>2, <1>3 DEF Click
<1>5. page' \in [Window -> Pages] /\ sends' \in [Attempt -> Nat]
  <2>1. CASE UNCHANGED <<page, sends>>
    BY <2>1 DEF SpawnInv, TypeOK
  <2>2. CASE IsRoot(w, a) /\ Invoke(w, a)
    BY <2>2, InvokeTypes DEF SpawnInv
  <2>3. CASE Show(w, Root(a, "draft")) /\ UNCHANGED sends
    <3>1. Root(a, "draft") \in Pages
      BY PagesLemma
    <3> QED BY <2>3, <3>1, ShowTypes DEF SpawnInv, TypeOK
  <2> QED BY <1>4, <2>1, <2>2, <2>3 DEF Refused, RateLimited, Invoked, Interrupted
<1>6. \E m \in Process : Become(o, m) /\ Fits(m)
  <2>1. CASE Stop(o)
    BY <2>1, IdleFacts DEF Stop
  <2>2. CASE \E pc \in {"back", "limited", "routed", "maybe"} : Run(o, pc)
    <3>1. PICK pc \in WindowSteps \cup {"maybe", "adopt"} : Run(o, pc)
      BY <2>2 DEF WindowSteps
    <3> QED BY <1>1, <3>1, WindowRunStep
  <2> QED BY <1>4, <2>1, <2>2 DEF Refused, RateLimited, Invoked, Interrupted
<1> QED BY <1>5, <1>6, PageStep DEF Click

LEMMA StartCooldownTypes ==
    ASSUME SpawnInv, NEW o \in Op, StartCooldown(o)
    PROVE  SpawnInv'
<1>1. op[o].pc \in WindowSteps /\ "back" \in WindowSteps
  BY DEF StartCooldown, At, WindowSteps
<1>2. PICK m \in Process : Become(o, m) /\ Fits(m)
  BY <1>1, WindowRunStep DEF StartCooldown
<1>3. /\ binding' \in [Child -> Window \cup {None}] /\ cooldown' \in BOOLEAN
      /\ proto' \in [Child -> P!Snapshot]
  BY DEF StartCooldown, SpawnInv, TypeOK
<1>4. \A c \in Child : CompleterFits(c)'
  BY DEF SpawnInv, CompleterFits, Current, StartCooldown
<1> QED BY <1>2, <1>3, <1>4, ProcessStep DEF StartCooldown

LEMMA WaitTypes ==
    ASSUME SpawnInv, NEW o \in Op, WaitForConversation(o) \/ WaitForDelivery(o)
    PROVE  SpawnInv'
<1>1. op[o].pc \in WindowSteps
  BY DEF WaitForConversation, WaitForDelivery, At, WindowSteps
<1>2. \E pc \in {"wait", "maybe", "adopt", "second"} : Run(o, pc)
  BY DEF WaitForConversation, WaitForDelivery
<1>3. PICK pc \in WindowSteps \cup {"maybe", "adopt"} : Run(o, pc)
  BY <1>2 DEF WindowSteps
<1> QED BY <1>1, <1>3, WindowRunStep, OpStep DEF WaitForConversation, WaitForDelivery

LEMMA SecondSubmitTypes ==
    ASSUME SpawnInv, NEW o \in Op, SecondSubmit(o)
    PROVE  SpawnInv'
<1>1. op[o].pc \in WindowSteps /\ op[o].pc \in AttemptSteps /\ "click2" \in WindowSteps
  BY DEF SecondSubmit, At, WindowSteps, AttemptSteps
<1>2. PICK a \in Attempt : a = op[o].a
  BY <1>1, AttemptFacts
<1>3. CASE UpdateOk(a, "PROMPT_SUBMITTED")
  <2>1. PICK row : row = [spawn[a] EXCEPT !.state = "PROMPT_SUBMITTED", !.second = TRUE]
    OBVIOUS
  <2>2. spawn[a] \in Row /\ "PROMPT_SUBMITTED" \in SpawnState /\ spawn[a].state \in SpawnState
    BY DEF SpawnInv, TypeOK, SpawnState, Unresolved, Ambiguous, Row
  <2>3. row \in Row /\ row.state = "PROMPT_SUBMITTED" /\ row.win = spawn[a].win
    BY <2>1, <2>2 DEF Row
  <2>4. RowForward(a, row)
    BY <1>1, <1>2, <1>3, <2>2, <2>3, AllowedLemma, AttemptFacts
       DEF RowForward, UpdateOk, HasWindow
  <2>5. Update(a, row) /\ Run(o, "click2")
    BY <1>2, <1>3, <2>1 DEF SecondSubmit
  <2>6. PICK m \in Process : Become(o, m) /\ Fits(m)
    BY <1>1, <2>5, WindowRunStep
  <2> QED BY <2>3, <2>4, <2>5, <2>6, RowStep DEF SecondSubmit
<1>4. CASE ~UpdateOk(a, "PROMPT_SUBMITTED")
  BY <1>2, <1>4, StopStep DEF SecondSubmit, OnlySpawn, OnlyOp
<1> QED BY <1>3, <1>4

LEMMA SecondClickTypes ==
    ASSUME SpawnInv, NEW o \in Op, SecondClick(o)
    PROVE  SpawnInv'
<1>1. op[o].pc \in WindowSteps /\ op[o].pc \in AttemptSteps
  BY DEF SecondClick, At, WindowSteps, AttemptSteps
<1>2. PICK a \in Attempt : a = op[o].a
  BY <1>1, AttemptFacts
<1>3. PICK w \in Window : w = spawn[a].win
  BY <1>1, <1>2, AttemptFacts
<1>4. page' \in [Window -> Pages] /\ sends' \in [Attempt -> Nat]
  <2>1. CASE UNCHANGED <<page, sends>>
    BY <2>1 DEF SpawnInv, TypeOK
  <2>2. CASE IsChat(w, a) /\ DraftReady(page[w]) /\ Invoke(w, a)
    BY <2>2, InvokeTypes DEF SpawnInv, DraftReady
  <2> QED BY <1>2, <1>3, <2>1, <2>2 DEF SecondClick
<1>5. PICK pc \in WindowSteps \cup {"maybe", "adopt"} : Run(o, pc)
  BY DEF SecondClick, WindowSteps
<1> QED BY <1>1, <1>4, <1>5, WindowRunStep, PageStep DEF SecondClick

-----------------------------------------------------------------------------
(***************************************************************************)
(* What the protocol transitions of a child do, from the lemmas of         *)
(* WorkerProtocolProofs.                                                   *)
(***************************************************************************)
LEMMA ProtocolInstance ==
    W!WorkerAssumption /\ W!Snapshot = P!Snapshot
<1>1. W!WorkerAssumption
  BY SpawnAssumption, AttemptLemma DEF W!WorkerAssumption
<1>2. W!Snapshot = P!Snapshot
  BY DEF P!Snapshot, W!Snapshot, P!OptWorker, W!OptWorker, P!OptTime, W!OptTime, P!Lease,
         W!Lease, P!LeaseStatus, W!LeaseStatus, P!Terminal, W!Terminal
<1> QED BY <1>1, <1>2

LEMMA RegisterFacts ==
    ASSUME NEW s \in P!Snapshot, NEW n \in Conv
    PROVE  LET t == P!Register(s, n, 0)
           IN /\ t \in P!Snapshot /\ t.revision = s.revision + 1
              /\ t.current_worker_id = s.current_worker_id
              /\ t.task_status = s.task_status /\ t.generation = s.generation
              /\ t.workers[n].status = "candidate"
              /\ \A k \in Conv \ {n} : t.workers[k] = s.workers[k]
<1>1. P!Register(s, n, 0) = W!Register(s, n, 0)
  BY DEF P!Register, W!Register, P!Candidate, W!Candidate, P!Accept, W!Accept,
         P!Unregistered, W!Unregistered
<1>2. /\ W!Register(s, n, 0) \in W!Snapshot
      /\ W!Register(s, n, 0) =
            W!MkSnapshot(s.revision + 1, s.generation, s.task_status, s.current_worker_id,
                         s.handoff_target_worker_id, s.handoff_requested_at,
                         s.completed_at, [s.workers EXCEPT ![n] = W!Candidate(0)])
  BY ProtocolInstance, W!RegisterEquation
<1>3. W!Candidate(0).status = "candidate" /\ s.workers \in [Conv -> P!Lease]
  BY DEF W!Candidate, W!Unregistered, P!Snapshot
<1> HIDE DEF W!Candidate
<1> QED BY <1>1, <1>2, <1>3, ProtocolInstance DEF W!MkSnapshot

LEMMA ClaimFacts ==
    ASSUME NEW s \in P!Snapshot, NEW n \in Conv
    PROVE  LET t == P!Claim(s, n, 0, 1)
           IN /\ t \in P!Snapshot /\ t.revision = s.revision + 1 /\ t.current_worker_id = n
              /\ t.workers[n].status = "active"
              /\ \A k \in Conv \ {n} : t.workers[k] = s.workers[k]
<1>1. P!Claim(s, n, 0, 1) = W!Claim(s, n, 0, 1)
  BY DEF P!Claim, W!Claim, P!Granted, W!Granted, P!Accept, W!Accept, P!SetHolder, W!SetHolder
<1>2. /\ W!Claim(s, n, 0, 1) \in W!Snapshot
      /\ W!Claim(s, n, 0, 1) =
            W!MkSnapshot(s.revision + 1, s.generation + 1, s.task_status, n, None, None,
                         s.completed_at,
                         [s.workers EXCEPT ![n] = W!Granted(s.workers[n], s.generation + 1, 0, 1)])
  BY ProtocolInstance, W!ClaimEquation
<1>3. PICK l : l = W!Granted(s.workers[n], s.generation + 1, 0, 1)
  OBVIOUS
<1>4. s.workers \in [Conv -> P!Lease] /\ s.workers[n] \in P!Lease
  BY DEF P!Snapshot
<1>5. l.status = "active"
  BY <1>3, <1>4 DEF W!Granted, P!Lease
<1> QED BY <1>1, <1>2, <1>3, <1>4, <1>5, ProtocolInstance DEF W!MkSnapshot

LEMMA EndFacts ==
    ASSUME NEW s \in P!Snapshot, NEW n \in Conv, NEW t,
           t = P!CompleteWorker(s, n, 0) \/ t = P!AbandonWorker(s, n, 1)
    PROVE  /\ t \in P!Snapshot /\ t.revision = s.revision + 1 /\ t.current_worker_id = None
           /\ t.workers[n].status \in {"completed", "abandoned"}
           /\ \A k \in Conv \ {n} : t.workers[k] = s.workers[k]
<1>1. PICK status \in {"completed", "abandoned"}, now \in Nat :
          t = P!EndWorker(s, n, status, now)
  BY DEF P!CompleteWorker, P!AbandonWorker
<1>2. P!EndWorker(s, n, status, now) = W!EndWorker(s, n, status, now)
  BY DEF P!EndWorker, W!EndWorker, P!Ended, W!Ended, P!Accept, W!Accept, P!SetHolder, W!SetHolder
<1>3. /\ W!EndWorker(s, n, status, now) \in W!Snapshot
      /\ W!EndWorker(s, n, status, now) =
            W!MkSnapshot(s.revision + 1, s.generation, s.task_status, None, None, None,
                         s.completed_at,
                         [s.workers EXCEPT ![n] = W!Ended(s.workers[n], status, now)])
  <2>1. status \in W!LeaseStatus
    BY DEF W!LeaseStatus, W!Terminal
  <2> QED BY <2>1, ProtocolInstance, W!EndWorkerEquation
<1>4. PICK l : l = W!Ended(s.workers[n], status, now)
  OBVIOUS
<1>5. s.workers \in [Conv -> P!Lease] /\ s.workers[n] \in P!Lease
  BY DEF P!Snapshot
<1>6. l.status = status
  BY <1>4, <1>5 DEF W!Ended, P!Lease
<1> QED BY <1>1, <1>2, <1>3, <1>4, <1>5, <1>6, ProtocolInstance DEF W!MkSnapshot

LEMMA CompleteTaskFacts ==
    ASSUME NEW s \in P!Snapshot
    PROVE  LET t == P!CompleteTask(s, 1)
           IN /\ t \in P!Snapshot /\ t.revision = s.revision + 1
              /\ t.current_worker_id = s.current_worker_id /\ t.workers = s.workers
<1>1. P!CompleteTask(s, 1) = W!CompleteTask(s, 1)
  BY DEF P!CompleteTask, W!CompleteTask, P!Accept, W!Accept
<1>2. W!CompleteTask(s, 1) \in W!Snapshot
  BY ProtocolInstance, W!CompleteTaskEquation
<1>3. W!CompleteTask(s, 1) =
         W!MkSnapshot(s.revision + 1, s.generation, "completed", s.current_worker_id,
                      s.handoff_target_worker_id, s.handoff_requested_at, 1, s.workers)
  BY ProtocolInstance, W!CompleteTaskEquation
<1> QED BY <1>1, <1>2, <1>3, ProtocolInstance DEF W!MkSnapshot

\* A protocol commit leaves every completer that read before it behind.
LEMMA CommitFacts ==
    ASSUME SpawnInv, NEW c \in Child, NEW t \in P!Snapshot, t.revision = proto[c].revision + 1,
           proto' = [proto EXCEPT ![c] = t], UNCHANGED cpl
    PROVE  proto' \in [Child -> P!Snapshot] /\ \A d \in Child : CompleterFits(d)'
<1>1. proto \in [Child -> P!Snapshot]
  BY DEF SpawnInv, TypeOK
<1>2. proto' \in [Child -> P!Snapshot]
  BY <1>1
<1>3. ASSUME NEW d \in Child PROVE CompleterFits(d)'
  <2>1. proto[d].revision \in Nat /\ cpl[d].rev \in Nat /\ CompleterFits(d)
    BY DEF SpawnInv, TypeOK, P!Snapshot
  <2>2. CASE d = c
    <3>1. proto'[d] = t
      BY <1>1, <2>2
    <3> QED BY <2>1, <2>2, <3>1 DEF CompleterFits
  <2>3. CASE d # c
    <3>1. proto'[d] = proto[d]
      BY <1>1, <2>3
    <3> QED BY <2>1, <3>1 DEF CompleterFits, Current
  <2> QED BY <2>2, <2>3
<1> QED BY <1>2, <1>3

-----------------------------------------------------------------------------
\* Adoption.
LEMMA ConvFacts ==
    ASSUME SpawnInv, NEW o \in Op, op[o].pc \in ConvSteps
    PROVE  /\ op[o] \in Process /\ op[o].todo # {} /\ op[o].a \in Child \X Conv
           /\ op[o].a[1] \in Child /\ op[o].a[2] \in Conv /\ op[o].a[1] = Min(op[o].todo)
           /\ op[o].a[2] # 0 => op[o].a \in Attempt /\ HasWindow(op[o].a)
<1>1. op[o] \in Process /\ Fits(op[o])
  BY DEF SpawnInv, TypeOK
<1>2. op[o].todo # {} /\ op[o].a \in Child \X Conv
  BY <1>1 DEF Fits, ConvSteps, Waiting
<1> QED BY <1>1, <1>2, AttemptLemma DEF Fits

\* The worker is claimed: a hand-opened conversation is done, a spawned one binds its window.
LEMMA ClaimedFacts ==
    ASSUME SpawnInv, NEW o \in Op, op[o].pc \in ConvSteps,
           IF op[o].a[2] = 0 THEN Stop(o) ELSE Run(o, "window")
    PROVE  \E m \in Process : /\ Become(o, m) /\ Fits(m)
                              /\ m = Idle \/ (m.pc = "window" /\ SameWork(m, o) /\ op[o].a[2] # 0)
<1>1. CASE op[o].a[2] = 0
  BY <1>1, IdleFacts DEF Stop
<1>2. CASE op[o].a[2] # 0
  <2>1. Run(o, "window") /\ "window" \in PC
    BY <1>2 DEF PC
  <2>2. PICK m \in Process : Become(o, m) /\ m.pc = "window" /\ SameWork(m, o)
    BY <2>1, RunFacts DEF SpawnInv
  <2>3. m.a \in Attempt /\ HasWindow(m.a) /\ m.todo # {} /\ m.a[1] = Min(m.todo)
    BY <1>2, <2>2, ConvFacts DEF SameWork
  <2>4. Fits(m)
    BY <2>2, <2>3, AttemptFits DEF AttemptSteps, WindowSteps, HasWindow
  <2> QED BY <1>2, <2>2, <2>4
<1> QED BY <1>1, <1>2

LEMMA AdoptTypes ==
    ASSUME SpawnInv, NEW o \in Op, Adopt(o)
    PROVE  SpawnInv'
<1>1. op[o].pc = "adopt" /\ op[o].pc \in ConvSteps
  BY DEF Adopt, At, ConvSteps
<1>2. PICK c \in Child, n \in Conv : c = op[o].a[1] /\ n = op[o].a[2]
  BY <1>1, ConvFacts
<1>3. proto[c] \in P!Snapshot /\ binding' = binding /\ cooldown' = cooldown
  BY DEF SpawnInv, TypeOK, Adopt
<1>4. /\ binding' \in [Child -> Window \cup {None}] /\ cooldown' \in BOOLEAN
  BY <1>3 DEF SpawnInv, TypeOK
<1>5. proto' \in [Child -> P!Snapshot] /\ \A d \in Child : CompleterFits(d)'
  <2>1. CASE UNCHANGED proto
    BY <2>1 DEF SpawnInv, TypeOK, CompleterFits, Current, Adopt
  <2>2. CASE proto' = [proto EXCEPT ![c] = P!Register(proto[c], n, 0)]
    BY <1>3, <2>2, RegisterFacts, CommitFacts DEF Adopt
  <2> QED BY <1>2, <2>1, <2>2 DEF Adopt
<1>6. \E m \in Process : Become(o, m) /\ Fits(m)
  <2>1. CASE Stop(o)
    BY <2>1, IdleFacts DEF Stop
  <2>2. CASE IF op[o].a[2] = 0 THEN Stop(o) ELSE Run(o, "window")
    BY <1>1, <2>2, ClaimedFacts
  <2>3. CASE \E t \in P!Snapshot : Become(o, [op[o] EXCEPT !.pc = "claim", !.rev = t.revision])
    <3>1. PICK t \in P!Snapshot : Become(o, [op[o] EXCEPT !.pc = "claim", !.rev = t.revision])
      BY <2>3
    <3>2. PICK m : m = [op[o] EXCEPT !.pc = "claim", !.rev = t.revision]
      OBVIOUS
    <3>3. "claim" \in PC /\ t.revision \in Nat
      BY DEF PC, P!Snapshot
    <3>4. m \in Process /\ m.pc = "claim" /\ m.a = op[o].a /\ m.todo = op[o].todo
      BY <1>1, <3>2, <3>3, ConvFacts DEF Process
    <3>5. Fits(m)
      BY <1>1, <3>4, ConvFacts DEF Fits, AttemptSteps, WindowSteps, ConvSteps, Sweeping
    <3> QED BY <3>1, <3>2, <3>4, <3>5
  <2>4. P!Register(proto[c], n, 0) \in P!Snapshot
    BY <1>3, RegisterFacts
  <2> QED BY <1>2, <1>3, <2>1, <2>2, <2>3, <2>4 DEF Adopt
<1> QED BY <1>4, <1>5, <1>6, ProcessStep DEF Adopt

LEMMA AdoptClaimTypes ==
    ASSUME SpawnInv, NEW o \in Op, AdoptClaim(o)
    PROVE  SpawnInv'
<1>1. op[o].pc = "claim" /\ op[o].pc \in ConvSteps
  BY DEF AdoptClaim, At, ConvSteps
<1>2. PICK c \in Child, n \in Conv : c = op[o].a[1] /\ n = op[o].a[2]
  BY <1>1, ConvFacts
<1>3. proto[c] \in P!Snapshot
  BY DEF SpawnInv, TypeOK
<1>4. /\ binding' \in [Child -> Window \cup {None}] /\ cooldown' \in BOOLEAN
  BY DEF SpawnInv, TypeOK, AdoptClaim
<1>5. proto' \in [Child -> P!Snapshot] /\ \A d \in Child : CompleterFits(d)'
  <2>1. CASE UNCHANGED proto
    BY <2>1 DEF SpawnInv, TypeOK, CompleterFits, Current, AdoptClaim
  <2>2. CASE proto' = [proto EXCEPT ![c] = P!Claim(proto[c], n, 0, 1)]
    BY <1>3, <2>2, ClaimFacts, CommitFacts DEF AdoptClaim
  <2> QED BY <1>2, <2>1, <2>2 DEF AdoptClaim
<1>6. \E m \in Process : Become(o, m) /\ Fits(m)
  <2>1. CASE Stop(o)
    BY <2>1, IdleFacts DEF Stop
  <2>2. CASE IF op[o].a[2] = 0 THEN Stop(o) ELSE Run(o, "window")
    BY <1>1, <2>2, ClaimedFacts
  <2> QED BY <2>1, <2>2 DEF AdoptClaim
<1> QED BY <1>4, <1>5, <1>6, ProcessStep DEF AdoptClaim

LEMMA AdoptBindWindowTypes ==
    ASSUME SpawnInv, NEW o \in Op, AdoptBindWindow(o)
    PROVE  SpawnInv'
<1>1. op[o].pc \in WindowSteps /\ op[o].pc \in AttemptSteps /\ "done" \in WindowSteps
  BY DEF AdoptBindWindow, At, WindowSteps, AttemptSteps
<1>2. op[o].a[1] \in Child /\ spawn[op[o].a].win \in Window
  BY <1>1, AttemptFacts
<1>3. binding \in [Child -> Window \cup {None}]
  BY DEF SpawnInv, TypeOK
<1>4. binding' \in [Child -> Window \cup {None}]
  BY <1>2, <1>3 DEF AdoptBindWindow
<1>5. cooldown' \in BOOLEAN /\ proto' \in [Child -> P!Snapshot]
  BY DEF SpawnInv, TypeOK, AdoptBindWindow
<1>6. \A c \in Child : CompleterFits(c)'
  BY DEF SpawnInv, CompleterFits, Current, AdoptBindWindow
<1>7. \E m \in Process : Become(o, m) /\ Fits(m)
  <2>1. CASE Stop(o)
    BY <2>1, IdleFacts DEF Stop
  <2>2. CASE Run(o, "done")
    BY <1>1, <2>2, WindowRunStep
  <2> QED BY <2>1, <2>2 DEF AdoptBindWindow
<1> QED BY <1>4, <1>5, <1>6, <1>7, ProcessStep DEF AdoptBindWindow

LEMMA AdoptDoneTypes ==
    ASSUME SpawnInv, NEW o \in Op, AdoptDone(o)
    PROVE  SpawnInv'
<1>1. op[o].pc \in WindowSteps /\ op[o].pc \in AttemptSteps
  BY DEF AdoptDone, At, WindowSteps, AttemptSteps
<1>2. PICK a \in Attempt : a = op[o].a /\ Born(a) /\ HasWindow(a)
  BY <1>1, AttemptFacts
<1>3. CASE UpdateOk(a, "COMPLETED")
  <2>1. "COMPLETED" \in SpawnState
    BY DEF SpawnState
  <2>2. PICK row \in Row : row = [spawn[a] EXCEPT !.state = "COMPLETED"] /\ RowForward(a, row)
    BY <1>2, <1>3, <2>1, StateRow DEF SpawnInv
  <2>3. Update(a, row) /\ OnlySpawn
    BY <1>2, <1>3, <2>2 DEF AdoptDone
  <2>4. \E m \in Process : Become(o, m) /\ Fits(m)
    <3>1. CASE NextChild(o)
      BY <3>1, NextChildFacts DEF SpawnInv
    <3>2. CASE Stop(o)
      BY <3>2, IdleFacts DEF Stop
    <3> QED BY <1>2, <1>3, <3>1, <3>2 DEF AdoptDone
  <2> QED BY <2>2, <2>3, <2>4, RowStep
<1>4. CASE ~UpdateOk(a, "COMPLETED")
  BY <1>2, <1>4, StopStep DEF AdoptDone, OnlySpawn, OnlyOp
<1> QED BY <1>3, <1>4

-----------------------------------------------------------------------------
\* The commands and the batch.
LEMMA StartedFacts ==
    ASSUME NEW o \in Op, NEW pc \in PC, NEW c \in Child, NEW a \in (Child \X Conv) \cup {None},
           Start(o, pc, c, a)
    PROVE  \E m \in Process : /\ Become(o, m) /\ m.pc = pc /\ m.todo = {c} /\ m.a = a
                              /\ m.src = NoSource /\ m.src.kind = "none" /\ Min(m.todo) = c
<1>1. PICK m : m = [Idle EXCEPT !.pc = pc, !.todo = {c}, !.a = a]
  OBVIOUS
<1>2. NoSource.kind = "none" /\ Idle.src = NoSource /\ {c} \in SUBSET Child
  BY DEF NoSource, Idle
<1>3. m \in Process /\ m.pc = pc /\ m.todo = {c} /\ m.a = a /\ m.src = Idle.src
  BY <1>1, <1>2, IdleFacts DEF Process
<1>4. Min({c}) = c
  BY <1>2, ThisLemma
<1>5. Become(o, m)
  BY <1>1 DEF Start
<1> QED BY <1>2, <1>3, <1>4, <1>5

LEMMA StartTypes ==
    ASSUME SpawnInv, NEW o \in Op, NEW pc \in PC, NEW c \in Child,
           NEW a \in (Child \X Conv) \cup {None}, Start(o, pc, c, a), OnlyOp,
           pc \in {"arm", "submit", "send", "maybe", "adopt"},
           pc # "arm" => a \in Child \X Conv /\ a[1] = c,
           pc \in {"submit", "send", "maybe"} => a \in Attempt /\ Born(a),
           pc = "adopt" /\ a[2] # 0 => HasWindow(a)
    PROVE  SpawnInv'
<1>1. PICK m \in Process : /\ Become(o, m) /\ m.pc = pc /\ m.todo = {c} /\ m.a = a
                           /\ m.src = NoSource /\ m.src.kind = "none" /\ Min(m.todo) = c
  BY StartedFacts
<1>2. Fits(m)
  BY <1>1 DEF Fits, AttemptSteps, WindowSteps, ConvSteps, Sweeping
<1> QED BY <1>1, <1>2, OpStep

LEMMA CommandTypes ==
    ASSUME SpawnInv, NEW o \in Op,
           ArmCommand(o) \/ OpenCommand(o) \/ SendCommand(o) \/ AdoptCommand(o)
    PROVE  SpawnInv'
<1>1. {"arm", "submit", "send", "adopt"} \subseteq PC /\ None \in (Child \X Conv) \cup {None}
  BY DEF PC
<1>2. CASE ArmCommand(o)
  BY <1>1, <1>2, StartTypes DEF ArmCommand, Existing
<1>3. CASE OpenCommand(o)
  BY <1>1, <1>3, StartTypes, AttemptLemma DEF OpenCommand, Born
<1>4. CASE SendCommand(o)
  BY <1>1, <1>4, StartTypes, AttemptLemma DEF SendCommand, Born
<1>5. CASE AdoptCommand(o)
  <2>1. PICK c \in Child : Start(o, "adopt", c, <<c, 0>>)
    BY <1>5 DEF AdoptCommand, Existing
  <2>2. <<c, 0>> \in Child \X Conv /\ <<c, 0>>[1] = c /\ <<c, 0>>[2] = 0
    BY AttemptLemma
  <2> QED BY <1>1, <1>5, <2>1, <2>2, StartTypes DEF AdoptCommand
<1> QED BY <1>2, <1>3, <1>4, <1>5

LEMMA ReconcileTypes ==
    ASSUME SpawnInv, NEW o \in Op, ReconcileCommand(o)
    PROVE  SpawnInv'
<1>1. {"bind", "maybe", "adopt"} \subseteq PC
  BY DEF PC
<1>2. PICK a \in Attempt :
         \/ /\ spawn[a].state \in {"WINDOW_OPEN_SUBMITTED", "RECONCILE_REQUIRED"}
            /\ Cardinality(TaggedWindows(a)) = 1
            /\ Become(o, [Idle EXCEPT !.pc = "bind", !.todo = {a[1]}, !.a = a,
                                      !.win = CHOOSE w \in TaggedWindows(a) : TRUE])
         \/ spawn[a].state = "WINDOW_OPEN_SUBMITTED" /\ Start(o, "maybe", a[1], a)
         \/ /\ spawn[a].state \in Unresolved /\ spawn[a].win # None
            /\ Start(o, "adopt", a[1], a) \/ Start(o, "maybe", a[1], a)
  BY DEF ReconcileCommand
<1>3. a[1] \in Child /\ a \in Child \X Conv
  BY AttemptLemma
<1>4. Born(a)
  BY <1>2 DEF Born, Unresolved, Ambiguous
<1>5. CASE Start(o, "maybe", a[1], a)
  BY <1>1, <1>3, <1>4, <1>5, StartTypes DEF ReconcileCommand
<1>6. CASE Start(o, "adopt", a[1], a) /\ spawn[a].win # None
  BY <1>1, <1>3, <1>4, <1>6, StartTypes DEF ReconcileCommand, HasWindow
<1>7. CASE /\ Cardinality(TaggedWindows(a)) = 1
           /\ Become(o, [Idle EXCEPT !.pc = "bind", !.todo = {a[1]}, !.a = a,
                                     !.win = CHOOSE w \in TaggedWindows(a) : TRUE])
  <2>1. TaggedWindows(a) # {}
    BY <1>7, FS_EmptySet
  <2>2. PICK w \in Window : w = CHOOSE v \in TaggedWindows(a) : TRUE
    BY <2>1 DEF TaggedWindows
  <2>3. PICK m : m = [Idle EXCEPT !.pc = "bind", !.todo = {a[1]}, !.a = a, !.win = w]
    OBVIOUS
  <2>4. /\ m \in Process /\ m.pc = "bind" /\ m.todo = {a[1]} /\ m.a = a /\ m.win = w
        /\ m.src = NoSource /\ m.src.kind = "none" /\ Min(m.todo) = a[1]
    <3>1. "bind" \in PC /\ a \in (Child \X Conv) \cup {None} /\ w \in Window \cup {None}
      BY <1>1, <1>3
    <3>2. NoSource.kind = "none" /\ Idle.src = NoSource /\ {a[1]} \in SUBSET Child
      BY <1>3 DEF NoSource, Idle
    <3>3. /\ m \in Process /\ m.pc = "bind" /\ m.todo = {a[1]} /\ m.a = a /\ m.win = w
          /\ m.src = Idle.src
      BY <2>3, <3>1, <3>2, IdleFacts DEF Process
    <3>4. Min({a[1]}) = a[1]
      BY <3>2, ThisLemma
    <3> QED BY <3>2, <3>3, <3>4
  <2>5. Fits(m)
    BY <1>4, <2>4 DEF Fits, AttemptSteps, WindowSteps, ConvSteps, Sweeping
  <2> QED BY <1>7, <2>2, <2>3, <2>4, <2>5, OpStep DEF ReconcileCommand
<1> QED BY <1>2, <1>5, <1>6, <1>7

LEMMA BatchCommandTypes ==
    ASSUME SpawnInv, NEW o \in Op, BatchCommand(o)
    PROVE  SpawnInv'
<1>1. PICK m : m = [Idle EXCEPT !.pc = "child", !.batch = TRUE, !.todo = Existing]
  OBVIOUS
<1>2. "child" \in PC /\ Existing \in SUBSET Child
  BY DEF PC, Existing
<1>3. m \in Process /\ m.pc = "child"
  BY <1>1, <1>2, IdleFacts DEF Process
<1>4. Fits(m)
  BY <1>3 DEF Fits, AttemptSteps, WindowSteps, ConvSteps, Sweeping, Waiting
<1> QED BY <1>1, <1>3, <1>4, OpStep DEF BatchCommand

LEMMA BatchChildTypes ==
    ASSUME SpawnInv, NEW o \in Op, BatchChild(o)
    PROVE  SpawnInv'
<1>1. op[o] \in Process /\ op[o].todo # {}
  BY DEF SpawnInv, TypeOK, BatchChild
<1>2. This(o) \in Child
  BY <1>1, ThisLemma DEF This, Process
<1>3. CASE NextChild(o)
  BY <1>3, NextChildFacts, OpStep DEF SpawnInv, BatchChild
<1>4. CASE Run(o, "arm")
  <2>1. "arm" \in PC
    BY DEF PC
  <2>2. \A m \in Process : m.pc = "arm" /\ SameWork(m, o) => Fits(m)
    BY <1>1 DEF SameWork, Fits, AttemptSteps, WindowSteps, ConvSteps, Sweeping
  <2> QED BY <1>4, <2>1, <2>2, RunStep DEF BatchChild
<1>5. CASE \E pc \in {"pool", "send"}, a \in UnresolvedOf(This(o)) :
              Become(o, [op[o] EXCEPT !.pc = pc, !.a = a])
  <2>1. PICK pc \in {"pool", "send"}, a \in UnresolvedOf(This(o)) :
              Become(o, [op[o] EXCEPT !.pc = pc, !.a = a])
    BY <1>5
  <2>2. a \in Attempt /\ a[1] = This(o) /\ Born(a) /\ a \in Child \X Conv
    BY AttemptLemma DEF UnresolvedOf, Born, Unresolved, Ambiguous
  <2>3. PICK m : m = [op[o] EXCEPT !.pc = pc, !.a = a]
    OBVIOUS
  <2>4. pc \in PC
    BY DEF PC
  <2>5. m \in Process /\ m.pc = pc /\ m.a = a /\ m.todo = op[o].todo
    BY <1>1, <2>2, <2>3, <2>4 DEF Process
  <2>6. Fits(m)
    BY <1>1, <2>2, <2>5, AttemptFits DEF This, AttemptSteps, WindowSteps
  <2> QED BY <2>1, <2>3, <2>5, <2>6, OpStep DEF BatchChild
<1> QED BY <1>3, <1>4, <1>5 DEF BatchChild

LEMMA BatchSweepTypes ==
    ASSUME SpawnInv, NEW o \in Op, BatchSweep(o)
    PROVE  SpawnInv'
<1>1. CASE Stop(o)
  BY <1>1, StopStep DEF BatchSweep
<1>2. CASE /\ TerminalSources # {}
           /\ Become(o, [op[o] EXCEPT !.pc = "sweep", !.todo = {a[1] : a \in TerminalSources}])
  <2>1. PICK S : S = {a[1] : a \in TerminalSources}
    OBVIOUS
  <2>2. S \subseteq Child /\ S # {} /\ \A c \in S : HasCompleted(c) /\ task[c] = "COMPLETED"
    BY <1>2, <2>1, AttemptLemma
       DEF TerminalSources, LatestOwners, Unconsumed, Completed, HasCompleted
  <2>3. PICK m : m = [op[o] EXCEPT !.pc = "sweep", !.todo = S]
    OBVIOUS
  <2>4. "sweep" \in PC /\ op[o] \in Process
    BY DEF PC, SpawnInv, TypeOK
  <2>5. m \in Process /\ m.pc = "sweep" /\ m.todo = S
    BY <2>2, <2>3, <2>4 DEF Process
  <2>6. Fits(m)
    BY <2>2, <2>5 DEF Fits, AttemptSteps, WindowSteps, ConvSteps
  <2> QED BY <1>2, <2>1, <2>3, <2>5, <2>6, OpStep DEF BatchSweep
<1> QED BY <1>1, <1>2 DEF BatchSweep

LEMMA SweptRowFacts ==
    ASSUME SpawnInv, NEW o \in Op, op[o].pc \in Sweeping
    PROVE  /\ SweptRow(o) \in Attempt /\ spawn[SweptRow(o)].state = "COMPLETED"
           /\ SweptRow(o)[1] = This(o) /\ This(o) \in op[o].todo /\ op[o] \in Process
           /\ spawn[SweptRow(o)].win \in Window /\ task[This(o)] = "COMPLETED"
<1>1. op[o] \in Process /\ Fits(op[o]) /\ op[o].todo # {}
  BY DEF SpawnInv, TypeOK, Fits, Sweeping, Waiting
<1>2. This(o) \in op[o].todo
  BY <1>1, ThisLemma DEF This, Process
<1>3. HasCompleted(This(o)) /\ task[This(o)] = "COMPLETED"
  BY <1>1, <1>2 DEF Fits
<1>4. /\ SweptRow(o) \in Attempt /\ spawn[SweptRow(o)].state = "COMPLETED"
      /\ SweptRow(o)[1] = This(o)
  BY <1>3 DEF HasCompleted, SweptRow
<1>5. spawn[SweptRow(o)].win \in Window
  BY <1>4 DEF SpawnInv, TypeOK, Row
<1> QED BY <1>1, <1>2, <1>3, <1>4, <1>5

LEMMA CloseTerminalTypes ==
    ASSUME SpawnInv, NEW o \in Op, CloseTerminal(o)
    PROVE  SpawnInv'
<1>1. op[o].pc = "sweep" /\ op[o].pc \in Sweeping
  BY DEF CloseTerminal, At, Sweeping
<1>2. PICK a \in Attempt : a = SweptRow(o)
  BY <1>1, SweptRowFacts
<1>3. PICK w \in Window : w = spawn[a].win
  BY <1>1, <1>2, SweptRowFacts
<1>4. page' \in [Window -> Pages] /\ sends' \in [Attempt -> Nat]
  <2>1. CASE UNCHANGED page
    BY <2>1 DEF SpawnInv, TypeOK, CloseTerminal
  <2>2. CASE Close(w)
    BY <2>2, PagesLemma, ShowTypes DEF Close, SpawnInv, TypeOK, CloseTerminal
  <2> QED BY <1>2, <1>3, <2>1, <2>2 DEF CloseTerminal
<1>5. \E m \in Process : Become(o, m) /\ Fits(m)
  <2>1. CASE Stop(o)
    BY <2>1, IdleFacts DEF Stop
  <2>2. CASE Run(o, "swept")
    <3>1. "swept" \in PC
      BY DEF PC
    <3>2. PICK m \in Process : Become(o, m) /\ m.pc = "swept" /\ SameWork(m, o)
      BY <2>2, <3>1, RunFacts DEF SpawnInv
    <3>3. Fits(op[o])
      BY DEF SpawnInv
    <3>4. Fits(m)
      BY <1>1, <3>2, <3>3
         DEF SameWork, Fits, AttemptSteps, WindowSteps, ConvSteps, Sweeping, Waiting
    <3> QED BY <3>2, <3>4
  <2> QED BY <2>1, <2>2 DEF CloseTerminal
<1> QED BY <1>4, <1>5, PageStep DEF CloseTerminal

LEMMA MarkClosedTypes ==
    ASSUME SpawnInv, NEW o \in Op, MarkClosed(o)
    PROVE  SpawnInv'
<1>1. op[o].pc = "swept" /\ op[o].pc \in Sweeping
  BY DEF MarkClosed, At, Sweeping
<1>2. PICK a \in Attempt : a = SweptRow(o) /\ spawn[a].state = "COMPLETED"
  BY <1>1, SweptRowFacts
<1>3. PICK row \in Row : row = [spawn[a] EXCEPT !.consumed = "closed"] /\ RowForward(a, row)
  BY <1>2, ConsumedRow DEF SpawnInv
<1>4. Update(a, row) /\ OnlySpawn
  BY <1>2, <1>3 DEF MarkClosed
<1>5. \E m \in Process : Become(o, m) /\ Fits(m)
  <2>1. CASE Stop(o)
    BY <2>1, IdleFacts DEF Stop
  <2>2. CASE ~Stop(o)
    <3>1. PICK S : S = op[o].todo \ {This(o)}
      OBVIOUS
    <3>2. S # {} /\ Become(o, [op[o] EXCEPT !.pc = "sweep", !.todo = S])
      BY <2>2, <3>1 DEF MarkClosed
    <3>3. PICK m : m = [op[o] EXCEPT !.pc = "sweep", !.todo = S]
      OBVIOUS
    <3>4. op[o] \in Process /\ "sweep" \in PC /\ S \in SUBSET Child
      BY <1>1, <3>1, SweptRowFacts DEF PC, Process
    <3>5. m \in Process /\ m.pc = "sweep" /\ m.todo = S
      BY <3>3, <3>4 DEF Process
    <3>6. \A c \in S : HasCompleted(c) /\ task[c] = "COMPLETED"
      BY <1>1, <3>1 DEF SpawnInv, Fits
    <3>7. Fits(m)
      BY <3>2, <3>5, <3>6 DEF Fits, AttemptSteps, WindowSteps, ConvSteps
    <3> QED BY <3>2, <3>3, <3>5, <3>7
  <2> QED BY <2>1, <2>2
<1> QED BY <1>3, <1>4, <1>5, RowStep

-----------------------------------------------------------------------------
\* Steps of nobody's process: what they leave alone, and that the rest moves forward.
LEMMA OtherStep ==
    ASSUME SpawnInv, UNCHANGED <<spawn, older, op>>, Forward,
           task' \in [Child -> {"absent", "QUEUED", "COMPLETED"}],
           proto' \in [Child -> P!Snapshot], lsm' \in [Child -> BOOLEAN],
           binding' \in [Child -> Window \cup {None}], cooldown' \in BOOLEAN,
           page' \in [Window -> Pages], sends' = sends, delivered' \in [Child -> Nat],
           cpl' \in [Child -> [pc : {"idle", "end", "close", "align"}, rev : Nat]],
           \A c \in Child : CompleterFits(c)'
    PROVE  SpawnInv'
<1>1. TypeOK'
  BY DEF SpawnInv, TypeOK
<1>2. ASSUME NEW q \in Op PROVE Fits(op[q])'
  <2>1. PICK k \in Process : k = op[q]
    BY DEF SpawnInv, TypeOK
  <2>2. Fits(k)'
    BY <2>1, FitsStable DEF SpawnInv
  <2>3. op'[q] = k
    BY <2>1
  <2> QED BY <2>2, <2>3 DEF Fits, Born, HasWindow, SafeToLeave, HasCompleted
<1> QED BY <1>1, <1>2 DEF SpawnInv

LEMMA CreateAndBindTypes ==
    ASSUME SpawnInv, NEW c \in Child, CreateChild(c) \/ BindSession(c)
    PROVE  SpawnInv'
<1>1. Forward
  BY DEF CreateChild, BindSession, Forward, Born, HasWindow, SafeToLeave, SpawnInv, TypeOK
<1>2. /\ task' \in [Child -> {"absent", "QUEUED", "COMPLETED"}]
      /\ lsm' \in [Child -> BOOLEAN]
  BY DEF CreateChild, BindSession, SpawnInv, TypeOK
<1>3. \A d \in Child : CompleterFits(d)'
  BY DEF SpawnInv, CompleterFits, Current, CreateChild, BindSession
<1> QED BY <1>1, <1>2, <1>3, OtherStep DEF CreateChild, BindSession, SpawnInv, TypeOK

\* The completer of c writes its own place and nothing of a process.
LEMMA CompleterStep ==
    ASSUME SpawnInv, NEW c \in Child, NEW k \in [pc : {"idle", "end", "close", "align"}, rev : Nat],
           cpl' = [cpl EXCEPT ![c] = k], proto' \in [Child -> P!Snapshot],
           \A d \in Child : proto'[d] = proto[d] \/ (d = c /\ proto'[d].revision >= k.rev),
           k.rev <= proto'[c].revision,
           k.pc = "end" => proto'[c].current_worker_id # None
    PROVE  /\ cpl' \in [Child -> [pc : {"idle", "end", "close", "align"}, rev : Nat]]
           /\ \A d \in Child : CompleterFits(d)'
<1>1. cpl \in [Child -> [pc : {"idle", "end", "close", "align"}, rev : Nat]]
  BY DEF SpawnInv, TypeOK
<1>2. ASSUME NEW d \in Child PROVE CompleterFits(d)'
  <2>1. CompleterFits(d)
    BY DEF SpawnInv
  <2>2. CASE d = c
    <3>1. cpl'[d] = k
      BY <1>1, <2>2
    <3> QED BY <2>2, <3>1 DEF CompleterFits, Current
  <2>3. CASE d # c
    <3>1. cpl'[d] = cpl[d] /\ proto'[d] = proto[d]
      BY <1>1, <2>3
    <3> QED BY <2>1, <3>1 DEF CompleterFits, Current
  <2> QED BY <2>2, <2>3
<1> QED BY <1>1, <1>2

LEMMA QuietStep ==
    ASSUME SpawnInv, NEW c \in Child, cpl' = [cpl EXCEPT ![c] = Quiet], proto' = proto
    PROVE  /\ cpl' \in [Child -> [pc : {"idle", "end", "close", "align"}, rev : Nat]]
           /\ proto' \in [Child -> P!Snapshot]
           /\ \A d \in Child : CompleterFits(d)'
<1>1. PICK k : k = Quiet
  OBVIOUS
<1>2. k \in [pc : {"idle", "end", "close", "align"}, rev : Nat] /\ k.pc # "end" /\ k.rev = 0
  BY <1>1 DEF Quiet
<1>3. proto' \in [Child -> P!Snapshot] /\ proto'[c].revision \in Nat
  BY DEF SpawnInv, TypeOK, P!Snapshot
<1>4. k.rev <= proto'[c].revision
  BY <1>2, <1>3
<1> QED BY <1>1, <1>2, <1>3, <1>4, CompleterStep

LEMMA GuardedFacts ==
    ASSUME SpawnInv, NEW c \in Child, NEW ok, NEW s, NEW pc \in {"close", "align"},
           Guarded(c, ok, s, pc),
           proto[c].revision = cpl[c].rev /\ ok =>
               s \in P!Snapshot /\ s.revision = proto[c].revision + 1
    PROVE  /\ cpl' \in [Child -> [pc : {"idle", "end", "close", "align"}, rev : Nat]]
           /\ proto' \in [Child -> P!Snapshot]
           /\ \A d \in Child : CompleterFits(d)'
<1>1. proto \in [Child -> P!Snapshot] /\ proto[c].revision \in Nat
  BY DEF SpawnInv, TypeOK, P!Snapshot
<1>2. CASE proto[c].revision = cpl[c].rev /\ ok
  <2>1. PICK k : k = [pc |-> pc, rev |-> s.revision]
    OBVIOUS
  <2>2. k \in [pc : {"idle", "end", "close", "align"}, rev : Nat] /\ k.pc # "end" /\ k.rev = s.revision
    BY <1>1, <1>2, <2>1
  <2>3. proto' = [proto EXCEPT ![c] = s] /\ cpl' = [cpl EXCEPT ![c] = k]
    BY <1>2, <2>1 DEF Guarded
  <2>4. proto' \in [Child -> P!Snapshot] /\ proto'[c] = s
    BY <1>1, <1>2, <2>3
  <2>5. \A d \in Child : proto'[d] = proto[d] \/ (d = c /\ proto'[d].revision >= k.rev)
    BY <1>1, <1>2, <2>2, <2>3
  <2>6. k.rev <= proto'[c].revision /\ (k.pc = "end" => proto'[c].current_worker_id # None)
    BY <1>1, <1>2, <2>2, <2>4
  <2> QED BY <2>2, <2>3, <2>4, <2>5, <2>6, CompleterStep
<1>3. CASE ~(proto[c].revision = cpl[c].rev /\ ok)
  <2>1. cpl' = [cpl EXCEPT ![c] = Quiet] /\ proto' = proto
    BY <1>3 DEF Guarded
  <2> QED BY <1>1, <2>1, QuietStep
<1> QED BY <1>2, <1>3

LEMMA CompleteTypes ==
    ASSUME SpawnInv, NEW c \in Child,
           CompleteLoad(c) \/ CompleteAlign(c) \/ CompleteCrash(c) \/ CompleteClose(c)
    PROVE  SpawnInv'
<1>1. proto \in [Child -> P!Snapshot] /\ proto[c] \in P!Snapshot /\ proto[c].revision \in Nat
  BY DEF SpawnInv, TypeOK, P!Snapshot
<1>2. task \in [Child -> {"absent", "QUEUED", "COMPLETED"}]
  BY DEF SpawnInv, TypeOK
<1>3. Forward /\ task' \in [Child -> {"absent", "QUEUED", "COMPLETED"}]
  BY <1>2 DEF CompleteLoad, CompleteAlign, CompleteCrash, CompleteClose,
              Forward, Born, HasWindow, SafeToLeave
<1>4. /\ cpl' \in [Child -> [pc : {"idle", "end", "close", "align"}, rev : Nat]]
      /\ proto' \in [Child -> P!Snapshot]
      /\ \A d \in Child : CompleterFits(d)'
  <2>1. CASE CompleteLoad(c)
    <3>1. PICK k : k = [rev |-> proto[c].revision,
                        pc |-> IF proto[c].task_status = "completed" THEN "align"
                               ELSE IF Current(c) = None THEN "close" ELSE "end"]
      OBVIOUS
    <3>2. k \in [pc : {"idle", "end", "close", "align"}, rev : Nat] /\ k.rev = proto[c].revision
      BY <1>1, <3>1
    <3>3. k.pc = "end" => Current(c) # None
      BY <3>1
    <3>4. cpl' = [cpl EXCEPT ![c] = k] /\ proto' = proto
      BY <2>1, <3>1 DEF CompleteLoad
    <3>5. k.rev <= proto'[c].revision
      BY <1>1, <3>2, <3>4
    <3>6. k.pc = "end" => proto'[c].current_worker_id # None
      BY <3>3, <3>4 DEF Current
    <3> QED BY <1>1, <3>2, <3>4, <3>5, <3>6, CompleterStep
  <2>2. CASE CompleteAlign(c) \/ CompleteCrash(c)
    <3>1. cpl' = [cpl EXCEPT ![c] = Quiet] /\ proto' = proto
      BY <2>2 DEF CompleteAlign, CompleteCrash
    <3> QED BY <1>1, <3>1, QuietStep
  <2>3. CASE CompleteClose(c)
    <3>1. PICK s \in P!Snapshot : s = P!CompleteTask(proto[c], 1) /\ s.revision = proto[c].revision + 1
      BY <1>1, CompleteTaskFacts
    <3>2. PICK ok : ok = P!CompleteTaskOk(proto[c])
      OBVIOUS
    <3>3. Guarded(c, ok, s, "align")
      BY <2>3, <3>1, <3>2 DEF CompleteClose
    <3> QED BY <3>1, <3>3, GuardedFacts
  <2> QED BY <2>1, <2>2, <2>3
<1> QED BY <1>3, <1>4, OtherStep
        DEF CompleteLoad, CompleteAlign, CompleteCrash, CompleteClose, SpawnInv, TypeOK

\* The worker that ends is the one that was current when child-complete looked.
LEMMA CompleteEndFacts ==
    ASSUME SpawnInv, NEW c \in Child, CompleteEnd(c)
    PROVE  \E s, ok : /\ Guarded(c, ok, s, "close")
                      /\ proto[c].revision = cpl[c].rev /\ ok =>
                           \E n \in Conv : /\ n = Current(c)
                                           /\ \/ s = P!CompleteWorker(proto[c], n, 0)
                                              \/ s = P!AbandonWorker(proto[c], n, 1)
<1>1. proto[c] \in P!Snapshot /\ CompleterFits(c) /\ cpl[c].pc = "end"
  BY DEF SpawnInv, TypeOK, CompleteEnd
<1>2. proto[c].revision = cpl[c].rev => Current(c) \in Conv
  BY <1>1 DEF CompleterFits, Current, P!Snapshot, P!OptWorker
<1>3. PICK s, ok : /\ Guarded(c, ok, s, "close")
                   /\ \/ s = P!CompleteWorker(proto[c], Current(c), 0)
                      \/ s = P!AbandonWorker(proto[c], Current(c), 1)
  <2>1. CASE Guarded(c, P!CompleteWorkerOk(proto[c], Current(c), proto[c].generation, 0),
                     P!CompleteWorker(proto[c], Current(c), 0), "close")
    BY <2>1
  <2>2. CASE Guarded(c, P!AbandonWorkerOk(proto[c], Current(c), proto[c].generation),
                     P!AbandonWorker(proto[c], Current(c), 1), "close")
    BY <2>2
  <2> QED BY <2>1, <2>2 DEF CompleteEnd
<1> QED BY <1>2, <1>3

LEMMA CompleteEndTypes ==
    ASSUME SpawnInv, NEW c \in Child, CompleteEnd(c)
    PROVE  SpawnInv'
<1>1. proto[c] \in P!Snapshot
  BY DEF SpawnInv, TypeOK
<1>2. PICK s, ok : /\ Guarded(c, ok, s, "close")
                   /\ proto[c].revision = cpl[c].rev /\ ok =>
                        \E n \in Conv : \/ s = P!CompleteWorker(proto[c], n, 0)
                                        \/ s = P!AbandonWorker(proto[c], n, 1)
  BY CompleteEndFacts
<1>3. proto[c].revision = cpl[c].rev /\ ok =>
        s \in P!Snapshot /\ s.revision = proto[c].revision + 1
  BY <1>1, <1>2, EndFacts
<1>4. /\ cpl' \in [Child -> [pc : {"idle", "end", "close", "align"}, rev : Nat]]
      /\ proto' \in [Child -> P!Snapshot]
      /\ \A d \in Child : CompleterFits(d)'
  BY <1>2, <1>3, GuardedFacts
<1>5. Forward
  BY DEF CompleteEnd, Forward, Born, HasWindow, SafeToLeave
<1>6. binding \in [Child -> Window \cup {None}]
  BY DEF SpawnInv, TypeOK
<1>7. binding' \in [Child -> Window \cup {None}]
  BY <1>6 DEF CompleteEnd
<1> QED BY <1>4, <1>5, <1>7, OtherStep DEF CompleteEnd, SpawnInv, TypeOK

\* A page on which Send was invoked shows an attempt.
LEMMA SentPage ==
    ASSUME TypeOK, NEW w \in Window, page[w].kind \in {"root", "chat"} \/ page[w].text = "sent"
    PROVE  /\ page[w].of \in Attempt /\ page[w].of[1] \in Child
           /\ page[w].kind \in {"root", "chat"}
<1>1. page[w] \in Pages
  BY DEF TypeOK
<1>2. page[w] # Absent /\ page[w] # Elsewhere
  BY DEF Absent, Elsewhere
<1> QED BY <1>1, <1>2, PageCases, AttemptLemma DEF Root, Chat

LEMMA BrowserTypes ==
    ASSUME SpawnInv, CooldownEnds \/ \E w \in Window : Settle(w) \/ UserActs(w)
    PROVE  SpawnInv'
<1>1. Forward
  BY DEF CooldownEnds, Settle, UserActs, Forward, Born, HasWindow, SafeToLeave
<1>2. \A d \in Child : CompleterFits(d)'
  BY DEF SpawnInv, CompleterFits, Current, CooldownEnds, Settle, UserActs
<1>3. cooldown' \in BOOLEAN
  BY DEF CooldownEnds, Settle, UserActs, SpawnInv, TypeOK
<1>4. page' \in [Window -> Pages] /\ delivered' \in [Child -> Nat]
  <2>1. CASE CooldownEnds
    BY <2>1 DEF CooldownEnds, SpawnInv, TypeOK
  <2>2. ASSUME NEW w \in Window, UserActs(w)
        PROVE  page' \in [Window -> Pages] /\ delivered' \in [Child -> Nat]
    BY <2>2, PagesLemma, ShowTypes DEF UserActs, SpawnInv, TypeOK
  <2>3. ASSUME NEW w \in Window, Settle(w)
        PROVE  page' \in [Window -> Pages] /\ delivered' \in [Child -> Nat]
    <3>1. PICK a \in Attempt : a = page[w].of /\ a[1] \in Child
      BY <2>3, SentPage DEF Settle, SpawnInv
    <3>2. Chat(a, "consumed") \in Pages /\ Chat(a, "draft") \in Pages
      BY PagesLemma
    <3>3. page' \in [Window -> Pages]
      BY <2>3, <3>1, <3>2, ShowTypes DEF Settle, SpawnInv
    <3>4. delivered' \in [Child -> Nat]
      BY <2>3, <3>1 DEF Settle, SpawnInv, TypeOK
    <3> QED BY <3>3, <3>4
  <2> QED BY <2>1, <2>2, <2>3
<1> QED BY <1>1, <1>2, <1>3, <1>4, OtherStep
        DEF CooldownEnds, Settle, UserActs, SpawnInv, TypeOK

-----------------------------------------------------------------------------
LEMMA InitTypes ==
    ASSUME Init PROVE SpawnInv
<1>1. Unborn \in Row /\ Unborn.state = "unborn"
  BY DEF Unborn, Row, SpawnState
<1>2. P!NewTaskState \in P!Snapshot /\ P!NewTaskState.revision = 0
  <2>1. P!Unregistered \in P!Lease
    BY DEF P!Unregistered, P!Lease, P!LeaseStatus, P!OptTime, P!OptWorker
  <2>2. [w \in Conv |-> P!Unregistered] \in [Conv -> P!Lease]
    BY <2>1
  <2> QED BY <2>2 DEF P!NewTaskState, P!Snapshot, P!OptWorker, P!OptTime
<1>3. Quiet \in [pc : {"idle", "end", "close", "align"}, rev : Nat] /\ Quiet.pc = "idle" /\ Quiet.rev = 0
  BY DEF Quiet
<1>4. TypeOK
  BY <1>1, <1>2, <1>3, IdleFacts, PagesLemma DEF Init, TypeOK
<1>5. \A c \in Child : CompleterFits(c)
  BY <1>2, <1>3 DEF Init, CompleterFits
<1>6. \A o \in Op : Fits(op[o])
  BY IdleFacts DEF Init
<1> QED BY <1>4, <1>5, <1>6 DEF SpawnInv

LEMMA StepTypes ==
    ASSUME SpawnInv, NEW o \in Op, Step(o)
    PROVE  SpawnInv'
BY ArmCheckTypes, ArmRecordTypes, PoolTypes, OpenTypes, LaunchNewTypes, LaunchReuseTypes,
   BindWindowTypes, ConsumeTypes, ClearBindingTypes, OpenEndTypes, SendReadTypes,
   SendWriteTypes, ClickTypes, StartCooldownTypes, WaitTypes, SecondSubmitTypes,
   SecondClickTypes, AdoptTypes, AdoptClaimTypes, AdoptBindWindowTypes, AdoptDoneTypes,
   BatchChildTypes, BatchSweepTypes, CloseTerminalTypes, MarkClosedTypes, Zenon DEF Step

LEMMA NextTypes ==
    ASSUME SpawnInv, [Next]_vars
    PROVE  SpawnInv'
<1>1. ASSUME NEW o \in Op, Step(o) \/ Crash(o) \/ BatchCommand(o) \/ ReconcileCommand(o)
                           \/ ArmCommand(o) \/ OpenCommand(o) \/ SendCommand(o) \/ AdoptCommand(o)
      PROVE  SpawnInv'
  <2>1. CASE Step(o)
    BY <2>1, StepTypes
  <2>2. CASE Crash(o)
    BY <2>2, StopStep DEF Crash
  <2> QED BY <1>1, <2>1, <2>2, BatchCommandTypes, ReconcileTypes, CommandTypes
<1>2. ASSUME NEW c \in Child,
             CreateChild(c) \/ BindSession(c) \/ CompleteLoad(c) \/ CompleteEnd(c)
             \/ CompleteClose(c) \/ CompleteAlign(c) \/ CompleteCrash(c)
      PROVE  SpawnInv'
  BY <1>2, CreateAndBindTypes, CompleteTypes, CompleteEndTypes
<1>3. CASE CooldownEnds \/ \E w \in Window : Settle(w) \/ UserActs(w)
  BY <1>3, BrowserTypes
<1>4. CASE UNCHANGED vars
  BY <1>4 DEF vars, SpawnInv, TypeOK, CompleterFits, Current, Fits, Born, HasWindow,
              SafeToLeave, HasCompleted
<1> QED BY <1>1, <1>2, <1>3, <1>4 DEF Next

\* Every state has the type of ChildSpawn; in particular a row that is bound, submitted or
\* completed has a window, whatever operators, crashes and reconciliations were interleaved.
THEOREM SpawnTypes == Spec => []TypeOK
<1>1. Init => SpawnInv
  BY InitTypes
<1>2. SpawnInv /\ [Next]_vars => SpawnInv'
  BY NextTypes
<1>3. SpawnInv => TypeOK
  BY DEF SpawnInv
<1> QED BY <1>1, <1>2, <1>3, PTL DEF Spec

-----------------------------------------------------------------------------
(***************************************************************************)
(* Pages are only taken from children that can lose them.                  *)
(***************************************************************************)
KeepsPages ==
    op' # op => \A w \in Window :
        page[w] # Absent /\ page'[w].of # page[w].of
           => page[w].kind = "chat" /\ (lsm[page[w].of[1]] \/ task[page[w].of[1]] = "COMPLETED")

\* What a Show changes is one window.
LEMMA ShowOne ==
    ASSUME TypeOK, NEW w \in Window, NEW p, Show(w, p)
    PROVE  page'[w] = p /\ \A v \in Window \ {w} : page'[v] = page[v]
BY DEF TypeOK, Show

LEMMA LaunchKeepsPages ==
    ASSUME SpawnInv, NEW o \in Op, LaunchNew(o) \/ LaunchReuse(o)
    PROVE  KeepsPages
<1>1. TypeOK /\ op[o] \in Process
  BY DEF SpawnInv, TypeOK
<1>2. CASE UNCHANGED page
  BY <1>2 DEF KeepsPages
<1>3. CASE \E w \in Window : page[w] = Absent /\ Navigate(w, op[o].a)
  BY <1>1, <1>3, ShowOne DEF Navigate, KeepsPages
<1>4. CASE op[o].pc = "launch" /\ op[o].src # NoSource /\ ShowsSource(o) /\ Navigate(op[o].src.win, op[o].a)
  <2>1. PICK w \in Window : w = op[o].src.win
    BY <1>1, <1>4, SourceLemma DEF Process
  <2>2. page[w].kind = "chat" /\ page[w].of = op[o].src.of
    BY <1>4, <2>1 DEF ShowsSource, IsChat
  <2>3. SafeToLeave(op[o].src.of[1])
    BY <1>4 DEF SpawnInv, Fits
  <2>4. \A v \in Window \ {w} : page'[v] = page[v]
    BY <1>1, <1>4, <2>1, ShowOne DEF Navigate
  <2> QED BY <2>2, <2>3, <2>4 DEF KeepsPages, SafeToLeave
<1> QED BY <1>2, <1>3, <1>4 DEF LaunchNew, LaunchReuse, At

LEMMA InvokeKeepsOf ==
    ASSUME TypeOK, NEW w \in Window, NEW a \in Attempt,
           \/ Invoke(w, a) /\ (IsRoot(w, a) \/ (IsChat(w, a) /\ page[w].text # "none"))
           \/ IsRoot(w, a) /\ Show(w, Root(a, "draft"))
    PROVE  \A v \in Window : page'[v].of = page[v].of
<1>1. page[w].of = a
  BY DEF IsRoot, IsChat
<1>2. PICK p : Show(w, p) /\ p.of = a
  <2>1. CASE Invoke(w, a) /\ (IsRoot(w, a) \/ (IsChat(w, a) /\ page[w].text # "none"))
    <3>1. PICK p : p = IF page[w].kind = "root" THEN Root(a, "sent") ELSE Chat(a, "sent")
      OBVIOUS
    <3>2. Show(w, p)
      BY <2>1, <3>1, InvokeTypes DEF Show
    <3> QED BY <3>1, <3>2 DEF Root, Chat
  <2>2. CASE Show(w, Root(a, "draft"))
    BY <2>2 DEF Root
  <2> QED BY <2>1, <2>2
<1> QED BY <1>1, <1>2, ShowOne

LEMMA ClicksKeepPages ==
    ASSUME SpawnInv, NEW o \in Op, Click(o) \/ SecondClick(o)
    PROVE  KeepsPages
<1>1. op[o].pc \in WindowSteps /\ op[o].pc \in AttemptSteps
  BY DEF Click, SecondClick, At, WindowSteps, AttemptSteps
<1>2. PICK a \in Attempt : a = op[o].a
  BY <1>1, AttemptFacts
<1>3. PICK w \in Window : w = spawn[a].win
  BY <1>1, <1>2, AttemptFacts
<1>4. CASE UNCHANGED page
  BY <1>4 DEF KeepsPages
<1>5. CASE ~UNCHANGED page
  <2>1. \/ Invoke(w, a) /\ (IsRoot(w, a) \/ (IsChat(w, a) /\ page[w].text # "none"))
        \/ IsRoot(w, a) /\ Show(w, Root(a, "draft"))
    BY <1>2, <1>3, <1>5 DEF Click, SecondClick, Refused, RateLimited, Invoked, Interrupted,
                            DraftReady
  <2> QED BY <2>1, InvokeKeepsOf DEF KeepsPages, SpawnInv
<1> QED BY <1>4, <1>5

LEMMA CloseKeepsPages ==
    ASSUME SpawnInv, NEW o \in Op, CloseTerminal(o)
    PROVE  KeepsPages
<1>1. op[o].pc \in Sweeping
  BY DEF CloseTerminal, At, Sweeping
<1>2. PICK a \in Attempt : a = SweptRow(o) /\ task[a[1]] = "COMPLETED"
  BY <1>1, SweptRowFacts
<1>3. PICK w \in Window : w = spawn[a].win
  BY <1>1, <1>2, SweptRowFacts
<1>4. CASE UNCHANGED page
  BY <1>4 DEF KeepsPages
<1>5. CASE IsChat(w, a) /\ Close(w)
  BY <1>2, <1>5, ShowOne DEF Close, KeepsPages, IsChat, SpawnInv
<1> QED BY <1>2, <1>3, <1>4, <1>5 DEF CloseTerminal

LEMMA NextKeepsPages ==
    ASSUME SpawnInv, [Next]_vars
    PROVE  KeepsPages
<1>1. CASE UNCHANGED page \/ UNCHANGED op
  BY <1>1 DEF KeepsPages
<1>2. ASSUME NEW o \in Op, Step(o) PROVE KeepsPages
  <2>1. CASE UNCHANGED page
    BY <2>1 DEF KeepsPages
  <2>2. CASE LaunchNew(o) \/ LaunchReuse(o) \/ Click(o) \/ SecondClick(o) \/ CloseTerminal(o)
    BY <2>2, LaunchKeepsPages, ClicksKeepPages, CloseKeepsPages
  <2>3. CASE \/ ArmCheck(o) \/ ArmRecord(o) \/ Pool(o) \/ OpenRead(o) \/ OpenSubmit(o)
             \/ BindWindow(o) \/ Consume(o) \/ ClearBinding(o)
             \/ OpenFailed(o) \/ OutcomeAmbiguous(o)
    BY <2>1, <2>3 DEF ArmCheck, ArmRecord, Pool, OpenRead, OpenSubmit, BindWindow, Consume,
         ClearBinding, OpenFailed, OutcomeAmbiguous, OnlyOp, OnlySpawn
  <2>4. CASE \/ SendRead(o) \/ SendDuringCooldown(o) \/ SendSubmit(o) \/ StartCooldown(o)
             \/ SendBack(o) \/ WaitForConversation(o) \/ WaitForDelivery(o) \/ SecondSubmit(o)
    BY <2>1, <2>4 DEF SendRead, SendDuringCooldown, SendSubmit, StartCooldown, SendBack,
         WaitForConversation, WaitForDelivery, SecondSubmit, OnlyOp, OnlySpawn
  <2>5. CASE \/ Adopt(o) \/ AdoptClaim(o) \/ AdoptBindWindow(o) \/ AdoptDone(o)
             \/ BatchChild(o) \/ BatchSweep(o) \/ MarkClosed(o)
    BY <2>1, <2>5 DEF Adopt, AdoptClaim, AdoptBindWindow, AdoptDone, BatchChild, BatchSweep,
         MarkClosed, OnlyOp, OnlySpawn
  <2> QED BY <1>2, <2>2, <2>3, <2>4, <2>5, Zenon DEF Step
<1>3. ASSUME NEW o \in Op, Crash(o) \/ BatchCommand(o) \/ ReconcileCommand(o)
                           \/ ArmCommand(o) \/ OpenCommand(o) \/ SendCommand(o) \/ AdoptCommand(o)
      PROVE  KeepsPages
  BY <1>1, <1>3 DEF Crash, BatchCommand, ReconcileCommand, ArmCommand, OpenCommand,
                    SendCommand, AdoptCommand, OnlyOp
<1>4. ASSUME NEW c \in Child,
             CreateChild(c) \/ BindSession(c) \/ CompleteLoad(c) \/ CompleteEnd(c)
             \/ CompleteClose(c) \/ CompleteAlign(c) \/ CompleteCrash(c)
      PROVE  KeepsPages
  BY <1>1, <1>4 DEF CreateChild, BindSession, CompleteLoad, CompleteEnd, CompleteClose,
                    CompleteAlign, CompleteCrash
<1>5. CASE CooldownEnds \/ (\E w \in Window : Settle(w) \/ UserActs(w)) \/ UNCHANGED vars
  BY <1>1, <1>5 DEF CooldownEnds, Settle, UserActs, vars
<1> QED BY <1>2, <1>3, <1>4, <1>5 DEF Next

\* An operator only takes a window away from the conversation of a child that is completed or
\* has a durable session: what Pool saw is still true when the page is navigated or closed,
\* for any number of operators, because neither fact is ever taken back.
THEOREM PagesAreKept == Spec => PageKept
<1> DEFINE A == KeepsPages
<1>1. Init => SpawnInv
  BY InitTypes
<1>2. SpawnInv /\ [Next]_vars => SpawnInv'
  BY NextTypes
<1>3. SpawnInv /\ [Next]_vars => [A]_vars
  BY NextKeepsPages
<1> HIDE DEF A
<1>4. Spec => [][A]_vars
  BY <1>1, <1>2, <1>3, PTL DEF Spec
<1> QED BY <1>4 DEF A, KeepsPages, PageKept

-----------------------------------------------------------------------------
(***************************************************************************)
(* A prompt is delivered at most once, and Send is invoked only as often   *)
(* as it was authorised.  This needs more than the unresolved-row index:   *)
(* two operators inside the same attempt can both send.  The theorems are  *)
(* about operators that are never inside the same child at once; any       *)
(* number of them may run, and one after the other may take up a child.    *)
(***************************************************************************)
\* An operator is inside a child from its first look at it until it is done with it.
Busy(o) == op[o].pc \notin Waiting \cup Sweeping
\* No two operators are inside the same child at once.
Apart == \A o, q \in Op : o # q /\ Busy(o) /\ Busy(q) => This(o) # This(q)

\* The steps at which Send was never invoked for the attempt.
UnsentSteps == {"launch", "bind", "failed", "prompt", "click", "limited", "back"}
Registered(c, n) == proto[c].workers[n].status # "unregistered"

\* What an operator inside a child knows about its attempt.
Owns(m) ==
    /\ m.pc = "record" => ~HasCompleted(Min(m.todo))
    /\ m.pc \in UnsentSteps => sends[m.a] = 0
    /\ m.pc = "click" => spawn[m.a].state = "PROMPT_SUBMITTED"
    /\ m.pc \in {"second", "click2"} => sends[m.a] <= 1
    /\ m.pc = "click2" => spawn[m.a].state = "PROMPT_SUBMITTED" /\ spawn[m.a].second
    /\ m.pc = "cool" => m.seen = spawn[m.a].state
    /\ m.pc \in {"window", "done"} => Registered(m.a[1], m.a[2])

\* Of the attempts of a child, at most one is neither unborn nor FAILED.
Settled == {"unborn", "FAILED"}
OneAttempt ==
    \A a, b \in Attempt : a[1] = b[1] /\ spawn[a].state \notin Settled
                          /\ spawn[b].state \notin Settled => a = b

\* After a Send the row is submitted, to be reconciled or completed.
SentStates == {"PROMPT_SUBMITTED", "RECONCILE_REQUIRED", "COMPLETED"}
SentRows == \A a \in Attempt : sends[a] > 0 => spawn[a].state \in SentStates /\ spawn[a].win # None

\* A completed row has a registered worker, and so has a child with a current worker: that is
\* what keeps arm_child_spawn from a second attempt.
CompletedRegistered ==
    \A a \in Attempt : spawn[a].state = "COMPLETED" => Registered(a[1], a[2])
HolderRegistered == \A c \in Child : Current(c) # None => Registered(c, Current(c))

\* A window in which the prompt of its attempt may still be consumed: there is one for a
\* child at most, and none once the prompt was delivered.
Live(w) == page[w].text = "sent" \/ (page[w].kind = "chat" /\ page[w].text = "draft")
LiveWindows ==
    \A w \in Window : Live(w) =>
        /\ sends[page[w].of] > 0 /\ delivered[page[w].of[1]] = 0
        /\ \A v \in Window \ {w} : Live(v) => page[v].of[1] # page[w].of[1]
DeliveredSent ==
    \A c \in Child : delivered[c] > 0 => \E a \in Attempt : a[1] = c /\ sends[a] > 0

RowInv == OneAttempt /\ SentRows /\ CompletedRegistered /\ SendsAreAuthorised
WindowInv == LiveWindows /\ DeliveredSent /\ DeliveredOnce

SendFacts ==
    /\ \A o \in Op : Owns(op[o])
    /\ RowInv /\ HolderRegistered /\ WindowInv
SendInv == SpawnInv /\ SendFacts

\* The attempts of child c are not touched, and no registration is lost.
Untouched(c) ==
    \A a \in Attempt : a[1] = c => /\ spawn'[a].state = spawn[a].state
                                   /\ spawn'[a].second = spawn[a].second
                                   /\ sends'[a] = sends[a]
StayRegistered == \A c \in Child, n \in Conv : Registered(c, n) => Registered(c, n)'

LEMMA OwnsStable ==
    ASSUME NEW m \in Process, Fits(m), Owns(m), StayRegistered,
           m.pc \notin Waiting \cup Sweeping => Untouched(Min(m.todo))
    PROVE  Owns(m)'
<1>1. m.pc \in AttemptSteps =>
        /\ m.a \in Attempt /\ m.a[1] \in Child /\ m.a[2] \in Conv
        /\ spawn'[m.a].state = spawn[m.a].state /\ spawn'[m.a].second = spawn[m.a].second
        /\ sends'[m.a] = sends[m.a]
  BY AttemptLemma DEF Fits, Untouched, AttemptSteps, WindowSteps, Waiting, Sweeping
<1>2. m.pc = "record" => ~HasCompleted(Min(m.todo))'
  BY DEF Owns, HasCompleted, Untouched, Waiting, Sweeping
<1>3. m.pc \in {"window", "done"} => Registered(m.a[1], m.a[2])'
  BY <1>1 DEF Owns, StayRegistered, AttemptSteps, WindowSteps
<1>4. /\ m.pc \in UnsentSteps => sends'[m.a] = 0
      /\ m.pc = "click" => spawn'[m.a].state = "PROMPT_SUBMITTED"
      /\ m.pc \in {"second", "click2"} => sends'[m.a] <= 1
      /\ m.pc = "click2" => spawn'[m.a].state = "PROMPT_SUBMITTED" /\ spawn'[m.a].second
      /\ m.pc = "cool" => m.seen = spawn'[m.a].state
  BY <1>1 DEF Owns, UnsentSteps, AttemptSteps, WindowSteps
<1> QED BY <1>2, <1>3, <1>4 DEF Owns

\* One process changes, inside its child only; what the others know stays true.
LEMMA BecomeOwns ==
    ASSUME SendInv, Apart, NEW o \in Op, NEW m \in Process, Become(o, m), StayRegistered,
           \A c \in Child : (Busy(o) /\ c = This(o)) \/ Untouched(c), Owns(m)'
    PROVE  \A q \in Op : Owns(op[q])'
<1>1. op \in [Op -> Process] /\ op' = [op EXCEPT ![o] = m]
  BY DEF SendInv, SpawnInv, TypeOK, Become
<1>2. ASSUME NEW q \in Op PROVE Owns(op[q])'
  <2>1. CASE q = o
    <3>1. op'[q] = m
      BY <1>1, <2>1
    <3> QED BY <3>1 DEF Owns, HasCompleted, Registered
  <2>2. CASE q # o
    <3>1. PICK k \in Process : k = op[q]
      BY <1>1
    <3>2. op'[q] = k
      BY <1>1, <2>2, <3>1
    <3>3. Fits(k) /\ Owns(k)
      BY <3>1 DEF SendInv, SendFacts, SpawnInv
    <3>4. k.pc \notin Waiting \cup Sweeping => Untouched(Min(k.todo))
      <4>1. SUFFICES ASSUME k.pc \notin Waiting \cup Sweeping PROVE Untouched(Min(k.todo))
        OBVIOUS
      <4>2. Busy(q) /\ k.todo # {} /\ Min(k.todo) = This(q)
        BY <3>1, <3>3, <4>1 DEF Busy, Fits, This
      <4>3. Min(k.todo) \in Child
        BY <4>2, ThisLemma DEF Process
      <4>4. Busy(o) => This(o) # This(q)
        BY <2>2, <4>2 DEF Apart
      <4> QED BY <4>2, <4>3, <4>4
    <3>5. Owns(k)'
      BY <3>3, <3>4, OwnsStable
    <3> QED BY <3>2, <3>5 DEF Owns, HasCompleted, Registered
  <2> QED BY <2>1, <2>2
<1> QED BY <1>2

-----------------------------------------------------------------------------
\* Steps that leave the rows, the Sends and the windows alone.
LEMMA SameRows ==
    ASSUME SendInv, StayRegistered, UNCHANGED <<spawn, sends>>
    PROVE  RowInv' /\ \A c \in Child : Untouched(c)
<1>1. OneAttempt' /\ SentRows' /\ SendsAreAuthorised'
  BY DEF SendInv, SendFacts, RowInv, OneAttempt, SentRows, SendsAreAuthorised
<1>2. CompletedRegistered'
  BY AttemptLemma DEF SendInv, SendFacts, RowInv, CompletedRegistered, StayRegistered
<1> QED BY <1>1, <1>2 DEF RowInv, Untouched

LEMMA SameWindows ==
    ASSUME SendInv, UNCHANGED <<page, sends, delivered>>
    PROVE  WindowInv'
BY DEF SendInv, SendFacts, WindowInv, LiveWindows, Live, DeliveredSent, DeliveredOnce

LEMMA SameHolders ==
    ASSUME SendInv, UNCHANGED proto
    PROVE  HolderRegistered' /\ StayRegistered
BY DEF SendInv, SendFacts, HolderRegistered, StayRegistered, Registered, Current

LEMMA OpSends ==
    ASSUME SendInv, Apart, NEW o \in Op, NEW m \in Process, Become(o, m), OnlyOp, Owns(m)
    PROVE  SendFacts'
<1>1. UNCHANGED <<spawn, sends, page, delivered, proto>>
  BY DEF OnlyOp
<1>2. HolderRegistered' /\ StayRegistered /\ WindowInv'
  BY <1>1, SameHolders, SameWindows
<1>3. RowInv' /\ \A c \in Child : Untouched(c)
  BY <1>1, <1>2, SameRows
<1>4. Owns(m)'
  BY <1>1 DEF Owns, HasCompleted, Registered
<1> QED BY <1>2, <1>3, <1>4, BecomeOwns DEF SendFacts

\* Windows in which a prompt could be consumed only disappear.
LEMMA PageSends ==
    ASSUME SendInv, Apart, NEW o \in Op, NEW m \in Process, Become(o, m), OnlyPage,
           UNCHANGED sends, Owns(m),
           \A w \in Window : Live(w)' => Live(w) /\ page'[w].of = page[w].of
    PROVE  SendFacts'
<1>1. UNCHANGED <<spawn, sends, delivered, proto>>
  BY DEF OnlyPage
<1>2. HolderRegistered' /\ StayRegistered
  BY <1>1, SameHolders
<1>3. RowInv' /\ \A c \in Child : Untouched(c)
  BY <1>1, <1>2, SameRows
<1>4. Owns(m)'
  BY <1>1 DEF Owns, HasCompleted, Registered
<1>5. WindowInv'
  BY <1>1 DEF SendInv, SendFacts, WindowInv, LiveWindows, DeliveredSent, DeliveredOnce
<1> QED BY <1>2, <1>3, <1>4, <1>5, BecomeOwns DEF SendFacts

\* What a row that an operator writes must satisfy.
RowOwned(a, row) ==
    /\ sends[a] > 0 => row.state \in SentStates /\ row.win # None
    /\ row.state \notin Settled =>
         \A b \in Attempt \ {a} : b[1] = a[1] => spawn[b].state \in Settled
    /\ row.state = "COMPLETED" => Registered(a[1], a[2])
    /\ sends[a] > 0 /\ spawn[a].second => row.second

LEMMA RowSends ==
    ASSUME SendInv, Apart, NEW o \in Op, NEW m \in Process, Become(o, m), OnlySpawn, Owns(m)',
           NEW a \in Attempt, NEW row \in Row, spawn' = [spawn EXCEPT ![a] = row], RowOwned(a, row),
           \/ Busy(o) /\ a[1] = This(o)
           \/ row.state = spawn[a].state /\ row.second = spawn[a].second
    PROVE  SendFacts'
<1>1. UNCHANGED <<sends, delivered, proto, page>>
  BY DEF OnlySpawn
<1>2. HolderRegistered' /\ StayRegistered /\ WindowInv'
  BY <1>1, SameHolders, SameWindows
<1>3. spawn'[a] = row /\ \A b \in Attempt : b # a => spawn'[b] = spawn[b]
  BY DEF SendInv, SpawnInv, TypeOK
<1>4. \A c \in Child : (Busy(o) /\ c = This(o)) \/ Untouched(c)
  BY <1>1, <1>3 DEF Untouched
<1>5. OneAttempt'
  BY <1>3 DEF SendInv, SendFacts, RowInv, OneAttempt, RowOwned
<1>6. SentRows'
  BY <1>1, <1>3 DEF SendInv, SendFacts, RowInv, SentRows, RowOwned
<1>7. CompletedRegistered'
  BY <1>1, <1>3 DEF SendInv, SendFacts, RowInv, CompletedRegistered, RowOwned, Registered
<1>8. SendsAreAuthorised'
  <2>1. ASSUME NEW b \in Attempt PROVE sends'[b] <= IF spawn'[b].second THEN 2 ELSE 1
    <3>1. sends[b] \in Nat /\ sends[b] <= (IF spawn[b].second THEN 2 ELSE 1)
      BY DEF SendInv, SpawnInv, TypeOK, SendFacts, RowInv, SendsAreAuthorised
    <3> QED BY <1>1, <1>3, <3>1 DEF RowOwned
  <2> QED BY <2>1 DEF SendsAreAuthorised
<1> QED BY <1>2, <1>4, <1>5, <1>6, <1>7, <1>8, BecomeOwns DEF SendFacts, RowInv

\* At the other steps an operator knows nothing about what was sent.
FreeSteps == {"idle", "child", "arm", "pool", "open", "submit", "consume", "clear", "maybe",
              "send", "routed", "wait", "adopt", "claim", "sweep", "swept"}

LEMMA WaitingOwns ==
    ASSUME NEW m, m.pc \in FreeSteps
    PROVE  Owns(m) /\ Owns(m)'
BY DEF Owns, UnsentSteps, FreeSteps

LEMMA FreeSends ==
    ASSUME SendInv, Apart, NEW o \in Op, NEW m \in Process, Become(o, m), OnlyOp,
           m.pc \in FreeSteps
    PROVE  SendFacts'
BY WaitingOwns, OpSends

LEMMA StopSends ==
    ASSUME SendInv, Apart, NEW o \in Op, Stop(o), OnlyOp
    PROVE  SendFacts'
BY IdleFacts, FreeSends DEF Stop, FreeSteps

LEMMA RunSends ==
    ASSUME SendInv, Apart, NEW o \in Op, NEW pc \in PC, Run(o, pc), OnlyOp,
           \A m \in Process : m.pc = pc /\ SameWork(m, o) => Owns(m)
    PROVE  SendFacts'
BY RunFacts, OpSends DEF SendInv, SpawnInv

\* An operator at a step of an attempt is inside its child.
LEMMA BusyFacts ==
    ASSUME SpawnInv, NEW o \in Op, op[o].pc \in AttemptSteps
    PROVE  Busy(o) /\ op[o].a[1] = This(o)
BY AttemptFacts DEF Busy, AttemptSteps, WindowSteps, Waiting, Sweeping, This

-----------------------------------------------------------------------------
(***************************************************************************)
(* The same facts, action by action: steps that change only the process.   *)
(***************************************************************************)
LEMMA PoolSends ==
    ASSUME SendInv, Apart, NEW o \in Op, Pool(o)
    PROVE  SendFacts'
<1>1. CASE Stop(o)
  BY <1>1, StopSends DEF Pool
<1>2. CASE ~Stop(o)
  <2>1. op[o] \in Process /\ SpawnInv /\ SpawnInv'
    BY PoolTypes DEF SendInv, SpawnInv, TypeOK
  <2>2. PICK m : m = [op[o] EXCEPT !.pc = "open", !.src = SourceFor(This(o)), !.missed = MissedWindows]
    OBVIOUS
  <2>3. Become(o, m)
    BY <1>2, <2>2 DEF Pool
  <2>4. m \in Process /\ m.pc = "open"
    BY <2>1, <2>2, <2>3 DEF SpawnInv, TypeOK, Become, Process
  <2> QED BY <2>3, <2>4, FreeSends DEF Pool, FreeSteps
<1> QED BY <1>1, <1>2

LEMMA OpenReadSends ==
    ASSUME SendInv, Apart, NEW o \in Op, OpenRead(o)
    PROVE  SendFacts'
<1>1. CASE Stop(o)
  BY <1>1, StopSends DEF OpenRead
<1>2. CASE Run(o, "submit")
  <2>1. "submit" \in PC /\ "submit" \in FreeSteps
    BY DEF PC, FreeSteps
  <2> QED BY <1>2, <2>1, RunSends, WaitingOwns DEF OpenRead
<1> QED BY <1>1, <1>2 DEF OpenRead

\* A command that starts at a free step.
LEMMA StartSends ==
    ASSUME SendInv, Apart, NEW o \in Op, NEW pc \in PC \cap FreeSteps, NEW c \in Child,
           NEW a \in (Child \X Conv) \cup {None}, Start(o, pc, c, a), OnlyOp
    PROVE  SendFacts'
BY StartedFacts, FreeSends

LEMMA CommandSends ==
    ASSUME SendInv, Apart, NEW o \in Op,
           ArmCommand(o) \/ OpenCommand(o) \/ SendCommand(o) \/ AdoptCommand(o)
    PROVE  SendFacts'
<1>1. {"arm", "submit", "send", "adopt"} \subseteq PC \cap FreeSteps
  BY DEF PC, FreeSteps
<1>2. CASE ArmCommand(o)
  BY <1>1, <1>2, StartSends DEF ArmCommand, Existing
<1>3. CASE OpenCommand(o)
  BY <1>1, <1>3, StartSends, AttemptLemma DEF OpenCommand
<1>4. CASE SendCommand(o)
  BY <1>1, <1>4, StartSends, AttemptLemma DEF SendCommand
<1>5. CASE AdoptCommand(o)
  <2>1. PICK c \in Child : Start(o, "adopt", c, <<c, 0>>)
    BY <1>5 DEF AdoptCommand, Existing
  <2>2. <<c, 0>> \in Child \X Conv
    BY AttemptLemma
  <2> QED BY <1>1, <1>5, <2>1, <2>2, StartSends DEF AdoptCommand
<1> QED BY <1>2, <1>3, <1>4, <1>5

\* reconcile binds a window only to a row for which nothing was sent.
LEMMA ReconcileSends ==
    ASSUME SendInv, Apart, NEW o \in Op, ReconcileCommand(o)
    PROVE  SendFacts'
<1>1. {"maybe", "adopt"} \subseteq PC \cap FreeSteps
  BY DEF PC, FreeSteps
<1>2. PICK a \in Attempt :
         \/ /\ spawn[a].state = "WINDOW_OPEN_SUBMITTED" \/ spawn[a].win = None
            /\ Become(o, [Idle EXCEPT !.pc = "bind", !.todo = {a[1]}, !.a = a,
                                      !.win = CHOOSE w \in TaggedWindows(a) : TRUE])
         \/ Start(o, "maybe", a[1], a) \/ Start(o, "adopt", a[1], a)
  BY DEF ReconcileCommand
<1>3. a[1] \in Child /\ a \in Child \X Conv
  BY AttemptLemma
<1>4. CASE Start(o, "maybe", a[1], a) \/ Start(o, "adopt", a[1], a)
  BY <1>1, <1>3, <1>4, StartSends DEF ReconcileCommand
<1>5. CASE /\ spawn[a].state = "WINDOW_OPEN_SUBMITTED" \/ spawn[a].win = None
           /\ Become(o, [Idle EXCEPT !.pc = "bind", !.todo = {a[1]}, !.a = a,
                                     !.win = CHOOSE w \in TaggedWindows(a) : TRUE])
  <2>1. PICK m : m = [Idle EXCEPT !.pc = "bind", !.todo = {a[1]}, !.a = a,
                                  !.win = CHOOSE w \in TaggedWindows(a) : TRUE]
    OBVIOUS
  <2>2. Become(o, m) /\ m.pc = "bind" /\ m.a = a
    BY <1>5, <2>1 DEF Idle
  <2>3. m \in Process
    BY <2>2, ReconcileTypes DEF SendInv, SpawnInv, TypeOK, Become
  <2>4. sends[a] \in Nat /\ ~(sends[a] > 0)
    BY <1>5 DEF SendInv, SpawnInv, TypeOK, SendFacts, RowInv, SentRows, SentStates
  <2>5. sends[a] = 0
    BY <2>4
  <2>6. Owns(m)
    BY <2>2, <2>5 DEF Owns
  <2> QED BY <2>2, <2>3, <2>6, OpSends DEF ReconcileCommand
<1> QED BY <1>2, <1>4, <1>5

LEMMA BatchSends ==
    ASSUME SendInv, Apart, NEW o \in Op, BatchCommand(o) \/ BatchChild(o) \/ BatchSweep(o)
    PROVE  SendFacts'
<1>1. op[o] \in Process /\ SpawnInv /\ SpawnInv' /\ OnlyOp
  BY BatchCommandTypes, BatchChildTypes, BatchSweepTypes
     DEF SendInv, SpawnInv, TypeOK, BatchCommand, BatchChild, BatchSweep
<1>2. ASSUME NEW m, Become(o, m) PROVE m \in Process
  BY <1>1, <1>2 DEF SpawnInv, TypeOK, Become
<1>3. CASE Stop(o)
  BY <1>1, <1>3, StopSends
<1>4. CASE NextChild(o)
  BY <1>1, <1>4, NextChildFacts, FreeSends DEF SpawnInv, FreeSteps
<1>5. CASE Run(o, "arm")
  <2>1. "arm" \in PC /\ "arm" \in FreeSteps
    BY DEF PC, FreeSteps
  <2> QED BY <1>1, <1>5, <2>1, RunSends, WaitingOwns
<1>6. CASE BatchCommand(o)
  <2>1. PICK m : m = [Idle EXCEPT !.pc = "child", !.batch = TRUE, !.todo = Existing]
    OBVIOUS
  <2>2. Become(o, m) /\ m.pc = "child"
    BY <1>6, <2>1 DEF BatchCommand, Idle
  <2> QED BY <1>1, <1>2, <2>2, FreeSends DEF FreeSteps
<1>7. CASE \E pc \in {"pool", "send"}, a \in UnresolvedOf(This(o)) :
              Become(o, [op[o] EXCEPT !.pc = pc, !.a = a])
  <2>1. PICK pc \in {"pool", "send"}, a \in UnresolvedOf(This(o)) :
              Become(o, [op[o] EXCEPT !.pc = pc, !.a = a])
    BY <1>7
  <2>2. PICK m : m = [op[o] EXCEPT !.pc = pc, !.a = a]
    OBVIOUS
  <2>3. Become(o, m) /\ m.pc = pc
    BY <1>1, <2>1, <2>2 DEF Process
  <2> QED BY <1>1, <1>2, <2>3, FreeSends DEF FreeSteps
<1>8. CASE \E S : Become(o, [op[o] EXCEPT !.pc = "sweep", !.todo = S])
  <2>1. PICK S : Become(o, [op[o] EXCEPT !.pc = "sweep", !.todo = S])
    BY <1>8
  <2>2. PICK m : m = [op[o] EXCEPT !.pc = "sweep", !.todo = S]
    OBVIOUS
  <2>3. Become(o, m) /\ m.pc = "sweep"
    BY <1>1, <2>1, <2>2 DEF Process
  <2> QED BY <1>1, <1>2, <2>3, FreeSends DEF FreeSteps
<1> QED BY <1>3, <1>4, <1>5, <1>6, <1>7, <1>8 DEF BatchChild, BatchSweep

\* arm_child_spawn refuses a child that ever had a worker, so none of its rows is completed.
LEMMA ArmCheckSends ==
    ASSUME SendInv, Apart, NEW o \in Op, ArmCheck(o)
    PROVE  SendFacts'
<1>1. CASE Stop(o)
  BY <1>1, StopSends DEF ArmCheck
<1>2. CASE ArmOk(This(o)) /\ Run(o, "record")
  <2>1. ~HasCompleted(This(o))
    BY <1>2, AttemptLemma DEF ArmOk, HasCompleted, SendInv, SendFacts, RowInv,
                              CompletedRegistered, Registered
  <2>2. "record" \in PC
    BY DEF PC
  <2>3. \A m \in Process : m.pc = "record" /\ SameWork(m, o) => Owns(m)
    BY <2>1 DEF Owns, UnsentSteps, SameWork, This
  <2> QED BY <1>2, <2>2, <2>3, RunSends DEF ArmCheck
<1> QED BY <1>1, <1>2 DEF ArmCheck

\* Nothing was sent for a row outside the sent states.
LEMMA UnsentRow ==
    ASSUME SendInv, NEW a \in Attempt, spawn[a].state \notin SentStates
    PROVE  sends[a] = 0
<1>1. sends[a] \in Nat /\ ~(sends[a] > 0)
  BY DEF SendInv, SpawnInv, TypeOK, SendFacts, RowInv, SentRows
<1> QED BY <1>1

LEMMA SendReadSends ==
    ASSUME SendInv, Apart, NEW o \in Op, SendRead(o)
    PROVE  SendFacts'
<1>1. op[o].pc \in AttemptSteps /\ op[o] \in Process
  BY DEF SendRead, At, AttemptSteps, SendInv, SpawnInv, TypeOK
<1>2. PICK a \in Attempt : a = op[o].a
  BY <1>1, AttemptFacts DEF SendInv
<1>3. CASE cooldown
  <2>1. PICK m : m = [op[o] EXCEPT !.pc = "cool", !.seen = spawn[a].state]
    OBVIOUS
  <2>2. Become(o, m) /\ m.pc = "cool" /\ m.seen = spawn[a].state /\ m.a = a
    BY <1>1, <1>2, <1>3, <2>1 DEF SendRead, Process
  <2>3. m \in Process
    BY <2>2, SendReadTypes DEF SendInv, SpawnInv, TypeOK, Become
  <2>4. Owns(m)
    BY <2>2 DEF Owns, UnsentSteps
  <2> QED BY <2>2, <2>3, <2>4, OpSends DEF SendRead
<1>4. CASE spawn[a].state = "WINDOW_BOUND" /\ Run(o, "prompt")
  <2>1. sends[a] = 0
    BY <1>4, UnsentRow DEF SentStates
  <2>2. \A m \in Process : m.pc = "prompt" /\ SameWork(m, o) => Owns(m)
    BY <1>2, <2>1 DEF Owns, UnsentSteps, SameWork
  <2>3. "prompt" \in PC
    BY DEF PC
  <2> QED BY <1>4, <2>2, <2>3, RunSends DEF SendRead
<1>5. CASE Stop(o)
  BY <1>5, StopSends DEF SendRead
<1> QED BY <1>2, <1>3, <1>4, <1>5 DEF SendRead

\* A second Send is only asked for while the first is the only one.
LEMMA WaitSends ==
    ASSUME SendInv, Apart, NEW o \in Op, WaitForConversation(o) \/ WaitForDelivery(o)
    PROVE  SendFacts'
<1>1. op[o].pc \in AttemptSteps /\ OnlyOp
  BY DEF WaitForConversation, WaitForDelivery, At, AttemptSteps, WindowSteps
<1>2. PICK a \in Attempt : a = op[o].a
  BY <1>1, AttemptFacts DEF SendInv
<1>3. CASE \E pc \in {"wait", "maybe", "adopt"} : Run(o, pc)
  <2>1. {"wait", "maybe", "adopt"} \subseteq PC \cap FreeSteps
    BY DEF PC, FreeSteps
  <2> QED BY <1>1, <1>3, <2>1, RunSends, WaitingOwns
<1>4. CASE ~spawn[a].second /\ Run(o, "second")
  <2>1. sends[a] <= 1
    BY <1>4 DEF SendInv, SendFacts, RowInv, SendsAreAuthorised
  <2>2. \A m \in Process : m.pc = "second" /\ SameWork(m, o) => Owns(m)
    BY <1>2, <2>1 DEF Owns, UnsentSteps, SameWork
  <2>3. "second" \in PC
    BY DEF PC
  <2> QED BY <1>1, <1>4, <2>2, <2>3, RunSends
<1> QED BY <1>2, <1>3, <1>4 DEF WaitForConversation, WaitForDelivery

-----------------------------------------------------------------------------
(***************************************************************************)
(* Steps that write a row.                                                 *)
(***************************************************************************)
\* A write of another state to the row of an attempt that is open already.
LEMMA OpenRowOwned ==
    ASSUME SendInv, NEW a \in Attempt, NEW state \in SpawnState, UpdateOk(a, state), NEW row \in Row,
           row.state = state, row.win = spawn[a].win \/ row.win # None,
           row.second = spawn[a].second \/ row.second,
           sends[a] > 0 => state \in SentStates,
           state = "COMPLETED" => Registered(a[1], a[2])
    PROVE  RowOwned(a, row)
<1>1. sends[a] > 0 => row.state \in SentStates /\ row.win # None
  BY DEF SendInv, SendFacts, RowInv, SentRows
<1>2. spawn[a].state \in SpawnState
  BY DEF SendInv, SpawnInv, TypeOK, Row
<1>3. state \notin Settled => spawn[a].state \notin Settled
  BY <1>2, AllowedLemma DEF UpdateOk, Settled
<1>4. row.state \notin Settled =>
         \A b \in Attempt \ {a} : b[1] = a[1] => spawn[b].state \in Settled
  BY <1>3 DEF SendInv, SendFacts, RowInv, OneAttempt
<1> QED BY <1>1, <1>4 DEF RowOwned

LEMMA WriteStateSends ==
    ASSUME SendInv, Apart, NEW o \in Op, op[o].pc \in AttemptSteps, NEW state \in SpawnState,
           state \in {"WINDOW_BOUND", "PROMPT_SUBMITTED", "COMPLETED"} => HasWindow(op[o].a),
           UpdateOk(op[o].a, state) /\ sends[op[o].a] > 0 => state \in SentStates,
           state = "COMPLETED" => Registered(op[o].a[1], op[o].a[2]),
           NEW pc \in PC, WriteState(o, state, pc), OnlySpawn,
           \A m \in Process : m.pc = pc /\ SameWork(m, o) /\ spawn'[m.a].state = state => Owns(m)'
    PROVE  SendFacts'
<1>1. CASE UpdateOk(op[o].a, state)
  <2>1. PICK a \in Attempt : a = op[o].a /\ Born(a) /\ Busy(o) /\ a[1] = This(o)
    BY AttemptFacts, BusyFacts DEF SendInv
  <2>2. PICK row \in Row : /\ row = [spawn[a] EXCEPT !.state = state] /\ row.state = state
                           /\ row.win = spawn[a].win /\ row.second = spawn[a].second
    BY <1>1, <2>1, StateRow DEF SendInv, SpawnInv
  <2>3. spawn' = [spawn EXCEPT ![a] = row] /\ Run(o, pc)
    BY <1>1, <2>1, <2>2 DEF WriteState, Update
  <2>4. PICK m \in Process : Become(o, m) /\ m.pc = pc /\ SameWork(m, o)
    BY <2>3, RunFacts DEF SendInv, SpawnInv
  <2>5. RowOwned(a, row)
    BY <1>1, <2>1, <2>2, OpenRowOwned
  <2>6. spawn'[m.a].state = state
    BY <2>1, <2>2, <2>3, <2>4 DEF SameWork, SendInv, SpawnInv, TypeOK
  <2>7. Owns(m)'
    BY <2>4, <2>6
  <2> QED BY <2>1, <2>3, <2>4, <2>5, <2>7, RowSends
<1>2. CASE ~UpdateOk(op[o].a, state)
  BY <1>2, StopSends DEF WriteState, OnlySpawn, OnlyOp
<1> QED BY <1>1, <1>2

LEMMA WriteAndStopSends ==
    ASSUME SendInv, Apart, NEW o \in Op, op[o].pc \in AttemptSteps, NEW state \in SpawnState,
           state \in {"WINDOW_BOUND", "PROMPT_SUBMITTED", "COMPLETED"} => HasWindow(op[o].a),
           UpdateOk(op[o].a, state) /\ sends[op[o].a] > 0 => state \in SentStates,
           state = "COMPLETED" => Registered(op[o].a[1], op[o].a[2]),
           WriteAndStop(o, state), OnlySpawn
    PROVE  SendFacts'
<1>1. CASE UpdateOk(op[o].a, state)
  <2>1. PICK a \in Attempt : a = op[o].a /\ Born(a) /\ Busy(o) /\ a[1] = This(o)
    BY AttemptFacts, BusyFacts DEF SendInv
  <2>2. PICK row \in Row : /\ row = [spawn[a] EXCEPT !.state = state] /\ row.state = state
                           /\ row.win = spawn[a].win /\ row.second = spawn[a].second
    BY <1>1, <2>1, StateRow DEF SendInv, SpawnInv
  <2>3. spawn' = [spawn EXCEPT ![a] = row] /\ Become(o, Idle)
    BY <1>1, <2>1, <2>2 DEF WriteAndStop, Update, Stop
  <2>4. RowOwned(a, row)
    BY <1>1, <2>1, <2>2, OpenRowOwned
  <2>5. Idle \in Process /\ Owns(Idle)'
    BY IdleFacts, WaitingOwns DEF FreeSteps
  <2> QED BY <2>1, <2>3, <2>4, <2>5, RowSends
<1>2. CASE ~UpdateOk(op[o].a, state)
  BY <1>2, StopSends DEF WriteAndStop, OnlySpawn, OnlyOp
<1> QED BY <1>1, <1>2

\* Opening is authorised before anything was sent.
LEMMA OpenSubmitSends ==
    ASSUME SendInv, Apart, NEW o \in Op, OpenSubmit(o)
    PROVE  SendFacts'
<1>1. op[o].pc \in AttemptSteps /\ "launch" \in PC /\ "WINDOW_OPEN_SUBMITTED" \in SpawnState
  BY DEF OpenSubmit, At, AttemptSteps, PC, SpawnState, Unresolved, Ambiguous
<1>2. PICK a \in Attempt : a = op[o].a
  BY <1>1, AttemptFacts DEF SendInv
<1>3. UpdateOk(a, "WINDOW_OPEN_SUBMITTED") => sends[a] = 0
  <2>1. spawn[a].state \in SpawnState
    BY DEF SendInv, SpawnInv, TypeOK, Row
  <2> QED BY <2>1, AllowedLemma, UnsentRow DEF UpdateOk, SentStates
<1>4. CASE UpdateOk(a, "WINDOW_OPEN_SUBMITTED")
  <2>1. \A m \in Process : m.pc = "launch" /\ SameWork(m, o)
                           /\ spawn'[m.a].state = "WINDOW_OPEN_SUBMITTED" => Owns(m)'
    BY <1>2, <1>3, <1>4 DEF Owns, UnsentSteps, SameWork, OpenSubmit, OnlySpawn
  <2> QED BY <1>1, <1>2, <1>3, <1>4, <2>1, WriteStateSends DEF OpenSubmit
<1>5. CASE ~UpdateOk(a, "WINDOW_OPEN_SUBMITTED")
  BY <1>2, <1>5, StopSends DEF OpenSubmit, WriteState, OnlySpawn, OnlyOp
<1> QED BY <1>4, <1>5

LEMMA OpenEndSends ==
    ASSUME SendInv, Apart, NEW o \in Op, OpenFailed(o) \/ OutcomeAmbiguous(o)
    PROVE  SendFacts'
<1>1. op[o].pc \in AttemptSteps
  BY DEF OpenFailed, OutcomeAmbiguous, At, AttemptSteps
<1>2. "FAILED" \in SpawnState /\ "RECONCILE_REQUIRED" \in SpawnState \cap SentStates
  BY DEF SpawnState, Unresolved, Ambiguous, SentStates
<1>3. CASE OpenFailed(o)
  <2>1. sends[op[o].a] = 0
    BY <1>3 DEF OpenFailed, At, SendInv, SendFacts, Owns, UnsentSteps
  <2> QED BY <1>1, <1>2, <1>3, <2>1, WriteAndStopSends DEF OpenFailed
<1>4. CASE OutcomeAmbiguous(o)
  BY <1>1, <1>2, <1>4, WriteAndStopSends DEF OutcomeAmbiguous
<1> QED BY <1>3, <1>4

LEMMA SendWriteSends ==
    ASSUME SendInv, Apart, NEW o \in Op, SendDuringCooldown(o) \/ SendSubmit(o) \/ SendBack(o)
    PROVE  SendFacts'
<1>1. op[o].pc \in AttemptSteps /\ Owns(op[o]) /\ SpawnInv
  BY DEF SendDuringCooldown, SendSubmit, SendBack, At, AttemptSteps, WindowSteps, SendInv,
         SendFacts
<1>2. PICK a \in Attempt : a = op[o].a
  BY <1>1, AttemptFacts
<1>3. CASE SendDuringCooldown(o)
  <2>1. op[o].seen \in SpawnState
    BY <1>1, AttemptFacts DEF Process
  <2>2. op[o].seen \in {"WINDOW_BOUND", "PROMPT_SUBMITTED", "COMPLETED"} => HasWindow(op[o].a)
    BY <1>3 DEF SendDuringCooldown, At, SendInv, SpawnInv, Fits
  <2>3. PICK seen \in SpawnState : seen = op[o].seen
    BY <2>1
  <2>4. seen = spawn[a].state
    BY <1>1, <1>2, <1>3, <2>3 DEF Owns, SendDuringCooldown, At
  <2>5. /\ sends[a] > 0 => seen \in SentStates
        /\ seen = "COMPLETED" => Registered(a[1], a[2])
    BY <2>4 DEF SendInv, SendFacts, RowInv, SentRows, CompletedRegistered
  <2> QED BY <1>1, <1>2, <1>3, <2>2, <2>3, <2>5, WriteAndStopSends DEF SendDuringCooldown
<1>4. CASE SendBack(o)
  <2>1. "WINDOW_BOUND" \in SpawnState /\ HasWindow(op[o].a)
    BY <1>1, <1>4, AttemptFacts DEF SendBack, At, WindowSteps, SpawnState, Unresolved
  <2>2. sends[op[o].a] = 0
    BY <1>1, <1>4 DEF SendBack, At, Owns, UnsentSteps
  <2> QED BY <1>1, <1>4, <2>1, <2>2, WriteAndStopSends DEF SendBack
<1>5. CASE SendSubmit(o)
  <2>1. HasWindow(op[o].a)
    BY <1>1, <1>5, AttemptFacts DEF SendSubmit, At, WindowSteps
  <2>2. "PROMPT_SUBMITTED" \in SpawnState \cap SentStates /\ "click" \in PC
    BY DEF SpawnState, Unresolved, Ambiguous, PC, SentStates
  <2>3. sends[op[o].a] = 0
    BY <1>1, <1>5 DEF SendSubmit, At, Owns, UnsentSteps
  <2>4. \A m \in Process : m.pc = "click" /\ SameWork(m, o)
                           /\ spawn'[m.a].state = "PROMPT_SUBMITTED" => Owns(m)'
    BY <1>5, <2>3 DEF Owns, UnsentSteps, SameWork, SendSubmit, OnlySpawn
  <2> QED BY <1>1, <1>5, <2>1, <2>2, <2>4, WriteStateSends DEF SendSubmit
<1> QED BY <1>3, <1>4, <1>5

\* The first row of a child, or one after its earlier attempts failed.
LEMMA ArmRecordSends ==
    ASSUME SendInv, Apart, NEW o \in Op, ArmRecord(o)
    PROVE  SendFacts'
<1> DEFINE c == This(o)
           unborn == {n \in 1 .. MaxAttempts : spawn[<<c, n>>].state = "unborn"}
<1>1. op[o] \in Process /\ op[o].todo # {} /\ Busy(o) /\ ~HasCompleted(c)
  BY DEF SendInv, SpawnInv, TypeOK, ArmRecord, At, Fits, Waiting, Sweeping, Busy, SendFacts,
         Owns, This
<1>2. CASE ~(UnresolvedOf(c) = {} /\ unborn # {})
  BY <1>2, StopSends DEF ArmRecord, OnlySpawn, OnlyOp
<1>3. CASE UnresolvedOf(c) = {} /\ unborn # {}
  <2>1. c \in Child
    BY <1>1, ThisLemma DEF This, Process
  <2>2. Min(unborn) \in unborn
    <3>1. unborn \subseteq Nat /\ unborn # {}
      BY <1>3, SpawnAssumption
    <3> HIDE DEF unborn
    <3> QED BY <3>1, MinLemma
  <2>3. PICK a : a = <<c, Min(unborn)>>
    OBVIOUS
  <2>4. a \in Attempt /\ a[1] = c /\ spawn[a].state = "unborn"
    BY <2>1, <2>2, <2>3 DEF Attempt
  <2>5. PICK row \in Row : row = Armed /\ row.state = "ARMED"
    <3>1. Armed \in Row /\ Armed.state = "ARMED"
      BY DEF Armed, Unborn, Row, SpawnState, Unresolved
    <3> QED BY <3>1
  <2>6. spawn' = [spawn EXCEPT ![a] = row] /\ OnlySpawn
    BY <1>3, <2>3, <2>5 DEF ArmRecord, Update
  <2>7. sends[a] = 0
    BY <2>4, UnsentRow DEF SentStates
  <2>8. \A b \in Attempt : b[1] = c => spawn[b].state \in Settled
    <3>1. ASSUME NEW b \in Attempt, b[1] = c PROVE spawn[b].state \in Settled
      <4>1. spawn[b].state \in SpawnState
        BY DEF SendInv, SpawnInv, TypeOK, Row
      <4>2. spawn[b].state \notin Unresolved /\ spawn[b].state # "COMPLETED"
        BY <1>1, <1>3, <3>1 DEF UnresolvedOf, HasCompleted
      <4> QED BY <4>1, <4>2 DEF SpawnState, Settled
    <3> QED BY <3>1
  <2>9. RowOwned(a, row)
    BY <2>4, <2>5, <2>7, <2>8 DEF RowOwned
  <2>10. PICK m \in Process : Become(o, m) /\ m.pc \in FreeSteps
    <3>1. CASE op[o].batch
      <4>1. PICK m : m = [op[o] EXCEPT !.pc = "pool", !.a = a]
        OBVIOUS
      <4>2. Become(o, m) /\ m.pc = "pool"
        BY <1>1, <1>3, <2>3, <3>1, <4>1 DEF ArmRecord, Process
      <4>3. m \in Process
        BY <4>2, ArmRecordTypes DEF SendInv, SpawnInv, TypeOK, Become
      <4> QED BY <4>2, <4>3 DEF FreeSteps
    <3>2. CASE ~op[o].batch
      BY <1>3, <3>2, IdleFacts DEF ArmRecord, Stop, FreeSteps
    <3> QED BY <3>1, <3>2
  <2>11. Owns(m)'
    BY <2>10, WaitingOwns
  <2> QED BY <1>1, <2>4, <2>6, <2>9, <2>10, <2>11, RowSends
<1> QED BY <1>2, <1>3

\* The process goes on at a free step, or is over.
LEMMA FreeRun ==
    ASSUME SpawnInv, NEW o \in Op, op[o].pc \in AttemptSteps,
           \/ \E pc \in {"consume", "clear", "send"} : Run(o, pc)
           \/ Onward(o, "send") \/ Stop(o) \/ NextChild(o)
    PROVE  \E m \in Process : Become(o, m) /\ Owns(m)'
<1>1. {"consume", "clear", "send"} \subseteq PC \cap FreeSteps /\ {"child", "idle"} \subseteq FreeSteps
  BY DEF PC, FreeSteps
<1>2. CASE \E pc \in {"consume", "clear", "send"} : Run(o, pc)
  BY <1>1, <1>2, RunFacts, WaitingOwns DEF SpawnInv
<1>3. CASE Onward(o, "send")
  BY <1>1, <1>3, OnwardFacts, IdleFacts, WaitingOwns
<1>4. CASE Stop(o)
  BY <1>1, <1>4, IdleFacts, WaitingOwns DEF Stop
<1>5. CASE NextChild(o)
  BY <1>1, <1>5, NextChildFacts, WaitingOwns DEF SpawnInv
<1> QED BY <1>2, <1>3, <1>4, <1>5

LEMMA BindWindowSends ==
    ASSUME SendInv, Apart, NEW o \in Op, BindWindow(o)
    PROVE  SendFacts'
<1>1. op[o].pc = "bind" /\ op[o].pc \in AttemptSteps /\ SpawnInv
  BY DEF BindWindow, At, AttemptSteps, SendInv
<1>2. PICK a \in Attempt : a = op[o].a /\ Busy(o) /\ a[1] = This(o)
  BY <1>1, AttemptFacts, BusyFacts
<1>3. op[o].win \in Window /\ op[o].win # None
  BY <1>1, SpawnAssumption DEF SpawnInv, Fits
<1>4. sends[a] = 0
  BY <1>1, <1>2 DEF SendInv, SendFacts, Owns, UnsentSteps
<1>5. CASE spawn[a].state \in {"WINDOW_OPEN_SUBMITTED", "RECONCILE_REQUIRED"}
  <2>1. PICK row : row = [spawn[a] EXCEPT !.state = "WINDOW_BOUND", !.win = op[o].win]
    OBVIOUS
  <2>2. spawn[a] \in Row /\ "WINDOW_BOUND" \in SpawnState
    BY DEF SendInv, SpawnInv, TypeOK, SpawnState, Unresolved
  <2>3. /\ row \in Row /\ row.state = "WINDOW_BOUND" /\ row.win = op[o].win
        /\ row.second = spawn[a].second
    BY <1>3, <2>1, <2>2 DEF Row
  <2>4. UpdateOk(a, "WINDOW_BOUND")
    BY <1>5 DEF UpdateOk, Allowed
  <2>5. RowOwned(a, row)
    BY <1>3, <1>4, <2>2, <2>3, <2>4, OpenRowOwned
  <2>6. spawn' = [spawn EXCEPT ![a] = row] /\ OnlySpawn
    BY <1>2, <1>5, <2>1 DEF BindWindow, Update
  <2>7. Run(o, "consume") \/ Onward(o, "send")
    BY <1>2, <1>5 DEF BindWindow
  <2>8. PICK m \in Process : Become(o, m) /\ Owns(m)'
    BY <1>1, <2>7, FreeRun
  <2> QED BY <1>2, <2>3, <2>5, <2>6, <2>8, RowSends
<1>6. CASE spawn[a].state \notin {"WINDOW_OPEN_SUBMITTED", "RECONCILE_REQUIRED"}
  BY <1>2, <1>6, StopSends DEF BindWindow, OnlySpawn, OnlyOp
<1> QED BY <1>5, <1>6

\* Marking a completed row consumed changes neither its state nor its authority.
LEMMA ConsumedOwned ==
    ASSUME SendInv, NEW a \in Attempt, NEW row \in Row, row.state = spawn[a].state,
           row.win = spawn[a].win, row.second = spawn[a].second
    PROVE  RowOwned(a, row)
BY DEF RowOwned, SendInv, SendFacts, RowInv, SentRows, OneAttempt, CompletedRegistered

LEMMA ConsumeSends ==
    ASSUME SendInv, Apart, NEW o \in Op, Consume(o)
    PROVE  SendFacts'
<1>1. op[o].pc = "consume" /\ op[o].pc \in AttemptSteps /\ SpawnInv
  BY DEF Consume, At, AttemptSteps, SendInv
<1>2. op[o] \in Process /\ op[o].src \in Source /\ op[o].src # NoSource
  BY <1>1, AttemptFacts DEF SpawnInv, Fits, Process
<1>3. Run(o, "clear") \/ Onward(o, "send")
  BY DEF Consume
<1>4. PICK m \in Process : Become(o, m) /\ Owns(m)'
  BY <1>1, <1>3, FreeRun
<1>5. CASE UNCHANGED <<spawn, older>>
  <2>1. OnlyOp
    BY <1>5 DEF Consume, OnlySpawn, OnlyOp
  <2>2. Owns(m)
    BY <1>4, <2>1 DEF Owns, OnlyOp, HasCompleted, Registered
  <2> QED BY <1>4, <2>1, <2>2, OpSends
<1>6. CASE ~UNCHANGED <<spawn, older>>
  <2>1. PICK b : b = op[o].src.of
    OBVIOUS
  <2>2. b \in Attempt /\ spawn[b].state = "COMPLETED"
    BY <1>1, <1>2, <1>6, <2>1, SourceLemma DEF Consume, SpawnInv, Fits
  <2>3. PICK row \in Row : /\ row = [spawn[b] EXCEPT !.consumed = "recycled"]
                           /\ row.state = spawn[b].state /\ row.win = spawn[b].win
                           /\ row.second = spawn[b].second
    BY <1>1, <2>2, ConsumedRow DEF SpawnInv
  <2>4. spawn' = [spawn EXCEPT ![b] = row] /\ OnlySpawn
    BY <1>6, <2>1, <2>3 DEF Consume, Update
  <2>5. RowOwned(b, row)
    BY <2>2, <2>3, ConsumedOwned
  <2> QED BY <1>4, <2>2, <2>3, <2>4, <2>5, RowSends
<1> QED BY <1>5, <1>6

LEMMA MarkClosedSends ==
    ASSUME SendInv, Apart, NEW o \in Op, MarkClosed(o)
    PROVE  SendFacts'
<1>1. op[o].pc \in Sweeping /\ SpawnInv
  BY DEF MarkClosed, At, Sweeping, SendInv
<1>2. PICK a \in Attempt : a = SweptRow(o) /\ spawn[a].state = "COMPLETED"
  BY <1>1, SweptRowFacts
<1>3. PICK row \in Row : /\ row = [spawn[a] EXCEPT !.consumed = "closed"]
                         /\ row.state = spawn[a].state /\ row.win = spawn[a].win
                         /\ row.second = spawn[a].second
  BY <1>1, <1>2, ConsumedRow DEF SpawnInv
<1>4. spawn' = [spawn EXCEPT ![a] = row] /\ OnlySpawn
  BY <1>2, <1>3 DEF MarkClosed, Update
<1>5. RowOwned(a, row)
  BY <1>2, <1>3, ConsumedOwned
<1>6. PICK m \in Process : Become(o, m) /\ Owns(m)'
  <2>1. CASE Stop(o)
    BY <2>1, IdleFacts, WaitingOwns DEF Stop, FreeSteps
  <2>2. CASE ~Stop(o)
    <3>1. PICK m : m = [op[o] EXCEPT !.pc = "sweep", !.todo = op[o].todo \ {This(o)}]
      OBVIOUS
    <3>2. Become(o, m)
      BY <2>2, <3>1 DEF MarkClosed
    <3>3. m.pc = "sweep" /\ m \in Process
      BY <1>1, <3>1, <3>2, MarkClosedTypes DEF SpawnInv, TypeOK, Become, Process
    <3> QED BY <3>2, <3>3, WaitingOwns DEF FreeSteps
  <2> QED BY <2>1, <2>2
<1> QED BY <1>3, <1>4, <1>5, <1>6, RowSends

\* The authority for the second Send is written before the Send.
LEMMA SecondSubmitSends ==
    ASSUME SendInv, Apart, NEW o \in Op, SecondSubmit(o)
    PROVE  SendFacts'
<1>1. op[o].pc = "second" /\ op[o].pc \in AttemptSteps /\ SpawnInv /\ "click2" \in PC
  BY DEF SecondSubmit, At, AttemptSteps, WindowSteps, SendInv, PC
<1>2. PICK a \in Attempt : a = op[o].a /\ Busy(o) /\ a[1] = This(o)
  BY <1>1, AttemptFacts, BusyFacts
<1>3. sends[a] <= 1
  BY <1>1, <1>2 DEF SendInv, SendFacts, Owns
<1>4. CASE UpdateOk(a, "PROMPT_SUBMITTED")
  <2>1. PICK row : row = [spawn[a] EXCEPT !.state = "PROMPT_SUBMITTED", !.second = TRUE]
    OBVIOUS
  <2>2. spawn[a] \in Row /\ "PROMPT_SUBMITTED" \in SpawnState \cap SentStates
    BY DEF SendInv, SpawnInv, TypeOK, SpawnState, Unresolved, Ambiguous, SentStates
  <2>3. row \in Row /\ row.state = "PROMPT_SUBMITTED" /\ row.win = spawn[a].win /\ row.second
    BY <2>1, <2>2 DEF Row
  <2>4. RowOwned(a, row)
    BY <1>4, <2>2, <2>3, OpenRowOwned
  <2>5. spawn' = [spawn EXCEPT ![a] = row] /\ Run(o, "click2") /\ OnlySpawn
    BY <1>2, <1>4, <2>1 DEF SecondSubmit, Update
  <2>6. PICK m \in Process : Become(o, m) /\ m.pc = "click2" /\ SameWork(m, o)
    BY <1>1, <2>5, RunFacts DEF SpawnInv
  <2>7. m.a = a /\ spawn'[a] = row /\ sends' = sends
    BY <1>2, <2>5, <2>6 DEF SameWork, OnlySpawn, SendInv, SpawnInv, TypeOK
  <2>8. Owns(m)'
    BY <1>3, <2>3, <2>6, <2>7 DEF Owns, UnsentSteps
  <2> QED BY <1>2, <2>3, <2>4, <2>5, <2>6, <2>8, RowSends
<1>5. CASE ~UpdateOk(a, "PROMPT_SUBMITTED")
  BY <1>2, <1>5, StopSends DEF SecondSubmit, OnlySpawn, OnlyOp
<1> QED BY <1>4, <1>5

LEMMA AdoptDoneSends ==
    ASSUME SendInv, Apart, NEW o \in Op, AdoptDone(o)
    PROVE  SendFacts'
<1>1. op[o].pc = "done" /\ op[o].pc \in WindowSteps /\ op[o].pc \in AttemptSteps /\ SpawnInv
  BY DEF AdoptDone, At, WindowSteps, AttemptSteps, SendInv
<1>2. PICK a \in Attempt : a = op[o].a /\ Born(a) /\ HasWindow(a) /\ Busy(o) /\ a[1] = This(o)
  BY <1>1, AttemptFacts, BusyFacts
<1>3. Registered(a[1], a[2])
  BY <1>1, <1>2 DEF SendInv, SendFacts, Owns
<1>4. CASE UpdateOk(a, "COMPLETED")
  <2>1. "COMPLETED" \in SpawnState \cap SentStates
    BY DEF SpawnState, SentStates
  <2>2. PICK row \in Row : /\ row = [spawn[a] EXCEPT !.state = "COMPLETED"]
                           /\ row.state = "COMPLETED" /\ row.win = spawn[a].win
                           /\ row.second = spawn[a].second
    BY <1>1, <1>2, <1>4, <2>1, StateRow DEF SpawnInv
  <2>3. spawn' = [spawn EXCEPT ![a] = row] /\ OnlySpawn
    BY <1>2, <1>4, <2>2 DEF AdoptDone, Update
  <2>4. RowOwned(a, row)
    BY <1>3, <1>4, <2>1, <2>2, OpenRowOwned
  <2>5. NextChild(o) \/ Stop(o)
    BY <1>2, <1>4 DEF AdoptDone
  <2>6. PICK m \in Process : Become(o, m) /\ Owns(m)'
    BY <1>1, <2>5, FreeRun
  <2> QED BY <1>2, <2>3, <2>4, <2>6, RowSends
<1>5. CASE ~UpdateOk(a, "COMPLETED")
  BY <1>2, <1>5, StopSends DEF AdoptDone, OnlySpawn, OnlyOp
<1> QED BY <1>4, <1>5

-----------------------------------------------------------------------------
(***************************************************************************)
(* Steps that change a window.                                             *)
(***************************************************************************)
\* A page in which nothing can be consumed takes the place of what was there.
LEMMA DeadPage ==
    ASSUME TypeOK, NEW w \in Window, NEW p, Show(w, p),
           p.text # "sent", p.kind # "chat" \/ p.text # "draft"
    PROVE  \A v \in Window : Live(v)' => Live(v) /\ page'[v].of = page[v].of
BY ShowOne DEF Live

LEMMA DeadPages ==
    /\ Absent.text = "none" /\ Elsewhere.text = "none"
    /\ \A a, t : Root(a, t).kind = "root" /\ Root(a, t).text = t
BY DEF Absent, Elsewhere, Root

\* Navigating a window, whatever it showed, brings no prompt that could be consumed.
LEMMA LaunchSends ==
    ASSUME SendInv, Apart, NEW o \in Op, LaunchNew(o) \/ LaunchReuse(o)
    PROVE  SendFacts'
<1>1. /\ op[o].pc = "launch" /\ op[o].pc \in AttemptSteps /\ SpawnInv /\ TypeOK /\ op[o] \in Process
      /\ OnlyPage /\ UNCHANGED sends
  BY DEF LaunchNew, LaunchReuse, At, AttemptSteps, SendInv, SpawnInv, TypeOK
<1>2. PICK a \in Attempt : a = op[o].a
  BY <1>1, AttemptFacts
<1>3. sends[a] = 0
  BY <1>1, <1>2 DEF SendInv, SendFacts, Owns, UnsentSteps
<1>4. \A w \in Window : Live(w)' => Live(w) /\ page'[w].of = page[w].of
  <2>1. CASE UNCHANGED page
    BY <2>1 DEF Live
  <2>2. CASE \E w \in Window : Navigate(w, a)
    BY <1>1, <2>2, DeadPage, DeadPages DEF Navigate
  <2>3. op[o].src # NoSource => op[o].src.win \in Window
    BY <1>1, SourceLemma DEF Process
  <2> QED BY <1>2, <2>1, <2>2, <2>3 DEF LaunchNew, LaunchReuse
<1>5. PICK m \in Process : Become(o, m) /\ Owns(m)
  <2>1. CASE \E pc \in {"maybe", "failed"} : Run(o, pc)
    <3>1. PICK pc \in {"maybe", "failed"} : Run(o, pc)
      BY <2>1
    <3>2. pc \in PC
      BY DEF PC
    <3>3. PICK m \in Process : Become(o, m) /\ m.pc = pc /\ SameWork(m, o)
      BY <1>1, <3>1, <3>2, RunFacts
    <3> QED BY <1>2, <1>3, <3>3 DEF SameWork, Owns
  <2>2. CASE Stop(o)
    BY <2>2, IdleFacts, WaitingOwns DEF Stop, FreeSteps
  <2>3. CASE \E w : Become(o, [op[o] EXCEPT !.pc = "bind", !.win = w])
    <3>1. PICK w : Become(o, [op[o] EXCEPT !.pc = "bind", !.win = w])
      BY <2>3
    <3>2. PICK m : m = [op[o] EXCEPT !.pc = "bind", !.win = w]
      OBVIOUS
    <3>3. Become(o, m) /\ m.pc = "bind" /\ m.a = a
      BY <1>1, <1>2, <3>1, <3>2 DEF Process
    <3>4. m \in Process
      BY <1>1, <3>3, LaunchNewTypes, LaunchReuseTypes DEF SpawnInv, TypeOK, Become
    <3> QED BY <1>3, <3>3, <3>4 DEF Owns
  <2> QED BY <2>1, <2>2, <2>3 DEF LaunchNew, LaunchReuse
<1> QED BY <1>1, <1>4, <1>5, PageSends

LEMMA CloseTerminalSends ==
    ASSUME SendInv, Apart, NEW o \in Op, CloseTerminal(o)
    PROVE  SendFacts'
<1>1. op[o].pc \in Sweeping /\ SpawnInv /\ TypeOK
  BY DEF CloseTerminal, At, Sweeping, SendInv, SpawnInv
<1>2. PICK w \in Window : w = spawn[SweptRow(o)].win
  BY <1>1, SweptRowFacts
<1>3. \A v \in Window : Live(v)' => Live(v) /\ page'[v].of = page[v].of
  <2>1. CASE UNCHANGED page
    BY <2>1 DEF Live
  <2>2. CASE Close(w)
    BY <1>1, <2>2, DeadPage, DeadPages DEF Close
  <2> QED BY <1>2, <2>1, <2>2 DEF CloseTerminal
<1>4. PICK m \in Process : Become(o, m) /\ Owns(m)
  <2>1. CASE Stop(o)
    BY <2>1, IdleFacts, WaitingOwns DEF Stop, FreeSteps
  <2>2. CASE Run(o, "swept")
    <3>1. "swept" \in PC \cap FreeSteps
      BY DEF PC, FreeSteps
    <3> QED BY <1>1, <2>2, <3>1, RunFacts, WaitingOwns
  <2> QED BY <2>1, <2>2 DEF CloseTerminal
<1> QED BY <1>3, <1>4, PageSends DEF CloseTerminal

\* Nothing of a child was delivered or can be while nothing was sent for its open attempt.
LEMMA NothingSent ==
    ASSUME SendInv, NEW a \in Attempt, spawn[a].state \notin Settled, sends[a] = 0
    PROVE  /\ delivered[a[1]] = 0
           /\ \A w \in Window : Live(w) => page[w].of[1] # a[1]
<1>1. ASSUME NEW b \in Attempt, b[1] = a[1] PROVE ~(sends[b] > 0)
  <2>1. CASE b = a
    BY <2>1
  <2>2. CASE b # a
    <3>1. spawn[b].state \in Settled
      BY <1>1, <2>2 DEF SendInv, SendFacts, RowInv, OneAttempt
    <3>2. spawn[b].state \notin SentStates
      BY <3>1 DEF Settled, SentStates
    <3> QED BY <3>2 DEF SendInv, SendFacts, RowInv, SentRows
  <2> QED BY <2>1, <2>2
<1>2. delivered[a[1]] \in Nat /\ a[1] \in Child
  BY AttemptLemma DEF SendInv, SpawnInv, TypeOK
<1>3. ~(delivered[a[1]] > 0)
  BY <1>1, <1>2 DEF SendInv, SendFacts, WindowInv, DeliveredSent
<1>4. ASSUME NEW w \in Window, Live(w) PROVE page[w].of[1] # a[1]
  <2>1. page[w].of \in Attempt
    BY <1>4, SentPage DEF SendInv, SpawnInv, Live
  <2>2. sends[page[w].of] > 0
    BY <1>4 DEF SendInv, SendFacts, WindowInv, LiveWindows
  <2> QED BY <1>1, <2>1, <2>2
<1> QED BY <1>2, <1>3, <1>4

\* An authorised Send in a window of the attempt, which is the only one for its child.
LEMMA InvokeSends ==
    ASSUME SendInv, Apart, NEW o \in Op, NEW m \in Process, Become(o, m), Owns(m)', OnlyPage,
           NEW a \in Attempt, Busy(o), a[1] = This(o), NEW w \in Window,
           spawn[a].state = "PROMPT_SUBMITTED", spawn[a].win # None,
           sends' = [sends EXCEPT ![a] = sends[a] + 1],
           sends[a] = 0 \/ (sends[a] <= 1 /\ spawn[a].second),
           page'[w].of = a, \A v \in Window \ {w} : page'[v] = page[v],
           sends[a] = 0 \/ (Live(w) /\ page[w].of = a)
    PROVE  SendFacts'
<1>1. UNCHANGED <<spawn, delivered, proto>>
  BY DEF OnlyPage
<1>2. HolderRegistered' /\ StayRegistered
  BY <1>1, SameHolders
<1>3. /\ sends \in [Attempt -> Nat] /\ sends'[a] = sends[a] + 1 /\ sends'[a] > 0
      /\ \A b \in Attempt : b # a => sends'[b] = sends[b]
  BY DEF SendInv, SpawnInv, TypeOK
<1>4. \A c \in Child : (Busy(o) /\ c = This(o)) \/ Untouched(c)
  BY <1>1, <1>3 DEF Untouched
<1>5. OneAttempt' /\ CompletedRegistered'
  BY <1>1 DEF SendInv, SendFacts, RowInv, OneAttempt, CompletedRegistered, Registered
<1>6. SentRows'
  BY <1>1, <1>3 DEF SendInv, SendFacts, RowInv, SentRows, SentStates
<1>7. SendsAreAuthorised'
  BY <1>1, <1>3 DEF SendInv, SendFacts, RowInv, SendsAreAuthorised
<1>8. DeliveredSent' /\ DeliveredOnce'
  BY <1>1, <1>3 DEF SendInv, SendFacts, WindowInv, DeliveredSent, DeliveredOnce
<1>9. /\ delivered[a[1]] = 0
      /\ \A v \in Window \ {w} : Live(v) => page[v].of[1] # a[1]
  <2>1. CASE sends[a] = 0
    BY <2>1, NothingSent DEF Settled
  <2>2. CASE Live(w) /\ page[w].of = a
    BY <2>2 DEF SendInv, SendFacts, WindowInv, LiveWindows
  <2> QED BY <2>1, <2>2
<1>10. \A v \in Window \ {w} : Live(v)' <=> Live(v)
  BY DEF Live
<1>11. \A v \in Window : Live(v) => page[v].of \in Attempt
  BY SentPage DEF SendInv, SpawnInv, Live
<1>12. LiveWindows'
  <2>1. ASSUME NEW v \in Window, Live(v)'
        PROVE  /\ sends'[page'[v].of] > 0 /\ delivered'[page'[v].of[1]] = 0
               /\ \A u \in Window \ {v} : Live(u)' => page'[u].of[1] # page'[v].of[1]
    <3>1. CASE v = w
      BY <1>1, <1>3, <1>9, <1>10, <3>1
    <3>2. CASE v # w
      <4>1. Live(v) /\ page'[v] = page[v] /\ page[v].of \in Attempt
        BY <1>10, <1>11, <2>1, <3>2
      <4>2. /\ sends[page[v].of] > 0 /\ delivered[page[v].of[1]] = 0
            /\ \A u \in Window \ {v} : Live(u) => page[u].of[1] # page[v].of[1]
        BY <4>1 DEF SendInv, SendFacts, WindowInv, LiveWindows
      <4>3. sends'[page[v].of] > 0
        BY <1>3, <4>1, <4>2
      <4> QED BY <1>1, <1>9, <1>10, <3>2, <4>1, <4>2, <4>3
    <3> QED BY <3>1, <3>2
  <2> QED BY <2>1 DEF LiveWindows
<1> QED BY <1>2, <1>4, <1>5, <1>6, <1>7, <1>8, <1>12, BecomeOwns
        DEF SendFacts, RowInv, WindowInv

LEMMA ClickSends ==
    ASSUME SendInv, Apart, NEW o \in Op, Click(o)
    PROVE  SendFacts'
<1>1. /\ op[o].pc = "click" /\ op[o].pc \in WindowSteps /\ op[o].pc \in AttemptSteps
      /\ SpawnInv /\ TypeOK /\ Owns(op[o]) /\ OnlyPage
  BY DEF Click, At, WindowSteps, AttemptSteps, SendInv, SpawnInv, SendFacts
<1>2. PICK a \in Attempt : a = op[o].a /\ Busy(o) /\ a[1] = This(o) /\ HasWindow(a)
  BY <1>1, AttemptFacts, BusyFacts
<1>3. PICK w \in Window : w = spawn[a].win
  BY <1>1, <1>2, AttemptFacts
<1>4. sends[a] = 0 /\ spawn[a].state = "PROMPT_SUBMITTED" /\ spawn[a].win # None
  BY <1>1, <1>2 DEF Owns, UnsentSteps, HasWindow
<1>5. Refused(o, w, a) \/ RateLimited(o, w, a) \/ Invoked(o, w, a) \/ Interrupted(o, w, a)
  BY <1>2, <1>3 DEF Click
<1>6. PICK m \in Process :
         /\ Become(o, m)
         /\ \/ m.pc \in {"routed", "maybe", "idle"}
            \/ m.pc \in {"back", "limited"} /\ m.a = a /\ UNCHANGED <<page, sends>>
  <2>1. CASE Stop(o)
    BY <2>1, IdleFacts DEF Stop
  <2>2. CASE \E pc \in {"routed", "maybe"} : Run(o, pc)
    <3>1. {"routed", "maybe"} \subseteq PC
      BY DEF PC
    <3> QED BY <1>1, <2>2, <3>1, RunFacts
  <2>3. CASE \E pc \in {"back", "limited"} : Run(o, pc) /\ UNCHANGED <<page, sends>>
    <3>1. {"back", "limited"} \subseteq PC
      BY DEF PC
    <3> QED BY <1>1, <1>2, <2>3, <3>1, RunFacts DEF SameWork
  <2> QED BY <1>5, <2>1, <2>2, <2>3 DEF Refused, RateLimited, Invoked, Interrupted
<1>7. Owns(m)
  BY <1>4, <1>6 DEF Owns, UnsentSteps
<1>8. CASE UNCHANGED <<page, sends>>
  <2>1. \A v \in Window : Live(v)' => Live(v) /\ page'[v].of = page[v].of
    BY <1>8 DEF Live
  <2> QED BY <1>1, <1>6, <1>7, <1>8, <2>1, PageSends
<1>9. CASE Show(w, Root(a, "draft")) /\ UNCHANGED sends
  <2>1. \A v \in Window : Live(v)' => Live(v) /\ page'[v].of = page[v].of
    BY <1>1, <1>9, DeadPage, DeadPages
  <2> QED BY <1>1, <1>6, <1>7, <1>9, <2>1, PageSends
<1>10. CASE IsRoot(w, a) /\ Invoke(w, a) /\ ~UNCHANGED <<page, sends>>
  <2>1. /\ page' = [page EXCEPT ![w] = IF page[w].kind = "root" THEN Root(a, "sent")
                                       ELSE Chat(a, "sent")]
        /\ sends' = [sends EXCEPT ![a] = sends[a] + 1]
    BY <1>1, <1>10, InvokeTypes
  <2>2. page'[w].of = a /\ \A v \in Window \ {w} : page'[v] = page[v]
    BY <1>1, <2>1 DEF TypeOK, Root, Chat
  <2>3. Owns(m)'
    BY <1>6, <1>10, WaitingOwns DEF FreeSteps
  <2> QED BY <1>1, <1>2, <1>4, <1>6, <2>1, <2>2, <2>3, InvokeSends
<1> QED BY <1>5, <1>8, <1>9, <1>10 DEF Refused, RateLimited, Invoked, Interrupted

LEMMA SecondClickSends ==
    ASSUME SendInv, Apart, NEW o \in Op, SecondClick(o)
    PROVE  SendFacts'
<1>1. /\ op[o].pc = "click2" /\ op[o].pc \in WindowSteps /\ op[o].pc \in AttemptSteps
      /\ SpawnInv /\ TypeOK /\ Owns(op[o]) /\ OnlyPage
  BY DEF SecondClick, At, WindowSteps, AttemptSteps, SendInv, SpawnInv, SendFacts
<1>2. PICK a \in Attempt : a = op[o].a /\ Busy(o) /\ a[1] = This(o) /\ HasWindow(a)
  BY <1>1, AttemptFacts, BusyFacts
<1>3. PICK w \in Window : w = spawn[a].win
  BY <1>1, <1>2, AttemptFacts
<1>4. /\ sends[a] <= 1 /\ spawn[a].second
      /\ spawn[a].state = "PROMPT_SUBMITTED" /\ spawn[a].win # None
  BY <1>1, <1>2 DEF Owns, HasWindow
<1>5. PICK m \in Process : Become(o, m) /\ m.pc \in FreeSteps
  <2>1. {"wait", "maybe"} \subseteq PC \cap FreeSteps
    BY DEF PC, FreeSteps
  <2>2. \E pc \in {"wait", "maybe"} : Run(o, pc)
    BY DEF SecondClick
  <2> QED BY <1>1, <2>1, <2>2, RunFacts
<1>6. Owns(m) /\ Owns(m)'
  BY <1>5, WaitingOwns
<1>7. CASE UNCHANGED <<page, sends>>
  <2>1. \A v \in Window : Live(v)' => Live(v) /\ page'[v].of = page[v].of
    BY <1>7 DEF Live
  <2> QED BY <1>1, <1>5, <1>6, <1>7, <2>1, PageSends
<1>8. CASE IsChat(w, a) /\ DraftReady(page[w]) /\ Invoke(w, a)
  <2>1. /\ page' = [page EXCEPT ![w] = IF page[w].kind = "root" THEN Root(a, "sent")
                                       ELSE Chat(a, "sent")]
        /\ sends' = [sends EXCEPT ![a] = sends[a] + 1]
    BY <1>1, <1>8, InvokeTypes DEF DraftReady
  <2>2. page'[w].of = a /\ \A v \in Window \ {w} : page'[v] = page[v]
    BY <1>1, <2>1 DEF TypeOK, Root, Chat
  <2>3. Live(w) /\ page[w].of = a
    BY <1>8 DEF Live, IsChat, DraftReady
  <2> QED BY <1>1, <1>2, <1>4, <1>5, <1>6, <2>1, <2>2, <2>3, InvokeSends
<1> QED BY <1>2, <1>3, <1>7, <1>8 DEF SecondClick

-----------------------------------------------------------------------------
(***************************************************************************)
(* Steps that change the worker protocol, or neither rows nor processes.   *)
(***************************************************************************)
\* A process step beside a protocol commit that loses no registration.
LEMMA ProtocolSends ==
    ASSUME SendInv, Apart, NEW o \in Op, NEW m \in Process, Become(o, m),
           UNCHANGED <<spawn, page, sends, delivered>>, StayRegistered, HolderRegistered', Owns(m)'
    PROVE  SendFacts'
<1>1. RowInv' /\ \A c \in Child : Untouched(c)
  BY SameRows
<1>2. WindowInv'
  BY SameWindows
<1> QED BY <1>1, <1>2, BecomeOwns DEF SendFacts

\* One child's snapshot is replaced by one in which nobody lost its registration.
LEMMA CommitRegisters ==
    ASSUME SendInv, NEW c \in Child, NEW t, proto' = [proto EXCEPT ![c] = t],
           \A n \in Conv : Registered(c, n) => t.workers[n].status # "unregistered",
           t.current_worker_id # None => t.workers[t.current_worker_id].status # "unregistered"
    PROVE  StayRegistered /\ HolderRegistered' /\ proto'[c] = t
<1>1. proto'[c] = t /\ \A d \in Child \ {c} : proto'[d] = proto[d]
  BY DEF SendInv, SpawnInv, TypeOK
<1>2. StayRegistered
  BY <1>1 DEF StayRegistered, Registered
<1>3. HolderRegistered'
  BY <1>1 DEF SendInv, SendFacts, HolderRegistered, Registered, Current
<1> QED BY <1>1, <1>2, <1>3

LEMMA AdoptSends ==
    ASSUME SendInv, Apart, NEW o \in Op, Adopt(o)
    PROVE  SendFacts'
<1>1. op[o].pc = "adopt" /\ op[o].pc \in ConvSteps /\ SpawnInv /\ SpawnInv' /\ op[o] \in Process
  BY AdoptTypes DEF Adopt, At, ConvSteps, SendInv, SpawnInv, TypeOK
<1>2. PICK c \in Child, n \in Conv : c = op[o].a[1] /\ n = op[o].a[2]
  BY <1>1, ConvFacts
<1>3. proto[c] \in P!Snapshot
  BY <1>1 DEF SpawnInv, TypeOK
<1>4. StayRegistered /\ HolderRegistered'
  <2>1. CASE UNCHANGED proto
    BY <2>1, SameHolders
  <2>2. CASE proto[c].current_worker_id = None /\ proto' = [proto EXCEPT ![c] = P!Register(proto[c], n, 0)]
    <3>1. PICK t : t = P!Register(proto[c], n, 0)
      OBVIOUS
    <3>2. /\ t.current_worker_id = None /\ t.workers[n].status = "candidate"
          /\ \A k \in Conv \ {n} : t.workers[k] = proto[c].workers[k]
      BY <1>3, <2>2, <3>1, RegisterFacts
    <3>3. \A k \in Conv : Registered(c, k) => t.workers[k].status # "unregistered"
      BY <3>2 DEF Registered
    <3> QED BY <2>2, <3>1, <3>2, <3>3, CommitRegisters
  <2> QED BY <1>2, <2>1, <2>2 DEF Adopt
<1>5. PICK m \in Process : Become(o, m) /\ Owns(m)'
  <2>1. CASE Stop(o)
    BY <2>1, IdleFacts, WaitingOwns DEF Stop, FreeSteps
  <2>2. CASE UNCHANGED proto /\ Current(c) = n /\ Run(o, "window")
    <3>1. "window" \in PC
      BY DEF PC
    <3>2. PICK m \in Process : Become(o, m) /\ m.pc = "window" /\ SameWork(m, o)
      BY <1>1, <2>2, <3>1, RunFacts DEF SpawnInv
    <3>3. Registered(c, n)
      BY <2>2, AttemptLemma DEF SendInv, SendFacts, HolderRegistered
    <3>4. Registered(m.a[1], m.a[2])'
      BY <1>2, <2>2, <3>2, <3>3 DEF SameWork, Registered
    <3>5. Owns(m)'
      BY <3>2, <3>4 DEF Owns, UnsentSteps
    <3> QED BY <3>2, <3>5
  <2>3. CASE \E t : Become(o, [op[o] EXCEPT !.pc = "claim", !.rev = t.revision])
    <3>1. PICK t : Become(o, [op[o] EXCEPT !.pc = "claim", !.rev = t.revision])
      BY <2>3
    <3>2. PICK m : m = [op[o] EXCEPT !.pc = "claim", !.rev = t.revision]
      OBVIOUS
    <3>3. Become(o, m) /\ m.pc = "claim"
      BY <1>1, <3>1, <3>2 DEF Process
    <3>4. m \in Process
      BY <1>1, <3>3 DEF SpawnInv, TypeOK, Become
    <3> QED BY <3>3, <3>4, WaitingOwns DEF FreeSteps
  <2> QED BY <1>2, <2>1, <2>2, <2>3 DEF Adopt, Current
<1> QED BY <1>4, <1>5, ProtocolSends DEF Adopt

LEMMA AdoptClaimSends ==
    ASSUME SendInv, Apart, NEW o \in Op, AdoptClaim(o)
    PROVE  SendFacts'
<1>1. op[o].pc = "claim" /\ op[o].pc \in ConvSteps /\ SpawnInv
  BY DEF AdoptClaim, At, ConvSteps, SendInv
<1>2. PICK c \in Child, n \in Conv : c = op[o].a[1] /\ n = op[o].a[2]
  BY <1>1, ConvFacts
<1>3. proto[c] \in P!Snapshot
  BY <1>1 DEF SpawnInv, TypeOK
<1>4. CASE Stop(o) /\ UNCHANGED proto
  <2>1. StayRegistered /\ HolderRegistered'
    BY <1>4, SameHolders
  <2>2. Idle \in Process /\ Owns(Idle)' /\ Become(o, Idle)
    BY <1>4, IdleFacts, WaitingOwns DEF Stop, FreeSteps
  <2> QED BY <2>1, <2>2, ProtocolSends DEF AdoptClaim
<1>5. CASE /\ proto' = [proto EXCEPT ![c] = P!Claim(proto[c], n, 0, 1)]
           /\ Stop(o) \/ Run(o, "window")
  <2>1. PICK t : t = P!Claim(proto[c], n, 0, 1)
    OBVIOUS
  <2>2. /\ t.current_worker_id = n /\ t.workers[n].status = "active"
        /\ \A k \in Conv \ {n} : t.workers[k] = proto[c].workers[k]
    BY <1>3, <2>1, ClaimFacts
  <2>3. \A k \in Conv : Registered(c, k) => t.workers[k].status # "unregistered"
    BY <2>2 DEF Registered
  <2>4. StayRegistered /\ HolderRegistered' /\ proto'[c] = t
    BY <1>5, <2>1, <2>2, <2>3, CommitRegisters
  <2>5. Registered(c, n)'
    BY <2>2, <2>4 DEF Registered
  <2>6. PICK m \in Process : Become(o, m) /\ Owns(m)'
    <3>1. CASE Stop(o)
      BY <3>1, IdleFacts, WaitingOwns DEF Stop, FreeSteps
    <3>2. CASE Run(o, "window")
      <4>1. "window" \in PC
        BY DEF PC
      <4>2. PICK m \in Process : Become(o, m) /\ m.pc = "window" /\ SameWork(m, o)
        BY <1>1, <3>2, <4>1, RunFacts DEF SpawnInv
      <4>3. m.a[1] = c /\ m.a[2] = n
        BY <1>2, <4>2 DEF SameWork
      <4>4. Owns(m)'
        BY <2>5, <4>2, <4>3 DEF Owns, UnsentSteps
      <4> QED BY <4>2, <4>4
    <3> QED BY <1>5, <3>1, <3>2
  <2> QED BY <2>4, <2>6, ProtocolSends DEF AdoptClaim
<1> QED BY <1>2, <1>4, <1>5 DEF AdoptClaim

\* Steps that leave the protocol alone.
LEMMA BindingSends ==
    ASSUME SendInv, Apart, NEW o \in Op, AdoptBindWindow(o) \/ ClearBinding(o) \/ StartCooldown(o)
    PROVE  SendFacts'
<1>1. /\ op[o].pc \in AttemptSteps /\ SpawnInv /\ Owns(op[o])
      /\ UNCHANGED <<spawn, page, sends, delivered, proto>>
  BY DEF AdoptBindWindow, ClearBinding, StartCooldown, At, AttemptSteps, WindowSteps,
         SendInv, SendFacts
<1>2. StayRegistered /\ HolderRegistered'
  BY <1>1, SameHolders
<1>3. CASE Stop(o) \/ Onward(o, "send")
  <2>1. PICK m \in Process : Become(o, m) /\ Owns(m)'
    BY <1>1, <1>3, FreeRun
  <2> QED BY <1>1, <1>2, <2>1, ProtocolSends
<1>4. CASE op[o].pc = "window" /\ Run(o, "done")
  <2>1. "done" \in PC
    BY DEF PC
  <2>2. PICK m \in Process : Become(o, m) /\ m.pc = "done" /\ SameWork(m, o)
    BY <1>1, <1>4, <2>1, RunFacts DEF SpawnInv
  <2>3. Registered(m.a[1], m.a[2])'
    BY <1>1, <1>4, <2>2 DEF SameWork, Owns, Registered
  <2>4. Owns(m)'
    BY <2>2, <2>3 DEF Owns, UnsentSteps
  <2> QED BY <1>1, <1>2, <2>2, <2>4, ProtocolSends
<1>5. CASE op[o].pc = "limited" /\ Run(o, "back")
  <2>1. "back" \in PC
    BY DEF PC
  <2>2. PICK m \in Process : Become(o, m) /\ m.pc = "back" /\ SameWork(m, o)
    BY <1>1, <1>5, <2>1, RunFacts DEF SpawnInv
  <2>3. Owns(m)'
    BY <1>1, <1>5, <2>2 DEF Owns, UnsentSteps, SameWork
  <2> QED BY <1>1, <1>2, <2>2, <2>3, ProtocolSends
<1> QED BY <1>3, <1>4, <1>5 DEF AdoptBindWindow, ClearBinding, StartCooldown, At

LEMMA OtherSends ==
    ASSUME SendInv, UNCHANGED <<spawn, sends, op>>, StayRegistered, HolderRegistered', WindowInv'
    PROVE  SendFacts'
<1>1. RowInv' /\ \A c \in Child : Untouched(c)
  BY SameRows
<1>2. ASSUME NEW q \in Op PROVE Owns(op[q])'
  <2>1. PICK k \in Process : k = op[q] /\ Fits(k) /\ Owns(k)
    BY DEF SendInv, SendFacts, SpawnInv, TypeOK
  <2>2. k.pc \notin Waiting \cup Sweeping => Untouched(Min(k.todo))
    <3>1. k.pc \notin Waiting \cup Sweeping => k.todo # {}
      BY <2>1 DEF Fits
    <3>2. k.todo # {} => Min(k.todo) \in Child
      BY ThisLemma DEF Process
    <3> QED BY <1>1, <3>1, <3>2
  <2>3. Owns(k)'
    BY <2>1, <2>2, OwnsStable
  <2>4. op'[q] = k
    BY <2>1
  <2> QED BY <2>3, <2>4 DEF Owns, HasCompleted, Registered
<1> QED BY <1>1, <1>2 DEF SendFacts

\* The commands that only touch a task row, a session or the completer's own place.
LEMMA TaskSends ==
    ASSUME SendInv, NEW c \in Child,
           CreateChild(c) \/ BindSession(c) \/ CompleteLoad(c) \/ CompleteAlign(c) \/ CompleteCrash(c)
    PROVE  SendFacts'
<1>1. UNCHANGED <<spawn, sends, op, proto, page, delivered>>
  BY DEF CreateChild, BindSession, CompleteLoad, CompleteAlign, CompleteCrash
<1> QED BY <1>1, SameHolders, SameWindows, OtherSends

\* child-complete ends a worker; its registration stays.
LEMMA CompleteSends ==
    ASSUME SendInv, NEW c \in Child, CompleteEnd(c) \/ CompleteClose(c)
    PROVE  SendFacts'
<1>1. UNCHANGED <<spawn, sends, op, page, delivered>> /\ SpawnInv
  BY DEF CompleteEnd, CompleteClose, SendInv
<1>2. proto[c] \in P!Snapshot
  BY <1>1 DEF SpawnInv, TypeOK
<1>3. StayRegistered /\ HolderRegistered'
  <2>1. CASE UNCHANGED proto
    BY <2>1, SameHolders
  <2>2. CASE CompleteEnd(c) /\ ~UNCHANGED proto
    <3>1. PICK s, ok : /\ Guarded(c, ok, s, "close")
                       /\ proto[c].revision = cpl[c].rev /\ ok =>
                            \E n \in Conv : \/ s = P!CompleteWorker(proto[c], n, 0)
                                            \/ s = P!AbandonWorker(proto[c], n, 1)
      BY <1>1, <2>2, CompleteEndFacts
    <3>2. proto[c].revision = cpl[c].rev /\ ok /\ proto' = [proto EXCEPT ![c] = s]
      BY <2>2, <3>1 DEF Guarded
    <3>3. PICK n \in Conv : s = P!CompleteWorker(proto[c], n, 0) \/ s = P!AbandonWorker(proto[c], n, 1)
      BY <3>1, <3>2
    <3>4. /\ s.current_worker_id = None /\ s.workers[n].status \in {"completed", "abandoned"}
          /\ \A k \in Conv \ {n} : s.workers[k] = proto[c].workers[k]
      BY <1>2, <3>3, EndFacts
    <3>5. \A k \in Conv : Registered(c, k) => s.workers[k].status # "unregistered"
      BY <3>4 DEF Registered
    <3> QED BY <3>2, <3>4, <3>5, CommitRegisters
  <2>3. CASE CompleteClose(c) /\ ~UNCHANGED proto
    <3>1. PICK s : s = P!CompleteTask(proto[c], 1)
      OBVIOUS
    <3>2. s.current_worker_id = proto[c].current_worker_id /\ s.workers = proto[c].workers
      BY <1>2, <3>1, CompleteTaskFacts
    <3>3. proto' = [proto EXCEPT ![c] = s]
      BY <2>3, <3>1 DEF CompleteClose, Guarded
    <3>4. /\ \A k \in Conv : Registered(c, k) => s.workers[k].status # "unregistered"
          /\ s.current_worker_id # None => s.workers[s.current_worker_id].status # "unregistered"
      BY <3>2 DEF Registered, SendInv, SendFacts, HolderRegistered, Current
    <3> QED BY <3>3, <3>4, CommitRegisters
  <2> QED BY <2>1, <2>2, <2>3
<1> QED BY <1>1, <1>3, SameWindows, OtherSends

\* A Send takes effect in the only window of its child where one can.
LEMMA SettleSends ==
    ASSUME SendInv, NEW w \in Window, Settle(w)
    PROVE  SendFacts'
<1>1. UNCHANGED <<spawn, sends, op, proto>> /\ TypeOK /\ page[w].text = "sent"
  BY DEF Settle, SendInv, SpawnInv
<1>2. StayRegistered /\ HolderRegistered'
  BY <1>1, SameHolders
<1>3. PICK a \in Attempt : a = page[w].of /\ a[1] \in Child
  BY <1>1, SentPage
<1>4. Live(w)
  BY <1>1 DEF Live
<1>5. /\ sends[a] > 0 /\ delivered[a[1]] = 0
      /\ \A v \in Window \ {w} : Live(v) => page[v].of[1] # a[1]
  BY <1>3, <1>4 DEF SendInv, SendFacts, WindowInv, LiveWindows
<1>6. CASE Show(w, Chat(a, "draft")) /\ UNCHANGED delivered
  <2>1. page'[w] = Chat(a, "draft") /\ \A v \in Window \ {w} : page'[v] = page[v]
    BY <1>1, <1>6, ShowOne
  <2>2. page'[w].of = page[w].of
    BY <1>3, <2>1 DEF Chat
  <2>3. \A v \in Window : (Live(v)' => Live(v)) /\ page'[v].of = page[v].of
    BY <1>4, <2>1, <2>2 DEF Live
  <2>4. WindowInv'
    BY <1>1, <1>6, <2>3 DEF SendInv, SendFacts, WindowInv, LiveWindows, DeliveredSent, DeliveredOnce
  <2> QED BY <1>1, <1>2, <2>4, OtherSends
<1>7. CASE /\ Show(w, Chat(a, "consumed"))
           /\ delivered' = [delivered EXCEPT ![a[1]] = @ + 1]
  <2>1. page'[w] = Chat(a, "consumed") /\ \A v \in Window \ {w} : page'[v] = page[v]
    BY <1>1, <1>7, ShowOne
  <2>2. ~Live(w)' /\ \A v \in Window \ {w} : Live(v)' <=> Live(v)
    BY <2>1 DEF Live, Chat
  <2>3. delivered'[a[1]] = 1 /\ \A c \in Child : c # a[1] => delivered'[c] = delivered[c]
    BY <1>1, <1>3, <1>5, <1>7 DEF TypeOK
  <2>4. \A v \in Window : Live(v) => page[v].of[1] \in Child
    BY <1>1, SentPage DEF Live
  <2>5. LiveWindows'
    BY <1>1, <1>5, <2>1, <2>2, <2>3, <2>4 DEF SendInv, SendFacts, WindowInv, LiveWindows
  <2>6. DeliveredSent' /\ DeliveredOnce'
    BY <1>1, <1>3, <1>5, <2>3 DEF SendInv, SendFacts, WindowInv, DeliveredSent, DeliveredOnce
  <2> QED BY <1>1, <1>2, <2>5, <2>6, OtherSends DEF WindowInv
<1> QED BY <1>3, <1>6, <1>7 DEF Settle

LEMMA UserSends ==
    ASSUME SendInv, CooldownEnds \/ \E w \in Window : UserActs(w)
    PROVE  SendFacts'
<1>1. UNCHANGED <<spawn, sends, op, proto, delivered>> /\ TypeOK
  BY DEF CooldownEnds, UserActs, SendInv, SpawnInv
<1>2. \A v \in Window : Live(v)' => Live(v) /\ page'[v].of = page[v].of
  <2>1. CASE CooldownEnds
    BY <2>1 DEF CooldownEnds, Live
  <2>2. ASSUME NEW w \in Window, UserActs(w)
        PROVE  \A v \in Window : Live(v)' => Live(v) /\ page'[v].of = page[v].of
    BY <1>1, <2>2, DeadPage, DeadPages DEF UserActs
  <2> QED BY <2>1, <2>2
<1>3. WindowInv'
  BY <1>1, <1>2 DEF SendInv, SendFacts, WindowInv, LiveWindows, DeliveredSent, DeliveredOnce
<1> QED BY <1>1, <1>3, SameHolders, OtherSends

-----------------------------------------------------------------------------
LEMMA InitSends ==
    ASSUME Init PROVE SendFacts
<1>1. Unborn.state = "unborn" /\ P!NewTaskState.current_worker_id = None /\ Absent.text = "none"
  BY DEF Unborn, P!NewTaskState, Absent
<1>2. \A o \in Op : Owns(op[o])
  BY IdleFacts, WaitingOwns DEF Init, FreeSteps
<1>3. RowInv
  BY <1>1 DEF Init, RowInv, OneAttempt, Settled, SentRows, CompletedRegistered,
              SendsAreAuthorised
<1>4. HolderRegistered
  BY <1>1 DEF Init, HolderRegistered, Current
<1>5. WindowInv
  BY <1>1 DEF Init, WindowInv, LiveWindows, Live, DeliveredSent, DeliveredOnce
<1> QED BY <1>2, <1>3, <1>4, <1>5 DEF SendFacts

LEMMA StepSends ==
    ASSUME SendInv, Apart, NEW o \in Op, Step(o)
    PROVE  SendFacts'
BY ArmCheckSends, ArmRecordSends, PoolSends, OpenReadSends, OpenSubmitSends, LaunchSends,
   BindWindowSends, ConsumeSends, OpenEndSends, SendReadSends, SendWriteSends, ClickSends,
   WaitSends, SecondSubmitSends, SecondClickSends, AdoptSends, AdoptClaimSends, BindingSends,
   AdoptDoneSends, BatchSends, CloseTerminalSends, MarkClosedSends, Zenon DEF Step

LEMMA NextSends ==
    ASSUME SendInv, Apart, [Next]_vars
    PROVE  SendInv'
<1>1. SUFFICES SendFacts'
  BY NextTypes DEF SendInv
<1>2. ASSUME NEW o \in Op, Step(o) \/ Crash(o) \/ BatchCommand(o) \/ ReconcileCommand(o)
                           \/ ArmCommand(o) \/ OpenCommand(o) \/ SendCommand(o) \/ AdoptCommand(o)
      PROVE  SendFacts'
  <2>1. CASE Step(o)
    BY <2>1, StepSends
  <2>2. CASE Crash(o)
    BY <2>2, StopSends DEF Crash
  <2> QED BY <1>2, <2>1, <2>2, BatchSends, ReconcileSends, CommandSends
<1>3. ASSUME NEW c \in Child,
             CreateChild(c) \/ BindSession(c) \/ CompleteLoad(c) \/ CompleteEnd(c)
             \/ CompleteClose(c) \/ CompleteAlign(c) \/ CompleteCrash(c)
      PROVE  SendFacts'
  BY <1>3, TaskSends, CompleteSends
<1>4. CASE CooldownEnds \/ \E w \in Window : Settle(w) \/ UserActs(w)
  BY <1>4, SettleSends, UserSends
<1>5. CASE UNCHANGED vars
  BY <1>5, SameHolders, SameWindows, OtherSends DEF vars
<1> QED BY <1>2, <1>3, <1>4, <1>5 DEF Next

\* A child's prompt is consumed at most once, whatever crashes, ambiguous outcomes, recycled
\* windows, reconciliations and new attempts happen, as long as no two operators are inside
\* the same child at once.
THEOREM PromptsDeliveredOnce == Spec /\ []Apart => []DeliveredOnce
<1>1. Init => SendInv
  BY InitTypes, InitSends DEF SendInv
<1>2. SendInv /\ Apart /\ [Next]_vars => SendInv'
  BY NextSends
<1>3. SendInv => DeliveredOnce
  BY DEF SendInv, SendFacts, WindowInv
<1> QED BY <1>1, <1>2, <1>3, PTL DEF Spec

\* Send is invoked once per attempt, and a second time only after delivery_second_send_used
\* was recorded, under the same condition: a crash at any point never leads to one more.
THEOREM SendsAuthorised == Spec /\ []Apart => []SendsAreAuthorised
<1>1. Init => SendInv
  BY InitTypes, InitSends DEF SendInv
<1>2. SendInv /\ Apart /\ [Next]_vars => SendInv'
  BY NextSends
<1>3. SendInv => SendsAreAuthorised
  BY DEF SendInv, SendFacts, RowInv
<1> QED BY <1>1, <1>2, <1>3, PTL DEF Spec

\* With a single operator process, which may crash and be started again, both hold without
\* any condition: this is what the runs check on small instances.
THEOREM OneOperator ==
    ASSUME \A o, q \in Op : o = q
    PROVE  Spec => [](DeliveredOnce /\ SendsAreAuthorised)
<1>1. Apart
  BY DEF Apart
<1>2. Spec => []Apart
  BY <1>1, PTL
<1> QED BY <1>2, PromptsDeliveredOnce, SendsAuthorised, PTL

-----------------------------------------------------------------------------
(***************************************************************************)
(* The batch opens a window only within the pool.  The pool is counted     *)
(* from registry rows at one step and the window is opened three steps     *)
(* later; child-spawn-open does not look at the pool at all.  So this is   *)
(* about a single operator process that opens windows through the batch.   *)
(***************************************************************************)
Alone == \A o, q \in Op : o = q

Shows(w, a) == page[w].kind \in {"root", "chat"} /\ page[w].of = a
\* Conversation a is the current worker of its child and has window w, or the child's worker ended.
Held(a, w) == Ended(a[1]) \/ (Current(a[1]) = a[2] /\ binding[a[1]] = w)

\* The batch before it has recorded the authority to open, and between children.
EarlySteps == {"idle", "child", "arm", "record", "pool", "open", "submit", "sweep", "swept"}
OpenSteps == {"open", "submit", "launch"}
ReuseSteps == {"bind", "consume", "clear"}

\* While the batch runs no outcome is unknown but the one of its own attempt.
BatchSafe(m) ==
    m.batch => \A a \in Attempt :
                   spawn[a].state \in Ambiguous => a = m.a /\ m.pc \notin EarlySteps

\* The row of the page that the sweep is about to mark.
Swept(m) == CHOOSE a \in Attempt : a[1] = Min(m.todo) /\ spawn[a].state = "COMPLETED"

\* The operator's attempt is on show nowhere before the launch and in one window after it, and
\* a page that was closed is gone.
SeesAttempt(m) ==
    /\ m.pc = "submit" => spawn[m.a].state = "ARMED"
    /\ m.pc = "launch" => /\ spawn[m.a].state = "WINDOW_OPEN_SUBMITTED"
                          /\ \A w \in Window : ~Shows(w, m.a)
    /\ m.pc = "bind" => \A w \in Window : Shows(w, m.a) => w = m.win
    /\ m.pc = "done" => Held(m.a, spawn[m.a].win)
    /\ m.pc = "swept" => \A w \in Window : ~Shows(w, Swept(m))

\* The child whose page is taken is another one, and it still holds its page or has ended;
\* the page is gone before its record is marked, and marked before the binding is cleared.
SeesSource(m) ==
    /\ m.pc \in OpenSteps \cup ReuseSteps /\ m.src # NoSource => m.src.of[1] # Min(m.todo)
    /\ m.pc \in OpenSteps \cup ReuseSteps /\ m.src.kind = "worker" => Held(m.src.of, m.src.win)
    /\ m.pc \in OpenSteps \cup ReuseSteps /\ m.src.kind = "spawn" => spawn[m.src.of].win = m.src.win
    /\ m.pc \in ReuseSteps /\ m.src # NoSource => ~Shows(m.src.win, m.src.of)
    /\ m.pc = "clear" => /\ m.src.kind = "worker"
                         /\ m.src.of \in Unconsumed => spawn[m.src.of].win # m.src.win

Sees(m) ==
    /\ m.todo \subseteq Existing
    /\ m.pc \in {"child", "pool"} \cup OpenSteps => m.batch
    /\ BatchSafe(m) /\ SeesAttempt(m) /\ SeesSource(m)
    /\ m.pc \in OpenSteps /\ m.src = NoSource =>
           Cardinality(DispatcherPages \ m.missed) < MaxWindows

\* Rows exist for existing children; an attempt is on show only after its authority was
\* recorded, in one window, and that is the one its row has; the window of an unconsumed
\* record is held by its worker until that ends, and what was consumed is on show nowhere.
RowsExist == \A a \in Attempt : Born(a) => a[1] \in Existing
ShownRows == \A w \in Window, a \in Attempt : Shows(w, a) => spawn[a].state \notin {"unborn", "ARMED"}
OneWindow == \A v, w \in Window, a \in Attempt : Shows(v, a) /\ Shows(w, a) => v = w
RowWindow ==
    \A a \in Attempt :
        /\ spawn[a].state \in {"ARMED", "WINDOW_OPEN_SUBMITTED"} => spawn[a].win = None
        /\ spawn[a].win # None => \A w \in Window : Shows(w, a) => w = spawn[a].win
PagesHeld ==
    \A a \in Attempt :
        spawn[a].state = "COMPLETED" /\ spawn[a].consumed = "no" => Held(a, spawn[a].win)
ConsumedGone ==
    \A a \in Attempt : spawn[a].consumed # "no" =>
        spawn[a].state = "COMPLETED" /\ \A w \in Window : ~Shows(w, a)

\* The records are in the order in which they were written: any two of them are, and among
\* any of them one is the newest.
InOrder ==
    /\ \A a, b \in Completed : a = b \/ <<a, b>> \in older \/ <<b, a>> \in older
    /\ \A T \in SUBSET Attempt : T # {} => \E a \in T : \A b \in T : <<a, b>> \notin older

PageFacts ==
    RowsExist /\ ShownRows /\ OneWindow /\ RowWindow /\ PagesHeld /\ ConsumedGone /\ InOrder
PoolFacts == PageFacts /\ \A o \in Op : Sees(op[o])
PoolInv == SendInv /\ PoolFacts

\* A step after which no row is new, no window shows more, and no page is lost.
Calm ==
    /\ UNCHANGED <<spawn, older>>
    /\ \A w \in Window, a \in Attempt : Shows(w, a)' => Shows(w, a)
    /\ Existing \subseteq Existing'
    /\ \A c \in Child : Ended(c) => Ended(c)'
    /\ \A a \in Child \X Conv, w \in Window : Held(a, w) => Held(a, w)'

LEMMA CalmPages ==
    ASSUME PoolInv, TypeOK', Calm
    PROVE  PageFacts'
<1>1. UNCHANGED <<spawn, older>> /\ \A w \in Window, a \in Attempt : Shows(w, a)' => Shows(w, a)
  BY DEF Calm
<1>2. RowsExist'
  BY <1>1 DEF PoolInv, PoolFacts, PageFacts, RowsExist, Born, Calm
<1>3. ShownRows' /\ OneWindow'
  BY <1>1 DEF PoolInv, PoolFacts, PageFacts, ShownRows, OneWindow
<1>4. RowWindow' /\ ConsumedGone'
  BY <1>1 DEF PoolInv, PoolFacts, PageFacts, RowWindow, ConsumedGone
<1>5. ASSUME NEW a \in Attempt, spawn'[a].state = "COMPLETED", spawn'[a].consumed = "no"
      PROVE  Held(a, spawn[a].win)'
  <2>1. spawn[a].win \in Window /\ a \in Child \X Conv
    BY <1>1, <1>5, AttemptLemma DEF PoolInv, SendInv, SpawnInv, TypeOK, Row
  <2>2. PICK w \in Window : w = spawn[a].win /\ w = spawn'[a].win
    BY <1>1, <2>1
  <2>4. Held(a, w)
    BY <1>1, <1>5, <2>2 DEF PoolInv, PoolFacts, PageFacts, PagesHeld
  <2>5. Held(a, w)'
    BY <2>1, <2>4 DEF Calm
  <2> QED BY <2>2, <2>5 DEF Held, Ended, Current
<1>6. PagesHeld'
  BY <1>5 DEF PagesHeld
<1>7. InOrder'
  BY <1>1 DEF PoolInv, PoolFacts, PageFacts, InOrder, Completed
<1> QED BY <1>2, <1>3, <1>4, <1>6, <1>7 DEF PageFacts

\* Fewer dispatcher pages are a smaller number.
LEMMA FewerPages ==
    ASSUME DispatcherPages' \subseteq DispatcherPages, NEW M,
           Cardinality(DispatcherPages \ M) < MaxWindows
    PROVE  Cardinality(DispatcherPages' \ M) < MaxWindows
<1>1. IsFiniteSet(DispatcherPages \ M)
  BY SpawnAssumption, FS_Subset DEF DispatcherPages
<1>2. PICK S, T : S = DispatcherPages \ M /\ T = DispatcherPages' \ M /\ T \subseteq S
  OBVIOUS
<1>3. IsFiniteSet(T) /\ Cardinality(T) <= Cardinality(S)
  BY <1>1, <1>2, FS_Subset
<1>4. Cardinality(T) \in Nat /\ Cardinality(S) \in Nat
  BY <1>1, <1>2, <1>3, FS_CardinalityType
<1> QED BY <1>2, <1>3, <1>4, SpawnAssumption

LEMMA CalmPool ==
    ASSUME TypeOK', Calm
    PROVE  DispatcherPages' \subseteq DispatcherPages
<1>1. ASSUME NEW w \in Window, w \in DispatcherPages' PROVE w \in DispatcherPages
  <2>1. PICK a \in Attempt : a = page'[w].of
    <3>1. page'[w] \in Pages /\ page'[w].kind \in {"root", "chat"}
      BY <1>1 DEF TypeOK, DispatcherPages
    <3>2. page'[w].of \in Attempt
      BY <3>1, PageCases DEF Absent, Elsewhere, Root, Chat
    <3> QED BY <3>2
  <2>2. Shows(w, a)' /\ spawn'[a].state # "FAILED"
    BY <1>1, <2>1 DEF DispatcherPages, Shows
  <2>3. Shows(w, a) /\ spawn[a].state # "FAILED"
    BY <2>1, <2>2 DEF Calm
  <2> QED BY <2>3 DEF DispatcherPages, Shows
<1> QED BY <1>1 DEF DispatcherPages

\* What a process sees is stable under a calm step.
LEMMA CalmSees ==
    ASSUME PoolInv, TypeOK', Calm, NEW m \in Process, Fits(m)', Sees(m)
    PROVE  Sees(m)'
<1>1. UNCHANGED <<spawn, older>> /\ \A w \in Window, a \in Attempt : Shows(w, a)' => Shows(w, a)
  BY DEF Calm
<1>2. m.todo \subseteq Existing'
  BY DEF Sees, Calm
<1>3. BatchSafe(m)'
  BY <1>1 DEF Sees, BatchSafe
<1>4. m.pc \in AttemptSteps => m.a \in Attempt /\ m.a \in Child \X Conv
  BY AttemptLemma DEF Fits
<1>5. SeesAttempt(m)'
  <2>1. m.pc = "submit" => spawn'[m.a].state = "ARMED"
    BY <1>1 DEF Sees, SeesAttempt
  <2>2. m.pc = "launch" => /\ spawn'[m.a].state = "WINDOW_OPEN_SUBMITTED"
                           /\ \A w \in Window : ~Shows(w, m.a)'
    BY <1>1, <1>4 DEF Sees, SeesAttempt, AttemptSteps
  <2>3. m.pc = "bind" => \A w \in Window : Shows(w, m.a)' => w = m.win
    BY <1>1, <1>4 DEF Sees, SeesAttempt, AttemptSteps
  <2>4. m.pc = "done" => Held(m.a, spawn[m.a].win)'
    <3>1. SUFFICES ASSUME m.pc = "done" PROVE Held(m.a, spawn[m.a].win)'
      OBVIOUS
    <3>2. m.a \in Attempt /\ m.a \in Child \X Conv /\ spawn'[m.a].win # None
      BY <1>4, <3>1 DEF AttemptSteps, WindowSteps, Fits, HasWindow
    <3>3. PICK w \in Window : w = spawn'[m.a].win
      BY <3>2 DEF TypeOK, Row
    <3>4. Held(m.a, w)
      BY <1>1, <3>1, <3>3 DEF Sees, SeesAttempt
    <3>5. Held(m.a, w)'
      BY <3>2, <3>4 DEF Calm
    <3> QED BY <3>3, <3>5 DEF Held, Ended, Current
  <2>5. m.pc = "swept" => \A w \in Window : ~Shows(w, Swept(m))'
    <3>1. SUFFICES ASSUME m.pc = "swept", NEW w \in Window, Shows(w, Swept(m))' PROVE FALSE
      OBVIOUS
    <3>2. PICK a : a = Swept(m)
      OBVIOUS
    <3>3. Swept(m)' = a
      BY <1>1, <3>2 DEF Swept
    <3>4. Shows(w, a)'
      BY <3>1, <3>3 DEF Shows
    <3>5. page'[w] \in Pages
      BY DEF TypeOK
    <3>6. a \in Attempt
      BY <3>4, <3>5, PageCases DEF Shows, Absent, Elsewhere, Root, Chat
    <3>7. Shows(w, a)
      BY <1>1, <3>4, <3>6
    <3> QED BY <3>1, <3>2, <3>7 DEF Sees, SeesAttempt
  <2> QED BY <2>1, <2>2, <2>3, <2>4, <2>5 DEF SeesAttempt
<1>6. SeesSource(m)'
  <2>1. m.src # NoSource => m.src.of \in Child \X Conv /\ m.src.win \in Window
    BY SourceLemma DEF Process
  <2>4. m.src.kind \in {"worker", "spawn"} => m.src # NoSource
    BY DEF NoSource
  <2>2. m.pc \in OpenSteps \cup ReuseSteps /\ m.src.kind = "worker" => Held(m.src.of, m.src.win)'
    BY <2>1, <2>4 DEF Sees, SeesSource, Calm
  <2>3. m.pc \in ReuseSteps /\ m.src # NoSource => ~Shows(m.src.win, m.src.of)'
    <3>1. SUFFICES ASSUME m.pc \in ReuseSteps, m.src # NoSource, Shows(m.src.win, m.src.of)'
                   PROVE  FALSE
      OBVIOUS
    <3>2. page'[m.src.win] \in Pages
      BY <2>1, <3>1 DEF TypeOK
    <3>3. m.src.of \in Attempt
      BY <3>1, <3>2, PageCases DEF Shows, Absent, Elsewhere, Root, Chat
    <3>4. Shows(m.src.win, m.src.of)
      BY <1>1, <2>1, <3>1, <3>3
    <3> QED BY <3>1, <3>4 DEF Sees, SeesSource
  <2>5. Unconsumed' = Unconsumed
    BY <1>1 DEF Unconsumed, Completed
  <2> QED BY <1>1, <2>2, <2>3, <2>5 DEF Sees, SeesSource
<1>7. m.pc \in OpenSteps /\ m.src = NoSource => Cardinality(DispatcherPages' \ m.missed) < MaxWindows
  BY CalmPool, FewerPages DEF Sees
<1> QED BY <1>2, <1>3, <1>5, <1>6, <1>7 DEF Sees

\* With one operator, what it sees after its step is all there is to show.
LEMMA AloneSees ==
    ASSUME Alone, NEW o \in Op, NEW m, op \in [Op -> Process], Become(o, m), Sees(m)'
    PROVE  \A q \in Op : Sees(op[q])'
<1>1. op'[o] = m
  BY DEF Become
<1>2. Sees(op[o])'
  BY <1>1 DEF Sees, BatchSafe, SeesAttempt, SeesSource, Shows, Held, Ended, Current, Swept
<1> QED BY <1>2 DEF Alone

LEMMA CalmStep ==
    ASSUME PoolInv, Alone, SpawnInv', NEW o \in Op, NEW m \in Process, Become(o, m), Calm, Sees(m)
    PROVE  PoolFacts'
<1>1. op \in [Op -> Process] /\ TypeOK'
  BY DEF PoolInv, SendInv, SpawnInv, TypeOK
<1>2. Fits(m)'
  <2>1. op'[o] = m
    BY <1>1 DEF Become
  <2>2. Fits(op[o])'
    BY DEF SpawnInv
  <2> QED BY <2>1, <2>2 DEF Fits, Born, HasWindow, SafeToLeave, HasCompleted
<1>3. Sees(m)'
  BY <1>1, <1>2, CalmSees
<1> QED BY <1>1, <1>3, AloneSees, CalmPages DEF PoolFacts

LEMMA CalmOther ==
    ASSUME PoolInv, SpawnInv', UNCHANGED op, Calm
    PROVE  PoolFacts'
<1>1. ASSUME NEW o \in Op PROVE Sees(op[o])'
  <2>1. op[o] \in Process /\ op'[o] = op[o]
    BY DEF PoolInv, SendInv, SpawnInv, TypeOK
  <2>2. PICK m \in Process : m = op[o] /\ m = op'[o]
    BY <2>1
  <2>3. Fits(op[o])'
    BY DEF SpawnInv
  <2>4. Fits(m)'
    BY <2>2, <2>3 DEF Fits, Born, HasWindow, SafeToLeave, HasCompleted
  <2>5. Sees(m) /\ TypeOK'
    BY <2>2 DEF PoolInv, PoolFacts, SpawnInv
  <2>6. Sees(m)'
    BY <2>4, <2>5, CalmSees
  <2> QED BY <2>2, <2>6 DEF Sees, BatchSafe, SeesAttempt, SeesSource, Shows, Held, Ended, Current, Swept
<1> QED BY <1>1, CalmPages DEF PoolFacts, SpawnInv

\* At a plain step a process sees nothing but its children and that the batch is safe.
SpecialSteps == {"done", "swept"} \cup OpenSteps \cup ReuseSteps

LEMMA PlainSees ==
    ASSUME NEW m, m.pc \notin SpecialSteps, m.pc \in {"child", "pool"} => m.batch
    PROVE  /\ m.todo \subseteq Existing /\ BatchSafe(m) => Sees(m)
           /\ m.todo \subseteq Existing' /\ BatchSafe(m)' => Sees(m)'
BY DEF Sees, SeesAttempt, SeesSource, SpecialSteps, OpenSteps, ReuseSteps

\* The batch goes on before it has recorded anything, or with the attempt it is working on.
GoesOn(o, m) ==
    /\ m.todo \subseteq op[o].todo
    /\ m.batch => op[o].batch /\ \/ op[o].pc \in EarlySteps
                                 \/ m.a = op[o].a /\ m.pc \notin EarlySteps

LEMMA GoesOnSafe ==
    ASSUME PoolInv, NEW o \in Op, NEW m, GoesOn(o, m)
    PROVE  m.todo \subseteq Existing /\ BatchSafe(m)
<1>1. Sees(op[o])
  BY DEF PoolInv, PoolFacts
<1> QED BY <1>1 DEF Sees, BatchSafe, GoesOn

LEMMA PlainStep ==
    ASSUME PoolInv, Alone, SpawnInv', NEW o \in Op, NEW m \in Process, Become(o, m), Calm,
           m.pc \notin SpecialSteps, m.pc \in {"child", "pool"} => m.batch, GoesOn(o, m)
    PROVE  PoolFacts'
BY GoesOnSafe, PlainSees, CalmStep

\* The process stops.
LEMMA CalmStop ==
    ASSUME PoolInv, Alone, SpawnInv', NEW o \in Op, Stop(o), Calm
    PROVE  PoolFacts'
<1>1. Idle.batch = FALSE /\ Idle.pc = "idle" /\ Idle.todo = {} /\ Idle \in Process
  BY IdleFacts DEF Idle
<1>2. Idle.pc \notin SpecialSteps /\ GoesOn(o, Idle)
  BY <1>1 DEF SpecialSteps, OpenSteps, ReuseSteps, GoesOn
<1> QED BY <1>1, <1>2, PlainStep DEF Stop

\* It runs on with the same work.
LEMMA CalmRun ==
    ASSUME PoolInv, Alone, SpawnInv', NEW o \in Op, NEW pc \in PC, Run(o, pc), Calm,
           pc \notin SpecialSteps \cup {"child", "pool"},
           op[o].pc \in EarlySteps \/ pc \notin EarlySteps
    PROVE  PoolFacts'
<1>1. PICK m \in Process : Become(o, m) /\ m.pc = pc /\ SameWork(m, o)
  BY RunFacts DEF PoolInv, SendInv, SpawnInv
<1>2. GoesOn(o, m)
  BY <1>1 DEF GoesOn, SameWork
<1> QED BY <1>1, <1>2, PlainStep

LEMMA OnlyOpCalm ==
    ASSUME OnlyOp
    PROVE  Calm
BY DEF OnlyOp, Calm, Shows, Held, Ended, Current, Existing

-----------------------------------------------------------------------------
(***************************************************************************)
(* The pool facts, action by action: steps that change only the process.   *)
(***************************************************************************)
LEMMA BecomeProcess ==
    ASSUME PoolInv, SpawnInv', NEW o \in Op, NEW m, Become(o, m)
    PROVE  m \in Process
<1>1. op \in [Op -> Process] /\ op' \in [Op -> Process]
  BY DEF PoolInv, SendInv, SpawnInv, TypeOK
<1>2. op'[o] = m
  BY <1>1 DEF Become
<1> QED BY <1>1, <1>2

LEMMA QuietOpPool ==
    ASSUME PoolInv, Alone, SpawnInv', NEW o \in Op,
           ArmCheck(o) \/ WaitForConversation(o) \/ WaitForDelivery(o) \/ Crash(o)
    PROVE  PoolFacts'
<1>1. Calm
  BY OnlyOpCalm DEF ArmCheck, WaitForConversation, WaitForDelivery, Crash
<1>2. CASE Stop(o)
  BY <1>1, <1>2, CalmStop
<1>3. CASE ArmCheck(o) /\ Run(o, "record")
  <2>1. "record" \in PC /\ "record" \notin SpecialSteps /\ op[o].pc \in EarlySteps
    BY <1>3 DEF PC, SpecialSteps, OpenSteps, ReuseSteps, ArmCheck, At, EarlySteps
  <2> QED BY <1>1, <1>3, <2>1, CalmRun
<1>4. CASE \E pc \in {"wait", "maybe", "adopt", "second"} : Run(o, pc)
  <2>1. \A pc \in {"wait", "maybe", "adopt", "second"} :
            pc \in PC /\ pc \notin SpecialSteps \cup {"child", "pool"} /\ pc \notin EarlySteps
    BY DEF PC, SpecialSteps, OpenSteps, ReuseSteps, EarlySteps
  <2> QED BY <1>1, <1>4, <2>1, CalmRun
<1> QED BY <1>2, <1>3, <1>4 DEF ArmCheck, WaitForConversation, WaitForDelivery, Crash

LEMMA SendReadPool ==
    ASSUME PoolInv, Alone, SpawnInv', NEW o \in Op, SendRead(o)
    PROVE  PoolFacts'
<1>1. Calm /\ op[o].pc = "send" /\ op[o] \in Process
  BY OnlyOpCalm DEF SendRead, At, PoolInv, SendInv, SpawnInv, TypeOK
<1>2. CASE Stop(o)
  BY <1>1, <1>2, CalmStop
<1>3. CASE Run(o, "prompt")
  <2>1. "prompt" \in PC /\ "prompt" \notin SpecialSteps /\ "prompt" \notin EarlySteps
    BY DEF PC, SpecialSteps, OpenSteps, ReuseSteps, EarlySteps
  <2> QED BY <1>1, <1>3, <2>1, CalmRun
<1>4. CASE cooldown
  <2>1. PICK m : m = [op[o] EXCEPT !.pc = "cool", !.seen = spawn[op[o].a].state]
    OBVIOUS
  <2>2. /\ Become(o, m) /\ m.pc = "cool" /\ m.a = op[o].a /\ m.batch = op[o].batch
        /\ m.todo = op[o].todo
    BY <1>1, <1>4, <2>1 DEF SendRead, Process
  <2>3. m \in Process
    BY <2>2, BecomeProcess
  <2>4. m.pc \notin SpecialSteps \cup {"child", "pool"} /\ GoesOn(o, m)
    BY <2>2 DEF SpecialSteps, OpenSteps, ReuseSteps, GoesOn, EarlySteps
  <2> QED BY <1>1, <2>2, <2>3, <2>4, PlainStep
<1> QED BY <1>2, <1>3, <1>4 DEF SendRead

\* A single command is no batch: it only needs its child to exist.
LEMMA StartPool ==
    ASSUME PoolInv, Alone, SpawnInv', NEW o \in Op, NEW pc \in PC, NEW c \in Existing,
           NEW a \in (Child \X Conv) \cup {None}, Start(o, pc, c, a), OnlyOp,
           pc \notin SpecialSteps \cup {"child", "pool"}
    PROVE  PoolFacts'
<1>1. PICK m : m = [Idle EXCEPT !.pc = pc, !.todo = {c}, !.a = a]
  OBVIOUS
<1>2. Become(o, m) /\ m.pc = pc /\ m.todo = {c} /\ m.batch = FALSE
  BY <1>1 DEF Start, Idle
<1>3. m \in Process
  BY <1>2, BecomeProcess
<1>4. m.todo \subseteq Existing /\ BatchSafe(m)
  BY <1>2 DEF BatchSafe
<1>5. Sees(m)
  BY <1>2, <1>4, PlainSees
<1> QED BY <1>2, <1>3, <1>5, OnlyOpCalm, CalmStep

LEMMA CommandPool ==
    ASSUME PoolInv, Alone, SpawnInv', NEW o \in Op,
           ArmCommand(o) \/ SendCommand(o) \/ AdoptCommand(o)
    PROVE  PoolFacts'
<1>1. \A pc \in {"arm", "send", "adopt"} : pc \in PC /\ pc \notin SpecialSteps \cup {"child", "pool"}
  BY DEF PC, SpecialSteps, OpenSteps, ReuseSteps
<1>2. CASE ArmCommand(o)
  BY <1>1, <1>2, StartPool DEF ArmCommand
<1>3. CASE SendCommand(o)
  <2>1. PICK a \in Attempt : Born(a) /\ Start(o, "send", a[1], a)
    BY <1>3 DEF SendCommand, Born
  <2>2. a[1] \in Existing /\ a \in Child \X Conv
    BY <2>1, AttemptLemma DEF PoolInv, PoolFacts, PageFacts, RowsExist
  <2> QED BY <1>1, <1>3, <2>1, <2>2, StartPool DEF SendCommand
<1>4. CASE AdoptCommand(o)
  <2>1. PICK c \in Existing : Start(o, "adopt", c, <<c, 0>>)
    BY <1>4 DEF AdoptCommand
  <2>2. <<c, 0>> \in Child \X Conv
    BY AttemptLemma DEF Existing
  <2> QED BY <1>1, <1>4, <2>1, <2>2, StartPool DEF AdoptCommand
<1> QED BY <1>2, <1>3, <1>4

\* reconcile binds the window that shows the tagged root, and no other shows the attempt.
LEMMA ReconcilePool ==
    ASSUME PoolInv, Alone, SpawnInv', NEW o \in Op, ReconcileCommand(o)
    PROVE  PoolFacts'
<1>1. \A pc \in {"maybe", "adopt"} : pc \in PC /\ pc \notin SpecialSteps \cup {"child", "pool"}
  BY DEF PC, SpecialSteps, OpenSteps, ReuseSteps
<1>2. PICK a \in Attempt :
         /\ Born(a)
         /\ \/ /\ Cardinality(TaggedWindows(a)) = 1
               /\ Become(o, [Idle EXCEPT !.pc = "bind", !.todo = {a[1]}, !.a = a,
                                         !.win = CHOOSE w \in TaggedWindows(a) : TRUE])
            \/ Start(o, "maybe", a[1], a) \/ Start(o, "adopt", a[1], a)
  BY DEF ReconcileCommand, Born, Unresolved, Ambiguous
<1>3. a[1] \in Existing /\ a \in Child \X Conv
  BY <1>2, AttemptLemma DEF PoolInv, PoolFacts, PageFacts, RowsExist
<1>4. CASE Start(o, "maybe", a[1], a) \/ Start(o, "adopt", a[1], a)
  BY <1>1, <1>3, <1>4, StartPool DEF ReconcileCommand
<1>5. CASE /\ Cardinality(TaggedWindows(a)) = 1
           /\ Become(o, [Idle EXCEPT !.pc = "bind", !.todo = {a[1]}, !.a = a,
                                     !.win = CHOOSE w \in TaggedWindows(a) : TRUE])
  <2>1. TaggedWindows(a) # {}
    <3>1. Cardinality({}) = 0
      BY FS_EmptySet
    <3> QED BY <1>5, <3>1
  <2>2. PICK v \in TaggedWindows(a) : v = CHOOSE w \in TaggedWindows(a) : TRUE
    BY <2>1
  <2>3. PICK m : m = [Idle EXCEPT !.pc = "bind", !.todo = {a[1]}, !.a = a, !.win = v]
    OBVIOUS
  <2>4. /\ Become(o, m) /\ m.pc = "bind" /\ m.a = a /\ m.win = v /\ m.todo = {a[1]}
        /\ m.batch = FALSE /\ m.src = NoSource /\ m.src.kind = "none"
    BY <1>5, <2>2, <2>3 DEF Idle, NoSource
  <2>5. m \in Process
    BY <2>4, BecomeProcess
  <2>6. v \in Window /\ Shows(v, a)
    BY <2>2 DEF TaggedWindows, IsRoot, Shows
  <2>7. \A w \in Window : Shows(w, a) => w = v
    BY <2>6 DEF PoolInv, PoolFacts, PageFacts, OneWindow
  <2>8. Sees(m)
    BY <1>3, <2>4, <2>7 DEF Sees, BatchSafe, SeesAttempt, SeesSource, OpenSteps, ReuseSteps
  <2> QED BY <2>4, <2>5, <2>8, OnlyOpCalm, CalmStep DEF ReconcileCommand
<1> QED BY <1>2, <1>4, <1>5

\* The batch starts when no outcome is unknown, and keeps it so while it only looks.
LEMMA BatchCommandPool ==
    ASSUME PoolInv, Alone, SpawnInv', NEW o \in Op, BatchCommand(o)
    PROVE  PoolFacts'
<1>1. PICK m : m = [Idle EXCEPT !.pc = "child", !.batch = TRUE, !.todo = Existing]
  OBVIOUS
<1>2. Become(o, m) /\ m.pc = "child" /\ m.batch = TRUE /\ m.todo = Existing
  BY <1>1 DEF BatchCommand, Idle
<1>3. m \in Process
  BY <1>2, BecomeProcess
<1>4. ASSUME NEW a \in Attempt, spawn[a].state \in Ambiguous PROVE FALSE
  <2>1. a[1] \in Existing
    BY <1>4 DEF PoolInv, PoolFacts, PageFacts, RowsExist, Born, Ambiguous
  <2>2. a \in AmbiguousOf(a[1])
    BY <1>4 DEF AmbiguousOf, UnresolvedOf, Unresolved
  <2> QED BY <2>1, <2>2 DEF BatchCommand
<1>5. Sees(m)
  BY <1>2, <1>4, PlainSees DEF BatchSafe, SpecialSteps, OpenSteps, ReuseSteps
<1> QED BY <1>2, <1>3, <1>5, OnlyOpCalm, CalmStep DEF BatchCommand

LEMMA NextChildGoesOn ==
    ASSUME PoolInv, SpawnInv', NEW o \in Op, NextChild(o)
    PROVE  \E m \in Process : /\ Become(o, m) /\ m.pc = "child" /\ m.batch = TRUE
                              /\ m.todo \subseteq op[o].todo
<1>1. PICK m : m = [Idle EXCEPT !.pc = "child", !.batch = TRUE, !.todo = op[o].todo \ {This(o)}]
  OBVIOUS
<1>2. Become(o, m) /\ m.pc = "child" /\ m.batch = TRUE /\ m.todo \subseteq op[o].todo
  BY <1>1 DEF NextChild, Idle
<1> QED BY <1>2, BecomeProcess

LEMMA BatchChildPool ==
    ASSUME PoolInv, Alone, SpawnInv', NEW o \in Op, BatchChild(o)
    PROVE  PoolFacts'
<1>1. Calm /\ op[o].pc = "child" /\ op[o] \in Process /\ op[o].batch /\ Sees(op[o])
  BY OnlyOpCalm DEF BatchChild, At, PoolInv, PoolFacts, Sees, SendInv, SpawnInv, TypeOK
<1>2. op[o].pc \in EarlySteps
  BY <1>1 DEF EarlySteps
<1>3. CASE NextChild(o)
  <2>1. PICK m \in Process : /\ Become(o, m) /\ m.pc = "child" /\ m.batch = TRUE
                             /\ m.todo \subseteq op[o].todo
    BY <1>3, NextChildGoesOn
  <2>2. m.pc \notin SpecialSteps /\ GoesOn(o, m)
    BY <1>1, <1>2, <2>1 DEF SpecialSteps, OpenSteps, ReuseSteps, GoesOn
  <2> QED BY <1>1, <2>1, <2>2, PlainStep
<1>4. CASE Run(o, "arm")
  <2>1. "arm" \in PC /\ "arm" \notin SpecialSteps
    BY DEF PC, SpecialSteps, OpenSteps, ReuseSteps
  <2> QED BY <1>1, <1>2, <1>4, <2>1, CalmRun
<1>5. CASE \E pc \in {"pool", "send"}, a \in UnresolvedOf(This(o)) :
              Become(o, [op[o] EXCEPT !.pc = pc, !.a = a])
  <2>1. PICK pc \in {"pool", "send"}, a \in UnresolvedOf(This(o)) :
              Become(o, [op[o] EXCEPT !.pc = pc, !.a = a])
    BY <1>5
  <2>2. PICK m : m = [op[o] EXCEPT !.pc = pc, !.a = a]
    OBVIOUS
  <2>3. Become(o, m) /\ m.pc = pc /\ m.batch = op[o].batch /\ m.todo = op[o].todo
    BY <1>1, <2>1, <2>2 DEF Process
  <2>4. m \in Process
    BY <2>3, BecomeProcess
  <2>5. m.pc \notin SpecialSteps /\ GoesOn(o, m)
    BY <1>1, <1>2, <2>3 DEF SpecialSteps, OpenSteps, ReuseSteps, GoesOn
  <2> QED BY <1>1, <2>3, <2>4, <2>5, PlainStep
<1> QED BY <1>3, <1>4, <1>5 DEF BatchChild

LEMMA BatchSweepPool ==
    ASSUME PoolInv, Alone, SpawnInv', NEW o \in Op, BatchSweep(o)
    PROVE  PoolFacts'
<1>1. Calm /\ op[o].pc = "child" /\ op[o] \in Process /\ Sees(op[o])
  BY OnlyOpCalm DEF BatchSweep, At, PoolInv, PoolFacts, SendInv, SpawnInv, TypeOK
<1>2. CASE Stop(o)
  BY <1>1, <1>2, CalmStop
<1>3. CASE Become(o, [op[o] EXCEPT !.pc = "sweep", !.todo = {a[1] : a \in TerminalSources}])
  <2>1. PICK m : m = [op[o] EXCEPT !.pc = "sweep", !.todo = {a[1] : a \in TerminalSources}]
    OBVIOUS
  <2>2. /\ Become(o, m) /\ m.pc = "sweep" /\ m.todo = {a[1] : a \in TerminalSources}
        /\ m.batch = op[o].batch
    BY <1>1, <1>3, <2>1 DEF Process
  <2>3. m \in Process
    BY <2>2, BecomeProcess
  <2>4. \A a \in TerminalSources : a[1] \in Existing
    BY DEF TerminalSources, LatestOwners, Unconsumed, Completed,
           PoolInv, PoolFacts, PageFacts, RowsExist, Born
  <2>5. m.todo \subseteq Existing /\ BatchSafe(m)
    BY <1>1, <2>2, <2>4 DEF Sees, BatchSafe, EarlySteps
  <2>6. Sees(m)
    BY <2>2, <2>5, PlainSees DEF SpecialSteps, OpenSteps, ReuseSteps
  <2> QED BY <1>1, <2>2, <2>3, <2>6, CalmStep
<1> QED BY <1>2, <1>3 DEF BatchSweep

\* When the batch looks, the rows count every page they can: no outcome is unknown, so what is
\* on show is a bound window or the page of an unconsumed record; the newest such record of
\* that window is held by its worker, or its child is terminal, or it is completing.
LEMMA PoolCountsPages ==
    ASSUME PoolInv, \A a \in Attempt : spawn[a].state \notin Ambiguous
    PROVE  DispatcherPages \ MissedWindows \subseteq PoolWindows /\ PoolWindows \subseteq Window
<1>1. /\ spawn \in [Attempt -> Row] /\ binding \in [Child -> Window \cup {None}] /\ TypeOK
      /\ \A a \in Attempt : spawn[a].win \in Window \cup {None} /\ spawn[a].state \in SpawnState
  BY DEF PoolInv, SendInv, SpawnInv, TypeOK, Row
<1>2. ASSUME NEW w \in Window, w \in DispatcherPages, w \notin MissedWindows PROVE w \in PoolWindows
  <2>1. page[w].kind \in {"root", "chat"}
    BY <1>2 DEF DispatcherPages
  <2>2. PICK a \in Attempt : a = page[w].of
    BY <1>1, <2>1, SentPage
  <2>3. Shows(w, a) /\ spawn[a].state # "FAILED"
    BY <1>2, <2>1, <2>2 DEF DispatcherPages, Shows
  <2>4. spawn[a].state \in {"WINDOW_BOUND", "COMPLETED"}
    BY <1>1, <2>3 DEF PoolInv, PoolFacts, PageFacts, ShownRows, SpawnState, Unresolved
  <2>5. spawn[a].win # None
    BY <1>1, <2>4 DEF TypeOK
  <2>6. spawn[a].win = w /\ w # None
    BY <2>3, <2>5 DEF PoolInv, PoolFacts, PageFacts, RowWindow
  <2>7. CASE spawn[a].state = "WINDOW_BOUND"
    <3>1. a \in UnresolvedOf(a[1])
      BY <2>7 DEF UnresolvedOf, Unresolved
    <3> QED BY <2>6, <3>1 DEF HeldWindows, PoolWindows
  <2>8. CASE spawn[a].state = "COMPLETED"
    <3>1. a \in Unconsumed
      BY <2>3, <2>8 DEF PoolInv, PoolFacts, PageFacts, ConsumedGone, Unconsumed, Completed
    <3>2. PICK T : T = {b \in Unconsumed : spawn[b].win = w}
      OBVIOUS
    <3>3. T # {} /\ T \in SUBSET Attempt
      BY <2>6, <3>1, <3>2 DEF Unconsumed, Completed
    <3>4. PICK l \in T : \A b \in T : <<l, b>> \notin older
      BY <3>3 DEF PoolInv, PoolFacts, PageFacts, InOrder
    <3>5. l \in Unconsumed /\ l \in Attempt /\ spawn[l].win = w /\ spawn[l].state = "COMPLETED"
      BY <3>2, <3>4 DEF Unconsumed, Completed
    <3>6. l \in LatestOwners
      <4>1. ASSUME NEW b \in Unconsumed \ {l}, spawn[b].win = w PROVE <<b, l>> \in older
        <5>1. <<l, b>> \notin older
          BY <3>2, <3>4, <4>1
        <5> QED BY <3>5, <4>1, <5>1 DEF PoolInv, PoolFacts, PageFacts, InOrder, Unconsumed
      <4> QED BY <3>5, <4>1 DEF LatestOwners
    <3>7. Held(l, w)
      BY <3>5 DEF PoolInv, PoolFacts, PageFacts, PagesHeld, Unconsumed
    <3>8. l[1] \in Existing /\ l[2] # None
      BY <3>5, AttemptLemma DEF PoolInv, PoolFacts, PageFacts, RowsExist, Born
    <3>9. CASE Current(l[1]) = l[2] /\ binding[l[1]] = w
      BY <2>6, <3>8, <3>9 DEF HeldWindows, HasPage, PoolWindows
    <3>10. CASE Ended(l[1])
      <4>1. task[l[1]] = "COMPLETED"
        BY <1>2, <3>5, <3>10 DEF MissedWindows
      <4> QED BY <3>5, <3>6, <4>1 DEF TerminalSources, PoolWindows
    <3> QED BY <3>7, <3>9, <3>10 DEF Held
  <2> QED BY <2>4, <2>7, <2>8
<1>3. HeldWindows \subseteq Window
  BY <1>1 DEF HeldWindows, Existing
<1>4. \A a \in TerminalSources : spawn[a].win \in Window
  BY <1>1 DEF TerminalSources, LatestOwners, Unconsumed, Completed, TypeOK
<1> QED BY <1>2, <1>3, <1>4 DEF PoolWindows, DispatcherPages

LEMMA PoolPool ==
    ASSUME PoolInv, Alone, SpawnInv', NEW o \in Op, Pool(o)
    PROVE  PoolFacts'
<1>1. /\ Calm /\ op[o].pc = "pool" /\ op[o] \in Process /\ Sees(op[o]) /\ Fits(op[o])
      /\ op[o].batch /\ TypeOK
  BY OnlyOpCalm DEF Pool, At, PoolInv, PoolFacts, Sees, SendInv, SpawnInv, TypeOK
<1>2. CASE Stop(o)
  BY <1>1, <1>2, CalmStop
<1>3. CASE ~Stop(o)
  <2>1. op[o].todo # {}
    BY <1>1 DEF Fits, Waiting
  <2>2. This(o) \in Child
    BY <1>1, <2>1, ThisLemma DEF This, Process
  <2>3. PICK src : src = SourceFor(This(o))
    OBVIOUS
  <2>4. /\ src # NoSource => src.of[1] # This(o)
        /\ src.kind = "worker" => Current(src.of[1]) = src.of[2] /\ binding[src.of[1]] = src.win
        /\ src.kind = "spawn" => spawn[src.of].win = src.win
    BY <1>1, <2>2, <2>3, SourceForLemma
  <2>5. PICK m : m = [op[o] EXCEPT !.pc = "open", !.src = src, !.missed = MissedWindows]
    OBVIOUS
  <2>6. /\ Become(o, m) /\ m.pc = "open" /\ m.src = src /\ m.todo = op[o].todo
        /\ m.batch = op[o].batch /\ m.a = op[o].a /\ m.missed = MissedWindows
    BY <1>1, <1>3, <2>3, <2>5 DEF Pool, Process
  <2>7. m \in Process
    BY <2>6, BecomeProcess
  <2>8. src = NoSource => Cardinality(DispatcherPages \ m.missed) < MaxWindows
    <3>1. SUFFICES ASSUME src = NoSource PROVE Cardinality(DispatcherPages \ m.missed) < MaxWindows
      OBVIOUS
    <3>2. Cardinality(PoolWindows) < MaxWindows
      BY <1>3, <2>3, <3>1 DEF Pool
    <3>3. \A a \in Attempt : spawn[a].state \notin Ambiguous
      BY <1>1 DEF Sees, BatchSafe, EarlySteps
    <3>4. PICK S : S = DispatcherPages \ m.missed
      OBVIOUS
    <3>5. S \subseteq PoolWindows /\ PoolWindows \subseteq Window
      BY <2>6, <3>3, <3>4, PoolCountsPages
    <3>6. IsFiniteSet(PoolWindows)
      BY <3>5, SpawnAssumption, FS_Subset
    <3>7. IsFiniteSet(S) /\ Cardinality(S) <= Cardinality(PoolWindows)
      BY <3>5, <3>6, FS_Subset
    <3>8. Cardinality(S) \in Nat /\ Cardinality(PoolWindows) \in Nat
      BY <3>6, <3>7, FS_CardinalityType
    <3> QED BY <3>2, <3>4, <3>7, <3>8, SpawnAssumption
  <2>9. BatchSafe(m)
    BY <1>1, <2>6 DEF Sees, BatchSafe, EarlySteps
  <2>10. SeesSource(m) /\ SeesAttempt(m)
    BY <2>4, <2>6 DEF SeesSource, SeesAttempt, Held, This, ReuseSteps
  <2>11. Sees(m)
    BY <1>1, <2>6, <2>8, <2>9, <2>10 DEF Sees
  <2> QED BY <1>1, <2>6, <2>7, <2>11, CalmStep
<1> QED BY <1>2, <1>3

LEMMA OpenReadPool ==
    ASSUME PoolInv, Alone, SpawnInv', NEW o \in Op, OpenRead(o)
    PROVE  PoolFacts'
<1>1. Calm /\ op[o].pc = "open" /\ Sees(op[o]) /\ TypeOK
  BY OnlyOpCalm DEF OpenRead, At, PoolInv, PoolFacts, SendInv, SpawnInv
<1>2. CASE Stop(o)
  BY <1>1, <1>2, CalmStop
<1>3. CASE spawn[op[o].a].state = "ARMED" /\ Run(o, "submit")
  <2>1. "submit" \in PC
    BY DEF PC
  <2>2. PICK m \in Process : Become(o, m) /\ m.pc = "submit" /\ SameWork(m, o)
    BY <1>1, <1>3, <2>1, RunFacts
  <2>3. BatchSafe(m)
    BY <1>1, <2>2 DEF Sees, BatchSafe, EarlySteps, SameWork
  <2>4. SeesSource(m) /\ SeesAttempt(m)
    BY <1>1, <1>3, <2>2 DEF Sees, SeesSource, SeesAttempt, SameWork, OpenSteps, ReuseSteps
  <2>5. Sees(m)
    BY <1>1, <2>2, <2>3, <2>4 DEF Sees, OpenSteps, SameWork
  <2> QED BY <1>1, <2>2, <2>5, CalmStep
<1> QED BY <1>2, <1>3 DEF OpenRead

-----------------------------------------------------------------------------
(***************************************************************************)
(* Steps that write a row.                                                 *)
(***************************************************************************)
\* What a written row must say about the windows.
RowShown(a, row) ==
    /\ row.state # "unborn" /\ a[1] \in Existing
    /\ row.state = "ARMED" => \A w \in Window : ~Shows(w, a)
    /\ row.state \in {"ARMED", "WINDOW_OPEN_SUBMITTED"} => row.win = None
    /\ row.win # None => \A w \in Window : Shows(w, a) => w = row.win
    /\ row.state = "COMPLETED" /\ row.consumed = "no" => Held(a, row.win)
    /\ row.consumed # "no" => row.state = "COMPLETED" /\ \A w \in Window : ~Shows(w, a)

\* The written record is the newest one.
LEMMA UpdateOrder ==
    ASSUME TypeOK, InOrder, NEW a \in Attempt, NEW row \in Row, Update(a, row)
    PROVE  InOrder'
<1>1. /\ spawn'[a] = row /\ \A b \in Attempt : b # a => spawn'[b] = spawn[b]
      /\ older \subseteq Attempt \X Attempt /\ Completed \subseteq Attempt
  BY DEF Update, TypeOK, Completed
<1>2. CASE row.state # "COMPLETED"
  <2>1. older' = older
    BY <1>2 DEF Update
  <2>2. Completed' \subseteq Completed
    BY <1>1, <1>2 DEF Completed
  <2> QED BY <2>1, <2>2 DEF InOrder
<1>3. CASE row.state = "COMPLETED"
  <2>1. older' = {p \in older : p[1] # a} \cup (Completed \ {a}) \X {a}
    BY <1>3 DEF Update
  <2>2. \A b, d \in Attempt : <<b, d>> \in older' <=>
            b # a /\ (<<b, d>> \in older \/ (b \in Completed /\ d = a))
    BY <2>1
  <2>3. \A b \in Attempt : b \in Completed' <=> b = a \/ b \in Completed
    BY <1>1, <1>3 DEF Completed
  <2>4. Completed' \subseteq Attempt
    BY DEF Completed
  <2>5. ASSUME NEW b \in Completed', NEW d \in Completed', b # d
        PROVE  <<b, d>> \in older' \/ <<d, b>> \in older'
    BY <2>2, <2>3, <2>4, <2>5 DEF InOrder
  <2>6. ASSUME NEW T \in SUBSET Attempt, T # {}
        PROVE  \E b \in T : \A d \in T : <<b, d>> \notin older'
    <3>1. CASE a \in T
      BY <2>2, <3>1
    <3>2. CASE a \notin T
      <4>1. PICK b \in T : \A d \in T : <<b, d>> \notin older
        BY <2>6 DEF InOrder
      <4> QED BY <2>2, <3>2, <4>1
    <3> QED BY <3>1, <3>2
  <2> QED BY <2>5, <2>6 DEF InOrder
<1> QED BY <1>2, <1>3

LEMMA RowPages ==
    ASSUME PoolInv, OnlySpawn, NEW a \in Attempt, NEW row \in Row,
           Update(a, row), RowShown(a, row)
    PROVE  PageFacts'
<1>1. spawn'[a] = row /\ \A b \in Attempt : b # a => spawn'[b] = spawn[b]
  BY DEF PoolInv, SendInv, SpawnInv, TypeOK, Update
<1>2. UNCHANGED <<task, proto, binding, page>>
  BY DEF OnlySpawn
<1>3. RowsExist'
  BY <1>1, <1>2 DEF PoolInv, PoolFacts, PageFacts, RowsExist, Born, Existing, RowShown
<1>4. ShownRows'
  BY <1>1, <1>2 DEF PoolInv, PoolFacts, PageFacts, ShownRows, Shows, RowShown
<1>5. OneWindow'
  BY <1>2 DEF PoolInv, PoolFacts, PageFacts, OneWindow, Shows
<1>6. RowWindow' /\ ConsumedGone'
  BY <1>1, <1>2 DEF PoolInv, PoolFacts, PageFacts, RowWindow, ConsumedGone, Shows, RowShown
<1>7. PagesHeld'
  <2>1. ASSUME NEW b \in Attempt, spawn'[b].state = "COMPLETED", spawn'[b].consumed = "no"
        PROVE  Held(b, spawn[b].win)'
    <3>1. PICK w : w = spawn'[b].win
      OBVIOUS
    <3>2. Held(b, w)
      BY <1>1, <2>1, <3>1 DEF PoolInv, PoolFacts, PageFacts, PagesHeld, RowShown
    <3> QED BY <1>2, <3>1, <3>2 DEF Held, Ended, Current
  <2> QED BY <2>1 DEF PagesHeld
<1>8. InOrder'
  BY UpdateOrder DEF PoolInv, PoolFacts, PageFacts, SendInv, SpawnInv
<1> QED BY <1>3, <1>4, <1>5, <1>6, <1>7, <1>8 DEF PageFacts

\* No outcome becomes unknown but the one of the operator's own attempt.
WritesSafely(o, m, a, row) ==
    m.batch =>
        /\ op[o].batch
        /\ \/ m.a = op[o].a /\ m.pc \notin EarlySteps /\ (a = op[o].a \/ row.state \notin Ambiguous)
           \/ row.state \notin Ambiguous /\ (a = op[o].a \/ op[o].pc \in EarlySteps)

LEMMA RowSafe ==
    ASSUME PoolInv, NEW o \in Op, NEW m, NEW a \in Attempt, NEW row \in Row,
           Update(a, row), WritesSafely(o, m, a, row)
    PROVE  BatchSafe(m)'
<1>1. spawn'[a] = row /\ \A b \in Attempt : b # a => spawn'[b] = spawn[b]
  BY DEF PoolInv, SendInv, SpawnInv, TypeOK, Update
<1>2. BatchSafe(op[o])
  BY DEF PoolInv, PoolFacts, Sees
<1> QED BY <1>1, <1>2 DEF BatchSafe, WritesSafely

LEMMA RowPool ==
    ASSUME PoolInv, Alone, NEW o \in Op, NEW m, Become(o, m), OnlySpawn,
           NEW a \in Attempt, NEW row \in Row, Update(a, row),
           RowShown(a, row), Sees(m)'
    PROVE  PoolFacts'
<1>1. op \in [Op -> Process]
  BY DEF PoolInv, SendInv, SpawnInv, TypeOK
<1> QED BY <1>1, RowPages, AloneSees DEF PoolFacts

LEMMA PlainRow ==
    ASSUME PoolInv, Alone, NEW o \in Op, NEW m, Become(o, m), OnlySpawn,
           NEW a \in Attempt, NEW row \in Row, Update(a, row),
           RowShown(a, row), WritesSafely(o, m, a, row), m.todo \subseteq op[o].todo,
           m.pc \notin SpecialSteps, m.pc \in {"child", "pool"} => m.batch
    PROVE  PoolFacts'
<1>1. m.todo \subseteq Existing'
  BY DEF PoolInv, PoolFacts, Sees, OnlySpawn, Existing
<1> QED BY <1>1, RowSafe, PlainSees, RowPool

\* The operator stops with the write.
LEMMA StopRow ==
    ASSUME PoolInv, Alone, NEW o \in Op, Stop(o), OnlySpawn,
           NEW a \in Attempt, NEW row \in Row, Update(a, row), RowShown(a, row)
    PROVE  PoolFacts'
<1>1. Idle.batch = FALSE /\ Idle.pc = "idle" /\ Idle.todo = {}
  BY DEF Idle
<1>2. WritesSafely(o, Idle, a, row) /\ Idle.pc \notin SpecialSteps
  BY <1>1 DEF WritesSafely, SpecialSteps, OpenSteps, ReuseSteps
<1>3. Become(o, Idle) /\ Idle.todo \subseteq op[o].todo
  BY <1>1 DEF Stop
<1> QED BY <1>1, <1>2, <1>3, PlainRow

\* The operator runs on with its attempt, past the steps at which nothing is known.
LEMMA RunRow ==
    ASSUME PoolInv, Alone, NEW o \in Op, NEW pc \in PC, Run(o, pc), OnlySpawn,
           NEW a \in Attempt, NEW row \in Row, Update(a, row), RowShown(a, row),
           pc \notin SpecialSteps \cup EarlySteps, a = op[o].a \/ row.state \notin Ambiguous
    PROVE  PoolFacts'
<1>1. PICK m \in Process : Become(o, m) /\ m.pc = pc /\ SameWork(m, o)
  BY RunFacts DEF PoolInv, SendInv, SpawnInv
<1>2. WritesSafely(o, m, a, row) /\ m.todo \subseteq op[o].todo
  BY <1>1 DEF WritesSafely, SameWork
<1>3. m.pc \notin {"child", "pool"}
  BY <1>1 DEF EarlySteps
<1> QED BY <1>1, <1>2, <1>3, PlainRow

\* A written state keeps the window, and COMPLETED is only written for a page that is held.
LEMMA StateShown ==
    ASSUME PoolInv, NEW a \in Attempt, Born(a), NEW row, UpdateOk(a, row.state),
           row.win = spawn[a].win, row.consumed = spawn[a].consumed,
           row.state = "COMPLETED" => spawn[a].state = "COMPLETED" \/ Held(a, spawn[a].win)
    PROVE  RowShown(a, row)
<1>1. spawn[a].state \in SpawnState /\ spawn[a].state # "unborn"
  BY DEF PoolInv, SendInv, SpawnInv, TypeOK, Row, Born
<1>2. row.state # "unborn"
  BY <1>1, AllowedLemma DEF UpdateOk
<1>3. a[1] \in Existing
  BY DEF PoolInv, PoolFacts, PageFacts, RowsExist
<1>4. row.state = "ARMED" => spawn[a].state = "ARMED"
  BY <1>1, AllowedLemma DEF UpdateOk
<1>5. row.state = "WINDOW_OPEN_SUBMITTED" => spawn[a].state \in {"ARMED", "WINDOW_OPEN_SUBMITTED"}
  BY <1>1, AllowedLemma DEF UpdateOk
<1>6. row.state = "ARMED" => \A w \in Window : ~Shows(w, a)
  BY <1>4 DEF PoolInv, PoolFacts, PageFacts, ShownRows
<1>7. /\ row.state \in {"ARMED", "WINDOW_OPEN_SUBMITTED"} => row.win = None
      /\ row.win # None => \A w \in Window : Shows(w, a) => w = row.win
  BY <1>4, <1>5 DEF PoolInv, PoolFacts, PageFacts, RowWindow
<1>8. row.state = "COMPLETED" /\ row.consumed = "no" => Held(a, row.win)
  BY DEF PoolInv, PoolFacts, PageFacts, PagesHeld
<1>9. row.consumed # "no" => row.state = "COMPLETED" /\ \A w \in Window : ~Shows(w, a)
  BY <1>1, AllowedLemma DEF UpdateOk, PoolInv, PoolFacts, PageFacts, ConsumedGone
<1> QED BY <1>2, <1>3, <1>6, <1>7, <1>8, <1>9 DEF RowShown

LEMMA UnwrittenCalm ==
    ASSUME OnlySpawn, UNCHANGED <<spawn, older>>
    PROVE  Calm
BY OnlyOpCalm DEF OnlySpawn, OnlyOp

LEMMA WriteAndStopPool ==
    ASSUME PoolInv, Alone, SpawnInv', NEW o \in Op, op[o].pc \in AttemptSteps,
           NEW state \in SpawnState,
           state \in {"WINDOW_BOUND", "PROMPT_SUBMITTED", "COMPLETED"} => HasWindow(op[o].a),
           state = "COMPLETED" => spawn[op[o].a].state = "COMPLETED",
           WriteAndStop(o, state), OnlySpawn
    PROVE  PoolFacts'
<1>1. CASE UpdateOk(op[o].a, state)
  <2>1. PICK a \in Attempt : a = op[o].a /\ Born(a)
    BY AttemptFacts DEF PoolInv, SendInv
  <2>2. PICK row \in Row : /\ row = [spawn[a] EXCEPT !.state = state] /\ row.state = state
                           /\ row.win = spawn[a].win /\ row.consumed = spawn[a].consumed
    BY <1>1, <2>1, StateRow DEF PoolInv, SendInv, SpawnInv
  <2>3. Update(a, row) /\ Stop(o)
    BY <1>1, <2>1, <2>2 DEF WriteAndStop, Update
  <2>4. RowShown(a, row)
    BY <1>1, <2>1, <2>2, StateShown
  <2> QED BY <2>3, <2>4, StopRow
<1>2. CASE ~UpdateOk(op[o].a, state)
  BY <1>2, UnwrittenCalm, CalmStop DEF WriteAndStop
<1> QED BY <1>1, <1>2

LEMMA StopWritesPool ==
    ASSUME PoolInv, Alone, SpawnInv', NEW o \in Op,
           OpenFailed(o) \/ OutcomeAmbiguous(o) \/ SendDuringCooldown(o) \/ SendBack(o)
    PROVE  PoolFacts'
<1>1. op[o].pc \in AttemptSteps /\ SpawnInv /\ op[o] \in Process /\ Fits(op[o]) /\ Owns(op[o])
  BY DEF OpenFailed, OutcomeAmbiguous, SendDuringCooldown, SendBack, At, AttemptSteps,
         WindowSteps, PoolInv, SendInv, SendFacts, SpawnInv, TypeOK
<1>2. {"FAILED", "RECONCILE_REQUIRED", "WINDOW_BOUND"} \subseteq SpawnState
  BY DEF SpawnState, Unresolved, Ambiguous
<1>3. CASE OpenFailed(o) \/ OutcomeAmbiguous(o)
  BY <1>1, <1>2, <1>3, WriteAndStopPool DEF OpenFailed, OutcomeAmbiguous
<1>4. CASE SendDuringCooldown(o)
  <2>1. op[o].pc = "cool" /\ op[o].seen \in SpawnState /\ op[o].seen = spawn[op[o].a].state
    BY <1>1, <1>4 DEF SendDuringCooldown, At, Process, Owns
  <2>2. op[o].seen \in {"WINDOW_BOUND", "PROMPT_SUBMITTED", "COMPLETED"} => HasWindow(op[o].a)
    BY <1>1, <2>1 DEF Fits
  <2> QED BY <1>1, <1>4, <2>1, <2>2, WriteAndStopPool DEF SendDuringCooldown
<1>5. CASE SendBack(o)
  <2>1. HasWindow(op[o].a)
    BY <1>1, <1>5 DEF SendBack, At, WindowSteps, Fits
  <2> QED BY <1>1, <1>2, <1>5, <2>1, WriteAndStopPool DEF SendBack
<1> QED BY <1>3, <1>4, <1>5

LEMMA SendSubmitPool ==
    ASSUME PoolInv, Alone, SpawnInv', NEW o \in Op, SendSubmit(o)
    PROVE  PoolFacts'
<1>1. op[o].pc \in AttemptSteps \cap WindowSteps
  BY DEF SendSubmit, At, AttemptSteps, WindowSteps
<1>2. PICK a \in Attempt : a = op[o].a /\ Born(a) /\ HasWindow(a)
  BY <1>1, AttemptFacts DEF PoolInv, SendInv
<1>3. "PROMPT_SUBMITTED" \in SpawnState /\ "click" \in PC /\ "click" \notin SpecialSteps \cup EarlySteps
  BY DEF SpawnState, Unresolved, Ambiguous, PC, SpecialSteps, OpenSteps, ReuseSteps, EarlySteps
<1>4. CASE UpdateOk(a, "PROMPT_SUBMITTED")
  <2>1. PICK row \in Row : /\ row = [spawn[a] EXCEPT !.state = "PROMPT_SUBMITTED"]
                           /\ row.state = "PROMPT_SUBMITTED" /\ row.win = spawn[a].win
                           /\ row.consumed = spawn[a].consumed
    BY <1>2, <1>3, <1>4, StateRow DEF PoolInv, SendInv, SpawnInv
  <2>2. Update(a, row) /\ Run(o, "click") /\ OnlySpawn
    BY <1>2, <1>4, <2>1 DEF SendSubmit, WriteState, Update
  <2>3. RowShown(a, row)
    BY <1>2, <1>4, <2>1, StateShown
  <2> QED BY <1>2, <1>3, <2>2, <2>3, RunRow
<1>5. CASE ~UpdateOk(a, "PROMPT_SUBMITTED")
  BY <1>2, <1>5, UnwrittenCalm, CalmStop DEF SendSubmit, WriteState
<1> QED BY <1>4, <1>5

LEMMA SecondSubmitPool ==
    ASSUME PoolInv, Alone, SpawnInv', NEW o \in Op, SecondSubmit(o)
    PROVE  PoolFacts'
<1>1. op[o].pc \in AttemptSteps
  BY DEF SecondSubmit, At, AttemptSteps, WindowSteps
<1>2. PICK a \in Attempt : a = op[o].a /\ Born(a)
  BY <1>1, AttemptFacts DEF PoolInv, SendInv
<1>3. "click2" \in PC /\ "click2" \notin SpecialSteps \cup EarlySteps
  BY DEF PC, SpecialSteps, OpenSteps, ReuseSteps, EarlySteps
<1>4. CASE UpdateOk(a, "PROMPT_SUBMITTED")
  <2>1. PICK row : row = [spawn[a] EXCEPT !.state = "PROMPT_SUBMITTED", !.second = TRUE]
    OBVIOUS
  <2>2. spawn[a] \in Row /\ "PROMPT_SUBMITTED" \in SpawnState
    BY DEF PoolInv, SendInv, SpawnInv, TypeOK, SpawnState, Unresolved, Ambiguous
  <2>3. /\ row \in Row /\ row.state = "PROMPT_SUBMITTED" /\ row.win = spawn[a].win
        /\ row.consumed = spawn[a].consumed
    BY <2>1, <2>2 DEF Row
  <2>4. Update(a, row) /\ Run(o, "click2") /\ OnlySpawn
    BY <1>2, <1>4, <2>1 DEF SecondSubmit, Update
  <2>5. RowShown(a, row)
    BY <1>2, <1>4, <2>3, StateShown
  <2> QED BY <1>2, <1>3, <2>3, <2>4, <2>5, RunRow
<1>5. CASE ~UpdateOk(a, "PROMPT_SUBMITTED")
  BY <1>2, <1>5, UnwrittenCalm, CalmStop DEF SecondSubmit
<1> QED BY <1>4, <1>5

LEMMA ArmRecordPool ==
    ASSUME PoolInv, Alone, SpawnInv', NEW o \in Op, ArmRecord(o)
    PROVE  PoolFacts'
<1> DEFINE c == This(o)
           unborn == {n \in 1 .. MaxAttempts : spawn[<<c, n>>].state = "unborn"}
<1>1. CASE ~(UnresolvedOf(c) = {} /\ unborn # {})
  BY <1>1, UnwrittenCalm, CalmStop DEF ArmRecord
<1>2. CASE UnresolvedOf(c) = {} /\ unborn # {}
  <2>1. op[o] \in Process /\ op[o].todo # {} /\ op[o].pc = "record" /\ op[o].todo \subseteq Existing
    BY DEF PoolInv, PoolFacts, Sees, SendInv, SpawnInv, TypeOK, ArmRecord, At, Fits, Waiting
  <2>2. c \in Child /\ c \in Existing
    BY <2>1, ThisLemma DEF This, Process
  <2>3. Min(unborn) \in unborn
    <3>1. unborn \subseteq Nat /\ unborn # {}
      BY <1>2, SpawnAssumption
    <3> HIDE DEF unborn
    <3> QED BY <3>1, MinLemma
  <2>4. PICK a : a = <<c, Min(unborn)>>
    OBVIOUS
  <2>5. a \in Attempt /\ a[1] = c /\ spawn[a].state = "unborn"
    BY <2>2, <2>3, <2>4 DEF Attempt
  <2>6. PICK row \in Row :
            row = Armed /\ row.state = "ARMED" /\ row.win = None /\ row.consumed = "no"
    <3>1. Armed \in Row /\ Armed.state = "ARMED" /\ Armed.win = None /\ Armed.consumed = "no"
      BY DEF Armed, Unborn, Row, SpawnState, Unresolved
    <3> QED BY <3>1
  <2>7. RowShown(a, row)
    BY <2>2, <2>5, <2>6 DEF RowShown, PoolInv, PoolFacts, PageFacts, ShownRows
  <2>8. Update(a, row) /\ OnlySpawn
    BY <1>2, <2>4, <2>6 DEF ArmRecord, Update
  <2>9. CASE op[o].batch
    <3>1. PICK m : m = [op[o] EXCEPT !.pc = "pool", !.a = a]
      OBVIOUS
    <3>2. Become(o, m) /\ m.pc = "pool" /\ m.todo = op[o].todo /\ m.batch = op[o].batch
      BY <1>2, <2>1, <2>4, <2>9, <3>1 DEF ArmRecord, Process
    <3>3. WritesSafely(o, m, a, row)
      BY <2>1, <2>6, <3>2 DEF WritesSafely, EarlySteps, Ambiguous
    <3>4. m.pc \notin SpecialSteps
      BY <3>2 DEF SpecialSteps, OpenSteps, ReuseSteps
    <3> QED BY <2>5, <2>7, <2>8, <2>9, <3>2, <3>3, <3>4, PlainRow
  <2>10. CASE ~op[o].batch
    <3>1. Stop(o)
      BY <1>2, <2>10 DEF ArmRecord
    <3> QED BY <2>5, <2>7, <2>8, <3>1, StopRow
  <2> QED BY <2>9, <2>10
<1> QED BY <1>1, <1>2

\* The authority to open is recorded while the attempt is on show nowhere.
LEMMA OpenSubmitPool ==
    ASSUME PoolInv, Alone, SpawnInv', NEW o \in Op, OpenSubmit(o)
    PROVE  PoolFacts'
<1>1. op[o].pc = "submit" /\ op[o].pc \in AttemptSteps /\ Sees(op[o]) /\ OnlySpawn /\ TypeOK
  BY DEF OpenSubmit, At, AttemptSteps, PoolInv, PoolFacts, SendInv, SpawnInv
<1>2. PICK a \in Attempt : a = op[o].a /\ Born(a)
  BY <1>1, AttemptFacts DEF PoolInv, SendInv
<1>3. spawn[a].state = "ARMED"
  BY <1>1, <1>2 DEF Sees, SeesAttempt
<1>4. UpdateOk(a, "WINDOW_OPEN_SUBMITTED") /\ "WINDOW_OPEN_SUBMITTED" \in SpawnState
  BY <1>3, AllowedLemma DEF UpdateOk, SpawnState, Unresolved, Ambiguous
<1>5. PICK row \in Row : /\ row = [spawn[a] EXCEPT !.state = "WINDOW_OPEN_SUBMITTED"]
                         /\ row.state = "WINDOW_OPEN_SUBMITTED" /\ row.win = spawn[a].win
                         /\ row.consumed = spawn[a].consumed
  BY <1>1, <1>2, <1>4, StateRow
<1>6. RowShown(a, row)
  BY <1>2, <1>4, <1>5, StateShown
<1>7. Update(a, row) /\ Run(o, "launch") /\ "launch" \in PC
  BY <1>2, <1>4, <1>5 DEF OpenSubmit, WriteState, Update, PC
<1>8. PICK m \in Process : Become(o, m) /\ m.pc = "launch" /\ SameWork(m, o)
  BY <1>1, <1>7, RunFacts
<1>9. /\ UNCHANGED <<task, proto, binding, page>> /\ spawn'[a] = row
      /\ \A b \in Attempt : b # a => spawn'[b] = spawn[b]
  BY <1>1, <1>7 DEF OnlySpawn, TypeOK, Update
<1>10. \A w \in Window : ~Shows(w, a) /\ ~Shows(w, a)'
  BY <1>3, <1>9 DEF PoolInv, PoolFacts, PageFacts, ShownRows, Shows
<1>11. BatchSafe(m)'
  <2>1. WritesSafely(o, m, a, row)
    BY <1>2, <1>8 DEF WritesSafely, SameWork, EarlySteps
  <2> QED BY <1>7, <2>1, RowSafe
<1>12. SeesAttempt(m)'
  BY <1>2, <1>5, <1>8, <1>9, <1>10 DEF SeesAttempt, SameWork
<1>13. SeesSource(m)'
  <2>1. m.src \in Source /\ (m.src.kind = "spawn" => m.src # NoSource) /\ m.src = op[o].src
    BY <1>8 DEF SameWork, Process, NoSource
  <2>2. m.src.kind = "spawn" => m.src.of \in Attempt /\ spawn[m.src.of].state = "COMPLETED"
    BY <1>1, <2>1, SourceLemma DEF PoolInv, SendInv, SpawnInv, Fits
  <2>3. m.src.kind = "spawn" => spawn'[m.src.of].win = m.src.win
    BY <1>1, <1>3, <1>9, <2>1, <2>2 DEF Sees, SeesSource, OpenSteps
  <2> QED BY <1>1, <1>8, <1>9, <2>3
         DEF Sees, SeesSource, SameWork, OpenSteps, ReuseSteps, Held, Ended, Current, Shows
<1>14. m.src = NoSource => Cardinality(DispatcherPages' \ m.missed) < MaxWindows
  <2>1. ASSUME NEW w \in Window, w \in DispatcherPages' PROVE w \in DispatcherPages
    <3>1. page[w].kind \in {"root", "chat"}
      BY <1>9, <2>1 DEF DispatcherPages
    <3>2. PICK b \in Attempt : b = page[w].of
      BY <1>1, <3>1, SentPage
    <3>3. b # a
      BY <1>10, <3>1, <3>2 DEF Shows
    <3> QED BY <1>9, <2>1, <3>2, <3>3 DEF DispatcherPages
  <2>2. DispatcherPages' \subseteq DispatcherPages
    BY <2>1 DEF DispatcherPages
  <2>3. m.src = NoSource => Cardinality(DispatcherPages \ m.missed) < MaxWindows
    BY <1>1, <1>8 DEF Sees, OpenSteps, SameWork
  <2> QED BY <2>2, <2>3, FewerPages
<1>15. Sees(m)'
  BY <1>1, <1>8, <1>9, <1>11, <1>12, <1>13, <1>14 DEF Sees, OpenSteps, SameWork, Existing
<1> QED BY <1>1, <1>6, <1>7, <1>8, <1>15, RowPool

\* The operator goes on to the send or is over: the facts about the recycled page are given up.
LEMMA OnwardRow ==
    ASSUME PoolInv, Alone, NEW o \in Op, Onward(o, "send"), OnlySpawn,
           NEW a \in Attempt, NEW row \in Row, Update(a, row), RowShown(a, row),
           a = op[o].a \/ row.state \notin Ambiguous
    PROVE  PoolFacts'
<1>1. "send" \in PC /\ "send" \notin SpecialSteps \cup EarlySteps
  BY DEF PC, SpecialSteps, OpenSteps, ReuseSteps, EarlySteps
<1>2. CASE Run(o, "send")
  BY <1>1, <1>2, RunRow
<1>3. CASE Stop(o)
  BY <1>3, StopRow
<1> QED BY <1>2, <1>3 DEF Onward

LEMMA CalmOnward ==
    ASSUME PoolInv, Alone, SpawnInv', NEW o \in Op, Onward(o, "send"), Calm
    PROVE  PoolFacts'
<1>1. "send" \in PC /\ "send" \notin SpecialSteps \cup EarlySteps \cup {"child", "pool"}
  BY DEF PC, SpecialSteps, OpenSteps, ReuseSteps, EarlySteps
<1> QED BY <1>1, CalmRun, CalmStop DEF Onward

\* The next step that takes the page from its former owner.
LEMMA ReuseGoesOn ==
    ASSUME PoolInv, NEW o \in Op, op[o].pc \in ReuseSteps, NEW m, SameWork(m, o),
           m.pc = "consume" \/ (m.pc = "clear" /\ op[o].src.kind = "worker"),
           m.pc = "consume" /\ op[o].src.kind = "spawn" => spawn'[op[o].src.of].win = op[o].src.win,
           m.pc = "clear" /\ op[o].src.of \in Unconsumed' => spawn'[op[o].src.of].win # op[o].src.win,
           BatchSafe(m)', UNCHANGED <<task, proto, binding, page>>
    PROVE  Sees(m)'
<1>1. Sees(op[o])
  BY DEF PoolInv, PoolFacts
<1>2. m.todo \subseteq Existing'
  BY <1>1 DEF Sees, SameWork, Existing
<1>3. SeesAttempt(m)'
  BY DEF SeesAttempt
<1>4. SeesSource(m)'
  BY <1>1 DEF Sees, SeesSource, SameWork, ReuseSteps, Held, Ended, Current, Shows
<1> QED BY <1>2, <1>3, <1>4 DEF Sees, OpenSteps

LEMMA BindWindowPool ==
    ASSUME PoolInv, Alone, SpawnInv', NEW o \in Op, BindWindow(o)
    PROVE  PoolFacts'
<1>1. op[o].pc = "bind" /\ op[o].pc \in AttemptSteps /\ SpawnInv /\ OnlySpawn /\ Sees(op[o])
  BY DEF BindWindow, At, AttemptSteps, PoolInv, PoolFacts, SendInv
<1>2. PICK a \in Attempt : a = op[o].a /\ Born(a)
  BY <1>1, AttemptFacts
<1>3. op[o].win \in Window /\ op[o].win # None
  BY <1>1, SpawnAssumption DEF SpawnInv, Fits
<1>4. CASE spawn[a].state \in {"WINDOW_OPEN_SUBMITTED", "RECONCILE_REQUIRED"}
  <2>1. PICK row : row = [spawn[a] EXCEPT !.state = "WINDOW_BOUND", !.win = op[o].win]
    OBVIOUS
  <2>2. spawn[a] \in Row /\ "WINDOW_BOUND" \in SpawnState
    BY <1>1 DEF SpawnInv, TypeOK, SpawnState, Unresolved
  <2>3. row \in Row /\ row.state = "WINDOW_BOUND" /\ row.win = op[o].win /\ row.consumed = "no"
    BY <1>3, <1>4, <2>1, <2>2 DEF Row, PoolInv, PoolFacts, PageFacts, ConsumedGone
  <2>4. \A w \in Window : Shows(w, a) => w = row.win
    BY <1>1, <1>2, <2>3 DEF Sees, SeesAttempt
  <2>5. a[1] \in Existing
    BY <1>2 DEF PoolInv, PoolFacts, PageFacts, RowsExist
  <2>6. RowShown(a, row)
    BY <2>3, <2>4, <2>5 DEF RowShown
  <2>7. Update(a, row)
    BY <1>2, <1>4, <2>1 DEF BindWindow, Update
  <2>8. CASE Onward(o, "send")
    BY <1>1, <1>2, <2>3, <2>6, <2>7, <2>8, OnwardRow
  <2>9. CASE Run(o, "consume")
    <3>1. "consume" \in PC
      BY DEF PC
    <3>2. PICK m \in Process : Become(o, m) /\ m.pc = "consume" /\ SameWork(m, o)
      BY <1>1, <2>9, <3>1, RunFacts DEF SpawnInv
    <3>3. WritesSafely(o, m, a, row)
      BY <1>2, <3>2 DEF WritesSafely, SameWork, EarlySteps
    <3>4. BatchSafe(m)'
      BY <2>3, <2>7, <3>3, RowSafe
    <3>5. op[o].src.kind = "spawn" => spawn'[op[o].src.of].win = op[o].src.win
      <4>1. SUFFICES ASSUME op[o].src.kind = "spawn"
                     PROVE  spawn'[op[o].src.of].win = op[o].src.win
        OBVIOUS
      <4>2. op[o].src \in Source /\ op[o].src # NoSource
        BY <1>1, <4>1 DEF SpawnInv, TypeOK, Process, NoSource
      <4>3. PICK b \in Attempt : b = op[o].src.of /\ spawn[b].state = "COMPLETED"
        BY <1>1, <4>1, <4>2, SourceLemma DEF SpawnInv, Fits
      <4>4. b # a /\ spawn[b].win = op[o].src.win
        BY <1>1, <1>4, <4>1, <4>3 DEF Sees, SeesSource, ReuseSteps
      <4> QED BY <1>1, <2>7, <4>3, <4>4 DEF Update, SpawnInv, TypeOK
    <3>6. Sees(m)'
      BY <1>1, <3>2, <3>4, <3>5, ReuseGoesOn DEF ReuseSteps, OnlySpawn
    <3> QED BY <1>1, <2>3, <2>6, <2>7, <3>2, <3>6, RowPool
  <2> QED BY <1>2, <1>4, <2>8, <2>9 DEF BindWindow
<1>5. CASE spawn[a].state \notin {"WINDOW_OPEN_SUBMITTED", "RECONCILE_REQUIRED"}
  BY <1>1, <1>2, <1>5, UnwrittenCalm, CalmStop DEF BindWindow
<1> QED BY <1>4, <1>5

\* A completed row is marked consumed when its page is gone.
LEMMA ConsumedShown ==
    ASSUME PoolInv, NEW a \in Attempt, spawn[a].state = "COMPLETED", NEW row,
           row.state = spawn[a].state, row.win = spawn[a].win, row.consumed # "no",
           ~Shows(spawn[a].win, a)
    PROVE  RowShown(a, row)
<1>1. spawn[a].win # None /\ a[1] \in Existing
  BY DEF PoolInv, PoolFacts, PageFacts, RowsExist, Born, SendInv, SpawnInv, TypeOK
<1>2. \A w \in Window : ~Shows(w, a)
  BY <1>1 DEF PoolInv, PoolFacts, PageFacts, RowWindow
<1> QED BY <1>1, <1>2 DEF RowShown

LEMMA ConsumePool ==
    ASSUME PoolInv, Alone, SpawnInv', NEW o \in Op, Consume(o)
    PROVE  PoolFacts'
<1>1. op[o].pc = "consume" /\ op[o].pc \in AttemptSteps /\ SpawnInv /\ OnlySpawn /\ Sees(op[o])
  BY DEF Consume, At, AttemptSteps, PoolInv, PoolFacts, SendInv
<1>2. op[o] \in Process /\ op[o].src \in Source /\ op[o].src # NoSource
  BY <1>1, AttemptFacts DEF SpawnInv, Fits, Process
<1>3. UNCHANGED <<task, proto, binding, page>>
  BY <1>1 DEF OnlySpawn
<1>4. CASE UNCHANGED <<spawn, older>>
  <2>1. Calm
    BY <1>1, <1>4, UnwrittenCalm
  <2>2. CASE Onward(o, "send")
    BY <2>1, <2>2, CalmOnward
  <2>3. CASE op[o].src.kind = "worker" /\ Run(o, "clear")
    <3>1. "clear" \in PC
      BY DEF PC
    <3>2. PICK m \in Process : Become(o, m) /\ m.pc = "clear" /\ SameWork(m, o)
      BY <1>1, <2>3, <3>1, RunFacts DEF SpawnInv
    <3>3. BatchSafe(m)'
      BY <1>1, <1>4, <3>2 DEF Sees, BatchSafe, SameWork, EarlySteps
    <3>6. op[o].src.of \in Unconsumed' => spawn'[op[o].src.of].win # op[o].src.win
      <4>1. SUFFICES ASSUME op[o].src.of \in Unconsumed', spawn'[op[o].src.of].win = op[o].src.win
                     PROVE  FALSE
        OBVIOUS
      <4>2. PICK b \in Attempt : b = op[o].src.of
        BY <4>1 DEF Unconsumed, Completed
      <4>3. /\ spawn[b].state = "COMPLETED" /\ spawn[b].consumed = "no"
            /\ spawn[b].win = op[o].src.win
        BY <1>4, <4>1, <4>2 DEF Unconsumed, Completed
      <4>4. Update(b, [spawn[b] EXCEPT !.consumed = "recycled"])
        BY <4>2, <4>3 DEF Consume
      <4>5. spawn'[b].consumed = "recycled"
        BY <1>1, <4>4 DEF Update, SpawnInv, TypeOK, Row
      <4> QED BY <1>4, <4>3, <4>5
    <3>4. Sees(m)'
      BY <1>1, <1>3, <2>3, <3>2, <3>3, <3>6, ReuseGoesOn DEF ReuseSteps
    <3>5. PageFacts' /\ op \in [Op -> Process]
      BY <1>1, <2>1, CalmPages DEF SpawnInv, TypeOK
    <3> QED BY <3>2, <3>4, <3>5, AloneSees DEF PoolFacts
  <2> QED BY <2>2, <2>3 DEF Consume
<1>5. CASE ~UNCHANGED <<spawn, older>>
  <2>1. PICK b : b = op[o].src.of
    OBVIOUS
  <2>2. b \in Attempt /\ spawn[b].state = "COMPLETED"
    BY <1>1, <1>2, <1>5, <2>1, SourceLemma DEF Consume, SpawnInv, Fits
  <2>3. PICK row \in Row : /\ row = [spawn[b] EXCEPT !.consumed = "recycled"]
                           /\ row.state = spawn[b].state /\ row.win = spawn[b].win
                           /\ row.consumed = "recycled"
    BY <1>1, <2>2, ConsumedRow DEF SpawnInv
  <2>8. ~Shows(spawn[b].win, b)
    <3>1. spawn[b].win = op[o].src.win
      <4>1. CASE op[o].src.kind = "spawn"
        BY <1>1, <2>1, <4>1 DEF Sees, SeesSource, ReuseSteps
      <4>2. CASE op[o].src.kind # "spawn"
        BY <1>5, <2>1, <4>2 DEF Consume
      <4> QED BY <4>1, <4>2
    <3> QED BY <1>1, <1>2, <2>1, <3>1 DEF Sees, SeesSource, ReuseSteps
  <2>4. Update(b, row)
    BY <1>5, <2>1, <2>3 DEF Consume, Update
  <2>5. RowShown(b, row) /\ row.state \notin Ambiguous
    BY <2>2, <2>3, <2>8, ConsumedShown DEF Ambiguous
  <2>6. CASE Onward(o, "send")
    BY <1>1, <2>2, <2>4, <2>5, <2>6, OnwardRow
  <2>7. CASE op[o].src.kind = "worker" /\ Run(o, "clear")
    <3>1. "clear" \in PC
      BY DEF PC
    <3>2. PICK m \in Process : Become(o, m) /\ m.pc = "clear" /\ SameWork(m, o)
      BY <1>1, <2>7, <3>1, RunFacts DEF SpawnInv
    <3>3. WritesSafely(o, m, b, row)
      BY <2>5, <3>2 DEF WritesSafely, SameWork, EarlySteps
    <3>4. BatchSafe(m)'
      BY <2>2, <2>4, <3>3, RowSafe
    <3>6. b \notin Unconsumed'
      BY <1>1, <2>2, <2>3, <2>4 DEF Unconsumed, Update, SpawnInv, TypeOK
    <3>5. Sees(m)'
      BY <1>1, <1>3, <2>1, <2>7, <3>2, <3>4, <3>6, ReuseGoesOn DEF ReuseSteps
    <3> QED BY <1>1, <2>2, <2>4, <2>5, <3>2, <3>5, RowPool
  <2> QED BY <2>6, <2>7 DEF Consume
<1> QED BY <1>4, <1>5

LEMMA MarkClosedPool ==
    ASSUME PoolInv, Alone, SpawnInv', NEW o \in Op, MarkClosed(o)
    PROVE  PoolFacts'
<1>1. op[o].pc = "swept" /\ op[o].pc \in Sweeping /\ SpawnInv /\ op[o] \in Process /\ Sees(op[o])
  BY DEF MarkClosed, At, Sweeping, PoolInv, PoolFacts, SendInv, SpawnInv, TypeOK
<1>2. PICK a \in Attempt : a = SweptRow(o) /\ spawn[a].state = "COMPLETED"
  BY <1>1, SweptRowFacts
<1>3. PICK row \in Row : /\ row = [spawn[a] EXCEPT !.consumed = "closed"]
                         /\ row.state = spawn[a].state /\ row.win = spawn[a].win
                         /\ row.consumed = "closed"
  BY <1>1, <1>2, ConsumedRow DEF SpawnInv
<1>8. ~Shows(spawn[a].win, a)
  <2>1. a = Swept(op[o]) /\ spawn[a].win \in Window
    BY <1>1, <1>2, SweptRowFacts DEF Swept, SweptRow, This
  <2> QED BY <1>1, <2>1 DEF Sees, SeesAttempt
<1>4. Update(a, row) /\ OnlySpawn
  BY <1>2, <1>3 DEF MarkClosed, Update
<1>5. RowShown(a, row) /\ row.state \notin Ambiguous
  BY <1>2, <1>3, <1>8, ConsumedShown DEF Ambiguous
<1>6. CASE Stop(o)
  BY <1>4, <1>5, <1>6, StopRow
<1>7. CASE ~Stop(o)
  <2>1. PICK m : m = [op[o] EXCEPT !.pc = "sweep", !.todo = op[o].todo \ {This(o)}]
    OBVIOUS
  <2>2. /\ Become(o, m) /\ m.pc = "sweep" /\ m.todo \subseteq op[o].todo
        /\ m.batch = op[o].batch
    BY <1>1, <1>7, <2>1 DEF MarkClosed, Process
  <2>3. WritesSafely(o, m, a, row) /\ m.pc \notin SpecialSteps
    BY <1>1, <1>5, <2>2 DEF WritesSafely, EarlySteps, SpecialSteps, OpenSteps, ReuseSteps
  <2> QED BY <1>4, <1>5, <2>2, <2>3, PlainRow
<1> QED BY <1>6, <1>7

\* COMPLETED is written for the page the worker was just given.
LEMMA AdoptDonePool ==
    ASSUME PoolInv, Alone, SpawnInv', NEW o \in Op, AdoptDone(o)
    PROVE  PoolFacts'
<1>1. op[o].pc = "done" /\ op[o].pc \in WindowSteps /\ op[o].pc \in AttemptSteps /\ SpawnInv
  BY DEF AdoptDone, At, WindowSteps, AttemptSteps, PoolInv, SendInv
<1>2. PICK a \in Attempt : a = op[o].a /\ Born(a) /\ HasWindow(a)
  BY <1>1, AttemptFacts
<1>3. Held(a, spawn[a].win)
  BY <1>1, <1>2 DEF PoolInv, PoolFacts, Sees, SeesAttempt
<1>4. CASE UpdateOk(a, "COMPLETED")
  <2>1. "COMPLETED" \in SpawnState
    BY DEF SpawnState
  <2>2. PICK row \in Row : /\ row = [spawn[a] EXCEPT !.state = "COMPLETED"]
                           /\ row.state = "COMPLETED" /\ row.win = spawn[a].win
                           /\ row.consumed = spawn[a].consumed
    BY <1>1, <1>2, <1>4, <2>1, StateRow DEF SpawnInv
  <2>3. Update(a, row) /\ OnlySpawn
    BY <1>2, <1>4, <2>2 DEF AdoptDone, Update
  <2>4. RowShown(a, row) /\ row.state \notin Ambiguous
    BY <1>2, <1>3, <1>4, <2>2, StateShown DEF Ambiguous
  <2>5. CASE Stop(o)
    BY <2>3, <2>4, <2>5, StopRow
  <2>6. CASE op[o].batch /\ NextChild(o)
    <3>1. PICK m \in Process : /\ Become(o, m) /\ m.pc = "child" /\ m.batch = TRUE
                               /\ m.todo \subseteq op[o].todo
      BY <2>6, NextChildGoesOn
    <3>2. WritesSafely(o, m, a, row) /\ m.pc \notin SpecialSteps
      BY <1>2, <2>4, <2>6, <3>1 DEF WritesSafely, SpecialSteps, OpenSteps, ReuseSteps
    <3> QED BY <2>3, <2>4, <3>1, <3>2, PlainRow
  <2> QED BY <1>2, <1>4, <2>5, <2>6 DEF AdoptDone
<1>5. CASE ~UpdateOk(a, "COMPLETED")
  BY <1>2, <1>5, UnwrittenCalm, CalmStop DEF AdoptDone
<1> QED BY <1>4, <1>5

-----------------------------------------------------------------------------
(***************************************************************************)
(* Steps that change a window.                                             *)
(***************************************************************************)
LEMMA PageCalm ==
    ASSUME UNCHANGED <<task, proto, spawn, older, binding>>,
           \A w \in Window, a \in Attempt : Shows(w, a)' => Shows(w, a)
    PROVE  Calm
BY DEF Calm, Held, Ended, Current, Existing

\* A window that goes on showing what it showed, or nothing of an attempt.
LEMMA SameShow ==
    ASSUME TypeOK, NEW w \in Window, NEW p, Show(w, p),
           p.kind \in {"root", "chat"} => p.of = page[w].of /\ page[w].kind \in {"root", "chat"}
    PROVE  \A v \in Window, a \in Attempt : Shows(v, a)' => Shows(v, a)
BY ShowOne DEF Shows

LEMMA ClickPool ==
    ASSUME PoolInv, Alone, SpawnInv', NEW o \in Op, Click(o) \/ SecondClick(o)
    PROVE  PoolFacts'
<1>1. op[o].pc \in WindowSteps /\ op[o].pc \in AttemptSteps /\ SpawnInv /\ TypeOK
  BY DEF Click, SecondClick, At, WindowSteps, AttemptSteps, PoolInv, SendInv, SpawnInv
<1>2. PICK a \in Attempt : a = op[o].a
  BY <1>1, AttemptFacts
<1>3. PICK w \in Window : w = spawn[a].win
  BY <1>1, <1>2, AttemptFacts
<1>4. Calm
  <2>1. CASE UNCHANGED page
    BY <2>1, PageCalm DEF Click, SecondClick, OnlyPage, Shows
  <2>2. CASE ~UNCHANGED page
    <3>1. \/ Invoke(w, a) /\ (IsRoot(w, a) \/ (IsChat(w, a) /\ page[w].text # "none"))
          \/ IsRoot(w, a) /\ Show(w, Root(a, "draft"))
      BY <1>2, <1>3, <2>2 DEF Click, SecondClick, Refused, RateLimited, Invoked, Interrupted,
                              DraftReady
    <3>2. PICK p : Show(w, p) /\ p.of = a
      <4>1. CASE Invoke(w, a) /\ (IsRoot(w, a) \/ (IsChat(w, a) /\ page[w].text # "none"))
        <5>1. PICK p : p = IF page[w].kind = "root" THEN Root(a, "sent") ELSE Chat(a, "sent")
          OBVIOUS
        <5>2. Show(w, p)
          BY <1>1, <4>1, <5>1, InvokeTypes DEF Show
        <5> QED BY <5>1, <5>2 DEF Root, Chat
      <4>2. CASE Show(w, Root(a, "draft"))
        BY <4>2 DEF Root
      <4> QED BY <3>1, <4>1, <4>2
    <3>3. page[w].of = a /\ page[w].kind \in {"root", "chat"}
      BY <3>1 DEF IsRoot, IsChat
    <3>4. \A v \in Window, b \in Attempt : Shows(v, b)' => Shows(v, b)
      BY <1>1, <3>2, <3>3, SameShow
    <3> QED BY <3>4, PageCalm DEF Click, SecondClick, OnlyPage
  <2> QED BY <2>1, <2>2
<1>5. CASE Stop(o)
  BY <1>4, <1>5, CalmStop
<1>6. CASE \E pc \in {"routed", "maybe", "back", "limited", "wait"} : Run(o, pc)
  <2>1. \A pc \in {"routed", "maybe", "back", "limited", "wait"} :
            pc \in PC /\ pc \notin SpecialSteps \cup {"child", "pool"} /\ pc \notin EarlySteps
    BY DEF PC, SpecialSteps, OpenSteps, ReuseSteps, EarlySteps
  <2> QED BY <1>4, <1>6, <2>1, CalmRun
<1> QED BY <1>5, <1>6 DEF Click, SecondClick, Refused, RateLimited, Invoked, Interrupted

LEMMA CloseTerminalPool ==
    ASSUME PoolInv, Alone, SpawnInv', NEW o \in Op, CloseTerminal(o)
    PROVE  PoolFacts'
<1>1. op[o].pc = "sweep" /\ op[o].pc \in Sweeping /\ SpawnInv /\ TypeOK
  BY DEF CloseTerminal, At, Sweeping, PoolInv, SendInv, SpawnInv
<1>2. PICK w \in Window : w = spawn[SweptRow(o)].win
  BY <1>1, SweptRowFacts
<1>3. Calm
  <2>1. CASE UNCHANGED page
    BY <2>1, PageCalm DEF CloseTerminal, OnlyPage, Shows
  <2>2. CASE Close(w)
    <3>1. \A v \in Window, b \in Attempt : Shows(v, b)' => Shows(v, b)
      BY <1>1, <2>2, SameShow DEF Close, Absent
    <3> QED BY <3>1, PageCalm DEF CloseTerminal, OnlyPage
  <2> QED BY <1>2, <2>1, <2>2 DEF CloseTerminal
<1>4. CASE Stop(o)
  BY <1>3, <1>4, CalmStop
<1>5. CASE Run(o, "swept") /\ ~Stop(o)
  <2>1. "swept" \in PC
    BY DEF PC
  <2>2. PICK m \in Process : Become(o, m) /\ m.pc = "swept" /\ SameWork(m, o)
    BY <1>1, <1>5, <2>1, RunFacts
  <2>3. PICK a \in Attempt : /\ a = SweptRow(o) /\ spawn[a].win = w /\ w # None
                             /\ a = Swept(m)
    BY <1>1, <1>2, <2>2, SweptRowFacts, SpawnAssumption DEF Swept, SweptRow, This, SameWork
  <2>4. UNCHANGED spawn
    BY DEF CloseTerminal, OnlyPage
  <2>5. page'[w] = Absent
    BY <1>1, <1>2, <1>5, <2>3, ShowOne DEF CloseTerminal, Close, Run, Stop
  <2>6. ASSUME NEW v \in Window, Shows(v, a)' PROVE FALSE
    <3>1. Shows(v, a)
      BY <1>3, <2>6 DEF Calm
    <3>2. v = w
      BY <2>3, <3>1 DEF PoolInv, PoolFacts, PageFacts, RowWindow
    <3> QED BY <2>5, <2>6, <3>2 DEF Shows, Absent
  <2>7. Swept(m)' = a
    BY <2>3, <2>4 DEF Swept
  <2>8. \A v \in Window : ~Shows(v, Swept(m))'
    BY <2>6, <2>7 DEF Shows
  <2>9. SeesAttempt(m)'
    BY <2>2, <2>8 DEF SeesAttempt
  <2>10. SeesSource(m)'
    BY <2>2 DEF SeesSource, OpenSteps, ReuseSteps
  <2>11. m.todo \subseteq Existing' /\ BatchSafe(m)'
    BY <1>1, <2>2, <2>4
       DEF PoolInv, PoolFacts, Sees, BatchSafe, SameWork, EarlySteps, CloseTerminal, OnlyPage, Existing
  <2>12. Sees(m)'
    BY <2>2, <2>9, <2>10, <2>11 DEF Sees, OpenSteps
  <2>13. PageFacts' /\ op \in [Op -> Process]
    BY <1>1, <1>3, CalmPages DEF SpawnInv, TypeOK
  <2> QED BY <2>2, <2>12, <2>13, AloneSees DEF PoolFacts
<1> QED BY <1>4, <1>5 DEF CloseTerminal

\* The launch shows the attempt in a window, and it was on show nowhere before.
LEMMA LaunchPages ==
    ASSUME PoolInv, UNCHANGED <<task, proto, spawn, older, binding>>,
           NEW a \in Attempt, NEW w \in Window,
           spawn[a].state = "WINDOW_OPEN_SUBMITTED", \A v \in Window : ~Shows(v, a), Navigate(w, a)
    PROVE  /\ PageFacts' /\ Shows(w, a)'
           /\ \A v \in Window, b \in Attempt : Shows(v, b)' => Shows(v, b) \/ (v = w /\ b = a)
<1>1. page'[w] = Root(a, "none") /\ \A v \in Window \ {w} : page'[v] = page[v]
  BY ShowOne DEF Navigate, PoolInv, SendInv, SpawnInv
<1>2. Shows(w, a)' /\ \A v \in Window, b \in Attempt : Shows(v, b)' => Shows(v, b) \/ (v = w /\ b = a)
  BY <1>1 DEF Shows, Root
<1>3. RowsExist'
  BY DEF PoolInv, PoolFacts, PageFacts, RowsExist, Born, Existing
<1>4. ShownRows'
  BY <1>2 DEF PoolInv, PoolFacts, PageFacts, ShownRows
<1>5. OneWindow'
  BY <1>2 DEF PoolInv, PoolFacts, PageFacts, OneWindow
<1>6. RowWindow' /\ ConsumedGone'
  BY <1>2 DEF PoolInv, PoolFacts, PageFacts, RowWindow, ConsumedGone
<1>7. PagesHeld' /\ InOrder'
  BY DEF PoolInv, PoolFacts, PageFacts, PagesHeld, InOrder, Completed, Held, Ended, Current
<1> QED BY <1>2, <1>3, <1>4, <1>5, <1>6, <1>7 DEF PageFacts

\* A process at a plain step after a launch.
LEMMA LaunchPlain ==
    ASSUME PoolInv, Alone, NEW o \in Op, NEW m, Become(o, m), PageFacts', UNCHANGED <<task, spawn>>,
           m.pc \notin SpecialSteps \cup {"child", "pool"}, GoesOn(o, m)
    PROVE  PoolFacts'
<1>1. m.todo \subseteq Existing /\ BatchSafe(m) /\ op \in [Op -> Process]
  BY GoesOnSafe DEF PoolInv, SendInv, SpawnInv, TypeOK
<1>2. m.todo \subseteq Existing' /\ BatchSafe(m)'
  BY <1>1 DEF Existing, BatchSafe
<1>3. Sees(m)'
  BY <1>2, PlainSees
<1> QED BY <1>1, <1>3, AloneSees DEF PoolFacts

\* What an operator about to launch sees.
LEMMA LaunchFacts ==
    ASSUME PoolInv, NEW o \in Op, op[o].pc = "launch"
    PROVE  /\ TypeOK /\ op[o] \in Process /\ Sees(op[o]) /\ op[o].a \in Attempt
           /\ op[o].a[1] = Min(op[o].todo) /\ op[o].batch
           /\ spawn[op[o].a].state = "WINDOW_OPEN_SUBMITTED"
           /\ \A w \in Window : ~Shows(w, op[o].a)
<1>1. op[o].pc \in AttemptSteps /\ Sees(op[o]) /\ SpawnInv
  BY DEF AttemptSteps, PoolInv, PoolFacts, SendInv
<1> QED BY <1>1, AttemptFacts DEF SpawnInv, Sees, SeesAttempt, OpenSteps

\* The launched window, or the navigated one, is the only one that shows the attempt.
LEMMA LaunchedSees ==
    ASSUME PoolInv, NEW o \in Op, op[o].pc = "launch", NEW a \in Attempt, a = op[o].a,
           NEW w \in Window, op[o].src # NoSource => w = op[o].src.win,
           Navigate(w, a), UNCHANGED <<task, proto, spawn, older, binding>>, NEW m,
           m = [op[o] EXCEPT !.pc = "bind", !.win = w]
    PROVE  Sees(m)'
<1>1. /\ op[o] \in Process /\ Sees(op[o]) /\ a[1] = Min(op[o].todo) /\ TypeOK
      /\ spawn[a].state = "WINDOW_OPEN_SUBMITTED" /\ \A v \in Window : ~Shows(v, a)
  BY LaunchFacts
<1>2. /\ m.pc = "bind" /\ m.win = w /\ m.a = a /\ m.todo = op[o].todo /\ m.src = op[o].src
      /\ m.batch = op[o].batch
  BY <1>1 DEF Process
<1>3. \A v \in Window : Shows(v, a)' => v = w
  BY <1>1, LaunchPages
<1>4. BatchSafe(m)'
  BY <1>1, <1>2 DEF Sees, BatchSafe, EarlySteps
<1>5. m.todo \subseteq Existing'
  BY <1>1, <1>2 DEF Sees, Existing
<1>6. SeesAttempt(m)'
  BY <1>2, <1>3 DEF SeesAttempt
<1>7. m.src # NoSource => m.src.of[1] # Min(m.todo)
  BY <1>1, <1>2 DEF Sees, SeesSource, OpenSteps
<1>8. m.src.kind = "worker" => Held(m.src.of, m.src.win)'
  BY <1>1, <1>2 DEF Sees, SeesSource, OpenSteps, Held, Ended, Current
<1>9. m.src # NoSource => ~Shows(m.src.win, m.src.of)'
  <2>1. page'[w].of = a
    BY <1>1, ShowOne DEF Navigate, Root
  <2>2. m.src # NoSource => m.src.of # a /\ m.src.win = w
    BY <1>1, <1>2, <1>7
  <2> QED BY <2>1, <2>2 DEF Shows
<1>11. m.src.kind = "spawn" => spawn'[m.src.of].win = m.src.win
  BY <1>1, <1>2 DEF Sees, SeesSource, OpenSteps
<1>10. SeesSource(m)'
  BY <1>2, <1>7, <1>8, <1>9, <1>11 DEF SeesSource
<1> QED BY <1>2, <1>4, <1>5, <1>6, <1>10 DEF Sees, OpenSteps

LEMMA LaunchPool ==
    ASSUME PoolInv, Alone, SpawnInv', NEW o \in Op, LaunchNew(o) \/ LaunchReuse(o)
    PROVE  PoolFacts'
<1>1. op[o].pc = "launch" /\ UNCHANGED <<task, proto, spawn, older, binding>>
  BY DEF LaunchNew, LaunchReuse, At, OnlyPage
<1>2. PICK a \in Attempt :
         /\ a = op[o].a /\ spawn[a].state = "WINDOW_OPEN_SUBMITTED"
         /\ \A v \in Window : ~Shows(v, a)
  BY <1>1, LaunchFacts
<1>3. op[o] \in Process /\ op \in [Op -> Process] /\ TypeOK
  BY DEF PoolInv, SendInv, SpawnInv, TypeOK
<1>4. op[o].src # NoSource => op[o].src.win \in Window
  BY <1>3, SourceLemma DEF Process
<1>5. TaggedWindows(a) = {} /\ \A w \in Window : ~IsRoot(w, a)
  BY <1>2 DEF TaggedWindows, IsRoot, Shows
<1>6. \A pc \in {"maybe", "failed"} :
          pc \in PC /\ pc \notin SpecialSteps \cup {"child", "pool"} /\ pc \notin EarlySteps
  BY DEF PC, SpecialSteps, OpenSteps, ReuseSteps, EarlySteps
<1>7. CASE UNCHANGED page /\ (Stop(o) \/ \E pc \in {"maybe", "failed"} : Run(o, pc))
  <2>1. Calm
    BY <1>1, <1>7, PageCalm DEF Shows
  <2> QED BY <1>6, <1>7, <2>1, CalmStop, CalmRun
<1>8. CASE /\ \E w \in Window : Navigate(w, a)
           /\ Stop(o) \/ \E pc \in {"maybe", "failed"} : Run(o, pc)
  <2>1. PageFacts'
    BY <1>1, <1>2, <1>8, LaunchPages
  <2>2. CASE Stop(o)
    <3>1. Become(o, Idle) /\ Idle.pc = "idle" /\ Idle.todo = {} /\ Idle.batch = FALSE
      BY <2>2 DEF Stop, Idle
    <3>2. Idle.pc \notin SpecialSteps \cup {"child", "pool"} /\ GoesOn(o, Idle)
      BY <3>1 DEF SpecialSteps, OpenSteps, ReuseSteps, GoesOn
    <3> QED BY <1>1, <2>1, <3>1, <3>2, LaunchPlain
  <2>3. CASE \E pc \in {"maybe", "failed"} : Run(o, pc)
    <3>1. PICK pc \in {"maybe", "failed"} : Run(o, pc)
      BY <2>3
    <3>2. PICK m \in Process : Become(o, m) /\ m.pc = pc /\ SameWork(m, o)
      BY <1>3, <1>6, <3>1, RunFacts
    <3>3. GoesOn(o, m)
      BY <1>6, <3>2 DEF GoesOn, SameWork
    <3> QED BY <1>1, <1>6, <2>1, <3>2, <3>3, LaunchPlain
  <2> QED BY <1>8, <2>2, <2>3
<1>9. CASE \E w \in Window : /\ op[o].src # NoSource => w = op[o].src.win
                             /\ Navigate(w, a)
                             /\ Become(o, [op[o] EXCEPT !.pc = "bind", !.win = w])
  <2>1. PICK w \in Window : /\ op[o].src # NoSource => w = op[o].src.win
                            /\ Navigate(w, a)
                            /\ Become(o, [op[o] EXCEPT !.pc = "bind", !.win = w])
    BY <1>9
  <2>2. PICK m : m = [op[o] EXCEPT !.pc = "bind", !.win = w]
    OBVIOUS
  <2>3. Sees(m)'
    BY <1>1, <1>2, <2>1, <2>2, LaunchedSees
  <2>4. PageFacts'
    BY <1>1, <1>2, <2>1, LaunchPages
  <2> QED BY <1>3, <2>1, <2>2, <2>3, <2>4, AloneSees DEF PoolFacts
<1>10. CASE LaunchNew(o)
  BY <1>2, <1>5, <1>7, <1>8, <1>9, <1>10 DEF LaunchNew
<1>11. CASE LaunchReuse(o)
  BY <1>2, <1>4, <1>5, <1>7, <1>8, <1>9, <1>11 DEF LaunchReuse
<1> QED BY <1>10, <1>11

-----------------------------------------------------------------------------
(***************************************************************************)
(* Steps that change a binding or the worker protocol.                     *)
(***************************************************************************)
\* A binding is cleared only after the page was taken away.
LEMMA ClearBindingPool ==
    ASSUME PoolInv, Alone, SpawnInv', NEW o \in Op, ClearBinding(o)
    PROVE  PoolFacts'
<1>1. /\ op[o].pc = "clear" /\ op[o] \in Process /\ Sees(op[o]) /\ TypeOK
      /\ UNCHANGED <<task, proto, spawn, older, page>> /\ op[o].pc \in AttemptSteps
  BY DEF ClearBinding, At, PoolInv, PoolFacts, SendInv, SpawnInv, TypeOK, AttemptSteps
<1>2. PICK src \in Source : src = op[o].src
  BY <1>1 DEF Process
<1>3. /\ src.kind = "worker" /\ Held(src.of, src.win) /\ src # NoSource
      /\ src.of \in Unconsumed => spawn[src.of].win # src.win
  BY <1>1, <1>2 DEF Sees, SeesSource, ReuseSteps, NoSource
<1>4. PICK b \in Child \X Conv : b = src.of
  BY <1>2, <1>3, SourceLemma
<1>5. b[1] \in Child /\ b = <<b[1], b[2]>>
  OBVIOUS
<1>6. \A c \in Child : c # b[1] => binding'[c] = binding[c]
  BY <1>1, <1>2, <1>4 DEF ClearBinding, TypeOK
<1>7. ASSUME NEW a \in Attempt, spawn'[a].state = "COMPLETED", spawn'[a].consumed = "no"
      PROVE  Held(a, spawn[a].win)'
  <2>1. a \in Unconsumed /\ Held(a, spawn[a].win) /\ a[1] \in Child /\ a = <<a[1], a[2]>>
    BY <1>1, <1>7, AttemptLemma
       DEF Unconsumed, Completed, PoolInv, PoolFacts, PageFacts, PagesHeld
  <2>2. CASE a[1] # b[1] \/ Ended(a[1])
    BY <1>1, <1>6, <2>1, <2>2 DEF Held, Ended, Current
  <2>3. CASE a[1] = b[1] /\ ~Ended(a[1])
    <3>1. a[2] = b[2] /\ spawn[a].win = src.win
      BY <1>3, <1>4, <2>1, <2>3 DEF Held
    <3>2. a = b
      BY <1>5, <2>1, <2>3, <3>1
    <3> QED BY <1>3, <1>4, <2>1, <3>1, <3>2
  <2> QED BY <2>2, <2>3
<1>8. PageFacts'
  <2>1. PagesHeld'
    BY <1>7 DEF PagesHeld
  <2> QED BY <1>1, <2>1 DEF PoolInv, PoolFacts, PageFacts, RowsExist, ShownRows, OneWindow,
                            RowWindow, ConsumedGone, InOrder, Completed, Shows, Born, Existing
<1>9. PICK m \in Process : Become(o, m) /\ (m = Idle \/ (m.pc = "send" /\ SameWork(m, o)))
  BY <1>1, OnwardFacts DEF ClearBinding, PoolInv, SendInv
<1>10. m.pc \notin SpecialSteps \cup {"child", "pool"} /\ GoesOn(o, m)
  BY <1>9 DEF SpecialSteps, OpenSteps, ReuseSteps, GoesOn, SameWork, Idle, EarlySteps
<1> QED BY <1>1, <1>8, <1>9, <1>10, LaunchPlain

LEMMA StartCooldownPool ==
    ASSUME PoolInv, Alone, SpawnInv', NEW o \in Op, StartCooldown(o)
    PROVE  PoolFacts'
<1>1. Calm
  BY PageCalm DEF StartCooldown, Shows
<1>2. "back" \in PC /\ "back" \notin SpecialSteps \cup {"child", "pool"} /\ "back" \notin EarlySteps
  BY DEF PC, SpecialSteps, OpenSteps, ReuseSteps, EarlySteps
<1> QED BY <1>1, <1>2, CalmRun DEF StartCooldown

\* A protocol transition that revives no worker and takes no page but by ending its worker.
LEMMA ProtoCalm ==
    ASSUME TypeOK, UNCHANGED <<spawn, older, page>>, Existing \subseteq Existing',
           NEW c \in Child, NEW t,
           proto' = [proto EXCEPT ![c] = t],
           \A d \in Child : d # c => binding'[d] = binding[d],
           \A n \in Conv : proto[c].workers[n].status \in {"completed", "abandoned"}
                              => t.workers[n].status \in {"completed", "abandoned"},
           \/ \E n \in Conv : t.workers[n].status \in {"completed", "abandoned"}
           \/ binding'[c] = binding[c] /\ (Current(c) = None \/ t.current_worker_id = Current(c))
    PROVE  Calm
<1>1. proto'[c] = t /\ \A d \in Child : d # c => proto'[d] = proto[d]
  BY DEF TypeOK
<1>2. ASSUME NEW d \in Child, Ended(d) PROVE Ended(d)'
  BY <1>1, <1>2 DEF Ended
<1>3. ASSUME NEW a \in Child \X Conv, NEW w \in Window, Held(a, w) PROVE Held(a, w)'
  <2>1. a[1] \in Child /\ a[2] \in Conv /\ a[2] # None
    BY AttemptLemma
  <2>2. CASE Ended(a[1])
    BY <1>2, <2>1, <2>2 DEF Held
  <2>3. CASE a[1] # c
    BY <1>1, <1>3, <2>1, <2>3 DEF Held, Ended, Current
  <2>4. CASE a[1] = c /\ ~Ended(a[1])
    <3>1. Current(c) = a[2] /\ binding[c] = w
      BY <1>3, <2>4 DEF Held
    <3> QED BY <1>1, <2>1, <2>4, <3>1 DEF Held, Ended, Current
  <2> QED BY <2>2, <2>3, <2>4
<1>4. \A w \in Window, a \in Attempt : Shows(w, a)' => Shows(w, a)
  BY DEF Shows
<1> QED BY <1>2, <1>3, <1>4 DEF Calm

\* After the adoption was decided: the claim, the window, or nothing more.
LEMMA AdoptOn ==
    ASSUME PoolInv, Alone, SpawnInv', NEW o \in Op, Calm,
           \/ Stop(o) \/ Run(o, "window")
           \/ \E r : Become(o, [op[o] EXCEPT !.pc = "claim", !.rev = r])
    PROVE  PoolFacts'
<1>1. CASE Stop(o)
  BY <1>1, CalmStop
<1>2. CASE Run(o, "window")
  <2>1. "window" \in PC /\ "window" \notin SpecialSteps \cup {"child", "pool"} \cup EarlySteps
    BY DEF PC, SpecialSteps, OpenSteps, ReuseSteps, EarlySteps
  <2> QED BY <1>2, <2>1, CalmRun
<1>3. ASSUME NEW r, Become(o, [op[o] EXCEPT !.pc = "claim", !.rev = r]) PROVE PoolFacts'
  <2>1. PICK m : m = [op[o] EXCEPT !.pc = "claim", !.rev = r]
    OBVIOUS
  <2>2. op[o] \in Process
    BY DEF PoolInv, SendInv, SpawnInv, TypeOK
  <2>3. /\ Become(o, m) /\ m.pc = "claim" /\ m.a = op[o].a /\ m.batch = op[o].batch
        /\ m.todo = op[o].todo
    BY <1>3, <2>1, <2>2 DEF Process
  <2>4. m \in Process
    BY <2>3, BecomeProcess
  <2>5. m.pc \notin SpecialSteps \cup {"child", "pool"} /\ GoesOn(o, m)
    BY <2>3 DEF SpecialSteps, OpenSteps, ReuseSteps, GoesOn, EarlySteps
  <2> QED BY <2>3, <2>4, <2>5, PlainStep
<1> QED BY <1>1, <1>2, <1>3

LEMMA AdoptPool ==
    ASSUME PoolInv, Alone, SpawnInv', NEW o \in Op, Adopt(o)
    PROVE  PoolFacts'
<1>1. op[o].pc \in ConvSteps /\ SpawnInv /\ TypeOK
  BY DEF Adopt, At, ConvSteps, PoolInv, SendInv, SpawnInv
<1>2. PICK c \in Child, n \in Conv : c = op[o].a[1] /\ n = op[o].a[2]
  BY <1>1, ConvFacts
<1>3. proto[c] \in P!Snapshot
  BY <1>1 DEF TypeOK
<1>4. Calm
  <2>1. CASE UNCHANGED proto
    BY <2>1, PageCalm DEF Adopt, Shows
  <2>2. CASE ~UNCHANGED proto
    <3>1. PICK t : t = P!Register(proto[c], n, 0)
      OBVIOUS
    <3>2. proto' = [proto EXCEPT ![c] = t] /\ P!RegisterOk(proto[c], n)
      BY <1>2, <2>2, <3>1 DEF Adopt
    <3>3. proto[c].workers[n].status = "unregistered"
      BY <3>2 DEF P!RegisterOk
    <3>4. /\ t.current_worker_id = Current(c)
          /\ \A k \in Conv \ {n} : t.workers[k] = proto[c].workers[k]
      BY <1>3, <3>1, RegisterFacts DEF Current
    <3>5. \A k \in Conv : proto[c].workers[k].status \in {"completed", "abandoned"}
                              => t.workers[k].status \in {"completed", "abandoned"}
      BY <3>3, <3>4
    <3>6. UNCHANGED <<task, spawn, older, binding, page>>
      BY DEF Adopt
    <3> QED BY <1>1, <3>2, <3>4, <3>5, <3>6, ProtoCalm DEF Existing
  <2> QED BY <2>1, <2>2
<1>5. \/ Stop(o) \/ Run(o, "window")
      \/ \E r : Become(o, [op[o] EXCEPT !.pc = "claim", !.rev = r])
  BY DEF Adopt
<1> QED BY <1>4, <1>5, AdoptOn

LEMMA AdoptClaimPool ==
    ASSUME PoolInv, Alone, SpawnInv', NEW o \in Op, AdoptClaim(o)
    PROVE  PoolFacts'
<1>1. op[o].pc \in ConvSteps /\ SpawnInv /\ TypeOK
  BY DEF AdoptClaim, At, ConvSteps, PoolInv, SendInv, SpawnInv
<1>2. PICK c \in Child, n \in Conv : c = op[o].a[1] /\ n = op[o].a[2]
  BY <1>1, ConvFacts
<1>3. proto[c] \in P!Snapshot
  BY <1>1 DEF TypeOK
<1>4. Calm
  <2>1. CASE UNCHANGED proto
    BY <2>1, PageCalm DEF AdoptClaim, Shows
  <2>2. CASE ~UNCHANGED proto
    <3>1. PICK t : t = P!Claim(proto[c], n, 0, 1)
      OBVIOUS
    <3>2. proto' = [proto EXCEPT ![c] = t] /\ P!ClaimOk(proto[c], n)
      BY <1>2, <2>2, <3>1 DEF AdoptClaim
    <3>3. proto[c].workers[n].status = "candidate" /\ Current(c) = None
      BY <3>2 DEF P!ClaimOk, Current
    <3>4. \A k \in Conv \ {n} : t.workers[k] = proto[c].workers[k]
      BY <1>3, <3>1, ClaimFacts
    <3>5. \A k \in Conv : proto[c].workers[k].status \in {"completed", "abandoned"}
                              => t.workers[k].status \in {"completed", "abandoned"}
      BY <3>3, <3>4
    <3>6. UNCHANGED <<task, spawn, older, binding, page>>
      BY DEF AdoptClaim
    <3> QED BY <1>1, <3>2, <3>3, <3>5, <3>6, ProtoCalm DEF Existing
  <2> QED BY <2>1, <2>2
<1>5. Stop(o) \/ Run(o, "window")
  BY DEF AdoptClaim
<1> QED BY <1>4, <1>5, AdoptOn

\* The worker is given the window of its attempt, which from here on holds that page.
LEMMA AdoptBindWindowPool ==
    ASSUME PoolInv, Alone, SpawnInv', NEW o \in Op, AdoptBindWindow(o)
    PROVE  PoolFacts'
<1>1. /\ op[o].pc = "window" /\ op[o].pc \in WindowSteps /\ op[o].pc \in AttemptSteps
      /\ SpawnInv /\ TypeOK /\ Sees(op[o]) /\ UNCHANGED <<task, proto, spawn, older, page>>
      /\ op \in [Op -> Process]
  BY DEF AdoptBindWindow, At, WindowSteps, AttemptSteps, PoolInv, PoolFacts, SendInv, SpawnInv, TypeOK
<1>2. PICK a \in Attempt : a = op[o].a /\ a[1] \in Child /\ a = <<a[1], a[2]>>
  BY <1>1, AttemptFacts, AttemptLemma
<1>3. CASE Current(a[1]) # a[2]
  BY <1>2, <1>3, AdoptOn, PageCalm DEF AdoptBindWindow, Shows
<1>4. CASE Current(a[1]) = a[2]
  <2>1. /\ binding'[a[1]] = spawn[a].win /\ Run(o, "done")
        /\ \A c \in Child : c # a[1] => binding'[c] = binding[c]
    BY <1>1, <1>2, <1>4 DEF AdoptBindWindow, TypeOK
  <2>2. Held(a, spawn[a].win)'
    BY <1>1, <1>4, <2>1 DEF Held, Current
  <2>3. ASSUME NEW b \in Attempt, spawn'[b].state = "COMPLETED", spawn'[b].consumed = "no"
        PROVE  Held(b, spawn[b].win)'
    <3>1. Held(b, spawn[b].win) /\ b[1] \in Child /\ b = <<b[1], b[2]>>
      BY <1>1, <2>3, AttemptLemma DEF PoolInv, PoolFacts, PageFacts, PagesHeld
    <3>2. CASE b[1] # a[1] \/ Ended(b[1])
      BY <1>1, <2>1, <3>1, <3>2 DEF Held, Ended, Current
    <3>3. CASE b[1] = a[1] /\ ~Ended(b[1])
      <4>1. b = a
        BY <1>2, <1>4, <3>1, <3>3 DEF Held
      <4> QED BY <2>2, <4>1
    <3> QED BY <3>2, <3>3
  <2>4. PageFacts'
    <3>1. PagesHeld'
      BY <2>3 DEF PagesHeld
    <3> QED BY <1>1, <3>1 DEF PoolInv, PoolFacts, PageFacts, RowsExist, ShownRows, OneWindow,
                              RowWindow, ConsumedGone, InOrder, Completed, Shows, Born, Existing
  <2>5. "done" \in PC
    BY DEF PC
  <2>6. PICK m \in Process : Become(o, m) /\ m.pc = "done" /\ SameWork(m, o)
    BY <1>1, <2>1, <2>5, RunFacts
  <2>7. m.todo \subseteq Existing' /\ BatchSafe(m)'
    BY <1>1, <2>6 DEF Sees, BatchSafe, SameWork, Existing, EarlySteps
  <2>8. SeesAttempt(m)'
    BY <1>2, <2>2, <2>6 DEF SeesAttempt, SameWork
  <2>9. SeesSource(m)'
    BY <2>6 DEF SeesSource, OpenSteps, ReuseSteps
  <2>10. Sees(m)'
    BY <2>6, <2>7, <2>8, <2>9 DEF Sees, OpenSteps
  <2> QED BY <1>1, <2>4, <2>6, <2>10, AloneSees DEF PoolFacts
<1> QED BY <1>3, <1>4

-----------------------------------------------------------------------------
(***************************************************************************)
(* The other commands, the browser and its user are calm.                  *)
(***************************************************************************)
LEMMA ChildCalm ==
    ASSUME PoolInv, NEW c \in Child,
           CreateChild(c) \/ BindSession(c) \/ CompleteLoad(c) \/ CompleteAlign(c) \/ CompleteCrash(c)
    PROVE  Calm
<1>1. UNCHANGED <<proto, spawn, older, binding, page>> /\ task \in [Child -> {"absent", "QUEUED", "COMPLETED"}]
  BY DEF CreateChild, BindSession, CompleteLoad, CompleteAlign, CompleteCrash,
         PoolInv, SendInv, SpawnInv, TypeOK
<1>2. Existing \subseteq Existing'
  BY <1>1 DEF Existing, CreateChild, BindSession, CompleteLoad, CompleteAlign, CompleteCrash
<1> QED BY <1>1, <1>2 DEF Calm, Shows, Held, Ended, Current

\* An ended worker loses its binding, and its page is terminal from here on.
LEMMA EndCalm ==
    ASSUME PoolInv, NEW c \in Child, CompleteEnd(c) \/ CompleteClose(c)
    PROVE  Calm
<1>1. SpawnInv /\ TypeOK /\ proto[c] \in P!Snapshot /\ UNCHANGED <<task, spawn, older, page>>
  BY DEF PoolInv, SendInv, SpawnInv, TypeOK, CompleteEnd, CompleteClose
<1>2. CASE UNCHANGED proto
  <2>1. UNCHANGED binding
    BY <1>2 DEF CompleteEnd, CompleteClose
  <2> QED BY <1>1, <1>2, <2>1, PageCalm DEF Shows
<1>3. CASE CompleteEnd(c) /\ ~UNCHANGED proto
  <2>1. PICK t, ok : /\ Guarded(c, ok, t, "close")
                     /\ proto[c].revision = cpl[c].rev /\ ok =>
                           \E n \in Conv : /\ n = Current(c)
                                           /\ \/ t = P!CompleteWorker(proto[c], n, 0)
                                              \/ t = P!AbandonWorker(proto[c], n, 1)
    BY <1>1, <1>3, CompleteEndFacts
  <2>2. proto' = [proto EXCEPT ![c] = t] /\ proto[c].revision = cpl[c].rev /\ ok
    BY <1>3, <2>1 DEF Guarded
  <2>3. PICK n \in Conv : t = P!CompleteWorker(proto[c], n, 0) \/ t = P!AbandonWorker(proto[c], n, 1)
    BY <2>1, <2>2
  <2>4. /\ t.workers[n].status \in {"completed", "abandoned"}
        /\ \A k \in Conv \ {n} : t.workers[k] = proto[c].workers[k]
    BY <1>1, <2>3, EndFacts
  <2>5. binding' = [binding EXCEPT ![c] = None]
    BY <1>3 DEF CompleteEnd
  <2>6. \A d \in Child : d # c => binding'[d] = binding[d]
    BY <1>1, <2>5 DEF TypeOK
  <2>7. \A k \in Conv : proto[c].workers[k].status \in {"completed", "abandoned"}
                            => t.workers[k].status \in {"completed", "abandoned"}
    BY <2>4
  <2> QED BY <1>1, <2>2, <2>4, <2>6, <2>7, ProtoCalm DEF Existing
<1>4. CASE CompleteClose(c) /\ ~UNCHANGED proto
  <2>1. PICK t : t = P!CompleteTask(proto[c], 1)
    OBVIOUS
  <2>2. proto' = [proto EXCEPT ![c] = t] /\ UNCHANGED binding
    BY <1>4, <2>1 DEF CompleteClose, Guarded
  <2>3. t.current_worker_id = Current(c) /\ t.workers = proto[c].workers
    BY <1>1, <2>1, CompleteTaskFacts DEF Current
  <2>4. \A k \in Conv : proto[c].workers[k].status \in {"completed", "abandoned"}
                            => t.workers[k].status \in {"completed", "abandoned"}
    BY <2>3
  <2> QED BY <1>1, <2>2, <2>3, <2>4, ProtoCalm DEF Existing
<1> QED BY <1>2, <1>3, <1>4

LEMMA BrowserCalm ==
    ASSUME PoolInv, CooldownEnds \/ (\E w \in Window : Settle(w) \/ UserActs(w)) \/ UNCHANGED vars
    PROVE  Calm
<1>1. TypeOK
  BY DEF PoolInv, SendInv, SpawnInv
<1>2. ASSUME NEW w \in Window, Settle(w) PROVE Calm
  <2>1. page[w].of \in Attempt /\ page[w].kind \in {"root", "chat"}
    BY <1>1, <1>2, SentPage DEF Settle
  <2>2. PICK p : Show(w, p) /\ p.of = page[w].of
    BY <1>2 DEF Settle, Chat
  <2>3. \A v \in Window, a \in Attempt : Shows(v, a)' => Shows(v, a)
    BY <1>1, <2>1, <2>2, SameShow
  <2> QED BY <1>2, <2>3, PageCalm DEF Settle
<1>3. ASSUME NEW w \in Window, UserActs(w) PROVE Calm
  <2>1. PICK p \in {Absent, Elsewhere} : Show(w, p)
    BY <1>3 DEF UserActs
  <2>2. p.kind \notin {"root", "chat"}
    BY DEF Absent, Elsewhere
  <2>3. \A v \in Window, a \in Attempt : Shows(v, a)' => Shows(v, a)
    BY <1>1, <2>1, <2>2, SameShow
  <2> QED BY <1>3, <2>3, PageCalm DEF UserActs
<1>4. CASE CooldownEnds \/ UNCHANGED vars
  BY <1>4, PageCalm DEF CooldownEnds, vars, Shows
<1> QED BY <1>2, <1>3, <1>4

LEMMA StepPool ==
    ASSUME PoolInv, Alone, SpawnInv', NEW o \in Op, Step(o)
    PROVE  PoolFacts'
<1>1. CASE \/ ArmCheck(o) \/ ArmRecord(o) \/ Pool(o) \/ OpenRead(o) \/ OpenSubmit(o)
           \/ LaunchNew(o) \/ LaunchReuse(o) \/ BindWindow(o) \/ Consume(o) \/ ClearBinding(o)
           \/ OpenFailed(o) \/ OutcomeAmbiguous(o)
  BY <1>1, QuietOpPool, ArmRecordPool, PoolPool, OpenReadPool, OpenSubmitPool, LaunchPool,
     BindWindowPool, ConsumePool, ClearBindingPool, StopWritesPool, Zenon
<1>2. CASE \/ SendRead(o) \/ SendDuringCooldown(o) \/ SendSubmit(o) \/ Click(o) \/ StartCooldown(o)
           \/ SendBack(o) \/ WaitForConversation(o) \/ WaitForDelivery(o) \/ SecondSubmit(o)
           \/ SecondClick(o)
  BY <1>2, SendReadPool, StopWritesPool, SendSubmitPool, ClickPool, StartCooldownPool,
     QuietOpPool, SecondSubmitPool, Zenon
<1>3. CASE \/ Adopt(o) \/ AdoptClaim(o) \/ AdoptBindWindow(o) \/ AdoptDone(o)
           \/ BatchChild(o) \/ BatchSweep(o) \/ CloseTerminal(o) \/ MarkClosed(o)
  BY <1>3, AdoptPool, AdoptClaimPool, AdoptBindWindowPool, AdoptDonePool, BatchChildPool,
     BatchSweepPool, CloseTerminalPool, MarkClosedPool, Zenon
<1> QED BY <1>1, <1>2, <1>3, Zenon DEF Step

\* Init is fresh: no rows, no pages, no operator at work.
LEMMA InitPool ==
    ASSUME Init PROVE PoolFacts
<1>1. /\ Unborn.state = "unborn" /\ Unborn.win = None /\ Unborn.consumed = "no"
      /\ Absent.kind = "absent"
      /\ Idle.todo = {} /\ Idle.pc = "idle" /\ Idle.batch = FALSE
  BY DEF Unborn, Absent, Idle
<1>2. \A w \in Window, a \in Attempt : ~Shows(w, a)
  BY <1>1 DEF Init, Shows
<1>3. /\ \A a \in Attempt : /\ spawn[a].state = "unborn" /\ spawn[a].win = None
                            /\ spawn[a].consumed = "no"
      /\ older = {}
  BY <1>1 DEF Init
<1>6. InOrder
  BY <1>3 DEF InOrder, Completed
<1>4. PageFacts
  BY <1>2, <1>3, <1>6
     DEF PageFacts, RowsExist, ShownRows, OneWindow, RowWindow, PagesHeld, ConsumedGone, Born
<1>5. ASSUME NEW o \in Op PROVE Sees(op[o])
  <2>1. op[o] = Idle
    BY DEF Init
  <2>2. Idle.pc \notin SpecialSteps /\ BatchSafe(Idle)
    BY <1>1 DEF SpecialSteps, OpenSteps, ReuseSteps, BatchSafe
  <2> QED BY <1>1, <2>1, <2>2, PlainSees
<1> QED BY <1>4, <1>5 DEF PoolFacts

LEMMA NextPool ==
    ASSUME PoolInv, Alone, "open" \notin Commands, [Next]_vars
    PROVE  PoolInv'
<1>1. Apart
  BY DEF Alone, Apart
<1>2. SendInv' /\ SpawnInv'
  BY <1>1, NextSends DEF PoolInv, SendInv
<1>3. ASSUME NEW o \in Op, \/ BatchCommand(o) \/ ArmCommand(o) \/ OpenCommand(o) \/ SendCommand(o)
                           \/ ReconcileCommand(o) \/ AdoptCommand(o)
                           \/ Step(o) \/ Crash(o)
      PROVE  PoolFacts'
  <2>1. ~OpenCommand(o)
    BY DEF OpenCommand, Command
  <2> QED BY <1>2, <1>3, <2>1, BatchCommandPool, CommandPool, ReconcilePool, StepPool, QuietOpPool,
             Zenon
<1>4. ASSUME NEW c \in Child, \/ CreateChild(c) \/ BindSession(c) \/ CompleteLoad(c) \/ CompleteEnd(c)
                              \/ CompleteClose(c) \/ CompleteAlign(c) \/ CompleteCrash(c)
      PROVE  PoolFacts'
  <2>1. Calm
    BY <1>4, ChildCalm, EndCalm, Zenon
  <2>2. UNCHANGED op
    BY <1>4 DEF CreateChild, BindSession, CompleteLoad, CompleteEnd, CompleteClose, CompleteAlign,
                CompleteCrash
  <2> QED BY <1>2, <2>1, <2>2, CalmOther
<1>5. ASSUME CooldownEnds \/ (\E w \in Window : Settle(w) \/ UserActs(w)) \/ UNCHANGED vars
      PROVE  PoolFacts'
  <2>1. Calm
    BY <1>5, BrowserCalm
  <2>2. UNCHANGED op
    BY <1>5 DEF CooldownEnds, Settle, UserActs, vars
  <2> QED BY <1>2, <2>1, <2>2, CalmOther
<1>6. ASSUME Next PROVE PoolFacts'
  BY <1>3, <1>4, <1>5, <1>6, Zenon DEF Next
<1> QED BY <1>2, <1>5, <1>6 DEF PoolInv

OpensWithinPool ==
    \A o \in Op :
        op'[o] # op[o] /\ (\E w \in Window : page[w] = Absent /\ page'[w] # Absent)
            => Cardinality(DispatcherPages \ op[o].missed) < MaxWindows

\* Only the launch of a new window opens one, and the operator still sees room for it.
LEMMA StepOpens ==
    ASSUME PoolInv, Alone, NEW o \in Op, Step(o)
    PROVE  OpensWithinPool
<1>1. TypeOK /\ SpawnInv /\ Sees(op[o]) /\ Absent.kind = "absent"
  BY DEF PoolInv, PoolFacts, SendInv, SpawnInv, Absent
<1>2. CASE LaunchNew(o)
  <2>1. op[o].pc \in OpenSteps /\ op[o].src = NoSource
    BY <1>2 DEF LaunchNew, At, OpenSteps
  <2> QED BY <1>1, <2>1 DEF Sees, OpensWithinPool, Alone
<1>3. CASE LaunchReuse(o)
  <2>1. op[o] \in Process /\ op[o].src # NoSource
    BY <1>1, <1>3 DEF TypeOK, LaunchReuse
  <2>2. PICK w \in Window : w = op[o].src.win
    BY <2>1, SourceLemma DEF Process
  <2>3. UNCHANGED page \/ (IsChat(w, op[o].src.of) /\ Navigate(w, op[o].a))
    BY <1>3, <2>2 DEF LaunchReuse, ShowsSource
  <2>4. UNCHANGED page \/ (page[w] # Absent /\ \A v \in Window \ {w} : page'[v] = page[v])
    BY <1>1, <2>3, ShowOne DEF IsChat, Navigate
  <2> QED BY <2>4 DEF OpensWithinPool
<1>4. CASE Click(o) \/ SecondClick(o)
  <2>1. op[o].pc \in WindowSteps /\ op[o].pc \in AttemptSteps
    BY <1>4 DEF Click, SecondClick, At, WindowSteps, AttemptSteps
  <2>2. PICK a \in Attempt : a = op[o].a
    BY <1>1, <2>1, AttemptFacts
  <2>5. PICK w \in Window : w = spawn[a].win
    BY <1>1, <2>1, <2>2, AttemptFacts
  <2>3. \/ UNCHANGED page
        \/ (IsRoot(w, a) \/ IsChat(w, a)) /\ \E p : Show(w, p)
    BY <1>4, <2>2, <2>5 DEF Click, SecondClick, Refused, RateLimited, Invoked, Interrupted, Invoke
  <2>4. UNCHANGED page \/ (page[w] # Absent /\ \A v \in Window \ {w} : page'[v] = page[v])
    BY <1>1, <2>3, ShowOne DEF IsChat, IsRoot
  <2> QED BY <2>4 DEF OpensWithinPool
<1>5. CASE CloseTerminal(o)
  <2>1. op[o].pc \in Sweeping
    BY <1>5 DEF CloseTerminal, At, Sweeping
  <2>2. PICK w \in Window : w = spawn[SweptRow(o)].win
    BY <1>1, <2>1, SweptRowFacts
  <2>3. UNCHANGED page \/ Close(w)
    BY <1>5, <2>2 DEF CloseTerminal
  <2>4. UNCHANGED page \/ (page'[w] = Absent /\ \A v \in Window \ {w} : page'[v] = page[v])
    BY <1>1, <2>3, ShowOne DEF Close
  <2> QED BY <2>4 DEF OpensWithinPool
<1>6. CASE UNCHANGED page
  BY <1>6 DEF OpensWithinPool
<1>7. CASE \/ ArmCheck(o) \/ ArmRecord(o) \/ Pool(o) \/ OpenRead(o) \/ OpenSubmit(o)
           \/ BindWindow(o) \/ Consume(o) \/ ClearBinding(o)
           \/ OpenFailed(o) \/ OutcomeAmbiguous(o)
           \/ SendRead(o) \/ SendDuringCooldown(o) \/ SendSubmit(o) \/ StartCooldown(o)
           \/ SendBack(o) \/ WaitForConversation(o) \/ WaitForDelivery(o) \/ SecondSubmit(o)
           \/ Adopt(o) \/ AdoptClaim(o) \/ AdoptBindWindow(o) \/ AdoptDone(o)
           \/ BatchChild(o) \/ BatchSweep(o) \/ MarkClosed(o)
  <2>1. UNCHANGED page
    BY <1>7 DEF ArmCheck, ArmRecord, Pool, OpenRead, OpenSubmit, BindWindow, Consume, ClearBinding,
        OpenFailed, OutcomeAmbiguous, SendRead, SendDuringCooldown, SendSubmit, StartCooldown,
        SendBack, WaitForConversation, WaitForDelivery, SecondSubmit, Adopt, AdoptClaim,
        AdoptBindWindow, AdoptDone, BatchChild, BatchSweep, MarkClosed, OnlyOp, OnlySpawn
  <2> QED BY <1>6, <2>1
<1> QED BY <1>2, <1>3, <1>4, <1>5, <1>7, Zenon DEF Step

LEMMA NextOpens ==
    ASSUME PoolInv, Alone, [Next]_vars
    PROVE  OpensWithinPool
<1>1. TypeOK /\ Absent.kind = "absent" /\ Absent.text = "none"
  BY DEF PoolInv, SendInv, SpawnInv, Absent
<1>2. ASSUME NEW o \in Op, \/ BatchCommand(o) \/ ArmCommand(o) \/ OpenCommand(o) \/ SendCommand(o)
                           \/ ReconcileCommand(o) \/ AdoptCommand(o) \/ Crash(o)
      PROVE  UNCHANGED page
  BY <1>2 DEF BatchCommand, ArmCommand, OpenCommand, SendCommand, ReconcileCommand, AdoptCommand,
              Crash, OnlyOp
<1>3. ASSUME NEW c \in Child, \/ CreateChild(c) \/ BindSession(c) \/ CompleteLoad(c) \/ CompleteEnd(c)
                              \/ CompleteClose(c) \/ CompleteAlign(c) \/ CompleteCrash(c)
      PROVE  UNCHANGED page
  BY <1>3 DEF CreateChild, BindSession, CompleteLoad, CompleteEnd, CompleteClose, CompleteAlign,
              CompleteCrash
<1>4. ASSUME NEW w \in Window, Settle(w) \/ UserActs(w) PROVE OpensWithinPool
  <2>1. page[w] # Absent /\ \E p : Show(w, p)
    BY <1>1, <1>4 DEF Settle, UserActs
  <2>2. \A v \in Window \ {w} : page'[v] = page[v]
    BY <1>1, <2>1, ShowOne
  <2> QED BY <2>1, <2>2 DEF OpensWithinPool
<1>5. UNCHANGED page => OpensWithinPool
  BY DEF OpensWithinPool
<1>6. CooldownEnds \/ UNCHANGED vars => UNCHANGED page
  BY DEF CooldownEnds, vars
<1> QED BY <1>2, <1>3, <1>4, <1>5, <1>6, StepOpens, Zenon DEF Next

\* child-dispatch-batch opens a window only while fewer than --max-windows dispatcher pages
\* exist, running or terminal, whatever crashes, faults of the browser, acts of the user and
\* completions of children come between the count and the launch; only the windows of a child
\* that the count finds between the end of its worker and the alignment of its task row are
\* not among them.  This is for one operator process at a time that opens windows through the
\* batch (child-spawn-open has no pool), and for every number of children, attempts and windows.
THEOREM WindowsWithinPool ==
    ASSUME \A o, q \in Op : o = q, "open" \notin Commands
    PROVE  Spec => NewWindowsWithinPool
<1> DEFINE A == OpensWithinPool
<1>1. Init => PoolInv
  BY InitTypes, InitSends, InitPool DEF PoolInv, SendInv
<1>2. PoolInv /\ [Next]_vars => PoolInv'
  BY NextPool DEF Alone
<1>3. PoolInv /\ [Next]_vars => [A]_vars
  BY NextOpens DEF Alone
<1> HIDE DEF A
<1>4. Spec => [][A]_vars
  BY <1>1, <1>2, <1>3, PTL DEF Spec
<1> QED BY <1>4 DEF A, OpensWithinPool, NewWindowsWithinPool
=============================================================================
