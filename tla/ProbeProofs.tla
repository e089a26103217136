----------------------------- MODULE ProbeProofs -----------------------------
(***************************************************************************)
(* Machine-checked proofs about Probe: for any number of workers, windows, *)
(* drivers and operations, and whatever crashes, late evidence and         *)
(* duplicated windows there are, an operation launches Chrome at most      *)
(* once; and of the windows whose record no bind over another slot, no     *)
(* fail and no clear has lost, every one is on record and there is never a *)
(* second.  The runs ProbeBind and ProbeFail show that these exceptions    *)
(* are real.                                                               *)
(*                                                                         *)
(* OneRecordedProbe speaks of the windows only and is not inductive.       *)
(* ProbeInv says what an operation's record, a driver's position and the   *)
(* evidence a driver holds prove about the windows.  Two facts carry it,   *)
(* both stable once true because a tag is launched only once: a tag is     *)
(* settled when its window can no longer be loading and is known, and      *)
(* quiet when none of its windows is a probe any more.                     *)
(***************************************************************************)
EXTENDS Probe, FiniteSetTheorems, TLAPS

\* Nothing has been launched for the operation, and no driver may.
NotOpened(o) ==
    \/ ops[o].state = "unborn" \/ ops[o].kind = "CLOSE"
    \/ EffectiveState(ops[o]) \in {"ARMED", "CLOSE_SUBMITTED", "READY_TO_OPEN"}

\* The window of tag t has been launched and has loaded; where it still exists, it is w.
Settled(t, w) ==
    /\ launched[t] > 0
    /\ \A h \in Window : page[h].tag = t =>
          page[h].status # "loading" /\ (page[h].own => h = w)

\* The window of tag t has been launched and is gone or going.
Quiet(t) ==
    /\ launched[t] > 0
    /\ \A h \in Window : page[h].tag = t => ~page[h].own \/ page[h].status = "closing"

PriorFits(row) == row.target \in Worker /\ (row.kind = "OPEN" <=> row.prior = None)

RowsWellFormed ==
    \A o \in Operation :
        /\ ops[o].state # "unborn" => PriorFits(ops[o])
        /\ ops[o].state = "RECONCILE_REQUIRED" => ops[o].resume \in Unresolved \ {"RECONCILE_REQUIRED"}
        /\ ops[o].prior # None => Settled(ops[o].prior.tag, ops[o].prior.window)

\* One operation at a time, and the slot it was planned on stays as it was.
UnresolvedOwnsSlot ==
    \A o \in UnresolvedOps : slot = ops[o].prior /\ \A q \in UnresolvedOps : q = o

SlotSettled == slot # None => Settled(slot.tag, slot.window)

\* The old window is out of the way before the new one may be opened.
OldIsQuiet ==
    \A o \in UnresolvedOps :
        /\ ops[o].kind = "ROTATE"
        /\ EffectiveState(ops[o]) \in {"READY_TO_OPEN", "OPEN_SUBMITTED"}
        => Quiet(ops[o].prior.tag)

LaunchesFit ==
    /\ \A o \in Operation :
          /\ launched[o] \in {0, 1}
          /\ NotOpened(o) => launched[o] = 0 /\ \A d \in Driver : ~(At(d, "open") /\ driver[d].op = o)
    /\ \A d \in Driver : At(d, "open") =>
          /\ launched[driver[d].op] = 0
          /\ driver[d].op \in forgotten \cup UnresolvedOps
          /\ \A e \in Driver : At(e, "open") /\ driver[e].op = driver[d].op => e = d

PagesFit ==
    \A h \in Window : page[h] # Absent =>
        /\ launched[page[h].tag] > 0
        /\ page[h].status = "loading" => page[h].own
        /\ \A k \in Window :
              /\ page[k].tag = page[h].tag
              /\ page[h].status = "loading" \/ (page[h].own /\ page[k].own)
              => k = h

\* Every probe window is that of the slot or of the unresolved operation.
TagsTracked ==
    \A h \in RecordedProbes : page[h].tag \in UnresolvedOps \/ (slot # None /\ slot.tag = page[h].tag)

\* What the evidence and the authority a driver holds prove.
DriverFits(s) ==
    LET row == ops[s.op] IN
    /\ s.pc \notin {"idle", "arm", "find", "bind"} => s.op \in Operation /\ row.state # "unborn"
    /\ s.pc \in {"find", "bind"} =>
          s.row.prior # None /\ Settled(s.row.prior.tag, s.row.prior.window)
    /\ s.pc = "arm" => s.row.state = "ARMED" /\ s.row.resume = None /\ PriorFits(s.row)
    /\ s.pc = "fail" =>
          s.row.kind = row.kind /\ s.row.target = row.target /\ s.row.prior = row.prior
    /\ s.pc \in {"close", "close_done"} => row.prior # None
    /\ s.pc = "close_done" => Quiet(row.prior.tag)
    /\ s.pc = "open_done" => s.window \in Window /\ Settled(s.op, s.window)
    /\ s.pc \in {"observe", "reconcile"} /\ s.old = {} /\ row.prior # None =>
          Quiet(row.prior.tag)
    /\ s.pc = "reconcile" => \A h \in Window : s.new = {h} => Settled(s.op, h)

DriversFit == \A d \in Driver : DriverFits(driver[d])

ProbeInv ==
    /\ TypeOK
    /\ RowsWellFormed
    /\ UnresolvedOwnsSlot
    /\ SlotSettled
    /\ OldIsQuiet
    /\ LaunchesFit
    /\ PagesFit
    /\ TagsTracked
    /\ DriversFit

-----------------------------------------------------------------------------
(***************************************************************************)
(* What every step does to the windows and to the operations on record.    *)
(***************************************************************************)
\* A window stays, goes, loads, starts to close, becomes a copy of a loaded one, or is the
\* first window of its tag.
PageEvolves(h) ==
    \/ page'[h] = page[h] \/ page'[h] = Absent
    \/ /\ page'[h].tag = page[h].tag /\ page'[h].own = page[h].own
       /\ page'[h].status # "loading"
       /\ page[h].status = "closing" => page'[h].status = "closing"
    \/ /\ ~page'[h].own /\ page'[h].status # "loading"
       /\ \E k \in Window : page[k].tag = page'[h].tag /\ page[k].status = "shown"
    \/ page'[h].tag \in Operation /\ launched[page'[h].tag] = 0

WindowsEvolve ==
    /\ \A h \in Window : PageEvolves(h)
    /\ \A o \in Operation : launched'[o] \in Nat /\ launched'[o] >= launched[o]

\* What an operation was planned as never changes.
RowsKeep ==
    \A o \in Operation : ops[o].state # "unborn" =>
        /\ ops'[o].state # "unborn"
        /\ ops'[o].kind = ops[o].kind
        /\ ops'[o].target = ops[o].target /\ ops'[o].prior = ops[o].prior

LEMMA NoneFacts ==
    /\ None \notin Worker /\ None \notin Window /\ None \notin Operation
    /\ None \notin State /\ None \notin Slot
  BY ProbeAssumption DEF Operation

LEMMA IdleType == Idle \in DriverState /\ Idle.pc = "idle"
  BY NoneFacts DEF Idle, DriverState, Unborn, Row, Kind, State, Pc

\* A settled tag stays settled and a quiet one stays quiet.
LEMMA SettledStays ==
    ASSUME TypeOK, WindowsEvolve, NEW t \in Operation, NEW w \in Window, Settled(t, w)
    PROVE  Settled(t, w)'
<1>1. launched[t] \in Nat /\ launched'[t] \in Nat /\ launched[t] > 0 /\ launched'[t] >= launched[t]
  BY DEF TypeOK, WindowsEvolve, Settled
<1>2. launched'[t] > 0
  BY <1>1
<1>3. ASSUME NEW h \in Window, page'[h].tag = t
      PROVE  page'[h].status # "loading" /\ (page'[h].own => h = w)
  <2>1. PageEvolves(h)
    BY DEF WindowsEvolve
  <2>2. page'[h] # Absent
    BY <1>3, NoneFacts DEF Absent
  <2> QED BY <1>1, <1>3, <2>1, <2>2 DEF PageEvolves, Settled
<1> QED BY <1>2, <1>3 DEF Settled

LEMMA QuietStays ==
    ASSUME TypeOK, WindowsEvolve, NEW t \in Operation, Quiet(t)
    PROVE  Quiet(t)'
<1>1. launched[t] \in Nat /\ launched'[t] \in Nat /\ launched[t] > 0 /\ launched'[t] >= launched[t]
  BY DEF TypeOK, WindowsEvolve, Quiet
<1>2. launched'[t] > 0
  BY <1>1
<1>3. ASSUME NEW h \in Window, page'[h].tag = t
      PROVE  ~page'[h].own \/ page'[h].status = "closing"
  <2>1. PageEvolves(h)
    BY DEF WindowsEvolve
  <2>2. page'[h] # Absent
    BY <1>3, NoneFacts DEF Absent
  <2> QED BY <1>1, <1>3, <2>1, <2>2 DEF PageEvolves, Quiet
<1> QED BY <1>2, <1>3 DEF Quiet

LEMMA WindowsUntouched ==
    ASSUME TypeOK, page' = page, launched' = launched
    PROVE  WindowsEvolve
  BY DEF TypeOK, WindowsEvolve, PageEvolves

\* The slot an operation was planned on has a tag and a window.
LEMMA PriorTyped ==
    ASSUME TypeOK, NEW o \in Operation, ops[o].prior # None
    PROVE  ops[o].prior.tag \in Operation /\ ops[o].prior.window \in Window
  BY DEF TypeOK, Row, Slot

LEMMA DriverTyped ==
    ASSUME TypeOK, NEW d \in Driver
    PROVE  /\ driver[d] \in DriverState
           /\ driver[d].op \in Operation \cup {0} /\ driver[d].row \in Row
           /\ driver[d].window \in Window \cup {None}
           /\ driver[d].old \subseteq Window /\ driver[d].new \subseteq Window
  BY DEF TypeOK, DriverState

LEMMA IdleFits == DriverFits(Idle)
  BY DEF DriverFits, Idle

\* A driver that does not move keeps what it knows.
LEMMA DriverKeeps ==
    ASSUME ProbeInv, WindowsEvolve, RowsKeep, NEW e \in Driver, driver'[e] = driver[e]
    PROVE  DriverFits(driver[e])'
<1> DEFINE s == driver[e]
<1> DEFINE row == ops[s.op]
<1> DEFINE row2 == ops'[s.op]
<1>0. TypeOK /\ DriverFits(s)
  BY DEF ProbeInv, DriversFit
<1>1. s.pc \notin {"idle", "arm", "find", "bind"} =>
         /\ s.op \in Operation /\ row.state # "unborn" /\ row2.state # "unborn"
         /\ row2.kind = row.kind /\ row2.target = row.target /\ row2.prior = row.prior
  BY <1>0 DEF DriverFits, RowsKeep
<1>2. s.pc \notin {"idle", "arm", "find", "bind"} /\ row.prior # None =>
         row.prior.tag \in Operation /\ row.prior.window \in Window
  BY <1>0, <1>1, PriorTyped
<1>3. \A t \in Operation : Quiet(t) => Quiet(t)'
  BY <1>0, QuietStays
<1>4. \A t \in Operation, w \in Window : Settled(t, w) => Settled(t, w)'
  BY <1>0, SettledStays
<1>5. s.new \subseteq Window
  BY <1>0, DriverTyped
<1>6. s.row.prior # None => s.row.prior.tag \in Operation /\ s.row.prior.window \in Window
  BY <1>0, DriverTyped DEF Row, Slot
<1>7. s.pc \in {"find", "bind"} =>
         s.row.prior # None /\ Settled(s.row.prior.tag, s.row.prior.window)'
  BY <1>0, <1>4, <1>6 DEF DriverFits
<1> QED BY <1>0, <1>1, <1>2, <1>3, <1>4, <1>5, <1>7 DEF DriverFits, PriorFits

-----------------------------------------------------------------------------
(***************************************************************************)
(* The steps that only move a driver: planning, waiting, observing, and    *)
(* dying.                                                                  *)
(***************************************************************************)
LEMMA DriverMoves ==
    ASSUME ProbeInv, NEW d \in Driver,
           UNCHANGED <<parked, ops, slot, fresh, page, launched, binds, forgotten>>,
           driver' = [driver EXCEPT ![d] = driver'[d]],
           driver'[d] \in DriverState, driver'[d].pc # "open", DriverFits(driver[d])'
    PROVE  ProbeInv'
<1>1. TypeOK /\ driver \in [Driver -> DriverState]
  BY DEF ProbeInv, TypeOK
<1>2. driver' \in [Driver -> DriverState] /\ \A e \in Driver : e # d => driver'[e] = driver[e]
  BY <1>1
<1>3. TypeOK'
  BY <1>1, <1>2 DEF TypeOK
<1>4. WindowsEvolve /\ RowsKeep
  BY <1>1, WindowsUntouched DEF RowsKeep
<1>5. DriversFit'
  BY <1>2, <1>4, DriverKeeps DEF DriversFit
<1>6. \A o \in Operation : NotOpened(o)' = NotOpened(o)
  BY DEF NotOpened
<1>7. LaunchesFit'
  BY <1>2, <1>6 DEF ProbeInv, LaunchesFit, At, UnresolvedOps
<1>8. RowsWellFormed' /\ UnresolvedOwnsSlot' /\ SlotSettled' /\ OldIsQuiet'
  BY DEF ProbeInv, RowsWellFormed, UnresolvedOwnsSlot, SlotSettled, OldIsQuiet, Settled, Quiet,
         UnresolvedOps
<1>9. PagesFit' /\ TagsTracked'
  BY DEF ProbeInv, PagesFit, TagsTracked, RecordedProbes, Probes, UnresolvedOps
<1> QED BY <1>3, <1>5, <1>7, <1>8, <1>9 DEF ProbeInv

LEMMA CrashKeepsInv ==
    ASSUME ProbeInv, NEW d \in Driver, Crash(d)
    PROVE  ProbeInv'
<1>1. driver' = [driver EXCEPT ![d] = Idle] /\ driver'[d] = Idle
  BY DEF ProbeInv, TypeOK, Crash, Stop, Goto
<1>2. DriverFits(driver[d])'
  BY <1>1 DEF DriverFits, Idle
<1> QED BY <1>1, <1>2, IdleType, DriverMoves DEF Crash

LEMMA PlanKeepsInv ==
    ASSUME ProbeInv, NEW d \in Driver, (\E w \in Worker : Plan(d, w)) \/ PlanClose(d)
    PROVE  ProbeInv'
<1>0. CASE slot # None /\ PlannedReuse(d)
  <2> DEFINE s == [Idle EXCEPT !.pc = "find", !.row = [Unborn EXCEPT !.prior = slot]]
  <2>1. TypeOK /\ UNCHANGED <<parked, ops, slot, fresh, page, launched, binds, forgotten>>
    BY DEF ProbeInv, Plan, PlanClose
  <2>2. driver' = [driver EXCEPT ![d] = s] /\ driver'[d] = s
    BY <1>0, <2>1 DEF PlannedReuse, Goto, TypeOK
  <2>3. s.row \in Row /\ s.row.prior = slot /\ s.pc = "find"
    BY <2>1 DEF Row, Kind, State, TypeOK, Idle, Unborn
  <2>4. s \in DriverState
    BY <2>3, IdleType DEF DriverState, Idle, Pc
  <2> HIDE DEF s
  <2>5. Settled(slot.tag, slot.window)
    BY <1>0 DEF ProbeInv, SlotSettled
  <2>6. DriverFits(driver[d])'
    BY <1>0, <2>1, <2>2, <2>3, <2>5 DEF DriverFits, Settled
  <2> QED BY <2>1, <2>2, <2>3, <2>4, <2>6, DriverMoves
<1> SUFFICES ASSUME ~(slot # None /\ PlannedReuse(d)) PROVE ProbeInv'
  BY <1>0
<1>1. PICK kind \in Kind, w \in Worker :
         Planned(d, kind, w) /\ (kind = "OPEN" <=> slot = None)
  BY DEF Plan, PlanClose, Kind, ProbeInv, TypeOK, Slot
<1> DEFINE s == [Idle EXCEPT !.pc = "arm",
                             !.row = [kind |-> kind, state |-> "ARMED", resume |-> None,
                                      target |-> w, prior |-> slot]]
<1>2. TypeOK
  BY DEF ProbeInv
<1>3. driver' = [driver EXCEPT ![d] = s] /\ driver'[d] = s
  BY <1>1, <1>2 DEF Planned, Goto, TypeOK
<1>4. s \in DriverState
  <2>1. s.row \in Row
    BY <1>2 DEF Row, Kind, State, Unresolved, TypeOK, Idle
  <2> QED BY <2>1, IdleType DEF DriverState, Idle, Pc
<1>5. s.pc = "arm" /\ s.row.kind = kind /\ s.row.state = "ARMED" /\ s.row.resume = None
      /\ s.row.target = w /\ s.row.prior = slot
  BY DEF Idle
<1> HIDE DEF s
<1>6. DriverFits(driver[d])'
  BY <1>1, <1>3, <1>5 DEF DriverFits, PriorFits
<1>7. UNCHANGED <<parked, ops, slot, fresh, page, launched, binds, forgotten>>
  BY DEF Plan, PlanClose
<1> QED BY <1>3, <1>4, <1>5, <1>6, <1>7, DriverMoves

\* The only visible window of a tag settles it.
LEMMA FoundIsSettled ==
    ASSUME ProbeInv, NEW t \in Operation, NEW h \in Window, Find(t) = {h}
    PROVE  Settled(t, h)
<1>1. page[h].tag = t /\ page[h].status \in {"shown", "closing"}
  BY DEF Find
<1>2. page[h] # Absent
  BY <1>1, NoneFacts DEF Absent
<1>3. launched[t] > 0
  BY <1>1, <1>2 DEF ProbeInv, PagesFit
<1>4. ASSUME NEW k \in Window, page[k].tag = t
      PROVE  page[k].status # "loading" /\ (page[k].own => k = h)
  <2>1. page[k] # Absent
    BY <1>4, NoneFacts DEF Absent
  <2>2. page[k].status # "loading"
    BY <1>1, <1>4, <2>1 DEF ProbeInv, PagesFit
  <2>3. page[k].status \in {"loading", "shown", "closing"}
    BY <2>1 DEF ProbeInv, TypeOK, Page
  <2>4. k \in Find(t)
    BY <1>4, <2>2, <2>3 DEF Find
  <2> QED BY <2>2, <2>4
<1> QED BY <1>3, <1>4 DEF Settled

\* A settled tag without a visible window has none.
LEMMA UnseenIsQuiet ==
    ASSUME ProbeInv, NEW t \in Operation, NEW w \in Window, Settled(t, w), Find(t) = {}
    PROVE  Quiet(t)
<1>1. ASSUME NEW k \in Window, page[k].tag = t
      PROVE  FALSE
  <2>1. page[k] # Absent
    BY <1>1, NoneFacts DEF Absent
  <2>2. page[k].status \in {"loading", "shown", "closing"}
    BY <2>1 DEF ProbeInv, TypeOK, Page
  <2>3. page[k].status # "loading"
    BY <1>1 DEF Settled
  <2> QED BY <1>1, <2>2, <2>3 DEF Find
<1> QED BY <1>1 DEF Quiet, Settled

LEMMA FindReusedKeepsInv ==
    ASSUME ProbeInv, NEW d \in Driver, FindReused(d)
    PROVE  ProbeInv'
<1> DEFINE s == [driver[d] EXCEPT !.pc = "bind"]
<1>1. TypeOK /\ DriverFits(driver[d]) /\ driver[d] \in DriverState
  BY DriverTyped DEF ProbeInv, DriversFit
<1>2. UNCHANGED <<parked, ops, slot, fresh, page, launched, binds, forgotten>>
  BY DEF FindReused
<1>3. driver' = [driver EXCEPT ![d] = s] /\ driver'[d] = s
  BY <1>1 DEF FindReused, Goto, TypeOK
<1>4. s \in DriverState /\ s.pc = "bind" /\ s.row = driver[d].row
  BY <1>1 DEF DriverState, Pc
<1> HIDE DEF s
<1>5. s.row.prior # None /\ Settled(s.row.prior.tag, s.row.prior.window)
  BY <1>1, <1>4 DEF FindReused, At, DriverFits
<1>6. DriverFits(driver[d])'
  BY <1>2, <1>3, <1>4, <1>5 DEF DriverFits, Settled
<1> QED BY <1>2, <1>3, <1>4, <1>6, DriverMoves

LEMMA AwaitKeepsInv ==
    ASSUME ProbeInv, NEW d \in Driver, AwaitWindow(d)
    PROVE  ProbeInv'
<1>1. TypeOK /\ DriverFits(driver[d]) /\ driver[d] \in DriverState
  BY DriverTyped DEF ProbeInv, DriversFit
<1>2. driver[d].op \in Operation /\ ops[driver[d].op].state # "unborn"
  BY <1>1 DEF AwaitWindow, At, DriverFits
<1>3. UNCHANGED <<parked, ops, slot, fresh, page, launched, binds, forgotten>>
  BY DEF AwaitWindow
<1>4. CASE Stop(d)
  <2>1. driver' = [driver EXCEPT ![d] = Idle] /\ driver'[d] = Idle
    BY <1>1, <1>4 DEF TypeOK, Stop, Goto
  <2>2. DriverFits(driver[d])'
    BY <2>1 DEF DriverFits, Idle
  <2> QED BY <1>3, <2>1, <2>2, IdleType, DriverMoves
<1>5. CASE ~Stop(d)
  <2>1. PICK h \in Window : Find(driver[d].op) = {h}
                            /\ Goto(d, [driver[d] EXCEPT !.pc = "open_done", !.window = h])
    BY <1>5 DEF AwaitWindow
  <2> DEFINE s == [driver[d] EXCEPT !.pc = "open_done", !.window = h]
  <2>2. driver' = [driver EXCEPT ![d] = s] /\ driver'[d] = s
    BY <1>1, <2>1 DEF TypeOK, Goto
  <2>3. s \in DriverState /\ s.pc = "open_done" /\ s.op = driver[d].op /\ s.window = h
    BY <1>1 DEF DriverState, Pc
  <2> HIDE DEF s
  <2>4. Settled(driver[d].op, h)
    BY <1>2, <2>1, FoundIsSettled
  <2>5. DriverFits(driver[d])'
    BY <1>2, <1>3, <2>2, <2>3, <2>4 DEF DriverFits, Settled
  <2> QED BY <1>3, <2>2, <2>3, <2>5, DriverMoves
<1> QED BY <1>4, <1>5

LEMMA ObserveOldKeepsInv ==
    ASSUME ProbeInv, NEW d \in Driver, NEW o \in Operation, ObserveOld(d, o)
    PROVE  ProbeInv'
<1>1. TypeOK
  BY DEF ProbeInv
<1> DEFINE s == [Idle EXCEPT !.pc = "observe", !.op = o, !.old = OldMatches(o)]
<1>2. driver' = [driver EXCEPT ![d] = s] /\ driver'[d] = s
  BY <1>1 DEF TypeOK, ObserveOld, Goto
<1>3. OldMatches(o) \subseteq Window
  BY DEF OldMatches, Find
<1>4. s \in DriverState /\ s.pc = "observe" /\ s.op = o /\ s.old = OldMatches(o)
  BY <1>3, IdleType DEF DriverState, Pc, Idle
<1> HIDE DEF s
<1>5. ops[o].state # "unborn"
  BY DEF ObserveOld, Unresolved
<1>6. ASSUME OldMatches(o) = {}, ops[o].prior # None
      PROVE  Quiet(ops[o].prior.tag)
  BY <1>1, <1>6, PriorTyped, UnseenIsQuiet DEF OldMatches, ProbeInv, RowsWellFormed
<1>7. UNCHANGED <<parked, ops, slot, fresh, page, launched, binds, forgotten>>
  BY DEF ObserveOld
<1>8. DriverFits(driver[d])'
  BY <1>2, <1>4, <1>5, <1>6, <1>7 DEF DriverFits, Quiet
<1> QED BY <1>2, <1>4, <1>7, <1>8, DriverMoves

LEMMA ObserveNewKeepsInv ==
    ASSUME ProbeInv, NEW d \in Driver, ObserveNew(d)
    PROVE  ProbeInv'
<1>1. TypeOK /\ DriverFits(driver[d]) /\ driver[d] \in DriverState
  BY DriverTyped DEF ProbeInv, DriversFit
<1> DEFINE o == driver[d].op
<1>2. o \in Operation /\ ops[o].state # "unborn"
  BY <1>1 DEF ObserveNew, At, DriverFits
<1> DEFINE s == [driver[d] EXCEPT !.pc = "reconcile", !.new = NewMatches(o)]
<1>3. driver' = [driver EXCEPT ![d] = s] /\ driver'[d] = s
  BY <1>1 DEF TypeOK, ObserveNew, Goto
<1>4. NewMatches(o) \subseteq Window
  BY DEF NewMatches, Find
<1>5. /\ s \in DriverState /\ s.pc = "reconcile" /\ s.op = o /\ s.old = driver[d].old
      /\ s.new = NewMatches(o)
  BY <1>1, <1>4 DEF DriverState, Pc
<1> HIDE DEF s
<1>6. ASSUME NEW h \in Window, NewMatches(o) = {h}
      PROVE  Settled(o, h)
  BY <1>2, <1>6, FoundIsSettled DEF NewMatches
<1>7. UNCHANGED <<parked, ops, slot, fresh, page, launched, binds, forgotten>>
  BY DEF ObserveNew
<1>8. s.old = {} /\ ops[o].prior # None => Quiet(ops[o].prior.tag)
  BY <1>1, <1>5 DEF ObserveNew, At, DriverFits
<1>9. DriverFits(driver[d])'
  BY <1>2, <1>3, <1>5, <1>6, <1>7, <1>8 DEF DriverFits, Quiet, Settled
<1> QED BY <1>3, <1>5, <1>7, <1>9, DriverMoves

LEMMA FailReadKeepsInv ==
    ASSUME ProbeInv, NEW d \in Driver, NEW o \in Operation, FailRead(d, o)
    PROVE  ProbeInv'
<1>1. TypeOK /\ ops[o] \in Row
  BY DEF ProbeInv, TypeOK
<1> DEFINE s == [Idle EXCEPT !.pc = "fail", !.op = o, !.row = ops[o]]
<1>2. driver' = [driver EXCEPT ![d] = s] /\ driver'[d] = s
  BY <1>1 DEF TypeOK, FailRead, Goto
<1>3. s \in DriverState /\ s.pc = "fail" /\ s.op = o /\ s.row = ops[o]
  BY <1>1, IdleType DEF DriverState, Pc, Idle
<1> HIDE DEF s
<1>4. UNCHANGED <<parked, ops, slot, fresh, page, launched, binds, forgotten>> /\ ops[o].state # "unborn"
  BY DEF FailRead
<1>5. DriverFits(driver[d])'
  BY <1>2, <1>3, <1>4 DEF DriverFits
<1> QED BY <1>2, <1>3, <1>4, <1>5, DriverMoves

-----------------------------------------------------------------------------
(***************************************************************************)
(* The steps that change the windows: Chrome, its user, and the transport. *)
(***************************************************************************)
\* What the rows and the slot say stays true whatever happens to the windows.
LEMMA RecordsStay ==
    ASSUME ProbeInv, WindowsEvolve, ops' = ops, slot' = slot
    PROVE  RowsWellFormed' /\ UnresolvedOwnsSlot' /\ SlotSettled' /\ OldIsQuiet'
<1>1. TypeOK
  BY DEF ProbeInv
<1>2. \A t \in Operation : Quiet(t) => Quiet(t)'
  BY <1>1, QuietStays
<1>3. \A t \in Operation, w \in Window : Settled(t, w) => Settled(t, w)'
  BY <1>1, SettledStays
<1>4. \A o \in Operation : ops[o].prior # None =>
         ops[o].prior.tag \in Operation /\ ops[o].prior.window \in Window
  BY <1>1, PriorTyped
<1>5. RowsWellFormed'
  BY <1>3, <1>4 DEF ProbeInv, RowsWellFormed, PriorFits
<1>6. UnresolvedOwnsSlot'
  BY DEF ProbeInv, UnresolvedOwnsSlot, UnresolvedOps
<1>7. slot # None => slot.tag \in Operation /\ slot.window \in Window
  BY <1>1 DEF TypeOK, Slot
<1>8. SlotSettled'
  BY <1>3, <1>7 DEF ProbeInv, SlotSettled
<1>9. \A o \in UnresolvedOps : o \in Operation /\ (ops[o].kind = "ROTATE" => ops[o].prior # None)
  BY DEF ProbeInv, RowsWellFormed, PriorFits, UnresolvedOps, Unresolved
<1>10. OldIsQuiet'
  BY <1>2, <1>4, <1>9 DEF ProbeInv, OldIsQuiet, UnresolvedOps
<1> QED BY <1>5, <1>6, <1>8, <1>10

\* A window leaves, or stops being a probe: the others stay on record.
LEMMA PagesMove ==
    ASSUME ProbeInv, UNCHANGED <<parked, ops, slot, fresh, driver, launched, binds, forgotten>>,
           WindowsEvolve, page' \in [Window -> Page], PagesFit',
           \A h \in RecordedProbes' : page[h].tag = page'[h].tag /\ h \in RecordedProbes
    PROVE  ProbeInv'
<1>1. TypeOK'
  BY DEF ProbeInv, TypeOK
<1>2. RowsKeep
  BY DEF RowsKeep
<1>3. DriversFit'
  BY <1>2, DriverKeeps DEF DriversFit
<1>4. \A o \in Operation : NotOpened(o)' = NotOpened(o)
  BY DEF NotOpened
<1>5. LaunchesFit'
  BY <1>4 DEF ProbeInv, LaunchesFit, At, UnresolvedOps
<1>6. TagsTracked'
  BY DEF ProbeInv, TagsTracked, UnresolvedOps
<1> QED BY <1>1, <1>3, <1>5, <1>6, RecordsStay DEF ProbeInv

LEMMA LoadsKeepsInv ==
    ASSUME ProbeInv, NEW h \in Window, Loads(h)
    PROVE  ProbeInv'
<1> DEFINE p == [page[h] EXCEPT !.status = "shown"]
<1>1. TypeOK /\ page \in [Window -> Page] /\ page[h] # Absent
  BY DEF ProbeInv, TypeOK, Loads, Absent
<1>2. /\ page[h] \in [tag : Operation, status : {"loading", "shown", "closing"}, own : BOOLEAN]
      /\ page[h].status = "loading"
  BY <1>1 DEF Page, Loads
<1>3. p \in Page /\ p.tag = page[h].tag /\ p.own = page[h].own /\ p.status = "shown"
  BY <1>2 DEF Page
<1>4. page' = [page EXCEPT ![h] = p] /\ page'[h] = p /\ \A k \in Window : k # h => page'[k] = page[k]
  BY <1>1 DEF Loads
<1> HIDE DEF p
<1>5. page' \in [Window -> Page]
  BY <1>1, <1>3, <1>4
<1>6. UNCHANGED <<parked, ops, slot, fresh, driver, launched, binds, forgotten>>
  BY DEF Loads
<1>7. WindowsEvolve
  BY <1>1, <1>2, <1>3, <1>4, <1>6 DEF WindowsEvolve, PageEvolves, TypeOK
<1>8. PagesFit'
  BY <1>1, <1>2, <1>3, <1>4, <1>6 DEF ProbeInv, PagesFit
<1>9. \A k \in RecordedProbes' : page[k].tag = page'[k].tag /\ k \in RecordedProbes
  BY <1>2, <1>3, <1>4, <1>6 DEF RecordedProbes, Probes
<1> QED BY <1>5, <1>6, <1>7, <1>8, <1>9, PagesMove

LEMMA GoesKeepsInv ==
    ASSUME ProbeInv, NEW h \in Window, Goes(h)
    PROVE  ProbeInv'
<1>1. TypeOK /\ page \in [Window -> Page]
  BY DEF ProbeInv, TypeOK
<1>2. page'[h] = Absent /\ \A k \in Window : k # h => page'[k] = page[k]
  BY <1>1 DEF Goes
<1>3. page' \in [Window -> Page]
  BY <1>1 DEF Goes, Page
<1>4. UNCHANGED <<parked, ops, slot, fresh, driver, launched, binds, forgotten>>
  BY DEF Goes
<1>5. WindowsEvolve
  BY <1>1, <1>2, <1>4 DEF WindowsEvolve, PageEvolves, TypeOK
<1>6. Absent.tag = None /\ ~Absent.own
  BY DEF Absent
<1>7. \A k \in Window : page[k] # Absent => page[k].tag # None
  BY <1>1, NoneFacts DEF Page
<1>8. PagesFit'
  BY <1>2, <1>4, <1>6, <1>7 DEF ProbeInv, PagesFit
<1>9. \A k \in RecordedProbes' : page[k].tag = page'[k].tag /\ k \in RecordedProbes
  BY <1>2, <1>4, <1>6 DEF RecordedProbes, Probes
<1> QED BY <1>3, <1>4, <1>5, <1>8, <1>9, PagesMove

LEMMA DuplicatesKeepsInv ==
    ASSUME ProbeInv, NEW h \in Window, NEW k \in Window, Duplicates(h, k)
    PROVE  ProbeInv'
<1> DEFINE p == [page[h] EXCEPT !.own = FALSE]
<1>1. TypeOK /\ page \in [Window -> Page] /\ page[h] # Absent
  BY DEF ProbeInv, TypeOK, Duplicates, Absent
<1>2. /\ page[h] \in [tag : Operation, status : {"loading", "shown", "closing"}, own : BOOLEAN]
      /\ page[h].status = "shown" /\ page[h].own
  BY <1>1 DEF Page, Duplicates
<1>3. p \in Page /\ p.tag = page[h].tag /\ p.own = FALSE /\ p.status = "shown"
  BY <1>2 DEF Page
<1>4. page' = [page EXCEPT ![k] = p] /\ page'[k] = p /\ \A g \in Window : g # k => page'[g] = page[g]
  BY <1>1 DEF Duplicates
<1> HIDE DEF p
<1>5. page' \in [Window -> Page]
  BY <1>1, <1>3, <1>4
<1>6. UNCHANGED <<parked, ops, slot, fresh, driver, launched, binds, forgotten>>
  BY DEF Duplicates
<1>7. WindowsEvolve
  BY <1>1, <1>2, <1>3, <1>4, <1>6 DEF WindowsEvolve, PageEvolves, TypeOK
<1>8. \A g \in Window : page[g].tag = page[h].tag => page[g].status # "loading"
  BY <1>1, <1>2, NoneFacts DEF ProbeInv, PagesFit, Absent
<1>9. PagesFit'
  BY <1>1, <1>2, <1>3, <1>4, <1>6, <1>8 DEF ProbeInv, PagesFit
<1>10. \A g \in RecordedProbes' : page[g].tag = page'[g].tag /\ g \in RecordedProbes
  BY <1>3, <1>4, <1>6 DEF RecordedProbes, Probes
<1> QED BY <1>5, <1>6, <1>7, <1>9, <1>10, PagesMove

\* The transport changes the windows and moves its driver.
LEMMA TransportMoves ==
    ASSUME ProbeInv, NEW d \in Driver, UNCHANGED <<parked, ops, slot, fresh, binds, forgotten>>,
           driver' = [driver EXCEPT ![d] = driver'[d]], driver'[d] \in DriverState,
           DriverFits(driver[d])', WindowsEvolve, page' \in [Window -> Page],
           launched' \in [Operation -> Nat], LaunchesFit', PagesFit', TagsTracked'
    PROVE  ProbeInv'
<1>1. driver \in [Driver -> DriverState]
  BY DEF ProbeInv, TypeOK
<1>2. driver' \in [Driver -> DriverState] /\ \A e \in Driver : e # d => driver'[e] = driver[e]
  BY <1>1
<1>3. TypeOK'
  BY <1>2 DEF ProbeInv, TypeOK
<1>4. RowsKeep
  BY DEF RowsKeep
<1>5. DriversFit'
  BY <1>2, <1>4, DriverKeeps DEF DriversFit
<1> QED BY <1>3, <1>5, RecordsStay DEF ProbeInv

LEMMA CloseAuthorizedKeepsInv ==
    ASSUME ProbeInv, NEW d \in Driver, CloseAuthorized(d)
    PROVE  ProbeInv'
<1> DEFINE o == driver[d].op
<1> DEFINE prior == ops[o].prior
<1>1. TypeOK /\ DriverFits(driver[d]) /\ driver[d] \in DriverState
  BY DriverTyped DEF ProbeInv, DriversFit
<1>2. o \in Operation /\ ops[o].state # "unborn" /\ prior # None
  BY <1>1 DEF CloseAuthorized, At, DriverFits
<1>3. PICK t \in Operation, w \in Window :
         t = prior.tag /\ w = prior.window /\ Settled(t, w)
  BY <1>1, <1>2, PriorTyped DEF ProbeInv, RowsWellFormed
<1>4. UNCHANGED <<parked, ops, slot, fresh, launched, binds, forgotten>>
  BY DEF CloseAuthorized
<1>5. CASE Stop(d) /\ UNCHANGED page
  <2>1. driver' = [driver EXCEPT ![d] = Idle] /\ driver'[d] = Idle
    BY <1>1, <1>5 DEF TypeOK, Stop, Goto
  <2>2. DriverFits(driver[d])'
    BY <2>1 DEF DriverFits, Idle
  <2> QED BY <1>4, <1>5, <2>1, <2>2, IdleType, DriverMoves
<1>6. CASE ~(Stop(d) /\ UNCHANGED page)
  <2> DEFINE p == [page[w] EXCEPT !.status = "closing"]
  <2> DEFINE s == [driver[d] EXCEPT !.pc = "close_done"]
  <2>1. /\ w \in Find(t) /\ page' = [page EXCEPT ![w].status = "closing"]
        /\ Goto(d, s)
    BY <1>3, <1>6 DEF CloseAuthorized
  <2>2. page \in [Window -> Page] /\ page[w].tag = t /\ page[w] # Absent
    BY <1>1, <1>3, <2>1, NoneFacts DEF TypeOK, Find, Absent
  <2>3. page[w] \in [tag : Operation, status : {"loading", "shown", "closing"}, own : BOOLEAN]
    BY <1>3, <2>2 DEF Page
  <2>4. p \in Page /\ p.tag = page[w].tag /\ p.own = page[w].own /\ p.status = "closing"
    BY <2>3 DEF Page
  <2>5. /\ page' = [page EXCEPT ![w] = p] /\ page'[w] = p
        /\ \A g \in Window : g # w => page'[g] = page[g]
    BY <1>3, <2>1, <2>2
  <2>6. s \in DriverState /\ s.pc = "close_done" /\ s.op = o
    BY <1>1 DEF DriverState, Pc
  <2>7. driver' = [driver EXCEPT ![d] = s] /\ driver'[d] = s
    BY <1>1, <2>1 DEF TypeOK, Goto
  <2> HIDE DEF p, s
  <2>8. page' \in [Window -> Page]
    BY <2>2, <2>4, <2>5
  <2>9. WindowsEvolve
    BY <1>1, <1>4, <2>4, <2>5 DEF WindowsEvolve, PageEvolves, TypeOK
  <2>10. Quiet(t)'
    BY <1>3, <1>4, <2>4, <2>5 DEF Quiet, Settled
  <2>11. DriverFits(driver[d])'
    BY <1>2, <1>3, <1>4, <2>6, <2>7, <2>10 DEF DriverFits
  <2>12. \A q \in Operation : NotOpened(q)' = NotOpened(q)
    BY <1>4 DEF NotOpened
  <2>13. \A e \in Driver : At(e, "open")' => At(e, "open") /\ driver'[e] = driver[e]
    BY <1>1, <2>6, <2>7 DEF At, TypeOK
  <2>14. LaunchesFit'
    BY <1>4, <2>12, <2>13 DEF ProbeInv, LaunchesFit, UnresolvedOps
  <2>15. PagesFit'
    <3>1. \A g \in Window :
             /\ page'[g].tag = page[g].tag /\ page'[g].own = page[g].own
             /\ page'[g].status = "loading" => page[g].status = "loading"
             /\ page'[g] # Absent => page[g] # Absent
      BY <2>2, <2>4, <2>5
    <3> QED BY <1>4, <3>1 DEF ProbeInv, PagesFit
  <2>16. TagsTracked'
    BY <1>4, <2>4, <2>5 DEF ProbeInv, TagsTracked, RecordedProbes, Probes, UnresolvedOps
  <2> QED BY <1>1, <1>4, <2>6, <2>7, <2>8, <2>9, <2>11, <2>14, <2>15, <2>16, TransportMoves
           DEF TypeOK
<1> QED BY <1>5, <1>6

LEMMA OpenAuthorizedKeepsInv ==
    ASSUME ProbeInv, NEW d \in Driver, OpenAuthorized(d)
    PROVE  ProbeInv'
<1> DEFINE o == driver[d].op
<1>1. TypeOK /\ DriverFits(driver[d]) /\ driver[d] \in DriverState
  BY DriverTyped DEF ProbeInv, DriversFit
<1>2. o \in Operation /\ ops[o].state # "unborn" /\ At(d, "open")
  BY <1>1 DEF OpenAuthorized, At, DriverFits
<1>3. launched[o] = 0 /\ o \in forgotten \cup UnresolvedOps
  BY <1>2 DEF ProbeInv, LaunchesFit
<1>4. UNCHANGED <<parked, ops, slot, fresh, binds, forgotten>>
  BY DEF OpenAuthorized
<1>5. CASE Stop(d) /\ UNCHANGED <<page, launched>>
  <2>1. driver' = [driver EXCEPT ![d] = Idle] /\ driver'[d] = Idle
    BY <1>1, <1>5 DEF TypeOK, Stop, Goto
  <2>2. DriverFits(driver[d])'
    BY <2>1 DEF DriverFits, Idle
  <2> QED BY <1>4, <1>5, <2>1, <2>2, IdleType, DriverMoves
<1>6. CASE ~(Stop(d) /\ UNCHANGED <<page, launched>>)
  <2> DEFINE p == [tag |-> o, status |-> "loading", own |-> TRUE]
  <2> DEFINE s == [driver[d] EXCEPT !.pc = "await"]
  <2>1. PICK h \in Window : page[h] = Absent /\ page' = [page EXCEPT ![h] = p]
    BY <1>6 DEF OpenAuthorized
  <2>2. launched' = [launched EXCEPT ![o] = @ + 1] /\ Goto(d, s)
    BY <1>6 DEF OpenAuthorized
  <2>3. p \in Page /\ p.tag = o /\ p.status = "loading" /\ p.own /\ p # Absent
    BY <1>2, NoneFacts DEF Page, Absent
  <2>4. /\ page \in [Window -> Page] /\ page'[h] = p
        /\ \A g \in Window : g # h => page'[g] = page[g]
    BY <1>1, <2>1 DEF TypeOK
  <2>5. s \in DriverState /\ s.pc = "await" /\ s.op = o
    BY <1>1 DEF DriverState, Pc
  <2>6. driver' = [driver EXCEPT ![d] = s] /\ driver'[d] = s
    BY <1>1, <2>2 DEF TypeOK, Goto
  <2> HIDE DEF s
  <2>7. page' \in [Window -> Page]
    BY <2>1, <2>3, <2>4
  <2> HIDE DEF p
  <2>8. /\ launched \in [Operation -> Nat] /\ launched' \in [Operation -> Nat] /\ launched'[o] = 1
        /\ \A q \in Operation : q # o => launched'[q] = launched[q]
    BY <1>1, <1>2, <1>3, <2>2 DEF TypeOK
  <2>9. WindowsEvolve
    BY <1>2, <1>3, <2>3, <2>4, <2>8 DEF WindowsEvolve, PageEvolves
  <2>10. DriverFits(driver[d])'
    BY <1>2, <1>4, <2>5, <2>6 DEF DriverFits
  <2>11. \A q \in Operation : NotOpened(q)' = NotOpened(q)
    BY <1>4 DEF NotOpened
  <2>12. \A e \in Driver : At(e, "open")' => At(e, "open") /\ driver'[e] = driver[e] /\ e # d
    BY <1>1, <2>5, <2>6 DEF At, TypeOK
  <2>13. ~NotOpened(o) /\ \A e \in Driver : At(e, "open")' => driver[e].op # o
    BY <1>2, <2>12 DEF ProbeInv, LaunchesFit
  <2>14. \A e \in Driver : At(e, "open")' => driver[e].op \in Operation
    BY <2>12 DEF ProbeInv, DriversFit, DriverFits, At
  <2>15. UnresolvedOps' = UnresolvedOps
    BY <1>4 DEF UnresolvedOps
  <2>16. \A q \in Operation :
            /\ launched'[q] \in {0, 1}
            /\ NotOpened(q)' => launched'[q] = 0
                                /\ \A e \in Driver : ~(At(e, "open")' /\ driver'[e].op = q)
    BY <2>8, <2>11, <2>12, <2>13 DEF ProbeInv, LaunchesFit
  <2>17. \A e \in Driver : At(e, "open")' =>
            /\ launched'[driver'[e].op] = 0
            /\ driver'[e].op \in forgotten' \cup UnresolvedOps'
            /\ \A f \in Driver : At(f, "open")' /\ driver'[f].op = driver'[e].op => f = e
    BY <1>4, <2>8, <2>12, <2>13, <2>14, <2>15 DEF ProbeInv, LaunchesFit
  <2>18. LaunchesFit'
    BY <2>16, <2>17 DEF LaunchesFit
  <2>19. \A g \in Window : page[g] # Absent => page[g].tag \in Operation /\ page[g].tag # o
    BY <1>3, <2>4 DEF ProbeInv, PagesFit, Page
  <2>20. Absent.tag = None /\ None # o
    BY <1>2, NoneFacts DEF Absent
  <2>21. PagesFit'
    BY <2>3, <2>4, <2>8, <2>19, <2>20 DEF ProbeInv, PagesFit
  <2>22. TagsTracked'
    BY <1>3, <1>4, <2>3, <2>4, <2>15 DEF ProbeInv, TagsTracked, RecordedProbes, Probes
  <2> QED BY <1>4, <2>5, <2>6, <2>7, <2>8, <2>9, <2>10, <2>18, <2>21, <2>22, TransportMoves
<1> QED BY <1>5, <1>6

-----------------------------------------------------------------------------
(***************************************************************************)
(* The steps that change an operation's row.                               *)
(***************************************************************************)
LEMMA RowMoves ==
    ASSUME ProbeInv, NEW d \in Driver, NEW o \in Operation, NEW row \in Row,
           UNCHANGED <<parked, page, launched, binds>>,
           slot' \in Slot \cup {None}, fresh' \in BOOLEAN, forgotten' \subseteq Operation,
           ops' = [ops EXCEPT ![o] = row], RowsKeep,
           row.state # "unborn", PriorFits(row), row.prior \in {ops[o].prior, slot},
           row.state = "RECONCILE_REQUIRED" => row.resume \in Unresolved \ {"RECONCILE_REQUIRED"},
           driver' = [driver EXCEPT ![d] = driver'[d]], driver'[d] \in DriverState,
           DriverFits(driver[d])'
    PROVE  /\ TypeOK' /\ RowsWellFormed' /\ PagesFit' /\ DriversFit'
           /\ ops'[o] = row /\ \A q \in Operation : q # o => ops'[q] = ops[q]
           /\ \A e \in Driver : e # d => driver'[e] = driver[e]
           /\ \A t \in Operation : Quiet(t)' = Quiet(t)
           /\ \A t \in Operation, w \in Window : Settled(t, w)' = Settled(t, w)
<1>1. TypeOK
  BY DEF ProbeInv
<1>2. driver' \in [Driver -> DriverState] /\ \A e \in Driver : e # d => driver'[e] = driver[e]
  BY <1>1 DEF TypeOK
<1>3. /\ ops \in [Operation -> Row] /\ ops' \in [Operation -> Row] /\ ops'[o] = row
      /\ \A q \in Operation : q # o => ops'[q] = ops[q]
  BY <1>1 DEF TypeOK
<1>4. TypeOK'
  BY <1>1, <1>2, <1>3 DEF TypeOK
<1>5. WindowsEvolve
  BY <1>1, WindowsUntouched
<1>6. DriversFit'
  BY <1>2, <1>5, DriverKeeps DEF DriversFit
<1>7. \A t, w : Settled(t, w)' = Settled(t, w)
  BY DEF Settled
<1>8. \A t : Quiet(t)' = Quiet(t)
  BY DEF Quiet
<1>9. row.prior # None => Settled(row.prior.tag, row.prior.window)
  BY DEF ProbeInv, RowsWellFormed, SlotSettled
<1>10. \A q \in Operation : q # o =>
         /\ ops[q].state # "unborn" => PriorFits(ops[q])
         /\ ops[q].state = "RECONCILE_REQUIRED" => ops[q].resume \in Unresolved \ {"RECONCILE_REQUIRED"}
         /\ ops[q].prior # None => Settled(ops[q].prior.tag, ops[q].prior.window)
  BY DEF ProbeInv, RowsWellFormed
<1>11. RowsWellFormed'
  <2> SUFFICES ASSUME NEW q \in Operation
               PROVE  /\ ops'[q].state # "unborn" => PriorFits(ops'[q])
                      /\ ops'[q].state = "RECONCILE_REQUIRED" =>
                           ops'[q].resume \in Unresolved \ {"RECONCILE_REQUIRED"}
                      /\ ops'[q].prior # None =>
                           Settled(ops[q].prior.tag, ops[q].prior.window)'
    BY DEF RowsWellFormed, PriorFits
  <2> QED BY <1>3, <1>7, <1>9, <1>10 DEF Settled
<1>12. PagesFit'
  BY DEF ProbeInv, PagesFit
<1> QED BY <1>2, <1>3, <1>4, <1>6, <1>7, <1>8, <1>11, <1>12

\* The new row of an unresolved operation that stays unresolved.
StillUnresolved(o, row) ==
    /\ ops[o].state \in Unresolved /\ row.state \in Unresolved
    /\ row.kind = ops[o].kind /\ row.target = ops[o].target /\ row.prior = ops[o].prior
    /\ row.state = "RECONCILE_REQUIRED" => row.resume \in Unresolved \ {"RECONCILE_REQUIRED"}
    /\ row.kind = "ROTATE" /\ EffectiveState(row) \in {"READY_TO_OPEN", "OPEN_SUBMITTED"} =>
          Quiet(row.prior.tag)

LEMMA UnresolvedMoves ==
    ASSUME ProbeInv, NEW d \in Driver, NEW o \in Operation, NEW row \in Row,
           UNCHANGED <<parked, slot, fresh, page, launched, binds, forgotten>>,
           ops' = [ops EXCEPT ![o] = row], StillUnresolved(o, row),
           driver' = [driver EXCEPT ![d] = driver'[d]], driver'[d] \in DriverState,
           DriverFits(driver[d])', LaunchesFit'
    PROVE  ProbeInv'
<1>1. TypeOK /\ ops[o] \in Row /\ ops[o].state # "unborn" /\ row.state # "unborn"
  BY DEF ProbeInv, TypeOK, StillUnresolved, Unresolved
<1>2. ops'[o] = row /\ \A q \in Operation : q # o => ops'[q] = ops[q]
  BY <1>1 DEF TypeOK
<1>3. RowsKeep
  BY <1>1, <1>2 DEF RowsKeep, StillUnresolved
<1>4. PriorFits(row)
  BY <1>1 DEF ProbeInv, RowsWellFormed, PriorFits, StillUnresolved
<1>5. slot' \in Slot \cup {None} /\ fresh' \in BOOLEAN /\ forgotten' \subseteq Operation
  BY <1>1 DEF TypeOK
<1>6. /\ TypeOK' /\ RowsWellFormed' /\ PagesFit' /\ DriversFit'
      /\ \A t \in Operation : Quiet(t)' = Quiet(t)
      /\ \A t \in Operation, w \in Window : Settled(t, w)' = Settled(t, w)
  BY <1>1, <1>3, <1>4, <1>5, RowMoves DEF StillUnresolved
<1>7. UnresolvedOps' = UnresolvedOps
  BY <1>2 DEF UnresolvedOps, StillUnresolved
<1>8. \A q \in UnresolvedOps : q \in Operation /\ ops'[q].prior = ops[q].prior /\ ops'[q].kind = ops[q].kind
  BY <1>2 DEF StillUnresolved, UnresolvedOps
<1>9. UnresolvedOwnsSlot'
  BY <1>7, <1>8 DEF ProbeInv, UnresolvedOwnsSlot
<1>10. SlotSettled'
  BY DEF ProbeInv, SlotSettled, Settled
<1>11. TagsTracked'
  BY <1>7 DEF ProbeInv, TagsTracked, RecordedProbes, Probes
<1>12. OldIsQuiet'
  BY <1>2, <1>7, <1>8 DEF ProbeInv, OldIsQuiet, StillUnresolved, Quiet
<1> QED BY <1>6, <1>9, <1>10, <1>11, <1>12 DEF ProbeInv

LEMMA AuthorizeCloseKeepsInv ==
    ASSUME ProbeInv, NEW d \in Driver, NEW o \in Operation, AuthorizeClose(d, o)
    PROVE  ProbeInv'
<1> DEFINE s == [Idle EXCEPT !.pc = "close", !.op = o]
<1>1. TypeOK /\ ops \in [Operation -> Row] /\ ops[o] \in Row
  BY DEF ProbeInv, TypeOK
<1>2. PICK row \in Row :
         /\ row.state = "CLOSE_SUBMITTED" /\ row.kind = ops[o].kind /\ row.target = ops[o].target
         /\ row.prior = ops[o].prior /\ ops' = [ops EXCEPT ![o] = row] /\ ops'[o] = row
  <2> DEFINE r == [ops[o] EXCEPT !.state = "CLOSE_SUBMITTED"]
  <2>1. /\ r \in Row /\ r.state = "CLOSE_SUBMITTED" /\ r.kind = ops[o].kind
        /\ r.target = ops[o].target /\ r.prior = ops[o].prior
    BY <1>1 DEF Row, State, Unresolved
  <2>2. ops' = [ops EXCEPT ![o] = r]
    BY <1>1 DEF AuthorizeClose
  <2> HIDE DEF r
  <2>3. ops'[o] = r
    BY <1>1, <2>2
  <2> QED BY <2>1, <2>2, <2>3
<1>3. /\ UNCHANGED <<parked, slot, fresh, page, launched, binds, forgotten>>
      /\ ops[o].kind \in {"ROTATE", "CLOSE"} /\ ops[o].state = "ARMED"
  BY DEF AuthorizeClose
<1>4. s \in DriverState /\ s.pc = "close" /\ s.op = o
  BY IdleType DEF DriverState, Pc, Idle
<1>5. driver' = [driver EXCEPT ![d] = s] /\ driver'[d] = s
  BY <1>1 DEF AuthorizeClose, Goto, TypeOK
<1> HIDE DEF s
<1>6. StillUnresolved(o, row)
  BY <1>2, <1>3 DEF StillUnresolved, Unresolved, EffectiveState
<1>7. ops[o].prior # None
  BY <1>3 DEF ProbeInv, RowsWellFormed, PriorFits
<1>8. DriverFits(driver[d])'
  BY <1>2, <1>4, <1>5, <1>7 DEF DriverFits
<1>9. NotOpened(o) /\ \A q \in Operation : q # o => NotOpened(q)' = NotOpened(q)
  BY <1>1, <1>2, <1>3 DEF NotOpened, EffectiveState
<1>10. \A e \in Driver : At(e, "open")' => At(e, "open") /\ driver'[e] = driver[e]
  BY <1>1, <1>4, <1>5 DEF At, TypeOK
<1>11. UnresolvedOps' = UnresolvedOps
  BY <1>1, <1>2, <1>6 DEF UnresolvedOps, StillUnresolved
<1>12. LaunchesFit'
  BY <1>3, <1>9, <1>10, <1>11 DEF ProbeInv, LaunchesFit
<1> QED BY <1>2, <1>3, <1>4, <1>5, <1>6, <1>8, <1>12, UnresolvedMoves

LEMMA AuthorizeOpenKeepsInv ==
    ASSUME ProbeInv, NEW d \in Driver, NEW o \in Operation, AuthorizeOpen(d, o)
    PROVE  ProbeInv'
<1> DEFINE s == [Idle EXCEPT !.pc = "open", !.op = o]
<1>1. TypeOK /\ ops \in [Operation -> Row] /\ ops[o] \in Row
  BY DEF ProbeInv, TypeOK
<1>2. PICK row \in Row :
         /\ row.state = "OPEN_SUBMITTED" /\ row.kind = ops[o].kind /\ row.target = ops[o].target
         /\ row.prior = ops[o].prior /\ ops' = [ops EXCEPT ![o] = row] /\ ops'[o] = row
  <2> DEFINE r == [ops[o] EXCEPT !.state = "OPEN_SUBMITTED", !.resume = None]
  <2>1. /\ r \in Row /\ r.state = "OPEN_SUBMITTED" /\ r.kind = ops[o].kind
        /\ r.target = ops[o].target /\ r.prior = ops[o].prior
    BY <1>1 DEF Row, State, Unresolved
  <2>2. ops' = [ops EXCEPT ![o] = r]
    BY <1>1 DEF AuthorizeOpen
  <2> HIDE DEF r
  <2>3. ops'[o] = r
    BY <1>1, <2>2
  <2> QED BY <2>1, <2>2, <2>3
<1>3. /\ UNCHANGED <<parked, slot, fresh, page, launched, binds, forgotten>>
      /\ (ops[o].kind = "OPEN" /\ ops[o].state = "ARMED")
         \/ (ops[o].kind = "ROTATE" /\ ops[o].state = "READY_TO_OPEN")
  BY DEF AuthorizeOpen
<1>4. s \in DriverState /\ s.pc = "open" /\ s.op = o
  BY IdleType DEF DriverState, Pc, Idle
<1>5. driver' = [driver EXCEPT ![d] = s] /\ driver'[d] = s
  BY <1>1 DEF AuthorizeOpen, Goto, TypeOK
<1> HIDE DEF s
<1>6. o \in UnresolvedOps
  BY <1>3 DEF UnresolvedOps, Unresolved
<1>7. StillUnresolved(o, row)
  BY <1>2, <1>3, <1>6 DEF StillUnresolved, Unresolved, EffectiveState, ProbeInv, OldIsQuiet
<1>8. DriverFits(driver[d])'
  BY <1>2, <1>4, <1>5 DEF DriverFits
<1>9. /\ NotOpened(o) /\ ~NotOpened(o)'
      /\ \A q \in Operation : q # o => NotOpened(q)' = NotOpened(q)
  BY <1>1, <1>2, <1>3 DEF NotOpened, EffectiveState
<1>10. launched[o] = 0 /\ \A e \in Driver : ~(At(e, "open") /\ driver[e].op = o)
  BY <1>9 DEF ProbeInv, LaunchesFit
<1>11. \A e \in Driver : e # d => driver'[e] = driver[e]
  BY <1>1, <1>5 DEF TypeOK
<1>12. UnresolvedOps' = UnresolvedOps
  BY <1>1, <1>2, <1>7 DEF UnresolvedOps, StillUnresolved
<1>13. LaunchesFit'
  BY <1>3, <1>4, <1>5, <1>6, <1>9, <1>10, <1>11, <1>12 DEF ProbeInv, LaunchesFit, At
<1> QED BY <1>2, <1>3, <1>4, <1>5, <1>7, <1>8, <1>13, UnresolvedMoves

LEMMA ArmKeepsInv ==
    ASSUME ProbeInv, NEW d \in Driver, Arm(d)
    PROVE  ProbeInv'
<1>1. TypeOK /\ DriverFits(driver[d]) /\ At(d, "arm") /\ driver[d].row \in Row
  BY DriverTyped DEF ProbeInv, DriversFit, Arm
<1>2. PICK row \in Row : row = driver[d].row
  BY <1>1
<1>3. /\ row.state = "ARMED" /\ row.resume = None /\ PriorFits(row)
      /\ UnresolvedOps = {} /\ slot = row.prior
  BY <1>1, <1>2 DEF At, DriverFits, Arm, ArmOk
<1>4. PICK o \in NextOps : ops' = [ops EXCEPT ![o] = row]
  BY <1>2 DEF Arm
<1>5. o \in Operation /\ ops[o].state = "unborn"
  BY <1>4 DEF NextOps, Unborn
<1>6. ops'[o] = row /\ \A q \in Operation : q # o => ops'[q] = ops[q]
  BY <1>1, <1>4, <1>5 DEF TypeOK
<1>7. RowsKeep
  BY <1>5, <1>6 DEF RowsKeep
<1>8. driver' = [driver EXCEPT ![d] = Idle] /\ driver'[d] = Idle
  BY <1>1 DEF Arm, Stop, Goto, TypeOK
<1>9. DriverFits(driver[d])'
  BY <1>8 DEF DriverFits, Idle
<1>10. UNCHANGED <<parked, slot, fresh, page, launched, binds, forgotten>>
  BY DEF Arm
<1>11. slot' \in Slot \cup {None} /\ fresh' \in BOOLEAN /\ forgotten' \subseteq Operation
  BY <1>1, <1>10 DEF TypeOK
<1>12. /\ TypeOK' /\ RowsWellFormed' /\ PagesFit' /\ DriversFit'
       /\ \A e \in Driver : e # d => driver'[e] = driver[e]
  BY <1>3, <1>4, <1>5, <1>7, <1>8, <1>9, <1>10, <1>11, IdleType, RowMoves
<1>13. UnresolvedOps' = {o}
  BY <1>3, <1>5, <1>6 DEF UnresolvedOps, Unresolved
<1>14. UnresolvedOwnsSlot' /\ SlotSettled'
  BY <1>3, <1>6, <1>10, <1>13 DEF ProbeInv, UnresolvedOwnsSlot, SlotSettled, Settled
<1>15. OldIsQuiet'
  BY <1>3, <1>6, <1>13 DEF OldIsQuiet, EffectiveState
<1>16. NotOpened(o) /\ \A q \in Operation : q # o => NotOpened(q)' = NotOpened(q)
  BY <1>5, <1>6 DEF NotOpened
<1>17. \A e \in Driver : At(e, "open")' => At(e, "open") /\ driver'[e] = driver[e]
  BY <1>8, <1>12, IdleType DEF At
<1>18. LaunchesFit'
  BY <1>3, <1>10, <1>13, <1>16, <1>17 DEF ProbeInv, LaunchesFit
<1>19. TagsTracked'
  BY <1>3, <1>10 DEF ProbeInv, TagsTracked, RecordedProbes, Probes
<1> QED BY <1>12, <1>14, <1>15, <1>18, <1>19 DEF ProbeInv

LEMMA FailSaveKeepsInv ==
    ASSUME ProbeInv, NEW d \in Driver, FailSave(d)
    PROVE  ProbeInv'
<1>1. TypeOK /\ DriverFits(driver[d]) /\ At(d, "fail") /\ driver[d].row \in Row
  BY DriverTyped DEF ProbeInv, DriversFit, FailSave
<1>2. PICK o \in Operation : o = driver[d].op /\ ops[o].state # "unborn"
  BY <1>1 DEF At, DriverFits
<1>3. PICK row \in Row :
         /\ ops' = [ops EXCEPT ![o] = row] /\ row.state = "FAILED"
         /\ row.kind = ops[o].kind /\ row.target = ops[o].target /\ row.prior = ops[o].prior
  <2> DEFINE r == [driver[d].row EXCEPT !.state = "FAILED"]
  <2>1. /\ r \in Row /\ r.state = "FAILED" /\ r.kind = ops[o].kind
        /\ r.target = ops[o].target /\ r.prior = ops[o].prior
    BY <1>1, <1>2 DEF Row, State, At, DriverFits
  <2>2. ops' = [ops EXCEPT ![o] = r]
    BY <1>2 DEF FailSave
  <2> HIDE DEF r
  <2> QED BY <2>1, <2>2
<1>4. ops'[o] = row /\ \A q \in Operation : q # o => ops'[q] = ops[q]
  BY <1>1, <1>3 DEF TypeOK
<1>5. RowsKeep
  BY <1>2, <1>3, <1>4 DEF RowsKeep
<1>6. driver' = [driver EXCEPT ![d] = Idle] /\ driver'[d] = Idle
  BY <1>1 DEF FailSave, Stop, Goto, TypeOK
<1>7. DriverFits(driver[d])'
  BY <1>6 DEF DriverFits, Idle
<1>8. UNCHANGED <<parked, slot, fresh, page, launched, binds>> /\ forgotten' = forgotten \cup {o}
  BY <1>2 DEF FailSave, Forget
<1>9. slot' \in Slot \cup {None} /\ fresh' \in BOOLEAN /\ forgotten' \subseteq Operation
  BY <1>1, <1>8 DEF TypeOK
<1>10. PriorFits(row)
  BY <1>2, <1>3 DEF ProbeInv, RowsWellFormed, PriorFits
<1>11. /\ TypeOK' /\ RowsWellFormed' /\ PagesFit' /\ DriversFit'
       /\ \A e \in Driver : e # d => driver'[e] = driver[e]
  BY <1>3, <1>5, <1>6, <1>7, <1>8, <1>9, <1>10, IdleType, RowMoves
<1>12. UnresolvedOps' = UnresolvedOps \ {o}
  BY <1>3, <1>4 DEF UnresolvedOps, Unresolved
<1>13. \A q \in UnresolvedOps' : q \in UnresolvedOps /\ ops'[q] = ops[q]
  BY <1>4, <1>12 DEF UnresolvedOps
<1>14. UnresolvedOwnsSlot' /\ SlotSettled' /\ OldIsQuiet'
  BY <1>8, <1>13 DEF ProbeInv, UnresolvedOwnsSlot, SlotSettled, OldIsQuiet, Settled, Quiet
<1>15. \A q \in Operation : NotOpened(q)' => NotOpened(q)
  BY <1>3, <1>4 DEF NotOpened, EffectiveState
<1>16. \A e \in Driver : At(e, "open")' => At(e, "open") /\ driver'[e] = driver[e]
  BY <1>6, <1>11, IdleType DEF At
<1>17. LaunchesFit'
  BY <1>8, <1>12, <1>15, <1>16 DEF ProbeInv, LaunchesFit
<1>18. TagsTracked'
  BY <1>8, <1>12 DEF ProbeInv, TagsTracked, RecordedProbes, Probes
<1> QED BY <1>11, <1>14, <1>17, <1>18 DEF ProbeInv

\* Publishing the outcome of an operation whose window is known and whose old window is gone.
LEMMA PublishKeepsInv ==
    ASSUME ProbeInv, NEW d \in Driver, NEW o \in Operation, NEW h,
           Publish(o, h), Stop(d), UNCHANGED <<parked, page, launched, binds, forgotten>>,
           ops[o].state \in Unresolved,
           ops[o].kind # "CLOSE" => h \in Window /\ Settled(o, h),
           ops[o].prior # None => Quiet(ops[o].prior.tag)
    PROVE  ProbeInv'
<1>1. TypeOK /\ ops \in [Operation -> Row] /\ ops[o] \in Row /\ ops[o].state # "unborn"
  BY DEF ProbeInv, TypeOK, Unresolved
<1>2. PICK row \in Row :
         /\ ops' = [ops EXCEPT ![o] = row] /\ row.state = "COMPLETED"
         /\ row.kind = ops[o].kind /\ row.target = ops[o].target /\ row.prior = ops[o].prior
  <2> DEFINE r == [ops[o] EXCEPT !.state = "COMPLETED", !.resume = None]
  <2>1. /\ r \in Row /\ r.state = "COMPLETED" /\ r.kind = ops[o].kind
        /\ r.target = ops[o].target /\ r.prior = ops[o].prior
    BY <1>1 DEF Row, State
  <2>2. ops' = [ops EXCEPT ![o] = r]
    BY <1>1 DEF Publish
  <2> HIDE DEF r
  <2> QED BY <2>1, <2>2
<1>3. ops'[o] = row /\ \A q \in Operation : q # o => ops'[q] = ops[q]
  BY <1>1, <1>2
<1>4. RowsKeep
  BY <1>1, <1>2, <1>3 DEF RowsKeep
<1>5. driver' = [driver EXCEPT ![d] = Idle] /\ driver'[d] = Idle
  BY <1>1 DEF Stop, Goto, TypeOK
<1>6. DriverFits(driver[d])'
  BY <1>5 DEF DriverFits, Idle
<1>7. PriorFits(row) /\ ops[o].target \in Worker
  BY <1>1, <1>2 DEF ProbeInv, RowsWellFormed, PriorFits
<1>8. /\ ops[o].kind = "CLOSE" => slot' = None
      /\ ops[o].kind # "CLOSE" => /\ slot' \in Slot /\ slot' # None
                                  /\ slot'.tag = o /\ slot'.window = h
  BY <1>7, NoneFacts, ProbeAssumption DEF Publish, Binding, Slot
<1>9. slot' \in Slot \cup {None} /\ fresh' \in BOOLEAN /\ forgotten' \subseteq Operation
  BY <1>1, <1>8 DEF TypeOK, Publish
<1>10. /\ TypeOK' /\ RowsWellFormed' /\ PagesFit' /\ DriversFit'
       /\ \A e \in Driver : e # d => driver'[e] = driver[e]
  BY <1>2, <1>4, <1>5, <1>6, <1>7, <1>9, IdleType, RowMoves
<1>11. o \in UnresolvedOps /\ \A q \in UnresolvedOps : q = o
  BY DEF UnresolvedOps, ProbeInv, UnresolvedOwnsSlot
<1>12. UnresolvedOps' = {}
  BY <1>2, <1>3, <1>11 DEF UnresolvedOps, Unresolved
<1>13. UnresolvedOwnsSlot' /\ OldIsQuiet'
  BY <1>12 DEF UnresolvedOwnsSlot, OldIsQuiet
<1>14. SlotSettled'
  BY <1>8 DEF SlotSettled, Settled
<1>15. \A q \in Operation : NotOpened(q)' => NotOpened(q)
  BY <1>2, <1>3 DEF NotOpened, EffectiveState
<1>16. \A e \in Driver : At(e, "open")' => At(e, "open") /\ driver'[e] = driver[e]
  BY <1>5, <1>10, IdleType DEF At
<1>17. ops[o].kind = "CLOSE" => NotOpened(o) /\ launched[o] = 0
  BY DEF NotOpened, ProbeInv, LaunchesFit
<1>18. \A e \in Driver : At(e, "open") => driver[e].op # o /\ driver[e].op \in forgotten
  <2> SUFFICES ASSUME NEW e \in Driver, At(e, "open")
               PROVE  driver[e].op # o /\ driver[e].op \in forgotten
    OBVIOUS
  <2>1. launched[driver[e].op] = 0 /\ driver[e].op \in forgotten \cup UnresolvedOps
    BY DEF ProbeInv, LaunchesFit
  <2>2. driver[e].op # o
    BY <1>17, <2>1 DEF ProbeInv, LaunchesFit, Settled
  <2> QED BY <1>11, <2>1, <2>2
<1>19. LaunchesFit'
  BY <1>15, <1>16, <1>18 DEF ProbeInv, LaunchesFit
<1>20. TagsTracked'
  <2> SUFFICES ASSUME NEW g \in RecordedProbes'
               PROVE  slot' # None /\ slot'.tag = page[g].tag
    BY DEF TagsTracked
  <2>1. /\ g \in Window /\ g \in RecordedProbes /\ page[g].own /\ page[g].status \in {"loading", "shown"}
        /\ page[g] # Absent /\ page[g].tag \notin forgotten
    BY DEF RecordedProbes, Probes, Absent
  <2>2. launched[page[g].tag] > 0
    BY <2>1 DEF ProbeInv, PagesFit
  <2>3. page[g].tag = o \/ (slot # None /\ slot.tag = page[g].tag)
    BY <1>11, <2>1 DEF ProbeInv, TagsTracked
  <2>4. slot = ops[o].prior
    BY DEF Publish
  <2>5. page[g].tag = o
    BY <2>1, <2>3, <2>4 DEF Quiet
  <2> QED BY <1>8, <1>17, <2>2, <2>5
<1> QED BY <1>10, <1>13, <1>14, <1>19, <1>20 DEF ProbeInv

LEMMA CompleteDirectlyKeepsInv ==
    ASSUME ProbeInv, NEW d \in Driver, CompleteDirectly(d)
    PROVE  ProbeInv'
<1>1. TypeOK /\ DriverFits(driver[d])
  BY DEF ProbeInv, DriversFit
<1>2. PICK o \in Operation, h \in Window \cup {None} : o = driver[d].op /\ h = driver[d].window
  BY <1>1, DriverTyped DEF CompleteDirectly, DriverFits, At
<1>3. Publish(o, h) /\ Stop(d) /\ UNCHANGED <<parked, page, launched, binds, forgotten>>
  BY <1>2 DEF CompleteDirectly
<1>4. CASE At(d, "close_done") /\ ops[o].kind = "CLOSE" /\ ops[o].state = "CLOSE_SUBMITTED"
  <2>1. ops[o].state \in Unresolved /\ Quiet(ops[o].prior.tag)
    BY <1>1, <1>2, <1>4 DEF DriverFits, At, Unresolved
  <2> QED BY <1>3, <1>4, <2>1, PublishKeepsInv
<1>5. CASE At(d, "open_done") /\ ops[o].state = "OPEN_SUBMITTED"
  <2>1. ops[o].state \in Unresolved /\ o \in UnresolvedOps /\ h \in Window /\ Settled(o, h)
    BY <1>1, <1>2, <1>5 DEF DriverFits, At, Unresolved, UnresolvedOps
  <2>2. ~NotOpened(o)
    BY <2>1 DEF ProbeInv, LaunchesFit, Settled
  <2>3. ops[o].prior # None => ops[o].kind = "ROTATE"
    BY <1>1, <1>5, <2>2 DEF ProbeInv, RowsWellFormed, PriorFits, NotOpened, TypeOK, Row, Kind
  <2>4. ops[o].prior # None => Quiet(ops[o].prior.tag)
    BY <1>5, <2>1, <2>3 DEF ProbeInv, OldIsQuiet, EffectiveState
  <2> QED BY <1>3, <2>1, <2>4, PublishKeepsInv
<1> QED BY <1>2, <1>4, <1>5 DEF CompleteDirectly

\* One window, or none: what Conclusive makes of the number of matches.
LEMMA OneMatch ==
    ASSUME NEW S \in SUBSET Window, Cardinality(S) <= 1, S # {}
    PROVE  \E h \in Window : S = {h}
<1>1. IsFiniteSet(S)
  BY ProbeAssumption, FS_Subset
<1>2. PICK h \in Window : h \in S
  OBVIOUS
<1>3. Cardinality(S \ {h}) = Cardinality(S) - 1 /\ IsFiniteSet(S \ {h})
  BY <1>1, <1>2, FS_RemoveElement
<1>4. Cardinality(S) \in Nat /\ Cardinality(S \ {h}) \in Nat
  BY <1>1, <1>3, FS_CardinalityType
<1>5. S \ {h} = {}
  BY <1>3, <1>4, FS_EmptySet
<1> QED BY <1>2, <1>5

\* The decision keeps an operation's progress, and completes it on evidence alone.
LEMMA DecideFacts ==
    ASSUME ProbeInv, NEW o \in Operation, ops[o].state \in Unresolved,
           NEW old \in SUBSET Window, NEW new \in SUBSET Window,
           NEW state, state = Decide(ops[o], old, new)
    PROVE  /\ state \in Unresolved \cup {"COMPLETED"}
           /\ state = "COMPLETED" /\ ops[o].kind = "CLOSE" => old = {}
           /\ state = "COMPLETED" /\ ops[o].kind # "CLOSE" =>
                /\ EffectiveState(ops[o]) = "OPEN_SUBMITTED"
                /\ \E h \in Window : new = {h}
           /\ state \in Unresolved \ {"RECONCILE_REQUIRED"} =>
                /\ EffectiveState(ops[o]) \in {"ARMED", "CLOSE_SUBMITTED", "READY_TO_OPEN"}
                /\ state \in {"ARMED", "READY_TO_OPEN"}
                /\ state = "READY_TO_OPEN" => old = {}
<1>1. ops[o].kind \in Kind
  BY DEF ProbeInv, TypeOK, Row
<1>2. Conclusive(ops[o], old, new) /\ new # {} => \E h \in Window : new = {h}
  BY OneMatch DEF Conclusive
<1>3. CASE ~Conclusive(ops[o], old, new)
  BY <1>3 DEF Decide, Unresolved
<1>4. CASE Conclusive(ops[o], old, new) /\ ops[o].kind = "OPEN"
  <2>1. state = DecideOpen(ops[o], new)
    BY <1>4 DEF Decide
  <2> QED BY <1>2, <1>4, <2>1 DEF DecideOpen, Unresolved
<1>5. CASE Conclusive(ops[o], old, new) /\ ops[o].kind = "CLOSE"
  <2>1. state = DecideClose(ops[o], old)
    BY <1>5 DEF Decide
  <2> QED BY <1>5, <2>1 DEF DecideClose, Unresolved
<1>6. CASE Conclusive(ops[o], old, new) /\ ops[o].kind = "ROTATE"
  <2>1. state = DecideRotate(ops[o], old, new)
    BY <1>6 DEF Decide
  <2> QED BY <1>2, <1>6, <2>1 DEF DecideRotate, Unresolved
<1> QED BY <1>1, <1>3, <1>4, <1>5, <1>6 DEF Kind

LEMMA ReconcileKeepsInv ==
    ASSUME ProbeInv, NEW d \in Driver, NEW complete \in BOOLEAN, Reconcile(d, complete)
    PROVE  ProbeInv'
<1>1. TypeOK /\ DriverFits(driver[d]) /\ At(d, "reconcile")
  BY DEF ProbeInv, DriversFit, Reconcile
<1>2. PICK o \in Operation, old \in SUBSET Window, new \in SUBSET Window :
         o = driver[d].op /\ old = driver[d].old /\ new = driver[d].new
  BY <1>1, DriverTyped DEF DriverFits, At
<1>3. PICK state : state = IF complete THEN Decide(ops[o], old, new) ELSE "RECONCILE_REQUIRED"
  OBVIOUS
<1>4. /\ ops[o].state \in Unresolved /\ Stop(d) /\ UNCHANGED <<parked, page, launched, binds, forgotten>>
      /\ \/ state = "COMPLETED" /\ Publish(o, IF new = {} THEN None ELSE CHOOSE h \in new : TRUE)
         \/ /\ state # "COMPLETED" /\ ops' = [ops EXCEPT ![o] = Reconciled(@, state)]
            /\ UNCHANGED <<slot, fresh>>
  BY <1>2, <1>3 DEF Reconcile
<1>5. /\ state \in Unresolved \cup {"COMPLETED"}
      /\ state = "COMPLETED" /\ ops[o].kind = "CLOSE" => old = {}
      /\ state = "COMPLETED" /\ ops[o].kind # "CLOSE" =>
           EffectiveState(ops[o]) = "OPEN_SUBMITTED" /\ \E h \in Window : new = {h}
      /\ state \in Unresolved \ {"RECONCILE_REQUIRED"} =>
           /\ EffectiveState(ops[o]) \in {"ARMED", "CLOSE_SUBMITTED", "READY_TO_OPEN"}
           /\ state \in {"ARMED", "READY_TO_OPEN"}
           /\ state = "READY_TO_OPEN" => old = {}
  <2>1. CASE complete
    BY <1>3, <1>4, <2>1, DecideFacts
  <2>2. CASE ~complete
    BY <1>3, <2>2 DEF Unresolved
  <2> QED BY <2>1, <2>2
<1>6. /\ old = {} /\ ops[o].prior # None => Quiet(ops[o].prior.tag)
      /\ \A h \in Window : new = {h} => Settled(o, h)
  BY <1>1, <1>2 DEF DriverFits, At
<1>7. o \in UnresolvedOps /\ ops[o].state # "unborn" /\ ops[o] \in Row
  BY <1>1, <1>4 DEF UnresolvedOps, Unresolved, TypeOK
<1>8. PriorFits(ops[o]) /\ ops[o].kind \in Kind
  BY <1>7 DEF ProbeInv, RowsWellFormed, Row
<1>9. CASE state = "COMPLETED"
  <2>1. PICK h : h = IF new = {} THEN None ELSE CHOOSE g \in new : TRUE
    OBVIOUS
  <2>2. Publish(o, h)
    BY <1>4, <1>9, <2>1
  <2>3. ops[o].kind # "CLOSE" => h \in Window /\ Settled(o, h)
    BY <1>5, <1>6, <1>9, <2>1
  <2>4. ops[o].prior # None => Quiet(ops[o].prior.tag)
    BY <1>5, <1>6, <1>7, <1>8, <1>9 DEF ProbeInv, OldIsQuiet, PriorFits, Kind
  <2> QED BY <1>4, <2>2, <2>3, <2>4, PublishKeepsInv
<1>10. CASE state # "COMPLETED"
  <2>1. ops[o].state = "RECONCILE_REQUIRED" => ops[o].resume \in Unresolved \ {"RECONCILE_REQUIRED"}
    BY DEF ProbeInv, RowsWellFormed
  <2>2. Resume(ops[o]) = EffectiveState(ops[o]) /\ Resume(ops[o]) \in Unresolved \ {"RECONCILE_REQUIRED"}
    BY <1>4, <2>1, NoneFacts DEF Resume, EffectiveState, State
  <2>3. PICK row \in Row :
           /\ ops' = [ops EXCEPT ![o] = row] /\ row.state = state
           /\ row.kind = ops[o].kind /\ row.target = ops[o].target /\ row.prior = ops[o].prior
           /\ state = "RECONCILE_REQUIRED" => row.resume = Resume(ops[o])
    <3> DEFINE r == Reconciled(ops[o], state)
    <3>1. /\ r \in Row /\ r.state = state /\ r.kind = ops[o].kind
          /\ r.target = ops[o].target /\ r.prior = ops[o].prior
          /\ state = "RECONCILE_REQUIRED" => r.resume = Resume(ops[o])
      BY <1>5, <1>7, <1>10, <2>2 DEF Row, State, Reconciled
    <3>2. ops' = [ops EXCEPT ![o] = r]
      BY <1>1, <1>4, <1>10 DEF TypeOK
    <3> HIDE DEF r
    <3> QED BY <3>1, <3>2
  <2>4. /\ row.state = "RECONCILE_REQUIRED" => EffectiveState(row) = EffectiveState(ops[o])
        /\ row.state # "RECONCILE_REQUIRED" => EffectiveState(row) = row.state
    BY <2>2, <2>3, NoneFacts DEF EffectiveState, State
  <2>5. row.kind = "ROTATE" /\ EffectiveState(row) \in {"READY_TO_OPEN", "OPEN_SUBMITTED"} =>
           Quiet(row.prior.tag)
    <3> SUFFICES ASSUME row.kind = "ROTATE",
                        EffectiveState(row) \in {"READY_TO_OPEN", "OPEN_SUBMITTED"}
                 PROVE  Quiet(row.prior.tag)
      OBVIOUS
    <3>1. CASE state = "RECONCILE_REQUIRED"
      BY <1>7, <2>3, <2>4, <3>1 DEF ProbeInv, OldIsQuiet
    <3>2. CASE state # "RECONCILE_REQUIRED"
      BY <1>5, <1>6, <1>8, <1>10, <2>3, <2>4, <3>2 DEF PriorFits
    <3> QED BY <3>1, <3>2
  <2>6. StillUnresolved(o, row)
    BY <1>4, <1>5, <1>10, <2>2, <2>3, <2>5 DEF StillUnresolved
  <2>7. driver' = [driver EXCEPT ![d] = Idle] /\ driver'[d] = Idle
    BY <1>1, <1>4 DEF Stop, Goto, TypeOK
  <2>8. DriverFits(driver[d])'
    BY <2>7 DEF DriverFits, Idle
  <2>9. ops'[o] = row /\ \A q \in Operation : q # o => ops'[q] = ops[q]
    BY <1>1, <2>3 DEF TypeOK
  <2>10. \A q \in Operation : NotOpened(q)' => NotOpened(q)
    BY <1>5, <1>7, <1>10, <2>3, <2>4, <2>6, <2>9 DEF NotOpened, StillUnresolved, Unresolved
  <2>11. \A e \in Driver : At(e, "open")' => At(e, "open") /\ driver'[e] = driver[e]
    BY <1>1, <2>7, IdleType DEF At, TypeOK
  <2>12. UnresolvedOps' = UnresolvedOps
    BY <2>6, <2>9 DEF UnresolvedOps, StillUnresolved
  <2>13. LaunchesFit'
    BY <1>4, <2>10, <2>11, <2>12 DEF ProbeInv, LaunchesFit
  <2>14. UNCHANGED <<parked, slot, fresh, page, launched, binds, forgotten>>
    BY <1>4, <1>10
  <2> QED BY <2>3, <2>6, <2>7, <2>8, <2>13, <2>14, IdleType, UnresolvedMoves
<1> QED BY <1>9, <1>10

-----------------------------------------------------------------------------
(***************************************************************************)
(* The steps that change the slot, the clock or the workers.               *)
(***************************************************************************)
LEMMA SlotMoves ==
    ASSUME ProbeInv, UNCHANGED <<ops, page, driver, launched>>,
           parked' \subseteq Worker, fresh' \in BOOLEAN, slot' \in Slot \cup {None},
           forgotten \subseteq forgotten', forgotten' \subseteq Operation, binds' = binds,
           UnresolvedOwnsSlot', SlotSettled', TagsTracked'
    PROVE  ProbeInv'
<1>1. TypeOK' /\ WindowsEvolve /\ RowsKeep
  BY WindowsUntouched DEF ProbeInv, TypeOK, RowsKeep
<1>2. DriversFit'
  BY <1>1, DriverKeeps DEF DriversFit
<1>3. RowsWellFormed' /\ OldIsQuiet' /\ PagesFit'
  BY DEF ProbeInv, RowsWellFormed, OldIsQuiet, PagesFit, PriorFits, Settled, Quiet, UnresolvedOps
<1>4. \A o \in Operation : NotOpened(o)' = NotOpened(o)
  BY DEF NotOpened
<1>5. LaunchesFit'
  BY <1>4 DEF ProbeInv, LaunchesFit, At, UnresolvedOps
<1> QED BY <1>1, <1>2, <1>3, <1>5 DEF ProbeInv

LEMMA SlotStepsKeepInv ==
    ASSUME ProbeInv, ClearSlot \/ SlotExpires \/ \E w \in Worker : Parking(w)
    PROVE  ProbeInv'
<1>1. TypeOK
  BY DEF ProbeInv
<1>2. CASE ClearSlot
  <2>1. slot \in Slot /\ slot.tag \in Operation
    BY <1>1, <1>2 DEF ClearSlot, TypeOK, Slot
  <2>2. UnresolvedOwnsSlot' /\ SlotSettled' /\ TagsTracked'
    BY <1>2, <2>1 DEF ProbeInv, ClearSlot, Forget, UnresolvedOwnsSlot, SlotSettled, TagsTracked,
         RecordedProbes, Probes, UnresolvedOps
  <2> QED BY <1>1, <1>2, <2>1, <2>2, SlotMoves DEF TypeOK, ClearSlot, Forget
<1>3. CASE SlotExpires \/ \E w \in Worker : Parking(w)
  <2>1. /\ UNCHANGED <<ops, slot, page, driver, launched, binds, forgotten>>
        /\ parked' \subseteq Worker /\ fresh' \in BOOLEAN
    BY <1>1, <1>3 DEF SlotExpires, Parking, TypeOK
  <2>2. UnresolvedOwnsSlot' /\ SlotSettled' /\ TagsTracked'
    BY <2>1 DEF ProbeInv, UnresolvedOwnsSlot, SlotSettled, TagsTracked, RecordedProbes,
         Probes, UnresolvedOps, Settled
  <2> QED BY <1>1, <2>1, <2>2, SlotMoves DEF TypeOK
<1> QED BY <1>2, <1>3

\* A bind that overwrites another slot forgets that slot's tag; the slot it writes is settled.
LEMMA BindSlotKeepsInv ==
    ASSUME ProbeInv, NEW d \in Driver, BindSlot(d)
    PROVE  ProbeInv'
<1>1. TypeOK /\ DriverFits(driver[d]) /\ driver[d].row \in Row /\ At(d, "bind")
  BY DriverTyped DEF ProbeInv, DriversFit, BindSlot
<1>2. PICK prior \in Slot : prior = driver[d].row.prior /\ Settled(prior.tag, prior.window)
  BY <1>1 DEF At, DriverFits, Row
<1>3. PICK s \in Slot : s = [prior EXCEPT !.seen = binds + 1] /\ slot' = s
                        /\ s.tag = prior.tag /\ s.window = prior.window
  BY <1>1, <1>2, ProbeAssumption DEF BindSlot, Slot, TypeOK
<1>4. UNCHANGED <<parked, ops, page, launched>> /\ UnresolvedOps = {} /\ fresh' \in BOOLEAN
  BY DEF BindSlot
<1>5. /\ forgotten \subseteq forgotten' /\ forgotten' \subseteq Operation
      /\ slot # None /\ slot.tag # prior.tag => slot.tag \in forgotten'
  BY <1>1, <1>2 DEF BindSlot, Forget, TypeOK, Slot
<1>6. binds' \in 0 .. MaxSeen
  BY <1>1, ProbeAssumption DEF BindSlot, TypeOK
<1>7. driver' = [driver EXCEPT ![d] = Idle] /\ driver'[d] = Idle
  BY <1>1 DEF BindSlot, Stop, Goto, TypeOK
<1>8. /\ driver' \in [Driver -> DriverState]
      /\ \A e \in Driver : e # d => driver'[e] = driver[e]
  BY <1>1, <1>7, IdleType DEF TypeOK
<1>9. TypeOK'
  BY <1>1, <1>3, <1>4, <1>5, <1>6, <1>8 DEF TypeOK
<1>10. WindowsEvolve /\ RowsKeep
  BY <1>1, <1>4, WindowsUntouched DEF RowsKeep
<1>11. DriverFits(driver[d])'
  BY <1>7 DEF DriverFits, Idle
<1>12. DriversFit'
  BY <1>8, <1>10, <1>11, DriverKeeps DEF DriversFit
<1>13. RowsWellFormed' /\ PagesFit'
  BY <1>4 DEF ProbeInv, RowsWellFormed, PagesFit, PriorFits, Settled
<1>14. UnresolvedOps' = {}
  BY <1>4 DEF UnresolvedOps
<1>15. UnresolvedOwnsSlot' /\ OldIsQuiet'
  BY <1>14 DEF UnresolvedOwnsSlot, OldIsQuiet
<1>16. SlotSettled'
  BY <1>2, <1>3, <1>4 DEF SlotSettled, Settled
<1>17. \A o \in Operation : NotOpened(o)' = NotOpened(o)
  BY <1>4 DEF NotOpened
<1>18. \A e \in Driver : At(e, "open")' => At(e, "open") /\ driver'[e] = driver[e]
  BY <1>7, <1>8, IdleType DEF At
<1>19. LaunchesFit'
  BY <1>4, <1>5, <1>14, <1>17, <1>18 DEF ProbeInv, LaunchesFit
<1>20. TagsTracked'
  <2> SUFFICES ASSUME NEW h \in RecordedProbes'
               PROVE  slot' # None /\ slot'.tag = page[h].tag
    BY <1>4 DEF TagsTracked
  <2>1. h \in RecordedProbes /\ page[h].tag \notin forgotten'
    BY <1>4, <1>5 DEF RecordedProbes, Probes
  <2>2. slot # None /\ slot.tag = page[h].tag
    BY <1>4, <2>1 DEF ProbeInv, TagsTracked
  <2> QED BY <1>3, <1>5, <2>1, <2>2, NoneFacts
<1> QED BY <1>9, <1>12, <1>13, <1>15, <1>16, <1>19, <1>20 DEF ProbeInv

LEMMA InitInv == Init => ProbeInv
<1> SUFFICES ASSUME Init PROVE ProbeInv
  OBVIOUS
<1>1. Unborn \in Row /\ Unborn.state = "unborn" /\ Unborn.prior = None
  BY DEF Unborn, Row, Kind, State
<1>2. \A o \in Operation : ops[o] = Unborn /\ launched[o] = 0
  BY DEF Init
<1>3. \A h \in Window : page[h] = Absent
  BY DEF Init
<1>4. \A d \in Driver : driver[d] = Idle
  BY DEF Init
<1>13. 0 \in 0 .. MaxSeen
  BY ProbeAssumption
<1>5. TypeOK
  BY <1>1, <1>13, IdleType DEF Init, TypeOK, Page
<1>6. UnresolvedOps = {}
  BY <1>1, <1>2 DEF UnresolvedOps, Unresolved
<1>7. RowsWellFormed
  BY <1>1, <1>2 DEF RowsWellFormed
<1>8. UnresolvedOwnsSlot /\ SlotSettled /\ OldIsQuiet
  BY <1>6 DEF Init, UnresolvedOwnsSlot, SlotSettled, OldIsQuiet
<1>9. LaunchesFit
  BY <1>2, <1>4, IdleType DEF LaunchesFit, At
<1>10. RecordedProbes = {}
  <2>1. Absent.status = "absent" /\ Absent.own = FALSE /\ Absent.tag = None
    BY DEF Absent
  <2> QED BY <1>3, <2>1 DEF RecordedProbes, Probes
<1>12. PagesFit /\ TagsTracked
  BY <1>3, <1>10 DEF PagesFit, TagsTracked
<1>11. DriversFit
  BY <1>4, IdleFits DEF DriversFit
<1> QED BY <1>5, <1>7, <1>8, <1>9, <1>11, <1>12 DEF ProbeInv

LEMMA StutterKeepsInv == ASSUME ProbeInv, UNCHANGED vars PROVE ProbeInv'
<1>1. /\ UNCHANGED <<parked, ops, slot, fresh, page, driver, launched, binds, forgotten>>
      /\ TypeOK
  BY DEF vars, ProbeInv
<1>2. UnresolvedOwnsSlot' /\ SlotSettled' /\ TagsTracked'
  BY <1>1 DEF ProbeInv, UnresolvedOwnsSlot, SlotSettled, TagsTracked, RecordedProbes, Probes,
       UnresolvedOps, Settled
<1> QED BY <1>1, <1>2, SlotMoves DEF TypeOK

LEMMA NextKeepsInv == ProbeInv /\ [Next]_vars => ProbeInv'
<1> SUFFICES ASSUME ProbeInv, [Next]_vars PROVE ProbeInv'
  OBVIOUS
<1>1. CASE UNCHANGED vars
  BY <1>1, StutterKeepsInv
<1>2. CASE \E d \in Driver : DriverStep(d)
  <2> PICK d \in Driver : DriverStep(d)
    BY <1>2
  <2>1. CASE (\E w \in Worker : Plan(d, w)) \/ PlanClose(d) \/ Arm(d) \/ Crash(d)
    BY <2>1, PlanKeepsInv, ArmKeepsInv, CrashKeepsInv
  <2>6. CASE FindReused(d) \/ BindSlot(d)
    BY <2>6, FindReusedKeepsInv, BindSlotKeepsInv
  <2>2. CASE \E o \in Operation :
               AuthorizeClose(d, o) \/ AuthorizeOpen(d, o) \/ ObserveOld(d, o) \/ FailRead(d, o)
    BY <2>2, AuthorizeCloseKeepsInv, AuthorizeOpenKeepsInv, ObserveOldKeepsInv, FailReadKeepsInv
  <2>3. CASE CloseAuthorized(d) \/ OpenAuthorized(d) \/ AwaitWindow(d)
    BY <2>3, CloseAuthorizedKeepsInv, OpenAuthorizedKeepsInv, AwaitKeepsInv
  <2>4. CASE CompleteDirectly(d) \/ ObserveNew(d) \/ FailSave(d)
    BY <2>4, CompleteDirectlyKeepsInv, ObserveNewKeepsInv, FailSaveKeepsInv
  <2>5. CASE \E complete \in BOOLEAN : Reconcile(d, complete)
    BY <2>5, ReconcileKeepsInv
  <2> QED BY <2>1, <2>2, <2>3, <2>4, <2>5, <2>6 DEF DriverStep
<1>3. CASE ClearSlot \/ SlotExpires \/ \E w \in Worker : Parking(w)
  BY <1>3, SlotStepsKeepInv
<1>4. CASE \E h \in Window : Loads(h) \/ Goes(h) \/ \E k \in Window : Duplicates(h, k)
  BY <1>4, LoadsKeepsInv, GoesKeepsInv, DuplicatesKeepsInv
<1> QED BY <1>1, <1>2, <1>3, <1>4 DEF Next

-----------------------------------------------------------------------------
(***************************************************************************)
(* The theorems.                                                           *)
(***************************************************************************)
\* The records, the drivers' evidence and the windows always agree.
THEOREM ProbeInvariant == Spec => []ProbeInv
  BY InitInv, NextKeepsInv, PTL DEF Spec

\* Every variable of the probe model keeps its type: the rows, the slot and what drivers hold.
THEOREM ProbeTypes == Spec => []TypeOK
<1>1. ProbeInv => TypeOK
  BY DEF ProbeInv
<1> QED BY <1>1, ProbeInvariant, PTL

\* An operation's authority to open is used once: open_authorized launches Chrome at most once
\* for it, through any number of crashes and reconciliations.
THEOREM NeverLaunchedTwice == Spec => []LaunchedOnce
<1>1. ProbeInv => LaunchedOnce
  BY DEF ProbeInv, LaunchesFit, LaunchedOnce
<1> QED BY <1>1, ProbeInvariant, PTL

\* A probe window is found on record, by the slot row or by the unresolved operation, unless a
\* bind over another slot, a fail or a clear has lost its record.
THEOREM NoOrphanProbe == Spec => []ProbesAreTracked
<1>1. ASSUME ProbeInv PROVE ProbesAreTracked
  <2> SUFFICES ASSUME NEW h \in RecordedProbes, page[h].tag \notin UnresolvedOps
               PROVE  slot # None /\ slot.window = h /\ slot.tag = page[h].tag
    BY DEF ProbesAreTracked
  <2>1. slot # None /\ slot.tag = page[h].tag
    BY <1>1 DEF ProbeInv, TagsTracked
  <2>2. h \in Window /\ page[h].own
    BY DEF RecordedProbes, Probes
  <2> QED BY <1>1, <2>1, <2>2 DEF ProbeInv, SlotSettled, Settled
<1> QED BY <1>1, ProbeInvariant, PTL

\* Of the probe windows whose record no bind over another slot, no fail and no clear has lost,
\* there is at most one: the old window is known to be gone or going before the transport may
\* open another, whatever was observed late or repeated.
THEOREM SingleRecordedProbe == Spec => []OneRecordedProbe
<1>1. ASSUME ProbeInv PROVE OneRecordedProbe
  <2>1. ASSUME NEW h \in RecordedProbes, NEW k \in RecordedProbes
        PROVE  h = k
    <3>1. /\ h \in Window /\ page[h].own /\ page[h].status \in {"loading", "shown"} /\ page[h] # Absent
          /\ k \in Window /\ page[k].own /\ page[k].status \in {"loading", "shown"} /\ page[k] # Absent
      BY DEF RecordedProbes, Probes, Absent
    <3>2. page[h].tag = page[k].tag => h = k
      BY <1>1, <3>1 DEF ProbeInv, PagesFit
    <3>3. ASSUME NEW g \in RecordedProbes, NEW l \in RecordedProbes, page[g].tag \in UnresolvedOps,
                 slot # None, slot.tag = page[l].tag, page[g].tag # page[l].tag
          PROVE  FALSE
      <4> DEFINE o == page[g].tag
      <4>1. /\ g \in Window /\ page[g] # Absent /\ l \in Window
            /\ page[l].own /\ page[l].status \in {"loading", "shown"}
        BY DEF RecordedProbes, Probes, Absent
      <4>2. launched[o] > 0 /\ o \in Operation /\ ops[o].state \in Unresolved /\ slot = ops[o].prior
        BY <1>1, <3>3, <4>1 DEF ProbeInv, PagesFit, UnresolvedOwnsSlot, UnresolvedOps
      <4>3. ~NotOpened(o) /\ ops[o].kind \in Kind /\ PriorFits(ops[o])
        BY <1>1, <4>2 DEF ProbeInv, LaunchesFit, TypeOK, Row, RowsWellFormed, Unresolved
      <4>4. ops[o].kind = "ROTATE"
        BY <3>3, <4>2, <4>3 DEF NotOpened, PriorFits, Kind
      <4>5. EffectiveState(ops[o]) = "OPEN_SUBMITTED"
        BY <1>1, <4>2, <4>3, NoneFacts
           DEF NotOpened, EffectiveState, ProbeInv, RowsWellFormed, Unresolved, State
      <4>6. Quiet(slot.tag)
        BY <1>1, <3>3, <4>2, <4>4, <4>5 DEF ProbeInv, OldIsQuiet
      <4> QED BY <3>3, <4>1, <4>6 DEF Quiet
    <3> QED BY <1>1, <3>2, <3>3 DEF ProbeInv, TagsTracked, UnresolvedOwnsSlot
  <2>2. CASE RecordedProbes = {}
    BY <2>2, FS_EmptySet DEF OneRecordedProbe
  <2>3. CASE RecordedProbes # {}
    <3>1. PICK h \in RecordedProbes : RecordedProbes = {h}
      BY <2>1, <2>3
    <3>2. Cardinality(RecordedProbes) = 1
      BY <3>1, FS_Singleton
    <3> QED BY <3>2 DEF OneRecordedProbe
  <2> QED BY <2>2, <2>3
<1> QED BY <1>1, ProbeInvariant, PTL
=============================================================================
