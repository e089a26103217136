------------------------------- MODULE Probe -------------------------------
(***************************************************************************)
(* The single reusable probe window and the write-ahead operations that    *)
(* open, rotate and close it: the probe rows of src/lws/registry.py, the   *)
(* reconciliation of src/lws/probe_ops.py and the gated transport of       *)
(* src/lws/page_runtime.py.                                                *)
(*                                                                         *)
(* A driver is a process using the registry and the transport; its pc      *)
(* names the call it makes next, and it can die between any two.  An       *)
(* operation's number stands for its id, nonce and ownership tag.  A       *)
(* window stands for an HWND, PID and executable.                          *)
(*                                                                         *)
(* Abstractions: the transport is enabled and runs on Windows; evidence    *)
(* may be of any age (the command line refuses some of it); a window whose *)
(* page has loaded is found by its tag; what a user does to a probe window *)
(* is to close it, lead it away for good, or duplicate it.                 *)
(***************************************************************************)
EXTENDS Naturals, FiniteSets

CONSTANTS
    Worker,      \* workers a probe can look at
    Window,      \* normal-Chrome top-level windows
    Driver,      \* processes
    None,
    MaxOps,      \* bound on the operations
    MaxSeen      \* bound on the refreshes of the slot

Operation == 1 .. MaxOps

VARIABLES
    parked,     \* workers whose status is PARKED
    ops,        \* probe_mutation_operations
    slot,       \* the probe_window_slots row, or None
    fresh,      \* whether the slot has not expired
    page,       \* what each window shows
    driver,     \* where each process is
    launched,   \* history: Chrome launches per operation
    binds,      \* refreshes of the slot so far
    forgotten   \* history: operations whose window bind, fail or clear struck from the record

vars == <<parked, ops, slot, fresh, page, driver, launched, binds, forgotten>>

Forget(tags) == forgotten' = forgotten \cup tags

-----------------------------------------------------------------------------
(***************************************************************************)
(* Operations, slots and windows.                                          *)
(***************************************************************************)
Unresolved == {"ARMED", "CLOSE_SUBMITTED", "READY_TO_OPEN", "OPEN_SUBMITTED", "RECONCILE_REQUIRED"}
State == Unresolved \cup {"unborn", "COMPLETED", "FAILED"}
Kind == {"OPEN", "ROTATE", "CLOSE"}

Slot == [tag : Operation, target : Worker, window : Window, seen : 0 .. MaxSeen]

ASSUME ProbeAssumption ==
    /\ MaxOps \in Nat \ {0} /\ MaxSeen \in Nat
    /\ IsFiniteSet(Window)
    /\ None \notin Worker \cup Window \cup Nat \cup State \cup Slot

Row == [kind : Kind, state : State, resume : Unresolved \cup {None},
        target : Worker \cup {None}, prior : Slot \cup {None}]

Unborn == [kind |-> "OPEN", state |-> "unborn", resume |-> None, target |-> None, prior |-> None]

UnresolvedOps == {o \in Operation : ops[o].state \in Unresolved}

\* A window shows the page of one tag or none; a page still loading has no address yet, and a
\* window asked to close goes away a little later.  own: Chrome opened it for LWS.
Absent == [tag |-> None, status |-> "absent", own |-> FALSE]
Page == {Absent} \cup [tag : Operation, status : {"loading", "shown", "closing"}, own : BOOLEAN]

\* _FIND_SCRIPT
Find(tag) == {h \in Window : page[h].tag = tag /\ page[h].status \in {"shown", "closing"}}

OldMatches(o) == IF ops[o].prior = None THEN {} ELSE Find(ops[o].prior.tag)
NewMatches(o) == IF ops[o].kind = "CLOSE" THEN {} ELSE Find(o)

-----------------------------------------------------------------------------
(***************************************************************************)
(* decide_probe_reconciliation: the state an observation of the windows    *)
(* with the old tag and with the new one leads to.                         *)
(***************************************************************************)
EffectiveState(row) ==
    IF row.state = "RECONCILE_REQUIRED" /\ row.resume # None THEN row.resume ELSE row.state

\* The observation is complete, unambiguous and of the identities on record.
Conclusive(row, old, new) ==
    /\ Cardinality(old) <= 1 /\ Cardinality(new) <= 1
    /\ old # {} => old = {row.prior.window}
    /\ old = {} \/ new = {}

\* A plausible bug: a launch is taken to have succeeded.
DecideOpen_Assumed(row, new) ==
    CASE EffectiveState(row) = "OPEN_SUBMITTED" -> "COMPLETED"
      [] new = {} /\ EffectiveState(row) = "ARMED" -> "ARMED"
      [] OTHER -> "RECONCILE_REQUIRED"

DecideOpen(row, new) ==
    CASE new # {} /\ EffectiveState(row) = "OPEN_SUBMITTED" -> "COMPLETED"
      [] new = {} /\ EffectiveState(row) = "ARMED" -> "ARMED"
      [] OTHER -> "RECONCILE_REQUIRED"

\* A plausible bug: a close is taken to have succeeded.
DecideClose_Assumed(row, old) ==
    CASE old = {} \/ EffectiveState(row) = "CLOSE_SUBMITTED" -> "COMPLETED"
      [] old # {} /\ EffectiveState(row) = "ARMED" -> "ARMED"
      [] OTHER -> "RECONCILE_REQUIRED"

DecideClose(row, old) ==
    CASE old = {} -> "COMPLETED"
      [] old # {} /\ EffectiveState(row) = "ARMED" -> "ARMED"
      [] OTHER -> "RECONCILE_REQUIRED"

\* A plausible bug: a replacement not seen yet may be opened again.
DecideRotate_Replayed(row, old, new) ==
    CASE new # {} /\ EffectiveState(row) = "OPEN_SUBMITTED" -> "COMPLETED"
      [] old # {} /\ EffectiveState(row) = "ARMED" -> "ARMED"
      [] old \cup new = {} -> "READY_TO_OPEN"
      [] OTHER -> "RECONCILE_REQUIRED"

DecideRotate(row, old, new) ==
    CASE new # {} /\ EffectiveState(row) = "OPEN_SUBMITTED" -> "COMPLETED"
      [] old # {} /\ EffectiveState(row) = "ARMED" -> "ARMED"
      [] old \cup new = {} /\ EffectiveState(row) \in {"ARMED", "CLOSE_SUBMITTED", "READY_TO_OPEN"}
            -> "READY_TO_OPEN"
      [] OTHER -> "RECONCILE_REQUIRED"

Decide(row, old, new) ==
    IF ~Conclusive(row, old, new) THEN "RECONCILE_REQUIRED"
    ELSE CASE row.kind = "OPEN" -> DecideOpen(row, new)
           [] row.kind = "CLOSE" -> DecideClose(row, old)
           [] row.kind = "ROTATE" -> DecideRotate(row, old, new)

-----------------------------------------------------------------------------
Pc == {"idle", "arm", "find", "bind", "close", "close_done", "open", "await", "open_done",
       "observe", "reconcile", "fail"}

Idle == [pc |-> "idle", op |-> 0, row |-> Unborn, window |-> None, old |-> {}, new |-> {}]

DriverState == [pc : Pc, op : Operation \cup {0}, row : Row, window : Window \cup {None},
                old : SUBSET Window, new : SUBSET Window]

Init ==
    /\ parked = Worker
    /\ ops = [o \in Operation |-> Unborn]
    /\ slot = None /\ fresh = FALSE
    /\ page = [h \in Window |-> Absent]
    /\ driver = [d \in Driver |-> Idle]
    /\ launched = [o \in Operation |-> 0]
    /\ binds = 0
    /\ forgotten = {}

Goto(d, s) == driver' = [driver EXCEPT ![d] = s]
At(d, pc) == driver[d].pc = pc
Stop(d) == Goto(d, Idle)

(***************************************************************************)
(* plan_probe_slot and probe_close_operation: read the slot, choose.       *)
(***************************************************************************)
Planned(d, kind, w) ==
    Goto(d, [Idle EXCEPT !.pc = "arm",
                         !.row = [kind |-> kind, state |-> "ARMED", resume |-> None,
                                  target |-> w, prior |-> slot]])

PlannedReuse(d) == Goto(d, [Idle EXCEPT !.pc = "find", !.row = [Unborn EXCEPT !.prior = slot]])

Plan(d, w) ==
    /\ At(d, "idle")
    /\ w \in parked
    /\ \/ slot = None /\ Planned(d, "OPEN", w)
       \/ slot # None /\ fresh /\ slot.target # w /\ Planned(d, "ROTATE", w)
       \/ slot # None /\ fresh /\ slot.target = w /\ PlannedReuse(d)
    /\ UNCHANGED <<parked, ops, slot, fresh, page, launched, binds, forgotten>>

PlanClose(d) ==
    /\ At(d, "idle")
    /\ slot # None /\ slot.target \in parked
    /\ Planned(d, "CLOSE", slot.target)
    /\ UNCHANGED <<parked, ops, slot, fresh, page, launched, binds, forgotten>>

\* execute of a REUSE plan: the one window with the tag is the window of the slot planned from.
FindReused(d) ==
    LET prior == driver[d].row.prior IN
    /\ At(d, "find")
    /\ Find(prior.tag) = {prior.window}
    /\ Goto(d, [driver[d] EXCEPT !.pc = "bind"])
    /\ UNCHANGED <<parked, ops, slot, fresh, page, launched, binds, forgotten>>

\* bind_probe_window_slot writes the slot planned from back, refreshed, whatever the row is by
\* now.  It keeps the bound_at of the row it overwrites: a search older than that row makes a
\* slot that is not fresh, unless its time is left to the call.
BindSlot(d) ==
    LET prior == driver[d].row.prior
        other == slot # None /\ slot.tag # prior.tag
    IN
    /\ At(d, "bind")
    /\ UnresolvedOps = {}
    /\ prior.target \in parked
    /\ binds < MaxSeen
    /\ binds' = binds + 1
    /\ slot' = [prior EXCEPT !.seen = binds + 1]
    /\ fresh' \in (IF other THEN BOOLEAN ELSE {TRUE})
    /\ Forget(IF other THEN {slot.tag} ELSE {})
    /\ Stop(d)
    /\ UNCHANGED <<parked, ops, page, launched>>

NextOps == {o \in Operation : ops[o] = Unborn /\ \A q \in 1 .. o - 1 : ops[q] # Unborn}

\* A plausible bug: the plan's slot is not compared with the slot under the lock.
ArmOk_StalePlan(row) == row.target \in parked /\ UnresolvedOps = {}

\* arm_probe_mutation_operation, under BEGIN IMMEDIATE.
ArmOk(row) ==
    /\ row.target \in parked
    /\ UnresolvedOps = {}
    /\ slot = row.prior

Arm(d) ==
    /\ At(d, "arm")
    /\ ArmOk(driver[d].row)
    /\ \E o \in NextOps : ops' = [ops EXCEPT ![o] = driver[d].row]
    /\ Stop(d)
    /\ UNCHANGED <<parked, slot, fresh, page, launched, binds, forgotten>>

(***************************************************************************)
(* The authorities.  The record an authorisation returns allows its driver *)
(* one call of the transport.                                              *)
(***************************************************************************)
AuthorizeClose(d, o) ==
    /\ At(d, "idle")
    /\ ops[o].kind \in {"ROTATE", "CLOSE"} /\ ops[o].state = "ARMED"
    /\ ops' = [ops EXCEPT ![o].state = "CLOSE_SUBMITTED"]
    /\ Goto(d, [Idle EXCEPT !.pc = "close", !.op = o])
    /\ UNCHANGED <<parked, slot, fresh, page, launched, binds, forgotten>>

AuthorizeOpen(d, o) ==
    /\ At(d, "idle")
    /\ \/ ops[o].kind = "OPEN" /\ ops[o].state = "ARMED"
       \/ ops[o].kind = "ROTATE" /\ ops[o].state = "READY_TO_OPEN"
    /\ ops' = [ops EXCEPT ![o].state = "OPEN_SUBMITTED", ![o].resume = None]
    /\ Goto(d, [Idle EXCEPT !.pc = "open", !.op = o])
    /\ UNCHANGED <<parked, slot, fresh, page, launched, binds, forgotten>>

\* close_authorized: the exact window is asked to close, or nothing is done to it.
CloseAuthorized(d) ==
    LET prior == ops[driver[d].op].prior IN
    /\ At(d, "close")
    /\ \/ /\ prior.window \in Find(prior.tag)
          /\ page' = [page EXCEPT ![prior.window].status = "closing"]
          /\ Goto(d, [driver[d] EXCEPT !.pc = "close_done"])
       \/ Stop(d) /\ UNCHANGED page
    /\ UNCHANGED <<parked, ops, slot, fresh, launched, binds, forgotten>>

\* open_authorized launches Chrome, or fails to, and waits for one window with the tag.
OpenAuthorized(d) ==
    /\ At(d, "open")
    /\ \/ /\ \E h \in Window :
                /\ page[h] = Absent
                /\ page' = [page EXCEPT ![h] = [tag |-> driver[d].op, status |-> "loading",
                                                own |-> TRUE]]
          /\ launched' = [launched EXCEPT ![driver[d].op] = @ + 1]
          /\ Goto(d, [driver[d] EXCEPT !.pc = "await"])
       \/ Stop(d) /\ UNCHANGED <<page, launched>>
    /\ UNCHANGED <<parked, ops, slot, fresh, binds, forgotten>>

AwaitWindow(d) ==
    /\ At(d, "await")
    /\ \/ \E h \in Window :
              /\ Find(driver[d].op) = {h}
              /\ Goto(d, [driver[d] EXCEPT !.pc = "open_done", !.window = h])
       \/ Stop(d)
    /\ UNCHANGED <<parked, ops, slot, fresh, page, launched, binds, forgotten>>

(***************************************************************************)
(* Completion: the slot and the operation change in one transaction.       *)
(***************************************************************************)
Binding(o, h) == [tag |-> o, target |-> ops[o].target, window |-> h, seen |-> 0]

\* _complete_probe_mutation_locked: nothing but this operation has touched the slot.
Publish(o, h) ==
    /\ slot = ops[o].prior
    /\ ops' = [ops EXCEPT ![o].state = "COMPLETED", ![o].resume = None]
    /\ slot' = IF ops[o].kind = "CLOSE" THEN None ELSE Binding(o, h)
    /\ fresh' = (ops[o].kind # "CLOSE")

CompleteDirectly(d) ==
    LET o == driver[d].op IN
    /\ \/ At(d, "close_done") /\ ops[o].kind = "CLOSE" /\ ops[o].state = "CLOSE_SUBMITTED"
       \/ At(d, "open_done") /\ ops[o].state = "OPEN_SUBMITTED"
    /\ Publish(o, driver[d].window)
    /\ Stop(d)
    /\ UNCHANGED <<parked, page, launched, binds, forgotten>>

(***************************************************************************)
(* Reconciliation: two searches, then the decision under the lock on the   *)
(* operation as it is by then.                                             *)
(***************************************************************************)
ObserveOld(d, o) ==
    /\ At(d, "idle")
    /\ ops[o].state \in Unresolved
    /\ Goto(d, [Idle EXCEPT !.pc = "observe", !.op = o, !.old = OldMatches(o)])
    /\ UNCHANGED <<parked, ops, slot, fresh, page, launched, binds, forgotten>>

ObserveNew(d) ==
    /\ At(d, "observe")
    /\ Goto(d, [driver[d] EXCEPT !.pc = "reconcile", !.new = NewMatches(driver[d].op)])
    /\ UNCHANGED <<parked, ops, slot, fresh, page, launched, binds, forgotten>>

Resume(row) == IF row.state = "RECONCILE_REQUIRED" THEN row.resume ELSE row.state

Reconciled(row, state) ==
    [row EXCEPT !.state = state,
                !.resume = IF state = "RECONCILE_REQUIRED" THEN Resume(row) ELSE None]

\* complete: whether the observation succeeded.
Reconcile(d, complete) ==
    LET o == driver[d].op
        old == driver[d].old
        new == driver[d].new
        state == IF complete THEN Decide(ops[o], old, new) ELSE "RECONCILE_REQUIRED"
    IN
    /\ At(d, "reconcile")
    /\ ops[o].state \in Unresolved
    /\ \/ /\ state = "COMPLETED"
          /\ Publish(o, IF new = {} THEN None ELSE CHOOSE h \in new : TRUE)
       \/ /\ state # "COMPLETED"
          /\ ops' = [ops EXCEPT ![o] = Reconciled(@, state)]
          /\ UNCHANGED <<slot, fresh>>
    /\ Stop(d)
    /\ UNCHANGED <<parked, page, launched, binds, forgotten>>

(***************************************************************************)
(* Giving up.  fail_probe_mutation_operation reads the state and saves the *)
(* operation without a transaction around the two.                         *)
(***************************************************************************)
FailRead(d, o) ==
    /\ At(d, "idle")
    /\ ops[o].state = "ARMED"
    /\ Goto(d, [Idle EXCEPT !.pc = "fail", !.op = o, !.row = ops[o]])
    /\ UNCHANGED <<parked, ops, slot, fresh, page, launched, binds, forgotten>>

FailSave(d) ==
    /\ At(d, "fail")
    /\ ops' = [ops EXCEPT ![driver[d].op] = [driver[d].row EXCEPT !.state = "FAILED"]]
    /\ Forget({driver[d].op})
    /\ Stop(d)
    /\ UNCHANGED <<parked, slot, fresh, page, launched, binds>>

\* clear_probe_window_slot forgets the window.
ClearSlot ==
    /\ slot # None /\ UnresolvedOps = {}
    /\ Forget({slot.tag})
    /\ slot' = None /\ fresh' = FALSE
    /\ UNCHANGED <<parked, ops, page, driver, launched, binds>>

\* The process dies, or ends because a call was refused.
Crash(d) ==
    /\ ~At(d, "idle")
    /\ Stop(d)
    /\ UNCHANGED <<parked, ops, slot, fresh, page, launched, binds, forgotten>>

-----------------------------------------------------------------------------
(***************************************************************************)
(* Chrome, its user, the clock and the rest of the supervisor.             *)
(***************************************************************************)
Loads(h) ==
    /\ page[h].status = "loading"
    /\ page' = [page EXCEPT ![h].status = "shown"]
    /\ UNCHANGED <<parked, ops, slot, fresh, driver, launched, binds, forgotten>>

\* A close takes effect, or the user closes the window or leads it away.
Goes(h) ==
    /\ page[h] # Absent
    /\ page' = [page EXCEPT ![h] = Absent]
    /\ UNCHANGED <<parked, ops, slot, fresh, driver, launched, binds, forgotten>>

Duplicates(h, k) ==
    /\ page[h].status = "shown" /\ page[h].own /\ page[k] = Absent
    /\ page' = [page EXCEPT ![k] = [page[h] EXCEPT !.own = FALSE]]
    /\ UNCHANGED <<parked, ops, slot, fresh, driver, launched, binds, forgotten>>

SlotExpires ==
    /\ fresh
    /\ fresh' = FALSE
    /\ UNCHANGED <<parked, ops, slot, page, driver, launched, binds, forgotten>>

Parking(w) ==
    /\ parked' = (parked \ {w}) \cup ({w} \ parked)
    /\ UNCHANGED <<ops, slot, fresh, page, driver, launched, binds, forgotten>>

DriverStep(d) ==
    \/ \E w \in Worker : Plan(d, w)
    \/ PlanClose(d) \/ Arm(d) \/ FindReused(d) \/ BindSlot(d)
    \/ \E o \in Operation :
          AuthorizeClose(d, o) \/ AuthorizeOpen(d, o) \/ ObserveOld(d, o) \/ FailRead(d, o)
    \/ CloseAuthorized(d) \/ OpenAuthorized(d) \/ AwaitWindow(d) \/ CompleteDirectly(d)
    \/ ObserveNew(d) \/ FailSave(d) \/ Crash(d)
    \/ \E complete \in BOOLEAN : Reconcile(d, complete)

Next ==
    \/ \E d \in Driver : DriverStep(d)
    \/ ClearSlot \/ SlotExpires
    \/ \E h \in Window : Loads(h) \/ Goes(h) \/ \E k \in Window : Duplicates(h, k)
    \/ \E w \in Worker : Parking(w)

Spec == Init /\ [][Next]_vars

-----------------------------------------------------------------------------
TypeOK ==
    /\ parked \subseteq Worker
    /\ ops \in [Operation -> Row]
    /\ slot \in Slot \cup {None} /\ fresh \in BOOLEAN
    /\ page \in [Window -> Page]
    /\ driver \in [Driver -> DriverState]
    /\ launched \in [Operation -> Nat]
    /\ binds \in 0 .. MaxSeen
    /\ forgotten \subseteq Operation

\* The windows LWS opened that nothing has asked to close.
Probes == {h \in Window : page[h].own /\ page[h].status \in {"loading", "shown"}}

\* The probe windows but those whose record one of the three calls has lost.
RecordedProbes == {h \in Probes : page[h].tag \notin forgotten}

\* The core invariant of the write-ahead design, as far as it reaches: whatever crashes or is
\* observed late, a second probe window is open only when bind_probe_window_slot has overwritten
\* the slot of one of them, fail_probe_mutation_operation has failed its operation, or
\* clear_probe_window_slot has cleared its slot.  Those windows are the ones left out here.
OneRecordedProbe == Cardinality(RecordedProbes) <= 1

\* No orphan, with the same three exceptions: a probe window is the one of the slot, or the one
\* an unresolved operation is opening, so a process that comes after a crash finds it on record.
ProbesAreTracked ==
    \A h \in RecordedProbes :
        \/ slot # None /\ slot.window = h /\ slot.tag = page[h].tag
        \/ page[h].tag \in UnresolvedOps

\* An operation launches Chrome at most once, through any number of crashes and
\* reconciliations of its outcome.
LaunchedOnce == \A o \in Operation : launched[o] <= 1

=============================================================================
