---------------------------- MODULE ActionAttempt ----------------------------
(***************************************************************************)
(* The write-ahead record of browser sends: action_attempts and its        *)
(* operations in src/lws/registry.py, and the processes that use it for    *)
(* one task: execute_current_worker_recovery and submit_armed_action       *)
(* (executors: the watchdog's two resident cycles, dispatch-execute), and  *)
(* reconcile_action_with_uia and action-cancel (clerks).                   *)
(*                                                                         *)
(* Arming is one BEGIN IMMEDIATE transaction.  Every later change of an    *)
(* attempt is a read and a check followed by an UPDATE by primary key,     *)
(* outside any transaction, so two processes may both pass their check.    *)
(* The conversation is outside the program: a send that was invoked may be *)
(* delivered at any later moment, also after its process has crashed.      *)
(***************************************************************************)
EXTENDS Naturals, FiniteSets

CONSTANTS
    Attempt,             \* attempt ids (random in the code, so never used twice)
    Worker,              \* conversation workers of the task
    Executor,            \* processes that send
    Clerk,               \* processes that acknowledge or cancel
    None,
    MaxRecoveryAttempts  \* tasks.max_recovery_attempts

State == {"ARMED", "SUBMITTED", "RECONCILE_REQUIRED", "ACKNOWLEDGED", "FAILED", "CANCELLED"}

ASSUME ActionAssumption ==
    /\ None \notin Attempt \cup Worker \cup State
    /\ MaxRecoveryAttempts \in Nat

VARIABLES
    attempt,    \* action_attempts rows
    task,       \* what the tasks row says: open, its current ACTIVE worker, budget spent
    exec,       \* where each executor is
    clerk,      \* where each clerk is
    invoked,    \* sends that may have had, or may still have, an external effect
    delivered,  \* sends that appeared in the conversation
    was         \* history: the states each attempt has had

vars == <<attempt, task, exec, clerk, invoked, delivered, was>>

\* A plausible bug: an ARMED row is taken to mean that nothing was sent yet.
Unresolved_ArmedIgnored == {"SUBMITTED", "RECONCILE_REQUIRED"}

Unresolved == {"ARMED", "SUBMITTED", "RECONCILE_REQUIRED"}

ExecStep == {"idle", "checked", "armed", "sending", "returned", "marking"}
ClerkStep == {"idle", "observing", "acknowledging", "acknowledged", "signing", "cancelling"}

TypeOK ==
    /\ attempt \in [Attempt -> [state : State \cup {"absent"}, worker_id : Worker \cup {None},
                                charged : BOOLEAN]]
    /\ task \in [open : BOOLEAN, current_worker_id : Worker \cup {None},
                 recovery_attempts : Nat]
    /\ exec \in [Executor -> [step : ExecStep, worker_id : Worker \cup {None},
                              attempt_id : Attempt \cup {None}, result : State \cup {None}]]
    /\ clerk \in [Clerk -> [step : ClerkStep, attempt_id : Attempt \cup {None}]]
    /\ delivered \subseteq invoked /\ invoked \subseteq Attempt
    /\ was \in [Attempt -> SUBSET State]

IdleExec == [step |-> "idle", worker_id |-> None, attempt_id |-> None, result |-> None]
IdleClerk == [step |-> "idle", attempt_id |-> None]

Init ==
    /\ attempt = [a \in Attempt |-> [state |-> "absent", worker_id |-> None, charged |-> FALSE]]
    /\ \E w \in Worker : task = [open |-> TRUE, current_worker_id |-> w, recovery_attempts |-> 0]
    /\ exec = [e \in Executor |-> IdleExec]
    /\ clerk = [c \in Clerk |-> IdleClerk]
    /\ invoked = {}
    /\ delivered = {}
    /\ was = [a \in Attempt |-> {}]

IsUnresolved(a) == attempt[a].state \in Unresolved

\* unresolved_action_attempt returns a row.
SomeUnresolved == \E a \in Attempt : IsUnresolved(a)

\* The UPDATE of _replace_action_attempt commits: the partial unique index refuses a second
\* unresolved row of the task (sqlite3.IntegrityError).
MayReplace(a, state) == state \in Unresolved => \A b \in Attempt \ {a} : ~IsUnresolved(b)

Replace(a, state) ==
    /\ attempt' = [attempt EXCEPT ![a].state = state]
    /\ was' = [was EXCEPT ![a] = @ \cup {state}]

-----------------------------------------------------------------------------
(***************************************************************************)
(* execute_current_worker_recovery.                                        *)
(***************************************************************************)
\* The checks before arming, which the arming transaction repeats.
Check(e) ==
    /\ exec[e].step = "idle"
    /\ task.current_worker_id # None
    /\ ~SomeUnresolved
    /\ exec' = [exec EXCEPT ![e].step = "checked", ![e].worker_id = task.current_worker_id]
    /\ UNCHANGED <<attempt, task, clerk, invoked, delivered, was>>

\* A plausible bug: the arming transaction relies on the plan for the budget.
ArmOk_BudgetFromPlan(w, charged) ==
    task.open /\ task.current_worker_id = w /\ ~SomeUnresolved

\* The checks inside the arming transaction.
ArmOk(w, charged) ==
    /\ task.open
    /\ charged => task.recovery_attempts < MaxRecoveryAttempts
    /\ task.current_worker_id = w
    /\ ~SomeUnresolved

\* record_recovery_action_attempt (charged) or record_current_worker_action_attempt.
Arm(e, a, charged) ==
    /\ exec[e].step = "checked"
    /\ ArmOk(exec[e].worker_id, charged)
    /\ attempt[a].state = "absent"
    /\ attempt' = [attempt EXCEPT ![a] = [state |-> "ARMED", worker_id |-> exec[e].worker_id,
                                          charged |-> charged]]
    /\ was' = [was EXCEPT ![a] = @ \cup {"ARMED"}]
    /\ task' = IF charged THEN [task EXCEPT !.recovery_attempts = @ + 1] ELSE task
    /\ exec' = [exec EXCEPT ![e].step = "armed", ![e].attempt_id = a]
    /\ UNCHANGED <<clerk, invoked, delivered>>

\* The transaction raises: rollback, nothing armed, nothing charged.
ArmRefused(e, charged) ==
    /\ exec[e].step = "checked"
    /\ ~ArmOk(exec[e].worker_id, charged)
    /\ exec' = [exec EXCEPT ![e] = IdleExec]
    /\ UNCHANGED <<attempt, task, clerk, invoked, delivered, was>>

\* submit_armed_action reads the row, intent_from_attempt insists on ARMED, and the transport
\* is called.
Submit(e) ==
    /\ exec[e].step = "armed"
    /\ IF attempt[exec[e].attempt_id].state = "ARMED"
       THEN /\ exec' = [exec EXCEPT ![e].step = "sending"]
            /\ invoked' = invoked \cup {exec[e].attempt_id}
       ELSE /\ exec' = [exec EXCEPT ![e] = IdleExec]
            /\ UNCHANGED invoked
    /\ UNCHANGED <<attempt, task, clerk, delivered, was>>

\* The transport says submitted, says it cannot tell, or raises.
TransportUncertain(e, result) ==
    /\ exec[e].step = "sending"
    /\ exec' = [exec EXCEPT ![e].step = "returned", ![e].result = result]
    /\ UNCHANGED <<attempt, task, clerk, invoked, delivered, was>>

\* side_effect_possible is false: the helper stopped before it touched the page.
TransportProvesNothingSent(e) ==
    /\ exec[e].step = "sending"
    /\ exec[e].attempt_id \notin delivered
    /\ invoked' = invoked \ {exec[e].attempt_id}
    /\ exec' = [exec EXCEPT ![e].step = "returned", ![e].result = "FAILED"]
    /\ UNCHANGED <<attempt, task, clerk, delivered, was>>

\* ActionTransportDisabled is re-raised: the row stays ARMED.
TransportDisabled(e) ==
    /\ exec[e].step = "sending"
    /\ exec[e].attempt_id \notin delivered
    /\ invoked' = invoked \ {exec[e].attempt_id}
    /\ exec' = [exec EXCEPT ![e] = IdleExec]
    /\ UNCHANGED <<attempt, task, clerk, delivered, was>>

\* mark_action_submitted insists on ARMED; mark_action_reconcile_required and
\* fail_action_attempt on an unresolved row.
MarkAllowed(e) ==
    attempt[exec[e].attempt_id].state \in
        IF exec[e].result = "SUBMITTED" THEN {"ARMED"} ELSE Unresolved

MarkRead(e) ==
    /\ exec[e].step = "returned"
    /\ exec' = IF MarkAllowed(e) THEN [exec EXCEPT ![e].step = "marking"]
                                 ELSE [exec EXCEPT ![e] = IdleExec]
    /\ UNCHANGED <<attempt, task, clerk, invoked, delivered, was>>

MarkWrite(e) ==
    /\ exec[e].step = "marking"
    /\ IF MayReplace(exec[e].attempt_id, exec[e].result)
       THEN Replace(exec[e].attempt_id, exec[e].result)
       ELSE UNCHANGED <<attempt, was>>
    /\ exec' = [exec EXCEPT ![e] = IdleExec]
    /\ UNCHANGED <<task, clerk, invoked, delivered>>

\* The executor's process dies; what it armed or invoked stays.
CrashExecutor(e) ==
    /\ exec[e].step # "idle"
    /\ exec' = [exec EXCEPT ![e] = IdleExec]
    /\ UNCHANGED <<attempt, task, clerk, invoked, delivered, was>>

\* The message shows up in the conversation.
Deliver(a) ==
    /\ a \in invoked \ delivered
    /\ delivered' = delivered \cup {a}
    /\ UNCHANGED <<attempt, task, exec, clerk, invoked, was>>

-----------------------------------------------------------------------------
(***************************************************************************)
(* Clerks.                                                                 *)
(***************************************************************************)
ClerkAt(c, step) == [clerk EXCEPT ![c].step = step]
ClerkDone(c) == [clerk EXCEPT ![c] = IdleClerk]

\* reconcile_action_with_uia: only for the current worker; a row found ACKNOWLEDGED goes straight
\* to the signature.
ReconcileRead(c, a) ==
    /\ clerk[c].step = "idle"
    /\ \/ /\ IsUnresolved(a)
          /\ task.current_worker_id = attempt[a].worker_id
          /\ clerk' = [clerk EXCEPT ![c] = [step |-> "observing", attempt_id |-> a]]
       \/ /\ attempt[a].state = "ACKNOWLEDGED"
          /\ clerk' = [clerk EXCEPT ![c] = [step |-> "acknowledged", attempt_id |-> a]]
    /\ UNCHANGED <<attempt, task, exec, invoked, delivered, was>>

\* A plausible bug: a missing nonce is accepted as an acknowledgement.
Acknowledge_NonceOptional(c) ==
    /\ clerk[c].step = "observing"
    /\ clerk' = IF IsUnresolved(clerk[c].attempt_id) THEN ClerkAt(c, "acknowledging")
                                                     ELSE ClerkDone(c)
    /\ UNCHANGED <<attempt, task, exec, invoked, delivered, was>>

\* The nonce is seen exactly once; acknowledge_action reads the row again and validates.
Acknowledge(c) ==
    /\ clerk[c].step = "observing"
    /\ clerk[c].attempt_id \in delivered
    /\ clerk' = IF IsUnresolved(clerk[c].attempt_id) THEN ClerkAt(c, "acknowledging")
                                                     ELSE ClerkDone(c)
    /\ UNCHANGED <<attempt, task, exec, invoked, delivered, was>>

AcknowledgeWrite(c) ==
    /\ clerk[c].step = "acknowledging"
    /\ Replace(clerk[c].attempt_id, "ACKNOWLEDGED")
    /\ clerk' = ClerkAt(c, "acknowledged")
    /\ UNCHANGED <<task, exec, invoked, delivered>>

\* record_action_ack_browser_signature.
SignatureRead(c) ==
    /\ clerk[c].step = "acknowledged"
    /\ clerk' = IF attempt[clerk[c].attempt_id].state = "ACKNOWLEDGED" THEN ClerkAt(c, "signing")
                                                                       ELSE ClerkDone(c)
    /\ UNCHANGED <<attempt, task, exec, invoked, delivered, was>>

SignatureWrite(c) ==
    /\ clerk[c].step = "signing"
    /\ Replace(clerk[c].attempt_id, "ACKNOWLEDGED")
    /\ clerk' = ClerkDone(c)
    /\ UNCHANGED <<task, exec, invoked, delivered>>

\* cancel_action_attempt.
CancelRead(c, a) ==
    /\ clerk[c].step = "idle"
    /\ IsUnresolved(a)
    /\ clerk' = [clerk EXCEPT ![c] = [step |-> "cancelling", attempt_id |-> a]]
    /\ UNCHANGED <<attempt, task, exec, invoked, delivered, was>>

CancelWrite(c) ==
    /\ clerk[c].step = "cancelling"
    /\ Replace(clerk[c].attempt_id, "CANCELLED")
    /\ clerk' = ClerkDone(c)
    /\ UNCHANGED <<task, exec, invoked, delivered>>

\* No positive evidence, no signature to record, an ActionBlocked, or a crash.
ClerkStops(c) ==
    /\ clerk[c].step # "idle"
    /\ clerk' = ClerkDone(c)
    /\ UNCHANGED <<attempt, task, exec, invoked, delivered, was>>

-----------------------------------------------------------------------------
\* Worker replacement and completion move the authority at any moment (module ProtocolStore).
MoveAuthority(w) ==
    /\ task.open
    /\ task' = [task EXCEPT !.current_worker_id = w]
    /\ UNCHANGED <<attempt, exec, clerk, invoked, delivered, was>>

CompleteTask ==
    /\ task.open
    /\ task' = [task EXCEPT !.open = FALSE]
    /\ UNCHANGED <<attempt, exec, clerk, invoked, delivered, was>>

ExecNext(e) ==
    \/ Check(e)
    \/ Submit(e)
    \/ TransportProvesNothingSent(e)
    \/ TransportDisabled(e)
    \/ MarkRead(e)
    \/ MarkWrite(e)
    \/ CrashExecutor(e)
    \/ \E result \in {"SUBMITTED", "RECONCILE_REQUIRED"} : TransportUncertain(e, result)
    \/ \E charged \in BOOLEAN : ArmRefused(e, charged) \/ \E a \in Attempt : Arm(e, a, charged)

ClerkNext(c) ==
    \/ Acknowledge(c)
    \/ AcknowledgeWrite(c)
    \/ SignatureRead(c)
    \/ SignatureWrite(c)
    \/ CancelWrite(c)
    \/ ClerkStops(c)
    \/ \E a \in Attempt : ReconcileRead(c, a) \/ CancelRead(c, a)

Next ==
    \/ \E e \in Executor : ExecNext(e)
    \/ \E c \in Clerk : ClerkNext(c)
    \/ \E a \in Attempt : Deliver(a)
    \/ \E w \in Worker \cup {None} : MoveAuthority(w)
    \/ CompleteTask

Spec == Init /\ [][Next]_vars

-----------------------------------------------------------------------------
(***************************************************************************)
(* Properties.                                                             *)
(***************************************************************************)
\* A send whose effect is uncertain: it may be in the conversation, and neither an
\* acknowledgement nor an operator's cancellation has ever settled it.
Uncertain(a) == a \in invoked /\ was[a] \cap {"ACKNOWLEDGED", "CANCELLED"} = {}

\* "A supervisor crash must never turn an uncertain previous send into an automatic duplicate
\* send": whatever crashes, races and overwrites happen, a task never has two uncertain sends.
NoAutomaticDuplicate == \A a, b \in Attempt : Uncertain(a) /\ Uncertain(b) => a = b

\* "FAILED is terminal only when the transport can prove no external side effect occurred" and an
\* acknowledgement rests on evidence: an attempt once recorded FAILED never shows up in the
\* conversation, one recorded ACKNOWLEDGED has.
VerdictsAreTrue ==
    \A a \in Attempt :
        /\ "FAILED" \in was[a] => a \notin invoked
        /\ "ACKNOWLEDGED" \in was[a] => a \in delivered

\* No interleaving of executors makes a task send more fault-recovery messages than its budget.
RecoverySendsWithinBudget ==
    Cardinality({a \in delivered : attempt[a].charged}) <= MaxRecoveryAttempts
=============================================================================
