------------------------- MODULE ActionAttemptProofs -------------------------
(***************************************************************************)
(* Machine-checked proofs about ActionAttempt: for any number of attempts, *)
(* executors and clerks, and whatever crashes and stale writes happen, a   *)
(* task never has two uncertain sends, and every verdict recorded about a  *)
(* send is true.                                                           *)
(***************************************************************************)
EXTENDS ActionAttempt, FiniteSetTheorems, TLAPS

\* The partial unique index: at most one unresolved row.
OneUnresolved == \A a, b \in Attempt : IsUnresolved(a) /\ IsUnresolved(b) => a = b

\* An uncertain send keeps the task's duplicate-send lock, whoever overwrites the row.
LockHeld == \A a \in Attempt : Uncertain(a) => IsUnresolved(a)

\* The history is the history of the rows, and nothing is sent without a row.
RowsRecorded ==
    \A a \in Attempt :
        /\ attempt[a].state = "absent" => a \notin invoked /\ was[a] = {}
        /\ attempt[a].state # "absent" => attempt[a].state \in was[a]

\* What an executor holds at each step.
ExecWellFormed ==
    \A e \in Executor :
        /\ exec[e].step \in {"idle", "checked"} =>
              exec[e].attempt_id = None /\ exec[e].result = None
        /\ exec[e].step \in {"armed", "sending"} =>
              exec[e].attempt_id \in Attempt /\ exec[e].result = None
        /\ exec[e].step \in {"returned", "marking"} =>
              /\ exec[e].attempt_id \in Attempt
              /\ exec[e].result \in {"SUBMITTED", "RECONCILE_REQUIRED", "FAILED"}

\* The attempt an executor works on is its own, and has not been recorded as failed.
ExecOwns ==
    \A e \in Executor : exec[e].attempt_id # None =>
        /\ attempt[exec[e].attempt_id].state # "absent"
        /\ "FAILED" \notin was[exec[e].attempt_id]
        /\ \A f \in Executor : exec[f].attempt_id = exec[e].attempt_id => f = e

\* An executor about to record a failure has proof that nothing was sent.
ProvenUnsent ==
    \A e \in Executor : exec[e].result = "FAILED" => exec[e].attempt_id \notin invoked

\* A clerk about to write an acknowledgement has seen the message.
ClerkWellFormed ==
    \A c \in Clerk :
        /\ clerk[c].step # "idle" => clerk[c].attempt_id \in Attempt
        /\ clerk[c].step \in {"acknowledging", "acknowledged", "signing"} =>
              clerk[c].attempt_id \in delivered

ActionInv ==
    /\ TypeOK
    /\ OneUnresolved
    /\ LockHeld
    /\ RowsRecorded
    /\ ExecWellFormed
    /\ ExecOwns
    /\ ProvenUnsent
    /\ ClerkWellFormed
    /\ VerdictsAreTrue

-----------------------------------------------------------------------------
(***************************************************************************)
(* A step that leaves the rows and the conversation alone keeps everything *)
(* that is said about them.                                                *)
(***************************************************************************)
LEMMA RowsUntouched ==
    ASSUME ActionInv, attempt' = attempt, was' = was, invoked' = invoked, delivered' = delivered
    PROVE  OneUnresolved' /\ LockHeld' /\ RowsRecorded' /\ VerdictsAreTrue'
  BY DEF ActionInv, OneUnresolved, LockHeld, RowsRecorded, VerdictsAreTrue, Uncertain,
         IsUnresolved

LEMMA InitInv == Init => ActionInv
<1> SUFFICES ASSUME Init PROVE ActionInv
  OBVIOUS
<1>1. TypeOK
  <2>1. attempt \in [Attempt -> [state : State \cup {"absent"}, worker_id : Worker \cup {None},
                                 charged : BOOLEAN]]
    BY DEF Init
  <2>2. task \in [open : BOOLEAN, current_worker_id : Worker \cup {None}, recovery_attempts : Nat]
    BY DEF Init
  <2>3. exec \in [Executor -> [step : ExecStep, worker_id : Worker \cup {None},
                               attempt_id : Attempt \cup {None}, result : State \cup {None}]]
    BY DEF Init, IdleExec, ExecStep
  <2>4. clerk \in [Clerk -> [step : ClerkStep, attempt_id : Attempt \cup {None}]]
    BY DEF Init, IdleClerk, ClerkStep
  <2>5. was \in [Attempt -> SUBSET State] /\ invoked = {} /\ delivered = {}
    BY DEF Init
  <2> QED
    BY <2>1, <2>2, <2>3, <2>4, <2>5 DEF TypeOK
<1>2. \A a \in Attempt : attempt[a].state = "absent" /\ was[a] = {}
  BY DEF Init
<1>3. \A a \in Attempt : ~IsUnresolved(a) /\ ~Uncertain(a)
  BY <1>2 DEF Init, IsUnresolved, Uncertain, Unresolved
<1>4. OneUnresolved /\ LockHeld /\ RowsRecorded /\ VerdictsAreTrue
  BY <1>2, <1>3 DEF Init, OneUnresolved, LockHeld, RowsRecorded, VerdictsAreTrue
<1>5. ExecWellFormed /\ ExecOwns
  BY DEF Init, ExecWellFormed, ExecOwns, IdleExec
<1>6. ProvenUnsent
  BY DEF Init, ProvenUnsent
<1>7. ClerkWellFormed
  BY DEF Init, ClerkWellFormed, IdleClerk
<1> QED
  BY <1>1, <1>4, <1>5, <1>6, <1>7 DEF ActionInv

(***************************************************************************)
(* Steps that only move an executor on.                                    *)
(***************************************************************************)
LEMMA ExecutorMoves ==
    ASSUME ActionInv, NEW e \in Executor,
           NEW r \in [step : ExecStep, worker_id : Worker \cup {None},
                      attempt_id : Attempt \cup {None}, result : State \cup {None}],
           exec' = [exec EXCEPT ![e] = r],
           r.step \in {"idle", "checked"} => r.attempt_id = None /\ r.result = None,
           r.step \in {"armed", "sending"} => r.attempt_id \in Attempt /\ r.result = None,
           r.step \in {"returned", "marking"} =>
               r.attempt_id \in Attempt /\ r.result \in {"SUBMITTED", "RECONCILE_REQUIRED", "FAILED"},
           r.attempt_id \in {None, exec[e].attempt_id},
           r.result = "FAILED" => r.attempt_id \notin invoked,
           UNCHANGED <<attempt, task, clerk, invoked, delivered, was>>
    PROVE  ActionInv'
<1>1. OneUnresolved' /\ LockHeld' /\ RowsRecorded' /\ VerdictsAreTrue'
  BY RowsUntouched
<1>2. \A f \in Executor : f # e => exec'[f] = exec[f]
  BY DEF ActionInv, TypeOK
<1>3. exec'[e] = r
  BY DEF ActionInv, TypeOK
<1>4. TypeOK'
  BY DEF ActionInv, TypeOK
<1>5. ExecWellFormed'
  BY <1>2, <1>3 DEF ActionInv, ExecWellFormed
<1>6. ExecOwns'
  BY <1>2, <1>3 DEF ActionInv, ExecOwns
<1>7. ProvenUnsent'
  BY <1>2, <1>3 DEF ActionInv, ProvenUnsent
<1>8. ClerkWellFormed'
  BY DEF ActionInv, ClerkWellFormed
<1> QED
  BY <1>1, <1>4, <1>5, <1>6, <1>7, <1>8 DEF ActionInv

\* Check, ArmRefused, TransportUncertain, MarkRead and CrashExecutor.
LEMMA ExecutorStepsKeepInv ==
    ASSUME ActionInv, NEW e \in Executor,
           \/ Check(e)
           \/ \E charged \in BOOLEAN : ArmRefused(e, charged)
           \/ \E result \in {"SUBMITTED", "RECONCILE_REQUIRED"} : TransportUncertain(e, result)
           \/ MarkRead(e)
           \/ CrashExecutor(e)
    PROVE  ActionInv'
<1> DEFINE Rec == [step : ExecStep, worker_id : Worker \cup {None},
                   attempt_id : Attempt \cup {None}, result : State \cup {None}]
<1>1. exec \in [Executor -> Rec] /\ exec[e] \in Rec
  BY DEF ActionInv, TypeOK
<1>2. IdleExec \in Rec
  BY DEF IdleExec, ExecStep
<1>3. CASE UNCHANGED <<attempt, task, clerk, invoked, delivered, was>>
           /\ exec' = [exec EXCEPT ![e] = IdleExec]
  BY <1>2, <1>3, ExecutorMoves, ActionAssumption DEF IdleExec, State
<1>4. CASE Check(e)
  <2> DEFINE r == [exec[e] EXCEPT !.step = "checked", !.worker_id = task.current_worker_id]
  <2>1. r \in Rec /\ r.step = "checked" /\ r.attempt_id = None /\ r.result = None
    BY <1>1, <1>4 DEF Check, ActionInv, TypeOK, ExecWellFormed, ExecStep
  <2>2. exec' = [exec EXCEPT ![e] = r]
    BY <1>1, <1>4 DEF Check
  <2>3. UNCHANGED <<attempt, task, clerk, invoked, delivered, was>>
    BY <1>4 DEF Check
  <2>4. None # "FAILED"
    BY ActionAssumption DEF State
  <2> HIDE DEF r
  <2> QED
    BY <2>1, <2>2, <2>3, <2>4, ExecutorMoves
<1>5. ASSUME NEW result \in {"SUBMITTED", "RECONCILE_REQUIRED"}, TransportUncertain(e, result)
      PROVE  ActionInv'
  <2> DEFINE r == [exec[e] EXCEPT !.step = "returned", !.result = result]
  <2>1. /\ r \in Rec /\ r.step = "returned" /\ r.result = result
        /\ r.attempt_id = exec[e].attempt_id /\ r.attempt_id \in Attempt
    BY <1>1, <1>5 DEF TransportUncertain, ActionInv, ExecWellFormed, ExecStep, State
  <2>2. exec' = [exec EXCEPT ![e] = r]
    BY <1>1, <1>5 DEF TransportUncertain
  <2>3. UNCHANGED <<attempt, task, clerk, invoked, delivered, was>>
    BY <1>5 DEF TransportUncertain
  <2> HIDE DEF r
  <2> QED
    BY <2>1, <2>2, <2>3, ExecutorMoves
<1>6. CASE MarkRead(e) /\ MarkAllowed(e)
  <2> DEFINE r == [exec[e] EXCEPT !.step = "marking"]
  <2>1. /\ r \in Rec /\ r.step = "marking" /\ r.result = exec[e].result
        /\ r.attempt_id = exec[e].attempt_id /\ r.attempt_id \in Attempt
        /\ r.result \in {"SUBMITTED", "RECONCILE_REQUIRED", "FAILED"}
    BY <1>1, <1>6 DEF MarkRead, ActionInv, ExecWellFormed, ExecStep
  <2>2. exec' = [exec EXCEPT ![e] = r]
    BY <1>1, <1>6 DEF MarkRead
  <2>3. UNCHANGED <<attempt, task, clerk, invoked, delivered, was>>
    BY <1>6 DEF MarkRead
  <2>4. r.result = "FAILED" => r.attempt_id \notin invoked
    BY <2>1 DEF ActionInv, ProvenUnsent
  <2> HIDE DEF r
  <2> QED
    BY <2>1, <2>2, <2>3, <2>4, ExecutorMoves
<1>7. CASE MarkRead(e) /\ ~MarkAllowed(e)
  BY <1>3, <1>7 DEF MarkRead
<1>8. CASE CrashExecutor(e)
  BY <1>3, <1>8 DEF CrashExecutor
<1>9. ASSUME NEW charged \in BOOLEAN, ArmRefused(e, charged) PROVE ActionInv'
  BY <1>3, <1>9 DEF ArmRefused
<1> QED
  BY <1>4, <1>5, <1>6, <1>7, <1>8, <1>9

(***************************************************************************)
(* Arming, and the calls of the transport.                                 *)
(***************************************************************************)
LEMMA ArmKeepsInv ==
    ASSUME ActionInv, NEW e \in Executor, NEW a \in Attempt, NEW charged \in BOOLEAN,
           Arm(e, a, charged)
    PROVE  ActionInv'
<1> DEFINE row == [state |-> "ARMED", worker_id |-> exec[e].worker_id, charged |-> charged]
           r == [exec[e] EXCEPT !.step = "armed", !.attempt_id = a]
<1>0. /\ attempt \in [Attempt -> [state : State \cup {"absent"}, worker_id : Worker \cup {None},
                                  charged : BOOLEAN]]
      /\ was \in [Attempt -> SUBSET State]
      /\ exec \in [Executor -> [step : ExecStep, worker_id : Worker \cup {None},
                                attempt_id : Attempt \cup {None}, result : State \cup {None}]]
  BY DEF ActionInv, TypeOK
<1>1. /\ attempt'[a].state = "ARMED"
      /\ was'[a] = was[a] \cup {"ARMED"}
      /\ \A b \in Attempt : b # a => attempt'[b] = attempt[b] /\ was'[b] = was[b]
      /\ UNCHANGED <<clerk, invoked, delivered>>
  BY <1>0 DEF Arm
<1>2. /\ attempt[a].state = "absent"
      /\ \A b \in Attempt : ~IsUnresolved(b)
      /\ exec[e].step = "checked"
  BY DEF Arm, ArmOk, SomeUnresolved
<1>3. /\ exec'[e].step = "armed" /\ exec'[e].attempt_id = a
      /\ exec'[e].result = exec[e].result
      /\ \A f \in Executor : f # e => exec'[f] = exec[f]
  BY <1>0 DEF Arm
<1>4. exec[e].result = None /\ None # "FAILED"
  BY <1>2, ActionAssumption DEF ActionInv, ExecWellFormed, State
<1>5. TypeOK'
  <2>1. row \in [state : State \cup {"absent"}, worker_id : Worker \cup {None}, charged : BOOLEAN]
    BY <1>0 DEF State
  <2>2. r \in [step : ExecStep, worker_id : Worker \cup {None},
               attempt_id : Attempt \cup {None}, result : State \cup {None}]
    BY <1>0 DEF ExecStep
  <2>3. attempt' = [attempt EXCEPT ![a] = row] /\ exec' = [exec EXCEPT ![e] = r]
    BY <1>0 DEF Arm
  <2>4. was' \in [Attempt -> SUBSET State]
    BY <1>0 DEF Arm, State
  <2>5. task' \in [open : BOOLEAN, current_worker_id : Worker \cup {None}, recovery_attempts : Nat]
    <3>1. CASE charged
      <4> DEFINE B == BOOLEAN
      <4>1. task \in [open : B, current_worker_id : Worker \cup {None}, recovery_attempts : Nat]
        BY DEF ActionInv, TypeOK
      <4>2. task' = [task EXCEPT !.recovery_attempts = task.recovery_attempts + 1]
        BY <3>1 DEF Arm
      <4> HIDE DEF B
      <4>3. task' \in [open : B, current_worker_id : Worker \cup {None}, recovery_attempts : Nat]
        BY <4>1, <4>2
      <4> QED
        BY <4>3 DEF B
    <3>2. CASE ~charged
      BY <3>2 DEF Arm, ActionInv, TypeOK
    <3> QED
      BY <3>1, <3>2
  <2>6. attempt' \in [Attempt -> [state : State \cup {"absent"}, worker_id : Worker \cup {None},
                                  charged : BOOLEAN]]
    <3> HIDE DEF row
    <3> QED
      BY <1>0, <2>1, <2>3
  <2>7. exec' \in [Executor -> [step : ExecStep, worker_id : Worker \cup {None},
                                attempt_id : Attempt \cup {None}, result : State \cup {None}]]
    <3> HIDE DEF r
    <3> QED
      BY <1>0, <2>2, <2>3
  <2> QED
    BY <1>1, <2>4, <2>5, <2>6, <2>7 DEF ActionInv, TypeOK
<1>6. OneUnresolved' /\ LockHeld'
  BY <1>1, <1>2 DEF ActionInv, OneUnresolved, LockHeld, IsUnresolved, Uncertain, Unresolved
<1>7. RowsRecorded' /\ VerdictsAreTrue'
  BY <1>1, <1>2 DEF ActionInv, RowsRecorded, VerdictsAreTrue
<1>8. ExecWellFormed'
  BY <1>3, <1>4 DEF ActionInv, ExecWellFormed
<1>9. ExecOwns'
  <2>1. a \notin invoked /\ "FAILED" \notin was[a]
    BY <1>2 DEF ActionInv, RowsRecorded
  <2>2. a # None
    BY ActionAssumption
  <2>3. \A f \in Executor : exec[f].attempt_id # a
    BY <1>2, <2>2 DEF ActionInv, ExecOwns
  <2>4. \A f \in Executor : exec[f].attempt_id # None => exec[f].attempt_id \in Attempt
    BY <1>0
  <2> QED
    BY <1>1, <1>2, <1>3, <2>1, <2>2, <2>3, <2>4 DEF ActionInv, ExecOwns
<1>10. ProvenUnsent'
  BY <1>1, <1>3, <1>4 DEF ActionInv, ProvenUnsent
<1>11. ClerkWellFormed'
  BY <1>1 DEF ActionInv, ClerkWellFormed
<1> QED
  BY <1>5, <1>6, <1>7, <1>8, <1>9, <1>10, <1>11 DEF ActionInv

LEMMA SubmitKeepsInv ==
    ASSUME ActionInv, NEW e \in Executor, Submit(e)
    PROVE  ActionInv'
<1> DEFINE a == exec[e].attempt_id
           r == [exec[e] EXCEPT !.step = "sending"]
           Rec == [step : ExecStep, worker_id : Worker \cup {None},
                   attempt_id : Attempt \cup {None}, result : State \cup {None}]
<1>0. exec \in [Executor -> Rec] /\ exec[e] \in Rec
  BY DEF ActionInv, TypeOK
<1>1. exec[e].step = "armed" /\ a \in Attempt /\ exec[e].result = None
  BY DEF Submit, ActionInv, ExecWellFormed
<1>2. None # "FAILED" /\ a # None
  BY <1>1, ActionAssumption DEF State
<1>3. CASE attempt[a].state # "ARMED"
  <2>1. /\ exec' = [exec EXCEPT ![e] = IdleExec]
        /\ UNCHANGED <<attempt, task, clerk, invoked, delivered, was>>
    BY <1>3 DEF Submit
  <2>2. IdleExec \in Rec
    BY DEF IdleExec, ExecStep
  <2> QED
    BY <1>2, <2>1, <2>2, ExecutorMoves DEF IdleExec
<1>4. CASE attempt[a].state = "ARMED"
  <2>1. /\ exec' = [exec EXCEPT ![e] = r]
        /\ invoked' = invoked \cup {a}
        /\ UNCHANGED <<attempt, task, clerk, delivered, was>>
    BY <1>0, <1>4 DEF Submit
  <2>2. /\ r \in Rec /\ r.step = "sending" /\ r.attempt_id = a /\ r.result = None
    BY <1>0, <1>1 DEF ExecStep
  <2>3. exec'[e] = r /\ \A f \in Executor : f # e => exec'[f] = exec[f]
    BY <1>0, <2>1
  <2>4. \A f \in Executor : f # e => exec[f].attempt_id # a
    BY <1>2 DEF ActionInv, ExecOwns
  <2>5. "FAILED" \notin was[a]
    BY <1>2 DEF ActionInv, ExecOwns
  <2> HIDE DEF r, a
  <2>6. TypeOK'
    BY <1>0, <1>1, <2>1, <2>2 DEF ActionInv, TypeOK
  <2>7. OneUnresolved'
    BY <2>1 DEF ActionInv, OneUnresolved, IsUnresolved
  <2>8. LockHeld'
    BY <1>4, <2>1 DEF ActionInv, LockHeld, Uncertain, IsUnresolved, Unresolved
  <2>9. RowsRecorded'
    BY <1>4, <2>1 DEF ActionInv, RowsRecorded
  <2>10. VerdictsAreTrue'
    BY <2>1, <2>5 DEF ActionInv, VerdictsAreTrue
  <2>11. ExecWellFormed'
    BY <1>1, <2>2, <2>3 DEF ActionInv, ExecWellFormed
  <2>12. ExecOwns'
    BY <2>1, <2>2, <2>3 DEF ActionInv, ExecOwns, a
  <2>13. ProvenUnsent'
    BY <1>2, <2>1, <2>2, <2>3, <2>4 DEF ActionInv, ProvenUnsent
  <2>14. ClerkWellFormed'
    BY <2>1 DEF ActionInv, ClerkWellFormed
  <2> QED
    BY <2>6, <2>7, <2>8, <2>9, <2>10, <2>11, <2>12, <2>13, <2>14 DEF ActionInv
<1> QED
  BY <1>3, <1>4

\* The transport proves that nothing was sent, or is disabled.
LEMMA NothingSentKeepsInv ==
    ASSUME ActionInv, NEW e \in Executor, TransportProvesNothingSent(e) \/ TransportDisabled(e)
    PROVE  ActionInv'
<1> DEFINE a == exec[e].attempt_id
           r == [exec[e] EXCEPT !.step = "returned", !.result = "FAILED"]
           Rec == [step : ExecStep, worker_id : Worker \cup {None},
                   attempt_id : Attempt \cup {None}, result : State \cup {None}]
<1>0. exec \in [Executor -> Rec] /\ exec[e] \in Rec
  BY DEF ActionInv, TypeOK
<1>1. /\ exec[e].step = "sending" /\ a \in Attempt /\ a \notin delivered
      /\ invoked' = invoked \ {a}
      /\ UNCHANGED <<attempt, task, clerk, delivered, was>>
  BY DEF TransportProvesNothingSent, TransportDisabled, ActionInv, ExecWellFormed
<1>2. None # "FAILED"
  BY ActionAssumption DEF State
<1>3. PICK q \in Rec :
          /\ exec' = [exec EXCEPT ![e] = q]
          /\ q.attempt_id \in {a, None}
          /\ q.step = "idle" => q.attempt_id = None /\ q.result = None
          /\ q.step # "idle" => q.step = "returned" /\ q.attempt_id = a /\ q.result = "FAILED"
  <2>1. CASE TransportProvesNothingSent(e)
    <3>1. r \in Rec /\ r.step = "returned" /\ r.attempt_id = a /\ r.result = "FAILED"
      BY <1>0 DEF ExecStep, State
    <3>2. exec' = [exec EXCEPT ![e] = r]
      BY <1>0, <2>1 DEF TransportProvesNothingSent
    <3> HIDE DEF r
    <3> QED
      BY <3>1, <3>2
  <2>2. CASE TransportDisabled(e)
    <3>1. /\ IdleExec \in Rec /\ IdleExec.step = "idle" /\ IdleExec.attempt_id = None
          /\ IdleExec.result = None
      BY DEF IdleExec, ExecStep
    <3> QED
      BY <2>2, <3>1 DEF TransportDisabled
  <2> QED
    BY <2>1, <2>2
<1>4. exec'[e] = q /\ \A f \in Executor : f # e => exec'[f] = exec[f]
  BY <1>0, <1>3
<1> HIDE DEF a
<1>5. TypeOK'
  BY <1>0, <1>1, <1>3 DEF ActionInv, TypeOK
<1>6. OneUnresolved' /\ LockHeld' /\ RowsRecorded' /\ VerdictsAreTrue'
  BY <1>1 DEF ActionInv, TypeOK, OneUnresolved, LockHeld, RowsRecorded, VerdictsAreTrue,
              Uncertain, IsUnresolved
<1>7. ExecWellFormed'
  BY <1>1, <1>3, <1>4 DEF ActionInv, ExecWellFormed
<1>8. ExecOwns'
  BY <1>1, <1>3, <1>4 DEF ActionInv, ExecOwns, a
<1>9. ProvenUnsent'
  BY <1>1, <1>2, <1>3, <1>4 DEF ActionInv, ProvenUnsent
<1>10. ClerkWellFormed'
  BY <1>1 DEF ActionInv, ClerkWellFormed
<1> QED
  BY <1>5, <1>6, <1>7, <1>8, <1>9, <1>10 DEF ActionInv

(***************************************************************************)
(* The unguarded UPDATE of _replace_action_attempt.                        *)
(***************************************************************************)
LEMMA ReplaceKeepsRows ==
    ASSUME ActionInv, NEW a \in Attempt, NEW s \in State, Replace(a, s),
           s \in Unresolved => \A b \in Attempt \ {a} : ~IsUnresolved(b),
           s = "FAILED" => a \notin invoked,
           s = "ACKNOWLEDGED" => a \in delivered,
           UNCHANGED <<invoked, delivered>>
    PROVE  /\ OneUnresolved' /\ LockHeld' /\ RowsRecorded' /\ VerdictsAreTrue'
           /\ attempt' \in [Attempt -> [state : State \cup {"absent"},
                                        worker_id : Worker \cup {None}, charged : BOOLEAN]]
           /\ was' \in [Attempt -> SUBSET State]
           /\ attempt'[a].state = s /\ was'[a] = was[a] \cup {s}
           /\ \A b \in Attempt : b # a => attempt'[b] = attempt[b] /\ was'[b] = was[b]
<1> DEFINE B == BOOLEAN
           Row == [state : State \cup {"absent"}, worker_id : Worker \cup {None}, charged : B]
           row == [attempt[a] EXCEPT !.state = s]
<1>0. attempt \in [Attempt -> Row] /\ was \in [Attempt -> SUBSET State]
  BY DEF ActionInv, TypeOK
<1> HIDE DEF B
<1>1. row \in Row /\ row.state = s
  BY <1>0
<1>2. attempt' = [attempt EXCEPT ![a] = row]
  BY <1>0 DEF Replace
<1> HIDE DEF row, Row
<1>3. attempt' \in [Attempt -> Row] /\ attempt'[a].state = s
  BY <1>0, <1>1, <1>2
<1>4. was' \in [Attempt -> SUBSET State] /\ was'[a] = was[a] \cup {s}
  BY <1>0 DEF Replace
<1>5. \A b \in Attempt : b # a => attempt'[b] = attempt[b] /\ was'[b] = was[b]
  BY <1>0, <1>2 DEF Replace
<1>6. OneUnresolved'
  BY <1>3, <1>5 DEF ActionInv, OneUnresolved, IsUnresolved
<1>7. LockHeld'
  <2> SUFFICES ASSUME NEW b \in Attempt, Uncertain(b)' PROVE IsUnresolved(b)'
    BY DEF LockHeld
  <2>1. CASE b # a
    BY <1>5, <2>1 DEF ActionInv, LockHeld, Uncertain, IsUnresolved
  <2>2. CASE b = a
    <3>1. a \in invoked /\ s \notin {"ACKNOWLEDGED", "CANCELLED", "FAILED"}
      BY <1>4, <2>2 DEF Uncertain
    <3>2. s \in Unresolved
      BY <3>1 DEF Unresolved, State
    <3> QED
      BY <1>3, <2>2, <3>2 DEF IsUnresolved
  <2> QED
    BY <2>1, <2>2
<1>8. RowsRecorded'
  BY <1>3, <1>4, <1>5 DEF ActionInv, RowsRecorded, State
<1>9. VerdictsAreTrue'
  BY <1>4, <1>5 DEF ActionInv, VerdictsAreTrue
<1>10. attempt' \in [Attempt -> [state : State \cup {"absent"}, worker_id : Worker \cup {None},
                                 charged : BOOLEAN]]
  BY <1>3 DEF Row, B
<1> QED
  BY <1>3, <1>4, <1>5, <1>6, <1>7, <1>8, <1>9, <1>10

LEMMA MarkWriteKeepsInv ==
    ASSUME ActionInv, NEW e \in Executor, MarkWrite(e)
    PROVE  ActionInv'
<1> DEFINE a == exec[e].attempt_id
           Rec == [step : ExecStep, worker_id : Worker \cup {None},
                   attempt_id : Attempt \cup {None}, result : State \cup {None}]
<1>0. exec \in [Executor -> Rec] /\ exec[e] \in Rec
  BY DEF ActionInv, TypeOK
<1>1. /\ a \in Attempt /\ exec[e].result \in {"SUBMITTED", "RECONCILE_REQUIRED", "FAILED"}
      /\ exec' = [exec EXCEPT ![e] = IdleExec]
      /\ UNCHANGED <<task, clerk, invoked, delivered>>
  BY DEF MarkWrite, ActionInv, ExecWellFormed
<1>2. IdleExec \in Rec /\ IdleExec.attempt_id = None /\ IdleExec.result = None
      /\ IdleExec.step = "idle"
  BY DEF IdleExec, ExecStep
<1>3. None # "FAILED" /\ a # None
  BY <1>1, ActionAssumption DEF State
<1>4. CASE ~MayReplace(a, exec[e].result)
  <2>1. UNCHANGED <<attempt, task, clerk, invoked, delivered, was>>
    BY <1>1, <1>4 DEF MarkWrite
  <2> QED
    BY <1>1, <1>2, <1>3, <2>1, ExecutorMoves
<1>5. CASE MayReplace(a, exec[e].result)
  <2>1. Replace(a, exec[e].result)
    BY <1>5 DEF MarkWrite
  <2>2. exec[e].result \in State /\ exec[e].result # "ACKNOWLEDGED"
    BY <1>1 DEF State
  <2>3. exec[e].result = "FAILED" => a \notin invoked
    BY DEF ActionInv, ProvenUnsent
  <2>4. exec[e].result \in Unresolved => \A b \in Attempt \ {a} : ~IsUnresolved(b)
    BY <1>5 DEF MayReplace
  <2>5. \A f \in Executor : f # e => exec[f].attempt_id # a
    BY <1>3 DEF ActionInv, ExecOwns
  <2> HIDE DEF a
  <2>6. /\ OneUnresolved' /\ LockHeld' /\ RowsRecorded' /\ VerdictsAreTrue'
        /\ attempt' \in [Attempt -> [state : State \cup {"absent"},
                                     worker_id : Worker \cup {None}, charged : BOOLEAN]]
        /\ was' \in [Attempt -> SUBSET State]
        /\ \A b \in Attempt : b # a => attempt'[b] = attempt[b] /\ was'[b] = was[b]
    BY <1>1, <2>1, <2>2, <2>3, <2>4, ReplaceKeepsRows
  <2>7. exec'[e] = IdleExec /\ \A f \in Executor : f # e => exec'[f] = exec[f]
    BY <1>0, <1>1
  <2>8. exec' \in [Executor -> Rec]
    BY <1>0, <1>1, <1>2
  <2>9. TypeOK'
    BY <1>1, <2>6, <2>8 DEF ActionInv, TypeOK
  <2>10. ExecWellFormed'
    BY <1>2, <2>7 DEF ActionInv, ExecWellFormed
  <2>11. ExecOwns'
    BY <1>0, <1>2, <2>5, <2>6, <2>7 DEF ActionInv, ExecOwns
  <2>12. ProvenUnsent'
    BY <1>1, <1>2, <1>3, <2>7 DEF ActionInv, ProvenUnsent
  <2>13. ClerkWellFormed'
    BY <1>1 DEF ActionInv, ClerkWellFormed
  <2> QED
    BY <2>6, <2>9, <2>10, <2>11, <2>12, <2>13 DEF ActionInv
<1> QED
  BY <1>4, <1>5

(***************************************************************************)
(* Clerks.                                                                 *)
(***************************************************************************)
\* ReconcileRead, Acknowledge, SignatureRead, CancelRead and ClerkStops.
LEMMA ClerkReadsKeepInv ==
    ASSUME ActionInv, NEW c \in Clerk,
           \/ \E a \in Attempt : ReconcileRead(c, a) \/ CancelRead(c, a)
           \/ Acknowledge(c)
           \/ SignatureRead(c)
           \/ ClerkStops(c)
    PROVE  ActionInv'
<1> DEFINE Rec == [step : ClerkStep, attempt_id : Attempt \cup {None}]
<1>0. clerk \in [Clerk -> Rec] /\ clerk[c] \in Rec
  BY DEF ActionInv, TypeOK
<1>1. UNCHANGED <<attempt, task, exec, invoked, delivered, was>>
  BY DEF ReconcileRead, CancelRead, Acknowledge, SignatureRead, ClerkStops
<1>2. PICK q \in Rec :
          /\ clerk' = [clerk EXCEPT ![c] = q]
          /\ q.step # "idle" => q.attempt_id \in Attempt
          /\ q.step \in {"acknowledging", "acknowledged", "signing"} => q.attempt_id \in delivered
  <2>1. IdleClerk \in Rec /\ IdleClerk.step = "idle"
    BY DEF IdleClerk, ClerkStep
  <2>2. CASE clerk' = ClerkDone(c)
    BY <2>1, <2>2 DEF ClerkDone
  <2>3. ASSUME NEW a \in Attempt, NEW step \in {"observing", "acknowledged", "cancelling"},
               clerk' = [clerk EXCEPT ![c] = [step |-> step, attempt_id |-> a]],
               step = "acknowledged" => attempt[a].state = "ACKNOWLEDGED"
        PROVE  \E q \in Rec :
                  /\ clerk' = [clerk EXCEPT ![c] = q]
                  /\ q.step # "idle" => q.attempt_id \in Attempt
                  /\ q.step \in {"acknowledging", "acknowledged", "signing"} =>
                        q.attempt_id \in delivered
    <3>1. step = "acknowledged" => a \in delivered
      BY <2>3 DEF ActionInv, RowsRecorded, VerdictsAreTrue
    <3>2. [step |-> step, attempt_id |-> a] \in Rec
      BY DEF ClerkStep
    <3> QED
      BY <2>3, <3>1, <3>2
  <2>4. ASSUME NEW step \in {"acknowledging", "signing"}, clerk' = ClerkAt(c, step),
               clerk[c].attempt_id \in delivered
        PROVE  \E q \in Rec :
                  /\ clerk' = [clerk EXCEPT ![c] = q]
                  /\ q.step # "idle" => q.attempt_id \in Attempt
                  /\ q.step \in {"acknowledging", "acknowledged", "signing"} =>
                        q.attempt_id \in delivered
    <3> DEFINE r == [clerk[c] EXCEPT !.step = step]
    <3>1. r \in Rec /\ r.attempt_id = clerk[c].attempt_id
      BY <1>0 DEF ClerkStep
    <3>2. clerk' = [clerk EXCEPT ![c] = r]
      BY <1>0, <2>4 DEF ClerkAt
    <3>3. clerk[c].attempt_id \in Attempt
      BY <2>4 DEF ActionInv, TypeOK
    <3> HIDE DEF r
    <3> QED
      BY <2>4, <3>1, <3>2, <3>3
  <2>5. ASSUME NEW a \in Attempt, ReconcileRead(c, a) \/ CancelRead(c, a)
        PROVE  \E step \in {"observing", "acknowledged", "cancelling"} :
                  /\ clerk' = [clerk EXCEPT ![c] = [step |-> step, attempt_id |-> a]]
                  /\ step = "acknowledged" => attempt[a].state = "ACKNOWLEDGED"
    BY <2>5 DEF ReconcileRead, CancelRead
  <2>6. CASE Acknowledge(c)
    BY <2>2, <2>4, <2>6 DEF Acknowledge
  <2>7. CASE SignatureRead(c)
    <3>1. clerk[c].attempt_id \in delivered
      BY <2>7 DEF SignatureRead, ActionInv, ClerkWellFormed
    <3> QED
      BY <2>2, <2>4, <2>7, <3>1 DEF SignatureRead
  <2>8. CASE ClerkStops(c)
    BY <2>2, <2>8 DEF ClerkStops
  <2> QED
    BY <2>3, <2>5, <2>6, <2>7, <2>8
<1>3. clerk'[c] = q /\ \A d \in Clerk : d # c => clerk'[d] = clerk[d]
  BY <1>0, <1>2
<1>4. OneUnresolved' /\ LockHeld' /\ RowsRecorded' /\ VerdictsAreTrue'
  BY <1>1, RowsUntouched
<1>5. TypeOK'
  BY <1>0, <1>1, <1>2 DEF ActionInv, TypeOK
<1>6. ExecWellFormed' /\ ExecOwns' /\ ProvenUnsent'
  BY <1>1 DEF ActionInv, ExecWellFormed, ExecOwns, ProvenUnsent
<1>7. ClerkWellFormed'
  BY <1>1, <1>2, <1>3 DEF ActionInv, ClerkWellFormed
<1> QED
  BY <1>4, <1>5, <1>6, <1>7 DEF ActionInv

\* AcknowledgeWrite, SignatureWrite and CancelWrite.
LEMMA ClerkWritesKeepInv ==
    ASSUME ActionInv, NEW c \in Clerk,
           AcknowledgeWrite(c) \/ SignatureWrite(c) \/ CancelWrite(c)
    PROVE  ActionInv'
<1> DEFINE Rec == [step : ClerkStep, attempt_id : Attempt \cup {None}]
           a == clerk[c].attempt_id
           r == [clerk[c] EXCEPT !.step = "acknowledged"]
<1>0. clerk \in [Clerk -> Rec] /\ clerk[c] \in Rec
  BY DEF ActionInv, TypeOK
<1>1. /\ a \in Attempt
      /\ UNCHANGED <<task, exec, invoked, delivered>>
  BY DEF AcknowledgeWrite, SignatureWrite, CancelWrite, ActionInv, ClerkWellFormed
<1>2. PICK s \in {"ACKNOWLEDGED", "CANCELLED"} :
          Replace(a, s) /\ (s = "ACKNOWLEDGED" => a \in delivered)
  BY DEF AcknowledgeWrite, SignatureWrite, CancelWrite, ActionInv, ClerkWellFormed
<1>3. PICK q \in Rec :
          /\ clerk' = [clerk EXCEPT ![c] = q]
          /\ q.step \in {"idle", "acknowledged"}
          /\ q.step = "acknowledged" => q.attempt_id = a /\ a \in delivered
  <2>1. CASE AcknowledgeWrite(c)
    <3>1. r \in Rec /\ r.step = "acknowledged" /\ r.attempt_id = a
      BY <1>0 DEF ClerkStep
    <3>2. clerk' = [clerk EXCEPT ![c] = r] /\ a \in delivered
      BY <1>0, <2>1 DEF AcknowledgeWrite, ClerkAt, ActionInv, ClerkWellFormed
    <3> HIDE DEF r
    <3> QED
      BY <3>1, <3>2
  <2>2. CASE SignatureWrite(c) \/ CancelWrite(c)
    <3>1. IdleClerk \in Rec /\ IdleClerk.step = "idle"
      BY DEF IdleClerk, ClerkStep
    <3> QED
      BY <2>2, <3>1 DEF SignatureWrite, CancelWrite, ClerkDone
  <2> QED
    BY <2>1, <2>2
<1>4. clerk'[c] = q /\ \A d \in Clerk : d # c => clerk'[d] = clerk[d]
  BY <1>0, <1>3
<1> HIDE DEF a
<1>5. s \in State /\ s \notin Unresolved /\ s # "FAILED" /\ s # "absent"
  BY <1>2 DEF State, Unresolved
<1>6. /\ OneUnresolved' /\ LockHeld' /\ RowsRecorded' /\ VerdictsAreTrue'
      /\ attempt' \in [Attempt -> [state : State \cup {"absent"}, worker_id : Worker \cup {None},
                                   charged : BOOLEAN]]
      /\ was' \in [Attempt -> SUBSET State]
      /\ attempt'[a].state = s /\ was'[a] = was[a] \cup {s}
      /\ \A b \in Attempt : b # a => attempt'[b] = attempt[b] /\ was'[b] = was[b]
  BY <1>1, <1>2, <1>5, ReplaceKeepsRows
<1>7. TypeOK'
  BY <1>0, <1>1, <1>3, <1>6 DEF ActionInv, TypeOK
<1>8. ExecWellFormed' /\ ProvenUnsent'
  BY <1>1 DEF ActionInv, ExecWellFormed, ProvenUnsent
<1>9. ExecOwns'
  <2>1. \A b \in Attempt : /\ attempt[b].state # "absent" => attempt'[b].state # "absent"
                           /\ "FAILED" \notin was[b] => "FAILED" \notin was'[b]
    BY <1>5, <1>6
  <2>2. \A e \in Executor : exec[e].attempt_id # None => exec[e].attempt_id \in Attempt
    BY DEF ActionInv, TypeOK
  <2> QED
    BY <1>1, <2>1, <2>2 DEF ActionInv, ExecOwns
<1>10. ClerkWellFormed'
  BY <1>1, <1>3, <1>4 DEF ActionInv, ClerkWellFormed
<1> QED
  BY <1>6, <1>7, <1>8, <1>9, <1>10 DEF ActionInv

-----------------------------------------------------------------------------
(***************************************************************************)
(* The conversation and the task row.                                      *)
(***************************************************************************)
LEMMA DeliverKeepsInv ==
    ASSUME ActionInv, NEW a \in Attempt, Deliver(a)
    PROVE  ActionInv'
<1>1. /\ a \in invoked /\ delivered' = delivered \cup {a}
      /\ UNCHANGED <<attempt, task, exec, clerk, invoked, was>>
  BY DEF Deliver
<1>2. TypeOK'
  BY <1>1 DEF ActionInv, TypeOK
<1>3. OneUnresolved' /\ LockHeld' /\ RowsRecorded' /\ VerdictsAreTrue'
  BY <1>1 DEF ActionInv, OneUnresolved, LockHeld, RowsRecorded, VerdictsAreTrue, Uncertain,
              IsUnresolved
<1>4. ExecWellFormed' /\ ExecOwns' /\ ProvenUnsent' /\ ClerkWellFormed'
  BY <1>1 DEF ActionInv, ExecWellFormed, ExecOwns, ProvenUnsent, ClerkWellFormed
<1> QED
  BY <1>2, <1>3, <1>4 DEF ActionInv

LEMMA TaskRowKeepsInv ==
    ASSUME ActionInv, (\E w \in Worker \cup {None} : MoveAuthority(w)) \/ CompleteTask
    PROVE  ActionInv'
<1>1. UNCHANGED <<attempt, exec, clerk, invoked, delivered, was>>
  BY DEF MoveAuthority, CompleteTask
<1>2. task' \in [open : BOOLEAN, current_worker_id : Worker \cup {None}, recovery_attempts : Nat]
  <2>1. ASSUME NEW w \in Worker \cup {None}, MoveAuthority(w)
        PROVE  task' \in [open : BOOLEAN, current_worker_id : Worker \cup {None},
                          recovery_attempts : Nat]
    <3> DEFINE B == BOOLEAN
    <3>1. task \in [open : B, current_worker_id : Worker \cup {None}, recovery_attempts : Nat]
      BY DEF ActionInv, TypeOK
    <3>2. task' = [task EXCEPT !.current_worker_id = w]
      BY <2>1 DEF MoveAuthority
    <3> HIDE DEF B
    <3>3. task' \in [open : B, current_worker_id : Worker \cup {None}, recovery_attempts : Nat]
      BY <3>1, <3>2
    <3> QED
      BY <3>3 DEF B
  <2>2. CASE CompleteTask
    <3> DEFINE B == BOOLEAN
               no == FALSE
    <3>1. task \in [open : B, current_worker_id : Worker \cup {None}, recovery_attempts : Nat]
      BY DEF ActionInv, TypeOK
    <3>2. task' = [task EXCEPT !.open = no] /\ no \in B
      BY <2>2 DEF CompleteTask
    <3> HIDE DEF B, no
    <3>3. task' \in [open : B, current_worker_id : Worker \cup {None}, recovery_attempts : Nat]
      BY <3>1, <3>2
    <3> QED
      BY <3>3 DEF B
  <2> QED
    BY <2>1, <2>2
<1>3. TypeOK'
  BY <1>1, <1>2 DEF ActionInv, TypeOK
<1>4. OneUnresolved' /\ LockHeld' /\ RowsRecorded' /\ VerdictsAreTrue'
  BY <1>1, RowsUntouched
<1>5. ExecWellFormed' /\ ExecOwns' /\ ProvenUnsent' /\ ClerkWellFormed'
  BY <1>1 DEF ActionInv, ExecWellFormed, ExecOwns, ProvenUnsent, ClerkWellFormed
<1> QED
  BY <1>3, <1>4, <1>5 DEF ActionInv

-----------------------------------------------------------------------------
(***************************************************************************)
(* The theorems.                                                           *)
(***************************************************************************)
LEMMA StutterKeepsInv == ASSUME ActionInv, UNCHANGED vars PROVE ActionInv'
<1>1. UNCHANGED <<attempt, task, exec, clerk, invoked, delivered, was>>
  BY DEF vars
<1>2. OneUnresolved' /\ LockHeld' /\ RowsRecorded' /\ VerdictsAreTrue'
  BY <1>1, RowsUntouched
<1>3. TypeOK'
  BY <1>1 DEF ActionInv, TypeOK
<1>4. ExecWellFormed' /\ ExecOwns' /\ ProvenUnsent' /\ ClerkWellFormed'
  BY <1>1 DEF ActionInv, ExecWellFormed, ExecOwns, ProvenUnsent, ClerkWellFormed
<1> QED
  BY <1>2, <1>3, <1>4 DEF ActionInv

LEMMA NextKeepsInv == ActionInv /\ [Next]_vars => ActionInv'
<1> SUFFICES ASSUME ActionInv, [Next]_vars PROVE ActionInv'
  OBVIOUS
<1>1. ASSUME NEW e \in Executor, ExecNext(e) PROVE ActionInv'
  BY <1>1, ExecutorStepsKeepInv, ArmKeepsInv, SubmitKeepsInv, NothingSentKeepsInv,
     MarkWriteKeepsInv DEF ExecNext
<1>2. ASSUME NEW c \in Clerk, ClerkNext(c) PROVE ActionInv'
  BY <1>2, ClerkReadsKeepInv, ClerkWritesKeepInv DEF ClerkNext
<1> QED
  BY <1>1, <1>2, DeliverKeepsInv, TaskRowKeepsInv, StutterKeepsInv DEF Next

\* The inductive invariant: the lock follows every uncertain send, executors own their attempts,
\* and whoever is about to record a verdict has the evidence for it.
THEOREM ActionInvariant == Spec => []ActionInv
<1> QED
  BY InitInv, NextKeepsInv, PTL DEF Spec

\* A task never has two uncertain sends: no crash, race or stale write of any number of
\* executors and clerks turns an uncertain send into an automatic duplicate.
THEOREM NoDuplicateSends == Spec => []NoAutomaticDuplicate
<1>1. ActionInv => NoAutomaticDuplicate
  BY DEF ActionInv, OneUnresolved, LockHeld, NoAutomaticDuplicate
<1> QED
  BY <1>1, ActionInvariant, PTL

\* An attempt recorded FAILED was never sent, one recorded ACKNOWLEDGED was delivered.
THEOREM VerdictsHold == Spec => []VerdictsAreTrue
<1>1. ActionInv => VerdictsAreTrue
  BY DEF ActionInv
<1> QED
  BY <1>1, ActionInvariant, PTL

-----------------------------------------------------------------------------
(***************************************************************************)
(* The recovery budget.                                                    *)
(***************************************************************************)
Charged == {a \in Attempt : attempt[a].charged = TRUE}

\* The budget spent is the number of charged rows.
BudgetInv ==
    /\ \A a \in Attempt : attempt[a].state = "absent" => a \notin Charged
    /\ IsFiniteSet(Charged)
    /\ Cardinality(Charged) = task.recovery_attempts
    /\ task.recovery_attempts <= MaxRecoveryAttempts

LEMMA InitBudget == Init => BudgetInv
<1> SUFFICES ASSUME Init PROVE BudgetInv
  OBVIOUS
<1>1. Charged = {}
  BY DEF Init, Charged
<1>2. task.recovery_attempts = 0
  BY DEF Init
<1> QED
  BY <1>1, <1>2, FS_EmptySet, ActionAssumption DEF BudgetInv

\* Only arming charges.
LEMMA NothingCharged ==
    ASSUME ActionInv, BudgetInv,
           task'.recovery_attempts = task.recovery_attempts,
           \A a \in Attempt : /\ attempt'[a].charged = attempt[a].charged
                              /\ attempt'[a].state = "absent" => attempt[a].state = "absent"
    PROVE  BudgetInv'
<1>1. Charged' = Charged
  BY DEF Charged
<1> QED
  BY <1>1 DEF BudgetInv

LEMMA ArmCharges ==
    ASSUME ActionInv, BudgetInv, NEW e \in Executor, NEW a \in Attempt,
           NEW charged \in BOOLEAN, Arm(e, a, charged)
    PROVE  BudgetInv'
<1>0. /\ attempt \in [Attempt -> [state : State \cup {"absent"}, worker_id : Worker \cup {None},
                                  charged : BOOLEAN]]
      /\ task.recovery_attempts \in Nat
  BY DEF ActionInv, TypeOK
<1>1. /\ attempt'[a].charged = charged /\ attempt'[a].state = "ARMED"
      /\ \A b \in Attempt : b # a => attempt'[b] = attempt[b]
  BY <1>0 DEF Arm
<1>2. a \notin Charged
  BY DEF Arm, BudgetInv
<1>3. CASE charged
  <2>1. Charged' = Charged \cup {a}
    BY <1>1, <1>3 DEF Charged
  <2>2. IsFiniteSet(Charged') /\ Cardinality(Charged') = Cardinality(Charged) + 1
    BY <1>2, <2>1, FS_AddElement DEF BudgetInv
  <2>3. /\ task'.recovery_attempts = task.recovery_attempts + 1
        /\ task.recovery_attempts < MaxRecoveryAttempts
    BY <1>3 DEF Arm, ArmOk, ActionInv, TypeOK
  <2>4. \A b \in Attempt : attempt'[b].state = "absent" => b \notin Charged'
    BY <1>1, <2>1 DEF BudgetInv
  <2> QED
    BY <1>0, <2>2, <2>3, <2>4, ActionAssumption DEF BudgetInv
<1>4. CASE ~charged
  <2>1. Charged' = Charged
    BY <1>1, <1>2, <1>4 DEF Charged
  <2>2. task' = task
    BY <1>4 DEF Arm
  <2> QED
    BY <1>1, <2>1, <2>2 DEF BudgetInv
<1> QED
  BY <1>3, <1>4

LEMMA ReplaceChargesNothing ==
    ASSUME ActionInv, BudgetInv, NEW a \in Attempt, NEW s \in State, Replace(a, s),
           task' = task
    PROVE  BudgetInv'
<1>1. attempt \in [Attempt -> [state : State \cup {"absent"}, worker_id : Worker \cup {None},
                               charged : BOOLEAN]]
  BY DEF ActionInv, TypeOK
<1>2. attempt' = [attempt EXCEPT ![a].state = s] /\ s # "absent"
  BY DEF Replace, State
<1>3. \A b \in Attempt : /\ attempt'[b].charged = attempt[b].charged
                         /\ attempt'[b].state = "absent" => attempt[b].state = "absent"
  BY <1>1, <1>2
<1> QED
  BY <1>3, NothingCharged

LEMMA NextBudget == ActionInv /\ BudgetInv /\ [Next]_vars => BudgetInv'
<1> SUFFICES ASSUME ActionInv, BudgetInv, [Next]_vars PROVE BudgetInv'
  OBVIOUS
<1>1. CASE attempt' = attempt /\ task'.recovery_attempts = task.recovery_attempts
  BY <1>1, NothingCharged
<1>2. ASSUME NEW e \in Executor, ExecNext(e) PROVE BudgetInv'
  <2>1. CASE MarkWrite(e)
    <3>1. /\ exec[e].attempt_id \in Attempt /\ exec[e].result \in State
          /\ task' = task
      BY <2>1 DEF MarkWrite, ActionInv, ExecWellFormed, State
    <3>2. CASE Replace(exec[e].attempt_id, exec[e].result)
      BY <3>1, <3>2, ReplaceChargesNothing
    <3>3. CASE attempt' = attempt
      BY <1>1, <3>1, <3>3
    <3> QED
      BY <2>1, <3>2, <3>3 DEF MarkWrite
  <2>2. CASE \E a \in Attempt, charged \in BOOLEAN : Arm(e, a, charged)
    BY <2>2, ArmCharges
  <2>3. CASE UNCHANGED <<attempt, task>>
    BY <1>1, <2>3
  <2> QED
    BY <1>2, <2>1, <2>2, <2>3 DEF ExecNext, Check, Submit, TransportProvesNothingSent,
       TransportDisabled, MarkRead, CrashExecutor, TransportUncertain, ArmRefused
<1>3. ASSUME NEW c \in Clerk, ClerkNext(c) PROVE BudgetInv'
  <2>1. CASE AcknowledgeWrite(c) \/ SignatureWrite(c) \/ CancelWrite(c)
    <3>1. clerk[c].attempt_id \in Attempt /\ task' = task
      BY <2>1 DEF AcknowledgeWrite, SignatureWrite, CancelWrite, ActionInv, ClerkWellFormed
    <3>2. \E s \in State : Replace(clerk[c].attempt_id, s)
      BY <2>1 DEF AcknowledgeWrite, SignatureWrite, CancelWrite, State
    <3> QED
      BY <3>1, <3>2, ReplaceChargesNothing
  <2>2. CASE UNCHANGED <<attempt, task>>
    BY <1>1, <2>2
  <2> QED
    BY <1>3, <2>1, <2>2 DEF ClerkNext, Acknowledge, SignatureRead, ClerkStops, ReconcileRead,
       CancelRead
<1>4. CASE (\E w \in Worker \cup {None} : MoveAuthority(w)) \/ CompleteTask
  <2>1. attempt' = attempt /\ task'.recovery_attempts = task.recovery_attempts
    BY <1>4 DEF MoveAuthority, CompleteTask, ActionInv, TypeOK
  <2> QED
    BY <1>1, <2>1
<1>5. CASE (\E a \in Attempt : Deliver(a)) \/ UNCHANGED vars
  BY <1>1, <1>5 DEF Deliver, vars
<1> QED
  BY <1>2, <1>3, <1>4, <1>5 DEF Next

\* A task never delivers more fault-recovery messages than max_recovery_attempts.
THEOREM BudgetHolds == Spec => []RecoverySendsWithinBudget
<1>1. ActionInv /\ BudgetInv => RecoverySendsWithinBudget
  <2> SUFFICES ASSUME ActionInv, BudgetInv PROVE RecoverySendsWithinBudget
    OBVIOUS
  <2> DEFINE Sent == {a \in delivered : attempt[a].charged}
  <2>1. Sent \subseteq Charged
    BY DEF ActionInv, TypeOK, Charged
  <2>2. IsFiniteSet(Charged)
    BY DEF BudgetInv
  <2>3. Cardinality(Sent) <= Cardinality(Charged) /\ IsFiniteSet(Sent)
    BY <2>1, <2>2, FS_Subset
  <2>4. Cardinality(Sent) \in Nat /\ Cardinality(Charged) \in Nat
    BY <2>2, <2>3, FS_CardinalityType
  <2> QED
    BY <2>3, <2>4, ActionAssumption DEF BudgetInv, RecoverySendsWithinBudget
<1>2. ActionInv /\ BudgetInv /\ [Next]_vars => BudgetInv'
  BY NextBudget
<1> QED
  BY <1>1, <1>2, InitBudget, ActionInvariant, PTL DEF Spec
=============================================================================
