---------------------------- MODULE WatchdogLease ----------------------------
(***************************************************************************)
(* The singleton lease of the resident watchdog: the watchdog_leases row   *)
(* of src/lws/registry.py, the `lws watch` loop of src/lws/cli.py that     *)
(* renews it, and the watchdog-start, -stop and -restart commands of       *)
(* src/lws/watchdog_host.py.                                               *)
(*                                                                         *)
(* A host is one `lws watch` process: its pid and its random lease-owner   *)
(* token are the same model value.  A command is one watchdog-* CLI        *)
(* process, and also stands for the stop:<uuid> token it may write.  Time  *)
(* only matters as the part of the lease that is left, expires_at - now,   *)
(* which Tick counts down.                                                 *)
(***************************************************************************)
EXTENDS Naturals

CONSTANTS
    Host,      \* `lws watch` processes
    Command,   \* watchdog-start / -stop / -restart processes
    None,
    Ttl,       \* lease_ttl of the watch loop
    Grace      \* grace_s of a stop request

ASSUME WatchdogAssumption ==
    /\ Host \cap Command = {}
    /\ None \notin Host \cup Command
    /\ Ttl \in Nat \ {0} /\ Grace \in Nat \ {0}

Lease == [owner : Host \cup Command, pid : Host, left : Nat]

\* Python's None is not a row.
ASSUME NoneIsNoLease == None \notin Lease

VARIABLES
    lease,   \* the watchdog_leases row named "default", or None
    host,    \* where each `lws watch` process is
    cmd,     \* where each command is, and the pid it fenced or the host it launched
    late     \* history: control steps a host took after losing the lease, up to 2

vars == <<lease, host, cmd, late>>

HostStep == {"absent", "starting", "resident", "acting", "gone"}
CmdStep == {"idle", "waiting", "stopped", "not_stopped", "launching", "ready", "not_ready"}

TypeOK ==
    /\ lease \in Lease \cup {None}
    /\ host \in [Host -> HostStep]
    /\ cmd \in [Command -> [step : CmdStep, pid : Host \cup {None},
                            token : Command \cup {None}, launched : Host \cup {None}]]
    /\ late \in [Host -> 0 .. 2]

Init ==
    /\ lease = None
    /\ host = [h \in Host |-> "absent"]
    /\ cmd = [q \in Command |-> [step |-> "idle", pid |-> None, token |-> None,
                                 launched |-> None]]
    /\ late = [h \in Host |-> 0]

\* A plausible bug: a lease blocks whether it has expired or not.
Fresh_NeverExpires == lease # None

Fresh == lease # None /\ lease.left > 0

Owns(h) == lease # None /\ lease.owner = h

Alive(h) == host[h] \in {"starting", "resident", "acting"}

-----------------------------------------------------------------------------
(***************************************************************************)
(* The `lws watch` process.                                                *)
(***************************************************************************)
StartWatch(h) ==
    /\ host[h] = "absent"
    /\ host' = [host EXCEPT ![h] = "starting"]
    /\ UNCHANGED <<lease, cmd, late>>

\* acquire_watchdog_lease: refused (exit code 4) while somebody else's lease is fresh.
Acquire(h) ==
    /\ host[h] = "starting"
    /\ IF Fresh
       THEN /\ host' = [host EXCEPT ![h] = "gone"]
            /\ UNCHANGED lease
       ELSE /\ host' = [host EXCEPT ![h] = "resident"]
            /\ lease' = [owner |-> h, pid |-> h, left |-> Ttl]
    /\ UNCHANGED <<cmd, late>>

\* A plausible bug: the renewal is an upsert, so a fenced watchdog takes the lease back.
Keepalive_Upsert(h) ==
    /\ host[h] = "resident"
    /\ host' = [host EXCEPT ![h] = "acting"]
    /\ lease' = [owner |-> h, pid |-> h, left |-> Ttl]
    /\ UNCHANGED <<cmd, late>>

\* A plausible bug: a failed renewal is not noticed.
Keepalive_ResultIgnored(h) ==
    /\ host[h] = "resident"
    /\ host' = [host EXCEPT ![h] = "acting"]
    /\ lease' = IF Owns(h) THEN [lease EXCEPT !.left = Ttl] ELSE lease
    /\ UNCHANGED <<cmd, late>>

\* _keepalive: heartbeat_watchdog_lease updates the row of this owner, expired or not; no such
\* row raises WatchdogLeaseLost and the loop ends (the release in `finally` finds no row).
Keepalive(h) ==
    /\ host[h] = "resident"
    /\ IF Owns(h)
       THEN /\ host' = [host EXCEPT ![h] = "acting"]
            /\ lease' = [lease EXCEPT !.left = Ttl]
       ELSE /\ host' = [host EXCEPT ![h] = "gone"]
            /\ UNCHANGED lease
    /\ UNCHANGED <<cmd, late>>

\* Scanning one task, a recovery cycle or the sleep: what happens between two keepalives.
Act(h) ==
    /\ host[h] = "acting"
    /\ host' = [host EXCEPT ![h] = "resident"]
    /\ late' = [late EXCEPT ![h] = IF Owns(h) \/ @ = 2 THEN @ ELSE @ + 1]
    /\ UNCHANGED <<lease, cmd>>

\* KeyboardInterrupt or an exception that ends the loop: `finally` releases the lease if it is
\* still this owner's (release_watchdog_lease).
Exit(h) ==
    /\ host[h] \in {"resident", "acting"}
    /\ host' = [host EXCEPT ![h] = "gone"]
    /\ lease' = IF Owns(h) THEN None ELSE lease
    /\ UNCHANGED <<cmd, late>>

\* The process is killed: nothing is released.
Crash(h) ==
    /\ Alive(h)
    /\ host' = [host EXCEPT ![h] = "gone"]
    /\ UNCHANGED <<lease, cmd, late>>

-----------------------------------------------------------------------------
(***************************************************************************)
(* The commands.                                                           *)
(***************************************************************************)
\* request_watchdog_stop and the start of stop_watchdog_host: nothing to stop, somebody else's
\* fresh fence to wait behind, or a new fence over the recorded pid.
RequestStop(q) ==
    /\ cmd[q].step = "idle"
    /\ \/ /\ lease = None
          /\ cmd' = [cmd EXCEPT ![q].step = "stopped"]
          /\ UNCHANGED lease
       \/ /\ Fresh /\ lease.owner \in Command
          /\ cmd' = [cmd EXCEPT ![q].step = "waiting", ![q].pid = lease.pid,
                                ![q].token = lease.owner]
          /\ UNCHANGED lease
       \/ /\ lease # None /\ ~(Fresh /\ lease.owner \in Command)
          /\ cmd' = [cmd EXCEPT ![q].step = "waiting", ![q].pid = lease.pid, ![q].token = q]
          /\ lease' = [lease EXCEPT !.owner = q, !.left = Grace]
    /\ UNCHANGED <<host, late>>

\* A plausible bug: the fence is cleared when the wait is over, without looking at the pid.
SeeExit_PidIgnored(q) ==
    /\ cmd[q].step = "waiting"
    /\ cmd' = [cmd EXCEPT ![q].step = "stopped"]
    /\ lease' = IF lease # None /\ lease.owner = cmd[q].token THEN None ELSE lease
    /\ UNCHANGED <<host, late>>

\* The recorded pid is seen gone: clear_watchdog_stop deletes exactly the fence waited for.
SeeExit(q) ==
    /\ cmd[q].step = "waiting"
    /\ ~Alive(cmd[q].pid)
    /\ cmd' = [cmd EXCEPT ![q].step = "stopped"]
    /\ lease' = IF lease # None /\ lease.owner = cmd[q].token THEN None ELSE lease
    /\ UNCHANGED <<host, late>>

\* wait_s is over and the pid still exists.
StopTimeout(q) ==
    /\ cmd[q].step = "waiting"
    /\ Alive(cmd[q].pid)
    /\ cmd' = [cmd EXCEPT ![q].step = "not_stopped"]
    /\ UNCHANGED <<lease, host, late>>

\* launch_detached_watchdog, by watchdog-start or by watchdog-restart after its stop: refused
\* while inspect_watchdog_host reports a fresh lease.
Launch(q, h) ==
    /\ cmd[q].step \in {"idle", "stopped"}
    /\ ~Fresh
    /\ host[h] = "absent"
    /\ host' = [host EXCEPT ![h] = "starting"]
    /\ cmd' = [cmd EXCEPT ![q].step = "launching", ![q].launched = h]
    /\ UNCHANGED <<lease, late>>

\* The launcher polls for its owner token until the child exits or ready_timeout_s is over.
SeeLaunch(q) ==
    /\ cmd[q].step = "launching"
    /\ cmd' = [cmd EXCEPT ![q].step = IF Owns(cmd[q].launched) THEN "ready" ELSE "not_ready"]
    /\ UNCHANGED <<lease, host, late>>

-----------------------------------------------------------------------------
Tick ==
    /\ lease # None /\ lease.left > 0
    /\ lease' = [lease EXCEPT !.left = @ - 1]
    /\ UNCHANGED <<host, cmd, late>>

HostNext(h) == StartWatch(h) \/ Acquire(h) \/ Keepalive(h) \/ Act(h) \/ Exit(h) \/ Crash(h)
CmdNext(q) ==
    \/ RequestStop(q)
    \/ SeeExit(q)
    \/ StopTimeout(q)
    \/ SeeLaunch(q)
    \/ \E h \in Host : Launch(q, h)

Next ==
    \/ \E h \in Host : HostNext(h)
    \/ \E q \in Command : CmdNext(q)
    \/ Tick

Spec == Init /\ [][Next]_vars

\* A live watch loop keeps going and time passes; nobody has to start, stop or crash anything.
FairSpec ==
    /\ Spec
    /\ \A h \in Host : WF_vars(Acquire(h)) /\ WF_vars(Keepalive(h)) /\ WF_vars(Act(h))
    /\ WF_vars(Tick)

-----------------------------------------------------------------------------
(***************************************************************************)
(* Properties.                                                             *)
(***************************************************************************)
\* "If a running watchdog loses ownership it exits rather than risk duplicate future
\* control-plane actions": whatever replaced it, a host takes at most the one control step it
\* had already been cleared for by its last keepalive.
LateActsBounded == \A h \in Host : late[h] <= 1

\* A watchdog that has lost the singleton lease, by expiry and replacement or by a stop fence,
\* never owns it again.
FencedStaysFenced ==
    [][\A h \in Host : host[h] \in {"resident", "acting"} /\ ~Owns(h) => ~Owns(h)']_vars

\* A stop fence is only ever removed once the pid it fenced has exited, also when two stop
\* commands share one fence or a replacement has acquired the lease in the meantime.
FenceClearedAfterExit ==
    [][lease # None /\ lease.owner \in Command /\ lease' = None => ~Alive(lease.pid)]_vars

\* A stop request makes the fenced watchdog exit: it fails its next heartbeat.
StopLeadsToExit ==
    \A h \in Host :
        lease # None /\ lease.owner \in Command /\ lease.pid = h ~> ~Alive(h)

\* A lease left behind by a crashed watchdog, or a fence left behind by a stop command, does not
\* block a new watchdog for ever.
AbandonedLeaseFrees ==
    lease # None /\ (lease.owner \in Host => ~Alive(lease.owner))
        ~> ~Fresh \/ (lease.owner \in Host /\ Alive(lease.owner))
=============================================================================
