------------------------ MODULE WatchdogLeaseProofs ------------------------
(***************************************************************************)
(* Theorems about WatchdogLease, for any number of watch processes and     *)
(* commands and any lease and grace periods.                               *)
(*                                                                         *)
(* LateActsBounded needs to know that a host that has already taken its    *)
(* late step is neither cleared for another nor the owner (HostInv), and   *)
(* FenceClearedAfterExit that a stop token found in the row still belongs  *)
(* to the pid its command is waiting for (FenceInv).                       *)
(***************************************************************************)
EXTENDS WatchdogLease, TLAPS

\* A host owns nothing before it has acquired the lease, and one that has taken a late step does
\* not own the lease and has not been cleared again.
HostInv ==
    \A h \in Host :
        /\ host[h] \in {"absent", "starting"} => late[h] = 0 /\ ~Owns(h)
        /\ late[h] <= 1
        /\ late[h] = 1 => host[h] # "acting" /\ ~Owns(h)

\* A stop token is in use only after its command has asked, and a fence a command waits for
\* still covers the pid it recorded.
FenceInv ==
    /\ lease # None /\ lease.owner \in Command => cmd[lease.owner].step # "idle"
    /\ \A q \in Command :
          /\ cmd[q].token # None => cmd[cmd[q].token].step # "idle"
          /\ cmd[q].step = "waiting" =>
               /\ cmd[q].pid \in Host /\ cmd[q].token \in Command
               /\ lease # None /\ lease.owner = cmd[q].token => lease.pid = cmd[q].pid

WatchdogInv == TypeOK /\ HostInv /\ FenceInv

-----------------------------------------------------------------------------
\* A lease row is not None.
LEMMA LeaseIsNotNone ==
    ASSUME TypeOK, lease # None
    PROVE  /\ lease \in Lease /\ lease.owner \in Host \cup Command /\ lease.pid \in Host
           /\ lease.left \in Nat
BY DEF TypeOK, Lease

\* One watch-loop step preserves the invariant.
LEMMA HostStepLemma ==
    ASSUME WatchdogInv, NEW h \in Host, HostNext(h)
    PROVE  WatchdogInv'
<1> USE WatchdogAssumption
<1>1. TypeOK /\ HostInv /\ FenceInv
  BY DEF WatchdogInv
<1>2. host \in [Host -> HostStep] /\ late \in [Host -> 0 .. 2] /\ lease \in Lease \cup {None}
  BY <1>1 DEF TypeOK
<1>3. CASE StartWatch(h)
  <2>1. /\ host' = [host EXCEPT ![h] = "starting"] /\ lease' = lease /\ cmd' = cmd
        /\ late' = late /\ host[h] = "absent"
    BY <1>3 DEF StartWatch
  <2>2. TypeOK'
    BY <1>1, <2>1 DEF TypeOK, HostStep
  <2>3. HostInv'
    BY <1>1, <1>2, <2>1 DEF HostInv, Owns
  <2> QED BY <1>1, <2>1, <2>2, <2>3 DEF WatchdogInv, FenceInv
<1>4. CASE Acquire(h)
  <2>1. host[h] = "starting" /\ cmd' = cmd /\ late' = late
    BY <1>4 DEF Acquire
  <2>2. CASE Fresh
    <3>1. host' = [host EXCEPT ![h] = "gone"] /\ lease' = lease
      BY <1>4, <2>2 DEF Acquire
    <3>2. TypeOK'
      BY <1>1, <2>1, <3>1 DEF TypeOK, HostStep
    <3>3. HostInv'
      BY <1>1, <1>2, <2>1, <3>1 DEF HostInv, Owns
    <3> QED BY <1>1, <2>1, <3>1, <3>2, <3>3 DEF WatchdogInv, FenceInv
  <2>3. CASE ~Fresh
    <3>1. host' = [host EXCEPT ![h] = "resident"] /\ lease' = [owner |-> h, pid |-> h, left |-> Ttl]
      BY <1>4, <2>3 DEF Acquire
    <3>2. TypeOK'
      BY <1>1, <2>1, <3>1 DEF TypeOK, HostStep, Lease
    <3>3. HostInv'
      BY <1>1, <1>2, <2>1, <3>1 DEF HostInv, Owns
    <3>4. FenceInv'
      BY <1>1, <2>1, <3>1 DEF FenceInv, TypeOK
    <3> QED BY <3>2, <3>3, <3>4 DEF WatchdogInv
  <2> QED BY <2>2, <2>3
<1>5. CASE Keepalive(h)
  <2>1. host[h] = "resident" /\ cmd' = cmd /\ late' = late
    BY <1>5 DEF Keepalive
  <2>2. CASE Owns(h)
    <3>1. host' = [host EXCEPT ![h] = "acting"] /\ lease' = [lease EXCEPT !.left = Ttl]
      BY <1>5, <2>2 DEF Keepalive
    <3>2. lease \in Lease /\ lease # None
      BY <1>2, <2>2 DEF Owns
    <3>3. lease' \in Lease /\ lease'.owner = lease.owner /\ lease'.pid = lease.pid
      BY <3>1, <3>2 DEF Lease
    <3>4. TypeOK'
      BY <1>1, <2>1, <3>1, <3>3 DEF TypeOK, HostStep
    <3>5. HostInv'
      BY <1>1, <1>2, <2>1, <2>2, <3>1, <3>2, <3>3 DEF HostInv, Owns
    <3>6. FenceInv'
      BY <1>1, <2>1, <3>2, <3>3 DEF FenceInv
    <3> QED BY <3>4, <3>5, <3>6 DEF WatchdogInv
  <2>3. CASE ~Owns(h)
    <3>1. host' = [host EXCEPT ![h] = "gone"] /\ lease' = lease
      BY <1>5, <2>3 DEF Keepalive
    <3>2. TypeOK'
      BY <1>1, <2>1, <3>1 DEF TypeOK, HostStep
    <3>3. HostInv'
      BY <1>1, <1>2, <2>1, <3>1 DEF HostInv, Owns
    <3> QED BY <1>1, <2>1, <3>1, <3>2, <3>3 DEF WatchdogInv, FenceInv
  <2> QED BY <2>2, <2>3
<1>6. CASE Act(h)
  <2> DEFINE n == IF Owns(h) \/ late[h] = 2 THEN late[h] ELSE late[h] + 1
  <2>1. /\ host' = [host EXCEPT ![h] = "resident"] /\ lease' = lease /\ cmd' = cmd
        /\ late' = [late EXCEPT ![h] = n] /\ host[h] = "acting"
    BY <1>6 DEF Act
  <2>2. late[h] = 0
    BY <1>1, <1>2, <2>1 DEF HostInv
  <2>3. n \in 0 .. 1 /\ (n = 1 => ~Owns(h))
    BY <2>2
  <2> HIDE DEF n
  <2>4. TypeOK'
    BY <1>1, <2>1, <2>3 DEF TypeOK, HostStep
  <2>5. HostInv'
    BY <1>1, <1>2, <2>1, <2>3 DEF HostInv, Owns
  <2> QED BY <1>1, <2>1, <2>4, <2>5 DEF WatchdogInv, FenceInv
<1>7. CASE Exit(h)
  <2>1. /\ host' = [host EXCEPT ![h] = "gone"] /\ cmd' = cmd /\ late' = late
        /\ lease' = IF Owns(h) THEN None ELSE lease
        /\ host[h] \in {"resident", "acting"}
    BY <1>7 DEF Exit
  <2>2. TypeOK'
    BY <1>1, <2>1 DEF TypeOK, HostStep
  <2>3. HostInv'
    BY <1>1, <1>2, <2>1 DEF HostInv, Owns
  <2>4. FenceInv'
    BY <1>1, <2>1 DEF FenceInv
  <2> QED BY <2>2, <2>3, <2>4 DEF WatchdogInv
<1>8. CASE Crash(h)
  <2>1. /\ host' = [host EXCEPT ![h] = "gone"] /\ lease' = lease /\ cmd' = cmd /\ late' = late
    BY <1>8 DEF Crash
  <2>2. TypeOK'
    BY <1>1, <2>1 DEF TypeOK, HostStep
  <2>3. HostInv'
    BY <1>1, <1>2, <2>1 DEF HostInv, Owns
  <2> QED BY <1>1, <2>1, <2>2, <2>3 DEF WatchdogInv, FenceInv
<1> QED BY <1>3, <1>4, <1>5, <1>6, <1>7, <1>8 DEF HostNext

\* One step of a command preserves the invariant.
LEMMA CommandStepLemma ==
    ASSUME WatchdogInv, NEW q \in Command, CmdNext(q)
    PROVE  WatchdogInv'
<1> USE WatchdogAssumption
<1>1. TypeOK /\ HostInv /\ FenceInv
  BY DEF WatchdogInv
<1> DEFINE Rec == [step : CmdStep, pid : Host \cup {None}, token : Command \cup {None},
                   launched : Host \cup {None}]
<1>2. host \in [Host -> HostStep] /\ cmd \in [Command -> Rec] /\ lease \in Lease \cup {None}
  BY <1>1 DEF TypeOK
<1>3. ASSUME NEW r \in Rec, cmd' = [cmd EXCEPT ![q] = r], late' = late,
             lease' \in Lease \cup {None}, lease' \in {lease, None} \/ lease'.owner = q,
             host' = host \/ \E h \in Host : /\ host[h] = "absent"
                                            /\ host' = [host EXCEPT ![h] = "starting"]
      PROVE  TypeOK' /\ HostInv'
  <2>1. host' \in [Host -> HostStep]
    BY <1>2, <1>3 DEF HostStep
  <2>2. TypeOK'
    BY <1>1, <1>2, <1>3, <2>1 DEF TypeOK
  <2>3. ASSUME NEW h \in Host
        PROVE  /\ host'[h] = host[h] \/ (host[h] = "absent" /\ host'[h] = "starting")
               /\ Owns(h)' => Owns(h)
    <3>1. host'[h] = host[h] \/ (host[h] = "absent" /\ host'[h] = "starting")
      <4>1. CASE host' = host
        BY <4>1
      <4>2. ASSUME NEW x \in Host, host[x] = "absent", host' = [host EXCEPT ![x] = "starting"]
            PROVE  host'[h] = host[h] \/ (host[h] = "absent" /\ host'[h] = "starting")
        <5>1. host'[h] = IF h = x THEN "starting" ELSE host[h]
          BY <1>2, <4>2
        <5> QED BY <4>2, <5>1
      <4> QED BY <1>3, <4>1, <4>2
    <3>2. Owns(h)' => Owns(h)
      BY <1>3 DEF Owns
    <3> QED BY <3>1, <3>2
  <2>4. HostInv'
    BY <1>1, <1>3, <2>3 DEF HostInv
  <2> QED BY <2>2, <2>4
<1>4. ASSUME NEW r \in Rec, r.step # "idle", cmd' = [cmd EXCEPT ![q] = r],
             r.token # None => r.token = q \/ cmd[r.token].step # "idle",
             r.step = "waiting" =>
               /\ r.pid \in Host /\ r.token \in Command
               /\ lease' # None /\ lease'.owner = r.token => lease'.pid = r.pid,
             \/ lease' = lease
             \/ lease' = None
             \/ lease'.owner = q /\ cmd[q].step = "idle"
      PROVE  FenceInv'
  <2>1. \A x \in Command : cmd[x].step # "idle" => cmd'[x].step # "idle"
    BY <1>2, <1>4
  <2>2. cmd'[q] = r /\ \A x \in Command : x # q => cmd'[x] = cmd[x]
    BY <1>2, <1>4
  <2>3. lease' # None /\ lease'.owner \in Command => cmd'[lease'.owner].step # "idle"
    BY <1>1, <1>4, <2>1, <2>2 DEF FenceInv
  <2>4. ASSUME NEW x \in Command
        PROVE  cmd'[x].token # None => cmd'[cmd'[x].token].step # "idle"
    <3>1. CASE x = q
      <4>1. r.token \in Command \cup {None}
        OBVIOUS
      <4> QED BY <1>4, <2>1, <2>2, <3>1, <4>1
    <3>2. CASE x # q
      <4>1. cmd[x].token \in Command \cup {None}
        BY <1>2
      <4> QED BY <1>1, <2>1, <2>2, <3>2, <4>1 DEF FenceInv
    <3> QED BY <3>1, <3>2
  <2>5. ASSUME NEW x \in Command, cmd'[x].step = "waiting"
        PROVE  /\ cmd'[x].pid \in Host /\ cmd'[x].token \in Command
               /\ lease' # None /\ lease'.owner = cmd'[x].token => lease'.pid = cmd'[x].pid
    <3>1. CASE x = q
      BY <1>4, <2>2, <2>5, <3>1
    <3>2. CASE x # q
      <4>1. /\ cmd[x].pid \in Host /\ cmd[x].token \in Command
            /\ lease # None /\ lease.owner = cmd[x].token => lease.pid = cmd[x].pid
            /\ cmd[cmd[x].token].step # "idle"
        BY <1>1, <2>2, <2>5, <3>2 DEF FenceInv
      <4> QED BY <1>4, <2>2, <3>2, <4>1
    <3> QED BY <3>1, <3>2
  <2> QED BY <2>3, <2>4, <2>5 DEF FenceInv
<1>5. CASE RequestStop(q)
  <2>1. cmd[q].step = "idle" /\ host' = host /\ late' = late /\ cmd[q] \in Rec
    BY <1>2, <1>5 DEF RequestStop
  <2>2. CASE lease = None /\ lease' = lease /\ cmd' = [cmd EXCEPT ![q].step = "stopped"]
    <3> DEFINE r == [cmd[q] EXCEPT !.step = "stopped"]
    <3>1. r \in Rec /\ r.step = "stopped" /\ r.token = cmd[q].token
      BY <2>1 DEF CmdStep
    <3>2. cmd' = [cmd EXCEPT ![q] = r]
      BY <1>2, <2>2
    <3> HIDE DEF r
    <3>3. r.token # None => cmd[r.token].step # "idle"
      BY <1>1, <3>1 DEF FenceInv
    <3>4. TypeOK' /\ HostInv'
      BY <1>2, <2>1, <2>2, <1>3, <3>1, <3>2
    <3>5. FenceInv'
      BY <1>4, <2>2, <3>1, <3>2, <3>3
    <3> QED BY <3>4, <3>5 DEF WatchdogInv
  <2>3. CASE /\ Fresh /\ lease.owner \in Command /\ lease' = lease
             /\ cmd' = [cmd EXCEPT ![q].step = "waiting", ![q].pid = lease.pid,
                                   ![q].token = lease.owner]
    <3> DEFINE r == [cmd[q] EXCEPT !.step = "waiting", !.pid = lease.pid,
                                   !.token = lease.owner]
    <3>1. lease # None /\ lease.pid \in Host
      BY <1>1, <2>3, LeaseIsNotNone DEF Fresh
    <3>2. r \in Rec
      BY <2>1, <2>3, <3>1 DEF CmdStep
    <3>3. cmd' = [cmd EXCEPT ![q] = r]
      BY <1>2, <2>1, <2>3
    <3>4. r.step = "waiting" /\ r.pid = lease.pid /\ r.token = lease.owner
      BY <2>1
    <3> HIDE DEF r
    <3>5. cmd[r.token].step # "idle"
      BY <1>1, <2>3, <3>1, <3>4 DEF FenceInv
    <3>6. TypeOK' /\ HostInv'
      BY <1>2, <2>1, <2>3, <1>3, <3>2, <3>3, <3>4
    <3>7. FenceInv'
      BY <1>4, <2>3, <3>1, <3>2, <3>3, <3>4, <3>5
    <3> QED BY <3>6, <3>7 DEF WatchdogInv
  <2>4. CASE /\ lease # None
             /\ cmd' = [cmd EXCEPT ![q].step = "waiting", ![q].pid = lease.pid, ![q].token = q]
             /\ lease' = [lease EXCEPT !.owner = q, !.left = Grace]
    <3> DEFINE r == [cmd[q] EXCEPT !.step = "waiting", !.pid = lease.pid, !.token = q]
    <3>1. lease \in Lease /\ lease.pid \in Host
      BY <1>1, <2>4, LeaseIsNotNone
    <3>2. r \in Rec
      BY <2>1, <3>1 DEF CmdStep
    <3>3. cmd' = [cmd EXCEPT ![q] = r]
      BY <1>2, <2>1, <2>4
    <3>4. r.step = "waiting" /\ r.pid = lease.pid /\ r.token = q
      BY <2>1
    <3>5. lease' \in Lease /\ lease'.owner = q /\ lease'.pid = lease.pid
      BY <2>4, <3>1 DEF Lease
    <3> HIDE DEF r
    <3>6. TypeOK' /\ HostInv'
      BY <1>2, <2>1, <3>5, <1>3, <3>2, <3>3, <3>4
    <3>7. FenceInv'
      BY <1>4, <2>1, <3>1, <3>2, <3>3, <3>4, <3>5
    <3> QED BY <3>6, <3>7 DEF WatchdogInv
  <2> QED BY <1>5, <2>2, <2>3, <2>4 DEF RequestStop
<1>6. ASSUME NEW st \in CmdStep \ {"idle", "waiting"}, cmd' = [cmd EXCEPT ![q].step = st],
             lease' = lease \/ lease' = None, host' = host, late' = late
      PROVE  WatchdogInv'
  <2> DEFINE r == [cmd[q] EXCEPT !.step = st]
  <2>1. r \in Rec /\ r.step = st /\ r.token = cmd[q].token
    BY <1>2
  <2>2. cmd' = [cmd EXCEPT ![q] = r]
    BY <1>2, <1>6
  <2> HIDE DEF r
  <2>3. r.token # None => cmd[r.token].step # "idle"
    BY <1>1, <2>1 DEF FenceInv
  <2>4. TypeOK' /\ HostInv'
    BY <1>2, <1>3, <1>6, <2>1, <2>2
  <2>5. FenceInv'
    BY <1>4, <1>6, <2>1, <2>2, <2>3
  <2> QED BY <2>4, <2>5 DEF WatchdogInv
<1>7. CASE SeeExit(q)
  BY <1>6, <1>7 DEF SeeExit, CmdStep
<1>8. CASE StopTimeout(q)
  BY <1>6, <1>8 DEF StopTimeout, CmdStep
<1>9. CASE SeeLaunch(q)
  <2>1. CASE Owns(cmd[q].launched)
    BY <1>6, <1>9, <2>1 DEF SeeLaunch, CmdStep
  <2>2. CASE ~Owns(cmd[q].launched)
    BY <1>6, <1>9, <2>2 DEF SeeLaunch, CmdStep
  <2> QED BY <2>1, <2>2
<1>10. ASSUME NEW h \in Host, Launch(q, h)
       PROVE  WatchdogInv'
  <2> DEFINE r == [cmd[q] EXCEPT !.step = "launching", !.launched = h]
  <2>1. r \in Rec /\ r.step = "launching" /\ r.token = cmd[q].token
    BY <1>2 DEF CmdStep
  <2>2. /\ cmd' = [cmd EXCEPT ![q] = r] /\ lease' = lease /\ late' = late
        /\ host' = [host EXCEPT ![h] = "starting"] /\ host[h] = "absent"
    BY <1>2, <1>10 DEF Launch
  <2> HIDE DEF r
  <2>3. r.token # None => cmd[r.token].step # "idle"
    BY <1>1, <2>1 DEF FenceInv
  <2>4. TypeOK' /\ HostInv'
    BY <1>2, <1>3, <2>1, <2>2
  <2>5. FenceInv'
    BY <1>4, <2>1, <2>2, <2>3
  <2> QED BY <2>4, <2>5 DEF WatchdogInv
<1> QED BY <1>5, <1>7, <1>8, <1>9, <1>10 DEF CmdNext

\* The invariant holds throughout.
THEOREM WatchdogInvariant == Spec => []WatchdogInv
<1> USE WatchdogAssumption
<1>1. Init => WatchdogInv
  BY DEF Init, WatchdogInv, TypeOK, HostInv, FenceInv, Owns, HostStep, CmdStep
<1>2. WatchdogInv /\ [Next]_vars => WatchdogInv'
  <2> SUFFICES ASSUME WatchdogInv, [Next]_vars PROVE WatchdogInv'
    OBVIOUS
  <2>1. CASE UNCHANGED vars
    BY <2>1 DEF vars, WatchdogInv, TypeOK, HostInv, FenceInv, Owns
  <2>2. ASSUME NEW h \in Host, HostNext(h) PROVE WatchdogInv'
    BY <2>2, HostStepLemma
  <2>3. ASSUME NEW q \in Command, CmdNext(q) PROVE WatchdogInv'
    BY <2>3, CommandStepLemma
  <2>4. CASE Tick
    <3>1. TypeOK /\ lease # None /\ lease.left > 0
      BY <2>4 DEF Tick, WatchdogInv
    <3>2. lease \in Lease
      BY <3>1, LeaseIsNotNone
    <3>3. /\ lease' = [lease EXCEPT !.left = lease.left - 1]
          /\ host' = host /\ cmd' = cmd /\ late' = late
      BY <2>4 DEF Tick
    <3>4. lease' \in Lease /\ lease'.owner = lease.owner /\ lease'.pid = lease.pid
      BY <3>1, <3>2, <3>3 DEF Lease
    <3>5. TypeOK'
      BY <3>1, <3>3, <3>4 DEF TypeOK
    <3>6. HostInv' /\ FenceInv'
      BY <3>1, <3>3, <3>4 DEF WatchdogInv, HostInv, FenceInv, Owns
    <3> QED BY <3>5, <3>6 DEF WatchdogInv
  <2> QED BY <2>1, <2>2, <2>3, <2>4 DEF Next
<1> QED BY <1>1, <1>2, PTL DEF Spec

\* A watchdog that has lost its lease takes at most one more control step.
THEOREM AtMostOneLateAct == Spec => []LateActsBounded
<1>1. WatchdogInv => LateActsBounded
  BY DEF WatchdogInv, HostInv, LateActsBounded
<1> QED BY <1>1, WatchdogInvariant, PTL

\* A watchdog that has lost the singleton lease never owns it again.
THEOREM FencedWatchdogsStayFenced == Spec => FencedStaysFenced
<1> USE WatchdogAssumption
<1>1. WatchdogInv /\ [Next]_vars =>
        [\A h \in Host : host[h] \in {"resident", "acting"} /\ ~Owns(h) => ~Owns(h)']_vars
  <2> SUFFICES ASSUME WatchdogInv, Next, NEW h \in Host,
                      host[h] \in {"resident", "acting"}, ~Owns(h)
               PROVE  ~Owns(h)'
    BY DEF vars
  <2>1. ASSUME NEW x \in Host, HostNext(x) PROVE ~Owns(h)'
    <3>1. CASE Acquire(x)
      <4>1. host[x] = "starting" /\ x # h
        BY <3>1 DEF Acquire
      <4> QED BY <3>1, <4>1 DEF Acquire, Owns
    <3>2. CASE Keepalive(x)
      <4>1. CASE Owns(x)
        <5>1. lease \in Lease /\ lease' = [lease EXCEPT !.left = Ttl]
          BY <3>2, <4>1 DEF Keepalive, Owns, WatchdogInv, TypeOK
        <5>2. lease'.owner = lease.owner
          BY <5>1 DEF Lease
        <5> QED BY <4>1, <5>2 DEF Owns
      <4>2. CASE ~Owns(x)
        BY <3>2, <4>2 DEF Keepalive, Owns
      <4> QED BY <4>1, <4>2
    <3> QED BY <2>1, <3>1, <3>2 DEF HostNext, StartWatch, Act, Exit, Crash, Owns
  <2>2. ASSUME NEW q \in Command, CmdNext(q) PROVE ~Owns(h)'
    <3>1. CASE RequestStop(q)
      <4>1. CASE lease' = lease
        BY <4>1 DEF Owns
      <4>2. CASE lease # None /\ lease' = [lease EXCEPT !.owner = q, !.left = Grace]
        <5>1. lease'.owner = q
          BY <4>2 DEF WatchdogInv, TypeOK, Lease
        <5> QED BY <5>1 DEF Owns
      <4> QED BY <3>1, <4>1, <4>2 DEF RequestStop
    <3> QED BY <2>2, <3>1 DEF CmdNext, SeeExit, StopTimeout, SeeLaunch, Launch, Owns
  <2>3. CASE Tick
    <3>1. lease' = [lease EXCEPT !.left = lease.left - 1] /\ lease \in Lease
      BY <2>3 DEF Tick, WatchdogInv, TypeOK
    <3>2. lease'.owner = lease.owner
      BY <3>1 DEF Lease
    <3> QED BY <2>3, <3>2 DEF Owns, Tick
  <2> QED BY <2>1, <2>2, <2>3 DEF Next
<1> QED BY <1>1, WatchdogInvariant, PTL DEF Spec, FencedStaysFenced

\* A stop fence disappears only after the process it fenced has.
THEOREM FenceOutlivesHost == Spec => FenceClearedAfterExit
<1> USE WatchdogAssumption
<1>1. WatchdogInv /\ [Next]_vars =>
        [lease # None /\ lease.owner \in Command /\ lease' = None => ~Alive(lease.pid)]_vars
  <2> SUFFICES ASSUME WatchdogInv, Next, lease # None, lease.owner \in Command, lease' = None
               PROVE  ~Alive(lease.pid)
    BY DEF vars
  <2>1. lease \in Lease
    BY DEF WatchdogInv, TypeOK
  <2>2. \A h \in Host : ~Owns(h)
    BY DEF Owns
  <2>3. ASSUME NEW l \in Lease PROVE l # None
    BY NoneIsNoLease
  <2>4. ~Tick
    <3>1. [lease EXCEPT !.left = lease.left - 1] \in Lease \/ ~(lease.left > 0)
      BY <2>1 DEF Lease
    <3> QED BY <2>3, <3>1 DEF Tick
  <2>5. ASSUME NEW h \in Host PROVE ~HostNext(h)
    <3>1. [owner |-> h, pid |-> h, left |-> Ttl] \in Lease
      BY DEF Lease
    <3> QED BY <2>2, <2>3, <3>1 DEF HostNext, StartWatch, Acquire, Keepalive, Act, Exit, Crash
  <2>6. ASSUME NEW q \in Command, CmdNext(q) PROVE ~Alive(lease.pid)
    <3>1. [lease EXCEPT !.owner = q, !.left = Grace] \in Lease
      BY <2>1 DEF Lease
    <3>2. SeeExit(q)
      BY <2>3, <2>6, <3>1 DEF CmdNext, RequestStop, StopTimeout, SeeLaunch, Launch
    <3>3. lease.owner = cmd[q].token /\ cmd[q].step = "waiting" /\ ~Alive(cmd[q].pid)
      BY <3>2 DEF SeeExit
    <3>4. lease.pid = cmd[q].pid
      BY <3>3 DEF WatchdogInv, FenceInv
    <3> QED BY <3>3, <3>4
  <2> QED BY <2>4, <2>5, <2>6 DEF Next
<1> QED BY <1>1, WatchdogInvariant, PTL DEF Spec, FenceClearedAfterExit
=============================================================================
