--------------------------- MODULE WorkerAuthority ---------------------------
(***************************************************************************)
(* What the worker protocol promises, without leases, clocks, revisions or *)
(* storage: a durable task is served by at most one conversation at a      *)
(* time, every grant of authority opens a new epoch, a conversation that   *)
(* has lost authority never gets it back, and a closed task stays closed.  *)
(***************************************************************************)
EXTENDS Naturals

CONSTANTS Worker, None

VARIABLES
    holder,    \* the conversation with authority, or None
    epoch,     \* the number of the latest grant
    retired,   \* conversations that may never hold authority again
    closed     \* the durable task has been completed

authority == <<holder, epoch, retired, closed>>

\* A task is opened without a holder, or taken over from the legacy rows with one.
Init ==
    /\ retired \in SUBSET Worker
    /\ closed \in BOOLEAN
    /\ \/ holder = None /\ epoch = 0
       \/ holder \in Worker \ retired /\ epoch = 1 /\ ~closed

Grant(w) ==
    /\ ~closed
    /\ holder = None
    /\ w \notin retired
    /\ holder' = w
    /\ epoch' = epoch + 1
    /\ UNCHANGED <<retired, closed>>

Transfer(w) ==
    /\ ~closed
    /\ holder # None
    /\ w # holder
    /\ w \notin retired
    /\ holder' = w
    /\ epoch' = epoch + 1
    /\ retired' = retired \cup {holder}
    /\ UNCHANGED closed

Release ==
    /\ ~closed
    /\ holder # None
    /\ holder' = None
    /\ retired' = retired \cup {holder}
    /\ UNCHANGED <<epoch, closed>>

Close ==
    /\ ~closed
    /\ holder = None
    /\ closed' = TRUE
    /\ UNCHANGED <<holder, epoch, retired>>

Next ==
    \/ \E w \in Worker : Grant(w) \/ Transfer(w)
    \/ Release
    \/ Close

Spec == Init /\ [][Next]_authority
=============================================================================
