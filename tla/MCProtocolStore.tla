-------------------------- MODULE MCProtocolStore --------------------------
(***************************************************************************)
(* Model-checking instance of ProtocolStore.                               *)
(***************************************************************************)
EXTENDS ProtocolStore, FiniteSets, TLC

CONSTANTS w1, w2, w3, p1, p2

TwoWorkers == {w1, w2}
ThreeWorkers == {w1, w2, w3}
OneProc == {p1}
TwoProcs == {p1, p2}

\* One process has the whole task to itself.
Alone == \A p \in Proc \ {p1} : reading[p] = None /\ view[p] = None
Unbound == bound = {} /\ \A p \in Proc : binding[p] = None
Registered == {w \in Worker : snap.workers[w].status # "unregistered"}

\* With two processes, or window bindings, two conversations and four revisions.
SmallWhenShared == (Alone /\ Unbound) \/ (Cardinality(Registered) <= 2 /\ snap.revision <= 4)

WorkerSymmetry == Permutations(Worker)
=============================================================================
