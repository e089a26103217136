--------------------------- MODULE MCReplacement ---------------------------
(***************************************************************************)
(* Model-checking instance of Replacement.                                 *)
(***************************************************************************)
EXTENDS Replacement, TLC

CONSTANTS w1, w2, o1, o2

OneOperator == {o1}
TwoOperators == {o1, o2}
TwoWorkers == {w1, w2}

\* Either the workspace is left alone, or child-complete is and there are four revisions.
Untouched == work = 0 /\ writer = 0 /\ \A a \in Attempt : row[a].work \in {0, None}
OneOrTheOther == Untouched \/ (ending = None /\ snap.revision <= 4)

ReplacementSymmetry == Permutations(Worker) \cup Permutations(Op)
=============================================================================
