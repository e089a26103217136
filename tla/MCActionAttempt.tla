--------------------------- MODULE MCActionAttempt ---------------------------
(***************************************************************************)
(* Model-checking instance of ActionAttempt.                               *)
(***************************************************************************)
EXTENDS ActionAttempt, TLC

CONSTANTS a1, a2, w1, e1, e2, c1, c2

TwoAttempts == {a1, a2}
OneWorker == {w1}
TwoExecutors == {e1, e2}
TwoClerks == {c1, c2}

ActionSymmetry == Permutations(Attempt) \cup Permutations(Worker)
                      \cup Permutations(Executor) \cup Permutations(Clerk)
=============================================================================
