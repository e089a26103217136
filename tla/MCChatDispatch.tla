--------------------------- MODULE MCChatDispatch ---------------------------
(* Finite instances of ChatDispatch for TLC. *)
EXTENDS ChatDispatch, TLC

CONSTANTS k1, k2, v1, v2, w1, w2

NoKeys == {}
FirstKey == {k1}
SecondKey == {k2}
OneWindow == {v1}
TwoWindows == {v1, v2}
OneWorker == {w1}
TwoWorkers == {w1, w2}

\* Windows are interchangeable, and so are workers.
WindowSymmetry == Permutations(Window) \cup Permutations(Worker)
=============================================================================
