------------------------------ MODULE MCProbe ------------------------------
(***************************************************************************)
(* Model-checking instance of Probe.                                       *)
(***************************************************************************)
EXTENDS Probe, TLC

CONSTANTS p1, p2, h1, h2, d1, d2

TwoWorkers == {p1, p2}
TwoWindows == {h1, h2}
TwoDrivers == {d1, d2}

ProbeSymmetry == Permutations(Worker) \cup Permutations(Window) \cup Permutations(Driver)
=============================================================================
