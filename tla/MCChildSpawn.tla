---------------------------- MODULE MCChildSpawn ----------------------------
(***************************************************************************)
(* Instances of ChildSpawn for TLC.                                        *)
(***************************************************************************)
EXTENDS ChildSpawn, TLC

CONSTANTS w1, w2, o1

OneChild == {1}
TwoChildren == {1, 2}
\* Windows are interchangeable.
Symmetry == Permutations(Window)
=============================================================================
