-------------------------- MODULE MCWatchdogLease --------------------------
(***************************************************************************)
(* Model-checking instance of WatchdogLease.                               *)
(***************************************************************************)
EXTENDS WatchdogLease

CONSTANTS h1, h2, h3, c1, c2

ThreeHosts == {h1, h2, h3}
TwoCommands == {c1, c2}
=============================================================================
