-------------------------- MODULE MCWatchdogHistory -------------------------
(* Two sessions and two runs of up to two scripts: a beat of one session   *)
(* can reach the runs of the other; the gap between samples exceeds its cap.*)
EXTENDS WatchdogHistory, TLC

CONSTANTS launch, maneuver, b1, b2

MCPaths == {launch, maneuver}
MCBoots == {b1, b2}
MCUT == 0..3

Symmetry == Permutations(MCPaths) \cup Permutations(MCBoots)
=============================================================================
