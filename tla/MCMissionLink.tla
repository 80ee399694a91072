--------------------------- MODULE MCMissionLink ----------------------------
(* Small worlds for MissionLink; the cfg files choose the CPUs and how     *)
(* often the world interferes.  Three clock names always leave a fresh one,*)
(* and two CPUs are alike.                                                 *)
EXTENDS MissionLink, TLC

CONSTANTS launch, unknown, c1, c2

OneCpu == {c1}
TwoCpus == {c1, c2}
MCScripts == {launch}
OnlyLaunch == {launch}
WithUnknown == {launch, unknown}
MCUT == 0..2

Symmetry == Permutations(TwoCpus)

(* For liveness, where symmetry is of no use: the vessel first flown is    *)
(* c1, and either it is switched away from once, or it keeps the pilot and *)
(* nothing becomes of c2 while c1 dies or the kRPC session is lost.  None  *)
(* of the steps ruled out is one that fairness calls for.                  *)
SwitchApart ==
  IF spent.switch = 0
  THEN active = c1 /\ cpu[c2] = KOS!On(2)
  ELSE spent.death = 0 /\ spent.cut = 0
=============================================================================
