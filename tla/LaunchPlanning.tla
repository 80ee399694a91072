--------------------------- MODULE LaunchPlanning ---------------------------
(***************************************************************************)
(* plan_launch of src/src/launch_planning.rs: the constants of an ascent,  *)
(* worked out from the body and the launch site over many kRPC calls.      *)
(* What it decides is where phase 1 ends: the altitude at which the air    *)
(* becomes thinner than a target, found by bisecting the density curve,    *)
(* but never below the terrain to clear.                                   *)
(*                                                                         *)
(* Altitudes and densities are whole numbers in units of one's choice; a   *)
(* midpoint that is not whole is rounded down.  The formulas for the       *)
(* target, vMin and the terminal pitch are left out: their results are     *)
(* inputs here or are read by nothing.                                     *)
(***************************************************************************)
EXTENDS Integers

CONSTANTS
  Altitudes,  \* where the density is known
  Curves,     \* density by altitude, a function for each body
  Depths,     \* heights of atmospheres
  Targets,    \* densities of the regime split
  Heights,    \* of the ground around launch sites
  Margin,     \* TERRAIN_CLEARANCE_MARGIN
  Iters       \* DENSITY_SOLVE_ITERS

bracket_mid(x, y) == (x + y) \div 2

ASSUME PlanAssumption ==
  /\ Altitudes \subseteq Int
  /\ \A x, y \in Altitudes : bracket_mid(x, y) \in Altitudes
  /\ \A curve \in Curves :
       /\ curve \in [Altitudes -> Int]
       /\ \A x, y \in Altitudes : x <= y => curve[x] >= curve[y]
  /\ Depths \subseteq Altitudes /\ Targets \subseteq Int
  /\ Heights \subseteq Int /\ \A h \in Heights : h + Margin \in Altitudes
  /\ Iters \in Nat

VARIABLES
  step,     \* "survey", "solve", "done" or "failed"
  air,      \* has_atm
  rho,      \* the body's density curve
  depth,    \* atm_depth
  target,   \* rho_thr
  terrain,  \* terrain_max
  a, b,     \* the bracket
  left,     \* iterations to go
  entry     \* alt_phase2_entry

body == <<air, rho, depth, target>>
vars == <<step, body, terrain, a, b, left, entry>>

TypeOK ==
  /\ step \in {"survey", "solve", "done", "failed"}
  /\ air \in BOOLEAN /\ rho \in Curves /\ depth \in Depths /\ target \in Targets
  /\ terrain \in Altitudes /\ a \in Altitudes /\ b \in Altitudes
  /\ left \in 0..Iters /\ entry \in Altitudes

Init ==
  /\ step = "survey"
  /\ air \in BOOLEAN /\ rho \in Curves /\ depth \in Depths /\ target \in Targets
  /\ terrain = depth /\ a = depth /\ b = depth /\ left = 0 /\ entry = depth

-----------------------------------------------------------------------------
(* sample_terrain_max: the highest of the launch site and the rings.       *)
Highest(S) == CHOOSE h \in S : \A g \in S : g <= h

Survey ==
  /\ step = "survey"
  /\ \E launch_alt \in Heights, ground \in Heights :
       terrain' = Highest({launch_alt, ground}) + Margin
  /\ IF air
     THEN /\ step' = "solve"
          /\ a' = terrain' /\ b' = depth /\ left' = Iters
          /\ UNCHANGED entry
     ELSE /\ step' = "done"
          /\ entry' = terrain'
          /\ UNCHANGED <<a, b, left>>
  /\ UNCHANGED body

(* The comparison is the wrong way round; half of the update is forgotten. *)
BisectSwapped ==
  /\ step = "solve" /\ left > 0
  /\ left' = left - 1
  /\ LET mid == bracket_mid(a, b) IN
       \/ rho[mid] <= target /\ a' = mid /\ UNCHANGED b
       \/ rho[mid] > target /\ b' = mid /\ UNCHANGED a
  /\ UNCHANGED <<step, body, terrain, entry>>
BisectOneSided ==
  /\ step = "solve" /\ left > 0
  /\ left' = left - 1
  /\ LET mid == bracket_mid(a, b) IN a' = IF rho[mid] > target THEN mid ELSE a
  /\ UNCHANGED <<b, step, body, terrain, entry>>

(* bisect_step, after one more call for the density at the midpoint.       *)
Bisect ==
  /\ step = "solve" /\ left > 0
  /\ left' = left - 1
  /\ LET mid == bracket_mid(a, b) IN
       \/ rho[mid] > target /\ a' = mid /\ UNCHANGED b
       \/ rho[mid] <= target /\ b' = mid /\ UNCHANGED a
  /\ UNCHANGED <<step, body, terrain, entry>>

AnswerUnclamped ==
  /\ step = "solve" /\ left = 0
  /\ step' = "done"
  /\ entry' = bracket_mid(a, b)
  /\ UNCHANGED <<body, terrain, a, b, left>>

Answer ==
  /\ step = "solve" /\ left = 0
  /\ step' = "done"
  /\ entry' = IF bracket_mid(a, b) > terrain THEN bracket_mid(a, b) ELSE terrain
  /\ UNCHANGED <<body, terrain, a, b, left>>

(* Any call to kRPC may fail, and ends the planning.                       *)
Fail ==
  /\ step \in {"survey", "solve"}
  /\ step' = "failed"
  /\ UNCHANGED <<body, terrain, a, b, left, entry>>

Next == Survey \/ Bisect \/ Answer \/ Fail

Spec == Init /\ [][Next]_vars

-----------------------------------------------------------------------------
(* At every step the altitude the split is at lies inside the bracket:     *)
(* below it the air is denser than the target, above it it is not.         *)
Solving == air /\ step \in {"solve", "done"}

SplitBracketed ==
  Solving =>
    /\ \A x \in Altitudes : terrain <= x /\ x < a => rho[x] > target
    /\ \A x \in Altitudes : b < x /\ x <= depth => rho[x] <= target

(* The answer is in the bracket when the terrain leaves some of the        *)
(* atmosphere to fly in, and is the terrain's height when it does not, or  *)
(* when there is no atmosphere: phase 2 never begins below the terrain,    *)
(* and a bracket that starts upside down does no harm.                     *)
EntryPlaced ==
  step = "done" =>
    IF air /\ terrain <= depth
    THEN terrain <= a /\ a <= entry /\ entry <= b /\ b <= depth
    ELSE entry = terrain

(* The bracket has shrunk as much as the iterations promise, so the answer *)
(* is the split to within one unit once 2^Iters reaches the span.          *)
PowerOf2[n \in Nat] == IF n = 0 THEN 1 ELSE 2 * PowerOf2[n - 1]
BracketNarrow ==
  Solving /\ terrain <= depth => (b - a - 1) * PowerOf2[Iters - left] < depth - terrain \/ a = b
=============================================================================
