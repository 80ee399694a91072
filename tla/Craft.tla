-------------------------------- MODULE Craft --------------------------------
(***************************************************************************)
(* The vessel that src/kos/scripts/launch.ks flies, as the script sees it: *)
(* stages, engines, clamps, how high it is and how high it is going.  None *)
(* of this is code of the repository.                                      *)
(*                                                                         *)
(* A design names its `top` stage, the stages that hold clamps, and its    *)
(* engines: the stage that lights one, the stage that sheds it, whether it *)
(* is solid, and the ticks it burns.  Altitudes are bands; thrust raises   *)
(* the apoapsis, drag lowers it while the vessel is in the atmosphere, and *)
(* the vessel climbs towards it.                                           *)
(***************************************************************************)
EXTENDS Integers

CONSTANTS
  Designs,   \* vessels
  Missions,  \* [terrain, entry, atm, final, lag, drag, circularize]
  MaxDv      \* size of the circularization burn

ASSUME DesignAssumption ==
  /\ MaxDv \in Nat
  /\ \A d \in Designs :
       /\ d.top \in Nat /\ d.clamps \subseteq 0..(d.top - 1)
       /\ d.engines \in [DOMAIN d.engines -> [lit : Int, shed : Int, solid : BOOLEAN, fuel : Nat]]

ASSUME MissionAssumption ==
  Missions \subseteq [terrain : Int, entry : Int, atm : Int, final : Int, lag : Nat, drag : Nat,
                      circularize : BOOLEAN]

(* README.md:71-72: the clamps are gone before an engine is shed, and each *)
(* spent engine cluster decouples cleanly into its own stage.  So of two   *)
(* engines that burn together none is shed before one that burns longer.   *)
ASSUME StagingAssumption ==
  \A d \in Designs : \A e \in DOMAIN d.engines :
    LET E == d.engines[e] IN
      /\ E.shed < E.lit
      /\ \A s \in d.clamps : E.shed < s
      /\ \A f \in DOMAIN d.engines :
           LET F == d.engines[f] IN
             E.shed >= 0 /\ F.shed <= E.shed /\ E.shed < F.lit
               => F.lit <= E.lit /\ E.fuel <= F.fuel /\ (F.solid => E.solid)

VARIABLES
  design,    \* the vessel
  mission,   \* the config Lexicon, and the body
  stageNum,  \* stage:number
  ready,     \* stage:ready
  fuel,      \* per engine, the ticks it still burns
  throttle,  \* what the throttle is locked to: see Throttles
  pilot,     \* pilotMainThrottle is above zero
  alt, apo,  \* ship:altitude, ship:apoapsis
  fast,      \* airspeed above vMin
  drag,      \* what drag may still take from the apoapsis
  dv         \* what is left of the node being flown; below zero, overflown

craft == <<design, mission, stageNum, ready, fuel, throttle, pilot, alt, apo, fast, drag, dv>>

Engines == DOMAIN design.engines
Throttles == {"none", "full", "q", "burn", "trim", "zero"}

CraftInit ==
  /\ design \in Designs
  /\ mission \in Missions
  /\ stageNum = design.top
  /\ ready = TRUE
  /\ fuel = [e \in Engines |-> design.engines[e].fuel]
  /\ throttle = "none"
  /\ pilot \in BOOLEAN
  /\ alt = 0 /\ apo = 0
  /\ fast = FALSE
  /\ drag = mission.drag
  /\ dv = 0

Attached(e) == design.engines[e].shed < stageNum
Lit(e) == Attached(e) /\ stageNum <= design.engines[e].lit
Clamped == \E s \in design.clamps : s < stageNum

Flameout(e) == Lit(e) /\ fuel[e] = 0
MaxThrust == {e \in Engines : Lit(e) /\ fuel[e] > 0}

(* The throttle the engines get: the pilot's when the script locks none.   *)
Throttled == throttle \notin {"none", "zero"} \/ (throttle = "none" /\ pilot)
Burns(e) == e \in MaxThrust /\ (Throttled \/ design.engines[e].solid)

(* `stage.` when the vessel has a stage left.                              *)
Stage ==
  /\ stageNum' = IF stageNum > 0 THEN stageNum - 1 ELSE 0
  /\ ready' = FALSE

(* A tick of physics.  Under thrust the vessel climbs `lag` below where it *)
(* is going.                                                               *)
Thrust == ~Clamped /\ \E e \in Engines : Burns(e)
Flies ==
  /\ IF Thrust
     THEN /\ apo' = apo + 1 /\ fast' \in {fast, TRUE}
          /\ dv' \in CASE throttle = "burn" -> {dv - 1, dv - 2}
                        [] throttle = "trim" -> {dv - 1}
                        [] OTHER -> {dv}
          /\ UNCHANGED drag
     ELSE /\ UNCHANGED <<fast, dv>>
          /\ \/ UNCHANGED <<apo, drag>>
             \/ /\ alt <= mission.atm /\ alt < apo /\ drag > 0
                /\ apo' = apo - 1 /\ drag' = drag - 1
  /\ alt' = IF alt + (IF Thrust THEN mission.lag ELSE 0) < apo' THEN alt + 1 ELSE alt
  /\ fuel' = [e \in Engines |-> IF Burns(e) THEN fuel[e] - 1 ELSE fuel[e]]
  /\ ready' = TRUE
  /\ UNCHANGED <<design, mission, stageNum, throttle, pilot>>
=============================================================================
