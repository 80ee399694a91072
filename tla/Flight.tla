-------------------------------- MODULE Flight --------------------------------
(***************************************************************************)
(* src/kos/scripts/launch.ks, which runs maneuver.ks at its end, flying a  *)
(* Craft.  A step of the mainline runs from one wait to the next; kOS may  *)
(* also suspend it in between when its instructions for the tick are used  *)
(* up, so physics may tick after any step.  The staging trigger interrupts *)
(* the mainline wherever it is, and holds it up while it waits itself.     *)
(*                                                                         *)
(* Pitch, heading, dynamic pressure and the sums of the burn are left out: *)
(* throttleForQCeiling is a throttle above zero.  Sums that divide by the  *)
(* mass flow end the program when nothing burns.                           *)
(***************************************************************************)
EXTENDS Craft, Sequences, FiniteSetsExt

CONSTANTS
  MaxOldNodes  \* bound: nodes the player has made before the ascent is over

ASSUME NodesAssumption == MaxOldNodes \in Nat

VARIABLES
  pc,            \* where the mainline is
  rest,          \* it waits for the next tick, or is out of instructions
  countdown,     \* t, then
  stagingEvents, \*   of the same name
  armed,         \* the staging trigger is set; it is never removed
  staging,       \* the trigger has staged and waits for stage:ready
  checked,       \* the trigger has fired in this tick
  nodes,         \* the flight plan: "old" nodes and the "circ" one
  flown          \* nd of maneuver.ks, or "none"

script == <<pc, rest, countdown, stagingEvents, armed, nodes, flown>>
vars == <<craft, script, staging, checked>>

Init ==
  /\ CraftInit
  /\ pc = "window" /\ rest = TRUE
  /\ countdown = 0 /\ stagingEvents = 0
  /\ armed = FALSE /\ staging = FALSE /\ checked = FALSE
  /\ \E n \in 0..MaxOldNodes : nodes = [i \in 1..n |-> "old"]
  /\ flown = "none"

-----------------------------------------------------------------------------
(* What the wait in front of each step waits for.                          *)
Cleared == alt > mission.terrain /\ (fast \/ alt > mission.entry)
AtTarget == alt > mission.final
OutOfAtmosphere == alt > mission.atm
Near(most) == dv \in -most..most \/ dv < 0   \* vDot: the burn went past it

Waited ==
  CASE pc = "count"   -> countdown < stagingEvents => ready
    [] pc = "phase0"  -> Cleared
    [] pc = "phase1"  -> alt >= mission.entry
    [] pc = "phase2"  -> apo > mission.final
    [] pc = "coast"   -> OutOfAtmosphere
    [] pc = "touchup" -> apo > mission.final
    [] pc = "burn1"   -> Near(2)
    [] pc = "burn2"   -> Near(1)
    [] pc = "burn3"   -> Near(0)
    [] OTHER -> TRUE

Ended == pc \in {"done", "aborted"}

At(label) == pc = label /\ Waited /\ ~rest /\ ~staging
Goto(label) == pc' = label /\ rest' \in BOOLEAN
KeepCraft == UNCHANGED craft
LockThrottle(to) ==
  /\ throttle' = to
  /\ UNCHANGED <<design, mission, stageNum, ready, fuel, pilot, alt, apo, fast, drag, dv>>
KeepCount == UNCHANGED <<countdown, stagingEvents>>
KeepNodes == UNCHANGED <<nodes, flown>>
KeepTrigger == UNCHANGED <<staging, checked>>

(* How many staging events it takes to reach the lowest stage with a clamp *)
(* still attached.                                                         *)
StagesFromClamp ==
  LET held == {s \in design.clamps : s < stageNum} IN
  IF held = {} THEN 0 ELSE Min(held) - stageNum
StagesToFirstClamp ==
  LET held == {s \in design.clamps : s < stageNum} IN
  IF held = {} THEN 0 ELSE stageNum - Max(held)
StagesToClamp ==
  LET held == {s \in design.clamps : s < stageNum} IN
  IF held = {} THEN 0 ELSE stageNum - Min(held)

(* The launch window has come.                                             *)
StartCountdown ==
  /\ At("window")
  /\ stagingEvents' = StagesToClamp
  /\ countdown' = Max({stagingEvents', 3})
  /\ Goto("count")
  /\ KeepCraft /\ KeepNodes /\ KeepTrigger /\ UNCHANGED armed

(* One second of the countdown.                                            *)
Count ==
  /\ At("count")
  /\ IF countdown = stagingEvents THEN LockThrottle("full")
     ELSE IF countdown < stagingEvents
     THEN Stage /\ UNCHANGED <<design, mission, fuel, throttle, pilot, alt, apo, fast, drag, dv>>
     ELSE KeepCraft
  /\ IF countdown > 0
     THEN countdown' = countdown - 1 /\ pc' = "count" /\ rest' = TRUE
     ELSE countdown' = countdown /\ Goto("arm")
  /\ KeepNodes /\ KeepTrigger /\ UNCHANGED <<stagingEvents, armed>>

(* The trigger is set and the throttle obeys the dynamic pressure.         *)
Arm ==
  /\ At("arm")
  /\ armed' = TRUE
  /\ LockThrottle("q")
  /\ Goto("phase0")
  /\ KeepCount /\ KeepNodes /\ KeepTrigger

EndPhase0 ==
  /\ At("phase0")
  /\ Goto(IF alt < mission.entry THEN "phase1" ELSE "phase2")
  /\ KeepCraft /\ KeepCount /\ KeepNodes /\ KeepTrigger /\ UNCHANGED armed

EndPhase1 ==
  /\ At("phase1")
  /\ Goto("phase2")
  /\ KeepCraft /\ KeepCount /\ KeepNodes /\ KeepTrigger /\ UNCHANGED armed

CutOff ==
  /\ At("phase2")
  /\ LockThrottle("zero")
  /\ Goto("coast")
  /\ KeepCount /\ KeepNodes /\ KeepTrigger /\ UNCHANGED armed

EndCoastAsIs ==
  /\ At("coast")
  /\ KeepCraft /\ Goto("handback")
  /\ KeepCount /\ KeepNodes /\ KeepTrigger /\ UNCHANGED armed

(* Out of the atmosphere: burn again when drag took too much.              *)
EndCoast ==
  /\ At("coast")
  /\ IF apo < mission.final
     THEN LockThrottle("q") /\ Goto("touchup")
     ELSE KeepCraft /\ Goto("handback")
  /\ KeepCount /\ KeepNodes /\ KeepTrigger /\ UNCHANGED armed

EndTouchUp ==
  /\ At("touchup")
  /\ LockThrottle("zero")
  /\ Goto("handback")
  /\ KeepCount /\ KeepNodes /\ KeepTrigger /\ UNCHANGED armed

ClearPilotThrottle ==
  /\ pilot' = FALSE
  /\ UNCHANGED <<design, mission, stageNum, ready, fuel, throttle, alt, apo, fast, drag, dv>>

HandBackAsIs ==
  /\ At("handback")
  /\ KeepCraft
  /\ \/ Goto("done")
     \/ mission.circularize /\ Goto("clear")
  /\ KeepCount /\ KeepNodes /\ KeepTrigger /\ UNCHANGED armed

(* circularize may be off, or the career not far enough to make nodes.     *)
HandBack ==
  /\ At("handback")
  /\ ClearPilotThrottle
  /\ \/ Goto("done")
     \/ mission.circularize /\ Goto("clear")
  /\ KeepCount /\ KeepNodes /\ KeepTrigger /\ UNCHANGED armed

RemoveNode ==
  /\ At("clear") /\ nodes # <<>>
  /\ nodes' = Tail(nodes)
  /\ Goto("clear")
  /\ KeepCraft /\ KeepCount /\ KeepTrigger /\ UNCHANGED <<armed, flown>>

PlanBesideOthers ==
  /\ At("clear")
  /\ \/ nodes' = Append(nodes, "circ") /\ Goto("execute")
     \/ UNCHANGED nodes /\ Goto("done")
  /\ KeepCraft /\ KeepCount /\ KeepTrigger /\ UNCHANGED <<armed, flown>>

(* nodeChangePeriapsis returns a node, or -1 and the ascent ends here.     *)
PlanNode ==
  /\ At("clear") /\ nodes = <<>>
  /\ \/ nodes' = <<"circ">> /\ Goto("execute")
     \/ UNCHANGED nodes /\ Goto("done")
  /\ KeepCraft /\ KeepCount /\ KeepTrigger /\ UNCHANGED <<armed, flown>>

-----------------------------------------------------------------------------
(* maneuver.ks.                                                            *)
TakeNode ==
  /\ At("execute")
  /\ IF nodes = <<>> THEN Goto("done") /\ KeepCraft /\ UNCHANGED flown
     ELSE IF MaxThrust = {} THEN Goto("aborted") /\ KeepCraft /\ UNCHANGED flown
     ELSE /\ flown' = Head(nodes)
          /\ dv' = MaxDv
          /\ UNCHANGED <<design, mission, stageNum, ready, fuel, throttle, pilot, alt, apo, fast, drag>>
          /\ Goto("approach")
  /\ KeepCount /\ KeepTrigger /\ UNCHANGED <<armed, nodes>>

(* The node is near, the vessel faces it and the warp has settled: waits   *)
(* that last as many ticks as they do (see Tick).                          *)
StartBurn ==
  /\ At("approach")
  /\ LockThrottle("burn")
  /\ Goto("burn1")
  /\ KeepCount /\ KeepNodes /\ KeepTrigger /\ UNCHANGED armed

(* The throttle for the last metres divides by the available thrust.       *)
Trim(from, to) ==
  /\ At(from)
  /\ IF MaxThrust = {} THEN KeepCraft /\ Goto("aborted")
     ELSE LockThrottle("trim") /\ Goto(to)
  /\ KeepCount /\ KeepNodes /\ KeepTrigger /\ UNCHANGED armed

EndBurn ==
  /\ At("burn3")
  /\ LockThrottle("zero")
  /\ nodes' = Tail(nodes)
  /\ Goto("release")
  /\ KeepCount /\ KeepTrigger /\ UNCHANGED <<armed, flown>>

Release ==
  /\ At("release")
  /\ LockThrottle("none")
  /\ Goto("released")
  /\ KeepCount /\ KeepNodes /\ KeepTrigger /\ UNCHANGED armed

Finish ==
  /\ At("released")
  /\ ClearPilotThrottle
  /\ Goto("done")
  /\ KeepCount /\ KeepNodes /\ KeepTrigger /\ UNCHANGED armed

-----------------------------------------------------------------------------
(* engineFlameout walks the engines of the vessel.                         *)
EngineOut == \E e \in Engines : Attached(e) /\ e \notin MaxThrust
EngineIdle == \E e \in Engines : Lit(e) /\ ~Burns(e)
EngineFlameout == \E e \in Engines : Flameout(e)

Trigger ==
  /\ armed /\ ~staging /\ ~checked /\ pc # "aborted"
  /\ checked' = TRUE
  /\ IF MaxThrust = {} \/ EngineFlameout
     THEN /\ Stage /\ staging' = TRUE
          /\ UNCHANGED <<design, mission, fuel, throttle, pilot, alt, apo, fast, drag, dv>>
     ELSE KeepCraft /\ UNCHANGED staging
  /\ UNCHANGED script

TriggerEnds ==
  /\ staging /\ ready
  /\ staging' = FALSE
  /\ KeepCraft /\ UNCHANGED <<script, checked>>

(* The player plans ahead, until the ascent is over.                       *)
MakeNode ==
  /\ pc \in {"phase1", "phase2", "coast", "touchup"} /\ Len(nodes) < MaxOldNodes
  /\ nodes' = Append(nodes, "old")
  /\ KeepCraft /\ KeepTrigger
  /\ UNCHANGED <<pc, rest, countdown, stagingEvents, armed, flown>>

(* A tick passes when neither the mainline nor the trigger can go on.  It  *)
(* may leave the mainline waiting for the node, the turn or the warp.      *)
Tick ==
  /\ ~Ended
  /\ rest \/ staging \/ ~Waited
  /\ armed => checked
  /\ ~(staging /\ ready)
  /\ Flies
  /\ rest' \in BOOLEAN /\ (rest' => pc = "approach")
  /\ checked' = FALSE
  /\ UNCHANGED <<pc, countdown, stagingEvents, armed, nodes, flown, staging>>

Mainline ==
  \/ StartCountdown \/ Count \/ Arm \/ EndPhase0 \/ EndPhase1 \/ CutOff \/ EndCoast
  \/ EndTouchUp \/ HandBack \/ RemoveNode \/ PlanNode
  \/ TakeNode \/ StartBurn \/ Trim("burn1", "burn2") \/ Trim("burn2", "burn3")
  \/ EndBurn \/ Release \/ Finish

Next == Mainline \/ Trigger \/ TriggerEnds \/ MakeNode \/ Tick

Spec == Init /\ [][Next]_vars

(* kOS runs its CPUs and the game goes on.                                 *)
FairSpec == Spec /\ WF_vars(Mainline) /\ WF_vars(Trigger \/ TriggerEnds) /\ WF_vars(Tick)

-----------------------------------------------------------------------------
Labels == {"window", "count", "arm", "phase0", "phase1", "phase2", "coast", "touchup",
           "handback", "clear", "execute", "approach", "burn1", "burn2", "burn3",
           "release", "released", "done", "aborted"}
Ascended == {"handback", "clear", "execute", "approach", "burn1", "burn2", "burn3",
             "release", "released", "done"}

TypeOK ==
  /\ stageNum \in 0..design.top
  /\ fuel \in [Engines -> Nat]
  /\ throttle \in Throttles
  /\ alt \in Nat /\ apo \in Nat /\ drag \in Nat /\ dv \in Int
  /\ pc \in Labels
  /\ countdown \in Nat /\ stagingEvents \in Nat
  /\ {rest, ready, pilot, fast, armed, staging, checked} \subseteq BOOLEAN
  /\ nodes \in Seq({"old", "circ"})
  /\ flown \in {"none", "old", "circ"}

(* README.md:71 and launch.ks:60-63: the clamps hold until the last second *)
(* of the countdown and are all gone with it, whatever stages there are.   *)
Liftoff ==
  /\ pc = "count" /\ countdown > 0 /\ design.clamps # {} => Clamped
  /\ pc \notin {"window", "count"} => ~Clamped

(* With the staging README.md:72 asks for, no engine is shed before it has *)
(* burned out, in the countdown, in the ascent or in a burn.               *)
UnspentKept ==
  [][\A e \in Engines : Attached(e) /\ fuel[e] > 0 => Attached(e)']_vars

(* What the payload stage carries is enough for the ascent and the burn on *)
(* its own, with what drag takes and a tick lost at every wait.            *)
Carries(d, e) == d.engines[e].shed < d.payload /\ d.payload <= d.engines[e].lit
FuelEnough ==
  \A d \in Designs :
    /\ d.payload \in 0..(d.top - 1) /\ \A s \in d.clamps : d.payload <= s
    /\ \E e \in DOMAIN d.engines : Carries(d, e)
    /\ \A e \in DOMAIN d.engines : Carries(d, e) =>
         /\ d.engines[e].lit = d.payload /\ ~d.engines[e].solid
         /\ \A m \in Missions : \A climb \in {0, m.terrain + m.lag, m.entry + m.lag, m.final} :
              d.engines[e].fuel >= climb + m.drag + MaxDv + 14

(* A design that carries enough fuel keeps its payload stage: the trigger  *)
(* that is never removed does not fire it while the engines are idle.      *)
PayloadKept == stageNum >= design.payload

(* Once the ascent is over the apoapsis is the one asked for, whatever     *)
(* drag took on the way out of the atmosphere.                             *)
ApoapsisHeld == pc \in Ascended => apo >= mission.final

(* launch.ks:231-232: a node left from before the ascent never flies, and  *)
(* none is left in the plan with the circularization.                      *)
OnlyCircFlown ==
  /\ flown # "old"
  /\ pc \in {"execute", "approach", "burn1", "burn2", "burn3"} => nodes = <<"circ">>

(* launch.ks:219: when the throttle is the pilot's again it is closed, also *)
(* in the tick before maneuver.ks closes it itself.                        *)
QuietRelease == armed /\ throttle = "none" => ~pilot

(* With fuel enough, and sent above the atmosphere by more than drag takes,*)
(* the script waits for ever in one place only, in front of the burn, for  *)
(* a turn the vessel cannot make or a warp that never settles.  Else it    *)
(* returns, or aborts on a sum without thrust, which the watchdog notices. *)
AscentEnds == <>Ended \/ <>[](pc = "approach" /\ rest)
===============================================================================
