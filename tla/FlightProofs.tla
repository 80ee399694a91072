----------------------------- MODULE FlightProofs -----------------------------
(***************************************************************************)
(* Theorems about Flight, for every vessel staged as README.md:71-72 asks  *)
(* and every mission, whatever fuel the vessel has and whatever the drag.  *)
(***************************************************************************)
EXTENDS Flight, Recursion, SequenceTheorems, TLAPS

(* A set of natural numbers has a least member.                            *)
LEMMA MinIsLeast ==
  ASSUME NEW S \in SUBSET Nat, S # {}
  PROVE  Min(S) \in S /\ \A s \in S : Min(S) <= s
  BY LeastMember DEF Min

(* The countdown reaches the lowest stage with clamps.                     *)
LEMMA Clamps ==
  ASSUME NEW d \in Designs
  PROVE  /\ d.top \in Nat
         /\ \A s \in d.clamps : s \in 0..(d.top - 1)
         /\ {s \in d.clamps : s < d.top} = d.clamps
         /\ d.clamps # {} => Min(d.clamps) \in d.clamps /\ \A s \in d.clamps : Min(d.clamps) <= s
  BY MinIsLeast, DesignAssumption

(* How often it stages.                                                    *)
Releases == IF design.clamps = {} THEN 0 ELSE design.top - Min(design.clamps)

-----------------------------------------------------------------------------
(* Only clearing the flight plan leads to the planning of a node, and from *)
(* there to the end of the burn nobody else adds or removes one.           *)
LEMMA InitCirc == Init => OnlyCircFlown
  BY DEF Init, OnlyCircFlown

LEMMA NextCirc == OnlyCircFlown /\ [Next]_vars => OnlyCircFlown'
<1>. SUFFICES ASSUME OnlyCircFlown, [Next]_vars PROVE OnlyCircFlown'
  OBVIOUS
<1>. USE DEF OnlyCircFlown, KeepNodes, Goto, At
<1>1. CASE StartCountdown \/ Count \/ Arm \/ EndPhase0 \/ EndPhase1 \/ CutOff
  BY <1>1 DEF StartCountdown, Count, Arm, EndPhase0, EndPhase1, CutOff
<1>2. CASE EndCoast \/ EndTouchUp \/ HandBack \/ Release \/ Finish
  BY <1>2 DEF EndCoast, EndTouchUp, HandBack, Release, Finish
<1>3. CASE RemoveNode \/ PlanNode
  BY <1>3 DEF RemoveNode, PlanNode
<1>4. CASE TakeNode
  BY <1>4 DEF TakeNode
<1>5. CASE StartBurn \/ Trim("burn1", "burn2") \/ Trim("burn2", "burn3") \/ EndBurn
  BY <1>5 DEF StartBurn, Trim, EndBurn
<1>6. CASE MakeNode
  BY <1>6 DEF MakeNode
<1>7. CASE Trigger \/ TriggerEnds \/ Tick \/ UNCHANGED vars
  BY <1>7 DEF Trigger, TriggerEnds, Tick, script, vars
<1>. QED
  BY <1>1, <1>2, <1>3, <1>4, <1>5, <1>6, <1>7 DEF Next, Mainline

(* maneuver.ks burns the circularization and nothing else, and finds it    *)
(* alone in the flight plan, whatever nodes the player made in the ascent. *)
THEOREM OnlyCircEverFlown == Spec => []OnlyCircFlown
  BY InitCirc, NextCirc, PTL DEF Spec

-----------------------------------------------------------------------------
Flown == design \in Designs /\ mission \in Missions
Typed == Flown /\ TypeOK

LEMMA InitTyped == Init => Typed
<1>. SUFFICES ASSUME Init PROVE Typed
  OBVIOUS
<1>1. Flown
  BY DEF Init, CraftInit, Flown
<1>2. stageNum \in 0..design.top /\ fuel \in [Engines -> Nat] /\ drag \in Nat
  BY <1>1, DesignAssumption, MissionAssumption DEF Init, CraftInit, Flown, Engines
<1>3. nodes \in Seq({"old", "circ"})
  <2>1. PICK n \in 0..MaxOldNodes : nodes = [i \in 1..n |-> "old"]
    BY DEF Init
  <2>2. n \in Nat
    BY NodesAssumption
  <2>3. [i \in 1..n |-> "old"] \in Seq({"old", "circ"})
    BY <2>2
  <2>. QED
    BY <2>1, <2>3
<1>4. {rest, ready, pilot, fast, armed, staging, checked} \subseteq BOOLEAN
  <2>1. rest \in BOOLEAN /\ ready \in BOOLEAN /\ pilot \in BOOLEAN /\ fast \in BOOLEAN
    BY Zenon DEF Init, CraftInit
  <2>2. armed \in BOOLEAN /\ staging \in BOOLEAN /\ checked \in BOOLEAN
    BY Zenon DEF Init
  <2>. QED
    BY <2>1, <2>2, Zenon
<1>. QED
  BY <1>1, <1>2, <1>3, <1>4 DEF Init, CraftInit, Typed, TypeOK, Throttles, Labels

LEMMA StagesToClampNat == ASSUME Typed PROVE StagesToClamp \in Nat
<1>. DEFINE held == {s \in design.clamps : s < stageNum}
<1>1. held \subseteq Nat /\ stageNum \in Nat /\ \A s \in held : s < stageNum
  BY Clamps DEF Typed, Flown, TypeOK
<1>2. held # {} => Min(held) \in held
  BY <1>1, MinIsLeast
<1>3. StagesToClamp = IF held = {} THEN 0 ELSE stageNum - Min(held)
  BY Zenon DEF StagesToClamp
<1>4. held # {} => Min(held) \in Nat /\ Min(held) < stageNum
  BY <1>1, <1>2
<1>5. CASE held = {}
  BY <1>3, <1>5
<1>6. CASE held # {}
  <2>1. StagesToClamp = stageNum - Min(held)
    BY <1>3, <1>6, Zenon
  <2>. HIDE DEF held
  <2>. QED
    BY <2>1, <1>1, <1>4, <1>6
<1>. QED
  BY <1>5, <1>6

LEMMA StageTyped == ASSUME Typed, Stage PROVE stageNum' \in 0..design.top /\ ready' = FALSE
  BY Clamps DEF Typed, Flown, TypeOK, Stage

LEMMA FliesTyped ==
  ASSUME Typed, Flies
  PROVE  /\ fuel' \in [Engines -> Nat] /\ alt' \in Nat /\ apo' \in Nat /\ drag' \in Nat
         /\ dv' \in Int /\ fast' \in BOOLEAN /\ ready' = TRUE
         /\ UNCHANGED <<design, mission, stageNum, throttle, pilot>>
<1>1. fuel' \in [Engines -> Nat]
  <2>1. \A e \in Engines : Burns(e) => fuel[e] > 0
    BY DEF Burns, MaxThrust
  <2>. QED
    BY <2>1 DEF Flies, Typed, TypeOK
<1>2. mission.lag \in Nat
  BY MissionAssumption DEF Typed, Flown
<1>3. CASE Thrust
  <2>1. dv' = dv \/ dv' = dv - 1 \/ dv' = dv - 2
    BY <1>3 DEF Flies
  <2>2. apo' = apo + 1 /\ drag' = drag
    BY <1>3 DEF Flies
  <2>3. fast' \in BOOLEAN
    <3>1. fast' \in {fast, TRUE}
      BY <1>3, Zenon DEF Flies
    <3>. QED
      BY <3>1, Zenon DEF Typed, TypeOK
  <2>4. alt' \in Nat /\ apo' \in Nat /\ drag' \in Nat /\ dv' \in Int
    BY <2>1, <2>2, <1>2, <1>3 DEF Flies, Typed, TypeOK
  <2>. QED
    BY <2>3, <2>4, <1>1 DEF Flies
<1>4. CASE ~Thrust
  <2>1. fast' = fast /\ dv' = dv
    BY <1>4 DEF Flies
  <2>2. alt' \in Nat /\ apo' \in Nat /\ drag' \in Nat
    BY <1>2, <1>4 DEF Flies, Typed, TypeOK
  <2>. QED
    BY <2>1, <2>2, <1>1 DEF Flies, Typed, TypeOK
<1>. QED
  BY <1>3, <1>4

(* The mainline and the trigger keep the vessel and what it is to do.      *)
LEMMA FlownKept == Flown /\ [Next]_vars => Flown' /\ UNCHANGED <<design, mission>>
<1>. SUFFICES ASSUME Flown, [Next]_vars PROVE UNCHANGED <<design, mission>>
  BY DEF Flown
<1>1. CASE Mainline
  BY <1>1 DEF Mainline, StartCountdown, Count, Stage, Arm, EndPhase0, EndPhase1, CutOff, EndCoast,
     EndTouchUp, HandBack, RemoveNode, PlanNode, TakeNode, StartBurn, Trim, EndBurn, Release, Finish,
     KeepCraft, LockThrottle, ClearPilotThrottle, craft
<1>2. CASE Trigger \/ TriggerEnds \/ MakeNode \/ Tick \/ UNCHANGED vars
  BY <1>2 DEF Trigger, TriggerEnds, MakeNode, Tick, Flies, KeepCraft, craft, vars
<1>. QED
  BY <1>1, <1>2 DEF Next

Bools == {rest, ready, pilot, fast, armed, staging, checked} \subseteq BOOLEAN
Counts == stageNum \in 0..design.top /\ fuel \in [Engines -> Nat] /\ alt \in Nat /\ apo \in Nat
          /\ drag \in Nat /\ dv \in Int /\ countdown \in Nat /\ stagingEvents \in Nat
Names  == throttle \in Throttles /\ pc \in Labels /\ nodes \in Seq({"old", "circ"})
          /\ flown \in {"none", "old", "circ"}

LEMMA TypeParts == TypeOK <=> Bools /\ Counts /\ Names
  BY Zenon DEF TypeOK, Bools, Counts, Names

LEMMA NextBools == Typed /\ [Next]_vars => Bools'
<1>. SUFFICES ASSUME Typed, [Next]_vars PROVE Bools'
  OBVIOUS
<1>. /\ rest \in BOOLEAN /\ ready \in BOOLEAN /\ pilot \in BOOLEAN /\ fast \in BOOLEAN
     /\ armed \in BOOLEAN /\ staging \in BOOLEAN /\ checked \in BOOLEAN
  BY Zenon DEF Typed, TypeOK
<1>. SUFFICES /\ rest' \in BOOLEAN /\ ready' \in BOOLEAN /\ pilot' \in BOOLEAN /\ fast' \in BOOLEAN
              /\ armed' \in BOOLEAN /\ staging' \in BOOLEAN /\ checked' \in BOOLEAN
  BY Zenon DEF Bools
<1>. USE DEF KeepCraft, LockThrottle, ClearPilotThrottle, craft, Goto, KeepTrigger
<1>1. CASE StartCountdown \/ Arm \/ EndPhase0 \/ EndPhase1 \/ CutOff
  BY <1>1, Zenon DEF StartCountdown, Arm, EndPhase0, EndPhase1, CutOff
<1>2. CASE Count
  <2>1. ready' \in BOOLEAN /\ pilot' = pilot /\ fast' = fast
    BY <1>2, Zenon DEF Count, Stage
  <2>. QED
    BY <1>2, <2>1, Zenon DEF Count
<1>3. CASE EndCoast \/ EndTouchUp \/ HandBack \/ RemoveNode \/ PlanNode
  BY <1>3, Zenon DEF EndCoast, EndTouchUp, HandBack, RemoveNode, PlanNode
<1>4. CASE TakeNode \/ StartBurn \/ Trim("burn1", "burn2") \/ Trim("burn2", "burn3")
  BY <1>4, Zenon DEF TakeNode, StartBurn, Trim
<1>5. CASE EndBurn \/ Release \/ Finish
  BY <1>5, Zenon DEF EndBurn, Release, Finish
<1>6. CASE Trigger \/ TriggerEnds \/ MakeNode
  BY <1>6, Zenon DEF Trigger, TriggerEnds, MakeNode, Stage, script
<1>7. CASE Tick
  BY <1>7, FliesTyped, Zenon DEF Tick
<1>8. CASE UNCHANGED vars
  BY <1>8, Zenon DEF vars, script
<1>. QED
  BY <1>1, <1>2, <1>3, <1>4, <1>5, <1>6, <1>7, <1>8, Zenon DEF Next, Mainline

LEMMA MaxOfTwo ==
  ASSUME NEW m \in Nat, NEW n \in Nat
  PROVE  Max({m, n}) \in {m, n} /\ Max({m, n}) >= m /\ Max({m, n}) >= n
<1>1. \E x \in {m, n} : \A y \in {m, n} : x >= y
  <2>1. CASE m >= n
    BY <2>1
  <2>2. CASE n >= m
    BY <2>2
  <2>. QED
    BY <2>1, <2>2
<1>. QED
  BY <1>1 DEF Max

LEMMA NextCounts == Typed /\ [Next]_vars => Counts'
<1>. SUFFICES ASSUME Typed, [Next]_vars PROVE Counts'
  OBVIOUS
<1>1. Counts /\ Names
  BY TypeParts DEF Typed
<1>2. design' = design
  BY FlownKept DEF Typed
<1>. USE <1>1, <1>2 DEF Counts, Engines, KeepCraft, LockThrottle, ClearPilotThrottle, craft, KeepCount
<1>3. CASE StartCountdown
  <2>1. stagingEvents' \in Nat
    BY <1>3, StagesToClampNat DEF StartCountdown
  <2>2. countdown' \in Nat
    BY <1>3, <2>1, MaxOfTwo DEF StartCountdown
  <2>. QED
    BY <1>3, <2>1, <2>2 DEF StartCountdown
<1>4. CASE Count
  <2>1. stageNum' \in 0..design.top
    BY <1>4, StageTyped DEF Count
  <2>. QED
    BY <1>4, <2>1 DEF Count
<1>5. CASE Arm \/ EndPhase0 \/ EndPhase1 \/ CutOff \/ EndCoast \/ EndTouchUp \/ HandBack
  BY <1>5 DEF Arm, EndPhase0, EndPhase1, CutOff, EndCoast, EndTouchUp, HandBack
<1>6. CASE RemoveNode \/ PlanNode \/ TakeNode
  BY <1>6, DesignAssumption DEF RemoveNode, PlanNode, TakeNode
<1>7. CASE StartBurn \/ Trim("burn1", "burn2") \/ Trim("burn2", "burn3") \/ EndBurn \/ Release \/ Finish
  BY <1>7 DEF StartBurn, Trim, EndBurn, Release, Finish
<1>8. CASE Trigger
  <2>1. stageNum' \in 0..design.top
    BY <1>8, StageTyped DEF Trigger
  <2>. QED
    BY <1>8, <2>1 DEF Trigger, script
<1>9. CASE TriggerEnds \/ MakeNode \/ UNCHANGED vars
  BY <1>9 DEF TriggerEnds, MakeNode, script, vars
<1>10. CASE Tick
  BY <1>10, FliesTyped DEF Tick
<1>. QED
  BY <1>3, <1>4, <1>5, <1>6, <1>7, <1>8, <1>9, <1>10 DEF Next, Mainline

LEMMA NextNames == Typed /\ OnlyCircFlown /\ [Next]_vars => Names'
<1>. SUFFICES ASSUME Typed, OnlyCircFlown, [Next]_vars PROVE Names'
  OBVIOUS
<1>1. Names
  BY TypeParts DEF Typed
<1>. USE <1>1 DEF Names, Labels, Throttles, KeepCraft, LockThrottle, ClearPilotThrottle, craft, KeepNodes, Goto
<1>2. CASE StartCountdown \/ Count \/ Arm \/ EndPhase0 \/ EndPhase1 \/ CutOff
  BY <1>2 DEF StartCountdown, Count, Arm, EndPhase0, EndPhase1, CutOff
<1>3. CASE EndCoast \/ EndTouchUp \/ HandBack \/ StartBurn \/ Release \/ Finish
  BY <1>3 DEF EndCoast, EndTouchUp, HandBack, StartBurn, Release, Finish
<1>4. CASE RemoveNode \/ PlanNode
  <2>1. <<"circ">> \in Seq({"old", "circ"}) /\ (nodes # <<>> => Tail(nodes) \in Seq({"old", "circ"}))
    OBVIOUS
  <2>. QED
    BY <1>4, <2>1 DEF RemoveNode, PlanNode
<1>5. CASE TakeNode
  <2>1. nodes # <<>> => Head(nodes) \in {"old", "circ"}
    OBVIOUS
  <2>. QED
    BY <1>5, <2>1 DEF TakeNode
<1>6. CASE Trim("burn1", "burn2") \/ Trim("burn2", "burn3")
  BY <1>6 DEF Trim
<1>7. CASE EndBurn
  <2>1. nodes = <<"circ">>
    BY <1>7 DEF EndBurn, At, OnlyCircFlown
  <2>2. nodes' \in Seq({"old", "circ"})
    BY <1>7, <2>1 DEF EndBurn
  <2>. QED
    BY <1>7, <2>2 DEF EndBurn
<1>8. CASE Trigger \/ TriggerEnds \/ MakeNode \/ UNCHANGED vars
  BY <1>8 DEF Trigger, TriggerEnds, MakeNode, script, vars
<1>9. CASE Tick
  BY <1>9, FliesTyped DEF Tick
<1>. QED
  BY <1>2, <1>3, <1>4, <1>5, <1>6, <1>7, <1>8, <1>9 DEF Next, Mainline

LEMMA NextTyped == Typed /\ OnlyCircFlown /\ [Next]_vars => Typed'
  BY NextBools, NextCounts, NextNames, FlownKept, TypeParts DEF Typed, TypeOK, Bools, Counts, Names

(* The numbers and names of a flight are what the scripts take them for:   *)
(* no fuel below zero, no stage out of the stack, no step without a label. *)
THEOREM TypeCorrect == Spec => []TypeOK
<1>1. Typed => TypeOK
  BY DEF Typed
<1>. QED
  BY InitTyped, NextTyped, OnlyCircEverFlown, <1>1, PTL DEF Spec

-----------------------------------------------------------------------------
(* Nothing the pilot left on the throttle is in force before the script    *)
(* has closed it: once armed the script locks the throttle until maneuver. *)
(* ks releases it, and by then the hand-back has cleared it.               *)
HandedBack == {"clear", "execute", "approach", "burn1", "burn2", "burn3", "release", "released", "done"}
ThrottleInv ==
  /\ pc \in {"window", "count", "arm"} => ~armed
  /\ armed /\ throttle = "none" => pc \in {"released", "done"}
  /\ pc \in HandedBack => ~pilot

LEMMA NextThrottle == ThrottleInv /\ [Next]_vars => ThrottleInv'
<1>. SUFFICES ASSUME ThrottleInv, [Next]_vars PROVE ThrottleInv'
  OBVIOUS
<1>. USE DEF ThrottleInv, HandedBack, KeepCraft, LockThrottle, ClearPilotThrottle, craft, Goto, At
<1>1. CASE StartCountdown \/ Count
  BY <1>1 DEF StartCountdown, Count
<1>2. CASE Arm \/ EndPhase0 \/ EndPhase1 \/ CutOff
  BY <1>2 DEF Arm, EndPhase0, EndPhase1, CutOff
<1>3. CASE EndCoast \/ EndTouchUp \/ HandBack
  BY <1>3 DEF EndCoast, EndTouchUp, HandBack
<1>4. CASE RemoveNode \/ PlanNode \/ TakeNode
  BY <1>4 DEF RemoveNode, PlanNode, TakeNode
<1>5. CASE StartBurn \/ Trim("burn1", "burn2") \/ Trim("burn2", "burn3")
  BY <1>5 DEF StartBurn, Trim
<1>6. CASE EndBurn \/ Release \/ Finish
  BY <1>6 DEF EndBurn, Release, Finish
<1>7. CASE Trigger \/ TriggerEnds \/ MakeNode
  BY <1>7 DEF Trigger, TriggerEnds, MakeNode, script
<1>8. CASE Tick
  BY <1>8 DEF Tick, Flies
<1>9. CASE UNCHANGED vars
  BY <1>9 DEF vars, script
<1>. QED
  BY <1>1, <1>2, <1>3, <1>4, <1>5, <1>6, <1>7, <1>8, <1>9 DEF Next, Mainline

(* launch.ks:219 and maneuver.ks: the controls are never given back with   *)
(* the engines under a throttle the pilot set before the launch.           *)
THEOREM AlwaysQuietRelease == Spec => []QuietRelease
<1>1. Init => ThrottleInv
  BY DEF Init, CraftInit, ThrottleInv, HandedBack
<1>2. ThrottleInv => QuietRelease
  BY DEF ThrottleInv, HandedBack, QuietRelease
<1>. QED
  BY <1>1, <1>2, NextThrottle, PTL DEF Spec

-----------------------------------------------------------------------------
(* Above the atmosphere drag takes nothing, so what EndCoast or EndTouchUp *)
(* found is still true at every later step.                                *)
OutOfDrag == pc \in Ascended \cup {"touchup"} => alt > mission.atm
ApoInv == ApoapsisHeld /\ OutOfDrag

LEMMA NextApo == Typed /\ ApoInv /\ [Next]_vars => ApoInv'
<1>. SUFFICES ASSUME Typed, ApoInv, [Next]_vars PROVE ApoInv'
  OBVIOUS
<1>1. /\ alt \in Nat /\ apo \in Nat /\ mission' = mission
      /\ mission.atm \in Int /\ mission.final \in Int /\ mission.lag \in Nat
  BY FlownKept, MissionAssumption DEF Typed, TypeOK, Flown
<1>. USE <1>1 DEF ApoInv, ApoapsisHeld, OutOfDrag, Ascended, KeepCraft, LockThrottle, ClearPilotThrottle,
         craft, Goto, At
<1>2. CASE StartCountdown \/ Count \/ Arm \/ EndPhase0 \/ EndPhase1 \/ CutOff
  BY <1>2 DEF StartCountdown, Count, Arm, EndPhase0, EndPhase1, CutOff
<1>3. CASE EndCoast
  BY <1>3 DEF EndCoast, Waited, OutOfAtmosphere
<1>4. CASE EndTouchUp
  BY <1>4 DEF EndTouchUp, Waited
<1>5. CASE HandBack \/ RemoveNode \/ PlanNode \/ TakeNode \/ StartBurn
  BY <1>5 DEF HandBack, RemoveNode, PlanNode, TakeNode, StartBurn
<1>6. CASE Trim("burn1", "burn2") \/ Trim("burn2", "burn3") \/ EndBurn \/ Release \/ Finish
  BY <1>6 DEF Trim, EndBurn, Release, Finish
<1>7. CASE Trigger \/ TriggerEnds \/ MakeNode \/ UNCHANGED vars
  BY <1>7 DEF Trigger, TriggerEnds, MakeNode, script, vars
<1>8. CASE Tick
  <2>. Flies
    BY <1>8 DEF Tick
  <2>1. alt' >= alt
    BY DEF Flies
  <2>3. alt > mission.atm => apo' >= apo
    <3>1. CASE Thrust
      BY <3>1 DEF Flies
    <3>2. CASE ~Thrust
      BY <3>2 DEF Flies
    <3>. QED
      BY <3>1, <3>2
  <2>2. alt' \in Nat /\ apo' \in Nat /\ pc' = pc
    BY <1>8, FliesTyped DEF Tick
  <2>. QED
    BY <2>1, <2>2, <2>3
<1>. QED
  BY <1>2, <1>3, <1>4, <1>5, <1>6, <1>7, <1>8 DEF Next, Mainline

(* The ascent ends at the apoapsis that was asked for and keeps it, on     *)
(* every body and for every altitude.                                      *)
THEOREM ApoapsisAlwaysHeld == Spec => []ApoapsisHeld
<1>1. Init => ApoInv
  BY DEF Init, ApoInv, ApoapsisHeld, OutOfDrag, Ascended
<1>2. ApoInv => ApoapsisHeld
  BY DEF ApoInv
<1>. QED
  BY InitTyped, NextTyped, OnlyCircEverFlown, <1>1, NextApo, <1>2, PTL DEF Spec

-----------------------------------------------------------------------------
(* The countdown stages once a second from stagingEvents - 1 down, and     *)
(* nothing else stages before it is over, so after it the vessel has left  *)
(* every stage with a clamp.                                               *)
Staged == IF countdown < Releases THEN Releases - 1 - countdown ELSE 0
CountInv ==
  /\ pc = "window" => stageNum = design.top
  /\ pc = "count" => stagingEvents = Releases /\ stageNum = design.top - Staged
  /\ pc \notin {"window", "count"} => stageNum <= design.top - Releases

LEMMA ReleasesBounds ==
  ASSUME Flown
  PROVE  /\ Releases \in Nat /\ design.top \in Nat /\ Releases <= design.top
         /\ design.clamps = {} => Releases = 0
         /\ design.clamps # {} => /\ design.top - Releases \in design.clamps
                                 /\ \A s \in design.clamps : design.top - Releases <= s
<1>1. design \in Designs
  BY DEF Flown
<1>2. CASE design.clamps = {}
  BY <1>1, <1>2, Clamps DEF Releases
<1>3. CASE design.clamps # {}
  <2>1. Min(design.clamps) \in 0..(design.top - 1) /\ design.top \in Nat
    BY <1>1, <1>3, Clamps
  <2>2. Releases = design.top - Min(design.clamps)
    BY <1>3 DEF Releases
  <2>3. design.top - Releases = Min(design.clamps)
    BY <2>1, <2>2
  <2>. QED
    BY <1>1, <1>3, <2>1, <2>2, <2>3, Clamps
<1>. QED
  BY <1>2, <1>3

LEMMA CountSteps ==
  ASSUME Typed, CountInv, Count
  PROVE  /\ CountInv'
         /\ stageNum' # stageNum => stageNum' >= design.top - Releases /\ design.clamps # {}
<1>1. /\ pc = "count" /\ stagingEvents = Releases /\ stageNum = design.top - Staged
      /\ countdown \in Nat /\ Releases \in Nat /\ design.top \in Nat /\ Releases <= design.top
  BY ReleasesBounds DEF Count, At, CountInv, Typed, TypeOK
<1>2. design' = design /\ Releases' = Releases
  BY DEF Count, KeepCraft, LockThrottle, craft, Releases
<1>3. stagingEvents' = stagingEvents
  BY DEF Count
<1>4. IF countdown < Releases THEN stageNum' = stageNum - 1 ELSE stageNum' = stageNum
  BY <1>1 DEF Count, KeepCraft, LockThrottle, craft, Stage, Staged
<1>5. CASE countdown > 0
  <2>1. countdown' = countdown - 1 /\ pc' = "count"
    BY <1>5 DEF Count
  <2>. QED
    BY <1>1, <1>2, <1>3, <1>4, <1>5, <2>1, ReleasesBounds DEF CountInv, Staged, Typed
<1>6. CASE countdown = 0
  <2>1. pc' = "arm"
    BY <1>6 DEF Count, Goto
  <2>. QED
    BY <1>1, <1>2, <1>3, <1>4, <1>6, <2>1, ReleasesBounds DEF CountInv, Staged, Typed
<1>. QED
  BY <1>1, <1>5, <1>6

LEMMA NextCount == Typed /\ ThrottleInv /\ CountInv /\ [Next]_vars => CountInv'
<1>. SUFFICES ASSUME Typed, ThrottleInv, CountInv, [Next]_vars PROVE CountInv'
  OBVIOUS
<1>1. /\ stageNum \in Nat /\ stageNum <= design.top /\ countdown \in Nat
      /\ Releases \in Nat /\ design.top \in Nat /\ Releases <= design.top
  BY ReleasesBounds DEF Typed, TypeOK
<1>2. design' = design /\ Releases' = Releases
  BY FlownKept DEF Typed, Releases
<1>3. CASE StartCountdown
  <2>1. stageNum = design.top /\ stageNum' = stageNum /\ pc' = "count"
    BY <1>3 DEF StartCountdown, At, CountInv, KeepCraft, craft, Goto
  <2>2. StagesToClamp = Releases
    <3>1. {s \in design.clamps : s < stageNum} = design.clamps
      BY <2>1, Clamps DEF Typed, Flown
    <3>. QED
      BY <2>1, <3>1, Zenon DEF StagesToClamp, Releases
  <2>3. stagingEvents' = Releases /\ countdown' = Max({Releases, 3})
    BY <1>3, <2>2, Zenon DEF StartCountdown
  <2>4. countdown' >= Releases /\ countdown' \in Nat
    BY <1>1, <2>3, MaxOfTwo
  <2>. QED
    BY <1>1, <1>2, <2>1, <2>3, <2>4 DEF CountInv, Staged
<1>4. CASE Count
  BY <1>4, CountSteps
<1>5. ASSUME pc \notin {"window", "count"}, pc' \notin {"window", "count"}, stageNum' \in Nat,
             stageNum' <= stageNum
      PROVE  CountInv'
  BY <1>1, <1>2, <1>5 DEF CountInv
<1>. USE <1>1 DEF KeepCraft, LockThrottle, ClearPilotThrottle, craft, At, Goto
<1>6. CASE Arm \/ EndPhase0 \/ EndPhase1 \/ CutOff \/ EndCoast \/ EndTouchUp \/ HandBack
  BY <1>5, <1>6 DEF Arm, EndPhase0, EndPhase1, CutOff, EndCoast, EndTouchUp, HandBack
<1>7. CASE RemoveNode \/ PlanNode \/ TakeNode \/ StartBurn
  BY <1>5, <1>7 DEF RemoveNode, PlanNode, TakeNode, StartBurn
<1>8. CASE Trim("burn1", "burn2") \/ Trim("burn2", "burn3") \/ EndBurn \/ Release \/ Finish
  BY <1>5, <1>8 DEF Trim, EndBurn, Release, Finish
<1>9. CASE Trigger
  <2>1. pc \notin {"window", "count"}
    BY <1>9 DEF Trigger, ThrottleInv
  <2>2. stageNum' \in Nat /\ stageNum' <= stageNum
    BY <1>9 DEF Trigger, Stage
  <2>. QED
    BY <1>5, <1>9, <2>1, <2>2 DEF Trigger, script
<1>10. CASE TriggerEnds \/ MakeNode \/ Tick \/ UNCHANGED vars
  <2>1. stageNum' = stageNum /\ pc' = pc /\ countdown' = countdown /\ stagingEvents' = stagingEvents
    BY <1>10 DEF TriggerEnds, MakeNode, Tick, Flies, vars, script
  <2>. QED
    BY <1>2, <2>1 DEF CountInv, Staged
<1>. QED
  BY <1>3, <1>4, <1>6, <1>7, <1>8, <1>9, <1>10 DEF Next, Mainline

LEMMA InitCount == Init => CountInv
  BY DEF Init, CraftInit, CountInv

LEMMA CountLifts == Typed /\ CountInv => Liftoff
<1>. SUFFICES ASSUME Typed, CountInv PROVE Liftoff
  OBVIOUS
<1>1. /\ Releases \in Nat /\ design.top \in Nat /\ stageNum \in Nat /\ countdown \in Nat
      /\ \A s \in design.clamps : s \in Nat /\ s < design.top
  BY ReleasesBounds, Clamps DEF Typed, TypeOK, Flown
<1>2. ASSUME pc = "count", countdown > 0, design.clamps # {} PROVE Clamped
  <2>1. design.top - Releases \in design.clamps /\ Releases > 0
    BY <1>1, <1>2, ReleasesBounds DEF Typed
  <2>2. design.top - Releases < stageNum
    BY <1>1, <1>2, <2>1 DEF CountInv, Staged
  <2>. QED
    BY <2>1, <2>2 DEF Clamped
<1>3. ASSUME pc \notin {"window", "count"} PROVE ~Clamped
  BY <1>1, <1>3, ReleasesBounds DEF CountInv, Clamped, Typed
<1>. QED
  BY <1>2, <1>3 DEF Liftoff

(* However many stages hold clamps and however many stages there are, the  *)
(* countdown releases the last clamp with its last second and not before.  *)
THEOREM AlwaysLiftoff == Spec => []Liftoff
<1>1. Init => ThrottleInv
  BY DEF Init, CraftInit, ThrottleInv, HandedBack
<1>. QED
  BY <1>1, InitTyped, NextTyped, OnlyCircEverFlown, NextThrottle, InitCount, NextCount, CountLifts, PTL
     DEF Spec

-----------------------------------------------------------------------------
(* Of two engines that burn together, the one shed first has not more fuel *)
(* left: every tick that burns some of the other's burns some of its own.  *)
Together(e, f) ==
  LET E == design.engines[e]  F == design.engines[f] IN
    E.shed >= 0 /\ F.shed <= E.shed /\ E.shed < F.lit
BurnOrder ==
  \A e, f \in Engines : Attached(e) /\ Together(e, f) => fuel[e] <= fuel[f]

LEMMA EngineFacts ==
  ASSUME Flown, NEW e \in Engines
  PROVE  /\ design.engines[e].shed \in Int /\ design.engines[e].lit \in Int
         /\ design.engines[e].fuel \in Nat /\ design.engines[e].solid \in BOOLEAN
         /\ design.engines[e].shed < design.engines[e].lit
         /\ \A s \in design.clamps : design.engines[e].shed < s
  BY DesignAssumption, StagingAssumption DEF Flown, Engines

LEMMA TogetherFacts ==
  ASSUME Flown, NEW e \in Engines, NEW f \in Engines, Together(e, f)
  PROVE  /\ design.engines[f].lit <= design.engines[e].lit
         /\ design.engines[e].fuel <= design.engines[f].fuel
         /\ design.engines[f].solid => design.engines[e].solid
  BY StagingAssumption DEF Flown, Engines, Together

LEMMA InitBurnOrder == Init => BurnOrder
<1>. SUFFICES ASSUME Init, NEW e \in Engines, NEW f \in Engines, Together(e, f)
              PROVE  fuel[e] <= fuel[f]
  BY DEF BurnOrder
<1>1. Flown
  BY InitTyped DEF Typed
<1>2. fuel[e] = design.engines[e].fuel /\ fuel[f] = design.engines[f].fuel
  BY DEF Init, CraftInit
<1>. QED
  BY <1>1, <1>2, TogetherFacts

LEMMA FliesBurnOrder == ASSUME Typed, BurnOrder, Flies PROVE BurnOrder'
<1>1. design' = design /\ stageNum' = stageNum /\ Engines' = Engines
  BY DEF Flies, Engines
<1>. SUFFICES ASSUME NEW e \in Engines, NEW f \in Engines, Attached(e), Together(e, f)
              PROVE  fuel'[e] <= fuel'[f]
  BY <1>1 DEF BurnOrder, Attached, Together
<1>2. fuel[e] \in Nat /\ fuel[f] \in Nat /\ fuel[e] <= fuel[f] /\ stageNum \in Nat
  BY Clamps DEF Typed, TypeOK, Flown, BurnOrder
<1>3. fuel'[e] = (IF Burns(e) THEN fuel[e] - 1 ELSE fuel[e]) /\ fuel'[f] = (IF Burns(f) THEN fuel[f] - 1 ELSE fuel[f])
  BY DEF Flies
<1>4. ASSUME Burns(f), fuel[e] > 0 PROVE Burns(e)
  <2>1. stageNum <= design.engines[f].lit
    BY <1>4 DEF Burns, MaxThrust, Lit
  <2>2. stageNum <= design.engines[e].lit
    BY <2>1, <1>2, EngineFacts, TogetherFacts DEF Typed
  <2>3. e \in MaxThrust
    BY <2>2, <1>4 DEF MaxThrust, Lit
  <2>4. Throttled \/ design.engines[f].solid
    BY <1>4, Zenon DEF Burns
  <2>5. Throttled \/ design.engines[e].solid
    BY <2>4, TogetherFacts, Zenon DEF Typed
  <2>. QED
    BY <2>3, <2>5, Zenon DEF Burns
<1>5. CASE Burns(f) /\ fuel[e] > 0
  BY <1>2, <1>3, <1>4, <1>5
<1>6. CASE ~Burns(f)
  BY <1>2, <1>3, <1>6
<1>7. CASE Burns(f) /\ fuel[e] = 0
  <2>1. fuel[f] > 0
    BY <1>7 DEF Burns, MaxThrust
  <2>2. ~Burns(e)
    BY <1>7 DEF Burns, MaxThrust
  <2>. QED
    BY <1>2, <1>3, <1>7, <2>1, <2>2
<1>. QED
  BY <1>2, <1>5, <1>6, <1>7

(* Only physics burns fuel, and only the countdown and the trigger stage.  *)
LEMMA StepKinds ==
  ASSUME Typed, [Next]_vars
  PROVE  \/ Tick
         \/ /\ fuel' = fuel
            /\ stageNum' = stageNum \/ (Count /\ Stage) \/ (Trigger /\ Stage)
<1>. USE DEF KeepCraft, LockThrottle, ClearPilotThrottle, craft
<1>1. CASE StartCountdown \/ Arm \/ EndPhase0 \/ EndPhase1 \/ CutOff \/ EndCoast \/ EndTouchUp \/ HandBack
  BY <1>1 DEF StartCountdown, Arm, EndPhase0, EndPhase1, CutOff, EndCoast, EndTouchUp, HandBack
<1>2. CASE RemoveNode \/ PlanNode \/ TakeNode \/ StartBurn
  BY <1>2 DEF RemoveNode, PlanNode, TakeNode, StartBurn
<1>3. CASE Trim("burn1", "burn2") \/ Trim("burn2", "burn3") \/ EndBurn \/ Release \/ Finish
  BY <1>3 DEF Trim, EndBurn, Release, Finish
<1>4. CASE Count
  <2>1. fuel' = fuel /\ (stageNum' = stageNum \/ Stage)
    BY <1>4, Zenon DEF Count
  <2>. QED
    BY <1>4, <2>1
<1>5. CASE Trigger
  <2>1. fuel' = fuel /\ (stageNum' = stageNum \/ Stage)
    BY <1>5, Zenon DEF Trigger
  <2>. QED
    BY <1>5, <2>1
<1>6. CASE TriggerEnds \/ MakeNode \/ UNCHANGED vars
  BY <1>6 DEF TriggerEnds, MakeNode, vars
<1>. QED
  BY <1>1, <1>2, <1>3, <1>4, <1>5, <1>6 DEF Next, Mainline

LEMMA NextBurnOrder == Typed /\ BurnOrder /\ [Next]_vars => BurnOrder'
<1>. SUFFICES ASSUME Typed, BurnOrder, [Next]_vars PROVE BurnOrder'
  OBVIOUS
<1>1. CASE Tick
  BY <1>1, FliesBurnOrder DEF Tick
<1>2. CASE fuel' = fuel /\ (stageNum' = stageNum \/ Stage)
  <2>1. stageNum' <= stageNum /\ stageNum \in Nat /\ stageNum' \in Nat
    BY <1>2, Clamps DEF Typed, TypeOK, Flown, Stage
  <2>2. design' = design /\ Engines' = Engines
    BY FlownKept DEF Typed, Engines
  <2>3. \A e \in Engines : Attached(e)' => Attached(e)
    BY <2>1, <2>2, EngineFacts DEF Attached, Typed
  <2>. QED
    BY <1>2, <2>2, <2>3 DEF BurnOrder, Together
<1>. QED
  BY <1>1, <1>2, StepKinds

LEMMA NextUnspent ==
  ASSUME Typed, CountInv, BurnOrder, [Next]_vars, NEW e \in Engines, Attached(e), fuel[e] > 0
  PROVE  Attached(e)'
<1>1. /\ design' = design /\ stageNum \in Nat /\ design.engines[e].shed \in Int
      /\ design.engines[e].shed < stageNum
  BY FlownKept, EngineFacts, Clamps DEF Typed, TypeOK, Attached, Flown
<1>2. CASE stageNum' = stageNum
  BY <1>1, <1>2 DEF Attached
<1>3. CASE Tick
  BY <1>1, <1>3 DEF Attached, Tick, Flies
<1>4. CASE Count /\ stageNum' # stageNum
  <2>1. stageNum' >= design.top - Releases /\ design.clamps # {}
    BY <1>4, CountSteps
  <2>2. design.engines[e].shed < design.top - Releases /\ design.top - Releases \in Int
    BY <2>1, ReleasesBounds, EngineFacts DEF Typed
  <2>3. stageNum' \in Nat
    BY <1>4, NextCounts DEF Counts, Next, Mainline, Typed
  <2>. QED
    BY <1>1, <2>1, <2>2, <2>3 DEF Attached
<1>5. CASE Trigger /\ Stage
  <2>. SUFFICES ASSUME stageNum > 0, design.engines[e].shed = stageNum - 1 PROVE FALSE
    BY <1>1, <1>5 DEF Attached, Stage
  <2>1. Lit(e)
    BY <1>1, EngineFacts DEF Lit, Typed
  <2>2. e \in MaxThrust
    BY <2>1 DEF MaxThrust
  <2>3. EngineFlameout
    BY <2>2, <1>5 DEF Trigger, KeepCraft, craft, Stage
  <2>4. PICK f \in Engines : Lit(f) /\ fuel[f] = 0
    BY <2>3 DEF EngineFlameout, Flameout
  <2>5. Together(e, f)
    BY <2>4, <1>1, EngineFacts DEF Lit, Attached, Together, Typed
  <2>. QED
    BY <2>4, <2>5 DEF BurnOrder, Typed, TypeOK
<1>. QED
  BY <1>2, <1>3, <1>4, <1>5, StepKinds

(* Whatever burns out when, in the countdown, the ascent or a burn, the    *)
(* staging trigger sheds no engine that still has fuel.                    *)
THEOREM UnspentAlwaysKept == Spec => UnspentKept
<1>1. Init => ThrottleInv
  BY DEF Init, CraftInit, ThrottleInv, HandedBack
<1>2. Typed /\ CountInv /\ BurnOrder /\ [Next]_vars =>
        [\A e \in Engines : Attached(e) /\ fuel[e] > 0 => Attached(e)']_vars
  BY NextUnspent
<1>. QED
  BY <1>1, <1>2, InitTyped, NextTyped, OnlyCircEverFlown, NextThrottle, InitCount, NextCount,
     InitBurnOrder, NextBurnOrder, PTL DEF Spec, UnspentKept

-----------------------------------------------------------------------------
(* With fuel enough the payload stage is never staged away.  Its engines   *)
(* burn nothing before the stages below are gone; in the ascent every tick *)
(* they burn raises the apoapsis the script waits for, in the maneuver it  *)
(* takes from what is left of the burn, and between the two the throttle   *)
(* is locked at zero.  A tick that does none of these follows a wait that  *)
(* was over already, and Needed counts those.                              *)
Carriers == {e \in Engines : Carries(design, e)}
Pos(n) == IF n > 0 THEN n ELSE 0
Lost == (IF rest THEN 1 ELSE 0) + (IF staging /\ ~ready THEN 1 ELSE 0)
Needed ==
  CASE pc = "arm"     -> Lost + MaxDv + 12
    [] pc = "phase0"  -> Lost + MaxDv + 11
    [] pc = "phase1"  -> Lost + MaxDv + 10
    [] pc = "phase2"  -> Lost + MaxDv + 9
    [] pc = "coast"   -> MaxDv + 9
    [] pc = "touchup" -> Lost + MaxDv + 7
    [] pc \in {"handback", "clear", "execute", "approach"} -> MaxDv + 7
    [] pc = "burn1"   -> Lost + Pos(dv - 2) + 5
    [] pc = "burn2"   -> Lost + Pos(dv - 1) + 3
    [] pc = "burn3"   -> Lost + Pos(dv) + 1
    [] OTHER -> 1

Climb == apo <= alt + mission.lag /\ drag <= mission.drag /\ dv <= MaxDv
Locked ==
  /\ pc \in {"coast", "handback", "clear", "execute", "approach", "release"} => throttle = "zero"
  /\ pc = "released" => throttle = "none"
  /\ pc = "burn1" => throttle = "burn"
  /\ pc \in {"burn2", "burn3"} => throttle = "trim"
Reserve(e) ==
  /\ stageNum > design.payload => fuel[e] = design.engines[e].fuel
  /\ design.engines[e].fuel <= fuel[e] + apo + (mission.drag - drag)
  /\ stageNum = design.payload /\ pc # "aborted" => fuel[e] >= Needed
FuelInv == PayloadKept /\ Climb /\ Locked /\ \A e \in Carriers : Reserve(e)

(* What is left of the burn after some of it, m of n.                      *)
LEMMA PosFacts ==
  ASSUME NEW m \in Int, NEW n \in Int, m <= n
  PROVE  /\ Pos(m - 2) \in Nat /\ Pos(m - 1) \in Nat /\ Pos(m) \in Nat
         /\ Pos(n - 2) \in Nat /\ Pos(n - 1) \in Nat /\ Pos(n) \in Nat
         /\ Pos(m - 2) <= Pos(n - 2) /\ Pos(m - 1) <= Pos(n - 1) /\ Pos(m) <= Pos(n)
         /\ n \in Nat => Pos(m - 2) <= n /\ Pos(m - 1) <= n /\ Pos(m) <= n
         /\ m < n /\ n > 2 => Pos(m - 2) <= Pos(n - 2) - 1
         /\ m < n /\ n > 1 => Pos(m - 1) <= Pos(n - 1) - 1
         /\ m < n /\ n > 0 => Pos(m) <= Pos(n) - 1
<1>1. Pos(m - 2) = IF m > 2 THEN m - 2 ELSE 0
  BY DEF Pos
<1>2. Pos(m - 1) = IF m > 1 THEN m - 1 ELSE 0
  BY DEF Pos
<1>3. Pos(n - 2) = IF n > 2 THEN n - 2 ELSE 0
  BY DEF Pos
<1>4. Pos(n - 1) = IF n > 1 THEN n - 1 ELSE 0
  BY DEF Pos
<1>5. Pos(m) = IF m > 0 THEN m ELSE 0
  BY DEF Pos
<1>6. Pos(n) = IF n > 0 THEN n ELSE 0
  BY DEF Pos
<1>. QED
  BY <1>1, <1>2, <1>3, <1>4, <1>5, <1>6

LEMMA NextLocked == Locked /\ [Next]_vars => Locked'
<1>. SUFFICES ASSUME Locked, [Next]_vars PROVE Locked'
  OBVIOUS
<1>. USE DEF Locked, KeepCraft, LockThrottle, ClearPilotThrottle, craft, Goto, At
<1>1. CASE StartCountdown \/ Arm \/ EndPhase0 \/ EndPhase1 \/ CutOff
  BY <1>1 DEF StartCountdown, Arm, EndPhase0, EndPhase1, CutOff
<1>2. CASE Count
  <2>1. pc' \in {"count", "arm"}
    BY <1>2, Zenon DEF Count
  <2>. QED
    BY <2>1
<1>3. CASE EndCoast \/ EndTouchUp \/ HandBack
  BY <1>3 DEF EndCoast, EndTouchUp, HandBack
<1>4. CASE RemoveNode \/ PlanNode \/ TakeNode
  BY <1>4 DEF RemoveNode, PlanNode, TakeNode
<1>5. CASE StartBurn \/ Trim("burn1", "burn2") \/ Trim("burn2", "burn3")
  BY <1>5 DEF StartBurn, Trim
<1>6. CASE EndBurn \/ Release \/ Finish
  BY <1>6 DEF EndBurn, Release, Finish
<1>7. CASE Trigger
  BY <1>7 DEF Trigger, script
<1>8. CASE TriggerEnds \/ MakeNode
  BY <1>8 DEF TriggerEnds, MakeNode, script
<1>9. CASE Tick
  BY <1>9 DEF Tick, Flies
<1>10. CASE UNCHANGED vars
  BY <1>10 DEF vars, script
<1>. QED
  BY <1>1, <1>2, <1>3, <1>4, <1>5, <1>6, <1>7, <1>8, <1>9, <1>10 DEF Next, Mainline

LEMMA CarrierFacts ==
  ASSUME FuelEnough, Typed, NEW e \in Carriers
  PROVE  /\ e \in Engines /\ design.engines[e].lit = design.payload
         /\ design.engines[e].shed < design.payload /\ ~design.engines[e].solid
         /\ fuel[e] \in Nat /\ design.engines[e].fuel \in Nat
         /\ \A climb \in {0, mission.terrain + mission.lag, mission.entry + mission.lag, mission.final} :
              design.engines[e].fuel >= climb + mission.drag + MaxDv + 14
<1>1. e \in Engines /\ Carries(design, e) /\ design \in Designs /\ mission \in Missions
  BY DEF Carriers, Typed, Flown
<1>2. fuel[e] \in Nat /\ design.engines[e].fuel \in Nat
  BY <1>1, EngineFacts DEF Typed, TypeOK
<1>. QED
  BY <1>1, <1>2 DEF FuelEnough, Carries, Engines

LEMMA Scales ==
  ASSUME FuelEnough, Typed
  PROVE  /\ MaxDv \in Nat /\ mission.lag \in Nat /\ mission.drag \in Nat /\ mission.final \in Int
         /\ mission.entry \in Int /\ mission.terrain \in Int
         /\ design.payload \in Nat /\ stageNum \in Nat /\ design.payload < design.top
         /\ \A s \in design.clamps : design.payload <= s
         /\ Carriers # {}
<1>1. design \in Designs /\ mission \in Missions
  BY DEF Typed, Flown
<1>2. \E e \in DOMAIN design.engines : Carries(design, e)
  BY <1>1 DEF FuelEnough
<1>3. design.top \in Nat /\ stageNum \in Nat
  BY <1>1, DesignAssumption DEF Typed, TypeOK
<1>. QED
  BY <1>1, <1>2, <1>3, MissionAssumption, DesignAssumption DEF FuelEnough, Carriers, Engines

(* While the payload stage has fuel the trigger finds nothing to do.       *)
LEMMA TriggerSpares ==
  ASSUME FuelEnough, Typed, FuelInv, Trigger, stageNum = design.payload
  PROVE  UNCHANGED craft /\ staging' = staging
<1>1. \A e \in Carriers : Lit(e) /\ fuel[e] > 0
  <2>. TAKE e \in Carriers
  <2>1. Needed \in Nat /\ Needed >= 1
    <3>1. Lost \in Nat
      BY DEF Lost
    <3>2. Pos(dv - 2) \in Nat /\ Pos(dv - 1) \in Nat /\ Pos(dv) \in Nat /\ MaxDv \in Nat
      BY Scales DEF Pos, Typed, TypeOK
    <3>3. Needed \in Nat
      BY <3>1, <3>2 DEF Needed
    <3>4. Needed >= 1
      BY <3>1, <3>2 DEF Needed
    <3>. QED
      BY <3>3, <3>4
  <2>2. fuel[e] >= Needed
    <3>1. Reserve(e) /\ pc # "aborted"
      BY DEF FuelInv, Trigger
    <3>. QED
      BY <3>1 DEF Reserve
  <2>3. Lit(e)
    BY CarrierFacts, Scales DEF Lit, Attached
  <2>. QED
    BY <2>1, <2>2, <2>3, CarrierFacts
<1>2. MaxThrust # {}
  BY <1>1, Scales DEF MaxThrust, Carriers
<1>3. ~EngineFlameout
  <2>. SUFFICES ASSUME NEW f \in Engines, Lit(f) PROVE fuel[f] # 0
    BY DEF EngineFlameout, Flameout
  <2>1. f \in Carriers
    BY DEF Carriers, Carries, Lit, Attached
  <2>. QED
    BY <1>1, <2>1
<1>. QED
  BY <1>2, <1>3 DEF Trigger, KeepCraft

(* While the payload stage is on, nothing stages it away.                  *)
LEMMA StagesAbove ==
  ASSUME FuelEnough, Typed, CountInv, FuelInv, [Next]_vars
  PROVE  \/ stageNum' = stageNum
         \/ stageNum > design.payload /\ stageNum' = stageNum - 1
<1>1. stageNum >= design.payload /\ stageNum \in Nat /\ design.payload \in Nat
  BY Scales DEF FuelInv, PayloadKept
<1>2. CASE Count /\ Stage
  <2>1. /\ pc = "count" /\ Releases \in Nat /\ stageNum = design.top - Staged /\ countdown \in Nat
        /\ Releases <= design.top /\ design.top \in Nat
    BY <1>2, ReleasesBounds DEF Count, At, CountInv, Typed, TypeOK
  <2>2. stageNum > design.payload
    <3>1. CASE design.clamps = {}
      BY <2>1, <3>1, ReleasesBounds, Scales DEF Staged, Typed
    <3>2. CASE design.clamps # {}
      <4>1. design.top - Releases >= design.payload
        BY <3>2, ReleasesBounds, Scales DEF Typed
      <4>. QED
        BY <2>1, <4>1, Scales DEF Staged
    <3>. QED
      BY <3>1, <3>2
  <2>. QED
    BY <1>1, <1>2, <2>2 DEF Stage
<1>3. CASE Trigger /\ Stage
  BY <1>1, <1>3, TriggerSpares DEF Stage, craft
<1>4. CASE Tick
  BY <1>4 DEF Tick, Flies
<1>. QED
  BY <1>2, <1>3, <1>4, StepKinds

LEMMA NextClimb ==
  ASSUME FuelEnough, Typed, Climb, [Next]_vars
  PROVE  Climb'
<1>1. /\ alt \in Nat /\ apo \in Nat /\ drag \in Nat /\ dv \in Int
      /\ mission.lag \in Nat /\ mission.drag \in Nat /\ MaxDv \in Nat
  BY Scales DEF Typed, TypeOK
<1>2. mission' = mission
  BY FlownKept DEF Typed
<1>3. CASE Tick
  <2>1. Flies
    BY <1>3 DEF Tick
  <2>2. CASE Thrust
    <3>1. dv' \in Int /\ dv' <= dv
      BY <1>1, <2>1, <2>2 DEF Flies
    <3>2. apo' = apo + 1 /\ drag' = drag /\ alt' = IF alt + mission.lag < apo + 1 THEN alt + 1 ELSE alt
      BY <2>1, <2>2 DEF Flies
    <3>. QED
      BY <1>1, <1>2, <3>1, <3>2 DEF Climb
  <2>3. CASE ~Thrust
    <3>1. dv' = dv
      BY <2>1, <2>3 DEF Flies
    <3>3. UNCHANGED <<apo, drag>> \/ (apo' = apo - 1 /\ drag' = drag - 1)
      BY <2>1, <2>3, Zenon DEF Flies
    <3>2. alt' = alt \/ alt' = alt + 1
      BY <2>1, <2>3 DEF Flies
    <3>. QED
      BY <1>1, <1>2, <3>1, <3>2, <3>3 DEF Climb
  <2>. QED
    BY <2>2, <2>3
<1>4. CASE TakeNode
  BY <1>1, <1>2, <1>4 DEF TakeNode, Climb, KeepCraft, craft
<1>5. ASSUME UNCHANGED <<alt, apo, drag, dv>> PROVE Climb'
  BY <1>2, <1>5 DEF Climb
<1>. USE DEF KeepCraft, LockThrottle, ClearPilotThrottle, craft
<1>6. CASE StartCountdown \/ Count \/ Arm \/ EndPhase0 \/ EndPhase1 \/ CutOff \/ EndCoast \/ EndTouchUp \/ HandBack
  BY <1>5, <1>6 DEF StartCountdown, Count, Arm, EndPhase0, EndPhase1, CutOff, EndCoast, EndTouchUp, HandBack
<1>7. CASE RemoveNode \/ PlanNode \/ StartBurn
  BY <1>5, <1>7 DEF RemoveNode, PlanNode, StartBurn
<1>8. CASE Trim("burn1", "burn2") \/ Trim("burn2", "burn3") \/ EndBurn \/ Release \/ Finish
  BY <1>5, <1>8 DEF Trim, EndBurn, Release, Finish
<1>9. CASE Trigger \/ TriggerEnds \/ MakeNode \/ UNCHANGED vars
  BY <1>5, <1>9 DEF Trigger, TriggerEnds, MakeNode, vars
<1>. QED
  BY <1>3, <1>4, <1>6, <1>7, <1>8, <1>9 DEF Next, Mainline

(* What is needed at the labels of the ascent, of the coast and of the     *)
(* burn; it never exceeds what a full payload stage has to spare.          *)
LEMMA NeededBounds ==
  ASSUME FuelEnough, Typed, Climb
  PROVE  /\ Lost \in 0..2 /\ Needed \in Nat /\ Needed <= MaxDv + 14
         /\ Pos(dv - 2) \in Nat /\ Pos(dv - 1) \in Nat /\ Pos(dv) \in Nat
         /\ Pos(dv - 2) <= MaxDv /\ Pos(dv - 1) <= MaxDv /\ Pos(dv) <= MaxDv
<1>1. Lost \in 0..2
  BY DEF Lost
<1>2. /\ Pos(dv - 2) \in Nat /\ Pos(dv - 1) \in Nat /\ Pos(dv) \in Nat /\ MaxDv \in Nat
      /\ Pos(dv - 2) <= MaxDv /\ Pos(dv - 1) <= MaxDv /\ Pos(dv) <= MaxDv
  BY Scales DEF Pos, Typed, TypeOK, Climb
<1>3. Needed \in Nat /\ Needed <= MaxDv + 14
  BY <1>1, <1>2 DEF Needed
<1>. QED
  BY <1>1, <1>2, <1>3

(* Between two ticks the script passes each wait at most once and gives up *)
(* no more than what was set aside for it.                                 *)
LEMMA NeededFalls ==
  ASSUME FuelEnough, Typed, FuelInv, Climb', Typed', [Next]_vars, ~Tick, stageNum = design.payload,
         pc \notin {"window", "count", "aborted"}, pc' # "aborted"
  PROVE  Needed' <= Needed
<1>1. MaxDv \in Nat /\ dv \in Int
  BY Scales DEF Typed, TypeOK
<1>2. Lost \in 0..2 /\ Lost' \in 0..2 /\ Needed \in Nat
  BY NeededBounds DEF Lost, FuelInv
<1>3. /\ Pos(dv - 2) \in Nat /\ Pos(dv - 1) \in Nat /\ Pos(dv) \in Nat
      /\ Pos(dv - 2) <= MaxDv /\ Pos(dv - 1) <= MaxDv /\ Pos(dv) <= MaxDv
  BY NeededBounds DEF FuelInv
<1>4. ASSUME ~rest, ~staging PROVE Lost = 0
  BY <1>4 DEF Lost
<1>5. ASSUME staging' = staging, ~staging PROVE Lost' <= 1
  BY <1>5 DEF Lost
<1>. USE DEF KeepCraft, LockThrottle, ClearPilotThrottle, craft, KeepTrigger, Goto, At
<1>6. CASE Arm \/ EndPhase0 \/ EndPhase1 \/ CutOff \/ EndCoast \/ EndTouchUp
  <2>1. Lost = 0 /\ Lost' <= 1
    BY <1>4, <1>5, <1>6 DEF Arm, EndPhase0, EndPhase1, CutOff, EndCoast, EndTouchUp
  <2>2. CASE Arm \/ EndPhase0 \/ EndPhase1
    BY <1>1, <1>2, <2>1, <2>2 DEF Arm, EndPhase0, EndPhase1, Needed
  <2>3. CASE CutOff \/ EndCoast \/ EndTouchUp
    BY <1>1, <1>2, <2>1, <2>3 DEF CutOff, EndCoast, EndTouchUp, Needed
  <2>. QED
    BY <1>6, <2>2, <2>3
<1>7. CASE HandBack \/ RemoveNode \/ PlanNode \/ TakeNode
  BY <1>1, <1>7 DEF HandBack, RemoveNode, PlanNode, TakeNode, Needed
<1>8. CASE StartBurn
  <2>1. Lost' <= 1 /\ dv' = dv
    BY <1>5, <1>8 DEF StartBurn
  <2>. QED
    BY <1>1, <1>2, <1>3, <1>8, <2>1 DEF StartBurn, Needed
<1>9. CASE Trim("burn1", "burn2")
  <2>1. pc = "burn1" /\ pc' = "burn2" /\ Lost = 0 /\ Lost' <= 1 /\ dv' = dv /\ Near(2)
    BY <1>4, <1>5, <1>9 DEF Trim, Waited
  <2>2. Pos(dv - 1) <= 1
    BY <1>1, <2>1 DEF Near, Pos
  <2>. QED
    BY <1>1, <1>2, <1>3, <2>1, <2>2 DEF Needed
<1>10. CASE Trim("burn2", "burn3")
  <2>1. pc = "burn2" /\ pc' = "burn3" /\ Lost = 0 /\ Lost' <= 1 /\ dv' = dv /\ Near(1)
    BY <1>4, <1>5, <1>10 DEF Trim, Waited
  <2>2. Pos(dv) <= 1
    BY <1>1, <2>1 DEF Near, Pos
  <2>. QED
    BY <1>1, <1>2, <1>3, <2>1, <2>2 DEF Needed
<1>11. CASE EndBurn \/ Release \/ Finish
  <2>1. pc' \in {"release", "released", "done"}
    BY <1>11 DEF EndBurn, Release, Finish
  <2>2. Needed' = 1
    BY <2>1 DEF Needed
  <2>3. Needed >= 1
    BY <1>1, <1>2, <1>3 DEF Needed
  <2>. QED
    BY <2>2, <2>3
<1>12. ASSUME pc' = pc, dv' = dv, Lost' <= Lost PROVE Needed' <= Needed
  BY <1>1, <1>2, <1>3, <1>12 DEF Needed
<1>13. CASE Trigger
  <2>1. pc' = pc /\ dv' = dv /\ rest' = rest
    BY <1>13 DEF Trigger, script
  <2>2. Lost' = Lost
    BY <1>13, <2>1, TriggerSpares DEF Lost
  <2>. QED
    BY <1>2, <1>12, <2>1, <2>2
<1>14. CASE TriggerEnds \/ MakeNode \/ UNCHANGED vars
  <2>1. pc' = pc /\ dv' = dv /\ rest' = rest /\ ready' = ready
    BY <1>14 DEF TriggerEnds, MakeNode, script, vars
  <2>2. staging' = staging \/ staging' = FALSE
    BY <1>14 DEF TriggerEnds, MakeNode, vars
  <2>3. Lost' <= Lost
    BY <2>1, <2>2 DEF Lost
  <2>. QED
    BY <1>12, <2>1, <2>3
<1>. QED
  BY <1>6, <1>7, <1>8, <1>9, <1>10, <1>11, <1>13, <1>14 DEF Next, Mainline, StartCountdown, Count

LEMMA NeededAfter ==
  ASSUME FuelEnough, Typed', Climb'
  PROVE  Needed' \in Nat /\ Needed' <= MaxDv + 14
<1>1. Lost' \in 0..2
  BY DEF Lost
<1>2. MaxDv \in Nat /\ dv' \in Int /\ dv' <= MaxDv
  BY DesignAssumption DEF Typed, TypeOK, Climb
<1>3. /\ Pos(dv' - 2) \in Nat /\ Pos(dv' - 1) \in Nat /\ Pos(dv') \in Nat
      /\ Pos(dv' - 2) <= MaxDv /\ Pos(dv' - 1) <= MaxDv /\ Pos(dv') <= MaxDv
  <2>. MaxDv \in Int
    BY <1>2
  <2>. QED
    BY <1>2, PosFacts, Zenon
<1>4. Needed' \in Nat
  BY <1>1, <1>2, <1>3 DEF Needed
<1>5. Needed' <= MaxDv + 14
  BY <1>1, <1>2, <1>3 DEF Needed
<1>. QED
  BY <1>4, <1>5

(* What a payload engine has left beyond the climb so far: enough for any  *)
(* step of the ascent that still waits.                                    *)
LEMMA ClimbReserve ==
  ASSUME FuelEnough, Typed, FuelInv, NEW e \in Carriers, ~Waited,
         pc \in {"phase0", "phase1", "phase2", "touchup"}
  PROVE  fuel[e] >= MaxDv + 14
<1>1. /\ alt \in Nat /\ apo \in Nat /\ drag \in Nat
      /\ MaxDv \in Nat /\ mission.lag \in Nat /\ mission.drag \in Nat /\ mission.final \in Int
      /\ mission.entry \in Int /\ mission.terrain \in Int
  BY Scales DEF Typed, TypeOK
<1>2. fuel[e] \in Nat /\ design.engines[e].fuel \in Nat
  BY CarrierFacts
<1>3. apo <= alt + mission.lag /\ design.engines[e].fuel <= fuel[e] + apo + (mission.drag - drag)
  BY DEF FuelInv, Climb, Reserve
<1>4. PICK climb \in {mission.terrain + mission.lag, mission.entry + mission.lag, mission.final} : apo <= climb
  <2>1. CASE pc = "phase0"
    <3>1. alt <= mission.terrain \/ alt <= mission.entry
      BY <1>1, <2>1 DEF Waited, Cleared
    <3>. QED
      BY <1>1, <1>3, <3>1
  <2>2. CASE pc = "phase1"
    BY <1>1, <1>3, <2>2 DEF Waited
  <2>3. CASE pc \in {"phase2", "touchup"}
    <3>1. apo <= mission.final
      BY <1>1, <2>3 DEF Waited
    <3>. QED
      BY <3>1
  <2>. QED
    BY <2>1, <2>2, <2>3
<1>5. design.engines[e].fuel >= climb + mission.drag + MaxDv + 14
  BY CarrierFacts
<1>6. climb \in Int
  BY <1>1
<1>. QED
  BY <1>1, <1>2, <1>3, <1>4, <1>5, <1>6

(* A tick that burns payload fuel is paid for.                             *)
LEMMA TickReserve ==
  ASSUME FuelEnough, Typed, Typed', ThrottleInv, FuelInv, Climb', Tick, NEW e \in Carriers,
         stageNum = design.payload, pc \notin {"window", "count"}
  PROVE  fuel'[e] >= Needed'
<1>1. /\ fuel[e] \in Nat /\ MaxDv \in Nat /\ dv \in Int /\ dv' \in Int /\ Needed \in Nat
      /\ Lost \in 0..2 /\ fuel[e] >= Needed
  <2>1. fuel[e] >= Needed
    <3>1. pc # "aborted" /\ Reserve(e)
      BY DEF Tick, Ended, FuelInv
    <3>. QED
      BY <3>1 DEF Reserve
  <2>2. Needed \in Nat /\ Lost \in 0..2
    BY NeededBounds DEF FuelInv
  <2>. QED
    BY <2>1, <2>2, CarrierFacts, Scales DEF Typed, TypeOK
<1>2. pc' = pc /\ (pc # "approach" => Lost' = 0)
  BY DEF Tick, Flies, Lost
<1>3. fuel'[e] = IF Burns(e) THEN fuel[e] - 1 ELSE fuel[e]
  BY CarrierFacts DEF Tick, Flies
<1>4. dv' <= dv
  <2>1. CASE Thrust
    BY <1>1, <2>1 DEF Tick, Flies
  <2>2. CASE ~Thrust
    BY <1>1, <2>2 DEF Tick, Flies
  <2>. QED
    BY <2>1, <2>2
<1>5. /\ Pos(dv' - 2) \in Nat /\ Pos(dv' - 1) \in Nat /\ Pos(dv') \in Nat
      /\ Pos(dv - 2) \in Nat /\ Pos(dv - 1) \in Nat /\ Pos(dv) \in Nat
      /\ Pos(dv' - 2) <= Pos(dv - 2) /\ Pos(dv' - 1) <= Pos(dv - 1) /\ Pos(dv') <= Pos(dv)
  BY <1>1, <1>4, PosFacts, Zenon
<1>6. Needed' \in Nat /\ Needed' <= Needed
  <2>1. Needed' \in Nat
    BY <1>1, <1>2, <1>5 DEF Needed
  <2>2. Needed' <= Needed
    BY <1>1, <1>2, <1>5 DEF Needed
  <2>. QED
    BY <2>1, <2>2
<1>7. CASE ~Burns(e)
  BY <1>1, <1>3, <1>6, <1>7
<1>8. CASE Burns(e)
  <2>1. Throttled
    BY <1>8, CarrierFacts DEF Burns
  <2>2. pc \in {"arm", "phase0", "phase1", "phase2", "touchup", "burn1", "burn2", "burn3"}
    <3>1. pc \notin {"coast", "handback", "clear", "execute", "approach", "release"}
      BY <2>1 DEF FuelInv, Locked, Throttled
    <3>2. pc # "released"
      BY <2>1 DEF FuelInv, Locked, Throttled, ThrottleInv, HandedBack
    <3>3. pc \in Labels /\ pc \notin {"done", "aborted"}
      BY DEF Tick, Ended, Typed, TypeOK
    <3>. QED
      BY <3>1, <3>2, <3>3 DEF Labels
  <2>3. CASE Lost > 0
    <3>1. Needed' <= Needed - 1
      BY <1>1, <1>2, <1>5, <2>2, <2>3 DEF Needed
    <3>. QED
      BY <1>1, <1>3, <1>6, <1>8, <3>1
  <2>4. CASE Lost = 0
    <3>1. ~Waited
      BY <2>4 DEF Lost, Tick
    <3>2. CASE pc \in {"phase0", "phase1", "phase2", "touchup"}
      <4>1. fuel[e] >= MaxDv + 14
        BY <3>1, <3>2, ClimbReserve
      <4>2. Needed' <= MaxDv + 11
        BY <1>1, <1>2, <3>2 DEF Needed
      <4>. QED
        BY <1>1, <1>3, <1>6, <1>8, <4>1, <4>2
    <3>3. Thrust
      <4>1. ~Clamped
        BY Scales, Clamps DEF Clamped, Typed, Flown
      <4>. QED
        BY <4>1, <1>8, CarrierFacts DEF Thrust
    <3>4. CASE pc = "burn1"
      <4>1. dv > 2
        BY <1>1, <3>1, <3>4 DEF Waited, Near
      <4>2. dv' <= dv - 1
        BY <1>1, <3>3, <3>4 DEF Tick, Flies, FuelInv, Locked
      <4>3. Pos(dv' - 2) <= Pos(dv - 2) - 1
        <5>1. dv' < dv
          BY <1>1, <4>2
        <5>. QED
          BY <1>1, <1>4, <4>1, <5>1, PosFacts, Zenon
      <4>4. Needed' <= Needed - 1
        BY <1>1, <1>2, <1>5, <3>4, <4>3 DEF Needed
      <4>. QED
        BY <1>1, <1>3, <1>6, <1>8, <4>4
    <3>5. CASE pc \in {"burn2", "burn3"}
      <4>1. dv > 0 /\ (pc = "burn2" => dv > 1)
        BY <1>1, <3>1, <3>5 DEF Waited, Near
      <4>2. dv' = dv - 1
        BY <1>1, <3>3, <3>5 DEF Tick, Flies, FuelInv, Locked
      <4>3. Pos(dv') <= Pos(dv) - 1 /\ (pc = "burn2" => Pos(dv' - 1) <= Pos(dv - 1) - 1)
        BY <1>1, <4>1, <4>2 DEF Pos
      <4>4. Needed' <= Needed - 1
        BY <1>1, <1>2, <1>5, <3>5, <4>3 DEF Needed
      <4>. QED
        BY <1>1, <1>3, <1>6, <1>8, <4>4
    <3>6. pc # "arm"
      BY <3>1 DEF Waited
    <3>. QED
      BY <2>2, <3>2, <3>4, <3>5, <3>6
  <2>. QED
    BY <1>1, <2>3, <2>4
<1>. QED
  BY <1>7, <1>8

(* Only physics moves the vessel.                                          *)
LEMMA OffTick ==
  ASSUME [Next]_vars, ~Tick
  PROVE  UNCHANGED <<apo, drag>> /\ (pc = "aborted" => pc' = "aborted")
<1>. USE DEF KeepCraft, LockThrottle, ClearPilotThrottle, craft, At
<1>1. CASE StartCountdown \/ Count \/ Arm \/ EndPhase0 \/ EndPhase1 \/ CutOff \/ EndCoast \/ EndTouchUp \/ HandBack
  BY <1>1 DEF StartCountdown, Count, Arm, EndPhase0, EndPhase1, CutOff, EndCoast, EndTouchUp, HandBack
<1>2. CASE RemoveNode \/ PlanNode \/ TakeNode \/ StartBurn
  BY <1>2 DEF RemoveNode, PlanNode, TakeNode, StartBurn
<1>3. CASE Trim("burn1", "burn2") \/ Trim("burn2", "burn3") \/ EndBurn \/ Release \/ Finish
  BY <1>3 DEF Trim, EndBurn, Release, Finish
<1>4. CASE Trigger \/ TriggerEnds \/ MakeNode \/ UNCHANGED vars
  BY <1>4 DEF Trigger, TriggerEnds, MakeNode, script, vars
<1>. QED
  BY <1>1, <1>2, <1>3, <1>4 DEF Next, Mainline

LEMMA NextReserve ==
  ASSUME FuelEnough, Typed, Typed', ThrottleInv, CountInv, FuelInv, Climb', [Next]_vars, NEW e \in Carriers
  PROVE  Reserve(e)'
<1>1. /\ design' = design /\ mission' = mission /\ e \in Engines
      /\ stageNum \in Nat /\ design.payload \in Nat /\ stageNum >= design.payload
      /\ fuel[e] \in Nat /\ design.engines[e].fuel \in Nat /\ apo \in Nat /\ drag \in Nat
      /\ mission.drag \in Nat
  BY FlownKept, CarrierFacts, Scales DEF Typed, TypeOK, FuelInv, PayloadKept
<1>2. Reserve(e)
  BY DEF FuelInv
<1>3. stageNum = design.payload => pc \notin {"window", "count"}
  <2>. SUFFICES ASSUME pc \in {"window", "count"} PROVE stageNum > design.payload
    BY <1>1
  <2>1. CASE pc = "window"
    BY <2>1, <1>1, Scales DEF CountInv
  <2>2. CASE pc = "count"
    <3>1. /\ Releases \in Nat /\ stageNum = design.top - Staged /\ countdown \in Nat
          /\ Releases <= design.top /\ design.top \in Nat
      BY <2>2, ReleasesBounds DEF CountInv, Typed, TypeOK
    <3>2. CASE design.clamps = {}
      BY <3>1, <3>2, ReleasesBounds, Scales DEF Staged, Typed
    <3>3. CASE design.clamps # {}
      <4>1. design.top - Releases >= design.payload
        BY <3>3, ReleasesBounds, Scales DEF Typed
      <4>. QED
        BY <3>1, <4>1, Scales DEF Staged
    <3>. QED
      BY <3>2, <3>3
  <2>. QED
    BY <2>1, <2>2
<1>4. CASE Tick
  <2>1. stageNum' = stageNum /\ pc' = pc /\ Flies
    BY <1>4 DEF Tick, Flies
  <2>2. fuel'[e] = IF Burns(e) THEN fuel[e] - 1 ELSE fuel[e]
    BY <1>1, <2>1 DEF Flies
  <2>3. Burns(e) => stageNum = design.payload
    BY <1>1, CarrierFacts DEF Burns, MaxThrust, Lit
  <2>4. Burns(e) => Thrust
    <3>. SUFFICES ASSUME Burns(e) PROVE Thrust
      OBVIOUS
    <3>1. ~Clamped
      BY <2>3, Scales, Clamps DEF Clamped, Typed, Flown
    <3>. QED
      BY <3>1, <1>1 DEF Thrust
  <2>5. \/ Thrust /\ apo' = apo + 1 /\ drag' = drag
        \/ ~Thrust /\ UNCHANGED <<apo, drag>>
        \/ ~Thrust /\ apo' = apo - 1 /\ drag' = drag - 1
    BY <2>1, Zenon DEF Flies
  <2>6. design.engines[e].fuel <= fuel'[e] + apo' + (mission.drag - drag')
    BY <1>1, <1>2, <2>2, <2>4, <2>5 DEF Reserve
  <2>7. stageNum > design.payload => fuel'[e] = design.engines[e].fuel
    BY <1>1, <1>2, <2>2, <2>3 DEF Reserve
  <2>8. stageNum = design.payload => fuel'[e] >= Needed'
    BY <1>3, <1>4, TickReserve
  <2>. QED
    BY <1>1, <2>1, <2>6, <2>7, <2>8 DEF Reserve
<1>5. CASE ~Tick
  <2>1. fuel' = fuel /\ UNCHANGED <<apo, drag>>
    BY <1>5, StepKinds, OffTick
  <2>2. ASSUME stageNum' = design.payload, pc' # "aborted" PROVE fuel[e] >= Needed'
    <3>1. CASE stageNum = design.payload
      <4>1. pc # "aborted" /\ Needed' <= Needed
        BY <1>3, <1>5, <2>2, <3>1, OffTick, NeededFalls
      <4>2. Needed \in Nat /\ Needed' \in Nat
        BY NeededBounds, NeededAfter DEF FuelInv
      <4>. QED
        BY <1>1, <1>2, <3>1, <4>1, <4>2 DEF Reserve
    <3>2. CASE stageNum > design.payload
      <4>1. fuel[e] = design.engines[e].fuel
        BY <1>2, <3>2 DEF Reserve
      <4>2. fuel[e] >= MaxDv + 14 /\ MaxDv \in Nat
        BY <1>1, <4>1, CarrierFacts, Scales
      <4>3. Needed' \in Nat /\ Needed' <= MaxDv + 14
        BY NeededAfter
      <4>. QED
        BY <1>1, <4>2, <4>3
    <3>. QED
      BY <1>1, <3>1, <3>2
  <2>3. stageNum' > design.payload => stageNum > design.payload
    BY <1>1, StagesAbove
  <2>. QED
    BY <1>1, <1>2, <2>1, <2>2, <2>3 DEF Reserve
<1>. QED
  BY <1>4, <1>5

LEMMA NextFuel ==
  FuelEnough /\ Typed /\ Typed' /\ ThrottleInv /\ CountInv /\ FuelInv /\ [Next]_vars => FuelInv'
<1>. SUFFICES ASSUME FuelEnough, Typed, Typed', ThrottleInv, CountInv, FuelInv, [Next]_vars PROVE FuelInv'
  OBVIOUS
<1>1. Climb' /\ Locked'
  BY NextClimb, NextLocked DEF FuelInv
<1>2. design' = design /\ Carriers' = Carriers
  BY FlownKept DEF Typed, Carriers, Engines
<1>3. PayloadKept'
  BY <1>2, StagesAbove, Scales DEF FuelInv, PayloadKept
<1>4. \A e \in Carriers : Reserve(e)'
  BY <1>1, NextReserve
<1>. QED
  BY <1>1, <1>2, <1>3, <1>4 DEF FuelInv

LEMMA InitFuel == ASSUME FuelEnough PROVE Init => FuelInv
<1>. SUFFICES ASSUME Init PROVE FuelInv
  OBVIOUS
<1>1. Typed
  BY InitTyped
<1>2. /\ stageNum = design.top /\ apo = 0 /\ alt = 0 /\ dv = 0 /\ drag = mission.drag /\ pc = "window"
      /\ fuel = [e \in Engines |-> design.engines[e].fuel]
  BY DEF Init, CraftInit
<1>3. Climb /\ Locked
  BY <1>1, <1>2, Scales DEF Climb, Locked
<1>4. PayloadKept /\ stageNum > design.payload
  BY <1>1, <1>2, Scales DEF PayloadKept
<1>5. \A e \in Carriers : Reserve(e)
  BY <1>1, <1>2, <1>4, Scales, CarrierFacts DEF Reserve
<1>. QED
  BY <1>3, <1>4, <1>5 DEF FuelInv

(* The payload is not staged away however long a flight takes, when its    *)
(* stage carries fuel for the ascent, the burn and the ticks that waits    *)
(* and kOS's own pace waste.  Without that the trigger, which launch.ks    *)
(* never removes, takes the empty stage off in the middle of a burn.       *)
THEOREM PayloadAlwaysKept == ASSUME FuelEnough PROVE Spec => []PayloadKept
<1>1. Init => ThrottleInv
  BY DEF Init, CraftInit, ThrottleInv, HandedBack
<1>2. Init => FuelInv
  BY InitFuel
<1>3. Typed /\ Typed' /\ ThrottleInv /\ CountInv /\ FuelInv /\ [Next]_vars => FuelInv'
  BY NextFuel
<1>4. FuelInv => PayloadKept
  BY DEF FuelInv
<1>. QED
  BY <1>1, <1>2, <1>3, <1>4, InitTyped, NextTyped, OnlyCircEverFlown, NextThrottle, InitCount, NextCount, PTL
     DEF Spec
===============================================================================
