-------------------------- MODULE MissionLinkProofs --------------------------
(***************************************************************************)
(* Theorems about MissionLink, for any CPUs and scripts, any deadline and  *)
(* any number of sessions, dispatches, loads, deaths, switches and cuts.   *)
(***************************************************************************)
EXTENDS MissionLink, FiniteSetTheorems, SequenceTheorems, TLAPS

LEMMA Bounds ==
  /\ Deadline \in Nat /\ MaxGap \in Nat \ {0}
  /\ MaxDispatch \in Nat /\ MaxBoot \in Nat
  BY LinkAssumption

USE Bounds

-----------------------------------------------------------------------------
(* What one step of the server does to the watchdog.                       *)
WatchStep ==
  \/ UNCHANGED watchdog
  \/ WD!WallPasses
  \/ WD!PingDue
  \/ \E path \in Paths : WD!OnDispatch(path)
  \/ \E path \in Paths, boot \in Boots : WD!OnDone(path, boot)
  \/ \E boot \in Boots, path \in Scripts \cup {None}, onActive \in BOOLEAN :
       WD!OnHeartbeat(boot, path, onActive)
  \/ WD!TakeSample(ut) /\ (WD!Unmoved \/ WD!Rewind \/ WD!Advance)

LEMMA CountedBound == WD!TypeOK => WD!Counted \in 0..MaxGap /\ WD!Counted <= sinceSample
  BY DEF WD!TypeOK, WD!Counted, WD!AtMost

LEMMA SampleTyped ==
  ASSUME WD!TypeOK, ut \in UT, WD!TakeSample(ut), WD!Unmoved \/ WD!Rewind \/ WD!Advance
  PROVE  WD!TypeOK'
<1>1. lastUt' \in UT \cup {None} /\ sinceSample' \in 0..MaxGap + 1
      /\ utAtLastPing' \in UT \cup {None}
  BY DEF WD!TakeSample, WD!TypeOK
<1>2. CASE WD!Unmoved
  BY <1>1, <1>2 DEF WD!Unmoved, WD!TypeOK, WD!watching, WD!linking
<1>3. CASE WD!Rewind
  <2>1. reported' \subseteq WD!Failure
    BY <1>3 DEF WD!Rewind, WD!TypeOK, WD!Failed, WD!Failure, WD!Entry, WD!Reasons
  <2>. QED
    BY <1>1, <1>3, <2>1 DEF WD!Rewind, WD!LinkDown, WD!NoLink, WD!TypeOK, WD!KosLink
<1>4. CASE WD!Advance
  <2>1. entries' \subseteq WD!Entry
    <3>1. SUFFICES ASSUME NEW f \in entries, ~WD!Silent(f)
                   PROVE  [f EXCEPT !.silence = @ + WD!Counted] \in WD!Entry
      BY <1>4 DEF WD!Advance
    <3>2. f \in WD!Entry
      BY DEF WD!TypeOK
    <3>3. f.silence + WD!Counted \in 0..Deadline
      BY <3>1, <3>2, CountedBound DEF WD!Entry, WD!Silent
    <3>. QED
      BY <3>2, <3>3 DEF WD!Entry
  <2>2. reported' \subseteq WD!Failure
    BY <1>4 DEF WD!Advance, WD!TypeOK, WD!Failed, WD!Failure, WD!Entry, WD!Reasons
  <2>3. link' \in WD!KosLink /\ linkBoot' \in Boots \cup {None}
    <3>1. CASE WD!LinkDown
      BY <3>1 DEF WD!LinkDown, WD!NoLink, WD!KosLink
    <3>2. CASE UNCHANGED <<link, linkBoot>>
      BY <3>2 DEF WD!TypeOK
    <3>. QED
      BY <1>4, <3>1, <3>2 DEF WD!Advance, WD!linking
  <2>4. linkSilence' \in 0..Deadline
    BY <1>4, CountedBound DEF WD!Advance, WD!TypeOK, WD!LinkDown, WD!linking
  <2>5. dispatched' \in 0..MaxDispatch
    BY <1>4 DEF WD!Advance, WD!TypeOK
  <2>. QED
    BY <1>1, <2>1, <2>2, <2>3, <2>4, <2>5 DEF WD!TypeOK
<1>. QED
  BY <1>2, <1>3, <1>4

(* The watchdog keeps its types whatever a step of the server does to it.  *)
LEMMA WatchTyped == WD!TypeOK /\ ut \in UT /\ WatchStep => WD!TypeOK'
<1>. SUFFICES ASSUME WD!TypeOK, ut \in UT, WatchStep PROVE WD!TypeOK'
  OBVIOUS
<1>1. CASE UNCHANGED watchdog
  BY <1>1 DEF WD!TypeOK, watchdog
<1>2. CASE WD!WallPasses
  BY <1>2 DEF WD!WallPasses, WD!TypeOK, WD!watching, WD!linking, WD!AtMost
<1>3. CASE WD!PingDue
  BY <1>3 DEF WD!PingDue, WD!TypeOK, WD!watching, WD!linking
<1>4. ASSUME NEW path \in Paths, WD!OnDispatch(path) PROVE WD!TypeOK'
  <2>1. dispatched + 1 \in 1..MaxDispatch
    BY <1>4 DEF WD!OnDispatch, WD!TypeOK
  <2>2. WD!Stamp \in Boots \cup {None}
    BY DEF WD!Stamp, WD!TypeOK
  <2>3. entries' \subseteq WD!Entry
    BY <1>4, <2>1, <2>2 DEF WD!OnDispatch, WD!TypeOK, WD!Entry
  <2>. QED
    BY <1>4, <2>1, <2>3 DEF WD!OnDispatch, WD!TypeOK, WD!linking
<1>5. ASSUME NEW path \in Paths, NEW boot \in Boots, WD!OnDone(path, boot)
      PROVE  WD!TypeOK'
  <2>1. link' \in WD!KosLink
    BY <1>5 DEF WD!OnDone, WD!TypeOK, WD!KosLink
  <2>2. entries' \subseteq WD!Entry
    BY <1>5 DEF WD!OnDone, WD!TypeOK
  <2>. QED
    BY <1>5, <2>1, <2>2 DEF WD!OnDone, WD!TypeOK
<1>6. ASSUME NEW boot \in Boots, NEW path \in Scripts \cup {None},
             NEW onActive \in BOOLEAN, WD!OnHeartbeat(boot, path, onActive)
      PROVE  WD!TypeOK'
  <2>1. entries' \subseteq WD!Entry
    <3>1. ASSUME NEW e \in WD!Entry
          PROVE  [e EXCEPT !.boot = boot, !.silence = 0] \in WD!Entry
      <4>1. [e EXCEPT !.boot = boot] \in WD!Entry
        BY DEF WD!Entry
      <4>2. ASSUME NEW f \in WD!Entry PROVE [f EXCEPT !.silence = 0] \in WD!Entry
        BY DEF WD!Entry
      <4>. QED
        BY <4>1, <4>2
    <3>2. SUFFICES ASSUME NEW e \in entries
                   PROVE  (IF WD!Heard(e, boot, onActive)
                           THEN [e EXCEPT !.boot = boot, !.silence = 0] ELSE e) \in WD!Entry
      BY <1>6 DEF WD!OnHeartbeat
    <3>. QED
      BY <3>1 DEF WD!TypeOK
  <2>2. link' \in WD!KosLink /\ linkBoot' \in Boots \cup {None} /\ linkSilence' \in 0..Deadline
    <3>1. CASE onActive
      <4>1. link' = [up |-> TRUE, running |-> path] /\ linkBoot' = boot /\ linkSilence' = 0
        BY <1>6, <3>1 DEF WD!OnHeartbeat
      <4>2. path \in Paths \cup {None}
        BY LinkAssumption
      <4>. QED
        BY <4>1, <4>2 DEF WD!KosLink
    <3>2. CASE ~onActive
      BY <1>6, <3>2 DEF WD!OnHeartbeat, WD!TypeOK, WD!linking
    <3>. QED
      BY <3>1, <3>2
  <2>. QED
    BY <1>6, <2>1, <2>2 DEF WD!OnHeartbeat, WD!TypeOK
<1>7. CASE WD!TakeSample(ut) /\ (WD!Unmoved \/ WD!Rewind \/ WD!Advance)
  BY <1>7, SampleTyped
<1>. QED
  BY <1>1, <1>2, <1>3, <1>4, <1>5, <1>6, <1>7 DEF WatchStep

-----------------------------------------------------------------------------
(* What one step does to the game.                                         *)
CpuStep(c) ==
  \/ KOS!HandlePing(c) \/ KOS!HandleRunScript(c) \/ KOS!HeartbeatTrigger(c) \/ KOS!SendDone(c)
  \/ KOS!ScriptReturns(c) \/ KOS!Boot(c) \/ KOS!Die(c)

PostStep(c, m) == KOS!SendMessage(c, m) /\ UNCHANGED <<active, cpu, outbox, boots, saved>>

LEMMA NoneApart ==
  /\ \A run \in KOS!Run : run # None
  /\ \A path \in Paths : path # None
  /\ \A boot \in 1..MaxBoot : boot # None
  /\ None \notin Cpus
  /\ Scripts \subseteq Paths
  BY LinkAssumption DEF Boots

LEMMA CpuTyped ==
  ASSUME NEW k \in KOS!Cpu
  PROVE  /\ \A run \in KOS!Run \cup {None} : [k EXCEPT !.run = run] \in KOS!Cpu
         /\ \A path \in Scripts \cup {None} : [k EXCEPT !.hbPath = path] \in KOS!Cpu
         /\ \A beaten \in BOOLEAN : [k EXCEPT !.beaten = beaten] \in KOS!Cpu
         /\ KOS!Off(k.boot) \in KOS!Cpu
  BY DEF KOS!Cpu, KOS!Off, KOS!On

LEMMA OnTyped == \A boot \in 1..MaxBoot : KOS!On(boot) \in KOS!Cpu
  BY DEF KOS!Cpu, KOS!On

(* What a CPU sends, and what it pops.                                     *)
LEMMA SentTyped ==
  ASSUME KOS!TypeOK, NEW c \in Cpus
  PROVE  /\ cpu[c] \in KOS!Cpu
         /\ KOS!Beat(c) \in KOS!Event
         /\ \A run \in KOS!Run : KOS!Done(c, run) \in KOS!Event
<1>1. cpu[c] \in KOS!Cpu
  BY DEF KOS!TypeOK
<1>2. KOS!Beat(c) \in KOS!Event
  <2>1. cpu[c].hbPath \in Scripts \cup {None} /\ cpu[c].boot \in 1..MaxBoot
    BY <1>1 DEF KOS!Cpu
  <2>. QED
    BY <2>1 DEF KOS!Beat, KOS!Event
<1>3. ASSUME NEW run \in KOS!Run PROVE KOS!Done(c, run) \in KOS!Event
  <2>1. cpu[c].boot \in 1..MaxBoot
    BY <1>1 DEF KOS!Cpu
  <2>2. run.path \in Paths /\ run.id \in 0..MaxDispatch
    BY DEF KOS!Run
  <2>. QED
    BY <2>1, <2>2 DEF KOS!Done, KOS!Event
<1>. QED
  BY <1>1, <1>2, <1>3

LEMMA PoppedTyped ==
  ASSUME KOS!TypeOK, NEW c \in Cpus, inbox[c] # <<>>
  PROVE  /\ Tail(inbox[c]) \in Seq({KOS!Ping} \cup KOS!Run)
         /\ Head(inbox[c]).op = "run_script" => Head(inbox[c]) \in KOS!Run
<1>1. inbox[c] \in Seq({KOS!Ping} \cup KOS!Run)
  BY DEF KOS!TypeOK
<1>2. Head(inbox[c]) \in {KOS!Ping} \cup KOS!Run /\ Tail(inbox[c]) \in Seq({KOS!Ping} \cup KOS!Run)
  BY <1>1
<1>. QED
  BY <1>2 DEF KOS!Ping

LEMMA CpuStepTyped ==
  ASSUME KOS!TypeOK, NEW c \in Cpus, CpuStep(c)
  PROVE  KOS!TypeOK'
<1>1. /\ cpu \in [Cpus -> KOS!Cpu] /\ cpu[c] \in KOS!Cpu
      /\ inbox \in [Cpus -> Seq({KOS!Ping} \cup KOS!Run)]
      /\ outbox \in Seq(KOS!Event) /\ saved \in Seq(KOS!Event) /\ boots \in 1..MaxBoot
      /\ active \in Cpus \cup {None}
  BY DEF KOS!TypeOK
<1>2. CASE KOS!HandlePing(c)
  BY <1>1, <1>2, SentTyped, PoppedTyped
     DEF KOS!HandlePing, KOS!Pops, KOS!PopInbox, KOS!SendEvent, KOS!TypeOK
<1>3. CASE KOS!HandleRunScript(c)
  <2>. DEFINE run == Head(inbox[c])
  <2>1. run \in KOS!Run /\ inbox' \in [Cpus -> Seq({KOS!Ping} \cup KOS!Run)]
    BY <1>1, <1>3, PoppedTyped DEF KOS!HandleRunScript, KOS!Pops, KOS!PopInbox
  <2>2. CASE run.path \in Scripts
    <3>1. [[[cpu[c] EXCEPT !.run = run] EXCEPT !.hbPath = run.path] EXCEPT !.beaten = FALSE] \in KOS!Cpu
      BY <1>1, <2>1, <2>2, CpuTyped
    <3>2. cpu' = [cpu EXCEPT ![c] = [[[cpu[c] EXCEPT !.run = run] EXCEPT !.hbPath = run.path] EXCEPT !.beaten = FALSE]]
      BY <1>1, <1>3, <2>2 DEF KOS!HandleRunScript
    <3>. QED
      BY <1>1, <1>3, <2>1, <2>2, <3>1, <3>2 DEF KOS!HandleRunScript, KOS!TypeOK
  <2>3. CASE run.path \notin Scripts
    <3>1. KOS!Done(c, run) \in KOS!Event
      BY <2>1, SentTyped
    <3>2. outbox' = Append(outbox, KOS!Done(c, run)) /\ cpu' = cpu
      BY <1>3, <2>3 DEF KOS!HandleRunScript, KOS!SendEvent
    <3>3. outbox' \in Seq(KOS!Event)
      BY <1>1, <3>1, <3>2
    <3>. QED
      BY <1>1, <1>3, <2>1, <3>2, <3>3 DEF KOS!HandleRunScript, KOS!TypeOK
  <2>. QED
    BY <2>2, <2>3
<1>4. CASE KOS!HeartbeatTrigger(c)
  <2>1. cpu' \in [Cpus -> KOS!Cpu]
    BY <1>1, <1>4, CpuTyped DEF KOS!HeartbeatTrigger
  <2>. QED
    BY <1>1, <1>4, <2>1, SentTyped DEF KOS!HeartbeatTrigger, KOS!SendEvent, KOS!TypeOK
<1>5. CASE KOS!SendDone(c)
  <2>1. cpu[c].run \in KOS!Run
    BY <1>1, <1>5 DEF KOS!SendDone, KOS!Cpu
  <2>2. cpu' \in [Cpus -> KOS!Cpu]
    BY <1>1, <1>5, CpuTyped DEF KOS!SendDone
  <2>. QED
    BY <1>1, <1>5, <2>1, <2>2, SentTyped DEF KOS!SendDone, KOS!SendEvent, KOS!TypeOK
<1>6. CASE KOS!ScriptReturns(c)
  <2>1. cpu' \in [Cpus -> KOS!Cpu]
    BY <1>1, <1>6, CpuTyped DEF KOS!ScriptReturns
  <2>. QED
    BY <1>1, <1>6, <2>1 DEF KOS!ScriptReturns, KOS!TypeOK
<1>7. CASE KOS!Boot(c)
  <2>1. boots' \in 1..MaxBoot /\ cpu' \in [Cpus -> KOS!Cpu]
    BY <1>1, <1>7, OnTyped DEF KOS!Boot
  <2>2. inbox' \in [Cpus -> Seq({KOS!Ping} \cup KOS!Run)]
    <3>1. [inbox EXCEPT ![c] = <<>>] \in [Cpus -> Seq({KOS!Ping} \cup KOS!Run)]
      BY <1>1
    <3>2. inbox' = inbox \/ inbox' = [inbox EXCEPT ![c] = <<>>]
      BY <1>7 DEF KOS!Boot
    <3>. QED
      BY <1>1, <3>1, <3>2
  <2>. QED
    BY <1>1, <1>7, <2>1, <2>2 DEF KOS!Boot, KOS!TypeOK
<1>8. CASE KOS!Die(c)
  <2>1. cpu' \in [Cpus -> KOS!Cpu]
    BY <1>1, <1>8, CpuTyped DEF KOS!Die
  <2>. QED
    BY <1>1, <1>8, <2>1 DEF KOS!Die, KOS!TypeOK
<1>. QED
  BY <1>2, <1>3, <1>4, <1>5, <1>6, <1>7, <1>8 DEF CpuStep

LEMMA PostTyped ==
  ASSUME KOS!TypeOK, NEW c \in Cpus, NEW m \in {KOS!Ping} \cup KOS!Run, PostStep(c, m)
  PROVE  KOS!TypeOK'
<1>1. inbox \in [Cpus -> Seq({KOS!Ping} \cup KOS!Run)]
  BY DEF KOS!TypeOK
<1>2. [inbox EXCEPT ![c] = Append(@, m)] \in [Cpus -> Seq({KOS!Ping} \cup KOS!Run)]
  BY <1>1
<1>3. inbox' = inbox \/ inbox' = [inbox EXCEPT ![c] = Append(@, m)]
  BY DEF PostStep, KOS!SendMessage
<1>. QED
  BY <1>1, <1>2, <1>3 DEF PostStep, KOS!TypeOK

LEMMA CpusCount == KOS!Cardinality(Cpus) = Cardinality(Cpus)
  BY DEF KOS!Cardinality, Cardinality

(* At first every CPU has a session of its own.                            *)
LEMMA InitSessions ==
  Init => /\ boots = Cardinality(Cpus) /\ Cardinality(Cpus) \in 1..MaxBoot
          /\ \E number \in [Cpus -> 1..Cardinality(Cpus)] :
               /\ \A c, d \in Cpus : number[c] = number[d] => c = d
               /\ cpu = [c \in Cpus |-> KOS!On(number[c])]
<1>1. Cardinality(Cpus) \in 1..MaxBoot
  BY LinkAssumption, FS_CardinalityType, FS_EmptySet
<1>. QED
  BY <1>1, CpusCount, Zenon DEF Init, KOS!GameInit

LEMMA InitTyped == Init => TypeOK
<1>. SUFFICES ASSUME Init PROVE TypeOK
  OBVIOUS
<1>1. WD!TypeOK
  BY DEF Init, WD!Init, WD!TypeOK, WD!NoLink, WD!KosLink
<1>2. KOS!TypeOK
  <2>1. boots \in 1..MaxBoot /\ Cardinality(Cpus) \in 1..MaxBoot
    BY InitSessions
  <2>3. cpu \in [Cpus -> KOS!Cpu]
    <3>1. PICK number \in [Cpus -> 1..Cardinality(Cpus)] : cpu = [c \in Cpus |-> KOS!On(number[c])]
      BY InitSessions
    <3>2. ASSUME NEW c \in Cpus PROVE KOS!On(number[c]) \in KOS!Cpu
      <4>1. number[c] \in 1..MaxBoot
        BY <2>1
      <4>. QED
        BY <4>1, OnTyped
    <3>. QED
      BY <3>1, <3>2
  <2>4. inbox \in [Cpus -> Seq({KOS!Ping} \cup KOS!Run)]
    BY DEF Init, KOS!GameInit
  <2>5. outbox \in Seq(KOS!Event) /\ saved \in Seq(KOS!Event) /\ active \in Cpus \cup {None}
    BY DEF Init, KOS!GameInit
  <2>. QED
    BY <2>1, <2>3, <2>4, <2>5 DEF KOS!TypeOK
<1>3. ut \in UT
  <2>1. \E w \in UT : TRUE
    BY LinkAssumption
  <2>. QED
    BY <2>1 DEF Init
<1>. QED
  BY <1>1, <1>2, <1>3 DEF Init, TypeOK

LEMMA FreshTyped == WD!TypeOK => Fresh \in UT
<1>. SUFFICES ASSUME WD!TypeOK PROVE Fresh \in UT
  OBVIOUS
<1>1. lastUt \in UT \cup {None} /\ utAtLastPing \in UT \cup {None}
  BY DEF WD!TypeOK
<1>2. \E w \in UT : w \notin {lastUt, utAtLastPing}
  BY <1>1, LinkAssumption
<1>. QED
  BY <1>2 DEF Fresh

(* The first message waiting is one that a CPU sends.                      *)
LEMMA HeadTyped ==
  ASSUME KOS!TypeOK, outbox # <<>>
  PROVE  /\ Head(outbox) \in KOS!Event
         /\ Tail(outbox) \in Seq(KOS!Event)
         /\ Head(outbox).boot \in Boots
         /\ Head(outbox).kind = "heartbeat" =>
              Head(outbox).path \in Scripts \cup {None} /\ Head(outbox).active \in BOOLEAN
         /\ Head(outbox).kind # "heartbeat" =>
              Head(outbox).kind = "script_done" /\ Head(outbox).path \in Paths
<1>1. outbox \in Seq(KOS!Event)
  BY DEF KOS!TypeOK
<1>2. Head(outbox) \in KOS!Event /\ Tail(outbox) \in Seq(KOS!Event)
  BY <1>1
<1>. QED
  BY <1>2 DEF KOS!Event, Boots

LEMMA SpendTyped ==
  ASSUME spent \in [DOMAIN Budget -> Nat], NEW kind \in DOMAIN Budget, Spend(kind)
  PROVE  spent' \in [DOMAIN Budget -> Nat]
  BY DEF Spend

(* What a step does to the watchdog, whichever it is.                      *)
LEMMA NextWatches ==
  ASSUME TypeOK, [Next]_vars
  PROVE  WatchStep
<1>1. ASSUME NEW path \in Paths, ReadVessel(path) PROVE WatchStep
  BY <1>1 DEF ReadVessel, WatchStep
<1>2. CASE Deliver
  BY <1>2 DEF Deliver, WatchStep, TypeOK
<1>3. CASE PingLoop
  BY <1>3 DEF PingLoop, WatchStep
<1>4. CASE PopMessage
  <2>1. outbox # <<>> /\ KOS!TypeOK
    BY <1>4 DEF PopMessage, TypeOK
  <2>2. CASE Head(outbox).kind = "heartbeat"
    BY <1>4, <2>1, <2>2, HeadTyped DEF PopMessage, WatchStep
  <2>3. CASE Head(outbox).kind # "heartbeat"
    BY <1>4, <2>1, <2>3, HeadTyped DEF PopMessage, WatchStep
  <2>. QED
    BY <2>2, <2>3
<1>5. CASE Sample
  BY <1>5 DEF Sample, WatchStep
<1>6. CASE Tick
  BY <1>6 DEF Tick, WatchStep
<1>7. CASE SessionEnds \/ Connect \/ Save \/ Load
  BY <1>7 DEF SessionEnds, Connect, Save, Load, WatchStep
<1>8. ASSUME NEW c \in Cpus, Listener(c) \/ ScriptReturns(c) \/ Boot(c) \/ Die(c) PROVE WatchStep
  BY <1>8 DEF Listener, ScriptReturns, Boot, Die, WatchStep
<1>9. ASSUME NEW c \in Cpus \cup {None}, Switch(c) PROVE WatchStep
  BY <1>9 DEF Switch, WatchStep
<1>10. CASE UNCHANGED vars
  BY <1>10 DEF vars, WatchStep
<1>. QED
  BY <1>1, <1>2, <1>3, <1>4, <1>5, <1>6, <1>7, <1>8, <1>9, <1>10 DEF Next

LEMMA NextGameTyped ==
  ASSUME TypeOK, [Next]_vars
  PROVE  KOS!TypeOK'
<1>. KOS!TypeOK
  BY DEF TypeOK
<1>1. CASE UNCHANGED game
  BY <1>1 DEF game, KOS!TypeOK
<1>2. CASE Deliver
  <2>1. sending \in [path : Paths, to : Cpus] /\ dispatched + 1 \in 0..MaxDispatch
    BY <1>2 DEF Deliver, TypeOK, WD!OnDispatch, WD!TypeOK
  <2>2. KOS!RunScript(sending.path, dispatched + 1) \in KOS!Run
    BY <2>1 DEF KOS!RunScript, KOS!Run
  <2>3. PostStep(sending.to, KOS!RunScript(sending.path, dispatched + 1))
    BY <1>2 DEF Deliver, PostStep
  <2>. QED
    BY <2>1, <2>2, <2>3, PostTyped
<1>3. CASE PingLoop
  <2>1. UNCHANGED inbox => UNCHANGED game
    BY <1>3 DEF PingLoop, game
  <2>2. CASE active # None
    <3>1. PostStep(active, KOS!Ping) /\ active \in Cpus
      BY <1>3, <2>2 DEF PingLoop, PostStep, KOS!TypeOK
    <3>. QED
      BY <3>1, PostTyped
  <2>. QED
    BY <1>1, <1>3, <2>1, <2>2 DEF PingLoop
<1>4. CASE PopMessage
  BY <1>4, HeadTyped DEF PopMessage, KOS!TypeOK
<1>5. CASE SessionEnds
  <2>1. outbox' \in Seq(KOS!Event)
    <3>1. UNCHANGED outbox \/ (outbox # <<>> /\ outbox' = Tail(outbox))
      BY <1>5 DEF SessionEnds
    <3>. QED
      BY <3>1, HeadTyped DEF KOS!TypeOK
  <2>2. inbox' \in [Cpus -> Seq({KOS!Ping} \cup KOS!Run)]
    <3>1. CASE UNCHANGED inbox
      BY <3>1 DEF KOS!TypeOK
    <3>2. CASE sending # None /\ KOS!SendMessage(sending.to, KOS!RunScript(sending.path, 0))
      <4>1. sending \in [path : Paths, to : Cpus]
        BY <3>2 DEF TypeOK
      <4>2. KOS!RunScript(sending.path, 0) \in KOS!Run
        BY <4>1 DEF KOS!RunScript, KOS!Run
      <4>3. [inbox EXCEPT ![sending.to] = Append(@, KOS!RunScript(sending.path, 0))]
              \in [Cpus -> Seq({KOS!Ping} \cup KOS!Run)]
        BY <4>1, <4>2 DEF KOS!TypeOK
      <4>. QED
        BY <3>2, <4>3 DEF KOS!SendMessage, KOS!TypeOK
    <3>. QED
      BY <1>5, <3>1, <3>2 DEF SessionEnds
  <2>. QED
    BY <1>5, <2>1, <2>2 DEF SessionEnds, KOS!TypeOK
<1>6. CASE Tick
  <2>1. \A c \in Cpus : cpu[c] \in KOS!Cpu /\ [cpu[c] EXCEPT !.beaten = FALSE] \in KOS!Cpu
    BY CpuTyped DEF KOS!TypeOK
  <2>2. cpu' = [c \in Cpus |-> [cpu[c] EXCEPT !.beaten = FALSE]]
    BY <1>6 DEF Tick, KOS!NewPeriod
  <2>3. cpu' \in [Cpus -> KOS!Cpu]
    BY <2>1, <2>2
  <2>. QED
    BY <1>6, <2>3 DEF Tick, KOS!TypeOK
<1>7. CASE Save
  BY <1>7 DEF Save, KOS!Save, KOS!TypeOK
<1>8. CASE Load
  <2>1. \A c \in Cpus : KOS!Off(cpu[c].boot) \in KOS!Cpu
    BY CpuTyped DEF KOS!TypeOK
  <2>2. cpu' \in [Cpus -> KOS!Cpu]
    BY <1>8, <2>1 DEF Load, KOS!Load
  <2>3. inbox' \in [Cpus -> Seq({KOS!Ping} \cup KOS!Run)]
    BY <1>8 DEF Load, KOS!Load
  <2>. QED
    BY <1>8, <2>2, <2>3 DEF Load, KOS!Load, KOS!TypeOK
<1>9. ASSUME NEW c \in Cpus, Listener(c) \/ ScriptReturns(c) \/ Boot(c) \/ Die(c)
      PROVE  KOS!TypeOK'
  <2>1. CpuStep(c)
    BY <1>9 DEF Listener, ScriptReturns, Boot, Die, CpuStep
  <2>. QED
    BY <2>1, CpuStepTyped
<1>10. ASSUME NEW c \in Cpus \cup {None}, Switch(c) PROVE KOS!TypeOK'
  BY <1>10 DEF Switch, KOS!SwitchVessel, KOS!TypeOK
<1>11. ASSUME NEW path \in Paths, ReadVessel(path) PROVE UNCHANGED game
  BY <1>11 DEF ReadVessel
<1>12. Sample \/ Connect \/ UNCHANGED vars => UNCHANGED game
  BY DEF Sample, Connect, vars
<1>. QED
  BY <1>1, <1>2, <1>3, <1>4, <1>5, <1>6, <1>7, <1>8, <1>9, <1>10, <1>11, <1>12 DEF Next

(* The rest of the state: sessions, the clock, the budgets.                *)
LEMMA NextRestTyped ==
  ASSUME TypeOK, [Next]_vars
  PROVE  /\ connected' \in BOOLEAN
         /\ sending' \in [path : Paths, to : Cpus] \cup {None}
         /\ ut' \in UT
         /\ moved' \in {"still", "on", "back"}
         /\ spent' \in [DOMAIN Budget -> Nat]
<1>1. connected' \in BOOLEAN
  BY DEF TypeOK, Next, vars, session, clock, ReadVessel, Deliver, PingLoop, PopMessage, Sample,
         SessionEnds, Connect, Tick, Save, Load, Listener, ScriptReturns, Boot, Die, Switch
<1>2. sending' \in [path : Paths, to : Cpus] \cup {None}
  <2>1. ASSUME NEW path \in Paths, ReadVessel(path) PROVE sending' \in [path : Paths, to : Cpus]
    BY <2>1 DEF ReadVessel, TypeOK, KOS!TypeOK
  <2>2. sending' \in {sending, None} \/ \E path \in Paths : ReadVessel(path)
    BY DEF Next, vars, session, Deliver, PingLoop, PopMessage, Sample,
           SessionEnds, Connect, Tick, Save, Load, Listener, ScriptReturns, Boot, Die, Switch
  <2>. QED
    BY <2>1, <2>2 DEF TypeOK
<1>3. ut' \in UT /\ moved' \in {"still", "on", "back"}
  <2>1. CASE UNCHANGED clock
    BY <2>1 DEF clock, TypeOK
  <2>2. CASE Sample
    BY <2>2 DEF Sample, TypeOK
  <2>3. CASE Tick \/ Load
    BY <2>3, FreshTyped DEF Tick, Load, TypeOK
  <2>4. UNCHANGED clock \/ Sample \/ Tick \/ Load
    BY DEF Next, vars, clock, ReadVessel, Deliver, PingLoop, PopMessage,
           SessionEnds, Connect, Save, Listener, ScriptReturns, Boot, Die, Switch
  <2>. QED
    BY <2>1, <2>2, <2>3, <2>4
<1>4. spent' \in [DOMAIN Budget -> Nat]
  <2>1. {"cut", "load", "death", "switch"} \subseteq DOMAIN Budget
    BY DEF Budget
  <2>2. UNCHANGED spent \/ \E kind \in DOMAIN Budget : Spend(kind)
    BY <2>1 DEF Next, vars, clock, ReadVessel, Deliver, PingLoop, PopMessage, Sample,
           SessionEnds, Connect, Tick, Save, Load, Listener, ScriptReturns, Boot, Die, Switch
  <2>. QED
    BY <2>2, SpendTyped DEF TypeOK
<1>. QED
  BY <1>1, <1>2, <1>3, <1>4

LEMMA NextTyped == TypeOK /\ [Next]_vars => TypeOK'
<1>. SUFFICES ASSUME TypeOK, [Next]_vars PROVE TypeOK'
  OBVIOUS
<1>1. WD!TypeOK'
  BY NextWatches, WatchTyped DEF TypeOK
<1>. QED
  BY <1>1, NextGameTyped, NextRestTyped DEF TypeOK

(* The watchdog, the CPUs and the messages between them stay what the code *)
(* declares them to be.                                                    *)
THEOREM TypeCorrect == Spec => []TypeOK
  BY InitTyped, NextTyped, PTL DEF Spec

-----------------------------------------------------------------------------
(* Sessions.  Every CPU and every message has a session that was started,  *)
(* no two CPUs share one, and a CPU whose beats name a script runs it.     *)
GameOK ==
  /\ \A c, d \in Cpus : cpu[c].boot = cpu[d].boot => c = d
  /\ \A c \in Cpus : cpu[c].boot <= boots
  /\ \A i \in 1..Len(outbox) : outbox[i].boot <= boots
  /\ \A i \in 1..Len(saved) : saved[i].boot <= boots
  /\ \A c \in Cpus : cpu[c].hbPath # None =>
       cpu[c].run # None /\ cpu[c].run.path = cpu[c].hbPath

(* The watchdog knows runs that were dispatched and sessions that were     *)
(* started.                                                                *)
WatchOK ==
  /\ linkBoot # None => linkBoot <= boots
  /\ link.running # None => linkBoot # None
  /\ \A e \in entries : e.id <= dispatched /\ (e.boot # None => e.boot <= boots)

(* One message leaves the queue, or joins it.                              *)
LEMMA TailIs ==
  ASSUME KOS!TypeOK, outbox # <<>>
  PROVE  /\ Len(outbox) \in Nat \ {0} /\ Len(Tail(outbox)) = Len(outbox) - 1
         /\ Head(outbox) = outbox[1]
         /\ \A i \in 1..Len(Tail(outbox)) : Tail(outbox)[i] = outbox[i + 1]
<1>1. outbox \in Seq(KOS!Event)
  BY DEF KOS!TypeOK
<1>. QED
  BY <1>1

LEMMA AppendIs ==
  ASSUME KOS!TypeOK, NEW ev \in KOS!Event
  PROVE  /\ Len(outbox) \in Nat /\ Len(Append(outbox, ev)) = Len(outbox) + 1
         /\ Append(outbox, ev)[Len(outbox) + 1] = ev
         /\ \A i \in 1..Len(outbox) : Append(outbox, ev)[i] = outbox[i]
<1>1. outbox \in Seq(KOS!Event)
  BY DEF KOS!TypeOK
<1>. QED
  BY <1>1

LEMMA OutboxTyped ==
  KOS!TypeOK => /\ Len(outbox) \in Nat /\ Len(saved) \in Nat
                /\ \A i \in 1..Len(outbox) : outbox[i] \in KOS!Event
                /\ \A i \in 1..Len(saved) : saved[i] \in KOS!Event
<1>. SUFFICES ASSUME KOS!TypeOK
              PROVE  /\ Len(outbox) \in Nat /\ Len(saved) \in Nat
                     /\ \A i \in 1..Len(outbox) : outbox[i] \in KOS!Event
                     /\ \A i \in 1..Len(saved) : saved[i] \in KOS!Event
  OBVIOUS
<1>1. outbox \in Seq(KOS!Event) /\ saved \in Seq(KOS!Event)
  BY DEF KOS!TypeOK
<1>. QED
  BY <1>1

(* What one CPU's step leaves alone, and what it may add to the queue.     *)
LEMMA CpuDoes ==
  ASSUME KOS!TypeOK, NEW c \in Cpus, CpuStep(c)
  PROVE  /\ \A d \in Cpus : d # c => cpu'[d] = cpu[d]
         /\ saved' = saved
         /\ \/ boots' = boots /\ cpu'[c].boot = cpu[c].boot /\ (cpu'[c].up => cpu[c].up)
            \/ boots' = boots + 1 /\ cpu'[c] = KOS!On(boots + 1) /\ outbox' = outbox
         /\ \/ outbox' = outbox
            \/ \E ev \in KOS!Event : ev.boot = cpu[c].boot /\ outbox' = Append(outbox, ev)
<1>1. cpu \in [Cpus -> KOS!Cpu] /\ cpu[c] \in KOS!Cpu
  BY DEF KOS!TypeOK
<1>2. KOS!Beat(c) \in KOS!Event /\ KOS!Beat(c).boot = cpu[c].boot
  BY SentTyped DEF KOS!Beat
<1>3. \A run \in KOS!Run : KOS!Done(c, run) \in KOS!Event /\ KOS!Done(c, run).boot = cpu[c].boot
  BY SentTyped DEF KOS!Done
<1>4. CASE KOS!HandlePing(c)
  BY <1>1, <1>2, <1>4 DEF KOS!HandlePing, KOS!SendEvent
<1>5. CASE KOS!HandleRunScript(c)
  <2>1. Head(inbox[c]) \in KOS!Run
    BY <1>5, PoppedTyped DEF KOS!HandleRunScript, KOS!Pops
  <2>2. CASE Head(inbox[c]).path \in Scripts
    BY <1>1, <1>5, <2>2 DEF KOS!HandleRunScript, KOS!Cpu
  <2>3. CASE Head(inbox[c]).path \notin Scripts
    BY <1>1, <1>3, <1>5, <2>1, <2>3 DEF KOS!HandleRunScript, KOS!SendEvent
  <2>. QED
    BY <2>2, <2>3
<1>6. CASE KOS!HeartbeatTrigger(c)
  BY <1>1, <1>2, <1>6 DEF KOS!HeartbeatTrigger, KOS!SendEvent, KOS!Cpu
<1>7. CASE KOS!SendDone(c)
  <2>1. cpu[c].run \in KOS!Run
    BY <1>1, <1>7 DEF KOS!SendDone, KOS!Cpu
  <2>. QED
    BY <1>1, <1>3, <1>7, <2>1 DEF KOS!SendDone, KOS!SendEvent, KOS!Cpu
<1>8. CASE KOS!ScriptReturns(c)
  BY <1>1, <1>8 DEF KOS!ScriptReturns, KOS!Cpu
<1>9. CASE KOS!Boot(c)
  BY <1>1, <1>9 DEF KOS!Boot
<1>10. CASE KOS!Die(c)
  BY <1>1, <1>10 DEF KOS!Die, KOS!Off, KOS!On
<1>. QED
  BY <1>4, <1>5, <1>6, <1>7, <1>8, <1>9, <1>10 DEF CpuStep

(* The server's part in it: it pops at most one message.                   *)
LEMMA NextPlays ==
  ASSUME [Next]_vars
  PROVE  \/ /\ UNCHANGED <<cpu, boots, saved>>
            /\ outbox' = outbox \/ (outbox # <<>> /\ outbox' = Tail(outbox))
         \/ KOS!NewPeriod /\ UNCHANGED <<outbox, boots, saved>>
         \/ KOS!Save
         \/ KOS!Load
         \/ \E c \in Cpus : CpuStep(c)
<1>1. ASSUME NEW path \in Paths, ReadVessel(path) PROVE UNCHANGED <<cpu, boots, saved, outbox>>
  BY <1>1 DEF ReadVessel, game
<1>2. Deliver \/ PingLoop \/ Sample \/ Connect \/ UNCHANGED vars => UNCHANGED <<cpu, boots, saved, outbox>>
  BY DEF Deliver, PingLoop, Sample, Connect, vars, game
<1>3. PopMessage => UNCHANGED <<cpu, boots, saved>> /\ outbox # <<>> /\ outbox' = Tail(outbox)
  BY DEF PopMessage
<1>4. SessionEnds => /\ UNCHANGED <<cpu, boots, saved>>
                     /\ outbox' = outbox \/ (outbox # <<>> /\ outbox' = Tail(outbox))
  BY DEF SessionEnds
<1>5. Tick => KOS!NewPeriod /\ UNCHANGED <<outbox, boots, saved>>
  BY DEF Tick
<1>6. (Save => KOS!Save) /\ (Load => KOS!Load)
  BY DEF Save, Load
<1>7. ASSUME NEW c \in Cpus, Listener(c) \/ ScriptReturns(c) \/ Boot(c) \/ Die(c)
      PROVE  CpuStep(c)
  BY <1>7 DEF Listener, ScriptReturns, Boot, Die, CpuStep
<1>8. ASSUME NEW c \in Cpus \cup {None}, Switch(c) PROVE UNCHANGED <<cpu, boots, saved, outbox>>
  BY <1>8 DEF Switch, KOS!SwitchVessel
<1>. QED
  BY <1>1, <1>2, <1>3, <1>4, <1>5, <1>6, <1>7, <1>8 DEF Next

LEMMA InitOK == Init => GameOK /\ WatchOK
<1>. SUFFICES ASSUME Init PROVE GameOK /\ WatchOK
  OBVIOUS
<1>1. PICK number \in [Cpus -> 1..Cardinality(Cpus)] :
        /\ \A c, d \in Cpus : number[c] = number[d] => c = d
        /\ cpu = [c \in Cpus |-> KOS!On(number[c])]
  BY InitSessions
<1>2. boots = Cardinality(Cpus)
  BY InitSessions
<1>3. outbox = <<>> /\ saved = <<>>
  BY DEF Init, KOS!GameInit
<1>4. GameOK
  BY <1>1, <1>2, <1>3 DEF GameOK, KOS!On
<1>5. WatchOK
  BY DEF Init, WD!Init, WatchOK, WD!NoLink
<1>. QED
  BY <1>4, <1>5

(* A CPU whose beats name a script runs it, after its own step too.        *)
LEMMA BeatsNameRun ==
  ASSUME KOS!TypeOK, NEW c \in Cpus, CpuStep(c),
         cpu[c].hbPath # None => cpu[c].run # None /\ cpu[c].run.path = cpu[c].hbPath
  PROVE  cpu'[c].hbPath # None => cpu'[c].run # None /\ cpu'[c].run.path = cpu'[c].hbPath
<1>1. cpu \in [Cpus -> KOS!Cpu] /\ cpu[c] \in KOS!Cpu
  BY DEF KOS!TypeOK
<1>2. CASE KOS!HandlePing(c)
  BY <1>2 DEF KOS!HandlePing
<1>3. CASE KOS!HandleRunScript(c)
  <2>1. Head(inbox[c]) \in KOS!Run /\ Head(inbox[c]) # None
    BY <1>3, PoppedTyped, NoneApart DEF KOS!HandleRunScript, KOS!Pops
  <2>2. CASE Head(inbox[c]).path \in Scripts
    BY <1>1, <1>3, <2>1, <2>2 DEF KOS!HandleRunScript, KOS!Cpu
  <2>3. CASE Head(inbox[c]).path \notin Scripts
    BY <1>3, <2>3 DEF KOS!HandleRunScript
  <2>. QED
    BY <2>2, <2>3
<1>4. CASE KOS!HeartbeatTrigger(c)
  BY <1>1, <1>4 DEF KOS!HeartbeatTrigger, KOS!Cpu
<1>5. CASE KOS!SendDone(c) \/ KOS!ScriptReturns(c)
  BY <1>1, <1>5 DEF KOS!SendDone, KOS!ScriptReturns, KOS!Cpu
<1>6. CASE KOS!Boot(c) \/ KOS!Die(c)
  BY <1>1, <1>6 DEF KOS!Boot, KOS!Die, KOS!Off, KOS!On
<1>. QED
  BY <1>2, <1>3, <1>4, <1>5, <1>6 DEF CpuStep

LEMMA NextGameOK == TypeOK /\ GameOK /\ [Next]_vars => GameOK'
<1>. SUFFICES ASSUME TypeOK, GameOK, [Next]_vars PROVE GameOK'
  OBVIOUS
<1>0. KOS!TypeOK /\ cpu \in [Cpus -> KOS!Cpu] /\ boots \in Nat
  BY DEF TypeOK, KOS!TypeOK
<1>1. ASSUME UNCHANGED <<cpu, boots, saved>>,
             outbox' = outbox \/ (outbox # <<>> /\ outbox' = Tail(outbox))
      PROVE  GameOK'
  <2>1. \A i \in 1..Len(outbox') : outbox'[i].boot <= boots
    <3>1. CASE outbox' = outbox
      BY <3>1 DEF GameOK
    <3>2. CASE outbox # <<>> /\ outbox' = Tail(outbox)
      <4>1. \A i \in 1..Len(outbox') : i + 1 \in 1..Len(outbox) /\ outbox'[i] = outbox[i + 1]
        BY <1>0, <3>2, TailIs
      <4>. QED
        BY <4>1 DEF GameOK
    <3>. QED
      BY <1>1, <3>1, <3>2
  <2>. QED
    BY <1>1, <2>1 DEF GameOK
<1>2. CASE KOS!NewPeriod /\ UNCHANGED <<outbox, boots, saved>>
  <2>1. \A c \in Cpus : /\ cpu'[c].boot = cpu[c].boot /\ cpu'[c].hbPath = cpu[c].hbPath
                       /\ cpu'[c].run = cpu[c].run
    BY <1>0, <1>2 DEF KOS!NewPeriod, KOS!Cpu
  <2>. QED
    BY <1>2, <2>1 DEF GameOK
<1>3. CASE KOS!Save
  BY <1>3 DEF KOS!Save, GameOK
<1>4. CASE KOS!Load
  <2>1. \A c \in Cpus : cpu'[c].boot = cpu[c].boot /\ cpu'[c].hbPath = None
    BY <1>4 DEF KOS!Load, KOS!Off, KOS!On
  <2>2. outbox' = saved /\ saved' = saved /\ boots' = boots
    BY <1>4 DEF KOS!Load
  <2>. QED
    BY <2>1, <2>2 DEF GameOK
<1>5. ASSUME NEW c \in Cpus, CpuStep(c) PROVE GameOK'
  <2>1. \A d \in Cpus : d # c => cpu'[d] = cpu[d]
    BY <1>0, <1>5, CpuDoes
  <2>2. \/ boots' = boots /\ cpu'[c].boot = cpu[c].boot
        \/ boots' = boots + 1 /\ cpu'[c].boot = boots + 1
    BY <1>0, <1>5, CpuDoes DEF KOS!On
  <2>3. \A d \in Cpus : cpu[d].boot \in Nat
    BY <1>0 DEF KOS!Cpu
  <2>4. /\ \A d, f \in Cpus : cpu'[d].boot = cpu'[f].boot => d = f
        /\ \A d \in Cpus : cpu'[d].boot <= boots'
    BY <1>0, <2>1, <2>2, <2>3 DEF GameOK
  <2>5. \A i \in 1..Len(outbox') : outbox'[i].boot <= boots
    <3>1. CASE outbox' = outbox
      BY <3>1 DEF GameOK
    <3>2. ASSUME NEW ev \in KOS!Event, ev.boot = cpu[c].boot, outbox' = Append(outbox, ev)
          PROVE  \A i \in 1..Len(outbox') : outbox'[i].boot <= boots
      <4>1. \A i \in 1..Len(outbox') : i \in 1..Len(outbox) \/ i = Len(outbox) + 1
        BY <1>0, <3>2, AppendIs
      <4>. QED
        BY <1>0, <3>2, <4>1, AppendIs DEF GameOK
    <3>. QED
      BY <1>0, <1>5, <3>1, <3>2, CpuDoes
  <2>6. \A i \in 1..Len(outbox') : outbox'[i].boot <= boots'
    <3>1. \A i \in 1..Len(outbox') : outbox'[i].boot \in Nat
      <4>1. outbox' \in Seq(KOS!Event)
        BY NextGameTyped DEF KOS!TypeOK
      <4>2. \A i \in 1..Len(outbox') : outbox'[i] \in KOS!Event
        BY <4>1
      <4>. QED
        BY <4>2 DEF KOS!Event
    <3>. QED
      BY <1>0, <2>2, <2>5, <3>1
  <2>7. \A i \in 1..Len(saved') : saved'[i].boot <= boots'
    <3>1. \A i \in 1..Len(saved) : saved[i].boot \in Nat
      BY <1>0, OutboxTyped DEF KOS!Event
    <3>2. saved' = saved
      BY <1>0, <1>5, CpuDoes
    <3>. QED
      BY <1>0, <2>2, <3>1, <3>2 DEF GameOK
  <2>8. \A d \in Cpus : cpu'[d].hbPath # None =>
          cpu'[d].run # None /\ cpu'[d].run.path = cpu'[d].hbPath
    BY <1>0, <1>5, <2>1, BeatsNameRun DEF GameOK
  <2>. QED
    BY <2>4, <2>6, <2>7, <2>8 DEF GameOK
<1>. QED
  BY <1>1, <1>2, <1>3, <1>4, <1>5, NextPlays

(* boots never goes back.                                                  *)
LEMMA BootsGrow ==
  ASSUME TypeOK, [Next]_vars
  PROVE  boots \in Nat /\ boots' \in Nat /\ boots <= boots'
<1>1. KOS!TypeOK /\ boots \in Nat
  BY DEF TypeOK, KOS!TypeOK
<1>2. boots' = boots \/ boots' = boots + 1
  <2>1. ASSUME NEW c \in Cpus, CpuStep(c) PROVE boots' = boots \/ boots' = boots + 1
    BY <1>1, <2>1, CpuDoes
  <2>2. KOS!Save \/ KOS!Load => boots' = boots
    BY DEF KOS!Save, KOS!Load
  <2>. QED
    BY <2>1, <2>2, NextPlays
<1>. QED
  BY <1>1, <1>2

LEMMA NextWatchOK == TypeOK /\ GameOK /\ WatchOK /\ [Next]_vars => WatchOK'
<1>. SUFFICES ASSUME TypeOK, GameOK, WatchOK, [Next]_vars PROVE WatchOK'
  OBVIOUS
<1>0. WD!TypeOK /\ KOS!TypeOK
  BY DEF TypeOK
<1>1. boots \in Nat /\ boots' \in Nat /\ boots <= boots'
  BY BootsGrow
<1>2. linkBoot \in Boots \cup {None} /\ dispatched \in Nat
  BY <1>0 DEF WD!TypeOK
<1>3. \A e \in entries : e \in WD!Entry
  BY <1>0 DEF WD!TypeOK
<1>4. CASE UNCHANGED <<entries, link, linkBoot, dispatched>>
  <2>1. linkBoot # None => linkBoot <= boots'
    BY <1>1, <1>2 DEF WatchOK, Boots
  <2>2. \A e \in entries : e.id <= dispatched /\ (e.boot # None => e.boot <= boots')
    <3>1. \A e \in entries : e.boot # None => e.boot \in Nat
      BY <1>3 DEF WD!Entry, Boots
    <3>. QED
      BY <1>1, <3>1 DEF WatchOK
  <2>. QED
    BY <1>4, <2>1, <2>2 DEF WatchOK
<1>5. CASE Deliver
  <2>1. boots' = boots /\ link' = link /\ linkBoot' = linkBoot /\ dispatched' = dispatched + 1
    BY <1>5 DEF Deliver, WD!OnDispatch, WD!linking
  <2>2. ASSUME NEW e \in entries'
        PROVE  e.id <= dispatched + 1 /\ (e.boot # None => e.boot <= boots)
    <3>1. CASE e \in entries
      <4>1. e.id \in Nat
        BY <1>3, <3>1 DEF WD!Entry
      <4>. QED
        BY <1>2, <3>1, <4>1 DEF WatchOK
    <3>2. CASE e = [id |-> dispatched + 1, path |-> sending.path, boot |-> WD!Stamp, silence |-> 0]
      BY <1>2, <3>2 DEF WD!Stamp, WatchOK
    <3>. QED
      BY <1>5, <3>1, <3>2 DEF Deliver, WD!OnDispatch
  <2>. QED
    BY <2>1, <2>2 DEF WatchOK
<1>6. CASE PopMessage
  <2>1. outbox # <<>> /\ boots' = boots
    BY <1>6 DEF PopMessage
  <2>2. Head(outbox).boot <= boots /\ Head(outbox).boot # None
    <3>1. Head(outbox) = outbox[1] /\ 1 \in 1..Len(outbox)
      BY <1>0, <2>1, TailIs
    <3>. QED
      BY <1>0, <2>1, <3>1, HeadTyped, NoneApart DEF GameOK, Boots
  <2>3. CASE Head(outbox).kind = "heartbeat"
    <3>. DEFINE m == Head(outbox)
    <3>1. WD!OnHeartbeat(m.boot, m.path, m.active)
      BY <1>6, <2>3 DEF PopMessage
    <3>2. \A e \in entries : [e EXCEPT !.boot = m.boot, !.silence = 0].id = e.id
                           /\ [e EXCEPT !.boot = m.boot, !.silence = 0].boot = m.boot
      BY <1>3 DEF WD!Entry
    <3>3. \A e \in entries' : e.id <= dispatched /\ (e.boot # None => e.boot <= boots)
      BY <2>2, <3>1, <3>2 DEF WD!OnHeartbeat, WatchOK
    <3>4. /\ linkBoot' # None => linkBoot' <= boots
          /\ link'.running # None => linkBoot' # None
      <4>1. CASE m.active
        BY <2>2, <3>1, <4>1 DEF WD!OnHeartbeat
      <4>2. CASE ~m.active
        BY <3>1, <4>2 DEF WD!OnHeartbeat, WD!linking, WatchOK
      <4>. QED
        BY <4>1, <4>2
    <3>5. dispatched' = dispatched
      BY <3>1 DEF WD!OnHeartbeat
    <3>. QED
      BY <2>1, <3>3, <3>4, <3>5 DEF WatchOK
  <2>4. CASE Head(outbox).kind # "heartbeat"
    <3>1. WD!OnDone(Head(outbox).path, Head(outbox).boot)
      BY <1>6, <2>4 DEF PopMessage
    <3>2. link'.running # None => link.running # None
      BY <1>0, <3>1 DEF WD!OnDone, WD!TypeOK, WD!KosLink
    <3>. QED
      BY <2>1, <3>1, <3>2 DEF WD!OnDone, WatchOK
  <2>. QED
    BY <2>3, <2>4
<1>7. CASE Sample
  <2>1. boots' = boots
    BY <1>7 DEF Sample, game
  <2>2. CASE WD!Unmoved
    BY <1>4, <2>2 DEF WD!Unmoved, WD!watching, WD!linking
  <2>3. CASE WD!Rewind
    BY <2>3 DEF WD!Rewind, WD!LinkDown, WD!NoLink, WatchOK
  <2>4. CASE WD!Advance
    <3>1. \A e \in entries : /\ [e EXCEPT !.silence = @ + WD!Counted].id = e.id
                           /\ [e EXCEPT !.silence = @ + WD!Counted].boot = e.boot
      BY <1>3 DEF WD!Entry
    <3>2. \A e \in entries' : e.id <= dispatched /\ (e.boot # None => e.boot <= boots)
      BY <2>4, <3>1 DEF WD!Advance, WatchOK
    <3>3. \/ link' = link /\ linkBoot' = linkBoot
          \/ link'.running = None /\ linkBoot' = None
      BY <2>4 DEF WD!Advance, WD!LinkDown, WD!NoLink, WD!linking
    <3>4. dispatched' = dispatched
      BY <2>4 DEF WD!Advance
    <3>. QED
      BY <2>1, <3>2, <3>3, <3>4 DEF WatchOK
  <2>. QED
    BY <1>7, <2>2, <2>3, <2>4 DEF Sample
<1>8. \/ UNCHANGED <<entries, link, linkBoot, dispatched>>
      \/ Deliver \/ PopMessage \/ Sample
  BY DEF Next, vars, watchdog, ReadVessel, PingLoop, WD!PingDue, WD!watching, WD!linking,
         SessionEnds, Connect, Tick, WD!WallPasses, Save, Load, Listener, ScriptReturns, Boot,
         Die, Switch
<1>. QED
  BY <1>4, <1>5, <1>6, <1>7, <1>8

-----------------------------------------------------------------------------
(* RunningIsTrue.  What a beat says of session b and script p is borne out *)
(* as long as b runs p, or its end is reported behind that beat, or b is   *)
(* over.  The link says what the last beat it took in said; i is the place *)
(* of a beat in the queue, 0 for one that has left it.                     *)
Running(b, p) ==
  \E c \in Cpus : cpu[c].boot = b /\ cpu[c].up /\ cpu[c].run # None /\ cpu[c].run.path = p
EndsBehind(i, b, p) ==
  \E j \in 1..Len(outbox) : i < j /\ outbox[j].kind = "script_done"
                           /\ outbox[j].path = p /\ outbox[j].boot = b
Ended(b) == \A c \in Cpus : ~(cpu[c].boot = b /\ cpu[c].up)
BornOut(i, b, p) == Running(b, p) \/ EndsBehind(i, b, p) \/ Ended(b)

Names(i) == outbox[i].kind = "heartbeat" /\ outbox[i].path # None

QueueTruthful ==
  \A i \in 1..Len(outbox) : Names(i) => BornOut(i, outbox[i].boot, outbox[i].path)
LinkTruthful == link.running # None => BornOut(0, linkBoot, link.running)

LEMMA TruthfulSuffices == LinkTruthful => RunningIsTrue
  BY DEF LinkTruthful, BornOut, Running, EndsBehind, Ended, RunningIsTrue

(* A CPU's step bears out what was borne out: the end of a run is put at   *)
(* the back of the queue, and a new session has a number of its own.       *)
LEMMA CpuBearsOut ==
  ASSUME KOS!TypeOK, GameOK, NEW c \in Cpus, CpuStep(c),
         NEW b \in Nat, b <= boots, NEW p, NEW i \in 0..Len(outbox), BornOut(i, b, p)
  PROVE  BornOut(i, b, p)'
<1>1. /\ cpu \in [Cpus -> KOS!Cpu] /\ cpu[c] \in KOS!Cpu
      /\ boots \in Nat /\ Len(outbox) \in Nat
  BY OutboxTyped DEF KOS!TypeOK
<1>2. \A d \in Cpus : d # c => cpu'[d] = cpu[d]
  BY CpuDoes
<1>3. CASE \E d \in Cpus \ {c} : /\ cpu[d].boot = b /\ cpu[d].up
                                /\ cpu[d].run # None /\ cpu[d].run.path = p
  BY <1>2, <1>3 DEF BornOut, Running
<1>4. CASE cpu[c].boot = b /\ cpu[c].up /\ cpu[c].run # None /\ cpu[c].run.path = p
  <2>1. CASE KOS!HandlePing(c)
    BY <1>4, <2>1 DEF KOS!HandlePing, KOS!Pops, KOS!Idle
  <2>2. CASE KOS!HandleRunScript(c)
    BY <1>4, <2>2 DEF KOS!HandleRunScript, KOS!Pops, KOS!Idle
  <2>3. CASE KOS!HeartbeatTrigger(c) \/ KOS!ScriptReturns(c)
    <3>1. cpu'[c].boot = b /\ cpu'[c].up /\ cpu'[c].run # None /\ cpu'[c].run.path = p
      BY <1>1, <1>4, <2>3 DEF KOS!HeartbeatTrigger, KOS!ScriptReturns, KOS!Cpu
    <3>. QED
      BY <3>1 DEF BornOut, Running
  <2>4. CASE KOS!SendDone(c)
    <3>. DEFINE ev == KOS!Done(c, cpu[c].run)
    <3>1. cpu[c].run \in KOS!Run
      BY <1>1, <2>4 DEF KOS!SendDone, KOS!Cpu
    <3>2. ev \in KOS!Event /\ ev.kind = "script_done" /\ ev.path = p /\ ev.boot = b
      BY <1>4, <3>1, SentTyped DEF KOS!Done
    <3>3. outbox' = Append(outbox, ev)
      BY <2>4 DEF KOS!SendDone, KOS!SendEvent
    <3>. HIDE DEF ev
    <3>4. /\ Len(outbox) + 1 \in 1..Len(outbox') /\ i < Len(outbox) + 1
          /\ outbox'[Len(outbox) + 1] = ev
      BY <1>1, <3>2, <3>3, AppendIs
    <3>. QED
      BY <3>2, <3>4 DEF BornOut, EndsBehind
  <2>5. CASE KOS!Boot(c)
    BY <1>4, <2>5 DEF KOS!Boot
  <2>6. CASE KOS!Die(c)
    <3>1. \A d \in Cpus : cpu'[d].boot = b => ~cpu'[d].up
      BY <1>1, <1>2, <1>4, <2>6 DEF KOS!Die, KOS!Off, KOS!On, GameOK
    <3>. QED
      BY <3>1 DEF BornOut, Ended
  <2>. QED
    BY <2>1, <2>2, <2>3, <2>4, <2>5, <2>6 DEF CpuStep
<1>5. CASE EndsBehind(i, b, p)
  <2>1. PICK j \in 1..Len(outbox) : i < j /\ outbox[j].kind = "script_done"
                                  /\ outbox[j].path = p /\ outbox[j].boot = b
    BY <1>5 DEF EndsBehind
  <2>2. j \in 1..Len(outbox') /\ outbox'[j] = outbox[j]
    <3>1. CASE outbox' = outbox
      BY <3>1
    <3>2. ASSUME NEW ev \in KOS!Event, outbox' = Append(outbox, ev)
          PROVE  j \in 1..Len(outbox') /\ outbox'[j] = outbox[j]
      BY <1>1, <3>2, AppendIs
    <3>. QED
      BY <3>1, <3>2, CpuDoes
  <2>. QED
    BY <2>1, <2>2 DEF BornOut, EndsBehind
<1>6. CASE Ended(b)
  <2>1. \/ cpu'[c].boot = cpu[c].boot /\ (cpu'[c].up => cpu[c].up)
        \/ cpu'[c].boot = boots + 1
    BY CpuDoes DEF KOS!On
  <2>2. \A d \in Cpus : ~(cpu'[d].boot = b /\ cpu'[d].up)
    BY <1>1, <1>2, <1>6, <2>1 DEF Ended
  <2>. QED
    BY <2>2 DEF BornOut, Ended
<1>. QED
  BY <1>3, <1>4, <1>5, <1>6 DEF BornOut, Running

(* The first message is popped.                                            *)
LEMMA PopBearsOut ==
  ASSUME KOS!TypeOK, UNCHANGED cpu, outbox # <<>>, outbox' = Tail(outbox),
         NEW b, NEW p, NEW i \in 0..Len(outbox), BornOut(i, b, p)
  PROVE  /\ i > 0 => BornOut(i - 1, b, p)'
         /\ ~(Head(outbox).kind = "script_done" /\ Head(outbox).path = p
              /\ Head(outbox).boot = b) => BornOut(0, b, p)'
<1>1. /\ Len(outbox) \in Nat \ {0} /\ Len(outbox') = Len(outbox) - 1
      /\ Head(outbox) = outbox[1]
      /\ \A k \in 1..Len(outbox') : outbox'[k] = outbox[k + 1]
  BY TailIs
<1>2. CASE Running(b, p) \/ Ended(b)
  BY <1>2 DEF BornOut, Running, Ended
<1>3. CASE EndsBehind(i, b, p)
  <2>1. PICK j \in 1..Len(outbox) : i < j /\ outbox[j].kind = "script_done"
                                  /\ outbox[j].path = p /\ outbox[j].boot = b
    BY <1>3 DEF EndsBehind
  <2>2. j # 1 => /\ j - 1 \in 1..Len(outbox') /\ outbox'[j - 1] = outbox[j]
                 /\ i - 1 < j - 1 /\ 0 < j - 1
    BY <1>1, <2>1
  <2>3. j # 1 => EndsBehind(i - 1, b, p)' /\ EndsBehind(0, b, p)'
    BY <2>1, <2>2 DEF EndsBehind
  <2>4. i > 0 => j # 1
    BY <2>1
  <2>. QED
    BY <1>1, <2>1, <2>3, <2>4 DEF BornOut
<1>. QED
  BY <1>2, <1>3 DEF BornOut

(* Every step but a pop and a CPU's own.                                   *)
LEMMA StillBornOut ==
  ASSUME KOS!TypeOK, NEW b, NEW p, NEW i, BornOut(i, b, p),
         \/ UNCHANGED <<cpu, outbox>>
         \/ KOS!NewPeriod /\ UNCHANGED outbox
         \/ KOS!Save
         \/ KOS!Load
  PROVE  BornOut(i, b, p)'
<1>1. CASE UNCHANGED <<cpu, outbox>>
  BY <1>1 DEF BornOut, Running, EndsBehind, Ended
<1>2. CASE KOS!NewPeriod /\ UNCHANGED outbox
  <2>1. \A c \in Cpus : /\ cpu'[c].boot = cpu[c].boot /\ cpu'[c].up = cpu[c].up
                       /\ cpu'[c].run = cpu[c].run
    BY <1>2 DEF KOS!NewPeriod, KOS!TypeOK, KOS!Cpu
  <2>. QED
    BY <1>2, <2>1 DEF BornOut, Running, EndsBehind, Ended
<1>3. CASE KOS!Save
  BY <1>3 DEF KOS!Save, BornOut, Running, EndsBehind, Ended
<1>4. CASE KOS!Load
  <2>1. \A c \in Cpus : ~cpu'[c].up
    BY <1>4 DEF KOS!Load, KOS!Off, KOS!On
  <2>. QED
    BY <2>1 DEF BornOut, Ended
<1>. QED
  BY <1>1, <1>2, <1>3, <1>4

(* A beat that a CPU sends is borne out.                                   *)
LEMMA SaysSo ==
  ASSUME KOS!TypeOK, GameOK, NEW c \in Cpus, CpuStep(c),
         NEW ev \in KOS!Event, outbox' = Append(outbox, ev),
         ev.kind = "heartbeat", ev.path # None
  PROVE  Running(ev.boot, ev.path)'
<1>1. /\ cpu \in [Cpus -> KOS!Cpu] /\ cpu[c] \in KOS!Cpu
      /\ Len(outbox) \in Nat /\ outbox' # outbox
  BY AppendIs, OutboxTyped DEF KOS!TypeOK
<1>2. ASSUME NEW other \in KOS!Event, outbox' = Append(outbox, other) PROVE other = ev
  <2>1. outbox'[Len(outbox) + 1] = other
    BY <1>2, AppendIs
  <2>2. outbox'[Len(outbox) + 1] = ev
    BY AppendIs
  <2>. QED
    BY <2>1, <2>2
<1>3. KOS!Beat(c) \in KOS!Event /\ \A run \in KOS!Run : KOS!Done(c, run) \in KOS!Event
  BY SentTyped
<1>4. CASE KOS!HandlePing(c)
  <2>1. ev = KOS!Beat(c)
    BY <1>2, <1>3, <1>4 DEF KOS!HandlePing, KOS!SendEvent
  <2>2. cpu[c].run = None
    BY <1>4 DEF KOS!HandlePing, KOS!Pops, KOS!Idle
  <2>. QED
    BY <2>1, <2>2 DEF KOS!Beat, GameOK
<1>5. CASE KOS!HandleRunScript(c)
  <2>1. Head(inbox[c]) \in KOS!Run
    BY <1>5, PoppedTyped DEF KOS!HandleRunScript, KOS!Pops
  <2>2. CASE Head(inbox[c]).path \in Scripts
    BY <1>1, <1>5, <2>2 DEF KOS!HandleRunScript
  <2>3. CASE Head(inbox[c]).path \notin Scripts
    <3>1. ev = KOS!Done(c, Head(inbox[c]))
      BY <1>2, <1>3, <1>5, <2>1, <2>3 DEF KOS!HandleRunScript, KOS!SendEvent
    <3>. QED
      BY <3>1 DEF KOS!Done
  <2>. QED
    BY <2>2, <2>3
<1>6. CASE KOS!HeartbeatTrigger(c)
  <2>1. ev = KOS!Beat(c)
    BY <1>2, <1>3, <1>6 DEF KOS!HeartbeatTrigger, KOS!SendEvent
  <2>2. cpu[c].up /\ cpu[c].run # None /\ cpu[c].run.path = ev.path /\ cpu[c].boot = ev.boot
    BY <1>6, <2>1 DEF KOS!HeartbeatTrigger, KOS!Executing, KOS!Beat, GameOK
  <2>3. cpu'[c].up /\ cpu'[c].run # None /\ cpu'[c].run.path = ev.path /\ cpu'[c].boot = ev.boot
    BY <1>1, <1>6, <2>2 DEF KOS!HeartbeatTrigger, KOS!Cpu
  <2>. QED
    BY <2>3 DEF Running
<1>7. CASE KOS!SendDone(c)
  <2>1. cpu[c].run \in KOS!Run
    BY <1>1, <1>7 DEF KOS!SendDone, KOS!Cpu
  <2>2. ev = KOS!Done(c, cpu[c].run)
    BY <1>2, <1>3, <1>7, <2>1 DEF KOS!SendDone, KOS!SendEvent
  <2>. QED
    BY <2>2 DEF KOS!Done
<1>8. CASE KOS!ScriptReturns(c) \/ KOS!Boot(c) \/ KOS!Die(c)
  BY <1>1, <1>8 DEF KOS!ScriptReturns, KOS!Boot, KOS!Die
<1>. QED
  BY <1>4, <1>5, <1>6, <1>7, <1>8 DEF CpuStep

(* The beat at i is borne out if what it says is.                          *)
LEMMA BeatNext ==
  ASSUME NEW i, NEW b, NEW p, b = outbox'[i].boot, p = outbox'[i].path, BornOut(i, b, p)'
  PROVE  BornOut(i, outbox[i].boot, outbox[i].path)'
  BY DEF BornOut, Running, EndsBehind, Ended

LEMMA NextQueueTruthful == TypeOK /\ GameOK /\ QueueTruthful /\ [Next]_vars => QueueTruthful'
<1>. SUFFICES ASSUME TypeOK, GameOK, QueueTruthful, [Next]_vars,
                     NEW i \in 1..Len(outbox'), Names(i)'
              PROVE  BornOut(i, outbox[i].boot, outbox[i].path)'
  BY DEF QueueTruthful
<1>0. KOS!TypeOK /\ Len(outbox) \in Nat
  BY OutboxTyped DEF TypeOK
<1>1. PICK b, p : b = outbox'[i].boot /\ p = outbox'[i].path
  OBVIOUS
<1>2. SUFFICES BornOut(i, b, p)'
  BY <1>1, BeatNext
<1>3. ASSUME outbox' = outbox
      PROVE  i \in 1..Len(outbox) /\ BornOut(i, b, p)
  BY <1>1, <1>3 DEF QueueTruthful, Names
<1>4. CASE UNCHANGED <<cpu, outbox>> \/ (KOS!NewPeriod /\ UNCHANGED outbox) \/ KOS!Save
  <2>1. outbox' = outbox
    BY <1>4 DEF KOS!Save
  <2>. QED
    BY <1>0, <1>3, <1>4, <2>1, StillBornOut
<1>5. CASE KOS!Load
  <2>1. \A c \in Cpus : ~cpu'[c].up
    BY <1>5 DEF KOS!Load, KOS!Off, KOS!On
  <2>. QED
    BY <2>1 DEF BornOut, Ended
<1>6. CASE UNCHANGED cpu /\ outbox # <<>> /\ outbox' = Tail(outbox)
  <2>1. i + 1 \in 1..Len(outbox) /\ outbox'[i] = outbox[i + 1]
    BY <1>0, <1>6, TailIs
  <2>2. BornOut(i + 1, b, p)
    BY <1>1, <2>1 DEF QueueTruthful, Names
  <2>3. BornOut((i + 1) - 1, b, p)'
    BY <1>0, <1>6, <2>1, <2>2, PopBearsOut
  <2>. QED
    BY <2>3
<1>7. ASSUME NEW c \in Cpus, CpuStep(c) PROVE BornOut(i, b, p)'
  <2>1. CASE i \in 1..Len(outbox) /\ outbox'[i] = outbox[i]
    <3>1. BornOut(i, b, p)
      BY <1>1, <2>1 DEF QueueTruthful, Names
    <3>2. b \in Nat /\ b <= boots
      BY <1>0, <1>1, <2>1, OutboxTyped DEF GameOK, KOS!Event
    <3>. QED
      BY <1>0, <1>7, <2>1, <3>1, <3>2, CpuBearsOut
  <2>2. ASSUME NEW ev \in KOS!Event, outbox' = Append(outbox, ev), i = Len(outbox) + 1
        PROVE  BornOut(i, b, p)'
    <3>1. outbox'[i] = ev
      BY <1>0, <2>2, AppendIs
    <3>2. ev.kind = "heartbeat" /\ ev.path # None
      BY <3>1 DEF Names
    <3>3. Running(ev.boot, ev.path)'
      BY <1>0, <1>7, <2>2, <3>2, SaysSo
    <3>. QED
      BY <1>1, <3>1, <3>3 DEF BornOut
  <2>3. \/ outbox' = outbox
        \/ \E ev \in KOS!Event : outbox' = Append(outbox, ev)
    BY <1>0, <1>7, CpuDoes
  <2>4. ASSUME NEW ev \in KOS!Event, outbox' = Append(outbox, ev)
        PROVE  \/ i = Len(outbox) + 1
               \/ i \in 1..Len(outbox) /\ outbox'[i] = outbox[i]
    BY <1>0, <2>4, AppendIs
  <2>. QED
    BY <2>1, <2>2, <2>3, <2>4
<1>. QED
  BY <1>4, <1>5, <1>6, <1>7, NextPlays

(* What the link says is borne out if the last beat was.                   *)
LEMMA LinkNext ==
  ASSUME NEW b, NEW p, b = linkBoot', p = link'.running, BornOut(0, b, p)'
  PROVE  LinkTruthful'
  BY DEF LinkTruthful, BornOut, Running, EndsBehind, Ended

LEMMA NextLinkTruthful ==
  TypeOK /\ GameOK /\ WatchOK /\ QueueTruthful /\ LinkTruthful /\ [Next]_vars /\ ~SessionEnds
    => LinkTruthful'
<1>. SUFFICES ASSUME TypeOK, GameOK, WatchOK, QueueTruthful, LinkTruthful, [Next]_vars, ~SessionEnds
              PROVE  LinkTruthful'
  OBVIOUS
<1>0. KOS!TypeOK /\ WD!TypeOK /\ Len(outbox) \in Nat
  BY OutboxTyped DEF TypeOK
<1>1. CASE link'.running = None
  BY <1>1 DEF LinkTruthful
<1>2. CASE UNCHANGED <<link, linkBoot>> /\ ~PopMessage /\ link.running # None
  <2>1. PICK b, p : b = linkBoot /\ p = link.running
    OBVIOUS
  <2>2. SUFFICES BornOut(0, b, p)'
    BY <1>2, <2>1, LinkNext
  <2>3. BornOut(0, b, p)
    BY <1>2, <2>1 DEF LinkTruthful
  <2>4. CASE UNCHANGED <<cpu, outbox>> \/ (KOS!NewPeriod /\ UNCHANGED outbox) \/ KOS!Save \/ KOS!Load
    BY <1>0, <2>3, <2>4, StillBornOut
  <2>5. ASSUME NEW c \in Cpus, CpuStep(c) PROVE BornOut(0, b, p)'
    <3>1. b \in Nat /\ b <= boots
      BY <1>0, <1>2, <2>1 DEF WatchOK, WD!TypeOK, Boots
    <3>2. 0 \in 0..Len(outbox)
      BY <1>0
    <3>. QED
      BY <1>0, <2>3, <2>5, <3>1, <3>2, CpuBearsOut
  <2>6. \/ UNCHANGED <<cpu, outbox>> \/ (KOS!NewPeriod /\ UNCHANGED outbox) \/ KOS!Save \/ KOS!Load
        \/ \E c \in Cpus : CpuStep(c)
    BY <1>2 DEF Next, vars, game, ReadVessel, Deliver, PingLoop, Sample, Connect, Tick, Save, Load,
               Listener, ScriptReturns, Boot, Die, Switch, KOS!SwitchVessel, CpuStep
  <2>. QED
    BY <2>4, <2>5, <2>6
<1>3. CASE PopMessage
  <2>. DEFINE m == Head(outbox)
  <2>1. UNCHANGED cpu /\ outbox # <<>> /\ outbox' = Tail(outbox)
    BY <1>3 DEF PopMessage
  <2>2. m = outbox[1] /\ 1 \in 1..Len(outbox)
    BY <1>0, <2>1, TailIs
  <2>3. CASE link'.running = m.path /\ linkBoot' = m.boot /\ m.kind = "heartbeat" /\ m.path # None
    <3>1. PICK b, p : b = m.boot /\ p = m.path
      OBVIOUS
    <3>2. BornOut(1, b, p)
      BY <2>2, <2>3, <3>1 DEF QueueTruthful, Names
    <3>3. BornOut(1 - 1, b, p)'
      BY <1>0, <2>1, <2>2, <3>2, PopBearsOut
    <3>. QED
      BY <2>3, <3>1, <3>3, LinkNext
  <2>4. CASE /\ UNCHANGED <<link, linkBoot>> /\ link.running # None
             /\ ~(m.kind = "script_done" /\ m.path = link.running /\ m.boot = linkBoot)
    <3>1. PICK b, p : b = linkBoot /\ p = link.running
      OBVIOUS
    <3>2. BornOut(0, b, p)
      BY <2>4, <3>1 DEF LinkTruthful
    <3>3. 0 \in 0..Len(outbox)
      BY <1>0
    <3>4. BornOut(0, b, p)'
      BY <1>0, <2>1, <2>4, <3>1, <3>2, <3>3, PopBearsOut
    <3>. QED
      BY <2>4, <3>1, <3>4, LinkNext
  <2>5. CASE m.kind = "heartbeat"
    <3>1. WD!OnHeartbeat(m.boot, m.path, m.active)
      BY <1>3, <2>5 DEF PopMessage
    <3>2. CASE m.active
      <4>1. link' = [up |-> TRUE, running |-> m.path] /\ linkBoot' = m.boot
        BY <3>1, <3>2, Zenon DEF WD!OnHeartbeat
      <4>2. link'.running = m.path
        BY <4>1
      <4>. QED
        BY <1>1, <2>3, <2>5, <4>1, <4>2
    <3>3. CASE ~m.active
      BY <1>1, <2>4, <2>5, <3>1, <3>3 DEF WD!OnHeartbeat, WD!linking
    <3>. QED
      BY <3>2, <3>3
  <2>6. CASE m.kind # "heartbeat"
    <3>1. WD!OnDone(m.path, m.boot)
      BY <1>3, <2>6 DEF PopMessage
    <3>2. m.kind = "script_done" /\ m.path # None /\ link \in WD!KosLink
      BY <1>0, <2>1, <2>6, HeadTyped, NoneApart DEF WD!TypeOK
    <3>3. CASE m.boot \in {None, linkBoot} /\ link.running = m.path
      <4>1. link'.running = None
        BY <3>1, <3>2, <3>3 DEF WD!OnDone, WD!KosLink
      <4>. QED
        BY <1>1, <4>1
    <3>4. CASE ~(m.boot \in {None, linkBoot} /\ link.running = m.path)
      <4>1. UNCHANGED <<link, linkBoot>>
        BY <3>1, <3>4 DEF WD!OnDone
      <4>. QED
        BY <1>1, <2>4, <3>4, <4>1
    <3>. QED
      BY <3>3, <3>4
  <2>. QED
    BY <2>5, <2>6
<1>4. CASE Sample
  <2>1. link'.running = None \/ (UNCHANGED <<link, linkBoot>> /\ ~PopMessage)
    <3>1. ~PopMessage
      BY <1>0, <1>4, TailIs DEF Sample, game, PopMessage
    <3>. QED
      BY <1>4, <3>1 DEF Sample, WD!Unmoved, WD!linking, WD!Rewind, WD!Advance, WD!LinkDown, WD!NoLink
  <2>. QED
    BY <1>1, <1>2, <2>1
<1>5. \/ UNCHANGED <<link, linkBoot>> /\ ~PopMessage
      \/ PopMessage \/ Sample
  <2>1. UNCHANGED <<link, linkBoot>> \/ PopMessage \/ Sample
    BY DEF Next, vars, watchdog, ReadVessel, PingLoop, WD!PingDue, WD!watching, WD!linking,
           Deliver, WD!OnDispatch,
           SessionEnds, Connect, Tick, WD!WallPasses, Save, Load, Listener, ScriptReturns, Boot,
           Die, Switch
  <2>. QED
    BY <2>1
<1>. QED
  BY <1>1, <1>2, <1>3, <1>4, <1>5

(* A cut session may have popped the message that bears the link out.      *)
LinkInv ==
  /\ TypeOK /\ GameOK /\ WatchOK /\ QueueTruthful
  /\ spent["cut"] <= MaxCut
  /\ spent["cut"] = 0 => LinkTruthful

LEMMA InitLinkInv == Init => LinkInv
<1>. SUFFICES ASSUME Init PROVE LinkInv
  OBVIOUS
<1>1. outbox = <<>> /\ link.running = None
  BY DEF Init, KOS!GameInit, WD!Init, WD!NoLink
<1>2. spent["cut"] = 0 /\ 0 <= MaxCut
  BY LinkAssumption DEF Init, Budget
<1>. QED
  BY <1>1, <1>2, InitTyped, InitOK DEF LinkInv, QueueTruthful, LinkTruthful

LEMMA CutsCounted ==
  ASSUME TypeOK, [Next]_vars
  PROVE  /\ spent["cut"] \in Nat
         /\ SessionEnds => spent'["cut"] = spent["cut"] + 1 /\ spent["cut"] < MaxCut
         /\ spent'["cut"] = spent["cut"] \/ SessionEnds
<1>1. spent \in [{"switch", "death", "load", "cut"} -> Nat]
  BY DEF TypeOK, Budget
<1>2. SessionEnds => spent'["cut"] = spent["cut"] + 1 /\ spent["cut"] < MaxCut
  BY <1>1 DEF SessionEnds, Spend, Budget
<1>3. UNCHANGED spent \/ SessionEnds \/ \E kind \in {"switch", "death", "load"} : Spend(kind)
  BY DEF Next, vars, ReadVessel, Deliver, PingLoop, PopMessage, Sample,
         Connect, Tick, Save, Load, Listener, ScriptReturns, Boot, Die, Switch
<1>4. ASSUME NEW kind \in {"switch", "death", "load"}, Spend(kind) PROVE spent'["cut"] = spent["cut"]
  BY <1>1, <1>4 DEF Spend
<1>. QED
  BY <1>1, <1>2, <1>3, <1>4

LEMMA NextLinkInv == LinkInv /\ [Next]_vars => LinkInv'
<1>. SUFFICES ASSUME LinkInv, [Next]_vars PROVE LinkInv'
  OBVIOUS
<1>1. TypeOK /\ GameOK /\ WatchOK /\ QueueTruthful
  BY DEF LinkInv
<1>2. TypeOK' /\ GameOK' /\ WatchOK' /\ QueueTruthful'
  BY <1>1, NextTyped, NextGameOK, NextWatchOK, NextQueueTruthful
<1>3. MaxCut \in Nat
  BY LinkAssumption
<1>4. spent'["cut"] <= MaxCut
  BY <1>1, <1>3, CutsCounted DEF LinkInv
<1>5. spent'["cut"] = 0 => LinkTruthful'
  <2>1. CASE SessionEnds
    BY <1>1, <2>1, CutsCounted
  <2>2. CASE ~SessionEnds
    BY <1>1, <2>2, CutsCounted, NextLinkTruthful DEF LinkInv
  <2>. QED
    BY <2>1, <2>2
<1>. QED
  BY <1>2, <1>4, <1>5 DEF LinkInv

LEMMA LinkInvAlways == Spec => []LinkInv
  BY InitLinkInv, NextLinkInv, PTL DEF Spec

(* While no kRPC session has been cut, the buttons are greyed out and the  *)
(* pings held back only for a script that runs, whose end is on its way,   *)
(* or whose session is over.                                               *)
THEOREM RunningStaysTrue == Spec => [](spent["cut"] = 0 => RunningIsTrue)
<1>1. LinkInv => (spent["cut"] = 0 => RunningIsTrue)
  BY TruthfulSuffices DEF LinkInv
<1>. QED
  BY <1>1, LinkInvAlways, PTL

-----------------------------------------------------------------------------
(* OwnRunWatched.  A run is in time when its silence, and what the next    *)
(* sample will add to it, is one period, or two while a beat is still to   *)
(* come in this one; each kRPC session lost costs a sample gap more.       *)
Queued(c, id) == \E i \in 1..Len(inbox[c]) : inbox[c][i].op = "run_script" /\ inbox[c][i].id = id
Holds(c, id) == Carries(c, id) \/ Queued(c, id)
Own(c, e) == cpu[c].up /\ cpu[c].boot = e.boot /\ Holds(c, e.id)

BeatPending(c) == \E i \in 1..Len(outbox) : outbox[i].kind = "heartbeat" /\ outbox[i].boot = cpu[c].boot
BeatDue(c) == ~(KOS!Executing(c) /\ cpu[c].beaten) \/ BeatPending(c)
Periods(c) == IF BeatDue(c) THEN 2 ELSE 1

Unsampled == IF lastUt = None THEN 0 ELSE WD!Counted
Slack == spent["cut"] * MaxGap

OnTime(c, e) ==
  /\ e.silence + Unsampled <= Slack + Periods(c)
  /\ ~connected => e.silence <= Slack + 2 - MaxGap
Timely == \A c \in Cpus, e \in entries : Own(c, e) => OnTime(c, e)

(* What the clocks of the watchdog say of each other.  Until a session was *)
(* lost there is one, and no time passes in it between two samples but one *)
(* period.                                                                 *)
Clocked ==
  /\ lastUt = None => \A e \in entries : e.silence = 0
  /\ moved = "still" /\ lastUt # None => sinceSample = 0
  /\ spent["cut"] = 0 /\ lastUt # None => connected /\ sinceSample <= 1
  /\ spent["cut"] = 0 /\ ~connected => entries = {}

LEMMA TimesFacts ==
  ASSUME NEW k \in Nat, NEW n \in Nat, NEW m \in Nat
  PROVE  /\ k * m \in Nat
         /\ (k + 1) * m = k * m + m
         /\ k # 0 => m <= k * m
         /\ k <= n => k * m <= n * m
<1>1. k * m \in Nat /\ (k + 1) * m = k * m + m
  OBVIOUS
<1>2. ASSUME k <= n PROVE k * m <= n * m
  <2>1. PICK d \in Nat : n = k + d
    <3>1. n - k \in Nat /\ n = k + (n - k)
      BY <1>2
    <3>. QED
      BY <3>1
  <2>2. n * m = k * m + d * m /\ d * m \in Nat
    BY <2>1
  <2>. QED
    BY <1>1, <2>2
<1>3. ASSUME k # 0 PROVE m <= k * m
  <2>1. k - 1 \in Nat /\ k * m = (k - 1) * m + m /\ (k - 1) * m \in Nat
    BY <1>3
  <2>. QED
    BY <2>1
<1>. QED
  BY <1>1, <1>2, <1>3

LEMMA SlackFacts ==
  ASSUME TypeOK
  PROVE  /\ Slack \in Nat
         /\ spent["cut"] # 0 => MaxGap <= Slack
         /\ spent["cut"] <= MaxCut => Slack <= MaxCut * MaxGap
         /\ spent'["cut"] = spent["cut"] => Slack' = Slack
         /\ spent'["cut"] = spent["cut"] + 1 => Slack' = Slack + MaxGap
<1>1. spent["cut"] \in Nat /\ MaxCut \in Nat
  BY LinkAssumption DEF TypeOK, Budget
<1>. QED
  BY <1>1, TimesFacts DEF Slack

LEMMA UnsampledBound ==
  WD!TypeOK => Unsampled \in 0..MaxGap /\ Unsampled <= sinceSample /\ sinceSample \in Nat
<1>1. WD!TypeOK => sinceSample \in Nat
  BY DEF WD!TypeOK
<1>. QED
  BY <1>1, CountedBound DEF Unsampled

LEMMA SilenceNat ==
  WD!TypeOK => \A e \in entries : e \in WD!Entry /\ e.silence \in Nat /\ e.id \in Nat \ {0}
  BY DEF WD!TypeOK, WD!Entry

(* What becomes of a run when a beat is taken in.                          *)
LEMMA BeatHeard ==
  ASSUME WD!TypeOK, NEW boot, NEW path, NEW onActive, WD!OnHeartbeat(boot, path, onActive)
  PROVE  /\ \A f \in entries' : \E e \in entries :
              f.id = e.id /\ ((f.boot = boot /\ f.silence = 0) \/ (f = e /\ e.boot # boot))
         /\ \A e \in entries : \E f \in entries' : f.id = e.id
<1>. DEFINE New(e) == [e EXCEPT !.boot = boot, !.silence = 0]
<1>1. \A e \in entries : New(e).id = e.id /\ New(e).boot = boot /\ New(e).silence = 0
  BY SilenceNat DEF WD!Entry
<1>2. entries' = {IF WD!Heard(e, boot, onActive) THEN New(e) ELSE e : e \in entries}
  BY DEF WD!OnHeartbeat
<1>3. \A e \in entries : ~WD!Heard(e, boot, onActive) => e.boot # boot
  BY DEF WD!Heard
<1>. HIDE DEF New
<1>. QED
  BY <1>1, <1>2, <1>3

LEMMA InitClocked == Init => Clocked /\ Timely
<1>. SUFFICES ASSUME Init PROVE Clocked /\ Timely
  OBVIOUS
<1>1. entries = {} /\ lastUt = None
  BY DEF Init, WD!Init
<1>. QED
  BY <1>1 DEF Clocked, Timely

LEMMA SampleIs ==
  ASSUME TypeOK, Sample
  PROVE  /\ connected /\ connected' = connected /\ lastUt' \in UT /\ lastUt' # None
         /\ sinceSample' = 0 /\ moved' = "still" /\ UNCHANGED game
         /\ lastUt = None => WD!Unmoved
         /\ lastUt # None => (moved = "back" /\ WD!Rewind) \/ WD!Advance
<1>1. ut \in UT /\ None \notin UT
  BY LinkAssumption DEF TypeOK
<1>. QED
  BY <1>1 DEF Sample, WD!TakeSample, session

LEMMA NextClocked == TypeOK /\ Clocked /\ [Next]_vars => Clocked'
<1>. SUFFICES ASSUME TypeOK, Clocked, [Next]_vars PROVE Clocked'
  OBVIOUS
<1>0. WD!TypeOK /\ KOS!TypeOK /\ spent["cut"] \in Nat
  BY CutsCounted DEF TypeOK
<1>1. CASE UNCHANGED <<entries, lastUt, sinceSample, connected>> /\ UNCHANGED moved /\ ~SessionEnds
  <2>1. spent'["cut"] = spent["cut"]
    BY <1>1, CutsCounted
  <2>. QED
    BY <1>1, <2>1 DEF Clocked
<1>2. CASE Deliver
  <2>1. spent'["cut"] = spent["cut"] /\ connected /\ connected'
    BY <1>2, CutsCounted DEF Deliver, SessionEnds
  <2>2. UNCHANGED <<lastUt, sinceSample, moved>>
    BY <1>2 DEF Deliver, WD!OnDispatch, clock
  <2>3. lastUt = None => \A e \in entries' : e.silence = 0
    BY <1>2 DEF Deliver, WD!OnDispatch, Clocked
  <2>. QED
    BY <2>1, <2>2, <2>3 DEF Clocked
<1>3. CASE PopMessage
  <2>1. spent'["cut"] = spent["cut"] /\ connected /\ connected'
    BY <1>3, CutsCounted DEF PopMessage, SessionEnds, session
  <2>2. UNCHANGED <<lastUt, sinceSample, moved>>
    BY <1>3 DEF PopMessage, WD!OnHeartbeat, WD!OnDone, clock
  <2>3. lastUt = None => \A e \in entries' : e.silence = 0
    <3>1. CASE Head(outbox).kind = "heartbeat"
      <4>1. WD!OnHeartbeat(Head(outbox).boot, Head(outbox).path, Head(outbox).active)
        BY <1>3, <3>1 DEF PopMessage
      <4>. QED
        BY <1>0, <4>1, BeatHeard DEF Clocked
    <3>2. CASE Head(outbox).kind # "heartbeat"
      BY <1>3, <3>2 DEF PopMessage, WD!OnDone, Clocked
    <3>. QED
      BY <3>1, <3>2
  <2>. QED
    BY <2>1, <2>2, <2>3 DEF Clocked
<1>4. CASE Sample
  BY <1>4, SampleIs DEF Clocked
<1>5. CASE SessionEnds
  <2>1. spent'["cut"] # 0
    BY <1>0, <1>5, CutsCounted
  <2>2. UNCHANGED <<entries, lastUt, sinceSample, moved>>
    BY <1>5 DEF SessionEnds, watchdog, clock
  <2>. QED
    BY <2>1, <2>2 DEF Clocked
<1>6. CASE Connect
  <2>1. UNCHANGED <<entries, lastUt, sinceSample, moved>> /\ spent'["cut"] = spent["cut"] /\ connected'
    BY <1>6, CutsCounted DEF Connect, watchdog, clock, SessionEnds
  <2>. QED
    BY <2>1 DEF Clocked
<1>7. CASE Tick
  <2>1. UNCHANGED <<entries, lastUt, connected>> /\ moved' # "still"
    BY <1>7 DEF Tick, WD!WallPasses, WD!watching, session
  <2>2. spent'["cut"] = spent["cut"]
    BY <1>7, CutsCounted DEF Tick, SessionEnds, session
  <2>3. lastUt # None /\ spent["cut"] = 0 => sinceSample' <= 1
    <3>1. ASSUME lastUt # None, spent["cut"] = 0 PROVE sinceSample = 0
      BY <1>7, <3>1 DEF Tick, Clocked
    <3>. QED
      BY <1>7, <3>1 DEF Tick, WD!WallPasses, WD!AtMost
  <2>. QED
    BY <2>1, <2>2, <2>3 DEF Clocked
<1>8. CASE Load
  <2>1. UNCHANGED <<entries, lastUt, sinceSample, connected>> /\ moved' # "still"
    BY <1>8 DEF Load, watchdog, session
  <2>2. spent'["cut"] = spent["cut"]
    BY <1>8, CutsCounted DEF Load, SessionEnds, session
  <2>. QED
    BY <2>1, <2>2 DEF Clocked
<1>9. \/ UNCHANGED <<entries, lastUt, sinceSample, connected>> /\ UNCHANGED moved /\ ~SessionEnds
      \/ Deliver \/ PopMessage \/ Sample \/ SessionEnds \/ Connect \/ Tick \/ Load
  <2>1. \/ UNCHANGED <<entries, lastUt, sinceSample, connected>> /\ UNCHANGED moved
        \/ Deliver \/ PopMessage \/ Sample \/ SessionEnds \/ Connect \/ Tick \/ Load
    BY DEF Next, vars, watchdog, session, clock, ReadVessel, PingLoop, WD!PingDue, WD!watching,
           Save, Listener, ScriptReturns, Boot, Die, Switch
  <2>. QED
    BY <2>1
<1>. QED
  BY <1>1, <1>2, <1>3, <1>4, <1>5, <1>6, <1>7, <1>8, <1>9

(* A message popped from a CPU's inbox.                                    *)
LEMMA InboxPop ==
  ASSUME KOS!TypeOK, NEW c \in Cpus, inbox[c] # <<>>, KOS!PopInbox(c)
  PROVE  /\ \A d \in Cpus : \A id : Queued(d, id)' => Queued(d, id)
         /\ \A id : Head(inbox[c]).op = "run_script" /\ Head(inbox[c]).id = id => Queued(c, id)
<1>. DEFINE M == {KOS!Ping} \cup KOS!Run
<1>1. inbox \in [Cpus -> Seq(M)]
  BY DEF KOS!TypeOK
<1>. HIDE DEF M
<1>2. inbox[c] \in Seq(M)
  BY <1>1
<1>3. \A d \in Cpus : inbox'[d] = IF d = c THEN Tail(inbox[c]) ELSE inbox[d]
  BY <1>1 DEF KOS!PopInbox
<1>4. \A i \in 1..Len(Tail(inbox[c])) : i + 1 \in 1..Len(inbox[c]) /\ Tail(inbox[c])[i] = inbox[c][i + 1]
  BY <1>2
<1>5. 1 \in 1..Len(inbox[c]) /\ Head(inbox[c]) = inbox[c][1]
  BY <1>2
<1>6. ASSUME NEW d \in Cpus, NEW id, Queued(d, id)' PROVE Queued(d, id)
  <2>1. CASE d # c
    <3>1. inbox'[d] = inbox[d]
      BY <1>3, <2>1
    <3>. QED
      BY <1>6, <3>1 DEF Queued
  <2>2. CASE d = c
    <3>1. inbox'[d] = Tail(inbox[c])
      BY <1>3, <2>2
    <3>2. PICK i \in 1..Len(Tail(inbox[c])) :
            Tail(inbox[c])[i].op = "run_script" /\ Tail(inbox[c])[i].id = id
      BY <1>6, <3>1 DEF Queued
    <3>3. i + 1 \in 1..Len(inbox[c]) /\ Tail(inbox[c])[i] = inbox[c][i + 1]
      BY <1>4
    <3>. QED
      BY <2>2, <3>2, <3>3 DEF Queued
  <2>. QED
    BY <2>1, <2>2
<1>. QED
  BY <1>5, <1>6 DEF Queued

(* Messages only join the queue: a beat that waits goes on waiting.        *)
LEMMA PendingStays ==
  ASSUME KOS!TypeOK, NEW c \in Cpus, CpuStep(c), NEW d \in Cpus, cpu'[d].boot = cpu[d].boot,
         BeatPending(d)
  PROVE  BeatPending(d)'
<1>1. PICK i \in 1..Len(outbox) : outbox[i].kind = "heartbeat" /\ outbox[i].boot = cpu[d].boot
  BY DEF BeatPending
<1>2. i \in 1..Len(outbox') /\ outbox'[i] = outbox[i]
  <2>1. CASE outbox' = outbox
    BY <2>1
  <2>2. ASSUME NEW ev \in KOS!Event, outbox' = Append(outbox, ev)
        PROVE  i \in 1..Len(outbox') /\ outbox'[i] = outbox[i]
    BY <2>2, AppendIs
  <2>. QED
    BY <2>1, <2>2, CpuDoes
<1>. QED
  BY <1>1, <1>2 DEF BeatPending

(* A CPU's step gives no CPU a run it did not hold, and while a beat is    *)
(* due it stays due until it is in the queue.                              *)
LEMMA CpuKeepsTime ==
  ASSUME KOS!TypeOK, GameOK, WatchOK, NEW c \in Cpus, CpuStep(c),
         NEW d \in Cpus, NEW e \in entries, e \in WD!Entry, Own(d, e)'
  PROVE  Own(d, e) /\ (BeatDue(d) => BeatDue(d)')
<1>1. /\ cpu \in [Cpus -> KOS!Cpu] /\ cpu[c] \in KOS!Cpu /\ boots \in Nat
      /\ inbox \in [Cpus -> Seq({KOS!Ping} \cup KOS!Run)]
  BY DEF KOS!TypeOK
<1>2. CASE d # c
  <2>1. cpu'[d] = cpu[d]
    BY <1>2, CpuDoes
  <2>2. Queued(d, e.id)' => Queued(d, e.id)
    <3>1. CASE KOS!HandlePing(c) \/ KOS!HandleRunScript(c)
      BY <3>1, InboxPop DEF KOS!HandlePing, KOS!HandleRunScript, KOS!Pops
    <3>2. CASE KOS!Boot(c)
      <4>1. inbox'[d] = inbox[d]
        BY <1>1, <1>2, <3>2 DEF KOS!Boot
      <4>. QED
        BY <4>1 DEF Queued
    <3>3. CASE KOS!HeartbeatTrigger(c) \/ KOS!SendDone(c) \/ KOS!ScriptReturns(c) \/ KOS!Die(c)
      BY <3>3 DEF KOS!HeartbeatTrigger, KOS!SendDone, KOS!ScriptReturns, KOS!Die, Queued
    <3>. QED
      BY <3>1, <3>2, <3>3 DEF CpuStep
  <2>. QED
    BY <2>1, <2>2, PendingStays DEF Own, Holds, Carries, BeatDue, KOS!Executing
<1>3. CASE d = c
  <2>1. ASSUME cpu'[c].boot = cpu[c].boot, cpu'[c].up => cpu[c].up,
               Holds(c, e.id)' => Holds(c, e.id),
               ~(KOS!Executing(c) /\ cpu[c].beaten) =>
                  ~(KOS!Executing(c) /\ cpu[c].beaten)' \/ BeatPending(c)'
        PROVE  Own(d, e) /\ (BeatDue(d) => BeatDue(d)')
    BY <1>3, <2>1, PendingStays DEF Own, BeatDue
  <2>2. CASE KOS!HandlePing(c)
    <3>1. UNCHANGED cpu /\ inbox[c] # <<>> /\ KOS!PopInbox(c)
      BY <2>2 DEF KOS!HandlePing, KOS!Pops
    <3>. QED
      BY <2>1, <3>1, InboxPop DEF Holds, Carries, KOS!Executing
  <2>3. CASE KOS!HandleRunScript(c)
    <3>. DEFINE run == Head(inbox[c])
    <3>1. inbox[c] # <<>> /\ KOS!PopInbox(c) /\ run.op = "run_script" /\ cpu[c].run = None
      BY <2>3 DEF KOS!HandleRunScript, KOS!Pops, KOS!Idle
    <3>2. CASE run.path \in Scripts
      <4>1. cpu'[c].boot = cpu[c].boot /\ cpu'[c].up = cpu[c].up /\ cpu'[c].run = run /\ ~cpu'[c].beaten
        BY <1>1, <2>3, <3>2 DEF KOS!HandleRunScript, KOS!Cpu
      <4>. QED
        BY <2>1, <3>1, <4>1, InboxPop DEF Holds, Carries
    <3>3. CASE run.path \notin Scripts
      <4>1. UNCHANGED cpu
        BY <2>3, <3>3 DEF KOS!HandleRunScript
      <4>. QED
        BY <2>1, <3>1, <4>1, InboxPop DEF Holds, Carries, KOS!Executing
    <3>. QED
      BY <3>2, <3>3
  <2>4. CASE KOS!HeartbeatTrigger(c)
    <3>1. /\ cpu'[c].boot = cpu[c].boot /\ cpu'[c].up = cpu[c].up /\ cpu'[c].run = cpu[c].run
          /\ inbox' = inbox
      BY <1>1, <2>4 DEF KOS!HeartbeatTrigger, KOS!Cpu
    <3>2. BeatPending(c)'
      <4>1. KOS!Beat(c) \in KOS!Event /\ outbox' = Append(outbox, KOS!Beat(c))
        BY <2>4, SentTyped DEF KOS!HeartbeatTrigger, KOS!SendEvent
      <4>2. /\ Len(outbox) + 1 \in 1..Len(outbox')
            /\ outbox'[Len(outbox) + 1] = KOS!Beat(c)
        BY <4>1, AppendIs
      <4>. QED
        BY <3>1, <4>2 DEF BeatPending, KOS!Beat
    <3>. QED
      BY <2>1, <3>1, <3>2 DEF Holds, Carries, Queued
  <2>5. CASE KOS!SendDone(c)
    <3>1. /\ cpu'[c].boot = cpu[c].boot /\ cpu'[c].up = cpu[c].up /\ cpu'[c].run = None
          /\ cpu'[c].hbPath = None /\ inbox' = inbox
      BY <1>1, <2>5 DEF KOS!SendDone, KOS!Cpu
    <3>. QED
      BY <2>1, <3>1 DEF Holds, Carries, Queued, KOS!Executing
  <2>6. CASE KOS!ScriptReturns(c)
    <3>1. /\ cpu'[c].boot = cpu[c].boot /\ cpu'[c].up = cpu[c].up /\ cpu'[c].run = cpu[c].run
          /\ cpu'[c].hbPath = None /\ inbox' = inbox
      BY <1>1, <2>6 DEF KOS!ScriptReturns, KOS!Cpu
    <3>. QED
      BY <2>1, <3>1 DEF Holds, Carries, Queued, KOS!Executing
  <2>7. CASE KOS!Boot(c)
    <3>1. cpu'[c].boot = boots + 1
      BY <1>1, <2>7 DEF KOS!Boot, KOS!On
    <3>2. e.boot = boots + 1
      BY <1>3, <3>1 DEF Own
    <3>3. boots + 1 \in 1..MaxBoot
      BY <1>1, <2>7 DEF KOS!Boot, KOS!TypeOK
    <3>. QED
      BY <1>1, <3>2, <3>3, NoneApart DEF WatchOK
  <2>8. CASE KOS!Die(c)
    BY <1>1, <1>3, <2>8 DEF KOS!Die, KOS!Off, KOS!On, Own
  <2>. QED
    BY <2>2, <2>3, <2>4, <2>5, <2>6, <2>7, <2>8 DEF CpuStep
<1>. QED
  BY <1>2, <1>3

LEMMA PeriodsIs ==
  ASSUME NEW c
  PROVE  /\ Periods(c) \in {1, 2} /\ Periods(c)' \in {1, 2}
         /\ (BeatDue(c) => BeatDue(c)') => Periods(c) <= Periods(c)'
<1>1. CASE BeatDue(c) /\ BeatDue(c)'
  BY <1>1 DEF Periods
<1>2. CASE BeatDue(c) /\ ~BeatDue(c)'
  BY <1>2 DEF Periods
<1>3. CASE ~BeatDue(c) /\ BeatDue(c)'
  BY <1>3 DEF Periods
<1>4. CASE ~BeatDue(c) /\ ~BeatDue(c)'
  BY <1>4 DEF Periods
<1>. QED
  BY <1>1, <1>2, <1>3, <1>4

LEMMA UnsampledKept == UNCHANGED <<lastUt, sinceSample>> => Unsampled' = Unsampled
  BY DEF Unsampled, WD!Counted, WD!AtMost

(* No time passes for a run.                                               *)
LEMMA TimeStands ==
  ASSUME TypeOK, Timely, NEW c \in Cpus, NEW e \in entries, Own(c, e),
         BeatDue(c) => BeatDue(c)', connected => connected',
         UNCHANGED <<lastUt, sinceSample>>, spent'["cut"] = spent["cut"]
  PROVE  OnTime(c, e)'
<1>1. e.silence \in Nat /\ Unsampled \in Nat /\ Slack \in Nat /\ Slack' = Slack
  BY SilenceNat, UnsampledBound, SlackFacts DEF TypeOK
<1>2. OnTime(c, e)
  BY DEF Timely
<1>3. Unsampled' = Unsampled
  BY UnsampledKept
<1>. QED
  BY <1>1, <1>2, <1>3, PeriodsIs DEF OnTime

(* A run just dispatched, or just heard of, is in time.                    *)
LEMMA NewOnTime ==
  ASSUME TypeOK, Clocked, NEW c, NEW e, e.silence = 0, connected',
         UNCHANGED <<lastUt, sinceSample>>, spent'["cut"] = spent["cut"]
  PROVE  OnTime(c, e)'
<1>1. /\ Unsampled \in 0..MaxGap /\ Unsampled <= sinceSample /\ sinceSample \in Nat
      /\ Slack \in Nat /\ Slack' = Slack /\ (spent["cut"] # 0 => MaxGap <= Slack)
  BY UnsampledBound, SlackFacts DEF TypeOK
<1>2. Unsampled' = Unsampled
  BY UnsampledKept
<1>3. Unsampled <= Slack + 1
  <2>1. CASE spent["cut"] # 0
    BY <1>1, <2>1
  <2>2. CASE lastUt = None
    BY <1>1, <2>2 DEF Unsampled
  <2>3. CASE spent["cut"] = 0 /\ lastUt # None
    BY <1>1, <2>3 DEF Clocked
  <2>. QED
    BY <2>1, <2>2, <2>3
<1>. QED
  BY <1>1, <1>2, <1>3, PeriodsIs DEF OnTime

(* What a message sent to a CPU changes of what CPUs hold.                 *)
LEMMA PostHolds ==
  ASSUME KOS!TypeOK, NEW to \in Cpus, NEW m \in {KOS!Ping} \cup KOS!Run, KOS!SendMessage(to, m),
         NEW d \in Cpus, NEW id, m.op = "run_script" => m.id # id, Queued(d, id)'
  PROVE  Queued(d, id)
<1>. DEFINE M == {KOS!Ping} \cup KOS!Run
<1>1. inbox \in [Cpus -> Seq(M)]
  BY DEF KOS!TypeOK
<1>2. inbox' = inbox \/ inbox' = [inbox EXCEPT ![to] = Append(@, m)]
  BY DEF KOS!SendMessage
<1>3. CASE inbox'[d] = inbox[d]
  BY <1>3 DEF Queued
<1>4. CASE inbox'[d] = Append(inbox[d], m)
  <2>1. PICK i \in 1..Len(inbox'[d]) : inbox'[d][i].op = "run_script" /\ inbox'[d][i].id = id
    BY DEF Queued
  <2>2. \/ i \in 1..Len(inbox[d]) /\ inbox'[d][i] = inbox[d][i]
        \/ inbox'[d][i] = m
    <3>. HIDE DEF M
    <3>1. inbox[d] \in Seq(M) /\ m \in M
      BY <1>1 DEF M
    <3>. QED
      BY <1>4, <2>1, <3>1
  <2>. QED
    BY <2>1, <2>2 DEF Queued
<1>. QED
  BY <1>1, <1>2, <1>3, <1>4

(* Nothing but the inboxes changes.                                        *)
LEMMA SameOwner ==
  ASSUME NEW c \in Cpus, NEW e, NEW f, f.id = e.id, f.boot = e.boot,
         cpu'[c].boot = cpu[c].boot, cpu'[c].up = cpu[c].up, cpu'[c].run = cpu[c].run,
         Queued(c, e.id)' => Queued(c, e.id), Own(c, f)'
  PROVE  Own(c, e)
  BY DEF Own, Holds, Carries

LEMMA DueKept ==
  ASSUME NEW c \in Cpus, UNCHANGED cpu, BeatPending(c) => BeatPending(c)'
  PROVE  BeatDue(c) => BeatDue(c)'
  BY DEF BeatDue, KOS!Executing

-----------------------------------------------------------------------------
LEMMA DeliverTimely ==
  ASSUME TypeOK, WatchOK, Clocked, Timely, Deliver
  PROVE  Timely'
<1>. SUFFICES ASSUME NEW c \in Cpus, NEW e \in entries', Own(c, e)' PROVE OnTime(c, e)'
  BY DEF Timely
<1>0. KOS!TypeOK /\ WD!TypeOK /\ dispatched \in Nat
  BY DEF TypeOK, WD!TypeOK
<1>1. /\ UNCHANGED <<cpu, outbox, lastUt, sinceSample>> /\ connected /\ connected'
      /\ spent'["cut"] = spent["cut"]
  BY DEF Deliver, WD!OnDispatch
<1>2. CASE e.silence = 0
  BY <1>1, <1>2, NewOnTime
<1>3. CASE e \in entries
  <2>. DEFINE m == KOS!RunScript(sending.path, dispatched + 1)
  <2>1. sending \in [path : Paths, to : Cpus] /\ dispatched + 1 \in 0..MaxDispatch
    BY <1>0 DEF Deliver, TypeOK, WD!OnDispatch, WD!TypeOK
  <2>2. m \in KOS!Run /\ m.id = dispatched + 1 /\ KOS!SendMessage(sending.to, m) /\ sending.to \in Cpus
    BY <2>1 DEF KOS!RunScript, KOS!Run, Deliver
  <2>3. m.id # e.id
    BY <1>0, <1>3, <2>2, SilenceNat DEF WatchOK
  <2>. HIDE DEF m
  <2>4. Own(c, e)
    BY <1>0, <1>1, <2>2, <2>3, PostHolds, SameOwner
  <2>5. BeatDue(c) => BeatDue(c)'
    BY <1>1, DueKept DEF BeatPending
  <2>. QED
    BY <1>1, <1>3, <2>4, <2>5, TimeStands
<1>. QED
  BY <1>2, <1>3 DEF Deliver, WD!OnDispatch

LEMMA PopTimely ==
  ASSUME TypeOK, Clocked, Timely, PopMessage
  PROVE  Timely'
<1>. SUFFICES ASSUME NEW c \in Cpus, NEW f \in entries', Own(c, f)' PROVE OnTime(c, f)'
  BY DEF Timely
<1>. DEFINE m == Head(outbox)
<1>0. KOS!TypeOK /\ WD!TypeOK
  BY DEF TypeOK
<1>1. /\ UNCHANGED <<cpu, inbox, lastUt, sinceSample>> /\ connected /\ connected'
      /\ spent'["cut"] = spent["cut"] /\ outbox # <<>> /\ outbox' = Tail(outbox)
  BY DEF PopMessage, session, WD!OnHeartbeat, WD!OnDone
<1>2. CASE f.silence = 0
  BY <1>1, <1>2, NewOnTime
<1>3. CASE f \in entries /\ (m.kind = "heartbeat" => f.boot # m.boot)
  <2>1. Own(c, f)
    BY <1>1 DEF Own, Holds, Carries, Queued
  <2>2. ASSUME BeatPending(c) PROVE BeatPending(c)'
    <3>1. PICK j \in 1..Len(outbox) : outbox[j].kind = "heartbeat" /\ outbox[j].boot = cpu[c].boot
      BY <2>2 DEF BeatPending
    <3>2. j # 1
      <4>1. m = outbox[1] /\ f.boot = cpu[c].boot
        BY <1>0, <1>1, <2>1, TailIs DEF Own
      <4>. QED
        BY <1>3, <3>1, <4>1
    <3>3. j - 1 \in 1..Len(outbox') /\ outbox'[j - 1] = outbox[j]
      BY <1>0, <1>1, <3>2, TailIs
    <3>. QED
      BY <1>1, <3>1, <3>3 DEF BeatPending
  <2>. QED
    BY <1>1, <1>3, <2>1, <2>2, DueKept, TimeStands
<1>4. CASE m.kind = "heartbeat"
  <2>1. WD!OnHeartbeat(m.boot, m.path, m.active)
    BY <1>4 DEF PopMessage
  <2>2. f.silence = 0 \/ (f \in entries /\ f.boot # m.boot)
    BY <1>0, <2>1, BeatHeard
  <2>. QED
    BY <1>2, <1>3, <2>2
<1>5. CASE m.kind # "heartbeat"
  <2>1. f \in entries
    BY <1>5 DEF PopMessage, WD!OnDone
  <2>. QED
    BY <1>3, <1>5, <2>1
<1>. QED
  BY <1>4, <1>5

LEMMA SampleTimely ==
  ASSUME TypeOK, Clocked, Timely, Sample
  PROVE  Timely'
<1>0. KOS!TypeOK /\ WD!TypeOK
  BY DEF TypeOK
<1>1. /\ connected' /\ UNCHANGED <<cpu, inbox, outbox, spent>>
      /\ sinceSample' = 0 /\ lastUt' # None
  BY SampleIs DEF Sample, game
<1>2. Unsampled' = 0
  BY <1>1 DEF Unsampled, WD!Counted, WD!AtMost
<1>3. Slack \in Nat /\ Slack' = Slack
  BY <1>1, SlackFacts
<1>4. CASE lastUt = None
  <2>1. entries' = entries /\ \A e \in entries : e.silence = 0
    BY <1>4, SampleIs DEF WD!Unmoved, WD!watching, Clocked
  <2>. QED
    BY <1>1, <1>2, <1>3, <2>1, PeriodsIs DEF Timely, OnTime
<1>5. CASE WD!Rewind
  BY <1>5 DEF WD!Rewind, Timely
<1>6. CASE lastUt # None /\ WD!Advance
  <2>. SUFFICES ASSUME NEW c \in Cpus, NEW f \in entries', Own(c, f)' PROVE OnTime(c, f)'
    BY DEF Timely
  <2>1. PICK e \in entries : f = [e EXCEPT !.silence = @ + WD!Counted]
    BY <1>6 DEF WD!Advance
  <2>2. f.id = e.id /\ f.boot = e.boot /\ f.silence = e.silence + WD!Counted
    BY <1>0, <2>1, SilenceNat DEF WD!Entry
  <2>3. Own(c, e)
    BY <1>1, <2>2 DEF Own, Holds, Carries, Queued
  <2>4. BeatDue(c) => BeatDue(c)'
    BY <1>1, DueKept DEF BeatPending
  <2>5. e.silence + WD!Counted <= Slack + Periods(c)
    BY <1>6, <2>3 DEF Timely, OnTime, Unsampled
  <2>6. f.silence + Unsampled' <= Slack' + Periods(c)'
    <3>1. e.silence \in Nat /\ WD!Counted \in Nat
      BY <1>0, SilenceNat, CountedBound
    <3>. QED
      BY <1>2, <1>3, <2>2, <2>4, <2>5, <3>1, PeriodsIs
  <2>. QED
    BY <1>1, <2>6 DEF OnTime
<1>. QED
  BY <1>4, <1>5, <1>6, SampleIs

LEMMA CutTimely ==
  ASSUME TypeOK, Timely, SessionEnds, [Next]_vars
  PROVE  Timely'
<1>. SUFFICES ASSUME NEW c \in Cpus, NEW e \in entries', Own(c, e)' PROVE OnTime(c, e)'
  BY DEF Timely
<1>0. KOS!TypeOK /\ WD!TypeOK
  BY DEF TypeOK
<1>1. UNCHANGED <<cpu, entries, lastUt, sinceSample>>
  BY DEF SessionEnds, watchdog
<1>2. Slack \in Nat /\ Slack' = Slack + MaxGap
  BY CutsCounted, SlackFacts
<1>3. Queued(c, e.id)' => Queued(c, e.id)
  <2>1. CASE UNCHANGED inbox
    BY <2>1 DEF Queued
  <2>2. CASE sending # None /\ KOS!SendMessage(sending.to, KOS!RunScript(sending.path, 0))
    <3>1. sending \in [path : Paths, to : Cpus]
      BY <2>2 DEF TypeOK
    <3>2. /\ KOS!RunScript(sending.path, 0) \in KOS!Run /\ sending.to \in Cpus
          /\ KOS!RunScript(sending.path, 0).id = 0
      BY <3>1 DEF KOS!RunScript, KOS!Run
    <3>3. e.id # 0
      BY <1>0, <1>1, SilenceNat
    <3>. QED
      BY <1>0, <2>2, <3>2, <3>3, PostHolds
  <2>. QED
    BY <2>1, <2>2 DEF SessionEnds
<1>4. Own(c, e)
  BY <1>1, <1>3, SameOwner
<1>5. OnTime(c, e)
  BY <1>1, <1>4 DEF Timely
<1>6. Unsampled' = Unsampled /\ Unsampled \in Nat /\ e.silence \in Nat
  BY <1>0, <1>1, UnsampledKept, UnsampledBound, SilenceNat
<1>7. Periods(c) \in {1, 2} /\ Periods(c)' \in {1, 2}
  BY PeriodsIs
<1>. QED
  BY <1>2, <1>5, <1>6, <1>7 DEF OnTime

(* A beat period ends for a CPU that holds a run only when it has beaten,  *)
(* and a connected server has heard it.                                    *)
LEMMA TickTimely ==
  ASSUME TypeOK, Clocked, Timely, Tick, [Next]_vars
  PROVE  Timely'
<1>. SUFFICES ASSUME NEW c \in Cpus, NEW e \in entries', Own(c, e)' PROVE OnTime(c, e)'
  BY DEF Timely
<1>0. KOS!TypeOK /\ WD!TypeOK /\ cpu[c] \in KOS!Cpu
  BY DEF TypeOK, KOS!TypeOK
<1>1. UNCHANGED <<entries, lastUt, inbox, outbox, connected, spent>>
  BY DEF Tick, WD!WallPasses, WD!watching, session
<1>2. /\ cpu'[c].boot = cpu[c].boot /\ cpu'[c].up = cpu[c].up /\ cpu'[c].run = cpu[c].run
      /\ ~cpu'[c].beaten
  BY <1>0 DEF Tick, KOS!NewPeriod, KOS!Cpu
<1>3. Own(c, e)
  BY <1>1, <1>2, SameOwner DEF Queued
<1>4. KOS!Executing(c) /\ cpu[c].beaten
  <2>1. KOS!Settled(c) /\ cpu[c].up
    BY <1>3 DEF Tick, Own
  <2>2. ~(KOS!Idle(c) /\ inbox[c] = <<>>)
    BY <1>3 DEF Own, Holds, Carries, Queued, KOS!Idle
  <2>. QED
    BY <2>1, <2>2 DEF KOS!Settled
<1>5. Periods(c)' = 2
  BY <1>2 DEF Periods, BeatDue
<1>6. OnTime(c, e) /\ e.silence \in Nat
  BY <1>0, <1>1, <1>3, SilenceNat DEF Timely
<1>7. Slack \in Nat /\ Slack' = Slack /\ Unsampled \in Nat
  BY <1>0, <1>1, SlackFacts, UnsampledBound
<1>8. Unsampled' \in 0..MaxGap
  <2>1. sinceSample' \in Nat
    BY <1>0 DEF Tick, WD!WallPasses, WD!AtMost, WD!TypeOK
  <2>. QED
    BY <2>1 DEF Unsampled, WD!Counted, WD!AtMost
<1>9. CASE connected
  <2>1. outbox = <<>> /\ moved = "still"
    BY <1>9 DEF Tick
  <2>2. Periods(c) = 1
    BY <1>4, <2>1 DEF Periods, BeatDue, BeatPending
  <2>3. Unsampled' <= 1
    <3>1. CASE lastUt = None
      BY <1>1, <3>1 DEF Unsampled
    <3>2. CASE lastUt # None
      <4>1. sinceSample = 0
        BY <2>1, <3>2 DEF Clocked
      <4>2. sinceSample' = 1
        BY <4>1 DEF Tick, WD!WallPasses, WD!AtMost
      <4>. QED
        BY <4>2 DEF Unsampled, WD!Counted, WD!AtMost
    <3>. QED
      BY <3>1, <3>2
  <2>. QED
    BY <1>1, <1>5, <1>6, <1>7, <1>8, <1>9, <2>2, <2>3 DEF OnTime
<1>10. CASE ~connected
  BY <1>1, <1>5, <1>6, <1>7, <1>8, <1>10 DEF OnTime
<1>. QED
  BY <1>9, <1>10

LEMMA PingTimely ==
  ASSUME TypeOK, Timely, PingLoop, [Next]_vars
  PROVE  Timely'
<1>. SUFFICES ASSUME NEW c \in Cpus, NEW e \in entries', Own(c, e)' PROVE OnTime(c, e)'
  BY DEF Timely
<1>0. KOS!TypeOK
  BY DEF TypeOK
<1>1. UNCHANGED <<cpu, outbox, entries, lastUt, sinceSample, connected, spent>>
  BY DEF PingLoop, WD!PingDue, WD!watching, session
<1>2. Queued(c, e.id)' => Queued(c, e.id)
  <2>1. CASE UNCHANGED inbox
    BY <2>1 DEF Queued
  <2>2. CASE active # None /\ KOS!SendMessage(active, KOS!Ping)
    <3>1. active \in Cpus /\ KOS!Ping.op # "run_script"
      BY <2>2 DEF TypeOK, KOS!TypeOK, KOS!Ping
    <3>. QED
      BY <1>0, <2>2, <3>1, PostHolds
  <2>. QED
    BY <2>1, <2>2 DEF PingLoop
<1>3. Own(c, e)
  BY <1>1, <1>2, SameOwner
<1>4. BeatDue(c) => BeatDue(c)'
  BY <1>1, DueKept DEF BeatPending
<1>. QED
  BY <1>1, <1>3, <1>4, TimeStands

LEMMA NextTimely ==
  TypeOK /\ GameOK /\ WatchOK /\ Clocked /\ Timely /\ [Next]_vars => Timely'
<1>. SUFFICES ASSUME TypeOK, GameOK, WatchOK, Clocked, Timely, [Next]_vars PROVE Timely'
  OBVIOUS
<1>0. KOS!TypeOK /\ WD!TypeOK
  BY DEF TypeOK
<1>1. CASE Deliver \/ PingLoop \/ PopMessage \/ Sample \/ SessionEnds \/ Tick
  BY <1>1, DeliverTimely, PingTimely, PopTimely, SampleTimely, CutTimely, TickTimely
<1>2. CASE /\ UNCHANGED <<cpu, inbox, outbox, entries, lastUt, sinceSample>>
           /\ connected => connected'
           /\ spent'["cut"] = spent["cut"]
  <2>. SUFFICES ASSUME NEW c \in Cpus, NEW e \in entries', Own(c, e)' PROVE OnTime(c, e)'
    BY DEF Timely
  <2>1. Own(c, e)
    BY <1>2 DEF Own, Holds, Carries, Queued
  <2>2. BeatDue(c) => BeatDue(c)'
    BY <1>2, DueKept DEF BeatPending
  <2>. QED
    BY <1>2, <2>1, <2>2, TimeStands
<1>3. CASE Load
  <2>1. \A c \in Cpus : ~cpu'[c].up
    BY <1>3 DEF Load, KOS!Load, KOS!Off, KOS!On
  <2>. QED
    BY <2>1 DEF Timely, Own
<1>4. ASSUME NEW c \in Cpus, CpuStep(c), UNCHANGED <<watchdog, session>>, spent'["cut"] = spent["cut"]
      PROVE  Timely'
  <2>. SUFFICES ASSUME NEW d \in Cpus, NEW e \in entries', Own(d, e)' PROVE OnTime(d, e)'
    BY DEF Timely
  <2>1. UNCHANGED <<entries, lastUt, sinceSample, connected>>
    BY <1>4 DEF watchdog, session
  <2>2. e \in WD!Entry
    BY <1>0, <2>1, SilenceNat
  <2>3. Own(d, e) /\ (BeatDue(d) => BeatDue(d)')
    BY <1>0, <1>4, <2>1, <2>2, CpuKeepsTime
  <2>. QED
    BY <1>4, <2>1, <2>3, TimeStands
<1>5. \/ SessionEnds \/ spent'["cut"] = spent["cut"]
  BY CutsCounted
<1>6. ASSUME ~(Deliver \/ PingLoop \/ PopMessage \/ Sample \/ SessionEnds \/ Tick), ~Load
      PROVE  \/ /\ UNCHANGED <<cpu, inbox, outbox, entries, lastUt, sinceSample>>
                /\ connected => connected'
             \/ \E c \in Cpus : CpuStep(c) /\ UNCHANGED <<watchdog, session>>
  <2>1. ASSUME NEW path \in Paths, ReadVessel(path)
        PROVE  UNCHANGED <<cpu, inbox, outbox, entries, lastUt, sinceSample, connected>>
    BY <2>1 DEF ReadVessel, watchdog, game
  <2>2. Connect => UNCHANGED <<cpu, inbox, outbox, entries, lastUt, sinceSample>> /\ connected'
    BY DEF Connect, watchdog, game
  <2>3. Save \/ UNCHANGED vars =>
          UNCHANGED <<cpu, inbox, outbox, entries, lastUt, sinceSample, connected>>
    BY DEF Save, KOS!Save, vars, watchdog, game, session
  <2>4. ASSUME NEW c \in Cpus \cup {None}, Switch(c)
        PROVE  UNCHANGED <<cpu, inbox, outbox, entries, lastUt, sinceSample, connected>>
    BY <2>4 DEF Switch, KOS!SwitchVessel, watchdog, session
  <2>5. ASSUME NEW c \in Cpus, Listener(c) \/ ScriptReturns(c) \/ Boot(c) \/ Die(c)
        PROVE  CpuStep(c) /\ UNCHANGED <<watchdog, session>>
    BY <2>5 DEF Listener, ScriptReturns, Boot, Die, CpuStep
  <2>. QED
    BY <1>6, <2>1, <2>2, <2>3, <2>4, <2>5 DEF Next
<1>. QED
  BY <1>1, <1>2, <1>3, <1>4, <1>5, <1>6

-----------------------------------------------------------------------------
OwnInv == LinkInv /\ Clocked /\ Timely

LEMMA OwnInvAlways == Spec => []OwnInv
<1>1. Init => OwnInv
  BY InitLinkInv, InitClocked DEF OwnInv
<1>2. OwnInv /\ [Next]_vars => OwnInv'
  BY NextLinkInv, NextClocked, NextTimely DEF OwnInv, LinkInv
<1>. QED
  BY <1>1, <1>2, PTL DEF Spec

(* A deadline of two beat periods, and a sample gap for each kRPC session  *)
(* that may be lost, is long enough: whatever is queued, replayed, lost or *)
(* switched to, a run stamped with the session that executes it leaves the *)
(* watch only for a load, or for a script_done of that session and script. *)
THEOREM OwnRunsWatched ==
  ASSUME Deadline >= 2 + MaxCut * MaxGap
  PROVE  Spec => OwnRunWatched
<1>. DEFINE Kept ==
       \A e \in entries, c \in Cpus :
         /\ KOS!Executing(c) /\ Carries(c, e.id) /\ cpu[c].boot = e.boot
         /\ \A f \in entries' : f.id # e.id
         => \/ Sample /\ moved = "back"
            \/ /\ PopMessage /\ Head(outbox).kind = "script_done"
               /\ Head(outbox).path = e.path /\ Head(outbox).boot = e.boot
<1>1. OwnInv /\ [Next]_vars => [Kept]_vars
  <2>. SUFFICES ASSUME OwnInv, [Next]_vars,
                       NEW e \in entries, NEW c \in Cpus,
                       KOS!Executing(c), Carries(c, e.id), cpu[c].boot = e.boot,
                       \A f \in entries' : f.id # e.id
                PROVE  \/ Sample /\ moved = "back"
                       \/ /\ PopMessage /\ Head(outbox).kind = "script_done"
                          /\ Head(outbox).path = e.path /\ Head(outbox).boot = e.boot
    OBVIOUS
  <2>0. TypeOK /\ WD!TypeOK /\ KOS!TypeOK /\ GameOK /\ WatchOK /\ Clocked /\ Timely
    BY DEF OwnInv, LinkInv, TypeOK
  <2>1. CASE entries \subseteq entries'
    BY <2>1
  <2>2. CASE PopMessage
    <3>. DEFINE m == Head(outbox)
    <3>1. outbox # <<>>
      BY <2>2 DEF PopMessage
    <3>2. CASE m.kind = "heartbeat"
      <4>1. WD!OnHeartbeat(m.boot, m.path, m.active)
        BY <2>2, <3>2 DEF PopMessage
      <4>. QED
        BY <2>0, <4>1, BeatHeard
    <3>3. CASE m.kind # "heartbeat"
      <4>1. m.kind = "script_done" /\ m.boot # None
        BY <2>0, <3>1, <3>3, HeadTyped, NoneApart DEF Boots
      <4>2. e \in WD!Matching(m.path, m.boot)
        BY <2>2, <3>3 DEF PopMessage, WD!OnDone, WD!Oldest
      <4>3. e.path = m.path /\ e.boot \in {m.boot, None}
        BY <4>1, <4>2 DEF WD!Matching, WD!RunsOf
      <4>4. e.boot # None
        <5>1. cpu[c].boot \in 1..MaxBoot
          BY <2>0 DEF KOS!TypeOK, KOS!Cpu
        <5>. QED
          BY <5>1, NoneApart
      <4>. QED
        BY <2>2, <4>1, <4>3, <4>4
    <3>. QED
      BY <3>2, <3>3
  <2>3. CASE Sample
    <3>1. CASE WD!Unmoved
      BY <2>1, <3>1 DEF WD!Unmoved, WD!watching
    <3>2. CASE lastUt # None /\ WD!Advance
      <4>1. Own(c, e)
        BY DEF Own, Holds, KOS!Executing
      <4>2. e.silence + WD!Counted <= Slack + Periods(c)
        BY <2>0, <3>2, <4>1 DEF Timely, OnTime, Unsampled
      <4>3. Slack \in Nat /\ Slack <= MaxCut * MaxGap
        BY <2>0, SlackFacts DEF OwnInv, LinkInv
      <4>4. /\ e.silence \in Nat /\ WD!Counted \in Nat /\ Periods(c) \in {1, 2}
            /\ MaxCut * MaxGap \in Nat
        BY <2>0, SilenceNat, CountedBound, PeriodsIs, LinkAssumption, TimesFacts
      <4>5. ~WD!Silent(e)
        BY <4>2, <4>3, <4>4 DEF WD!Silent
      <4>6. [e EXCEPT !.silence = @ + WD!Counted] \in entries'
        BY <3>2, <4>5 DEF WD!Advance
      <4>7. [e EXCEPT !.silence = @ + WD!Counted].id = e.id
        BY <2>0, SilenceNat DEF WD!Entry
      <4>. QED
        BY <4>6, <4>7
    <3>. QED
      BY <2>0, <2>3, <3>1, <3>2, SampleIs
  <2>4. entries \subseteq entries' \/ PopMessage \/ Sample
    BY DEF Next, vars, watchdog, ReadVessel, Deliver, WD!OnDispatch, PingLoop, WD!PingDue,
           WD!watching, SessionEnds, Connect, Tick, WD!WallPasses, Save, Load, Listener,
           ScriptReturns, Boot, Die, Switch
  <2>. QED
    BY <2>1, <2>2, <2>3, <2>4
<1>. QED
  BY <1>1, OwnInvAlways, PTL DEF Spec, OwnRunWatched
=============================================================================
