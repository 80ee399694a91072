-------------------------- MODULE SupervisorProofs --------------------------
(***************************************************************************)
(* Theorems about Supervisor, for every choice of its durations.           *)
(***************************************************************************)
EXTENDS Supervisor, Recursion, TLAPS

USE Durations

(* The steps of Next, grouped by what they change.                         *)
Turns  == StartGame \/ LoadSave \/ LeaveSave \/ Freeze \/ Thaw \/ Quit
Ends   == OpenFails \/ LoopFails \/ BeatFails \/ BeatTimesOut
Sleeps == ConnectFails \/ DetectFails

LEMMA TurnIs ==
  Turns => /\ Turn(game') /\ game' \in Games
           /\ game' = "down" => conn' = "lost"
           /\ conn' = conn \/ conn' = "lost"
           /\ bodies' = bodies \/ (game = "down" /\ bodies' \in SUBSET Planets)
<1>1. /\ StartGame => Turn("sulking") /\ bodies' \in SUBSET Planets /\ game = "down" /\ conn' = conn
      /\ LoadSave => Turn("up") /\ UNCHANGED <<bodies, conn>>
      /\ LeaveSave => Turn("sulking") /\ UNCHANGED <<bodies, conn>>
      /\ Freeze => Turn("frozen") /\ UNCHANGED <<bodies, conn>>
      /\ Thaw => Turn("up") /\ UNCHANGED <<bodies, conn>>
      /\ Quit => Turn("down") /\ conn' = "lost" /\ bodies' = bodies
  BY DEF StartGame, LoadSave, LeaveSave, Freeze, Thaw, Quit
<1>2. ASSUME NEW g, Turn(g) PROVE game' = g
  BY <1>2 DEF Turn
<1>. QED
  BY <1>1, <1>2 DEF Turns, Games

LEMMA EndIs == Ends => SessionEnds /\ phase \in {"opening", "session"}
  BY DEF Ends, OpenFails, LoopFails, BeatFails, BeatTimesOut

LEMMA SleepIs == Sleeps =>
  /\ Sleep
  /\ \/ phase = "connecting" /\ game = "down"
     \/ phase = "detecting" /\ (conn = "lost" \/ game = "sulking")
  BY DEF Sleeps, ConnectFails, DetectFails, Errs

LEMMA BackoffBound ==
  ASSUME NEW b \in InitialBackoff..MaxBackoff
  PROVE  next_backoff(b) \in InitialBackoff..MaxBackoff
  BY DEF next_backoff, Least

LEMMA NextIs ==
  Next <=> \/ Turns \/ Ends \/ Sleeps
           \/ Wake \/ Connected \/ CalendarDetected \/ StreamOpened
           \/ Beat \/ BeatAnswered \/ Tick
  BY DEF Next, Supervise, Turns, Ends, Sleeps

-----------------------------------------------------------------------------
(* A call is under way in a session only.                                  *)
Typed == TypeOK /\ (beat = "asking" => phase = "session")

LEMMA InitTyped == Init => Typed
  BY DEF Init, Typed, TypeOK, Games, Phases, Planets

LEMMA NextTyped == Typed /\ [Next]_vars => Typed'
<1>. SUFFICES ASSUME Typed, [Next]_vars PROVE Typed'
  OBVIOUS
<1>. USE DEF Typed
<1>1. CASE Turns
  BY <1>1, TurnIs DEF Turn, TypeOK, waits, heart
<1>2. CASE Ends
  BY <1>2, EndIs DEF SessionEnds, TypeOK, world, waits, Phases
<1>3. CASE Sleeps
  <2>1. Sleep /\ beat = "waiting"
    BY <1>3, SleepIs DEF TypeOK
  <2>2. backoff' \in InitialBackoff..MaxBackoff /\ pause' \in 0..MaxBackoff
    BY <2>1, BackoffBound DEF Sleep, TypeOK
  <2>3. fails' \in Nat
    BY <2>1 DEF Sleep, TypeOK
  <2>. QED
    BY <2>1, <2>2, <2>3 DEF Sleep, TypeOK, Phases, world, heart
<1>4. CASE Wake \/ Connected
  BY <1>4 DEF Wake, Connected, TypeOK, Phases, world, waits, heart
<1>5. CASE CalendarDetected
  <2>1. status' \in Calendars
    BY <1>5 DEF CalendarDetected, detect_calendar, Calendars
  <2>. QED
    BY <1>5, <2>1 DEF CalendarDetected, TypeOK, Phases, world, heart
<1>6. CASE StreamOpened
  BY <1>6 DEF StreamOpened, TypeOK, Phases, world, waits
<1>7. CASE Beat \/ BeatAnswered
  <2>1. due' \in (-MaxLag)..Interval
    BY <1>7 DEF Beat, BeatAnswered, TypeOK
  <2>2. silent' \in 0..(Interval + Timeout + 1) /\ age' \in 0..Timeout
    BY <1>7 DEF Beat, BeatAnswered, TypeOK
  <2>3. phase' = "session" /\ phase = "session" /\ beat' \in {"waiting", "asking"}
        /\ UNCHANGED <<world, conn, status, waits, reach>>
    BY <1>7 DEF Beat, BeatAnswered
  <2>. QED
    BY <2>1, <2>2, <2>3 DEF TypeOK, world, waits
<1>8. CASE Tick
  <2>1. /\ pause' \in 0..MaxBackoff
        /\ due' \in (-MaxLag)..Interval
        /\ age' \in 0..Timeout
    BY <1>8 DEF Tick, TypeOK, Urgent
  <2>2. silent' \in 0..(Interval + Timeout + 1) /\ reach' \in 0..(MaxBackoff + 1)
    BY <1>8 DEF Tick, TypeOK, Least
  <2>. QED
    BY <1>8, <2>1, <2>2 DEF Tick, TypeOK, world
<1>9. CASE UNCHANGED vars
  BY <1>9 DEF vars, world, waits, heart, TypeOK
<1>. QED
  BY <1>1, <1>2, <1>3, <1>4, <1>5, <1>6, <1>7, <1>8, <1>9, NextIs

(* The back-off stays within its limits, a call within its timeout and the *)
(* heartbeat within one interval of its next tick.                         *)
THEOREM TypeCorrect == Spec => []TypeOK
<1>1. Typed => TypeOK
  BY DEF Typed
<1>. QED
  BY <1>1, InitTyped, NextTyped, PTL DEF Spec

-----------------------------------------------------------------------------
(* Without a call under way the silence and the time to the next tick add  *)
(* up to an interval at most; a call adds its own age.                     *)
SilenceTimed ==
  phase = "session" =>
    IF beat = "asking" THEN silent <= Interval + age
    ELSE silent <= Interval /\ silent + due <= Interval

LEMMA OneLess ==
  ASSUME NEW m \in Int, NEW n \in Int, NEW d \in Int,
         n <= m + 1, d > 0, m + d <= Interval
  PROVE  n <= Interval /\ n + (d - 1) <= Interval
  OBVIOUS

LEMMA NextSilenceTimed == Typed /\ SilenceTimed /\ [Next]_vars => SilenceTimed'
<1>. SUFFICES ASSUME Typed, SilenceTimed, [Next]_vars PROVE SilenceTimed'
  OBVIOUS
<1>1. CASE Turns
  BY <1>1, TurnIs DEF Turn, heart, SilenceTimed
<1>2. CASE Ends \/ Sleeps \/ Wake \/ Connected \/ CalendarDetected
  BY <1>2, EndIs, SleepIs DEF SessionEnds, Sleep, Wake, Connected, CalendarDetected, SilenceTimed
<1>3. CASE StreamOpened
  BY <1>3 DEF StreamOpened, SilenceTimed
<1>4. CASE Beat
  BY <1>4 DEF Beat, Typed, TypeOK, SilenceTimed
<1>5. CASE BeatAnswered
  BY <1>5 DEF BeatAnswered, Typed, TypeOK, SilenceTimed
<1>6. CASE Tick
  <2>1. CASE phase # "session"
    BY <1>6, <2>1 DEF Tick, SilenceTimed
  <2>2. CASE phase = "session" /\ beat = "asking"
    BY <1>6, <2>2 DEF Tick, Least, Typed, TypeOK, SilenceTimed
  <2>3. CASE phase = "session" /\ beat = "waiting"
    <3>1. silent + due <= Interval
      BY <2>3 DEF SilenceTimed
    <3>2. /\ silent' <= silent + 1 /\ silent \in Int /\ silent' \in Int
          /\ due \in Int /\ due > 0 /\ due' = due - 1 /\ beat' = "waiting"
      BY <1>6, <2>3 DEF Tick, Urgent, Least, Typed, TypeOK
    <3>3. silent' <= Interval /\ silent' + due' <= Interval
      BY <3>1, <3>2, OneLess
    <3>. QED
      BY <3>2, <3>3 DEF SilenceTimed
  <2>. QED
    BY <2>1, <2>2, <2>3 DEF Typed, TypeOK
<1>7. CASE UNCHANGED vars
  BY <1>7 DEF vars, heart, SilenceTimed
<1>. QED
  BY <1>1, <1>2, <1>3, <1>4, <1>5, <1>6, <1>7, NextIs

(* However long a call takes and however many ticks are missed, a session  *)
(* never outlasts an interval and a timeout without an answer.             *)
THEOREM HangAlwaysNoticed == Spec => []HangNoticed
<1>1. Init => SilenceTimed
  BY DEF Init, SilenceTimed
<1>2. Typed /\ SilenceTimed => HangNoticed
  BY DEF Typed, TypeOK, SilenceTimed, HangNoticed
<1>. QED
  BY <1>1, <1>2, InitTyped, NextTyped, NextSilenceTimed, PTL DEF Spec

-----------------------------------------------------------------------------
(* What keeps the pauses and the stale sessions short: a game that is not  *)
(* up has not been reachable, a pause fits in what is left of the longest, *)
(* and a session whose game has quit is in its last interval.              *)
ReachUp     == game # "up" => reach = 0
LiveGame    == conn = "live" => game # "down"
StatusOf    == status # Off =>
                 phase \in {"opening", "session"} /\ (conn = "live" => status = detect_calendar)
PauseTimed  == phase = "sleeping" => reach + pause <= MaxBackoff
StaleOpen   == phase \in {"detecting", "opening"} /\ conn = "lost" => reach = 0
StaleTimed  == phase = "session" /\ conn = "lost" =>
                 /\ reach <= Interval
                 /\ beat = "waiting" => reach + due <= Interval

ReachInv == ReachUp /\ LiveGame /\ StatusOf /\ PauseTimed /\ StaleOpen /\ StaleTimed

LEMMA NextReachInv == Typed /\ ReachInv /\ [Next]_vars => ReachInv'
<1>. SUFFICES ASSUME Typed, ReachInv, [Next]_vars PROVE ReachInv'
  OBVIOUS
<1>. USE DEF ReachInv, ReachUp, LiveGame, StatusOf, PauseTimed, StaleOpen, StaleTimed
<1>1. CASE Turns
  <2>1. Turn(game') /\ reach' = 0 /\ phase' = phase /\ status' = status
        /\ UNCHANGED <<waits, heart>>
    BY <1>1, TurnIs DEF Turn
  <2>2. LiveGame'
    BY <1>1, TurnIs
  <2>3. StatusOf'
    BY <1>1, <2>1, TurnIs DEF detect_calendar
  <2>4. PauseTimed' /\ StaleTimed'
    BY <2>1 DEF waits, heart, Typed, TypeOK
  <2>. QED
    BY <2>1, <2>2, <2>3, <2>4
<1>2. CASE Ends
  BY <1>2, EndIs DEF SessionEnds, world
<1>3. CASE Sleeps
  <2>1. reach = 0 /\ status = Off
    BY <1>3, SleepIs
  <2>. QED
    BY <1>3, <2>1, SleepIs DEF Sleep, world, Typed, TypeOK
<1>4. CASE Wake \/ Connected
  BY <1>4 DEF Wake, Connected, world
<1>5. CASE CalendarDetected
  BY <1>5 DEF CalendarDetected, Answers, detect_calendar, world
<1>6. CASE StreamOpened
  BY <1>6 DEF StreamOpened, Answers, detect_calendar, world
<1>7. CASE Beat \/ BeatAnswered
  BY <1>7 DEF Beat, BeatAnswered, Answers, detect_calendar, world, waits, Typed
<1>8. CASE Tick
  <2>1. /\ UNCHANGED <<game, bodies, conn, phase, status, beat>>
        /\ reach' = IF game = "up" THEN Least(reach + 1, MaxBackoff + 1) ELSE 0
        /\ reach' <= reach + 1 /\ reach' \in Nat /\ reach \in Nat
    BY <1>8 DEF Tick, world, Least, Typed, TypeOK
  <2>2. ReachUp' /\ LiveGame' /\ StatusOf'
    BY <2>1 DEF detect_calendar
  <2>3. PauseTimed'
    BY <1>8, <2>1 DEF Tick, Urgent, Typed, TypeOK
  <2>4. StaleOpen'
    BY <1>8, <2>1 DEF Tick, Urgent
  <2>5. StaleTimed'
    <3>1. SUFFICES ASSUME phase = "session", conn = "lost"
                   PROVE  beat = "waiting" /\ reach' <= Interval /\ reach' + due' <= Interval
      BY <2>1
    <3>2. beat = "waiting" /\ due > 0 /\ due' = due - 1
      BY <1>8, <3>1 DEF Tick, Urgent, Typed, TypeOK
    <3>. QED
      BY <2>1, <3>1, <3>2 DEF Typed, TypeOK
  <2>. QED
    BY <2>2, <2>3, <2>4, <2>5
<1>9. CASE UNCHANGED vars
  BY <1>9 DEF vars, world, waits, heart, detect_calendar
<1>. QED
  BY <1>1, <1>2, <1>3, <1>4, <1>5, <1>6, <1>7, <1>8, <1>9, NextIs

(* A game up for as long as the longest pause finds the supervisor awake,  *)
(* and is never shown with the calendar of an earlier one.                 *)
THEOREM AlwaysReachedSoon == Spec => []ReachableSoon
<1>1. Init => ReachInv
  BY DEF Init, ReachInv, ReachUp, LiveGame, StatusOf, PauseTimed, StaleOpen, StaleTimed
<1>2. Typed /\ ReachInv => ReachableSoon
  BY DEF Typed, TypeOK, ReachInv, ReachUp, LiveGame, StatusOf, PauseTimed, StaleOpen,
         StaleTimed, ReachableSoon
<1>. QED
  BY <1>1, <1>2, InitTyped, NextTyped, NextReachInv, PTL DEF Spec

-----------------------------------------------------------------------------
(* What the recursion of Pause defines.                                    *)
LEMMA PauseIs ==
  /\ Pause[0] = InitialBackoff
  /\ \A n \in Nat : Pause[n + 1] = next_backoff(Pause[n])
<1>. DEFINE next == [x \in Int |-> Least(2 * x, MaxBackoff)]
<1>1. next \in [Int -> Int] /\ InitialBackoff \in Int
  BY DEF Least
<1>. HIDE DEF next
<1>2. PICK r \in [Nat -> Int] : Recurses(r, InitialBackoff, next)
  BY <1>1, RecursionExists
<1>3. r = [n \in Nat |-> IF n = 0 THEN InitialBackoff ELSE Least(2 * r[n - 1], MaxBackoff)]
  <2>1. ASSUME NEW n \in Nat
        PROVE  r[n] = IF n = 0 THEN InitialBackoff ELSE Least(2 * r[n - 1], MaxBackoff)
    <3>1. CASE n = 0
      BY <1>2, <3>1 DEF Recurses
    <3>2. CASE n # 0
      <4>1. n - 1 \in Nat /\ (n - 1) + 1 = n
        BY <3>2
      <4>2. r[n] = next[r[n - 1]] /\ r[n - 1] \in Int
        BY <1>2, <4>1 DEF Recurses
      <4>. QED
        BY <3>2, <4>2 DEF next
    <3>. QED
      BY <3>1, <3>2
  <2>. QED
    BY <2>1
<1>4. Pause = [n \in Nat |-> IF n = 0 THEN InitialBackoff ELSE Least(2 * Pause[n - 1], MaxBackoff)]
  BY <1>3, Zenon DEF Pause
<1>5. ASSUME NEW n \in Nat PROVE Pause[n + 1] = next_backoff(Pause[n])
  <2>1. n + 1 \in Nat /\ n + 1 # 0 /\ (n + 1) - 1 = n
    OBVIOUS
  <2>2. Pause[n + 1] = Least(2 * Pause[(n + 1) - 1], MaxBackoff)
    BY <1>4, <2>1
  <2>. QED
    BY <2>1, <2>2 DEF next_backoff
<1>. QED
  BY <1>4, <1>5

(* The pauses stop growing at the longest, and stay there.                 *)
LEMMA LongestStays == MaxBackoff \in Nat /\ next_backoff(MaxBackoff) = MaxBackoff
  BY DEF next_backoff, Least

LEMMA NextPausesDouble == Typed /\ PausesDouble /\ [Next]_vars => PausesDouble'
<1>. SUFFICES ASSUME Typed, PausesDouble, [Next]_vars PROVE PausesDouble'
  OBVIOUS
<1>. USE DEF PausesDouble
<1>1. ASSUME UNCHANGED <<backoff, fails>> PROVE PausesDouble'
  BY <1>1
<1>2. CASE Turns \/ Ends
  BY <1>1, <1>2, TurnIs, EndIs DEF Turn, SessionEnds, waits
<1>3. CASE Sleeps
  <2>1. /\ backoff' = next_backoff(backoff)
        /\ fails' = IF backoff < MaxBackoff THEN fails + 1 ELSE fails
    BY <1>3, SleepIs DEF Sleep
  <2>2. fails \in Nat /\ backoff \in Int /\ backoff <= MaxBackoff
    BY DEF Typed, TypeOK
  <2>3. CASE backoff < MaxBackoff
    BY <2>1, <2>2, <2>3, PauseIs
  <2>4. CASE ~(backoff < MaxBackoff)
    BY <2>1, <2>2, <2>4, LongestStays
  <2>. QED
    BY <2>3, <2>4
<1>4. CASE CalendarDetected
  BY <1>4, PauseIs DEF CalendarDetected
<1>5. CASE Wake \/ Connected \/ StreamOpened \/ Beat \/ BeatAnswered \/ Tick
  BY <1>1, <1>5 DEF Wake, Connected, StreamOpened, Beat, BeatAnswered, Tick, waits
<1>6. CASE UNCHANGED vars
  BY <1>1, <1>6 DEF vars, waits
<1>. QED
  BY <1>2, <1>3, <1>4, <1>5, <1>6, NextIs

(* Every pause is the one its number of failures in a row calls for, for   *)
(* all the durations a build may choose.                                   *)
THEOREM PausesAlwaysDouble == Spec => []PausesDouble
<1>1. Init => PausesDouble
  BY PauseIs DEF Init, PausesDouble
<1>. QED
  BY <1>1, InitTyped, NextTyped, NextPausesDouble, PTL DEF Spec
=============================================================================
