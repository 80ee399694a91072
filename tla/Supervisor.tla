----------------------------- MODULE Supervisor ------------------------------
(***************************************************************************)
(* run_telemetry_supervisor of src/src/krpc.rs against a game that starts, *)
(* quits and freezes: the retries and their back-off, the calendar, and    *)
(* the heartbeat that notices a game that no longer answers.               *)
(*                                                                         *)
(* A running game answers a call at once, a frozen one not at all, a game  *)
(* that quit resets the connection and refuses new ones.  A "sulking" game *)
(* lets clients in and answers get_client_id, but may fail any call that   *)
(* needs a loaded save.  Time passes in seconds, and only when every call  *)
(* that is answered, and every timer that is due, has been served.         *)
(*                                                                         *)
(* What the loops of a session do is the subject of MissionLink; here they *)
(* only fail or go on.  The supervisor never ends.                         *)
(***************************************************************************)
EXTENDS Integers

CONSTANTS
  Interval, Timeout,          \* HEARTBEAT_INTERVAL, HEARTBEAT_TIMEOUT
  InitialBackoff, MaxBackoff,
  Off,                        \* ConnStatus::Disconnected
  MaxTurns,                   \* bound: times the game changes
  MaxLag                      \* bound: seconds of missed ticks remembered

ASSUME Durations ==
  /\ Interval \in Nat \ {0} /\ Timeout \in Nat \ {0}
  /\ InitialBackoff \in Nat \ {0} /\ MaxBackoff \in Nat
  /\ InitialBackoff <= MaxBackoff /\ Interval <= MaxBackoff
  /\ MaxTurns \in Nat /\ MaxLag \in Nat

VARIABLES
  game,     \* "down", "up", "frozen" or "sulking"
  bodies,   \* the planets it was started with
  turns,    \* how often it changed
  phase,    \* what the supervisor awaits
  conn,     \* whether the connection leads to the game that runs now
  status,   \* the watch channel: Off, or the calendar shown
  backoff,  \* the pause after the next failure
  pause,    \* what is left of the present one
  beat,     \* whether get_client_id is awaited ...
  age,      \*   ... and for how long
  due,      \* time to the next tick of the heartbeat; below 0 it is late
  fails,    \* failures since the last session, until the pause is longest
  silent,   \* how long this session has gone without an answer, until that
            \*   exceeds Interval + Timeout
  reach     \* how long the game has been up, until it exceeds MaxBackoff

world == <<game, bodies, turns>>
heart == <<beat, age, due>>
waits == <<backoff, pause, fails>>
vars  == <<world, phase, conn, status, waits, heart, silent, reach>>

Games     == {"down", "up", "frozen", "sulking"}
Phases    == {"connecting", "detecting", "opening", "session", "sleeping"}
Planets   == {"Kerbin", "Earth"}
Calendars == {"Kerbin calendar", "Earth calendar"}

TypeOK ==
  /\ game \in Games /\ bodies \in SUBSET Planets /\ turns \in 0..MaxTurns
  /\ phase \in Phases /\ conn \in {"live", "lost"} /\ status \in Calendars \cup {Off}
  /\ backoff \in InitialBackoff..MaxBackoff /\ pause \in 0..MaxBackoff
  /\ beat \in {"waiting", "asking"} /\ age \in 0..Timeout /\ due \in (-MaxLag)..Interval
  /\ fails \in Nat /\ silent \in 0..(Interval + Timeout + 1)
  /\ reach \in 0..(MaxBackoff + 1)

Init ==
  /\ game = "down" /\ bodies = {} /\ turns = 0
  /\ phase = "connecting" /\ conn = "lost" /\ status = Off
  /\ backoff = InitialBackoff /\ pause = 0 /\ fails = 0
  /\ beat = "waiting" /\ age = 0 /\ due = 0
  /\ silent = 0 /\ reach = 0

Least(a, b) == IF a <= b THEN a ELSE b

-----------------------------------------------------------------------------
(* The game.                                                               *)
Turn(g) ==
  /\ turns < MaxTurns
  /\ turns' = turns + 1
  /\ game' = g
  /\ reach' = 0
  /\ UNCHANGED <<phase, status, waits, heart, silent>>

StartGame == game = "down" /\ Turn("sulking") /\ bodies' \in SUBSET Planets /\ UNCHANGED conn
LoadSave  == game = "sulking" /\ Turn("up") /\ UNCHANGED <<bodies, conn>>
LeaveSave == game = "up" /\ Turn("sulking") /\ UNCHANGED <<bodies, conn>>
Freeze    == game = "up" /\ Turn("frozen") /\ UNCHANGED <<bodies, conn>>
Thaw      == game = "frozen" /\ Turn("up") /\ UNCHANGED <<bodies, conn>>
Quit      == game # "down" /\ Turn("down") /\ conn' = "lost" /\ UNCHANGED bodies

(* A call over the present connection that the game answers, and one that  *)
(* comes back with an error.                                               *)
Answers == conn = "live" /\ game \in {"up", "sulking"}
Errs    == conn = "lost" \/ game = "sulking"

-----------------------------------------------------------------------------
(* The supervisor's loop.  Its top sets the status to Disconnected before  *)
(* it connects, so that is part of every step that leads there.            *)
next_backoff_uncapped(current) == 2 * current
next_backoff(current) == Least(2 * current, MaxBackoff)

Sleep ==
  /\ phase' = "sleeping"
  /\ pause' = backoff
  /\ backoff' = next_backoff(backoff)
  /\ fails' = IF backoff < MaxBackoff THEN fails + 1 ELSE fails
  /\ conn' = "lost"
  /\ UNCHANGED <<world, status, heart, silent, reach>>

Wake ==
  /\ phase = "sleeping" /\ pause = 0
  /\ phase' = "connecting"
  /\ UNCHANGED <<world, conn, status, waits, heart, silent, reach>>

Connected ==
  /\ phase = "connecting" /\ game \in {"up", "sulking"}
  /\ phase' = "detecting"
  /\ conn' = "live"
  /\ UNCHANGED <<world, status, waits, heart, silent, reach>>

ConnectFails == phase = "connecting" /\ game = "down" /\ Sleep

detect_calendar ==
  IF "Kerbin" \notin bodies /\ "Earth" \in bodies THEN "Earth calendar" ELSE "Kerbin calendar"

(* The back-off starts over only with the next kRPC connection.            *)
CalendarUnreset ==
  /\ phase = "detecting" /\ Answers
  /\ status' = detect_calendar
  /\ fails' = 0
  /\ phase' = "opening"
  /\ UNCHANGED <<world, conn, backoff, pause, heart, silent, reach>>

CalendarDetected ==
  /\ phase = "detecting" /\ Answers
  /\ status' = detect_calendar
  /\ backoff' = InitialBackoff /\ fails' = 0
  /\ phase' = "opening"
  /\ UNCHANGED <<world, conn, pause, heart, silent, reach>>

DetectFails == phase = "detecting" /\ Errs /\ Sleep

-----------------------------------------------------------------------------
(* run_session: the UT stream, then the loops until one of them fails.     *)
(* There is no pause before the next attempt.                              *)
SessionEnds ==
  /\ phase' = "connecting"
  /\ conn' = "lost"
  /\ status' = Off
  /\ beat' = "waiting" /\ age' = 0 /\ due' = 0
  /\ silent' = 0
  /\ UNCHANGED <<world, waits, reach>>

StreamOpened ==
  /\ phase = "opening" /\ Answers
  /\ phase' = "session"
  /\ beat' = "waiting" /\ age' = 0 /\ due' = Interval
  /\ silent' = 0
  /\ UNCHANGED <<world, conn, status, waits, reach>>

OpenFails == phase = "opening" /\ Errs /\ SessionEnds
LoopFails == phase = "session" /\ Errs /\ SessionEnds

(* run_heartbeat.  Ticks missed during a slow call are made up for.        *)
Beat ==
  /\ phase = "session" /\ beat = "waiting" /\ due <= 0
  /\ beat' = "asking" /\ age' = 0
  /\ due' = due + Interval
  /\ UNCHANGED <<world, phase, conn, status, waits, silent, reach>>

BeatAnswered ==
  /\ phase = "session" /\ beat = "asking" /\ Answers
  /\ beat' = "waiting" /\ age' = 0
  /\ silent' = 0
  /\ UNCHANGED <<world, phase, conn, status, waits, due, reach>>

(* The error of the call is dropped: only the timeout ends the session.    *)
BeatErrorDropped ==
  /\ phase = "session" /\ beat = "asking" /\ conn = "lost"
  /\ beat' = "waiting" /\ age' = 0
  /\ UNCHANGED <<world, phase, conn, status, waits, due, silent, reach>>

BeatFails == phase = "session" /\ beat = "asking" /\ conn = "lost" /\ SessionEnds

(* The timeout is dropped: the loop gives the call up and goes on.         *)
BeatTimeoutDropped ==
  /\ phase = "session" /\ beat = "asking" /\ age >= Timeout
  /\ beat' = "waiting" /\ age' = 0
  /\ UNCHANGED <<world, phase, conn, status, waits, due, silent, reach>>

BeatTimesOut == phase = "session" /\ beat = "asking" /\ age >= Timeout /\ SessionEnds

-----------------------------------------------------------------------------
(* A call of a running game, or a timer, is served before time passes.     *)
Urgent ==
  \/ phase = "sleeping" /\ pause = 0
  \/ phase = "connecting" /\ game # "frozen"
  \/ phase \in {"detecting", "opening"} /\ (conn = "lost" \/ game = "up")
  \/ phase = "session" /\ beat = "asking" /\ (conn = "lost" \/ Answers \/ age >= Timeout)
  \/ phase = "session" /\ beat = "waiting" /\ due <= 0

Tick ==
  /\ ~Urgent
  /\ pause' = IF phase = "sleeping" THEN pause - 1 ELSE pause
  /\ due' = IF phase = "session" /\ due > -MaxLag THEN due - 1 ELSE due
  /\ age' = IF beat = "asking" THEN age + 1 ELSE age
  /\ silent' = IF phase # "session" \/ Answers THEN 0 ELSE Least(silent + 1, Interval + Timeout + 1)
  /\ reach' = IF game = "up" THEN Least(reach + 1, MaxBackoff + 1) ELSE 0
  /\ UNCHANGED <<world, phase, conn, status, backoff, fails, beat>>

Supervise ==
  \/ Wake \/ Connected \/ ConnectFails \/ CalendarDetected \/ DetectFails
  \/ StreamOpened \/ OpenFails \/ LoopFails
  \/ Beat \/ BeatAnswered \/ BeatFails \/ BeatTimesOut

Next ==
  \/ StartGame \/ LoadSave \/ LeaveSave \/ Freeze \/ Thaw \/ Quit
  \/ Supervise
  \/ Tick

Spec == Init /\ [][Next]_vars

(* The supervisor's task runs and time passes; the game is free.           *)
FairSpec == Spec /\ WF_vars(Supervise) /\ WF_vars(Tick)

-----------------------------------------------------------------------------
(* A game that freezes or quits under a running session is noticed, and    *)
(* the status withdrawn, within a heartbeat's interval and its timeout,    *)
(* whatever calls were under way and whichever ticks were missed.          *)
HangNoticed == phase = "session" => silent <= Interval + Timeout

(* Once the game has been reachable for the longest pause, the supervisor  *)
(* is not asleep and no status of an earlier game is left: README.md:60,   *)
(* "the dashboard auto-promotes".                                          *)
ReachableSoon ==
  reach > MaxBackoff =>
    /\ phase # "sleeping"
    /\ status # Off => status = detect_calendar

(* The pauses double from the first to the longest, and start over after   *)
(* each session, however connecting and the calendar failed in between.    *)
Pause[n \in Nat] == IF n = 0 THEN InitialBackoff ELSE Least(2 * Pause[n - 1], MaxBackoff)
PausesDouble == backoff = Pause[fails]

(* A game that stays up is connected to and shown with its own calendar.   *)
Reconnects ==
  game = "up" ~> (game # "up" \/ (phase = "session" /\ conn = "live" /\ status = detect_calendar))
=============================================================================
