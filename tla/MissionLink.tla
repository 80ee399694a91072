---------------------------- MODULE MissionLink -----------------------------
(***************************************************************************)
(* The server's kRPC session joined to the game: the loops of              *)
(* src/src/krpc.rs (dispatcher, inbox, UT stream, kOS ping), the script    *)
(* watchdog they share, and the CPUs of DispatchListener.                  *)
(*                                                                         *)
(* Tick is one beat period of unpaused play.  It waits for what takes far  *)
(* less than a period: the listeners have settled, and a connected server  *)
(* has drained the inbox (polled at 200 ms), seen a UT sample (5 Hz) and   *)
(* finished the calls it had in flight.  A paused game is one where Tick   *)
(* and the CPUs take no step while the server goes on.                     *)
(*                                                                         *)
(* ScriptWatchdog orders UT values; here only the order matters, so a      *)
(* sample carries a fresh name and `moved` says which way the game went.   *)
(***************************************************************************)
EXTENDS Integers, Sequences, FiniteSets

CONSTANTS
  Cpus, Scripts, Paths, None, UT, Deadline, MaxGap, PingCap,
  MaxDispatch, MaxBoot,                \* bounds: runs dispatched, sessions
  MaxSwitch, MaxDeath, MaxLoad, MaxCut, \* bounds: how often the world interferes
  MaxBacklog                           \* bound: messages kIPC gathers unread

Boots == 1..MaxBoot

VARIABLES
  entries, link, linkBoot, linkSilence, lastUt, sinceSample, utAtLastPing,
  dispatched, reported,                         \* of ScriptWatchdog
  active, cpu, inbox, outbox, boots, saved,     \* of DispatchListener
  connected,   \* a kRPC session runs
  sending,     \* the command whose target CPU is known: [path, to], or None
  ut,          \* the game's clock, as a name
  moved,       \* since the last sample it went "on", "back" or nowhere
  spent        \* how often each interference happened

WD  == INSTANCE ScriptWatchdog
KOS == INSTANCE DispatchListener

(* Each CPU has a session of its own to begin with, the clock has a name   *)
(* to spare, and None is no value of another kind.                         *)
ASSUME LinkAssumption ==
  /\ IsFiniteSet(Cpus) /\ Cpus # {}
  /\ Scripts \subseteq Paths
  /\ Deadline \in Nat /\ MaxGap \in Nat \ {0}
  /\ MaxDispatch \in Nat /\ MaxBoot \in Nat /\ Cardinality(Cpus) <= MaxBoot
  /\ MaxSwitch \in Nat /\ MaxDeath \in Nat /\ MaxLoad \in Nat /\ MaxCut \in Nat
  /\ \A u, v \in UT \cup {None} : \E w \in UT : w \notin {u, v}
  /\ None \notin Paths \cup Boots \cup UT \cup Cpus \cup KOS!Run

watchdog == <<entries, link, linkBoot, linkSilence, lastUt, sinceSample, utAtLastPing,
              dispatched, reported>>
game    == <<active, cpu, inbox, outbox, boots, saved>>
clock   == <<ut, moved>>
session == <<connected, sending>>
vars == <<watchdog, game, session, clock, spent>>

Budget == [switch |-> MaxSwitch, death |-> MaxDeath, load |-> MaxLoad, cut |-> MaxCut]
Spend(kind) == spent[kind] < Budget[kind] /\ spent' = [spent EXCEPT ![kind] = @ + 1]

Init ==
  /\ WD!Init
  /\ KOS!GameInit
  /\ connected = FALSE
  /\ sending = None
  /\ ut = CHOOSE u \in UT : TRUE
  /\ moved = "still"
  /\ spent = [kind \in DOMAIN Budget |-> 0]

-----------------------------------------------------------------------------
(* run_dispatcher takes a run_script command; send_command reads the       *)
(* active vessel and its CPU first, and with none the command is dropped   *)
(* with a command_error.                                                   *)
ReadVessel(path) ==
  /\ connected /\ sending = None /\ dispatched < MaxDispatch
  /\ active # None
  /\ sending' = [path |-> path, to |-> active]
  /\ UNCHANGED <<watchdog, game, connected, clock, spent>>

(* ... then sends, and run_dispatcher records the dispatch.  kRPC answers  *)
(* one call at a time, so no other loop runs between the two.              *)
Deliver ==
  /\ connected /\ sending # None
  /\ KOS!SendMessage(sending.to, KOS!RunScript(sending.path, dispatched + 1))
  /\ WD!OnDispatch(sending.path)
  /\ sending' = None
  /\ UNCHANGED <<active, cpu, outbox, boots, saved, connected, clock, spent>>

(* The ping loop: without an mc CPU on the active vessel nothing is sent.  *)
PingLoop ==
  /\ connected
  /\ WD!PingDue
  /\ IF active = None THEN UNCHANGED inbox ELSE KOS!SendMessage(active, KOS!Ping)
  /\ UNCHANGED <<active, cpu, outbox, boots, saved, session, clock, spent>>

(* run_inbox_loop pops one message and feeds it to the watchdog.           *)
PopMessage ==
  /\ connected /\ outbox # <<>>
  /\ LET m == Head(outbox) IN
       IF m.kind = "heartbeat"
       THEN WD!OnHeartbeat(m.boot, m.path, m.active)
       ELSE WD!OnDone(m.path, m.boot)
  /\ outbox' = Tail(outbox)
  /\ UNCHANGED <<active, cpu, inbox, boots, saved, session, clock, spent>>

(* run_stream_loop feeds one UT sample to the watchdog.                    *)
Sample ==
  /\ connected
  /\ lastUt = None \/ moved # "still"
  /\ WD!TakeSample(ut)
  /\ IF lastUt = None THEN WD!Unmoved
     ELSE IF moved = "back" THEN WD!Rewind ELSE WD!Advance
  /\ moved' = "still"
  /\ UNCHANGED <<game, session, ut, spent>>

(* A loop fails and select! drops the others at their awaits: a call under *)
(* way may have reached the game or not, and a message popped meanwhile is *)
(* gone.                                                                   *)
SessionEnds ==
  /\ connected /\ Spend("cut")
  /\ connected' = FALSE
  /\ sending' = None
  /\ \/ UNCHANGED inbox
     \/ sending # None /\ KOS!SendMessage(sending.to, KOS!RunScript(sending.path, 0))
  /\ \/ UNCHANGED outbox
     \/ outbox # <<>> /\ outbox' = Tail(outbox)
  /\ UNCHANGED <<watchdog, active, cpu, boots, saved, clock>>

Connect ==
  /\ ~connected
  /\ connected' = TRUE
  /\ UNCHANGED <<watchdog, game, sending, clock, spent>>

-----------------------------------------------------------------------------
(* A name that what the watchdog remembers does not hold.                  *)
Fresh == CHOOSE u \in UT : u \notin {lastUt, utAtLastPing}

(* While nobody samples it, a game that went back may play on past the     *)
(* point it came from.                                                     *)
Tick ==
  /\ \A c \in Cpus : KOS!Settled(c)
  /\ connected => outbox = <<>> /\ sending = None /\ moved = "still"
  /\ Len(outbox) < MaxBacklog
  /\ WD!WallPasses
  /\ KOS!NewPeriod
  /\ ut' = Fresh
  /\ moved' \in {"on", moved} \ {"still"}
  /\ UNCHANGED <<active, inbox, outbox, boots, saved, session, spent>>

Listener(c) ==
  /\ \/ KOS!HandlePing(c) \/ KOS!HandleRunScript(c) \/ KOS!HeartbeatTrigger(c)
     \/ KOS!SendDone(c)
  /\ UNCHANGED <<watchdog, session, clock, spent>>

ScriptReturns(c) == KOS!ScriptReturns(c) /\ UNCHANGED <<watchdog, session, clock, spent>>
Boot(c) == KOS!Boot(c) /\ UNCHANGED <<watchdog, session, clock, spent>>

Die(c) == Spend("death") /\ KOS!Die(c) /\ UNCHANGED <<watchdog, session, clock>>

Switch(c) == Spend("switch") /\ KOS!SwitchVessel(c) /\ UNCHANGED <<watchdog, session, clock>>

(* One save, of a queue that holds something, is enough to replay from.    *)
Save ==
  /\ spent.load < MaxLoad
  /\ saved = <<>>
  /\ KOS!Save
  /\ UNCHANGED <<watchdog, session, clock, spent>>

Load ==
  /\ Spend("load")
  /\ KOS!Load
  /\ ut' = Fresh /\ moved' = "back"
  /\ UNCHANGED <<watchdog, session>>

Next ==
  \/ \E path \in Paths : ReadVessel(path)
  \/ Deliver \/ PingLoop \/ PopMessage \/ Sample
  \/ SessionEnds \/ Connect
  \/ Tick \/ Save \/ Load
  \/ \E c \in Cpus : Listener(c) \/ ScriptReturns(c) \/ Boot(c) \/ Die(c)
  \/ \E c \in Cpus \cup {None} : Switch(c)

Spec == Init /\ [][Next]_vars

(* The server's loops and the listeners keep going and time passes; nobody *)
(* is obliged to send commands, to end a script, or to power a CPU.        *)
FairSpec ==
  /\ Spec
  /\ WF_vars(Deliver) /\ WF_vars(PingLoop) /\ WF_vars(PopMessage) /\ WF_vars(Sample)
  /\ WF_vars(Connect) /\ WF_vars(Tick)
  /\ \A c \in Cpus : WF_vars(Listener(c))

-----------------------------------------------------------------------------
TypeOK ==
  /\ WD!TypeOK
  /\ KOS!TypeOK
  /\ connected \in BOOLEAN
  /\ sending \in [path : Paths, to : Cpus] \cup {None}
  /\ ut \in UT
  /\ moved \in {"still", "on", "back"}
  /\ spent \in [DOMAIN Budget -> Nat]

Carries(c, id) == cpu[c].run # None /\ cpu[c].run.id = id
DeclaredSilent(e) == WD!Failed(e, "silent") \in reported' \ reported

(* A run stamped with the session that executes it leaves the watch only   *)
(* for a sample that shows a load or a script_done of that session and     *)
(* script, whatever the active vessel, the commands queued behind it, the  *)
(* messages a load replays and a kRPC session that comes and goes.         *)
OwnRunWatched ==
  [][\A e \in entries, c \in Cpus :
       /\ KOS!Executing(c) /\ Carries(c, e.id) /\ cpu[c].boot = e.boot
       /\ \A f \in entries' : f.id # e.id
       => \/ Sample /\ moved = "back"
          \/ /\ PopMessage /\ Head(outbox).kind = "script_done"
             /\ Head(outbox).path = e.path /\ Head(outbox).boot = e.boot]_vars

(* script_watchdog.rs:14-16 promises it of every run: "A script dies only  *)
(* when its own CPU goes quiet".  So no run is declared dead while the     *)
(* watchdog itself holds the link up on the word of the CPU executing it.  *)
NoHeardRunDies ==
  [][\A e \in entries, c \in Cpus :
       DeclaredSilent(e) =>
         ~(KOS!Executing(c) /\ Carries(c, e.id) /\ linkBoot' = cpu[c].boot)]_vars

(* When the link says that a script runs, the session that said so is      *)
(* running it, has reported the end in a message not yet popped, or is     *)
(* over: nothing else keeps the buttons greyed out and the pings stopped.  *)
RunningIsTrue ==
  link.running # None =>
    \/ \E c \in Cpus : cpu[c].boot = linkBoot /\ cpu[c].up
                       /\ cpu[c].run # None /\ cpu[c].run.path = link.running
    \/ \E i \in 1..Len(outbox) : outbox[i].kind = "script_done"
                       /\ outbox[i].path = link.running /\ outbox[i].boot = linkBoot
    \/ \A c \in Cpus : ~(cpu[c].boot = linkBoot /\ cpu[c].up)

(* Once the session a run is stamped with is over, the run leaves the      *)
(* watch: it is reported, or a script_done sent before settles it.         *)
SessionOver(b) == \A c \in Cpus : ~(cpu[c].up /\ cpu[c].boot = b)
DeadSessionSettles ==
  \A id \in 1..MaxDispatch :
    (\E e \in entries : e.id = id /\ e.boot \in Boots /\ SessionOver(e.boot))
      ~> (\A e \in entries : e.id # id)

(* script_watchdog.rs:3-7 promises it of every run: "a script that dies    *)
(* mid-flight never sends `script_done`" and silence is turned into a      *)
(* failure for it.  So a run that a CPU has executed, and that no CPU and  *)
(* no message holds any more, leaves the watch.                            *)
Flies(id) == \E c \in Cpus : KOS!Executing(c) /\ Carries(c, id)
Gone(id) ==
  /\ \A c \in Cpus : ~Carries(c, id)
  /\ \A c \in Cpus : \A i \in 1..Len(inbox[c]) : inbox[c][i].op = "run_script" => inbox[c][i].id # id
  /\ \A i \in 1..Len(outbox) : outbox[i].kind = "script_done" => outbox[i].id # id
DeadRunSettles ==
  \A id \in 1..MaxDispatch :
    (Flies(id) /\ <>Gone(id)) ~> (\A e \in entries : e.id # id)

(* While a CPU stays up on the active vessel, the link comes to name its   *)
(* session and what it runs, also after a vessel switch away from a        *)
(* running script or a script_done lost with a kRPC session.               *)
LinkTells(c) == linkBoot = cpu[c].boot /\ link.running = cpu[c].hbPath
LinkConverges ==
  \A c \in Cpus :
    (active = c /\ cpu[c].up) ~> (LinkTells(c) \/ active # c \/ ~cpu[c].up)
=============================================================================
