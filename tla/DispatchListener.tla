-------------------------- MODULE DispatchListener --------------------------
(***************************************************************************)
(* The game side: one mc-tagged kOS CPU per vessel, each running           *)
(* src/kos/scripts/boot/dispatch_listener.ks.  A CPU pops one message at a *)
(* time from its inbox; while a script runs it pops nothing, and only the  *)
(* heartbeat trigger interrupts the script.  Everything the CPUs send goes *)
(* to kIPC's one outbound queue, which the save file keeps.                *)
(*                                                                         *)
(* A run_script message carries `id`, the rank of its dispatch, which no   *)
(* code reads: it tells the runs of one script apart in the properties.    *)
(* command_ack, toggle_ag and add_node leave no state here.                *)
(***************************************************************************)
EXTENDS Integers, Sequences, FiniteSets

CONSTANTS
  Cpus,         \* mc CPUs, one per vessel
  Paths,        \* the script names a command may carry
  Scripts,      \* the keys of SCRIPT_SHAPE whose file and arguments are fine
  None,         \* no script, no vessel
  MaxDispatch,  \* bound: scripts ever dispatched
  MaxBoot,      \* bound: sessions ever started
  PingCap       \* bound: pings told apart in one inbox

VARIABLES
  active,   \* the CPU of the active vessel, or None
  cpu,      \* per CPU: [up, boot, run, hbPath, beaten]
  inbox,    \* per CPU, the messages not yet popped
  outbox,   \* kIPC's outbound queue
  boots,    \* sessions started so far
  saved     \* the outbound queue in the last save file

Ping == [op |-> "ping"]
RunScript(path, id) == [op |-> "run_script", path |-> path, id |-> id]

On(boot) == [up |-> TRUE, boot |-> boot, run |-> None, hbPath |-> None, beaten |-> FALSE]
Off(boot) == [On(boot) EXCEPT !.up = FALSE]

Run     == [op : {"run_script"}, path : Paths, id : 0..MaxDispatch]
Event   == [kind : {"heartbeat"}, path : Scripts \cup {None}, boot : 1..MaxBoot,
            active : BOOLEAN]
             \cup [kind : {"script_done"}, path : Paths, boot : 1..MaxBoot, id : 0..MaxDispatch]
Cpu     == [up : BOOLEAN, boot : 1..MaxBoot, run : Run \cup {None},
            hbPath : Scripts \cup {None}, beaten : BOOLEAN]

TypeOK ==
  /\ active \in Cpus \cup {None}
  /\ cpu \in [Cpus -> Cpu]
  /\ inbox \in [Cpus -> Seq({Ping} \cup Run)]
  /\ outbox \in Seq(Event) /\ saved \in Seq(Event)
  /\ boots \in 1..MaxBoot

(* The server may start at any time of a flight; here it finds every CPU   *)
(* in a session of its own, waiting for messages.                          *)
GameInit ==
  /\ active \in Cpus \cup {None}
  /\ boots = Cardinality(Cpus)
  /\ \E number \in [Cpus -> 1..Cardinality(Cpus)] :
       /\ \A c, d \in Cpus : number[c] = number[d] => c = d
       /\ cpu = [c \in Cpus |-> On(number[c])]
  /\ inbox = [c \in Cpus |-> <<>>]
  /\ outbox = <<>>
  /\ saved = <<>>

(* hbPath names the script; `run` lasts until its script_done is sent.     *)
Executing(c) == cpu[c].up /\ cpu[c].hbPath # None
Idle(c) == cpu[c].up /\ cpu[c].run = None

-----------------------------------------------------------------------------
Beat(c) == [kind |-> "heartbeat", path |-> cpu[c].hbPath,
            boot |-> cpu[c].boot, active |-> active = c]
Done(c, run) == [kind |-> "script_done", path |-> run.path, boot |-> cpu[c].boot, id |-> run.id]

SendEvent(ev) == outbox' = Append(outbox, ev)
PopInbox(c) == inbox' = [inbox EXCEPT ![c] = Tail(@)]
Pops(c, op) == Idle(c) /\ inbox[c] # <<>> /\ Head(inbox[c]).op = op

(* The CPU gets power and its boot script starts a session of its own.     *)
(* Whether the queue of the previous session outlives it is kOS's affair.  *)
Boot(c) ==
  /\ ~cpu[c].up /\ boots < MaxBoot
  /\ boots' = boots + 1
  /\ cpu' = [cpu EXCEPT ![c] = On(boots + 1)]
  /\ \/ UNCHANGED inbox
     \/ inbox' = [inbox EXCEPT ![c] = <<>>]
  /\ UNCHANGED <<active, outbox, saved>>

HandlePing(c) ==
  /\ Pops(c, "ping")
  /\ PopInbox(c)
  /\ SendEvent(Beat(c))
  /\ UNCHANGED <<active, cpu, boots, saved>>

(* Any file that exists runs, whatever SCRIPT_SHAPE says of it.            *)
HandleAnyScript(c) ==
  /\ Pops(c, "run_script")
  /\ PopInbox(c)
  /\ LET run == Head(inbox[c]) IN
     cpu' = [cpu EXCEPT ![c].run = run, ![c].hbPath = run.path, ![c].beaten = FALSE]
  /\ UNCHANGED <<active, outbox, boots, saved>>

HandleRunScript(c) ==
  /\ Pops(c, "run_script")
  /\ PopInbox(c)
  /\ LET run == Head(inbox[c]) IN
     IF run.path \in Scripts
     THEN /\ cpu' = [cpu EXCEPT ![c].run = run, ![c].hbPath = run.path, ![c].beaten = FALSE]
          /\ UNCHANGED outbox
     ELSE /\ SendEvent(Done(c, run))
          /\ UNCHANGED cpu
  /\ UNCHANGED <<active, boots, saved>>

(* The trigger fires once per period while a script runs.                  *)
HeartbeatTrigger(c) ==
  /\ Executing(c) /\ ~cpu[c].beaten
  /\ SendEvent(Beat(c))
  /\ cpu' = [cpu EXCEPT ![c].beaten = TRUE]
  /\ UNCHANGED <<active, inbox, boots, saved>>

(* runPath returned: hbPath is cleared first, then script_done is sent.    *)
ScriptReturns(c) ==
  /\ Executing(c)
  /\ cpu' = [cpu EXCEPT ![c].hbPath = None]
  /\ UNCHANGED <<active, inbox, outbox, boots, saved>>

SendDone(c) ==
  /\ cpu[c].run # None /\ cpu[c].hbPath = None
  /\ SendEvent(Done(c, cpu[c].run))
  /\ cpu' = [cpu EXCEPT ![c].run = None]
  /\ UNCHANGED <<active, inbox, boots, saved>>

(* The script aborts and takes the boot script with it, or power is lost.  *)
Die(c) ==
  /\ cpu[c].up
  /\ cpu' = [cpu EXCEPT ![c] = Off(cpu[c].boot)]
  /\ UNCHANGED <<active, inbox, outbox, boots, saved>>

SwitchVessel(c) ==
  /\ active # c
  /\ active' = c
  /\ UNCHANGED <<cpu, inbox, outbox, boots, saved>>

Save ==
  /\ saved' = outbox
  /\ UNCHANGED <<active, cpu, inbox, outbox, boots>>

(* A load reboots every CPU, with nothing in its inbox, and brings the     *)
(* saved outbound queue back: kIPC replays it.                             *)
Load ==
  /\ outbox' = saved
  /\ cpu' = [c \in Cpus |-> Off(cpu[c].boot)]
  /\ inbox' = [c \in Cpus |-> <<>>]
  /\ UNCHANGED <<active, boots, saved>>

-----------------------------------------------------------------------------
(* kRPC delivers a message to a CPU, powered or not.  Pings beyond PingCap *)
(* would only repeat an answer.                                            *)
Pings(c) == Len(SelectSeq(inbox[c], LAMBDA m : m.op = "ping"))

SendMessage(c, m) ==
  inbox' = IF m = Ping /\ Pings(c) >= PingCap THEN inbox
           ELSE [inbox EXCEPT ![c] = Append(@, m)]

(* What the listener does in one period, none of it waiting for the next:  *)
(* answer, start, report the end, and beat if a script still runs.         *)
Settled(c) ==
  \/ ~cpu[c].up
  \/ Idle(c) /\ inbox[c] = <<>>
  \/ Executing(c) /\ cpu[c].beaten

NewPeriod == cpu' = [c \in Cpus |-> [cpu[c] EXCEPT !.beaten = FALSE]]
=============================================================================
