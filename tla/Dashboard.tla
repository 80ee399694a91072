------------------------------ MODULE Dashboard ------------------------------
(***************************************************************************)
(* What stands between an operator and the game: the browser of            *)
(* src/static/index.html, the socket task of src/src/web.rs, the three     *)
(* channels of src/src/main.rs, and the supervisor and the loops of        *)
(* src/src/krpc.rs that feed them.                                         *)
(*                                                                         *)
(* A socket task subscribes to the channels, sends a snapshot and then     *)
(* serves three sources in any order: broadcast events, the watched status *)
(* and the browser's commands.  A browser disables its launch and node     *)
(* buttons while the link says that a script runs, and from a click until  *)
(* it hears of the outcome (`pending`).                                    *)
(*                                                                         *)
(* The game is reduced to what those two depend on: the scripts a CPU has  *)
(* been sent, which run one after the other, and its messages.  The        *)
(* watchdog is reduced to its link (MissionLink has both in full).  The    *)
(* calendar and the wording of errors are left out; "ut" stands for every  *)
(* event that no button waits for, command_ack among them.                 *)
(***************************************************************************)
EXTENDS Integers, Sequences

CONSTANTS
  Clients,     \* browsers
  Scripts,     \* scripts a run_script command names
  None,        \* no script, no command
  Off,         \* ConnStatus::Disconnected
  QueueDepth,  \* COMMAND_QUEUE_DEPTH
  EventDepth,  \* capacity of the broadcast channel
  FeedDepth,   \* frames a socket takes, and the one its task waits to send
  MaxClick,    \* bounds: commands ever sent, UT samples shown,
  MaxUt,       \*   kRPC sessions lost, sockets closed, scripts that die
  MaxCut, MaxClose, MaxDeath

VARIABLES
  up,        \* a kRPC session runs
  status,    \* the watch channel: Off, or the link last published
  link,      \* the watchdog's KosLink
  queue,     \* the command channel
  busy,      \* the command run_dispatcher works on, or None
  scripts,   \* runs sent to the CPU and not over, oldest first
  running,   \* whether the oldest has started
  outbox,    \* messages of the CPU not yet popped
  dead,      \* runs that died and are still watched
  open,      \* per client: the socket is open, its task has subscribed
  served,    \* per client: the snapshot has been taken
  wire,      \* per client: commands on their way to the server
  events,    \* per client: broadcast events not yet forwarded
  changed,   \* per client: the status was published since it was last read
  feed,      \* per client: frames on their way to the browser
  view,      \* per client: lastKos, or Off for null
  pending,   \* per client: the flag of that name
  lost,      \* per client: what could release the buttons has been lost
  spent      \* how often each bounded thing happened

game    == <<scripts, running, outbox, dead>>
server  == <<up, status, link, queue, busy>>
socket  == <<open, served, wire, events, changed, feed>>
browser == <<view, pending>>
vars == <<game, server, socket, browser, lost, spent>>

Budget == [click |-> MaxClick, ut |-> MaxUt, cut |-> MaxCut,
           close |-> MaxClose, death |-> MaxDeath]
Spend(kind) == spent[kind] < Budget[kind] /\ spent' = [spent EXCEPT ![kind] = @ + 1]

HeldOps == Scripts \cup {"plan_circ"}   \* sent with hold: true
Ops     == HeldOps \cup {"toggle_ag"}
KosLink == [up : BOOLEAN, running : Scripts \cup {None}]
NoLink  == [up |-> FALSE, running |-> None]
Command == [op : Ops, from : Clients]
Verdict == {"node_planned", "command_error", "script_done"}
Event   == Verdict \cup {"ut"}
Message == [path : Scripts \cup {None}, done : BOOLEAN]

ASSUME Setting ==
  /\ Off \notin KosLink
  /\ QueueDepth \in Nat /\ EventDepth \in Nat \ {0} /\ FeedDepth \in Nat \ {0}
  /\ \A kind \in DOMAIN Budget : Budget[kind] \in Nat

Show(s) == [kind |-> "status", value |-> s]
Tell(event) == [kind |-> event]

TypeOK ==
  /\ up \in BOOLEAN /\ running \in BOOLEAN
  /\ status \in KosLink \cup {Off} /\ link \in KosLink
  /\ queue \in Seq(Command) /\ Len(queue) <= QueueDepth
  /\ busy \in Command \cup {None}
  /\ scripts \in Seq(Scripts) /\ outbox \in Seq(Message)
  /\ dead \in 0..MaxClick
  /\ open \in [Clients -> BOOLEAN] /\ served \in [Clients -> BOOLEAN]
  /\ changed \in [Clients -> BOOLEAN]
  /\ pending \in [Clients -> BOOLEAN] /\ lost \in [Clients -> BOOLEAN]
  /\ wire \in [Clients -> Seq(Command)]
  /\ view \in [Clients -> KosLink \cup {Off}]
  /\ events \in [Clients -> Seq(Event)]
  /\ \A c \in Clients : Len(events[c]) <= EventDepth /\ Len(feed[c]) <= FeedDepth

Init ==
  /\ up = FALSE /\ status = Off /\ link = NoLink
  /\ queue = <<>> /\ busy = None
  /\ scripts = <<>> /\ running = FALSE /\ outbox = <<>> /\ dead = 0
  /\ open = [c \in Clients |-> FALSE] /\ served = [c \in Clients |-> FALSE]
  /\ wire = [c \in Clients |-> <<>>] /\ feed = [c \in Clients |-> <<>>]
  /\ events = [c \in Clients |-> <<>>]
  /\ changed = [c \in Clients |-> FALSE]
  /\ view = [c \in Clients |-> Off] /\ pending = [c \in Clients |-> FALSE]
  /\ lost = [c \in Clients |-> FALSE]
  /\ spent = [kind \in DOMAIN Budget |-> 0]

-----------------------------------------------------------------------------
(* The channels to the socket tasks.  A broadcast beyond the capacity      *)
(* overwrites the oldest event not yet forwarded (Lagged), which may be a  *)
(* verdict; a watch keeps only the last value.                             *)
LastOf(s, n) == IF Len(s) > n THEN SubSeq(s, Len(s) - n + 1, Len(s)) ELSE s

BroadcastAll(event) ==
  /\ events' = [c \in Clients |-> IF open[c] THEN Append(events[c], event) ELSE <<>>]
  /\ UNCHANGED lost

Broadcast(event) ==
  /\ events' = [c \in Clients |->
       IF open[c] THEN LastOf(Append(events[c], event), EventDepth) ELSE <<>>]
  /\ lost' = [c \in Clients |->
       lost[c] \/ (Len(events[c]) = EventDepth /\ Head(events[c]) \in Verdict)]

(* Nobody is told of another link.                                         *)
SetStatusOnConnect(s) ==
  /\ status' = s
  /\ changed' = IF s # Off /\ status # Off THEN changed
                ELSE [c \in Clients |-> changed[c] \/ open[c]]

SetStatus(s) ==
  /\ status' = s
  /\ changed' = IF s = status THEN changed
                ELSE [c \in Clients |-> changed[c] \/ open[c]]

(* publish_link: only a connected status carries a link.                   *)
PublishLink(l) ==
  /\ link' = l
  /\ IF status = Off THEN UNCHANGED <<status, changed>> ELSE SetStatus(l)

-----------------------------------------------------------------------------
(* The browser.                                                            *)
MayClick(c, op) ==
  /\ open[c] /\ view[c] # Off /\ view[c].up
  /\ op \in HeldOps => view[c].running = None /\ ~pending[c]

Click(c, op) ==
  /\ MayClick(c, op) /\ Spend("click")
  /\ wire' = [wire EXCEPT ![c] = Append(@, [op |-> op, from |-> c])]
  /\ pending' = [pending EXCEPT ![c] = @ \/ op \in HeldOps]
  /\ lost' = [lost EXCEPT ![c] = @ /\ op \notin HeldOps]
  /\ UNCHANGED <<game, server, open, served, events, changed, feed, view>>

(* A status replaces lastKos; it releases the buttons when a script runs   *)
(* or KSP is gone.  So does any verdict, whatever command it is about.    *)
Receive(c) ==
  /\ feed[c] # <<>>
  /\ feed' = [feed EXCEPT ![c] = Tail(@)]
  /\ LET frame == Head(feed[c]) IN
       \/ /\ frame.kind = "status"
          /\ view' = [view EXCEPT ![c] = frame.value]
          /\ pending' = [pending EXCEPT ![c] =
               @ /\ frame.value # Off /\ frame.value.running = None]
       \/ /\ frame.kind \in Verdict
          /\ pending' = [pending EXCEPT ![c] = FALSE]
          /\ UNCHANGED view
       \/ frame.kind \in {"ut", "launch_defaults"} /\ UNCHANGED browser
  /\ UNCHANGED <<game, server, open, served, wire, events, changed, lost, spent>>

(* onclose, and the end of the socket task, wherever it is.                *)
Close(c) ==
  /\ open[c] /\ Spend("close")
  /\ open' = [open EXCEPT ![c] = FALSE] /\ served' = [served EXCEPT ![c] = FALSE]
  /\ wire' = [wire EXCEPT ![c] = <<>>] /\ feed' = [feed EXCEPT ![c] = <<>>]
  /\ events' = [events EXCEPT ![c] = <<>>]
  /\ changed' = [changed EXCEPT ![c] = FALSE]
  /\ view' = [view EXCEPT ![c] = Off] /\ pending' = [pending EXCEPT ![c] = FALSE]
  /\ UNCHANGED <<game, server, lost>>

-----------------------------------------------------------------------------
(* The socket task.  Both channels are subscribed before the first send    *)
(* waits; what is published from then on is kept for the task.             *)
Subscribe(c) ==
  /\ ~open[c]
  /\ open' = [open EXCEPT ![c] = TRUE]
  /\ feed' = [feed EXCEPT ![c] = <<Tell("launch_defaults")>>]
  /\ UNCHANGED <<game, server, served, wire, events, changed, browser, lost, spent>>

(* The last send is through.                                               *)
Free(c) == open[c] /\ Len(feed[c]) < FeedDepth

(* The status is marked as read, and left to the first change.             *)
SnapshotSilent(c) ==
  /\ Free(c) /\ ~served[c]
  /\ served' = [served EXCEPT ![c] = TRUE]
  /\ changed' = [changed EXCEPT ![c] = FALSE]
  /\ UNCHANGED <<game, server, open, wire, feed, events, browser, lost, spent>>

Snapshot(c) ==
  /\ Free(c) /\ ~served[c]
  /\ served' = [served EXCEPT ![c] = TRUE]
  /\ feed' = [feed EXCEPT ![c] = Append(@, Show(status))]
  /\ changed' = [changed EXCEPT ![c] = FALSE]
  /\ UNCHANGED <<game, server, open, wire, events, browser, lost, spent>>

ForwardEvent(c) ==
  /\ Free(c) /\ served[c] /\ events[c] # <<>>
  /\ feed' = [feed EXCEPT ![c] = Append(@, Tell(Head(events[c])))]
  /\ events' = [events EXCEPT ![c] = Tail(@)]
  /\ UNCHANGED <<game, server, open, served, wire, changed, browser, lost, spent>>

ForwardStatus(c) ==
  /\ Free(c) /\ served[c] /\ changed[c]
  /\ feed' = [feed EXCEPT ![c] = Append(@, Show(status))]
  /\ changed' = [changed EXCEPT ![c] = FALSE]
  /\ UNCHANGED <<game, server, open, served, wire, events, browser, lost, spent>>

(* handle_inbound: a command that finds the channel full is dropped, and   *)
(* only the log says so.                                                   *)
TakeCommand(c) ==
  /\ Free(c) /\ served[c] /\ wire[c] # <<>>
  /\ wire' = [wire EXCEPT ![c] = Tail(@)]
  /\ \/ /\ Len(queue) < QueueDepth
        /\ queue' = Append(queue, Head(wire[c]))
        /\ UNCHANGED lost
     \/ /\ Len(queue) >= QueueDepth
        /\ lost' = [lost EXCEPT ![c] = @ \/ Head(wire[c]).op \in HeldOps]
        /\ UNCHANGED queue
  /\ UNCHANGED <<game, up, status, link, busy, open, served, events, changed, feed,
                 browser, spent>>

-----------------------------------------------------------------------------
(* The supervisor.                                                         *)
Connect ==
  /\ ~up
  /\ up' = TRUE
  /\ SetStatus(link)
  /\ UNCHANGED <<game, link, queue, busy, open, served, wire, events, feed, browser, lost, spent>>

(* The command under way is cancelled, in silence; it may have gone out.   *)
(* A message popped at that moment is lost, the end of a script with it.   *)
SessionEnds ==
  /\ up /\ Spend("cut")
  /\ up' = FALSE
  /\ SetStatus(Off)
  /\ busy' = None
  /\ \/ UNCHANGED scripts
     \/ busy # None /\ busy.op \in Scripts /\ scripts' = Append(scripts, busy.op)
  /\ outbox' \in {outbox} \cup {Tail(m) : m \in {outbox} \ {<<>>}}
  /\ lost' = [c \in Clients |-> \/ lost[c]
                                \/ busy # None /\ busy.from = c
                                \/ outbox' # outbox /\ Head(outbox).done]
  /\ UNCHANGED <<running, dead, link, queue, open, served, wire, events, feed, browser>>

(* run_dispatcher.                                                         *)
NextCommand ==
  /\ up /\ busy = None /\ queue # <<>>
  /\ busy' = Head(queue) /\ queue' = Tail(queue)
  /\ UNCHANGED <<game, up, status, link, socket, browser, lost, spent>>

(* A failure is only logged.                                               *)
RefuseSilently ==
  /\ up /\ busy # None
  /\ busy' = None
  /\ UNCHANGED <<game, up, status, link, queue, socket, browser, lost, spent>>

(* Planning, encoding or sending failed.                                   *)
Refuse ==
  /\ up /\ busy # None
  /\ busy' = None
  /\ Broadcast("command_error")
  /\ UNCHANGED <<game, up, status, link, queue, open, served, wire, changed, feed, browser, spent>>

Dispatch ==
  /\ up /\ busy # None
  /\ busy' = None
  /\ scripts' = IF busy.op \in Scripts THEN Append(scripts, busy.op) ELSE scripts
  /\ IF busy.op = "plan_circ" THEN Broadcast("node_planned") ELSE UNCHANGED <<events, lost>>
  /\ UNCHANGED <<running, outbox, dead, up, status, link, queue,
                 open, served, wire, changed, feed, browser, spent>>

(* run_inbox_loop.                                                         *)
PopMessage ==
  /\ up /\ outbox # <<>>
  /\ outbox' = Tail(outbox)
  /\ LET m == Head(outbox) IN
       IF m.done
       THEN /\ PublishLink(IF link.running = m.path THEN [link EXCEPT !.running = None] ELSE link)
            /\ Broadcast("script_done")
       ELSE PublishLink([up |-> TRUE, running |-> m.path]) /\ UNCHANGED <<events, lost>>
  /\ UNCHANGED <<scripts, running, dead, up, queue, busy, open, served, wire, feed, browser, spent>>

(* run_stream_loop, when the deadline of a dead run has come ...           *)
DeclareDead ==
  /\ up /\ dead > 0
  /\ dead' = dead - 1
  /\ PublishLink(NoLink)
  /\ Broadcast("script_done")
  /\ UNCHANGED <<scripts, running, outbox, up, queue, busy, open, served, wire, feed, browser, spent>>

(* ... and otherwise.                                                      *)
ShowUt ==
  /\ up /\ Spend("ut")
  /\ Broadcast("ut")
  /\ UNCHANGED <<game, server, open, served, wire, changed, feed, browser>>

-----------------------------------------------------------------------------
(* The CPU.  One beat waits to be popped at most: the rest repeat it.      *)
Says(path, done) == [path |-> path, done |-> done]

StartScript ==
  /\ scripts # <<>> /\ ~running
  /\ running' = TRUE
  /\ UNCHANGED <<scripts, outbox, dead, server, socket, browser, lost, spent>>

Beat ==
  /\ outbox = <<>>
  /\ LET path == IF running THEN Head(scripts) ELSE None IN
       /\ link # [up |-> TRUE, running |-> path]
       /\ path = None => link.running = None
       /\ outbox' = <<Says(path, FALSE)>>
  /\ UNCHANGED <<scripts, running, dead, server, socket, browser, lost, spent>>

EndScript ==
  /\ running
  /\ running' = FALSE /\ scripts' = Tail(scripts)
  /\ outbox' = Append(outbox, Says(Head(scripts), TRUE))
  /\ UNCHANGED <<dead, server, socket, browser, lost, spent>>

(* A script aborts, and takes what is queued behind it along.  A run sent  *)
(* while the link was down may then be claimed by the CPU that reboots,    *)
(* and no end of it is ever reported (DeadRunSettles in MissionLink).      *)
Die ==
  /\ running /\ Spend("death")
  /\ running' = FALSE /\ scripts' = <<>>
  /\ \/ dead' = dead + Len(scripts) /\ UNCHANGED lost
     \/ ~link.up /\ lost' = [c \in Clients |-> TRUE] /\ UNCHANGED dead
  /\ UNCHANGED <<outbox, server, socket, browser>>

-----------------------------------------------------------------------------
Task(c) == Snapshot(c) \/ ForwardEvent(c) \/ ForwardStatus(c) \/ TakeCommand(c)

Next ==
  \/ \E c \in Clients, op \in Ops : Click(c, op)
  \/ \E c \in Clients : Receive(c) \/ Close(c) \/ Subscribe(c) \/ Task(c)
  \/ Connect \/ SessionEnds \/ NextCommand \/ Refuse \/ Dispatch
  \/ PopMessage \/ DeclareDead \/ ShowUt
  \/ StartScript \/ Beat \/ EndScript \/ Die

Spec == Init /\ [][Next]_vars

(* Every task of the server and every browser keeps running, and while the *)
(* game is played a CPU starts what it was sent and its trigger beats.     *)
(* No script need ever end, KSP need not be reachable, nor anybody click.  *)
(* select! picks a ready source at random, so none of the three starves.   *)
FairSpec ==
  /\ Spec
  /\ \A c \in Clients :
       /\ WF_vars(Receive(c)) /\ WF_vars(Subscribe(c)) /\ WF_vars(Snapshot(c))
       /\ SF_vars(ForwardEvent(c)) /\ SF_vars(ForwardStatus(c)) /\ SF_vars(TakeCommand(c))
  /\ WF_vars(NextCommand) /\ WF_vars(Refuse \/ Dispatch)
  /\ WF_vars(PopMessage) /\ WF_vars(DeclareDead)
  /\ WF_vars(StartScript) /\ WF_vars(running /\ Beat)

-----------------------------------------------------------------------------
(* While a session runs, the status the browsers see is the watchdog's     *)
(* link: every loop that changes the link publishes it, and a new session  *)
(* starts from the link the last one left.                                 *)
Truth == IF up THEN link ELSE Off
LinkPublished == status = Truth

(* No status is lost between the watchdog and a browser, however it races  *)
(* with the snapshot, a reconnect, or a slow socket: once the snapshot has *)
(* been taken, what a browser shows when its last status frame arrives is  *)
(* the watchdog's link while a session runs and Off while none does, or    *)
(* the socket task still has to forward a change.                          *)
StatusAt(c) == {i \in 1..Len(feed[c]) : feed[c][i].kind = "status"}
ShowsLast(c) ==
  /\ StatusAt(c) = {} => view[c] = Truth
  /\ \A i \in StatusAt(c) :
       (\A j \in StatusAt(c) : j <= i) => feed[c][i].value = Truth
StatusReaches == \A c \in Clients : served[c] /\ ~changed[c] => ShowsLast(c)

(* A browser whose socket stays open comes to show a status that lasts,    *)
(* and keeps to it, whatever was coalesced, overwritten or queued before.  *)
ViewConverges ==
  \A c \in Clients :
    <>[][status' = status]_status /\ <>[]open[c] => <>[](view[c] = status)

(* A click on a launch or node button is followed by its release, or what  *)
(* would have brought it is lost, in one of the five ways the code has: a  *)
(* command dropped on a full queue (web.rs:105), a verdict to lag          *)
(* (web.rs:54), the command under way or the script_done just popped when  *)
(* a kRPC session ends (krpc.rs:184), and a run that dies unclaimed.  A    *)
(* new click starts afresh.  A script that never ends releases the buttons *)
(* by its beats, and holds them from then on by the status.                *)
PendingResolves ==
  \A c \in Clients : (pending[c] /\ ~lost[c]) ~> (~pending[c] \/ lost[c])

(* index.html:108-110 promises of `pending` that it is set "between        *)
(* sending a launch or node command and the server confirming it", so no   *)
(* browser lets a second one be clicked while its first is still on its    *)
(* way, queued or being planned.                                           *)
Underway(c) ==
  LET held(m) == m.op \in HeldOps /\ m.from = c
  IN  \/ \E i \in 1..Len(wire[c]) : held(wire[c][i])
      \/ \E i \in 1..Len(queue) : held(queue[i])
      \/ busy # None /\ held(busy)
PendingCovers ==
  \A c \in Clients, op \in HeldOps : Underway(c) => ~MayClick(c, op)
=============================================================================
